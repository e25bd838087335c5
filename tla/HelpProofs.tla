------------------------------ MODULE HelpProofs ------------------------------
(***************************************************************************)
(* The theorem that help reaches every handler below one with a help text, *)
(* at whatever depth, for every tree of handlers and whatever callbacks    *)
(* add to it, on top of the invariant of SubcommandsProofs.                *)
(***************************************************************************)
EXTENDS SubcommandsProofs

(* Handler h is a subcommand of handler p. *)
Link(p, h) == \E name \in DOMAIN tree[p].subs : tree[p].subs[name] = h

(* A handler is a subcommand of one other at most; it is late only if that *)
(* one has help, and has been given a help text only for the same reason.  *)
LinkInv ==
  \A p, h \in DOMAIN tree : Link(p, h) =>
    /\ \A q \in DOMAIN tree : Link(q, h) => q = p
    /\ h \in late => tree[p].added
    /\ tree[h].text /\ h \notin own => tree[p].added /\ h \notin late

TextInv ==
  /\ own \subseteq DOMAIN tree /\ late \subseteq DOMAIN tree
  /\ \A h \in DOMAIN tree : h \in own \/ tree[h].added => tree[h].text
  /\ tree[Root].text => Root \in own

(* The flag of the main handler's own model is there when parsing begins. *)
RootInv ==
  /\ passes \in Nat
  /\ passes = 0 => pc = "rest" /\ \A h \in DOMAIN tree : ~tree[h].added
  /\ passes > 0 /\ tree[Root].model \in OwnHelp => tree[Root].flag = "own"

(* Where the handlers that have parsed are, in the tree. *)
ChainInv ==
  /\ chain \in Seq(DOMAIN tree)
  /\ pc \in {"help", "args"} =>
       chain # <<>> /\ chain[Len(chain)] = cur /\ \A n \in DOMAIN chain : chain[n] <= cur
  /\ pc \in {"activate", "parse"} =>
       IF chain = <<>> THEN cur = Root
       ELSE /\ Link(chain[Len(chain)], cur)
            /\ \A n \in DOMAIN chain : chain[n] <= chain[Len(chain)]

(* The calls of addHelpFlagAndCommand, but for the last one, are in their  *)
(* loops; the subcommands they have still to go to are not late.           *)
CallsInv ==
  \A n \in DOMAIN frames :
    /\ frames[n].at >= cur
    /\ n > 1 => tree[frames[n].at].text
    /\ n < Len(frames) => frames[n].entered
    /\ ~frames[n].entered => frames[n].subs = {}
    /\ \A name \in frames[n].subs : tree[frames[n].at].subs[name] \notin late

(* Help will still come to h, from p. *)
Waits(p, h) ==
  \E n \in DOMAIN frames :
    /\ frames[n].at = p
    /\ \/ \E name \in frames[n].subs : tree[p].subs[name] = h
       \/ n < Len(frames) /\ frames[n + 1].at = h /\ ~frames[n + 1].entered

(* As long as there was no clash, those that help was added to have the    *)
(* flag, and those below them, but for the late ones, have it or wait.     *)
SpreadInv ==
  ~refused =>
    /\ \A h \in DOMAIN tree : tree[h].added <=> tree[h].flag = "help"
    /\ \A p, h \in DOMAIN tree :
         Link(p, h) /\ tree[p].added /\ h \notin late => tree[h].added \/ Waits(p, h)

(* What HelpReachesEveryHandler says, of every handler that has parsed.    *)
Reached(n) == \E j \in 1..n : /\ chain[j] \in own
                              /\ \A k \in (j + 1)..n : chain[k] \notin late

ReachInv ==
  ~refused => \A n \in DOMAIN chain : tree[chain[n]].text <=> Reached(n)

(* Those that have been through addHelpFlagAndCommand in this pass. *)
ParsedInv ==
  \A n \in DOMAIN chain :
    (/\ pc \in {"activate", "parse", "args"} \/ (pc = "help" /\ n < Len(chain))
     /\ tree[chain[n]].text) => tree[chain[n]].added

HInv == LinkInv /\ TextInv /\ RootInv /\ ChainInv /\ CallsInv /\ SpreadInv /\ ReachInv /\ ParsedInv
-----------------------------------------------------------------------------
LEMMA TreeFacts ==
  ASSUME IInv
  PROVE  /\ tree \in Seq(Handler) /\ tree \in [DOMAIN tree -> Handler]
         /\ DOMAIN tree = 1..Len(tree) /\ Len(tree) \in Nat
         /\ Root \in DOMAIN tree /\ cur \in DOMAIN tree
BY DEF IInv, SubsInv, PlaceInv, Root

LEMMA LinksGoDown ==
  ASSUME IInv, NEW p \in DOMAIN tree, NEW h \in DOMAIN tree, Link(p, h)
  PROVE  p < h
<1>1. PICK name \in DOMAIN tree[p].subs : tree[p].subs[name] = h
  BY DEF Link
<1>2. h \in {Usage} \cup (p + 1)..Len(tree)
  BY <1>1 DEF IInv, SubsInv
<1> QED
  BY <1>2, TreeFacts DEF Usage

LEMMA LinksKept ==
  ASSUME IInv, Kept(tree'), NEW p \in DOMAIN tree, NEW h
  PROVE  Link(p, h)' <=> Link(p, h)
BY DEF Kept, Link

(* What most steps leave as it is; a command may give way to another. *)
SameHelp ==
  /\ UNCHANGED <<own, late, refused>>
  /\ DOMAIN tree' = DOMAIN tree
  /\ \A p, h \in DOMAIN tree : Link(p, h)' => Link(p, h)
  /\ \A g \in DOMAIN tree : /\ tree'[g].text = tree[g].text
                            /\ tree'[g].added = tree[g].added
                            /\ tree'[g].model = tree[g].model

LEMMA SameHelpIsGood ==
  ASSUME IInv, HInv, SameHelp
  PROVE  LinkInv' /\ TextInv'
<1>1. Root \in DOMAIN tree
  BY TreeFacts
<1>2. LinkInv'
  BY DEF HInv, LinkInv, SameHelp
<1>3. TextInv'
  BY <1>1 DEF HInv, TextInv, SameHelp, Root
<1> QED
  BY <1>2, <1>3

(* Without calls of addHelpFlagAndCommand no handler waits. *)
LEMMA NobodyWaits ==
  ASSUME IInv, HInv, SameHelp, frames = <<>>,
         ~refused => \A g \in DOMAIN tree : tree'[g].flag = "help" <=> tree[g].flag = "help"
  PROVE  SpreadInv'
<1>1. \A p, h : ~Waits(p, h)
  BY DEF Waits
<1> QED
  BY <1>1 DEF HInv, SpreadInv, SameHelp

(* The handlers that have parsed are as they were. *)
LEMMA SameChain ==
  ASSUME IInv, HInv, SameHelp, chain' = chain
  PROVE  /\ chain' \in Seq(DOMAIN tree')
         /\ ReachInv'
         /\ \A n \in DOMAIN chain : /\ tree'[chain'[n]].text = tree[chain[n]].text
                                    /\ tree'[chain'[n]].added = tree[chain[n]].added
<1>1. \A n \in DOMAIN chain : chain[n] \in DOMAIN tree
  BY DEF HInv, ChainInv
<1>2. ReachInv'
  BY <1>1 DEF HInv, ReachInv, Reached, SameHelp
<1> QED
  BY <1>1, <1>2 DEF HInv, ChainInv, SameHelp

LEMMA QuietHelp ==
  ASSUME IInv, HInv, ActivateReturns \/ HelpFlag \/ HelpCommand \/ EndParse \/ Start \/ Done
  PROVE  HInv'
<1>1. /\ UNCHANGED <<tree, cur, frames, own, late, refused, passes, chain>>
      /\ pc \in {"activate", "args", "complete"}
      /\ pc' \in {"parse", "args", "complete", "usage", "panic", "error", "done"}
      /\ pc' = "args" => pc = "args"
      /\ pc' = "parse" => pc = "activate"
  <2>1. CASE EndParse
    BY <2>1 DEF EndParse, Outcome, history
  <2>2. CASE HelpFlag
    BY <2>2 DEF HelpFlag, Reading, history
  <2> QED
    BY <2>1, <2>2 DEF ActivateReturns, HelpCommand, Start, Done, Goto, Reading, parsing, history
<1>2. frames = <<>>
  BY <1>1 DEF IInv, FramesInv
<1>3. SameHelp
  BY <1>1 DEF SameHelp, Link
<1>4. LinkInv' /\ TextInv'
  BY <1>3, SameHelpIsGood
<1>5. RootInv'
  BY <1>1 DEF HInv, RootInv
<1>6. ChainInv'
  BY <1>1 DEF HInv, ChainInv, Link
<1>7. CallsInv'
  BY <1>1, <1>2 DEF CallsInv
<1>8. SpreadInv'
  BY <1>1, <1>2, <1>3, NobodyWaits
<1>9. ReachInv' /\ ParsedInv'
  BY <1>1, <1>3, SameChain DEF HInv, ParsedInv
<1> QED
  BY <1>4, <1>5, <1>6, <1>7, <1>8, <1>9 DEF HInv
-----------------------------------------------------------------------------
LEMMA InitHelp == Init => HInv
<1> SUFFICES ASSUME Init PROVE HInv
  OBVIOUS
<1>1. PICK kind \in Kinds : /\ tree = <<NewHandler(kind)>>
                            /\ own = IF kind.text THEN {Root} ELSE {}
  BY DEF Init
<1>2. /\ DOMAIN tree = {Root} /\ tree[Root] = NewHandler(kind)
  BY <1>1 DEF Root
<1>3. /\ tree[Root].subs = <<>> /\ tree[Root].added = FALSE /\ tree[Root].flag = "none"
      /\ tree[Root].text = kind.text
  BY <1>2 DEF NewHandler
<1>4. \A p, h \in DOMAIN tree : ~Link(p, h)
  BY <1>2, <1>3 DEF Link
<1>5. LinkInv /\ TextInv
  BY <1>1, <1>2, <1>3, <1>4, KindAssumption DEF LinkInv, TextInv, Init
<1>6. RootInv
  BY <1>2, <1>3 DEF RootInv, Init
<1>7. chain = <<>> /\ frames = <<>> /\ pc = "rest"
  BY DEF Init
<1>8. ChainInv
  BY <1>7 DEF ChainInv
<1>9. CallsInv /\ ReachInv /\ ParsedInv
  BY <1>7 DEF CallsInv, ReachInv, ParsedInv
<1>10. SpreadInv
  BY <1>2, <1>3, <1>4 DEF SpreadInv
<1> QED
  BY <1>5, <1>6, <1>8, <1>9, <1>10 DEF HInv

(* PreWalk may only make --help the model's own. *)
LEMMA WithModelFields ==
  ASSUME IInv, NEW h \in DOMAIN tree
  PROVE  \A g \in DOMAIN tree :
           /\ WithModel(h)[g].text = tree[g].text
           /\ WithModel(h)[g].added = tree[g].added
           /\ WithModel(h)[g].model = tree[g].model
           /\ WithModel(h)[g].flag =
                IF g = h /\ tree[h].model \in OwnHelp THEN "own" ELSE tree[g].flag
<1>1. tree \in [DOMAIN tree -> Handler]
  BY TreeFacts
<1>2. CASE tree[h].model \notin OwnHelp
  BY <1>2 DEF WithModel
<1>3. CASE tree[h].model \in OwnHelp
  <2>1. WithModel(h) = [tree EXCEPT ![h].flag = "own"]
    BY <1>3 DEF WithModel
  <2> QED
    BY <1>1, <1>3, <2>1 DEF Handler
<1> QED
  BY <1>2, <1>3

LEMMA ConfigureHelp == IInv /\ HInv /\ Configure => HInv'
<1> SUFFICES ASSUME IInv, HInv, Configure PROVE HInv'
  OBVIOUS
<1>1. /\ pc \in Outside /\ pc' = "activate" /\ tree' = WithModel(Root) /\ passes' = passes + 1
      /\ cur' = Root /\ chain' = <<>> /\ UNCHANGED <<frames, own, late, refused>>
  BY DEF Configure
<1>2. Root \in DOMAIN tree
  BY TreeFacts
<1>3. \A g \in DOMAIN tree :
        /\ tree'[g].text = tree[g].text
        /\ tree'[g].added = tree[g].added
        /\ tree'[g].model = tree[g].model
        /\ tree'[g].flag = IF g = Root /\ tree[Root].model \in OwnHelp THEN "own" ELSE tree[g].flag
  BY <1>1, <1>2, WithModelFields
<1>4. Kept(tree')
  BY <1>1, <1>2, WithModelKeeps
<1>5. SameHelp
  BY <1>1, <1>3, <1>4, KeptIsGood, LinksKept DEF SameHelp
<1>6. frames = <<>>
  BY <1>1 DEF IInv, FramesInv, Outside
<1>7. ~refused => \A g \in DOMAIN tree : tree'[g].flag = "help" <=> tree[g].flag = "help"
  <2>1. ~refused /\ tree[Root].model \in OwnHelp => tree[Root].flag # "help"
    <3>1. ~refused => (tree[Root].added <=> tree[Root].flag = "help")
      BY <1>2 DEF HInv, SpreadInv
    <3>2. passes = 0 => ~tree[Root].added
      BY <1>2 DEF HInv, RootInv
    <3>3. passes > 0 /\ tree[Root].model \in OwnHelp => tree[Root].flag = "own"
      BY DEF HInv, RootInv
    <3>4. passes = 0 \/ passes > 0
      BY DEF HInv, RootInv
    <3> QED
      BY <3>1, <3>2, <3>3, <3>4
  <2> QED
    BY <1>3, <2>1
<1>8. LinkInv' /\ TextInv' /\ SpreadInv'
  BY <1>5, <1>6, <1>7, SameHelpIsGood, NobodyWaits
<1>9. RootInv'
  BY <1>1, <1>2, <1>3 DEF HInv, RootInv
<1>10. ChainInv' /\ ReachInv' /\ ParsedInv'
  BY <1>1 DEF ChainInv, ReachInv, ParsedInv
<1>11. CallsInv'
  BY <1>1, <1>6 DEF CallsInv
<1> QED
  BY <1>8, <1>9, <1>10, <1>11 DEF HInv

LEMMA SelectHelp == IInv /\ HInv /\ Select => HInv'
<1> SUFFICES ASSUME IInv, HInv, Select PROVE HInv'
  OBVIOUS
<1> DEFINE sub == Me.subs[args[i]]
<1>1. /\ pc = "args" /\ UNCHANGED <<frames, own, late, refused, passes, chain>>
      /\ args[i] \in DOMAIN tree[cur].subs /\ sub # Usage
  BY DEF Select, Reading, IsCommand, Me, history
<1>2. /\ tree \in [DOMAIN tree -> Handler] /\ DOMAIN tree = 1..Len(tree) /\ Len(tree) \in Nat
      /\ cur \in DOMAIN tree /\ Root \in DOMAIN tree
  BY TreeFacts
<1>3. sub \in DOMAIN tree /\ Link(cur, sub)
  <2>1. sub \in {Usage} \cup (cur + 1)..Len(tree)
    BY <1>1, <1>2 DEF IInv, SubsInv, Me
  <2>2. Link(cur, sub)
    BY <1>1 DEF Link, Me
  <2> QED
    BY <1>1, <1>2, <2>1, <2>2
<1>4. sub # Root
  BY <1>2, <1>3, LinksGoDown DEF Root
<1>5. frames = <<>>
  BY <1>1 DEF IInv, FramesInv
<1>6. CASE pc' \in {"panic", "error"} /\ UNCHANGED tree
  <2>1. SameHelp
    BY <1>1, <1>6 DEF SameHelp, Link
  <2>2. LinkInv' /\ TextInv' /\ SpreadInv'
    BY <1>5, <1>6, <2>1, SameHelpIsGood, NobodyWaits
  <2>3. RootInv'
    BY <1>1, <1>6 DEF HInv, RootInv
  <2>4. ChainInv' /\ ReachInv' /\ ParsedInv'
    BY <1>1, <1>6, <2>1, SameChain DEF ChainInv, ParsedInv
  <2>5. CallsInv'
    BY <1>1, <1>5 DEF CallsInv
  <2> QED
    BY <2>2, <2>3, <2>4, <2>5 DEF HInv
<1>7. CASE /\ ~(tree[sub].model \in OwnHelp /\ tree[sub].flag = "help")
           /\ tree' = [WithModel(sub) EXCEPT ![cur].selected = args[i]]
           /\ pc' = "activate" /\ cur' = sub
  <2> DEFINE t == WithModel(sub)
  <2>1. /\ Kept(t)
        /\ \A g \in DOMAIN tree :
             /\ t[g].text = tree[g].text /\ t[g].added = tree[g].added
             /\ t[g].model = tree[g].model
             /\ t[g].flag = IF g = sub /\ tree[sub].model \in OwnHelp THEN "own" ELSE tree[g].flag
    BY <1>3, WithModelKeeps, WithModelFields
  <2>2. tree' = [t EXCEPT ![cur].selected = args[i]]
    BY <1>7
  <2> HIDE DEF t
  <2>3. DOMAIN tree' = DOMAIN tree
    BY <2>1, <2>2 DEF Kept
  <2>4. \A g \in DOMAIN tree : /\ tree'[g].subs = t[g].subs /\ tree'[g].text = t[g].text
                               /\ tree'[g].added = t[g].added /\ tree'[g].model = t[g].model
                               /\ tree'[g].flag = t[g].flag
    <3> TAKE g \in DOMAIN tree
    <3>1. t[g] \in Handler
      BY <2>1 DEF Kept
    <3>2. tree'[g] = IF g = cur THEN [t[g] EXCEPT !.selected = args[i]] ELSE t[g]
      BY <2>1, <2>2 DEF Kept
    <3> QED
      BY <3>1, <3>2 DEF Handler
  <2>5. \A p, h \in DOMAIN tree : Link(p, h)' <=> Link(p, h)
    BY <2>1, <2>4 DEF Kept, Link
  <2>6. SameHelp
    BY <1>1, <2>1, <2>3, <2>4, <2>5 DEF SameHelp
  <2>7. \A g \in DOMAIN tree : tree'[g].flag = "help" <=> tree[g].flag = "help"
    BY <1>7, <2>1, <2>4
  <2>8. LinkInv' /\ TextInv' /\ SpreadInv'
    BY <1>5, <2>6, <2>7, SameHelpIsGood, NobodyWaits
  <2>9. RootInv'
    BY <1>1, <1>2, <1>4, <1>7, <2>1, <2>4 DEF HInv, RootInv
  <2>10. /\ chain' \in Seq(DOMAIN tree') /\ ReachInv'
         /\ \A n \in DOMAIN chain : /\ tree'[chain'[n]].text = tree[chain[n]].text
                                    /\ tree'[chain'[n]].added = tree[chain[n]].added
    BY <1>1, <2>6, SameChain
  <2>11. /\ chain # <<>> /\ chain[Len(chain)] = cur /\ \A n \in DOMAIN chain : chain[n] <= cur
    BY <1>1 DEF HInv, ChainInv
  <2>12. \E name \in DOMAIN tree'[cur].subs : tree'[cur].subs[name] = sub
    <3>1. tree'[cur].subs = tree[cur].subs
      BY <1>2, <2>1, <2>4 DEF Kept
    <3> QED
      BY <1>3, <3>1 DEF Link
  <2>13. Link(chain[Len(chain)], cur)'
    BY <1>1, <1>7, <2>11, <2>12 DEF Link
  <2>14. ChainInv'
    BY <1>1, <1>7, <2>10, <2>11, <2>13 DEF ChainInv
  <2>15. ParsedInv'
    BY <1>1, <1>7, <2>10 DEF HInv, ParsedInv
  <2>16. CallsInv'
    BY <1>1, <1>5 DEF CallsInv
  <2> QED
    BY <2>8, <2>9, <2>10, <2>14, <2>15, <2>16 DEF HInv
<1> QED
  BY <1>6, <1>7 DEF Select
-----------------------------------------------------------------------------
(* A new handler below one that has help already is late. *)
LEMMA AddHelp ==
  ASSUME IInv, HInv, NEW above \in DOMAIN tree, NEW name \in Names, NEW kind \in Kinds,
         Add(above, name, kind)
  PROVE  HInv'
<1>0. PICK new : new = Len(tree) + 1
  OBVIOUS
<1> DEFINE subs == WithCommand(tree[above].subs, name, new)
           more == [tree EXCEPT ![above].subs = subs]
<1>1. /\ tree' = Append(more, NewHandler(kind))
      /\ pc \in {"rest", "done", "error", "complete"} \/ (pc = "activate" /\ above = cur)
      /\ own' = (IF kind.text THEN own \cup {new} ELSE own)
      /\ late' = (IF tree[above].added THEN late \cup {new} ELSE late)
      /\ UNCHANGED <<pc, passes, cur, frames, chain, refused>>
  BY <1>0 DEF Add, parsing
<1>2. /\ tree \in [DOMAIN tree -> Handler] /\ tree \in Seq(Handler)
      /\ DOMAIN tree = 1..Len(tree) /\ Len(tree) \in Nat
      /\ cur \in DOMAIN tree /\ Root \in DOMAIN tree /\ new \in Nat \ {0} /\ new \notin DOMAIN tree
  BY <1>0, TreeFacts
<1>3. /\ DOMAIN more = DOMAIN tree
      /\ \A g \in DOMAIN tree : g # above => more[g] = tree[g]
      /\ more[above] = [tree[above] EXCEPT !.subs = subs]
  BY <1>2
<1>4. /\ Len(more) = Len(tree) /\ more \in Seq({more[g] : g \in DOMAIN tree})
  <2>1. \A g \in 1..Len(tree) : more[g] \in {more[f] : f \in DOMAIN tree}
    BY <1>2
  <2>2. more = [g \in 1..Len(tree) |-> more[g]]
    BY <1>2
  <2> HIDE DEF more
  <2> QED
    BY <1>2, <2>1, <2>2, IsASeq, LenProperties
<1> HIDE DEF more
<1>5. /\ DOMAIN tree' = DOMAIN tree \cup {new}
      /\ \A g \in DOMAIN tree : tree'[g] = more[g]
      /\ tree'[new] = NewHandler(kind)
  <2> DEFINE added == NewHandler(kind)
  <2>1. tree' = Append(more, added)
    BY <1>1
  <2> HIDE DEF added
  <2>2. /\ Len(tree') = Len(more) + 1 /\ DOMAIN tree' = 1..(Len(more) + 1)
        /\ \A g \in 1..Len(more) : tree'[g] = more[g]
        /\ tree'[Len(more) + 1] = added
    <3>1. more \in Seq({more[g] : g \in DOMAIN tree})
      BY <1>4
    <3> QED
      BY <2>1, <3>1, AppendProperties
  <2>3. 1..(Len(tree) + 1) = (1..Len(tree)) \cup {new}
    BY <1>0, <1>2
  <2>4. DOMAIN tree' = DOMAIN tree \cup {new}
    BY <1>2, <1>4, <2>2, <2>3
  <2>5. \A g \in DOMAIN tree : tree'[g] = more[g]
    BY <1>2, <1>4, <2>2
  <2>6. tree'[new] = NewHandler(kind)
    BY <1>0, <1>4, <2>2 DEF added
  <2> QED
    BY <2>4, <2>5, <2>6
<1>6. /\ tree'[new].subs = <<>> /\ tree'[new].text = kind.text /\ tree'[new].added = FALSE
      /\ tree'[new].flag = "none"
  BY <1>5 DEF NewHandler
<1>7. \A g \in DOMAIN tree : /\ tree'[g].text = tree[g].text /\ tree'[g].added = tree[g].added
                             /\ tree'[g].flag = tree[g].flag /\ tree'[g].model = tree[g].model
                             /\ tree'[g].subs = IF g = above THEN subs ELSE tree[g].subs
  BY <1>2, <1>3, <1>5 DEF Handler
<1>8. /\ DOMAIN subs = DOMAIN tree[above].subs \cup {name} /\ subs[name] = new
      /\ \A n \in DOMAIN tree[above].subs \ {name} : subs[n] = tree[above].subs[n]
  BY DEF WithCommand
<1> HIDE DEF subs
<1>9. /\ \A p, h \in DOMAIN tree : Link(p, h)' => Link(p, h)
      /\ \A p \in DOMAIN tree : Link(p, new)' => p = above
      /\ \A h \in DOMAIN tree' : ~Link(new, h)'
  <2>1. ASSUME NEW p \in DOMAIN tree, NEW h \in DOMAIN tree, Link(p, h)'
        PROVE  Link(p, h)
    BY <1>2, <1>7, <1>8, <2>1 DEF Link
  <2>2. ASSUME NEW p \in DOMAIN tree, Link(p, new)'
        PROVE  p = above
    <3>1. CASE p # above
      <4>1. Link(p, new)
        BY <1>7, <2>2, <3>1 DEF Link
      <4>2. PICK n \in DOMAIN tree[p].subs : tree[p].subs[n] = new
        BY <4>1 DEF Link
      <4>3. new \in {Usage} \cup (p + 1)..Len(tree)
        BY <4>2 DEF IInv, SubsInv
      <4> QED
        BY <1>0, <1>2, <4>3 DEF Usage
    <3> QED
      BY <3>1
  <2>3. \A h \in DOMAIN tree' : ~Link(new, h)'
    BY <1>6 DEF Link
  <2>4. \A p \in DOMAIN tree : Link(p, new)' => p = above
    BY <2>2
  <2> QED
    BY <2>1, <2>3, <2>4
<1>10. \A h \in DOMAIN tree : h # new /\ (h \in own' <=> h \in own) /\ (h \in late' <=> h \in late)
  BY <1>1, <1>2
<1>11. LinkInv'
  <2> SUFFICES ASSUME NEW p \in DOMAIN tree', NEW h \in DOMAIN tree', Link(p, h)'
               PROVE  /\ \A q \in DOMAIN tree' : Link(q, h)' => q = p
                      /\ h \in late' => tree'[p].added
                      /\ tree'[h].text /\ h \notin own' => tree'[p].added /\ h \notin late'
    BY DEF LinkInv
  <2>1. p \in DOMAIN tree /\ \A q \in DOMAIN tree' : Link(q, h)' => q \in DOMAIN tree
    BY <1>5, <1>9
  <2>2. CASE h = new
    <3>1. p = above /\ \A q \in DOMAIN tree' : Link(q, h)' => q = above
      BY <1>9, <2>1, <2>2
    <3>2. new \in late' => tree[above].added
      BY <1>1, <1>2 DEF HInv, TextInv
    <3>3. tree'[new].text => new \in own'
      BY <1>1, <1>6
    <3> QED
      BY <1>7, <2>2, <3>1, <3>2, <3>3
  <2>3. CASE h \in DOMAIN tree
    <3>1. Link(p, h) /\ \A q \in DOMAIN tree' : Link(q, h)' => Link(q, h)
      BY <1>9, <2>1, <2>3
    <3>2. /\ \A q \in DOMAIN tree : Link(q, h) => q = p
          /\ h \in late => tree[p].added
          /\ tree[h].text /\ h \notin own => tree[p].added /\ h \notin late
      BY <2>1, <2>3, <3>1 DEF HInv, LinkInv
    <3> QED
      BY <1>7, <1>10, <2>1, <2>3, <3>1, <3>2
  <2> QED
    BY <1>5, <2>2, <2>3
<1>12. TextInv'
  <2>1. own' \subseteq DOMAIN tree' /\ late' \subseteq DOMAIN tree'
    BY <1>1, <1>5 DEF HInv, TextInv
  <2>2. \A h \in DOMAIN tree' : h \in own' \/ tree'[h].added => tree'[h].text
    <3>1. new \in own' => tree'[new].text
      BY <1>1, <1>2, <1>6 DEF HInv, TextInv
    <3> QED
      BY <1>5, <1>6, <1>7, <1>10, <3>1 DEF HInv, TextInv
  <2>3. tree'[Root].text => Root \in own'
    BY <1>2, <1>7, <1>10 DEF HInv, TextInv
  <2> QED
    BY <2>1, <2>2, <2>3 DEF TextInv, Root
<1>13. RootInv'
  BY <1>1, <1>2, <1>5, <1>6, <1>7 DEF HInv, RootInv, Root
<1>14. frames = <<>>
  BY <1>1 DEF IInv, FramesInv
<1>15. \A n \in DOMAIN chain : chain[n] \in DOMAIN tree
  BY DEF HInv, ChainInv
<1>16. ChainInv'
  <2>1. chain' \in Seq(DOMAIN tree')
    BY <1>1, <1>5 DEF HInv, ChainInv
  <2>2. CASE pc # "activate"
    BY <1>1, <2>1, <2>2 DEF ChainInv
  <2>3. CASE pc = "activate" /\ chain = <<>>
    BY <1>1, <2>1, <2>3 DEF HInv, ChainInv
  <2>4. CASE pc = "activate" /\ chain # <<>>
    <3>1. chain[Len(chain)] \in DOMAIN tree
      BY <1>15, <2>4 DEF HInv, ChainInv
    <3>2. Link(chain[Len(chain)], cur) /\ \A n \in DOMAIN chain : chain[n] <= chain[Len(chain)]
      BY <2>4 DEF HInv, ChainInv
    <3>3. chain[Len(chain)] # above
      BY <1>1, <1>2, <2>4, <3>1, <3>2, LinksGoDown
    <3>4. Link(chain[Len(chain)], cur)'
      BY <1>1, <1>7, <3>1, <3>2, <3>3 DEF Link
    <3> QED
      BY <1>1, <2>1, <2>4, <3>2, <3>4 DEF ChainInv
  <2> QED
    BY <2>2, <2>3, <2>4
<1>17. CallsInv'
  BY <1>1, <1>14 DEF CallsInv
<1>18. SpreadInv'
  <2> SUFFICES ASSUME ~refused
               PROVE  /\ \A h \in DOMAIN tree' : tree'[h].added <=> tree'[h].flag = "help"
                      /\ \A p, h \in DOMAIN tree' :
                           Link(p, h)' /\ tree'[p].added /\ h \notin late' => tree'[h].added
    BY <1>1 DEF SpreadInv
  <2>1. \A p, h : ~Waits(p, h)
    BY <1>14 DEF Waits
  <2>2. \A h \in DOMAIN tree' : tree'[h].added <=> tree'[h].flag = "help"
    BY <1>5, <1>6, <1>7 DEF HInv, SpreadInv
  <2>3. ASSUME NEW p \in DOMAIN tree', NEW h \in DOMAIN tree', Link(p, h)', tree'[p].added, h \notin late'
        PROVE  tree'[h].added
    <3>1. p \in DOMAIN tree
      BY <1>5, <1>9, <2>3
    <3>2. h # new
      BY <1>1, <1>7, <1>9, <2>3, <3>1
    <3> QED
      BY <1>5, <1>7, <1>9, <1>10, <2>1, <2>3, <3>1, <3>2 DEF HInv, SpreadInv
  <2> QED
    BY <2>2, <2>3
<1>19. ReachInv' /\ ParsedInv'
  <2>1. DOMAIN chain = 1..Len(chain) /\ Len(chain) \in Nat /\ UNCHANGED <<pc, chain, refused>>
    BY <1>1 DEF HInv, ChainInv
  <2>2. ASSUME NEW n \in DOMAIN chain
        PROVE  /\ tree'[chain[n]].text = tree[chain[n]].text
               /\ tree'[chain[n]].added = tree[chain[n]].added
    BY <1>7, <1>15
  <2>3. ASSUME NEW n \in DOMAIN chain
        PROVE  (chain[n] \in own' <=> chain[n] \in own) /\ (chain[n] \in late' <=> chain[n] \in late)
    BY <1>10, <1>15
  <2>4. ASSUME NEW n \in DOMAIN chain
        PROVE  Reached(n)' <=> Reached(n)
    <3>1. /\ n \in 1..Len(chain)
          /\ \A j \in 1..n : j \in DOMAIN chain /\ \A k \in (j + 1)..n : k \in DOMAIN chain
      BY <2>1
    <3> QED
      BY <2>1, <2>3, <3>1 DEF Reached
  <2>5. ReachInv'
    BY <2>1, <2>2, <2>4 DEF HInv, ReachInv
  <2>6. ParsedInv'
    BY <2>1, <2>2 DEF HInv, ParsedInv
  <2> QED
    BY <2>5, <2>6
<1> QED
  BY <1>11, <1>12, <1>13, <1>16, <1>17, <1>18, <1>19 DEF HInv
-----------------------------------------------------------------------------
(* The handler that begins to parse is the main one or a subcommand of the *)
(* last that parsed: the history of the command line grows by one step.    *)
LEMMA BeginHelp == IInv /\ HInv /\ BeginParse => HInv'
<1> SUFFICES ASSUME IInv, HInv, BeginParse PROVE HInv'
  OBVIOUS
<1> DEFINE first == [at |-> cur, force |-> FALSE, entered |-> FALSE, subs |-> {}]
<1>1. /\ pc = "parse" /\ pc' = "help" /\ frames' = <<first>> /\ chain' = Append(chain, cur)
      /\ UNCHANGED <<passes, cur, own, late, refused>>
  BY DEF BeginParse
<1>2. PICK cleared :
        tree' = [h \in DOMAIN tree |->
                   [tree[h] EXCEPT !.selected = IF h \in cleared THEN None ELSE @,
                                   !.parsed = @ \/ h = cur]]
  BY DEF BeginParse
<1>3. /\ tree \in [DOMAIN tree -> Handler] /\ DOMAIN tree = 1..Len(tree) /\ Len(tree) \in Nat
      /\ cur \in DOMAIN tree /\ Root \in DOMAIN tree
  BY TreeFacts
<1>4. \A h \in DOMAIN tree : /\ tree'[h].subs = tree[h].subs /\ tree'[h].text = tree[h].text
                             /\ tree'[h].added = tree[h].added /\ tree'[h].flag = tree[h].flag
                             /\ tree'[h].model = tree[h].model
  <2> TAKE h \in DOMAIN tree
  <2> DEFINE chosen == IF h \in cleared THEN None ELSE tree[h].selected
             parsed == tree[h].parsed \/ h = cur
  <2>1. tree'[h] = [tree[h] EXCEPT !.selected = chosen, !.parsed = parsed] /\ tree[h] \in Handler
    BY <1>2, <1>3
  <2> HIDE DEF chosen, parsed
  <2> QED
    BY <2>1 DEF Handler
<1>5. SameHelp
  <2>1. DOMAIN tree' = DOMAIN tree
    BY <1>2
  <2> QED
    BY <1>1, <1>4, <2>1 DEF SameHelp, Link
<1>6. frames = <<>>
  BY <1>1 DEF IInv, FramesInv
<1>7. LinkInv' /\ TextInv' /\ SpreadInv'
  BY <1>4, <1>5, <1>6, SameHelpIsGood, NobodyWaits
<1>8. RootInv'
  BY <1>1, <1>3, <1>4, <1>5 DEF HInv, RootInv, SameHelp
<1>9. /\ chain \in Seq(DOMAIN tree) /\ DOMAIN chain = 1..Len(chain) /\ Len(chain) \in Nat
      /\ chain' \in Seq(DOMAIN tree) /\ Len(chain') = Len(chain) + 1
      /\ DOMAIN chain' = 1..(Len(chain) + 1)
      /\ \A n \in DOMAIN chain : chain'[n] = chain[n] /\ chain[n] \in DOMAIN tree
      /\ chain'[Len(chain) + 1] = cur
  BY <1>1, <1>3 DEF HInv, ChainInv
<1>10. chain # <<>> => /\ Len(chain) \in DOMAIN chain /\ Link(chain[Len(chain)], cur)
                       /\ \A n \in DOMAIN chain : chain[n] <= chain[Len(chain)]
  BY <1>1, <1>9 DEF HInv, ChainInv
<1>11. ChainInv'
  <2>1. \A n \in DOMAIN chain' : chain'[n] <= cur
    <3>1. chain # <<>> => chain[Len(chain)] < cur
      <4> SUFFICES ASSUME chain # <<>> PROVE chain[Len(chain)] < cur
        OBVIOUS
      <4>1. chain[Len(chain)] \in DOMAIN tree /\ Link(chain[Len(chain)], cur)
        BY <1>9, <1>10
      <4> QED
        BY <1>3, <4>1, LinksGoDown
    <3>2. ASSUME NEW n \in DOMAIN chain PROVE chain[n] <= cur
      <4>1. chain # <<>> /\ chain[n] <= chain[Len(chain)] /\ Len(chain) \in DOMAIN chain
        BY <1>9, <1>10, <3>2
      <4>2. chain[n] \in Nat /\ chain[Len(chain)] \in Nat /\ cur \in Nat
        BY <1>3, <1>9, <4>1
      <4> QED
        BY <3>1, <4>1, <4>2
    <3> QED
      <4> SUFFICES ASSUME NEW n \in 1..(Len(chain) + 1) PROVE chain'[n] <= cur
        BY <1>9
      <4>1. n \in DOMAIN chain \/ n = Len(chain) + 1
        BY <1>9
      <4>2. n = Len(chain) + 1 => chain'[n] <= cur
        BY <1>3, <1>9
      <4>3. n \in DOMAIN chain => chain'[n] <= cur
        BY <1>9, <3>2
      <4> QED
        BY <4>1, <4>2, <4>3
  <2>2. chain' # <<>>
    BY <1>9
  <2> QED
    BY <1>1, <1>5, <1>9, <2>1, <2>2 DEF ChainInv, SameHelp
<1>12. CallsInv'
  BY <1>1, <1>3 DEF CallsInv
<1>13. ParsedInv'
  <2> SUFFICES ASSUME NEW n \in DOMAIN chain', n < Len(chain'), tree'[chain'[n]].text
               PROVE  tree'[chain'[n]].added
    BY <1>1 DEF ParsedInv
  <2>1. n \in DOMAIN chain
    BY <1>9
  <2> QED
    BY <1>1, <1>4, <1>9, <2>1 DEF HInv, ParsedInv
<1>14. ReachInv'
  <2> SUFFICES ASSUME ~refused, NEW n \in DOMAIN chain'
               PROVE  tree'[chain'[n]].text <=> Reached(n)'
    BY <1>1 DEF ReachInv
  <2>1. Reached(n)' <=> \E j \in 1..n : /\ chain'[j] \in own
                                         /\ \A k \in (j + 1)..n : chain'[k] \notin late
    BY <1>1 DEF Reached
  <2>2. CASE n \in DOMAIN chain
    <3>1. Reached(n)' <=> Reached(n)
      <4>1. \A j \in 1..n : j \in DOMAIN chain /\ \A k \in (j + 1)..n : k \in DOMAIN chain
        BY <1>9, <2>2
      <4> QED
        BY <1>9, <2>1, <4>1 DEF Reached
    <3> QED
      BY <1>4, <1>9, <2>2, <3>1 DEF HInv, ReachInv
  <2>3. CASE n = Len(chain) + 1 /\ chain = <<>>
    <3>1. cur = Root /\ n = 1 /\ chain'[1] = cur
      BY <1>1, <1>9, <2>3 DEF HInv, ChainInv
    <3>2. tree[Root].text <=> Root \in own
      BY <1>3 DEF HInv, TextInv
    <3>3. Reached(n)' <=> Root \in own
      BY <2>1, <3>1
    <3> QED
      BY <1>3, <1>4, <3>1, <3>2, <3>3
  <2>4. CASE n = Len(chain) + 1 /\ chain # <<>>
    <3> DEFINE last == Len(chain)
    <3>1. /\ last \in DOMAIN chain /\ last \in Nat \ {0} /\ chain[last] \in DOMAIN tree
          /\ Link(chain[last], cur) /\ n = last + 1 /\ chain'[n] = cur
      BY <1>9, <1>10, <2>4
    <3>2. Reached(n)' <=> cur \in own \/ (Reached(last) /\ cur \notin late)
      <4>1. ASSUME Reached(n)' PROVE cur \in own \/ (Reached(last) /\ cur \notin late)
        <5>1. PICK j \in 1..n : chain'[j] \in own /\ \A k \in (j + 1)..n : chain'[k] \notin late
          BY <2>1, <4>1
        <5>2. CASE j = n
          BY <3>1, <5>1, <5>2
        <5>3. CASE j # n
          <6>1. j \in 1..last /\ n \in (j + 1)..n
            BY <3>1, <5>3
          <6>2. chain[j] \in own /\ \A k \in (j + 1)..last : chain[k] \notin late
            BY <1>9, <3>1, <5>1, <6>1
          <6> QED
            BY <3>1, <5>1, <6>1, <6>2 DEF Reached
        <5> QED
          BY <5>2, <5>3
      <4>2. ASSUME cur \in own PROVE Reached(n)'
        <5>1. n \in 1..n /\ (n + 1)..n = {}
          BY <3>1
        <5> QED
          BY <2>1, <3>1, <4>2, <5>1
      <4>3. ASSUME Reached(last), cur \notin late PROVE Reached(n)'
        <5>1. PICK j \in 1..last : chain[j] \in own /\ \A k \in (j + 1)..last : chain[k] \notin late
          BY <4>3 DEF Reached
        <5>2. j \in 1..n /\ chain'[j] = chain[j]
          BY <1>9, <3>1
        <5>3. ASSUME NEW k \in (j + 1)..n PROVE chain'[k] \notin late
          <6>1. k = n \/ k \in (j + 1)..last
            BY <3>1
          <6> QED
            BY <1>9, <3>1, <4>3, <5>1, <6>1
        <5> QED
          BY <2>1, <5>1, <5>2, <5>3
      <4> QED
        BY <4>1, <4>2, <4>3
    <3>3. tree[chain[last]].text <=> Reached(last)
      BY <3>1 DEF HInv, ReachInv
    <3>4. tree[chain[last]].text <=> tree[chain[last]].added
      BY <1>1, <3>1 DEF HInv, ParsedInv, TextInv
    <3>5. tree[chain[last]].added /\ cur \notin late => tree[cur].added
      BY <1>3, <1>6, <3>1 DEF HInv, SpreadInv, Waits
    <3>6. tree[cur].text /\ cur \notin own => tree[chain[last]].added /\ cur \notin late
      BY <1>3, <3>1 DEF HInv, LinkInv
    <3>7. (cur \in own => tree[cur].text) /\ (tree[cur].added => tree[cur].text)
      BY <1>3 DEF HInv, TextInv
    <3>8. tree[cur].text <=> cur \in own \/ (Reached(last) /\ cur \notin late)
      BY <3>3, <3>4, <3>5, <3>6, <3>7
    <3> QED
      BY <1>3, <1>4, <3>1, <3>2, <3>8
  <2> QED
    BY <1>9, <2>2, <2>3, <2>4
<1> QED
  BY <1>7, <1>8, <1>11, <1>12, <1>13, <1>14 DEF HInv
-----------------------------------------------------------------------------
(* A call returns when help was added to its handler and to all below, or  *)
(* when the handler that parses has no help text.                          *)
LEMMA PopHelp ==
  ASSUME IInv, HInv, pc = "help", Pop, SameHelp, UNCHANGED <<passes, cur, chain>>,
         \A g \in DOMAIN tree : tree'[g].flag = tree[g].flag,
         \A n \in DOMAIN frames : \A name \in frames[n].subs :
           tree'[frames[n].at].subs[name] = tree[frames[n].at].subs[name],
         tree[Top.at].added \/ ~tree[Top.at].text, Top.subs = {}
  PROVE  HInv'
<1>1. frames' = Front(frames) /\ pc' = IF Len(frames) = 1 THEN "args" ELSE "help"
  BY DEF Pop
<1>2. /\ frames \in Seq(Frame) /\ frames # <<>> /\ Len(frames) \in Nat \ {0}
      /\ DOMAIN frames = 1..Len(frames)
      /\ Top = frames[Len(frames)] /\ Top.at \in DOMAIN tree
      /\ Len(frames) = 1 => Top.at = cur
  BY TopFacts DEF IInv, FramesInv
<1>3. /\ Len(frames') = Len(frames) - 1
      /\ DOMAIN frames' = 1..(Len(frames) - 1)
      /\ \A n \in 1..(Len(frames) - 1) : frames'[n] = frames[n]
  BY <1>1, <1>2, FrontFacts
<1>4. LinkInv' /\ TextInv'
  BY SameHelpIsGood
<1>5. RootInv'
  <2>1. Root \in DOMAIN tree
    BY TreeFacts
  <2> QED
    BY <2>1 DEF HInv, RootInv, SameHelp
<1>6. /\ chain' \in Seq(DOMAIN tree') /\ ReachInv'
      /\ \A n \in DOMAIN chain : /\ tree'[chain[n]].text = tree[chain[n]].text
                                 /\ tree'[chain[n]].added = tree[chain[n]].added
  BY SameChain
<1>7. chain # <<>> /\ chain[Len(chain)] = cur /\ \A n \in DOMAIN chain : chain[n] <= cur
  BY DEF HInv, ChainInv
<1>8. ChainInv'
  BY <1>1, <1>6, <1>7 DEF ChainInv
<1>9. ParsedInv'
  <2> SUFFICES ASSUME NEW n \in DOMAIN chain, tree[chain[n]].text,
                      pc' = "args" \/ n < Len(chain)
               PROVE  tree[chain[n]].added
    BY <1>1, <1>6 DEF ParsedInv
  <2>1. CASE n < Len(chain)
    BY <2>1 DEF HInv, ParsedInv
  <2>2. CASE ~(n < Len(chain))
    <3>1. n = Len(chain)
      BY <2>2 DEF HInv, ChainInv
    <3>2. Top.at = cur
      BY <1>1, <1>2, <2>2
    <3> QED
      BY <1>7, <3>1, <3>2
  <2> QED
    BY <2>1, <2>2
<1>10. CallsInv'
  <2> SUFFICES ASSUME NEW n \in DOMAIN frames'
               PROVE  /\ frames'[n].at >= cur
                      /\ n > 1 => tree'[frames'[n].at].text
                      /\ n < Len(frames') => frames'[n].entered
                      /\ ~frames'[n].entered => frames'[n].subs = {}
                      /\ \A name \in frames'[n].subs : tree'[frames'[n].at].subs[name] \notin late
    BY DEF CallsInv, SameHelp
  <2>1. n \in DOMAIN frames /\ frames'[n] = frames[n] /\ n < Len(frames)
    BY <1>2, <1>3
  <2>2. frames[n].at \in DOMAIN tree
    BY <2>1 DEF IInv, FramesInv
  <2> QED
    BY <2>1, <2>2 DEF HInv, CallsInv, SameHelp
<1>11. SpreadInv'
  <2> SUFFICES ASSUME ~refused, NEW p \in DOMAIN tree, NEW h \in DOMAIN tree,
                      Link(p, h), tree[p].added, h \notin late, ~tree[h].added
               PROVE  Waits(p, h)'
    BY DEF HInv, SpreadInv, SameHelp
  <2>1. PICK n \in DOMAIN frames :
          /\ frames[n].at = p
          /\ \/ \E name \in frames[n].subs : tree[p].subs[name] = h
             \/ n < Len(frames) /\ frames[n + 1].at = h /\ ~frames[n + 1].entered
    BY DEF HInv, SpreadInv, Waits
  <2>2. n # Len(frames)
    BY <1>2, <2>1
  <2>3. n \in DOMAIN frames' /\ frames'[n] = frames[n]
    BY <1>2, <1>3, <2>2
  <2>4. CASE \E name \in frames[n].subs : tree[p].subs[name] = h
    BY <2>1, <2>3, <2>4 DEF Waits
  <2>5. CASE n < Len(frames) /\ frames[n + 1].at = h /\ ~frames[n + 1].entered
    <3>1. n + 1 \in DOMAIN frames /\ n + 1 > 1
      BY <1>2, <2>5
    <3>2. n + 1 = Len(frames)
      BY <1>2, <2>5, <3>1 DEF HInv, CallsInv
    <3>3. Top.at = h /\ tree[h].text
      BY <1>2, <2>5, <3>1, <3>2 DEF HInv, CallsInv
    <3> QED
      BY <3>3
  <2> QED
    BY <2>1, <2>4, <2>5
<1> QED
  BY <1>4, <1>5, <1>6, <1>8, <1>9, <1>10, <1>11 DEF HInv

LEMMA LeaveHelpHelp == IInv /\ HInv /\ LeaveHelp => HInv'
<1> SUFFICES ASSUME IInv, HInv, LeaveHelp PROVE HInv'
  OBVIOUS
<1>0. PICK at \in DOMAIN tree : at = Top.at
  BY TopFacts DEF LeaveHelp
<1> DEFINE subs == WithCommand(tree[at].subs, "help", Usage)
<1>1. /\ pc = "help" /\ Top.entered /\ Top.subs = {} /\ Pop
      /\ UNCHANGED <<passes, cur, chain, own, late, refused>>
      /\ tree' = tree \/ tree' = [tree EXCEPT ![at].subs = subs]
  BY <1>0 DEF LeaveHelp, Pop
<1>2. tree[at].added
  BY <1>0, <1>1, TopFacts
<1>3. /\ tree \in [DOMAIN tree -> Handler] /\ 0 \notin DOMAIN tree
  BY TreeFacts
<1>4. /\ DOMAIN subs = DOMAIN tree[at].subs \cup {"help"} /\ subs["help"] = Usage
      /\ \A n \in DOMAIN tree[at].subs \ {"help"} : subs[n] = tree[at].subs[n]
  BY DEF WithCommand
<1> HIDE DEF subs
<1>5. /\ DOMAIN tree' = DOMAIN tree
      /\ \A g \in DOMAIN tree : /\ tree'[g].text = tree[g].text /\ tree'[g].added = tree[g].added
                                /\ tree'[g].flag = tree[g].flag /\ tree'[g].model = tree[g].model
                                /\ tree'[g].subs = tree[g].subs \/ (g = at /\ tree'[g].subs = subs)
  <2>1. DOMAIN tree' = DOMAIN tree
    BY <1>1
  <2>2. ASSUME NEW g \in DOMAIN tree
        PROVE  \/ tree'[g] = tree[g]
               \/ g = at /\ tree'[g] = [tree[g] EXCEPT !.subs = subs]
    BY <1>1
  <2>3. \A g \in DOMAIN tree : tree[g] \in Handler
    BY <1>3
  <2> QED
    BY <2>1, <2>2, <2>3 DEF Handler
<1>6. SameHelp
  <2>1. ASSUME NEW p \in DOMAIN tree, NEW h \in DOMAIN tree, Link(p, h)'
        PROVE  Link(p, h)
    <3>1. PICK name \in DOMAIN tree'[p].subs : tree'[p].subs[name] = h
      BY <2>1 DEF Link
    <3>2. CASE tree'[p].subs = tree[p].subs
      BY <3>1, <3>2 DEF Link
    <3>3. CASE p = at /\ tree'[p].subs = subs
      BY <1>3, <1>4, <3>1, <3>3 DEF Link, Usage
    <3> QED
      BY <1>5, <3>2, <3>3
  <2> QED
    BY <1>1, <1>5, <2>1 DEF SameHelp
<1>7. \A n \in DOMAIN frames : \A name \in frames[n].subs :
        tree'[frames[n].at].subs[name] = tree[frames[n].at].subs[name]
  <2> TAKE n \in DOMAIN frames
  <2> TAKE name \in frames[n].subs
  <2>1. /\ frames[n].at \in DOMAIN tree
        /\ name \in DOMAIN tree[frames[n].at].subs \ {"help"}
    BY DEF IInv, FramesInv
  <2> QED
    BY <1>4, <1>5, <2>1
<1> QED
  BY <1>0, <1>1, <1>2, <1>5, <1>6, <1>7, PopHelp
-----------------------------------------------------------------------------
(* The next subcommand gets a help text: it has parsed in no way yet, and  *)
(* the call for it follows.                                                *)
LEMMA NextSubHelp == IInv /\ HInv /\ NextSub => HInv'
<1> SUFFICES ASSUME IInv, HInv, NextSub PROVE HInv'
  OBVIOUS
<1>0. PICK above \in DOMAIN tree : above = Top.at
  BY TopFacts DEF NextSub
<1>1. /\ pc = "help" /\ Top.entered
      /\ UNCHANGED <<pc, passes, cur, chain, own, late, refused>>
  BY DEF NextSub, history
<1>2. PICK name \in Top.subs :
        /\ tree' = [tree EXCEPT ![tree[above].subs[name]].text = TRUE]
        /\ frames' = Append([frames EXCEPT ![Len(frames)].subs = @ \ {name}],
                       [at |-> tree[above].subs[name], force |-> TRUE,
                        entered |-> FALSE, subs |-> {}])
  BY <1>0 DEF NextSub
<1>3. /\ frames \in Seq(Frame) /\ Len(frames) \in Nat \ {0} /\ DOMAIN frames = 1..Len(frames)
      /\ Top = frames[Len(frames)] /\ Top \in Frame
      /\ Top.subs \subseteq DOMAIN tree[above].subs \ {"help"}
      /\ tree[above].added
  BY <1>0, <1>1, TopFacts
<1>4. /\ tree \in [DOMAIN tree -> Handler] /\ DOMAIN tree = 1..Len(tree) /\ Len(tree) \in Nat
      /\ Root \in DOMAIN tree /\ cur \in DOMAIN tree
  BY TreeFacts
<1>5. PICK sub \in DOMAIN tree : sub = tree[above].subs[name]
  <2>1. name \in DOMAIN tree[above].subs /\ name # "help"
    BY <1>3
  <2> QED
    BY <1>4, <2>1 DEF IInv, SubsInv
<1>6. Link(above, sub) /\ above < sub
  <2>1. Link(above, sub)
    BY <1>3, <1>5 DEF Link
  <2> QED
    BY <2>1, LinksGoDown
<1>7. above >= cur /\ sub \notin late /\ sub > cur
  <2>1. above >= cur /\ sub \notin late
    BY <1>0, <1>3, <1>5 DEF HInv, CallsInv
  <2> QED
    BY <1>4, <1>6, <2>1
<1>8. /\ DOMAIN tree' = DOMAIN tree
      /\ \A g \in DOMAIN tree : /\ tree'[g].subs = tree[g].subs /\ tree'[g].added = tree[g].added
                                /\ tree'[g].flag = tree[g].flag /\ tree'[g].model = tree[g].model
                                /\ tree'[g].text = IF g = sub THEN TRUE ELSE tree[g].text
  <2>1. DOMAIN tree' = DOMAIN tree
    BY <1>2
  <2>2. ASSUME NEW g \in DOMAIN tree
        PROVE  tree'[g] = IF g = sub THEN [tree[g] EXCEPT !.text = TRUE] ELSE tree[g]
    BY <1>2, <1>5
  <2>3. ASSUME NEW g \in DOMAIN tree
        PROVE  /\ tree'[g].subs = tree[g].subs /\ tree'[g].added = tree[g].added
               /\ tree'[g].flag = tree[g].flag /\ tree'[g].model = tree[g].model
               /\ tree'[g].text = IF g = sub THEN TRUE ELSE tree[g].text
    <3>1. tree[g] \in Handler
      BY <1>4
    <3>2. tree'[g] = IF g = sub THEN [tree[g] EXCEPT !.text = TRUE] ELSE tree[g]
      BY <2>2
    <3>3. CASE g = sub
      BY <3>1, <3>2, <3>3 DEF Handler
    <3>4. CASE g # sub
      BY <3>2, <3>4
    <3> QED
      BY <3>3, <3>4
  <2> QED
    BY <2>1, <2>3
<1>9. \A p, h \in DOMAIN tree : Link(p, h)' <=> Link(p, h)
  BY <1>8 DEF Link
<1>10. /\ Len(frames') = Len(frames) + 1 /\ DOMAIN frames' = 1..(Len(frames) + 1)
       /\ \A n \in 1..(Len(frames) - 1) : frames'[n] = frames[n]
       /\ frames'[Len(frames)].at = above /\ frames'[Len(frames)].entered
       /\ frames'[Len(frames)].subs = Top.subs \ {name}
       /\ frames'[Len(frames) + 1].at = sub /\ ~frames'[Len(frames) + 1].entered
       /\ frames'[Len(frames) + 1].subs = {}
  <2> DEFINE top  == [Top EXCEPT !.subs = @ \ {name}]
             call == [at |-> sub, force |-> TRUE, entered |-> FALSE, subs |-> {}]
             mine == [frames EXCEPT ![Len(frames)] = top]
  <2>1. frames' = Append(mine, call)
    BY <1>2, <1>3, <1>5
  <2>2. /\ top \in Frame /\ top.at = above /\ top.subs = Top.subs \ {name} /\ top.entered
    BY <1>0, <1>1, <1>3 DEF Frame
  <2>3. /\ call.at = sub /\ call.subs = {} /\ ~call.entered /\ call \in Frame
    BY <1>4 DEF Frame
  <2> HIDE DEF top, call
  <2>4. /\ mine \in Seq(Frame) /\ Len(mine) = Len(frames)
        /\ \A n \in DOMAIN frames : mine[n] = IF n = Len(frames) THEN top ELSE frames[n]
    BY <1>3, <2>2
  <2> HIDE DEF mine
  <2>5. /\ Len(frames') = Len(frames) + 1 /\ DOMAIN frames' = 1..(Len(frames) + 1)
        /\ \A n \in 1..Len(frames) : frames'[n] = mine[n]
        /\ frames'[Len(frames) + 1] = call
    BY <1>3, <2>1, <2>3, <2>4
  <2> QED
    BY <1>3, <2>2, <2>3, <2>4, <2>5
<1>11. LinkInv'
  <2> SUFFICES ASSUME NEW p \in DOMAIN tree, NEW h \in DOMAIN tree, Link(p, h)
               PROVE  /\ \A q \in DOMAIN tree : Link(q, h) => q = p
                      /\ h \in late => tree[p].added
                      /\ tree'[h].text /\ h \notin own => tree[p].added /\ h \notin late
    BY <1>1, <1>8, <1>9 DEF LinkInv
  <2>1. h = sub => p = above
    BY <1>6 DEF HInv, LinkInv
  <2> QED
    BY <1>3, <1>7, <1>8, <2>1 DEF HInv, LinkInv
<1>12. TextInv'
  <2>1. sub # Root
    BY <1>4, <1>7 DEF Root
  <2> QED
    BY <1>1, <1>4, <1>8, <2>1 DEF HInv, TextInv, Root
<1>13. RootInv'
  BY <1>1, <1>4, <1>8 DEF HInv, RootInv, Root
<1>14. ChainInv'
  BY <1>1, <1>8 DEF HInv, ChainInv
<1>15. CallsInv'
  <2> SUFFICES ASSUME NEW n \in DOMAIN frames'
               PROVE  /\ frames'[n].at >= cur
                      /\ n > 1 => tree'[frames'[n].at].text
                      /\ n < Len(frames') => frames'[n].entered
                      /\ ~frames'[n].entered => frames'[n].subs = {}
                      /\ \A m \in frames'[n].subs : tree'[frames'[n].at].subs[m] \notin late
    BY <1>1 DEF CallsInv
  <2>1. CASE n = Len(frames) + 1
    <3>1. /\ ~(n < Len(frames')) /\ frames'[n].at = sub /\ frames'[n].subs = {}
      BY <1>3, <1>10, <2>1
    <3>2. tree'[sub].text
      BY <1>8, Zenon
    <3>3. sub >= cur
      BY <1>4, <1>7
    <3> QED
      BY <3>1, <3>2, <3>3
  <2>2. CASE n = Len(frames)
    <3>1. /\ n \in DOMAIN frames /\ frames[n].at = above /\ frames[n].subs = Top.subs
      BY <1>0, <1>3, <2>2
    <3>2. /\ n > 1 => tree[above].text
          /\ \A m \in Top.subs : tree[above].subs[m] \notin late
      BY <3>1 DEF HInv, CallsInv
    <3>3. /\ frames'[n].at = above /\ frames'[n].entered /\ frames'[n].subs \subseteq Top.subs
      BY <1>10, <2>2
    <3>4. n > 1 => tree'[above].text
      BY <1>8, <3>2
    <3> QED
      BY <1>7, <1>8, <3>2, <3>3, <3>4
  <2>3. CASE n \in 1..(Len(frames) - 1)
    <3>1. /\ n \in DOMAIN frames /\ frames'[n] = frames[n] /\ n < Len(frames)
          /\ frames[n].at \in DOMAIN tree
      BY <1>3, <1>10, <2>3 DEF IInv, FramesInv
    <3>2. /\ frames[n].at >= cur /\ frames[n].entered
          /\ n > 1 => tree[frames[n].at].text
          /\ \A m \in frames[n].subs : tree[frames[n].at].subs[m] \notin late
      BY <3>1 DEF HInv, CallsInv
    <3>3. n > 1 => tree'[frames[n].at].text
      BY <1>8, <3>1, <3>2
    <3> QED
      BY <1>8, <3>1, <3>2, <3>3
  <2> QED
    BY <1>3, <1>10, <2>1, <2>2, <2>3
<1>16. SpreadInv'
  <2>1. ASSUME NEW p \in DOMAIN tree, NEW h \in DOMAIN tree, Waits(p, h)
        PROVE  Waits(p, h)'
    <3>1. PICK n \in DOMAIN frames :
            /\ frames[n].at = p
            /\ \/ \E m \in frames[n].subs : tree[p].subs[m] = h
               \/ n < Len(frames) /\ frames[n + 1].at = h /\ ~frames[n + 1].entered
      BY <2>1 DEF Waits
    <3>2. ~(n < Len(frames) /\ ~frames[n + 1].entered)
      <4> SUFFICES ASSUME n < Len(frames), ~frames[n + 1].entered PROVE FALSE
        OBVIOUS
      <4>1. n + 1 \in DOMAIN frames
        BY <1>3
      <4>2. n + 1 # Len(frames)
        BY <1>1, <1>3
      <4> QED
        BY <1>3, <4>1, <4>2 DEF HInv, CallsInv
    <3>3. PICK m \in frames[n].subs : tree[p].subs[m] = h
      BY <3>1, <3>2
    <3>4. CASE n # Len(frames)
      <4>1. n \in DOMAIN frames' /\ frames'[n] = frames[n]
        BY <1>3, <1>10, <3>4
      <4> QED
        BY <1>8, <3>1, <3>3, <4>1 DEF Waits
    <3>5. CASE n = Len(frames)
      <4>1. n \in DOMAIN frames' /\ p = above /\ m \in Top.subs
        BY <1>0, <1>3, <1>10, <3>1, <3>5
      <4>2. CASE m = name
        <5>1. h = sub /\ n < Len(frames')
          BY <1>3, <1>5, <1>10, <3>3, <3>5, <4>1, <4>2
        <5> QED
          BY <1>10, <3>5, <4>1, <5>1 DEF Waits
      <4>3. CASE m # name
        BY <1>8, <1>10, <3>3, <3>5, <4>1, <4>3 DEF Waits
      <4> QED
        BY <4>2, <4>3
    <3> QED
      BY <3>4, <3>5
  <2> QED
    BY <1>1, <1>8, <1>9, <2>1 DEF HInv, SpreadInv
<1>17. ReachInv' /\ ParsedInv'
  <2>1. ASSUME NEW n \in DOMAIN chain
        PROVE  /\ tree'[chain[n]].text = tree[chain[n]].text
               /\ tree'[chain[n]].added = tree[chain[n]].added
    <3>1. chain[n] \in DOMAIN tree /\ chain[n] <= cur
      BY <1>1 DEF HInv, ChainInv
    <3>2. chain[n] # sub
      BY <1>4, <1>7, <3>1
    <3>3. tree[chain[n]].text \in BOOLEAN
      BY <1>4, <3>1 DEF Handler
    <3> QED
      BY <1>8, <3>1, <3>2, <3>3
  <2>2. ReachInv'
    BY <1>1, <2>1 DEF HInv, ReachInv, Reached
  <2>3. ParsedInv'
    BY <1>1, <2>1 DEF HInv, ParsedInv
  <2> QED
    BY <2>2, <2>3
<1> QED
  BY <1>11, <1>12, <1>13, <1>14, <1>15, <1>16, <1>17 DEF HInv
-----------------------------------------------------------------------------
(* Help is noted at the handler of the last call, which has a help text.   *)
LEMMA NotedHelp ==
  ASSUME IInv, HInv, pc = "help", NEW h \in DOMAIN tree, tree[h].text, UNCHANGED <<passes, own, late>>,
         \/ tree[h].flag # "none" /\ tree' = [tree EXCEPT ![h].added = TRUE]
         \/ tree[h].flag = "none" /\ tree' = [tree EXCEPT ![h].added = TRUE, ![h].flag = "help"]
  PROVE  /\ LinkInv' /\ TextInv' /\ RootInv'
         /\ DOMAIN tree' = DOMAIN tree
         /\ \A g \in DOMAIN tree : /\ tree'[g].subs = tree[g].subs /\ tree'[g].text = tree[g].text
                                   /\ tree'[g].added = IF g = h THEN TRUE ELSE tree[g].added
                                   /\ g # h => tree'[g].flag = tree[g].flag
<1>1. /\ tree \in [DOMAIN tree -> Handler] /\ Root \in DOMAIN tree
  BY TreeFacts
<1>2. DOMAIN tree' = DOMAIN tree
  OBVIOUS
<1>3. \A g \in DOMAIN tree : /\ tree'[g].subs = tree[g].subs /\ tree'[g].text = tree[g].text
                             /\ tree'[g].model = tree[g].model
                             /\ tree'[g].added = IF g = h THEN TRUE ELSE tree[g].added
                             /\ tree[g].flag # "none" => tree'[g].flag = tree[g].flag
                             /\ g # h => tree'[g].flag = tree[g].flag
  <2> TAKE g \in DOMAIN tree
  <2>1. tree[g] \in Handler
    BY <1>1
  <2>2. \/ g # h /\ tree'[g] = tree[g]
        \/ g = h /\ tree[g].flag # "none" /\ tree'[g] = [tree[g] EXCEPT !.added = TRUE]
        \/ g = h /\ tree[g].flag = "none"
           /\ tree'[g] = [tree[g] EXCEPT !.added = TRUE, !.flag = "help"]
    BY <1>1
  <2> QED
    BY <2>1, <2>2 DEF Handler
<1>4. \A p, g \in DOMAIN tree : Link(p, g)' <=> Link(p, g)
  BY <1>3 DEF Link
<1>5. LinkInv'
  BY <1>2, <1>3, <1>4 DEF HInv, LinkInv
<1>6. TextInv'
  BY <1>1, <1>2, <1>3 DEF HInv, TextInv, Root
<1>7. RootInv'
  <2>1. passes \in Nat /\ passes # 0 /\ (tree[Root].model \in OwnHelp => tree[Root].flag = "own")
    BY DEF HInv, RootInv
  <2>2. tree'[Root].model \in OwnHelp => tree'[Root].flag = "own"
    BY <1>1, <1>3, <2>1
  <2> QED
    BY <2>1, <2>2 DEF RootInv, Root
<1> QED
  BY <1>2, <1>3, <1>5, <1>6, <1>7

LEMMA EnterHelpHelp == IInv /\ HInv /\ EnterHelp => HInv'
<1> SUFFICES ASSUME IInv, HInv, EnterHelp PROVE HInv'
  OBVIOUS
<1>0. PICK h \in DOMAIN tree : h = Top.at
  BY TopFacts DEF EnterHelp
<1>1. /\ pc = "help" /\ ~Top.entered /\ UNCHANGED <<passes, cur, chain, own, late>>
  BY DEF EnterHelp
<1>2. /\ frames \in Seq(Frame) /\ Len(frames) \in Nat \ {0} /\ DOMAIN frames = 1..Len(frames)
      /\ Top = frames[Len(frames)] /\ Top \in Frame /\ Len(frames) \in DOMAIN frames
  BY <1>1, TopFacts
<1>3. Top.subs = {}
  BY <1>1, <1>2 DEF HInv, CallsInv
<1>4. CASE Pop /\ UNCHANGED tree /\ (tree[h].added \/ ~tree[h].text)
  <2>1. SameHelp
    BY <1>1, <1>4 DEF SameHelp, Link, Pop
  <2> QED
    BY <1>0, <1>1, <1>3, <1>4, <2>1, PopHelp
<1>5. CASE /\ Refuse /\ tree[h].text
           /\ \/ tree[h].flag # "none" /\ tree' = [tree EXCEPT ![h].added = TRUE]
              \/ tree[h].flag = "none" /\ tree' = [tree EXCEPT ![h].added = TRUE, ![h].flag = "help"]
  <2>1. /\ LinkInv' /\ TextInv' /\ RootInv' /\ DOMAIN tree' = DOMAIN tree
    BY <1>1, <1>5, NotedHelp
  <2>2. pc' = "error" /\ frames' = <<>> /\ refused'
    BY <1>5 DEF Refuse
  <2>3. ChainInv' /\ CallsInv' /\ SpreadInv' /\ ReachInv' /\ ParsedInv'
    BY <1>1, <2>1, <2>2 DEF HInv, ChainInv, CallsInv, SpreadInv, ReachInv, ParsedInv
  <2> QED
    BY <2>1, <2>3 DEF HInv
<1>6. CASE /\ ~tree[h].added /\ tree[h].text /\ tree[h].flag = "none"
           /\ tree' = [tree EXCEPT ![h].added = TRUE, ![h].flag = "help"]
           /\ "help" \notin DOMAIN tree[h].subs
           /\ frames' = [frames EXCEPT ![Len(frames)] =
                [@ EXCEPT !.entered = TRUE, !.subs = DOMAIN tree[h].subs]]
           /\ UNCHANGED <<pc, refused>>
  <2>1. /\ LinkInv' /\ TextInv' /\ RootInv' /\ DOMAIN tree' = DOMAIN tree
        /\ \A g \in DOMAIN tree : /\ tree'[g].subs = tree[g].subs /\ tree'[g].text = tree[g].text
                                  /\ tree'[g].added = IF g = h THEN TRUE ELSE tree[g].added
                                  /\ g # h => tree'[g].flag = tree[g].flag
    BY <1>1, <1>6, NotedHelp
  <2>2. \A p, g \in DOMAIN tree : Link(p, g)' <=> Link(p, g)
    BY <2>1 DEF Link
  <2>3. /\ DOMAIN frames' = DOMAIN frames /\ Len(frames') = Len(frames)
        /\ \A n \in DOMAIN frames : n # Len(frames) => frames'[n] = frames[n]
        /\ frames'[Len(frames)].at = h /\ frames'[Len(frames)].entered
        /\ frames'[Len(frames)].subs = DOMAIN tree[h].subs
    <3> DEFINE top == [Top EXCEPT !.entered = TRUE, !.subs = DOMAIN tree[h].subs]
    <3>1. top.at = h /\ top.entered /\ top.subs = DOMAIN tree[h].subs
      BY <1>0, <1>2 DEF Frame
    <3>2. frames' = [frames EXCEPT ![Len(frames)] = top]
      BY <1>2, <1>6
    <3> HIDE DEF top
    <3> QED
      BY <1>2, <3>1, <3>2
  <2>4. ChainInv'
    BY <1>1, <1>6, <2>1 DEF HInv, ChainInv
  <2>5. \A name \in DOMAIN tree[h].subs : tree[h].subs[name] \notin late
    <3> SUFFICES ASSUME NEW name \in DOMAIN tree[h].subs, tree[h].subs[name] \in late
                 PROVE  FALSE
      OBVIOUS
    <3>1. PICK g \in DOMAIN tree : g = tree[h].subs[name]
      BY DEF HInv, TextInv
    <3>2. Link(h, g)
      BY <3>1 DEF Link
    <3> QED
      BY <1>6, <3>1, <3>2 DEF HInv, LinkInv
  <2>6. CallsInv'
    <3> SUFFICES ASSUME NEW n \in DOMAIN frames
                 PROVE  /\ frames'[n].at >= cur
                        /\ n > 1 => tree'[frames'[n].at].text
                        /\ n < Len(frames) => frames'[n].entered
                        /\ ~frames'[n].entered => frames'[n].subs = {}
                        /\ \A m \in frames'[n].subs : tree'[frames'[n].at].subs[m] \notin late
      BY <1>1, <2>3 DEF CallsInv
    <3>1. /\ frames[n].at >= cur /\ frames[n].at \in DOMAIN tree
          /\ n > 1 => tree[frames[n].at].text
          /\ n < Len(frames) => frames[n].entered
          /\ ~frames[n].entered => frames[n].subs = {}
          /\ \A m \in frames[n].subs : tree[frames[n].at].subs[m] \notin late
      BY DEF HInv, CallsInv, IInv, FramesInv
    <3>2. CASE n # Len(frames)
      <4>1. /\ frames'[n] = frames[n] /\ tree'[frames[n].at].text = tree[frames[n].at].text
            /\ tree'[frames[n].at].subs = tree[frames[n].at].subs
        BY <2>1, <2>3, <3>1, <3>2
      <4> QED
        BY <3>1, <4>1
    <3>3. CASE n = Len(frames)
      <4>1. frames[n].at = h /\ ~(n < Len(frames))
        BY <1>0, <1>2, <3>3
      <4> QED
        BY <1>6, <2>1, <2>3, <2>5, <3>1, <3>3, <4>1
    <3> QED
      BY <3>2, <3>3
  <2>7. SpreadInv'
    <3> SUFFICES ASSUME ~refused
                 PROVE  /\ \A g \in DOMAIN tree : tree'[g].added <=> tree'[g].flag = "help"
                        /\ \A p, g \in DOMAIN tree :
                             Link(p, g) /\ tree'[p].added /\ g \notin late
                             => tree'[g].added \/ Waits(p, g)'
      BY <1>1, <1>6, <2>1, <2>2 DEF SpreadInv
    <3>1. tree'[h].flag = "help"
      <4>1. tree[h] \in Handler /\ tree'[h] = [tree[h] EXCEPT !.added = TRUE, !.flag = "help"]
        BY <1>6, TreeFacts
      <4> QED
        BY <4>1 DEF Handler
    <3>2. \A g \in DOMAIN tree : tree'[g].added <=> tree'[g].flag = "help"
      BY <2>1, <3>1 DEF HInv, SpreadInv
    <3>3. ASSUME NEW p \in DOMAIN tree, NEW g \in DOMAIN tree,
                 Link(p, g), tree'[p].added, g \notin late, g # h
          PROVE  tree'[g].added \/ Waits(p, g)'
      <4>1. CASE p = h
        <5>1. PICK name \in DOMAIN tree[h].subs : tree[h].subs[name] = g
          BY <3>3, <4>1 DEF Link
        <5>2. name \in frames'[Len(frames)].subs /\ tree'[p].subs[name] = g
          BY <2>1, <2>3, <4>1, <5>1
        <5> QED
          BY <1>2, <2>3, <4>1, <5>2 DEF Waits
      <4>2. CASE p # h
        <5>1. tree[g].added \/ Waits(p, g)
          BY <2>1, <3>3, <4>2 DEF HInv, SpreadInv
        <5>2. CASE Waits(p, g)
          <6>1. PICK n \in DOMAIN frames :
                  /\ frames[n].at = p
                  /\ \/ \E name \in frames[n].subs : tree[p].subs[name] = g
                     \/ n < Len(frames) /\ frames[n + 1].at = g /\ ~frames[n + 1].entered
            BY <5>2 DEF Waits
          <6>2. frames'[n] = frames[n]
            BY <1>0, <1>2, <2>3, <4>2, <6>1
          <6>3. ~(n < Len(frames) /\ frames[n + 1].at = g /\ ~frames[n + 1].entered)
            <7> SUFFICES ASSUME n < Len(frames), frames[n + 1].at = g, ~frames[n + 1].entered
                         PROVE  FALSE
              OBVIOUS
            <7>1. n + 1 \in DOMAIN frames
              BY <1>2
            <7>2. n + 1 # Len(frames)
              BY <1>0, <1>2, <3>3
            <7> QED
              BY <1>2, <7>1, <7>2 DEF HInv, CallsInv
          <6>4. \E name \in frames[n].subs : tree[p].subs[name] = g
            BY <6>1, <6>3
          <6>5. n \in DOMAIN frames' /\ frames'[n].at = p /\ frames'[n].subs = frames[n].subs
            BY <2>3, <6>1, <6>2
          <6>6. tree'[p].subs = tree[p].subs
            BY <2>1
          <6> QED
            BY <6>4, <6>5, <6>6 DEF Waits
        <5> QED
          BY <2>1, <3>3, <5>1, <5>2
      <4> QED
        BY <4>1, <4>2
    <3>4. tree'[h].added
      BY <2>1
    <3> QED
      BY <3>2, <3>3, <3>4
  <2>8. ReachInv' /\ ParsedInv'
    <3>1. \A n \in DOMAIN chain : chain[n] \in DOMAIN tree
      BY DEF HInv, ChainInv
    <3>2. ReachInv'
      BY <1>1, <1>6, <2>1, <3>1 DEF HInv, ReachInv, Reached
    <3>3. ParsedInv'
      BY <1>1, <1>6, <2>1, <3>1 DEF HInv, ParsedInv
    <3> QED
      BY <3>2, <3>3
  <2> QED
    BY <2>1, <2>4, <2>6, <2>7, <2>8 DEF HInv
<1> QED
  BY <1>0, <1>4, <1>5, <1>6 DEF EnterHelp
-----------------------------------------------------------------------------
LEMMA HStep == IInv /\ HInv /\ [Next]_vars => HInv'
<1> SUFFICES ASSUME IInv, HInv, [Next]_vars PROVE HInv'
  OBVIOUS
<1>1. CASE \E h \in DOMAIN tree, name \in Names, kind \in Kinds : Add(h, name, kind)
  BY <1>1, AddHelp
<1>2. CASE Configure
  BY <1>2, ConfigureHelp
<1>3. CASE BeginParse
  BY <1>3, BeginHelp
<1>4. CASE EnterHelp
  BY <1>4, EnterHelpHelp
<1>5. CASE NextSub
  BY <1>5, NextSubHelp
<1>6. CASE LeaveHelp
  BY <1>6, LeaveHelpHelp
<1>7. CASE Select
  BY <1>7, SelectHelp
<1>8. CASE ActivateReturns \/ HelpFlag \/ HelpCommand \/ EndParse \/ Start \/ Done
  BY <1>8, QuietHelp
<1>9. CASE UNCHANGED vars
  <2>1. UNCHANGED <<tree, pc, passes, cur, frames, chain, own, late, refused>>
    BY <1>9 DEF vars, parsing, history
  <2> QED
    BY <2>1 DEF HInv, LinkInv, TextInv, RootInv, ChainInv, CallsInv, SpreadInv, ReachInv,
                ParsedInv, Link, Waits, Reached
<1> QED
  BY <1>1, <1>2, <1>3, <1>4, <1>5, <1>6, <1>7, <1>8, <1>9 DEF Next

(* The handler that parses has help, or will not have it in this pass,     *)
(* just as its chain says.                                                 *)
LEMMA HelpIsReached == IInv /\ HInv => HelpReachesEveryHandler
<1> SUFFICES ASSUME IInv, HInv, pc = "args", ~refused
             PROVE  Me.flag = "help" <=>
                      \E j \in DOMAIN chain : /\ chain[j] \in own
                                              /\ \A k \in (j + 1)..Len(chain) : chain[k] \notin late
  BY DEF HelpReachesEveryHandler
<1>1. cur \in DOMAIN tree
  BY TreeFacts
<1>2. chain \in Seq(DOMAIN tree) /\ chain # <<>> /\ chain[Len(chain)] = cur
  BY DEF HInv, ChainInv
<1>3. DOMAIN chain = 1..Len(chain) /\ Len(chain) \in DOMAIN chain
  BY <1>2
<1>4. tree[cur].flag = "help" <=> tree[cur].added
  BY <1>1 DEF HInv, SpreadInv
<1>5. tree[cur].added <=> tree[cur].text
  BY <1>1, <1>2, <1>3 DEF HInv, ParsedInv, TextInv
<1>6. tree[cur].text <=> Reached(Len(chain))
  BY <1>2, <1>3 DEF HInv, ReachInv
<1> QED
  BY <1>3, <1>4, <1>5, <1>6 DEF Reached, Me

(* Whatever the tree, the callbacks and the command lines, and however     *)
(* often Configure is called: the handler that parses has --help exactly   *)
(* if it or one above it was made with a help text and none in between was *)
(* added too late, unless help has clashed with a flag or a command.       *)
THEOREM HelpReaches == Spec => []HelpReachesEveryHandler
<1>1. Init => IInv /\ HInv
  BY InitIsGood, InitHelp
<1>2. IInv /\ HInv /\ [Next]_vars => IInv' /\ HInv'
  BY StepIsGood, HStep
<1>3. IInv /\ HInv => HelpReachesEveryHandler
  BY HelpIsReached
<1> QED
  BY <1>1, <1>2, <1>3, PTL DEF Spec
=============================================================================

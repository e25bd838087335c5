-------------------------- MODULE FillerCollection --------------------------
(***************************************************************************)
(* The life of one collection of fillers (fillers.go, CollectionOps): the  *)
(* options of NewRegistry build it, then the recursion of a fill goes on   *)
(* with a copy of it, a copy of the copy, and so on.  The variable c is    *)
(* the collection the program works with at that point of the recursion.   *)
(***************************************************************************)
EXTENDS CollectionOps

CONSTANT MaxOptions   \* bound: options handed to NewRegistry

ASSUME OptionAssumption == MaxOptions \in Nat

VARIABLES
  c,         \* the collection in use
  options,   \* how many options NewRegistry has applied; MaxOptions + 1 when
             \* the registry is built
  crashed    \* Clean panicked

(* History variables, which no step depends on. *)
VARIABLES
  returned,  \* the tags that were registered again while the order still
             \* named them from before they were removed
  copied     \* the program works with a copy

vars == <<c, options, crashed, returned, copied>>

Building == options <= MaxOptions

Init ==
  /\ c = NewCollection /\ options = 0 /\ crashed = FALSE
  /\ returned = {} /\ copied = FALSE

(* One option of NewRegistry. *)
Option(f) ==
  /\ ~crashed /\ options < MaxOptions
  /\ c' = f
  /\ options' = options + 1
  /\ UNCHANGED <<crashed, copied>>

OptionWithFiller(tag, filler) ==
  /\ Option(AddTag(c, tag, filler))
  /\ returned' = returned \cup ({tag} \cap Stale(c))

OptionDropFiller(tag) ==
  /\ Option(AddTag(c, tag, NoFiller))
  /\ UNCHANGED returned

OptionWithoutFillers ==
  /\ Option(NewCollection)
  /\ returned' = {}

(* NewRegistry returns. *)
Built ==
  /\ ~crashed /\ Building
  /\ options' = MaxOptions + 1
  /\ UNCHANGED <<c, crashed, returned, copied>>

(* Every use of the built registry begins with a Clean. *)
Use(f) ==
  /\ ~crashed /\ ~Building
  /\ IF CleanPanics(c) THEN crashed' = TRUE /\ UNCHANGED c
                       ELSE c' = f /\ UNCHANGED crashed
  /\ UNCHANGED <<options, returned>>

(* A loop over Order() cleans the collection in place.  The one of         *)
(* ConfigFile stores the filler that has read the file instead of the old  *)
(* one; the other loops replace nothing.                                   *)
Order(replaced) ==
  /\ DOMAIN replaced \subseteq DOMAIN c.m
  /\ Use(FoldSet(LAMBDA t, f : AddTag(f, t, replaced[t]), Clean(c), DOMAIN replaced))
  /\ UNCHANGED copied

(* A request with fillers of its own works with a copy of the registry's,  *)
(* to which its own are added in their order.  Its own are a collection,   *)
(* too, built and ordered as the registry's is; a tag that their order     *)
(* names twice is added twice, the second time to no effect.               *)
RequestFillers(own) ==
  /\ Use(FoldLeft(LAMBDA f, e : AddTag(f, e.tag, e.filler), Copy(c), own))
  /\ copied' = TRUE

(* Going down one level, the fill works with a copy in which every filler  *)
(* has given way to the one for the level below, or to nil when it has     *)
(* nothing to fill there.  The order in which Go ranges over the map is    *)
(* immaterial: an Add of a tag that is in the map leaves the order alone.  *)
Recurse(below) ==
  /\ DOMAIN below = DOMAIN c.m
  /\ Use(FoldSet(LAMBDA t, f : AddTag(f, t, below[t]), Copy(c), DOMAIN below))
  /\ copied' = TRUE

(* fillField asks the pairs and drops those fillers that have filled the   *)
(* field and were named by one of its tags.                                *)
FillField(filled) ==
  /\ filled \subseteq DOMAIN c.m
  /\ Use(FoldSet(LAMBDA t, f : RemoveTag(f, t), Clean(c), filled))
  /\ UNCHANGED copied

(* The fillers a request brings: at most two, of different tags. *)
Own == {own \in UNION {[1..n -> [tag : Tags, filler : Fillers]] : n \in 1..2} :
          \A i, j \in DOMAIN own : own[i].tag = own[j].tag => i = j}

Next ==
  \/ \E tag \in Tags, filler \in Fillers : OptionWithFiller(tag, filler)
  \/ \E tag \in Tags : OptionDropFiller(tag)
  \/ OptionWithoutFillers
  \/ Built
  \/ \E replaced \in UNION {[T -> Fillers] : T \in SUBSET DOMAIN c.m} : Order(replaced)
  \/ \E own \in Own : RequestFillers(own)
  \/ \E below \in [DOMAIN c.m -> Fillers \cup {NoFiller}] : Recurse(below)
  \/ \E filled \in SUBSET DOMAIN c.m : FillField(filled)

Spec == Init /\ [][Next]_vars
-----------------------------------------------------------------------------
(* The types of the collection (fillers.go:8-12): no nil filler is stored. *)
TypeOK ==
  /\ c \in Collection
  /\ options \in 0..(MaxOptions + 1)
  /\ crashed \in BOOLEAN
  /\ returned \subseteq Tags
  /\ copied \in BOOLEAN

(* Field tags without repetition; they may name tags that have no filler. *)
FieldTags == {s \in UNION {[1..n -> Tags] : n \in 0..2} :
                \A i, j \in DOMAIN s : s[i] = s[j] => i = j}

Places(asked, tag) == {i \in DOMAIN asked : asked[i].forced = tag}

(* What pairs() asks about a field, whatever tags the field carries        *)
(* (fillers.go:106-148): no filler twice, unless its tag has returned; and *)
(* every filler, unless some tag has returned and the collection is a copy.*)
EachFillerAskedOnce ==
  \A fieldTags \in FieldTags, first \in BOOLEAN, tag \in DOMAIN c.m :
    LET times == Cardinality(Places(Pairs(c, fieldTags, first), tag))
    IN  /\ tag \notin returned => times <= 1
        /\ returned = {} \/ ~copied => times >= 1

(* What the loops over Order() (PreWalk, PreConfigure, ConfigFile,         *)
(* ConfigureComplete) visit (fillers.go:43): no tag twice unless it has    *)
(* returned; no filler is left out, and none of the tags visited is        *)
(* without one, unless some tag has returned and the collection is a copy. *)
OrderVisitsEachOnce ==
  LET visited == Clean(c).order
  IN  /\ \A i, j \in DOMAIN visited :
            visited[i] = visited[j] /\ i # j => visited[i] \in returned \cup {NoTag}
      /\ ToSet(visited) \subseteq DOMAIN c.m \cup {NoTag}
      /\ returned = {} \/ ~copied => ToSet(visited) = DOMAIN c.m

(* Cleaning the order asks for a slice longer than its capacity only when  *)
(* the order names a tag that has returned (fillers.go:85).                *)
PanicsOnlyOnReturn == crashed => returned \cap DOMAIN c.m # {}

(* The list the collection stands for. *)
AsList ==
  LET live == OnlyIn(c.order, DOMAIN c.m)
  IN  [i \in DOMAIN live |-> [tag |-> live[i], filler |-> c.m[live[i]]]]

Promise == INSTANCE OrderedFillers WITH list <- AsList

(* The collection is the list of fillers of OrderedFillers: ranked by      *)
(* first registration whatever the operations, and one per tag until a tag *)
(* returns (fillers.go).                                                   *)
KeepsPromise == Promise!Spec
=============================================================================

--------------------------- MODULE CollectionOps ---------------------------
(***************************************************************************)
(* The collection of fillers of fillers.go: a map from struct tags to      *)
(* fillers, a slice with the order of the tags, and a flag that says that  *)
(* the slice still names tags that have left the map.  The methods are     *)
(* operators on a collection here; FillerCollection is the life of one,    *)
(* and Fill is what they are for.                                          *)
(***************************************************************************)
EXTENDS Naturals, FiniteSets, SequencesExt, FiniteSetsExt

CONSTANTS
  Tags,         \* struct tags
  Fillers,      \* fillers
  NoFiller,     \* the nil Filler
  NoTag         \* the empty string, which is not a tag

ASSUME TagAssumption == NoTag \notin Tags /\ NoFiller \notin Fillers

Collection == [m : UNION {[T -> Fillers] : T \in SUBSET Tags},
               order : Seq(Tags \cup {NoTag}),
               dirty : BOOLEAN]

EmptyMap == [t \in {} |-> NoFiller]

NewCollection == [m |-> EmptyMap, order |-> <<>>, dirty |-> FALSE]

HasTag(f, tag) == tag \in DOMAIN f.m

(* A loop that goes on with the tags of a set, in their order. *)
OnlyIn(tags, kept) ==
  FoldLeft(LAMBDA result, t : IF t \in kept THEN Append(result, t) ELSE result, <<>>, tags)

(* The tags that the order still names although they left the map. *)
Stale(f) == {t \in ToSet(f.order) : ~HasTag(f, t)}

(* MUTANT: the order is not marked as stale. *)
RemoveTagUnmarked(f, tag) ==
  IF HasTag(f, tag)
  THEN [f EXCEPT !.m = [t \in DOMAIN f.m \ {tag} |-> f.m[t]]]
  ELSE f

RemoveTag(f, tag) ==
  IF HasTag(f, tag)
  THEN [f EXCEPT !.m = [t \in DOMAIN f.m \ {tag} |-> f.m[t]], !.dirty = TRUE]
  ELSE f

(* MUTANT: a nil filler is stored like any other. *)
AddTagNil(f, tag, filler) ==
  [f EXCEPT !.m = [t \in DOMAIN f.m \cup {tag} |->
                     IF t = tag THEN filler ELSE f.m[t]],
            !.order = IF HasTag(f, tag) THEN @ ELSE Append(@, tag)]

(* MUTANT: a tag that has a filler is appended once more. *)
AddTagTwice(f, tag, filler) ==
  IF filler = NoFiller
  THEN RemoveTag(f, tag)
  ELSE [m |-> [t \in DOMAIN f.m \cup {tag} |-> IF t = tag THEN filler ELSE f.m[t]],
        order |-> Append(f.order, tag),
        dirty |-> f.dirty]

(* MUTANT: a filler that replaces another is consulted last. *)
AddTagLast(f, tag, filler) ==
  IF filler = NoFiller
  THEN RemoveTag(f, tag)
  ELSE [m |-> [t \in DOMAIN f.m \cup {tag} |-> IF t = tag THEN filler ELSE f.m[t]],
        order |-> Append(OnlyIn(f.order, DOMAIN f.m \ {tag}), tag),
        dirty |-> f.dirty]

(* Only the map is asked whether the tag is new, never the order. *)
AddTag(f, tag, filler) ==
  IF filler = NoFiller
  THEN RemoveTag(f, tag)
  ELSE [f EXCEPT
          !.m = [t \in DOMAIN f.m \cup {tag} |->
                   IF t = tag THEN filler ELSE f.m[t]],
          !.order = IF HasTag(f, tag) THEN @ ELSE Append(@, tag)]

(* Clean rebuilds the order without the stale tags. *)
Clean(f) ==
  IF f.dirty
  THEN [f EXCEPT !.order = OnlyIn(@, DOMAIN f.m),
                 !.dirty = FALSE]
  ELSE f

(* Clean allocates the new slice with the length of the prefix before the  *)
(* first stale tag and the capacity of the map: a longer prefix panics.    *)
CleanPanics(f) ==
  /\ f.dirty
  /\ \E i \in DOMAIN f.order :
       /\ ~HasTag(f, f.order[i])
       /\ \A j \in 1..(i - 1) : HasTag(f, f.order[j])
       /\ i - 1 > Cardinality(DOMAIN f.m)

(* Copy has a value receiver: the cleaning it does is lost for f.  The new *)
(* order has as many places as the map has tags, whatever f.order holds.   *)
Copy(f) ==
  LET ordered == Clean(f).order
  IN  [m |-> f.m,
       order |-> [i \in 1..Cardinality(DOMAIN f.m) |->
                    IF i \in DOMAIN ordered THEN ordered[i] ELSE NoTag],
       dirty |-> FALSE]

(* MUTANT: the tags that named a filler are not skipped by the second loop.*)
PairsTwice(f, fieldTags, first) ==
  LET named   == OnlyIn(IF first THEN fieldTags ELSE Reverse(fieldTags), DOMAIN f.m)
      unnamed == OnlyIn(Clean(f).order, DOMAIN f.m)
  IN  [i \in 1..Len(named) |-> [forced |-> named[i], tagged |-> TRUE]]
        \o [i \in 1..Len(unnamed) |-> [forced |-> unnamed[i], tagged |-> FALSE]]

(* The fillers to ask about one field: those named by the field's own tags *)
(* first, in the order of the tags or backwards, then all the others in    *)
(* the order of the collection, which get no tag.                          *)
Pairs(f, fieldTags, first) ==
  LET named   == OnlyIn(IF first THEN fieldTags ELSE Reverse(fieldTags), DOMAIN f.m)
      unnamed == OnlyIn(Clean(f).order, DOMAIN f.m \ ToSet(named))
  IN  [i \in 1..Len(named) |-> [forced |-> named[i], tagged |-> TRUE]]
        \o [i \in 1..Len(unnamed) |-> [forced |-> unnamed[i], tagged |-> FALSE]]
=============================================================================

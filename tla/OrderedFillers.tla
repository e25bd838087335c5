-------------------------- MODULE OrderedFillers --------------------------
(***************************************************************************)
(* What a collection of fillers promises its users: a list of fillers in   *)
(* the order in which their tags were first registered.  A filler may give *)
(* way to another, which takes its place; it may leave the list.  As long  *)
(* as no tag has returned after its filler had left, the list has one      *)
(* filler per tag and a filler for a new tag is consulted after all the    *)
(* others.  Afterwards the order of those that stay is still kept.         *)
(***************************************************************************)
EXTENDS Naturals, SequencesExt

CONSTANTS
  Tags,     \* the struct tags a filler can be registered under
  Fillers   \* the fillers that can be registered

VARIABLES
  list,     \* the fillers in the order in which they are consulted
  returned  \* the tags that were registered again after their filler had left

Entry == [tag : Tags, filler : Fillers]

Ranked(entries) == [i \in DOMAIN entries |-> entries[i].tag]

OnePerTag(tags) == \A i, j \in DOMAIN tags : tags[i] = tags[j] => i = j

(* Whoever looks for u has met t before. *)
Ahead(tags, t, u) ==
  \A i \in DOMAIN tags : tags[i] = u => \E j \in DOMAIN tags : j < i /\ tags[j] = t

Init == list = <<>> /\ returned = {}

(* What one operation may make of the order: some fillers leave, some give *)
(* way to others, some arrive.                                             *)
Follows(before, after) ==
  \A t, u \in ToSet(before) \cap ToSet(after) : Ahead(before, t, u) => Ahead(after, t, u)

(* The stronger promise that is kept until a tag returns. *)
FollowsStrictly(before, after) ==
  /\ OnePerTag(after)
  /\ \A i, j \in DOMAIN after :
       after[i] \notin ToSet(before) /\ i < j => after[j] \notin ToSet(before)

Update ==
  /\ list' \in Seq(Entry)
  /\ \E before \in {Ranked(list)}, after \in {Ranked(list')} :
       /\ Follows(before, after)
       /\ returned' = {} => FollowsStrictly(before, after)

Spec == Init /\ [][Update]_<<list, returned>>
=============================================================================

--------------------------------- MODULE Fill ---------------------------------
(***************************************************************************)
(* How a request's object is filled (fill.go): fillStruct, fillField and   *)
(* their recursion through pointers, structs, slices, arrays and maps,     *)
(* with the collection of fillers of each level.                           *)
(*                                                                         *)
(* A type is a record with a kind; so is a file's content, a node.  The    *)
(* value of a scalar is a number, 0 if it is not filled; a pointer is <<>> *)
(* or the sequence of what it points at; a struct, an array and a slice    *)
(* are sequences, a map is a function.                                     *)
(*                                                                         *)
(* A filler is a file with its node at this level, or a lookup (the        *)
(* environment, the default tag) or the flags with the texts they have for *)
(* names.  A text is the sequence of its parts.                            *)
(***************************************************************************)
EXTENDS CollectionOps, Integers

CONSTANTS
  Objects,      \* struct types
  Registered,   \* the tags of the registry's fillers, in order
  Sources,      \* the possible fillers, each a function on Registered's tags
  PrefixPaths   \* the possible prefixes of a request

VARIABLES
  type,      \* of the object
  sources,   \* the fillers at the start; nothing changes type and sources
  fillers,   \* the collection that the request works with
  prefix,    \* what is left of the prefix, and all of it
  object,    \* the object
  field,     \* the field of the object to fill next
  outcome    \* "filling", "done" or "error"

vars == <<type, sources, fillers, prefix, object, field, outcome>>
-----------------------------------------------------------------------------
RECURSIVE Zero(_)
Zero(t) ==
  CASE t.kind = "scalar"           -> 0
    [] t.kind \in {"ptr", "slice"} -> <<>>
    [] t.kind = "map"              -> [k \in {} |-> 0]
    [] t.kind = "array"            -> [i \in 1..t.size |-> Zero(t.elem)]
    [] t.kind = "struct"           -> [i \in DOMAIN t.fields |-> Zero(t.fields[i].type)]

Result(v, filled, err) == [v |-> v, filled |-> filled, err |-> err]

RECURSIVE NonPointer(_)
NonPointer(t) == IF t.kind = "ptr" THEN NonPointer(t.elem) ELSE t

IsStructural(t) == NonPointer(t).kind \in {"map", "slice", "array"}

Slice(t) == [kind |-> "slice", elem |-> t]

(* Converting a text is left to reflectutils: one number for a scalar, any *)
(* for a slice, and a new value to point at for a pointer.                 *)
RECURSIVE Convert(_, _)
Convert(t, text) ==
  CASE t.kind = "slice" -> Result(text, TRUE, FALSE)
    [] t.kind = "ptr"   -> [Convert(t.elem, text) EXCEPT !.v = <<@>>]
    [] OTHER            -> IF Len(text) = 1 THEN Result(text[1], TRUE, FALSE)
                           ELSE Result(0, FALSE, TRUE)

(* Filler.Fill of a file and of a lookup, which needs a name.  The flags   *)
(* are a lookup that leaves pointers alone.                                *)
FileFill(f, t, v) ==
  CASE t.kind # "scalar"      -> Result(v, FALSE, FALSE)
    [] f.node.kind = "scalar" -> Result(f.node.value, TRUE, FALSE)
    [] OTHER                  -> Result(v, FALSE, TRUE)

LookupFill(f, t, v, name) ==
  IF name \in DOMAIN f.given THEN Convert(t, f.given[name]) ELSE Result(v, FALSE, FALSE)

AskFiller(f, t, v, name) ==
  CASE f.kind = "file"                    -> FileFill(f, t, v)
    [] f.kind = "flag" /\ t.kind = "ptr"  -> Result(v, FALSE, FALSE)
    [] OTHER                              -> LookupFill(f, t, v, name)

(* The step of a file to an entry of its node; others have no Recurse. *)
Digits == <<"0", "1", "2", "3">>

Child(node, name) ==
  CASE node.kind = "map" /\ name \in DOMAIN node.entries -> {node.entries[name]}
    [] node.kind = "list" -> {node.items[i] : i \in {j \in DOMAIN node.items : Digits[j] = name}}
    [] OTHER -> {}

SimpleRecurse(f, name) ==
  IF f.kind # "file" THEN f
  ELSE IF Child(f.node, name) = {} THEN NoFiller
  ELSE [f EXCEPT !.node = CHOOSE n \in Child(f.node, name) : TRUE]

(* The name that a field's own tag has for a filler. *)
NameIn(tags, tag) ==
  IF \E i \in DOMAIN tags : tags[i].tag = tag
  THEN tags[CHOOSE i \in DOMAIN tags : tags[i].tag = tag].name ELSE NoTag

RecurseFiller(f, name, own) ==
  CASE f.kind # "file" -> f
    [] own = "-"       -> NoFiller
    [] own = NoTag     -> SimpleRecurse(f, name)
    [] OTHER           -> SimpleRecurse(f, own)

Recurse(collection, name, tags) ==
  FoldSet(LAMBDA tag, c : AddTag(c, tag, RecurseFiller(collection.m[tag], name, NameIn(tags, tag))),
          Copy(collection), DOMAIN collection.m)
-----------------------------------------------------------------------------
(* x is a fillData: the collection, the tags and the meta tag of the field *)
(* at hand; an element has those of the field it belongs to.               *)
Asked(x) == Pairs(x.fillers, [i \in DOMAIN x.tags |-> x.tags[i].tag], x.meta.first)

NameFor(x, pair) == IF pair.tagged THEN NameIn(x.tags, pair.forced) ELSE NoTag

(* MUTANT: the fillers behind one that has filled a scalar are asked, too. *)
GoesOnAlways(x, t) == x.meta.combine

(* Whether a further filler may add to what one has filled. *)
GoesOn(x, t) == IsStructural(t) /\ x.meta.combine

(* The first loop of fillField.  A filler that has filled is dropped, if a *)
(* tag of the field named it.                                              *)
AskAll(x, t, v) ==
  FoldLeft(LAMBDA acc, pair :
             IF acc.over THEN acc
             ELSE LET got == AskFiller(x.fillers.m[pair.forced], t, acc.v, NameFor(x, pair))
                  IN  IF got.err THEN [acc EXCEPT !.err = TRUE, !.over = TRUE]
                      ELSE IF ~got.filled THEN acc
                      ELSE [fillers |-> IF pair.tagged THEN RemoveTag(acc.fillers, pair.forced)
                                        ELSE acc.fillers,
                            v |-> got.v, filled |-> TRUE, err |-> FALSE, over |-> ~GoesOn(x, t)],
           [fillers |-> x.fillers, v |-> v, filled |-> FALSE, err |-> FALSE, over |-> FALSE],
           Asked(x))

(* Filler.Len: the length of a list, or of what a lookup would fill; -1    *)
(* for no answer, which is what the flags give.                            *)
LenOf(f, t, name) ==
  CASE f.kind = "file" -> IF f.node.kind = "list" THEN Len(f.node.items) ELSE -1
    [] f.kind = "flag" -> -1
    [] OTHER           -> LET got == LookupFill(f, t, Zero(t), name)
                          IN  IF got.filled THEN Len(got.v) ELSE -1

(* Of the fillers that answer to Len or Keys all count, or just the first. *)
Counted(x, answering) ==
  IF x.meta.combine THEN answering ELSE SubSeq(answering, 1, Min({1, Len(answering)}))

(* MUTANT: done is not set back when the next filler begins. *)
ElementsOnwards(x, t) ==
  LET Length(pair) == LenOf(x.fillers.m[pair.forced], t, NameFor(x, pair))
      counted == Counted(x, SelectSeq(Asked(x), LAMBDA pair : Length(pair) >= 0))
      before(i) == FoldLeft(LAMBDA n, p : n + Length(p), 0, SubSeq(counted, 1, i - 1))
  IN  FlattenSeq([i \in DOMAIN counted |->
        [d \in 1..Length(counted[i]) |->
           AddTag(NewCollection, counted[i].forced,
                  SimpleRecurse(x.fillers.m[counted[i].forced], Digits[before(i) + d]))]])

(* fillerCollection.Len: for each element the collection of the one filler *)
(* it comes from.  What a filler has counted it can go down to, so that    *)
(* SimpleRecurse gives no nil here.                                        *)
Elements(x, t) ==
  LET Length(pair) == LenOf(x.fillers.m[pair.forced], t, NameFor(x, pair))
      counted == Counted(x, SelectSeq(Asked(x), LAMBDA pair : Length(pair) >= 0))
  IN  FlattenSeq([i \in DOMAIN counted |->
        [d \in 1..Length(counted[i]) |->
           AddTag(NewCollection, counted[i].forced,
                  SimpleRecurse(x.fillers.m[counted[i].forced], Digits[d]))]])

(* MUTANT: the first filler's keys are all. *)
KeysOfFirst(x) ==
  LET IsMap(pair) == /\ x.fillers.m[pair.forced].kind = "file"
                     /\ x.fillers.m[pair.forced].node.kind = "map"
      all == SelectSeq(Asked(x), IsMap)
  IN  IF all = <<>> THEN {} ELSE DOMAIN x.fillers.m[all[1].forced].node.entries

(* fillerCollection.Keys; only files have keys. *)
Keys(x) ==
  LET IsMap(pair) == /\ x.fillers.m[pair.forced].kind = "file"
                     /\ x.fillers.m[pair.forced].node.kind = "map"
  IN  UNION {DOMAIN x.fillers.m[pair.forced].node.entries : pair \in ToSet(Counted(x, SelectSeq(Asked(x), IsMap)))}

(* MUTANT: the last place of an array stays empty. *)
RoomShort(t, count) == IF t.kind = "array" THEN Min({t.size - 1, count}) ELSE count

(* How many of so many elements a slice or an array takes. *)
Room(t, count) == IF t.kind = "array" THEN Min({t.size, count}) ELSE count

(* MUTANT: a pointer is set to what has been allocated. *)
PointerAlways(v, below) == Result(<<below.v>>, TRUE, FALSE)

(* The end of the pointer's case: what a filler put into the pointer       *)
(* itself stays in place if nothing was filled below, but is not reported. *)
Pointer(v, below) ==
  CASE below.err    -> Result(v, FALSE, TRUE)
    [] below.filled -> Result(<<below.v>>, TRUE, FALSE)
    [] OTHER        -> Result(v, FALSE, FALSE)
-----------------------------------------------------------------------------
RECURSIVE FillField(_, _, _)

(* recurseFillField: one field of a struct. *)
RecurseFillField(collection, f, v) ==
  IF f.meta.name = "-" THEN Result(v, FALSE, FALSE)
  ELSE FillField([fillers |-> Recurse(collection, IF f.meta.name = NoTag THEN f.name ELSE f.meta.name,
                                      f.tags),
                  tags |-> f.tags, meta |-> f.meta], f.type, v)

FillStruct(collection, t, v) ==
  FoldLeft(LAMBDA acc, k :
             IF acc.err THEN acc
             ELSE LET got == RecurseFillField(collection, t.fields[k], acc.v[k])
                  IN  Result([acc.v EXCEPT ![k] = got.v], acc.filled \/ got.filled, got.err),
           Result(v, FALSE, FALSE), [k \in DOMAIN t.fields |-> k])

(* An element of a slice, an array or a map is filled from a collection of *)
(* its own.                                                                *)
FillElement(x, collection, t, v) == FillField([x EXCEPT !.fillers = collection], t, v)

FillElements(x, t, v, collections) ==
  FoldLeft(LAMBDA acc, i :
             IF acc.err THEN acc
             ELSE LET got == FillElement(x, collections[i], t.elem, acc.v[i])
                  IN  Result([acc.v EXCEPT ![i] = got.v], acc.filled \/ got.filled, got.err),
           v, [i \in 1..Room(t, Len(collections)) |-> i])

(* A slice is made anew, and appended to what a filler put there. *)
FillSlice(x, t, asked) ==
  LET elements == Elements(x, t)
      made == FillElements(x, t, Result([i \in DOMAIN elements |-> Zero(t.elem)],
                                        asked.filled, FALSE), elements)
  IN  IF elements = <<>> THEN Result(asked.v, FALSE, FALSE)
      ELSE IF made.err THEN Result(asked.v, FALSE, TRUE)
      ELSE Result(asked.v \o made.v, made.filled, FALSE)

(* The entries of a map; what an error leaves in it is not kept, as Go     *)
(* goes through the keys in any order.                                     *)
FillMap(x, t, asked) ==
  LET keys == Keys(x)
      got == [key \in keys |->
                FillElement(x, Recurse(x.fillers, key, <<>>), t.elem, Zero(t.elem))]
  IN  IF \E key \in keys : got[key].err THEN Result(asked.v, FALSE, TRUE)
      ELSE Result([key \in keys \cup DOMAIN asked.v |->
                     IF key \in keys THEN got[key].v ELSE asked.v[key]],
                  asked.filled \/ \E key \in keys : got[key].filled, FALSE)

FillField(x, t, v) ==
  LET asked == AskAll(x, t, v)
      y == [x EXCEPT !.fillers = asked.fillers]
  IN  IF asked.err THEN Result(asked.v, FALSE, TRUE)
      ELSE IF asked.filled /\ x.meta.desc = "no" THEN Result(asked.v, TRUE, FALSE)
      ELSE CASE t.kind = "struct" ->
                  LET got == FillStruct(y.fillers, t, asked.v)
                  IN  [got EXCEPT !.filled = @ \/ asked.filled]
             [] t.kind = "ptr"    -> Pointer(asked.v, FillField(y, t.elem, Zero(t.elem)))
             [] t.kind = "array"  ->
                  FillElements(y, t, Result(asked.v, asked.filled, FALSE), Elements(y, t))
             [] t.kind = "slice"  -> FillSlice(y, t, asked)
             [] t.kind = "map"    -> FillMap(y, t, asked)
             [] OTHER             -> Result(asked.v, asked.filled, FALSE)
-----------------------------------------------------------------------------
Init ==
  /\ type \in Objects /\ sources \in Sources
  /\ fillers = FoldLeft(LAMBDA c, tag : AddTag(c, tag, sources[tag]), NewCollection, Registered)
  /\ \E p \in PrefixPaths : prefix = [left |-> p, all |-> p]
  /\ object = Zero(type)
  /\ field = 1
  /\ outcome = "filling"

(* fill goes down one step of the request's prefix. *)
GoDown ==
  /\ outcome = "filling" /\ prefix.left # <<>>
  /\ fillers' = Recurse(fillers, Head(prefix.left), <<>>)
  /\ prefix' = [prefix EXCEPT !.left = Tail(@)]
  /\ UNCHANGED <<type, sources, object, field, outcome>>

(* MUTANT: the loop goes on by two fields. *)
AdvanceByTwo(k) == k + 2

Advance(k) == k + 1

(* One turn of the loop of fillStruct over the object's fields. *)
FillNext ==
  /\ outcome = "filling" /\ prefix.left = <<>> /\ field \in DOMAIN type.fields
  /\ LET got == RecurseFillField(fillers, type.fields[field], object[field])
     IN  /\ object' = [object EXCEPT ![field] = got.v]
         /\ outcome' = IF got.err THEN "error" ELSE "filling"
  /\ field' = Advance(field)
  /\ UNCHANGED <<type, sources, fillers, prefix>>

Finish ==
  /\ outcome = "filling" /\ field > Len(type.fields)
  /\ outcome' = "done"
  /\ UNCHANGED <<type, sources, fillers, prefix, object, field>>

Next == GoDown \/ FillNext \/ Finish

Spec == Init /\ [][Next]_vars
-----------------------------------------------------------------------------
(* What the object should hold, from the content of the files and without  *)
(* collections: a view has, for each registered tag, the set of what a     *)
(* file has at this place, nothing or a node.                              *)
Top == [tag \in ToSet(Registered) |->
  IF sources[tag].kind = "file"
  THEN FoldLeft(LAMBDA at, name : UNION {Child(n, name) : n \in at}, {sources[tag].node}, prefix.all)
  ELSE {}]

(* The view of a field: a tag of its own renames it for that file. *)
At(view, f) ==
  LET name(tag) == IF NameIn(f.tags, tag) # NoTag THEN NameIn(f.tags, tag)
                   ELSE IF f.meta.name # NoTag THEN f.meta.name ELSE f.name
  IN  [tag \in ToSet(Registered) |->
         IF name(tag) = "-" \/ f.meta.name = "-" THEN {}
         ELSE UNION {Child(n, name(tag)) : n \in view[tag]}]

Entry(view, key) == [tag \in ToSet(Registered) |-> UNION {Child(n, key) : n \in view[tag]}]

(* The tags in the order in which they matter for a field: its own, from   *)
(* the first or from the last, then the others as registered.              *)
Ranked(f) ==
  LET own == SelectSeq([i \in DOMAIN f.tags |-> f.tags[i].tag],
                       LAMBDA tag : tag \in ToSet(Registered))
  IN  (IF f.meta.first THEN own ELSE Reverse(own))
        \o SelectSeq(Registered, LAMBDA tag : tag \notin ToSet(own))

Text(f, tag) ==
  IF sources[tag].kind # "file" /\ NameIn(f.tags, tag) \in DOMAIN sources[tag].given
  THEN {sources[tag].given[NameIn(f.tags, tag)]} ELSE {}

Has(view, f, tag) == Text(f, tag) # {} \/ At(view, f)[tag] # {}

Offering(view, f) ==
  IF f.meta.name = "-" THEN <<>> ELSE SelectSeq(Ranked(f), LAMBDA tag : Has(view, f, tag))

Only(S) == CHOOSE e \in S : TRUE

(* What a value of this type is if it comes from a single node.  A node    *)
(* that is no scalar has no number: filling ends with an error.            *)
RECURSIVE FromNode(_, _)
FromNode(t, node) ==
  CASE t.kind = "scalar" -> IF node.kind = "scalar" THEN node.value ELSE -1
    [] t.kind = "ptr"    -> <<FromNode(t.elem, node)>>
    [] t.kind = "slice"  -> IF node.kind # "list" THEN <<>>
                            ELSE [i \in DOMAIN node.items |-> FromNode(t.elem, node.items[i])]
    [] t.kind = "struct" -> [k \in DOMAIN t.fields |->
                               IF Child(node, t.fields[k].name) = {} THEN Zero(t.fields[k].type)
                               ELSE FromNode(t.fields[k].type, Only(Child(node, t.fields[k].name)))]

(* The structs in the object: its own, and those in fields, in maps or     *)
(* behind pointers, with their views; none behind a nil pointer.           *)
RECURSIVE StructsIn(_, _, _)
StructsIn(t, v, view) ==
  {<<t, v, view>>}
    \cup UNION {LET f == t.fields[k]
                IN  CASE f.type.kind = "struct" -> StructsIn(f.type, v[k], At(view, f))
                      [] f.type.kind = "ptr" /\ f.type.elem.kind = "struct" /\ v[k] # <<>> ->
                           StructsIn(f.type.elem, v[k][1], At(view, f))
                      [] f.type.kind = "map" /\ f.type.elem.kind = "struct" ->
                           UNION {StructsIn(f.type.elem, v[k][key], Entry(At(view, f), key))
                                    : key \in DOMAIN v[k]}
                      [] OTHER -> {}
                : k \in DOMAIN t.fields}

FieldsOf(kind) ==
  UNION {{[f |-> s[1].fields[k], v |-> s[2][k], view |-> s[3]]
            : k \in {j \in DOMAIN s[1].fields : s[1].fields[j].type.kind = kind}}
         : s \in StructsIn(type, object, Top)}

(* The numbers that a filler has for a scalar, at most one. *)
Numbers(a, tag) ==
  {text[1] : text \in {u \in Text(a.f, tag) : Len(u) = 1}}
    \cup {n.value : n \in {m \in At(a.view, a.f)[tag] : m.kind = "scalar"}}

ByPrecedence(a, v) ==
  LET offering == Offering(a.view, a.f)
  IN  IF offering = <<>> THEN v = 0 ELSE Numbers(a, offering[1]) = {v}

(* The files with a node of this kind, those that matter for the field. *)
FilesWith(a, kind) ==
  LET all == SelectSeq(Offering(a.view, a.f),
                       LAMBDA tag : \E n \in At(a.view, a.f)[tag] : n.kind = kind)
  IN  IF a.f.meta.combine THEN all ELSE SubSeq(all, 1, Min({1, Len(all)}))

Node(a, tag) == Only(At(a.view, a.f)[tag])

(* Whether anything is to be found for a struct or what a pointer points at. *)
RECURSIVE Needed(_, _)
Needed(t, view) ==
  \E k \in DOMAIN t.fields :
    LET f == t.fields[k]
    IN  IF NonPointer(f.type).kind = "struct" THEN Needed(NonPointer(f.type), At(view, f))
        ELSE Offering(view, f) # <<>>

RECURSIVE HasType(_, _)
HasType(t, v) ==
  CASE t.kind = "scalar" -> v \in Nat
    [] t.kind = "ptr"    -> Len(v) \in {0, 1} /\ \A i \in DOMAIN v : HasType(t.elem, v[i])
    [] t.kind = "slice"  -> \A i \in DOMAIN v : HasType(t.elem, v[i])
    [] t.kind = "array"  -> Len(v) = t.size /\ \A i \in DOMAIN v : HasType(t.elem, v[i])
    [] t.kind = "map"    -> \A key \in DOMAIN v : HasType(t.elem, v[key])
    [] t.kind = "struct" -> DOMAIN v = DOMAIN t.fields
                              /\ \A k \in DOMAIN v : HasType(t.fields[k].type, v[k])

(* The object keeps its type: no value lands in a place of another type    *)
(* and an array keeps its length (fill.go:216, 340-358).                   *)
TypeOK ==
  /\ outcome \in {"filling", "done", "error"}
  /\ field \in 1..(Len(type.fields) + 1)
  /\ HasType(type, object)

(* "If first is true then filling stops after the first filler succeeds in *)
(* filling anything" (registry.go:90): a scalar has the value of the       *)
(* filler that comes first, of those that have one, however deep it lies   *)
(* and whatever names tags and meta tags give it on the way.  The order is *)
(* that of pairs: the field's own tags, which "last" reverses, then the    *)
(* other fillers as registered (fillers.go:132), which it does not, unlike *)
(* what registry.go:93 and doc.go:69 say of "last".                        *)
ScalarsByPrecedence ==
  outcome = "done" => \A a \in FieldsOf("scalar") : ByPrecedence(a, a.v)

(* What the flags have for a slice comes first, then the lists of all the  *)
(* files, each once, whole and in order of precedence; only the first list *)
(* if the field is marked "single" (fill.go:93-151, 340-387).              *)
ListOf(a) ==
  LET texts == FlattenSeq([i \in DOMAIN Registered |->
                 IF Text(a.f, Registered[i]) = {} THEN <<>>
                 ELSE Only(Text(a.f, Registered[i]))])
      lists == FlattenSeq([i \in DOMAIN FilesWith(a, "list") |->
                 FromNode(Slice(a.f.type.elem), Node(a, FilesWith(a, "list")[i]))])
  IN  IF texts # <<>> /\ a.f.meta.desc = "no" THEN texts ELSE texts \o lists

(* A slice is made of all of that, in this order.                          *)
SlicesAreComplete ==
  outcome = "done" => \A a \in FieldsOf("slice") : a.v = ListOf(a)

(* An array has as much of it as there is room for, and zero values behind *)
(* that (fill.go:340-358).                                                 *)
ArraysAreFilled ==
  outcome = "done" =>
    \A a \in FieldsOf("array") :
      \A i \in DOMAIN a.v :
        a.v[i] = IF i \in DOMAIN ListOf(a) THEN ListOf(a)[i] ELSE Zero(a.f.type.elem)

(* A map has the keys of all files, or of the first that has any if it is  *)
(* marked "single", and for each key the value of the file that comes      *)
(* first (fill.go:148-176, 388-431), in the order of pairs also if the map *)
(* is marked "last" and has no tags.                                       *)
MapsAreComplete ==
  outcome = "done" =>
    \A a \in FieldsOf("map") :
      LET files == FilesWith(a, "map")
          Holding(key) == SelectSeq(files, LAMBDA tag : key \in DOMAIN Node(a, tag).entries)
      IN  /\ DOMAIN a.v = UNION {DOMAIN Node(a, tag).entries : tag \in ToSet(files)}
          /\ a.f.type.elem.kind = "scalar" =>
               \A key \in DOMAIN a.v :
                 a.v[key] = FromNode(a.f.type.elem, Node(a, Holding(key)[1]).entries[key])

(* A pointer is set if and only if some filler has something for what it   *)
(* points at, at any depth: nothing given is lost behind a nil pointer and *)
(* no empty struct is made (fill.go:326-339).                              *)
PointersSetWhenNeeded ==
  outcome = "done" =>
    \A a \in FieldsOf("ptr") :
      a.v # <<>> <=> IF a.f.type.elem.kind = "struct"
                     THEN Needed(a.f.type.elem, At(a.view, a.f))
                     ELSE Offering(a.view, a.f) # <<>>

(* The line about "first" again (registry.go:90), for pointers to scalars. *)
PointersByPrecedence ==
  outcome = "done" =>
    \A a \in FieldsOf("ptr") : a.v # <<>> => ByPrecedence(a, a.v[1])
=============================================================================

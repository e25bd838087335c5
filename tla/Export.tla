------------------------------- MODULE Export -------------------------------
(***************************************************************************)
(* ExportToFlagSet (flags_import.go): the flags of a model are registered  *)
(* with a standard FlagSet, whose Parse then calls back a closure for      *)
(* every use of a flag.  The closures keep state between the calls: once,  *)
(* the index of an array, the pointers that getV has allocated.  A use may *)
(* be refused; the program may ask the FlagSet to parse again.             *)
(*                                                                         *)
(* A text is the sequence of the pieces that the split of its field makes  *)
(* of it: one piece for a scalar and with split=none, a key and its value  *)
(* for a map.  The model is that of one of FlagTable's handlers; FlagTable *)
(* tells what the handler itself makes of it.  Its fields also have        *)
(*   pointer   the field is a pointer                                      *)
(*   native    its type has a method of its own in FlagSet (IntVar ...)    *)
(*   preset    its value before the export, default its default tag        *)
(***************************************************************************)
EXTENDS FlagTable

CONSTANTS
  TextsOf(_), \* the texts that the flag of a field is used with
  Blank,      \* the empty piece, as a value and as a text
  Bad,        \* a piece that the setters refuse
  Nil,        \* the value of a nil pointer
  Clipped,    \* the greatest number of a type
  MaxUses     \* bound: uses of flags

IsArray(f) == f.kind \in {"array", "explode"}

ASSUME ModelAssumption ==
  \A g \in Handlers :
    /\ Len(Fields[g]) \in Nat /\ DOMAIN Fields[g] = 1..Len(Fields[g])
    /\ \A k \in DOMAIN Fields[g] :
         LET f == Fields[g][k]
         IN  /\ IsArray(f) => f.preset = Nil \/ f.preset \in [1..f.size -> Range(f.preset)]
             /\ \A text \in TextsOf(f) : text \in Seq(ToSet(text))

(* What the elements of a field can be. *)
Pieces(f) == UNION {ToSet(text) : text \in TextsOf(f)}
Places(f) == Pieces(f) \cup {Blank} \cup (IF f.preset = Nil THEN {} ELSE Range(f.preset))

(* The nil pointer is no list, no setter of a scalar takes several pieces, *)
(* and that of a bool takes only what FlagHandler takes for one.           *)
ASSUME TextAssumption ==
  \A g \in Handlers : \A k \in DOMAIN Fields[g] :
    LET f == Fields[g][k]
    IN  /\ f.kind = "slice" => Nil \notin Seq(Pieces(f))
        /\ IsArray(f) => Nil \notin [1..f.size -> Places(f)]
        /\ f.kind \in {"bool", "counter", "scalar"} => \A text \in TextsOf(f) : Len(text) = 1
        /\ f.kind = "bool" => \A text \in TextsOf(f) : text[1] \in Truth \cup {Bad}

VARIABLES
  h,          \* the handler of FlagTable whose model is exported
  pc,         \* "walk", "export", "ready" or how the export failed
  next,       \* the field to export next
  names,      \* the flags that the FlagSet has
  content,    \* the value of each field
  once,       \* the slices and maps whose closure has run
  index,      \* how many elements of an array are set
  uses,       \* bound: how many uses so far
  accepted,   \* history: the texts that each field took
  refused     \* history: the fields whose last use was refused

vars == <<h, pc, next, names, content, once, index, uses, accepted, refused>>
closures == <<content, once, index>>
history  == <<uses, accepted, refused>>

Model == Fields[h]

Zero(f) == IF f.kind \in Keyed \cup {"slice"} THEN <<>>
           ELSE IF IsArray(f) THEN [j \in 1..f.size |-> Blank]
           ELSE Blank

Init ==
  /\ h \in Handlers
  /\ pc = "walk" /\ next = 1 /\ names = {}
  /\ content = [k \in DOMAIN Model |-> Model[k].preset]
  /\ once = {} /\ index = [k \in DOMAIN Model |-> 0]
  /\ uses = 0 /\ accepted = [k \in DOMAIN Model |-> <<>>] /\ refused = {}
-----------------------------------------------------------------------------
(* The PreWalk of a handler that is made for the purpose. *)
Walk ==
  /\ pc = "walk"
  /\ pc' = LET outcome == PreWalk(InitialTables, h).outcome
           IN  IF outcome = "ok" THEN "export"
               ELSE IF outcome = "panic" THEN "panic" ELSE "error"
  /\ UNCHANGED <<h, next, names, closures, history>>

(* The value that getV leads to, allocated if the pointer is nil. *)
Held(k) == IF content[k] = Nil THEN Zero(Model[k]) ELSE content[k]

(* Registered with the method of the type, which sets the default: bool    *)
(* and the native types, unless a pointer could stay nil for want of one.  *)
Typed(f) ==
  /\ f.kind \in {"bool", "counter", "scalar"} /\ f.native
  /\ f.pointer => f.default # Absent

(* MUTANT: a pointer is allocated when its flag is exported. *)
DefinedEagerly(k) ==
  LET f == Model[k]
  IN  IF Typed(f) /\ f.default \notin {Absent, Blank} THEN f.default
      ELSE IF Typed(f) THEN Blank ELSE Held(k)

(* What the definition of a flag makes of its field. *)
Defined(k) ==
  LET f == Model[k]
  IN  IF Typed(f) /\ f.default \notin {Absent, Blank} THEN f.default
      ELSE IF Typed(f) THEN Blank ELSE content[k]

(* One turn of the loop over the fields.  A default that cannot be parsed  *)
(* ends it with an error, after the pointer to it was allocated; a second  *)
(* flag of one name makes the FlagSet panic, after it set the default.     *)
ExportField ==
  /\ pc = "export" /\ next <= Len(Model)
  /\ LET f == Model[next]
         fails == Typed(f) /\ f.default = Bad
     IN  /\ pc' = IF fails THEN "error"
                  ELSE IF f.names[1] \in names THEN "panic"
                  ELSE IF next = Len(Model) THEN "ready" ELSE "export"
         /\ names' = IF fails THEN names ELSE names \cup {f.names[1]}
         /\ content' = [content EXCEPT ![next] = IF fails THEN Held(next) ELSE Defined(next)]
  /\ next' = next + 1
  /\ UNCHANGED <<h, once, index, history>>
-----------------------------------------------------------------------------
(* A use of the flag of field k, which leaves it with this value. *)
Use(k, text, taken, value) ==
  /\ pc = "ready" /\ uses < MaxUses
  /\ uses' = uses + 1
  /\ content' = [content EXCEPT ![k] = value]
  /\ accepted' = IF taken THEN [accepted EXCEPT ![k] = Append(@, text)] ELSE accepted
  /\ refused' = IF taken THEN refused \ {k} ELSE refused \cup {k}
  /\ UNCHANGED <<h, pc, next, names>>

Taken(text) == Bad \notin ToSet(text)

Put(map, key, value) == [q \in DOMAIN map \cup {key} |-> IF q = key THEN value ELSE map[q]]

(* A key without a value has the empty value. *)
ValueOf(text) == IF Len(text) = 2 THEN text[2] ELSE Blank

(* MUTANT: the map is made anew by every use. *)
MapBeforeAnew(k) == <<>>

(* The first use replaces the map that was there. *)
MapBefore(k) == IF k \in once THEN content[k] ELSE <<>>

UseMap(k, text) ==
  /\ Model[k].kind \in Keyed
  /\ IF text = <<Blank>>
     THEN Use(k, text, FALSE, content[k]) /\ UNCHANGED once
     ELSE /\ once' = once \cup {k}
          /\ Use(k, text, Taken(text),
                 IF Taken(text) THEN Put(MapBefore(k), text[1], ValueOf(text))
                 ELSE MapBefore(k))
  /\ UNCHANGED index

(* MUTANT: a refused use is taken for the first one. *)
UseSliceOnce(k, text) ==
  /\ Model[k].kind = "slice"
  /\ once' = once \cup {k}
  /\ Use(k, text, Taken(text),
         IF ~Taken(text) THEN Held(k)
         ELSE IF k \in once THEN content[k] \o text ELSE text)
  /\ UNCHANGED index

(* The first use replaces the slice, the others append to it. *)
UseSlice(k, text) ==
  /\ Model[k].kind = "slice"
  /\ once' = IF Taken(text) THEN once \cup {k} ELSE once
  /\ Use(k, text, Taken(text),
         IF ~Taken(text) THEN Held(k)
         ELSE IF k \in once THEN content[k] \o text ELSE text)
  /\ UNCHANGED index

(* An array with these elements from the given place on. *)
Overwritten(array, from, elements) ==
  [j \in DOMAIN array |-> IF j \in (from + 1)..(from + Len(elements))
                          THEN elements[j - from] ELSE array[j]]

(* The elements before the first bad one. *)
Sound(text) ==
  IF Taken(text) THEN text
  ELSE SubSeq(text, 1, Min({j \in DOMAIN text : text[j] = Bad}) - 1)

(* MUTANT: a text may be one element too long. *)
UseArrayTooLong(k, text) ==
  /\ IsArray(Model[k])
  /\ LET fits == index[k] + Len(text) <= Model[k].size + 1
         taken == fits /\ Taken(text)
     IN  /\ Use(k, text, taken,
                IF fits THEN Overwritten(Held(k), index[k], Sound(text)) ELSE Held(k))
         /\ index' = IF taken THEN [index EXCEPT ![k] = @ + Len(text)] ELSE index
  /\ UNCHANGED once

(* An array is filled from the front; a text that does not fit is refused, *)
(* of a text with a bad element those before it are already set.           *)
UseArray(k, text) ==
  /\ IsArray(Model[k])
  /\ LET fits == index[k] + Len(text) <= Model[k].size
         taken == fits /\ Taken(text)
     IN  /\ Use(k, text, taken,
                IF fits THEN Overwritten(Held(k), index[k], Sound(text)) ELSE Held(k))
         /\ index' = IF taken THEN [index EXCEPT ![k] = @ + Len(text)] ELSE index
  /\ UNCHANGED once

(* What a refused text leaves: the setter of a scalar nothing new, those   *)
(* of the FlagSet (flag.intValue.Set) zero or, as long as it is a number,  *)
(* the greatest of its type.                                               *)
Left(k) ==
  CASE ~Typed(Model[k])        -> {Held(k)}
    [] Model[k].kind = "bool"  -> {Blank}
    [] OTHER                   -> {Blank, Clipped}

UseScalar(k, text) ==
  /\ Model[k].kind \in {"bool", "counter", "scalar"}
  /\ \/ Taken(text) /\ Use(k, text, TRUE, text[1])
     \/ ~Taken(text) /\ \E left \in Left(k) : Use(k, text, FALSE, left)
  /\ UNCHANGED <<once, index>>

Next ==
  \/ Walk \/ ExportField
  \/ \E k \in DOMAIN Model : \E text \in TextsOf(Model[k]) :
       UseMap(k, text) \/ UseSlice(k, text) \/ UseArray(k, text) \/ UseScalar(k, text)

Spec == Init /\ [][Next]_vars
-----------------------------------------------------------------------------
(* The types of the closures' state; an index never leaves its array       *)
(* (flags_import.go:243-257).                                              *)
TypeOK ==
  /\ pc \in {"walk", "export", "ready", "error", "panic"}
  /\ next \in 1..(Len(Model) + 1)
  /\ once \subseteq {k \in DOMAIN Model : Model[k].kind \in Keyed \cup {"slice"}}
  /\ \A k \in DOMAIN Model :
       /\ IsArray(Model[k]) => DOMAIN Held(k) = 1..Model[k].size
       /\ index[k] \in 0..(IF IsArray(Model[k]) THEN Model[k].size ELSE 0)

(* What the accepted texts of a field add up to. *)
Elements(k) == FlattenSeq(accepted[k])
Firsts(k) == [j \in DOMAIN accepted[k] |-> accepted[k][j][1]]
Values(k) == [j \in DOMAIN accepted[k] |-> ValueOf(accepted[k][j])]
Entries(k) == Pairing(Firsts(k), Values(k))

(* Refused uses in between take nothing from the accepted ones: a slice    *)
(* and a map are what these add up to, an array begins with it, a scalar   *)
(* is the last.  What was there before is replaced by the first use only.  *)
(* (flags_import.go:191-288, once and index of the closures)               *)
UsesAreComplete ==
  \A k \in DOMAIN Model :
    accepted[k] # <<>> =>
      LET f == Model[k]
      IN  CASE f.kind \in Keyed  -> content[k] = Entries(k)
            [] f.kind = "slice"  -> content[k] = Elements(k)
            [] IsArray(f)        -> /\ index[k] = Len(Elements(k))
                                    /\ IsPrefix(Elements(k), content[k])
            [] OTHER             -> k \in refused \/ content[k] = Last(Elements(k))

(* A pointer whose flag was never used, and that has no default, is what   *)
(* it was before the export (flags_import.go:290-294).                     *)
UnusedPointersStay ==
  (pc = "ready") =>
    \A k \in DOMAIN Model :
      (/\ Model[k].pointer /\ Model[k].default = Absent
       /\ accepted[k] = <<>> /\ k \notin refused) => content[k] = Model[k].preset

(* What a FlagHandler has noted after the same uses. *)
GivenRef(k) ==
  LET keyed == Model[k].kind \in Keyed
  IN  [FieldRef(Model[k]) EXCEPT
         !.values = IF keyed THEN Values(k) ELSE Firsts(k),
         !.keys = IF keyed THEN Firsts(k) ELSE <<>>]

(* Uses that a FlagHandler reads alike: it does not split the values of a  *)
(* flag that is repeated and wants a value after every key; counters and   *)
(* split=explode have their own forms of arguments.                        *)
Comparable(k) ==
  /\ Model[k].kind \notin {"counter", "explode"}
  /\ accepted[k] # <<>> /\ k \notin refused
  /\ \A text \in ToSet(accepted[k]) :
       Len(text) = IF Model[k].kind \in Keyed THEN 2 ELSE 1

(* The exported flags fill a model as the FlagHandler itself does          *)
(* (flags_test.go:684-708 parses one command line both ways; the closures  *)
(* of flags_import.go:180-379 against flags_parse.go:303-413).             *)
AgreesWithFlagHandler ==
  \A k \in DOMAIN Model :
    Comparable(k) =>
      FillFrom(GivenRef(k), Model[k]) =
        Filled(CASE Model[k].kind \in Keyed \cup {"slice"} -> content[k]
                 [] IsArray(Model[k]) -> SubSeq(content[k], 1, index[k])
                 [] OTHER -> <<content[k]>>)
=============================================================================

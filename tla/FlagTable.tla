------------------------------ MODULE FlagTable ------------------------------
(***************************************************************************)
(* What a FlagHandler knows of its flags (flags_parse.go).  PreWalk enters *)
(* the fields of a model in the tables longFlags, shortFlags and mapFlags; *)
(* parsing gives values to the entries; Fill turns them into the value of  *)
(* a field.  All three are operators here, FlagParse is their life.        *)
(*                                                                         *)
(* An entry of the tables is a pointer: the names of one field share one   *)
(* flagRef, and a second field with one of the names shares it too.  The   *)
(* pointers are the members of DOMAIN refs.                                *)
(*                                                                         *)
(* An argument is the number of its leading dashes (two at most), a name,  *)
(* a sequence of characters, and a value if there is an equals sign.       *)
(***************************************************************************)
EXTENDS Naturals, SequencesExt, Functions, FiniteSetsExt

CONSTANTS
  Commands,     \* names of the subcommands of the main handler
  Fields,       \* for each handler, the fields of its model that have a flag tag
  Imported,     \* for each handler, the flags it imports from a FlagSet: their
                \* names and kinds, whether they have a default text, and the
                \* values that Set refuses
  Numbers,      \* the texts that read as a number, with that number
  Absent        \* the value of an argument without equals sign

(* A handler is known by the command that selects it. *)
Root == <<>>
Handlers == {Root} \cup Commands

Text(name) == [dashes |-> 0, name |-> name, eq |-> FALSE, value |-> Absent]
Yes   == Text(<<"t">>)
No    == Text(<<"f">>)
Empty == Text(<<>>)
HelpName == <<"h", "e", "l", "p">>

(* The kinds of fields that the handler tells apart: "scalar" is a string  *)
(* or another type with one value, "array" an array filled by repeating    *)
(* the flag, "explode" an array whose elements all follow the flag, "map"  *)
(* has map=explode and "prefix" map=prefix.                                *)
ASSUME FieldAssumption ==
  \A h \in Handlers : Fields[h] \in Seq(Range(Fields[h])) /\ \A k \in DOMAIN Fields[h] :
    /\ Fields[h][k].names \in Seq(Range(Fields[h][k].names))
    /\ Fields[h][k].kind \in {"bool", "counter", "scalar", "slice", "array",
                              "explode", "map", "prefix"}
    /\ Fields[h][k].names # <<>>
    /\ Fields[h][k].size \in Nat
    /\ Fields[h][k].required \in BOOLEAN

Several == {"slice", "array", "explode"}
Keyed == {"map", "prefix"}

Ref(kind, size, required, settable) ==
  [kind |-> kind, explode |-> IF kind = "explode" THEN size ELSE 0,
   required |-> required, settable |-> settable,
   values |-> <<>>, used |-> <<>>, keys |-> <<>>]

FieldRef(f) == Ref(f.kind, f.size, f.required, TRUE)

(* The --help flag and imported flags have no setters. *)
PlainRef(kind) == Ref(kind, 0, FALSE, FALSE)

Table(f, name) == IF f.kind = "prefix" THEN "map"
                  ELSE IF Len(name) = 1 THEN "short" ELSE "long"

(* ImportFlagSet: the tables of a handler before any model is walked. *)
ImportedKey(h, k) ==
  <<h, IF Len(Imported[h][k].name) = 1 THEN "short" ELSE "long", Imported[h][k].name>>

ImportedIds == UNION {{<<h, "imported", k>> : k \in DOMAIN Imported[h]} : h \in Handlers}

InitialTables ==
  [at   |-> [key \in {ImportedKey(id[1], id[3]) : id \in ImportedIds} |->
               CHOOSE id \in ImportedIds : ImportedKey(id[1], id[3]) = key],
   refs |-> [id \in ImportedIds |-> PlainRef(Imported[id[1]][id[3]].kind)],
   outcome |-> "ok"]
-----------------------------------------------------------------------------
(* Fields of different kinds may not share a flag, but a slice and an      *)
(* array, or two arrays of different lengths, may.                         *)
Alike(kind1, kind2) == kind1 = kind2 \/ {kind1, kind2} = {"slice", "array"}

Compatible(ref, f) ==
  /\ Alike(ref.kind, f.kind)
  /\ ref.required = f.required
  /\ ref.explode = FieldRef(f).explode

(* One name of one field.  A clash is remembered while the walk goes on;   *)
(* an existing entry without setters panics, whatever was remembered.      *)
Register(tables, h, k, name) ==
  LET f   == Fields[h][k]
      key == <<h, Table(f, name), name>>
      id  == <<h, "field", k>>
  IN  IF tables.outcome = "panic" THEN tables
      ELSE IF key \in DOMAIN tables.at
      THEN LET existing == tables.refs[tables.at[key]]
           IN  IF ~existing.settable THEN [tables EXCEPT !.outcome = "panic"]
               ELSE IF ~Compatible(existing, f) THEN [tables EXCEPT !.outcome = "error"]
               ELSE tables
      ELSE [tables EXCEPT
              !.at = [q \in DOMAIN @ \cup {key} |-> IF q = key THEN id ELSE @[q]],
              !.refs = IF id \in DOMAIN @ THEN @
                       ELSE [q \in DOMAIN @ \cup {id} |->
                               IF q = id THEN FieldRef(f) ELSE @[q]]]

(* All names of one field. *)
RegisterField(tables, h, k) ==
  FoldLeft(LAMBDA t, name : Register(t, h, k, name), tables, Fields[h][k].names)

(* PreWalk of the model of handler h. *)
PreWalk(tables, h) ==
  FoldLeft(LAMBDA t, k : RegisterField(t, h, k),
           [tables EXCEPT !.outcome = "ok"], [k \in DOMAIN Fields[h] |-> k])
-----------------------------------------------------------------------------
(* MUTANT: a flag with several arguments is noted once. *)
GiveOnce(ref, values, dashed) ==
  [ref EXCEPT !.values = @ \o values, !.used = Append(@, dashed)]

(* Giving an entry values while parsing. *)
Give(ref, values, dashed) ==
  [ref EXCEPT !.values = @ \o values,
              !.used = @ \o [v \in DOMAIN values |-> dashed]]

(* How many arguments follow a flag that stands without an equals sign. *)
Arity(ref) ==
  CASE ref.kind \in {"bool", "counter"} -> 0
    [] ref.kind = "explode" /\ ref.explode # 0 -> ref.explode
    [] OTHER -> 1

(* A text split at its first equals sign. *)
KeyOf(text) == [text EXCEPT !.eq = FALSE, !.value = Absent]

(* Whether a flag can have these following arguments (handleFollowingArgs). *)
Acceptable(ref, following) == ref.kind \in Keyed => following[1].eq

GiveFollowing(ref, following, dashed) ==
  CASE ref.kind = "bool"    -> Give(ref, <<Yes>>, dashed)
    [] ref.kind = "counter" -> Give(ref, <<Empty>>, dashed)
    [] ref.kind \in Keyed   -> [Give(ref, <<following[1].value>>, dashed)
                                  EXCEPT !.keys = Append(@, KeyOf(following[1]))]
    [] OTHER                -> Give(ref, following, dashed)

(* A flag with an equals sign (longFlag): the value is taken as it is. *)
GiveValue(ref, value, dashed) == Give(ref, <<value>>, dashed)

(* MUTANT: a key is kept once. *)
GivePrefixedOnce(ref, key, value, dashed) ==
  [Give(ref, <<value>>, dashed) EXCEPT
     !.keys = IF Text(key) \in ToSet(@) THEN @ ELSE Append(@, Text(key))]

GivePrefixed(ref, key, value, dashed) ==
  [Give(ref, <<value>>, dashed) EXCEPT !.keys = Append(@, Text(key))]

(* MUTANT: the values survive the next parse. *)
NotCleared(ref) == ref

Cleared(ref) == [ref EXCEPT !.values = <<>>, !.used = <<>>, !.keys = <<>>]
-----------------------------------------------------------------------------
(* Fill. *)
Unfilled    == [filled |-> FALSE, value |-> Absent, error |-> "none"]
Filled(v)   == [filled |-> TRUE, value |-> v, error |-> "none"]
Failed(e)   == [filled |-> FALSE, value |-> Absent, error |-> e]

(* The values of a counter: the empty text counts, a number replaces. *)
Count(values) ==
  FoldLeft(LAMBDA n, v : IF v = Empty THEN n + 1 ELSE Numbers[v], 0, values)

Countable(values) == \A v \in ToSet(values) : v = Empty \/ v \in DOMAIN Numbers

(* The later of two values of one key replaces the earlier. *)
Pairing(keys, values) ==
  [key \in ToSet(keys) |->
     values[Max({j \in DOMAIN values : keys[j] = key})]]

Truth == {Yes, No, Text(<<"true">>), Text(<<"false">>)}

FillFrom(ref, f) ==
  LET values == ref.values
  IN  CASE ref.kind = "counter" ->
             IF Countable(values) THEN Filled(Count(values)) ELSE Failed("usage")
        [] ref.kind \in Keyed ->
             IF ref.keys = <<>> THEN Unfilled
             ELSE IF Len(ref.keys) < Len(values) THEN Failed("panic")
             ELSE Filled(Pairing(ref.keys, values))
        [] ref.kind \in Several /\ Len(values) > 1 ->
             Filled(SubSeq(values, 1, IF f.kind = "slice" THEN Len(values)
                                      ELSE Min({f.size, Len(values)})))
        [] OTHER ->
             IF ref.kind = "bool" /\ Last(values) \notin Truth
             THEN Failed("usage") ELSE Filled(<<Last(values)>>)

(* What Fill leaves of the entry: an array keeps what fits, for good. *)
AfterFill(ref, f) ==
  IF f.kind \in {"array", "explode"} /\ Len(ref.values) > Max({1, f.size})
  THEN [ref EXCEPT !.values = SubSeq(@, 1, f.size)]
  ELSE ref

(* The keys under which the names of a field are looked up. *)
KeysOf(h, k) == [n \in DOMAIN Fields[h][k].names |->
                   <<h, Table(Fields[h][k], Fields[h][k].names[n]), Fields[h][k].names[n]>>]
=============================================================================

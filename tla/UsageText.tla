------------------------------ MODULE UsageText ------------------------------
(***************************************************************************)
(* The usage text of a FlagHandler (flags_command.go): what it says about  *)
(* each flag is read off the model once more, and not off the tables that  *)
(* PreWalk entered and parsing uses.  A form that the text shows is, here, *)
(* the command line that results if its names for arguments are replaced   *)
(* by a text.  Headings, layout and the help for each flag are left out.   *)
(***************************************************************************)
EXTENDS FlagParse

CONSTANT Sample   \* a text that is a value, and a key, for fields of all kinds

Long(name)       == [Text(name) EXCEPT !.dashes = 2]
Short(name)      == [Text(name) EXCEPT !.dashes = 1]
With(arg, value) == [arg EXCEPT !.eq = TRUE, !.value = value]

(* MUTANT: names of two characters pass for short ones. *)
CategoryOfTwo(name, kind) ==
  CASE Len(name) > 2  -> "parameter"
    [] kind = "bool"  -> "flag"
    [] OTHER          -> "option"

(* getCategory *)
Category(name, kind) ==
  CASE Len(name) # 1  -> "parameter"
    [] kind = "bool"  -> "flag"
    [] OTHER          -> "option"

KeyValue == With(Sample, Sample)

(* opt.format: the forms in which a flag is shown.  Both constructors have *)
(* double dashes.                                                          *)
Format(name, kind) ==
  LET keyed == name \o Sample.name
  IN  CASE Category(name, kind) = "flag" -> {<<Short(name)>>}
        [] Category(name, kind) = "option" ->
             IF kind \in Keyed THEN {<<With(Short(keyed), Sample)>>}
             ELSE {<<Short(name), Sample>>}
        [] Category(name, kind) = "parameter" ->
             CASE kind = "bool"   -> {<<Long(name)>>, <<Long(<<"no-">> \o name)>>}
               [] kind = "prefix" -> {<<With(Long(keyed), Sample)>>}
               [] kind = "map"    -> {<<Long(name), KeyValue>>}
               [] OTHER           -> {<<With(Long(name), Sample)>>}

(* Of a required flag only the first name is shown. *)
NamesShown(f) == IF f.required THEN {f.names[1]} ELSE ToSet(f.names)

(* How the words that select a handler begin a command line. *)
Selecting(g) == IF g = Root THEN <<>> ELSE <<Text(g)>>

ShownUnder(g, names, kind, id) ==
  {[name |-> form[1], kind |-> kind, of |-> id, line |-> Selecting(g) \o form[2]] :
     form \in UNION {{name} \X Format(name, kind) : name \in names}}

(* Usage: the fields of the model and, if there are any, the imported      *)
(* flags.                                                                  *)
Shown(g) ==
  LET fields == Fields[g]
      flags  == IF fields = <<>> THEN <<>> ELSE Imported[g]
  IN  UNION ({ShownUnder(g, NamesShown(fields[k]), fields[k].kind, <<g, "field", k>>) :
                k \in DOMAIN fields}
             \cup {ShownUnder(g, {flags[k].name}, flags[k].kind, <<g, "imported", k>>) :
                     k \in DOMAIN flags})

AllShown == UNION {Shown(g) : g \in Handlers}
-----------------------------------------------------------------------------
(* The forms that the parser refuses or understands otherwise: arrays that *)
(* take several arguments and are shown with an equals sign; counters and  *)
(* map=explode of one character; map=prefix of one character, unless long  *)
(* flags may have one dash; and negations, unless the handler knows them.  *)
Misleading(shown) ==
  \/ shown.kind = "explode"
  \/ Len(shown.name) = 1 /\ shown.kind \in {"counter", "map"}
  \/ Len(shown.name) = 1 /\ shown.kind = "prefix" /\ style = "posix"
  \/ Last(shown.line) = Long(<<"no-">> \o shown.name) /\ style = "go"

(* The usage text and the parser agree, though nothing but convention      *)
(* holds them together: a flag in the form in which it is shown is         *)
(* accepted and gives a value to the field or imported flag it is shown    *)
(* for (flags_command.go:591-663, flags_parse.go:69-164).                  *)
ShownFormsAreAccepted ==
  \A shown \in AllShown :
    (args = shown.line /\ ~Misleading(shown)) =>
      /\ pc # "error"
      /\ pc = "done" => tables.refs[shown.of].values # <<>>
=============================================================================

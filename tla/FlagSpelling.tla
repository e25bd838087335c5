---------------------------- MODULE FlagSpelling ----------------------------
(***************************************************************************)
(* Two handlers of the same model, one after the other: the first parses   *)
(* args, the second the same flags in their plain spelling, in which no    *)
(* short flags are combined and no value stands behind an equals sign.     *)
(* PosixFlagHandler documents that the spellings mean the same             *)
(* (flags_command.go:183-194).                                             *)
(***************************************************************************)
EXTENDS FlagParse

VARIABLE first   \* what the first parse came to

(* The flags of the main handler's model, without the prefix maps. *)
Named(name) ==
  {k \in DOMAIN Fields[Root] :
     Fields[Root][k].kind # "prefix" /\ name \in ToSet(Fields[Root][k].names)}

ArityOf(name) ==
  IF Named(name) = {} THEN 0
  ELSE Arity(FieldRef(Fields[Root][CHOOSE k \in Named(name) : TRUE]))

UpTo(s, n)   == SubSeq(s, 1, Min({n, Len(s)}))
Behind(s, n) == SubSeq(s, n + 1, Len(s))

RECURSIVE Plain(_), Apart(_, _)

(* The short flags of a cluster, each with its arguments. *)
Apart(cluster, rest) ==
  IF cluster = <<>> THEN Plain(rest)
  ELSE LET name == <<Head(cluster)>>
           n == ArityOf(name)
       IN  <<[Text(name) EXCEPT !.dashes = 1]>> \o UpTo(rest, n)
             \o Apart(Tail(cluster), Behind(rest, n))

(* The same arguments in their plain spelling. *)
Plain(a) ==
  IF a = <<>> \/ a[1] = DashDash \/ IsWord(a[1]) THEN a
  ELSE IF a[1].dashes = 1 THEN Apart(a[1].name, Tail(a))
  ELSE IF a[1].eq /\ ArityOf(a[1].name) = 1
  THEN <<KeyOf(a[1]), a[1].value>> \o Plain(Tail(a))
  ELSE LET n == IF a[1].eq THEN 0 ELSE ArityOf(a[1].name)
       IN  <<a[1]>> \o UpTo(Tail(a), n) \o Plain(Behind(Tail(a), n))

InitTwice == Init /\ first = <<>>

(* The second handler starts from nothing. *)
Respell ==
  /\ Terminated /\ first = <<>>
  /\ first' = [pc |-> pc, result |-> result, imports |-> imports, remainder |-> remainder]
  /\ args' = Plain(args)
  /\ UNCHANGED <<style, ignorable>>
  /\ pc' = "start" /\ passes' = 0
  /\ h' = Root /\ i' = 1 /\ pending' = <<>>
  /\ tables' = InitialTables
  /\ requests' = <<Root>> /\ selected' = Root
  /\ parsed' = {} /\ helped' = {}
  /\ preference' = <<>>
  /\ remainder' = [g \in Handlers |-> <<>>]
  /\ todo' = <<>>
  /\ result' = [f \in AllFields |-> Unfilled]
  /\ imports' = [id \in ImportedIds |-> <<>>]
  /\ earlier' = <<>>
  /\ role' = [p \in DOMAIN args' |-> "none"]

NextTwice == (Next /\ UNCHANGED first) \/ Respell

SpecTwice == InitTwice /\ [][NextTwice]_<<vars, first>>

(* "-a x -b y" and "-ab x y" are the same, and so are "--flag=value" and   *)
(* "--flag value" (flags_command.go:183-192): what the one spelling fills, *)
(* the other fills alike, and leaves the same remainder.                   *)
SpellingsAgree ==
  (first # <<>> /\ Terminated /\ first.pc = "done") =>
    /\ pc = "done"
    /\ result = first.result
    /\ imports = first.imports
    /\ remainder = first.remainder
=============================================================================

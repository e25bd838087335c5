--------------------------- MODULE MC_FlagSpelling ---------------------------
(* Models and command lines small enough for TLC. *)
EXTENDS FlagSpelling

CONSTANT MaxArgs   \* bound: length of a command line

F(names, kind, size, required) ==
  [names |-> names, kind |-> kind, size |-> size, required |-> required]

Long(name)         == [Text(name) EXCEPT !.dashes = 2]
Short(name)        == [Text(name) EXCEPT !.dashes = 1]
Assign(arg, value) == [arg EXCEPT !.eq = TRUE, !.value = value]

Lists(tokens) == UNION {[1..n -> tokens] : n \in 0..MaxArgs}

NoCommand      == {}
NoNumbers      == [t \in {} |-> 0]
NoneImported   == [g \in Handlers |-> <<>>]
NothingIgnored == {<<>>}

(* A flag of every arity, with a short and a long name. *)
PlainFields == [g \in Handlers |->
  << F(<<<<"a">>, <<"a", "a">>>>, "scalar", 0, FALSE),
     F(<<<<"b">>, <<"b", "b">>>>, "bool", 0, FALSE),
     F(<<<<"s">>, <<"s", "s">>>>, "slice", 0, FALSE),
     F(<<<<"x">>, <<"x", "x">>>>, "explode", 2, FALSE) >>]

One == Text(<<"1">>)
Two == Text(<<"2">>)

PlainArgs == Lists({Short(<<"a", "s">>), Short(<<"b", "x", "a">>), Short(<<"s", "b", "s">>),
                    Assign(Long(<<"s", "s">>), One), Long(<<"a", "a">>), One, Two})

(* A map whose key and value follow the flag, as in --ee k=1. *)
MapFields == [g \in Handlers |-> << F(<<<<"e">>, <<"e", "e">>>>, "map", 0, FALSE) >>]

MapArgs == Lists({Assign(Long(<<"e", "e">>), Assign(Text(<<"k">>), One)), Short(<<"e">>),
                  Assign(Text(<<"k">>), Two)})
=============================================================================

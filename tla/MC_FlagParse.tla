---------------------------- MODULE MC_FlagParse ----------------------------
(* Models and command lines small enough for TLC. *)
EXTENDS UsageText

CONSTANT MaxArgs   \* bound: length of a command line

F(names, kind, size, required) ==
  [names |-> names, kind |-> kind, size |-> size, required |-> required]

Lists(tokens) == UNION {[1..n -> tokens] : n \in 0..MaxArgs}

Sub == <<"s", "u", "b">>
Bad == <<"b", "a", "d">>
TwoCommands == {Sub, Bad}

Five == Text(<<"5">>)
NumberTexts == [t \in {Text(<<"5">>)} |-> 5]

NoneImported == [g \in Handlers |-> <<>>]
(* One with a default, and one without, whose Set wants a number.         *)
SomeImported == [g \in Handlers |->
  IF g = Root
  THEN << [name |-> <<"i", "m">>, kind |-> "scalar", default |-> TRUE, refused |-> {}],
          [name |-> <<"i">>, kind |-> "scalar", default |-> FALSE, refused |-> {Text(Sub)}] >>
  ELSE <<>>]

(* A boolean, a scalar and an array, all with a short and a long name, a   *)
(* prefix map and a map; a subcommand gives other meanings to the names of *)
(* the main handler, and another one has a flag --help of its own.         *)
MainFields == [g \in Handlers |->
  IF g = Root
  THEN << F(<<<<"b">>, <<"b", "o">>>>, "bool", 0, FALSE),
          F(<<<<"n">>, <<"n", "u">>>>, "scalar", 0, FALSE),
          F(<<<<"x">>, <<"e", "x">>>>, "explode", 2, FALSE),
          F(<<<<"D">>>>, "prefix", 0, FALSE),
          F(<<<<"m", "a">>, <<"m">>>>, "map", 0, TRUE) >>
  ELSE IF g = Bad THEN << F(<<HelpName>>, "bool", 0, FALSE) >>
  ELSE << F(<<<<"n">>, <<"c", "o">>>>, "counter", 0, FALSE) >>]

Pair == With(Text(<<"k">>), Text(<<"5">>))

PosixTokens ==
  {Short(<<"b", "n">>), Short(<<"z", "x">>), Short(<<"i">>), Long(<<"e", "x">>), Long(<<"n", "u">>), Long(<<"no-", "b", "o">>),
   With(Long(<<"D", "k">>), Text(<<"5">>)), With(Long(<<"i", "m">>), Text(<<"5">>)),
   With(Long(<<"c", "o">>), Text(<<"5">>)), Long(<<"i", "g">>), Short(<<"m">>),
   With(Long(<<"m", "a">>), Pair), Pair,
   Long(HelpName), Text(HelpName), Text(Sub), Text(Bad), Text(<<"5">>), DashDash}

GoTokens ==
  {Short(<<"b">>), Short(<<"n">>), Short(<<"z">>), Short(<<"e", "x">>), Short(<<"n", "u">>),
   With(Short(<<"c", "o">>), Text(<<"5">>)), With(Long(<<"D", "k">>), Text(<<"5">>)),
   Long(<<"i", "g">>), Text(Sub), Text(<<"5">>), Dash}

(* For the two constructors, and the command lines that the usage texts     *)
(* show for each flag.                                                      *)
BothArgs == Lists(PosixTokens) \cup Lists(GoTokens) \cup {shown.line : shown \in AllShown}

(* -z takes no argument, --ig takes one; or nothing is ignored. *)
SomeIgnored ==
  {<<>>, [name \in {<<"z">>, <<"i", "g">>} |-> name = <<"i", "g">>]}

(* Which handlers have WithHelpText, which NoPositional. *)
RootOnly == {Root}
SubOnly  == {Sub}
=============================================================================

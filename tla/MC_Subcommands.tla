--------------------------- MODULE MC_Subcommands ---------------------------
(* Trees of up to four handlers. *)
EXTENDS Subcommands

K(text, model) == [text |-> text, model |-> model]

SomeKinds == {K(FALSE, "none"), K(TRUE, "none"), K(FALSE, "word")}

SomeNames == {"a", "b", "help"}

SomeArgs == {<<"a", "a", "a">>, <<"a", "help", "a">>, <<"--help", "a", "--help">>}
=============================================================================

--------------------------- MODULE MC_ConfigFiles ---------------------------
(* Two fillers that accept files; the first request has fillers of its own *)
(* and the last a prefix.                                                  *)
EXTENDS ConfigFiles, TLC

CONSTANTS c1, c2, f1, f2

TwoClients == {c1, c2}
TwoFiles   == {f1, f2}
TwoTags    == <<"config", "other">>
Second     == {2}
Outer      == {1, 3}
Third      == {3}

(* Clients run the same code, and the files are alike. *)
Symmetry == Permutations({c1, c2}) \cup Permutations({f1, f2})
=============================================================================

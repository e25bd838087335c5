------------------------------ MODULE MC_Export ------------------------------
(* A model with one field of every kind that ExportToFlagSet tells apart.   *)
EXTENDS Export

CONSTANTS p, q   \* pieces

E(name, kind, size, pointer, native, preset, default) ==
  [names |-> <<name>>, kind |-> kind, size |-> size, required |-> FALSE,
   pointer |-> pointer, native |-> native, preset |-> preset, default |-> default]

Complete ==
  << E(<<"m">>, "map", 0, FALSE, FALSE, p :> q, Absent),
     E(<<"s">>, "slice", 0, FALSE, FALSE, <<q>>, Absent),
     E(<<"a">>, "array", 3, TRUE, FALSE, Nil, Absent),
     E(<<"i">>, "scalar", 0, TRUE, TRUE, Nil, Absent),
     E(<<"n">>, "scalar", 0, TRUE, TRUE, Nil, p),
     E(<<"f">>, "scalar", 0, FALSE, FALSE, q, p),
     E(<<"b">>, "bool", 0, FALSE, TRUE, Blank, Yes) >>

(* Models whose export fails: a default that cannot be parsed, one name    *)
(* twice, one name with two meanings.                                      *)
BadDefault == <<E(<<"n">>, "scalar", 0, TRUE, TRUE, Nil, Bad)>>
Twice      == <<E(<<"n">>, "scalar", 0, FALSE, TRUE, q, Blank),
                E(<<"n">>, "scalar", 0, FALSE, FALSE, q, Absent)>>
Clash      == <<E(<<"n">>, "scalar", 0, FALSE, TRUE, q, Absent),
                E(<<"n">>, "slice", 0, FALSE, FALSE, <<>>, Absent)>>

Others == {<<"bad">>, <<"twice">>, <<"clash">>}
Models == [g \in Handlers |->
  CASE g = <<"bad">>   -> BadDefault
    [] g = <<"twice">> -> Twice
    [] g = <<"clash">> -> Clash
    [] OTHER           -> Complete]

NoneImported == [g \in Handlers |-> <<>>]
NoNumbers == <<>>

TextsOfField(f) ==
  CASE f.kind \in Keyed -> {<<p, q>>, <<q, p>>, <<p>>, <<Blank>>, <<p, Bad>>}
    [] f.kind = "slice" -> {<<p>>, <<q>>, <<p, q>>, <<p, Bad>>}
    [] IsArray(f)       -> {<<p>>, <<p, q>>, <<p, Bad>>}
    [] f.kind = "bool"  -> {<<Yes>>, <<No>>, <<Bad>>}
    [] OTHER            -> {<<p>>, <<q>>, <<Bad>>}
=============================================================================

------------------------------- MODULE MC_Fill -------------------------------
(* Objects and sources small enough for TLC. *)
EXTENDS Fill

Scalar    == [kind |-> "scalar"]
Ptr(t)    == [kind |-> "ptr", elem |-> t]
Array(t)  == [kind |-> "array", elem |-> t, size |-> 2]
Map(t)    == [kind |-> "map", elem |-> t]
Struct(f) == [kind |-> "struct", fields |-> f]

Field(name, t, tags, meta) == [name |-> name, type |-> t, tags |-> tags, meta |-> meta]
Tag(tag, name) == [tag |-> tag, name |-> name]

Default == [name |-> NoTag, first |-> TRUE, combine |-> TRUE, desc |-> ""]
FromLast    == [Default EXCEPT !.first = FALSE]
Once    == [Default EXCEPT !.combine = FALSE]
NoDesc  == [Default EXCEPT !.desc = "no"]

Flag == Tag("flag", "f")
Env  == Tag("env", "E")

FieldTags == {<<>>, <<Flag, Env>>, <<Env, Tag("alt", "b")>>, <<Tag("alt", NoTag), Flag>>,
              <<Tag("cfg", "-"), Tag("alt", NoTag), Env>>}

Inner == Struct(<<Field("b", Scalar, <<>>, Default), Field("a", Ptr(Scalar), <<>>, FromLast)>>)

Scalars == {Field("a", Scalar, tags, meta) :
              tags \in FieldTags,
              meta \in {Default, FromLast, [Default EXCEPT !.name = "b"], [Default EXCEPT !.name = "-"]}}
Nested  == {Field("a", t, tags, Default) :
              t \in {Ptr(Inner), Inner, Ptr(Struct(<<Field("b", Scalar, <<Flag>>, Default)>>)),
                     Ptr(Scalar)},
              tags \in {<<>>, <<Tag("cfg", "-")>>}}
Lists   == {Field("a", Slice(t), <<>>, meta) :
              t \in {Scalar, Struct(<<Field("b", Scalar, <<>>, Default)>>), Slice(Scalar)},
              meta \in {Default, Once, FromLast}}
             \cup {Field("a", Slice(Scalar), <<Tag("alt", NoTag), Flag>>, meta) : meta \in {Default, FromLast, NoDesc}}
             \cup {Field("a", Array(Scalar), <<>>, meta) : meta \in {Default, Once}}
Maps    == {Field("a", Map(t), tags, meta) :
              t \in {Scalar, Struct(<<Field("b", Scalar, <<>>, Default)>>)},
              tags \in {<<>>, <<Tag("cfg", NoTag), Tag("alt", NoTag)>>},
              meta \in {Default, Once, FromLast}}

AllObjects == {Struct(<<f>>) : f \in Scalars \cup Nested \cup Lists \cup Maps}

(* What a file may have for "a" or "b": the numbers tell the files apart. *)
Number(n)  == [kind |-> "scalar", value |-> n]
List(s)    == [kind |-> "list", items |-> s]
Entries(e) == [kind |-> "map", entries |-> e]

AB(x, y) == Entries([key \in {"a", "b"} |-> IF key = "a" THEN x ELSE y])
B(x)     == Entries([key \in {"b"} |-> x])

Nodes(n) == {Number(n), List(<<>>), List(<<Number(n)>>), List(<<Number(n), Number(n + 1)>>),
             List(<<B(Number(n)), AB(Number(n), Number(n + 1))>>), List(<<List(<<Number(n)>>)>>),
             B(Number(n)), AB(Number(n), Number(n + 1)), B(B(Number(n)))}

Files(nodes, n) == {[kind |-> "file", node |-> node] :
               node \in {Entries([key \in {} |-> 0]), AB(Number(n), Number(n + 5))}
                          \cup {Entries([key \in {"a"} |-> x]) : x \in nodes}}

Lookup(kind, name, texts) ==
  {[kind |-> kind, given |-> given] :
     given \in {[k \in {} |-> <<>>]} \cup {[k \in {name} |-> text] : text \in texts}}

AllTags == {"flag", "env", "cfg", "alt"}
InOrder == <<"env", "cfg", "alt", "flag">>

AllSources ==
  {[tag \in AllTags |-> CASE tag = "flag" -> f [] tag = "env" -> e [] tag = "cfg" -> c [] OTHER -> a] :
     f \in Lookup("flag", "f", {<<31>>, <<31, 32>>}), e \in Lookup("lookup", "E", {<<21>>}),
     c \in Files(Nodes(1), 1),
     a \in Files({Number(11), List(<<Number(11), Number(12)>>), List(<<B(Number(11))>>),
                  AB(Number(11), Number(12)), B(B(Number(11)))}, 11)}

(* A pointer with a name in the environment and a default. *)
PointerObjects == {Struct(<<Field("a", Ptr(Scalar), <<Env, Tag("default", "41")>>, Default)>>)}

PointerOrder   == <<"env", "default">>
PointerSources == {[tag \in {"env", "default"} |-> IF tag = "env" THEN e ELSE d] :
                     e \in Lookup("lookup", "E", {<<21>>}), d \in Lookup("lookup", "41", {<<41>>})}

NoPrefix == {<<>>}
SomePrefixes == {<<>>, <<"a">>}

(* The fillers are known from Sources. *)
NoFillers == {}
=============================================================================

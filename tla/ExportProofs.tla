---------------------------- MODULE ExportProofs ----------------------------
(***************************************************************************)
(* Theorems about Export, for every model and every number of uses: the    *)
(* closures keep to their types, an array is never indexed out of range,   *)
(* a pointer nobody asked to be set stays as it was, the values of a field *)
(* are what its accepted uses add up to, and these are what a FlagHandler  *)
(* makes of the same arguments.                                            *)
(***************************************************************************)
EXTENDS Export, SequenceTheorems, Induction

(* The functions of the state, and what the code makes of arrays before    *)
(* their pointer is followed.                                              *)
ShapeInv ==
  /\ h \in Handlers
  /\ DOMAIN content = DOMAIN Model
  /\ DOMAIN accepted = DOMAIN Model
  /\ \A k \in DOMAIN Model : accepted[k] \in Seq(TextsOf(Model[k]))

PlaceInv ==
  /\ pc \in {"walk", "export", "ready", "error", "panic"}
  /\ next \in 1..(Len(Model) + 1)
  /\ once \subseteq {k \in DOMAIN Model : Model[k].kind \in Keyed \cup {"slice"}}

ArrayInv ==
  /\ DOMAIN index = DOMAIN Model
  /\ \A k \in DOMAIN Model :
       /\ IsArray(Model[k]) => content[k] = Nil \/ DOMAIN content[k] = 1..Model[k].size
       /\ index[k] \in 0..(IF IsArray(Model[k]) THEN Model[k].size ELSE 0)

(* UnusedPointersStay, wherever the export is. *)
PointerInv ==
  \A k \in DOMAIN Model :
    (/\ Model[k].pointer /\ Model[k].default = Absent
     /\ accepted[k] = <<>> /\ k \notin refused) => content[k] = Model[k].preset

IInv == ShapeInv /\ PlaceInv /\ ArrayInv /\ PointerInv
-----------------------------------------------------------------------------
(* The model of a handler is a sequence of fields with their kinds, sizes, *)
(* values and texts.                                                       *)
LEMMA ModelFacts ==
  ASSUME h \in Handlers
  PROVE  /\ Len(Model) \in Nat /\ DOMAIN Model = 1..Len(Model)
         /\ \A k \in DOMAIN Model :
              /\ Model[k].size \in Nat
              /\ IsArray(Model[k]) => Model[k].preset = Nil \/ DOMAIN Model[k].preset = 1..Model[k].size
              /\ \A text \in TextsOf(Model[k]) : Len(text) \in Nat
BY ModelAssumption, FieldAssumption DEF Model, IsArray

LEMMA InitIsGood == Init => IInv
<1> SUFFICES ASSUME Init PROVE IInv
  OBVIOUS
<1> USE DEF Init
<1>1. ShapeInv /\ PlaceInv
  BY ModelFacts DEF ShapeInv, PlaceInv
<1>2. ArrayInv
  BY ModelFacts DEF ArrayInv
<1>3. PointerInv
  BY DEF PointerInv
<1> QED
  BY <1>1, <1>2, <1>3 DEF IInv

(* Whatever is kept of an array, the pointer leads to an array. *)
LEMMA ArrayIsHeld ==
  ASSUME NEW k \in DOMAIN Model, IsArray(Model[k]), ArrayInv
  PROVE  DOMAIN Held(k) = 1..Model[k].size
BY DEF ArrayInv, Held, Zero, IsArray, Keyed

(* PreWalk of the model decides only where the export goes on. *)
LEMMA WalkIsGood == IInv /\ Walk => IInv'
<1> SUFFICES ASSUME IInv, Walk PROVE IInv'
  OBVIOUS
<1>1. pc' \in {"export", "panic", "error"} /\ UNCHANGED <<h, next, closures, history>>
  BY DEF Walk
<1>2. Model' = Model
  BY <1>1 DEF Model
<1> QED
  BY <1>1, <1>2 DEF IInv, ShapeInv, PlaceInv, ArrayInv, PointerInv, closures, history

(* The definition of a flag touches only its own field, and an array or a  *)
(* pointer without default not at all.                                     *)
LEMMA ExportIsGood == IInv /\ ExportField => IInv'
<1> SUFFICES ASSUME IInv, ExportField PROVE IInv'
  OBVIOUS
<1> DEFINE f == Model[next]
           fails == Typed(f) /\ f.default = Bad
<1>0. Len(Model) \in Nat /\ DOMAIN Model = 1..Len(Model)
  BY ModelFacts DEF IInv, ShapeInv
<1>1. /\ next \in DOMAIN Model /\ next' = next + 1
      /\ pc' \in {"error", "panic", "ready", "export"}
      /\ content' = [content EXCEPT ![next] = IF fails THEN Held(next) ELSE Defined(next)]
      /\ UNCHANGED <<h, once, index, accepted, refused>>
  <2>1. next <= Len(Model) /\ next \in 1..(Len(Model) + 1)
    BY DEF ExportField, IInv, PlaceInv
  <2>2. next \in DOMAIN Model
    BY <1>0, <2>1
  <2> QED
    BY <2>2 DEF ExportField, history
<1>2. Model' = Model
  BY <1>1 DEF Model
<1>3. ShapeInv'
  BY <1>1, <1>2 DEF IInv, ShapeInv
<1>4. PlaceInv'
  BY <1>0, <1>1, <1>2 DEF IInv, PlaceInv
<1>5. ~Typed(f) => \A k \in DOMAIN Model : content'[k] = content[k]
  BY <1>1 DEF Defined, IInv, ShapeInv
<1>6. ArrayInv'
  <2> SUFFICES ASSUME NEW k \in DOMAIN Model
               PROVE  /\ IsArray(Model[k]) => content'[k] = Nil \/ DOMAIN content'[k] = 1..Model[k].size
                      /\ index'[k] \in 0..(IF IsArray(Model[k]) THEN Model[k].size ELSE 0)
    BY <1>1, <1>2 DEF IInv, ArrayInv
  <2>1. IsArray(f) => ~Typed(f)
    BY DEF IsArray, Typed
  <2>2. IsArray(Model[k]) => content'[k] = content[k]
    BY <1>1, <1>5, <2>1 DEF IInv, ShapeInv
  <2> QED
    BY <1>1, <2>2 DEF IInv, ArrayInv
<1>7. PointerInv'
  <2> SUFFICES ASSUME NEW k \in DOMAIN Model,
                      Model[k].pointer, Model[k].default = Absent,
                      accepted[k] = <<>>, k \notin refused
               PROVE  content'[k] = Model[k].preset
    BY <1>1, <1>2 DEF PointerInv
  <2>1. content[k] = Model[k].preset
    BY DEF IInv, PointerInv
  <2>2. k = next => ~Typed(f)
    BY DEF Typed
  <2> QED
    BY <1>1, <1>5, <2>1, <2>2 DEF IInv, ShapeInv
<1> QED
  BY <1>3, <1>4, <1>6, <1>7 DEF IInv
-----------------------------------------------------------------------------
(* What all uses have in common: the value of one field changes, and the   *)
(* use is noted as accepted or refused.                                    *)
LEMMA UseIsNoted ==
  ASSUME IInv, NEW k \in DOMAIN Model, NEW text \in TextsOf(Model[k]), NEW taken \in BOOLEAN,
         NEW value, Use(k, text, taken, value)
  PROVE  /\ ShapeInv' /\ PointerInv'
         /\ pc' = pc /\ next' = next /\ Model' = Model
         /\ content' = [content EXCEPT ![k] = value]
<1>1. /\ UNCHANGED <<h, pc, next>>
      /\ content' = [content EXCEPT ![k] = value]
      /\ accepted' = IF taken THEN [accepted EXCEPT ![k] = Append(@, text)] ELSE accepted
      /\ refused' = IF taken THEN refused \ {k} ELSE refused \cup {k}
  BY DEF Use
<1>2. Model' = Model
  BY <1>1 DEF Model
<1>3. /\ Append(accepted[k], text) \in Seq(TextsOf(Model[k]))
      /\ Append(accepted[k], text) # <<>>
  BY DEF IInv, ShapeInv
<1>4. ShapeInv'
  BY <1>1, <1>2, <1>3 DEF IInv, ShapeInv
<1>5. PointerInv'
  <2> SUFFICES ASSUME NEW j \in DOMAIN Model,
                      Model[j].pointer, Model[j].default = Absent,
                      accepted'[j] = <<>>, j \notin refused'
               PROVE  content'[j] = Model[j].preset
    BY <1>2 DEF PointerInv
  <2>1. j # k
    BY <1>1, <1>3 DEF IInv, ShapeInv
  <2>2. accepted[j] = <<>> /\ j \notin refused
    BY <1>1, <2>1 DEF IInv, ShapeInv
  <2> QED
    BY <1>1, <2>1, <2>2 DEF IInv, ShapeInv, PointerInv
<1> QED
  BY <1>1, <1>2, <1>4, <1>5

(* No use of a field that is no array sets elements by their index. *)
LEMMA OthersKeepArrays ==
  ASSUME IInv, NEW k \in DOMAIN Model, NEW value, ~IsArray(Model[k]),
         content' = [content EXCEPT ![k] = value], Model' = Model, UNCHANGED index
  PROVE  ArrayInv'
BY DEF IInv, ShapeInv, ArrayInv

LEMMA UseMapIsGood ==
  ASSUME IInv, NEW k \in DOMAIN Model, NEW text \in TextsOf(Model[k]), UseMap(k, text)
  PROVE  IInv'
<1>0. PICK taken \in BOOLEAN : \E value : Use(k, text, taken, value)
  BY DEF UseMap, Taken
<1>1. PICK value : Use(k, text, taken, value)
  BY <1>0
<1>2. /\ ShapeInv' /\ PointerInv' /\ pc' = pc /\ next' = next /\ Model' = Model
      /\ content' = [content EXCEPT ![k] = value]
  BY <1>1, UseIsNoted
<1>3. PlaceInv'
  BY <1>2 DEF UseMap, IInv, PlaceInv
<1>4. ArrayInv'
  BY <1>2, OthersKeepArrays DEF UseMap, IsArray, Keyed
<1> QED
  BY <1>2, <1>3, <1>4 DEF IInv

LEMMA UseSliceIsGood ==
  ASSUME IInv, NEW k \in DOMAIN Model, NEW text \in TextsOf(Model[k]), UseSlice(k, text)
  PROVE  IInv'
<1>1. PICK value : Use(k, text, Taken(text), value)
  BY DEF UseSlice
<1>2. /\ ShapeInv' /\ PointerInv' /\ pc' = pc /\ next' = next /\ Model' = Model
      /\ content' = [content EXCEPT ![k] = value]
  BY <1>1, UseIsNoted DEF Taken
<1>3. PlaceInv'
  BY <1>2 DEF UseSlice, IInv, PlaceInv
<1>4. ArrayInv'
  BY <1>2, OthersKeepArrays DEF UseSlice, IsArray
<1> QED
  BY <1>2, <1>3, <1>4 DEF IInv

LEMMA UseScalarIsGood ==
  ASSUME IInv, NEW k \in DOMAIN Model, NEW text \in TextsOf(Model[k]), UseScalar(k, text)
  PROVE  IInv'
<1>1. PICK value : Use(k, text, Taken(text), value)
  <2>1. CASE Taken(text)
    BY <2>1 DEF UseScalar
  <2>2. CASE ~Taken(text)
    <3>1. \E left : Use(k, text, FALSE, left)
      BY <2>2 DEF UseScalar
    <3> QED
      BY <2>2, <3>1 DEF Taken
  <2> QED
    BY <2>1, <2>2
<1>2. /\ ShapeInv' /\ PointerInv' /\ pc' = pc /\ next' = next /\ Model' = Model
      /\ content' = [content EXCEPT ![k] = value]
  BY <1>1, UseIsNoted DEF Taken
<1>3. PlaceInv'
  BY <1>2 DEF UseScalar, IInv, PlaceInv
<1>4. ArrayInv'
  BY <1>2, OthersKeepArrays DEF UseScalar, IsArray
<1> QED
  BY <1>2, <1>3, <1>4 DEF IInv

(* The index advances only by a text that fits. *)
LEMMA UseArrayIsGood ==
  ASSUME IInv, NEW k \in DOMAIN Model, NEW text \in TextsOf(Model[k]), UseArray(k, text)
  PROVE  IInv'
<1> DEFINE fits  == index[k] + Len(text) <= Model[k].size
           taken == fits /\ Taken(text)
           value == IF fits THEN Overwritten(Held(k), index[k], Sound(text)) ELSE Held(k)
<1>1. /\ IsArray(Model[k]) /\ Use(k, text, taken, value)
      /\ index' = IF taken THEN [index EXCEPT ![k] = @ + Len(text)] ELSE index
      /\ once' = once
  BY DEF UseArray
<1> HIDE DEF value
<1>2. taken \in BOOLEAN
  BY DEF Taken
<1>3. /\ ShapeInv' /\ PointerInv' /\ pc' = pc /\ next' = next /\ Model' = Model
      /\ content' = [content EXCEPT ![k] = value]
  BY <1>1, <1>2, UseIsNoted
<1>4. PlaceInv'
  BY <1>1, <1>3 DEF IInv, PlaceInv
<1>5. DOMAIN value = 1..Model[k].size
  BY <1>1, ArrayIsHeld DEF IInv, Overwritten, value
<1>6. Len(text) \in Nat /\ Model[k].size \in Nat /\ index[k] \in 0..Model[k].size
  BY <1>1, ModelFacts DEF IInv, ShapeInv, ArrayInv
<1>7. ArrayInv'
  BY <1>1, <1>3, <1>5, <1>6 DEF IInv, ShapeInv, ArrayInv
<1> QED
  BY <1>3, <1>4, <1>7 DEF IInv

LEMMA StepIsGood == IInv /\ [Next]_vars => IInv'
<1> SUFFICES ASSUME IInv, [Next]_vars PROVE IInv'
  OBVIOUS
<1>1. CASE UNCHANGED vars
  BY <1>1 DEF vars, closures, history, IInv, ShapeInv, PlaceInv, ArrayInv, PointerInv, Model
<1>2. CASE \E k \in DOMAIN Model : \E text \in TextsOf(Model[k]) :
             UseMap(k, text) \/ UseSlice(k, text) \/ UseArray(k, text) \/ UseScalar(k, text)
  BY <1>2, UseMapIsGood, UseSliceIsGood, UseArrayIsGood, UseScalarIsGood
<1> QED
  BY <1>1, <1>2, WalkIsGood, ExportIsGood DEF Next

THEOREM Inductive == Spec => []IInv
BY InitIsGood, StepIsGood, PTL DEF Spec

(* The state of the closures has its types, and no use of an array's flag  *)
(* sets an element behind its end (flags_import.go:243-262).               *)
THEOREM TypeCorrect == Spec => []TypeOK
<1>1. IInv => TypeOK
  BY ArrayIsHeld DEF IInv, PlaceInv, ArrayInv, TypeOK
<1> QED
  BY <1>1, Inductive, PTL

(* A pointer whose flag was never used, and that has no default, is what   *)
(* it was before the export (flags_import.go:290-294).                     *)
THEOREM PointersStay == Spec => []UnusedPointersStay
<1>1. IInv => UnusedPointersStay
  BY DEF IInv, PointerInv, UnusedPointersStay
<1> QED
  BY <1>1, Inductive, PTL
-----------------------------------------------------------------------------
(* f[i] is the concatenation of the first i members of s. *)
Flattens(f, s) == f = [i \in 1..Len(s) |-> IF i = 1 THEN s[i] ELSE f[i - 1] \o s[i]]

(* Two sequences agree in their first n members. *)
Agree(s, t, n) == \A i \in 1..n : i \in DOMAIN s /\ i \in DOMAIN t /\ s[i] = t[i]

(* Concatenation in one way only: the first members decide. *)
LEMMA FlattensUnique ==
  ASSUME NEW s, DOMAIN s = 1..Len(s), NEW t, DOMAIN t = 1..Len(t), NEW n \in Nat, Agree(s, t, n),
         NEW f, Flattens(f, s), NEW g, Flattens(g, t)
  PROVE  Agree(f, g, n)
<1>0. DOMAIN f = DOMAIN s /\ DOMAIN g = DOMAIN t
  BY DEF Flattens
<1> SUFFICES \A i \in 1..n : f[i] = g[i]
  BY <1>0 DEF Agree
<1> DEFINE differ == {i \in 1..n : f[i] # g[i]}
<1> SUFFICES ASSUME differ # {} PROVE FALSE
  OBVIOUS
<1>1. PICK i \in differ : \A j \in differ : i <= j
  <2>1. differ \in SUBSET Nat
    OBVIOUS
  <2> HIDE DEF differ
  <2> QED
    BY <2>1, Least
<1>2. i \in 1..n /\ i \in 1..Len(s) /\ i \in 1..Len(t) /\ f[i] # g[i] /\ s[i] = t[i]
  BY DEF Agree
<1>3. /\ f[i] = IF i = 1 THEN s[i] ELSE f[i - 1] \o s[i]
      /\ g[i] = IF i = 1 THEN t[i] ELSE g[i - 1] \o t[i]
  BY <1>2 DEF Flattens
<1>4. i # 1 => f[i - 1] = g[i - 1]
  <2> SUFFICES ASSUME i # 1 PROVE f[i - 1] = g[i - 1]
    OBVIOUS
  <2>1. i - 1 \in 1..n /\ ~(i <= i - 1)
    BY <1>2
  <2>2. i - 1 \notin differ
    BY <1>1, <2>1
  <2> QED
    BY <2>1, <2>2
<1> QED
  BY <1>2, <1>3, <1>4

(* There is a concatenation of every sequence of sequences. *)
LEMMA FlattensExists ==
  ASSUME NEW S, NEW s \in Seq(Seq(S))
  PROVE  \E f : Flattens(f, s) /\ \A i \in 1..Len(s) : f[i] \in Seq(S)
<1> DEFINE Good == {t \in Seq(Seq(S)) : \E f : Flattens(f, t) /\ \A i \in 1..Len(t) : f[i] \in Seq(S)}
<1>1. <<>> \in Good
  <2> DEFINE none == <<>>
             f == [i \in 1..Len(none) |-> none]
  <2>1. none \in Seq(Seq(S)) /\ 1..Len(none) = {}
    BY EmptySeq
  <2>2. Flattens(f, none)
    <3> HIDE DEF none
    <3> QED
      BY <2>1 DEF Flattens
  <2> HIDE DEF none, f
  <2>3. none \in Good
    BY <2>1, <2>2
  <2> QED
    BY <2>3 DEF none
<1>2. ASSUME NEW t \in Seq(Seq(S)), NEW x \in Seq(S), t \in Good PROVE Append(t, x) \in Good
  <2> DEFINE n == Len(t)
             m == n + 1
             u == Append(t, x)
  <2>1. PICK f : Flattens(f, t) /\ \A i \in 1..n : f[i] \in Seq(S)
    BY <1>2
  <2>2. /\ n \in Nat /\ u \in Seq(Seq(S)) /\ Len(u) = m /\ u[m] = x
        /\ \A i \in 1..n : u[i] = t[i]
    BY LenProperties, AppendProperties
  <2>3. /\ 1..m = (1..n) \cup {m} /\ m \notin 1..n /\ (m # 1 => m - 1 \in 1..n)
        /\ \A i \in 1..n : i # 1 => i - 1 \in 1..n
    BY <2>2
  <2> DEFINE g == [i \in 1..m |-> IF i \in 1..n THEN f[i] ELSE IF m = 1 THEN x ELSE f[m - 1] \o x]
  <2>4. \A i \in 1..n : f[i] = IF i = 1 THEN t[i] ELSE f[i - 1] \o t[i]
    BY <2>1 DEF Flattens
  <2> HIDE DEF n, m, u
  <2>5. \A i \in 1..m : g[i] \in Seq(S)
    BY <2>1, <2>3, ConcatProperties
  <2>6. \A i \in 1..m : g[i] = IF i = 1 THEN u[i] ELSE g[i - 1] \o u[i]
    <3>1. ASSUME NEW i \in 1..n PROVE g[i] = IF i = 1 THEN u[i] ELSE g[i - 1] \o u[i]
      <4>1. g[i] = f[i] /\ u[i] = t[i] /\ (i # 1 => g[i - 1] = f[i - 1])
        BY <2>2, <2>3
      <4> QED
        BY <2>4, <4>1
    <3>2. g[m] = IF m = 1 THEN u[m] ELSE g[m - 1] \o u[m]
      BY <2>2, <2>3
    <3> QED
      BY <2>3, <3>1, <3>2
  <2>7. g = [i \in 1..m |-> g[i]]
    OBVIOUS
  <2> HIDE DEF g
  <2>8. Flattens(g, u)
    BY <2>2, <2>6, <2>7 DEF Flattens
  <2>9. u \in Good
    BY <2>2, <2>5, <2>8
  <2> QED
    BY <2>9 DEF u
<1>3. Seq(Seq(S)) \subseteq Good
  <2> HIDE DEF Good
  <2> QED
    BY <1>1, <1>2, EverySequence
<1> QED
  BY <1>3

(* FlattenSeq ends with it. *)
LEMMA FlattenIs ==
  ASSUME NEW S, NEW s \in Seq(Seq(S)), s # <<>>
  PROVE  \E f : /\ Flattens(f, s) /\ FlattenSeq(s) = f[Len(s)]
                /\ \A i \in 1..Len(s) : f[i] \in Seq(S)
<1> DEFINE F == CHOOSE f : Flattens(f, s)
<1>1. PICK f : Flattens(f, s) /\ \A i \in 1..Len(s) : f[i] \in Seq(S)
  BY FlattensExists
<1>2. Flattens(F, s)
  BY <1>1
<1>3. Len(s) \in Nat /\ Len(s) # 0
  BY LenProperties
<1>4. FlattenSeq(s) = F[Len(s)]
  BY <1>3 DEF FlattenSeq, Flattens
<1>5. \A i \in 1..Len(s) : F[i] = f[i]
  <2>1. Agree(s, s, Len(s)) /\ DOMAIN s = 1..Len(s)
    BY <1>3 DEF Agree
  <2> HIDE DEF F
  <2>2. Agree(F, f, Len(s))
    BY <1>1, <1>2, <1>3, <2>1, FlattensUnique
  <2> QED
    BY <2>2 DEF Agree
<1> HIDE DEF F
<1> QED
  BY <1>1, <1>2, <1>4, <1>5

(* Concatenation goes on with the next member. *)
LEMMA FlattenAppend ==
  ASSUME NEW S, NEW s \in Seq(Seq(S)), NEW x \in Seq(S)
  PROVE  /\ FlattenSeq(s) \in Seq(S)
         /\ FlattenSeq(Append(s, x)) = FlattenSeq(s) \o x
<1> DEFINE n == Len(s)
           m == n + 1
           t == Append(s, x)
<1>1. /\ n \in Nat /\ t \in Seq(Seq(S)) /\ t # <<>> /\ Len(t) = m /\ t[m] = x
      /\ \A i \in 1..n : t[i] = s[i]
  BY LenProperties, AppendProperties
<1> HIDE DEF t
<1>2. PICK g : Flattens(g, t) /\ FlattenSeq(t) = g[Len(t)]
  BY <1>1, FlattenIs
<1>3. g[m] = IF m = 1 THEN x ELSE g[n] \o x
  <2>1. m \in 1..Len(t) /\ m - 1 = n
    BY <1>1
  <2> HIDE DEF m
  <2> QED
    BY <1>1, <1>2, <2>1 DEF Flattens
<1>4. CASE s = <<>>
  <2>1. n = 0 /\ FlattenSeq(s) = <<>>
    BY <1>4 DEF FlattenSeq
  <2>2. <<>> \o x = x /\ <<>> \in Seq(S)
    BY ConcatEmptySeq, EmptySeq
  <2> QED
    BY <1>1, <1>2, <1>3, <2>1, <2>2 DEF t
<1>5. CASE s # <<>>
  <2>1. PICK f : /\ Flattens(f, s) /\ FlattenSeq(s) = f[Len(s)]
                 /\ \A i \in 1..Len(s) : f[i] \in Seq(S)
    BY <1>5, FlattenIs
  <2>2. n \in 1..n /\ m # 1
    BY <1>1, <1>5
  <2>3. n <= Len(s) /\ n <= Len(t) /\ Len(s) \in Nat /\ Len(t) \in Nat
    BY <1>1
  <2>4. \A i \in 1..n : f[i] = g[i]
    <3>1. Agree(s, t, n) /\ DOMAIN s = 1..Len(s) /\ DOMAIN t = 1..Len(t)
      BY <1>1, <2>3 DEF Agree
    <3> HIDE DEF n, m
    <3>2. Agree(f, g, n)
      BY <1>1, <1>2, <2>1, <3>1, FlattensUnique
    <3> QED
      BY <3>2 DEF Agree
  <2> QED
    BY <1>1, <1>2, <1>3, <2>1, <2>2, <2>4 DEF t
<1> QED
  BY <1>4, <1>5

(* g is the sequence f of length n with x behind it. *)
Extends(g, f, n, x) ==
  /\ f = [j \in 1..n |-> f[j]]
  /\ g = [j \in 1..(n + 1) |-> IF j = n + 1 THEN x ELSE f[j]]

(* One more pair replaces an earlier one of its key. *)
LEMMA PairingAppend ==
  ASSUME NEW n \in Nat, NEW keys, NEW values, NEW keys2, NEW values2, NEW x, NEW v,
         Extends(keys2, keys, n, x), Extends(values2, values, n, v)
  PROVE  Pairing(keys2, values2) = Put(Pairing(keys, values), x, v)
<1> DEFINE m == n + 1
           at(q)  == {j \in 1..n : keys[j] = q}
           at2(q) == {j \in 1..m : keys2[j] = q}
<1>1. /\ DOMAIN keys = 1..n /\ DOMAIN values = 1..n /\ DOMAIN keys2 = 1..m /\ DOMAIN values2 = 1..m
      /\ keys2[m] = x /\ values2[m] = v
      /\ \A j \in 1..n : keys2[j] = keys[j] /\ values2[j] = values[j]
      /\ 1..m = (1..n) \cup {m} /\ m \in 1..m
  <2>1. \A j \in 1..n : j # m /\ j \in 1..m
    OBVIOUS
  <2>2. 1..m = (1..n) \cup {m} /\ m \in 1..m
    OBVIOUS
  <2> QED
    BY <2>1, <2>2 DEF Extends
<1>2. ToSet(keys2) = ToSet(keys) \cup {x}
  <2> HIDE DEF m
  <2> QED
    BY <1>1 DEF ToSet
<1>3. /\ Pairing(keys, values) = [q \in ToSet(keys) |-> values[Max(at(q))]]
      /\ Pairing(keys2, values2) = [q \in ToSet(keys2) |-> values2[Max(at2(q))]]
  BY <1>1 DEF Pairing
<1>4. values2[Max(at2(x))] = v
  <2>1. m \in at2(x) /\ \A j \in at2(x) : m >= j
    BY <1>1
  <2>2. Max(at2(x)) = m
    <3>1. \A j \in at2(x) : j \in Nat /\ m \in Nat
      OBVIOUS
    <3> HIDE DEF at2, m
    <3> QED
      BY <2>1, <3>1 DEF Max
  <2> QED
    BY <1>1, <2>2
<1>5. ASSUME NEW q \in ToSet(keys), q # x PROVE values2[Max(at2(q))] = values[Max(at(q))]
  <2>1. at2(q) = at(q)
    BY <1>1, <1>5
  <2>2. at(q) \in SUBSET (1..n) /\ at(q) # {}
    BY <1>1, <1>5 DEF ToSet
  <2>3. Max(at(q)) \in 1..n
    <3> HIDE DEF at
    <3> QED
      BY <2>2, MaxIsMember
  <2> HIDE DEF at, at2, m
  <2> QED
    BY <1>1, <2>1, <2>3
<1> DEFINE map == Pairing(keys, values)
           all == ToSet(keys2)
<1> HIDE DEF at, at2, m
<1>6. \A q \in all : values2[Max(at2(q))] = IF q = x THEN v ELSE map[q]
  <2> TAKE q \in all
  <2>1. CASE q = x
    BY <1>4, <2>1
  <2>2. CASE q # x
    <3>1. q \in ToSet(keys)
      BY <1>2, <2>2
    <3>2. map[q] = values[Max(at(q))]
      BY <1>3, <3>1
    <3> QED
      BY <1>5, <2>2, <3>1, <3>2
  <2> QED
    BY <2>1, <2>2
<1>7. DOMAIN map = ToSet(keys)
  BY <1>3
<1>8. Pairing(keys2, values2) = [q \in all |-> IF q = x THEN v ELSE map[q]]
  <2>1. Pairing(keys2, values2) = [q \in all |-> values2[Max(at2(q))]]
    BY <1>3
  <2> HIDE DEF map, all
  <2> QED
    BY <1>6, <2>1
<1>10. all = DOMAIN map \cup {x}
  BY <1>2, <1>7
<1> HIDE DEF map, all
<1>9. Pairing(keys2, values2) = Put(map, x, v)
  BY <1>8, <1>10 DEF Put
<1> QED
  BY <1>9 DEF map
-----------------------------------------------------------------------------
(* Only what the setters have taken is noted. *)
TextInv ==
  \A k \in DOMAIN Model : accepted[k] \in Seq({text \in TextsOf(Model[k]) : Taken(text)})

(* No flag is used before the export has ended well. *)
StageInv == pc # "ready" => once = {} /\ \A k \in DOMAIN Model : accepted[k] = <<>>

(* What the closures of a field keep between their calls. *)
MapKept(k) ==
  Model[k].kind \in Keyed =>
    /\ accepted[k] # <<>> => k \in once
    /\ k \in once => content[k] = IF accepted[k] = <<>> THEN <<>> ELSE Entries(k)

SliceKept(k) ==
  Model[k].kind = "slice" =>
    /\ k \in once <=> accepted[k] # <<>>
    /\ k \in once => content[k] = Elements(k)

ArrayKept(k) ==
  IsArray(Model[k]) =>
    /\ content[k] = Nil \/ content[k] \in [1..Model[k].size -> Places(Model[k])]
    /\ index[k] = Len(Elements(k))
    /\ accepted[k] # <<>> => /\ content[k] # Nil
                             /\ \A j \in 1..index[k] : content[k][j] = Elements(k)[j]

ScalarKept(k) ==
  (/\ Model[k].kind \in {"bool", "counter", "scalar"}
   /\ accepted[k] # <<>> /\ k \notin refused) => content[k] = Last(Elements(k))

Kept(k) == MapKept(k) /\ SliceKept(k) /\ ArrayKept(k) /\ ScalarKept(k)

UInv == IInv /\ TextInv /\ StageInv /\ \A k \in DOMAIN Model : Kept(k)
-----------------------------------------------------------------------------
(* Kinds exclude each other. *)
LEMMA Kinds ==
  ASSUME h \in Handlers, NEW k \in DOMAIN Model
  PROVE  /\ Model[k].kind \in Keyed => /\ ~IsArray(Model[k]) /\ Model[k].kind # "slice"
                                       /\ Model[k].kind \notin {"bool", "counter", "scalar"}
         /\ IsArray(Model[k]) => Model[k].kind \notin {"bool", "counter", "scalar", "slice"}
         /\ \/ Model[k].kind \in Keyed
            \/ Model[k].kind = "slice"
            \/ IsArray(Model[k])
            \/ Model[k].kind \in {"bool", "counter", "scalar"}
BY FieldAssumption DEF Model, Keyed, IsArray

(* The elements of a field, and what one more text makes of them. *)
LEMMA ElementsAre ==
  ASSUME h \in Handlers, TextInv, NEW k \in DOMAIN Model
  PROVE  /\ Elements(k) \in Seq(Pieces(Model[k]))
         /\ \A text \in TextsOf(Model[k]) :
              /\ text \in Seq(Pieces(Model[k]))
              /\ FlattenSeq(Append(accepted[k], text)) = Elements(k) \o text
<1> DEFINE S == Pieces(Model[k])
           s == accepted[k]
<1>1. \A text \in TextsOf(Model[k]) : text \in Seq(S)
  <2> TAKE text \in TextsOf(Model[k])
  <2>1. text \in Seq(ToSet(text))
    BY ModelAssumption DEF Model
  <2>2. ToSet(text) \subseteq S
    BY DEF Pieces
  <2> HIDE DEF S
  <2> QED
    BY <2>1, <2>2
<1>2. s \in Seq(Seq(S))
  <2> DEFINE T == {text \in TextsOf(Model[k]) : Taken(text)}
  <2>1. s \in Seq(T)
    BY DEF TextInv
  <2>2. \A text \in T : text \in Seq(S)
    BY <1>1
  <2> HIDE DEF S, T, s
  <2> QED
    BY <2>1, <2>2
<1> HIDE DEF S, s
<1>3. FlattenSeq(s) \in Seq(S) /\ \A text \in TextsOf(Model[k]) : FlattenSeq(Append(s, text)) = FlattenSeq(s) \o text
  <2>1. <<>> \in Seq(S)
    BY EmptySeq
  <2> QED
    BY <1>1, <1>2, <2>1, FlattenAppend
<1> QED
  BY <1>1, <1>3 DEF Elements, S, s

(* One more text sets the value of its key. *)
LEMMA EntriesAre ==
  ASSUME h \in Handlers, TextInv, NEW k \in DOMAIN Model, NEW text \in TextsOf(Model[k]),
         accepted'[k] = Append(accepted[k], text)
  PROVE  /\ Entries(k)' = Put(Entries(k), text[1], ValueOf(text))
         /\ accepted[k] = <<>> => Entries(k)' = Put(<<>>, text[1], ValueOf(text))
<1> DEFINE n  == Len(accepted[k])
           keys == Firsts(k)
           values == Values(k)
           keys2 == Firsts(k)'
           values2 == Values(k)'
           x == text[1]
           v == ValueOf(text)
<1>1. /\ n \in Nat /\ DOMAIN accepted[k] = 1..n /\ DOMAIN accepted'[k] = 1..(n + 1)
      /\ accepted'[k][n + 1] = text /\ \A j \in 1..n : accepted'[k][j] = accepted[k][j]
  <2> DEFINE S == {t \in TextsOf(Model[k]) : Taken(t)}
             s == accepted[k]
  <2>1. s \in Seq(S)
    BY DEF TextInv
  <2>2. s \in Seq(S \cup {text}) /\ text \in S \cup {text}
    <3> HIDE DEF S, s
    <3> QED
      BY <2>1
  <2> HIDE DEF S, s
  <2>3. /\ Len(s) \in Nat /\ DOMAIN s = 1..Len(s) /\ DOMAIN Append(s, text) = 1..(Len(s) + 1)
        /\ Append(s, text)[Len(s) + 1] = text /\ \A j \in 1..Len(s) : Append(s, text)[j] = s[j]
    BY <2>2, AppendProperties, LenProperties
  <2> QED
    BY <2>3 DEF s
<1>2. keys = [j \in 1..n |-> keys[j]] /\ values = [j \in 1..n |-> values[j]]
  BY <1>1 DEF Firsts, Values
<1>3. keys2 = [j \in 1..(n + 1) |-> IF j = n + 1 THEN x ELSE keys[j]]
  BY <1>1 DEF Firsts
<1>4. values2 = [j \in 1..(n + 1) |-> IF j = n + 1 THEN v ELSE values[j]]
  BY <1>1 DEF Values
<1> HIDE DEF n, keys, values, keys2, values2, x, v
<1>5. Pairing(keys2, values2) = Put(Pairing(keys, values), x, v)
  <2>1. Extends(keys2, keys, n, x) /\ Extends(values2, values, n, v)
    BY <1>2, <1>3, <1>4 DEF Extends
  <2> QED
    BY <1>1, <2>1, PairingAppend
<1>6. accepted[k] = <<>> => Put(Pairing(keys, values), x, v) = Put(<<>>, x, v)
  <2> SUFFICES ASSUME accepted[k] = <<>> PROVE Put(Pairing(keys, values), x, v) = Put(<<>>, x, v)
    OBVIOUS
  <2> DEFINE map == Pairing(keys, values)
             none == <<>>
  <2>1. DOMAIN map = {}
    BY DEF Pairing, ToSet, keys, Firsts
  <2>2. DOMAIN none = {}
    OBVIOUS
  <2> HIDE DEF map, none
  <2>3. Put(map, x, v) = Put(none, x, v)
    BY <2>1, <2>2 DEF Put
  <2> QED
    BY <2>3 DEF map, none
<1> QED
  BY <1>5, <1>6 DEF Entries, keys, values, keys2, values2, x, v

(* What a step leaves alone, it leaves complete. *)
LEMMA UntouchedIsKept ==
  ASSUME NEW k, Kept(k), Model' = Model,
         content'[k] = content[k], accepted'[k] = accepted[k], index'[k] = index[k],
         k \in once' <=> k \in once, k \in refused' <=> k \in refused
  PROVE  Kept(k)'
<1>1. Elements(k)' = Elements(k) /\ Entries(k)' = Entries(k)
  BY DEF Elements, Entries, Firsts, Values
<1>2. MapKept(k)' /\ SliceKept(k)'
  BY <1>1 DEF Kept, MapKept, SliceKept
<1>3. ArrayKept(k)'
  BY <1>1 DEF Kept, ArrayKept
<1>4. ScalarKept(k)'
  BY <1>1 DEF Kept, ScalarKept
<1> QED
  BY <1>2, <1>3, <1>4 DEF Kept

(* Before the export nothing was used. *)
LEMMA InitIsComplete == Init => UInv
<1> SUFFICES ASSUME Init PROVE UInv
  OBVIOUS
<1>1. h \in Handlers /\ \A k \in DOMAIN Model : accepted[k] = <<>> /\ index[k] = 0 /\ content[k] = Model[k].preset
  BY DEF Init
<1>2. TextInv
  BY <1>1, EmptySeq DEF TextInv
<1>3. StageInv
  BY <1>1 DEF StageInv, Init
<1>4. ASSUME NEW k \in DOMAIN Model PROVE Kept(k)
  <2>1. accepted[k] = <<>> /\ index[k] = 0 /\ content[k] = Model[k].preset /\ k \notin once
    BY <1>1 DEF Init
  <2>2. MapKept(k) /\ SliceKept(k) /\ ScalarKept(k)
    BY <2>1 DEF MapKept, SliceKept, ScalarKept
  <2>3. Len(Elements(k)) = 0
    BY <2>1 DEF Elements, FlattenSeq
  <2>4. IsArray(Model[k]) => content[k] = Nil \/ content[k] \in [1..Model[k].size -> Places(Model[k])]
    <3> SUFFICES ASSUME IsArray(Model[k]), content[k] # Nil
                 PROVE  content[k] \in [1..Model[k].size -> Places(Model[k])]
      OBVIOUS
    <3>1. content[k] \in [1..Model[k].size -> Range(content[k])]
      BY <1>1, <2>1, ModelAssumption DEF Model
    <3>2. Range(content[k]) \subseteq Places(Model[k])
      BY <2>1 DEF Places
    <3> QED
      BY <3>1, <3>2
  <2>5. ArrayKept(k)
    BY <2>1, <2>3, <2>4 DEF ArrayKept
  <2> QED
    BY <2>2, <2>5 DEF Kept
<1> QED
  BY <1>2, <1>3, <1>4, InitIsGood DEF UInv

(* The walk and the export come before all uses. *)
LEMMA WalkKeepsAll == UInv /\ Walk => UInv'
<1> SUFFICES ASSUME UInv, Walk PROVE UInv'
  OBVIOUS
<1>1. pc # "ready" /\ UNCHANGED <<h, content, once, index, accepted, refused>> /\ Model' = Model
  BY DEF Walk, closures, history, Model
<1>2. TextInv' /\ StageInv'
  BY <1>1 DEF UInv, TextInv, StageInv
<1>3. \A k \in DOMAIN Model : Kept(k)'
  BY <1>1, UntouchedIsKept DEF UInv
<1> QED
  BY <1>1, <1>2, <1>3, WalkIsGood DEF UInv

(* The definition of a flag leaves arrays alone, and no other kind has been *)
(* used yet.                                                               *)
LEMMA ExportKeepsAll == UInv /\ ExportField => UInv'
<1> SUFFICES ASSUME UInv, ExportField PROVE UInv'
  OBVIOUS
<1> DEFINE f == Model[next]
           fails == Typed(f) /\ f.default = Bad
<1>1. /\ pc = "export" /\ UNCHANGED <<h, once, index, accepted, refused>> /\ Model' = Model
      /\ content' = [content EXCEPT ![next] = IF fails THEN Held(next) ELSE Defined(next)]
  BY DEF ExportField, history, Model
<1>2. once = {} /\ \A k \in DOMAIN Model : accepted[k] = <<>>
  BY <1>1 DEF UInv, StageInv
<1>3. TextInv' /\ StageInv'
  BY <1>1, <1>2 DEF UInv, TextInv, StageInv
<1>4. ASSUME NEW k \in DOMAIN Model PROVE Kept(k)'
  <2>1. Kept(k) /\ accepted'[k] = <<>> /\ k \notin once'
    BY <1>1, <1>2 DEF UInv
  <2>2. MapKept(k)' /\ SliceKept(k)' /\ ScalarKept(k)'
    BY <2>1 DEF MapKept, SliceKept, ScalarKept
  <2>3. IsArray(Model[k]) => content'[k] = content[k]
    <3>1. IsArray(f) => ~Typed(f)
      BY DEF IsArray, Typed
    <3>2. ~Typed(f) => Defined(next) = content[next] /\ ~fails
      BY DEF Defined
    <3> HIDE DEF f, fails
    <3>3. k = next => Model[k] = f
      BY DEF f
    <3> QED
      BY <1>1, <3>1, <3>2, <3>3
  <2>4. ArrayKept(k)'
    <3>1. Elements(k)' = Elements(k)
      BY <1>1 DEF Elements
    <3> QED
      BY <1>1, <2>1, <2>3, <3>1 DEF Kept, ArrayKept
  <2> QED
    BY <2>2, <2>4 DEF Kept
<1> QED
  BY <1>1, <1>3, <1>4, ExportIsGood DEF UInv
-----------------------------------------------------------------------------
(* What all uses have in common: other fields stay as they are. *)
LEMMA UseKeepsOthers ==
  ASSUME UInv, NEW k \in DOMAIN Model, NEW text \in TextsOf(Model[k]), NEW taken \in BOOLEAN,
         taken => Taken(text), NEW value, Use(k, text, taken, value),
         once' \in {once, once \cup {k}},
         \A j \in DOMAIN Model : j # k => index'[j] = index[j]
  PROVE  /\ TextInv' /\ StageInv' /\ Model' = Model
         /\ content'[k] = value
         /\ accepted'[k] = IF taken THEN Append(accepted[k], text) ELSE accepted[k]
         /\ taken => accepted'[k] # <<>>
         /\ k \in refused' <=> ~taken
         /\ \A j \in DOMAIN Model : j # k => Kept(j)'
<1>1. /\ pc = "ready" /\ UNCHANGED <<h, pc>>
      /\ content' = [content EXCEPT ![k] = value]
      /\ accepted' = IF taken THEN [accepted EXCEPT ![k] = Append(@, text)] ELSE accepted
      /\ refused' = IF taken THEN refused \ {k} ELSE refused \cup {k}
  BY DEF Use
<1>2. Model' = Model /\ DOMAIN content = DOMAIN Model /\ DOMAIN accepted = DOMAIN Model
  BY <1>1 DEF Model, UInv, IInv, ShapeInv
<1>3. /\ content'[k] = value
      /\ accepted'[k] = IF taken THEN Append(accepted[k], text) ELSE accepted[k]
      /\ k \in refused' <=> ~taken
  BY <1>1, <1>2
<1>4. \A j \in DOMAIN Model : j # k => /\ content'[j] = content[j] /\ accepted'[j] = accepted[j]
                                       /\ j \in refused' <=> j \in refused
                                       /\ j \in once' <=> j \in once
  BY <1>1, <1>2
<1>5. \A j \in DOMAIN Model : j # k => Kept(j)'
  BY <1>2, <1>4, UntouchedIsKept DEF UInv
<1>6. StageInv'
  BY <1>1 DEF StageInv
<1>7. TextInv' /\ (taken => accepted'[k] # <<>>)
  <2> DEFINE S == {t \in TextsOf(Model[k]) : Taken(t)}
  <2>1. accepted[k] \in Seq(S) /\ (taken => text \in S)
    BY DEF UInv, TextInv
  <2>2. accepted'[k] \in Seq(S) /\ (taken => accepted'[k] # <<>>)
    <3> HIDE DEF S
    <3> QED
      BY <1>3, <2>1, AppendProperties
  <2> QED
    BY <1>2, <1>4, <2>2 DEF UInv, TextInv
<1> QED
  BY <1>2, <1>3, <1>5, <1>6, <1>7

(* The first use replaces the map, the others set one more key in it. *)
LEMMA UseMapKeepsAll ==
  ASSUME UInv, NEW k \in DOMAIN Model, NEW text \in TextsOf(Model[k]), UseMap(k, text)
  PROVE  UInv'
<1> DEFINE blank == text = <<Blank>>
           taken == ~blank /\ Taken(text)
           value == IF blank THEN content[k]
                    ELSE IF Taken(text) THEN Put(MapBefore(k), text[1], ValueOf(text))
                    ELSE MapBefore(k)
<1>1. /\ Model[k].kind \in Keyed /\ Use(k, text, taken, value)
      /\ once' = IF blank THEN once ELSE once \cup {k}
      /\ UNCHANGED index
  BY DEF UseMap, Taken
<1>2. taken \in BOOLEAN /\ (taken => Taken(text)) /\ once' \in {once, once \cup {k}}
  BY <1>1 DEF Taken
<1>3. /\ TextInv' /\ StageInv' /\ Model' = Model
      /\ content'[k] = value
      /\ accepted'[k] = IF taken THEN Append(accepted[k], text) ELSE accepted[k]
      /\ taken => accepted'[k] # <<>>
      /\ k \in refused' <=> ~taken
      /\ \A j \in DOMAIN Model : j # k => Kept(j)'
  <2> HIDE DEF taken, value
  <2> QED
    BY <1>1, <1>2, UseKeepsOthers
<1>4. MapKept(k)'
  <2>1. MapKept(k) /\ h \in Handlers /\ TextInv
    BY DEF UInv, Kept, IInv, ShapeInv
  <2>2. CASE taken
    <3>1. accepted'[k] = Append(accepted[k], text) /\ accepted'[k] # <<>>
      BY <1>3, <2>2
    <3>2. /\ Entries(k)' = Put(Entries(k), text[1], ValueOf(text))
          /\ accepted[k] = <<>> => Entries(k)' = Put(<<>>, text[1], ValueOf(text))
      BY <2>1, <3>1, EntriesAre
    <3>3. content'[k] = Put(MapBefore(k), text[1], ValueOf(text)) /\ k \in once'
      BY <1>1, <1>3, <2>2
    <3>4. MapBefore(k) = IF accepted[k] = <<>> THEN <<>> ELSE Entries(k)
      BY <1>1, <2>1 DEF MapBefore, MapKept
    <3> QED
      BY <3>1, <3>2, <3>3, <3>4 DEF MapKept
  <2>3. CASE ~taken
    <3>1. accepted'[k] = accepted[k] /\ Entries(k)' = Entries(k)
      BY <1>3, <2>3 DEF Entries, Firsts, Values
    <3>2. CASE blank
      <4>1. content'[k] = content[k] /\ once' = once
        BY <1>1, <1>3, <3>2
      <4> QED
        BY <1>3, <2>1, <3>1, <4>1 DEF MapKept
    <3>3. CASE ~blank
      <4>1. content'[k] = MapBefore(k) /\ k \in once'
        BY <1>1, <1>3, <2>3, <3>3
      <4>2. MapBefore(k) = IF accepted[k] = <<>> THEN <<>> ELSE Entries(k)
        BY <1>1, <2>1 DEF MapBefore, MapKept
      <4> QED
        BY <3>1, <4>1, <4>2 DEF MapKept
    <3> QED
      BY <3>2, <3>3
  <2> QED
    BY <2>2, <2>3
<1>5. Kept(k)'
  <2>1. /\ ~IsArray(Model[k]) /\ Model[k].kind # "slice"
        /\ Model[k].kind \notin {"bool", "counter", "scalar"}
    BY <1>1, Kinds DEF UInv, IInv, ShapeInv
  <2> QED
    BY <1>3, <1>4, <2>1 DEF Kept, SliceKept, ArrayKept, ScalarKept
<1> QED
  BY <1>3, <1>5, UseMapIsGood DEF UInv

(* The first accepted use replaces the slice, the others append to it. *)
LEMMA UseSliceKeepsAll ==
  ASSUME UInv, NEW k \in DOMAIN Model, NEW text \in TextsOf(Model[k]), UseSlice(k, text)
  PROVE  UInv'
<1> DEFINE taken == Taken(text)
           value == IF ~taken THEN Held(k)
                    ELSE IF k \in once THEN content[k] \o text ELSE text
<1>1. /\ Model[k].kind = "slice" /\ Use(k, text, taken, value)
      /\ once' = IF taken THEN once \cup {k} ELSE once
      /\ UNCHANGED index
  BY DEF UseSlice
<1>2. taken \in BOOLEAN /\ (taken => Taken(text)) /\ once' \in {once, once \cup {k}}
  BY <1>1 DEF Taken
<1>3. /\ TextInv' /\ StageInv' /\ Model' = Model
      /\ content'[k] = value
      /\ accepted'[k] = IF taken THEN Append(accepted[k], text) ELSE accepted[k]
      /\ taken => accepted'[k] # <<>>
      /\ \A j \in DOMAIN Model : j # k => Kept(j)'
  <2> HIDE DEF taken
  <2> QED
    BY <1>1, <1>2, UseKeepsOthers
<1>4. /\ Elements(k) \in Seq(Pieces(Model[k])) /\ text \in Seq(Pieces(Model[k]))
      /\ FlattenSeq(Append(accepted[k], text)) = Elements(k) \o text
  BY ElementsAre DEF UInv, IInv, ShapeInv
<1>5. SliceKept(k)'
  <2>1. SliceKept(k)
    BY DEF UInv, Kept
  <2>2. CASE taken
    <3>1. Elements(k)' = Elements(k) \o text /\ k \in once' /\ accepted'[k] # <<>>
      BY <1>1, <1>3, <1>4, <2>2 DEF Elements
    <3>2. CASE k \in once
      <4>1. content'[k] = Elements(k) \o text
        BY <1>1, <1>3, <2>1, <2>2, <3>2 DEF SliceKept
      <4> QED
        BY <3>1, <4>1 DEF SliceKept
    <3>3. CASE k \notin once
      <4>1. content'[k] = text /\ accepted[k] = <<>>
        BY <1>1, <1>3, <2>1, <2>2, <3>3 DEF SliceKept
      <4>2. Elements(k) = <<>>
        BY <4>1 DEF Elements, FlattenSeq
      <4>3. <<>> \o text = text
        BY <1>4, ConcatEmptySeq
      <4> QED
        BY <3>1, <4>1, <4>2, <4>3 DEF SliceKept
    <3> QED
      BY <3>2, <3>3
  <2>3. CASE ~taken
    <3>1. /\ accepted'[k] = accepted[k] /\ Elements(k)' = Elements(k) /\ once' = once
          /\ content'[k] = Held(k)
      BY <1>1, <1>3, <2>3 DEF Elements
    <3>2. Nil \notin Seq(Pieces(Model[k]))
      BY <1>1, TextAssumption DEF Model, UInv, IInv, ShapeInv
    <3>3. k \in once => Held(k) = content[k]
      BY <1>1, <1>4, <2>1, <3>2 DEF SliceKept, Held
    <3> QED
      BY <2>1, <1>3, <3>1, <3>3 DEF SliceKept
  <2> QED
    BY <2>2, <2>3
<1>6. Kept(k)'
  <2>1. /\ ~IsArray(Model[k]) /\ Model[k].kind \notin Keyed
        /\ Model[k].kind \notin {"bool", "counter", "scalar"}
    BY <1>1, Kinds DEF UInv, IInv, ShapeInv
  <2> QED
    BY <1>3, <1>5, <2>1 DEF Kept, MapKept, ArrayKept, ScalarKept
<1> QED
  BY <1>3, <1>6, UseSliceIsGood DEF UInv

(* The last accepted use is the value, unless one was refused since. *)
LEMMA UseScalarKeepsAll ==
  ASSUME UInv, NEW k \in DOMAIN Model, NEW text \in TextsOf(Model[k]), UseScalar(k, text)
  PROVE  UInv'
<1> DEFINE taken == Taken(text)
<1>1. /\ Model[k].kind \in {"bool", "counter", "scalar"}
      /\ UNCHANGED <<once, index>>
      /\ \E w : Use(k, text, taken, w) /\ (taken => w = text[1])
  <2>0. taken \in BOOLEAN
    BY DEF Taken
  <2>1. ASSUME taken PROVE \E w : Use(k, text, taken, w) /\ (taken => w = text[1])
    <3>1. taken = TRUE /\ Use(k, text, TRUE, text[1])
      BY <2>0, <2>1 DEF UseScalar
    <3> HIDE DEF taken
    <3> QED
      BY <3>1
  <2>2. ASSUME ~taken PROVE \E w : Use(k, text, taken, w) /\ (taken => w = text[1])
    <3>1. taken = FALSE /\ \E left : Use(k, text, FALSE, left)
      BY <2>0, <2>2 DEF UseScalar
    <3> HIDE DEF taken
    <3> QED
      BY <2>2, <3>1
  <2>3. \E w : Use(k, text, taken, w) /\ (taken => w = text[1])
    <3> HIDE DEF taken
    <3> QED
      BY <2>1, <2>2
  <2> QED
    BY <2>3 DEF UseScalar
<1> PICK value : Use(k, text, taken, value) /\ (taken => value = text[1])
  BY <1>1
<1>2. taken \in BOOLEAN /\ (taken => Taken(text)) /\ once' \in {once, once \cup {k}}
  BY <1>1 DEF Taken
<1>3. /\ TextInv' /\ StageInv' /\ Model' = Model
      /\ content'[k] = value
      /\ accepted'[k] = IF taken THEN Append(accepted[k], text) ELSE accepted[k]
      /\ k \in refused' <=> ~taken
      /\ \A j \in DOMAIN Model : j # k => Kept(j)'
  <2> HIDE DEF taken
  <2> QED
    BY <1>1, <1>2, UseKeepsOthers
<1>4. /\ Elements(k) \in Seq(Pieces(Model[k])) /\ text \in Seq(Pieces(Model[k]))
      /\ FlattenSeq(Append(accepted[k], text)) = Elements(k) \o text
  BY ElementsAre DEF UInv, IInv, ShapeInv
<1>5. ScalarKept(k)'
  <2> SUFFICES ASSUME taken PROVE content'[k] = Last(Elements(k)')
    BY <1>3 DEF ScalarKept
  <2>1. Len(text) = 1
    BY <1>1, TextAssumption DEF Model, UInv, IInv, ShapeInv
  <2>2. Last(Elements(k) \o text) = text[1]
    <3> DEFINE s == Elements(k)
               S == Pieces(Model[k])
    <3>1. s \in Seq(S) /\ text \in Seq(S)
      BY <1>4
    <3> HIDE DEF s, S
    <3>2. Len(s) \in Nat /\ Len(s \o text) = Len(s) + 1 /\ (s \o text)[Len(s) + 1] = text[1]
      <4>1. \A j \in 1..(Len(s) + Len(text)) :
              (s \o text)[j] = IF j <= Len(s) THEN s[j] ELSE text[j - Len(s)]
        BY <3>1
      <4>2. Len(s) \in Nat /\ Len(s \o text) = Len(s) + Len(text)
        BY <3>1
      <4>3. Len(s) + 1 \in 1..(Len(s) + Len(text)) /\ ~(Len(s) + 1 <= Len(s)) /\ (Len(s) + 1) - Len(s) = 1
        BY <2>1, <4>2
      <4> QED
        BY <2>1, <4>1, <4>2, <4>3
    <3>3. Last(s \o text) = text[1]
      BY <3>2 DEF Last
    <3> QED
      BY <3>3 DEF s
  <2>3. Elements(k)' = Elements(k) \o text
    BY <1>3, <1>4 DEF Elements
  <2> QED
    BY <1>3, <2>2, <2>3
<1>6. Kept(k)'
  <2>1. ~IsArray(Model[k]) /\ Model[k].kind \notin Keyed /\ Model[k].kind # "slice"
    BY <1>1, Kinds DEF UInv, IInv, ShapeInv
  <2> QED
    BY <1>3, <1>5, <2>1 DEF Kept, MapKept, ArrayKept, SliceKept
<1> QED
  BY <1>3, <1>6, UseScalarIsGood DEF UInv

(* What is set behind the index does not count until the index advances. *)
LEMMA UseArrayKeepsAll ==
  ASSUME UInv, NEW k \in DOMAIN Model, NEW text \in TextsOf(Model[k]), UseArray(k, text)
  PROVE  UInv'
<1> DEFINE size  == Model[k].size
           from  == index[k]
           S     == Pieces(Model[k])
           P     == Places(Model[k])
           fits  == from + Len(text) <= size
           taken == fits /\ Taken(text)
           value == IF fits THEN Overwritten(Held(k), from, Sound(text)) ELSE Held(k)
<1>1. /\ IsArray(Model[k]) /\ Use(k, text, taken, value)
      /\ index' = IF taken THEN [index EXCEPT ![k] = @ + Len(text)] ELSE index
      /\ once' = once
  BY DEF UseArray
<1>2. /\ taken \in BOOLEAN /\ (taken => Taken(text)) /\ once' \in {once, once \cup {k}}
      /\ \A j \in DOMAIN Model : j # k => index'[j] = index[j]
  BY <1>1 DEF Taken, UInv, IInv, ArrayInv
<1>3. /\ TextInv' /\ StageInv' /\ Model' = Model
      /\ content'[k] = value
      /\ accepted'[k] = IF taken THEN Append(accepted[k], text) ELSE accepted[k]
      /\ \A j \in DOMAIN Model : j # k => Kept(j)'
  <2> HIDE DEF taken, value
  <2> QED
    BY <1>1, <1>2, UseKeepsOthers
<1>4. /\ Elements(k) \in Seq(S) /\ text \in Seq(S)
      /\ FlattenSeq(Append(accepted[k], text)) = Elements(k) \o text
  BY ElementsAre DEF UInv, IInv, ShapeInv
<1>5. /\ size \in Nat /\ from \in Nat /\ from <= size /\ Len(text) \in Nat
      /\ index'[k] = IF taken THEN from + Len(text) ELSE from
  BY <1>1, <1>4, ModelFacts DEF UInv, IInv, ShapeInv, ArrayInv
<1>6. /\ ArrayKept(k) /\ from = Len(Elements(k))
      /\ content[k] = Nil \/ content[k] \in [1..size -> P]
      /\ accepted[k] # <<>> => content[k] # Nil /\ \A j \in 1..from : content[k][j] = Elements(k)[j]
  BY <1>1 DEF UInv, Kept, ArrayKept
<1>7. Held(k) \in [1..size -> P]
  <2>1. Blank \in P /\ Zero(Model[k]) = [j \in 1..size |-> Blank]
    BY <1>1, Kinds DEF Places, Zero, IsArray, Keyed
  <2> HIDE DEF P, size
  <2> QED
    BY <1>6, <2>1 DEF Held
<1>8. \A j \in 1..Len(text) : text[j] \in P
  BY <1>4 DEF Places
<1>9. Overwritten(Held(k), from, Sound(text)) \in [1..size -> P]
  <2>1. /\ Len(Sound(text)) \in Nat /\ Len(Sound(text)) <= Len(text)
        /\ \A j \in 1..Len(Sound(text)) : Sound(text)[j] = text[j]
    <3>1. CASE Taken(text)
      BY <1>4, <3>1 DEF Sound
    <3>2. CASE ~Taken(text)
      <4> DEFINE bad == {j \in DOMAIN text : text[j] = Bad}
                 m   == Min(bad)
      <4>1. bad \in SUBSET Nat /\ bad # {} /\ bad \subseteq 1..Len(text)
        BY <1>4, <3>2 DEF Taken, ToSet
      <4>2. m \in bad
        <5>1. PICK n \in bad : \A j \in bad : n <= j
          <6> HIDE DEF bad
          <6> QED
            BY <4>1, Least
        <5> HIDE DEF bad
        <5> QED
          BY <5>1 DEF Min
      <4>3. m - 1 \in Nat /\ m - 1 <= Len(text)
        BY <4>1, <4>2, <1>5
      <4> HIDE DEF m
      <4>4. Sound(text) = SubSeq(text, 1, m - 1)
        BY <3>2 DEF Sound, m
      <4> QED
        BY <1>4, <1>5, <4>3, <4>4
    <3> QED
      BY <3>1, <3>2
  <2> DEFINE held == Held(k)
             t == Sound(text)
  <2>2. \A j \in 1..size : j \in (from + 1)..(from + Len(t)) => t[j - from] \in P
    <3>1. Len(t) \in Nat /\ Len(t) <= Len(text) /\ \A j \in 1..Len(t) : t[j] \in P
      <4>1. Len(t) \in Nat /\ Len(t) <= Len(text) /\ \A j \in 1..Len(t) : t[j] = text[j]
        BY <2>1
      <4> HIDE DEF t, P
      <4>2. \A j \in 1..Len(t) : j \in 1..Len(text)
        BY <1>5, <4>1
      <4> QED
        BY <1>8, <4>1, <4>2
    <3> HIDE DEF t, P
    <3> TAKE j \in 1..size
    <3> HAVE j \in (from + 1)..(from + Len(t))
    <3>2. j - from \in 1..Len(t)
      <4> HIDE DEF size, from
      <4> QED
        BY <1>5, <3>1
    <3> QED
      BY <3>1, <3>2
  <2> HIDE DEF P, t, size, from, held
  <2>3. Overwritten(held, from, t) \in [1..size -> P]
    BY <1>7, <2>2 DEF Overwritten, held
  <2> QED
    BY <2>3 DEF held, t
<1>10. value \in [1..size -> P] /\ value # Nil
  <2>1. Nil \notin [1..size -> P]
    BY <1>1, TextAssumption DEF Model, UInv, IInv, ShapeInv
  <2> HIDE DEF P, size, from
  <2> QED
    BY <1>7, <1>9, <2>1
<1>11. \A j \in 1..from : accepted[k] # <<>> => value[j] = Elements(k)[j]
  <2> TAKE j \in 1..from
  <2> HAVE accepted[k] # <<>>
  <2>1. Held(k) = content[k] /\ content[k][j] = Elements(k)[j] /\ j \in DOMAIN Held(k)
    BY <1>5, <1>6, <1>7 DEF Held
  <2>2. Overwritten(Held(k), from, Sound(text))[j] = Held(k)[j]
    BY <1>5, <2>1 DEF Overwritten
  <2> QED
    BY <2>1, <2>2
<1>12. ArrayKept(k)'
  <2>1. CASE taken
    <3> DEFINE s == Elements(k)
    <3>1. Elements(k)' = s \o text
      BY <1>3, <1>4, <2>1 DEF Elements
    <3>2. /\ Len(s \o text) = from + Len(text)
          /\ \A j \in 1..from : (s \o text)[j] = s[j]
          /\ \A j \in (from + 1)..(from + Len(text)) : (s \o text)[j] = text[j - from]
      BY <1>4, <1>5, <1>6
    <3>3. value = Overwritten(Held(k), from, text) /\ from + Len(text) <= size
      BY <2>1 DEF Sound
    <3>4. \A j \in (from + 1)..(from + Len(text)) : value[j] = text[j - from]
      <4> TAKE j \in (from + 1)..(from + Len(text))
      <4>1. j \in 1..size /\ DOMAIN Held(k) = 1..size
        BY <1>5, <1>7, <3>3
      <4> HIDE DEF value, size, from
      <4> QED
        BY <3>3, <4>1 DEF Overwritten
    <3>5. \A j \in 1..from : value[j] = s[j]
      <4>1. CASE accepted[k] # <<>>
        BY <1>11, <4>1
      <4>2. CASE accepted[k] = <<>>
        <5>1. Elements(k) = <<>>
          BY <4>2 DEF Elements, FlattenSeq
        <5> QED
          BY <1>6, <5>1
      <4> QED
        BY <4>1, <4>2
    <3>6. \A j \in 1..(from + Len(text)) : value[j] = (s \o text)[j]
      <4>1. \A j \in 1..(from + Len(text)) : j \in 1..from \/ j \in (from + 1)..(from + Len(text))
        BY <1>5
      <4> HIDE DEF value, s, from
      <4> QED
        BY <3>2, <3>4, <3>5, <4>1
    <3>7. index'[k] = Len(s \o text) /\ index'[k] = from + Len(text)
      BY <1>5, <2>1, <3>2
    <3> HIDE DEF value, s, from, taken
    <3> QED
      BY <1>3, <1>10, <3>1, <3>6, <3>7 DEF ArrayKept
  <2>2. CASE ~taken
    <3>1. accepted'[k] = accepted[k] /\ Elements(k)' = Elements(k) /\ index'[k] = from
      BY <1>3, <1>5, <2>2 DEF Elements
    <3> HIDE DEF value, from, taken
    <3> QED
      BY <1>3, <1>6, <1>10, <1>11, <3>1 DEF ArrayKept
  <2> QED
    BY <2>1, <2>2
<1>13. Kept(k)'
  <2>1. Model[k].kind \notin {"bool", "counter", "scalar", "slice"} \cup Keyed
    BY <1>1, Kinds DEF UInv, IInv, ShapeInv
  <2> QED
    BY <1>3, <1>12, <2>1 DEF Kept, MapKept, ScalarKept, SliceKept
<1> QED
  BY <1>3, <1>13, UseArrayIsGood DEF UInv
-----------------------------------------------------------------------------
(* So every step keeps what the uses add up to. *)
LEMMA StepKeepsAll == UInv /\ [Next]_vars => UInv'
<1> SUFFICES ASSUME UInv, [Next]_vars PROVE UInv'
  OBVIOUS
<1>1. CASE UNCHANGED vars
  <2>1. UNCHANGED <<h, pc, content, once, index, accepted, refused>> /\ Model' = Model
    BY <1>1 DEF vars, closures, history, Model
  <2>2. TextInv' /\ StageInv'
    BY <2>1 DEF UInv, TextInv, StageInv
  <2>3. \A k \in DOMAIN Model : Kept(k)'
    BY <2>1, UntouchedIsKept DEF UInv
  <2>4. IInv'
    BY <1>1, StepIsGood DEF UInv
  <2> QED
    BY <2>1, <2>2, <2>3, <2>4 DEF UInv
<1>2. CASE \E k \in DOMAIN Model : \E text \in TextsOf(Model[k]) :
             UseMap(k, text) \/ UseSlice(k, text) \/ UseArray(k, text) \/ UseScalar(k, text)
  BY <1>2, UseMapKeepsAll, UseSliceKeepsAll, UseArrayKeepsAll, UseScalarKeepsAll
<1> QED
  BY <1>1, <1>2, WalkKeepsAll, ExportKeepsAll DEF Next

(* The invariant of the uses, for any number of them. *)
THEOREM InductiveUses == Spec => []UInv
BY InitIsComplete, StepKeepsAll, PTL DEF Spec

(* Refused uses in between take nothing from the accepted ones: a slice    *)
(* and a map are what these add up to, an array begins with it, a scalar   *)
(* is the last (flags_import.go:191-288, once and index of the closures).  *)
THEOREM UsesComplete == Spec => []UsesAreComplete
<1>1. ASSUME UInv, NEW k \in DOMAIN Model, accepted[k] # <<>>
      PROVE  CASE Model[k].kind \in Keyed -> content[k] = Entries(k)
               [] Model[k].kind = "slice" -> content[k] = Elements(k)
               [] IsArray(Model[k]) -> /\ index[k] = Len(Elements(k))
                                       /\ IsPrefix(Elements(k), content[k])
               [] OTHER -> k \in refused \/ content[k] = Last(Elements(k))
  <2>0. Kept(k) /\ h \in Handlers /\ TextInv
    BY <1>1 DEF UInv, IInv, ShapeInv
  <2>1. CASE Model[k].kind \in Keyed
    <3>1. content[k] = Entries(k)
      BY <1>1, <2>0, <2>1 DEF Kept, MapKept
    <3> QED
      BY <2>0, <2>1, <3>1, Kinds
  <2>2. CASE Model[k].kind = "slice"
    <3>1. content[k] = Elements(k)
      BY <1>1, <2>0, <2>2 DEF Kept, SliceKept
    <3> QED
      BY <2>0, <2>2, <3>1, Kinds
  <2>3. CASE IsArray(Model[k])
    <3> DEFINE e == Elements(k)
               size == Model[k].size
               held == content[k]
               S == Pieces(Model[k])
               P == Places(Model[k])
    <3>1. /\ index[k] = Len(e) /\ held \in [1..size -> P]
          /\ \A j \in 1..index[k] : held[j] = e[j]
      BY <1>1, <2>0, <2>3 DEF Kept, ArrayKept
    <3>2. e \in Seq(S) /\ size \in Nat /\ index[k] \in 0..size
      BY <1>1, <2>0, <2>3, ElementsAre, ModelFacts DEF UInv, IInv, ArrayInv
    <3> HIDE DEF e, size, held, S, P
    <3>3. held \in Seq(P) /\ Len(held) = size
      BY <3>1, <3>2
    <3>4. IsPrefix(e, held)
      <4>1. Len(e) \in Nat /\ Len(e) <= Len(held) /\ DOMAIN e = 1..Len(e)
        BY <3>1, <3>2, <3>3
      <4>2. e = SubSeq(held, 1, Len(e))
        BY <3>1, <3>2, <3>3, <4>1
      <4> QED
        BY <4>1, <4>2 DEF IsPrefix
    <3>5. index[k] = Len(Elements(k)) /\ IsPrefix(Elements(k), content[k])
      BY <3>1, <3>4 DEF e, held
    <3> QED
      BY <2>0, <2>3, <3>5, Kinds
  <2>4. CASE Model[k].kind \in {"bool", "counter", "scalar"}
    <3>1. k \in refused \/ content[k] = Last(Elements(k))
      BY <1>1, <2>0, <2>4 DEF Kept, ScalarKept
    <3> QED
      BY <2>0, <2>4, <3>1, Kinds
  <2> QED
    BY <2>0, <2>1, <2>2, <2>3, <2>4, Kinds
<1>2. UInv => UsesAreComplete
  BY <1>1 DEF UsesAreComplete
<1> QED
  BY <1>2, InductiveUses, PTL
-----------------------------------------------------------------------------
(* Texts of one piece each add up to these pieces. *)
LEMMA Singles ==
  ASSUME NEW S, NEW s \in Seq({t \in Seq(S) : Len(t) = 1})
  PROVE  FlattenSeq(s) = [j \in DOMAIN s |-> s[j][1]]
<1> DEFINE T == {t \in Seq(S) : Len(t) = 1}
           heads(r) == [j \in DOMAIN r |-> r[j][1]]
           Good == {r \in Seq(T) : FlattenSeq(r) = heads(r)}
<1>1. <<>> \in Good
  <2>1. <<>> \in Seq(T) /\ FlattenSeq(<<>>) = <<>> /\ DOMAIN <<>> = {}
    BY EmptySeq DEF FlattenSeq
  <2> DEFINE none == <<>>
  <2>2. heads(none) = none
    <3>1. heads(none) = [j \in {} |-> none[j][1]]
      BY <2>1
    <3>2. none = [j \in {} |-> none[j][1]]
      BY <2>1
    <3> QED
      BY <3>1, <3>2
  <2> HIDE DEF T
  <2> QED
    BY <2>1, <2>2
<1>2. ASSUME NEW r \in Seq(T), NEW x \in T, r \in Good PROVE Append(r, x) \in Good
  <2> DEFINE u == Append(r, x)
             n == Len(r)
             g == FlattenSeq(r)
  <2>1. x \in Seq(S) /\ Len(x) = 1
    OBVIOUS
  <2>2. r \in Seq(Seq(S))
    <3>1. \A t \in T : t \in Seq(S)
      OBVIOUS
    <3> HIDE DEF T
    <3> QED
      BY <3>1
  <2>3. g \in Seq(S) /\ FlattenSeq(u) = g \o x
    BY <2>1, <2>2, FlattenAppend
  <2>4. /\ u \in Seq(T) /\ n \in Nat /\ DOMAIN r = 1..n /\ DOMAIN u = 1..(n + 1)
        /\ u[n + 1] = x /\ \A j \in 1..n : u[j] = r[j]
    <3> HIDE DEF T
    <3> QED
      BY AppendProperties, LenProperties
  <2>5. g = [j \in 1..n |-> r[j][1]] /\ Len(g) = n
    BY <1>2, <2>4
  <2> HIDE DEF g, u, n
  <2>6. DOMAIN (g \o x) = 1..(n + 1) /\ (g \o x)[n + 1] = x[1] /\ \A j \in 1..n : (g \o x)[j] = g[j]
    <3>1. /\ Len(g) = n /\ Len(x) = 1 /\ n \in Nat
          /\ DOMAIN (g \o x) = 1..(Len(g) + Len(x))
          /\ \A j \in 1..(Len(g) + Len(x)) :
               (g \o x)[j] = IF j <= Len(g) THEN g[j] ELSE x[j - Len(g)]
      <4>1. g \in Seq(S) /\ x \in Seq(S)
        BY <2>1, <2>3
      <4>2. /\ DOMAIN (g \o x) = 1..(Len(g) + Len(x))
            /\ \A j \in 1..(Len(g) + Len(x)) :
                 (g \o x)[j] = IF j <= Len(g) THEN g[j] ELSE x[j - Len(g)]
        BY <4>1
      <4> QED
        BY <2>1, <2>4, <2>5, <4>2
    <3>2. n + 1 \in 1..(n + 1) /\ ~(n + 1 <= n) /\ (n + 1) - n = 1
      BY <3>1
    <3>3. \A j \in 1..n : j \in 1..(n + 1) /\ j <= n
      BY <3>1
    <3> QED
      BY <3>1, <3>2, <3>3
  <2>7. \A j \in 1..(n + 1) : (g \o x)[j] = u[j][1]
    <3>1. 1..(n + 1) = (1..n) \cup {n + 1}
      BY <2>4
    <3> QED
      BY <2>4, <2>5, <2>6, <3>1
  <2>8. g \o x = [j \in 1..(n + 1) |-> u[j][1]]
    <3>1. g \o x \in Seq(S)
      BY <2>1, <2>3, ConcatProperties
    <3> DEFINE gx == g \o x
    <3> HIDE DEF gx
    <3>2. gx = [j \in DOMAIN gx |-> gx[j]]
      <4>1. gx \in [1..Len(gx) -> S]
        BY <3>1, LenProperties DEF gx
      <4> QED
        BY <4>1
    <3> QED
      BY <2>6, <2>7, <3>2 DEF gx
  <2>9. FlattenSeq(u) = heads(u)
    BY <2>3, <2>4, <2>8
  <2> QED
    BY <2>4, <2>9 DEF u
<1>3. Seq(T) \subseteq Good
  <2> HIDE DEF Good, T
  <2> QED
    BY <1>1, <1>2, EverySequence
<1> HIDE DEF T
<1> QED
  BY <1>3 DEF T

(* Then the elements of a field are the first pieces of its texts. *)
LEMMA ElementsAreFirsts ==
  ASSUME h \in Handlers, TextInv, NEW k \in DOMAIN Model,
         \A text \in ToSet(accepted[k]) : Len(text) = 1
  PROVE  Elements(k) = Firsts(k)
<1> DEFINE S == Pieces(Model[k])
           T == {t \in Seq(S) : Len(t) = 1}
           s == accepted[k]
           A == {text \in TextsOf(Model[k]) : Taken(text)}
<1>1. s \in Seq(A) /\ \A text \in A : text \in Seq(S)
  BY ElementsAre DEF TextInv
<1>2. s \in Seq(T)
  <2>1. \A j \in 1..Len(s) : s[j] \in A /\ s[j] \in ToSet(s)
    <3> HIDE DEF A, s
    <3> QED
      BY <1>1 DEF ToSet
  <2>2. \A j \in 1..Len(s) : s[j] \in T
    <3> HIDE DEF A
    <3> QED
      BY <1>1, <2>1
  <2> HIDE DEF A, T, s
  <2> QED
    BY <1>1, <2>2
<1> HIDE DEF S, s
<1>3. FlattenSeq(s) = [j \in DOMAIN s |-> s[j][1]]
  BY <1>2, Singles
<1> QED
  BY <1>3 DEF Elements, Firsts, s

(* What a FlagHandler makes of a field, kind by kind. *)
LEMMA GivenIs ==
  ASSUME NEW k \in DOMAIN Model
  PROVE  /\ GivenRef(k).kind = Model[k].kind
         /\ Model[k].kind \in Keyed => GivenRef(k).values = Values(k) /\ GivenRef(k).keys = Firsts(k)
         /\ Model[k].kind \notin Keyed => GivenRef(k).values = Firsts(k)
BY DEF GivenRef, FieldRef, Ref

(* There are as many keys and values as accepted texts. *)
LEMMA FirstsAre ==
  ASSUME TextInv, NEW k \in DOMAIN Model, accepted[k] # <<>>
  PROVE  /\ Len(accepted[k]) \in Nat \ {0}
         /\ DOMAIN Firsts(k) = 1..Len(accepted[k]) /\ Len(Firsts(k)) = Len(accepted[k])
         /\ DOMAIN Values(k) = 1..Len(accepted[k]) /\ Len(Values(k)) = Len(accepted[k])
         /\ Firsts(k) # <<>>
<1> DEFINE A == {text \in TextsOf(Model[k]) : Taken(text)}
           s == accepted[k]
<1>1. s \in Seq(A) /\ s # <<>>
  BY DEF TextInv
<1> HIDE DEF A
<1>2. Len(s) \in Nat \ {0} /\ DOMAIN s = 1..Len(s)
  <2> HIDE DEF s
  <2> QED
    BY <1>1
<1>3. 1 \in DOMAIN Firsts(k)
  BY <1>2 DEF Firsts
<1> QED
  BY <1>2, <1>3 DEF Firsts, Values

(* What Fill makes of the entries of the kinds that are compared. *)
LEMMA KeyedFill ==
  ASSUME NEW ref, NEW f, ref.kind \in Keyed, ref.keys # <<>>,
         ~(Len(ref.keys) < Len(ref.values))
  PROVE  FillFrom(ref, f) = Filled(Pairing(ref.keys, ref.values))
<1> DEFINE keys == ref.keys
           values == ref.values
           kind == ref.kind
<1>1. kind # "counter" /\ kind \in Keyed
  BY DEF Keyed
<1>2. FillFrom(ref, f) = IF keys = <<>> THEN Unfilled
                         ELSE IF Len(keys) < Len(values) THEN Failed("panic")
                         ELSE Filled(Pairing(keys, values))
  BY <1>1 DEF FillFrom, Keyed, Several
<1> QED
  BY <1>2

(* The exported flags fill a model as the FlagHandler itself does with the *)
(* same arguments (the closures of flags_import.go:180-379 against         *)
(* flags_parse.go:303-413).                                                *)
THEOREM AgreesWithHandler == Spec => []AgreesWithFlagHandler
<1>1. ASSUME UInv, UsesAreComplete, TypeOK, NEW k \in DOMAIN Model, Comparable(k)
      PROVE  FillFrom(GivenRef(k), Model[k]) =
               Filled(CASE Model[k].kind \in Keyed \cup {"slice"} -> content[k]
                        [] IsArray(Model[k]) -> SubSeq(content[k], 1, index[k])
                        [] OTHER -> <<content[k]>>)
  <2> DEFINE f == Model[k]
             ref == GivenRef(k)
             n == Len(accepted[k])
             e == Firsts(k)
  <2>0. /\ h \in Handlers /\ TextInv /\ Kept(k) /\ accepted[k] # <<>> /\ k \notin refused
        /\ f.kind \notin {"counter", "explode"}
    BY <1>1 DEF UInv, IInv, ShapeInv, Comparable
  <2>1. /\ n \in Nat \ {0} /\ DOMAIN e = 1..n /\ Len(e) = n /\ e # <<>>
        /\ Len(Values(k)) = n
    BY <2>0, FirstsAre
  <2>2. ref.kind = f.kind
    BY GivenIs
  <2>3. CASE f.kind \in Keyed
    <3>1. content[k] = Pairing(Firsts(k), Values(k))
      BY <2>0, <2>3 DEF Kept, MapKept, Entries
    <3>2. ref.values = Values(k) /\ ref.keys = e
      BY <2>3, GivenIs
    <3>3. FillFrom(ref, f) = Filled(Pairing(Firsts(k), Values(k)))
      <4> HIDE DEF ref, f, n
      <4>1. ref.kind # "counter" /\ ref.keys # <<>> /\ ~(Len(ref.keys) < Len(ref.values))
        BY <2>0, <2>1, <2>2, <3>2
      <4>2. ref.kind \in Keyed
        BY <2>2, <2>3
      <4>3. FillFrom(ref, f) = Filled(Pairing(ref.keys, ref.values))
        BY <4>1, <4>2, KeyedFill
      <4> QED
        BY <3>2, <4>3
    <3> QED
      BY <2>0, <2>3, <3>1, <3>3, Kinds
  <2>4. CASE f.kind \notin Keyed
    <3>1. Elements(k) = e /\ ref.values = e
      <4>1. \A text \in ToSet(accepted[k]) : Len(text) = 1
        BY <1>1, <2>4 DEF Comparable
      <4> QED
        BY <2>0, <2>4, <4>1, ElementsAreFirsts, GivenIs
    <3>2. e \in Seq(Pieces(f))
      BY <2>0, <3>1, ElementsAre
    <3>3. CASE f.kind = "slice"
      <4>1. content[k] = e
        BY <2>0, <3>1, <3>3 DEF Kept, SliceKept
      <4>2. FillFrom(ref, f) = Filled(e)
        <5>1. SubSeq(e, 1, Len(e)) = e
          BY <3>2
        <5>2. n = 1 => <<Last(e)>> = e
          BY <2>1, <3>2 DEF Last
        <5>3. ref.kind = "slice" /\ ref.values = e
          BY <2>2, <3>1, <3>3
        <5> HIDE DEF ref, f, e, n
        <5>4. FillFrom(ref, f) = IF Len(e) > 1 THEN Filled(SubSeq(e, 1, Len(e))) ELSE Filled(<<Last(e)>>)
          BY <3>3, <5>3 DEF FillFrom, Keyed, Several
        <5>5. CASE n = 1
          BY <2>1, <5>2, <5>4, <5>5
        <5>6. CASE n > 1
          BY <2>1, <5>1, <5>4, <5>6
        <5> QED
          BY <2>1, <5>5, <5>6
      <4> QED
        BY <2>0, <3>3, <4>1, <4>2, Kinds
    <3>4. CASE IsArray(f)
      <4>0. f.kind = "array"
        BY <2>0, <3>4 DEF IsArray
      <4> DEFINE c == content[k]
                 size == f.size
      <4>1. /\ index[k] = n /\ c \in [1..size -> Places(f)] /\ size \in Nat /\ n <= size
            /\ \A j \in 1..n : c[j] = e[j]
        <5>1. /\ index[k] = n /\ c \in [1..size -> Places(f)]
              /\ \A j \in 1..n : c[j] = e[j]
          BY <2>0, <2>1, <3>1, <3>4 DEF Kept, ArrayKept
        <5>2. size \in Nat /\ index[k] <= size
          BY <1>1, <2>0, <3>4, ModelFacts DEF UInv, IInv, ArrayInv
        <5> QED
          BY <5>1, <5>2
      <4>2. SubSeq(c, 1, n) = e
        <5> HIDE DEF c, n, e, f, size
        <5>1. c \in Seq(Places(f)) /\ Len(c) = size
          BY <4>1
        <5> QED
          BY <2>1, <3>2, <4>1, <5>1
      <4>3. FillFrom(ref, f) = Filled(e)
        <5>1. SubSeq(e, 1, Len(e)) = e
          BY <3>2
        <5>2. n = 1 => <<Last(e)>> = e
          BY <2>1, <3>2 DEF Last
        <5>3. ref.kind = "array" /\ ref.values = e
          BY <2>2, <3>1, <4>0
        <5>4. Min({f.size, Len(e)}) = Len(e)
          <6> HIDE DEF e, n, f
          <6> QED
            BY <2>1, <4>1 DEF Min
        <5> HIDE DEF ref, f, e, n
        <5>5. FillFrom(ref, f) = IF Len(e) > 1 THEN Filled(SubSeq(e, 1, Min({f.size, Len(e)})))
                                 ELSE Filled(<<Last(e)>>)
          BY <4>0, <5>3 DEF FillFrom, Keyed, Several
        <5>6. CASE n = 1
          BY <2>1, <5>2, <5>5, <5>6
        <5>7. CASE n > 1
          BY <2>1, <5>1, <5>4, <5>5, <5>7
        <5> QED
          BY <2>1, <5>6, <5>7
      <4>4. f.kind \notin Keyed \cup {"slice"}
        BY <2>4, <4>0
      <4> QED
        BY <3>4, <4>1, <4>2, <4>3, <4>4
    <3>5. CASE f.kind \in {"bool", "counter", "scalar"}
      <4>1. content[k] = Last(e)
        BY <2>0, <3>1, <3>5 DEF Kept, ScalarKept
      <4>2. f.kind = "bool" => Last(e) \in Truth
        <5> SUFFICES ASSUME f.kind = "bool" PROVE Last(e) \in Truth
          OBVIOUS
        <5> DEFINE A == {text \in TextsOf(f) : Taken(text)}
                   s == accepted[k]
        <5>1. s \in Seq(A)
          BY <2>0 DEF TextInv
        <5>2. s[n] \in A
          <6> HIDE DEF A
          <6> QED
            BY <2>1, <5>1
        <5>3. \A text \in A : text[1] \in Truth
          <6> TAKE text \in A
          <6>1. text[1] \in Truth \cup {Bad} /\ Len(text) = 1 /\ text \in Seq(ToSet(text))
            BY <2>0, TextAssumption, ModelAssumption DEF Model
          <6>2. text[1] # Bad
            BY <6>1 DEF Taken, ToSet
          <6> QED
            BY <6>1, <6>2
        <5>4. Last(e) = s[n][1]
          BY <2>1 DEF Last, Firsts
        <5> QED
          BY <5>2, <5>3, <5>4
      <4>3. FillFrom(ref, f) = Filled(<<Last(e)>>)
        <5>1. ref.kind \in {"bool", "scalar"} /\ ref.values = e /\ (ref.kind = "bool" => Last(e) \in Truth)
          BY <2>0, <2>2, <3>1, <3>5, <4>2
        <5> HIDE DEF ref, f, e
        <5> QED
          BY <5>1 DEF FillFrom, Keyed, Several
      <4>4. f.kind \notin Keyed \cup {"slice"} /\ ~IsArray(f)
        BY <2>0, <2>4, <3>5, Kinds
      <4> QED
        BY <4>1, <4>3, <4>4
    <3> QED
      BY <2>0, <2>4, <3>3, <3>4, <3>5, Kinds
  <2> QED
    BY <2>3, <2>4
<1>2. UInv /\ UsesAreComplete /\ TypeOK => AgreesWithFlagHandler
  BY <1>1 DEF AgreesWithFlagHandler
<1> QED
  BY <1>2, InductiveUses, UsesComplete, TypeCorrect, PTL
=============================================================================

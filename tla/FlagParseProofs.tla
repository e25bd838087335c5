---------------------------- MODULE FlagParseProofs ----------------------------
(***************************************************************************)
(* Theorems about FlagParse, for every set of models and commands, every   *)
(* command line and any number of calls of Configure: no argument is lost  *)
(* or used twice, every value has the spelling of the flag that gave it, a *)
(* subcommand's handler gives values to its own flags only, the handler    *)
(* panics for two known reasons only, and it fills the fields whose flags  *)
(* were used, and no other.                                                *)
(***************************************************************************)
EXTENDS FlagParse, SequenceTheorems, Induction

(* A sequence, whatever its members are. *)
IsSeq(s) == s \in Seq(Range(s))

(* An entry: each of its values has the spelling of the flag that gave it. *)
IsRef(r) ==
  /\ r = [kind |-> r.kind, explode |-> r.explode, required |-> r.required,
          settable |-> r.settable, values |-> r.values, used |-> r.used, keys |-> r.keys]
  /\ r.explode \in Nat
  /\ IsSeq(r.values) /\ IsSeq(r.used) /\ Len(r.values) <= Len(r.used)

(* The tables point at entries of the same handler. *)
WellFormed(t) ==
  /\ t = [at |-> t.at, refs |-> t.refs, outcome |-> t.outcome]
  /\ t.outcome \in {"ok", "error", "panic"}
  /\ t.at = [key \in DOMAIN t.at |-> t.at[key]]
  /\ t.refs = [id \in DOMAIN t.refs |-> t.refs[id]]
  /\ \A key \in DOMAIN t.at :
       /\ key = <<key[1], key[2], key[3]>>
       /\ t.at[key] \in DOMAIN t.refs /\ t.at[key][1] = key[1]
  /\ \A id \in DOMAIN t.refs : IsRef(t.refs[id])
-----------------------------------------------------------------------------
(* Sequences that the handler makes are sequences.                         *)
LEMMA SeqIsSeq ==
  ASSUME NEW S, NEW s \in Seq(S)
  PROVE  IsSeq(s)
<1>1. \A n \in 1..Len(s) : s[n] \in Range(s)
  BY DEF Range
<1>2. Len(s) \in Nat /\ s = [n \in 1..Len(s) |-> s[n]]
  OBVIOUS
<1>3. [n \in 1..Len(s) |-> s[n]] \in Seq(Range(s))
  BY <1>1, <1>2, IsASeq
<1> QED
  BY <1>2, <1>3 DEF IsSeq

LEMMA ConcatIsSeq ==
  ASSUME NEW s, NEW t, IsSeq(s), IsSeq(t)
  PROVE  IsSeq(s \o t) /\ Len(s \o t) = Len(s) + Len(t)
<1> DEFINE S == Range(s) \cup Range(t)
<1>1. s \in Seq(S) /\ t \in Seq(S)
  BY SeqMonotonic DEF IsSeq
<1> HIDE DEF S
<1>2. s \o t \in Seq(S) /\ Len(s \o t) = Len(s) + Len(t)
  BY <1>1, ConcatProperties
<1> QED
  BY <1>2, SeqIsSeq

LEMMA RepeatedIsSeq ==
  ASSUME NEW s, IsSeq(s), NEW x
  PROVE  IsSeq([v \in DOMAIN s |-> x]) /\ Len([v \in DOMAIN s |-> x]) = Len(s)
<1>1. DOMAIN s = 1..Len(s) /\ Len(s) \in Nat
  BY DEF IsSeq
<1>2. [v \in 1..Len(s) |-> x] \in Seq({x})
  BY <1>1, IsASeq
<1>3. Len([v \in 1..Len(s) |-> x]) = Len(s)
  BY <1>1, <1>2, LenProperties
<1> QED
  BY <1>1, <1>2, <1>3, SeqIsSeq

LEMMA PartIsSeq ==
  ASSUME NEW s, IsSeq(s), NEW m \in Nat \ {0}, NEW n \in Nat, n <= Len(s)
  PROVE  IsSeq(SubSeq(s, m, n)) /\ Len(SubSeq(s, m, n)) = IF m <= n THEN n - m + 1 ELSE 0
<1>1. Len(s) \in Nat /\ DOMAIN s = 1..Len(s)
  BY DEF IsSeq
<1>2. \A k \in m..n : s[k] \in Range(s)
  <2> TAKE k \in m..n
  <2>1. k \in 1..Len(s)
    BY <1>1
  <2> QED
    BY <1>1, <2>1 DEF Range
<1>3. /\ SubSeq(s, m, n) \in Seq(Range(s))
      /\ Len(SubSeq(s, m, n)) = IF m <= n THEN n - m + 1 ELSE 0
  BY <1>2, SubSeqProperties
<1> QED
  BY <1>3, SeqIsSeq
-----------------------------------------------------------------------------
(* What parsing and filling make of an entry. *)
LEMMA GiveKeeps ==
  ASSUME NEW r, IsRef(r), NEW values, IsSeq(values), NEW dashed
  PROVE  IsRef(Give(r, values, dashed))
<1> DEFINE more  == r.values \o values
           names == [v \in DOMAIN values |-> dashed]
           used  == r.used \o names
<1>1. IsSeq(more) /\ Len(more) = Len(r.values) + Len(values)
  BY ConcatIsSeq DEF IsRef
<1>2. IsSeq(names) /\ Len(names) = Len(values)
  BY RepeatedIsSeq
<1> HIDE DEF names
<1>3. IsSeq(used) /\ Len(used) = Len(r.used) + Len(values)
  BY <1>2, ConcatIsSeq DEF IsRef
<1>4. Len(more) <= Len(used)
  <2>1. Len(r.values) \in Nat /\ Len(r.used) \in Nat /\ Len(values) \in Nat
    BY DEF IsRef, IsSeq
  <2> QED
    BY <1>1, <1>3, <2>1 DEF IsRef
<1>5. Give(r, values, dashed) = [r EXCEPT !.values = more, !.used = used]
  BY DEF Give, names
<1> HIDE DEF more, used
<1> QED
  BY <1>1, <1>3, <1>4, <1>5 DEF IsRef

LEMMA OneIsSeq ==
  ASSUME NEW x
  PROVE  IsSeq(<<x>>)
<1>1. <<x>> \in Seq({x})
  OBVIOUS
<1> QED
  BY <1>1, SeqIsSeq

LEMMA KeyKeeps ==
  ASSUME NEW r, IsRef(r), NEW keys
  PROVE  IsRef([r EXCEPT !.keys = keys])
BY DEF IsRef

(* A flag that takes one value.                                            *)
LEMMA GivesOne ==
  ASSUME NEW r, IsRef(r), NEW value, NEW dashed
  PROVE  IsRef(Give(r, <<value>>, dashed))
<1>1. IsSeq(<<value>>)
  BY OneIsSeq
<1> DEFINE values == <<value>>
<1>2. IsSeq(values)
  BY <1>1
<1> HIDE DEF values
<1>3. IsRef(Give(r, values, dashed))
  BY <1>2, GiveKeeps
<1> QED
  BY <1>3 DEF values

(* A map flag notes the key, too.                                          *)
LEMMA GivesKeyed ==
  ASSUME NEW r, IsRef(r), NEW key, NEW value, NEW dashed
  PROVE  IsRef([Give(r, <<value>>, dashed) EXCEPT !.keys = Append(@, key)])
<1> DEFINE given == Give(r, <<value>>, dashed)
           keys  == Append(given.keys, key)
<1>1. IsRef(given)
  BY GivesOne
<1>2. [given EXCEPT !.keys = Append(@, key)] = [given EXCEPT !.keys = keys]
  OBVIOUS
<1> HIDE DEF given, keys
<1>3. IsRef([given EXCEPT !.keys = keys])
  BY <1>1, KeyKeeps
<1> QED
  BY <1>2, <1>3 DEF given

(* A flag takes the arguments that follow it.                              *)
LEMMA GiveFollowingKeeps ==
  ASSUME NEW r, IsRef(r), NEW following, IsSeq(following), NEW dashed
  PROVE  IsRef(GiveFollowing(r, following, dashed))
<1>1. CASE r.kind = "bool"
  <2>1. GiveFollowing(r, following, dashed) = Give(r, <<Yes>>, dashed)
    BY <1>1 DEF GiveFollowing, Keyed
  <2>2. IsRef(Give(r, <<Yes>>, dashed))
    BY GivesOne
  <2> QED
    BY <2>1, <2>2
<1>2. CASE r.kind = "counter"
  <2>1. GiveFollowing(r, following, dashed) = Give(r, <<Empty>>, dashed)
    BY <1>2 DEF GiveFollowing, Keyed
  <2>2. IsRef(Give(r, <<Empty>>, dashed))
    BY GivesOne
  <2> QED
    BY <2>1, <2>2
<1>3. CASE r.kind \in Keyed
  <2>1. GiveFollowing(r, following, dashed) =
          [Give(r, <<following[1].value>>, dashed)
             EXCEPT !.keys = Append(@, KeyOf(following[1]))]
    BY <1>3 DEF GiveFollowing, Keyed
  <2> DEFINE key == KeyOf(following[1])
             value == following[1].value
  <2> HIDE DEF key, value
  <2>2. IsRef([Give(r, <<value>>, dashed) EXCEPT !.keys = Append(@, key)])
    BY GivesKeyed
  <2> QED
    BY <2>1, <2>2 DEF key, value
<1>4. CASE r.kind # "bool" /\ r.kind # "counter" /\ r.kind \notin Keyed
  <2>1. GiveFollowing(r, following, dashed) = Give(r, following, dashed)
    BY <1>4 DEF GiveFollowing, Keyed
  <2> QED
    BY <2>1, GiveKeeps
<1> QED
  BY <1>1, <1>2, <1>3, <1>4

(* A name and a key run together.                                          *)
LEMMA GivePrefixedKeeps ==
  ASSUME NEW r, IsRef(r), NEW key, NEW value, NEW dashed
  PROVE  IsRef(GivePrefixed(r, key, value, dashed))
<1> DEFINE text == Text(key)
<1>1. GivePrefixed(r, key, value, dashed) =
        [Give(r, <<value>>, dashed) EXCEPT !.keys = Append(@, text)]
  BY DEF GivePrefixed
<1> HIDE DEF text
<1>2. IsRef([Give(r, <<value>>, dashed) EXCEPT !.keys = Append(@, text)])
  BY GivesKeyed
<1> QED
  BY <1>1, <1>2

LEMMA EmptyIsSeq == IsSeq(<<>>) /\ Len(<<>>) = 0
<1>1. <<>> \in Seq({})
  OBVIOUS
<1> QED
  BY <1>1, SeqIsSeq

(* clearParse of one entry.                                                *)
LEMMA ClearedKeeps ==
  ASSUME NEW r, IsRef(r)
  PROVE  IsRef(Cleared(r))
<1> DEFINE none == <<>>
<1>1. IsSeq(none) /\ Len(none) <= Len(none)
  BY EmptyIsSeq
<1> DEFINE R == Cleared(r)
<1>2. R = [kind |-> r.kind, explode |-> r.explode, required |-> r.required,
           settable |-> r.settable, values |-> none, used |-> none, keys |-> none]
  <2>1. R = [r EXCEPT !.values = none, !.used = none, !.keys = none]
    BY DEF Cleared
  <2> HIDE DEF R, none
  <2> QED
    BY <2>1 DEF IsRef
<1>3. r.explode \in Nat
  BY DEF IsRef
<1> HIDE DEF none, R
<1>4. IsRef(R)
  BY <1>1, <1>2, <1>3 DEF IsRef
<1> QED
  BY <1>4 DEF R

(* The larger of one and another number.                                   *)
LEMMA MaxWithOne ==
  ASSUME NEW size \in Nat
  PROVE  Max({1, size}) \in Nat /\ Max({1, size}) >= size /\ Max({1, size}) >= 1
<1>1. CASE size > 1
  <2>1. \A x \in {1, size} : size >= x
    BY <1>1
  <2>2. Max({1, size}) \in {1, size} /\ \A y \in {1, size} : Max({1, size}) >= y
    BY <2>1 DEF Max
  <2> QED
    BY <2>2
<1>2. CASE size <= 1
  <2>1. \A x \in {1, size} : 1 >= x
    BY <1>2
  <2>2. Max({1, size}) \in {1, size} /\ \A y \in {1, size} : Max({1, size}) >= y
    BY <2>1 DEF Max
  <2> QED
    BY <2>2
<1> QED
  BY <1>1, <1>2

(* An array keeps what fits.                                               *)
LEMMA AfterFillKeeps ==
  ASSUME NEW r, IsRef(r), NEW g \in Handlers, NEW k \in DOMAIN Fields[g]
  PROVE  IsRef(AfterFill(r, Fields[g][k]))
<1> DEFINE size == Fields[g][k].size
           kept == SubSeq(r.values, 1, size)
<1>1. size \in Nat
  BY FieldAssumption
<1>2. CASE AfterFill(r, Fields[g][k]) = r
  BY <1>2
<1>3. CASE /\ AfterFill(r, Fields[g][k]) = [r EXCEPT !.values = kept]
           /\ Len(r.values) > Max({1, size})
  <2>1. Max({1, size}) >= size /\ Max({1, size}) \in Nat
    BY <1>1, MaxWithOne
  <2>2. Len(r.values) \in Nat /\ Len(r.used) \in Nat /\ IsSeq(r.values)
    BY DEF IsRef, IsSeq
  <2>3. size <= Len(r.values)
    BY <1>1, <1>3, <2>1, <2>2
  <2> HIDE DEF size
  <2>4. IsSeq(kept) /\ Len(kept) = IF 1 <= size THEN size - 1 + 1 ELSE 0
    BY <1>1, <2>2, <2>3, PartIsSeq
  <2>5. Len(kept) <= Len(r.used)
    BY <1>1, <2>2, <2>3, <2>4 DEF IsRef
  <2> HIDE DEF kept
  <2> QED
    BY <1>3, <2>4, <2>5 DEF IsRef
<1> QED
  BY <1>2, <1>3 DEF AfterFill

(* The entries that PreWalk and the imports make.                          *)
LEMMA NewRefs ==
  /\ \A g \in Handlers : \A k \in DOMAIN Fields[g] : IsRef(FieldRef(Fields[g][k]))
  /\ \A kind : IsRef(PlainRef(kind))
<1>1. IsSeq(<<>>) /\ Len(<<>>) = 0
  <2>1. <<>> \in Seq({})
    OBVIOUS
  <2> QED
    BY <2>1, SeqIsSeq
<1>2. ASSUME NEW kind, NEW size \in Nat, NEW required, NEW settable
      PROVE  IsRef(Ref(kind, size, required, settable))
  BY <1>1 DEF IsRef, Ref
<1> QED
  BY <1>2, FieldAssumption DEF FieldRef, PlainRef
-----------------------------------------------------------------------------
(* PreWalk.  The tables that a walk can come to are a set: their keys and  *)
(* entries are those they had, and those of the models.                    *)
Partial(S, T) == UNION {[D -> T] : D \in SUBSET S}

Near(K, I, R) ==
  {t \in [at : Partial(K, I), refs : Partial(I, R), outcome : {"ok", "error", "panic"}] :
     WellFormed(t)}

(* The keys, ids and entries of the models are among these. *)
Room(K, I, R) ==
  \A g \in Handlers : \A k \in DOMAIN Fields[g] :
    /\ <<g, "field", k>> \in I
    /\ FieldRef(Fields[g][k]) \in R
    /\ \A name \in Range(Fields[g][k].names) : <<g, Table(Fields[g][k], name), name>> \in K

(* What it is to be a partial function.                                    *)
LEMMA PartialIs ==
  ASSUME NEW S, NEW T, NEW f, f = [x \in DOMAIN f |-> f[x]],
         DOMAIN f \subseteq S, \A x \in DOMAIN f : f[x] \in T
  PROVE  f \in Partial(S, T)
<1> DEFINE D == DOMAIN f
<1>1. f \in [D -> T]
  OBVIOUS
<1> QED
  BY <1>1 DEF Partial

LEMMA PartialHas ==
  ASSUME NEW S, NEW T, NEW f \in Partial(S, T)
  PROVE  /\ f = [x \in DOMAIN f |-> f[x]]
         /\ DOMAIN f \subseteq S /\ \A x \in DOMAIN f : f[x] \in T
BY DEF Partial

(* How a walk ends does not matter to the tables.                          *)
LEMMA WithOutcome ==
  ASSUME NEW K, NEW I, NEW R, NEW t \in Near(K, I, R), NEW o \in {"ok", "error", "panic"}
  PROVE  [t EXCEPT !.outcome = o] \in Near(K, I, R)
<1> DEFINE u == [t EXCEPT !.outcome = o]
<1>1. /\ t \in [at : Partial(K, I), refs : Partial(I, R), outcome : {"ok", "error", "panic"}]
      /\ WellFormed(t)
  BY DEF Near
<1>2. /\ u.at = t.at /\ u.refs = t.refs /\ u.outcome = o
      /\ u \in [at : Partial(K, I), refs : Partial(I, R), outcome : {"ok", "error", "panic"}]
  BY <1>1
<1> HIDE DEF u
<1>3. WellFormed(u)
  BY <1>1, <1>2 DEF WellFormed
<1> QED
  BY <1>2, <1>3 DEF Near, u

(* One name of one field is entered, or clashes.                           *)
LEMMA RegisterKeeps ==
  ASSUME NEW K, NEW I, NEW R, Room(K, I, R),
         NEW g \in Handlers, NEW k \in DOMAIN Fields[g], NEW name \in Range(Fields[g][k].names),
         NEW t \in Near(K, I, R)
  PROVE  Register(t, g, k, name) \in Near(K, I, R)
<1> DEFINE f    == Fields[g][k]
           key  == <<g, Table(f, name), name>>
           id   == <<g, "field", k>>
           at   == [q \in DOMAIN t.at \cup {key} |-> IF q = key THEN id ELSE t.at[q]]
           refs == IF id \in DOMAIN t.refs THEN t.refs
                   ELSE [q \in DOMAIN t.refs \cup {id} |->
                           IF q = id THEN FieldRef(f) ELSE t.refs[q]]
           u    == [t EXCEPT !.at = at, !.refs = refs]
<1>1. \/ Register(t, g, k, name) \in {t, [t EXCEPT !.outcome = "panic"], [t EXCEPT !.outcome = "error"]}
      \/ Register(t, g, k, name) = u
  BY DEF Register
<1>2. t \in Near(K, I, R) /\ [t EXCEPT !.outcome = "panic"] \in Near(K, I, R)
        /\ [t EXCEPT !.outcome = "error"] \in Near(K, I, R)
  BY WithOutcome
<1>3. u \in Near(K, I, R)
  <2>1. /\ t \in [at : Partial(K, I), refs : Partial(I, R), outcome : {"ok", "error", "panic"}]
        /\ WellFormed(t)
    BY DEF Near
  <2>2. id \in I /\ FieldRef(f) \in R /\ key \in K /\ IsRef(FieldRef(f))
        /\ key = <<key[1], key[2], key[3]>> /\ key[1] = g /\ id[1] = g
    BY NewRefs DEF Room
  <2> HIDE DEF key, id, f
  <2>3. /\ at = [q \in DOMAIN at |-> at[q]] /\ DOMAIN at = DOMAIN t.at \cup {key}
        /\ \A q \in DOMAIN at : at[q] = IF q = key THEN id ELSE t.at[q]
    OBVIOUS
  <2>4. /\ refs = [q \in DOMAIN refs |-> refs[q]] /\ DOMAIN refs = DOMAIN t.refs \cup {id}
        /\ \A q \in DOMAIN refs :
             refs[q] = IF q = id /\ id \notin DOMAIN t.refs THEN FieldRef(f) ELSE t.refs[q]
    <3>1. CASE id \in DOMAIN t.refs
      BY <2>1, <3>1 DEF WellFormed
    <3>2. CASE id \notin DOMAIN t.refs
      BY <3>2
    <3> QED
      BY <3>1, <3>2
  <2> HIDE DEF at, refs
  <2>5. DOMAIN t.at \subseteq K /\ \A q \in DOMAIN t.at : t.at[q] \in I
    BY <2>1, PartialHas
  <2>6. DOMAIN t.refs \subseteq I /\ \A q \in DOMAIN t.refs : t.refs[q] \in R
    BY <2>1, PartialHas
  <2>7. at \in Partial(K, I)
    BY <2>2, <2>3, <2>5, PartialIs
  <2>8. refs \in Partial(I, R)
    BY <2>2, <2>4, <2>6, PartialIs
  <2>9. /\ u.at = at /\ u.refs = refs /\ u.outcome = t.outcome
        /\ u \in [at : Partial(K, I), refs : Partial(I, R), outcome : {"ok", "error", "panic"}]
    BY <2>1, <2>7, <2>8
  <2> HIDE DEF u
  <2>10. \A q \in DOMAIN u.at :
           q = <<q[1], q[2], q[3]>> /\ u.at[q] \in DOMAIN u.refs /\ u.at[q][1] = q[1]
    BY <2>1, <2>2, <2>3, <2>4, <2>9 DEF WellFormed
  <2>11. \A q \in DOMAIN u.refs : IsRef(u.refs[q])
    BY <2>1, <2>2, <2>4, <2>9 DEF WellFormed
  <2>12. WellFormed(u)
    BY <2>1, <2>3, <2>4, <2>9, <2>10, <2>11 DEF WellFormed
  <2> QED
    BY <2>9, <2>12 DEF Near
<1> QED
  BY <1>1, <1>2, <1>3
-----------------------------------------------------------------------------
(* A fold over a sequence of n members does not leave a set that its steps *)
(* do not leave; f[S] is what it makes of the members at S.                *)
LEMMA FoldKeeps ==
  ASSUME NEW n \in Nat, NEW Val, NEW f, f[{}] \in Val,
         \A s \in SUBSET (1..n) : s # {} /\ f[s \ {Max(s)}] \in Val => f[s] \in Val
  PROVE  f[1..n] \in Val
<1> DEFINE D == 1..n
           rest == [s \in SUBSET D |-> s \ {Max(s)}]
<1>1. IsFiniteSet(D) /\ Shrinks(rest, D)
  <2>1. IsFiniteSet(D)
    BY FS_Interval
  <2>2. Shrinks(rest, D)
    BY DroppingMaxShrinks
  <2> QED
    BY <2>1, <2>2
<1>2. \A s \in SUBSET D : s # {} /\ f[rest[s]] \in Val => f[s] \in Val
  OBVIOUS
<1>3. D \in SUBSET D
  OBVIOUS
<1> HIDE DEF D, rest
<1>4. \A s \in SUBSET D : f[s] \in Val
  BY <1>1, <1>2, KeptByUnfolding
<1> QED
  BY <1>3, <1>4 DEF D

(* All names of one field are entered: f[S] is what the names at S make.   *)
NamesFold(f, t, g, k) ==
  LET names == Fields[g][k].names
  IN  /\ f[{}] = t /\ RegisterField(t, g, k) = f[1..Len(names)]
      /\ \A s \in SUBSET (1..Len(names)) : s # {} =>
           f[s] = Register(f[s \ {Max(s)}], g, k, names[Max(s)])

LEMMA RegisterFieldFolds ==
  ASSUME NEW K, NEW I, NEW R, Room(K, I, R),
         NEW g \in Handlers, NEW k \in DOMAIN Fields[g], NEW t \in Near(K, I, R)
  PROVE  \E f : NamesFold(f, t, g, k)
<1> DEFINE Val == Near(K, I, R)
           names == Fields[g][k].names
           n == Len(names)
           Is(f) == f = [s \in SUBSET (1..n) |->
                           IF s = {} THEN t
                           ELSE Register(f[s \ {Max(s)}], g, k, names[Max(s)])]
           f == CHOOSE f : Is(f)
           op == [p \in Val \X (1..n) |-> Register(p[1], g, k, names[p[2]])]
<1>1. n \in Nat /\ DOMAIN names = 1..n
  BY FieldAssumption
<1>2. \A u \in Val : \A j \in 1..n : Register(u, g, k, names[j]) \in Val
  <2>1. \A j \in 1..n : names[j] \in Range(Fields[g][k].names)
    BY <1>1 DEF Range
  <2> HIDE DEF n, names
  <2> QED
    BY <2>1, RegisterKeeps
<1>3. \A s \in SUBSET (1..n) : s # {} => Max(s) \in 1..n
  BY <1>1, MaxIsMember
<1>4. \E e : Is(e)
  <2>1. op \in [Val \X (1..n) -> Val] /\ t \in Val
    BY <1>2
  <2> HIDE DEF Val, n, op
  <2>2. PICK e \in [SUBSET (1..n) -> Val] : Folds(e, n, t, op)
    BY <1>1, <2>1, FoldExists
  <2>3. \A s \in SUBSET (1..n) : s # {} =>
          op[<<e[s \ {Max(s)}], Max(s)>>] = Register(e[s \ {Max(s)}], g, k, names[Max(s)])
    <3> TAKE s \in SUBSET (1..n)
    <3> HAVE s # {}
    <3>1. e[s \ {Max(s)}] \in Val /\ Max(s) \in 1..n
      BY <1>3
    <3> QED
      BY <3>1 DEF op
  <2>4. e = [s \in SUBSET (1..n) |-> IF s = {} THEN t
                                     ELSE Register(e[s \ {Max(s)}], g, k, names[Max(s)])]
    BY <2>2, <2>3 DEF Folds
  <2> QED
    BY <2>4
<1>5. Is(f)
  BY <1>4
<1>6. RegisterField(t, g, k) = f[1..n]
  <2>1. RegisterField(t, g, k) = FoldLeft(LAMBDA u, name : Register(u, g, k, name), t, names)
    BY DEF RegisterField
  <2> HIDE DEF n, names
  <2> QED
    BY <1>1, <2>1 DEF FoldLeft, MapThenFoldSet, f
<1> HIDE DEF f
<1>7. f[{}] = t /\ \A s \in SUBSET (1..n) : s # {} =>
        f[s] = Register(f[s \ {Max(s)}], g, k, names[Max(s)])
  BY <1>5
<1>8. NamesFold(f, t, g, k)
  BY <1>6, <1>7 DEF NamesFold
<1> QED
  BY <1>8

LEMMA RegisterFieldKeeps ==
  ASSUME NEW K, NEW I, NEW R, Room(K, I, R),
         NEW g \in Handlers, NEW k \in DOMAIN Fields[g], NEW t \in Near(K, I, R)
  PROVE  RegisterField(t, g, k) \in Near(K, I, R)
<1> DEFINE Val == Near(K, I, R)
           names == Fields[g][k].names
           n == Len(names)
<1>1. n \in Nat /\ DOMAIN names = 1..n
  BY FieldAssumption
<1>2. \A j \in 1..n : names[j] \in Range(Fields[g][k].names)
  BY <1>1 DEF Range
<1>3. \A s \in SUBSET (1..n) : s # {} => Max(s) \in 1..n
  BY <1>1, MaxIsMember
<1>4. \E f : NamesFold(f, t, g, k)
  BY RegisterFieldFolds
<1> PICK f : NamesFold(f, t, g, k)
  BY <1>4
<1>8. /\ f[{}] = t /\ RegisterField(t, g, k) = f[1..n]
      /\ \A s \in SUBSET (1..n) : s # {} =>
           f[s] = Register(f[s \ {Max(s)}], g, k, names[Max(s)])
  BY DEF NamesFold
<1> HIDE DEF n, names
<1>5. \A s \in SUBSET (1..n) : s # {} /\ f[s \ {Max(s)}] \in Val => f[s] \in Val
  <2> TAKE s \in SUBSET (1..n)
  <2> HAVE s # {} /\ f[s \ {Max(s)}] \in Val
  <2> DEFINE u == f[s \ {Max(s)}]
             j == Max(s)
  <2>1. f[s] = Register(u, g, k, names[j])
    BY <1>8
  <2>2. u \in Val /\ names[j] \in Range(Fields[g][k].names)
    BY <1>2, <1>3
  <2> HIDE DEF u, j
  <2>3. Register(u, g, k, names[j]) \in Val
    BY <2>2, RegisterKeeps
  <2> QED
    BY <2>1, <2>3
<1>9. f[{}] \in Val
  BY <1>8
<1> HIDE DEF Val
<1>6. f[1..n] \in Val
  BY <1>1, <1>5, <1>9, FoldKeeps
<1> QED
  BY <1>6, <1>8 DEF Val

(* All fields of one model.                                                *)
FieldsFold(f, t, g) ==
  /\ f[{}] = [t EXCEPT !.outcome = "ok"] /\ PreWalk(t, g) = f[1..Len(Fields[g])]
  /\ \A s \in SUBSET (1..Len(Fields[g])) : s # {} =>
       f[s] = RegisterField(f[s \ {Max(s)}], g, Max(s))

LEMMA PreWalkFolds ==
  ASSUME NEW K, NEW I, NEW R, Room(K, I, R), NEW g \in Handlers, NEW t \in Near(K, I, R)
  PROVE  \E f : FieldsFold(f, t, g)
<1> DEFINE Val == Near(K, I, R)
           fields == [k \in DOMAIN Fields[g] |-> k]
           n == Len(Fields[g])
           start == [t EXCEPT !.outcome = "ok"]
           Is(f) == f = [s \in SUBSET (1..n) |->
                           IF s = {} THEN start
                           ELSE RegisterField(f[s \ {Max(s)}], g, fields[Max(s)])]
           f == CHOOSE f : Is(f)
           op == [p \in Val \X (1..n) |-> RegisterField(p[1], g, fields[p[2]])]
<1>1. n \in Nat /\ DOMAIN fields = 1..n /\ DOMAIN Fields[g] = 1..n
      /\ \A j \in 1..n : fields[j] = j
  BY FieldAssumption
<1>2. \A u \in Val : \A j \in 1..n : RegisterField(u, g, fields[j]) \in Val
  <2>1. \A j \in 1..n : fields[j] \in DOMAIN Fields[g]
    BY <1>1
  <2> HIDE DEF n, fields
  <2> QED
    BY <2>1, RegisterFieldKeeps
<1>3. \A s \in SUBSET (1..n) : s # {} => Max(s) \in 1..n
  BY <1>1, MaxIsMember
<1>4. start \in Val
  BY WithOutcome
<1> HIDE DEF start
<1>5. \E e : Is(e)
  <2>1. op \in [Val \X (1..n) -> Val]
    BY <1>2
  <2> HIDE DEF Val, n, op
  <2>2. PICK e \in [SUBSET (1..n) -> Val] : Folds(e, n, start, op)
    BY <1>1, <1>4, <2>1, FoldExists
  <2>3. \A s \in SUBSET (1..n) : s # {} =>
          op[<<e[s \ {Max(s)}], Max(s)>>] = RegisterField(e[s \ {Max(s)}], g, fields[Max(s)])
    <3> TAKE s \in SUBSET (1..n)
    <3> HAVE s # {}
    <3>1. e[s \ {Max(s)}] \in Val /\ Max(s) \in 1..n
      BY <1>3
    <3> QED
      BY <3>1 DEF op
  <2>4. e = [s \in SUBSET (1..n) |-> IF s = {} THEN start
                                     ELSE RegisterField(e[s \ {Max(s)}], g, fields[Max(s)])]
    BY <2>2, <2>3 DEF Folds
  <2> QED
    BY <2>4
<1>6. Is(f)
  BY <1>5
<1>7. PreWalk(t, g) = f[1..n]
  <2>1. PreWalk(t, g) = FoldLeft(LAMBDA u, k : RegisterField(u, g, k), start, fields)
    BY DEF PreWalk, start
  <2> HIDE DEF n, fields
  <2> QED
    BY <1>1, <2>1 DEF FoldLeft, MapThenFoldSet, f
<1> HIDE DEF f
<1>8. f[{}] = start /\ \A s \in SUBSET (1..n) : s # {} =>
        f[s] = RegisterField(f[s \ {Max(s)}], g, fields[Max(s)])
  BY <1>6
<1> HIDE DEF fields
<1>9. \A s \in SUBSET (1..n) : s # {} => f[s] = RegisterField(f[s \ {Max(s)}], g, Max(s))
  BY <1>1, <1>3, <1>8
<1>10. FieldsFold(f, t, g)
  BY <1>7, <1>8, <1>9 DEF start, FieldsFold
<1> QED
  BY <1>10

LEMMA PreWalkKeeps ==
  ASSUME NEW K, NEW I, NEW R, Room(K, I, R), NEW g \in Handlers, NEW t \in Near(K, I, R)
  PROVE  PreWalk(t, g) \in Near(K, I, R)
<1> DEFINE Val == Near(K, I, R)
           n == Len(Fields[g])
<1>1. n \in Nat /\ DOMAIN Fields[g] = 1..n
  BY FieldAssumption
<1>2. \A s \in SUBSET (1..n) : s # {} => Max(s) \in 1..n
  BY <1>1, MaxIsMember
<1>7. \E f : FieldsFold(f, t, g)
  BY PreWalkFolds
<1> PICK f : FieldsFold(f, t, g)
  BY <1>7
<1>3. /\ f[{}] = [t EXCEPT !.outcome = "ok"] /\ PreWalk(t, g) = f[1..n]
      /\ \A s \in SUBSET (1..n) : s # {} =>
           f[s] = RegisterField(f[s \ {Max(s)}], g, Max(s))
  BY DEF FieldsFold
<1>4. f[{}] \in Val
  <2>1. [t EXCEPT !.outcome = "ok"] \in Val
    BY WithOutcome
  <2> QED
    BY <1>3, <2>1
<1> HIDE DEF n
<1>5. \A s \in SUBSET (1..n) : s # {} /\ f[s \ {Max(s)}] \in Val => f[s] \in Val
  <2> TAKE s \in SUBSET (1..n)
  <2> HAVE s # {} /\ f[s \ {Max(s)}] \in Val
  <2> DEFINE u == f[s \ {Max(s)}]
             j == Max(s)
  <2>1. f[s] = RegisterField(u, g, j)
    BY <1>3
  <2>2. u \in Val /\ j \in DOMAIN Fields[g]
    BY <1>1, <1>2
  <2> HIDE DEF u, j
  <2>3. RegisterField(u, g, j) \in Val
    BY <2>2, RegisterFieldKeeps
  <2> QED
    BY <2>1, <2>3
<1> HIDE DEF Val
<1>6. f[1..n] \in Val
  BY <1>1, <1>4, <1>5, FoldKeeps
<1> QED
  BY <1>3, <1>6 DEF Val

(* All requested models.                                                   *)
WalkNext(t, g) == IF t.outcome = "ok" THEN PreWalk(t, g) ELSE t

RequestsFold(f, t, gs) ==
  /\ f[{}] = t /\ WalkRequests(t, gs) = f[1..Len(gs)]
  /\ \A s \in SUBSET (1..Len(gs)) : s # {} => f[s] = WalkNext(f[s \ {Max(s)}], gs[Max(s)])

LEMMA WalkRequestsFolds ==
  ASSUME NEW K, NEW I, NEW R, Room(K, I, R), NEW gs \in Seq(Handlers), NEW t \in Near(K, I, R)
  PROVE  \E f : RequestsFold(f, t, gs)
<1> DEFINE Val == Near(K, I, R)
           n == Len(gs)
           Step(u, g) == IF u.outcome = "ok" THEN PreWalk(u, g) ELSE u
           Is(f) == f = [s \in SUBSET (1..n) |->
                           IF s = {} THEN t ELSE Step(f[s \ {Max(s)}], gs[Max(s)])]
           f == CHOOSE f : Is(f)
           op == [p \in Val \X (1..n) |-> Step(p[1], gs[p[2]])]
<1>1. n \in Nat /\ DOMAIN gs = 1..n
  OBVIOUS
<1>2. \A u \in Val : \A j \in 1..n : Step(u, gs[j]) \in Val
  <2>1. \A j \in 1..n : gs[j] \in Handlers
    BY <1>1
  <2> HIDE DEF n
  <2> QED
    BY <2>1, PreWalkKeeps
<1>3. \A s \in SUBSET (1..n) : s # {} => Max(s) \in 1..n
  BY <1>1, MaxIsMember
<1>4. t \in Val
  OBVIOUS
<1>5. \E e : Is(e)
  <2>1. op \in [Val \X (1..n) -> Val]
    <3> HIDE DEF Val, n, Step
    <3> QED
      BY <1>2
  <2> HIDE DEF Val, n, op, Step
  <2>2. PICK e \in [SUBSET (1..n) -> Val] : Folds(e, n, t, op)
    BY <1>1, <1>4, <2>1, FoldExists
  <2>3. \A s \in SUBSET (1..n) : s # {} =>
          op[<<e[s \ {Max(s)}], Max(s)>>] = Step(e[s \ {Max(s)}], gs[Max(s)])
    <3> TAKE s \in SUBSET (1..n)
    <3> HAVE s # {}
    <3>1. e[s \ {Max(s)}] \in Val /\ Max(s) \in 1..n
      BY <1>3
    <3> QED
      BY <3>1 DEF op
  <2>4. e = [s \in SUBSET (1..n) |-> IF s = {} THEN t
                                     ELSE Step(e[s \ {Max(s)}], gs[Max(s)])]
    BY <2>2, <2>3 DEF Folds
  <2> QED
    BY <2>4
<1>6. Is(f)
  <2> HIDE DEF n, Step
  <2> QED
    BY <1>5
<1>7. WalkRequests(t, gs) = f[1..n]
  <2> HIDE DEF n
  <2> QED
    BY <1>1 DEF FoldLeft, MapThenFoldSet, f, WalkRequests
<1>8. \A u, g : Step(u, g) = WalkNext(u, g)
  BY DEF WalkNext
<1> HIDE DEF f, Step
<1>9. f[{}] = t /\ \A s \in SUBSET (1..n) : s # {} =>
        f[s] = WalkNext(f[s \ {Max(s)}], gs[Max(s)])
  BY <1>6, <1>8
<1>10. RequestsFold(f, t, gs)
  BY <1>7, <1>9 DEF RequestsFold
<1> QED
  BY <1>10

LEMMA WalkRequestsKeeps ==
  ASSUME NEW K, NEW I, NEW R, Room(K, I, R), NEW gs \in Seq(Handlers), NEW t \in Near(K, I, R)
  PROVE  WalkRequests(t, gs) \in Near(K, I, R)
<1> DEFINE Val == Near(K, I, R)
           n == Len(gs)
<1>1. n \in Nat /\ \A j \in 1..n : gs[j] \in Handlers
  OBVIOUS
<1>2. \A s \in SUBSET (1..n) : s # {} => Max(s) \in 1..n
  BY <1>1, MaxIsMember
<1>6. \E f : RequestsFold(f, t, gs)
  BY WalkRequestsFolds
<1> PICK f : RequestsFold(f, t, gs)
  BY <1>6
<1>3. /\ f[{}] = t /\ WalkRequests(t, gs) = f[1..n]
      /\ \A s \in SUBSET (1..n) : s # {} => f[s] = WalkNext(f[s \ {Max(s)}], gs[Max(s)])
  BY DEF RequestsFold
<1>7. f[{}] \in Val
  BY <1>3
<1> HIDE DEF n
<1>4. \A s \in SUBSET (1..n) : s # {} /\ f[s \ {Max(s)}] \in Val => f[s] \in Val
  <2> TAKE s \in SUBSET (1..n)
  <2> HAVE s # {} /\ f[s \ {Max(s)}] \in Val
  <2> DEFINE u == f[s \ {Max(s)}]
             j == Max(s)
  <2>1. f[s] = WalkNext(u, gs[j])
    BY <1>3
  <2>2. u \in Val /\ gs[j] \in Handlers
    BY <1>1, <1>2
  <2> HIDE DEF u, j
  <2>3. WalkNext(u, gs[j]) \in Val
    BY <2>2, PreWalkKeeps DEF WalkNext
  <2> QED
    BY <2>1, <2>3
<1> HIDE DEF Val
<1>5. f[1..n] \in Val
  BY <1>1, <1>4, <1>7, FoldKeeps
<1> QED
  BY <1>3, <1>5 DEF Val
-----------------------------------------------------------------------------
(* Every walk starts from tables that leave room for it.                   *)
LEMMA RoomIsThere ==
  ASSUME NEW t, WellFormed(t)
  PROVE  \E K, I, R : Room(K, I, R) /\ t \in Near(K, I, R)
<1> DEFINE K == DOMAIN t.at \cup
                UNION {UNION {{<<g, Table(Fields[g][k], name), name>> :
                                 name \in Range(Fields[g][k].names)} :
                              k \in DOMAIN Fields[g]} : g \in Handlers}
           I == DOMAIN t.refs \cup UNION {{<<g, "field", k>> : k \in DOMAIN Fields[g]} :
                                          g \in Handlers}
           R == {t.refs[id] : id \in DOMAIN t.refs} \cup
                UNION {{FieldRef(Fields[g][k]) : k \in DOMAIN Fields[g]} : g \in Handlers}
<1>1. Room(K, I, R)
  BY DEF Room
<1>2. t \in Near(K, I, R)
  <2>1. t.at \in Partial(K, I)
    <3>1. DOMAIN t.at \subseteq K /\ \A q \in DOMAIN t.at : t.at[q] \in I
      BY DEF WellFormed
    <3> HIDE DEF K, I
    <3> QED
      BY <3>1, PartialIs DEF WellFormed
  <2>2. t.refs \in Partial(I, R)
    <3>1. DOMAIN t.refs \subseteq I /\ \A q \in DOMAIN t.refs : t.refs[q] \in R
      OBVIOUS
    <3> HIDE DEF I, R
    <3> QED
      BY <3>1, PartialIs DEF WellFormed
  <2> HIDE DEF K, I, R
  <2> QED
    BY <2>1, <2>2 DEF Near, WellFormed
<1> HIDE DEF K, I, R
<1> QED
  BY <1>1, <1>2

LEMMA WalksKeep ==
  ASSUME NEW t, WellFormed(t)
  PROVE  /\ \A g \in Handlers : WellFormed(PreWalk(t, g))
         /\ \A gs \in Seq(Handlers) : WellFormed(WalkRequests(t, gs))
<1>1. \E K, I, R : Room(K, I, R) /\ t \in Near(K, I, R)
  BY RoomIsThere
<1> PICK K, I, R : Room(K, I, R) /\ t \in Near(K, I, R)
  BY <1>1
<1>3. \A u \in Near(K, I, R) : WellFormed(u)
  BY DEF Near
<1>4. \A g \in Handlers : PreWalk(t, g) \in Near(K, I, R)
  BY PreWalkKeeps
<1>5. \A gs \in Seq(Handlers) : WalkRequests(t, gs) \in Near(K, I, R)
  BY WalkRequestsKeeps
<1> QED
  BY <1>3, <1>4, <1>5

(* The next walk forgets how the last one ended.                           *)
LEMMA OutcomeKeeps ==
  ASSUME NEW t, WellFormed(t)
  PROVE  LET u == [t EXCEPT !.outcome = "ok"]
         IN  /\ WellFormed(u) /\ u.at = t.at /\ u.refs = t.refs /\ u.outcome = "ok"
BY DEF WellFormed

(* The tables that ImportFlagSet leaves.                                   *)
LEMMA InitialTablesAre == WellFormed(InitialTables)
<1> DEFINE keys == {ImportedKey(id[1], id[3]) : id \in ImportedIds}
           at   == [key \in keys |-> CHOOSE id \in ImportedIds : ImportedKey(id[1], id[3]) = key]
           refs == [id \in ImportedIds |-> PlainRef(Imported[id[1]][id[3]].kind)]
<1>1. ASSUME NEW key \in keys
      PROVE  /\ key = <<key[1], key[2], key[3]>>
             /\ at[key] \in ImportedIds /\ at[key][1] = key[1]
  <2>1. \A g, k : /\ ImportedKey(g, k)[1] = g
                  /\ ImportedKey(g, k) = <<ImportedKey(g, k)[1], ImportedKey(g, k)[2], ImportedKey(g, k)[3]>>
    BY DEF ImportedKey
  <2>2. PICK id \in ImportedIds : ImportedKey(id[1], id[3]) = key
    OBVIOUS
  <2>3. at[key] \in ImportedIds /\ ImportedKey(at[key][1], at[key][3]) = key
    <3>1. at[key] = CHOOSE other \in ImportedIds : ImportedKey(other[1], other[3]) = key
      OBVIOUS
    <3> HIDE DEF at
    <3> QED
      BY <2>2, <3>1
  <2> QED
    BY <2>1, <2>2, <2>3
<1>2. \A id \in ImportedIds : IsRef(refs[id])
  BY NewRefs
<1>3. InitialTables = [at |-> at, refs |-> refs, outcome |-> "ok"]
  BY DEF InitialTables
<1>4. DOMAIN at = keys /\ DOMAIN refs = ImportedIds
      /\ at = [key \in keys |-> at[key]] /\ refs = [id \in ImportedIds |-> refs[id]]
  OBVIOUS
<1> HIDE DEF at, refs, keys
<1> QED
  BY <1>1, <1>2, <1>3, <1>4 DEF WellFormed

(* An entry gets other values. *)
LEMMA UpdateKeeps ==
  ASSUME NEW t, WellFormed(t), NEW id, NEW r, IsRef(r)
  PROVE  LET u == [t EXCEPT !.refs[id] = r]
         IN  /\ WellFormed(u) /\ u.at = t.at /\ u.outcome = t.outcome
             /\ \A q \in DOMAIN t.refs : q # id => u.refs[q] = t.refs[q]
<1> DEFINE refs == [t.refs EXCEPT ![id] = r]
           u == [t EXCEPT !.refs[id] = r]
<1>1. /\ DOMAIN refs = DOMAIN t.refs /\ refs = [q \in DOMAIN t.refs |-> refs[q]]
      /\ \A q \in DOMAIN t.refs : refs[q] = IF q = id THEN r ELSE t.refs[q]
  OBVIOUS
<1>2. u = [t EXCEPT !.refs = refs]
  OBVIOUS
<1> HIDE DEF refs, u
<1>3. u = [at |-> t.at, refs |-> refs, outcome |-> t.outcome]
  BY <1>2 DEF WellFormed
<1>4. WellFormed(u)
  BY <1>1, <1>3 DEF WellFormed
<1> QED
  BY <1>1, <1>3, <1>4 DEF u
-----------------------------------------------------------------------------
(* The parts of the inductive invariant. *)
StateInv ==
  /\ style \in {"posix", "go"} /\ args \in ArgLists
  /\ pc \in {"start", "begin", "args", "import", "fill"} \cup Final
  /\ passes \in 0..MaxConfigures
  /\ h \in Handlers /\ selected \in Handlers
  /\ i \in 1..(Len(args) + 1)
  /\ parsed \subseteq Handlers /\ helped \subseteq Handlers
  /\ requests \in Seq(Handlers) /\ todo \in Seq(AllFields)
  /\ remainder = [g \in Handlers |-> remainder[g]]
  /\ DOMAIN result = AllFields

(* The names that mapRE knows are those of map flags of the handler. *)
PreferenceInv ==
  pc = "args" =>
    \A n \in DOMAIN preference : n \in Nat /\ <<h, "map", preference[n]>> \in DOMAIN tables.at

(* A cluster is taken apart at an argument that is there. *)
ClusterInv ==
  pending # <<>> => pc \in {"args", "error"} /\ i <= Len(args) /\ IsSeq(pending)

(* While parsing, the arguments that became something are those before i,  *)
(* and the one at i, too, while its cluster is taken apart.                *)
RoleInv ==
  /\ role = [p \in DOMAIN args |-> role[p]]
  /\ pc \in {"begin", "args"} =>
       \A p \in DOMAIN args :
         role[p] = "none" <=> IF pending = <<>> THEN p >= i ELSE p > i

IInv ==
  /\ StateInv /\ WellFormed(tables) /\ PreferenceInv /\ ClusterInv /\ RoleInv
  /\ EveryArgumentOnce
-----------------------------------------------------------------------------
(* What a command line is.                                                 *)
LEMMA ArgsAre ==
  ASSUME args \in ArgLists
  PROVE  /\ Len(args) \in Nat /\ DOMAIN args = 1..Len(args) /\ IsSeq(args)
         /\ \A p \in DOMAIN args :
              /\ args[p] = [dashes |-> args[p].dashes, name |-> args[p].name,
                            eq |-> args[p].eq, value |-> args[p].value]
              /\ args[p].dashes \in 0..2 /\ IsSeq(args[p].name) /\ args[p].eq \in BOOLEAN
              /\ ~args[p].eq => args[p].value = Absent
<1>1. IsSeq(args) /\ \A arg \in Range(args) :
         /\ arg = [dashes |-> arg.dashes, name |-> arg.name, eq |-> arg.eq, value |-> arg.value]
         /\ arg.dashes \in 0..2 /\ IsSeq(arg.name) /\ arg.eq \in BOOLEAN
         /\ ~arg.eq => arg.value = Absent
  BY InputAssumption DEF IsSeq
<1>2. \A p \in DOMAIN args : args[p] \in Range(args)
  BY DEF Range
<1>3. Len(args) \in Nat /\ DOMAIN args = 1..Len(args)
  BY <1>1 DEF IsSeq
<1> QED
  BY <1>1, <1>2, <1>3

(* The rest of a cluster.                                                  *)
LEMMA TailIsSeq ==
  ASSUME NEW s, IsSeq(s), s # <<>>
  PROVE  /\ Len(s) \in Nat /\ IsSeq(Tail(s)) /\ Head(s) \in Range(s)
         /\ Tail(s) = <<>> <=> Len(s) = 1
<1>1. s \in Seq(Range(s))
  BY DEF IsSeq
<1>2. /\ Tail(s) \in Seq(Range(s)) /\ Len(Tail(s)) = Len(s) - 1
      /\ Len(s) \in Nat /\ Len(s) # 0 /\ Head(s) \in Range(s)
  BY <1>1
<1> DEFINE t == Tail(s)
<1> HIDE DEF t
<1>3. t \in Seq(Range(s)) => (t = <<>> <=> Len(t) = 0)
  BY EmptySeq
<1>4. IsSeq(Tail(s))
  BY <1>2, SeqIsSeq
<1> QED
  BY <1>2, <1>3, <1>4 DEF t

(* Small facts about the operators of the loop.                            *)
LEMMA ArityIs ==
  ASSUME NEW r, IsRef(r)
  PROVE  Arity(r) \in Nat
BY DEF Arity, IsRef

LEMMA SkipsAre ==
  ASSUME NEW name, NEW j
  PROVE  /\ Skips(name, j) \in {0, 1}
         /\ Skips(name, j) = 1 => j + 1 <= Len(args)
BY DEF Skips

LEMMA FollowingIs ==
  ASSUME args \in ArgLists, i \in Nat, NEW n \in Nat, i + n <= Len(args)
  PROVE  IsSeq(Following(n))
<1>1. IsSeq(args) /\ Len(args) \in Nat
  BY ArgsAre
<1>2. i + 1 \in Nat \ {0} /\ i + n \in Nat
  OBVIOUS
<1> QED
  BY <1>1, <1>2, PartIsSeq DEF Following

(* Fill ends with a value, a usage error or a panic.                       *)
LEMMA FillErrors ==
  ASSUME NEW ref, NEW f
  PROVE  FillFrom(ref, f).error \in {"none", "usage", "panic"}
<1>1. \A v : Filled(v).error = "none"
  BY DEF Filled
<1>2. \A e : Failed(e).error = e
  BY DEF Failed
<1>3. Unfilled.error = "none"
  BY DEF Unfilled
<1> QED
  BY <1>1, <1>2, <1>3 DEF FillFrom
-----------------------------------------------------------------------------
(* What the moves of the loop have in common. *)
(* Parsing ends with an error, or with the usage.                          *)
LEMMA StopKeeps ==
  ASSUME IInv, NEW how \in {"error", "usage"}, how = "usage" => pending = <<>>, Stop(how)
  PROVE  IInv'
<1>1. StateInv'
  BY DEF IInv, StateInv, Stop, setup, outcome, Final, AllFields, Handlers
<1>2. WellFormed(tables)'
  BY DEF IInv, Stop
<1>3. PreferenceInv' /\ ClusterInv' /\ RoleInv'
  BY DEF IInv, PreferenceInv, ClusterInv, RoleInv, Stop, setup
<1>4. EveryArgumentOnce'
  BY DEF IInv, EveryArgumentOnce, ParseEnded, Stop, setup
<1> QED
  BY <1>1, <1>2, <1>3, <1>4 DEF IInv

(* The loop goes on behind the flag, its arguments and a skipped one.      *)
LEMMA AdvanceKeeps ==
  ASSUME IInv, pc = "args", pending = <<>>, i <= Len(args),
         NEW n \in Nat, NEW s \in {0, 1}, i + n <= Len(args),
         s = 1 => i + n + 1 <= Len(args),
         Advance(n, s), WellFormed(tables'), DOMAIN tables'.at = DOMAIN tables.at,
         UNCHANGED <<todo, result>>
  PROVE  IInv'
<1> USE DEF Advance, setup, outcome
<1>1. Len(args) \in Nat /\ DOMAIN args = 1..Len(args)
  BY ArgsAre DEF IInv, StateInv
<1>2. i \in Nat /\ i >= 1 /\ i' = i + n + s + 1 /\ i' \in 1..(Len(args) + 1)
  BY <1>1 DEF IInv, StateInv
<1>3. StateInv'
  BY <1>2 DEF IInv, StateInv, Final, AllFields, Handlers
<1>4. PreferenceInv' /\ ClusterInv'
  BY DEF IInv, PreferenceInv, ClusterInv
<1>5. /\ DOMAIN role = 1..Len(args)
      /\ \A p \in 1..Len(args) : role[p] = "none" <=> p >= i
  BY <1>1 DEF IInv, RoleInv
<1>6. \A p \in 1..Len(args) :
        role'[p] = IF p = i THEN "flag"
                   ELSE IF p \in (i + 1)..(i + n) THEN "value"
                   ELSE IF p \in (i + n + 1)..(i + n + s) THEN "skipped"
                   ELSE role[p]
  BY <1>5
<1>7. role' = [p \in DOMAIN args |-> role'[p]]
  BY <1>1, <1>5
<1>8. RoleInv'
  <2>1. \A p \in 1..Len(args) : role'[p] = "none" <=> p >= i'
    <3> TAKE p \in 1..Len(args)
    <3>1. p < i => role'[p] = role[p]
      BY <1>2, <1>6
    <3>2. p >= i /\ p < i' => role'[p] \in {"flag", "value", "skipped"}
      BY <1>2, <1>6
    <3>3. p >= i' => role'[p] = role[p]
      BY <1>2, <1>6
    <3> QED
      BY <1>2, <1>5, <3>1, <3>2, <3>3
  <2> QED
    BY <1>1, <1>7, <2>1 DEF RoleInv
<1>9. EveryArgumentOnce'
  BY DEF EveryArgumentOnce, ParseEnded
<1> QED
  BY <1>3, <1>4, <1>8, <1>9 DEF IInv

(* The next flag of the cluster.                                           *)
LEMMA AdvanceInClusterKeeps ==
  ASSUME IInv, InCluster, NEW n \in Nat, i + n <= Len(args), AdvanceInCluster(n),
         WellFormed(tables'), DOMAIN tables'.at = DOMAIN tables.at
  PROVE  IInv'
<1> USE DEF AdvanceInCluster, setup, outcome
<1>1. Len(args) \in Nat /\ DOMAIN args = 1..Len(args)
  BY ArgsAre DEF IInv, StateInv
<1>2. pc = "args" /\ pending # <<>> /\ IsSeq(pending)
  BY DEF IInv, ClusterInv, InCluster
<1>3. /\ Len(pending) \in Nat /\ IsSeq(Tail(pending))
      /\ Tail(pending) = <<>> <=> Len(pending) = 1
  BY <1>2, TailIsSeq
<1>4. /\ i \in Nat /\ i >= 1 /\ i' \in 1..(Len(args) + 1)
      /\ i' = IF pending' = <<>> THEN i + n + 1 ELSE i + n
  <2>1. i \in 1..(Len(args) + 1)
    BY DEF IInv, StateInv
  <2>2. i' = i + n + (IF Len(pending) = 1 THEN 1 ELSE 0) /\ pending' = Tail(pending)
    OBVIOUS
  <2> HIDE DEF AdvanceInCluster, setup, outcome
  <2>3. i' = IF pending' = <<>> THEN i + n + 1 ELSE i + n
    BY <1>3, <2>1, <2>2
  <2> QED
    BY <1>1, <2>1, <2>3
<1>5. StateInv'
  <2>1. StateInv
    BY DEF IInv
  <2>2. UNCHANGED <<style, args, pc, passes, h, selected, parsed, helped, requests, todo,
                    remainder, result>>
    OBVIOUS
  <2>3. i' \in 1..(Len(args') + 1)
    BY <1>4, <2>2
  <2> HIDE DEF AdvanceInCluster
  <2> QED
    BY <2>1, <2>2, <2>3 DEF StateInv, Final, AllFields, Handlers
<1>6. PreferenceInv'
  BY DEF IInv, PreferenceInv
<1>7. ClusterInv'
  BY <1>2, <1>3, <1>4 DEF ClusterInv
<1>8. /\ DOMAIN role = 1..Len(args)
      /\ \A p \in 1..Len(args) : role[p] = "none" <=> p > i
  BY <1>1, <1>2 DEF IInv, RoleInv
<1>9. \A p \in 1..Len(args) :
        role'[p] = IF p \in (i + 1)..(i + n) THEN "value" ELSE role[p]
  BY <1>8
<1>10. RoleInv'
  <2>1. \A p \in 1..Len(args) : role'[p] = "none" <=> p > i + n
    <3> TAKE p \in 1..Len(args)
    <3>1. p <= i => role'[p] = role[p]
      BY <1>4, <1>9
    <3>2. p > i /\ p <= i + n => role'[p] = "value"
      BY <1>4, <1>9
    <3>3. p > i + n => role'[p] = role[p]
      BY <1>4, <1>9
    <3> QED
      BY <1>4, <1>8, <3>1, <3>2, <3>3
  <2>2. \A p \in 1..Len(args) :
          role'[p] = "none" <=> IF pending' = <<>> THEN p >= i' ELSE p > i'
    BY <1>4, <2>1
  <2>3. role' = [p \in DOMAIN args |-> role'[p]]
    BY <1>1, <1>8
  <2> QED
    BY <1>1, <2>2, <2>3 DEF RoleInv
<1>11. EveryArgumentOnce'
  BY <1>2 DEF EveryArgumentOnce, ParseEnded
<1> QED
  BY <1>5, <1>6, <1>7, <1>10, <1>11 DEF IInv

(* Noting what became of the argument at i. *)
LEMMA MarkKeeps ==
  ASSUME IInv, pc = "args", pending = <<>>, i <= Len(args), NEW what, what # "none",
         role' = [role EXCEPT ![i] = what], UNCHANGED args
  PROVE  /\ role' = [p \in DOMAIN args |-> role'[p]]
         /\ \A p \in DOMAIN args : role'[p] = "none" <=> p > i
<1>1. Len(args) \in Nat /\ DOMAIN args = 1..Len(args) /\ i \in 1..Len(args)
  BY ArgsAre DEF IInv, StateInv
<1>2. /\ DOMAIN role = 1..Len(args)
      /\ \A p \in 1..Len(args) : role[p] = "none" <=> p >= i
  BY <1>1 DEF IInv, RoleInv
<1>3. /\ role' = [p \in DOMAIN args |-> role'[p]]
      /\ \A p \in 1..Len(args) : role'[p] = IF p = i THEN what ELSE role[p]
  BY <1>1, <1>2
<1>4. \A p \in DOMAIN args : role'[p] = "none" <=> p > i
  BY <1>1, <1>2, <1>3
<1> QED
  BY <1>3, <1>4

(* The loop ends; the arguments from j on are left. *)
LEMMA FinishKeeps ==
  ASSUME IInv, pc = "args", pending = <<>>, NEW j \in 1..(Len(args) + 1),
         Finish(SubSeq(args, j, Len(args))),
         role' = [p \in DOMAIN args |-> role'[p]],
         \A p \in DOMAIN args : role'[p] = "none" <=> p >= j
  PROVE  IInv'
<1> DEFINE rest == SubSeq(args, j, Len(args))
<1>1. Len(args) \in Nat /\ DOMAIN args = 1..Len(args) /\ IsSeq(args)
  BY ArgsAre DEF IInv, StateInv
<1>2. Len(rest) = Len(args) - j + 1
  <2>1. j \in Nat \ {0} /\ Len(args) <= Len(args)
    BY <1>1
  <2>2. Len(rest) = IF j <= Len(args) THEN Len(args) - j + 1 ELSE 0
    BY <1>1, <2>1, PartIsSeq
  <2> QED
    BY <1>1, <2>2
<1>3. /\ pc' \in {"error", "usage", "import"}
      /\ remainder' = [remainder EXCEPT ![h] = rest] \/ remainder' = remainder
      /\ pc' = "import" => remainder' = [remainder EXCEPT ![h] = rest]
      /\ UNCHANGED <<setup, passes, h, i, pending, tables, requests, selected, parsed,
                 helped, preference, outcome, earlier>>
  BY DEF Finish
<1> HIDE DEF rest
<1> USE DEF setup, outcome
<1>4. h \in Handlers /\ remainder = [g \in Handlers |-> remainder[g]]
  BY DEF IInv, StateInv
<1>5. remainder' = [g \in Handlers |-> remainder'[g]]
  BY <1>3, <1>4
<1>6. StateInv'
  BY <1>3, <1>5 DEF IInv, StateInv, Final, AllFields, Handlers
<1>7. WellFormed(tables)' /\ PreferenceInv' /\ ClusterInv' /\ RoleInv'
  BY <1>3 DEF IInv, PreferenceInv, ClusterInv, RoleInv
<1>8. EveryArgumentOnce'
  <2> SUFFICES ASSUME pc' = "import"
               PROVE  LET left == Len(args) - Len(remainder'[h])
                      IN  /\ remainder'[h] = SubSeq(args, left + 1, Len(args))
                          /\ \A p \in DOMAIN args : role'[p] = "none" <=> p > left
    BY <1>3 DEF EveryArgumentOnce, ParseEnded
  <2>1. remainder'[h] = rest
    BY <1>3, <1>4
  <2>2. Len(args) - Len(rest) = j - 1 /\ j - 1 + 1 = j
    BY <1>1, <1>2
  <2>3. \A p \in 1..Len(args) : p >= j <=> p > j - 1
    BY <1>1
  <2> QED
    BY <1>1, <2>1, <2>2, <2>3 DEF rest
<1> QED
  BY <1>6, <1>7, <1>8 DEF IInv

(* Two sequences, one behind the other.                                    *)
LEMMA ConcatMembers ==
  ASSUME NEW S, NEW s, NEW t, s \in Seq(S), t \in Seq(S)
  PROVE  s \o t \in Seq(S) /\ ToSet(s \o t) = ToSet(s) \cup ToSet(t)
<1> DEFINE u == s \o t
<1>1. /\ u \in Seq(S) /\ Len(u) = Len(s) + Len(t)
      /\ \A j \in 1..Len(s) : u[j] = s[j]
      /\ \A j \in 1..Len(t) : u[Len(s) + j] = t[j]
  BY ConcatProperties
<1>2. Len(s) \in Nat /\ Len(t) \in Nat
  OBVIOUS
<1>3. DOMAIN s = 1..Len(s) /\ DOMAIN t = 1..Len(t)
  OBVIOUS
<1> HIDE DEF u
<1>4. DOMAIN u = 1..Len(u)
  BY <1>1
<1>5. ToSet(u) \subseteq ToSet(s) \cup ToSet(t)
  <2> SUFFICES ASSUME NEW j \in 1..Len(u) PROVE u[j] \in ToSet(s) \cup ToSet(t)
    BY <1>4 DEF ToSet
  <2>1. CASE j <= Len(s)
    <3>1. j \in 1..Len(s)
      BY <1>2, <2>1
    <3> QED
      BY <1>1, <1>3, <3>1 DEF ToSet
  <2>2. CASE j > Len(s)
    <3> DEFINE l == j - Len(s)
    <3>1. l \in 1..Len(t) /\ Len(s) + l = j
      BY <1>1, <1>2, <2>2
    <3> HIDE DEF l
    <3>2. u[j] = t[l]
      BY <1>1, <3>1
    <3> QED
      BY <1>3, <3>1, <3>2 DEF ToSet
  <2> QED
    BY <1>1, <1>2, <2>1, <2>2
<1>6. ToSet(s) \subseteq ToSet(u)
  <2>1. \A j \in 1..Len(s) : j \in 1..Len(u)
    BY <1>1, <1>2
  <2> QED
    BY <1>1, <1>3, <1>4, <2>1 DEF ToSet
<1>7. ToSet(t) \subseteq ToSet(u)
  <2>1. \A j \in 1..Len(t) : Len(s) + j \in 1..Len(u)
    BY <1>1, <1>2
  <2> QED
    BY <1>1, <1>3, <1>4, <2>1 DEF ToSet
<1> QED
  BY <1>1, <1>5, <1>6, <1>7 DEF u

(* The fields to fill are all fields of the models that were requested.    *)
FieldsOf(G) == UNION {{<<g, k>> : k \in DOMAIN Fields[g]} : g \in G}

LEMMA FieldsAre ==
  ASSUME NEW gs \in Seq(Handlers)
  PROVE  LET all == FoldLeft(LAMBDA fields, g : fields \o [k \in DOMAIN Fields[g] |-> <<g, k>>],
                             <<>>, gs)
         IN  all \in Seq(AllFields) /\ ToSet(all) = FieldsOf(ToSet(gs))
<1> DEFINE Val == Seq(AllFields)
           n == Len(gs)
           D == 1..n
           rest == [s \in SUBSET D |-> s \ {Max(s)}]
           Of(g) == [k \in DOMAIN Fields[g] |-> <<g, k>>]
           none == <<>>
           Is(f) == f = [s \in SUBSET (1..n) |->
                           IF s = {} THEN none ELSE f[s \ {Max(s)}] \o Of(gs[Max(s)])]
           f == CHOOSE f : Is(f)
           op == [p \in Val \X (1..n) |-> p[1] \o Of(gs[p[2]])]
<1>1. n \in Nat /\ DOMAIN gs = 1..n /\ \A j \in 1..n : gs[j] \in Handlers
  OBVIOUS
<1>2. \A g \in Handlers : Of(g) \in Val /\ ToSet(Of(g)) = {<<g, k>> : k \in DOMAIN Fields[g]}
  <2> TAKE g \in Handlers
  <2>1. DOMAIN Fields[g] = 1..Len(Fields[g]) /\ Len(Fields[g]) \in Nat
    BY FieldAssumption
  <2>2. \A k \in DOMAIN Fields[g] : <<g, k>> \in AllFields
    BY DEF AllFields
  <2>3. Of(g) \in Val
    BY <2>1, <2>2, IsASeq
  <2>4. ToSet(Of(g)) = {<<g, k>> : k \in DOMAIN Fields[g]}
    BY DEF ToSet
  <2> QED
    BY <2>3, <2>4
<1>3. \A s \in SUBSET (1..n) : s # {} => Max(s) \in s
  BY <1>1, MaxIsMember
<1>4. none \in Val /\ ToSet(none) = {}
  BY EmptySeq DEF ToSet
<1> HIDE DEF none, Of
<1>5. \E e : Is(e)
  <2>1. op \in [Val \X (1..n) -> Val]
    <3>1. \A u \in Val : \A j \in 1..n : u \o Of(gs[j]) \in Val
      <4> TAKE u \in Val
      <4> TAKE j \in 1..n
      <4>1. Of(gs[j]) \in Val
        BY <1>1, <1>2
      <4> DEFINE t == Of(gs[j])
      <4> HIDE DEF t
      <4>2. u \in Seq(AllFields) /\ (t \in Seq(AllFields) => u \o t \in Seq(AllFields))
        BY ConcatMembers
      <4> QED
        BY <4>1, <4>2 DEF t
    <3> HIDE DEF Val, n
    <3> QED
      BY <3>1
  <2> HIDE DEF Val, n, op
  <2>2. PICK e \in [SUBSET (1..n) -> Val] : Folds(e, n, none, op)
    BY <1>1, <1>4, <2>1, FoldExists
  <2>3. \A s \in SUBSET (1..n) : s # {} =>
          op[<<e[s \ {Max(s)}], Max(s)>>] = e[s \ {Max(s)}] \o Of(gs[Max(s)])
    <3> TAKE s \in SUBSET (1..n)
    <3> HAVE s # {}
    <3>1. e[s \ {Max(s)}] \in Val /\ Max(s) \in 1..n
      BY <1>3
    <3> QED
      BY <3>1 DEF op
  <2>4. e = [s \in SUBSET (1..n) |-> IF s = {} THEN none
                                     ELSE e[s \ {Max(s)}] \o Of(gs[Max(s)])]
    BY <2>2, <2>3 DEF Folds
  <2> QED
    BY <2>4
<1>6. Is(f)
  <2> HIDE DEF n
  <2> QED
    BY <1>5
<1>7. FoldLeft(LAMBDA fields, g : fields \o [k \in DOMAIN Fields[g] |-> <<g, k>>], <<>>, gs)
        = f[1..n]
  <2> HIDE DEF n
  <2> QED
    BY <1>1 DEF FoldLeft, MapThenFoldSet, f, Of, none
<1> HIDE DEF f
<1> DEFINE Good == {s \in SUBSET D : f[s] \in Val /\ ToSet(f[s]) = FieldsOf({gs[j] : j \in s})}
<1> HIDE DEF n
<1>8. {} \in Good
  <2>1. f[{}] = none
    BY <1>6
  <2>2. FieldsOf({gs[j] : j \in {}}) = {}
    BY DEF FieldsOf
  <2> HIDE DEF Val
  <2> QED
    BY <1>4, <2>1, <2>2
<1>9. \A s \in SUBSET D : s # {} /\ rest[s] \in Good => s \in Good
  <2> TAKE s \in SUBSET D
  <2> HAVE s # {} /\ rest[s] \in Good
  <2> DEFINE j == Max(s)
             u == f[rest[s]]
             t == Of(gs[j])
  <2>1. u \in Val /\ ToSet(u) = FieldsOf({gs[m] : m \in rest[s]})
    OBVIOUS
  <2>2. j \in s /\ gs[j] \in Handlers /\ rest[s] = s \ {j} /\ s \in SUBSET D
    BY <1>1, <1>3
  <2>3. f[s] = u \o t
    BY <1>6
  <2>4. FieldsOf({gs[m] : m \in s}) =
          FieldsOf({gs[m] : m \in rest[s]}) \cup {<<gs[j], k>> : k \in DOMAIN Fields[gs[j]]}
    <3> DEFINE A == {gs[m] : m \in rest[s]}
               x == gs[j]
    <3>1. {gs[m] : m \in s} = A \cup {x}
      BY <2>2
    <3> HIDE DEF A, x
    <3>2. FieldsOf(A \cup {x}) = FieldsOf(A) \cup {<<x, k>> : k \in DOMAIN Fields[x]}
      BY DEF FieldsOf
    <3> QED
      BY <3>1, <3>2 DEF A, x
  <2>5. t \in Val /\ ToSet(t) = {<<gs[j], k>> : k \in DOMAIN Fields[gs[j]]}
    BY <1>2, <2>2
  <2> HIDE DEF j, u, t, rest, D
  <2>6. u \o t \in Val /\ ToSet(u \o t) = ToSet(u) \cup ToSet(t)
    <3>1. u \in Seq(AllFields) /\ t \in Seq(AllFields)
      BY <2>1, <2>5
    <3> HIDE DEF Val
    <3>2. u \o t \in Seq(AllFields) /\ ToSet(u \o t) = ToSet(u) \cup ToSet(t)
      BY <3>1, ConcatMembers
    <3> QED
      BY <3>2 DEF Val
  <2> HIDE DEF Val
  <2> QED
    BY <2>1, <2>2, <2>3, <2>4, <2>5, <2>6
<1>10. IsFiniteSet(D) /\ Shrinks(rest, D)
  <2>1. IsFiniteSet(D)
    <3> HIDE DEF Val
    <3> QED
      BY <1>1, FS_Interval
  <2>2. Shrinks(rest, D)
    BY <1>1, DroppingMaxShrinks
  <2> QED
    BY <2>1, <2>2
<1>11. D \in SUBSET D
  OBVIOUS
<1> HIDE DEF Good, rest, D
<1>12. SUBSET D \subseteq Good
  BY <1>8, <1>9, <1>10, EverySubset
<1>13. f[1..n] \in Val /\ ToSet(f[1..n]) = FieldsOf({gs[j] : j \in 1..n})
  BY <1>11, <1>12 DEF Good, D
<1>14. {gs[j] : j \in 1..n} = ToSet(gs)
  BY <1>1 DEF ToSet
<1> QED
  BY <1>7, <1>13, <1>14
-----------------------------------------------------------------------------
(* The handler before the first call of Configure.                         *)
LEMMA InitInv == Init => IInv
<1> SUFFICES ASSUME Init PROVE IInv
  OBVIOUS
<1> USE DEF Init
<1>1. Len(args) \in Nat /\ DOMAIN args = 1..Len(args)
  BY ArgsAre
<1>2. Root \in Handlers /\ 1 \in 1..(Len(args) + 1)
  BY <1>1 DEF Handlers
<1>3. style \in {"posix", "go"} /\ 0 \in 0..MaxConfigures
  BY InputAssumption
<1>4. requests \in Seq(Handlers) /\ todo \in Seq(AllFields)
  BY <1>2, EmptySeq
<1>5. StateInv
  BY <1>2, <1>3, <1>4 DEF StateInv
<1>6. WellFormed(tables)
  BY InitialTablesAre
<1>7. PreferenceInv /\ ClusterInv /\ RoleInv /\ EveryArgumentOnce
  BY DEF PreferenceInv, ClusterInv, RoleInv, EveryArgumentOnce, ParseEnded
<1> QED
  BY <1>5, <1>6, <1>7 DEF IInv

(* A pass begins with every argument still to come.                        *)
LEMMA ConfigureKeeps ==
  ASSUME IInv, Configure
  PROVE  IInv'
<1> USE DEF Configure, setup
<1>1. Len(args) \in Nat /\ DOMAIN args = 1..Len(args)
  BY ArgsAre DEF IInv, StateInv
<1> DEFINE fresh == [tables EXCEPT !.outcome = "ok"]
<1>2. WellFormed(tables')
  <2>1. WellFormed(fresh)
    BY OutcomeKeeps DEF IInv
  <2>2. requests \in Seq(Handlers) /\ tables' = WalkRequests(fresh, requests)
    BY DEF IInv, StateInv
  <2> HIDE DEF fresh
  <2> QED
    BY <2>1, <2>2, WalksKeep
<1> HIDE DEF fresh
<1>3. pc' \in {"begin", "error", "panic"}
  BY <1>2 DEF WellFormed, Walked
<1>4. passes' \in 0..MaxConfigures
  BY InputAssumption DEF IInv, StateInv
<1>5. Root \in Handlers /\ 1 \in 1..(Len(args) + 1)
  BY <1>1 DEF Handlers
<1>6. DOMAIN result' = AllFields /\ AllFields' = AllFields
  BY DEF AllFields, Handlers
<1>7. pending' = <<>> /\ todo' \in Seq(AllFields)
  BY EmptySeq
<1>8. StateInv'
  BY <1>3, <1>4, <1>5, <1>6, <1>7 DEF IInv, StateInv, Final, Handlers, AllFields
<1>9. role' = [p \in DOMAIN args |-> "none"]
  OBVIOUS
<1>10. PreferenceInv' /\ ClusterInv'
  BY <1>3, <1>7 DEF PreferenceInv, ClusterInv
<1>11. RoleInv'
  <2>1. \A p \in DOMAIN args : role'[p] = "none" /\ p >= 1
    BY <1>1, <1>9
  <2> QED
    BY <1>7, <1>9, <2>1 DEF RoleInv
<1>12. EveryArgumentOnce'
  BY <1>3, <1>9 DEF EveryArgumentOnce, ParseEnded
<1> QED
  BY <1>2, <1>8, <1>10, <1>11, <1>12 DEF IInv

(* clearParse of the whole table.                                          *)
LEMMA ForgetKeeps ==
  ASSUME NEW refs, NEW cleared, \A id \in DOMAIN refs : IsRef(refs[id])
  PROVE  /\ DOMAIN Forget(refs, cleared) = DOMAIN refs
         /\ \A id \in DOMAIN refs : IsRef(Forget(refs, cleared)[id])
         /\ Forget(refs, cleared) = [id \in DOMAIN refs |-> Forget(refs, cleared)[id]]
BY ClearedKeeps DEF Forget

(* The preparations add --help and forget values.                          *)
LEMMA BeginTablesAre ==
  ASSUME IInv, Begin
  PROVE  WellFormed(tables') /\ DOMAIN tables.at \subseteq DOMAIN tables'.at
<1> DEFINE kept  == IF h \in parsed THEN Forget(tables.refs, ClearedBy(h)) ELSE tables.refs
           added == GetHelp(h)
           keys  == {HelpKey(g) : g \in added}
           ids   == {HelpId(g) : g \in added}
           at   == [key \in DOMAIN tables.at \cup keys |->
                      IF key \in DOMAIN tables.at THEN tables.at[key] ELSE HelpId(key[1])]
           refs == [id \in DOMAIN kept \cup ids |->
                      IF id \in DOMAIN kept THEN kept[id] ELSE PlainRef("bool")]
<1>1. WellFormed(tables)
  BY DEF IInv
<1>2. /\ DOMAIN kept = DOMAIN tables.refs /\ \A id \in DOMAIN kept : IsRef(kept[id])
      /\ kept = [id \in DOMAIN kept |-> kept[id]]
  BY <1>1, ForgetKeeps DEF WellFormed
<1> HIDE DEF kept, added
<1>3. tables' = [tables EXCEPT !.refs = kept] \/ tables' = [tables EXCEPT !.at = at, !.refs = refs]
  BY DEF Begin, kept, added
<1>4. CASE tables' = [tables EXCEPT !.refs = kept]
  <2>1. tables' = [at |-> tables.at, refs |-> kept, outcome |-> tables.outcome]
    BY <1>1, <1>4 DEF WellFormed
  <2> QED
    BY <1>1, <1>2, <2>1 DEF WellFormed
<1>5. CASE tables' = [tables EXCEPT !.at = at, !.refs = refs]
  <2>1. \A key \in keys : /\ key = <<key[1], key[2], key[3]>>
                          /\ HelpId(key[1]) \in ids /\ HelpId(key[1])[1] = key[1]
    BY DEF HelpKey, HelpId
  <2>2. IsRef(PlainRef("bool"))
    BY NewRefs
  <2> HIDE DEF keys, ids
  <2>3. /\ DOMAIN at = DOMAIN tables.at \cup keys
        /\ at = [key \in DOMAIN at |-> at[key]]
        /\ \A key \in DOMAIN at :
             at[key] = IF key \in DOMAIN tables.at THEN tables.at[key] ELSE HelpId(key[1])
    OBVIOUS
  <2>4. /\ DOMAIN refs = DOMAIN kept \cup ids
        /\ refs = [id \in DOMAIN refs |-> refs[id]]
        /\ \A id \in DOMAIN refs :
             refs[id] = IF id \in DOMAIN kept THEN kept[id] ELSE PlainRef("bool")
    OBVIOUS
  <2> HIDE DEF at, refs
  <2>5. tables' = [at |-> at, refs |-> refs, outcome |-> tables.outcome]
    BY <1>1, <1>5 DEF WellFormed
  <2>6. \A key \in DOMAIN at :
          key = <<key[1], key[2], key[3]>> /\ at[key] \in DOMAIN refs /\ at[key][1] = key[1]
    BY <1>1, <1>2, <2>1, <2>3, <2>4 DEF WellFormed
  <2>7. \A id \in DOMAIN refs : IsRef(refs[id])
    BY <1>2, <2>2, <2>4
  <2> QED
    BY <1>1, <2>3, <2>4, <2>5, <2>6, <2>7 DEF WellFormed
<1> QED
  BY <1>3, <1>4, <1>5

LEMMA BeginKeeps ==
  ASSUME IInv, Begin
  PROVE  IInv'
<1> USE DEF setup, outcome
<1>1. WellFormed(tables') /\ DOMAIN tables.at \subseteq DOMAIN tables'.at
  BY BeginTablesAre
<1>2. /\ pc = "begin" /\ pc' \in {"args", "clash"}
      /\ parsed' = parsed \cup {h} /\ selected' \in {Root, selected}
      /\ helped' \in {helped, helped \cup GetHelp(h)}
      /\ pc' = "args" =>
           preference' \in {order \in [1..Cardinality(PrefixNames(h)) -> PrefixNames(h)] :
                              IsInjective(order)}
      /\ UNCHANGED <<setup, passes, h, i, pending, requests, remainder, outcome, earlier, role>>
  BY DEF Begin
<1>3. GetHelp(h) \subseteq Handlers
  BY DEF GetHelp, IInv, StateInv
<1>4. Root \in Handlers
  BY DEF Handlers
<1>5. StateInv'
  BY <1>2, <1>3, <1>4 DEF IInv, StateInv, Final, AllFields, Handlers
<1>6. PreferenceInv'
  <2> SUFFICES ASSUME pc' = "args", NEW n \in DOMAIN preference'
               PROVE  n \in Nat /\ <<h, "map", preference'[n]>> \in DOMAIN tables'.at
    BY <1>2 DEF PreferenceInv
  <2>1. n \in Nat /\ preference'[n] \in PrefixNames(h)
    BY <1>2
  <2>2. PICK key \in DOMAIN tables.at : key[1] = h /\ key[2] = "map" /\ preference'[n] = key[3]
    BY <2>1 DEF PrefixNames
  <2>3. key = <<h, "map", preference'[n]>>
    BY <2>2 DEF IInv, WellFormed
  <2> QED
    BY <1>1, <2>1, <2>2, <2>3
<1>7. ClusterInv' /\ RoleInv' /\ EveryArgumentOnce'
  BY <1>2 DEF IInv, ClusterInv, RoleInv, EveryArgumentOnce, ParseEnded
<1> QED
  BY <1>1, <1>5, <1>6, <1>7 DEF IInv
-----------------------------------------------------------------------------
(* The flags of the loop: each gives values to an entry of the handler h.  *)
LEMMA EntryIs ==
  ASSUME IInv, NEW key \in DOMAIN tables.at
  PROVE  /\ tables.at[key] \in DOMAIN tables.refs /\ tables.at[key][1] = key[1]
         /\ IsRef(tables.refs[tables.at[key]])
         /\ Arity(tables.refs[tables.at[key]]) \in Nat
BY ArityIs DEF IInv, WellFormed

(* The tables after a flag gave values to an entry.                        *)
LEMMA GivenKeeps ==
  ASSUME IInv, NEW id, NEW r, IsRef(r), Update(id, r)
  PROVE  /\ WellFormed(tables') /\ tables'.at = tables.at
         /\ \A q \in DOMAIN tables.refs : q # id => tables'.refs[q] = tables.refs[q]
<1> DEFINE u == [tables EXCEPT !.refs[id] = r]
<1>1. /\ WellFormed(u) /\ u.at = tables.at
      /\ \A q \in DOMAIN tables.refs : q # id => u.refs[q] = tables.refs[q]
  BY UpdateKeeps DEF IInv
<1>2. tables' = u
  BY DEF Update
<1> HIDE DEF u
<1> QED
  BY <1>1, <1>2

(* A flag with its arguments.                                              *)
LEMMA SuppliedIs ==
  ASSUME IInv, NEW r, IsRef(r), Supplied(r)
  PROVE  /\ Arity(r) \in Nat /\ i + Arity(r) <= Len(args)
         /\ \A dashed : IsRef(GiveFollowing(r, Following(Arity(r)), dashed))
<1> DEFINE n == Arity(r)
<1>1. n \in Nat /\ i + n <= Len(args) /\ args \in ArgLists /\ i \in Nat
  <2>1. Len(args) \in Nat
    BY ArgsAre DEF IInv, StateInv
  <2> QED
    BY <2>1, ArityIs DEF IInv, StateInv, Supplied
<1> HIDE DEF n
<1>2. IsSeq(Following(n))
  BY <1>1, FollowingIs
<1>3. \A dashed : IsRef(GiveFollowing(r, Following(n), dashed))
  BY <1>2, GiveFollowingKeeps
<1> QED
  BY <1>1, <1>3 DEF n

(* What a flag of the loop does to the tables: an entry of the handler     *)
(* that parses may get values, and nothing else changes.                   *)
OwnEntry ==
  /\ WellFormed(tables') /\ tables'.at = tables.at
  /\ \A q \in DOMAIN tables.refs : q[1] # h => tables'.refs[q] = tables.refs[q]

LEMMA LongFlagKeeps ==
  ASSUME IInv, LongFlag
  PROVE  IInv' /\ OwnEntry
<1> DEFINE key == LongKey(Arg.name)
           id  == tables.at[key]
           r   == tables.refs[id]
           n   == Arity(r)
           s   == SkipsAfterLong(i + n)
<1>1. /\ Parsing /\ key \in DOMAIN tables.at /\ Supplied(r)
      /\ Update(id, GiveFollowing(r, Following(n), Spelled(Arg))) /\ Advance(n, s)
  BY DEF LongFlag, LongRef, IsLongFlag
<1>2. id[1] = h /\ IsRef(r)
  BY <1>1, EntryIs DEF LongKey
<1> HIDE DEF key, id, r
<1>3. n \in Nat /\ i + n <= Len(args) /\ IsRef(GiveFollowing(r, Following(n), Spelled(Arg)))
  BY <1>2, <1>1, SuppliedIs
<1>4. OwnEntry
  <2> DEFINE given == GiveFollowing(r, Following(n), Spelled(Arg))
  <2> HIDE DEF given
  <2>1. Update(id, given) /\ IsRef(given)
    BY <1>1, <1>3 DEF given
  <2> QED
    BY <1>2, <2>1, GivenKeeps DEF OwnEntry
<1>5. s \in {0, 1} /\ (s = 1 => i + n + 1 <= Len(args))
  BY SkipsAre DEF SkipsAfterLong
<1>6. UNCHANGED <<todo, result>>
  BY <1>1 DEF Advance, outcome
<1> HIDE DEF n, s
<1> QED
  BY <1>1, <1>3, <1>4, <1>5, <1>6, AdvanceKeeps DEF Parsing, OwnEntry

LEMMA LongFlagWithValueKeeps ==
  ASSUME IInv, LongFlagWithValue
  PROVE  IInv' /\ OwnEntry
<1> DEFINE key == LongKey(Arg.name)
           id  == tables.at[key]
           r   == tables.refs[id]
           given == GiveValue(r, Arg.value, Spelled(Arg))
<1>1. Parsing /\ key \in DOMAIN tables.at /\ Update(id, given) /\ Advance(0, 0)
  BY DEF LongFlagWithValue, LongRef, IsLongFlag
<1>2. id[1] = h /\ IsRef(r)
  BY <1>1, EntryIs DEF LongKey
<1> HIDE DEF key, id, r
<1>3. IsRef(given)
  BY <1>2, GivesOne DEF GiveValue
<1> HIDE DEF given
<1>4. OwnEntry
  BY <1>1, <1>2, <1>3, GivenKeeps DEF OwnEntry
<1>5. UNCHANGED <<todo, result>> /\ i + 0 <= Len(args)
  BY <1>1, ArgsAre DEF Advance, outcome, Parsing, IInv, StateInv
<1> QED
  BY <1>1, <1>4, <1>5, AdvanceKeeps DEF Parsing, OwnEntry

LEMMA NegatedFlagKeeps ==
  ASSUME IInv, NegatedFlag
  PROVE  IInv' /\ OwnEntry
<1> DEFINE key == LongKey(Tail(Arg.name))
           id  == tables.at[key]
           r   == tables.refs[id]
           given == Give(r, <<No>>, Spelled(Arg))
           s   == SkipsAfterLong(i)
<1>1. Parsing /\ key \in DOMAIN tables.at /\ Update(id, given) /\ Advance(0, s)
  BY DEF NegatedFlag, IsNegated, LongRef, IsLongFlag
<1>2. id[1] = h /\ IsRef(r)
  BY <1>1, EntryIs DEF LongKey
<1> HIDE DEF key, id, r
<1>3. IsRef(given)
  BY <1>2, GivesOne
<1> HIDE DEF given
<1>4. OwnEntry
  BY <1>1, <1>2, <1>3, GivenKeeps DEF OwnEntry
<1>5. UNCHANGED <<todo, result>> /\ i + 0 <= Len(args) /\ i + 0 + 1 = i + 1
  BY <1>1, ArgsAre DEF Advance, outcome, Parsing, IInv, StateInv
<1>6. s \in {0, 1} /\ (s = 1 => i + 1 <= Len(args))
  BY SkipsAre DEF SkipsAfterLong
<1> HIDE DEF s
<1> QED
  BY <1>1, <1>4, <1>5, <1>6, AdvanceKeeps DEF Parsing, OwnEntry

(* A name that begins like a map flag belongs to one of the handler.       *)
LEMMA PrefixIs ==
  ASSUME IInv, pc = "args", NEW name, PrefixOf(name) # <<>>
  PROVE  <<h, "map", PrefixOf(name)>> \in DOMAIN tables.at
<1> DEFINE fits == {n \in DOMAIN preference : /\ Len(preference[n]) < Len(name)
                                              /\ IsPrefix(preference[n], name)}
<1>1. fits # {} /\ PrefixOf(name) = preference[Min(fits)]
  BY DEF PrefixOf
<1>2. fits \in SUBSET Nat /\ fits \subseteq DOMAIN preference
  BY DEF IInv, PreferenceInv
<1> HIDE DEF fits
<1>3. \E n \in fits : \A m \in fits : n <= m
  BY <1>1, <1>2, Least
<1>4. Min(fits) \in fits
  BY <1>3 DEF Min
<1> QED
  BY <1>1, <1>2, <1>4 DEF IInv, PreferenceInv

LEMMA PrefixedFlagKeeps ==
  ASSUME IInv, PrefixedFlag
  PROVE  IInv' /\ OwnEntry
<1> DEFINE n   == PrefixOf(Arg.name)
           key == <<h, "map", n>>
           id  == tables.at[key]
           r   == tables.refs[id]
           given == GivePrefixed(r, SubSeq(Arg.name, Len(n) + 1, Len(Arg.name)),
                                 Arg.value, <<Arg.dashes, n>>)
<1>1. Parsing /\ n # <<>> /\ Update(id, given) /\ Advance(0, 0)
  BY DEF PrefixedFlag
<1>2. key \in DOMAIN tables.at /\ key[1] = h
  BY <1>1, PrefixIs DEF Parsing
<1> HIDE DEF n, key
<1>3. id[1] = h /\ IsRef(r)
  BY <1>2, EntryIs
<1> HIDE DEF id, r
<1>4. IsRef(given)
  BY <1>3, GivePrefixedKeeps
<1> HIDE DEF given
<1>5. OwnEntry
  BY <1>1, <1>3, <1>4, GivenKeeps DEF OwnEntry
<1>6. UNCHANGED <<todo, result>> /\ i + 0 <= Len(args)
  BY <1>1, ArgsAre DEF Advance, outcome, Parsing, IInv, StateInv
<1> QED
  BY <1>1, <1>5, <1>6, AdvanceKeeps DEF Parsing, OwnEntry

LEMMA IgnoredKeeps ==
  ASSUME IInv, IgnoredLongFlag \/ IgnoredShortFlag
  PROVE  IInv' /\ OwnEntry
<1>1. PICK s : Parsing /\ Advance(0, s) /\ UNCHANGED tables
                 /\ s \in {0, 1} /\ (s = 1 => i + 1 <= Len(args))
  BY SkipsAre DEF IgnoredLongFlag, IgnoredShortFlag, SkipsAfterLong
<1>2. OwnEntry
  BY <1>1 DEF OwnEntry, IInv
<1>3. UNCHANGED <<todo, result>> /\ i + 0 <= Len(args) /\ i + 0 + 1 = i + 1
  BY <1>1, ArgsAre DEF Advance, outcome, Parsing, IInv, StateInv
<1> QED
  BY <1>1, <1>2, <1>3, AdvanceKeeps DEF Parsing, OwnEntry

LEMMA ShortFlagKeeps ==
  ASSUME IInv, ShortFlag
  PROVE  IInv' /\ OwnEntry
<1> DEFINE key == ShortKey(Arg.name[1])
           id  == tables.at[key]
           r   == tables.refs[id]
           n   == Arity(r)
           given == GiveFollowing(r, Following(n), Spelled(Arg))
<1>1. /\ Parsing /\ key \in DOMAIN tables.at /\ Supplied(r)
      /\ Update(id, given) /\ Advance(n, 0)
  BY DEF ShortFlag, IsShortFlag
<1>2. id[1] = h /\ IsRef(r)
  BY <1>1, EntryIs DEF ShortKey
<1> HIDE DEF key, id, r
<1>3. n \in Nat /\ i + n <= Len(args) /\ IsRef(given)
  BY <1>2, <1>1, SuppliedIs
<1> HIDE DEF n, given
<1>4. OwnEntry
  BY <1>1, <1>2, <1>3, GivenKeeps DEF OwnEntry
<1>5. UNCHANGED <<todo, result>>
  BY <1>1 DEF Advance, outcome
<1> QED
  BY <1>1, <1>3, <1>4, <1>5, AdvanceKeeps DEF Parsing, OwnEntry

LEMMA ClusterKeeps ==
  ASSUME IInv, Cluster
  PROVE  IInv' /\ OwnEntry
<1> USE DEF setup, outcome
<1>1. /\ pc = "args" /\ pending = <<>> /\ i <= Len(args) /\ IsShort(Arg)
      /\ pending' = IF Arg.eq THEN Append(Arg.name, "=") ELSE Arg.name
      /\ role' = [role EXCEPT ![i] = "flag"]
      /\ UNCHANGED <<setup, pc, passes, h, i, tables, requests, selected, parsed, helped,
                     preference, remainder, outcome, earlier>>
  BY DEF Cluster, Parsing
<1>2. /\ role' = [p \in DOMAIN args |-> role'[p]]
      /\ \A p \in DOMAIN args : role'[p] = "none" <=> p > i
  BY <1>1, MarkKeeps
<1>3. IsSeq(pending') /\ pending' # <<>>
  <2>1. i \in DOMAIN args
    BY <1>1, ArgsAre DEF IInv, StateInv
  <2>2. /\ Arg = [dashes |-> Arg.dashes, name |-> Arg.name, eq |-> Arg.eq, value |-> Arg.value]
        /\ IsSeq(Arg.name) /\ Arg.eq \in BOOLEAN /\ (~Arg.eq => Arg.value = Absent)
    BY <2>1, ArgsAre DEF Arg, IInv, StateInv
  <2>3. CASE Arg.eq
    <3> DEFINE S == Range(Arg.name) \cup {"="}
    <3>1. Arg.name \in Seq(S) /\ "=" \in S
      BY <2>2, SeqMonotonic DEF IsSeq
    <3> HIDE DEF S
    <3>2. Append(Arg.name, "=") \in Seq(S) /\ Append(Arg.name, "=") # <<>>
      BY <3>1, AppendProperties
    <3> QED
      BY <1>1, <2>3, <3>2, SeqIsSeq
  <2>4. CASE ~Arg.eq
    <3>1. Arg.name # <<>>
      <4> SUFFICES ASSUME Arg.name = <<>> PROVE FALSE
        OBVIOUS
      <4>1. Arg.dashes = 1 /\ Arg.value = Absent /\ Arg.eq = FALSE
        BY <1>1, <2>2, <2>4 DEF IsShort
      <4>2. Arg = Dash
        BY <2>2, <4>1 DEF Dash
      <4> QED
        BY <1>1, <4>2 DEF IsShort
    <3> QED
      BY <1>1, <2>2, <2>4, <3>1
  <2> QED
    BY <2>2, <2>3, <2>4
<1>4. StateInv'
  BY <1>1 DEF IInv, StateInv, Final, AllFields, Handlers
<1>5. WellFormed(tables)' /\ OwnEntry /\ PreferenceInv' /\ ClusterInv'
  BY <1>1, <1>3 DEF IInv, OwnEntry, PreferenceInv, ClusterInv
<1>6. RoleInv'
  BY <1>1, <1>2, <1>3 DEF RoleInv
<1>7. EveryArgumentOnce'
  BY <1>1 DEF EveryArgumentOnce, ParseEnded
<1> QED
  BY <1>2, <1>4, <1>5, <1>6, <1>7 DEF IInv

LEMMA ClusteredFlagKeeps ==
  ASSUME IInv, ClusteredFlag
  PROVE  IInv' /\ OwnEntry
<1> DEFINE key == ShortKey(Head(pending))
           id  == tables.at[key]
           r   == tables.refs[id]
           n   == Arity(r)
           given == GiveFollowing(r, Following(n), <<1, <<Head(pending)>>>>)
<1>1. /\ InCluster /\ key \in DOMAIN tables.at /\ Supplied(r)
      /\ Update(id, given) /\ AdvanceInCluster(n)
  BY DEF ClusteredFlag, IsShortFlag
<1>2. id[1] = h /\ IsRef(r)
  BY <1>1, EntryIs DEF ShortKey
<1> HIDE DEF key, id, r
<1>3. n \in Nat /\ i + n <= Len(args) /\ IsRef(given)
  BY <1>2, <1>1, SuppliedIs
<1> HIDE DEF n, given
<1>4. OwnEntry
  BY <1>1, <1>2, <1>3, GivenKeeps DEF OwnEntry
<1> QED
  BY <1>1, <1>3, <1>4, AdvanceInClusterKeeps DEF OwnEntry

LEMMA IgnoredInClusterKeeps ==
  ASSUME IInv, IgnoredInCluster
  PROVE  IInv' /\ OwnEntry
<1>1. InCluster /\ AdvanceInCluster(0) /\ UNCHANGED tables
  BY DEF IgnoredInCluster
<1>2. OwnEntry
  BY <1>1 DEF OwnEntry, IInv
<1>3. i + 0 <= Len(args)
  BY <1>1, ArgsAre DEF InCluster, IInv, StateInv, ClusterInv
<1> QED
  BY <1>1, <1>2, <1>3, AdvanceInClusterKeeps DEF OwnEntry
-----------------------------------------------------------------------------
(* The other steps. *)
LEMMA StopsKeep ==
  ASSUME IInv, BadLongFlag \/ BadInCluster \/ BadShortFlag \/ HelpCommand
  PROVE  IInv' /\ UNCHANGED tables
<1>1. PICK how \in {"error", "usage"} : Stop(how) /\ (how = "usage" => pending = <<>>)
  BY DEF BadLongFlag, BadInCluster, BadShortFlag, HelpCommand, Parsing
<1>2. IInv'
  BY <1>1, StopKeeps
<1> QED
  BY <1>1, <1>2 DEF Stop

(* The handler of the subcommand goes on behind its name.                  *)
LEMMA SubcommandKeeps ==
  ASSUME IInv, Subcommand
  PROVE  IInv'
<1> DEFINE walked == PreWalk(tables, Arg.name)
<1>1. /\ pc = "args" /\ pending = <<>> /\ i <= Len(args) /\ Arg.name \in Commands
      /\ tables' = walked /\ pc' = Walked(walked)
      /\ IF walked.outcome = "ok"
         THEN /\ selected' = Arg.name /\ h' = Arg.name /\ i' = i + 1
              /\ role' = [role EXCEPT ![i] = "command"]
         ELSE UNCHANGED <<selected, h, i, role>>
      /\ requests' = Append(requests, Arg.name)
      /\ UNCHANGED <<setup, passes, pending, parsed, helped, preference, remainder,
                     outcome, earlier>>
  BY DEF Subcommand, Parsing, IsCommand
<1>2. Arg.name \in Handlers
  BY <1>1 DEF Handlers
<1>3. WellFormed(walked)
  BY <1>2, WalksKeep DEF IInv
<1> HIDE DEF walked
<1> USE DEF setup, outcome
<1>4. requests' \in Seq(Handlers)
  BY <1>1, <1>2, AppendProperties DEF IInv, StateInv
<1>5. CASE walked.outcome = "ok"
  <2>1. pc' = "begin"
    BY <1>1, <1>5 DEF Walked
  <2>2. /\ role' = [p \in DOMAIN args |-> role'[p]]
        /\ \A p \in DOMAIN args : role'[p] = "none" <=> p > i
    BY <1>1, <1>5, MarkKeeps
  <2>3. Len(args) \in Nat /\ DOMAIN args = 1..Len(args) /\ i \in 1..Len(args)
    BY <1>1, ArgsAre DEF IInv, StateInv
  <2>4. i' \in 1..(Len(args) + 1)
    BY <1>1, <1>5, <2>3
  <2>5. StateInv'
    BY <1>1, <1>2, <1>4, <1>5, <2>1, <2>4 DEF IInv, StateInv, Final, AllFields, Handlers
  <2>6. RoleInv'
    <3>1. \A p \in DOMAIN args : p > i <=> p >= i'
      BY <1>1, <1>5, <2>3
    <3> QED
      BY <1>1, <2>2, <3>1 DEF RoleInv
  <2>7. PreferenceInv' /\ ClusterInv' /\ EveryArgumentOnce'
    BY <1>1, <2>1 DEF PreferenceInv, ClusterInv, EveryArgumentOnce, ParseEnded
  <2> QED
    BY <1>1, <1>3, <2>2, <2>5, <2>6, <2>7 DEF IInv
<1>6. CASE walked.outcome # "ok"
  <2>1. pc' \in {"error", "panic"}
    BY <1>1, <1>3, <1>6 DEF Walked, WellFormed
  <2>2. StateInv'
    BY <1>1, <1>4, <1>6, <2>1 DEF IInv, StateInv, Final, AllFields, Handlers
  <2>3. PreferenceInv' /\ ClusterInv' /\ RoleInv' /\ EveryArgumentOnce'
    BY <1>1, <1>6, <2>1
       DEF IInv, PreferenceInv, ClusterInv, RoleInv, EveryArgumentOnce, ParseEnded
  <2> QED
    BY <1>1, <1>3, <2>2, <2>3 DEF IInv
<1> QED
  BY <1>5, <1>6

(* The loop ends at "--", at a positional argument or behind the last one. *)
LEMMA EndsKeep ==
  ASSUME IInv, EndOfFlags \/ Positional \/ EndOfArgs
  PROVE  IInv' /\ UNCHANGED tables
<1>1. Len(args) \in Nat /\ DOMAIN args = 1..Len(args) /\ i \in 1..(Len(args) + 1)
      /\ IsSeq(args)
  BY ArgsAre DEF IInv, StateInv
<1>2. UNCHANGED <<args, tables>> /\ pc = "args" /\ pending = <<>>
  BY DEF EndOfFlags, Positional, EndOfArgs, Finish, Parsing, setup
<1>3. CASE EndOfFlags
  <2>1. /\ i <= Len(args) /\ Finish(SubSeq(args, i + 1, Len(args)))
        /\ role' = [role EXCEPT ![i] = "end"]
    BY <1>3 DEF EndOfFlags, Parsing
  <2>2. /\ role' = [p \in DOMAIN args |-> role'[p]]
        /\ \A p \in DOMAIN args : role'[p] = "none" <=> p > i
    BY <1>2, <2>1, MarkKeeps
  <2>3. i + 1 \in 1..(Len(args) + 1) /\ \A p \in DOMAIN args : p > i <=> p >= i + 1
    BY <1>1, <2>1
  <2> DEFINE j == i + 1
  <2>4. j \in 1..(Len(args) + 1) /\ Finish(SubSeq(args, j, Len(args)))
        /\ \A p \in DOMAIN args : role'[p] = "none" <=> p >= j
    BY <2>1, <2>2, <2>3
  <2> HIDE DEF j
  <2> QED
    BY <1>2, <2>2, <2>4, FinishKeeps
<1>4. ASSUME UNCHANGED role
      PROVE  /\ role' = [p \in DOMAIN args |-> role'[p]]
             /\ \A p \in DOMAIN args : role'[p] = "none" <=> p >= i
  BY <1>2, <1>4 DEF IInv, RoleInv
<1>5. CASE Positional
  <2>1. Finish(SubSeq(args, i, Len(args))) /\ UNCHANGED role
    BY <1>5 DEF Positional
  <2> QED
    BY <1>1, <1>2, <1>4, <2>1, FinishKeeps
<1>6. CASE EndOfArgs
  <2>1. Finish(<<>>) /\ UNCHANGED role /\ i > Len(args)
    BY <1>6 DEF EndOfArgs
  <2>2. SubSeq(args, i, Len(args)) = <<>>
    <3>1. i \in Nat \ {0} /\ Len(args) <= Len(args) /\ ~(i <= Len(args))
      BY <1>1, <2>1
    <3>2. IsSeq(SubSeq(args, i, Len(args))) /\ Len(SubSeq(args, i, Len(args))) = 0
      BY <1>1, <3>1, PartIsSeq
    <3> DEFINE left == SubSeq(args, i, Len(args))
    <3> HIDE DEF left
    <3>3. IsSeq(left) /\ Len(left) = 0 => left = <<>>
      BY EmptySeq DEF IsSeq
    <3> QED
      BY <3>2, <3>3 DEF left
  <2> QED
    BY <1>1, <1>2, <1>4, <2>1, <2>2, FinishKeeps
<1> QED
  BY <1>2, <1>3, <1>5, <1>6

LEMMA ImportFlagsKeeps ==
  ASSUME IInv, ImportFlags
  PROVE  IInv' /\ UNCHANGED tables
<1> USE DEF setup, outcome
<1>1. todo' \in Seq(AllFields)
  <2>1. requests \in Seq(Handlers) /\ todo \in Seq(AllFields)
    BY DEF IInv, StateInv
  <2>2. CASE todo' = FoldLeft(LAMBDA fields, g : fields \o [k \in DOMAIN Fields[g] |-> <<g, k>>],
                              <<>>, requests)
    BY <2>1, <2>2, FieldsAre
  <2> QED
    BY <2>1, <2>2 DEF ImportFlags
<1>2. /\ pc = "import" /\ pc' \in {"fill", "error"}
      /\ UNCHANGED <<setup, passes, h, i, pending, tables, requests, selected, parsed,
                     helped, preference, remainder, result, earlier, role>>
  BY DEF ImportFlags
<1>3. StateInv'
  BY <1>1, <1>2 DEF IInv, StateInv, Final, AllFields, Handlers
<1>4. PreferenceInv' /\ ClusterInv' /\ RoleInv' /\ EveryArgumentOnce'
  BY <1>2 DEF IInv, PreferenceInv, ClusterInv, RoleInv, EveryArgumentOnce, ParseEnded
<1> QED
  BY <1>2, <1>3, <1>4 DEF IInv

(* Fill finds a known entry.                                               *)
LEMMA FillFieldKeeps ==
  ASSUME IInv, FillField
  PROVE  IInv'
<1> USE DEF setup, outcome
<1> DEFINE f == Head(todo)
           key == KeysOf(f[1], f[2])[Min(Deciding(f))]
           id == tables.at[key]
           field == Fields[f[1]][f[2]]
           filled == FillFrom(tables.refs[id], field)
           left == AfterFill(tables.refs[id], field)
<1>1. f \in AllFields /\ todo' \in Seq(AllFields)
  BY HeadTailProperties DEF IInv, StateInv, FillField
<1>2. /\ pc = "fill"
      /\ \/ UNCHANGED <<pc, tables>>
         \/ pc' = "internal" /\ UNCHANGED tables
         \/ key \in DOMAIN tables.at /\ Update(id, left) /\ pc' = AfterFilling(filled)
      /\ \/ UNCHANGED result
         \/ \E r : result' = [result EXCEPT ![f] = r]
      /\ UNCHANGED <<setup, passes, h, i, pending, requests, selected, parsed, helped,
                     preference, remainder, imports, earlier, role>>
  BY DEF FillField
<1>3. AfterFilling(filled) \in {"fill", "error", "panic"}
  <2>1. filled.error \in {"none", "usage", "panic"}
    BY FillErrors
  <2> HIDE DEF filled
  <2> QED
    BY <2>1 DEF AfterFilling
<1>4. WellFormed(tables')
  <2>1. CASE UNCHANGED tables
    BY <2>1 DEF IInv
  <2>2. CASE key \in DOMAIN tables.at /\ Update(id, left)
    <3>1. PICK g \in Handlers : \E k \in DOMAIN Fields[g] : f = <<g, k>>
      BY <1>1 DEF AllFields
    <3>2. PICK k \in DOMAIN Fields[g] : f = <<g, k>>
      BY <3>1
    <3>3. field = Fields[g][k]
      BY <3>2
    <3> HIDE DEF f, key, field
    <3>4. IsRef(tables.refs[id])
      BY <2>2, EntryIs
    <3> HIDE DEF id
    <3>5. IsRef(left)
      BY <3>3, <3>4, AfterFillKeeps
    <3> HIDE DEF left
    <3> QED
      BY <2>2, <3>5, GivenKeeps
  <2> QED
    BY <1>2, <2>1, <2>2
<1> HIDE DEF f, key, id, field, filled, left
<1>5. DOMAIN result' = AllFields /\ AllFields' = AllFields
  BY <1>2 DEF IInv, StateInv, AllFields, Handlers
<1>6. pc' \in {"fill", "error", "panic", "internal"}
  BY <1>2, <1>3
<1>7. StateInv'
  BY <1>1, <1>2, <1>5, <1>6 DEF IInv, StateInv, Final, Handlers, AllFields
<1>8. pending = <<>>
  BY <1>2 DEF IInv, ClusterInv
<1>9. PreferenceInv' /\ ClusterInv' /\ RoleInv' /\ EveryArgumentOnce'
  BY <1>2, <1>6, <1>8
     DEF IInv, PreferenceInv, ClusterInv, RoleInv, EveryArgumentOnce, ParseEnded
<1> QED
  BY <1>4, <1>7, <1>9 DEF IInv

LEMMA CompleteKeeps ==
  ASSUME IInv, Complete
  PROVE  IInv'
<1> USE DEF setup, outcome, Complete
<1>1. StateInv'
  BY DEF IInv, StateInv, Final, AllFields, Handlers
<1>2. PreferenceInv' /\ ClusterInv' /\ RoleInv' /\ EveryArgumentOnce'
  BY DEF IInv, PreferenceInv, ClusterInv, RoleInv, EveryArgumentOnce, ParseEnded
<1> QED
  BY <1>1, <1>2 DEF IInv

LEMMA StutterKeeps ==
  ASSUME IInv, UNCHANGED vars
  PROVE  IInv'
<1> USE DEF vars, setup, outcome
<1>1. StateInv'
  BY DEF IInv, StateInv, Final, AllFields, Handlers
<1>2. PreferenceInv' /\ ClusterInv' /\ RoleInv' /\ EveryArgumentOnce'
  BY DEF IInv, PreferenceInv, ClusterInv, RoleInv, EveryArgumentOnce, ParseEnded
<1> QED
  BY <1>1, <1>2 DEF IInv

LEMMA NextKeeps ==
  ASSUME IInv, [Next]_vars
  PROVE  IInv'
<1>1. CASE Configure
  BY <1>1, ConfigureKeeps
<1>2. CASE Begin
  BY <1>2, BeginKeeps
<1>3. CASE LongFlag
  BY <1>3, LongFlagKeeps
<1>4. CASE LongFlagWithValue
  BY <1>4, LongFlagWithValueKeeps
<1>5. CASE NegatedFlag
  BY <1>5, NegatedFlagKeeps
<1>6. CASE PrefixedFlag
  BY <1>6, PrefixedFlagKeeps
<1>7. CASE IgnoredLongFlag \/ IgnoredShortFlag
  BY <1>7, IgnoredKeeps
<1>8. CASE BadLongFlag \/ BadInCluster \/ BadShortFlag \/ HelpCommand
  BY <1>8, StopsKeep
<1>9. CASE Cluster
  BY <1>9, ClusterKeeps
<1>10. CASE ClusteredFlag
  BY <1>10, ClusteredFlagKeeps
<1>11. CASE IgnoredInCluster
  BY <1>11, IgnoredInClusterKeeps
<1>12. CASE ShortFlag
  BY <1>12, ShortFlagKeeps
<1>13. CASE Subcommand
  BY <1>13, SubcommandKeeps
<1>14. CASE EndOfFlags \/ Positional \/ EndOfArgs
  BY <1>14, EndsKeep
<1>15. CASE ImportFlags
  BY <1>15, ImportFlagsKeeps
<1>16. CASE FillField
  BY <1>16, FillFieldKeeps
<1>17. CASE Complete
  BY <1>17, CompleteKeeps
<1>18. CASE UNCHANGED vars
  BY <1>18, StutterKeeps
<1> QED
  BY <1>1, <1>2, <1>3, <1>4, <1>5, <1>6, <1>7, <1>8, <1>9, <1>10, <1>11, <1>12, <1>13,
     <1>14, <1>15, <1>16, <1>17, <1>18 DEF Next

(* The inductive invariant of the flag handler's life. *)
THEOREM Inductive == Spec => []IInv
<1>1. Init => IInv
  BY InitInv
<1>2. IInv /\ [Next]_vars => IInv'
  BY NextKeeps
<1> QED
  BY <1>1, <1>2, PTL DEF Spec

(* The types of the handler's state; the tables point at known entries     *)
(* (flags_parse.go:303-321, 512-551).                                      *)
THEOREM TypeCorrect == Spec => []TypeOK
<1>1. IInv => TypeOK
  BY DEF IInv, StateInv, WellFormed, TypeOK
<1> QED
  BY <1>1, Inductive, PTL

(* After a parse without error every argument was used exactly once, up to *)
(* the remainder (flags_parse.go:166-256).                                 *)
THEOREM ArgumentsOnce == Spec => []EveryArgumentOnce
<1>1. IInv => EveryArgumentOnce
  BY DEF IInv
<1> QED
  BY <1>1, Inductive, PTL

(* Every value has the spelling of the flag that gave it                   *)
(* (flags_parse.go:343-413).                                               *)
THEOREM ValuesNamed == Spec => []EveryValueIsNamed
<1>1. IInv => EveryValueIsNamed
  BY DEF IInv, WellFormed, IsRef, EveryValueIsNamed
<1> QED
  BY <1>1, Inductive, PTL

(* While a subcommand's handler parses, the flags of other handlers keep   *)
(* their values (flags_command.go:526).                                    *)
THEOREM OwnFlags == Spec => SubcommandsHaveTheirOwnFlags
<1> DEFINE Own == (h # Root /\ pc = "args") =>
                    \A id \in DOMAIN tables.refs :
                      id[1] # h => tables'.refs[id] = tables.refs[id]
<1>1. IInv /\ [Next]_vars => [Own]_vars
  <2> SUFFICES ASSUME IInv, Next, h # Root, pc = "args"
               PROVE  OwnEntry \/ UNCHANGED tables
    BY DEF OwnEntry
  <2>1. CASE Configure \/ Begin \/ ImportFlags \/ FillField \/ Complete
    BY <2>1 DEF Configure, Begin, ImportFlags, FillField, Complete
  <2>2. CASE Subcommand
    BY <2>2 DEF Subcommand, IsCommand
  <2>3. CASE BadLongFlag \/ BadInCluster \/ BadShortFlag \/ HelpCommand
    BY <2>3, StopsKeep
  <2>4. CASE EndOfFlags \/ Positional \/ EndOfArgs
    BY <2>4, EndsKeep
  <2>5. CASE \/ LongFlag \/ LongFlagWithValue \/ NegatedFlag \/ PrefixedFlag
             \/ IgnoredLongFlag \/ IgnoredShortFlag \/ ShortFlag
    BY <2>5, LongFlagKeeps, LongFlagWithValueKeeps, NegatedFlagKeeps, PrefixedFlagKeeps,
       IgnoredKeeps, ShortFlagKeeps
  <2>6. CASE Cluster \/ ClusteredFlag \/ IgnoredInCluster
    BY <2>6, ClusterKeeps, ClusteredFlagKeeps, IgnoredInClusterKeeps
  <2> QED
    BY <2>1, <2>2, <2>3, <2>4, <2>5, <2>6 DEF Next
<1>2. Spec => [][Own]_vars
  BY <1>1, Inductive, PTL DEF Spec
<1> QED
  BY <1>2 DEF SubcommandsHaveTheirOwnFlags
-----------------------------------------------------------------------------
(* What the entries are for.  An entry with setters is that of a field,    *)
(* and whoever finds it has one of the names of that field.                *)
IsField(id) == id[2] = "field" /\ id[1] \in Handlers /\ id[3] \in DOMAIN Fields[id[1]]

Entered(t) ==
  /\ \A id \in DOMAIN t.refs :
       IF IsField(id) THEN t.refs[id].settable /\ t.refs[id].kind = Fields[id[1]][id[3]].kind
       ELSE ~t.refs[id].settable
  /\ \A key \in DOMAIN t.at :
       IsField(t.at[key]) => key \in ToSet(KeysOf(t.at[key][1], t.at[key][3]))

(* The names that lead to fields, and those that do not: of imported flags *)
(* and of --help.                                                          *)
Open(t)   == {key \in DOMAIN t.at : t.refs[t.at[key]].settable}
Closed(t) == DOMAIN t.at \ Open(t)

(* A map whose values have not all a key: one was given with "=".          *)
Short(r) == r.settable /\ r.kind \in Keyed /\ Len(r.keys) < Len(r.values)

Paired(r) == IsSeq(r.keys)

Sound(t) ==
  WellFormed(t) /\ Entered(t) /\ \A id \in DOMAIN t.refs : Paired(t.refs[id])

(* A walk adds entries, and changes none. *)
Later(t, u) ==
  /\ \A key \in DOMAIN t.at : key \in DOMAIN u.at /\ u.at[key] = t.at[key]
  /\ \A id \in DOMAIN t.refs : id \in DOMAIN u.refs /\ u.refs[id] = t.refs[id]
  /\ \A id \in DOMAIN u.refs : id \notin DOMAIN t.refs => ~Short(u.refs[id])

(* A walk from t comes to u.  It has entered these keys if nothing clashed;*)
(* and if it panicked, one of them leads to no field.                      *)
Walks(t, u, keys) ==
  /\ Sound(u) /\ Later(t, u)
  /\ u.outcome = "ok" => t.outcome = "ok" /\ keys \subseteq Open(u)
  /\ u.outcome = "panic" => t.outcome = "panic" \/ \E key \in keys : key \in Closed(u)

ModelKeys(g) == UNION {ToSet(KeysOf(g, k)) : k \in DOMAIN Fields[g]}
-----------------------------------------------------------------------------
(* The empty sequence and others.                                          *)
LEMMA NoneIsEmpty ==
  ASSUME NEW s, IsSeq(s)
  PROVE  s = <<>> <=> Len(s) = 0
BY EmptySeq DEF IsSeq

(* Values are given together with the spelling of the flag.                *)
LEMMA GivePairs ==
  ASSUME NEW r, IsRef(r), NEW values, IsSeq(values), values # <<>>, NEW dashed
  PROVE  LET u == Give(r, values, dashed)
         IN  /\ u.values # <<>> /\ u.used # <<>>
             /\ u.kind = r.kind /\ u.settable = r.settable /\ u.keys = r.keys
             /\ Len(u.values) = Len(r.values) + Len(values)
<1> DEFINE more  == r.values \o values
           names == [v \in DOMAIN values |-> dashed]
           used  == r.used \o names
           u == Give(r, values, dashed)
<1>1. IsSeq(more) /\ Len(more) = Len(r.values) + Len(values)
  BY ConcatIsSeq DEF IsRef
<1>2. IsSeq(names) /\ Len(names) = Len(values)
  BY RepeatedIsSeq
<1> HIDE DEF names
<1>3. IsSeq(used) /\ Len(used) = Len(r.used) + Len(values)
  BY <1>2, ConcatIsSeq DEF IsRef
<1>4. Len(r.values) \in Nat /\ Len(r.used) \in Nat /\ Len(values) \in Nat
  BY DEF IsRef, IsSeq
<1>5. Len(values) # 0
  BY NoneIsEmpty
<1>6. u = [r EXCEPT !.values = more, !.used = used]
  BY DEF Give, names
<1> HIDE DEF more, used, u
<1>7. Len(more) # 0 /\ Len(used) # 0
  BY <1>1, <1>3, <1>4, <1>5
<1>8. more # <<>> /\ used # <<>>
  BY <1>1, <1>3, <1>7, NoneIsEmpty
<1>9. /\ u.values = more /\ u.used = used
      /\ u.kind = r.kind /\ u.settable = r.settable /\ u.keys = r.keys
  BY <1>6 DEF IsRef
<1> QED
  BY <1>1, <1>8, <1>9 DEF u

(* An entry that is given something stays what it is.  Unless it is given  *)
(* values with "=", there is a key with each value of a map.               *)
Altered(r, u) == /\ IsRef(u) /\ Paired(u)
                 /\ u.kind = r.kind /\ u.settable = r.settable

Fed(r, u) == Altered(r, u) /\ (Short(u) => Short(r))

LEMMA GiveAlters ==
  ASSUME NEW r, IsRef(r), Paired(r), NEW values, IsSeq(values), values # <<>>, NEW dashed
  PROVE  LET u == Give(r, values, dashed)
         IN  Altered(r, u) /\ (r.kind \notin Keyed => Fed(r, u))
<1> DEFINE u == Give(r, values, dashed)
<1>1. IsRef(u)
  BY GiveKeeps
<1>2. u.kind = r.kind /\ u.settable = r.settable /\ u.keys = r.keys
  BY GivePairs
<1> HIDE DEF u
<1> QED
  BY <1>1, <1>2 DEF Fed, Altered, Short, Paired, u

LEMMA OneIsSome ==
  ASSUME NEW x
  PROVE  IsSeq(<<x>>) /\ <<x>> # <<>> /\ Len(<<x>>) = 1
BY OneIsSeq

(* With a key.                                                             *)
LEMMA KeyedFeeds ==
  ASSUME NEW r, IsRef(r), Paired(r), NEW key, NEW value, NEW dashed
  PROVE  Fed(r, [Give(r, <<value>>, dashed) EXCEPT !.keys = Append(@, key)])
<1> DEFINE values == <<value>>
           given == Give(r, values, dashed)
           keys  == Append(given.keys, key)
           u == [given EXCEPT !.keys = keys]
<1>1. IsSeq(values) /\ values # <<>> /\ Len(values) = 1
  BY OneIsSome
<1>2. u = [Give(r, <<value>>, dashed) EXCEPT !.keys = Append(@, key)]
  OBVIOUS
<1>3. IsRef([Give(r, <<value>>, dashed) EXCEPT !.keys = Append(@, key)])
  BY GivesKeyed
<1> HIDE DEF values
<1>4. /\ given.values # <<>> /\ given.used # <<>>
      /\ given.kind = r.kind /\ given.settable = r.settable /\ given.keys = r.keys
      /\ Len(given.values) = Len(r.values) + Len(values)
  BY <1>1, GivePairs
<1>5. IsRef(given)
  BY <1>1, GiveKeeps
<1>6. IsSeq(keys) /\ Len(keys) = Len(r.keys) + 1
  <2> DEFINE S == Range(r.keys) \cup {key}
  <2>1. r.keys \in Seq(S)
    BY SeqMonotonic DEF Paired, IsSeq
  <2>2. key \in S
    OBVIOUS
  <2> HIDE DEF S
  <2>3. Append(r.keys, key) \in Seq(S) /\ Len(Append(r.keys, key)) = Len(r.keys) + 1
    BY <2>1, <2>2, AppendProperties
  <2> QED
    BY <1>4, <2>3, SeqIsSeq
<1>7. Len(r.values) \in Nat /\ Len(r.keys) \in Nat
  BY DEF IsRef, Paired, IsSeq
<1> HIDE DEF given, keys
<1>8. /\ u.values = given.values /\ u.keys = keys
      /\ u.kind = r.kind /\ u.settable = r.settable
  BY <1>4, <1>5 DEF IsRef
<1> HIDE DEF u
<1>9. Len(u.keys) < Len(u.values) => Len(r.keys) < Len(r.values)
  BY <1>1, <1>4, <1>6, <1>7, <1>8
<1>10. Fed(r, u)
  BY <1>2, <1>3, <1>6, <1>8, <1>9 DEF Fed, Altered, Short, Paired
<1> QED
  BY <1>2, <1>10

(* A flag with the arguments that follow it.                               *)
LEMMA GiveFollowingFeeds ==
  ASSUME NEW r, IsRef(r), Paired(r), NEW following, IsSeq(following),
         Len(following) = Arity(r), NEW dashed
  PROVE  Fed(r, GiveFollowing(r, following, dashed))
<1>1. CASE r.kind \in {"bool", "counter"}
  <2>1. GiveFollowing(r, following, dashed) \in
          {Give(r, <<Yes>>, dashed), Give(r, <<Empty>>, dashed)}
    BY <1>1 DEF GiveFollowing, Keyed
  <2>2. r.kind \notin Keyed
    BY <1>1 DEF Keyed
  <2>3. \A x : Fed(r, Give(r, <<x>>, dashed))
    <3> TAKE x
    <3> DEFINE values == <<x>>
    <3>1. IsSeq(values) /\ values # <<>>
      BY OneIsSome
    <3> HIDE DEF values
    <3>2. Fed(r, Give(r, values, dashed))
      BY <2>2, <3>1, GiveAlters
    <3> QED
      BY <3>2 DEF values
  <2> QED
    BY <2>1, <2>3
<1>2. CASE r.kind \in Keyed
  <2>1. GiveFollowing(r, following, dashed) =
          [Give(r, <<following[1].value>>, dashed)
             EXCEPT !.keys = Append(@, KeyOf(following[1]))]
    BY <1>2 DEF GiveFollowing, Keyed
  <2> DEFINE key == KeyOf(following[1])
             value == following[1].value
  <2> HIDE DEF key, value
  <2>2. Fed(r, [Give(r, <<value>>, dashed) EXCEPT !.keys = Append(@, key)])
    BY KeyedFeeds
  <2> QED
    BY <2>1, <2>2 DEF key, value
<1>3. CASE r.kind \notin {"bool", "counter"} /\ r.kind \notin Keyed
  <2>1. GiveFollowing(r, following, dashed) = Give(r, following, dashed)
    BY <1>3 DEF GiveFollowing, Keyed
  <2>2. Arity(r) # 0
    BY <1>3 DEF Arity
  <2>3. following # <<>>
    BY <2>2, NoneIsEmpty
  <2> QED
    BY <1>3, <2>1, <2>3, GiveAlters
<1> QED
  BY <1>1, <1>2, <1>3

LEMMA GivePrefixedFeeds ==
  ASSUME NEW r, IsRef(r), Paired(r), NEW key, NEW value, NEW dashed
  PROVE  Fed(r, GivePrefixed(r, key, value, dashed))
<1> DEFINE text == Text(key)
<1>1. GivePrefixed(r, key, value, dashed) =
        [Give(r, <<value>>, dashed) EXCEPT !.keys = Append(@, text)]
  BY DEF GivePrefixed
<1> HIDE DEF text
<1>2. Fed(r, [Give(r, <<value>>, dashed) EXCEPT !.keys = Append(@, text)])
  BY KeyedFeeds
<1> QED
  BY <1>1, <1>2

LEMMA ClearedFeeds ==
  ASSUME NEW r, IsRef(r), Paired(r)
  PROVE  Fed(r, Cleared(r))
<1> DEFINE none == <<>>
           u == Cleared(r)
<1>1. IsSeq(none) /\ Len(none) = 0
  BY EmptyIsSeq
<1>2. IsRef(u)
  BY ClearedKeeps
<1>3. u = [r EXCEPT !.values = none, !.used = none, !.keys = none]
  BY DEF Cleared
<1> HIDE DEF u
<1>4. /\ u.values = none /\ u.used = none /\ u.keys = none
      /\ u.kind = r.kind /\ u.settable = r.settable
  <2> HIDE DEF none
  <2> QED
    BY <1>3 DEF IsRef
<1>5. ~(Len(none) < Len(none))
  BY <1>1
<1> HIDE DEF none
<1> QED
  BY <1>1, <1>2, <1>4, <1>5 DEF Fed, Altered, Short, Paired, u

(* What Fill leaves of an entry is what it used. *)
Left(r, u) == /\ u.used = r.used /\ u.keys = r.keys /\ u.kind = r.kind
              /\ r.values = <<>> => u.values = <<>>

LEMMA AfterFillLeaves ==
  ASSUME NEW r, IsRef(r), Paired(r), NEW g \in Handlers, NEW k \in DOMAIN Fields[g]
  PROVE  LET u == AfterFill(r, Fields[g][k])
         IN  Fed(r, u) /\ Left(r, u)
<1> DEFINE size == Fields[g][k].size
           kept == SubSeq(r.values, 1, size)
           u == AfterFill(r, Fields[g][k])
<1>1. IsRef(u)
  BY AfterFillKeeps
<1>2. CASE u = r
  BY <1>1, <1>2 DEF Fed, Altered, Left
<1>3. CASE /\ u = [r EXCEPT !.values = kept]
           /\ Len(r.values) > Max({1, size})
  <2>1. size \in Nat
    BY FieldAssumption
  <2>2. Max({1, size}) >= size /\ Max({1, size}) >= 1 /\ Max({1, size}) \in Nat
    BY <2>1, MaxWithOne
  <2>3. Len(r.values) \in Nat /\ IsSeq(r.values) /\ IsSeq(r.keys) /\ Len(r.keys) \in Nat
    BY DEF IsRef, IsSeq, Paired
  <2>4. size <= Len(r.values) /\ Len(r.values) # 0
    BY <1>3, <2>1, <2>2, <2>3
  <2> HIDE DEF size
  <2>5. IsSeq(kept) /\ Len(kept) = IF 1 <= size THEN size - 1 + 1 ELSE 0
    BY <2>1, <2>3, <2>4, PartIsSeq
  <2> HIDE DEF kept
  <2>6. /\ u.values = kept /\ u.used = r.used /\ u.keys = r.keys
        /\ u.kind = r.kind /\ u.settable = r.settable
    BY <1>3 DEF IsRef
  <2>7. r.values # <<>>
    BY <2>3, <2>4, NoneIsEmpty
  <2> HIDE DEF u
  <2>8. Len(u.keys) < Len(u.values) => Len(r.keys) < Len(r.values)
    BY <2>1, <2>3, <2>4, <2>5, <2>6
  <2> QED
    BY <1>1, <2>3, <2>6, <2>7, <2>8 DEF Fed, Altered, Short, Left, Paired, u
<1>4. \/ u = r
      \/ u = [r EXCEPT !.values = kept] /\ Len(r.values) > Max({1, size})
  BY DEF AfterFill
<1> QED
  BY <1>2, <1>3, <1>4

(* New entries.                                                            *)
LEMMA NewRefsArePaired ==
  /\ \A g \in Handlers : \A k \in DOMAIN Fields[g] :
       LET r == FieldRef(Fields[g][k])
       IN  Paired(r) /\ ~Short(r) /\ r.settable /\ r.kind = Fields[g][k].kind
  /\ \A kind : Paired(PlainRef(kind)) /\ ~PlainRef(kind).settable
<1>1. IsSeq(<<>>) /\ Len(<<>>) = 0 /\ ~(Len(<<>>) < Len(<<>>))
  BY EmptyIsSeq
<1>2. ASSUME NEW kind, NEW size, NEW required
      PROVE  LET r == Ref(kind, size, required, TRUE)
             IN  Paired(r) /\ ~Short(r) /\ r.settable /\ r.kind = kind
  BY <1>1 DEF Ref, Paired, Short
<1>3. ASSUME NEW kind
      PROVE  LET r == Ref(kind, 0, FALSE, FALSE)
             IN  Paired(r) /\ ~r.settable
  BY <1>1 DEF Ref, Paired
<1> QED
  BY <1>2, <1>3 DEF FieldRef, PlainRef
-----------------------------------------------------------------------------
(* An entry gets something.                                                *)
LEMMA AlteredIsSound ==
  ASSUME NEW t, Sound(t), NEW id \in DOMAIN t.refs, NEW r, Altered(t.refs[id], r)
  PROVE  LET u == [t EXCEPT !.refs[id] = r]
         IN  /\ Sound(u) /\ u.at = t.at /\ u.outcome = t.outcome
             /\ DOMAIN u.refs = DOMAIN t.refs /\ Open(u) = Open(t)
             /\ \A q \in DOMAIN t.refs : u.refs[q] = IF q = id THEN r ELSE t.refs[q]
<1> DEFINE u == [t EXCEPT !.refs[id] = r]
<1>1. /\ WellFormed(u) /\ u.at = t.at /\ u.outcome = t.outcome
      /\ \A q \in DOMAIN t.refs : q # id => u.refs[q] = t.refs[q]
  BY UpdateKeeps DEF Sound, Altered
<1>2. DOMAIN u.refs = DOMAIN t.refs /\ u.refs[id] = r
  BY DEF Sound, WellFormed
<1> HIDE DEF u
<1>3. Entered(u)
  BY <1>1, <1>2 DEF Sound, Entered, Altered
<1>4. \A q \in DOMAIN u.refs : Paired(u.refs[q])
  BY <1>1, <1>2 DEF Sound, Altered
<1>5. Open(u) = Open(t)
  <2>1. \A q \in DOMAIN t.refs : u.refs[q].settable = t.refs[q].settable
    BY <1>1, <1>2 DEF Altered
  <2>2. \A key \in DOMAIN t.at : t.at[key] \in DOMAIN t.refs
    BY DEF Sound, WellFormed
  <2> QED
    BY <1>1, <2>1, <2>2 DEF Open
<1> QED
  BY <1>1, <1>2, <1>3, <1>4, <1>5 DEF Sound, u

(* Later tables lead to the same fields. *)
LEMMA LaterOpens ==
  ASSUME NEW t, NEW u, WellFormed(t), Later(t, u)
  PROVE  /\ Open(t) \subseteq Open(u) /\ Closed(t) \subseteq Closed(u)
         /\ DOMAIN t.at \subseteq DOMAIN u.at
<1>1. \A key \in DOMAIN t.at : t.at[key] \in DOMAIN t.refs
  BY DEF WellFormed
<1>2. \A key \in DOMAIN t.at : key \in DOMAIN u.at /\ u.refs[u.at[key]] = t.refs[t.at[key]]
  BY <1>1 DEF Later
<1> QED
  BY <1>2 DEF Open, Closed

(* Walks go on where others ended.                                         *)
LEMMA WalksOn ==
  ASSUME NEW t, NEW u, NEW v, NEW some, NEW more,
         Walks(t, u, some), Walks(u, v, more)
  PROVE  Walks(t, v, some \cup more)
<1>1. Open(u) \subseteq Open(v) /\ Closed(u) \subseteq Closed(v)
  BY LaterOpens DEF Walks, Sound
<1>2. Later(t, v)
  BY DEF Walks, Later
<1> QED
  BY <1>1, <1>2 DEF Walks

LEMMA StandingWalks ==
  ASSUME NEW t, Sound(t)
  PROVE  Walks(t, t, {})
BY DEF Walks, Later

(* One name is entered, is there already, or clashes.                      *)
LEMMA RegisterWalks ==
  ASSUME NEW g \in Handlers, NEW k \in DOMAIN Fields[g], NEW name \in Range(Fields[g][k].names),
         NEW t, Sound(t), WellFormed(Register(t, g, k, name))
  PROVE  Walks(t, Register(t, g, k, name), {<<g, Table(Fields[g][k], name), name>>})
<1> DEFINE f    == Fields[g][k]
           key  == <<g, Table(f, name), name>>
           id   == <<g, "field", k>>
           u    == Register(t, g, k, name)
<1>1. key \in ToSet(KeysOf(g, k))
  BY DEF Range, ToSet, KeysOf
<1>2. IsField(id) /\ id[1] = g /\ id[3] = k
  BY DEF IsField
<1>3. CASE t.outcome = "panic"
  <2>1. u = t
    BY <1>3 DEF Register
  <2> QED
    BY <1>3, <2>1 DEF Walks, Later
<1>4. CASE t.outcome # "panic" /\ key \in DOMAIN t.at
  <2>1. /\ ~t.refs[t.at[key]].settable => u = [t EXCEPT !.outcome = "panic"]
        /\ t.refs[t.at[key]].settable => u = t \/ u = [t EXCEPT !.outcome = "error"]
    BY <1>4 DEF Register
  <2>2. /\ u.at = t.at /\ u.refs = t.refs
        /\ u.outcome \in {"panic", "error", t.outcome}
        /\ u.outcome = "panic" => key \in Closed(t)
        /\ u.outcome = "ok" => t.outcome = "ok" /\ key \in Open(t)
    BY <1>4, <2>1 DEF Sound, WellFormed, Open, Closed
  <2> HIDE DEF u, key
  <2>3. Sound(u) /\ Later(t, u) /\ Open(u) = Open(t) /\ Closed(u) = Closed(t)
    BY <2>2 DEF Sound, Entered, Later, Open, Closed, u
  <2> QED
    BY <2>2, <2>3 DEF Walks, u, key
<1>5. CASE t.outcome # "panic" /\ key \notin DOMAIN t.at
  <2> DEFINE at   == [q \in DOMAIN t.at \cup {key} |-> IF q = key THEN id ELSE t.at[q]]
             refs == IF id \in DOMAIN t.refs THEN t.refs
                     ELSE [q \in DOMAIN t.refs \cup {id} |->
                             IF q = id THEN FieldRef(f) ELSE t.refs[q]]
  <2>1. u = [t EXCEPT !.at = at, !.refs = refs]
    BY <1>5 DEF Register
  <2>2. /\ Paired(FieldRef(f)) /\ ~Short(FieldRef(f))
        /\ FieldRef(f).settable /\ FieldRef(f).kind = f.kind
    BY NewRefsArePaired
  <2> HIDE DEF u
  <2>3. DOMAIN at = DOMAIN t.at \cup {key}
        /\ \A q \in DOMAIN at : at[q] = IF q = key THEN id ELSE t.at[q]
    OBVIOUS
  <2>4. /\ DOMAIN refs = DOMAIN t.refs \cup {id}
        /\ \A q \in DOMAIN refs :
             refs[q] = IF q = id /\ id \notin DOMAIN t.refs THEN FieldRef(f) ELSE t.refs[q]
    BY DEF Sound, WellFormed
  <2> HIDE DEF at, refs, key, id
  <2>5. u.at = at /\ u.refs = refs /\ u.outcome = t.outcome
    BY <2>1 DEF Sound, WellFormed
  <2>6. \A q \in DOMAIN u.refs :
          IF IsField(q) THEN u.refs[q].settable /\ u.refs[q].kind = Fields[q[1]][q[3]].kind
          ELSE ~u.refs[q].settable
    BY <1>2, <2>2, <2>4, <2>5 DEF Sound, Entered, f
  <2>7. \A q \in DOMAIN u.at :
          IsField(u.at[q]) => q \in ToSet(KeysOf(u.at[q][1], u.at[q][3]))
    BY <1>1, <1>2, <2>3, <2>5 DEF Sound, Entered
  <2>8. \A q \in DOMAIN u.refs : Paired(u.refs[q])
    BY <2>2, <2>4, <2>5 DEF Sound
  <2>9. Sound(u)
    BY <2>6, <2>7, <2>8 DEF Sound, Entered, u
  <2>10. Later(t, u)
    BY <1>5, <2>2, <2>3, <2>4, <2>5 DEF Later
  <2>11. key \in Open(u)
    BY <1>2, <2>3, <2>4, <2>5, <2>6 DEF Open
  <2> QED
    BY <1>5, <2>5, <2>9, <2>10, <2>11 DEF Walks, u, key
<1> QED
  BY <1>3, <1>4, <1>5

(* The keys of a part of the names, and of the fields. *)
KeysAt(g, k, s) ==
  {<<g, Table(Fields[g][k], Fields[g][k].names[j]), Fields[g][k].names[j]>> : j \in s}

LEMMA RegisterFieldWalks ==
  ASSUME NEW K, NEW I, NEW R, Room(K, I, R),
         NEW g \in Handlers, NEW k \in DOMAIN Fields[g], NEW t \in Near(K, I, R),
         Sound(t)
  PROVE  Walks(t, RegisterField(t, g, k), ToSet(KeysOf(g, k)))
<1> DEFINE names == Fields[g][k].names
           n == Len(names)
           D == 1..n
           rest == [s \in SUBSET D |-> s \ {Max(s)}]
           Val == Near(K, I, R)
<1>1. n \in Nat /\ DOMAIN names = 1..n
  BY FieldAssumption
<1>2. \A j \in 1..n : names[j] \in Range(Fields[g][k].names)
  BY <1>1 DEF Range
<1>3. \A s \in SUBSET (1..n) : s # {} => Max(s) \in s
  BY <1>1, MaxIsMember
<1>4. \E f : NamesFold(f, t, g, k)
  BY RegisterFieldFolds
<1> PICK f : NamesFold(f, t, g, k)
  BY <1>4
<1>5. /\ f[{}] = t /\ RegisterField(t, g, k) = f[1..n]
      /\ \A s \in SUBSET (1..n) : s # {} =>
           f[s] = Register(f[s \ {Max(s)}], g, k, names[Max(s)])
  BY DEF NamesFold
<1> DEFINE Good == {s \in SUBSET D : f[s] \in Val /\ Walks(t, f[s], KeysAt(g, k, s))}
<1> HIDE DEF n
<1>6. {} \in Good
  <2>1. f[{}] \in Val /\ {} \in SUBSET D
    BY <1>5
  <2>2. Walks(t, t, KeysAt(g, k, {}))
    <3>1. KeysAt(g, k, {}) = {}
      BY DEF KeysAt
    <3> QED
      BY <3>1, StandingWalks
  <2> HIDE DEF Val, D
  <2> QED
    BY <1>5, <2>1, <2>2
<1>7. \A s \in SUBSET D : s # {} /\ rest[s] \in Good => s \in Good
  <2> TAKE s \in SUBSET D
  <2> HAVE s # {} /\ rest[s] \in Good
  <2> DEFINE j == Max(s)
             u == f[rest[s]]
             key == <<g, Table(Fields[g][k], names[j]), names[j]>>
  <2>1. u \in Val /\ Walks(t, u, KeysAt(g, k, rest[s]))
    OBVIOUS
  <2>2. j \in s /\ j \in 1..n /\ rest[s] = s \ {j} /\ names[j] \in Range(Fields[g][k].names)
    BY <1>2, <1>3
  <2>3. f[s] = Register(u, g, k, names[j])
    BY <1>5
  <2>4. KeysAt(g, k, s) = KeysAt(g, k, rest[s]) \cup {key}
    BY <2>2 DEF KeysAt
  <2>9. s \in SUBSET D
    OBVIOUS
  <2> DEFINE name == names[j]
             v == Register(u, g, k, name)
  <2>10. name \in Range(Fields[g][k].names) /\ key = <<g, Table(Fields[g][k], name), name>>
    BY <2>2
  <2> HIDE DEF j, u, rest, D, Val, key, name, names, Good
  <2>5. v \in Near(K, I, R)
    BY <2>1, <2>10, RegisterKeeps DEF Val
  <2>6. WellFormed(v) /\ Sound(u)
    BY <2>1, <2>5 DEF Walks, Near
  <2>7. Walks(u, v, {key})
    BY <2>6, <2>10, RegisterWalks
  <2> HIDE DEF v
  <2>8. Walks(t, v, KeysAt(g, k, s))
    BY <2>1, <2>4, <2>7, WalksOn
  <2> QED
    BY <2>3, <2>5, <2>8, <2>9 DEF Good, Val, v, name
<1>8. IsFiniteSet(D) /\ Shrinks(rest, D)
  <2>1. IsFiniteSet(D)
    <3> HIDE DEF names
    <3> QED
      BY <1>1, FS_Interval
  <2>2. Shrinks(rest, D)
    BY <1>1, DroppingMaxShrinks
  <2> QED
    BY <2>1, <2>2
<1>9. D \in SUBSET D
  OBVIOUS
<1> HIDE DEF Good, rest, D
<1>10. SUBSET D \subseteq Good
  BY <1>6, <1>7, <1>8, EverySubset
<1>11. Walks(t, f[1..n], KeysAt(g, k, 1..n))
  BY <1>9, <1>10 DEF Good, D
<1>12. KeysAt(g, k, 1..n) = ToSet(KeysOf(g, k))
  BY <1>1 DEF KeysAt, KeysOf, ToSet
<1> QED
  BY <1>5, <1>11, <1>12

(* The whole model.                                                        *)
LEMMA PreWalkWalks ==
  ASSUME NEW K, NEW I, NEW R, Room(K, I, R), NEW g \in Handlers, NEW t \in Near(K, I, R),
         Sound(t), t.outcome = "ok"
  PROVE  Walks(t, PreWalk(t, g), ModelKeys(g))
<1> DEFINE n == Len(Fields[g])
           D == 1..n
           rest == [s \in SUBSET D |-> s \ {Max(s)}]
           Val == Near(K, I, R)
           Keys(s) == UNION {ToSet(KeysOf(g, k)) : k \in s}
<1>1. n \in Nat /\ DOMAIN Fields[g] = 1..n
  BY FieldAssumption
<1>3. \A s \in SUBSET (1..n) : s # {} => Max(s) \in s
  BY <1>1, MaxIsMember
<1>4. \E f : FieldsFold(f, t, g)
  BY PreWalkFolds
<1> PICK f : FieldsFold(f, t, g)
  BY <1>4
<1>5. /\ f[{}] = [t EXCEPT !.outcome = "ok"] /\ PreWalk(t, g) = f[1..n]
      /\ \A s \in SUBSET (1..n) : s # {} =>
           f[s] = RegisterField(f[s \ {Max(s)}], g, Max(s))
  BY DEF FieldsFold
<1>2. f[{}] = t
  BY <1>5 DEF Sound, WellFormed
<1> DEFINE Good == {s \in SUBSET D : f[s] \in Val /\ Walks(t, f[s], Keys(s))}
<1> HIDE DEF n
<1>6. {} \in Good
  <2>1. f[{}] \in Val /\ {} \in SUBSET D
    BY <1>2
  <2>2. Walks(t, t, Keys({}))
    <3>1. Keys({}) = {}
      OBVIOUS
    <3> QED
      BY <3>1, StandingWalks
  <2> HIDE DEF Val, D, Keys
  <2> QED
    BY <1>2, <2>1, <2>2
<1>7. \A s \in SUBSET D : s # {} /\ rest[s] \in Good => s \in Good
  <2> TAKE s \in SUBSET D
  <2> HAVE s # {} /\ rest[s] \in Good
  <2> DEFINE j == Max(s)
             u == f[rest[s]]
             v == RegisterField(u, g, j)
  <2>1. u \in Val /\ Walks(t, u, Keys(rest[s]))
    OBVIOUS
  <2>2. j \in s /\ j \in DOMAIN Fields[g] /\ rest[s] = s \ {j}
    BY <1>1, <1>3
  <2>3. f[s] = v
    BY <1>5
  <2>4. Keys(s) = Keys(rest[s]) \cup ToSet(KeysOf(g, j))
    BY <2>2
  <2>9. s \in SUBSET D
    OBVIOUS
  <2> HIDE DEF j, u, rest, D, Val, Good, Keys
  <2>5. v \in Near(K, I, R)
    BY <2>1, <2>2, RegisterFieldKeeps DEF Val
  <2>6. Sound(u) /\ u \in Near(K, I, R)
    BY <2>1 DEF Walks, Val
  <2>7. Walks(u, v, ToSet(KeysOf(g, j)))
    BY <2>2, <2>6, RegisterFieldWalks
  <2> HIDE DEF v
  <2>8. Walks(t, v, Keys(s))
    BY <2>1, <2>4, <2>7, WalksOn
  <2> QED
    BY <2>3, <2>5, <2>8, <2>9 DEF Good, Val
<1>8. IsFiniteSet(D) /\ Shrinks(rest, D)
  <2>1. IsFiniteSet(D)
    BY <1>1, FS_Interval
  <2>2. Shrinks(rest, D)
    BY <1>1, DroppingMaxShrinks
  <2> QED
    BY <2>1, <2>2
<1>9. D \in SUBSET D
  OBVIOUS
<1> HIDE DEF Good, rest, D
<1>10. SUBSET D \subseteq Good
  BY <1>6, <1>7, <1>8, EverySubset
<1>11. Walks(t, f[1..n], Keys(1..n))
  BY <1>9, <1>10 DEF Good, D
<1>12. Keys(1..n) = ModelKeys(g)
  BY <1>1 DEF ModelKeys
<1> QED
  BY <1>5, <1>11, <1>12

(* All models that were requested.                                         *)
LEMMA WalkRequestsWalks ==
  ASSUME NEW K, NEW I, NEW R, Room(K, I, R), NEW gs \in Seq(Handlers), NEW t \in Near(K, I, R),
         Sound(t)
  PROVE  Walks(t, WalkRequests(t, gs), UNION {ModelKeys(g) : g \in ToSet(gs)})
<1> DEFINE n == Len(gs)
           D == 1..n
           rest == [s \in SUBSET D |-> s \ {Max(s)}]
           Val == Near(K, I, R)
           Keys(s) == UNION {ModelKeys(gs[j]) : j \in s}
<1>1. n \in Nat /\ DOMAIN gs = 1..n /\ \A j \in 1..n : gs[j] \in Handlers
  OBVIOUS
<1>3. \A s \in SUBSET (1..n) : s # {} => Max(s) \in s
  BY <1>1, MaxIsMember
<1>4. \E f : RequestsFold(f, t, gs)
  BY WalkRequestsFolds
<1> PICK f : RequestsFold(f, t, gs)
  BY <1>4
<1>5. /\ f[{}] = t /\ WalkRequests(t, gs) = f[1..n]
      /\ \A s \in SUBSET (1..n) : s # {} => f[s] = WalkNext(f[s \ {Max(s)}], gs[Max(s)])
  BY DEF RequestsFold
<1> DEFINE Good == {s \in SUBSET D : f[s] \in Val /\ Walks(t, f[s], Keys(s))}
<1> HIDE DEF n
<1>6. {} \in Good
  <2>1. f[{}] \in Val /\ {} \in SUBSET D
    BY <1>5
  <2>2. Walks(t, t, Keys({}))
    <3>1. Keys({}) = {}
      OBVIOUS
    <3> QED
      BY <3>1, StandingWalks
  <2> HIDE DEF Val, D, Keys
  <2> QED
    BY <1>5, <2>1, <2>2
<1>7. \A s \in SUBSET D : s # {} /\ rest[s] \in Good => s \in Good
  <2> TAKE s \in SUBSET D
  <2> HAVE s # {} /\ rest[s] \in Good
  <2> DEFINE j == Max(s)
             u == f[rest[s]]
             g == gs[j]
             v == WalkNext(u, g)
  <2>1. u \in Val /\ Walks(t, u, Keys(rest[s]))
    OBVIOUS
  <2>2. j \in s /\ g \in Handlers /\ rest[s] = s \ {j}
    BY <1>1, <1>3
  <2>3. f[s] = v
    BY <1>5
  <2>4. Keys(s) = Keys(rest[s]) \cup ModelKeys(g)
    BY <2>2
  <2>9. s \in SUBSET D
    OBVIOUS
  <2> HIDE DEF j, u, rest, D, Val, Good, Keys, g
  <2>6. Sound(u) /\ u \in Near(K, I, R)
    BY <2>1 DEF Walks, Val
  <2>5. v \in Near(K, I, R)
    BY <2>2, <2>6, PreWalkKeeps DEF WalkNext
  <2>7. Walks(u, v, ModelKeys(g))
    <3>1. CASE u.outcome = "ok"
      BY <2>2, <2>6, <3>1, PreWalkWalks DEF WalkNext
    <3>2. CASE u.outcome # "ok"
      BY <2>6, <3>2 DEF WalkNext, Walks, Later
    <3> QED
      BY <3>1, <3>2
  <2> HIDE DEF v
  <2>8. Walks(t, v, Keys(s))
    BY <2>1, <2>4, <2>7, WalksOn
  <2> QED
    BY <2>3, <2>5, <2>8, <2>9 DEF Good, Val
<1>8. IsFiniteSet(D) /\ Shrinks(rest, D)
  <2>1. IsFiniteSet(D)
    BY <1>1, FS_Interval
  <2>2. Shrinks(rest, D)
    BY <1>1, DroppingMaxShrinks
  <2> QED
    BY <2>1, <2>2
<1>9. D \in SUBSET D
  OBVIOUS
<1> HIDE DEF Good, rest, D
<1>10. SUBSET D \subseteq Good
  BY <1>6, <1>7, <1>8, EverySubset
<1>11. Walks(t, f[1..n], Keys(1..n))
  BY <1>9, <1>10 DEF Good, D
<1>12. Keys(1..n) = UNION {ModelKeys(g) : g \in ToSet(gs)}
  <2>1. ToSet(gs) = {gs[j] : j \in 1..n}
    BY <1>1 DEF ToSet
  <2> HIDE DEF ModelKeys
  <2> QED
    BY <2>1
<1> QED
  BY <1>5, <1>11, <1>12

(* From any tables.                                                        *)
LEMMA SoundWalks ==
  ASSUME NEW t, Sound(t), t.outcome = "ok"
  PROVE  /\ \A g \in Handlers : Walks(t, PreWalk(t, g), ModelKeys(g))
         /\ \A gs \in Seq(Handlers) :
              Walks(t, WalkRequests(t, gs), UNION {ModelKeys(g) : g \in ToSet(gs)})
<1>1. \E K, I, R : Room(K, I, R) /\ t \in Near(K, I, R)
  BY RoomIsThere DEF Sound
<1> PICK K, I, R : Room(K, I, R) /\ t \in Near(K, I, R)
  BY <1>1
<1>3. \A g \in Handlers : Walks(t, PreWalk(t, g), ModelKeys(g))
  BY PreWalkWalks
<1>4. \A gs \in Seq(Handlers) :
        Walks(t, WalkRequests(t, gs), UNION {ModelKeys(g) : g \in ToSet(gs)})
  BY WalkRequestsWalks
<1> QED
  BY <1>3, <1>4
-----------------------------------------------------------------------------
(* The parts of the second invariant.  A map has values without a key only *)
(* if one of its names stands with "=" among the arguments.                *)
AsValue(key) ==
  \E p \in DOMAIN args : /\ args[p].dashes > 0 /\ args[p].eq
                         /\ key = <<key[1], "long", args[p].name>>

ShortInv ==
  \A id \in DOMAIN tables.refs : Short(tables.refs[id]) =>
    \E key \in DOMAIN tables.at : tables.at[key] = id /\ AsValue(key)

(* While Configure goes on, all names of the requested models are entered, *)
(* and lead to their fields.                                               *)
Going == {"begin", "args", "import", "fill", "done"}

KnownInv ==
  /\ {Root, selected} \subseteq ToSet(requests)
  /\ pc \in Going => /\ tables.outcome = "ok" /\ h \in ToSet(requests)
                     /\ \A g \in ToSet(requests) : ModelKeys(g) \subseteq Open(tables)

(* Fill has done a field if it has a value just when its flags give one;   *)
(* all others are still to do.                                             *)
Done(f) == IsEmptied(f) \/ (result[f].filled <=> GivesValue(f))

FilledInv ==
  /\ pc = "fill" => ToSet(todo) \subseteq FieldsOf(ToSet(requests))
  /\ pc = "done" => todo = <<>>
  /\ pc \in {"fill", "done"} =>
       \A g \in {Root, selected} : \A k \in DOMAIN Fields[g] : <<g, k>> \in ToSet(todo) \/ Done(<<g, k>>)

FInv == Sound(tables) /\ ShortInv /\ KnownInv /\ FilledInv /\ PanicsAreKnown
-----------------------------------------------------------------------------
(* Steps that leave the tables alone and do not fill.                      *)
LEMMA QuietKeeps ==
  ASSUME FInv, UNCHANGED <<args, tables, requests, selected, h>>,
         pc' \in {"error", "usage"} \/ (pc \in Going /\ pc' \in Going \ {"fill", "done"})
  PROVE  FInv'
<1>1. Sound(tables)' /\ ShortInv'
  BY DEF FInv, ShortInv, AsValue
<1>2. pc' \notin {"fill", "done", "panic", "internal"}
  BY DEF Going
<1>3. KnownInv'
  BY <1>2 DEF FInv, KnownInv, Going
<1>4. FilledInv' /\ PanicsAreKnown'
  BY <1>2 DEF FilledInv, PanicsAreKnown
<1> QED
  BY <1>1, <1>3, <1>4 DEF FInv

(* Steps that give an entry values while parsing.                          *)
LEMMA FeedingKeeps ==
  ASSUME FInv, NEW id \in DOMAIN tables.refs, NEW r, Altered(tables.refs[id], r), Update(id, r),
         \/ Fed(tables.refs[id], r)
         \/ \E key \in DOMAIN tables.at : tables.at[key] = id /\ AsValue(key),
         pc = "args", UNCHANGED <<args, pc, requests, selected, h>>
  PROVE  FInv'
<1> DEFINE u == [tables EXCEPT !.refs[id] = r]
<1>1. /\ Sound(u) /\ u.at = tables.at /\ u.outcome = tables.outcome
      /\ DOMAIN u.refs = DOMAIN tables.refs /\ Open(u) = Open(tables)
      /\ \A q \in DOMAIN tables.refs : u.refs[q] = IF q = id THEN r ELSE tables.refs[q]
  BY AlteredIsSound DEF FInv
<1>2. tables' = u
  BY DEF Update
<1> HIDE DEF u
<1>3. ShortInv'
  <2> SUFFICES ASSUME NEW q \in DOMAIN tables.refs, Short(tables'.refs[q])
               PROVE  \E key \in DOMAIN tables.at : tables.at[key] = q /\ AsValue(key)
    BY <1>1, <1>2 DEF ShortInv, AsValue
  <2>1. CASE Short(tables.refs[q])
    BY <2>1 DEF FInv, ShortInv
  <2>2. CASE ~Short(tables.refs[q])
    BY <1>1, <1>2, <2>2 DEF Fed
  <2> QED
    BY <2>1, <2>2
<1>4. KnownInv'
  <2>1. Open(tables') = Open(tables)
    BY <1>1, <1>2
  <2> QED
    BY <1>1, <1>2, <2>1 DEF FInv, KnownInv, Going
<1>5. FilledInv' /\ PanicsAreKnown'
  BY DEF FilledInv, PanicsAreKnown
<1> QED
  BY <1>1, <1>2, <1>3, <1>4, <1>5 DEF FInv

(* A flag with its arguments.                                              *)
LEMMA SuppliedFeeds ==
  ASSUME IInv, NEW r, IsRef(r), Paired(r), Supplied(r), NEW dashed
  PROVE  Fed(r, GiveFollowing(r, Following(Arity(r)), dashed))
<1> DEFINE n == Arity(r)
           following == Following(n)
<1>1. n \in Nat /\ i + n <= Len(args)
  BY SuppliedIs
<1>2. Len(args) \in Nat /\ IsSeq(args) /\ i \in Nat /\ args \in ArgLists
  BY ArgsAre DEF IInv, StateInv
<1> HIDE DEF n
<1>3. IsSeq(following) /\ Len(following) = n
  <2>1. IsSeq(following)
    BY <1>1, <1>2, FollowingIs
  <2>2. i + 1 \in Nat \ {0} /\ i + n \in Nat
    BY <1>1, <1>2
  <2>3. Len(SubSeq(args, i + 1, i + n)) = IF i + 1 <= i + n THEN (i + n) - (i + 1) + 1 ELSE 0
    BY <1>1, <1>2, <2>2, PartIsSeq
  <2>4. Len(following) = IF i + 1 <= i + n THEN (i + n) - (i + 1) + 1 ELSE 0
    BY <2>3 DEF Following
  <2> HIDE DEF following
  <2>5. CASE n = 0
    BY <1>2, <2>1, <2>4, <2>5
  <2>6. CASE n # 0
    BY <1>1, <1>2, <2>1, <2>4, <2>6
  <2> QED
    BY <2>5, <2>6
<1> HIDE DEF following
<1>4. Fed(r, GiveFollowing(r, following, dashed))
  BY <1>3, GiveFollowingFeeds DEF n
<1> QED
  BY <1>4 DEF following, n

(* The entry that a key leads to.                                          *)
LEMMA SoundEntry ==
  ASSUME NEW t, Sound(t), NEW key \in DOMAIN t.at
  PROVE  LET id == t.at[key]
             r  == t.refs[id]
         IN  /\ id \in DOMAIN t.refs /\ id[1] = key[1] /\ IsRef(r) /\ Paired(r)
             /\ r.settable => /\ key[1] \in Handlers /\ id[3] \in DOMAIN Fields[key[1]]
                              /\ key \in ToSet(KeysOf(key[1], id[3]))
                              /\ r.kind = Fields[key[1]][id[3]].kind
<1> DEFINE id == t.at[key]
           r  == t.refs[id]
<1>1. id \in DOMAIN t.refs /\ id[1] = key[1]
  BY DEF Sound, WellFormed
<1>2. IsField(id) => key \in ToSet(KeysOf(id[1], id[3]))
  BY DEF Sound, Entered
<1> HIDE DEF id
<1>3. IsRef(r) /\ Paired(r)
  BY <1>1 DEF Sound, WellFormed
<1>4. IF IsField(id) THEN r.settable /\ r.kind = Fields[id[1]][id[3]].kind ELSE ~r.settable
  BY <1>1 DEF Sound, Entered
<1> HIDE DEF r
<1>5. r.settable => /\ key[1] \in Handlers /\ id[3] \in DOMAIN Fields[key[1]]
                    /\ key \in ToSet(KeysOf(key[1], id[3]))
                    /\ r.kind = Fields[key[1]][id[3]].kind
  BY <1>1, <1>2, <1>4 DEF IsField
<1> QED
  BY <1>1, <1>3, <1>5 DEF id, r

LEMMA FlagsFeed ==
  ASSUME IInv, FInv, LongFlag \/ ClusteredFlag \/ ShortFlag
  PROVE  FInv'
<1>0. Sound(tables)
  BY DEF FInv
<1>1. \E key \in DOMAIN tables.at : \E dashed :
        LET id == tables.at[key]
            r  == tables.refs[id]
        IN  Supplied(r) /\ Update(id, GiveFollowing(r, Following(Arity(r)), dashed))
  <2>1. CASE LongFlag
    <3> DEFINE key == LongKey(Arg.name)
    <3>1. key \in DOMAIN tables.at
      BY <2>1 DEF LongFlag, IsLongFlag
    <3>2. LET id == tables.at[key]
              r  == tables.refs[id]
          IN  Supplied(r) /\ Update(id, GiveFollowing(r, Following(Arity(r)), Spelled(Arg)))
      BY <2>1 DEF LongFlag, LongRef
    <3> HIDE DEF key
    <3> QED
      BY <3>1, <3>2
  <2>2. CASE ClusteredFlag
    <3> DEFINE key == ShortKey(Head(pending))
    <3>1. key \in DOMAIN tables.at
      BY <2>2 DEF ClusteredFlag, IsShortFlag
    <3>2. LET id == tables.at[key]
              r  == tables.refs[id]
          IN  Supplied(r) /\ Update(id, GiveFollowing(r, Following(Arity(r)), <<1, <<Head(pending)>>>>))
      BY <2>2 DEF ClusteredFlag
    <3> HIDE DEF key
    <3> QED
      BY <3>1, <3>2
  <2>3. CASE ShortFlag
    <3> DEFINE key == ShortKey(Arg.name[1])
    <3>1. key \in DOMAIN tables.at
      BY <2>3 DEF ShortFlag, IsShortFlag
    <3>2. LET id == tables.at[key]
              r  == tables.refs[id]
          IN  Supplied(r) /\ Update(id, GiveFollowing(r, Following(Arity(r)), Spelled(Arg)))
      BY <2>3 DEF ShortFlag
    <3> HIDE DEF key
    <3> QED
      BY <3>1, <3>2
  <2> QED
    BY <2>1, <2>2, <2>3
<1> PICK key \in DOMAIN tables.at :
           \E dashed : LET id == tables.at[key]
                           r  == tables.refs[id]
                       IN  Supplied(r) /\ Update(id, GiveFollowing(r, Following(Arity(r)), dashed))
  BY <1>1
<1> DEFINE id == tables.at[key]
           r  == tables.refs[id]
<1>2. id \in DOMAIN tables.refs /\ IsRef(r) /\ Paired(r)
  BY <1>0, SoundEntry
<1> PICK dashed : Supplied(r) /\ Update(id, GiveFollowing(r, Following(Arity(r)), dashed))
  OBVIOUS
<1> DEFINE given == GiveFollowing(r, Following(Arity(r)), dashed)
<1>3. Supplied(r) /\ Update(id, given)
  OBVIOUS
<1> HIDE DEF id
<1>4. Fed(tables.refs[id], given)
  BY <1>2, <1>3, SuppliedFeeds
<1> HIDE DEF given
<1>5. pc = "args" /\ UNCHANGED <<args, pc, requests, selected, h>>
  BY DEF LongFlag, ClusteredFlag, ShortFlag, Parsing, InCluster, Advance, AdvanceInCluster, setup
<1> QED
  BY <1>2, <1>3, <1>4, <1>5, FeedingKeeps DEF Fed

(* With an equals sign, to a map as well. *)
LEMMA ValueFeeds ==
  ASSUME IInv, FInv, LongFlagWithValue
  PROVE  FInv'
<1> DEFINE key == LongKey(Arg.name)
           id == tables.at[key]
           r == tables.refs[id]
           values == <<Arg.value>>
           given == Give(r, values, Spelled(Arg))
<1>1. /\ key \in DOMAIN tables.at /\ Update(id, given)
      /\ pc = "args" /\ UNCHANGED <<args, pc, requests, selected, h>>
      /\ i <= Len(args) /\ IsLong(Arg) /\ Arg.eq
  BY DEF LongFlagWithValue, IsLongFlag, LongRef, GiveValue, Parsing, Advance, setup
<1>2. AsValue(key)
  <2>1. DOMAIN args = 1..Len(args) /\ i \in 1..Len(args)
    BY <1>1, ArgsAre DEF IInv, StateInv
  <2>2. args[i].dashes > 0 /\ args[i].eq
    BY <1>1 DEF IsLong, Arg
  <2>3. key = <<key[1], "long", args[i].name>>
    BY DEF LongKey, Arg
  <2> HIDE DEF key
  <2> QED
    BY <2>1, <2>2, <2>3 DEF AsValue
<1> HIDE DEF key
<1>3. id \in DOMAIN tables.refs /\ IsRef(r) /\ Paired(r)
  BY <1>1, SoundEntry DEF FInv
<1>4. \E q \in DOMAIN tables.at : tables.at[q] = id /\ AsValue(q)
  BY <1>1, <1>2
<1> HIDE DEF id
<1>5. IsSeq(values) /\ values # <<>>
  BY OneIsSome
<1> HIDE DEF values
<1>6. Altered(tables.refs[id], given)
  BY <1>3, <1>5, GiveAlters
<1> HIDE DEF given
<1> QED
  BY <1>1, <1>3, <1>4, <1>6, FeedingKeeps

LEMMA NegatedFeeds ==
  ASSUME IInv, FInv, NegatedFlag
  PROVE  FInv'
<1> DEFINE key == LongKey(Tail(Arg.name))
           id == tables.at[key]
           r == tables.refs[id]
           values == <<No>>
           given == Give(r, values, Spelled(Arg))
<1>1. /\ key \in DOMAIN tables.at /\ r.kind = "bool" /\ Update(id, given)
      /\ pc = "args" /\ UNCHANGED <<args, pc, requests, selected, h>>
  BY DEF NegatedFlag, IsNegated, IsLongFlag, LongRef, Parsing, Advance, setup
<1>2. Sound(tables)
  BY DEF FInv
<1> HIDE DEF key
<1>3. id \in DOMAIN tables.refs /\ IsRef(r) /\ Paired(r)
  BY <1>1, <1>2, SoundEntry
<1> HIDE DEF id
<1>4. r.kind \notin Keyed
  BY <1>1 DEF Keyed
<1>5. IsSeq(values) /\ values # <<>>
  BY OneIsSome
<1> HIDE DEF values
<1>6. Fed(tables.refs[id], given)
  BY <1>3, <1>4, <1>5, GiveAlters
<1> HIDE DEF given
<1> QED
  BY <1>1, <1>3, <1>6, FeedingKeeps DEF Fed

LEMMA PrefixedFeeds ==
  ASSUME IInv, FInv, PrefixedFlag
  PROVE  FInv'
<1> DEFINE n   == PrefixOf(Arg.name)
           key == <<h, "map", n>>
           id  == tables.at[key]
           r   == tables.refs[id]
           given == GivePrefixed(r, SubSeq(Arg.name, Len(n) + 1, Len(Arg.name)),
                                 Arg.value, <<Arg.dashes, n>>)
<1>1. /\ n # <<>> /\ Update(id, given)
      /\ pc = "args" /\ UNCHANGED <<args, pc, requests, selected, h>>
  BY DEF PrefixedFlag, Parsing, Advance, setup
<1>2. Sound(tables)
  BY DEF FInv
<1>3. key \in DOMAIN tables.at
  BY <1>1, PrefixIs
<1> HIDE DEF n, key
<1>4. id \in DOMAIN tables.refs /\ IsRef(r) /\ Paired(r)
  BY <1>2, <1>3, SoundEntry
<1> HIDE DEF id
<1>5. Fed(tables.refs[id], given)
  BY <1>4, GivePrefixedFeeds
<1> HIDE DEF given
<1> QED
  BY <1>1, <1>4, <1>5, FeedingKeeps DEF Fed
-----------------------------------------------------------------------------
(* The walks.  What they add is no short map. *)
LEMMA LaterKeepsShort ==
  ASSUME FInv, Later(tables, tables'), args' = args
  PROVE  ShortInv'
<1> SUFFICES ASSUME NEW id \in DOMAIN tables'.refs, Short(tables'.refs[id])
             PROVE  \E key \in DOMAIN tables'.at : tables'.at[key] = id /\ AsValue(key)
  BY DEF ShortInv, AsValue
<1>1. id \in DOMAIN tables.refs
  BY DEF Later
<1>2. tables'.refs[id] = tables.refs[id]
  BY <1>1 DEF Later
<1>3. PICK key \in DOMAIN tables.at : tables.at[key] = id /\ AsValue(key)
  BY <1>1, <1>2 DEF FInv, ShortInv
<1> QED
  BY <1>3 DEF Later

LEMMA ConfigureKnows ==
  ASSUME IInv, FInv, Configure
  PROVE  FInv'
<1> DEFINE fresh == [tables EXCEPT !.outcome = "ok"]
           walked == WalkRequests(fresh, requests)
           keys == UNION {ModelKeys(g) : g \in ToSet(requests)}
<1>1. /\ tables' = walked /\ pc' = Walked(walked) /\ h' = Root /\ todo' = <<>>
      /\ UNCHANGED <<args, requests, selected>>
  BY DEF Configure, setup
<1>2. requests \in Seq(Handlers) /\ Sound(tables) /\ {Root, selected} \subseteq ToSet(requests)
  BY DEF FInv, KnownInv, IInv, StateInv
<1>3. /\ WellFormed(fresh) /\ fresh.at = tables.at /\ fresh.refs = tables.refs
      /\ fresh.outcome = "ok"
  BY <1>2, OutcomeKeeps DEF Sound
<1> HIDE DEF fresh
<1>4. Sound(fresh)
  BY <1>2, <1>3 DEF Sound, Entered
<1>5. Walks(fresh, walked, keys)
  BY <1>2, <1>3, <1>4, SoundWalks
<1> HIDE DEF walked
<1>6. Later(tables, walked)
  BY <1>3, <1>5 DEF Walks, Later
<1>7. Sound(tables)' /\ ShortInv'
  BY <1>1, <1>5, <1>6, LaterKeepsShort DEF Walks
<1>8. /\ walked.outcome \in {"ok", "error", "panic"}
      /\ walked.outcome = "ok" => keys \subseteq Open(walked)
      /\ walked.outcome = "panic" => \E key \in keys : key \in Closed(walked)
  BY <1>3, <1>5 DEF Walks, Sound, WellFormed
<1>9. pc' = IF walked.outcome = "ok" THEN "begin" ELSE walked.outcome
  BY <1>1 DEF Walked
<1>10. KnownInv'
  <2>1. CASE walked.outcome = "ok"
    <3>1. \A g \in ToSet(requests) : ModelKeys(g) \subseteq Open(walked)
      BY <1>8, <2>1
    <3> QED
      BY <1>1, <1>2, <2>1, <3>1 DEF KnownInv
  <2>2. CASE walked.outcome # "ok"
    <3>1. pc' \notin Going
      BY <1>8, <1>9, <2>2 DEF Going
    <3> QED
      BY <1>1, <1>2, <3>1 DEF KnownInv
  <2> QED
    BY <2>1, <2>2
<1>11. PanicsAreKnown'
  <2> SUFFICES ASSUME walked.outcome = "panic" PROVE NameIsTaken'
    BY <1>8, <1>9 DEF PanicsAreKnown
  <2>1. PICK key \in keys : key \in Closed(walked)
    BY <1>8
  <2>2. PICK g \in ToSet(requests) : key \in ModelKeys(g)
    BY <2>1
  <2>3. PICK k \in DOMAIN Fields[g] : key \in ToSet(KeysOf(g, k))
    BY <2>2 DEF ModelKeys
  <2>4. key \in DOMAIN tables'.at /\ ~tables'.refs[tables'.at[key]].settable
    BY <1>1, <2>1 DEF Closed, Open
  <2> QED
    BY <1>1, <2>3, <2>4 DEF NameIsTaken
<1>12. FilledInv'
  <2>1. pc' \notin {"fill", "done"}
    BY <1>8, <1>9
  <2> QED
    BY <2>1 DEF FilledInv
<1> QED
  BY <1>7, <1>10, <1>11, <1>12 DEF FInv

LEMMA SubcommandKnows ==
  ASSUME IInv, FInv, Subcommand
  PROVE  FInv'
<1> DEFINE g == Arg.name
           walked == PreWalk(tables, g)
<1>1. /\ tables' = walked /\ pc' = Walked(walked) /\ pc = "args" /\ g \in Commands
      /\ requests' = Append(requests, g)
      /\ IF walked.outcome = "ok" THEN selected' = g /\ h' = g ELSE UNCHANGED <<selected, h>>
      /\ UNCHANGED args
  BY DEF Subcommand, Parsing, IsCommand, setup
<1> HIDE DEF g
<1>2. /\ Sound(tables) /\ tables.outcome = "ok"
      /\ requests \in Seq(Handlers) /\ g \in Handlers
      /\ \A other \in ToSet(requests) : ModelKeys(other) \subseteq Open(tables)
  BY <1>1 DEF FInv, KnownInv, Going, IInv, StateInv, Handlers
<1>3. Walks(tables, walked, ModelKeys(g))
  BY <1>2, SoundWalks
<1> HIDE DEF walked
<1>4. Sound(tables)' /\ ShortInv'
  BY <1>1, <1>3, LaterKeepsShort DEF Walks
<1>5. /\ walked.outcome \in {"ok", "error", "panic"}
      /\ walked.outcome = "ok" => ModelKeys(g) \subseteq Open(walked)
      /\ walked.outcome = "panic" => \E key \in ModelKeys(g) : key \in Closed(walked)
      /\ Open(tables) \subseteq Open(walked)
  BY <1>2, <1>3, LaterOpens DEF Walks, Sound, WellFormed
<1>6. ToSet(requests') = ToSet(requests) \cup {g}
  <2> DEFINE one == <<g>>
  <2>1. one \in Seq(Handlers) /\ ToSet(one) = {g} /\ requests' = requests \o one
    <3>1. requests' = requests \o <<g>>
      BY <1>1, <1>2
    <3>2. <<g>> \in Seq(Handlers) /\ ToSet(<<g>>) = {g}
      BY <1>2 DEF ToSet
    <3> QED
      BY <3>1, <3>2
  <2> HIDE DEF one
  <2> QED
    BY <1>2, <2>1, ConcatMembers
<1>7. pc' = IF walked.outcome = "ok" THEN "begin" ELSE walked.outcome
  BY <1>1 DEF Walked
<1>8. KnownInv'
  <2>1. CASE walked.outcome = "ok"
    <3>1. {Root, selected'} \subseteq ToSet(requests') /\ h' \in ToSet(requests')
      BY <1>1, <1>6, <2>1 DEF FInv, KnownInv
    <3>2. \A other \in ToSet(requests') : ModelKeys(other) \subseteq Open(walked)
      BY <1>2, <1>5, <1>6, <2>1
    <3> QED
      BY <1>1, <2>1, <3>1, <3>2 DEF KnownInv
  <2>2. CASE walked.outcome # "ok"
    <3>1. pc' \notin Going
      BY <1>5, <1>7, <2>2 DEF Going
    <3>2. {Root, selected'} \subseteq ToSet(requests')
      BY <1>1, <1>6, <2>2 DEF FInv, KnownInv
    <3> QED
      BY <3>1, <3>2 DEF KnownInv
  <2> QED
    BY <2>1, <2>2
<1>9. PanicsAreKnown'
  <2> SUFFICES ASSUME walked.outcome = "panic" PROVE NameIsTaken'
    BY <1>5, <1>7 DEF PanicsAreKnown
  <2>1. PICK key \in ModelKeys(g) : key \in Closed(walked)
    BY <1>5
  <2>2. PICK k \in DOMAIN Fields[g] : key \in ToSet(KeysOf(g, k))
    BY <2>1 DEF ModelKeys
  <2>3. key \in DOMAIN tables'.at /\ ~tables'.refs[tables'.at[key]].settable
    BY <1>1, <2>1 DEF Closed, Open
  <2> QED
    BY <1>6, <2>2, <2>3 DEF NameIsTaken
<1>10. FilledInv'
  <2>1. pc' \notin {"fill", "done"}
    BY <1>5, <1>7
  <2> QED
    BY <2>1 DEF FilledInv
<1> QED
  BY <1>4, <1>8, <1>9, <1>10 DEF FInv

(* The preparations of parsing. *)
LEMMA ForgetFeeds ==
  ASSUME NEW refs, NEW cleared, \A id \in DOMAIN refs : IsRef(refs[id]) /\ Paired(refs[id])
  PROVE  \A id \in DOMAIN refs : Fed(refs[id], Forget(refs, cleared)[id])
<1>1. \A id \in DOMAIN refs : Fed(refs[id], refs[id]) /\ Fed(refs[id], Cleared(refs[id]))
  BY ClearedFeeds DEF Fed, Altered
<1> QED
  BY <1>1 DEF Forget

LEMMA BeginKnows ==
  ASSUME IInv, FInv, Begin
  PROVE  FInv'
<1> DEFINE kept  == IF h \in parsed THEN Forget(tables.refs, ClearedBy(h)) ELSE tables.refs
           added == GetHelp(h)
           keys  == {HelpKey(g) : g \in added}
           ids   == {HelpId(g) : g \in added}
           at   == [key \in DOMAIN tables.at \cup keys |->
                      IF key \in DOMAIN tables.at THEN tables.at[key] ELSE HelpId(key[1])]
           refs == [id \in DOMAIN kept \cup ids |->
                      IF id \in DOMAIN kept THEN kept[id] ELSE PlainRef("bool")]
           new == PlainRef("bool")
<1>1. /\ WellFormed(tables) /\ Entered(tables) /\ tables.outcome = "ok"
      /\ h \in ToSet(requests) /\ {Root, selected} \subseteq ToSet(requests)
      /\ \A g \in ToSet(requests) : ModelKeys(g) \subseteq Open(tables)
      /\ \A id \in DOMAIN tables.refs : IsRef(tables.refs[id]) /\ Paired(tables.refs[id])
  <2>1. pc = "begin"
    BY DEF Begin
  <2> QED
    BY <2>1 DEF FInv, Sound, WellFormed, KnownInv, Going
<1>2. DOMAIN kept = DOMAIN tables.refs /\ \A id \in DOMAIN kept : Fed(tables.refs[id], kept[id])
  <2>1. CASE h \in parsed
    BY <1>1, <2>1, ForgetFeeds DEF Forget
  <2>2. CASE h \notin parsed
    BY <1>1, <2>2 DEF Fed, Altered
  <2> QED
    BY <2>1, <2>2
<1>3. WellFormed(tables')
  BY BeginTablesAre
<1> HIDE DEF kept
<1>4. /\ UNCHANGED <<args, h, requests>> /\ selected' \in {Root, selected}
      /\ \/ pc' = "clash" /\ tables' = [tables EXCEPT !.refs = kept]
         \/ pc' = "args" /\ tables' = [tables EXCEPT !.at = at, !.refs = refs]
  BY DEF Begin, kept, setup
<1> HIDE DEF added
<1>5. /\ \A id \in ids : ~IsField(id)
      /\ \A key \in keys : ~IsField(HelpId(key[1]))
  BY DEF HelpId, IsField
<1>6. /\ DOMAIN at = DOMAIN tables.at \cup keys
      /\ \A key \in DOMAIN at :
           at[key] = IF key \in DOMAIN tables.at THEN tables.at[key] ELSE HelpId(key[1])
  OBVIOUS
<1>7. /\ DOMAIN refs = DOMAIN kept \cup ids
      /\ \A id \in DOMAIN refs : refs[id] = IF id \in DOMAIN kept THEN kept[id] ELSE new
  OBVIOUS
<1>8. Paired(new) /\ ~new.settable
  BY NewRefsArePaired
<1> HIDE DEF keys, ids, at, refs, new
<1>9. /\ tables'.outcome = "ok"
      /\ \A key \in DOMAIN tables.at : key \in DOMAIN tables'.at /\ tables'.at[key] = tables.at[key]
      /\ \A key \in DOMAIN tables'.at :
           key \in DOMAIN tables.at \/ ~IsField(tables'.at[key])
      /\ \A id \in DOMAIN tables.refs :
           id \in DOMAIN tables'.refs /\ tables'.refs[id] = kept[id]
      /\ \A id \in DOMAIN tables'.refs :
           id \in DOMAIN tables.refs \/ (tables'.refs[id] = new /\ ~IsField(id))
  <2>1. CASE pc' = "clash"
    <3>1. tables' = [tables EXCEPT !.refs = kept]
      BY <1>4, <2>1
    <3>2. tables'.at = tables.at /\ tables'.refs = kept /\ tables'.outcome = tables.outcome
      BY <1>1, <3>1 DEF WellFormed
    <3> QED
      BY <1>1, <1>2, <3>2
  <2>2. CASE pc' = "args"
    <3>1. tables' = [tables EXCEPT !.at = at, !.refs = refs]
      BY <1>4, <2>2
    <3>2. tables'.at = at /\ tables'.refs = refs /\ tables'.outcome = tables.outcome
      BY <1>1, <3>1 DEF WellFormed
    <3> QED
      BY <1>1, <1>2, <1>5, <1>6, <1>7, <3>2
  <2> QED
    BY <1>4, <2>1, <2>2
<1>10. Sound(tables)'
  <2>1. \A id \in DOMAIN tables'.refs :
          /\ Paired(tables'.refs[id])
          /\ IF IsField(id)
             THEN tables'.refs[id].settable /\ tables'.refs[id].kind = Fields[id[1]][id[3]].kind
             ELSE ~tables'.refs[id].settable
    <3> TAKE id \in DOMAIN tables'.refs
    <3>1. CASE id \in DOMAIN tables.refs
      <4>1. tables'.refs[id] = kept[id] /\ Fed(tables.refs[id], kept[id])
        BY <1>2, <1>9, <3>1
      <4>2. IF IsField(id) THEN tables.refs[id].settable /\ tables.refs[id].kind = Fields[id[1]][id[3]].kind
            ELSE ~tables.refs[id].settable
        BY <1>1, <3>1 DEF Entered
      <4> QED
        BY <4>1, <4>2 DEF Fed, Altered
    <3>2. CASE id \notin DOMAIN tables.refs
      BY <1>8, <1>9, <3>2
    <3> QED
      BY <3>1, <3>2
  <2>2. \A key \in DOMAIN tables'.at :
          IsField(tables'.at[key]) => key \in ToSet(KeysOf(tables'.at[key][1], tables'.at[key][3]))
    BY <1>1, <1>9 DEF Entered
  <2> QED
    BY <1>3, <2>1, <2>2 DEF Sound, Entered
<1>11. ShortInv'
  <2> SUFFICES ASSUME NEW id \in DOMAIN tables'.refs, Short(tables'.refs[id])
               PROVE  \E key \in DOMAIN tables'.at : tables'.at[key] = id /\ AsValue(key)
    BY <1>4 DEF ShortInv, AsValue
  <2>1. id \in DOMAIN tables.refs
    BY <1>8, <1>9 DEF Short
  <2>2. Short(tables.refs[id])
    BY <1>2, <1>9, <2>1 DEF Fed
  <2>3. PICK key \in DOMAIN tables.at : tables.at[key] = id /\ AsValue(key)
    BY <2>1, <2>2 DEF FInv, ShortInv
  <2> QED
    BY <1>9, <2>3
<1>12. KnownInv'
  <2>1. Open(tables) \subseteq Open(tables')
    <3> SUFFICES ASSUME NEW key \in Open(tables) PROVE key \in Open(tables')
      OBVIOUS
    <3> DEFINE id == tables.at[key]
    <3>1. key \in DOMAIN tables.at /\ tables.refs[id].settable /\ id \in DOMAIN tables.refs
      BY <1>1 DEF Open, WellFormed
    <3>2. key \in DOMAIN tables'.at /\ tables'.at[key] = id
      BY <1>9, <3>1
    <3> HIDE DEF id
    <3>3. tables'.refs[id].settable
      BY <1>2, <1>9, <3>1 DEF Fed, Altered
    <3> QED
      BY <3>2, <3>3 DEF Open
  <2> QED
    BY <1>1, <1>4, <1>9, <2>1 DEF KnownInv
<1>13. FilledInv' /\ PanicsAreKnown'
  BY <1>4 DEF FilledInv, PanicsAreKnown
<1> QED
  BY <1>10, <1>11, <1>12, <1>13 DEF FInv
-----------------------------------------------------------------------------
(* Fill. *)
LEMMA ImportKnows ==
  ASSUME IInv, FInv, ImportFlags
  PROVE  FInv'
<1>1. /\ pc = "import" /\ UNCHANGED <<args, tables, requests, selected, h>>
      /\ pc' \in {"fill", "error"}
  BY DEF ImportFlags, setup
<1>2. CASE pc' = "error"
  BY <1>1, <1>2, QuietKeeps
<1>3. CASE pc' = "fill"
  <2>1. ToSet(todo') = FieldsOf(ToSet(requests))
    <3>1. requests \in Seq(Handlers)
      BY DEF IInv, StateInv
    <3>2. todo' = FoldLeft(LAMBDA fields, g : fields \o [k \in DOMAIN Fields[g] |-> <<g, k>>],
                           <<>>, requests)
      BY <1>3 DEF ImportFlags
    <3> QED
      BY <3>1, <3>2, FieldsAre
  <2>2. Sound(tables)' /\ ShortInv'
    BY <1>1 DEF FInv, ShortInv, AsValue
  <2>3. KnownInv'
    BY <1>1, <1>3 DEF FInv, KnownInv, Going
  <2>4. FilledInv'
    <3>1. \A g \in {Root, selected} : \A k \in DOMAIN Fields[g] : <<g, k>> \in FieldsOf(ToSet(requests))
      BY DEF FInv, KnownInv, FieldsOf
    <3> QED
      BY <1>1, <1>3, <2>1, <3>1 DEF FilledInv
  <2>5. PanicsAreKnown'
    BY <1>3 DEF PanicsAreKnown
  <2> QED
    BY <2>2, <2>3, <2>4, <2>5 DEF FInv
<1> QED
  BY <1>1, <1>2, <1>3

(* The entry of a field that has values gives a value or an error, unless  *)
(* it is a map: with no key it gives none, with too few it panics.         *)
LEMMA FillFromFills ==
  ASSUME NEW r, IsRef(r), Paired(r), r.settable, r.values # <<>>, NEW f
  PROVE  LET filled == FillFrom(r, f)
         IN  /\ filled.error \in {"none", "usage", "panic"}
             /\ filled.error = "none" => (filled.filled <=> (r.kind \in Keyed => r.keys # <<>>))
             /\ filled.error = "panic" => Short(r) /\ r.keys # <<>>
<1>1. /\ \A v : Filled(v).filled /\ Filled(v).error = "none"
      /\ \A e : Failed(e).error = e
      /\ ~Unfilled.filled /\ Unfilled.error = "none"
  BY DEF Filled, Failed, Unfilled
<1>2. CASE r.kind = "counter"
  <2>1. FillFrom(r, f) = IF Countable(r.values) THEN Filled(Count(r.values)) ELSE Failed("usage")
    BY <1>2 DEF FillFrom, Keyed, Several
  <2>2. r.kind \notin Keyed
    BY <1>2 DEF Keyed
  <2> QED
    BY <1>1, <2>1, <2>2
<1>3. CASE r.kind \in Keyed
  <2>1. FillFrom(r, f) = IF r.keys = <<>> THEN Unfilled
                         ELSE IF Len(r.keys) < Len(r.values) THEN Failed("panic")
                         ELSE Filled(Pairing(r.keys, r.values))
    BY <1>3 DEF FillFrom, Keyed, Several
  <2>2. CASE r.keys = <<>>
    BY <1>1, <1>3, <2>1, <2>2
  <2>3. CASE r.keys # <<>> /\ Len(r.keys) < Len(r.values)
    BY <1>1, <1>3, <2>1, <2>3 DEF Short
  <2>4. CASE r.keys # <<>> /\ ~(Len(r.keys) < Len(r.values))
    BY <1>1, <1>3, <2>1, <2>4
  <2> QED
    BY <2>2, <2>3, <2>4
<1>4. CASE r.kind # "counter" /\ r.kind \notin Keyed /\ r.kind \in Several /\ Len(r.values) > 1
  <2>1. FillFrom(r, f) =
          Filled(SubSeq(r.values, 1, IF f.kind = "slice" THEN Len(r.values)
                                     ELSE Min({f.size, Len(r.values)})))
    BY <1>4 DEF FillFrom
  <2> QED
    BY <1>1, <1>4, <2>1
<1>5. CASE r.kind # "counter" /\ r.kind \notin Keyed /\ ~(r.kind \in Several /\ Len(r.values) > 1)
  <2>1. FillFrom(r, f) = IF r.kind = "bool" /\ Last(r.values) \notin Truth
                         THEN Failed("usage") ELSE Filled(<<Last(r.values)>>)
    BY <1>5 DEF FillFrom
  <2> QED
    BY <1>1, <1>5, <2>1
<1> QED
  BY <1>2, <1>3, <1>4, <1>5

(* The first of some fields, and the others.                               *)
LEMMA HeadOrTail ==
  ASSUME NEW S, NEW s \in Seq(S), s # <<>>
  PROVE  ToSet(s) = {Head(s)} \cup ToSet(Tail(s))
<1>1. /\ DOMAIN s = 1..Len(s) /\ Len(s) \in Nat \ {0} /\ Head(s) = s[1]
      /\ Tail(s) \in Seq(S) /\ Len(Tail(s)) = Len(s) - 1
      /\ \A j \in 1..(Len(s) - 1) : Tail(s)[j] = s[j + 1]
  OBVIOUS
<1>2. DOMAIN Tail(s) = 1..(Len(s) - 1)
  BY <1>1
<1> DEFINE t == Tail(s)
<1> HIDE DEF t
<1>3. DOMAIN t = 1..(Len(s) - 1) /\ \A j \in 1..(Len(s) - 1) : t[j] = s[j + 1]
  BY <1>1, <1>2 DEF t
<1>4. \A j \in 1..Len(s) : s[j] = s[1] \/ s[j] \in ToSet(t)
  <2> TAKE j \in 1..Len(s)
  <2>1. CASE j = 1
    BY <2>1
  <2>2. CASE j # 1
    <3>1. j - 1 \in 1..(Len(s) - 1) /\ (j - 1) + 1 = j
      BY <1>1, <2>2
    <3>2. t[j - 1] = s[j]
      BY <1>3, <3>1
    <3> QED
      BY <1>3, <3>1, <3>2 DEF ToSet
  <2> QED
    BY <2>1, <2>2
<1>5. \A j \in 1..(Len(s) - 1) : t[j] \in ToSet(s)
  <2> TAKE j \in 1..(Len(s) - 1)
  <2>1. j + 1 \in 1..Len(s)
    BY <1>1
  <2> QED
    BY <1>1, <1>3, <2>1 DEF ToSet
<1>6. s[1] \in ToSet(s)
  <2>1. 1 \in 1..Len(s)
    BY <1>1
  <2> QED
    BY <1>1, <2>1 DEF ToSet
<1>7. ToSet(s) = {s[1]} \cup ToSet(t)
  <2>1. ToSet(s) \subseteq {s[1]} \cup ToSet(t)
    BY <1>1, <1>4 DEF ToSet
  <2>2. ToSet(t) \subseteq ToSet(s)
    BY <1>3, <1>5 DEF ToSet
  <2> QED
    BY <1>6, <2>1, <2>2
<1> QED
  BY <1>1, <1>7 DEF t

(* A name that decides is one of the field.                                *)
LEMMA DecidingIs ==
  ASSUME NEW f, Deciding(f) # {}, DOMAIN KeysOf(f[1], f[2]) \subseteq Nat
  PROVE  Min(Deciding(f)) \in Deciding(f)
<1> DEFINE D == Deciding(f)
<1>1. D \in SUBSET Nat /\ D # {}
  BY DEF Deciding
<1> HIDE DEF D
<1>2. \E n \in D : \A m \in D : n <= m
  BY <1>1, Least
<1>3. Min(D) \in D
  BY <1>2 DEF Min
<1> QED
  BY <1>3 DEF D

(* The names of a model that has been walked lead to its fields' entries.  *)
LEMMA NamesLead ==
  ASSUME Sound(tables), NEW g \in Handlers, NEW k \in DOMAIN Fields[g],
         ModelKeys(g) \subseteq Open(tables)
  PROVE  /\ \A key \in ToSet(KeysOf(g, k)) :
              /\ key \in DOMAIN tables.at /\ tables.at[key] \in DOMAIN tables.refs
              /\ IsRef(tables.refs[tables.at[key]]) /\ Paired(tables.refs[tables.at[key]])
              /\ tables.refs[tables.at[key]].settable
         /\ \A n \in DOMAIN KeysOf(g, k) : KeysOf(g, k)[n] \in ToSet(KeysOf(g, k))
<1>1. \A n \in DOMAIN KeysOf(g, k) : KeysOf(g, k)[n] \in ToSet(KeysOf(g, k))
  BY DEF ToSet
<1>2. ToSet(KeysOf(g, k)) \subseteq ModelKeys(g)
  BY DEF ModelKeys
<1>3. \A key \in Open(tables) :
        /\ key \in DOMAIN tables.at /\ tables.at[key] \in DOMAIN tables.refs
        /\ IsRef(tables.refs[tables.at[key]]) /\ Paired(tables.refs[tables.at[key]])
        /\ tables.refs[tables.at[key]].settable
  BY SoundEntry DEF Open
<1> QED
  BY <1>1, <1>2, <1>3

(* The names that decide are those whose flags were used, unless an array  *)
(* of length zero lost its values.                                         *)
LEMMA DecidingAreUsed ==
  ASSUME Sound(tables), NEW g \in Handlers, NEW k \in DOMAIN Fields[g],
         ModelKeys(g) \subseteq Open(tables), ~IsEmptied(<<g, k>>)
  PROVE  Deciding(<<g, k>>) = UsedNames(<<g, k>>)
<1> DEFINE f == <<g, k>>
           keys == KeysOf(g, k)
           ref(n) == tables.refs[tables.at[keys[n]]]
<1>1. f[1] = g /\ f[2] = k
  OBVIOUS
<1>2. \A n \in DOMAIN keys :
        /\ keys[n] \in DOMAIN tables.at /\ IsRef(ref(n)) /\ keys[n] \in ToSet(keys)
  BY NamesLead
<1> HIDE DEF f, keys
<1>3. \A n \in DOMAIN keys : ~(ref(n).used # <<>> /\ ref(n).values = <<>>)
  BY <1>1, <1>2 DEF IsEmptied, f, keys
<1>4. \A n \in DOMAIN keys : ref(n).values # <<>> => ref(n).used # <<>>
  <2> TAKE n \in DOMAIN keys
  <2> DEFINE r == ref(n)
  <2>1. IsRef(r)
    BY <1>2
  <2> HIDE DEF r
  <2>2. /\ IsSeq(r.values) /\ IsSeq(r.used) /\ Len(r.values) <= Len(r.used)
        /\ Len(r.values) \in Nat /\ Len(r.used) \in Nat
    BY <2>1 DEF IsRef, IsSeq
  <2>3. r.values # <<>> => Len(r.values) # 0
    BY <2>2, NoneIsEmpty
  <2>4. Len(r.used) # 0 => r.used # <<>>
    BY <2>2, NoneIsEmpty
  <2>5. r.values # <<>> => r.used # <<>>
    BY <2>2, <2>3, <2>4
  <2> QED
    BY <2>5 DEF r
<1>5. Deciding(f) = {n \in DOMAIN keys : ref(n).values # <<>>}
  BY <1>1, <1>2 DEF Deciding, keys
<1>6. UsedNames(f) = {n \in DOMAIN keys : ref(n).used # <<>>}
  BY <1>1 DEF UsedNames, keys
<1>7. Deciding(f) = UsedNames(f)
  BY <1>3, <1>4, <1>5, <1>6
<1> QED
  BY <1>7 DEF f

(* Fill changes neither which flags were used nor what they gave. *)
LEMMA GivenStays ==
  ASSUME Sound(tables), NEW g \in Handlers, NEW k \in DOMAIN Fields[g],
         ModelKeys(g) \subseteq Open(tables), tables'.at = tables.at,
         \A id \in DOMAIN tables.refs : Left(tables.refs[id], tables'.refs[id])
  PROVE  /\ GivesValue(<<g, k>>)' <=> GivesValue(<<g, k>>)
         /\ IsEmptied(<<g, k>>) => IsEmptied(<<g, k>>)'
<1> DEFINE f == <<g, k>>
           keys == KeysOf(g, k)
<1>1. f[1] = g /\ f[2] = k
  OBVIOUS
<1>2. \A key \in ToSet(keys) : tables.at[key] \in DOMAIN tables.refs
  BY NamesLead
<1>3. \A n \in DOMAIN keys : keys[n] \in ToSet(keys)
  BY NamesLead
<1> HIDE DEF f, keys
<1>4. \A key \in ToSet(keys) :
        Left(tables.refs[tables.at[key]], tables'.refs[tables'.at[key]])
  BY <1>2
<1>5. UsedNames(f)' = UsedNames(f)
  <2>1. UsedNames(f) = {n \in DOMAIN keys : tables.refs[tables.at[keys[n]]].used # <<>>}
    BY <1>1 DEF UsedNames, keys
  <2>2. UsedNames(f)' = {n \in DOMAIN keys : tables'.refs[tables'.at[keys[n]]].used # <<>>}
    BY <1>1 DEF UsedNames, keys, f
  <2> QED
    BY <1>3, <1>4, <2>1, <2>2 DEF Left
<1> DEFINE first == keys[Min(UsedNames(f))]
<1>6. UsedNames(f) # {} => first \in ToSet(keys)
  <2> SUFFICES ASSUME UsedNames(f) # {} PROVE first \in ToSet(keys)
    OBVIOUS
  <2> DEFINE D == UsedNames(f)
  <2>1. DOMAIN keys \subseteq Nat
    BY FieldAssumption DEF KeysOf, keys
  <2>2. D \subseteq DOMAIN keys
    BY <1>1 DEF UsedNames, keys
  <2>3. D \in SUBSET Nat /\ D # {}
    BY <2>1, <2>2
  <2> HIDE DEF D
  <2>4. \E n \in D : \A m \in D : n <= m
    BY <2>3, Least
  <2>5. Min(D) \in D
    BY <2>4 DEF Min
  <2> QED
    BY <1>3, <2>2, <2>5 DEF D
<1>7. GivesValue(f) <=> /\ UsedNames(f) # {}
                        /\ LET r == tables.refs[tables.at[first]]
                           IN  r.kind \in Keyed => r.keys # <<>>
  BY <1>1 DEF GivesValue, keys
<1>8. GivesValue(f)' <=> /\ UsedNames(f)' # {}
                         /\ LET r == tables'.refs[tables'.at[keys[Min(UsedNames(f)')]]]
                            IN  r.kind \in Keyed => r.keys # <<>>
  BY <1>1 DEF GivesValue, keys, f
<1> HIDE DEF first
<1>9. UsedNames(f) # {} =>
        Left(tables.refs[tables.at[first]], tables'.refs[tables'.at[first]])
  BY <1>4, <1>6
<1>10. GivesValue(f)' <=> GivesValue(f)
  BY <1>5, <1>7, <1>8, <1>9 DEF first, Left
<1>11. IsEmptied(f) => IsEmptied(f)'
  <2>1. IsEmptied(f) <=> \E key \in ToSet(keys) :
          LET ref == tables.refs[tables.at[key]] IN ref.used # <<>> /\ ref.values = <<>>
    BY <1>1 DEF IsEmptied, keys
  <2>2. IsEmptied(f)' <=> \E key \in ToSet(keys) :
          LET ref == tables'.refs[tables'.at[key]] IN ref.used # <<>> /\ ref.values = <<>>
    BY <1>1 DEF IsEmptied, keys, f
  <2> QED
    BY <1>4, <2>1, <2>2 DEF Left
<1> QED
  BY <1>10, <1>11 DEF f

(* What Fill of one field does to the tables, and what it makes of it.     *)
LEMMA FillFieldFills ==
  ASSUME IInv, FInv, FillField,
         NEW g \in Handlers, NEW k \in DOMAIN Fields[g], Head(todo) = <<g, k>>,
         ModelKeys(g) \subseteq Open(tables)
  PROVE  /\ Sound(tables') /\ ShortInv' /\ Open(tables') = Open(tables)
         /\ tables'.at = tables.at /\ tables'.outcome = tables.outcome
         /\ \A id \in DOMAIN tables.refs : Left(tables.refs[id], tables'.refs[id])
         /\ pc' \in {"fill", "error", "panic"}
         /\ pc' = "panic" => PairsInBothWays'
         /\ \A other \in AllFields : other # <<g, k>> => result'[other] = result[other]
         /\ pc' = "fill" => Done(<<g, k>>)'
<1> DEFINE f == <<g, k>>
           key == KeysOf(g, k)[Min(Deciding(f))]
           id == tables.at[key]
           r == tables.refs[id]
           field == Fields[g][k]
           filled == FillFrom(r, field)
           left == AfterFill(r, field)
<1>1. Sound(tables) /\ pc = "fill" /\ args' = args
  BY DEF FInv, FillField, setup
<1>2. f \in AllFields /\ DOMAIN result = AllFields
  BY DEF AllFields, IInv, StateInv
<1>3. /\ ~IsEmptied(f) => Deciding(f) = UsedNames(f)
      /\ f[1] = g /\ f[2] = k
  BY <1>1, DecidingAreUsed
<1>4. IF Deciding(f) = {}
      THEN result' = [result EXCEPT ![f] = Unfilled] /\ UNCHANGED <<pc, tables>>
      ELSE IF key \notin DOMAIN tables.at
      THEN pc' = "internal" /\ UNCHANGED <<tables, result>>
      ELSE /\ result' = [result EXCEPT ![f] = filled]
           /\ Update(id, left)
           /\ pc' = AfterFilling(filled)
  <2> DEFINE first == Head(todo)
             key2 == KeysOf(first[1], first[2])[Min(Deciding(first))]
             id2 == tables.at[key2]
             field2 == Fields[first[1]][first[2]]
             filled2 == FillFrom(tables.refs[id2], field2)
  <2>1. IF Deciding(first) = {}
        THEN result' = [result EXCEPT ![first] = Unfilled] /\ UNCHANGED <<pc, tables>>
        ELSE IF key2 \notin DOMAIN tables.at
        THEN pc' = "internal" /\ UNCHANGED <<tables, result>>
        ELSE /\ result' = [result EXCEPT ![first] = filled2]
             /\ Update(id2, AfterFill(tables.refs[id2], field2))
             /\ pc' = AfterFilling(filled2)
    BY DEF FillField
  <2>2. first = f /\ first[1] = g /\ first[2] = k
    OBVIOUS
  <2> HIDE DEF first, f
  <2> QED
    BY <2>1, <2>2
<1>5. CASE Deciding(f) = {}
  <2>1. ~Unfilled.filled
    BY DEF Unfilled
  <2>2. result'[f] = Unfilled /\ \A other \in AllFields : other # f => result'[other] = result[other]
    BY <1>2, <1>4, <1>5
  <2>3. UNCHANGED <<pc, tables>>
    BY <1>4, <1>5
  <2>4. \A q \in DOMAIN tables.refs : Left(tables.refs[q], tables'.refs[q])
    BY <2>3 DEF Left
  <2>5. Sound(tables') /\ ShortInv' /\ Open(tables') = Open(tables)
    BY <1>1, <2>3 DEF FInv, ShortInv, AsValue
  <2>6. (GivesValue(f)' <=> GivesValue(f)) /\ (IsEmptied(f) => IsEmptied(f)')
    BY <1>1, <2>3, <2>4, GivenStays
  <2> HIDE DEF f
  <2>7. IsEmptied(f) \/ ~GivesValue(f)
    BY <1>3, <1>5 DEF GivesValue
  <2>8. f' = f
    BY DEF f
  <2>9. Done(f)'
    BY <2>1, <2>2, <2>6, <2>7, <2>8 DEF Done
  <2> QED
    BY <1>1, <2>2, <2>3, <2>4, <2>5, <2>9 DEF f
<1>6. CASE Deciding(f) # {}
  <2>1. DOMAIN KeysOf(g, k) \subseteq Nat
    BY FieldAssumption DEF KeysOf
  <2>2. Min(Deciding(f)) \in Deciding(f)
    BY <1>6, <2>1, DecidingIs
  <2>3. /\ Min(Deciding(f)) \in DOMAIN KeysOf(g, k)
        /\ key \in DOMAIN tables.at => r.values # <<>>
    BY <2>2 DEF Deciding
  <2>4. /\ key \in DOMAIN tables.at /\ id \in DOMAIN tables.refs
        /\ IsRef(r) /\ Paired(r) /\ r.settable
    BY <1>1, <2>3, NamesLead
  <2>5. ~IsEmptied(f) =>
          (GivesValue(f) <=> (r.kind \in Keyed => r.keys # <<>>))
    <3>1. GivesValue(f) <=>
            /\ UsedNames(f) # {}
            /\ LET ref == tables.refs[tables.at[KeysOf(g, k)[Min(UsedNames(f))]]]
               IN  ref.kind \in Keyed => ref.keys # <<>>
      BY DEF GivesValue
    <3> HIDE DEF f
    <3> QED
      BY <1>3, <1>6, <3>1
  <2>6. result' = [result EXCEPT ![f] = filled] /\ Update(id, left) /\ pc' = AfterFilling(filled)
    BY <1>4, <1>6, <2>4
  <2> HIDE DEF key
  <2>7. /\ filled.error \in {"none", "usage", "panic"}
        /\ filled.error = "none" => (filled.filled <=> (r.kind \in Keyed => r.keys # <<>>))
        /\ filled.error = "panic" => Short(r) /\ r.keys # <<>>
    <3>1. r.values # <<>>
      BY <2>3, <2>4
    <3> HIDE DEF r
    <3> QED
      BY <2>4, <3>1, FillFromFills
  <2>8. Fed(r, left) /\ Left(r, left)
    BY <2>4, AfterFillLeaves
  <2> HIDE DEF id, filled, left
  <2>9. /\ Sound(tables') /\ tables'.at = tables.at /\ tables'.outcome = tables.outcome
        /\ Open(tables') = Open(tables) /\ DOMAIN tables'.refs = DOMAIN tables.refs
        /\ \A q \in DOMAIN tables.refs : tables'.refs[q] = IF q = id THEN left ELSE tables.refs[q]
    <3> DEFINE u == [tables EXCEPT !.refs[id] = left]
    <3>1. /\ Sound(u) /\ u.at = tables.at /\ u.outcome = tables.outcome
          /\ DOMAIN u.refs = DOMAIN tables.refs /\ Open(u) = Open(tables)
          /\ \A q \in DOMAIN tables.refs : u.refs[q] = IF q = id THEN left ELSE tables.refs[q]
      BY <1>1, <2>4, <2>8, AlteredIsSound DEF Fed
    <3>2. tables' = u
      BY <2>6 DEF Update
    <3> HIDE DEF u
    <3> QED
      BY <3>1, <3>2
  <2>10. \A q \in DOMAIN tables.refs : Left(tables.refs[q], tables'.refs[q])
    BY <2>8, <2>9 DEF Left
  <2>11. ShortInv'
    <3> SUFFICES ASSUME NEW q \in DOMAIN tables.refs, Short(tables'.refs[q])
                 PROVE  \E name \in DOMAIN tables.at : tables.at[name] = q /\ AsValue(name)
      BY <1>1, <2>9 DEF ShortInv, AsValue
    <3>1. Short(tables.refs[q])
      BY <2>8, <2>9 DEF Fed
    <3> QED
      BY <3>1 DEF FInv, ShortInv
  <2>12. result'[f] = filled /\ \A other \in AllFields : other # f => result'[other] = result[other]
    BY <1>2, <2>6
  <2>13. /\ pc' = "fill" <=> filled.error = "none"
         /\ pc' = "panic" <=> filled.error = "panic"
         /\ pc' \in {"fill", "error", "panic"}
    BY <2>6, <2>7 DEF AfterFilling
  <2>14. pc' = "panic" => PairsInBothWays'
    <3> SUFFICES ASSUME Short(r), r.keys # <<>> PROVE PairsInBothWays'
      BY <2>7, <2>13
    <3>1. PICK name \in DOMAIN tables.at : tables.at[name] = id /\ AsValue(name)
      BY <2>4 DEF FInv, ShortInv
    <3>2. PICK p \in DOMAIN args : /\ args[p].dashes > 0 /\ args[p].eq
                                   /\ name = <<name[1], "long", args[p].name>>
      BY <3>1 DEF AsValue
    <3>3. r.kind = "map"
      <4> DEFINE made == Fields[name[1]][id[3]]
      <4>1. /\ name[1] \in Handlers /\ id[3] \in DOMAIN Fields[name[1]]
            /\ name \in ToSet(KeysOf(name[1], id[3])) /\ r.kind = made.kind
        BY <1>1, <2>4, <3>1, SoundEntry
      <4>2. \E n : name = <<name[1], Table(made, n), n>>
        BY <4>1 DEF ToSet, KeysOf
      <4>3. name[2] = "long"
        BY <3>2
      <4>4. made.kind # "prefix"
        BY <4>2, <4>3 DEF Table
      <4> QED
        BY <4>1, <4>4 DEF Short, Keyed
    <3>4. /\ name \in DOMAIN tables'.at
          /\ tables'.refs[tables'.at[name]].kind = "map"
          /\ tables'.refs[tables'.at[name]].keys # <<>>
      BY <2>4, <2>9, <2>10, <3>1, <3>3 DEF Left
    <3> HIDE DEF r
    <3> QED
      BY <1>1, <3>2, <3>4 DEF PairsInBothWays
  <2>15. pc' = "fill" => Done(f)'
    <3>1. (GivesValue(f)' <=> GivesValue(f)) /\ (IsEmptied(f) => IsEmptied(f)')
      BY <1>1, <2>9, <2>10, GivenStays
    <3> HIDE DEF f, r
    <3>2. f' = f
      BY DEF f
    <3> QED
      BY <2>5, <2>7, <2>12, <2>13, <3>1, <3>2 DEF Done
  <2> QED
    BY <2>9, <2>10, <2>11, <2>12, <2>13, <2>14, <2>15
<1> QED
  BY <1>5, <1>6

LEMMA FillKnows ==
  ASSUME IInv, FInv, FillField
  PROVE  FInv'
<1> DEFINE f == Head(todo)
<1>1. /\ pc = "fill" /\ todo # <<>> /\ todo' = Tail(todo)
      /\ UNCHANGED <<requests, selected, h>>
  BY DEF FillField
<1>2. ToSet(todo) = {f} \cup ToSet(todo') /\ todo \in Seq(AllFields)
  BY <1>1, HeadOrTail DEF IInv, StateInv
<1>3. ToSet(todo) \subseteq FieldsOf(ToSet(requests)) /\ requests \in Seq(Handlers)
  BY <1>1 DEF FInv, FilledInv, IInv, StateInv
<1>4. \A g \in ToSet(requests) : g \in Handlers /\ ModelKeys(g) \subseteq Open(tables)
  <2>1. \A g \in ToSet(requests) : g \in Handlers
    BY <1>3 DEF ToSet
  <2> QED
    BY <1>1, <2>1 DEF FInv, KnownInv, Going
<1>5. PICK g \in ToSet(requests) : f \in {<<g, k>> : k \in DOMAIN Fields[g]}
  <2>1. f \in FieldsOf(ToSet(requests))
    BY <1>2, <1>3
  <2> HIDE DEF f
  <2> QED
    BY <2>1 DEF FieldsOf
<1>6. PICK k \in DOMAIN Fields[g] : f = <<g, k>>
  BY <1>5
<1> HIDE DEF f
<1>7. /\ Sound(tables') /\ ShortInv' /\ Open(tables') = Open(tables)
      /\ tables'.at = tables.at /\ tables'.outcome = tables.outcome
      /\ \A id \in DOMAIN tables.refs : Left(tables.refs[id], tables'.refs[id])
      /\ pc' \in {"fill", "error", "panic"}
      /\ pc' = "panic" => PairsInBothWays'
      /\ \A other \in AllFields : other # f => result'[other] = result[other]
      /\ pc' = "fill" => Done(<<g, k>>)'
  <2>1. Head(todo) = <<g, k>>
    BY <1>6 DEF f
  <2> QED
    BY <1>4, <1>6, <2>1, FillFieldFills
<1>8. PanicsAreKnown'
  BY <1>7 DEF PanicsAreKnown
<1>9. KnownInv'
  BY <1>1, <1>7 DEF FInv, KnownInv, Going
<1>10. FilledInv'
  <2> SUFFICES ASSUME pc' = "fill", NEW other \in {Root, selected}, NEW j \in DOMAIN Fields[other],
                      <<other, j>> \notin ToSet(todo')
               PROVE  Done(<<other, j>>)'
    BY <1>1, <1>2, <1>3, <1>7 DEF FilledInv
  <2>1. other \in ToSet(requests)
    BY DEF FInv, KnownInv
  <2>2. CASE <<other, j>> = f
    <3>1. other = g /\ j = k
      BY <1>6, <2>2
    <3> QED
      BY <1>7, <3>1
  <2>3. CASE <<other, j>> # f
    <3>1. <<other, j>> \notin ToSet(todo)
      BY <1>2, <2>3
    <3>2. Done(<<other, j>>)
      BY <1>1, <3>1 DEF FInv, FilledInv
    <3>3. <<other, j>> \in AllFields
      BY <1>4, <2>1 DEF AllFields
    <3>4. result'[<<other, j>>] = result[<<other, j>>]
      BY <1>7, <2>3, <3>3
    <3>5. /\ GivesValue(<<other, j>>)' <=> GivesValue(<<other, j>>)
          /\ IsEmptied(<<other, j>>) => IsEmptied(<<other, j>>)'
      BY <1>4, <1>7, <2>1, GivenStays DEF FInv
    <3> QED
      BY <3>2, <3>4, <3>5 DEF Done
  <2> QED
    BY <2>2, <2>3
<1> QED
  BY <1>7, <1>8, <1>9, <1>10 DEF FInv

LEMMA DoneStays ==
  ASSUME UNCHANGED <<tables, result>>
  PROVE  \A f : Done(f)' <=> Done(f)
<1> TAKE f
<1>1. UsedNames(f)' = UsedNames(f)
  BY DEF UsedNames
<1>2. GivesValue(f)' <=> GivesValue(f)
  BY <1>1 DEF GivesValue
<1>3. IsEmptied(f)' <=> IsEmptied(f)
  BY DEF IsEmptied
<1> QED
  BY <1>2, <1>3 DEF Done

LEMMA CompleteKnows ==
  ASSUME FInv, Complete
  PROVE  FInv'
<1>1. /\ pc = "fill" /\ pc' = "done" /\ todo = <<>>
      /\ UNCHANGED <<args, tables, requests, selected, h, todo, result>>
  BY DEF Complete, outcome, setup
<1>2. Sound(tables)' /\ ShortInv'
  BY <1>1 DEF FInv, ShortInv, AsValue
<1>3. PanicsAreKnown'
  BY <1>1 DEF PanicsAreKnown
<1>4. KnownInv'
  BY <1>1 DEF FInv, KnownInv, Going
<1>5. FilledInv'
  BY <1>1, DoneStays DEF FInv, FilledInv
<1> QED
  BY <1>2, <1>3, <1>4, <1>5 DEF FInv
-----------------------------------------------------------------------------
(* All other steps of parsing. *)
LEMMA IgnoringKnows ==
  ASSUME FInv, IgnoredLongFlag \/ IgnoredShortFlag \/ IgnoredInCluster \/ Cluster
  PROVE  FInv'
<1>1. pc = "args" /\ UNCHANGED <<args, pc, tables, requests, selected, h>>
  BY DEF IgnoredLongFlag, IgnoredShortFlag, IgnoredInCluster, Cluster, Parsing, InCluster,
         Advance, AdvanceInCluster, setup
<1>2. pc' \in {"error", "usage"} \/ (pc \in Going /\ pc' \in Going \ {"fill", "done"})
  BY <1>1 DEF Going
<1> QED
  BY <1>1, <1>2, QuietKeeps

LEMMA StopsKnow ==
  ASSUME FInv, BadLongFlag \/ BadInCluster \/ BadShortFlag \/ HelpCommand
  PROVE  FInv'
<1>1. pc' \in {"error", "usage"} /\ UNCHANGED <<args, tables, requests, selected, h>>
  BY DEF BadLongFlag, BadInCluster, BadShortFlag, HelpCommand, Stop, setup
<1> QED
  BY <1>1, QuietKeeps

LEMMA EndsKnow ==
  ASSUME FInv, EndOfFlags \/ Positional \/ EndOfArgs
  PROVE  FInv'
<1>1. /\ pc = "args" /\ pc' \in {"error", "usage", "import"}
      /\ UNCHANGED <<args, tables, requests, selected, h>>
  BY DEF EndOfFlags, Positional, EndOfArgs, Parsing, Finish, setup
<1>2. pc' \in {"error", "usage"} \/ (pc \in Going /\ pc' \in Going \ {"fill", "done"})
  BY <1>1 DEF Going
<1> QED
  BY <1>1, <1>2, QuietKeeps

LEMMA StutterKnows ==
  ASSUME FInv, UNCHANGED vars
  PROVE  FInv'
<1>1. UNCHANGED <<args, pc, h, tables, requests, selected, todo, result>>
  BY DEF vars, outcome, setup
<1>2. Sound(tables)' /\ ShortInv' /\ KnownInv'
  BY <1>1 DEF FInv, ShortInv, AsValue, KnownInv
<1>3. FilledInv'
  BY <1>1, DoneStays DEF FInv, FilledInv
<1>4. PanicsAreKnown'
  BY <1>1 DEF FInv, PanicsAreKnown, NameIsTaken, PairsInBothWays
<1> QED
  BY <1>2, <1>3, <1>4 DEF FInv

(* Before the first Configure there are imported flags only.               *)
LEMMA InitKnows ==
  ASSUME Init
  PROVE  FInv
<1> DEFINE at == InitialTables.at
           refs == InitialTables.refs
           t == InitialTables
<1>1. /\ WellFormed(t) /\ t.outcome = "ok"
      /\ DOMAIN at = {ImportedKey(id[1], id[3]) : id \in ImportedIds}
      /\ DOMAIN refs = ImportedIds
      /\ \A id \in ImportedIds : refs[id] = PlainRef(Imported[id[1]][id[3]].kind)
  BY InitialTablesAre DEF InitialTables
<1>2. \A key \in DOMAIN at : at[key] \in ImportedIds
  BY <1>1 DEF WellFormed
<1>3. \A id \in ImportedIds : ~IsField(id)
  BY DEF ImportedIds, IsField
<1>4. \A id \in ImportedIds : Paired(refs[id]) /\ ~refs[id].settable
  BY <1>1, NewRefsArePaired
<1>5. tables = t
  BY DEF Init
<1> HIDE DEF at, refs, t
<1>6. Sound(tables)
  BY <1>1, <1>2, <1>3, <1>4, <1>5 DEF Sound, Entered, at, refs, t
<1>7. ShortInv
  BY <1>1, <1>4, <1>5 DEF ShortInv, Short, refs, t
<1>8. FilledInv /\ PanicsAreKnown
  BY DEF Init, FilledInv, PanicsAreKnown
<1>9. KnownInv
  <2>1. requests = <<Root>> /\ selected = Root /\ pc = "start"
    BY DEF Init
  <2>2. ToSet(<<Root>>) = {Root}
    BY DEF ToSet
  <2> QED
    BY <2>1, <2>2 DEF KnownInv, Going
<1> QED
  BY <1>6, <1>7, <1>8, <1>9 DEF FInv

LEMMA NextKnows ==
  ASSUME IInv, FInv, [Next]_vars
  PROVE  FInv'
<1>1. CASE Configure
  BY <1>1, ConfigureKnows
<1>2. CASE Begin
  BY <1>2, BeginKnows
<1>3. CASE LongFlag \/ ClusteredFlag \/ ShortFlag
  BY <1>3, FlagsFeed
<1>4. CASE LongFlagWithValue
  BY <1>4, ValueFeeds
<1>5. CASE NegatedFlag
  BY <1>5, NegatedFeeds
<1>6. CASE PrefixedFlag
  BY <1>6, PrefixedFeeds
<1>7. CASE IgnoredLongFlag \/ IgnoredShortFlag \/ IgnoredInCluster \/ Cluster
  BY <1>7, IgnoringKnows
<1>8. CASE BadLongFlag \/ BadInCluster \/ BadShortFlag \/ HelpCommand
  BY <1>8, StopsKnow
<1>9. CASE Subcommand
  BY <1>9, SubcommandKnows
<1>10. CASE EndOfFlags \/ Positional \/ EndOfArgs
  BY <1>10, EndsKnow
<1>11. CASE ImportFlags
  BY <1>11, ImportKnows
<1>12. CASE FillField
  BY <1>12, FillKnows
<1>13. CASE Complete
  BY <1>13, CompleteKnows
<1>14. CASE UNCHANGED vars
  BY <1>14, StutterKnows
<1> QED
  BY <1>1, <1>2, <1>3, <1>4, <1>5, <1>6, <1>7, <1>8, <1>9, <1>10, <1>11, <1>12, <1>13,
     <1>14 DEF Next

(* The second inductive invariant, for every program and command line: the *)
(* names of the requested models lead to their fields                      *)
(* (flags_parse.go:512-551), a map has values without keys only if it was  *)
(* given with an equals sign (130), and what Fill has done is what the     *)
(* flags gave (303-420).                                                   *)
THEOREM InductiveTables == Spec => []FInv
<1>1. Init => FInv
  BY InitKnows
<1>2. IInv /\ FInv /\ [Next]_vars => FInv'
  BY NextKnows
<1> QED
  BY <1>1, <1>2, Inductive, PTL DEF Spec

(* Whatever the models, the imported flags and the arguments are, the      *)
(* handler panics for two reasons only: a model has a name of --help or of *)
(* an imported flag (flags_parse.go:544), or a map flag was used with its  *)
(* pair following and with an equals sign, too (365); and every name that  *)
(* Fill looks up is in its table (303-321, 512-551).                       *)
THEOREM PanicsKnown == Spec => []PanicsAreKnown
<1>1. FInv => PanicsAreKnown
  BY DEF FInv
<1> QED
  BY <1>1, InductiveTables, PTL

(* When Configure ends, a field of the main model or of the selected       *)
(* subcommand's has a value from the flags just when one of its flags was  *)
(* used, for every program and command line; a map whose pairs all stand   *)
(* behind an equals sign gets none (flags_parse.go:355), and arrays of     *)
(* length zero are excepted (395) (flags_parse.go:303-420).                *)
THEOREM UsedIsFilled == Spec => []GivenIsFilled
<1>1. FInv => GivenIsFilled
  <2> SUFFICES ASSUME FInv, pc = "done", NEW g \in {Root, selected}, NEW k \in DOMAIN Fields[g],
                      ~IsEmptied(<<g, k>>)
               PROVE  result[<<g, k>>].filled <=> GivesValue(<<g, k>>)
    BY DEF GivenIsFilled
  <2>1. todo = <<>> /\ (<<g, k>> \in ToSet(todo) \/ Done(<<g, k>>))
    BY DEF FInv, FilledInv
  <2>2. <<g, k>> \notin ToSet(todo)
    BY <2>1 DEF ToSet
  <2> QED
    BY <2>1, <2>2 DEF Done
<1> QED
  BY <1>1, InductiveTables, PTL
=============================================================================

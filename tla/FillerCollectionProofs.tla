----------------------- MODULE FillerCollectionProofs -----------------------
(***************************************************************************)
(* Proofs about FillerCollection, whatever the tags, the fillers, and the  *)
(* number and order of the options.  What the order of a collection keeps  *)
(* is stated with the tags that have returned as its only exceptions.      *)
(* From that follow the promises of the component, and that it implements  *)
(* OrderedFillers.  First come the loops over the order, then the methods  *)
(* of a collection, the steps, and the theorems.                           *)
(***************************************************************************)
EXTENDS FillerCollection, SequenceTheorems, Induction

(* f[u] holds those of the members of s at the indices in u that are in A. *)
Sifts(f, s, A) ==
  f = [u \in SUBSET (1..Len(s)) |->
         IF u = {} THEN <<>>
         ELSE IF s[Max(u)] \in A THEN Append(f[u \ {Max(u)}], s[Max(u)]) ELSE f[u \ {Max(u)}]]

(* OnlyIn as a fold over the indices.                                      *)
LEMMA OnlyInFolds ==
  ASSUME NEW S, NEW s \in Seq(S), NEW A
  PROVE  \E f \in [SUBSET (1..Len(s)) -> Seq(S)] :
           Sifts(f, s, A) /\ OnlyIn(s, A) = f[1..Len(s)]
<1> DEFINE n  == Len(s)
           op == [p \in Seq(S) \X (1..n) |-> IF s[p[2]] \in A THEN Append(p[1], s[p[2]]) ELSE p[1]]
           Is(f) == f = [u \in SUBSET (1..n) |->
                           IF u = {} THEN <<>>
                           ELSE IF s[Max(u)] \in A THEN Append(f[u \ {Max(u)}], s[Max(u)])
                                                   ELSE f[u \ {Max(u)}]]
<1>1. n \in Nat /\ DOMAIN s = 1..n /\ \A i \in 1..n : s[i] \in S
  BY LenProperties
<1>2. op \in [Seq(S) \X (1..n) -> Seq(S)]
  BY <1>1, AppendProperties
<1>3. <<>> \in Seq(S)
  BY EmptySeq
<1>4. PICK f \in [SUBSET (1..n) -> Seq(S)] : Folds(f, n, <<>>, op)
  <2> HIDE DEF op, n
  <2> QED
    BY <1>1, <1>2, <1>3, FoldExists
<1>5. Is(f)
  <2>1. f = [u \in SUBSET (1..n) |-> IF u = {} THEN <<>> ELSE op[<<f[u \ {Max(u)}], Max(u)>>]]
    BY <1>4 DEF Folds
  <2>2. \A u \in SUBSET (1..n) : u # {} => Max(u) \in 1..n /\ f[u \ {Max(u)}] \in Seq(S)
    BY <1>1, MaxIsMember
  <2>3. \A u \in SUBSET (1..n) : u # {} =>
          op[<<f[u \ {Max(u)}], Max(u)>>] =
            IF s[Max(u)] \in A THEN Append(f[u \ {Max(u)}], s[Max(u)]) ELSE f[u \ {Max(u)}]
    BY <2>2
  <2> HIDE DEF op, n
  <2> QED
    BY <2>1, <2>3
<1> DEFINE F == CHOOSE f1x : Is(f1x)
<1>6. Is(F)
  <2> HIDE DEF Is
  <2> QED
    BY <1>5
<1>7. OnlyIn(s, A) = F[1..n]
  BY <1>1 DEF OnlyIn, FoldLeft, MapThenFoldSet
<1>8. F = f
  <2> DEFINE rest == [u \in SUBSET (1..n) |-> u \ {Max(u)}]
             Good == {u \in SUBSET (1..n) : F[u] = f[u]}
  <2>1. IsFiniteSet(1..n) /\ Shrinks(rest, 1..n)
    <3>1. IsFiniteSet(1..n)
      BY <1>1, FS_Interval
    <3>2. Shrinks(rest, 1..n)
      <4> HIDE DEF n
      <4> QED
        BY <1>1, DroppingMaxShrinks
    <3> QED
      BY <3>1, <3>2
  <2>2. F[{}] = <<>> /\ f[{}] = <<>>
    <3> HIDE DEF F
    <3> QED
      BY <1>5, <1>6
  <2>3. ASSUME NEW u \in SUBSET (1..n), u # {}, rest[u] \in Good PROVE u \in Good
    <3>1. u \ {Max(u)} \in SUBSET (1..n) /\ F[u \ {Max(u)}] = f[u \ {Max(u)}]
      BY <2>3
    <3> HIDE DEF F
    <3>2. F[u] = IF s[Max(u)] \in A THEN Append(F[u \ {Max(u)}], s[Max(u)])
                                    ELSE F[u \ {Max(u)}]
      BY <1>6, <2>3
    <3>3. f[u] = IF s[Max(u)] \in A THEN Append(f[u \ {Max(u)}], s[Max(u)])
                                    ELSE f[u \ {Max(u)}]
      BY <1>5, <2>3
    <3> QED
      BY <3>1, <3>2, <3>3
  <2>4. {} \in Good
    BY <2>2
  <2>5. SUBSET (1..n) \subseteq Good
    <3>1. \A u \in SUBSET (1..n) : u # {} /\ rest[u] \in Good => u \in Good
      BY <2>3
    <3> HIDE DEF Good, rest, n
    <3> QED
      BY <2>1, <2>4, <3>1, EverySubset
  <2>6. \A u \in SUBSET (1..n) : F[u] = f[u]
    BY <2>5
  <2> HIDE DEF F
  <2> QED
    BY <1>5, <1>6, <2>6
<1> QED
  BY <1>5, <1>7, <1>8 DEF Sifts

(* A loop over no tag.                                                     *)
LEMMA OnlyInEmpty ==
  ASSUME NEW A PROVE OnlyIn(<<>>, A) = <<>>
<1>1. <<>> \in Seq({}) /\ Len(<<>>) = 0
  BY EmptySeq
<1>2. PICK f : Sifts(f, <<>>, A) /\ OnlyIn(<<>>, A) = f[1..Len(<<>>)]
  <2> DEFINE none == <<>>
             S    == {}
  <2>1. none \in Seq(S)
    BY <1>1
  <2> HIDE DEF none, S
  <2>2. \E f \in [SUBSET (1..Len(none)) -> Seq(S)] :
          Sifts(f, none, A) /\ OnlyIn(none, A) = f[1..Len(none)]
    BY <2>1, OnlyInFolds
  <2> QED
    BY <2>2 DEF none
<1>3. 1..Len(<<>>) = {}
  BY <1>1
<1>4. f[{}] = <<>>
  <2>1. Sifts(f, <<>>, A) => f[{}] = <<>>
    BY DEF Sifts
  <2> QED
    BY <1>2, <2>1
<1> QED
  BY <1>2, <1>3, <1>4

(* The loop over one more tag.                                             *)
LEMMA OnlyInAppend ==
  ASSUME NEW S, NEW s \in Seq(S), NEW x \in S, NEW A
  PROVE  /\ OnlyIn(s, A) \in Seq(S)
         /\ OnlyIn(Append(s, x), A) = IF x \in A THEN Append(OnlyIn(s, A), x) ELSE OnlyIn(s, A)
<1> DEFINE n == Len(s)
           t == Append(s, x)
<1>1. /\ n \in Nat /\ t \in Seq(S) /\ Len(t) = n + 1 /\ t[n + 1] = x
      /\ \A i \in 1..n : t[i] = s[i]
  BY LenProperties, AppendProperties
<1> HIDE DEF t
<1>2. PICK f \in [SUBSET (1..Len(s)) -> Seq(S)] : Sifts(f, s, A) /\ OnlyIn(s, A) = f[1..Len(s)]
  BY OnlyInFolds
<1>3. PICK g \in [SUBSET (1..Len(t)) -> Seq(S)] : Sifts(g, t, A) /\ OnlyIn(t, A) = g[1..Len(t)]
  <2>1. t \in Seq(S)
    BY <1>1
  <2> QED
    BY <2>1, OnlyInFolds
<1> DEFINE m == n + 1
<1>4. f = [u \in SUBSET (1..n) |->
             IF u = {} THEN <<>>
             ELSE IF s[Max(u)] \in A THEN Append(f[u \ {Max(u)}], s[Max(u)]) ELSE f[u \ {Max(u)}]]
  BY <1>2 DEF Sifts
<1>5. /\ m \in Nat
      /\ g = [u \in SUBSET (1..m) |->
                IF u = {} THEN <<>>
                ELSE IF t[Max(u)] \in A THEN Append(g[u \ {Max(u)}], t[Max(u)]) ELSE g[u \ {Max(u)}]]
      /\ OnlyIn(t, A) = g[1..m]
  <2>1. Len(t) = m /\ m \in Nat
    BY <1>1
  <2> HIDE DEF m
  <2> QED
    BY <1>3, <2>1 DEF Sifts
<1> DEFINE D    == 1..n
           rest == [u \in SUBSET D |-> u \ {Max(u)}]
           Good == {u \in SUBSET D : g[u] = f[u]}
<1>6. IsFiniteSet(D)
  BY <1>1, FS_Interval
<1>7. Shrinks(rest, D)
  <2> HIDE DEF n
  <2> QED
    BY <1>1, DroppingMaxShrinks
<1>8. \A u \in SUBSET D : u \in SUBSET (1..m)
  BY <1>1
<1>9. {} \in Good
  <2> HIDE DEF m
  <2> QED
    BY <1>5, <1>4
<1>10. ASSUME NEW u \in SUBSET D, u # {}, rest[u] \in Good PROVE u \in Good
  <2>1. g[u \ {Max(u)}] = f[u \ {Max(u)}]
    BY <1>10
  <2>2. Max(u) \in D
    <3> HIDE DEF n
    <3> QED
      BY <1>1, <1>10, MaxIsMember
  <2>3. t[Max(u)] = s[Max(u)]
    BY <1>1, <2>2
  <2>4. g[u] = IF t[Max(u)] \in A THEN Append(g[u \ {Max(u)}], t[Max(u)]) ELSE g[u \ {Max(u)}]
    <3>1. u \in SUBSET (1..m)
      BY <1>8, <1>10
    <3> HIDE DEF m
    <3> QED
      BY <1>5, <1>10, <3>1
  <2>5. f[u] = IF s[Max(u)] \in A THEN Append(f[u \ {Max(u)}], s[Max(u)]) ELSE f[u \ {Max(u)}]
    BY <1>10, <1>4
  <2> QED
    BY <2>1, <2>3, <2>4, <2>5
<1>11. g[D] = f[D]
  <2>1. \A u \in SUBSET D : u # {} /\ rest[u] \in Good => u \in Good
    BY <1>10
  <2>2. SUBSET D \subseteq Good
    <3> HIDE DEF D, Good, rest
    <3> QED
      BY <1>6, <1>7, <1>9, <2>1, EverySubset
  <2> QED
    BY <2>2
<1>12. Max(1..m) = m /\ (1..m) \ {m} = D /\ 1..m # {}
  <2>1. Max(1..m) \in 1..m /\ m \in 1..m
    <3>1. m \in Nat /\ m \in 1..m
      BY <1>1
    <3>2. 1..m \in SUBSET (1..m) /\ 1..m # {}
      BY <3>1
    <3> HIDE DEF m
    <3> QED
      BY <3>1, <3>2, MaxIsMember
  <2>2. \A i \in 1..m : m >= i
    OBVIOUS
  <2>3. Max(1..m) >= m
    <3>1. m \in 1..m /\ \A i \in 1..m : m >= i
      BY <2>1, <2>2
    <3> HIDE DEF m
    <3> QED
      BY <3>1 DEF Max
  <2>4. (1..m) \ {m} = D
    BY <1>1
  <2> HIDE DEF m
  <2> QED
    BY <1>5, <2>1, <2>3, <2>4
<1>13. g[1..m] = IF t[m] \in A THEN Append(g[D], t[m]) ELSE g[D]
  <2>1. 1..m \in SUBSET (1..m)
    OBVIOUS
  <2> HIDE DEF m, D
  <2> QED
    BY <1>5, <1>12, <2>1
<1> QED
  <2>1. OnlyIn(s, A) = f[D] /\ f[D] \in Seq(S)
    BY <1>2
  <2>2. OnlyIn(t, A) = IF x \in A THEN Append(f[D], x) ELSE f[D]
    BY <1>1, <1>5, <1>11, <1>13
  <2> QED
    BY <2>1, <2>2 DEF t

(* The same for every sequence and tag.                                    *)
LEMMA OnlyInAppendEach ==
  ASSUME NEW S, NEW A
  PROVE  \A u \in Seq(S), x \in S :
           OnlyIn(Append(u, x), A) = IF x \in A THEN Append(OnlyIn(u, A), x) ELSE OnlyIn(u, A)
  BY OnlyInAppend

(* The members of a sequence with one more. *)
LEMMA ToSetAppend ==
  ASSUME NEW S, NEW s \in Seq(S), NEW x \in S
  PROVE  ToSet(Append(s, x)) = ToSet(s) \cup {x}
<1>1. /\ Len(s) \in Nat /\ DOMAIN s = 1..Len(s)
      /\ DOMAIN Append(s, x) = 1..(Len(s) + 1)
      /\ \A i \in 1..Len(s) : Append(s, x)[i] = s[i]
      /\ Append(s, x)[Len(s) + 1] = x
  BY LenProperties, AppendProperties
<1>2. 1..(Len(s) + 1) = 1..Len(s) \cup {Len(s) + 1}
  BY <1>1
<1> QED
  BY <1>1, <1>2 DEF ToSet

(* The empty sequence has no members.                                      *)
LEMMA ToSetEmpty == ToSet(<<>>) = {}
  BY EmptySeq DEF ToSet

(* The tags that a loop goes on with are those of the sequence in the set. *)
LEMMA OnlyInType ==
  ASSUME NEW S, NEW s \in Seq(S), NEW A
  PROVE  /\ OnlyIn(s, A) \in Seq(S)
         /\ ToSet(OnlyIn(s, A)) = ToSet(s) \cap A
<1> DEFINE Good == {t \in Seq(S) : /\ OnlyIn(t, A) \in Seq(S)
                                   /\ ToSet(OnlyIn(t, A)) = ToSet(t) \cap A}
<1>1. <<>> \in Good
  BY OnlyInEmpty, ToSetEmpty, EmptySeq
<1>2. ASSUME NEW t \in Seq(S), NEW x \in S, t \in Good PROVE Append(t, x) \in Good
  <2>1. OnlyIn(Append(t, x), A) = IF x \in A THEN Append(OnlyIn(t, A), x) ELSE OnlyIn(t, A)
    BY OnlyInAppend
  <2>2. OnlyIn(t, A) \in Seq(S) /\ ToSet(OnlyIn(t, A)) = ToSet(t) \cap A
    BY <1>2
  <2>3. ToSet(Append(t, x)) = ToSet(t) \cup {x}
    BY ToSetAppend
  <2>4. ToSet(Append(OnlyIn(t, A), x)) = (ToSet(t) \cap A) \cup {x}
    BY <2>2, ToSetAppend
  <2>5. Append(t, x) \in Seq(S) /\ Append(OnlyIn(t, A), x) \in Seq(S)
    BY <2>2, AppendProperties
  <2> QED
    BY <2>1, <2>2, <2>3, <2>4, <2>5
<1>3. Seq(S) \subseteq Good
  <2> HIDE DEF Good
  <2> QED
    BY <1>1, <1>2, EverySequence
<1> QED
  BY <1>3

(* No tag twice.                                                           *)
(* No member twice but those of R.                                         *)
Distinct(s, R) == \A i, j \in DOMAIN s : s[i] = s[j] /\ i # j => s[i] \in R

Once(s) == Distinct(s, {})

(* What is appended must be new, or an exception.                          *)
LEMMA DistinctAppend ==
  ASSUME NEW S, NEW s \in Seq(S), NEW x \in S, NEW R
  PROVE  Distinct(Append(s, x), R) <=> Distinct(s, R) /\ (x \in R \/ x \notin ToSet(s))
<1> DEFINE n == Len(s)
           t == Append(s, x)
<1>1. /\ n \in Nat /\ DOMAIN s = 1..n /\ DOMAIN t = 1..(n + 1)
      /\ \A i \in 1..n : t[i] = s[i]
      /\ t[n + 1] = x
  BY LenProperties, AppendProperties
<1> HIDE DEF t, n
<1>2. Distinct(t, R) => Distinct(s, R) /\ (x \in R \/ x \notin ToSet(s))
  BY <1>1 DEF Distinct, ToSet
<1>3. Distinct(s, R) /\ (x \in R \/ x \notin ToSet(s)) => Distinct(t, R)
  BY <1>1 DEF Distinct, ToSet
<1> QED
  BY <1>2, <1>3 DEF t

(* A loop meets no tag twice in what holds none twice.                     *)
LEMMA OnlyInDistinct ==
  ASSUME NEW S, NEW s \in Seq(S), NEW R, Distinct(s, R), NEW A
  PROVE  Distinct(OnlyIn(s, A), R)
<1> DEFINE Good == {t \in Seq(S) : Distinct(t, R) => Distinct(OnlyIn(t, A), R)}
<1>1. <<>> \in Good
  BY OnlyInEmpty, EmptySeq DEF Distinct
<1>2. ASSUME NEW t \in Seq(S), NEW x \in S, t \in Good PROVE Append(t, x) \in Good
  <2>1. OnlyIn(Append(t, x), A) = IF x \in A THEN Append(OnlyIn(t, A), x) ELSE OnlyIn(t, A)
    BY OnlyInAppend
  <2>2. Append(t, x) \in Seq(S)
    BY AppendProperties
  <2>3. OnlyIn(t, A) \in Seq(S) /\ ToSet(OnlyIn(t, A)) = ToSet(t) \cap A
    BY OnlyInType
  <2>4. Distinct(Append(t, x), R) => Distinct(t, R) /\ (x \in R \/ x \notin ToSet(t))
    BY DistinctAppend
  <2>5. Distinct(OnlyIn(t, A), R) /\ (x \in R \/ x \notin ToSet(OnlyIn(t, A)))
          => Distinct(Append(OnlyIn(t, A), x), R)
    BY <2>3, DistinctAppend
  <2> QED
    BY <1>2, <2>1, <2>2, <2>3, <2>4, <2>5
<1>3. Seq(S) \subseteq Good
  <2> HIDE DEF Good
  <2> QED
    BY <1>1, <1>2, EverySequence
<1> QED
  BY <1>3

(* What is appended has all the others ahead.                              *)
LEMMA AheadAppend ==
  ASSUME NEW S, NEW s \in Seq(S), NEW x \in S, NEW t, NEW u
  PROVE  Promise!Ahead(Append(s, x), t, u) <=>
           Promise!Ahead(s, t, u) /\ (x = u => t \in ToSet(s))
<1> DEFINE n == Len(s)
           r == Append(s, x)
<1>1. /\ n \in Nat /\ DOMAIN s = 1..n /\ DOMAIN r = 1..(n + 1)
      /\ \A i \in 1..n : r[i] = s[i]
      /\ r[n + 1] = x
  BY LenProperties, AppendProperties
<1> HIDE DEF r, n
<1>2. Promise!Ahead(r, t, u) => Promise!Ahead(s, t, u) /\ (x = u => t \in ToSet(s))
  <2> SUFFICES ASSUME Promise!Ahead(r, t, u)
               PROVE  Promise!Ahead(s, t, u) /\ (x = u => t \in ToSet(s))
    OBVIOUS
  <2>1. \A i \in 1..(n + 1) : r[i] = u => \E j \in 1..(n + 1) : j < i /\ r[j] = t
    BY <1>1 DEF Promise!Ahead
  <2>2. \A i \in 1..n : s[i] = u => \E j \in 1..n : j < i /\ s[j] = t
    <3> SUFFICES ASSUME NEW i \in 1..n, s[i] = u PROVE \E j \in 1..n : j < i /\ s[j] = t
      OBVIOUS
    <3>1. PICK j \in 1..(n + 1) : j < i /\ r[j] = t
      BY <1>1, <2>1
    <3> QED
      BY <1>1, <3>1
  <2>3. x = u => \E j \in 1..n : s[j] = t
    <3> SUFFICES ASSUME x = u PROVE \E j \in 1..n : s[j] = t
      OBVIOUS
    <3>1. PICK j \in 1..(n + 1) : j < n + 1 /\ r[j] = t
      BY <1>1, <2>1
    <3> QED
      BY <1>1, <3>1
  <2> QED
    BY <1>1, <2>2, <2>3 DEF Promise!Ahead, ToSet
<1>3. Promise!Ahead(s, t, u) /\ (x = u => t \in ToSet(s)) => Promise!Ahead(r, t, u)
  <2> SUFFICES ASSUME Promise!Ahead(s, t, u), x = u => t \in ToSet(s), NEW i \in 1..(n + 1), r[i] = u
               PROVE  \E j \in 1..(n + 1) : j < i /\ r[j] = t
    BY <1>1 DEF Promise!Ahead
  <2>1. CASE i \in 1..n
    <3>1. PICK j \in 1..n : j < i /\ s[j] = t
      BY <1>1, <2>1 DEF Promise!Ahead
    <3> QED
      BY <1>1, <3>1
  <2>2. CASE i = n + 1
    <3>1. PICK j \in 1..n : s[j] = t
      BY <1>1, <2>2 DEF ToSet
    <3> QED
      BY <1>1, <2>2, <3>1
  <2> QED
    BY <1>1, <2>1, <2>2
<1> QED
  BY <1>2, <1>3 DEF r

(* A loop leaves the order of those it goes on with.                       *)
LEMMA OnlyInAhead ==
  ASSUME NEW S, NEW s \in Seq(S), NEW A, NEW t \in A, NEW u \in A
  PROVE  Promise!Ahead(OnlyIn(s, A), t, u) <=> Promise!Ahead(s, t, u)
<1> DEFINE Good == {r \in Seq(S) : Promise!Ahead(OnlyIn(r, A), t, u) <=> Promise!Ahead(r, t, u)}
<1>1. <<>> \in Good
  BY OnlyInEmpty, EmptySeq
<1>2. ASSUME NEW r \in Seq(S), NEW x \in S, r \in Good PROVE Append(r, x) \in Good
  <2>1. OnlyIn(Append(r, x), A) = IF x \in A THEN Append(OnlyIn(r, A), x) ELSE OnlyIn(r, A)
    BY OnlyInAppend
  <2>2. Append(r, x) \in Seq(S)
    BY AppendProperties
  <2>3. OnlyIn(r, A) \in Seq(S) /\ (t \in ToSet(OnlyIn(r, A)) <=> t \in ToSet(r))
    BY OnlyInType
  <2>4. Promise!Ahead(Append(r, x), t, u) <=> Promise!Ahead(r, t, u) /\ (x = u => t \in ToSet(r))
    BY AheadAppend
  <2>5. Promise!Ahead(Append(OnlyIn(r, A), x), t, u) <=>
          Promise!Ahead(OnlyIn(r, A), t, u) /\ (x = u => t \in ToSet(OnlyIn(r, A)))
    BY <2>3, AheadAppend
  <2>6. CASE x \in A
    BY <1>2, <2>1, <2>2, <2>3, <2>4, <2>5, <2>6
  <2>7. CASE x \notin A
    BY <1>2, <2>1, <2>2, <2>4, <2>7
  <2> QED
    BY <2>6, <2>7
<1>3. Seq(S) \subseteq Good
  <2> HIDE DEF Good
  <2> QED
    BY <1>1, <1>2, EverySequence
<1> QED
  BY <1>3

(* Nothing is left out of a sequence that lies in the set.                 *)
LEMMA OnlyInAll ==
  ASSUME NEW S, NEW s \in Seq(S), NEW A, ToSet(s) \subseteq A
  PROVE  OnlyIn(s, A) = s
<1> DEFINE Good == {t \in Seq(S) : ToSet(t) \subseteq A => OnlyIn(t, A) = t}
<1>1. <<>> \in Good
  BY OnlyInEmpty, EmptySeq
<1>2. ASSUME NEW t \in Seq(S), NEW x \in S, t \in Good PROVE Append(t, x) \in Good
  <2>1. OnlyIn(Append(t, x), A) = IF x \in A THEN Append(OnlyIn(t, A), x) ELSE OnlyIn(t, A)
    BY OnlyInAppend
  <2>3. ToSet(Append(t, x)) = ToSet(t) \cup {x}
    BY ToSetAppend
  <2>4. Append(t, x) \in Seq(S)
    BY AppendProperties
  <2> QED
    BY <1>2, <2>1, <2>3, <2>4
<1>3. Seq(S) \subseteq Good
  <2> HIDE DEF Good
  <2> QED
    BY <1>1, <1>2, EverySequence
<1> QED
  BY <1>3

(* A loop over two sequences, one after the other.                         *)
LEMMA OnlyInConcat ==
  ASSUME NEW S, NEW s \in Seq(S), NEW w \in Seq(S), NEW A
  PROVE  OnlyIn(s \o w, A) = OnlyIn(s, A) \o OnlyIn(w, A)
<1> DEFINE Good == {t \in Seq(S) : OnlyIn(s \o t, A) = OnlyIn(s, A) \o OnlyIn(t, A)}
<1>0. OnlyIn(s, A) \in Seq(S)
  BY OnlyInType
<1>1. <<>> \in Good
  <2>1. s \o <<>> = s /\ OnlyIn(s, A) \o <<>> = OnlyIn(s, A)
    BY <1>0, ConcatEmptySeq
  <2>2. OnlyIn(<<>>, A) = <<>> /\ <<>> \in Seq(S)
    BY OnlyInEmpty, EmptySeq
  <2>3. OnlyIn(s \o <<>>, A) = OnlyIn(s, A) \o OnlyIn(<<>>, A)
    BY <2>1, <2>2
  <2> DEFINE none == <<>>
  <2>4. none \in Seq(S) /\ OnlyIn(s \o none, A) = OnlyIn(s, A) \o OnlyIn(none, A)
    BY <2>2, <2>3
  <2> HIDE DEF none
  <2>5. none \in Good
    BY <2>4
  <2> QED
    BY <2>5 DEF none
<1>2. ASSUME NEW t \in Seq(S), NEW x \in S, t \in Good PROVE Append(t, x) \in Good
  <2>1. OnlyIn(Append(t, x), A) = IF x \in A THEN Append(OnlyIn(t, A), x) ELSE OnlyIn(t, A)
    <3> HIDE DEF Good
    <3> QED
      BY OnlyInAppendEach
  <2> DEFINE both == s \o t
  <2>2. both \in Seq(S) /\ s \o Append(t, x) = Append(both, x)
    OBVIOUS
  <2>3. OnlyIn(Append(both, x), A) = IF x \in A THEN Append(OnlyIn(both, A), x) ELSE OnlyIn(both, A)
    <3>1. both \in Seq(S)
      OBVIOUS
    <3>2. \A u \in Seq(S) : OnlyIn(Append(u, x), A) = IF x \in A THEN Append(OnlyIn(u, A), x) ELSE OnlyIn(u, A)
      BY OnlyInAppendEach
    <3> HIDE DEF both, Good
    <3> QED
      BY <3>1, <3>2
  <2>4. OnlyIn(t, A) \in Seq(S)
    BY OnlyInType
  <2>5. OnlyIn(s, A) \o Append(OnlyIn(t, A), x) = Append(OnlyIn(s, A) \o OnlyIn(t, A), x)
    BY <1>0, <2>4
  <2>6. Append(t, x) \in Seq(S)
    BY AppendProperties
  <2> QED
    BY <1>2, <2>1, <2>2, <2>3, <2>5, <2>6
<1>3. Seq(S) \subseteq Good
  <2> HIDE DEF Good
  <2> QED
    BY <1>1, <1>2, EverySequence
<1> QED
  BY <1>3

(* A sequence without repetition is as long as it has members.             *)
LEMMA OnceCounts ==
  ASSUME NEW S, NEW s \in Seq(S), Once(s)
  PROVE  IsFiniteSet(ToSet(s)) /\ Cardinality(ToSet(s)) = Len(s)
<1> DEFINE n == Len(s)
<1>1. n \in Nat /\ DOMAIN s = 1..n
  BY LenProperties
<1>2. s \in Bijection(1..n, ToSet(s))
  <2>1. s \in [1..n -> ToSet(s)]
    BY <1>1 DEF ToSet
  <2>2. s \in Injection(1..n, ToSet(s))
    BY <1>1, <2>1 DEF Once, Distinct, Injection, IsInjective
  <2>3. s \in Surjection(1..n, ToSet(s))
    BY <1>1, <2>1 DEF ToSet, Surjection
  <2> QED
    BY <2>2, <2>3 DEF Bijection
<1>3. IsFiniteSet(1..n) /\ Cardinality(1..n) = n
  <2> HIDE DEF n
  <2> QED
    BY <1>1, FS_Interval
<1>4. ExistsBijection(1..n, ToSet(s))
  BY <1>2 DEF ExistsBijection
<1> HIDE DEF n
<1>5. IsFiniteSet(ToSet(s)) /\ Cardinality(ToSet(s)) = n
  BY <1>1, <1>3, <1>2, <1>4, FS_Bijection
<1> QED
  BY <1>5 DEF n
-----------------------------------------------------------------------------
(* What the order is worth: the tags of R may be in it twice, and it names *)
(* every tag of the map if it is full.                                     *)
Sound(f, R, full) ==
  /\ f \in Collection
  /\ IsFiniteSet(DOMAIN f.m)
  /\ Distinct(f.order, R \cup {NoTag})
  /\ ToSet(f.order) \subseteq DOMAIN f.m \cup {NoTag} \/ f.dirty
  /\ full => f.order \in Seq(Tags) /\ DOMAIN f.m \subseteq ToSet(f.order)

Live(f) == OnlyIn(f.order, DOMAIN f.m)

(* The parts of a collection.                                              *)
LEMMA CollectionFacts ==
  ASSUME NEW f \in Collection
  PROVE  /\ f = [m |-> f.m, order |-> f.order, dirty |-> f.dirty]
         /\ DOMAIN f.m \subseteq Tags /\ f.m \in [DOMAIN f.m -> Fillers]
         /\ f.order \in Seq(Tags \cup {NoTag}) /\ f.dirty \in BOOLEAN
  BY DEF Collection

(* A record of such parts is a collection.                                 *)
LEMMA CollectionMade ==
  ASSUME NEW T \in SUBSET Tags, NEW m \in [T -> Fillers],
         NEW o \in Seq(Tags \cup {NoTag}), NEW d \in BOOLEAN
  PROVE  [m |-> m, order |-> o, dirty |-> d] \in Collection
  BY DEF Collection

(* A sequence whose members are known.                                     *)
LEMMA SeqOfMembers ==
  ASSUME NEW S, NEW s \in Seq(S), NEW T, ToSet(s) \subseteq T
  PROVE  s \in Seq(T)
<1>1. DOMAIN s = 1..Len(s) /\ Len(s) \in Nat /\ s = [i \in 1..Len(s) |-> s[i]]
  BY LenProperties
<1>2. \A i \in 1..Len(s) : s[i] \in T
  BY <1>1 DEF ToSet
<1> DEFINE r == [i \in 1..Len(s) |-> s[i]]
<1>3. r \in Seq(T)
  BY <1>1, <1>2, IsASeq
<1> QED
  BY <1>1, <1>3

(* The tags of a collection in its order: those of its map.                *)
LEMMA LiveFacts ==
  ASSUME NEW R, NEW full, NEW f, Sound(f, R, full)
  PROVE  /\ Live(f) \in Seq(Tags) /\ Distinct(Live(f), R)
         /\ ToSet(Live(f)) = ToSet(f.order) \cap DOMAIN f.m
         /\ full => ToSet(Live(f)) = DOMAIN f.m
<1> DEFINE o == f.order
           D == DOMAIN f.m
           l == OnlyIn(o, D)
<1>1. /\ o \in Seq(Tags \cup {NoTag}) /\ Distinct(o, R \cup {NoTag}) /\ D \subseteq Tags
      /\ full => D \subseteq ToSet(o)
  BY CollectionFacts DEF Sound
<1>2. Live(f) = l
  BY DEF Live
<1> HIDE DEF o, D
<1>3. l \in Seq(Tags \cup {NoTag}) /\ ToSet(l) = ToSet(o) \cap D
  BY <1>1, OnlyInType
<1>4. Distinct(l, R \cup {NoTag})
  BY <1>1, OnlyInDistinct
<1> HIDE DEF l
<1>5. ToSet(l) \subseteq Tags
  BY <1>1, <1>3
<1>6. l \in Seq(Tags)
  BY <1>3, <1>5, SeqOfMembers
<1>7. Distinct(l, R)
  <2>1. \A i \in DOMAIN l : l[i] # NoTag
    BY <1>5, TagAssumption DEF ToSet
  <2> QED
    BY <1>4, <2>1 DEF Distinct
<1> QED
  BY <1>1, <1>2, <1>3, <1>6, <1>7 DEF o, D

(* Cleaning keeps the tags of the map in their order, and drops all others *)
(* but what a copy has put there for a tag.                                *)
LEMMA CleanIsSound ==
  ASSUME NEW R, NEW full, NEW f, Sound(f, R, full)
  PROVE  /\ Sound(Clean(f), R, full) /\ ~Clean(f).dirty /\ Clean(f).m = f.m
         /\ ToSet(Clean(f).order) \subseteq DOMAIN f.m \cup {NoTag}
         /\ Live(Clean(f)) = Live(f)
         /\ full => Clean(f).order = Live(f)
<1>1. f \in Collection
  BY DEF Sound
<1>2. /\ f = [m |-> f.m, order |-> f.order, dirty |-> f.dirty]
      /\ DOMAIN f.m \subseteq Tags /\ f.m \in [DOMAIN f.m -> Fillers]
      /\ f.dirty \in BOOLEAN /\ f.order \in Seq(Tags \cup {NoTag})
  BY <1>1, CollectionFacts
<1>3. /\ Live(f) \in Seq(Tags) /\ Distinct(Live(f), R)
      /\ ToSet(Live(f)) = ToSet(f.order) \cap DOMAIN f.m
      /\ full => ToSet(Live(f)) = DOMAIN f.m
  BY LiveFacts
<1> DEFINE g == [m |-> f.m, order |-> Live(f), dirty |-> FALSE]
<1>4. CASE f.dirty
  <2>1. Clean(f) = g
    <3> DEFINE o == OnlyIn(f.order, DOMAIN f.m)
    <3>1. Clean(f) = [f EXCEPT !.order = o, !.dirty = FALSE]
      BY <1>4 DEF Clean
    <3> HIDE DEF o
    <3>2. Clean(f) = [m |-> f.m, order |-> o, dirty |-> FALSE]
      BY <1>2, <3>1
    <3> QED
      BY <3>2 DEF Live, o
  <2>2. g.m = f.m /\ g.order = Live(f) /\ g.dirty = FALSE
    OBVIOUS
  <2>3. Live(f) \in Seq(Tags \cup {NoTag})
    BY <1>3, SeqMonotonic
  <2>4. g \in Collection
    BY <1>2, <2>3, CollectionMade
  <2> HIDE DEF g
  <2>5. Distinct(Live(f), R \cup {NoTag})
    BY <1>3 DEF Distinct
  <2>6. Sound(g, R, full)
    BY <1>3, <2>2, <2>4, <2>5 DEF Sound
  <2>7. OnlyIn(Live(f), DOMAIN f.m) = Live(f)
    BY <1>3, OnlyInAll
  <2>8. Live(g) = Live(f)
    <3> HIDE DEF Live
    <3>1. Live(g) = OnlyIn(Live(f), DOMAIN f.m)
      BY <2>2 DEF Live
    <3> QED
      BY <2>7, <3>1
  <2> QED
    BY <1>3, <2>1, <2>2, <2>6, <2>8
<1>5. CASE ~f.dirty
  <2>1. Clean(f) = f
    BY <1>5 DEF Clean
  <2>2. ToSet(f.order) \subseteq DOMAIN f.m \cup {NoTag}
    BY <1>5 DEF Sound
  <2>3. full => f.order = Live(f)
    <3> SUFFICES ASSUME full PROVE f.order = Live(f)
      OBVIOUS
    <3>1. f.order \in Seq(Tags)
      BY DEF Sound
    <3>2. ToSet(f.order) \subseteq Tags
      BY <3>1, LenProperties DEF ToSet
    <3>3. ToSet(f.order) \subseteq DOMAIN f.m
      BY <2>2, <3>2, TagAssumption
    <3> QED
      BY <3>1, <3>3, OnlyInAll DEF Live
  <2> QED
    BY <1>5, <2>1, <2>2, <2>3
<1> QED
  BY <1>4, <1>5

(* A copy whose order has room for every tag: it comes to cleaning.        *)
LEMMA CopyIsClean ==
  ASSUME NEW f, Sound(f, {}, TRUE)
  PROVE  Copy(f) = Clean(f)
<1> DEFINE n == Cardinality(DOMAIN f.m)
           l == Live(f)
<1>1. Clean(f).m = f.m /\ ~Clean(f).dirty /\ Clean(f).order = l /\ Clean(f) \in Collection
  BY CleanIsSound DEF Sound
<1>2. l \in Seq(Tags) /\ Once(l) /\ ToSet(l) = DOMAIN f.m
  BY LiveFacts DEF Once
<1> HIDE DEF l
<1>3. n = Len(l)
  BY <1>2, OnceCounts
<1>4. DOMAIN l = 1..n /\ l = [i \in 1..n |-> l[i]]
  BY <1>2, <1>3, LenProperties
<1> HIDE DEF n
<1>5. [i \in 1..n |-> IF i \in DOMAIN l THEN l[i] ELSE NoTag] = l
  BY <1>4
<1>6. Copy(f) = [m |-> f.m,
                 order |-> [i \in 1..n |-> IF i \in DOMAIN l THEN l[i] ELSE NoTag],
                 dirty |-> FALSE]
  BY <1>1 DEF Copy, n
<1>7. Clean(f) = [m |-> f.m, order |-> l, dirty |-> FALSE]
  <2>1. /\ Clean(f) = [m |-> Clean(f).m, order |-> Clean(f).order, dirty |-> Clean(f).dirty]
        /\ Clean(f).dirty = FALSE
    BY <1>1, CollectionFacts
  <2> QED
    BY <1>1, <2>1
<1> QED
  BY <1>5, <1>6, <1>7

(* Any copy: it names the tags that its order has room for, in their order.*)
LEMMA CopyIsSound ==
  ASSUME NEW R, NEW full, NEW f, Sound(f, R, full)
  PROVE  /\ Sound(Copy(f), R, FALSE) /\ ~Copy(f).dirty /\ Copy(f).m = f.m
         /\ ToSet(Copy(f).order) \subseteq DOMAIN f.m \cup {NoTag}
         /\ \A t, u \in DOMAIN f.m :
              Promise!Ahead(f.order, t, u) => Promise!Ahead(Copy(f).order, t, u)
<1> DEFINE n == Cardinality(DOMAIN f.m)
           b == Clean(f)
           l == b.order
           o == [i \in 1..n |-> IF i \in DOMAIN l THEN l[i] ELSE NoTag]
           g == [m |-> f.m, order |-> o, dirty |-> FALSE]
<1>1. /\ Sound(b, R, full) /\ b.m = f.m /\ ToSet(l) \subseteq DOMAIN f.m \cup {NoTag}
      /\ Live(b) = Live(f)
  BY CleanIsSound
<1>2. f \in Collection /\ IsFiniteSet(DOMAIN f.m)
  BY DEF Sound
<1>3. DOMAIN f.m \subseteq Tags /\ f.m \in [DOMAIN f.m -> Fillers] /\ f.order \in Seq(Tags \cup {NoTag})
  BY <1>2, CollectionFacts
<1>4. l \in Seq(Tags \cup {NoTag}) /\ Distinct(l, R \cup {NoTag})
  BY <1>1, CollectionFacts DEF Sound
<1>5. Copy(f) = g
  BY DEF Copy
<1>6. n \in Nat
  BY <1>2, FS_CardinalityType
<1>11. \A t, u \in DOMAIN f.m : Promise!Ahead(f.order, t, u) => Promise!Ahead(l, t, u)
  <2> SUFFICES ASSUME NEW t \in DOMAIN f.m, NEW u \in DOMAIN f.m, Promise!Ahead(f.order, t, u)
               PROVE  Promise!Ahead(l, t, u)
    OBVIOUS
  <2>1. Promise!Ahead(Live(f), t, u)
    BY <1>3, OnlyInAhead DEF Live
  <2>2. Live(f) = OnlyIn(l, DOMAIN f.m)
    BY <1>1 DEF Live
  <2> HIDE DEF l
  <2>3. Promise!Ahead(OnlyIn(l, DOMAIN f.m), t, u)
    BY <2>1, <2>2
  <2> QED
    BY <1>4, <2>3, OnlyInAhead
<1> HIDE DEF n, l, b
<1>7. \A i \in DOMAIN l : l[i] \in DOMAIN f.m \cup {NoTag}
  BY <1>1 DEF ToSet
<1>8. o \in Seq(Tags \cup {NoTag}) /\ DOMAIN o = 1..n
  <2>1. \A i \in 1..n : (IF i \in DOMAIN l THEN l[i] ELSE NoTag) \in Tags \cup {NoTag}
    BY <1>3, <1>7
  <2>2. o \in Seq(Tags \cup {NoTag})
    BY <1>6, <2>1, IsASeq
  <2> QED
    BY <2>2
<1>9. Distinct(o, R \cup {NoTag}) /\ ToSet(o) \subseteq DOMAIN f.m \cup {NoTag}
  <2>1. Distinct(o, R \cup {NoTag})
    BY <1>4 DEF Distinct
  <2>2. ToSet(o) \subseteq DOMAIN f.m \cup {NoTag}
    BY <1>7 DEF ToSet
  <2> QED
    BY <2>1, <2>2
<1>10. \A t, u \in DOMAIN f.m : Promise!Ahead(l, t, u) => Promise!Ahead(o, t, u)
  <2> SUFFICES ASSUME NEW t \in DOMAIN f.m, NEW u \in DOMAIN f.m, Promise!Ahead(l, t, u),
                      NEW i \in 1..n, o[i] = u
               PROVE  \E j \in 1..n : j < i /\ o[j] = t
    BY <1>8 DEF Promise!Ahead
  <2>1. u # NoTag
    BY <1>3, TagAssumption
  <2>2. i \in DOMAIN l /\ l[i] = u
    BY <2>1
  <2>3. PICK j \in DOMAIN l : j < i /\ l[j] = t
    BY <2>2 DEF Promise!Ahead
  <2>4. DOMAIN l = 1..Len(l) /\ Len(l) \in Nat
    BY <1>4, LenProperties
  <2>5. j \in 1..n
    BY <1>6, <2>3, <2>4
  <2>6. o[j] = t
    BY <2>3, <2>5
  <2> QED
    BY <2>3, <2>5, <2>6
<1> HIDE DEF o
<1>12. g \in Collection /\ g.m = f.m /\ g.order = o /\ g.dirty = FALSE
  <2>1. g \in Collection
    BY <1>3, <1>8, CollectionMade
  <2> QED
    BY <2>1
<1> HIDE DEF g
<1>13. Sound(g, R, FALSE)
  BY <1>2, <1>9, <1>12 DEF Sound
<1> QED
  BY <1>5, <1>9, <1>10, <1>11, <1>12, <1>13

(* Cleaning panics only if a tag of the map is in the order twice: the     *)
(* prefix before the first stale tag holds tags of the map only.           *)
LEMMA PanicRepeats ==
  ASSUME NEW R, NEW full, NEW f, Sound(f, R, full), CleanPanics(f)
  PROVE  R \cap DOMAIN f.m # {}
<1> SUFFICES ASSUME R \cap DOMAIN f.m = {} PROVE FALSE
  OBVIOUS
<1>1. PICK i \in DOMAIN f.order :
         /\ \A j \in 1..(i - 1) : HasTag(f, f.order[j])
         /\ i - 1 > Cardinality(DOMAIN f.m)
  BY DEF CleanPanics
<1>2. /\ f.order \in Seq(Tags \cup {NoTag}) /\ Distinct(f.order, R \cup {NoTag})
      /\ DOMAIN f.m \subseteq Tags /\ IsFiniteSet(DOMAIN f.m)
  BY CollectionFacts DEF Sound
<1>3. DOMAIN f.order = 1..Len(f.order) /\ Len(f.order) \in Nat
  BY <1>2, LenProperties
<1> DEFINE p == [j \in 1..(i - 1) |-> f.order[j]]
<1>4. i - 1 \in Nat /\ \A j \in 1..(i - 1) : j \in DOMAIN f.order /\ f.order[j] \in DOMAIN f.m
  BY <1>1, <1>3 DEF HasTag
<1>5. p \in Seq(DOMAIN f.m) /\ Len(p) = i - 1 /\ DOMAIN p = 1..(i - 1)
  <2>1. \A j \in 1..(i - 1) : f.order[j] \in DOMAIN f.m
    BY <1>4
  <2>2. p \in Seq(DOMAIN f.m)
    BY <1>4, <2>1, IsASeq
  <2> QED
    BY <1>4, <2>2
<1>6. Once(p)
  <2>1. \A j \in 1..(i - 1) : f.order[j] \notin R \cup {NoTag}
    BY <1>2, <1>4, TagAssumption
  <2> QED
    BY <1>2, <1>4, <2>1 DEF Once, Distinct
<1>7. ToSet(p) \subseteq DOMAIN f.m
  BY <1>4 DEF ToSet
<1> HIDE DEF p
<1>8. IsFiniteSet(ToSet(p)) /\ Cardinality(ToSet(p)) = i - 1
  BY <1>5, <1>6, OnceCounts
<1>9. Cardinality(DOMAIN f.m) \in Nat
  BY <1>2, FS_CardinalityType
<1>10. Cardinality(ToSet(p)) <= Cardinality(DOMAIN f.m)
  BY <1>2, <1>7, FS_Subset
<1> QED
  BY <1>1, <1>4, <1>8, <1>9, <1>10

(* Adding and removing as records.                                         *)
LEMMA AddTagCases ==
  ASSUME NEW f \in Collection, NEW tag, NEW filler
  PROVE  /\ filler = NoFiller /\ HasTag(f, tag) =>
              AddTag(f, tag, filler) =
                [m |-> [t \in DOMAIN f.m \ {tag} |-> f.m[t]], order |-> f.order, dirty |-> TRUE]
         /\ filler = NoFiller /\ ~HasTag(f, tag) => AddTag(f, tag, filler) = f
         /\ filler # NoFiller =>
              AddTag(f, tag, filler) =
                [m |-> [t \in DOMAIN f.m \cup {tag} |-> IF t = tag THEN filler ELSE f.m[t]],
                 order |-> IF HasTag(f, tag) THEN f.order ELSE Append(f.order, tag),
                 dirty |-> f.dirty]
<1>1. f = [m |-> f.m, order |-> f.order, dirty |-> f.dirty]
  BY CollectionFacts
<1>2. ASSUME filler = NoFiller, HasTag(f, tag)
      PROVE  AddTag(f, tag, filler) =
               [m |-> [t \in DOMAIN f.m \ {tag} |-> f.m[t]], order |-> f.order, dirty |-> TRUE]
  <2> DEFINE n == [t \in DOMAIN f.m \ {tag} |-> f.m[t]]
  <2>1. AddTag(f, tag, filler) = [f EXCEPT !.m = n, !.dirty = TRUE]
    BY <1>2 DEF AddTag, RemoveTag
  <2> HIDE DEF n
  <2>2. AddTag(f, tag, filler) = [m |-> n, order |-> f.order, dirty |-> TRUE]
    BY <1>1, <2>1
  <2> QED
    BY <2>2 DEF n
<1>3. ASSUME filler # NoFiller
      PROVE  AddTag(f, tag, filler) =
                [m |-> [t \in DOMAIN f.m \cup {tag} |-> IF t = tag THEN filler ELSE f.m[t]],
                 order |-> IF HasTag(f, tag) THEN f.order ELSE Append(f.order, tag),
                 dirty |-> f.dirty]
  <2> DEFINE n == [t \in DOMAIN f.m \cup {tag} |-> IF t = tag THEN filler ELSE f.m[t]]
             o == IF HasTag(f, tag) THEN f.order ELSE Append(f.order, tag)
  <2>1. AddTag(f, tag, filler) = [f EXCEPT !.m = n, !.order = o]
    BY <1>3 DEF AddTag
  <2> HIDE DEF n, o
  <2>2. AddTag(f, tag, filler) = [m |-> n, order |-> o, dirty |-> f.dirty]
    BY <1>1, <2>1
  <2> QED
    BY <2>2 DEF n, o
<1>4. filler = NoFiller /\ ~HasTag(f, tag) => AddTag(f, tag, filler) = f
  BY DEF AddTag, RemoveTag
<1> QED
  BY <1>2, <1>3, <1>4

(* g differs from f in what has given way to others and what has left.     *)
Replaced(f, g) ==
  /\ g \in Collection /\ g.order = f.order /\ DOMAIN g.m \subseteq DOMAIN f.m
  /\ g.dirty \/ (~f.dirty /\ DOMAIN g.m = DOMAIN f.m)

(* The order is worth as much as before.                                   *)
LEMMA ReplacedIsSound ==
  ASSUME NEW R, NEW full, NEW f, Sound(f, R, full), NEW g, Replaced(f, g)
  PROVE  Sound(g, R, full)
<1>1. IsFiniteSet(DOMAIN g.m)
  BY FS_Subset DEF Sound, Replaced
<1> QED
  BY <1>1 DEF Sound, Replaced

(* One that has a place gives way to another or to nothing. *)
LEMMA AddInPlace ==
  ASSUME NEW f \in Collection, NEW tag \in DOMAIN f.m, NEW filler \in Fillers \cup {NoFiller}
  PROVE  /\ Replaced(f, AddTag(f, tag, filler))
         /\ DOMAIN f.m \ {tag} \subseteq DOMAIN AddTag(f, tag, filler).m
         /\ filler # NoFiller => /\ AddTag(f, tag, filler).dirty = f.dirty
                                 /\ DOMAIN AddTag(f, tag, filler).m = DOMAIN f.m
<1>2. /\ DOMAIN f.m \subseteq Tags /\ f.m \in [DOMAIN f.m -> Fillers]
      /\ f.order \in Seq(Tags \cup {NoTag}) /\ f.dirty \in BOOLEAN
  BY CollectionFacts
<1> DEFINE T == IF filler = NoFiller THEN DOMAIN f.m \ {tag} ELSE DOMAIN f.m
           m == [t \in T |-> IF t = tag THEN filler ELSE f.m[t]]
           d == filler = NoFiller \/ f.dirty
           g == [m |-> m, order |-> f.order, dirty |-> d]
<1>3. AddTag(f, tag, filler) = g
  <2>1. CASE filler = NoFiller
    <3>1. AddTag(f, tag, filler) =
            [m |-> [t \in DOMAIN f.m \ {tag} |-> f.m[t]], order |-> f.order, dirty |-> TRUE]
      BY <2>1, AddTagCases DEF HasTag
    <3>2. m = [t \in DOMAIN f.m \ {tag} |-> f.m[t]] /\ d = TRUE
      BY <2>1
    <3> HIDE DEF m, d
    <3> QED
      BY <3>1, <3>2
  <2>2. CASE filler # NoFiller
    <3>1. AddTag(f, tag, filler) =
                [m |-> [t \in DOMAIN f.m \cup {tag} |-> IF t = tag THEN filler ELSE f.m[t]],
                 order |-> f.order, dirty |-> f.dirty]
      BY <2>2, AddTagCases DEF HasTag
    <3>2. m = [t \in DOMAIN f.m \cup {tag} |-> IF t = tag THEN filler ELSE f.m[t]] /\ d = f.dirty
      BY <1>2, <2>2
    <3> HIDE DEF m, d
    <3> QED
      BY <3>1, <3>2
  <2> QED
    BY <2>1, <2>2
<1>4. m \in [T -> Fillers] /\ T \in SUBSET Tags /\ d \in BOOLEAN
  BY <1>2
<1>5. T \subseteq DOMAIN f.m /\ DOMAIN f.m \ {tag} \subseteq T /\ (T = DOMAIN f.m \/ d)
  OBVIOUS
<1>6. /\ filler # NoFiller => d = f.dirty /\ T = DOMAIN f.m
      /\ d \/ (~f.dirty /\ T = DOMAIN f.m)
  BY <1>2
<1> HIDE DEF m, T, d
<1>7. g \in Collection /\ g.m = m /\ g.order = f.order /\ g.dirty = d /\ DOMAIN m = T
  <2>1. g \in Collection
    BY <1>2, <1>4, CollectionMade
  <2> QED
    BY <1>4, <2>1
<1> HIDE DEF g
<1> QED
  BY <1>3, <1>5, <1>6, <1>7 DEF Replaced

(* A filler for a new tag comes last.  When the order still names the tag  *)
(* from before, it does so twice from now on.                              *)
LEMMA AddAtTheEnd ==
  ASSUME NEW R, NEW full, NEW f, Sound(f, R, full), NEW tag \in Tags \ DOMAIN f.m, NEW filler \in Fillers,
         NEW Q, R \subseteq Q, tag \in ToSet(f.order) => tag \in Q
  PROVE  /\ Sound(AddTag(f, tag, filler), Q, full)
         /\ AddTag(f, tag, filler).order = Append(f.order, tag)
         /\ AddTag(f, tag, filler).dirty = f.dirty
         /\ DOMAIN AddTag(f, tag, filler).m = DOMAIN f.m \cup {tag}
<1>1. /\ f \in Collection /\ IsFiniteSet(DOMAIN f.m) /\ Distinct(f.order, R \cup {NoTag})
      /\ ToSet(f.order) \subseteq DOMAIN f.m \cup {NoTag} \/ f.dirty
      /\ full => f.order \in Seq(Tags) /\ DOMAIN f.m \subseteq ToSet(f.order)
  BY DEF Sound
<1>2. /\ DOMAIN f.m \subseteq Tags /\ f.m \in [DOMAIN f.m -> Fillers]
      /\ f.dirty \in BOOLEAN /\ f.order \in Seq(Tags \cup {NoTag})
  BY <1>1, CollectionFacts
<1> DEFINE T == DOMAIN f.m \cup {tag}
           m == [t \in T |-> IF t = tag THEN filler ELSE f.m[t]]
           o == Append(f.order, tag)
           g == [m |-> m, order |-> o, dirty |-> f.dirty]
<1>3. AddTag(f, tag, filler) = g
  <2>1. filler # NoFiller
    BY TagAssumption
  <2>2. ~HasTag(f, tag)
    BY DEF HasTag
  <2> QED
    BY <1>1, <2>1, <2>2, AddTagCases
<1>4. m \in [T -> Fillers] /\ T \in SUBSET Tags
  BY <1>2
<1>5. /\ o \in Seq(Tags \cup {NoTag}) /\ ToSet(o) = ToSet(f.order) \cup {tag}
      /\ Distinct(o, Q \cup {NoTag})
      /\ full => o \in Seq(Tags)
  <2>1. o \in Seq(Tags \cup {NoTag}) /\ (full => o \in Seq(Tags))
    BY <1>1, <1>2, AppendProperties
  <2>2. ToSet(o) = ToSet(f.order) \cup {tag}
    BY <1>2, ToSetAppend
  <2>3. Distinct(f.order, Q \cup {NoTag})
    BY <1>1 DEF Distinct
  <2>4. Distinct(o, Q \cup {NoTag})
    BY <1>2, <2>3, DistinctAppend
  <2> QED
    BY <2>1, <2>2, <2>4
<1>6. IsFiniteSet(T)
  BY <1>1, FS_AddElement
<1> HIDE DEF m, o
<1>7. g \in Collection /\ g.m = m /\ g.order = o /\ g.dirty = f.dirty /\ DOMAIN m = T
  <2>1. g \in Collection
    <3> HIDE DEF T
    <3> QED
      BY <1>2, <1>4, <1>5, CollectionMade
  <2> QED
    BY <1>4, <2>1
<1> HIDE DEF g
<1>8. Sound(g, Q, full)
  BY <1>1, <1>5, <1>6, <1>7 DEF Sound
<1> QED
  BY <1>3, <1>7, <1>8 DEF o

(* f is a fold that gives the tags of T, all in base, the fillers of       *)
(* below, one tag after the other.                                         *)
Substitutes(f, T, base, below) ==
  f = [s \in SUBSET T |->
         IF s = {} THEN base
         ELSE AddTag(f[s \ {CHOOSE t \in s : TRUE}], CHOOSE t \in s : TRUE,
                     below[CHOOSE t \in s : TRUE])]

(* The same of a function of which only values that are collections count. *)
Proceeds(f, T, base, below) ==
  /\ f[{}] = base
  /\ \A s \in SUBSET T :
       s # {} /\ f[s \ {CHOOSE t \in s : TRUE}] \in Collection =>
         f[s] = AddTag(f[s \ {CHOOSE t \in s : TRUE}], CHOOSE t \in s : TRUE,
                       below[CHOOSE t \in s : TRUE])

(* Whatever the order of the tags, every filler keeps its place.           *)
LEMMA SubstitutesKeeps ==
  ASSUME NEW base \in Collection, NEW T \in SUBSET DOMAIN base.m, IsFiniteSet(T),
         NEW below \in [T -> Fillers \cup {NoFiller}],
         NEW f, Proceeds(f, T, base, below)
  PROVE  \A s \in SUBSET T : Replaced(base, f[s])
<1> DEFINE pick(s) == CHOOSE t \in s : TRUE
           rest == [s \in SUBSET T |-> s \ {pick(s)}]
           Good == {s \in SUBSET T : /\ Replaced(base, f[s])
                                     /\ DOMAIN base.m \ s \subseteq DOMAIN f[s].m}
<1>1. IsFiniteSet(T)
  OBVIOUS
<1>2. \A s \in SUBSET T : s # {} => pick(s) \in s
  OBVIOUS
<1>3. \A s \in SUBSET T : s # {} /\ f[s \ {pick(s)}] \in Collection =>
                           f[s] = AddTag(f[s \ {pick(s)}], pick(s), below[pick(s)])
  BY DEF Proceeds
<1> HIDE DEF pick
<1>4. Shrinks(rest, T)
  BY <1>2 DEF Shrinks
<1>5. {} \in Good
  <2>1. f[{}] = base
    BY DEF Proceeds
  <2> QED
    BY <2>1 DEF Replaced
<1>6. ASSUME NEW s \in SUBSET T, s # {}, rest[s] \in Good PROVE s \in Good
  <2> DEFINE t == pick(s)
             r == s \ {t}
             g == f[r]
             h == AddTag(g, t, below[t])
  <2>1. t \in s /\ t \in T /\ below[t] \in Fillers \cup {NoFiller}
    BY <1>2, <1>6
  <2>2. Replaced(base, g) /\ DOMAIN base.m \ r \subseteq DOMAIN g.m
    BY <1>6
  <2>3. f[s] = h
    BY <1>3, <1>6, <2>2 DEF Replaced
  <2> HIDE DEF t, g
  <2>4. g \in Collection /\ t \in DOMAIN g.m
    BY <2>1, <2>2 DEF Replaced
  <2>5. Replaced(g, h) /\ DOMAIN g.m \ {t} \subseteq DOMAIN h.m
    BY <2>1, <2>4, AddInPlace
  <2> HIDE DEF h
  <2>6. Replaced(base, h)
    BY <2>2, <2>5 DEF Replaced
  <2>7. DOMAIN base.m \ s \subseteq DOMAIN h.m
    BY <2>1, <2>2, <2>5
  <2> QED
    BY <2>3, <2>6, <2>7
<1>7. SUBSET T \subseteq Good
  <2>1. \A s \in SUBSET T : s # {} /\ rest[s] \in Good => s \in Good
    BY <1>6
  <2> HIDE DEF Good, rest
  <2> QED
    BY <1>1, <1>4, <1>5, <2>1, EverySubset
<1> QED
  BY <1>7

(* There is such a fold.                                                   *)
LEMMA SubstitutesExists ==
  ASSUME NEW base \in Collection, NEW T \in SUBSET DOMAIN base.m, IsFiniteSet(T),
         NEW below \in [T -> Fillers \cup {NoFiller}]
  PROVE  \E f : Substitutes(f, T, base, below)
<1> DEFINE pick(s) == CHOOSE t \in s : TRUE
           rest == [s \in SUBSET T |-> s \ {pick(s)}]
           step == [p \in Collection \X SUBSET T |-> AddTag(p[1], pick(p[2]), below[pick(p[2])])]
<1>1. IsFiniteSet(T)
  OBVIOUS
<1>2. \A s \in SUBSET T : s # {} => pick(s) \in s
  OBVIOUS
<1>3. Shrinks(rest, T)
  <2> HIDE DEF pick
  <2> QED
    BY <1>2 DEF Shrinks
<1>4. PICK f : Unfolds(f, T, base, rest, step)
  <2> HIDE DEF rest, step
  <2> QED
    BY <1>1, <1>3, UnfoldsExists
<1>5. f = [s \in SUBSET T |-> IF s = {} THEN base ELSE step[<<f[rest[s]], s>>]]
  BY <1>4 DEF Unfolds
<1>6. \A s \in SUBSET T : s # {} /\ f[s \ {pick(s)}] \in Collection =>
                           f[s] = AddTag(f[s \ {pick(s)}], pick(s), below[pick(s)])
  <2> HIDE DEF pick
  <2> QED
    BY <1>5
<1>7. \A s \in SUBSET T : f[s] \in Collection
  <2>1. f[{}] = base
    BY <1>5
  <2>2. Proceeds(f, T, base, below)
    BY <1>6, <2>1 DEF Proceeds
  <2>3. \A s \in SUBSET T : Replaced(base, f[s])
    BY <2>2, SubstitutesKeeps
  <2> QED
    BY <2>3 DEF Replaced
<1>8. f = [s \in SUBSET T |-> IF s = {} THEN base ELSE AddTag(f[s \ {pick(s)}], pick(s), below[pick(s)])]
  <2>1. \A s \in SUBSET T : s \ {pick(s)} \in SUBSET T
    OBVIOUS
  <2> HIDE DEF rest, step, pick
  <2> QED
    BY <1>5, <1>6, <1>7, <2>1
<1>9. Substitutes(f, T, base, below)
  BY <1>8 DEF Substitutes
<1> QED
  BY <1>9

(* The loop over the map, in whatever order Go ranges over it.             *)
LEMMA SubstitutedFold ==
  ASSUME NEW base \in Collection, NEW T \in SUBSET DOMAIN base.m, IsFiniteSet(T),
         NEW below \in [T -> Fillers \cup {NoFiller}]
  PROVE  Replaced(base, FoldSet(LAMBDA t, f : AddTag(f, t, below[t]), base, T))
<1> DEFINE F == CHOOSE f : Substitutes(f, T, base, below)
<1>1. Substitutes(F, T, base, below)
  BY SubstitutesExists
<1>2. FoldSet(LAMBDA t, f : AddTag(f, t, below[t]), base, T) = F[T]
  BY DEF FoldSet, MapThenFoldSet, Substitutes
<1> HIDE DEF F
<1>3. Replaced(base, F[T])
  <2>1. Proceeds(F, T, base, below)
    BY <1>1 DEF Substitutes, Proceeds
  <2>2. \A s \in SUBSET T : Replaced(base, F[s])
    BY <2>1, SubstitutesKeeps
  <2> QED
    BY <2>2
<1> QED
  BY <1>2, <1>3

(* The same for a loop that removes.                                       *)
LEMMA RemovedFold ==
  ASSUME NEW base \in Collection, NEW T \in SUBSET DOMAIN base.m, IsFiniteSet(T)
  PROVE  Replaced(base, FoldSet(LAMBDA t, f : RemoveTag(f, t), base, T))
<1> DEFINE nil == [t \in T |-> NoFiller]
           F == CHOOSE f : Substitutes(f, T, base, nil)
           Is(f) == f = [s \in SUBSET T |->
                           IF s = {} THEN base
                           ELSE RemoveTag(f[s \ {CHOOSE t \in s : TRUE}], CHOOSE t \in s : TRUE)]
           G == CHOOSE f : Is(f)
<1>1. ASSUME NEW f PROVE Substitutes(f, T, base, nil) <=> Is(f)
  <2>1. \A s \in SUBSET T : s # {} =>
          AddTag(f[s \ {CHOOSE t \in s : TRUE}], CHOOSE t \in s : TRUE, nil[CHOOSE t \in s : TRUE])
            = RemoveTag(f[s \ {CHOOSE t \in s : TRUE}], CHOOSE t \in s : TRUE)
    <3>1. \A s \in SUBSET T : s # {} => nil[CHOOSE t \in s : TRUE] = NoFiller
      OBVIOUS
    <3> HIDE DEF nil
    <3> QED
      BY <3>1 DEF AddTag
  <2> HIDE DEF nil
  <2>2. [s \in SUBSET T |->
           IF s = {} THEN base
           ELSE AddTag(f[s \ {CHOOSE t \in s : TRUE}], CHOOSE t \in s : TRUE, nil[CHOOSE t \in s : TRUE])]
        = [s \in SUBSET T |->
             IF s = {} THEN base
             ELSE RemoveTag(f[s \ {CHOOSE t \in s : TRUE}], CHOOSE t \in s : TRUE)]
    BY <2>1
  <2> QED
    BY <2>2 DEF Substitutes
<1>2. nil \in [T -> Fillers \cup {NoFiller}]
  OBVIOUS
<1>3. \E f : Substitutes(f, T, base, nil)
  <2> HIDE DEF nil
  <2> QED
    BY <1>2, SubstitutesExists
<1>4. Is(G)
  <2>1. \E f : Is(f)
    <3> HIDE DEF Is, nil
    <3> QED
      BY <1>1, <1>3
  <2> HIDE DEF Is
  <2> QED
    BY <2>1
<1>5. FoldSet(LAMBDA t, f : RemoveTag(f, t), base, T) = G[T]
  BY DEF FoldSet, MapThenFoldSet
<1> HIDE DEF G
<1>6. Substitutes(G, T, base, nil)
  BY <1>1, <1>4
<1> HIDE DEF nil
<1>7. Replaced(base, G[T])
  <2>1. Proceeds(G, T, base, nil)
    BY <1>6 DEF Substitutes, Proceeds
  <2>2. \A s \in SUBSET T : Replaced(base, G[s])
    BY <1>2, <2>1, SubstitutesKeeps
  <2> QED
    BY <2>2
<1> QED
  BY <1>5, <1>7

(* g is f with others after those of f. *)
Grown(f, g, R, full) ==
  /\ Sound(g, R, full) /\ ~g.dirty
  /\ DOMAIN f.m \subseteq DOMAIN g.m
  /\ \E w \in Seq(Tags) : g.order = f.order \o w /\ ToSet(w) \cap DOMAIN f.m = {}

(* Adding a filler keeps that.                                             *)
LEMMA AddGrows ==
  ASSUME NEW R, NEW full, NEW f \in Collection, NEW g, Grown(f, g, R, full),
         NEW tag \in Tags, NEW filler \in Fillers
  PROVE  Grown(f, AddTag(g, tag, filler), R, full)
<1> DEFINE h == AddTag(g, tag, filler)
<1>1. /\ Sound(g, R, full) /\ ~g.dirty /\ ToSet(g.order) \subseteq DOMAIN g.m \cup {NoTag}
      /\ DOMAIN f.m \subseteq DOMAIN g.m /\ g \in Collection
  BY DEF Grown, Sound
<1>2. PICK w \in Seq(Tags) : g.order = f.order \o w /\ ToSet(w) \cap DOMAIN f.m = {}
  BY DEF Grown
<1>3. CASE tag \in DOMAIN g.m
  <2>1. filler \in Fillers \cup {NoFiller} /\ filler # NoFiller
    BY TagAssumption
  <2>2. Replaced(g, h) /\ h.dirty = g.dirty /\ DOMAIN h.m = DOMAIN g.m
    BY <1>1, <1>3, <2>1, AddInPlace
  <2> HIDE DEF h
  <2>3. Sound(h, R, full)
    BY <1>1, <2>2, ReplacedIsSound
  <2>4. Grown(f, h, R, full)
    BY <1>1, <1>2, <2>2, <2>3 DEF Grown, Replaced
  <2> QED
    BY <2>4 DEF h
<1>4. CASE tag \notin DOMAIN g.m
  <2> DEFINE v == Append(w, tag)
  <2>1. tag \notin ToSet(g.order)
    BY <1>1, <1>4, TagAssumption
  <2>2. Sound(h, R, full) /\ h.order = Append(g.order, tag) /\ h.dirty = g.dirty
        /\ DOMAIN h.m = DOMAIN g.m \cup {tag}
    BY <1>1, <1>4, <2>1, AddAtTheEnd
  <2> HIDE DEF h
  <2>3. v \in Seq(Tags) /\ f.order \o v = Append(f.order \o w, tag)
    <3> DEFINE o == f.order
               S == Tags \cup {NoTag}
    <3>1. o \in Seq(S) /\ w \in Seq(S) /\ tag \in S
      BY CollectionFacts, SeqMonotonic
    <3> HIDE DEF o, S
    <3>2. v \in Seq(Tags)
      BY AppendProperties
    <3>3. o \o v = Append(o \o w, tag)
      BY <3>1
    <3> QED
      BY <3>2, <3>3 DEF o
  <2>4. ToSet(v) = ToSet(w) \cup {tag}
    BY <1>2, ToSetAppend
  <2> HIDE DEF v
  <2>5. h.order = f.order \o v /\ ToSet(v) \cap DOMAIN f.m = {}
    BY <1>1, <1>2, <1>4, <2>2, <2>3, <2>4
  <2>6. Grown(f, h, R, full)
    BY <1>1, <2>2, <2>3, <2>5 DEF Grown
  <2> QED
    BY <2>6 DEF h
<1> QED
  BY <1>3, <1>4

(* The fillers a request brings come after those of the registry.          *)
LEMMA OwnFold ==
  ASSUME NEW R, NEW full, NEW f \in Collection, NEW base, Grown(f, base, R, full),
         NEW own \in Seq([tag : Tags, filler : Fillers])
  PROVE  Grown(f, FoldLeft(LAMBDA g, e : AddTag(g, e.tag, e.filler), base, own), R, full)
<1> DEFINE n   == Len(own)
           Val == {g \in Collection : Grown(f, g, R, full)}
           op  == [p \in Val \X (1..n) |-> AddTag(p[1], own[p[2]].tag, own[p[2]].filler)]
           Is(h) == h = [u \in SUBSET (1..n) |->
                           IF u = {} THEN base
                           ELSE AddTag(h[u \ {Max(u)}], own[Max(u)].tag, own[Max(u)].filler)]
<1>1. n \in Nat /\ DOMAIN own = 1..n /\ \A i \in 1..n : own[i] \in [tag : Tags, filler : Fillers]
  BY LenProperties
<1>2. \A g \in Val, i \in 1..n : AddTag(g, own[i].tag, own[i].filler) \in Val
  <2> SUFFICES ASSUME NEW g \in Val, NEW i \in 1..n
               PROVE  AddTag(g, own[i].tag, own[i].filler) \in Val
    OBVIOUS
  <2>1. Grown(f, AddTag(g, own[i].tag, own[i].filler), R, full)
    BY <1>1, AddGrows
  <2> QED
    BY <2>1 DEF Grown, Sound
<1>3. base \in Val
  BY DEF Grown, Sound
<1> HIDE DEF Val
<1>4. op \in [Val \X (1..n) -> Val]
  BY <1>2
<1>5. PICK h \in [SUBSET (1..n) -> Val] : Folds(h, n, base, op)
  <2> HIDE DEF op, n
  <2> QED
    BY <1>1, <1>3, <1>4, FoldExists
<1>6. Is(h)
  <2>1. h = [u \in SUBSET (1..n) |-> IF u = {} THEN base ELSE op[<<h[u \ {Max(u)}], Max(u)>>]]
    BY <1>5 DEF Folds
  <2>2. \A u \in SUBSET (1..n) : u # {} => Max(u) \in 1..n /\ h[u \ {Max(u)}] \in Val
    BY <1>1, MaxIsMember
  <2>3. \A u \in SUBSET (1..n) : u # {} =>
          op[<<h[u \ {Max(u)}], Max(u)>>] =
            AddTag(h[u \ {Max(u)}], own[Max(u)].tag, own[Max(u)].filler)
    BY <2>2
  <2> HIDE DEF op, n
  <2> QED
    BY <2>1, <2>3
<1> DEFINE H == CHOOSE k : Is(k)
<1>7. Is(H)
  <2> HIDE DEF Is
  <2> QED
    BY <1>6
<1>8. FoldLeft(LAMBDA g, e : AddTag(g, e.tag, e.filler), base, own) = H[1..n]
  BY <1>1 DEF FoldLeft, MapThenFoldSet
<1> DEFINE rest == [u \in SUBSET (1..n) |-> u \ {Max(u)}]
<1> HIDE DEF H
<1>9. \A u \in SUBSET (1..n) : H[u] \in Val
  <2>1. IsFiniteSet(1..n)
    BY <1>1, FS_Interval
  <2>2. Shrinks(rest, 1..n)
    <3> HIDE DEF n
    <3> QED
      BY <1>1, DroppingMaxShrinks
  <2>3. H[{}] \in Val
    BY <1>3, <1>7
  <2>4. \A u \in SUBSET (1..n) : u # {} /\ H[rest[u]] \in Val => H[u] \in Val
    <3> SUFFICES ASSUME NEW u \in SUBSET (1..n), u # {}, H[rest[u]] \in Val
                 PROVE  H[u] \in Val
      OBVIOUS
    <3>1. H[u \ {Max(u)}] \in Val /\ Max(u) \in 1..n
      BY <1>1, MaxIsMember
    <3>2. H[u] = AddTag(H[u \ {Max(u)}], own[Max(u)].tag, own[Max(u)].filler)
      BY <1>7
    <3> QED
      BY <1>2, <3>1, <3>2
  <2> HIDE DEF rest, n
  <2> QED
    BY <2>1, <2>2, <2>3, <2>4, KeptByUnfolding
<1> QED
  BY <1>8, <1>9 DEF Val
-----------------------------------------------------------------------------
(* The places of a concatenation.                                          *)
LEMMA ConcatParts ==
  ASSUME NEW S, NEW a \in Seq(S), NEW b \in Seq(S)
  PROVE  /\ a \o b \in Seq(S) /\ Len(a) \in Nat /\ Len(b) \in Nat
         /\ DOMAIN a = 1..Len(a) /\ DOMAIN b = 1..Len(b)
         /\ DOMAIN (a \o b) = 1..(Len(a) + Len(b))
         /\ \A i \in 1..Len(a) : (a \o b)[i] = a[i] /\ a[i] \in ToSet(a)
         /\ \A i \in 1..(Len(a) + Len(b)) :
              i > Len(a) => (a \o b)[i] = b[i - Len(a)] /\ b[i - Len(a)] \in ToSet(b)
<1>1. a \o b \in Seq(S) /\ Len(a) \in Nat /\ Len(b) \in Nat /\ Len(a \o b) = Len(a) + Len(b)
  BY LenProperties, ConcatProperties
<1>2. DOMAIN a = 1..Len(a) /\ DOMAIN b = 1..Len(b) /\ DOMAIN (a \o b) = 1..(Len(a) + Len(b))
  BY <1>1, LenProperties
<1>3. \A i \in 1..Len(a) : (a \o b)[i] = a[i] /\ a[i] \in ToSet(a)
  BY <1>1, <1>2 DEF ToSet
<1>4. \A i \in 1..(Len(a) + Len(b)) : i > Len(a) => i - Len(a) \in DOMAIN b /\ (a \o b)[i] = b[i - Len(a)]
  BY <1>1, <1>2
<1> QED
  BY <1>1, <1>2, <1>3, <1>4 DEF ToSet

(* The order of f goes on in that of g. *)
Moved(f, g) ==
  \A t, u \in DOMAIN f.m \cap DOMAIN g.m :
    Promise!Ahead(f.order, t, u) => Promise!Ahead(g.order, t, u)

(* g got w, new tags, behind what it has of f.                             *)
Extended(f, g, w) ==
  /\ w \in Seq(Tags) /\ ToSet(w) \cap DOMAIN f.m = {}
  /\ \E o \in Seq(Tags \cup {NoTag}) : g.order = o \o w /\ ToSet(o) \cap DOMAIN g.m \subseteq DOMAIN f.m

(* New tags behind the others do not change the order of the others.       *)
LEMMA ExtendedMoves ==
  ASSUME NEW f \in Collection, NEW g, NEW w \in Seq(Tags), ToSet(w) \cap DOMAIN f.m = {},
         g.order = f.order \o w
  PROVE  Moved(f, g)
<1> SUFFICES ASSUME NEW t \in DOMAIN f.m, NEW u \in DOMAIN f.m, Promise!Ahead(f.order, t, u)
             PROVE  Promise!Ahead(g.order, t, u)
  BY DEF Moved
<1> DEFINE o == f.order
           k == Len(o)
           n == Len(w)
           q == o \o w
           S == Tags \cup {NoTag}
<1>1. o \in Seq(S) /\ w \in Seq(S)
  BY CollectionFacts, SeqMonotonic
<1> HIDE DEF o, S
<1>2. /\ k \in Nat /\ n \in Nat /\ DOMAIN o = 1..k /\ DOMAIN q = 1..(k + n)
      /\ \A i \in 1..k : q[i] = o[i]
      /\ \A i \in 1..(k + n) : i > k => q[i] \in ToSet(w)
  BY <1>1, ConcatParts
<1> HIDE DEF k, n, q
<1>3. ASSUME NEW i \in 1..(k + n), q[i] = u PROVE \E j \in 1..(k + n) : j < i /\ q[j] = t
  <2>1. i \in 1..k /\ o[i] = u
    BY <1>2, <1>3
  <2>2. PICK j \in 1..k : j < i /\ o[j] = t
    BY <1>2, <2>1 DEF Promise!Ahead, o
  <2> QED
    BY <1>2, <2>2
<1>4. Promise!Ahead(q, t, u)
  BY <1>2, <1>3 DEF Promise!Ahead
<1> QED
  BY <1>4 DEF q, o

(* Nothing to add.                                                         *)
LEMMA NothingAdded ==
  ASSUME NEW s \in Seq(Tags \cup {NoTag})
  PROVE  <<>> \in Seq(Tags) /\ s \o <<>> = s /\ ToSet(<<>>) = {}
  BY EmptySeq, ConcatEmptySeq, ToSetEmpty
-----------------------------------------------------------------------------
Full == returned = {} \/ ~copied

(* The inductive invariant. *)
IInv == TypeOK /\ Sound(c, returned, Full) /\ PanicsOnlyOnReturn

(* What a step makes of the collection. *)
Advanced ==
  \/ c' = c /\ returned' = returned
  \/ c' = NewCollection
  \/ /\ Moved(c, c')
     /\ returned' = {} => returned = {} /\ \E w : Extended(c, c', w)

(* The collection that an option starts over with.                         *)
LEMMA NewIsSound == Sound(NewCollection, {}, TRUE) /\ Live(NewCollection) = <<>>
<1> DEFINE n == [m |-> EmptyMap, order |-> <<>>, dirty |-> FALSE]
<1>1. EmptyMap \in [{} -> Fillers] /\ DOMAIN EmptyMap = {}
  BY DEF EmptyMap
<1> HIDE DEF EmptyMap
<1>2. n \in Collection /\ n.order = <<>> /\ n.m = EmptyMap /\ IsFiniteSet({})
  <2>1. <<>> \in Seq(Tags \cup {NoTag})
    BY EmptySeq
  <2> QED
    BY <1>1, <2>1, CollectionMade, FS_EmptySet
<1>3. <<>> \in Seq(Tags) /\ Distinct(<<>>, {} \cup {NoTag}) /\ ToSet(<<>>) = {}
  BY EmptySeq, ToSetEmpty DEF Distinct
<1> HIDE DEF n
<1>4. Sound(n, {}, TRUE)
  BY <1>1, <1>2, <1>3 DEF Sound
<1>5. Live(n) = <<>>
  BY <1>2, OnlyInEmpty DEF Live
<1> QED
  BY <1>4, <1>5 DEF n, NewCollection

(* What a built collection becomes when it is used: base, cleaned or       *)
(* copied, and others behind it.  A panic leaves it alone.                 *)
LEMMA UseStep ==
  ASSUME IInv, NEW f, Use(f), copied' \in BOOLEAN, copied => copied',
         NEW base, base.m = c.m, Moved(c, base), ToSet(base.order) \subseteq DOMAIN c.m \cup {NoTag},
         base \in Collection,
         NEW w \in Seq(Tags), f.order = base.order \o w, ToSet(w) \cap DOMAIN c.m = {},
         Sound(f, returned, Full')
  PROVE  IInv' /\ Advanced
<1>1. UNCHANGED <<options, returned>>
  BY DEF Use
<1>2. CASE CleanPanics(c)
  <2>1. crashed' = TRUE /\ c' = c
    BY <1>2 DEF Use
  <2>2. returned \cap DOMAIN c.m # {}
    BY <1>2, PanicRepeats DEF IInv
  <2>3. Sound(c, returned, Full')
    BY <1>1 DEF IInv, Sound, Full
  <2> QED
    BY <1>1, <2>1, <2>2, <2>3 DEF IInv, TypeOK, PanicsOnlyOnReturn, Sound, Full, Advanced
<1>3. CASE ~CleanPanics(c)
  <2>1. c' = f /\ crashed' = crashed
    BY <1>3 DEF Use
  <2>2. crashed = FALSE
    BY DEF Use, IInv, TypeOK
  <2>3. IInv'
    BY <1>1, <2>1, <2>2 DEF IInv, TypeOK, PanicsOnlyOnReturn, Sound, Full
  <2>4. Moved(c, f)
    <3>1. Moved(base, f)
      BY ExtendedMoves
    <3> QED
      BY <3>1 DEF Moved
  <2>5. Extended(c, f, w)
    <3>1. base.order \in Seq(Tags \cup {NoTag}) /\ DOMAIN f.m \subseteq Tags
      BY CollectionFacts DEF Sound
    <3>2. ToSet(base.order) \cap DOMAIN f.m \subseteq DOMAIN c.m
      BY <3>1, TagAssumption
    <3> QED
      BY <3>1, <3>2 DEF Extended
  <2> QED
    BY <1>1, <2>1, <2>3, <2>4, <2>5 DEF Advanced
<1> QED
  BY <1>2, <1>3

(* The two ways to begin.                                                  *)
LEMMA CleanBegins ==
  ASSUME IInv
  PROVE  /\ Sound(Clean(c), returned, Full) /\ Clean(c).m = c.m /\ ~Clean(c).dirty
         /\ Moved(c, Clean(c)) /\ ToSet(Clean(c).order) \subseteq DOMAIN c.m \cup {NoTag}
         /\ Clean(c) \in Collection
<1> DEFINE b == Clean(c)
<1>1. /\ Sound(b, returned, Full) /\ ~b.dirty /\ b.m = c.m
      /\ ToSet(b.order) \subseteq DOMAIN c.m \cup {NoTag}
      /\ Live(b) = Live(c)
  BY CleanIsSound DEF IInv
<1> HIDE DEF b
<1>2. b \in Collection /\ c \in Collection
  BY <1>1 DEF Sound, IInv
<1>3. b.order \in Seq(Tags \cup {NoTag}) /\ c.order \in Seq(Tags \cup {NoTag})
  BY <1>2, CollectionFacts
<1>4. ASSUME NEW t \in DOMAIN c.m, NEW u \in DOMAIN c.m, Promise!Ahead(c.order, t, u)
      PROVE  Promise!Ahead(b.order, t, u)
  <2> DEFINE D == DOMAIN c.m
  <2>1. t \in D /\ u \in D /\ Live(c) = OnlyIn(c.order, D) /\ Live(b) = OnlyIn(b.order, D)
    BY <1>1 DEF Live
  <2> HIDE DEF D
  <2>2. Promise!Ahead(OnlyIn(c.order, D), t, u)
    BY <1>3, <1>4, <2>1, OnlyInAhead
  <2>3. Promise!Ahead(OnlyIn(b.order, D), t, u)
    BY <1>1, <2>1, <2>2
  <2> QED
    BY <1>3, <2>1, <2>3, OnlyInAhead
<1>5. Moved(c, b)
  BY <1>1, <1>4 DEF Moved
<1> QED
  BY <1>1, <1>2, <1>5 DEF b

LEMMA CopyBegins ==
  ASSUME IInv, copied' = TRUE, returned' = returned
  PROVE  /\ Sound(Copy(c), returned, Full') /\ Copy(c).m = c.m /\ ~Copy(c).dirty
         /\ Moved(c, Copy(c)) /\ ToSet(Copy(c).order) \subseteq DOMAIN c.m \cup {NoTag}
         /\ Copy(c) \in Collection
<1>1. /\ Sound(Copy(c), returned, FALSE) /\ ~Copy(c).dirty /\ Copy(c).m = c.m
      /\ ToSet(Copy(c).order) \subseteq DOMAIN c.m \cup {NoTag}
      /\ \A t, u \in DOMAIN c.m : Promise!Ahead(c.order, t, u) => Promise!Ahead(Copy(c).order, t, u)
  BY CopyIsSound DEF IInv
<1>2. Sound(Copy(c), returned, Full')
  <2>1. CASE returned = {}
    <3>1. Sound(c, {}, TRUE)
      BY <2>1 DEF IInv, Sound, Full
    <3>2. Copy(c) = Clean(c) /\ Sound(Clean(c), {}, TRUE)
      BY <3>1, CopyIsClean, CleanIsSound
    <3> QED
      BY <2>1, <3>2 DEF Sound
  <2>2. CASE returned # {}
    <3>1. ~Full'
      BY <2>2 DEF Full
    <3> QED
      BY <1>1, <3>1 DEF Sound
  <2> QED
    BY <2>1, <2>2
<1> QED
  BY <1>1, <1>2 DEF Moved, Sound

(* An option keeps the invariant when its collection does.                 *)
LEMMA OptionStep ==
  ASSUME IInv, NEW f, Option(f), Sound(f, returned', Full'), returned' \subseteq Tags
  PROVE  IInv'
<1>1. c' = f /\ UNCHANGED <<crashed, copied>> /\ options' = options + 1 /\ options < MaxOptions /\ ~crashed
  BY DEF Option
<1>2. options' \in 0..(MaxOptions + 1)
  BY <1>1, OptionAssumption DEF IInv, TypeOK
<1> QED
  BY <1>1, <1>2 DEF IInv, TypeOK, PanicsOnlyOnReturn, Sound, Full

(* A filler that is replaced or removed by an option keeps its place.      *)
LEMMA ReplacingOption ==
  ASSUME IInv, NEW f, Option(f), Replaced(c, f), returned' = returned
  PROVE  IInv' /\ Advanced
<1>1. c \in Collection /\ Sound(c, returned, Full) /\ c' = f /\ Full' = Full
  BY DEF IInv, Sound, Option, Full
<1>2. Sound(f, returned, Full)
  BY <1>1, ReplacedIsSound
<1>3. IInv'
  BY <1>1, <1>2, OptionStep DEF IInv, TypeOK
<1>4. c.order \in Seq(Tags \cup {NoTag})
  BY <1>1, CollectionFacts
<1>5. <<>> \in Seq(Tags) /\ c.order \o <<>> = c.order /\ ToSet(<<>>) = {}
  BY <1>4, NothingAdded
<1>6. Moved(c, f)
  BY DEF Moved, Replaced
<1>7. Extended(c, f, <<>>)
  BY <1>4, <1>5 DEF Extended, Replaced
<1> QED
  BY <1>1, <1>3, <1>6, <1>7 DEF Advanced

(* Every step keeps the invariant, and moves the collection on, starts it  *)
(* over or leaves it alone.                                                *)
LEMMA StepAdvances ==
  ASSUME IInv, Next
  PROVE  IInv' /\ Advanced
<1>1. /\ Sound(c, returned, Full) /\ c \in Collection /\ IsFiniteSet(DOMAIN c.m)
      /\ c.order \in Seq(Tags \cup {NoTag}) /\ returned \subseteq Tags /\ DOMAIN c.m \subseteq Tags
      /\ copied \in BOOLEAN
  BY CollectionFacts DEF IInv, Sound, TypeOK
<1>2. ASSUME NEW f, Use(f), copied' \in BOOLEAN, copied => copied',
             NEW base, base.m = c.m, Moved(c, base), ToSet(base.order) \subseteq DOMAIN c.m \cup {NoTag},
             base \in Collection, Sound(base, returned, Full'), Replaced(base, f)
      PROVE  IInv' /\ Advanced
  <2>1. base.order \in Seq(Tags \cup {NoTag})
    BY <1>2, CollectionFacts
  <2>2. <<>> \in Seq(Tags) /\ f.order = base.order \o <<>> /\ ToSet(<<>>) \cap DOMAIN c.m = {}
    BY <1>2, <2>1, NothingAdded DEF Replaced
  <2>3. Sound(f, returned, Full')
    BY <1>2, ReplacedIsSound
  <2> QED
    BY <1>2, <2>2, <2>3, UseStep
<1>4. ASSUME NEW tag \in Tags, NEW filler \in Fillers, OptionWithFiller(tag, filler)
      PROVE  IInv' /\ Advanced
  <2> DEFINE f == AddTag(c, tag, filler)
  <2>1. /\ Option(f) /\ c' = f /\ copied' = copied
        /\ returned' = returned \cup ({tag} \cap Stale(c))
    BY <1>4 DEF OptionWithFiller, Option
  <2>2. CASE tag \in DOMAIN c.m
    <3>1. Replaced(c, f)
      BY <1>1, <2>2, AddInPlace
    <3>2. returned' = returned
      BY <2>1, <2>2 DEF Stale, HasTag
    <3> HIDE DEF f
    <3> QED
      BY <2>1, <3>1, <3>2, ReplacingOption
  <2>3. CASE tag \notin DOMAIN c.m
    <3> DEFINE w == <<tag>>
    <3>1. /\ returned \subseteq returned' /\ (tag \in ToSet(c.order) => tag \in returned')
          /\ (tag \notin ToSet(c.order) => returned' = returned) /\ returned' \subseteq Tags
      BY <1>1, <2>1, <2>3 DEF Stale, HasTag
    <3>2. /\ Sound(f, returned', Full) /\ f.order = Append(c.order, tag)
          /\ DOMAIN f.m = DOMAIN c.m \cup {tag}
      BY <1>1, <2>3, <3>1, AddAtTheEnd
    <3>3. Sound(f, returned', Full')
      BY <2>1, <3>1, <3>2 DEF Sound, Full
    <3> HIDE DEF f
    <3>4. w \in Seq(Tags) /\ ToSet(w) = {tag}
      BY DEF ToSet
    <3>5. f.order = c.order \o w
      <4> DEFINE o == c.order
                 S == Tags \cup {NoTag}
      <4>1. o \in Seq(S) /\ tag \in S
        BY <1>1
      <4> HIDE DEF o, S
      <4>2. Append(o, tag) = o \o <<tag>>
        BY <4>1
      <4> QED
        BY <3>2, <4>2 DEF o
    <3> HIDE DEF w
    <3>6. Moved(c, f)
      BY <1>1, <2>3, <3>4, <3>5, ExtendedMoves
    <3>7. returned' = {} => returned = {} /\ Extended(c, f, w)
      <4> SUFFICES ASSUME returned' = {} PROVE returned = {} /\ Extended(c, f, w)
        OBVIOUS
      <4>1. returned = {} /\ tag \notin ToSet(c.order)
        BY <3>1
      <4> QED
        BY <1>1, <2>3, <3>2, <3>4, <3>5, <4>1 DEF Extended
    <3> QED
      BY <2>1, <3>1, <3>3, <3>6, <3>7, OptionStep DEF Advanced
  <2> QED
    BY <2>2, <2>3
<1>5. ASSUME NEW tag \in Tags, OptionDropFiller(tag)
      PROVE  IInv' /\ Advanced
  <2> DEFINE f == AddTag(c, tag, NoFiller)
  <2>1. Option(f) /\ returned' = returned
    BY <1>5 DEF OptionDropFiller
  <2>2. CASE tag \in DOMAIN c.m
    <3>1. Replaced(c, f)
      BY <1>1, <2>2, AddInPlace
    <3> HIDE DEF f
    <3> QED
      BY <2>1, <3>1, ReplacingOption
  <2>3. CASE tag \notin DOMAIN c.m
    <3>1. f = c
      BY <1>1, <2>3, AddTagCases DEF HasTag
    <3> HIDE DEF f
    <3>2. c' = c /\ Full' = Full
      BY <2>1, <3>1 DEF Option, Full
    <3>3. Sound(f, returned', Full')
      BY <1>1, <2>1, <3>1, <3>2
    <3> QED
      BY <1>1, <2>1, <3>2, <3>3, OptionStep DEF Advanced
  <2> QED
    BY <2>2, <2>3
<1>6. CASE OptionWithoutFillers
  <2>1. Option(NewCollection) /\ c' = NewCollection /\ returned' = {}
    BY <1>6 DEF OptionWithoutFillers, Option
  <2>2. Sound(NewCollection, returned', Full')
    BY <2>1, NewIsSound DEF Sound
  <2> QED
    BY <2>1, <2>2, OptionStep DEF Advanced
<1>7. CASE Built
  <2>1. options' \in 0..(MaxOptions + 1) /\ UNCHANGED <<c, crashed, returned, copied>>
    BY <1>7, OptionAssumption DEF Built
  <2> QED
    BY <2>1 DEF IInv, TypeOK, PanicsOnlyOnReturn, Sound, Full, Advanced
<1>8. ASSUME NEW T \in SUBSET DOMAIN c.m, NEW replaced \in [T -> Fillers], Order(replaced)
      PROVE  IInv' /\ Advanced
  <2> DEFINE base == Clean(c)
             f == FoldSet(LAMBDA t, g : AddTag(g, t, replaced[t]), base, T)
  <2>1. Use(f) /\ copied' = copied /\ returned' = returned
    BY <1>8 DEF Order, Use
  <2>2. /\ Sound(base, returned, Full) /\ base.m = c.m /\ Moved(c, base)
        /\ ToSet(base.order) \subseteq DOMAIN c.m \cup {NoTag} /\ base \in Collection
    BY CleanBegins
  <2> HIDE DEF base
  <2>3. T \in SUBSET DOMAIN base.m /\ replaced \in [T -> Fillers \cup {NoFiller}] /\ IsFiniteSet(T)
    BY <1>1, <2>2, FS_Subset
  <2>4. Replaced(base, f)
    BY <2>2, <2>3, SubstitutedFold
  <2> HIDE DEF f
  <2>5. Sound(base, returned, Full')
    BY <2>1, <2>2 DEF Full
  <2> QED
    BY <1>1, <1>2, <2>1, <2>2, <2>4, <2>5
<1>9. ASSUME NEW own \in Own, RequestFillers(own)
      PROVE  IInv' /\ Advanced
  <2> DEFINE base == Copy(c)
             f == FoldLeft(LAMBDA g, e : AddTag(g, e.tag, e.filler), base, own)
  <2>1. Use(f) /\ copied' = TRUE /\ returned' = returned
    BY <1>9 DEF RequestFillers, Use
  <2>2. own \in Seq([tag : Tags, filler : Fillers])
    <3> DEFINE Entries == [tag : Tags, filler : Fillers]
    <3>1. PICK n \in 1..2 : own \in [1..n -> Entries]
      BY DEF Own
    <3> HIDE DEF Entries
    <3>2. n \in Nat /\ \A i \in 1..n : own[i] \in Entries
      BY <3>1
    <3>3. [i \in 1..n |-> own[i]] \in Seq(Entries)
      BY <3>2, IsASeq
    <3>4. own \in Seq(Entries)
      BY <3>1, <3>3
    <3> QED
      BY <3>4 DEF Entries
  <2>3. /\ Sound(base, returned, Full') /\ base.m = c.m /\ Moved(c, base) /\ ~base.dirty
        /\ ToSet(base.order) \subseteq DOMAIN c.m \cup {NoTag} /\ base \in Collection
    BY <2>1, CopyBegins
  <2> HIDE DEF base
  <2>4. Grown(base, base, returned, Full')
    <3>1. base.order \in Seq(Tags \cup {NoTag})
      BY <2>3, CollectionFacts
    <3>2. <<>> \in Seq(Tags) /\ base.order = base.order \o <<>> /\ ToSet(<<>>) \cap DOMAIN base.m = {}
      BY <3>1, NothingAdded
    <3> QED
      BY <2>3, <3>2 DEF Grown
  <2>5. Grown(base, f, returned, Full')
    <3> DEFINE fl == Full'
    <3>1. Grown(base, base, returned, fl)
      BY <2>4
    <3> HIDE DEF fl
    <3>2. Grown(base, f, returned, fl)
      BY <2>2, <2>3, <3>1, OwnFold
    <3> QED
      BY <3>2 DEF fl
  <2> HIDE DEF f
  <2>6. PICK w \in Seq(Tags) : f.order = base.order \o w /\ ToSet(w) \cap DOMAIN base.m = {}
    BY <2>5 DEF Grown
  <2>7. Sound(f, returned, Full')
    BY <2>5 DEF Grown
  <2> QED
    BY <2>1, <2>3, <2>6, <2>7, UseStep
<1>10. ASSUME NEW below \in [DOMAIN c.m -> Fillers \cup {NoFiller}], Recurse(below)
       PROVE  IInv' /\ Advanced
  <2> DEFINE base == Copy(c)
             T == DOMAIN c.m
             f == FoldSet(LAMBDA t, g : AddTag(g, t, below[t]), base, T)
  <2>1. Use(f) /\ copied' = TRUE /\ returned' = returned
    BY <1>10 DEF Recurse, Use
  <2>2. /\ Sound(base, returned, Full') /\ base.m = c.m /\ Moved(c, base)
        /\ ToSet(base.order) \subseteq DOMAIN c.m \cup {NoTag} /\ base \in Collection
    BY <2>1, CopyBegins
  <2> HIDE DEF base
  <2>3. T \in SUBSET DOMAIN base.m /\ IsFiniteSet(T)
    BY <1>1, <2>2
  <2>4. Replaced(base, f)
    BY <2>2, <2>3, SubstitutedFold
  <2> HIDE DEF f
  <2> QED
    BY <1>2, <2>1, <2>2, <2>4
<1>11. ASSUME NEW filled \in SUBSET DOMAIN c.m, FillField(filled)
       PROVE  IInv' /\ Advanced
  <2> DEFINE base == Clean(c)
             f == FoldSet(LAMBDA t, g : RemoveTag(g, t), base, filled)
  <2>1. Use(f) /\ copied' = copied /\ returned' = returned
    BY <1>11 DEF FillField, Use
  <2>2. /\ Sound(base, returned, Full) /\ base.m = c.m /\ Moved(c, base)
        /\ ToSet(base.order) \subseteq DOMAIN c.m \cup {NoTag} /\ base \in Collection
    BY CleanBegins
  <2> HIDE DEF base
  <2>3. filled \in SUBSET DOMAIN base.m /\ IsFiniteSet(filled)
    BY <1>1, <2>2, FS_Subset
  <2>4. Replaced(base, f)
    BY <2>2, <2>3, RemovedFold
  <2> HIDE DEF f
  <2>5. Sound(base, returned, Full')
    BY <2>1, <2>2 DEF Full
  <2> QED
    BY <1>1, <1>2, <2>1, <2>2, <2>4, <2>5
<1> QED
  BY <1>4, <1>5, <1>6, <1>7, <1>8, <1>9, <1>10, <1>11 DEF Next

(* The invariant holds in every reachable state.                           *)
THEOREM Inductive == Spec => []IInv
<1>1. Init => IInv
  <2> SUFFICES ASSUME Init PROVE IInv
    OBVIOUS
  <2>1. c = NewCollection /\ options = 0 /\ crashed = FALSE /\ returned = {} /\ copied = FALSE
    BY DEF Init
  <2>2. Sound(c, returned, Full)
    BY <2>1, NewIsSound DEF Sound, Full
  <2>3. options \in 0..(MaxOptions + 1)
    BY <2>1, OptionAssumption
  <2> QED
    BY <2>1, <2>2, <2>3 DEF IInv, TypeOK, PanicsOnlyOnReturn, Sound
<1>2. IInv /\ [Next]_vars => IInv'
  <2> SUFFICES ASSUME IInv, [Next]_vars PROVE IInv'
    OBVIOUS
  <2>1. CASE Next
    BY <2>1, StepAdvances
  <2>2. CASE UNCHANGED vars
    BY <2>2 DEF vars, IInv, TypeOK, PanicsOnlyOnReturn, Sound, Full
  <2> QED
    BY <2>1, <2>2
<1> QED
  BY <1>1, <1>2, PTL DEF Spec

(* The collection has its types, and stores no nil filler                  *)
(* (fillers.go:8-12).                                                      *)
THEOREM TypeCorrect == Spec => []TypeOK
<1>1. Spec => []IInv
  BY Inductive
<1>2. IInv => TypeOK
  BY DEF IInv
<1> QED
  BY <1>1, <1>2, PTL

(* Clean asks for a slice longer than its capacity (fillers.go:85) only    *)
(* when a tag that has a filler was removed and registered again.          *)
THEOREM PanicNeedsReturn == Spec => []PanicsOnlyOnReturn
<1>1. Spec => []IInv
  BY Inductive
<1>2. IInv => PanicsOnlyOnReturn
  BY DEF IInv
<1> QED
  BY <1>1, <1>2, PTL

(* The loops over Order() visit every registered filler, and none twice    *)
(* (fillers.go:43), but for what a returned tag does to them.              *)
THEOREM OrderIsComplete == Spec => []OrderVisitsEachOnce
<1>1. Spec => []IInv
  BY Inductive
<1>2. IInv => OrderVisitsEachOnce
  <2> SUFFICES ASSUME IInv PROVE OrderVisitsEachOnce
    OBVIOUS
  <2>1. /\ Sound(Clean(c), returned, Full)
        /\ ToSet(Clean(c).order) \subseteq DOMAIN c.m \cup {NoTag}
    BY CleanBegins
  <2>2. Full => ToSet(Clean(c).order) = DOMAIN c.m
    <3> SUFFICES ASSUME Full PROVE ToSet(Clean(c).order) = DOMAIN c.m
      OBVIOUS
    <3>1. Clean(c).order = Live(c) /\ ToSet(Live(c)) = DOMAIN c.m
      BY CleanIsSound, LiveFacts DEF IInv
    <3> QED
      BY <3>1
  <2> QED
    BY <2>1, <2>2 DEF OrderVisitsEachOnce, Full, Sound, Distinct
<1> QED
  BY <1>1, <1>2, PTL

(* Of two sequences that share no tag and name none twice, but for those   *)
(* of R, each member is in one place of the pairs made of them.            *)
LEMMA InPlaces ==
  ASSUME NEW a \in Seq(Tags), NEW b \in Seq(Tags), NEW R, Once(a), Distinct(b, R),
         ToSet(a) \cap ToSet(b) = {}, NEW tag,
         NEW p, p = [i \in 1..Len(a) |-> [forced |-> a[i], tagged |-> TRUE]]
                      \o [i \in 1..Len(b) |-> [forced |-> b[i], tagged |-> FALSE]]
  PROVE  /\ tag \notin R => Cardinality(Places(p, tag)) <= 1
         /\ tag \in ToSet(a) \cup ToSet(b) => Cardinality(Places(p, tag)) >= 1
<1> DEFINE Pair == [forced : Tags, tagged : BOOLEAN]
           k == Len(a)
           n == Len(b)
           x == [i \in 1..k |-> [forced |-> a[i], tagged |-> TRUE]]
           y == [i \in 1..n |-> [forced |-> b[i], tagged |-> FALSE]]
           at == {i \in DOMAIN p : p[i].forced = tag}
<1>1. /\ k \in Nat /\ n \in Nat /\ DOMAIN a = 1..k /\ DOMAIN b = 1..n
      /\ (\A i \in 1..k : a[i] \in Tags) /\ (\A i \in 1..n : b[i] \in Tags)
  BY LenProperties
<1> HIDE DEF k, n
<1>2. x \in Seq(Pair) /\ y \in Seq(Pair)
  <2>1. \A i \in 1..k : [forced |-> a[i], tagged |-> TRUE] \in Pair
    BY <1>1
  <2>2. \A i \in 1..n : [forced |-> b[i], tagged |-> FALSE] \in Pair
    BY <1>1
  <2> HIDE DEF Pair
  <2> QED
    BY <1>1, <2>1, <2>2, IsASeq
<1>3. Len(x) = k /\ Len(y) = n /\ (\A i \in 1..k : x[i].forced = a[i]) /\ (\A i \in 1..n : y[i].forced = b[i])
  BY <1>1
<1>4. p = x \o y
  BY DEF k, n
<1> HIDE DEF x, y
<1>5. /\ DOMAIN p = 1..(k + n)
      /\ \A i \in 1..k : p[i] = x[i]
      /\ \A i \in 1..(k + n) : i > k => p[i] = y[i - k]
  <2>1. /\ DOMAIN (x \o y) = 1..(Len(x) + Len(y))
        /\ \A i \in 1..Len(x) : (x \o y)[i] = x[i]
        /\ \A i \in 1..(Len(x) + Len(y)) : i > Len(x) => (x \o y)[i] = y[i - Len(x)]
    BY <1>2, ConcatParts
  <2>2. Len(x) = k /\ Len(y) = n
    BY <1>3
  <2> QED
    BY <1>4, <2>1, <2>2
<1>6. /\ \A i \in 1..k : p[i].forced = a[i] /\ a[i] \in ToSet(a)
      /\ \A i \in 1..(k + n) : i > k => /\ i - k \in 1..n /\ p[i].forced = b[i - k]
                                        /\ b[i - k] \in ToSet(b)
  <2>1. \A i \in 1..k : a[i] \in ToSet(a)
    BY <1>1 DEF ToSet
  <2>2. \A i \in 1..n : b[i] \in ToSet(b)
    BY <1>1 DEF ToSet
  <2>3. \A i \in 1..(k + n) : i > k => i - k \in 1..n
    BY <1>1
  <2>8. \A i \in 1..k : p[i] = x[i] /\ x[i].forced = a[i]
    BY <1>3, <1>5
  <2>4. \A i \in 1..k : p[i].forced = a[i]
    BY <2>8
  <2>5. \A i \in 1..(k + n) : i > k => p[i].forced = b[i - k]
    <3> TAKE i \in 1..(k + n)
    <3> HAVE i > k
    <3>1. p[i] = y[i - k] /\ i - k \in 1..n
      BY <1>5, <2>3
    <3>2. y[i - k].forced = b[i - k]
      BY <1>3, <3>1
    <3> QED
      BY <3>1, <3>2
  <2>6. \A i \in 1..k : p[i].forced = a[i] /\ a[i] \in ToSet(a)
    BY <2>1, <2>4
  <2>7. \A i \in 1..(k + n) : i > k => /\ i - k \in 1..n /\ p[i].forced = b[i - k]
                                       /\ b[i - k] \in ToSet(b)
    BY <2>2, <2>3, <2>5
  <2> QED
    BY <2>6, <2>7
<1>7. ASSUME tag \notin R, NEW i \in at, NEW j \in at
      PROVE  i = j
  <2>1. i \in 1..(k + n) /\ j \in 1..(k + n) /\ p[i].forced = tag /\ p[j].forced = tag
    BY <1>5
  <2>2. CASE i \in 1..k /\ j \in 1..k
    <3>1. a[i] = a[j] /\ i \in DOMAIN a /\ j \in DOMAIN a
      BY <1>1, <1>6, <2>1, <2>2
    <3> QED
      BY <3>1 DEF Once, Distinct
  <2>3. CASE i > k /\ j > k
    <3>1. b[i - k] = tag /\ b[j - k] = tag /\ i - k \in DOMAIN b /\ j - k \in DOMAIN b
      BY <1>1, <1>6, <2>1, <2>3
    <3>2. i - k = j - k
      BY <1>7, <3>1 DEF Distinct
    <3> QED
      BY <1>1, <2>1, <3>2
  <2>4. ~(i \in 1..k /\ j > k) /\ ~(j \in 1..k /\ i > k)
    BY <1>6, <2>1
  <2> QED
    BY <1>1, <2>1, <2>2, <2>3, <2>4
<1>8. tag \in ToSet(a) \cup ToSet(b) => at # {}
  <2>1. CASE tag \in ToSet(a)
    <3>1. PICK i \in 1..k : a[i] = tag
      BY <1>1, <2>1 DEF ToSet
    <3>2. i \in at
      BY <1>1, <1>5, <1>6, <3>1
    <3> QED
      BY <3>2
  <2>2. CASE tag \in ToSet(b)
    <3>1. PICK i \in 1..n : b[i] = tag
      BY <1>1, <2>2 DEF ToSet
    <3>2. i + k \in 1..(k + n) /\ i + k > k /\ (i + k) - k = i
      BY <1>1
    <3>3. i + k \in at
      BY <1>5, <1>6, <3>1, <3>2
    <3> QED
      BY <3>3
  <2> QED
    BY <2>1, <2>2
<1>9. IsFiniteSet(at)
  <2>1. IsFiniteSet(1..(k + n)) /\ at \in SUBSET (1..(k + n))
    BY <1>1, <1>5, FS_Interval
  <2> HIDE DEF at
  <2> QED
    BY <2>1, FS_Subset
<1> HIDE DEF at
<1>10. Cardinality(at) \in Nat /\ (Cardinality(at) = 0 <=> at = {})
  BY <1>9, FS_CardinalityType, FS_EmptySet
<1>11. tag \notin R => Cardinality(at) <= 1
  <2> SUFFICES ASSUME tag \notin R, at # {} PROVE Cardinality(at) <= 1
    BY <1>10
  <2>1. PICK i \in at : TRUE
    OBVIOUS
  <2>2. at = {i}
    BY <1>7, <2>1
  <2>3. Cardinality(at) = 1
    BY <2>2, FS_Singleton
  <2> QED
    BY <2>3
<1>12. tag \in ToSet(a) \cup ToSet(b) => Cardinality(at) >= 1
  BY <1>8, <1>10
<1>13. Places(p, tag) = at
  BY DEF Places, at
<1> QED
  BY <1>11, <1>12, <1>13

(* The tags of a field backwards.                                          *)
LEMMA ReverseOnce ==
  ASSUME NEW s \in Seq(Tags), Once(s)
  PROVE  Reverse(s) \in Seq(Tags) /\ Once(Reverse(s)) /\ ToSet(Reverse(s)) = ToSet(s)
<1> DEFINE n == Len(s)
           r == [i \in 1..n |-> s[(n - i) + 1]]
<1>1. n \in Nat /\ DOMAIN s = 1..n /\ \A i \in 1..n : s[i] \in Tags
  BY LenProperties
<1>2. Reverse(s) = r
  BY DEF Reverse
<1> HIDE DEF n
<1>3. \A i \in 1..n : (n - i) + 1 \in 1..n /\ (n - ((n - i) + 1)) + 1 = i
  BY <1>1
<1>4. \A i \in 1..n : s[(n - i) + 1] \in Tags
  BY <1>1, <1>3
<1>5. r \in Seq(Tags) /\ DOMAIN r = 1..n
  BY <1>1, <1>4, IsASeq
<1>6. Once(r)
  <2>1. ASSUME NEW i \in 1..n, NEW j \in 1..n, s[(n - i) + 1] = s[(n - j) + 1]
        PROVE  i = j
    <3>1. (n - i) + 1 = (n - j) + 1
      BY <1>1, <1>3, <2>1 DEF Once, Distinct
    <3> QED
      BY <1>1, <3>1
  <2> QED
    BY <1>5, <2>1 DEF Once, Distinct
<1>7. ToSet(r) = ToSet(s)
  <2>1. \A i \in 1..n : r[i] = s[(n - i) + 1] /\ s[i] = r[(n - i) + 1]
    BY <1>3
  <2>2. \A i \in 1..n : s[(n - i) + 1] \in ToSet(s)
    BY <1>1, <1>3 DEF ToSet
  <2> HIDE DEF r
  <2>3. \A i \in 1..n : r[(n - i) + 1] \in ToSet(r)
    BY <1>3, <1>5 DEF ToSet
  <2>4. ToSet(r) \subseteq ToSet(s)
    BY <1>5, <2>1, <2>2 DEF ToSet
  <2>5. ToSet(s) \subseteq ToSet(r)
    BY <1>1, <2>1, <2>3 DEF ToSet
  <2> QED
    BY <2>4, <2>5
<1> QED
  BY <1>2, <1>5, <1>6, <1>7

(* The pairs for one field name each filler of a sound collection at most  *)
(* once, but for the tags of R, and at least once if its order is full     *)
(* (pairs, fillers.go:106-148).                                            *)
LEMMA PairsCount ==
  ASSUME NEW R, NEW full, NEW f, Sound(f, R, full), NEW fieldTags \in Seq(Tags), Once(fieldTags),
         NEW first, NEW tag \in DOMAIN f.m
  PROVE  /\ tag \notin R => Cardinality(Places(Pairs(f, fieldTags, first), tag)) <= 1
         /\ full => Cardinality(Places(Pairs(f, fieldTags, first), tag)) >= 1
<1> DEFINE s == IF first THEN fieldTags ELSE Reverse(fieldTags)
           D == DOMAIN f.m
           l == Clean(f).order
           a == OnlyIn(s, D)
           b == OnlyIn(l, D \ ToSet(a))
           p == Pairs(f, fieldTags, first)
<1>1. s \in Seq(Tags) /\ Once(s)
  BY ReverseOnce
<1>2. /\ l \in Seq(Tags \cup {NoTag}) /\ Distinct(l, R \cup {NoTag}) /\ D \subseteq Tags
      /\ full => ToSet(l) = D
  <2>1. Sound(Clean(f), R, full) /\ (full => Clean(f).order = Live(f))
    BY CleanIsSound
  <2>2. f \in Collection /\ Clean(f) \in Collection /\ Distinct(l, R \cup {NoTag})
    BY <2>1 DEF Sound
  <2>3. full => ToSet(l) = D
    BY <2>1, LiveFacts
  <2> QED
    BY <2>2, <2>3, CollectionFacts
<1>3. p = [i \in 1..Len(a) |-> [forced |-> a[i], tagged |-> TRUE]]
            \o [i \in 1..Len(b) |-> [forced |-> b[i], tagged |-> FALSE]]
  BY DEF Pairs
<1>4. tag \in D /\ NoTag \notin D
  BY <1>2, TagAssumption
<1> HIDE DEF s, l, D, p
<1>5. a \in Seq(Tags) /\ Once(a) /\ ToSet(a) = ToSet(s) \cap D
  BY <1>1, OnlyInType, OnlyInDistinct DEF Once
<1> HIDE DEF a
<1> DEFINE E == D \ ToSet(a)
<1>6. b \in Seq(Tags) /\ Distinct(b, R) /\ ToSet(b) = ToSet(l) \cap E
  <2> HIDE DEF E
  <2> DEFINE x == OnlyIn(l, E)
  <2>1. x \in Seq(Tags \cup {NoTag}) /\ Distinct(x, R \cup {NoTag}) /\ ToSet(x) = ToSet(l) \cap E
    BY <1>2, OnlyInType, OnlyInDistinct
  <2> HIDE DEF x
  <2>2. ToSet(x) \subseteq Tags
    BY <1>2, <2>1 DEF E
  <2>3. x \in Seq(Tags)
    BY <2>1, <2>2, SeqOfMembers
  <2>4. Distinct(x, R)
    <3>1. \A i \in DOMAIN x : x[i] # NoTag
      BY <2>2, TagAssumption DEF ToSet
    <3> QED
      BY <2>1, <3>1 DEF Distinct
  <2> QED
    BY <2>1, <2>3, <2>4 DEF E, x
<1> HIDE DEF b
<1>7. ToSet(a) \cap ToSet(b) = {} /\ (full => tag \in ToSet(a) \cup ToSet(b))
  BY <1>2, <1>4, <1>5, <1>6
<1>8. /\ tag \notin R => Cardinality(Places(p, tag)) <= 1
      /\ full => Cardinality(Places(p, tag)) >= 1
  BY <1>3, <1>5, <1>6, <1>7, InPlaces
<1> QED
  BY <1>8 DEF p

(* Whatever tags a field carries, every filler is asked about it, and none *)
(* is asked twice (fillers.go:106-148), but for what a returned tag does.  *)
THEOREM AskedOnce == Spec => []EachFillerAskedOnce
<1>1. Spec => []IInv
  BY Inductive
<1>2. IInv => EachFillerAskedOnce
  <2> SUFFICES ASSUME IInv, NEW fieldTags \in FieldTags, NEW first \in BOOLEAN, NEW tag \in DOMAIN c.m
               PROVE  LET times == Cardinality(Places(Pairs(c, fieldTags, first), tag))
                      IN  /\ tag \notin returned => times <= 1
                          /\ returned = {} \/ ~copied => times >= 1
    BY DEF EachFillerAskedOnce
  <2>1. Sound(c, returned, Full)
    BY DEF IInv
  <2>2. fieldTags \in Seq(Tags) /\ Once(fieldTags)
    <3>1. PICK n \in 0..2 : fieldTags \in [1..n -> Tags]
      BY DEF FieldTags
    <3>2. n \in Nat /\ \A i \in 1..n : fieldTags[i] \in Tags
      BY <3>1
    <3>3. [i \in 1..n |-> fieldTags[i]] \in Seq(Tags)
      BY <3>2, IsASeq
    <3>4. Once(fieldTags)
      BY DEF FieldTags, Once, Distinct
    <3> QED
      BY <3>1, <3>3, <3>4
  <2>3. /\ tag \notin returned => Cardinality(Places(Pairs(c, fieldTags, first), tag)) <= 1
        /\ Full => Cardinality(Places(Pairs(c, fieldTags, first), tag)) >= 1
    BY <2>1, <2>2, PairsCount
  <2> QED
    BY <2>3 DEF Full
<1> QED
  BY <1>1, <1>2, PTL
-----------------------------------------------------------------------------
(* The members of a sequence are the same for OrderedFillers.              *)
LEMMA SameMembers ==
  ASSUME NEW s PROVE Promise!ToSet(s) = ToSet(s)
  BY DEF ToSet, Promise!ToSet

(* The list that a collection stands for. *)
ListOf(f) == [i \in DOMAIN Live(f) |-> [tag |-> Live(f)[i], filler |-> f.m[Live(f)[i]]]]

(* The list of a sound collection has its tags in their order.             *)
LEMMA ListFacts ==
  ASSUME NEW R, NEW full, NEW f, Sound(f, R, full)
  PROVE  /\ ListOf(f) \in Seq(Promise!Entry)
         /\ Promise!Ranked(ListOf(f)) = Live(f)
<1> DEFINE l == Live(f)
           e == [i \in DOMAIN l |-> [tag |-> l[i], filler |-> f.m[l[i]]]]
<1>1. ListOf(f) = e
  BY DEF ListOf
<1>2. l \in Seq(Tags) /\ ToSet(l) \subseteq DOMAIN f.m
  BY LiveFacts
<1> HIDE DEF l
<1>3. DOMAIN l = 1..Len(l) /\ Len(l) \in Nat /\ \A i \in 1..Len(l) : l[i] \in Tags
  BY <1>2, LenProperties
<1>4. f.m \in [DOMAIN f.m -> Fillers]
  BY CollectionFacts DEF Sound
<1>5. \A i \in 1..Len(l) : f.m[l[i]] \in Fillers
  BY <1>2, <1>3, <1>4 DEF ToSet
<1>6. \A i \in 1..Len(l) : [tag |-> l[i], filler |-> f.m[l[i]]] \in Promise!Entry
  BY <1>3, <1>5 DEF Promise!Entry
<1>7. e \in Seq(Promise!Entry)
  BY <1>3, <1>6, IsASeq
<1>8. Promise!Ranked(e) = [i \in DOMAIN l |-> l[i]]
  BY DEF Promise!Ranked
<1>9. [i \in DOMAIN l |-> l[i]] = l
  BY <1>3, <1>2
<1> QED
  BY <1>1, <1>7, <1>8, <1>9 DEF l

(* Those that stay keep their order in the list, too.                      *)
LEMMA MovedFollows ==
  ASSUME NEW R, NEW full, NEW f, Sound(f, R, full),
         NEW R1, NEW full1, NEW g, Sound(g, R1, full1), Moved(f, g)
  PROVE  Promise!Follows(Live(f), Live(g))
<1> DEFINE D == DOMAIN f.m
           E == DOMAIN g.m
<1>1. f \in Collection /\ g \in Collection
  BY DEF Sound
<1>2. f.order \in Seq(Tags \cup {NoTag}) /\ g.order \in Seq(Tags \cup {NoTag})
  BY <1>1, CollectionFacts
<1>3. ToSet(Live(f)) \subseteq D /\ ToSet(Live(g)) \subseteq E
  BY LiveFacts
<1> SUFFICES ASSUME NEW t \in ToSet(Live(f)) \cap ToSet(Live(g)),
                    NEW u \in ToSet(Live(f)) \cap ToSet(Live(g)),
                    Promise!Ahead(Live(f), t, u)
             PROVE  Promise!Ahead(Live(g), t, u)
  BY SameMembers DEF Promise!Follows
<1>4. t \in D /\ u \in D /\ t \in E /\ u \in E
  BY <1>3
<1>5. Promise!Ahead(f.order, t, u)
  <2>1. Promise!Ahead(OnlyIn(f.order, D), t, u)
    BY DEF Live
  <2> HIDE DEF D
  <2> QED
    BY <1>2, <1>4, <2>1, OnlyInAhead
<1>6. Promise!Ahead(g.order, t, u)
  BY <1>4, <1>5 DEF Moved
<1>7. Promise!Ahead(OnlyIn(g.order, E), t, u)
  <2> HIDE DEF E
  <2> QED
    BY <1>2, <1>4, <1>6, OnlyInAhead
<1> QED
  BY <1>7 DEF Live

(* As long as no tag has returned, new ones come last and none is there    *)
(* twice.                                                                  *)
LEMMA ExtendedFollows ==
  ASSUME NEW f, Sound(f, {}, TRUE), NEW g, Sound(g, {}, TRUE), NEW w, Extended(f, g, w)
  PROVE  Promise!FollowsStrictly(Live(f), Live(g))
<1> DEFINE D == DOMAIN f.m
           E == DOMAIN g.m
           S == Tags \cup {NoTag}
<1>1. ToSet(Live(f)) = D /\ Live(g) \in Seq(Tags) /\ Distinct(Live(g), {})
  BY LiveFacts
<1>2. PICK o \in Seq(S) : g.order = o \o w /\ ToSet(o) \cap E \subseteq D
  BY DEF Extended
<1>3. w \in Seq(Tags) /\ ToSet(w) \cap D = {}
  BY DEF Extended
<1>4. w \in Seq(S)
  BY <1>3, SeqMonotonic
<1> DEFINE a == OnlyIn(o, E)
           b == OnlyIn(w, E)
<1>5. Live(g) = a \o b
  <2>1. Live(g) = OnlyIn(o \o w, E)
    BY <1>2 DEF Live
  <2> HIDE DEF E, S
  <2> QED
    BY <1>2, <1>4, <2>1, OnlyInConcat
<1>6. /\ a \in Seq(S) /\ ToSet(a) \subseteq D
      /\ b \in Seq(S) /\ ToSet(b) \cap D = {}
  <2> HIDE DEF E, S, D
  <2>1. a \in Seq(S) /\ ToSet(a) = ToSet(o) \cap E
    BY <1>2, OnlyInType
  <2>2. b \in Seq(S) /\ ToSet(b) = ToSet(w) \cap E
    BY <1>4, OnlyInType
  <2> QED
    BY <1>2, <1>3, <2>1, <2>2
<1> HIDE DEF a, b, D, E, S
<1>7. /\ Len(a) \in Nat /\ Len(b) \in Nat
      /\ DOMAIN (a \o b) = 1..(Len(a) + Len(b))
      /\ \A i \in 1..Len(a) : (a \o b)[i] = a[i] /\ a[i] \in ToSet(a)
      /\ \A i \in 1..(Len(a) + Len(b)) :
           i > Len(a) => (a \o b)[i] = b[i - Len(a)] /\ b[i - Len(a)] \in ToSet(b)
  BY <1>6, ConcatParts
<1>8. \A i, j \in DOMAIN Live(g) :
         Live(g)[i] \notin D /\ i < j => Live(g)[j] \notin D
  BY <1>5, <1>6, <1>7
<1>9. Promise!OnePerTag(Live(g))
  BY <1>1 DEF Promise!OnePerTag, Distinct
<1> QED
  BY <1>1, <1>8, <1>9, SameMembers DEF Promise!FollowsStrictly

(* An empty list follows every other.                                      *)
LEMMA NothingFollows ==
  ASSUME NEW s
  PROVE  Promise!Follows(s, <<>>) /\ Promise!FollowsStrictly(s, <<>>)
<1>1. DOMAIN <<>> = {} /\ ToSet(<<>>) = {}
  BY EmptySeq, ToSetEmpty
<1>2. Promise!Follows(s, <<>>)
  BY <1>1, SameMembers DEF Promise!Follows
<1> DEFINE none == <<>>
<1>3. DOMAIN none = {}
  BY <1>1
<1> HIDE DEF none
<1>4. Promise!FollowsStrictly(s, none)
  BY <1>3 DEF Promise!FollowsStrictly, Promise!OnePerTag
<1> QED
  BY <1>2, <1>4 DEF none

(* Refinement: every step of a collection is one of the list of fillers,   *)
(* ranked by first registration, or leaves the list alone.                 *)
THEOREM KeepsThePromise == Spec => KeepsPromise
<1>1. Init => Promise!Init
  <2> SUFFICES ASSUME Init PROVE AsList = <<>>
    BY DEF Promise!Init, Init
  <2>1. OnlyIn(c.order, DOMAIN c.m) = <<>>
    BY NewIsSound DEF Init, Live
  <2> QED
    BY <2>1 DEF AsList
<1>2. IInv /\ IInv' /\ [Next]_vars => [Promise!Update]_<<AsList, returned>>
  <2> SUFFICES ASSUME IInv, IInv', [Next]_vars
               PROVE  Promise!Update \/ (AsList' = AsList /\ returned' = returned)
    OBVIOUS
  <2>0. AsList = ListOf(c) /\ AsList' = ListOf(c')
    BY DEF AsList, ListOf, Live
  <2>1. CASE UNCHANGED vars \/ (c' = c /\ returned' = returned)
    <3>1. c' = c /\ returned' = returned
      BY <2>1 DEF vars
    <3> QED
      BY <2>0, <3>1
  <2>2. CASE Next /\ ~(c' = c /\ returned' = returned)
    <3>1. Sound(c, returned, Full) /\ Sound(c', returned', Full')
      BY DEF IInv
    <3> DEFINE before == Live(c)
               after  == Live(c')
    <3>2. /\ Promise!Follows(before, after)
          /\ returned' = {} => Promise!FollowsStrictly(before, after)
      <4>1. CASE c' = NewCollection
        <5>1. Live(c') = <<>>
          BY <4>1, NewIsSound
        <5> QED
          BY <5>1, NothingFollows
      <4>2. CASE /\ Moved(c, c')
                 /\ returned' = {} => returned = {} /\ \E w : Extended(c, c', w)
        <5>1. Promise!Follows(before, after)
          BY <3>1, <4>2, MovedFollows
        <5>2. ASSUME returned' = {} PROVE Promise!FollowsStrictly(before, after)
          <6>1. returned = {} /\ Full = TRUE /\ Full' = TRUE
            BY <4>2, <5>2 DEF Full
          <6>2. Sound(c, {}, TRUE) /\ Sound(c', {}, TRUE)
            BY <3>1, <5>2, <6>1 DEF Sound
          <6> QED
            BY <4>2, <5>2, <6>2, ExtendedFollows
        <5> QED
          BY <5>1, <5>2
      <4> QED
        BY <2>2, <4>1, <4>2, StepAdvances DEF Advanced
    <3>3. AsList' \in Seq(Promise!Entry) /\ Promise!Ranked(AsList') = Live(c')
      BY <2>0, <3>1, ListFacts
    <3>4. Promise!Ranked(AsList) = Live(c)
      BY <2>0, <3>1, ListFacts
    <3> HIDE DEF before, after
    <3> QED
      BY <3>2, <3>3, <3>4 DEF Promise!Update, before, after
  <2> QED
    BY <2>1, <2>2
<1>3. Spec => []IInv
  BY Inductive
<1> QED
  BY <1>1, <1>2, <1>3, PTL DEF Spec, KeepsPromise, Promise!Spec
=============================================================================

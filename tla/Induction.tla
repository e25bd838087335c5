------------------------------ MODULE Induction ------------------------------
(***************************************************************************)
(* Induction without operators as parameters: a set of numbers has a least *)
(* member, a collection of finite sets a smallest one, and what would be   *)
(* the first counterexample is none.  With it follow the existence of a    *)
(* function defined by recursion over finite sets, and what all its values *)
(* have in common; FoldLeft of the community modules is such a function.   *)
(***************************************************************************)
EXTENDS Naturals, Sequences, FiniteSetsExt, FiniteSetTheorems, SequenceTheorems, TLAPS

(* Every set of numbers has a least member.                                *)
LEMMA Least ==
  ASSUME NEW T \in SUBSET Nat, T # {}
  PROVE  \E n \in T : \A m \in T : n <= m
<1> DEFINE less == OpToRel(<, Nat)
<1>1. IsWellFoundedOn(less, Nat)
  BY NatLessThanWellFounded
<1>2. \A m, n \in Nat : m < n => <<m, n>> \in less
  BY DEF OpToRel
<1> HIDE DEF less
<1>3. PICK n \in T : \A m \in T : ~(<<m, n>> \in less)
  BY <1>1, WFMin
<1>4. ASSUME NEW m \in T PROVE n <= m
  <2>1. ~(m < n)
    BY <1>2, <1>3
  <2> QED
    BY <2>1
<1> QED
  BY <1>4

(* A smallest member of a collection of finite sets. *)
LEMMA LeastSet ==
  ASSUME NEW D, IsFiniteSet(D), NEW C \in SUBSET SUBSET D, C # {}
  PROVE  \E s \in C : \A u \in C : u \subseteq s => u = s
<1> DEFINE sizes == {Cardinality(s) : s \in C}
<1>1. \A s \in C : IsFiniteSet(s) /\ Cardinality(s) \in Nat
  BY FS_Subset, FS_CardinalityType
<1>2. sizes \in SUBSET Nat /\ sizes # {}
  BY <1>1
<1>3. PICK n \in sizes : \A m \in sizes : n <= m
  <2> HIDE DEF sizes
  <2> QED
    BY <1>2, Least
<1>4. PICK s \in C : Cardinality(s) = n
  BY <1>3
<1>5. ASSUME NEW u \in C, u \subseteq s PROVE u = s
  <2>1. Cardinality(s) <= Cardinality(u)
    BY <1>3, <1>4
  <2>2. Cardinality(u) <= Cardinality(s) /\ (Cardinality(s) = Cardinality(u) => s = u)
    BY <1>1, <1>5, FS_Subset
  <2> QED
    BY <1>1, <2>1, <2>2
<1> QED
  BY <1>5

(* f is defined over the subsets of D by recursion on a smaller subset. *)
Unfolds(f, D, base, rest, step) ==
  f = [s \in SUBSET D |-> IF s = {} THEN base ELSE step[<<f[rest[s]], s>>]]

(* The subset that the recursion goes on with is smaller. *)
Shrinks(rest, D) ==
  \A s \in SUBSET D : s # {} => rest[s] \subseteq s /\ rest[s] # s

(* Two such functions agree where both are defined.                        *)
LEMMA UnfoldsUnique ==
  ASSUME NEW D, IsFiniteSet(D), NEW base, NEW step, NEW rest,
         Shrinks(rest, D),
         NEW A \in SUBSET D, NEW f, Unfolds(f, A, base, rest, step),
         NEW B \in SUBSET D, NEW g, Unfolds(g, B, base, rest, step),
         NEW t \in SUBSET (A \cap B)
  PROVE  f[t] = g[t]
<1> DEFINE differ == {s \in SUBSET (A \cap B) : f[s] # g[s]}
<1> SUFFICES ASSUME differ # {} PROVE FALSE
  OBVIOUS
<1>1. differ \in SUBSET SUBSET D
  OBVIOUS
<1>2. PICK s \in differ : \A u \in differ : u \subseteq s => u = s
  <2> HIDE DEF differ
  <2> QED
    BY <1>1, LeastSet
<1>3. s \in SUBSET A /\ s \in SUBSET B /\ s \in SUBSET D
  OBVIOUS
<1>4. /\ f[s] = IF s = {} THEN base ELSE step[<<f[rest[s]], s>>]
      /\ g[s] = IF s = {} THEN base ELSE step[<<g[rest[s]], s>>]
  BY <1>3 DEF Unfolds
<1>5. s # {} => rest[s] \subseteq s /\ rest[s] # s
  BY <1>3 DEF Shrinks
<1>6. s # {} => f[rest[s]] = g[rest[s]]
  BY <1>2, <1>5
<1> QED
  BY <1>2, <1>4, <1>6

(* The function for a subset agrees with that for the set.                 *)
LEMMA UnfoldsAgree ==
  ASSUME NEW D, IsFiniteSet(D), NEW base, NEW step, NEW rest,
         Shrinks(rest, D),
         NEW B \in SUBSET D, NEW R \in SUBSET B,
         NEW f, Unfolds(f, B, base, rest, step),
         NEW g, Unfolds(g, R, base, rest, step)
  PROVE  f[R] = g[R]
<1>1. R \in SUBSET D
  OBVIOUS
<1>2. R \in SUBSET (B \cap R)
  OBVIOUS
<1>3. \A t \in SUBSET (B \cap R) : f[t] = g[t]
  BY <1>1, UnfoldsUnique
<1> QED
  BY <1>2, <1>3

(* There is such a function.                                               *)
LEMMA UnfoldsExists ==
  ASSUME NEW D, IsFiniteSet(D), NEW base, NEW step, NEW rest,
         Shrinks(rest, D)
  PROVE  \E f : Unfolds(f, D, base, rest, step)
<1> DEFINE none == {A \in SUBSET D : ~\E f : Unfolds(f, A, base, rest, step)}
<1> SUFFICES ASSUME none # {} PROVE FALSE
  OBVIOUS
<1>1. PICK A \in none : \A u \in none : u \subseteq A => u = A
  <2>1. none \in SUBSET SUBSET D
    OBVIOUS
  <2> HIDE DEF none
  <2> QED
    BY <2>1, LeastSet
<1>2. A \in SUBSET D /\ ~\E f : Unfolds(f, A, base, rest, step)
  OBVIOUS
<1> DEFINE F(B) == CHOOSE f : Unfolds(f, B, base, rest, step)
           at(B) == F(B)[B]
           whole == [s \in SUBSET A |-> IF s = {} THEN base ELSE step[<<at(rest[s]), s>>]]
<1>3. ASSUME NEW B \in SUBSET A, B # A
      PROVE  Unfolds(F(B), B, base, rest, step)
  <2>1. B \in SUBSET D /\ B \notin none
    BY <1>1, <1>2, <1>3
  <2>2. \E f : Unfolds(f, B, base, rest, step)
    BY <2>1
  <2> QED
    BY <2>2
<1> HIDE DEF F
<1>4. ASSUME NEW B \in SUBSET A, B # A
      PROVE  at(B) = IF B = {} THEN base ELSE step[<<at(rest[B]), B>>]
  <2>1. Unfolds(F(B), B, base, rest, step)
    BY <1>3, <1>4
  <2>2. at(B) = IF B = {} THEN base ELSE step[<<F(B)[rest[B]], B>>]
    BY <2>1 DEF Unfolds
  <2>3. CASE B # {}
    <3>1. /\ rest[B] \in SUBSET B /\ rest[B] # A /\ rest[B] \in SUBSET A
          /\ rest[B] \in SUBSET (B \cap rest[B])
          /\ B \in SUBSET D /\ rest[B] \in SUBSET D
      BY <1>2, <1>4, <2>3 DEF Shrinks
    <3>2. Unfolds(F(rest[B]), rest[B], base, rest, step)
      BY <1>3, <3>1
    <3> DEFINE R == rest[B]
    <3>4. R \in SUBSET D /\ R \in SUBSET (B \cap R) /\ Unfolds(F(R), R, base, rest, step)
      BY <3>1, <3>2
    <3>5. B \in SUBSET D
      BY <3>1
    <3> HIDE DEF R
    <3>6. ASSUME NEW f, NEW g, Unfolds(f, B, base, rest, step),
                 Unfolds(g, R, base, rest, step)
          PROVE  f[R] = g[R]
      <4> HIDE DEF none, at, whole
      <4> QED
        BY <3>4, <3>5, <3>6, UnfoldsAgree
    <3>3. F(B)[R] = F(R)[R]
      BY <2>1, <3>4, <3>6
    <3> QED
      BY <2>2, <2>3, <3>3 DEF R
  <2> QED
    BY <2>2, <2>3
<1>5. Unfolds(whole, A, base, rest, step)
  <2>1. \A s \in SUBSET A : s # {} => /\ rest[s] \in SUBSET A /\ rest[s] # A
    BY <1>2 DEF Shrinks
  <2>2. \A s \in SUBSET A : s # {} => whole[rest[s]] = at(rest[s])
    <3> HIDE DEF at
    <3> QED
      BY <2>1, <1>4
  <2>3. whole = [s \in SUBSET A |-> IF s = {} THEN base ELSE step[<<whole[rest[s]], s>>]]
    <3> HIDE DEF at
    <3> QED
      BY <2>2
  <2> HIDE DEF whole
  <2> QED
    BY <2>3 DEF Unfolds
<1> QED
  BY <1>2, <1>5

(* A set of values that no step of the recursion leaves holds all values.  *)
LEMMA KeptByUnfolding ==
  ASSUME NEW D, IsFiniteSet(D), NEW rest, Shrinks(rest, D), NEW Val, NEW f, f[{}] \in Val,
         \A s \in SUBSET D : s # {} /\ f[rest[s]] \in Val => f[s] \in Val
  PROVE  \A s \in SUBSET D : f[s] \in Val
<1> DEFINE bad == {s \in SUBSET D : f[s] \notin Val}
<1> SUFFICES ASSUME bad # {} PROVE FALSE
  OBVIOUS
<1>1. PICK s \in bad : \A u \in bad : u \subseteq s => u = s
  <2>1. bad \in SUBSET SUBSET D
    OBVIOUS
  <2> HIDE DEF bad
  <2> QED
    BY <2>1, LeastSet
<1>2. s \in SUBSET D /\ s # {} /\ f[s] \notin Val
  OBVIOUS
<1>3. rest[s] \subseteq s /\ rest[s] # s
  BY <1>2 DEF Shrinks
<1>4. rest[s] \notin bad
  BY <1>1, <1>3
<1> QED
  BY <1>2, <1>3, <1>4

(* The greatest number of a finite set is in it.                           *)
LEMMA MaxIsMember ==
  ASSUME NEW n \in Nat, NEW s \in SUBSET (1..n), s # {}
  PROVE  Max(s) \in s
<1> DEFINE below == {n - x : x \in s}
<1>1. below \in SUBSET Nat /\ below # {}
  <2>1. \A x \in s : n - x \in Nat
    OBVIOUS
  <2> QED
    BY <2>1
<1>2. PICK m \in below : \A k \in below : m <= k
  <2> HIDE DEF below
  <2> QED
    BY <1>1, Least
<1>3. PICK x \in s : m = n - x
  OBVIOUS
<1>4. \A y \in s : x >= y
  <2> TAKE y \in s
  <2>1. m <= n - y
    BY <1>2
  <2> QED
    BY <1>3, <2>1
<1> QED
  BY <1>4 DEF Max

(* A fold from left to right takes the last index away.                    *)
LEMMA DroppingMaxShrinks ==
  ASSUME NEW n \in Nat
  PROVE  Shrinks([s \in SUBSET (1..n) |-> s \ {Max(s)}], 1..n)
<1> SUFFICES ASSUME NEW s \in SUBSET (1..n), s # {}
             PROVE  s \ {Max(s)} \subseteq s /\ s \ {Max(s)} # s
  BY DEF Shrinks
<1> QED
  BY MaxIsMember

(* f[1..n] folds op, a function of a value and an index, over the indices. *)
Folds(f, n, base, op) ==
  f = [s \in SUBSET (1..n) |-> IF s = {} THEN base ELSE op[<<f[s \ {Max(s)}], Max(s)>>]]

(* A fold whose steps stay in a set of values is defined.                  *)
LEMMA FoldExists ==
  ASSUME NEW n \in Nat, NEW Val, NEW base \in Val, NEW op \in [Val \X (1..n) -> Val]
  PROVE  \E f \in [SUBSET (1..n) -> Val] : Folds(f, n, base, op)
<1> DEFINE D    == 1..n
           rest == [s \in SUBSET D |-> s \ {Max(s)}]
           step == [p \in Val \X SUBSET D |-> op[<<p[1], Max(p[2])>>]]
<1>1. IsFiniteSet(D) /\ Shrinks(rest, D)
  <2>1. IsFiniteSet(D)
    BY FS_Interval
  <2>2. Shrinks(rest, D)
    BY DroppingMaxShrinks
  <2> QED
    BY <2>1, <2>2
<1>2. \A s \in SUBSET D : s # {} => Max(s) \in D
  BY MaxIsMember
<1>3. PICK f : Unfolds(f, D, base, rest, step)
  <2> HIDE DEF D, rest, step
  <2> QED
    BY <1>1, UnfoldsExists
<1>4. f = [s \in SUBSET D |-> IF s = {} THEN base ELSE step[<<f[rest[s]], s>>]]
  BY <1>3 DEF Unfolds
<1>5. \A s \in SUBSET D : s # {} /\ f[rest[s]] \in Val =>
                            f[s] = op[<<f[rest[s]], Max(s)>>] /\ f[s] \in Val
  BY <1>2, <1>4
<1>6. f[{}] \in Val
  BY <1>4
<1>7. \A s \in SUBSET D : f[s] \in Val
  <2> HIDE DEF D, rest, step
  <2> QED
    BY <1>1, <1>5, <1>6, KeptByUnfolding
<1>8. \A s \in SUBSET D : s # {} => rest[s] \in SUBSET D /\ rest[s] = s \ {Max(s)}
  OBVIOUS
<1>9. f \in [SUBSET D -> Val]
  <2> HIDE DEF D, rest, step
  <2> QED
    BY <1>4, <1>7
<1>10. f = [s \in SUBSET D |-> IF s = {} THEN base ELSE op[<<f[s \ {Max(s)}], Max(s)>>]]
  <2> HIDE DEF D, rest, step
  <2> QED
    BY <1>4, <1>5, <1>7, <1>8
<1> QED
  BY <1>9, <1>10 DEF Folds

(* Every subset satisfies what the recursion carries from the empty set on *)
LEMMA EverySubset ==
  ASSUME NEW D, IsFiniteSet(D), NEW rest, Shrinks(rest, D), NEW Good, {} \in Good,
         \A s \in SUBSET D : s # {} /\ rest[s] \in Good => s \in Good
  PROVE  SUBSET D \subseteq Good
<1> DEFINE f == [s \in SUBSET D |-> s]
<1>1. f[{}] \in Good
  OBVIOUS
<1>2. \A s \in SUBSET D : s # {} => rest[s] \in SUBSET D
  BY DEF Shrinks
<1>3. \A s \in SUBSET D : s # {} /\ f[rest[s]] \in Good => f[s] \in Good
  BY <1>2
<1>4. \A s \in SUBSET D : f[s] \in Good
  <2> HIDE DEF f
  <2> QED
    BY <1>1, <1>3, KeptByUnfolding
<1> QED
  BY <1>4

(* Every sequence is got by appending to the empty one. *)
LEMMA EverySequence ==
  ASSUME NEW S, NEW Good, <<>> \in Good,
         \A s \in Seq(S), x \in S : s \in Good => Append(s, x) \in Good
  PROVE  Seq(S) \subseteq Good
<1> DEFINE bad == {n \in Nat : \E s \in Seq(S) : Len(s) = n /\ s \notin Good}
<1> SUFFICES ASSUME bad # {} PROVE FALSE
  BY LenProperties
<1>1. PICK n \in bad : \A m \in bad : n <= m
  <2>1. bad \in SUBSET Nat
    OBVIOUS
  <2> HIDE DEF bad
  <2> QED
    BY <2>1, Least
<1>2. PICK s \in Seq(S) : Len(s) = n /\ s \notin Good
  OBVIOUS
<1>3. s # <<>>
  BY <1>2
<1> DEFINE f == [i \in 1..(Len(s) - 1) |-> s[i]]
<1>4. Len(s) \in Nat /\ Len(s) # 0 /\ \A i \in 1..Len(s) : s[i] \in S
  BY <1>3, LenProperties, EmptySeq
<1>5. f \in Seq(S) /\ Len(f) = Len(s) - 1 /\ s[Len(s)] \in S
  <2>1. Len(s) - 1 \in Nat
    BY <1>4
  <2>2. \A i \in 1..(Len(s) - 1) : s[i] \in S
    BY <1>4
  <2>3. f \in Seq(S)
    BY <2>1, <2>2, IsASeq
  <2> QED
    BY <1>4, <2>1, <2>3
<1>6. s = Append(f, s[Len(s)])
  BY <1>4
<1>7. f \in Good
  <2>1. Len(f) \in Nat /\ Len(f) < n
    BY <1>2, <1>4, <1>5
  <2>2. ASSUME Len(f) \in bad PROVE FALSE
    <3>1. n <= Len(f) /\ n \in Nat
      <4> HIDE DEF f
      <4> QED
        BY <1>1, <2>2
    <3> HIDE DEF f, bad
    <3> QED
      BY <2>1, <3>1
  <2> HIDE DEF f
  <2> QED
    BY <1>5, <2>1, <2>2
<1> QED
  BY <1>2, <1>5, <1>6, <1>7
=============================================================================

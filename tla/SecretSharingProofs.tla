-------------------------- MODULE SecretSharingProofs --------------------------
(***************************************************************************)
(* Theorems about SecretSharing.tla, for every prime, number of nodes,     *)
(* threshold and number of faults.                                         *)
(***************************************************************************)
EXTENDS SecretSharing, FiniteSetTheorems, WellFoundedInduction, TLAPS

-----------------------------------------------------------------------------
(* Induction, as the choice of a least counterexample. *)

LEMMA LeastNatural ==
  ASSUME NEW S \in SUBSET Nat, S # {}
  PROVE  \E m \in S : \A n \in S : m <= n
<1>1. PICK m \in S : \A n \in S : ~(<<n, m>> \in OpToRel(<, Nat))
  BY NatLessThanWellFounded, WFMin
<1>2. ASSUME NEW n \in S PROVE m <= n
  <2>1. <<n, m>> \in Nat \X Nat /\ <<n, m>>[1] = n /\ <<n, m>>[2] = m
    OBVIOUS
  <2>2. ~(n < m)
    BY <1>1, <2>1 DEF OpToRel
  <2> QED
    BY <2>2
<1> QED
  BY <1>2

LEMMA LeastSubset ==
  ASSUME NEW S, IsFiniteSet(S), NEW C \in SUBSET SUBSET S, C # {}
  PROVE  \E s \in C : IsFiniteSet(s) /\ \A t \in SUBSET s : t # s => t \notin C
<1>1. C \subseteq FiniteSubsetsOf(S)
  BY FS_FiniteSubsetsOfFinite
<1>2. PICK s \in C : \A t \in C : ~(<<t, s>> \in StrictSubsetOrdering(S))
  BY <1>1, FS_StrictSubsetOrderingWellFounded, WFMin
<1>3. ASSUME NEW t \in SUBSET s, t # s PROVE t \notin C
  <2>1. <<t, s>> \in (SUBSET S) \X (SUBSET S)
    OBVIOUS
  <2>2. <<t, s>>[1] = t /\ <<t, s>>[2] = s
    OBVIOUS
  <2>3. <<t, s>> \in StrictSubsetOrdering(S)
    BY <1>3, <2>1, <2>2 DEF StrictSubsetOrdering
  <2> QED
    BY <1>2, <2>3
<1>4. IsFiniteSet(s)
  BY FS_Subset
<1> QED
  BY <1>3, <1>4

LEMMA SubsetsAreFinite ==
  ASSUME NEW S, IsFiniteSet(S), NEW s \in SUBSET S
  PROVE  IsFiniteSet(s) /\ Cardinality(s) \in Nat /\ Cardinality(s) <= Cardinality(S)
BY FS_Subset, FS_CardinalityType

LEMMA RemoveOne ==
  ASSUME NEW S, IsFiniteSet(S), NEW x \in S
  PROVE  /\ IsFiniteSet(S \ {x})
         /\ Cardinality(S) \in Nat /\ Cardinality(S \ {x}) \in Nat
         /\ Cardinality(S \ {x}) = Cardinality(S) - 1
BY FS_RemoveElement, FS_CardinalityType

LEMMA Images ==
  ASSUME NEW S, IsFiniteSet(S), NEW pi
  PROVE  /\ IsFiniteSet({pi[i] : i \in S})
         /\ (\A i, j \in S : pi[i] = pi[j] => i = j)
              => Cardinality({pi[i] : i \in S}) = Cardinality(S)
<1> DEFINE f == [i \in S |-> pi[i]]
           T == {pi[i] : i \in S}
<1>1. f \in Surjection(S, T)
  BY DEF Surjection
<1>2. (\A i, j \in S : pi[i] = pi[j] => i = j) => f \in Injection(S, T)
  BY DEF Injection, IsInjective
<1> HIDE DEF f, T
<1>3. /\ IsFiniteSet(T)
      /\ (\A i, j \in S : pi[i] = pi[j] => i = j) => Cardinality(T) = Cardinality(S)
  BY <1>1, <1>2, FS_Surjection
<1> QED
  BY <1>3 DEF T

-----------------------------------------------------------------------------
(* Folds: the recursion that defines one has a solution. *)

Pick(s) == CHOOSE x \in s : TRUE

Unfolds(g, D, op, base, f) ==
  g = [s \in D |-> IF s = {} THEN base ELSE op[<<g[s \ {Pick(s)}], f[Pick(s)]>>]]

LEMMA FoldExists ==
  ASSUME NEW S, IsFiniteSet(S), NEW op, NEW base, NEW f
  PROVE  \E g : Unfolds(g, SUBSET S, op, base, f)
<1> DEFINE Small(n) == {s \in SUBSET S : Cardinality(s) <= n}
           bad == {n \in Nat : ~\E g : Unfolds(g, Small(n), op, base, f)}
<1>1. bad = {}
  <2>1. SUFFICES ASSUME bad # {} PROVE FALSE
    OBVIOUS
  <2>2. PICK m \in bad : \A n \in bad : m <= n
    <3>1. bad \in SUBSET Nat
      OBVIOUS
    <3> HIDE DEF bad
    <3> QED
      BY <2>1, <3>1, LeastNatural
  <2>3. CASE m = 0
    <3>1. \A s \in Small(0) : s = {}
      BY SubsetsAreFinite, FS_EmptySet
    <3> DEFINE g == [s \in Small(0) |-> base]
    <3>2. Unfolds(g, Small(0), op, base, f)
      BY <3>1 DEF Unfolds
    <3> QED
      BY <2>3, <3>2
  <2>4. CASE m # 0
    <3>0. m \in Nat /\ m - 1 \in Nat /\ m - 1 < m
      BY <2>4
    <3>1. m - 1 \in Nat /\ m - 1 \notin bad
      <4> HIDE DEF bad
      <4> QED
        BY <2>2, <3>0
    <3>2. PICK h : Unfolds(h, Small(m - 1), op, base, f)
      BY <3>1
    <3> DEFINE g == [s \in Small(m) |->
                       IF s = {} THEN base ELSE op[<<h[s \ {Pick(s)}], f[Pick(s)]>>]]
    <3>3. Small(m - 1) \subseteq Small(m)
      BY SubsetsAreFinite
    <3>4. ASSUME NEW u \in Small(m - 1) PROVE g[u] = h[u]
      BY <3>2, <3>3 DEF Unfolds
    <3>5. ASSUME NEW s \in Small(m), s # {} PROVE s \ {Pick(s)} \in Small(m - 1)
      <4>1. Pick(s) \in s
        BY <3>5 DEF Pick
      <4>2. IsFiniteSet(s) /\ s \ {Pick(s)} \in SUBSET S
        BY SubsetsAreFinite
      <4> QED
        BY <4>1, <4>2, RemoveOne
    <3>6. \A s \in Small(m) :
            g[s] = IF s = {} THEN base ELSE op[<<g[s \ {Pick(s)}], f[Pick(s)]>>]
      BY <3>4, <3>5
    <3> HIDE DEF Small
    <3>7. g = [s \in Small(m) |-> g[s]]
      OBVIOUS
    <3> HIDE DEF g
    <3>8. Unfolds(g, Small(m), op, base, f)
      BY <3>6, <3>7 DEF Unfolds
    <3> QED
      BY <3>8
  <2> QED
    BY <2>3, <2>4
<1>2. Cardinality(S) \in Nat
  BY FS_CardinalityType
<1>3. Small(Cardinality(S)) = SUBSET S
  BY SubsetsAreFinite
<1>4. \E g : Unfolds(g, Small(Cardinality(S)), op, base, f)
  <2> HIDE DEF Small
  <2> QED
    BY <1>1, <1>2
<1> HIDE DEF Small, bad
<1> QED
  BY <1>3, <1>4

LEMMA FoldUnfolds ==
  ASSUME NEW S, IsFiniteSet(S), NEW op, NEW base, NEW f
  PROVE  \E g : Unfolds(g, SUBSET S, op, base, f) /\ Fold(op, base, f, S) = g[S]
<1> DEFINE g == CHOOSE h : Unfolds(h, SUBSET S, op, base, f)
<1>1. Unfolds(g, SUBSET S, op, base, f)
  BY FoldExists
<1>2. Fold(op, base, f, S) = g[S]
  BY DEF Fold, FoldFunctionOnSet, MapThenFoldSet, Unfolds, Pick
<1> HIDE DEF g
<1> QED
  BY <1>1, <1>2

(* Two solutions agree where both are defined.                               *)
LEMMA UnfoldsOnce ==
  ASSUME NEW S, IsFiniteSet(S), NEW op, NEW base, NEW f
  PROVE  \A T \in SUBSET S : \A g, h :
           Unfolds(g, SUBSET S, op, base, f) /\ Unfolds(h, SUBSET T, op, base, f)
             => g[T] = h[T]
<1> TAKE T \in SUBSET S
<1> SUFFICES ASSUME NEW g, NEW h,
                    Unfolds(g, SUBSET S, op, base, f), Unfolds(h, SUBSET T, op, base, f)
             PROVE  g[T] = h[T]
  OBVIOUS
<1> DEFINE C == {s \in SUBSET T : g[s] # h[s]}
<1>1. SUFFICES ASSUME C # {} PROVE FALSE
  OBVIOUS
<1>2. PICK s \in C : \A t \in SUBSET s : t # s => t \notin C
  <2>1. C \in SUBSET SUBSET T /\ IsFiniteSet(T)
    BY FS_Subset
  <2> HIDE DEF C
  <2> QED
    BY <1>1, <2>1, LeastSubset
<1>3. /\ g[s] = IF s = {} THEN base ELSE op[<<g[s \ {Pick(s)}], f[Pick(s)]>>]
      /\ h[s] = IF s = {} THEN base ELSE op[<<h[s \ {Pick(s)}], f[Pick(s)]>>]
  <2>1. s \in SUBSET S /\ s \in SUBSET T
    OBVIOUS
  <2> QED
    BY <2>1 DEF Unfolds
<1>4. s # {}
  BY <1>3
<1>5. Pick(s) \in s
  BY <1>4 DEF Pick
<1>6. g[s \ {Pick(s)}] = h[s \ {Pick(s)}]
  BY <1>2, <1>5
<1> QED
  BY <1>3, <1>4, <1>6

(* So a fold takes in one member of its set after the other.                 *)
LEMMA FoldStep ==
  ASSUME NEW S, IsFiniteSet(S), NEW op, NEW base, NEW f
  PROVE  Fold(op, base, f, S) =
           IF S = {} THEN base ELSE op[<<Fold(op, base, f, S \ {Pick(S)}), f[Pick(S)]>>]
<1>1. PICK g : Unfolds(g, SUBSET S, op, base, f) /\ Fold(op, base, f, S) = g[S]
  BY FoldUnfolds
<1> DEFINE T == S \ {Pick(S)}
<1>2. T \in SUBSET S /\ IsFiniteSet(T)
  BY FS_Subset
<1> HIDE DEF T
<1>3. PICK h : Unfolds(h, SUBSET T, op, base, f) /\ Fold(op, base, f, T) = h[T]
  BY <1>2, FoldUnfolds
<1>4. g[T] = h[T]
  BY <1>1, <1>2, <1>3, UnfoldsOnce
<1>5. g[S] = IF S = {} THEN base ELSE op[<<g[T], f[Pick(S)]>>]
  BY <1>1 DEF Unfolds, T
<1> QED
  BY <1>1, <1>3, <1>4, <1>5 DEF T

LEMMA FoldStepOf ==
  ASSUME NEW S, IsFiniteSet(S), S # {}, NEW op, NEW base, NEW f
  PROVE  /\ Pick(S) \in S
         /\ Fold(op, base, f, S) = op[<<Fold(op, base, f, S \ {Pick(S)}), f[Pick(S)]>>]
BY FoldStep DEF Pick

LEMMA FoldEmpty ==
  ASSUME NEW op, NEW base, NEW f
  PROVE  Fold(op, base, f, {}) = base
  BY FoldStep, FS_EmptySet

(* Folds of the same terms are the same.                                     *)
LEMMA FoldSame ==
  ASSUME NEW S, IsFiniteSet(S), NEW op, NEW base, NEW f, NEW g, \A i \in S : f[i] = g[i]
  PROVE  Fold(op, base, f, S) = Fold(op, base, g, S)
<1> DEFINE C == {s \in SUBSET S : Fold(op, base, f, s) # Fold(op, base, g, s)}
<1>1. SUFFICES ASSUME C # {} PROVE FALSE
  OBVIOUS
<1>2. PICK s \in C : IsFiniteSet(s) /\ \A t \in SUBSET s : t # s => t \notin C
  <2>1. C \in SUBSET SUBSET S
    OBVIOUS
  <2> HIDE DEF C
  <2> QED
    BY <1>1, <2>1, LeastSubset
<1> DEFINE u == s \ {Pick(s)}
<1>3. s # {}
  BY FoldEmpty
<1>4. Pick(s) \in s
  BY <1>3 DEF Pick
<1>5. u \in SUBSET s /\ u # s /\ u \in SUBSET S
  BY <1>4
<1>6. Fold(op, base, f, u) = Fold(op, base, g, u)
  BY <1>2, <1>5
<1>7. f[Pick(s)] = g[Pick(s)]
  BY <1>4
<1>8. /\ Fold(op, base, f, s) = op[<<Fold(op, base, f, u), f[Pick(s)]>>]
      /\ Fold(op, base, g, s) = op[<<Fold(op, base, g, u), g[Pick(s)]>>]
  <2>1. IsFiniteSet(s)
    BY <1>2
  <2> HIDE DEF C
  <2>2. Fold(op, base, f, s) = op[<<Fold(op, base, f, u), f[Pick(s)]>>]
    BY ONLY <2>1, <1>3, FoldStepOf
  <2>3. Fold(op, base, g, s) = op[<<Fold(op, base, g, u), g[Pick(s)]>>]
    BY ONLY <2>1, <1>3, FoldStepOf
  <2> QED
    BY <2>2, <2>3
<1> QED
  BY <1>6, <1>7, <1>8

(* What + and * modulo P have in common.                                     *)
Commutative(op, base) ==
  /\ base \in Field
  /\ \A a, b \in Field : op[<<a, b>>] \in Field /\ op[<<a, b>>] = op[<<b, a>>]
  /\ \A a, b, c \in Field : op[<<op[<<a, b>>], c>>] = op[<<a, op[<<b, c>>]>>]
  /\ \A a \in Field : op[<<base, a>>] = a

LEMMA FoldStays ==
  ASSUME NEW S, IsFiniteSet(S), NEW op, NEW base,
         NEW V, base \in V, \A a, b \in V : op[<<a, b>>] \in V,
         NEW f, \A i \in S : f[i] \in V
  PROVE  Fold(op, base, f, S) \in V
<1> DEFINE C == {s \in SUBSET S : Fold(op, base, f, s) \notin V}
<1>1. SUFFICES ASSUME C # {} PROVE FALSE
  OBVIOUS
<1>2. PICK s \in C : IsFiniteSet(s) /\ \A t \in SUBSET s : t # s => t \notin C
  <2>1. C \in SUBSET SUBSET S
    OBVIOUS
  <2> HIDE DEF C
  <2> QED
    BY <1>1, <2>1, LeastSubset
<1> DEFINE u == s \ {Pick(s)}
<1>3. s # {}
  BY FoldEmpty
<1>4. Pick(s) \in s
  BY <1>3 DEF Pick
<1>5. u \in SUBSET s /\ u # s /\ u \in SUBSET S
  BY <1>4
<1>6. Fold(op, base, f, u) \in V
  BY <1>2, <1>5
<1>7. f[Pick(s)] \in V
  BY <1>4
<1>8. Fold(op, base, f, s) = op[<<Fold(op, base, f, u), f[Pick(s)]>>]
  <2>1. IsFiniteSet(s)
    BY <1>2
  <2> QED
    BY ONLY <2>1, <1>3, FoldStepOf
<1> QED
  BY <1>6, <1>7, <1>8

LEMMA FoldType ==
  ASSUME NEW S, IsFiniteSet(S), NEW op, NEW base, Commutative(op, base),
         NEW f, \A i \in S : f[i] \in Field
  PROVE  Fold(op, base, f, S) \in Field
<1>1. base \in Field /\ \A a, b \in Field : op[<<a, b>>] \in Field
  BY DEF Commutative
<1> QED
  BY <1>1, FoldStays

(* The order does not matter: any member may be the last one taken in.       *)
LEMMA FoldTakes ==
  ASSUME NEW S, IsFiniteSet(S), NEW op, NEW base, Commutative(op, base),
         NEW f, \A i \in S : f[i] \in Field, NEW x \in S
  PROVE  Fold(op, base, f, S) = op[<<Fold(op, base, f, S \ {x}), f[x]>>]
<1> DEFINE C == {s \in SUBSET S : \E y \in s :
                   Fold(op, base, f, s) # op[<<Fold(op, base, f, s \ {y}), f[y]>>]}
<1>1. SUFFICES ASSUME C # {} PROVE FALSE
  OBVIOUS
<1>2. PICK s \in C : IsFiniteSet(s) /\ \A t \in SUBSET s : t # s => t \notin C
  <2>1. C \in SUBSET SUBSET S
    OBVIOUS
  <2> HIDE DEF C
  <2> QED
    BY <1>1, <2>1, LeastSubset
<1>3. PICK y \in s : Fold(op, base, f, s) # op[<<Fold(op, base, f, s \ {y}), f[y]>>]
  OBVIOUS
<1> DEFINE p == Pick(s)
<1>4. p \in s /\ Fold(op, base, f, s) = op[<<Fold(op, base, f, s \ {p}), f[p]>>]
  <2>1. IsFiniteSet(s) /\ s # {}
    BY <1>2, <1>3
  <2> QED
    BY ONLY <2>1, FoldStepOf
<1> HIDE DEF p
<1>5. p # y
  BY <1>3, <1>4
<1> DEFINE u == s \ {p}
           v == s \ {y}
           w == (s \ {p}) \ {y}
<1>6. /\ u \in SUBSET s /\ u # s /\ y \in u /\ u \in SUBSET S
      /\ v \in SUBSET s /\ v # s /\ p \in v /\ v \in SUBSET S
      /\ w \in SUBSET S /\ u \ {y} = w /\ v \ {p} = w
  BY <1>3, <1>4, <1>5
<1>7. Fold(op, base, f, u) = op[<<Fold(op, base, f, w), f[y]>>]
  <2>1. u \notin C
    BY <1>2, <1>6
  <2> QED
    BY <1>6, <2>1
<1>8. Fold(op, base, f, v) = op[<<Fold(op, base, f, w), f[p]>>]
  <2>1. v \notin C
    BY <1>2, <1>6
  <2> QED
    BY <1>6, <2>1
<1>9. /\ Fold(op, base, f, w) \in Field /\ f[p] \in Field /\ f[y] \in Field
  <2>1. IsFiniteSet(w) /\ \A i \in w : f[i] \in Field
    BY <1>6, FS_Subset
  <2> HIDE DEF w
  <2> QED
    BY <2>1, <1>3, <1>4, FoldType
<1> DEFINE W == Fold(op, base, f, w)
<1>10. op[<<op[<<W, f[y]>>], f[p]>>] = op[<<op[<<W, f[p]>>], f[y]>>]
  <2> HIDE DEF W
  <2>1. W \in Field /\ f[p] \in Field /\ f[y] \in Field
    BY <1>9 DEF W
  <2>2. op[<<op[<<W, f[y]>>], f[p]>>] = op[<<W, op[<<f[y], f[p]>>]>>]
    BY <2>1 DEF Commutative
  <2>3. op[<<op[<<W, f[p]>>], f[y]>>] = op[<<W, op[<<f[p], f[y]>>]>>]
    BY <2>1 DEF Commutative
  <2>4. op[<<f[y], f[p]>>] = op[<<f[p], f[y]>>]
    BY <2>1 DEF Commutative
  <2> QED
    BY <2>2, <2>3, <2>4
<1> QED
  BY <1>3, <1>4, <1>7, <1>8, <1>10

LEMMA Interchange ==
  ASSUME NEW op, NEW base, Commutative(op, base),
         NEW a \in Field, NEW b \in Field, NEW c \in Field, NEW d \in Field
  PROVE  op[<<op[<<a, b>>], op[<<c, d>>]>>] = op[<<op[<<a, c>>], op[<<b, d>>]>>]
<1>1. /\ op[<<a, b>>] \in Field /\ op[<<c, d>>] \in Field /\ op[<<a, c>>] \in Field
      /\ op[<<b, c>>] \in Field /\ op[<<b, d>>] \in Field
  BY DEF Commutative
<1>2. op[<<op[<<a, b>>], op[<<c, d>>]>>] = op[<<a, op[<<b, op[<<c, d>>]>>]>>]
  BY <1>1 DEF Commutative
<1>3. op[<<b, op[<<c, d>>]>>] = op[<<op[<<b, c>>], d>>]
  BY DEF Commutative
<1>4. op[<<b, c>>] = op[<<c, b>>]
  BY DEF Commutative
<1>5. op[<<op[<<c, b>>], d>>] = op[<<c, op[<<b, d>>]>>]
  BY DEF Commutative
<1>6. op[<<op[<<a, c>>], op[<<b, d>>]>>] = op[<<a, op[<<c, op[<<b, d>>]>>]>>]
  BY <1>1 DEF Commutative
<1> QED
  BY <1>2, <1>3, <1>4, <1>5, <1>6

(* A fold of pairwise results is the result of the two folds.                *)
LEMMA FoldPairwise ==
  ASSUME NEW S, IsFiniteSet(S), NEW op, NEW base, Commutative(op, base),
         NEW f, \A i \in S : f[i] \in Field,
         NEW g, \A i \in S : g[i] \in Field,
         NEW h, \A i \in S : h[i] = op[<<f[i], g[i]>>]
  PROVE  Fold(op, base, h, S) = op[<<Fold(op, base, f, S), Fold(op, base, g, S)>>]
<1> DEFINE C == {s \in SUBSET S :
                   Fold(op, base, h, s)
                     # op[<<Fold(op, base, f, s), Fold(op, base, g, s)>>]}
<1>1. SUFFICES ASSUME C # {} PROVE FALSE
  OBVIOUS
<1>2. PICK s \in C : IsFiniteSet(s) /\ \A t \in SUBSET s : t # s => t \notin C
  <2>1. C \in SUBSET SUBSET S
    OBVIOUS
  <2> HIDE DEF C
  <2> QED
    BY <1>1, <2>1, LeastSubset
<1>3. s # {}
  BY FoldEmpty DEF Commutative
<1> DEFINE p == Pick(s)
           u == s \ {p}
           F == Fold(op, base, f, u)
           G == Fold(op, base, g, u)
<1>4. /\ p \in s /\ Fold(op, base, f, s) = op[<<F, f[p]>>]
      /\ Fold(op, base, g, s) = op[<<G, g[p]>>]
      /\ Fold(op, base, h, s) = op[<<Fold(op, base, h, u), h[p]>>]
  <2>1. IsFiniteSet(s)
    BY <1>2
  <2>2. p \in s /\ Fold(op, base, f, s) = op[<<F, f[p]>>]
    BY ONLY <2>1, <1>3, FoldStepOf
  <2>3. Fold(op, base, g, s) = op[<<G, g[p]>>]
    BY ONLY <2>1, <1>3, FoldStepOf
  <2>4. Fold(op, base, h, s) = op[<<Fold(op, base, h, u), h[p]>>]
    BY ONLY <2>1, <1>3, FoldStepOf
  <2> QED
    BY <2>2, <2>3, <2>4
<1> HIDE DEF p
<1>5. u \in SUBSET s /\ u # s /\ u \in SUBSET S
  BY <1>4
<1>6. Fold(op, base, h, u) = op[<<F, G>>]
  BY <1>2, <1>5
<1>7. IsFiniteSet(u) /\ (\A i \in u : f[i] \in Field) /\ (\A i \in u : g[i] \in Field)
  BY <1>5, FS_Subset
<1> HIDE DEF u
<1>8. F \in Field /\ G \in Field
  BY ONLY <1>7, FoldType, Commutative(op, base)
<1> HIDE DEF F, G
<1>9. f[p] \in Field /\ g[p] \in Field /\ h[p] = op[<<f[p], g[p]>>]
  BY <1>4
<1>10. op[<<op[<<F, G>>], op[<<f[p], g[p]>>]>>] = op[<<op[<<F, f[p]>>], op[<<G, g[p]>>]>>]
  BY ONLY <1>8, <1>9, Interchange, Commutative(op, base)
<1>11. Fold(op, base, h, s) = op[<<Fold(op, base, f, s), Fold(op, base, g, s)>>]
  BY <1>4, <1>6, <1>9, <1>10
<1> QED
  BY <1>11

(* The terms may be renamed.                                                 *)
LEMMA FoldRenamed ==
  ASSUME NEW S, IsFiniteSet(S), NEW op, NEW base, Commutative(op, base),
         NEW pi, \A i, j \in S : pi[i] = pi[j] => i = j,
         NEW f, \A i \in S : f[pi[i]] \in Field
  PROVE  Fold(op, base, f, {pi[i] : i \in S}) = Fold(op, base, [i \in S |-> f[pi[i]]], S)
<1> DEFINE g == [i \in S |-> f[pi[i]]]
           C == {s \in SUBSET S : Fold(op, base, f, {pi[i] : i \in s}) # Fold(op, base, g, s)}
<1>1. SUFFICES ASSUME C # {} PROVE FALSE
  OBVIOUS
<1>2. PICK s \in C : IsFiniteSet(s) /\ \A t \in SUBSET s : t # s => t \notin C
  <2>1. C \in SUBSET SUBSET S
    OBVIOUS
  <2> HIDE DEF C
  <2> QED
    BY <1>1, <2>1, LeastSubset
<1>3. s # {}
  <2>1. {pi[i] : i \in {}} = {}
    OBVIOUS
  <2> QED
    BY <2>1, FoldEmpty
<1> DEFINE p == Pick(s)
           u == s \ {p}
           img == {pi[i] : i \in s}
<1>4. p \in s /\ Fold(op, base, g, s) = op[<<Fold(op, base, g, u), g[p]>>]
  <2>1. IsFiniteSet(s)
    BY <1>2
  <2> QED
    BY ONLY <2>1, <1>3, FoldStepOf
<1> HIDE DEF p
<1>5. u \in SUBSET s /\ u # s /\ u \in SUBSET S
  BY <1>4
<1>6. Fold(op, base, f, {pi[i] : i \in u}) = Fold(op, base, g, u)
  BY <1>2, <1>5
<1>7. img \ {pi[p]} = {pi[i] : i \in u}
  BY <1>4
<1>8. IsFiniteSet(img) /\ pi[p] \in img /\ \A y \in img : f[y] \in Field
  <2>1. IsFiniteSet(s)
    BY <1>2
  <2>2. IsFiniteSet(img)
    BY <2>1, Images
  <2> QED
    BY <1>4, <2>2
<1> HIDE DEF img, C
<1>9. Fold(op, base, f, img) = op[<<Fold(op, base, f, img \ {pi[p]}), f[pi[p]]>>]
  BY ONLY <1>8, FoldTakes, Commutative(op, base)
<1>10. g[p] = f[pi[p]]
  BY <1>4, s \in SUBSET S DEF C
<1>11. Fold(op, base, f, img) = Fold(op, base, g, s)
  BY <1>4, <1>6, <1>7, <1>9, <1>10
<1> QED
  BY <1>11 DEF C, img

-----------------------------------------------------------------------------
(* Residues modulo P. *)

LEMMA PrimeAtLeastTwo == P \in Nat /\ P >= 2
BY SharingConstants

LEMMA Residue ==
  ASSUME NEW a \in Int
  PROVE  /\ (a % P) \in Field
         /\ \E q \in Int : a = P * q + (a % P)
<1>1. a = P * (a \div P) + (a % P)
  BY PrimeAtLeastTwo
<1>2. (a \div P) \in Int
  BY PrimeAtLeastTwo
<1>3. (a % P) \in Field
  BY PrimeAtLeastTwo DEF Field
<1> QED
  BY <1>1, <1>2, <1>3

LEMMA ResidueOf ==
  ASSUME NEW q \in Int, NEW r \in Field
  PROVE  (P * q + r) % P = r
BY PrimeAtLeastTwo DEF Field

LEMMA ResidueOfResidue ==
  ASSUME NEW r \in Field
  PROVE  r \in Int /\ (r % P) = r
BY PrimeAtLeastTwo DEF Field

LEMMA Distributes ==
  ASSUME NEW a \in Int, NEW b \in Int, NEW c \in Int
  PROVE  (a + b) * c = a * c + b * c /\ c * (a + b) = c * a + c * b
OBVIOUS

LEMMA DropMultiple ==
  ASSUME NEW a \in Int, NEW q \in Int
  PROVE  (a + P * q) % P = (a % P)
<1> DEFINE r == a % P
<1>1. PICK n \in Int : a = P * n + r
  BY Residue
<1>2. r \in Field /\ P \in Int /\ r \in Int
  BY Residue, PrimeAtLeastTwo DEF Field
<1> HIDE DEF r
<1>3. a + P * q = P * (n + q) + r
  BY <1>1, <1>2, Distributes
<1>4. n + q \in Int
  OBVIOUS
<1>5. (P * (n + q) + r) % P = r
  BY <1>2, <1>4, ResidueOf
<1> QED
  BY <1>3, <1>5 DEF r

LEMMA ReduceSummand ==
  ASSUME NEW a \in Int, NEW b \in Int
  PROVE  ((a % P) + b) % P = ((a + b) % P)
<1> DEFINE r == a % P
<1>1. PICK n \in Int : a = P * n + r
  BY Residue
<1>2. P \in Int /\ r \in Int
  BY Residue, PrimeAtLeastTwo DEF Field
<1> HIDE DEF r
<1>3. a + b = (r + b) + P * n
  BY <1>1, <1>2
<1>4. r + b \in Int
  BY <1>2
<1>5. ((r + b) + P * n) % P = ((r + b) % P)
  BY <1>4, DropMultiple
<1> QED
  BY <1>3, <1>5 DEF r

LEMMA ReduceFactor ==
  ASSUME NEW a \in Int, NEW b \in Int
  PROVE  ((a % P) * b) % P = ((a * b) % P)
<1> DEFINE r == a % P
<1>1. PICK n \in Int : a = P * n + r
  BY Residue
<1>2. P \in Int /\ r \in Int
  BY Residue, PrimeAtLeastTwo DEF Field
<1> HIDE DEF r
<1>3. a * b = r * b + P * (n * b)
  BY <1>1, <1>2
<1>4. n * b \in Int /\ r * b \in Int
  BY <1>2
<1>5. (r * b + P * (n * b)) % P = ((r * b) % P)
  BY <1>4, DropMultiple
<1> QED
  BY <1>3, <1>5 DEF r

-----------------------------------------------------------------------------
(* The field. *)

a \oplus b == Plus[<<a, b>>]

a \odot b == Times[<<a, b>>]

LEMMA TablesAre ==
  ASSUME NEW a \in Field, NEW b \in Field
  PROVE  a \oplus b = ((a + b) % P) /\ a \odot b = ((a * b) % P)
<1>1. <<a, b>> \in Field \X Field
  OBVIOUS
<1> QED
  BY <1>1 DEF Plus, Times, \oplus, \odot

LEMMA FieldCloses ==
  /\ 0 \in Field /\ 1 \in Field
  /\ \A a, b \in Field : a \oplus b \in Field /\ a \odot b \in Field
<1>1. 0 \in Field /\ 1 \in Field
  BY PrimeAtLeastTwo DEF Field
<1>2. ASSUME NEW a \in Field, NEW b \in Field
      PROVE  a \oplus b \in Field /\ a \odot b \in Field
  <2>1. a + b \in Int /\ a * b \in Int
    BY PrimeAtLeastTwo DEF Field
  <2> QED
    BY <2>1, TablesAre, Residue
<1> QED
  BY <1>1, <1>2

LEMMA SumsCommute == \A a, b \in Field : a \oplus b = b \oplus a
<1> TAKE a, b \in Field
<1>1. a + b = b + a
  BY PrimeAtLeastTwo DEF Field
<1> QED
  BY <1>1, TablesAre

LEMMA ProductsCommute == \A a, b \in Field : a \odot b = b \odot a
<1> TAKE a, b \in Field
<1>1. a * b = b * a
  BY PrimeAtLeastTwo DEF Field
<1> QED
  BY <1>1, TablesAre

LEMMA SumsAssociate == \A a, b, c \in Field : (a \oplus b) \oplus c = a \oplus (b \oplus c)
<1> TAKE a, b, c \in Field
<1>1. /\ a \in Int /\ b \in Int /\ c \in Int
      /\ a + b \in Int /\ b + c \in Int
  BY PrimeAtLeastTwo DEF Field
<1>2. (a \oplus b) \oplus c = (((a + b) + c) % P)
  <2>1. (a \oplus b) \oplus c = ((((a + b) % P) + c) % P)
    BY TablesAre, FieldCloses
  <2> QED
    BY <1>1, <2>1, ReduceSummand
<1>3. (b \oplus c) \oplus a = (((b + c) + a) % P)
  <2>1. (b \oplus c) \oplus a = ((((b + c) % P) + a) % P)
    BY TablesAre, FieldCloses
  <2> QED
    BY <1>1, <2>1, ReduceSummand
<1>4. (a + b) + c = (b + c) + a
  BY <1>1
<1>5. a \oplus (b \oplus c) = (b \oplus c) \oplus a
  BY FieldCloses, SumsCommute
<1> QED
  BY <1>2, <1>3, <1>4, <1>5

LEMMA ProductsAssociate == \A a, b, c \in Field : (a \odot b) \odot c = a \odot (b \odot c)
<1> TAKE a, b, c \in Field
<1>1. /\ a \in Int /\ b \in Int /\ c \in Int
      /\ a * b \in Int /\ b * c \in Int
  BY PrimeAtLeastTwo DEF Field
<1>2. (a \odot b) \odot c = (((a * b) * c) % P)
  <2>1. (a \odot b) \odot c = ((((a * b) % P) * c) % P)
    BY TablesAre, FieldCloses
  <2> QED
    BY <1>1, <2>1, ReduceFactor
<1>3. (b \odot c) \odot a = (((b * c) * a) % P)
  <2>1. (b \odot c) \odot a = ((((b * c) % P) * a) % P)
    BY TablesAre, FieldCloses
  <2> QED
    BY <1>1, <2>1, ReduceFactor
<1>4. (a * b) * c = (b * c) * a
  BY <1>1
<1>5. a \odot (b \odot c) = (b \odot c) \odot a
  BY FieldCloses, ProductsCommute
<1> QED
  BY <1>2, <1>3, <1>4, <1>5

LEMMA ProductsDistribute ==
  \A a, b, c \in Field : /\ (a \oplus b) \odot c = (a \odot c) \oplus (b \odot c)
                         /\ c \odot (a \oplus b) = (c \odot a) \oplus (c \odot b)
<1> TAKE a, b, c \in Field
<1>1. /\ a \in Int /\ b \in Int /\ c \in Int
      /\ a + b \in Int /\ a * c \in Int /\ b * c \in Int
      /\ (b * c) % P \in Int
  BY PrimeAtLeastTwo DEF Field
<1>2. (a \oplus b) \odot c = (((a + b) * c) % P)
  <2>1. (a \oplus b) \odot c = ((((a + b) % P) * c) % P)
    BY TablesAre, FieldCloses
  <2> QED
    BY <1>1, <2>1, ReduceFactor
<1>3. (a \odot c) \oplus (b \odot c) = (((a * c) + (b * c)) % P)
  <2>1. (a \odot c) \oplus (b \odot c) = ((((a * c) % P) + ((b * c) % P)) % P)
    BY TablesAre, FieldCloses
  <2>2. (((a * c) % P) + ((b * c) % P)) % P = (((a * c) + ((b * c) % P)) % P)
    BY <1>1, ReduceSummand
  <2>3. ((a * c) + ((b * c) % P)) = (((b * c) % P) + (a * c))
    BY <1>1
  <2>4. (((b * c) % P) + (a * c)) % P = (((b * c) + (a * c)) % P)
    BY <1>1, ReduceSummand
  <2>5. (b * c) + (a * c) = (a * c) + (b * c)
    BY <1>1
  <2> QED
    BY <2>1, <2>2, <2>3, <2>4, <2>5
<1>4. (a + b) * c = (a * c) + (b * c)
  BY <1>1, Distributes
<1>5. (a \oplus b) \odot c = (a \odot c) \oplus (b \odot c)
  BY <1>2, <1>3, <1>4
<1>6. c \odot (a \oplus b) = (a \oplus b) \odot c
  BY FieldCloses, ProductsCommute
<1>7. c \odot a = a \odot c /\ c \odot b = b \odot c
  BY ProductsCommute
<1> QED
  BY <1>5, <1>6, <1>7

LEMMA Units ==
  \A a \in Field : /\ 0 \oplus a = a /\ a \oplus 0 = a
                   /\ 1 \odot a = a /\ a \odot 1 = a
                   /\ 0 \odot a = 0 /\ a \odot 0 = 0
<1> TAKE a \in Field
<1>1. /\ a \in Int /\ (a % P) = a /\ (0 % P) = 0
      /\ 0 + a = a /\ a + 0 = a /\ 1 * a = a /\ a * 1 = a /\ 0 * a = 0 /\ a * 0 = 0
  BY ResidueOfResidue, FieldCloses
<1> QED
  BY <1>1, TablesAre, FieldCloses

LEMMA PlusCommutes == Commutative(Plus, 0)
BY FieldCloses, SumsCommute, SumsAssociate, Units DEF Commutative, \oplus

LEMMA TimesCommutes == Commutative(Times, 1)
BY FieldCloses, ProductsCommute, ProductsAssociate, Units DEF Commutative, \odot

(* Differences. *)
LEMMA Differences ==
  ASSUME NEW a \in Field, NEW b \in Field
  PROVE  /\ ((a - b) % P) \in Field
         /\ ((a - b) % P) \oplus b = a
         /\ a # b => ((a - b) % P) # 0
<1>1. a \in Int /\ b \in Int /\ a - b \in Int /\ (a % P) = a
  BY ResidueOfResidue
<1>2. ((a - b) % P) \in Field
  BY <1>1, Residue
<1>3. ((a - b) % P) \oplus b = ((((a - b) % P) + b) % P)
  BY <1>2, TablesAre
<1>4. (((a - b) % P) + b) % P = (((a - b) + b) % P)
  BY <1>1, ReduceSummand
<1>5. (a - b) + b = a
  BY <1>1
<1>6. ((a - b) % P) \oplus b = a
  BY <1>1, <1>3, <1>4, <1>5
<1>7. ((a - b) % P) = 0 => a = b
  BY <1>6, Units
<1> QED
  BY <1>2, <1>6, <1>7

LEMMA CancelSummand ==
  ASSUME NEW a \in Field, NEW b \in Field, NEW c \in Field, a \oplus c = b \oplus c
  PROVE  a = b
<1> DEFINE n == (0 - c) % P
<1>1. n \in Field /\ n \oplus c = 0
  BY FieldCloses, Differences
<1> HIDE DEF n
<1>2. c \oplus n = 0
  BY <1>1, SumsCommute
<1>3. (a \oplus c) \oplus n = a
  BY <1>1, <1>2, SumsAssociate, Units
<1>4. (b \oplus c) \oplus n = b
  BY <1>1, <1>2, SumsAssociate, Units
<1> QED
  BY <1>3, <1>4

-----------------------------------------------------------------------------
(* Inverses: Euclid's lemma, then Fermat's little theorem. *)

(* The primality that SharingConstants states is trial division.  The least  *)
(* d with d * b = 0 modulo P divides P, and is below P: it would be 1.       *)
LEMMA NoZeroDivisors ==
  ASSUME NEW a \in Field, a # 0, NEW b \in Field, b # 0
  PROVE  a \odot b # 0
<1> DEFINE D == {d \in 1..(P - 1) : ((d * b) % P) = 0}
<1>1. SUFFICES ASSUME a \odot b = 0 PROVE FALSE
  OBVIOUS
<1>2. a \in D
  BY <1>1, TablesAre, PrimeAtLeastTwo DEF Field
<1>3. PICK d \in D : \A e \in D : d <= e
  <2>1. D \in SUBSET Nat /\ D # {}
    BY <1>2
  <2> HIDE DEF D
  <2> QED
    BY <2>1, LeastNatural
<1>4. d \in 1..(P - 1) /\ ((d * b) % P) = 0 /\ b \in Int /\ P \in Int
  BY <1>3, PrimeAtLeastTwo DEF Field
<1> DEFINE r == P % d
           q == P \div d
<1>5. P = d * q + r /\ r \in 0..(d - 1) /\ q \in Int /\ d \in Int /\ r \in Int
  BY <1>4, PrimeAtLeastTwo
<1> HIDE DEF r, q
<1>6. ((r * b) % P) = 0
  <2>1. r * b = (P * b) - (d * q) * b
    <3>1. r = P - d * q /\ d * q \in Int
      BY <1>5
    <3> QED
      BY <1>4, <3>1
  <2>2. (d * q) * b = (d * b) * q
    BY <1>4, <1>5
  <2>3. PICK n \in Int : d * b = P * n + 0
    <3>1. d * b \in Int
      BY <1>4
    <3> QED
      BY <1>4, <3>1, Residue
  <2>4. (d * b) * q = P * (n * q)
    BY <1>4, <1>5, <2>3
  <2>5. r * b = P * (b - n * q) + 0
    <3>1. n * q \in Int
      BY <1>5
    <3>2. r * b = P * b - P * (n * q)
      BY <2>1, <2>2, <2>4
    <3> QED
      BY <1>4, <3>1, <3>2
  <2>6. b - n * q \in Int
    BY <1>4, <1>5
  <2> QED
    BY <2>5, <2>6, ResidueOf, FieldCloses
<1>7. r = 0
  <2>1. r \in 1..(d - 1) => r \in D
    BY <1>4, <1>6, PrimeAtLeastTwo
  <2> QED
    BY <1>3, <1>5, <2>1
<1>8. d = 1
  <2>1. (P % d) = 0
    BY <1>7 DEF r
  <2>2. d # 1 => d \in 2..(P - 1)
    BY <1>4
  <2> QED
    BY <2>1, <2>2, SharingConstants
<1>9. b = 0
  BY <1>4, <1>8, ResidueOfResidue
<1> QED
  BY <1>9

LEMMA CancelFactor ==
  ASSUME NEW a \in Field, NEW b \in Field, NEW c \in Field, c # 0, a \odot c = b \odot c
  PROVE  a = b
<1> DEFINE d == (a - b) % P
<1>1. d \in Field /\ d \oplus b = a /\ (a # b => d # 0)
  BY Differences
<1> HIDE DEF d
<1>2. (d \odot c) \oplus (b \odot c) = a \odot c
  BY <1>1, ProductsDistribute
<1>3. d \odot c \in Field /\ b \odot c \in Field
  BY <1>1, FieldCloses
<1>4. (d \odot c) \oplus (b \odot c) = 0 \oplus (b \odot c)
  BY <1>2, <1>3, Units
<1>5. d \odot c = 0
  BY <1>3, <1>4, FieldCloses, CancelSummand
<1> QED
  BY <1>1, <1>5, NoZeroDivisors

LEMMA ProductNotZero ==
  ASSUME NEW S, IsFiniteSet(S), NEW f, \A i \in S : f[i] \in Field \ {0}
  PROVE  Product(f, S) \in Field \ {0}
<1>1. 1 \in Field \ {0}
  BY FieldCloses
<1>2. \A a, b \in Field \ {0} : Times[<<a, b>>] \in Field \ {0}
  BY FieldCloses, NoZeroDivisors DEF \odot
<1> QED
  BY <1>1, <1>2, FoldStays DEF Product

LEMMA SumType ==
  ASSUME NEW S, IsFiniteSet(S), NEW f, \A i \in S : f[i] \in Field
  PROVE  Sum(f, S) \in Field
BY PlusCommutes, FoldType DEF Sum

LEMMA ProductType ==
  ASSUME NEW S, IsFiniteSet(S), NEW f, \A i \in S : f[i] \in Field
  PROVE  Product(f, S) \in Field
BY TimesCommutes, FoldType DEF Product

LEMMA SumTakes ==
  ASSUME NEW S, IsFiniteSet(S), NEW f, \A i \in S : f[i] \in Field, NEW x \in S
  PROVE  Sum(f, S) = Sum(f, S \ {x}) \oplus f[x]
BY PlusCommutes, FoldTakes DEF Sum, \oplus

LEMMA ProductTakes ==
  ASSUME NEW S, IsFiniteSet(S), NEW f, \A i \in S : f[i] \in Field, NEW x \in S
  PROVE  Product(f, S) = Product(f, S \ {x}) \odot f[x]
BY TimesCommutes, FoldTakes DEF Product, \odot

LEMMA SumSame ==
  ASSUME NEW S, IsFiniteSet(S), NEW f, NEW g, \A i \in S : f[i] = g[i]
  PROVE  Sum(f, S) = Sum(g, S)
BY FoldSame DEF Sum

LEMMA ProductSame ==
  ASSUME NEW S, IsFiniteSet(S), NEW f, NEW g, \A i \in S : f[i] = g[i]
  PROVE  Product(f, S) = Product(g, S)
BY FoldSame DEF Product

LEMMA EmptyFolds ==
  ASSUME NEW f
  PROVE  Sum(f, {}) = 0 /\ Product(f, {}) = 1
BY FoldEmpty DEF Sum, Product

LEMMA PowerType ==
  ASSUME NEW a \in Field, NEW k \in Nat
  PROVE  Power(a, k) \in Field /\ (a # 0 => Power(a, k) # 0)
<1> DEFINE f == [i \in 1..k |-> a]
<1>1. IsFiniteSet(1..k) /\ (\A i \in 1..k : f[i] \in Field)
      /\ (a # 0 => \A i \in 1..k : f[i] \in Field \ {0})
  BY FS_Interval
<1>2. Power(a, k) = Product(f, 1..k)
  BY DEF Power
<1> HIDE DEF f
<1> QED
  BY <1>1, <1>2, ProductType, ProductNotZero

LEMMA PowerStep ==
  ASSUME NEW a \in Field, NEW k \in Nat
  PROVE  Power(a, 0) = 1 /\ Power(a, k + 1) = Power(a, k) \odot a
<1> DEFINE f == [i \in 1..(k + 1) |-> a]
           g == [i \in 1..k |-> a]
<1>1. Power(a, 0) = 1
  <2>1. 1..0 = {}
    OBVIOUS
  <2> QED
    BY <2>1, EmptyFolds DEF Power
<1> DEFINE U == 1..(k + 1)
           V == 1..k
           p == k + 1
<1>2. IsFiniteSet(U) /\ IsFiniteSet(V)
  BY FS_Interval
<1>3. p \in U /\ U \ {p} = V /\ V \in SUBSET U
  OBVIOUS
<1>4. /\ \A i \in U : f[i] \in Field
      /\ f[p] = a
      /\ \A i \in V : f[i] = g[i]
  OBVIOUS
<1>5. Power(a, k + 1) = Product(f, U) /\ Power(a, k) = Product(g, V)
  BY DEF Power
<1> HIDE DEF f, g, U, V, p
<1>6. Product(f, U) = Product(f, V) \odot a
  <2>1. Product(f, U) = Product(f, U \ {p}) \odot f[p]
    BY <1>2, <1>3, <1>4, ProductTakes
  <2> QED
    BY <1>3, <1>4, <2>1
<1>7. Product(f, V) = Product(g, V)
  BY <1>2, <1>4, ProductSame
<1> QED
  BY <1>1, <1>5, <1>6, <1>7

(* Multiplying 1..P-1 by a only reorders it.                                 *)
LEMMA Fermat ==
  ASSUME NEW a \in Field, a # 0
  PROVE  Power(a, P - 1) = 1
<1> DEFINE U == 1..(P - 1)
           id == [i \in U |-> i]
           k == [i \in U |-> a]
           m == [i \in U |-> a \odot i]
           img == {m[i] : i \in U}
<1>1. IsFiniteSet(U) /\ U = Field \ {0}
  <2>1. U = Field \ {0}
    BY PrimeAtLeastTwo DEF Field
  <2>2. 1 \in Int /\ P - 1 \in Int
    BY PrimeAtLeastTwo
  <2>3. IsFiniteSet(U)
    BY <2>2, FS_Interval
  <2> QED
    BY <2>1, <2>3
<1>2. /\ \A i \in U : id[i] = i /\ k[i] = a /\ m[i] = k[i] \odot id[i]
      /\ Power(a, P - 1) = Product(k, U)
  BY DEF Power
<1> HIDE DEF U, id, k, m
<1>3. \A i \in U : m[i] \in U
  <2> TAKE i \in U
  <2>1. i \in Field /\ i # 0
    BY <1>1
  <2>2. m[i] = a \odot i
    BY <1>2
  <2>3. a \odot i \in Field /\ a \odot i # 0
    BY <2>1, FieldCloses, NoZeroDivisors
  <2> QED
    BY <1>1, <2>2, <2>3
<1>4. \A i, j \in U : m[i] = m[j] => i = j
  BY <1>1, <1>2, ProductsCommute, CancelFactor
<1>5. img = U
  <2>1. IsFiniteSet(U) /\ Cardinality(img) = Cardinality(U)
    BY <1>1, <1>4, Images
  <2>2. img \in SUBSET U
    BY <1>3
  <2> HIDE DEF img
  <2> QED
    BY <2>1, <2>2, FS_Subset
<1>6. Product(id, U) = Product(m, U)
  <2>1. \A i \in U : id[m[i]] \in Field
    BY <1>1, <1>2, <1>3
  <2>2. Fold(Times, 1, id, {m[i] : i \in U}) = Fold(Times, 1, [i \in U |-> id[m[i]]], U)
    BY ONLY <1>1, <1>4, <2>1, TimesCommutes, FoldRenamed
  <2>3. Product([i \in U |-> id[m[i]]], U) = Product(m, U)
    <3>1. \A i \in U : [j \in U |-> id[m[j]]][i] = m[i]
      BY <1>2, <1>3
    <3> QED
      BY <1>1, <3>1, ProductSame
  <2> QED
    BY <1>5, <2>2, <2>3 DEF Product
<1>7. Product(m, U) = Product(k, U) \odot Product(id, U)
  <2>1. /\ \A i \in U : k[i] \in Field
        /\ \A i \in U : id[i] \in Field
        /\ \A i \in U : m[i] = Times[<<k[i], id[i]>>]
    BY <1>1, <1>2 DEF \odot
  <2>2. Fold(Times, 1, m, U) = Times[<<Fold(Times, 1, k, U), Fold(Times, 1, id, U)>>]
    BY ONLY <1>1, <2>1, TimesCommutes, FoldPairwise
  <2> QED
    BY <2>2 DEF Product, \odot
<1>8. /\ Product(id, U) \in Field \ {0}
      /\ Product(k, U) \in Field
  <2>1. \A i \in U : id[i] \in Field \ {0} /\ k[i] \in Field
    BY <1>1, <1>2
  <2> QED
    BY <1>1, <2>1, ProductNotZero, ProductType
<1>9. 1 \odot Product(id, U) = Product(k, U) \odot Product(id, U)
  BY <1>6, <1>7, <1>8, Units
<1> QED
  BY <1>2, <1>8, <1>9, FieldCloses, CancelFactor

LEMMA Inverses ==
  ASSUME NEW a \in Field
  PROVE  /\ mod_inverse[a] \in Field
         /\ a # 0 => /\ mod_inverse[a] # 0
                     /\ a \odot mod_inverse[a] = 1 /\ mod_inverse[a] \odot a = 1
<1>1. P - 2 \in Nat /\ (P - 2) + 1 = P - 1
  BY PrimeAtLeastTwo
<1>2. mod_inverse[a] = Power(a, P - 2)
  BY DEF mod_inverse
<1>3. mod_inverse[a] \in Field /\ (a # 0 => mod_inverse[a] # 0)
  BY <1>1, <1>2, PowerType
<1>4. Power(a, P - 1) = mod_inverse[a] \odot a
  BY <1>1, <1>2, PowerStep
<1>5. a # 0 => Power(a, P - 1) = 1
  BY Fermat
<1> QED
  BY <1>3, <1>4, <1>5, ProductsCommute

-----------------------------------------------------------------------------
(* Sums, term by term. *)

LEMMA SumScales ==
  ASSUME NEW S, IsFiniteSet(S), NEW f, \A i \in S : f[i] \in Field,
         NEW c \in Field, NEW g, \A i \in S : g[i] = c \odot f[i]
  PROVE  Sum(g, S) = c \odot Sum(f, S)
<1> DEFINE C == {s \in SUBSET S : Sum(g, s) # c \odot Sum(f, s)}
<1>1. SUFFICES ASSUME C # {} PROVE FALSE
  OBVIOUS
<1>2. PICK s \in C : IsFiniteSet(s) /\ \A t \in SUBSET s : t # s => t \notin C
  <2>1. C \in SUBSET SUBSET S
    OBVIOUS
  <2> HIDE DEF C
  <2> QED
    BY <1>1, <2>1, LeastSubset
<1>3. PICK p \in s : TRUE
  BY EmptyFolds, Units
<1> DEFINE u == s \ {p}
<1>4. u \in SUBSET s /\ u # s /\ u \in SUBSET S
  OBVIOUS
<1>5. Sum(g, u) = c \odot Sum(f, u)
  BY <1>2, <1>4
<1>6. IsFiniteSet(s) /\ IsFiniteSet(u) /\ s \in SUBSET S
  BY <1>2, FS_Subset
<1>7. /\ \A i \in s : f[i] \in Field /\ g[i] \in Field
      /\ \A i \in u : f[i] \in Field
      /\ g[p] = c \odot f[p]
  BY <1>6, FieldCloses
<1> HIDE DEF C
<1>8. Sum(f, s) = Sum(f, u) \oplus f[p] /\ Sum(g, s) = Sum(g, u) \oplus g[p]
  BY <1>6, <1>7, SumTakes
<1>9. Sum(f, u) \in Field /\ f[p] \in Field
  BY <1>6, <1>7, SumType
<1>10. Sum(g, s) = c \odot Sum(f, s)
  <2>1. c \odot (Sum(f, u) \oplus f[p]) = (c \odot Sum(f, u)) \oplus (c \odot f[p])
    BY <1>9, ProductsDistribute
  <2> QED
    BY <1>5, <1>7, <1>8, <2>1
<1> QED
  BY <1>10 DEF C

LEMMA SumPairwise ==
  ASSUME NEW S, IsFiniteSet(S), NEW f, \A i \in S : f[i] \in Field,
         NEW g, \A i \in S : g[i] \in Field,
         NEW h, \A i \in S : h[i] = f[i] \oplus g[i]
  PROVE  Sum(h, S) = Sum(f, S) \oplus Sum(g, S)
BY PlusCommutes, FoldPairwise DEF Sum, \oplus

-----------------------------------------------------------------------------
(* Interpolation at 0, over a finite set Q of distinct positions. *)

Points(Q) == IsFiniteSet(Q) /\ Q \in SUBSET (Field \ {0})

LEMMA Factors ==
  ASSUME NEW x \in Field, NEW z \in Field \ {0}, x # z
  PROVE  /\ Factor(x, z) \in Field \ {0}
         /\ ((x - z) % P) \odot Factor(x, z) = ((0 - z) % P)
<1> DEFINE d == (x - z) % P
           n == (0 - z) % P
<1>1. d \in Field /\ d # 0 /\ n \in Field /\ n # 0
  BY FieldCloses, Differences
<1>2. Factor(x, z) = n \odot mod_inverse[d]
  BY DEF Factor, \odot
<1> HIDE DEF d, n
<1> DEFINE i == mod_inverse[d]
<1>3. i \in Field /\ i # 0 /\ d \odot i = 1
  BY <1>1, Inverses
<1> HIDE DEF i
<1>4. n \odot i \in Field /\ n \odot i # 0
  BY <1>1, <1>3, FieldCloses, NoZeroDivisors
<1>5. d \odot (n \odot i) = n
  <2>1. n \odot i = i \odot n
    BY <1>1, <1>3, ProductsCommute
  <2>2. d \odot (i \odot n) = (d \odot i) \odot n
    BY <1>1, <1>3, ProductsAssociate
  <2> QED
    BY <1>1, <1>3, <2>1, <2>2, Units
<1> QED
  BY <1>2, <1>4, <1>5 DEF d, n, i

LEMMA BasisType ==
  ASSUME NEW Q, Points(Q), NEW x \in Q
  PROVE  Basis(x, Q) \in Field \ {0}
<1> DEFINE f == [z \in Q \ {x} |-> Factor(x, z)]
           R == Q \ {x}
<1>1. IsFiniteSet(R) /\ \A z \in R : f[z] \in Field \ {0}
  BY Factors, FS_Subset DEF Points
<1>2. Basis(x, Q) = Product(f, R)
  BY DEF Basis
<1> HIDE DEF f, R
<1> QED
  BY <1>1, <1>2, ProductNotZero

LEMMA BasisStep ==
  ASSUME NEW Q, Points(Q), NEW q \in Q, NEW x \in Q, x # q
  PROVE  Basis(x, Q) = Basis(x, Q \ {q}) \odot Factor(x, q)
<1> DEFINE R == Q \ {x}
           f == [z \in R |-> Factor(x, z)]
           U == (Q \ {q}) \ {x}
           g == [z \in U |-> Factor(x, z)]
<1>1. IsFiniteSet(R) /\ IsFiniteSet(U) /\ q \in R /\ R \ {q} = U
  BY FS_Subset DEF Points
<1>2. /\ \A z \in R : f[z] \in Field
      /\ \A z \in U : f[z] = g[z]
      /\ f[q] = Factor(x, q)
  BY Factors DEF Points
<1>3. Basis(x, Q) = Product(f, R) /\ Basis(x, Q \ {q}) = Product(g, U)
  BY DEF Basis
<1> HIDE DEF f, R, g, U
<1>4. Product(f, R) = Product(f, U) \odot Factor(x, q)
  BY <1>1, <1>2, ProductTakes
<1>5. Product(f, U) = Product(g, U)
  BY <1>1, <1>2, ProductSame
<1> QED
  BY <1>3, <1>4, <1>5

(* The value at 0 of the polynomial through the points of y.                 *)
LEMMA Terms ==
  ASSUME NEW Q, Points(Q), NEW y, \A x \in Q : y[x] \in Field
  PROVE  \E t : /\ \A x \in Q : t[x] = y[x] \odot Basis(x, Q) /\ t[x] \in Field
                /\ lagrange_interpolate(y, Q) = Sum(t, Q)
                /\ lagrange_interpolate(y, Q) \in Field
<1> DEFINE t == [x \in Q |-> y[x] \odot Basis(x, Q)]
<1>1. \A x \in Q : t[x] = y[x] \odot Basis(x, Q) /\ t[x] \in Field
  BY BasisType, FieldCloses
<1>2. lagrange_interpolate(y, Q) = Sum(t, Q)
  BY DEF lagrange_interpolate, \odot
<1> HIDE DEF t
<1>3. Sum(t, Q) \in Field
  BY <1>1, SumType DEF Points
<1> QED
  BY <1>1, <1>2, <1>3

LEMMA InterpolateSame ==
  ASSUME NEW Q, Points(Q), NEW f, NEW g, \A x \in Q : f[x] = g[x]
  PROVE  lagrange_interpolate(f, Q) = lagrange_interpolate(g, Q)
<1> DEFINE t == [x \in Q |-> Times[<<f[x], Basis(x, Q)>>]]
           u == [x \in Q |-> Times[<<g[x], Basis(x, Q)>>]]
<1>1. t = u
  OBVIOUS
<1> QED
  BY <1>1 DEF lagrange_interpolate

LEMMA InterpolateLinear ==
  ASSUME NEW Q, Points(Q), NEW c \in Field,
         NEW f, \A x \in Q : f[x] \in Field,
         NEW g, \A x \in Q : g[x] \in Field,
         NEW h, \A x \in Q : h[x] = (c \odot f[x]) \oplus g[x]
  PROVE  lagrange_interpolate(h, Q) =
           (c \odot lagrange_interpolate(f, Q)) \oplus lagrange_interpolate(g, Q)
<1>1. PICK t : /\ \A x \in Q : t[x] = f[x] \odot Basis(x, Q) /\ t[x] \in Field
               /\ lagrange_interpolate(f, Q) = Sum(t, Q)
  BY Terms
<1>2. PICK u : /\ \A x \in Q : u[x] = g[x] \odot Basis(x, Q) /\ u[x] \in Field
               /\ lagrange_interpolate(g, Q) = Sum(u, Q)
  BY Terms
<1>3. \A x \in Q : h[x] \in Field
  BY FieldCloses
<1>4. PICK v : /\ \A x \in Q : v[x] = h[x] \odot Basis(x, Q) /\ v[x] \in Field
               /\ lagrange_interpolate(h, Q) = Sum(v, Q)
  BY <1>3, Terms
<1> DEFINE ct == [x \in Q |-> c \odot t[x]]
<1>5. \A x \in Q : ct[x] = c \odot t[x] /\ ct[x] \in Field
  BY <1>1, FieldCloses
<1> HIDE DEF ct
<1>6. \A x \in Q : v[x] = ct[x] \oplus u[x]
  <2> TAKE x \in Q
  <2> DEFINE b == Basis(x, Q)
  <2>1. b \in Field /\ f[x] \in Field /\ g[x] \in Field /\ c \odot f[x] \in Field
    BY BasisType, FieldCloses
  <2>2. v[x] = ((c \odot f[x]) \oplus g[x]) \odot b
    BY <1>4
  <2>3. ct[x] = c \odot (f[x] \odot b) /\ u[x] = g[x] \odot b
    BY <1>1, <1>2, <1>5
  <2> HIDE DEF b
  <2>4. ((c \odot f[x]) \oplus g[x]) \odot b = ((c \odot f[x]) \odot b) \oplus (g[x] \odot b)
    BY <2>1, ProductsDistribute
  <2>5. (c \odot f[x]) \odot b = c \odot (f[x] \odot b)
    BY <2>1, ProductsAssociate
  <2> QED
    BY <2>2, <2>3, <2>4, <2>5
<1>7. IsFiniteSet(Q)
  BY DEF Points
<1>8. Sum(ct, Q) = c \odot Sum(t, Q)
  BY <1>1, <1>5, <1>7, SumScales
<1>9. Sum(v, Q) = Sum(ct, Q) \oplus Sum(u, Q)
  BY <1>2, <1>5, <1>6, <1>7, SumPairwise
<1> QED
  BY <1>1, <1>2, <1>4, <1>8, <1>9

(* A factor x - q takes q out of the interpolation and puts -q before it.    *)
LEMMA InterpolateRoot ==
  ASSUME NEW Q, Points(Q), NEW q \in Q,
         NEW g, \A x \in Q : g[x] \in Field,
         NEW h, \A x \in Q : h[x] = ((x - q) % P) \odot g[x]
  PROVE  lagrange_interpolate(h, Q) =
           ((0 - q) % P) \odot lagrange_interpolate(g, Q \ {q})
<1> DEFINE R == Q \ {q}
           n == (0 - q) % P
<1>1. /\ IsFiniteSet(Q) /\ IsFiniteSet(R) /\ R \in SUBSET Q
      /\ q \in Field \ {0} /\ \A x \in Q : x \in Field \ {0}
  BY FS_Subset DEF Points
<1>2. Points(R)
  BY <1>1 DEF Points
<1>3. n \in Field /\ ((q - q) % P) = 0
  <2>1. n \in Field
    BY <1>1, FieldCloses, Differences
  <2>2. q \in Int /\ q - q = 0
    BY <1>1, ResidueOfResidue
  <2> QED
    BY <2>1, <2>2, FieldCloses, ResidueOfResidue
<1>4. \A x \in Q : ((x - q) % P) \in Field
  BY <1>1, Differences
<1> HIDE DEF R, n
<1>5. PICK t : /\ \A x \in R : t[x] = g[x] \odot Basis(x, R) /\ t[x] \in Field
               /\ lagrange_interpolate(g, R) = Sum(t, R)
  BY <1>1, <1>2, Terms
<1>6. \A x \in Q : h[x] \in Field
  BY <1>4, FieldCloses
<1>7. PICK v : /\ \A x \in Q : v[x] = h[x] \odot Basis(x, Q) /\ v[x] \in Field
               /\ lagrange_interpolate(h, Q) = Sum(v, Q)
  BY <1>6, Terms
<1>8. v[q] = 0
  <2>1. h[q] = 0
    BY <1>3, Units
  <2>2. Basis(q, Q) \in Field
    BY BasisType
  <2> QED
    BY <1>7, <2>1, <2>2, Units
<1>9. \A x \in R : v[x] = n \odot t[x]
  <2> TAKE x \in R
  <2> DEFINE b == Basis(x, R)
             d == (x - q) % P
             e == Factor(x, q)
             y == g[x]
  <2>1. x \in Q /\ x # q
    BY DEF R
  <2>2. b \in Field /\ d \in Field /\ e \in Field /\ y \in Field /\ d \odot e = n
    BY <1>1, <1>2, <1>4, <2>1, BasisType, Factors DEF n
  <2>3. v[x] = (d \odot y) \odot (b \odot e)
    BY <1>7, <2>1, BasisStep DEF R
  <2>4. t[x] = y \odot b
    BY <1>5
  <2> HIDE DEF b, d, e, y
  <2>5. /\ y \odot b \in Field /\ b \odot e \in Field /\ d \odot y \in Field
        /\ y \odot (b \odot e) \in Field
    BY <2>2, FieldCloses
  <2>6. (d \odot y) \odot (b \odot e) = d \odot (y \odot (b \odot e))
    BY <2>2, <2>5, ProductsAssociate
  <2>7. y \odot (b \odot e) = (y \odot b) \odot e
    BY <2>2, ProductsAssociate
  <2>8. (y \odot b) \odot e = e \odot (y \odot b)
    BY <2>2, <2>5, ProductsCommute
  <2>9. d \odot (e \odot (y \odot b)) = (d \odot e) \odot (y \odot b)
    BY <2>2, <2>5, ProductsAssociate
  <2> QED
    BY <2>2, <2>3, <2>4, <2>6, <2>7, <2>8, <2>9
<1>10. Sum(v, Q) = Sum(v, R) \oplus v[q]
  BY <1>1, <1>7, SumTakes DEF R
<1>11. Sum(v, R) \in Field
  BY <1>1, <1>7, SumType
<1>12. Sum(v, R) = n \odot Sum(t, R)
  BY <1>1, <1>3, <1>5, <1>9, SumScales
<1>13. Sum(v, Q) = Sum(v, R)
  BY <1>8, <1>10, <1>11, Units
<1> QED
  BY <1>5, <1>7, <1>12, <1>13 DEF R, n

(* The constant 1 is interpolated by 1: Lagrange's basis sums up to 1.       *)
LEMMA InterpolateOne ==
  ASSUME NEW Q, Points(Q), Q # {}, NEW f, \A x \in Q : f[x] = 1
  PROVE  lagrange_interpolate(f, Q) = 1
<1> DEFINE C == {s \in SUBSET Q : s # {} /\ lagrange_interpolate(f, s) # 1}
<1>1. SUFFICES ASSUME C # {} PROVE FALSE
  OBVIOUS
<1>2. PICK s \in C : IsFiniteSet(s) /\ \A t \in SUBSET s : t # s => t \notin C
  <2>1. C \in SUBSET SUBSET Q /\ IsFiniteSet(Q)
    BY DEF Points
  <2> HIDE DEF C
  <2> QED
    BY <1>1, <2>1, LeastSubset
<1>3. PICK q \in s : TRUE
  OBVIOUS
<1>4. Points(s) /\ (\A x \in s : f[x] = 1 /\ f[x] \in Field /\ x \in Field \ {0})
  BY <1>2, FieldCloses DEF Points
<1>5. s # {q}
  <2> SUFFICES ASSUME s = {q} PROVE FALSE
    OBVIOUS
  <2>1. PICK t : /\ \A x \in s : t[x] = f[x] \odot Basis(x, s) /\ t[x] \in Field
                 /\ lagrange_interpolate(f, s) = Sum(t, s)
    BY <1>4, Terms
  <2>2. Basis(q, s) = 1
    <3>1. s \ {q} = {}
      OBVIOUS
    <3> QED
      BY <3>1, EmptyFolds DEF Basis
  <2>3. t[q] = 1
    BY <1>4, <2>1, <2>2, FieldCloses, Units
  <2>4. Sum(t, s) = Sum(t, s \ {q}) \oplus t[q]
    BY <1>2, <2>1, SumTakes
  <2>5. Sum(t, s \ {q}) = 0
    <3>1. s \ {q} = {}
      OBVIOUS
    <3> QED
      BY <3>1, EmptyFolds
  <2>6. Sum(t, s) = 1
    BY <2>3, <2>4, <2>5, FieldCloses, Units
  <2> QED
    BY <2>1, <2>6
<1>6. PICK r \in s : r # q
  BY <1>5
<1> DEFINE toq == [x \in s |-> (x - q) % P]
           tor == [x \in s |-> (x - r) % P]
           d == (r - q) % P
           nq == (0 - q) % P
           nr == (0 - r) % P
           one == lagrange_interpolate(f, s)
<1>7. /\ lagrange_interpolate(f, s \ {q}) = 1
      /\ lagrange_interpolate(f, s \ {r}) = 1
  <2>1. s \ {q} \notin C /\ s \ {r} \notin C
    BY <1>2
  <2> QED
    BY <1>6, <2>1
<1>8. s \in C
  OBVIOUS
<1> HIDE DEF C
<1>9. /\ d \in Field /\ d # 0 /\ nq \in Field /\ nr \in Field /\ one \in Field
      /\ \A x \in s : toq[x] \in Field /\ tor[x] \in Field
      /\ \A x \in s : toq[x] = toq[x] \odot f[x] /\ tor[x] = tor[x] \odot f[x]
  <2>1. d \in Field /\ d # 0 /\ nq \in Field /\ nr \in Field
    BY <1>4, <1>6, FieldCloses, Differences
  <2>2. one \in Field
    BY <1>4, Terms
  <2>3. \A x \in s : toq[x] \in Field /\ tor[x] \in Field
    BY <1>4, Differences
  <2>4. \A x \in s : toq[x] = toq[x] \odot f[x] /\ tor[x] = tor[x] \odot f[x]
    <3> HIDE DEF toq, tor
    <3> QED
      BY <1>4, <2>3, Units
  <2> QED
    BY <2>1, <2>2, <2>3, <2>4
<1>10. lagrange_interpolate(toq, s) = nq
  <2>1. \A x \in s : toq[x] = ((x - q) % P) \odot f[x]
    BY <1>9
  <2>2. lagrange_interpolate(toq, s) = nq \odot lagrange_interpolate(f, s \ {q})
    <3> HIDE DEF toq
    <3> QED
      BY <1>4, <2>1, InterpolateRoot
  <2> QED
    BY <1>7, <1>9, <2>2, Units
<1>11. lagrange_interpolate(tor, s) = nr
  <2>1. \A x \in s : tor[x] = ((x - r) % P) \odot f[x]
    BY <1>9
  <2>2. lagrange_interpolate(tor, s) = nr \odot lagrange_interpolate(f, s \ {r})
    <3> HIDE DEF tor
    <3> QED
      BY <1>4, <2>1, InterpolateRoot
  <2> QED
    BY <1>7, <1>9, <2>2, Units
<1>12. \A x \in s : toq[x] = (d \odot f[x]) \oplus tor[x]
  <2> TAKE x \in s
  <2>1. toq[x] \oplus q = x /\ tor[x] \oplus r = x /\ d \oplus q = r
    BY <1>4, <1>6, Differences
  <2>2. toq[x] \in Field /\ tor[x] \in Field /\ q \in Field /\ r \in Field
    BY <1>4, <1>9
  <2>3. d \odot f[x] = d
    BY <1>4, <1>9, Units
  <2>4. (d \oplus tor[x]) \oplus q = x
    <3> HIDE DEF d, tor
    <3>1. (d \oplus tor[x]) \oplus q = (tor[x] \oplus d) \oplus q
      BY <1>9, <2>2, SumsCommute
    <3>2. (tor[x] \oplus d) \oplus q = tor[x] \oplus (d \oplus q)
      BY <1>9, <2>2, SumsAssociate
    <3> QED
      BY <2>1, <3>1, <3>2
  <2>5. d \oplus tor[x] \in Field
    BY <1>9, <2>2, FieldCloses
  <2> HIDE DEF toq, tor, d
  <2> QED
    BY <2>1, <2>2, <2>3, <2>4, <2>5, CancelSummand
<1>13. nq = (d \odot one) \oplus nr
  <2> HIDE DEF toq, tor
  <2>1. lagrange_interpolate(toq, s) = (d \odot one) \oplus lagrange_interpolate(tor, s)
    <3>1. \A x \in s : f[x] \in Field
      BY <1>4
    <3>2. \A x \in s : tor[x] \in Field
      BY <1>9
    <3>3. d \in Field
      BY <1>9
    <3> HIDE DEF d
    <3> QED
      BY <1>4, <1>12, <3>1, <3>2, <3>3, InterpolateLinear
  <2> QED
    BY <1>10, <1>11, <2>1
<1>14. nq = d \oplus nr
  <2>1. nq \oplus q = 0 /\ nr \oplus r = 0 /\ d \oplus q = r /\ q \in Field /\ r \in Field
    BY <1>4, <1>6, FieldCloses, Differences
  <2> HIDE DEF nq, nr, d
  <2>2. (d \oplus nr) \oplus q = (nr \oplus d) \oplus q
    BY <1>9, <2>1, SumsCommute
  <2>3. (nr \oplus d) \oplus q = nr \oplus (d \oplus q)
    BY <1>9, <2>1, SumsAssociate
  <2>4. (d \oplus nr) \oplus q = nq \oplus q /\ d \oplus nr \in Field
    BY <1>9, <2>1, <2>2, <2>3, FieldCloses
  <2> QED
    BY <1>9, <2>1, <2>4, CancelSummand
<1> HIDE DEF d, nq, nr, one
<1>15. d \odot one = d
  <2>1. d \odot one \in Field /\ d \in Field /\ nr \in Field
    BY <1>9, FieldCloses
  <2>2. (d \odot one) \oplus nr = d \oplus nr
    BY <1>13, <1>14
  <2> QED
    BY ONLY <2>1, <2>2, CancelSummand
<1>16. one = 1
  <2>1. one \odot d = 1 \odot d
    BY <1>9, <1>15, ProductsCommute, FieldCloses, Units
  <2> QED
    BY <1>9, <2>1, FieldCloses, CancelFactor
<1> QED
  BY <1>8, <1>16 DEF C, one

LEMMA InterpolateZero ==
  ASSUME NEW Q, Points(Q), NEW f, \A x \in Q : f[x] = 0
  PROVE  lagrange_interpolate(f, Q) = 0
<1>1. \A x \in Q : f[x] \in Field
  BY FieldCloses
<1>2. PICK t : /\ \A x \in Q : t[x] = f[x] \odot Basis(x, Q) /\ t[x] \in Field
               /\ lagrange_interpolate(f, Q) = Sum(t, Q)
  BY <1>1, Terms
<1>3. IsFiniteSet(Q)
  BY DEF Points
<1>4. \A x \in Q : t[x] = 0 \odot t[x]
  BY <1>2, BasisType, Units
<1>5. Sum(t, Q) = 0 \odot Sum(t, Q)
  BY <1>2, <1>3, <1>4, FieldCloses, SumScales
<1> QED
  BY <1>2, <1>3, <1>5, SumType, Units

Powers(k) == [x \in Field |-> Power(x, k)]

(* Fewer powers than positions: x^k is interpolated by 0^k.                  *)
LEMMA InterpolatePower ==
  ASSUME NEW k \in Nat, NEW Q, Points(Q), k < Cardinality(Q)
  PROVE  lagrange_interpolate(Powers(k), Q) = IF k = 0 THEN 1 ELSE 0
<1> DEFINE Right(n, s) == lagrange_interpolate(Powers(n), s) = IF n = 0 THEN 1 ELSE 0
           bad == {n \in Nat : \E s : Points(s) /\ n < Cardinality(s) /\ ~Right(n, s)}
<1>1. SUFFICES ASSUME bad # {} PROVE FALSE
  OBVIOUS
<1>2. PICK n \in bad : \A m \in bad : n <= m
  <2>1. bad \in SUBSET Nat
    OBVIOUS
  <2> HIDE DEF bad
  <2> QED
    BY <1>1, <2>1, LeastNatural
<1>3. PICK s : Points(s) /\ n < Cardinality(s) /\ ~Right(n, s)
  OBVIOUS
<1>4. IsFiniteSet(s) /\ \A x \in s : x \in Field \ {0}
  BY <1>3 DEF Points
<1>5. s # {} /\ n \in Nat
  BY <1>3, FS_EmptySet
<1>6. n # 0
  <2> SUFFICES ASSUME n = 0 PROVE FALSE
    OBVIOUS
  <2>1. \A x \in s : Powers(0)[x] = 1
    BY <1>4, PowerStep DEF Powers
  <2> QED
    BY <1>3, <1>5, <2>1, InterpolateOne
<1> DEFINE m == n - 1
           e == IF m = 0 THEN 1 ELSE 0
<1>7. m \in Nat /\ m + 1 = n /\ m \notin bad
  <2>1. m \in Nat /\ m + 1 = n /\ m < n
    BY <1>5, <1>6
  <2> HIDE DEF bad, m
  <2> QED
    BY <1>2, <1>5, <2>1
<1>8. PICK q \in s : TRUE
  BY <1>5
<1>9. Points(s \ {q}) /\ m < Cardinality(s) /\ m < Cardinality(s \ {q})
  <2>1. Points(s \ {q})
    BY <1>3, FS_Subset DEF Points
  <2>2. Cardinality(s \ {q}) = Cardinality(s) - 1 /\ Cardinality(s) \in Nat
    BY <1>4, RemoveOne
  <2> QED
    BY <1>3, <1>7, <2>1, <2>2
<1>10. /\ lagrange_interpolate(Powers(m), s) = e
       /\ lagrange_interpolate(Powers(m), s \ {q}) = e
  BY <1>3, <1>7, <1>9
<1> HIDE DEF bad, m
<1> DEFINE nq == (0 - q) % P
           h == [x \in s |-> ((x - q) % P) \odot Powers(m)[x]]
<1>11. q \in Field /\ nq \in Field /\ nq \oplus q = 0 /\ e \in Field
  BY <1>4, <1>8, FieldCloses, Differences
<1>12. \A x \in s : /\ Powers(m)[x] \in Field
                    /\ h[x] = ((x - q) % P) \odot Powers(m)[x]
                    /\ h[x] \in Field
  BY <1>4, <1>7, <1>8, PowerType, Differences, FieldCloses DEF Powers
<1> HIDE DEF h
<1>13. \A x \in s : Powers(n)[x] = (q \odot Powers(m)[x]) \oplus h[x]
  <2> TAKE x \in s
  <2> DEFINE d == (x - q) % P
             y == Powers(m)[x]
  <2>1. d \in Field /\ d \oplus q = x /\ y \in Field /\ x \in Field
    BY <1>4, <1>11, <1>12, Differences
  <2>2. Powers(n)[x] = y \odot x
    BY <1>7, <2>1, PowerStep DEF Powers
  <2>3. h[x] = d \odot y
    BY <1>12
  <2> HIDE DEF d, y
  <2>4. d \odot y \in Field /\ q \odot y \in Field
    BY <1>11, <2>1, FieldCloses
  <2>5. y \odot x = x \odot y
    BY <2>1, ProductsCommute
  <2>6. (d \oplus q) \odot y = (d \odot y) \oplus (q \odot y)
    BY <1>11, <2>1, ProductsDistribute
  <2>7. (d \odot y) \oplus (q \odot y) = (q \odot y) \oplus (d \odot y)
    BY <2>4, SumsCommute
  <2>8. Powers(n)[x] = (q \odot y) \oplus (d \odot y)
    BY <2>1, <2>2, <2>5, <2>6, <2>7
  <2> QED
    BY <2>3, <2>8 DEF y
<1>14. lagrange_interpolate(h, s) = nq \odot e
  BY <1>3, <1>8, <1>10, <1>12, InterpolateRoot
<1>15. lagrange_interpolate(Powers(n), s) = (q \odot e) \oplus (nq \odot e)
  BY <1>3, <1>10, <1>11, <1>12, <1>13, <1>14, InterpolateLinear
<1> HIDE DEF nq, e
<1>16. (q \odot e) \oplus (nq \odot e) = 0
  <2>1. (nq \oplus q) \odot e = (nq \odot e) \oplus (q \odot e)
    BY <1>11, ProductsDistribute
  <2>2. nq \odot e \in Field /\ q \odot e \in Field
    BY <1>11, FieldCloses
  <2>3. (q \odot e) \oplus (nq \odot e) = (nq \odot e) \oplus (q \odot e)
    BY <2>2, SumsCommute
  <2> QED
    BY <1>11, <2>1, <2>3, Units
<1> QED
  BY <1>3, <1>6, <1>15, <1>16

(* So the shares of as many positions as there are coefficients give c[0].   *)
LEMMA Reconstruction ==
  ASSUME NEW Q, Points(Q), NEW c \in [0..(Cardinality(Q) - 1) -> Field], Q # {},
         NEW y, \A x \in Q : y[x] = ShareAt(c, x)
  PROVE  lagrange_interpolate(y, Q) = c[0]
<1> DEFINE D == 0..(Cardinality(Q) - 1)
           t(x) == [k \in D |-> c[k] \odot Power(x, k)]
           poly(K) == [x \in Field |-> Sum(t(x), K)]
           C == {K \in SUBSET D :
                   lagrange_interpolate(poly(K), Q) # IF 0 \in K THEN c[0] ELSE 0}
<1>1. /\ IsFiniteSet(Q) /\ \A x \in Q : x \in Field \ {0}
      /\ Cardinality(Q) \in Nat /\ Cardinality(Q) # 0
  BY FS_EmptySet, FS_CardinalityType DEF Points
<1>2. /\ IsFiniteSet(D) /\ 0 \in D
      /\ \A k \in D : k \in Nat /\ k < Cardinality(Q) /\ c[k] \in Field
  <2>1. Cardinality(Q) - 1 \in Int
    BY <1>1
  <2>2. IsFiniteSet(D)
    BY <2>1, FS_Interval
  <2> QED
    BY <1>1, <2>2
<1>3. DOMAIN c = D
  OBVIOUS
<1> HIDE DEF D
<1>4. \A x \in Field : \A k \in D : t(x)[k] \in Field /\ t(x)[k] = c[k] \odot Power(x, k)
  BY <1>2, PowerType, FieldCloses
<1>5. \A x \in Q : y[x] = poly(D)[x]
  BY <1>1, <1>3 DEF ShareAt, \odot
<1>6. C = {}
  <2> SUFFICES ASSUME C # {} PROVE FALSE
    OBVIOUS
  <2>1. PICK K \in C : IsFiniteSet(K) /\ \A L \in SUBSET K : L # K => L \notin C
    <3>1. C \in SUBSET SUBSET D
      OBVIOUS
    <3> HIDE DEF C
    <3> QED
      BY <1>2, <3>1, LeastSubset
  <2>2. K \in SUBSET D
    OBVIOUS
  <2>3. K # {}
    <3> SUFFICES ASSUME K = {} PROVE FALSE
      OBVIOUS
    <3>1. \A x \in Q : poly({})[x] = 0
      BY <1>1, EmptyFolds
    <3> HIDE DEF poly
    <3>2. lagrange_interpolate(poly({}), Q) = 0
      BY <3>1, InterpolateZero
    <3> QED
      BY <3>2
  <2>4. PICK k \in K : TRUE
    BY <2>3
  <2> DEFINE L == K \ {k}
             e == IF k = 0 THEN 1 ELSE 0
             l == IF 0 \in L THEN c[0] ELSE 0
  <2>5. L \in SUBSET D /\ IsFiniteSet(L) /\ k \in D
    BY <1>2, <2>2, FS_Subset
  <2>6. lagrange_interpolate(poly(L), Q) = l
    <3>1. L \notin C
      BY <2>1
    <3> QED
      BY <2>5, <3>1
  <2>7. lagrange_interpolate(Powers(k), Q) = e
    BY <1>2, <2>5, InterpolatePower
  <2>8. \A x \in Q : /\ Powers(k)[x] \in Field /\ poly(L)[x] \in Field
                     /\ poly(K)[x] = (c[k] \odot Powers(k)[x]) \oplus poly(L)[x]
    <3> TAKE x \in Q
    <3>1. Powers(k)[x] = Power(x, k) /\ Powers(k)[x] \in Field /\ x \in Field
      BY <1>1, <1>2, <2>5, PowerType DEF Powers
    <3>2. /\ \A i \in K : t(x)[i] \in Field
          /\ \A i \in L : t(x)[i] \in Field
          /\ t(x)[k] = c[k] \odot Power(x, k) /\ t(x)[k] \in Field
      BY <1>4, <2>2, <2>5, <3>1
    <3> HIDE DEF t, C
    <3>3. Sum(t(x), K) = Sum(t(x), L) \oplus t(x)[k]
      BY <2>1, <3>2, SumTakes
    <3>4. Sum(t(x), L) \in Field
      BY <2>5, <3>2, SumType
    <3>5. Sum(t(x), L) \oplus t(x)[k] = t(x)[k] \oplus Sum(t(x), L)
      BY <3>2, <3>4, SumsCommute
    <3>6. poly(K)[x] = Sum(t(x), K) /\ poly(L)[x] = Sum(t(x), L)
      BY <3>1
    <3> QED
      BY <3>1, <3>2, <3>3, <3>4, <3>5, <3>6
  <2>9. lagrange_interpolate(poly(K), Q) = (c[k] \odot e) \oplus l
    <3> DEFINE a == c[k]
               w == Powers(k)
               g == poly(L)
               h == poly(K)
    <3>1. a \in Field
      BY <1>2, <2>5
    <3>2. /\ \A x \in Q : w[x] \in Field
          /\ \A x \in Q : g[x] \in Field
          /\ \A x \in Q : h[x] = (a \odot w[x]) \oplus g[x]
      BY <2>8
    <3>3. lagrange_interpolate(w, Q) = e /\ lagrange_interpolate(g, Q) = l
      BY <2>6, <2>7
    <3> HIDE DEF a, w, g, h
    <3>4. lagrange_interpolate(h, Q) =
            (a \odot lagrange_interpolate(w, Q)) \oplus lagrange_interpolate(g, Q)
      BY ONLY Points(Q), <3>1, <3>2, InterpolateLinear
    <3> QED
      BY <3>3, <3>4 DEF a, h
  <2>10. (c[k] \odot e) \oplus l = IF 0 \in K THEN c[0] ELSE 0
    <3>1. c[k] \in Field /\ c[0] \in Field
      BY <1>2, <2>5
    <3>2. CASE k = 0
      BY <2>4, <3>1, <3>2, Units
    <3>3. CASE k # 0
      BY <2>4, <3>1, <3>3, FieldCloses, Units
    <3> QED
      BY <3>2, <3>3
  <2> QED
    BY <2>9, <2>10
<1>7. lagrange_interpolate(poly(D), Q) = c[0]
  <2>1. D \in SUBSET D /\ D \notin C
    BY <1>6
  <2> HIDE DEF poly
  <2> QED
    BY <1>2, <2>1
<1>8. lagrange_interpolate(y, Q) = lagrange_interpolate(poly(D), Q)
  <2> HIDE DEF poly
  <2> QED
    BY <1>5, InterpolateSame
<1> QED
  BY <1>7, <1>8

(* One value changed changes the result.                                     *)
LEMMA OneValueMatters ==
  ASSUME NEW Q, Points(Q), NEW w \in Q,
         NEW f, \A x \in Q : f[x] \in Field,
         NEW g, \A x \in Q : g[x] \in Field,
         \A x \in Q \ {w} : f[x] = g[x],
         lagrange_interpolate(f, Q) = lagrange_interpolate(g, Q)
  PROVE  f[w] = g[w]
<1>1. PICK t : /\ \A x \in Q : t[x] = f[x] \odot Basis(x, Q) /\ t[x] \in Field
               /\ lagrange_interpolate(f, Q) = Sum(t, Q)
  BY Terms
<1>2. PICK u : /\ \A x \in Q : u[x] = g[x] \odot Basis(x, Q) /\ u[x] \in Field
               /\ lagrange_interpolate(g, Q) = Sum(u, Q)
  BY Terms
<1> DEFINE R == Q \ {w}
<1>3. IsFiniteSet(Q) /\ IsFiniteSet(R) /\ R \in SUBSET Q
  BY FS_Subset DEF Points
<1>4. /\ Sum(t, Q) = Sum(t, R) \oplus t[w]
      /\ Sum(u, Q) = Sum(u, R) \oplus u[w]
  BY <1>1, <1>2, <1>3, SumTakes
<1>5. \A x \in R : t[x] = u[x]
  BY <1>1, <1>2
<1> HIDE DEF R
<1>6. Sum(t, R) = Sum(u, R)
  BY <1>3, <1>5, SumSame
<1>7. Sum(t, R) \in Field /\ t[w] \in Field /\ u[w] \in Field
  BY <1>1, <1>2, <1>3, SumType
<1>8. t[w] \oplus Sum(t, R) = u[w] \oplus Sum(t, R)
  BY <1>1, <1>2, <1>4, <1>6, <1>7, SumsCommute
<1>9. t[w] = u[w]
  BY <1>7, <1>8, CancelSummand
<1>10. f[w] \odot Basis(w, Q) = g[w] \odot Basis(w, Q)
  BY <1>1, <1>2, <1>9
<1>11. Basis(w, Q) \in Field /\ Basis(w, Q) # 0
  BY BasisType
<1> QED
  BY <1>10, <1>11, CancelFactor

-----------------------------------------------------------------------------
(* The invariant. *)

LEMMA PositionsArePoints ==
  /\ Positions \in SUBSET (Field \ {0})
  /\ \A Q \in Quorums : Points(Q) /\ Q \in SUBSET Positions /\ Q # {}
                        /\ Cardinality(Q) = THRESHOLD
<1>1. Positions \in SUBSET (Field \ {0})
  BY SharingConstants DEF Positions, Field
<1>2. IsFiniteSet(Positions)
  <2>1. N_NODES \in Int
    BY SharingConstants
  <2> QED
    BY <2>1, FS_Interval DEF Positions
<1>3. ASSUME NEW Q \in Quorums
      PROVE  Points(Q) /\ Q \in SUBSET Positions /\ Q # {} /\ Cardinality(Q) = THRESHOLD
  <2>1. Q \in SUBSET Positions /\ Cardinality(Q) = THRESHOLD
    BY DEF Quorums
  <2>2. IsFiniteSet(Q)
    BY <1>2, <2>1, FS_Subset
  <2>3. Q # {}
    <3>1. Cardinality({}) = 0 /\ THRESHOLD # 0
      BY FS_EmptySet, SharingConstants
    <3> QED
      BY <2>1, <3>1
  <2> QED
    BY <1>1, <2>1, <2>2, <2>3 DEF Points
<1> QED
  BY <1>1, <1>3

LEMMA ShareType ==
  ASSUME NEW c \in [0..(THRESHOLD - 1) -> Field], NEW x \in Field
  PROVE  ShareAt(c, x) \in Field
<1> DEFINE D == 0..(THRESHOLD - 1)
           f == [k \in D |-> c[k] \odot Power(x, k)]
<1>1. IsFiniteSet(D)
  BY SharingConstants, FS_Interval
<1>2. \A k \in D : f[k] \in Field
  BY PowerType, FieldCloses
<1>3. ShareAt(c, x) = Sum(f, D)
  BY DEF ShareAt, \odot
<1> HIDE DEF D, f
<1> QED
  BY <1>1, <1>2, <1>3, SumType

(* A node's answer is its share times H.                                     *)
LEMMA AnswersAre ==
  ASSUME NEW y \in Field, NEW h \in Field
  PROVE  PartialValue(y, h) = y \odot h /\ PartialValue(y, h) \in Field
BY TablesAre, FieldCloses DEF PartialValue

(* The shares of a registration are those of the polynomial that was drawn,  *)
(* whatever happens later, and every number is an element of the field.      *)
THEOREM Invariance == Spec => []InductiveInvariant
<1>1. Init => InductiveInvariant
  <2> SUFFICES ASSUME Init PROVE TypeOK /\ SharesOnPolynomial
    BY DEF InductiveInvariant
  <2> QED
    BY FieldCloses DEF Init, TypeOK, SharesOnPolynomial
<1>2. InductiveInvariant /\ [Next]_vars => InductiveInvariant'
  <2> SUFFICES ASSUME TypeOK, SharesOnPolynomial, [Next]_vars
               PROVE  TypeOK' /\ SharesOnPolynomial'
    BY DEF InductiveInvariant
  <2>1. CASE GenerateShares
    <3>1. PICK c \in Coefficients :
            coeffs' = c /\ shares' = [x \in Positions |-> ShareAt(c, x)]
      BY <2>1 DEF GenerateShares
    <3>2. c \in [0..(THRESHOLD - 1) -> Field]
      BY DEF Coefficients
    <3>3. \A x \in Positions : ShareAt(c, x) \in Field
      BY <3>2, PositionsArePoints, ShareType
    <3>4. stage' = "shared" /\ H' = H /\ values' = values
      BY <2>1 DEF GenerateShares
    <3>5. TypeOK'
      BY <3>1, <3>2, <3>3, <3>4 DEF TypeOK
    <3>6. SharesOnPolynomial'
      BY <3>1, <3>4 DEF SharesOnPolynomial
    <3> QED
      BY <3>5, <3>6
  <2>2. CASE ComputePartialProofs
    <3>1. PICK h \in Field, faulty \in SUBSET Positions :
            /\ H' = h
            /\ \E fake \in [faulty -> 1..(P - 1)] :
                 values' = [x \in Positions |->
                   IF x \in faulty THEN fake[x] ELSE PartialValue(shares[x], h)]
      BY <2>2 DEF ComputePartialProofs
    <3>2. PICK fake \in [faulty -> 1..(P - 1)] :
            values' = [x \in Positions |->
                   IF x \in faulty THEN fake[x] ELSE PartialValue(shares[x], h)]
      BY <3>1
    <3>3. \A x \in Positions : PartialValue(shares[x], h) \in Field
      BY AnswersAre DEF TypeOK
    <3>4. \A x \in faulty : fake[x] \in Field
      BY DEF Field
    <3>5. stage = "shared" /\ stage' = "challenged" /\ coeffs' = coeffs /\ shares' = shares
      BY <2>2 DEF ComputePartialProofs
    <3>6. values' \in [Positions -> Field]
      BY <3>2, <3>3, <3>4
    <3>7. TypeOK'
      BY <3>1, <3>5, <3>6 DEF TypeOK
    <3>8. SharesOnPolynomial'
      BY <3>5 DEF SharesOnPolynomial
    <3> QED
      BY <3>7, <3>8
  <2>3. CASE UNCHANGED vars
    BY <2>3 DEF vars, TypeOK, SharesOnPolynomial
  <2> QED
    BY <2>1, <2>2, <2>3 DEF Next
<1> QED
  BY <1>1, <1>2, PTL DEF Spec

(* What the aggregator divides H out of.                                     *)
LEMMA Recovered ==
  ASSUME NEW Q, Points(Q), NEW h \in Field, NEW v, \A x \in Q : v[x] \in Field
  PROVE  \E r : /\ \A x \in Q : r[x] = v[x] \odot mod_inverse[h] /\ r[x] \in Field
                /\ Recover(v, h, Q) = lagrange_interpolate(r, Q)
<1> DEFINE r == [x \in Q |-> v[x] \odot mod_inverse[h]]
<1>1. \A x \in Q : r[x] = v[x] \odot mod_inverse[h] /\ r[x] \in Field
  BY Inverses, FieldCloses
<1>2. Recover(v, h, Q) = lagrange_interpolate(r, Q)
  BY DEF Recover, \odot
<1> HIDE DEF r
<1> QED
  BY <1>1, <1>2

LEMMA DividesOut ==
  ASSUME NEW y \in Field, NEW h \in Field, h # 0
  PROVE  (y \odot h) \odot mod_inverse[h] = y
<1>1. mod_inverse[h] \in Field /\ h \odot mod_inverse[h] = 1
  BY Inverses
<1>2. (y \odot h) \odot mod_inverse[h] = y \odot (h \odot mod_inverse[h])
  BY <1>1, ProductsAssociate
<1> QED
  BY <1>1, <1>2, Units

(* The secret comes back from any THRESHOLD right answers and from no such   *)
(* group with one wrong one in it: what Ballots.tla takes for granted.       *)
THEOREM RightAnswersOnly == Spec => []RebuiltOnlyFromHonest
<1>1. InductiveInvariant => RebuiltOnlyFromHonest
  <2> SUFFICES ASSUME TypeOK, SharesOnPolynomial, stage = "challenged",
                      NEW Q \in Quorums
               PROVE  /\ Q \cap Wrong = {} => (Recover(values, H, Q) = secret <=> H # 0)
                      /\ Cardinality(Q \cap Wrong) = 1 /\ H # 0
                           => Recover(values, H, Q) # secret
    BY DEF InductiveInvariant, RebuiltOnlyFromHonest
  <2>1. /\ Points(Q) /\ Q \in SUBSET Positions /\ Q # {}
        /\ Cardinality(Q) = THRESHOLD
    BY PositionsArePoints
  <2>2. /\ coeffs \in [0..(Cardinality(Q) - 1) -> Field]
        /\ \A x \in Q : shares[x] = ShareAt(coeffs, x)
        /\ secret \in Field /\ secret # 0
    <3>1. coeffs \in Coefficients /\ 0 \in 0..(THRESHOLD - 1)
      BY SharingConstants DEF SharesOnPolynomial
    <3> QED
      BY <2>1, <3>1 DEF Coefficients, SharesOnPolynomial, secret
  <2>3. lagrange_interpolate(shares, Q) = secret
    BY <2>1, <2>2, Reconstruction DEF secret
  <2>4. /\ \A x \in Q : shares[x] \in Field
        /\ \A x \in Q : values[x] \in Field
        /\ H \in Field
    BY <2>1 DEF TypeOK
  <2>5. PICK r : /\ \A x \in Q : r[x] = values[x] \odot mod_inverse[H] /\ r[x] \in Field
                 /\ Recover(values, H, Q) = lagrange_interpolate(r, Q)
    BY <2>1, <2>4, Recovered
  <2>6. \A x \in Q \ Wrong : values[x] = shares[x] \odot H
    BY <2>1, <2>4, AnswersAre DEF Wrong
  <2>7. ASSUME H # 0, NEW x \in Q \ Wrong PROVE r[x] = shares[x]
    BY <2>4, <2>5, <2>6, <2>7, DividesOut
  <2>8. ASSUME Q \cap Wrong = {}, H # 0 PROVE Recover(values, H, Q) = secret
    <3>1. \A x \in Q : r[x] = shares[x]
      BY <2>7, <2>8
    <3> QED
      BY <2>1, <2>3, <2>5, <3>1, InterpolateSame
  <2>9. ASSUME Q \cap Wrong = {}, H = 0 PROVE Recover(values, H, Q) # secret
    <3>1. \A x \in Q : values[x] = 0
      BY <2>4, <2>6, <2>9, Units
    <3>2. \A x \in Q : r[x] = 0
      BY <2>4, <2>5, <3>1, Inverses, Units
    <3> QED
      BY <2>1, <2>2, <2>5, <3>2, InterpolateZero
  <2>10. ASSUME Cardinality(Q \cap Wrong) = 1, H # 0 PROVE Recover(values, H, Q) # secret
    <3>1. PICK w : Q \cap Wrong = {w}
      <4>1. IsFiniteSet(Q \cap Wrong)
        BY <2>1, FS_Subset DEF Points
      <4> QED
        BY <2>10, <4>1, FS_Singleton
    <3>2. w \in Q /\ w \in Wrong /\ \A x \in Q \ {w} : r[x] = shares[x]
      BY <2>7, <2>10, <3>1
    <3>3. r[w] # shares[w]
      <4>1. values[w] # shares[w] \odot H
        BY <2>4, <3>2, AnswersAre DEF Wrong
      <4>2. mod_inverse[H] \in Field /\ mod_inverse[H] # 0
        BY <2>4, <2>10, Inverses
      <4>3. (shares[w] \odot H) \odot mod_inverse[H] = shares[w]
        BY <2>4, <2>10, <3>2, DividesOut
      <4>4. shares[w] \odot H \in Field /\ values[w] \in Field
        BY <2>4, <3>2, FieldCloses
      <4> QED
        BY <2>5, <3>2, <4>1, <4>2, <4>3, <4>4, CancelFactor
    <3> QED
      BY <2>1, <2>3, <2>4, <2>5, <3>2, <3>3, OneValueMatters
  <2> QED
    BY <2>8, <2>9, <2>10
<1> QED
  BY <1>1, Invariance, PTL

-----------------------------------------------------------------------------
(* What fewer shares than THRESHOLD leave open. *)

(* The terms of a polynomial.                                                *)
LEMMA ShareTerms ==
  ASSUME NEW n \in Nat, NEW c \in [0..n -> Field], NEW x \in Field
  PROVE  \E t : /\ \A k \in 0..n : t[k] = c[k] \odot Power(x, k) /\ t[k] \in Field
                /\ ShareAt(c, x) = Sum(t, 0..n) /\ ShareAt(c, x) \in Field
<1> DEFINE t == [k \in 0..n |-> c[k] \odot Power(x, k)]
<1>1. \A k \in 0..n : t[k] = c[k] \odot Power(x, k) /\ t[k] \in Field
  BY PowerType, FieldCloses
<1>2. ShareAt(c, x) = Sum(t, 0..n)
  BY DEF ShareAt, \odot
<1>3. IsFiniteSet(0..n)
  BY FS_Interval
<1> HIDE DEF t
<1>4. Sum(t, 0..n) \in Field
  BY <1>1, <1>3, SumType
<1> QED
  BY <1>1, <1>2, <1>4

(* One more root: the polynomial times x - q.                                *)
LEMMA TimesRoot ==
  ASSUME NEW n \in Nat, NEW c \in [0..n -> Field], NEW q \in Field
  PROVE  \E d \in [0..(n + 1) -> Field] :
           /\ d[0] = ((0 - q) % P) \odot c[0]
           /\ \A x \in Field : ShareAt(d, x) = ((x - q) % P) \odot ShareAt(c, x)
<1> DEFINE nq == (0 - q) % P
           up == [k \in 0..(n + 1) |-> IF k = 0 THEN 0 ELSE c[k - 1]]
           low == [k \in 0..(n + 1) |-> IF k = n + 1 THEN 0 ELSE nq \odot c[k]]
           d == [k \in 0..(n + 1) |-> up[k] \oplus low[k]]
           D == 0..n
           E == 0..(n + 1)
<1>1. nq \in Field /\ nq \oplus q = 0
  BY FieldCloses, Differences
<1> HIDE DEF nq
<1>2. /\ \A k \in E : up[k] \in Field /\ low[k] \in Field /\ d[k] = up[k] \oplus low[k]
      /\ up[0] = 0 /\ low[n + 1] = 0
      /\ \A k \in D : up[k + 1] = c[k] /\ low[k] = nq \odot c[k]
  <2>1. \A k \in E : up[k] \in Field
    BY FieldCloses
  <2>2. \A k \in E : low[k] \in Field
    <3> TAKE k \in E
    <3>1. CASE k = n + 1
      BY <3>1, FieldCloses
    <3>2. CASE k # n + 1
      <4>1. c[k] \in Field
        BY <3>2
      <4>2. nq \odot c[k] \in Field
        BY <1>1, <4>1, FieldCloses
      <4> QED
        BY <3>2, <4>2
    <3> QED
      BY <3>1, <3>2
  <2>3. \A k \in E : d[k] = up[k] \oplus low[k]
    OBVIOUS
  <2>4. up[0] = 0 /\ low[n + 1] = 0
    OBVIOUS
  <2>5. \A k \in D : up[k + 1] = c[k] /\ low[k] = nq \odot c[k]
    OBVIOUS
  <2> QED
    BY <2>1, <2>2, <2>3, <2>4, <2>5
<1>3. d \in [E -> Field]
  BY <1>2, FieldCloses
<1>4. 0 \in D /\ 0 \in E /\ n + 1 \in E /\ D \in SUBSET E /\ E \ {n + 1} = D
      /\ (\A k \in D : k + 1 \in E /\ k \in Nat /\ c[k] \in Field)
      /\ (\A k \in E : k \in Nat)
  OBVIOUS
<1>5. IsFiniteSet(D) /\ IsFiniteSet(E) /\ IsFiniteSet(E \ {0}) /\ E \ {0} \in SUBSET E
  <2>1. IsFiniteSet(D) /\ IsFiniteSet(E)
    BY FS_Interval
  <2> HIDE DEF D, E
  <2> QED
    BY <2>1, FS_Subset
<1> DEFINE next == [i \in D |-> i + 1]
<1>6. /\ E \ {0} = {next[i] : i \in D}
      /\ \A i, j \in D : next[i] = next[j] => i = j
      /\ \A i \in D : next[i] = i + 1
  <2>1. \A k \in E \ {0} : k - 1 \in D /\ next[k - 1] = k
    OBVIOUS
  <2>2. \A i \in D : next[i] = i + 1 /\ i + 1 \in E \ {0}
    OBVIOUS
  <2>3. \A i, j \in D : next[i] = next[j] => i = j
    OBVIOUS
  <2>4. E \ {0} = {next[i] : i \in D}
    <3> HIDE DEF next, D, E
    <3> QED
      BY <2>1, <2>2
  <2> QED
    BY <2>2, <2>3, <2>4
<1>7. d[0] = nq \odot c[0]
  <2>1. low[0] = nq \odot c[0] /\ d[0] = 0 \oplus low[0] /\ low[0] \in Field
    BY <1>2, <1>4
  <2> QED
    BY <2>1, Units
<1>8. ASSUME NEW x \in Field
      PROVE  ShareAt(d, x) = ((x - q) % P) \odot ShareAt(c, x)
  <2>1. PICK t : /\ \A k \in D : t[k] = c[k] \odot Power(x, k) /\ t[k] \in Field
                 /\ ShareAt(c, x) = Sum(t, D) /\ ShareAt(c, x) \in Field
    BY ShareTerms
  <2>2. PICK w : /\ \A k \in E : w[k] = d[k] \odot Power(x, k) /\ w[k] \in Field
                 /\ ShareAt(d, x) = Sum(w, E)
    <3>1. n + 1 \in Nat
      OBVIOUS
    <3> HIDE DEF d
    <3> QED
      BY <1>3, <3>1, ShareTerms
  <2> DEFINE a == [k \in E |-> up[k] \odot Power(x, k)]
             b == [k \in E |-> low[k] \odot Power(x, k)]
  <2>3. \A k \in E : /\ a[k] = up[k] \odot Power(x, k)
                     /\ b[k] = low[k] \odot Power(x, k)
    OBVIOUS
  <2> HIDE DEF up, low, d, D, E, a, b
  <2>4. \A k \in E : Power(x, k) \in Field /\ a[k] \in Field /\ b[k] \in Field
    <3> TAKE k \in E
    <3>1. Power(x, k) \in Field
      BY <1>4, PowerType
    <3>2. up[k] \in Field /\ low[k] \in Field
      BY <1>2
    <3> QED
      BY <2>3, <3>1, <3>2, FieldCloses
  <2>5. Sum(w, E) = Sum(a, E) \oplus Sum(b, E)
    <3>1. \A k \in E : w[k] = a[k] \oplus b[k]
      BY <1>2, <2>2, <2>3, <2>4, ProductsDistribute
    <3> QED
      BY <1>5, <2>4, <3>1, SumPairwise
  <2>6. Sum(a, E) = x \odot Sum(t, D)
    <3>1. a[0] = 0
      BY <1>2, <1>4, <2>3, <2>4, Units
    <3>2. Sum(a, E) = Sum(a, E \ {0}) \oplus a[0]
      BY <1>4, <1>5, <2>4, SumTakes
    <3>3. \A k \in E \ {0} : a[k] \in Field
      BY <2>4
    <3>4. Sum(a, E \ {0}) \in Field
      BY <1>5, <3>3, SumType
    <3>5. Sum(a, E) = Sum(a, E \ {0})
      BY <3>1, <3>2, <3>4, Units
    <3> DEFINE shifted == [i \in D |-> a[next[i]]]
    <3>6. Sum(a, E \ {0}) = Sum(shifted, D)
      <4>1. \A i \in D : a[next[i]] \in Field
        BY <1>4, <1>6, <2>4
      <4> HIDE DEF next
      <4>2. Fold(Plus, 0, a, {next[i] : i \in D}) = Fold(Plus, 0, [i \in D |-> a[next[i]]], D)
        BY ONLY <1>5, <1>6, <4>1, PlusCommutes, FoldRenamed
      <4> QED
        BY <1>6, <4>2 DEF Sum
    <3>7. \A i \in D : shifted[i] = x \odot t[i]
      <4> TAKE i \in D
      <4>1. shifted[i] = c[i] \odot Power(x, i + 1)
        BY <1>2, <1>4, <1>6, <2>3
      <4>2. Power(x, i + 1) = Power(x, i) \odot x /\ Power(x, i) \in Field /\ c[i] \in Field
        BY <1>4, PowerStep, PowerType
      <4>3. c[i] \odot (Power(x, i) \odot x) = (c[i] \odot Power(x, i)) \odot x
        BY <4>2, ProductsAssociate
      <4>4. t[i] \odot x = x \odot t[i]
        BY <2>1, ProductsCommute
      <4> QED
        BY <2>1, <4>1, <4>2, <4>3, <4>4
    <3> HIDE DEF shifted
    <3>8. Sum(shifted, D) = x \odot Sum(t, D)
      BY <1>5, <2>1, <3>7, SumScales
    <3> QED
      BY <3>5, <3>6, <3>8
  <2>7. Sum(b, E) = nq \odot Sum(t, D)
    <3>1. b[n + 1] = 0
      BY <1>2, <1>4, <2>3, <2>4, Units
    <3>2. Sum(b, E) = Sum(b, D) \oplus b[n + 1]
      BY <1>4, <1>5, <2>4, SumTakes
    <3>3. \A k \in D : b[k] \in Field
      BY <1>4, <2>4
    <3>4. Sum(b, D) \in Field
      BY <1>5, <3>3, SumType
    <3>5. Sum(b, E) = Sum(b, D)
      BY <3>1, <3>2, <3>4, Units
    <3>6. \A k \in D : b[k] = nq \odot t[k]
      BY <1>1, <1>2, <1>4, <2>1, <2>3, <2>4, ProductsAssociate
    <3>7. Sum(b, D) = nq \odot Sum(t, D)
      BY <1>1, <1>5, <2>1, <3>6, SumScales
    <3> QED
      BY <3>5, <3>7
  <2>8. x \oplus nq = ((x - q) % P)
    <3> DEFINE e == (x - q) % P
    <3>1. e \in Field /\ e \oplus q = x
      BY Differences
    <3> HIDE DEF e
    <3>2. (x \oplus nq) \oplus q = x \oplus (nq \oplus q)
      BY <1>1, SumsAssociate
    <3>3. (x \oplus nq) \oplus q = e \oplus q
      BY <1>1, <3>1, <3>2, Units
    <3>4. x \oplus nq = e
      BY <1>1, <3>1, <3>3, FieldCloses, CancelSummand
    <3> QED
      BY <3>4 DEF e
  <2>9. (x \oplus nq) \odot Sum(t, D) = (x \odot Sum(t, D)) \oplus (nq \odot Sum(t, D))
    BY <1>1, <2>1, ProductsDistribute
  <2> QED
    BY <2>1, <2>2, <2>5, <2>6, <2>7, <2>8, <2>9
<1> QED
  BY <1>3, <1>7, <1>8 DEF nq

(* A polynomial with the given roots that is not 0 at 0.                     *)
LEMMA Vanishing ==
  ASSUME NEW S, Points(S)
  PROVE  \E m \in [0..Cardinality(S) -> Field] :
           m[0] # 0 /\ \A x \in S : ShareAt(m, x) = 0
<1> DEFINE Has(s) == \E m \in [0..Cardinality(s) -> Field] :
                       m[0] # 0 /\ \A x \in s : ShareAt(m, x) = 0
           C == {s \in SUBSET S : ~Has(s)}
<1>1. SUFFICES ASSUME C # {} PROVE FALSE
  OBVIOUS
<1>2. PICK s \in C : IsFiniteSet(s) /\ \A t \in SUBSET s : t # s => t \notin C
  <2>1. C \in SUBSET SUBSET S /\ IsFiniteSet(S)
    BY DEF Points
  <2> HIDE DEF C
  <2> QED
    BY <1>1, <2>1, LeastSubset
<1>3. s # {}
  <2> SUFFICES ASSUME s = {} PROVE FALSE
    OBVIOUS
  <2>1. Cardinality(s) = 0
    BY FS_EmptySet
  <2> DEFINE m == [k \in 0..0 |-> 1]
  <2>2. m \in [0..0 -> Field] /\ m[0] = 1 /\ 1 # 0
    BY FieldCloses
  <2> HIDE DEF m
  <2>3. Has(s)
    BY <2>1, <2>2
  <2> QED
    BY <2>3
<1>4. PICK q \in s : TRUE
  BY <1>3
<1> DEFINE u == s \ {q}
           n == Cardinality(u)
<1>5. IsFiniteSet(u) /\ n \in Nat /\ Cardinality(s) = n + 1 /\ u # s /\ u \in SUBSET s
  <2>1. /\ IsFiniteSet(u) /\ Cardinality(s) \in Nat /\ n \in Nat
        /\ n = Cardinality(s) - 1
    <3>1. IsFiniteSet(s)
      BY <1>2
    <3> QED
      BY ONLY <3>1, <1>4, RemoveOne
  <2>2. u # s /\ u \in SUBSET s
    BY <1>4
  <2> HIDE DEF n, u
  <2> QED
    BY <2>1, <2>2
<1>6. q \in Field \ {0} /\ \A x \in s : x \in Field
  BY DEF Points
<1>7. PICK m \in [0..n -> Field] : m[0] # 0 /\ \A x \in u : ShareAt(m, x) = 0
  <2>1. u \notin C /\ u \in SUBSET S
    BY <1>2, <1>5
  <2> QED
    BY <2>1
<1> HIDE DEF n
<1>8. PICK d \in [0..(n + 1) -> Field] :
        /\ d[0] = ((0 - q) % P) \odot m[0]
        /\ \A x \in Field : ShareAt(d, x) = ((x - q) % P) \odot ShareAt(m, x)
  BY <1>5, <1>6, TimesRoot
<1>9. d[0] # 0
  <2>1. ((0 - q) % P) \in Field /\ ((0 - q) % P) # 0
    BY <1>6, FieldCloses, Differences
  <2>2. m[0] \in Field
    BY <1>5
  <2> QED
    BY <1>7, <1>8, <2>1, <2>2, NoZeroDivisors
<1>10. \A x \in s : ShareAt(d, x) = 0
  <2> TAKE x \in s
  <2>1. ShareAt(m, x) \in Field /\ ((x - q) % P) \in Field
    BY <1>5, <1>6, ShareTerms, Differences
  <2>2. CASE x = q
    <3>1. q - q = 0 /\ (0 % P) = 0
      BY <1>6, FieldCloses, ResidueOfResidue
    <3> QED
      BY <1>6, <1>8, <2>1, <2>2, <3>1, Units
  <2>3. CASE x # q
    BY <1>6, <1>7, <1>8, <2>1, <2>3, Units
  <2> QED
    BY <2>2, <2>3
<1>11. Has(s)
  BY <1>5, <1>9, <1>10
<1> QED
  BY <1>11

LEMMA AddMultiple ==
  ASSUME NEW n \in Nat
  PROVE  \A c, m, d \in [0..n -> Field] : \A l, x \in Field :
           (\A k \in 0..n : d[k] = c[k] \oplus (l \odot m[k]))
             => ShareAt(d, x) = ShareAt(c, x) \oplus (l \odot ShareAt(m, x))
<1> SUFFICES ASSUME NEW c \in [0..n -> Field], NEW m \in [0..n -> Field],
                    NEW d \in [0..n -> Field], NEW l \in Field, NEW x \in Field,
                    \A k \in 0..n : d[k] = c[k] \oplus (l \odot m[k])
             PROVE  ShareAt(d, x) = ShareAt(c, x) \oplus (l \odot ShareAt(m, x))
  OBVIOUS
<1> DEFINE D == 0..n
<1>1. PICK t : /\ \A k \in D : t[k] = c[k] \odot Power(x, k) /\ t[k] \in Field
               /\ ShareAt(c, x) = Sum(t, D)
  BY ShareTerms
<1>2. PICK u : /\ \A k \in D : u[k] = m[k] \odot Power(x, k) /\ u[k] \in Field
               /\ ShareAt(m, x) = Sum(u, D)
  BY ShareTerms
<1>3. PICK w : /\ \A k \in D : w[k] = d[k] \odot Power(x, k) /\ w[k] \in Field
               /\ ShareAt(d, x) = Sum(w, D)
  BY ShareTerms
<1>4. IsFiniteSet(D)
  BY FS_Interval
<1>5. \A k \in D : Power(x, k) \in Field /\ c[k] \in Field /\ m[k] \in Field
  BY PowerType
<1> HIDE DEF D
<1> DEFINE v == [k \in D |-> l \odot u[k]]
<1>6. \A k \in D : v[k] = l \odot u[k] /\ v[k] \in Field
  BY <1>2, FieldCloses
<1> HIDE DEF v
<1>7. \A k \in D : w[k] = t[k] \oplus v[k]
  <2> TAKE k \in D
  <2> DEFINE p == Power(x, k)
  <2>1. p \in Field /\ c[k] \in Field /\ m[k] \in Field /\ l \odot m[k] \in Field
    BY <1>5, FieldCloses
  <2>2. w[k] = (c[k] \oplus (l \odot m[k])) \odot p
    BY <1>3 DEF D
  <2>3. t[k] = c[k] \odot p /\ v[k] = l \odot (m[k] \odot p)
    BY <1>1, <1>2, <1>6
  <2> HIDE DEF p
  <2>4. (c[k] \oplus (l \odot m[k])) \odot p = (c[k] \odot p) \oplus ((l \odot m[k]) \odot p)
    BY <2>1, ProductsDistribute
  <2>5. (l \odot m[k]) \odot p = l \odot (m[k] \odot p)
    BY <2>1, ProductsAssociate
  <2> QED
    BY <2>2, <2>3, <2>4, <2>5
<1>8. Sum(v, D) = l \odot Sum(u, D)
  BY <1>2, <1>4, <1>6, SumScales
<1>9. Sum(w, D) = Sum(t, D) \oplus Sum(v, D)
  BY <1>1, <1>4, <1>6, <1>7, SumPairwise
<1> QED
  BY <1>1, <1>2, <1>3, <1>8, <1>9

LEMMA WithoutSome ==
  ASSUME NEW S, IsFiniteSet(S), NEW B \in SUBSET S
  PROVE  /\ IsFiniteSet(S \ B)
         /\ Cardinality(S) \in Nat /\ Cardinality(B) \in Nat /\ Cardinality(S \ B) \in Nat
         /\ Cardinality(S \ B) = Cardinality(S) - Cardinality(B)
<1> DEFINE R == S \ B
<1>1. IsFiniteSet(B) /\ IsFiniteSet(R)
  BY FS_Subset
<1>2. B \cup R = S /\ B \cap R = {}
  OBVIOUS
<1> HIDE DEF R
<1>3. Cardinality(S) = Cardinality(B) + Cardinality(R) - Cardinality({})
  BY <1>1, <1>2, FS_Union
<1>4. Cardinality(S) \in Nat /\ Cardinality(B) \in Nat /\ Cardinality(R) \in Nat
      /\ Cardinality({}) = 0
  BY <1>1, FS_CardinalityType, FS_EmptySet
<1> QED
  BY <1>1, <1>3, <1>4 DEF R

(* THRESHOLD - 1 shares leave open all but at most THRESHOLD of the P        *)
(* secrets, one for each coefficient that generate_shares never draws as 0.  *)
THEOREM FewSharesTellLittle == Spec => []FewSharesLeaveSecretsOpen
<1>1. InductiveInvariant => FewSharesLeaveSecretsOpen
  <2> SUFFICES ASSUME TypeOK, SharesOnPolynomial, stage = "shared",
                      NEW S \in SUBSET Positions, Cardinality(S) = THRESHOLD - 1
               PROVE  Cardinality(CandidateSecrets(S)) >= P - THRESHOLD
    BY DEF InductiveInvariant, FewSharesLeaveSecretsOpen
  <2> DEFINE n == THRESHOLD - 1
             D == 0..n
             c == coeffs
  <2>1. n \in Nat /\ 0 \in D /\ n + 1 = THRESHOLD /\ P \in Nat
    BY SharingConstants
  <2>2. IsFiniteSet(D) /\ Cardinality(D) = THRESHOLD
    <3>1. IsFiniteSet(D) /\ Cardinality(D) = IF 0 > n THEN 0 ELSE n - 0 + 1
      BY <2>1, FS_Interval
    <3> QED
      BY <2>1, <3>1
  <2>3. Points(S) /\ \A x \in S : x \in Field /\ x \in Positions
    <3>1. N_NODES \in Int
      BY SharingConstants
    <3>2. IsFiniteSet(Positions)
      BY <3>1, FS_Interval DEF Positions
    <3>3. IsFiniteSet(S)
      BY <3>2, FS_Subset
    <3> QED
      BY <3>3, PositionsArePoints DEF Points
  <2>4. /\ c \in [D -> Field]
        /\ \A k \in D : c[k] # 0
        /\ \A x \in S : shares[x] = ShareAt(c, x)
    <3>1. c \in [D -> Field \ {0}] /\ \A x \in Positions : shares[x] = ShareAt(c, x)
      BY DEF SharesOnPolynomial, Coefficients
    <3> QED
      BY <2>3, <3>1
  <2>5. PICK m \in [D -> Field] : m[0] # 0 /\ \A x \in S : ShareAt(m, x) = 0
    BY <2>3, Vanishing
  <2> HIDE DEF c, n
  <2> DEFINE other == [l \in Field |-> [k \in D |-> c[k] \oplus (l \odot m[k])]]
             bad == {l \in Field : \E k \in D : other[l][k] = 0}
             good == Field \ bad
  <2>6. \A l \in Field : /\ other[l] \in [D -> Field]
                         /\ \A k \in D : other[l][k] = c[k] \oplus (l \odot m[k])
    BY <2>4, FieldCloses
  <2> HIDE DEF other
  (* Two multiples of m that agree in a coefficient which m does not leave   *)
  (* alone are the same.                                                     *)
  <2>7. ASSUME NEW k \in D, m[k] # 0, NEW i \in Field, NEW j \in Field,
               other[i][k] = other[j][k]
        PROVE  i = j
    <3>1. m[k] \in Field /\ c[k] \in Field /\ i \odot m[k] \in Field /\ j \odot m[k] \in Field
      BY <2>4, FieldCloses
    <3>2. (i \odot m[k]) \oplus c[k] = (j \odot m[k]) \oplus c[k]
      BY <2>6, <2>7, <3>1, SumsCommute
    <3>3. i \odot m[k] = j \odot m[k]
      BY <3>1, <3>2, CancelSummand
    <3> QED
      BY <2>7, <3>1, <3>3, CancelFactor
  <2>8. IsFiniteSet(Field) /\ Cardinality(Field) = P
    <3>1. 0 \in Int /\ P - 1 \in Int /\ P >= 2
      BY PrimeAtLeastTwo
    <3>2. IsFiniteSet(Field) /\ Cardinality(Field) = IF 0 > P - 1 THEN 0 ELSE (P - 1) - 0 + 1
      BY <3>1, FS_Interval DEF Field
    <3> QED
      BY <2>1, <3>1, <3>2
  <2>9. Cardinality(bad) <= THRESHOLD
    <3> DEFINE zero == [l \in bad |-> CHOOSE k \in D : other[l][k] = 0]
    <3>1. \A l \in bad : zero[l] \in D /\ other[l][zero[l]] = 0 /\ m[zero[l]] # 0
      <4> TAKE l \in bad
      <4> DEFINE k == zero[l]
      <4>1. k \in D /\ other[l][k] = 0 /\ l \in Field
        OBVIOUS
      <4> HIDE DEF zero, k
      <4>2. m[k] # 0
        <5> SUFFICES ASSUME m[k] = 0 PROVE FALSE
          OBVIOUS
        <5>1. l \odot m[k] = 0 /\ c[k] \in Field /\ c[k] # 0
          BY <2>4, <4>1, Units
        <5>2. other[l][k] = c[k]
          BY <2>6, <4>1, <5>1, Units
        <5> QED
          BY <4>1, <5>1, <5>2
      <4> QED
        BY <4>1, <4>2 DEF k
    <3>2. \A i, j \in bad : zero[i] = zero[j] => i = j
      <4> HIDE DEF zero
      <4>1. \A l \in bad : l \in Field
        OBVIOUS
      <4> HIDE DEF bad
      <4> QED
        BY <2>7, <3>1, <4>1
    <3>3. zero \in Injection(bad, D)
      <4>1. zero \in [bad -> D]
        <5>1. zero = [l \in bad |-> zero[l]]
          OBVIOUS
        <5> HIDE DEF zero, bad, D
        <5> QED
          BY <3>1, <5>1
      <4>2. DOMAIN zero = bad
        OBVIOUS
      <4> HIDE DEF zero, bad
      <4> QED
        BY <3>2, <4>1, <4>2 DEF Injection, IsInjective
    <3> HIDE DEF zero, bad, D
    <3> QED
      BY <2>2, <3>3, FS_Injection
  <2>10. IsFiniteSet(good) /\ Cardinality(good) >= P - THRESHOLD /\ Cardinality(good) \in Nat
    <3>1. bad \in SUBSET Field
      OBVIOUS
    <3> HIDE DEF bad
    <3>2. /\ IsFiniteSet(good) /\ Cardinality(bad) \in Nat /\ Cardinality(good) \in Nat
          /\ Cardinality(good) = P - Cardinality(bad)
      BY <2>8, <3>1, WithoutSome
    <3>3. THRESHOLD \in Nat
      BY SharingConstants
    <3> QED
      BY <2>1, <2>9, <3>2, <3>3
  <2> DEFINE at == [l \in good |-> other[l][0]]
             img == {at[l] : l \in good}
  <2>11. \A i, j \in good : at[i] = at[j] => i = j
    BY <2>1, <2>5, <2>7
  <2>12. \A l \in good : at[l] \in CandidateSecrets(S)
    <3> TAKE l \in good
    <3>1. l \in Field /\ \A k \in D : other[l][k] # 0
      OBVIOUS
    <3>2. other[l] \in Coefficients
      <4>1. other[l] \in [D -> Field \ {0}]
        BY <2>6, <3>1
      <4> QED
        BY <4>1 DEF Coefficients, n
    <3>3. \A x \in S : ShareAt(other[l], x) = shares[x]
      <4> TAKE x \in S
      <4>1. ShareAt(other[l], x) = ShareAt(c, x) \oplus (l \odot ShareAt(m, x))
        <5> DEFINE d == other[l]
        <5>1. d \in [D -> Field] /\ \A k \in D : d[k] = c[k] \oplus (l \odot m[k])
          BY <2>6, <3>1
        <5>2. x \in Field /\ l \in Field /\ m \in [D -> Field] /\ c \in [D -> Field]
          BY <2>3, <2>4, <3>1
        <5> HIDE DEF d
        <5>3. ShareAt(d, x) = ShareAt(c, x) \oplus (l \odot ShareAt(m, x))
          <6>1. \A e, f, g \in [D -> Field] : \A i, z \in Field :
                  (\A k \in D : g[k] = e[k] \oplus (i \odot f[k]))
                    => ShareAt(g, z) = ShareAt(e, z) \oplus (i \odot ShareAt(f, z))
            BY ONLY <2>1, AddMultiple
          <6> HIDE DEF D
          <6> QED
            BY ONLY <5>1, <5>2, <6>1
        <5> QED
          BY <5>3 DEF d
      <4>2. ShareAt(c, x) \in Field
        BY <2>1, <2>3, <2>4, ShareTerms
      <4>3. l \odot ShareAt(m, x) = 0
        BY <2>5, <3>1, Units
      <4> QED
        BY <2>4, <4>1, <4>2, <4>3, Units
    <3> QED
      BY <3>2, <3>3 DEF CandidateSecrets
  <2> HIDE DEF at, good, bad
  <2>13. IsFiniteSet(img) /\ Cardinality(img) = Cardinality(good)
    BY <2>10, <2>11, Images
  <2>14. IsFiniteSet(CandidateSecrets(S))
    <3>1. CandidateSecrets(S) \in SUBSET Field
      BY SharingConstants DEF CandidateSecrets, Coefficients
    <3> QED
      BY <2>8, <3>1, FS_Subset
  <2>15. img \in SUBSET CandidateSecrets(S)
    BY <2>12
  <2> HIDE DEF img
  <2>16. Cardinality(img) <= Cardinality(CandidateSecrets(S))
         /\ Cardinality(CandidateSecrets(S)) \in Nat
    BY <2>14, <2>15, FS_Subset, FS_CardinalityType
  <2>17. THRESHOLD \in Nat
    BY SharingConstants
  <2> QED
    BY <2>1, <2>10, <2>13, <2>16, <2>17
<1> QED
  BY <1>1, Invariance, PTL
===============================================================================

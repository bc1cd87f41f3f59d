--------------------------------- MODULE Sums ---------------------------------
(***************************************************************************)
(* Lemmas about sums over finite sets, for the proofs about components that  *)
(* add up sizes with the folds of the community modules.  What a fold        *)
(* computes takes an induction over the cardinality of the set.  The order   *)
(* of the naturals is well founded, and a set stands for the predicate.      *)
(***************************************************************************)
EXTENDS Integers, FiniteSets, FiniteSetTheorems, WellFoundedInduction, TLAPS

Some(s) == CHOOSE x \in s : TRUE
Upto(S, n) == {s \in SUBSET S : Cardinality(s) <= n}

\* g adds up f over S and its subsets, one element after another.
Adds(g, f, S) ==
  \A s \in SUBSET S : g[s] = IF s = {} THEN 0 ELSE f[Some(s)] + g[s \ {Some(s)}]

\* The sum of f over S.
Total(f, S) == (CHOOSE g : g \in [SUBSET S -> Int] /\ Adds(g, f, S))[S]

-------------------------------------------------------------------------------
(* Induction.                                                                  *)

(* The naturals are well ordered.                                              *)
LEMMA Less == IsWellFoundedOn({ss \in Nat \X Nat : ss[1] < ss[2]}, Nat)
BY NatLessThanWellFounded DEF OpToRel

(* A set of naturals has a least element.                                      *)
LEMMA LeastIn ==
  ASSUME NEW S \in SUBSET Nat, S # {}
  PROVE  \E x \in S : \A y \in S : x <= y
<1> DEFINE R == {ss \in Nat \X Nat : ss[1] < ss[2]}
<1>1. IsWellFoundedOn(R, Nat) BY Less
<1> HIDE DEF R
<1>2. PICK x \in S : \A y \in S : ~(<<y, x>> \in R) BY <1>1, WFMin
<1>3. ASSUME NEW y \in S PROVE x <= y
  <2>1. SUFFICES ASSUME y < x PROVE FALSE OBVIOUS
  <2>2. <<y, x>> \in Nat \X Nat /\ <<y, x>>[1] < <<y, x>>[2] BY <2>1
  <2>3. <<y, x>> \in R BY <2>2 DEF R
  <2> QED BY <2>3, <1>2
<1> QED BY <1>2, <1>3

(* Induction, for a set of naturals.                                           *)
LEMMA Induct ==
  ASSUME NEW T \in SUBSET Nat, 0 \in T, \A n \in T : n + 1 \in T
  PROVE  T = Nat
<1> SUFFICES ASSUME T # Nat PROVE FALSE OBVIOUS
<1> DEFINE Rest == Nat \ T
<1>1. Rest \in SUBSET Nat /\ Rest # {} OBVIOUS
<1> HIDE DEF Rest
<1>2. PICK x \in Rest : \A y \in Rest : x <= y BY <1>1, LeastIn
<1>3. x \in Nat /\ x # 0 /\ x - 1 \in Nat /\ ~(x <= x - 1) BY <1>2, <1>1 DEF Rest
<1>4. x - 1 \in T BY <1>2, <1>3 DEF Rest
<1>5. x \in T BY <1>3, <1>4
<1> QED BY <1>5 DEF Rest

(* Without one of its elements, a set is smaller.                              *)
LEMMA Smaller ==
  ASSUME NEW S, IsFiniteSet(S), NEW n \in Nat, NEW s \in Upto(S, n + 1), NEW x \in s
  PROVE  s \ {x} \in Upto(S, n)
<1>1. IsFiniteSet(s) /\ Cardinality(s) \in Nat BY FS_Subset, FS_CardinalityType DEF Upto
<1>2. Cardinality(s \ {x}) = Cardinality(s) - 1 BY <1>1, FS_RemoveElement
<1> QED BY <1>1, <1>2 DEF Upto

(* Only the empty set has no element.                                          *)
LEMMA EmptyUpto == ASSUME NEW S, IsFiniteSet(S) PROVE Upto(S, 0) = {{}}
<1>1. {} \in Upto(S, 0) BY FS_EmptySet DEF Upto
<1>2. ASSUME NEW s \in Upto(S, 0) PROVE s = {}
  BY FS_Subset, FS_EmptySet, FS_CardinalityType DEF Upto
<1> QED BY <1>1, <1>2

(* All subsets of a finite set have its cardinality or less.                   *)
LEMMA AllUpto ==
  ASSUME NEW S, IsFiniteSet(S)
  PROVE  Cardinality(S) \in Nat /\ Upto(S, Cardinality(S)) = SUBSET S
BY FS_Subset, FS_CardinalityType DEF Upto

(* Induction over the subsets of a finite set, by leaving out some element.    *)
LEMMA SubsetInduct ==
  ASSUME NEW S, IsFiniteSet(S), NEW C, {} \in C,
         \A s \in SUBSET S : (\E x \in s : s \ {x} \in C) => s \in C
  PROVE  \A s \in SUBSET S : s \in C
<1> DEFINE T == {n \in Nat : \A s \in Upto(S, n) : s \in C}
<1>1. 0 \in T BY EmptyUpto
<1>2. ASSUME NEW n \in T PROVE n + 1 \in T
  <2>1. ASSUME NEW s \in Upto(S, n + 1), s # {} PROVE s \in C
    <3>1. PICK x \in s : TRUE BY <2>1
    <3>2. s \ {x} \in Upto(S, n) BY Smaller
    <3>3. s \in SUBSET S BY DEF Upto
    <3> QED BY <3>2, <3>3
  <2>2. \A s \in Upto(S, n + 1) : s \in C BY <2>1
  <2>3. n + 1 \in Nat OBVIOUS
  <2> QED BY <2>2, <2>3
<1> HIDE DEF T
<1>3. T = Nat BY <1>1, <1>2, Induct DEF T
<1> QED BY <1>3, AllUpto DEF T

-------------------------------------------------------------------------------
(* Sums.                                                                       *)

(* There is a function that adds up.                                           *)
LEMMA AdderExists ==
  ASSUME NEW D, NEW f \in [D -> Int], NEW S \in SUBSET D, IsFiniteSet(S)
  PROVE  \E g : g \in [SUBSET S -> Int] /\ Adds(g, f, S)
<1> DEFINE Step(g, s) == IF s = {} THEN 0 ELSE f[Some(s)] + g[s \ {Some(s)}]
<1> DEFINE Partly(g, n) == g \in [Upto(S, n) -> Int] /\ \A s \in Upto(S, n) : g[s] = Step(g, s)
<1> DEFINE T == {n \in Nat : \E g : Partly(g, n)}
<1>1. 0 \in T
  <2>1. Upto(S, 0) = {{}} BY EmptyUpto
  <2>2. Partly([s \in {{}} |-> 0], 0) BY <2>1
  <2> QED BY <2>2
<1>2. ASSUME NEW n \in T PROVE n + 1 \in T
  <2>1. PICK g : Partly(g, n) OBVIOUS
  <2> DEFINE h == [s \in Upto(S, n + 1) |-> Step(g, s)]
  <2>2. ASSUME NEW s \in Upto(S, n + 1), s # {}
        PROVE  Some(s) \in S /\ s \ {Some(s)} \in Upto(S, n)
    <3>1. Some(s) \in s BY <2>2 DEF Some
    <3> QED BY <3>1, Smaller DEF Upto
  <2>3. ASSUME NEW s \in Upto(S, n) PROVE s \in Upto(S, n + 1) /\ h[s] = g[s]
    <3>1. s \in Upto(S, n + 1) BY FS_Subset, FS_CardinalityType DEF Upto
    <3> QED BY <2>1, <3>1
  <2>4. ASSUME NEW s \in Upto(S, n + 1) PROVE h[s] \in Int
    <3>1. CASE s = {} BY <3>1
    <3>2. CASE s # {} BY <3>2, <2>1, <2>2
    <3> QED BY <3>1, <3>2
  <2>5. ASSUME NEW s \in Upto(S, n + 1) PROVE h[s] = Step(h, s)
    <3>1. CASE s # {} BY <3>1, <2>2, <2>3
    <3> QED BY <3>1
  <2> HIDE DEF h
  <2>6. h \in [Upto(S, n + 1) -> Int] BY <2>4 DEF h
  <2>7. Partly(h, n + 1) BY <2>5, <2>6
  <2>8. n + 1 \in Nat OBVIOUS
  <2> QED BY <2>7, <2>8
<1> HIDE DEF T
<1>3. T = Nat BY <1>1, <1>2, Induct DEF T
<1>4. PICK g : Partly(g, Cardinality(S)) BY <1>3, AllUpto DEF T
<1> QED BY <1>4, AllUpto DEF Adds

(* Two functions that add up agree.                                            *)
LEMMA AddersAgree ==
  ASSUME NEW f, NEW S, IsFiniteSet(S), NEW R, NEW g, NEW h, Adds(g, f, S), Adds(h, f, R), S \subseteq R
  PROVE  \A s \in SUBSET S : g[s] = h[s]
<1> DEFINE T == {n \in Nat : \A s \in Upto(S, n) : g[s] = h[s]}
<1>1. g[{}] = h[{}]
  <2>1. {} \in SUBSET S /\ {} \in SUBSET R OBVIOUS
  <2>2. g[{}] = 0 BY <2>1 DEF Adds
  <2>3. h[{}] = 0 BY <2>1 DEF Adds
  <2> QED BY <2>2, <2>3
<1>2. 0 \in T BY <1>1, EmptyUpto
<1>3. ASSUME NEW n \in T PROVE n + 1 \in T
  <2>1. ASSUME NEW s \in Upto(S, n + 1), s # {} PROVE g[s] = h[s]
    <3>1. Some(s) \in s BY <2>1 DEF Some
    <3>2. s \ {Some(s)} \in Upto(S, n) BY <3>1, Smaller
    <3>3. s \in SUBSET S /\ s \in SUBSET R BY DEF Upto
    <3>4. g[s] = f[Some(s)] + g[s \ {Some(s)}] BY <2>1, <3>3 DEF Adds
    <3>5. h[s] = f[Some(s)] + h[s \ {Some(s)}] BY <2>1, <3>3 DEF Adds
    <3> QED BY <3>2, <3>4, <3>5
  <2>2. \A s \in Upto(S, n + 1) : g[s] = h[s] BY <2>1, <1>1
  <2>3. n + 1 \in Nat OBVIOUS
  <2> QED BY <2>2, <2>3
<1> HIDE DEF T
<1>4. T = Nat BY <1>2, <1>3, Induct DEF T
<1> QED BY <1>4, AllUpto DEF T

(* What a function that adds up has at a set is the sum over it.               *)
LEMMA TotalAdds ==
  ASSUME NEW D, NEW f \in [D -> Int], NEW S \in SUBSET D, IsFiniteSet(S), NEW g, Adds(g, f, S),
         NEW s \in SUBSET S
  PROVE  g[s] = Total(f, s) /\ Total(f, s) \in Int
<1>1. IsFiniteSet(s) /\ s \in SUBSET D BY FS_Subset
<1>2. \E h : h \in [SUBSET s -> Int] /\ Adds(h, f, s) BY <1>1, AdderExists
<1>3. PICK h : h \in [SUBSET s -> Int] /\ Adds(h, f, s) /\ Total(f, s) = h[s]
  BY <1>2 DEF Total
<1>4. \A r \in SUBSET s : h[r] = g[r] BY <1>1, <1>3, AddersAgree
<1> QED BY <1>3, <1>4

(* A fold of the library is the sum.                                           *)
LEMMA Folded ==
  ASSUME NEW D, NEW f \in [D -> Int], NEW S \in SUBSET D, IsFiniteSet(S)
  PROVE  (CHOOSE g : g = [s \in SUBSET S |->
                            IF s = {} THEN 0 ELSE f[Some(s)] + g[s \ {Some(s)}]])[S] = Total(f, S)
<1>1. PICK h : h \in [SUBSET S -> Int] /\ Adds(h, f, S) BY AdderExists
<1>2. h = [s \in SUBSET S |-> IF s = {} THEN 0 ELSE f[Some(s)] + h[s \ {Some(s)}]]
  BY <1>1 DEF Adds
<1> DEFINE k == CHOOSE g : g = [s \in SUBSET S |-> IF s = {} THEN 0 ELSE f[Some(s)] + g[s \ {Some(s)}]]
<1>3. k = [s \in SUBSET S |-> IF s = {} THEN 0 ELSE f[Some(s)] + k[s \ {Some(s)}]]
  BY <1>2
<1> HIDE DEF k
<1>4. Adds(k, f, S) BY <1>3 DEF Adds
<1>5. k[S] = Total(f, S) BY <1>4, TotalAdds
<1> QED BY <1>5 DEF k

(* The sum over no element, and what an element adds.                          *)
LEMMA TotalEmpty == ASSUME NEW f PROVE Total(f, {}) = 0
<1>1. \E g : g \in [SUBSET {} -> Int] /\ Adds(g, f, {})
  <2>1. [s \in SUBSET {} |-> 0] \in [SUBSET {} -> Int] /\ Adds([s \in SUBSET {} |-> 0], f, {})
    BY DEF Adds
  <2> QED BY <2>1
<1>2. PICK g : Adds(g, f, {}) /\ Total(f, {}) = g[{}] BY <1>1 DEF Total
<1>3. {} \in SUBSET {} OBVIOUS
<1> QED BY <1>2, <1>3 DEF Adds

LEMMA TotalInt ==
  ASSUME NEW D, NEW f \in [D -> Int], NEW S \in SUBSET D, IsFiniteSet(S)
  PROVE  Total(f, S) \in Int
<1>1. PICK g : Adds(g, f, S) BY AdderExists
<1> QED BY <1>1, TotalAdds

LEMMA TotalElement ==
  ASSUME NEW D, NEW f \in [D -> Int], NEW S \in SUBSET D, IsFiniteSet(S), NEW x \in S
  PROVE  Total(f, S) = f[x] + Total(f, S \ {x})
<1> DEFINE Ok(s) == \A y \in s : Total(f, s) = f[y] + Total(f, s \ {y})
<1> DEFINE T == {n \in Nat : \A s \in Upto(S, n) : Ok(s)}
<1>1. ASSUME NEW s \in SUBSET S PROVE Total(f, s) \in Int BY FS_Subset, TotalInt
<1>2. ASSUME NEW s \in SUBSET S, s # {}
      PROVE  Some(s) \in s /\ Total(f, s) = f[Some(s)] + Total(f, s \ {Some(s)})
  <2>1. PICK g : Adds(g, f, S) BY AdderExists
  <2>2. Some(s) \in s BY <1>2 DEF Some
  <2>3. s \ {Some(s)} \in SUBSET S OBVIOUS
  <2>4. g[s] = f[Some(s)] + g[s \ {Some(s)}] BY <2>1, <1>2 DEF Adds
  <2>5. g[s] = Total(f, s) BY <2>1, TotalAdds
  <2>6. g[s \ {Some(s)}] = Total(f, s \ {Some(s)}) BY <2>1, <2>3, TotalAdds
  <2> QED BY <2>2, <2>4, <2>5, <2>6
<1>3. 0 \in T
  <2>1. \A s \in Upto(S, 0) : s = {} BY EmptyUpto
  <2> QED BY <2>1
<1>4. ASSUME NEW n \in T PROVE n + 1 \in T
  <2>1. ASSUME NEW s \in Upto(S, n + 1), NEW y \in s PROVE Total(f, s) = f[y] + Total(f, s \ {y})
    <3>1. PICK z : z = Some(s) OBVIOUS
    <3>2. s \in SUBSET S /\ s # {} BY DEF Upto
    <3>3. z \in s /\ Total(f, s) = f[z] + Total(f, s \ {z}) BY <1>2, <3>1, <3>2
    <3>4. CASE z = y BY <3>3, <3>4
    <3>5. CASE z # y
      <4>1. s \ {z} \in Upto(S, n) /\ s \ {y} \in Upto(S, n) BY <3>3, Smaller
      <4>2. y \in s \ {z} /\ z \in s \ {y} BY <3>3, <3>5
      <4>3. Total(f, s \ {z}) = f[y] + Total(f, (s \ {z}) \ {y}) BY <4>1, <4>2
      <4>4. Total(f, s \ {y}) = f[z] + Total(f, (s \ {y}) \ {z}) BY <4>1, <4>2
      <4>5. PICK q : q = (s \ {z}) \ {y} /\ q = (s \ {y}) \ {z} OBVIOUS
      <4>6. Total(f, q) \in Int /\ f[y] \in Int /\ f[z] \in Int
        BY <1>1, <3>2, <3>3, <4>5
      <4>7. Total(f, s) = f[z] + (f[y] + Total(f, q)) BY <3>3, <4>3, <4>5
      <4>8. Total(f, s \ {y}) = f[z] + Total(f, q) BY <4>4, <4>5
      <4> QED BY <4>6, <4>7, <4>8
    <3> QED BY <3>4, <3>5
  <2> QED BY <2>1
<1> HIDE DEF T
<1>5. T = Nat BY <1>3, <1>4, Induct DEF T
<1>6. Ok(S) BY <1>5, AllUpto DEF T
<1> QED BY <1>6

(* Naturals add up to a natural, more of them to no less, zeros to zero; and    *)
(* what is added up alike comes to the same.                                   *)
LEMMA TotalNat ==
  ASSUME NEW D, NEW f \in [D -> Nat], NEW S \in SUBSET D, IsFiniteSet(S)
  PROVE  Total(f, S) \in Nat
<1> DEFINE C == {s \in SUBSET S : Total(f, s) \in Nat}
<1>1. {} \in C BY TotalEmpty
<1>2. ASSUME NEW s \in SUBSET S, NEW x \in s, s \ {x} \in C PROVE s \in C
  <2>1. f \in [D -> Int] /\ IsFiniteSet(s) /\ s \in SUBSET D BY FS_Subset
  <2>2. Total(f, s) = f[x] + Total(f, s \ {x}) BY <2>1, TotalElement
  <2>3. f[x] \in Nat OBVIOUS
  <2> QED BY <1>2, <2>2, <2>3
<1> HIDE DEF C
<1>3. \A s \in SUBSET S : s \in C BY <1>1, <1>2, SubsetInduct
<1> QED BY <1>3 DEF C

LEMMA TotalSame ==
  ASSUME NEW D, NEW f \in [D -> Int], NEW E, NEW h \in [E -> Int],
         NEW S \in SUBSET D, S \subseteq E, IsFiniteSet(S), \A x \in S : f[x] = h[x]
  PROVE  Total(f, S) = Total(h, S)
<1> DEFINE C == {s \in SUBSET S : Total(f, s) = Total(h, s)}
<1>1. {} \in C BY TotalEmpty
<1>2. ASSUME NEW s \in SUBSET S, NEW x \in s, s \ {x} \in C PROVE s \in C
  <2>1. IsFiniteSet(s) /\ s \in SUBSET D /\ s \in SUBSET E BY FS_Subset
  <2>2. Total(f, s) = f[x] + Total(f, s \ {x}) BY <2>1, TotalElement
  <2>3. Total(h, s) = h[x] + Total(h, s \ {x}) BY <2>1, TotalElement
  <2> QED BY <1>2, <2>2, <2>3
<1> HIDE DEF C
<1>3. \A s \in SUBSET S : s \in C BY <1>1, <1>2, SubsetInduct
<1> QED BY <1>3 DEF C

LEMMA TotalZero ==
  ASSUME NEW D, NEW f \in [D -> Int], NEW S \in SUBSET D, IsFiniteSet(S), \A x \in S : f[x] = 0
  PROVE  Total(f, S) = 0
<1> DEFINE C == {s \in SUBSET S : Total(f, s) = 0}
<1>1. {} \in C BY TotalEmpty
<1>2. ASSUME NEW s \in SUBSET S, NEW x \in s, s \ {x} \in C PROVE s \in C
  <2>1. IsFiniteSet(s) /\ s \in SUBSET D BY FS_Subset
  <2>2. Total(f, s) = f[x] + Total(f, s \ {x}) BY <2>1, TotalElement
  <2> QED BY <1>2, <2>2
<1> HIDE DEF C
<1>3. \A s \in SUBSET S : s \in C BY <1>1, <1>2, SubsetInduct
<1> QED BY <1>3 DEF C

(* Two sets together weigh no more than each by itself.                        *)
LEMMA TotalUnion ==
  ASSUME NEW D, NEW f \in [D -> Nat], NEW S \in SUBSET D, NEW R \in SUBSET D,
         IsFiniteSet(S), IsFiniteSet(R)
  PROVE  Total(f, S \cup R) <= Total(f, S) + Total(f, R)
<1> DEFINE C == {r \in SUBSET R : Total(f, S \cup r) <= Total(f, S) + Total(f, r)}
<1>1. \A s \in SUBSET D : IsFiniteSet(s) => Total(f, s) \in Nat BY TotalNat
<1>2. {} \in C
  <2>1. S \cup {} = S OBVIOUS
  <2> QED BY <2>1, <1>1, TotalEmpty
<1>3. ASSUME NEW r \in SUBSET R, NEW x \in r, r \ {x} \in C PROVE r \in C
  <2>1. PICK q : q = r \ {x} OBVIOUS
  <2>2. /\ IsFiniteSet(r) /\ IsFiniteSet(q) /\ IsFiniteSet(S \cup r) /\ IsFiniteSet(S \cup q)
        /\ r \in SUBSET D /\ q \in SUBSET D /\ S \cup r \in SUBSET D /\ S \cup q \in SUBSET D
    BY <2>1, FS_Subset, FS_Union
  <2>3. f \in [D -> Int] /\ f[x] \in Nat OBVIOUS
  <2>4. Total(f, r) = f[x] + Total(f, q) BY <2>1, <2>2, <2>3, TotalElement
  <2>5. Total(f, S \cup q) <= Total(f, S) + Total(f, q) BY <1>3, <2>1
  <2>6. Total(f, S \cup r) <= f[x] + Total(f, S \cup q)
    <3>1. CASE x \in S
      <4>1. S \cup r = S \cup q BY <2>1, <3>1
      <4> QED BY <4>1, <2>2, <2>3, <1>1
    <3>2. CASE x \notin S
      <4>1. (S \cup r) \ {x} = S \cup q /\ x \in S \cup r BY <2>1, <3>2
      <4>2. Total(f, S \cup r) = f[x] + Total(f, S \cup q) BY <4>1, <2>2, <2>3, TotalElement
      <4> QED BY <4>2, <2>2, <2>3, <1>1
    <3> QED BY <3>1, <3>2
  <2>7. /\ Total(f, S) \in Nat /\ Total(f, r) \in Nat /\ Total(f, q) \in Nat
        /\ Total(f, S \cup r) \in Nat /\ Total(f, S \cup q) \in Nat
    BY <2>2, <1>1
  <2> QED BY <2>3, <2>4, <2>5, <2>6, <2>7
<1> HIDE DEF C
<1>4. \A r \in SUBSET R : r \in C BY <1>2, <1>3, SubsetInduct
<1> QED BY <1>4 DEF C

LEMMA TotalSubset ==
  ASSUME NEW D, NEW f \in [D -> Nat], NEW R \in SUBSET D, IsFiniteSet(R), NEW S \in SUBSET R
  PROVE  Total(f, S) <= Total(f, R)
<1> DEFINE C == {s \in SUBSET R : Total(f, s \cap S) <= Total(f, s)}
<1>1. \A s \in SUBSET R : Total(f, s) \in Nat BY TotalNat, FS_Subset
<1>2. {} \in C
  <2>1. {} \cap S = {} OBVIOUS
  <2> QED BY <2>1, TotalEmpty
<1>3. ASSUME NEW s \in SUBSET R, NEW x \in s, s \ {x} \in C PROVE s \in C
  <2>1. PICK q : q = s \ {x} OBVIOUS
  <2>2. /\ IsFiniteSet(s) /\ IsFiniteSet(s \cap S) /\ s \in SUBSET D /\ s \cap S \in SUBSET D
    BY FS_Subset
  <2>3. f \in [D -> Int] /\ f[x] \in Nat OBVIOUS
  <2>4. Total(f, s) = f[x] + Total(f, q) BY <2>1, <2>2, <2>3, TotalElement
  <2>5. Total(f, q \cap S) <= Total(f, q) BY <1>3, <2>1
  <2>6. /\ Total(f, s) \in Nat /\ Total(f, q) \in Nat
        /\ Total(f, s \cap S) \in Nat /\ Total(f, q \cap S) \in Nat
    BY <2>1, <1>1
  <2>7. CASE x \in S
    <3>1. (s \cap S) \ {x} = q \cap S /\ x \in s \cap S BY <2>1, <2>7
    <3>2. Total(f, s \cap S) = f[x] + Total(f, q \cap S) BY <3>1, <2>2, <2>3, TotalElement
    <3> QED BY <3>2, <2>3, <2>4, <2>5, <2>6
  <2>8. CASE x \notin S
    <3>1. s \cap S = q \cap S BY <2>1, <2>8
    <3>2. Total(f, q) <= Total(f, s) BY <2>3, <2>4, <2>6
    <3>3. Total(f, s \cap S) <= Total(f, s) BY <3>1, <3>2, <2>5, <2>6
    <3> QED BY <3>3
  <2> QED BY <2>7, <2>8
<1> HIDE DEF C
<1>4. \A s \in SUBSET R : s \in C BY <1>2, <1>3, SubsetInduct
<1>5. R \cap S = S OBVIOUS
<1> QED BY <1>4, <1>5 DEF C
===============================================================================

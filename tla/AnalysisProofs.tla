---------------------------- MODULE AnalysisProofs ----------------------------
(***************************************************************************)
(* What holds of the procedures of the analysis (Algorithms) for tables    *)
(* and families of every size, and the lemmas about induction, sums and    *)
(* statistics that this and ScriptsProofs rest on.                         *)
(***************************************************************************)
EXTENDS Algorithms, FiniteSetTheorems, SequenceTheorems, TLAPS

-----------------------------------------------------------------------------
(* Induction over numbers and over finite sets, division, and sums.        *)

\* A set of numbers with 0 and with the successor of each of its members has them all.
LEMMA NatSetInduction ==
  ASSUME NEW S \in SUBSET Nat, 0 \in S, \A n \in S : n + 1 \in S
  PROVE  S = Nat
<1> SUFFICES ASSUME Nat \ S # {} PROVE FALSE
  OBVIOUS
<1>1. PICK x \in Nat \ S : \A y \in Nat \ S : ~(<<y, x>> \in OpToRel(<, Nat))
  BY NatLessThanWellFounded, WFMin
<1>2. \A y \in Nat \ S : ~(y < x)
  BY <1>1 DEF OpToRel
<1>3. x # 0 /\ x - 1 \in Nat /\ x - 1 < x
  OBVIOUS
<1>4. x - 1 \in S
  BY <1>2, <1>3
<1>5. (x - 1) + 1 = x
  OBVIOUS
<1>6. QED
  BY <1>4, <1>5

\* A family with {} that stays in it when one element is added has every subset.
LEMMA FiniteSetInduction ==
  ASSUME NEW S, IsFiniteSet(S), NEW F, {} \in F,
         \A T \in F, x \in S : T \subseteq S /\ x \notin T => T \cup {x} \in F
  PROVE  \A T \in SUBSET S : T \in F
<1> DEFINE Done == {n \in Nat : \A T \in SUBSET S : Cardinality(T) = n => T \in F}
<1>1. \A T \in SUBSET S : IsFiniteSet(T) /\ Cardinality(T) \in Nat
  BY FS_Subset, FS_CardinalityType
<1>2. 0 \in Done
  BY <1>1, FS_EmptySet
<1>3. ASSUME NEW n \in Done PROVE n + 1 \in Done
  <2>1. n + 1 \in Nat
    OBVIOUS
  <2>2. ASSUME NEW T \in SUBSET S, Cardinality(T) = n + 1 PROVE T \in F
    <3>1. T # {}
      BY <2>2, FS_EmptySet
    <3>2. PICK x \in T : TRUE
      BY <3>1
    <3>3. Cardinality(T \ {x}) = n /\ T \ {x} \in SUBSET S
      BY <1>1, <2>2, <3>2, FS_RemoveElement
    <3>4. T \ {x} \in F
      BY <3>3
    <3>5. (T \ {x}) \cup {x} = T
      BY <3>2
    <3>6. QED
      BY <3>4, <3>5, <3>2
  <2>3. QED
    BY <2>1, <2>2
<1>4. Done = Nat
  <2> HIDE DEF Done
  <2>1. Done \in SUBSET Nat
    BY DEF Done
  <2>2. QED
    BY <1>2, <1>3, <2>1, NatSetInduction
<1>5. QED
  BY <1>1, <1>4

\* Division with remainder, as the positions of the cells use it.
LEMMA DivMod == \A L \in Nat \ {0}, n \in Nat :
                  /\ n % L \in 0 .. L - 1 /\ n \div L \in Nat
                  /\ n = L * (n \div L) + (n % L) /\ n = (n \div L) * L + (n % L)
  OBVIOUS

\* Quotient and remainder are unique.
LEMMA DivUnique ==
  ASSUME NEW d \in Nat \ {0}, NEW q \in Nat, NEW r \in 0 .. d - 1, NEW a, a = q * d + r
  PROVE  a \div d = q /\ a % d = r
<1>1. a \in Nat
  <2>1. \A x, y \in Nat : x * y \in Nat
    OBVIOUS
  <2>2. QED
    BY <2>1
<1>2. PICK u \in Nat, s \in 0 .. d - 1 : u = a \div d /\ s = a % d /\ a = u * d + s
  BY <1>1, DivMod
<1>3. \A x, y \in Nat : x < y => x * d \in Nat /\ y * d \in Nat /\ x * d + d <= y * d
  <2> SUFFICES ASSUME NEW x \in Nat, NEW y \in Nat, x < y
               PROVE x * d \in Nat /\ y * d \in Nat /\ x * d + d <= y * d
    OBVIOUS
  <2>1. \A k, l \in Nat : k <= l => k * d \in Nat /\ k * d <= l * d
    OBVIOUS
  <2>2. (x + 1) * d <= y * d /\ (x + 1) * d = x * d + d
    BY <2>1
  <2>3. QED
    BY <2>1, <2>2
<1>4. u = q
  <2>1. ~(u < q)
    BY <1>2, <1>3
  <2>2. ~(q < u)
    BY <1>2, <1>3
  <2>3. QED
    BY <2>1, <2>2
<1>5. QED
  BY <1>2, <1>4

\* A finite set of numbers has a least and a greatest member.
LEMMA LeastAndGreatest ==
  ASSUME NEW S \in SUBSET Int, IsFiniteSet(S), S # {}
  PROVE  /\ \E a \in S : \A x \in S : a <= x
         /\ \E b \in S : \A x \in S : x <= b
<1> DEFINE F == {T \in SUBSET S : T # {} => /\ \E a \in T : \A x \in T : a <= x
                                            /\ \E b \in T : \A x \in T : x <= b}
<1>1. {} \in F
  OBVIOUS
<1>2. ASSUME NEW T \in F, NEW y \in S, T \subseteq S, y \notin T PROVE T \cup {y} \in F
  <2>1. CASE T = {}
    BY <2>1
  <2>2. CASE T # {}
    <3>1. PICK a \in T : \A x \in T : a <= x
      BY <2>2
    <3>2. PICK b \in T : \A x \in T : x <= b
      BY <2>2
    <3>3. \A x \in T \cup {y} : x \in Int
      BY <1>2
    <3>4. \E c \in T \cup {y} : \A x \in T \cup {y} : c <= x
      <4>1. CASE a <= y
        BY <3>1, <4>1
      <4>2. CASE ~(a <= y)
        <5>1. \A x \in T \cup {y} : y <= x
          BY <3>1, <3>3, <4>2
        <5>2. QED
          BY <5>1
      <4>3. QED
        BY <4>1, <4>2
    <3>5. \E c \in T \cup {y} : \A x \in T \cup {y} : x <= c
      <4>1. CASE y <= b
        BY <3>2, <4>1
      <4>2. CASE ~(y <= b)
        <5>1. \A x \in T \cup {y} : x <= y
          BY <3>2, <3>3, <4>2
        <5>2. QED
          BY <5>1
      <4>3. QED
        BY <4>1, <4>2
    <3>6. QED
      BY <3>4, <3>5
  <2>3. QED
    BY <2>1, <2>2
<1> HIDE DEF F
<1>3. \A T \in SUBSET S : T \in F
  BY <1>1, <1>2, FiniteSetInduction
<1>4. S \in F
  BY <1>3
<1>5. QED
  BY <1>4 DEF F

\* A finite set in two parts.
LEMMA CountsAdd ==
  ASSUME NEW S, IsFiniteSet(S), NEW A \in SUBSET S, NEW B \in SUBSET S, A \cap B = {}
  PROVE  Cardinality(A) \in Nat /\ Cardinality(B) \in Nat
         /\ Cardinality(A \cup B) = Cardinality(A) + Cardinality(B)
<1>1. IsFiniteSet(A) /\ IsFiniteSet(B)
  BY FS_Subset
<1>2. Cardinality(A \cap B) = 0
  BY FS_EmptySet
<1>3. Cardinality(A) \in Nat /\ Cardinality(B) \in Nat
  BY <1>1, FS_CardinalityType
<1>4. Cardinality(A \cup B) = Cardinality(A) + Cardinality(B) - Cardinality(A \cap B)
  BY <1>1, FS_Union
<1>5. QED
  BY <1>2, <1>3, <1>4

\* The sum of f over S.
SumOver(f, S) == MapThenSumSet(LAMBDA v : f[v], S)

\* What a sum over sets is: nothing of the order in which the elements are taken is left.
IsSum(f, S, g) ==
  /\ g \in [SUBSET S -> Int]
  /\ g[{}] = 0
  /\ \A T \in SUBSET S, x \in S : x \notin T => g[T \cup {x}] = f[x] + g[T]

\* Some g sums f over the subsets of S, one element after the other.
LEMMA SumExists ==
  ASSUME NEW f, NEW S, IsFiniteSet(S), \A x \in S : f[x] \in Int
  PROVE  \E g : IsSum(f, S, g)
<1> DEFINE F == {T \in SUBSET S : \E g : IsSum(f, T, g)}
<1>1. {} \in F
  <2>1. IsSum(f, {}, [T \in SUBSET {} |-> 0])
    BY DEF IsSum
  <2>2. QED
    BY <2>1
<1>2. ASSUME NEW T \in F, NEW y \in S, T \subseteq S, y \notin T PROVE T \cup {y} \in F
  <2>1. PICK g : IsSum(f, T, g)
    OBVIOUS
  <2> DEFINE h == [U \in SUBSET (T \cup {y}) |-> IF y \in U THEN f[y] + g[U \ {y}] ELSE g[U]]
  <2>2. \A U \in SUBSET (T \cup {y}) : U \ {y} \in SUBSET T /\ (y \notin U => U \in SUBSET T)
    OBVIOUS
  <2>3. g \in [SUBSET T -> Int] /\ f[y] \in Int /\ \A x \in T : f[x] \in Int
    BY <2>1 DEF IsSum
  <2>4. h \in [SUBSET (T \cup {y}) -> Int]
    BY <2>2, <2>3
  <2>5. h[{}] = 0
    BY <2>1 DEF IsSum
  <2>6. ASSUME NEW U \in SUBSET (T \cup {y}), NEW x \in T \cup {y}, x \notin U
        PROVE  h[U \cup {x}] = f[x] + h[U]
    <3>0. U \cup {x} \in SUBSET (T \cup {y}) /\ U \ {y} \in SUBSET T
      BY <2>6
    <3>1. CASE x = y
      <4>1. (U \cup {x}) \ {y} = U /\ y \notin U /\ y \in U \cup {x} /\ U \in SUBSET T
        BY <2>6, <3>1
      <4>2. h[U \cup {x}] = f[y] + g[U] /\ h[U] = g[U]
        BY <3>0, <4>1
      <4>3. QED
        BY <3>1, <4>2
    <3>2. CASE x # y /\ y \in U
      <4>1. (U \cup {x}) \ {y} = (U \ {y}) \cup {x} /\ x \in T /\ x \notin U \ {y}
        BY <2>6, <3>2
      <4>2. h[U \cup {x}] = f[y] + g[(U \ {y}) \cup {x}] /\ h[U] = f[y] + g[U \ {y}]
        BY <3>0, <3>2, <4>1
      <4>3. g[(U \ {y}) \cup {x}] = f[x] + g[U \ {y}]
        BY <2>1, <3>0, <4>1 DEF IsSum
      <4>4. g[U \ {y}] \in Int /\ f[x] \in Int
        BY <2>3, <3>0, <4>1
      <4>5. QED
        BY <2>3, <4>2, <4>3, <4>4
    <3>3. CASE x # y /\ y \notin U
      <4>1. h[U \cup {x}] = g[U \cup {x}] /\ h[U] = g[U] /\ x \in T /\ U \in SUBSET T
        BY <2>6, <3>0, <3>3
      <4>2. QED
        BY <2>1, <2>6, <4>1 DEF IsSum
    <3>4. QED
      BY <3>1, <3>2, <3>3
  <2>7. IsSum(f, T \cup {y}, h)
    <3> HIDE DEF h
    <3>1. QED
      BY <2>4, <2>5, <2>6 DEF IsSum
  <2>8. QED
    BY <2>7
<1> HIDE DEF F
<1>3. \A T \in SUBSET S : T \in F
  BY <1>1, <1>2, FiniteSetInduction
<1>4. S \in F
  BY <1>3
<1>5. QED
  BY <1>4 DEF F

\* The fold of MapThenSumSet computes it.
LEMMA SumIsFold ==
  ASSUME NEW f, NEW S, IsFiniteSet(S), \A x \in S : f[x] \in Int, NEW g, IsSum(f, S, g)
  PROVE  SumOver(f, S) = g[S]
<1> DEFINE pick(s) == CHOOSE x \in s : TRUE
           step(h) == [s \in SUBSET S |-> IF s = {} THEN 0 ELSE f[pick(s)] + h[s \ {pick(s)}]]
           fold == CHOOSE h : h = step(h)
<1>1. SumOver(f, S) = fold[S]
  BY Zenon DEF SumOver, MapThenSumSet, MapThenFoldSet
<1>2. \A s \in SUBSET S : s # {} => pick(s) \in s
  OBVIOUS
<1> HIDE DEF pick
<1>3. g = step(g)
  <2>1. ASSUME NEW s \in SUBSET S, s # {} PROVE g[s] = f[pick(s)] + g[s \ {pick(s)}]
    <3>1. (s \ {pick(s)}) \cup {pick(s)} = s /\ pick(s) \in S /\ s \ {pick(s)} \in SUBSET S
      BY <1>2, <2>1
    <3>2. QED
      BY <3>1 DEF IsSum
  <2>2. g = [s \in SUBSET S |-> g[s]] /\ g[{}] = 0
    BY DEF IsSum
  <2>3. QED
    BY <2>1, <2>2
<1>4. fold = step(fold)
  <2> HIDE DEF step
  <2>1. QED
    BY <1>3
<1> DEFINE G == {s \in SUBSET S : fold[s] = g[s]}
<1>5. {} \in G
  <2>1. step(fold)[{}] = 0 /\ g[{}] = 0
    BY DEF IsSum
  <2> HIDE DEF step, fold
  <2>2. QED
    BY <1>4, <2>1
<1>6. \A s \in SUBSET S : s # {} => fold[s] = f[pick(s)] + fold[s \ {pick(s)}]
  <2>1. \A s \in SUBSET S : s # {} => step(fold)[s] = f[pick(s)] + fold[s \ {pick(s)}]
    OBVIOUS
  <2> HIDE DEF step, fold
  <2>2. QED
    BY <1>4, <2>1
<1>7. \A s \in SUBSET S : s # {} => g[s] = f[pick(s)] + g[s \ {pick(s)}]
  <2>1. \A s \in SUBSET S : s # {} => step(g)[s] = f[pick(s)] + g[s \ {pick(s)}]
    OBVIOUS
  <2> HIDE DEF step
  <2>2. QED
    BY <1>3, <2>1
<1> HIDE DEF step, fold
<1>8. \A n \in Nat : \A s \in SUBSET S : Cardinality(s) = n => s \in G
  <2> DEFINE P == {n \in Nat : \A s \in SUBSET S : Cardinality(s) = n => s \in G}
  <2>1. \A s \in SUBSET S : IsFiniteSet(s) /\ Cardinality(s) \in Nat
    BY FS_Subset, FS_CardinalityType
  <2>2. 0 \in P
    BY <1>5, <2>1, FS_EmptySet
  <2>3. ASSUME NEW n \in P PROVE n + 1 \in P
    <3>1. ASSUME NEW s \in SUBSET S, Cardinality(s) = n + 1 PROVE s \in G
      <4>1. s # {}
        BY <3>1, FS_EmptySet
      <4>2. pick(s) \in s /\ s \ {pick(s)} \in SUBSET S /\ Cardinality(s \ {pick(s)}) = n
        <5>1. pick(s) \in s /\ s \ {pick(s)} \in SUBSET S
          BY <1>2, <4>1
        <5>2. Cardinality(s \ {pick(s)}) = Cardinality(s) - 1
          BY <2>1, <5>1, FS_RemoveElement
        <5>3. n \in Nat
          OBVIOUS
        <5>4. QED
          BY <3>1, <5>1, <5>2, <5>3
      <4>3. s \ {pick(s)} \in G
        BY <4>2
      <4>4. QED
        BY <1>6, <1>7, <4>1, <4>3
    <3>2. QED
      BY <3>1
  <2> HIDE DEF P
  <2>4. P = Nat
    <3>1. P \in SUBSET Nat
      BY DEF P
    <3>2. QED
      BY <2>2, <2>3, <3>1, NatSetInduction
  <2>5. QED
    BY <2>4 DEF P
<1>9. S \in G
  BY <1>8, FS_CardinalityType
<1>10. QED
  BY <1>1, <1>9

\* A sum over a finite set takes one element after the other, in any order.
LEMMA SumTakes ==
  ASSUME NEW f, NEW S, IsFiniteSet(S), \A x \in S : f[x] \in Int
  PROVE  /\ SumOver(f, S) \in Int
         /\ SumOver(f, {}) = 0
         /\ \A T \in SUBSET S : SumOver(f, T) \in Int
         /\ \A T \in SUBSET S, x \in S : x \notin T => SumOver(f, T \cup {x}) = f[x] + SumOver(f, T)
<1>1. PICK g : IsSum(f, S, g)
  BY SumExists
<1>2. ASSUME NEW T \in SUBSET S PROVE SumOver(f, T) = g[T]
  <2>1. IsSum(f, T, [U \in SUBSET T |-> g[U]])
    <3> DEFINE h == [U \in SUBSET T |-> g[U]]
    <3>1. h \in [SUBSET T -> Int]
      BY <1>1 DEF IsSum
    <3>2. h[{}] = 0
      BY <1>1 DEF IsSum
    <3>3. ASSUME NEW U \in SUBSET T, NEW x \in T, x \notin U PROVE h[U \cup {x}] = f[x] + h[U]
      <4>1. U \in SUBSET S /\ x \in S /\ U \cup {x} \in SUBSET T
        OBVIOUS
      <4>2. g[U \cup {x}] = f[x] + g[U]
        BY <1>1, <3>3, <4>1 DEF IsSum
      <4>3. QED
        BY <4>1, <4>2
    <3> HIDE DEF h
    <3>4. IsSum(f, T, h)
      BY <3>1, <3>2, <3>3 DEF IsSum
    <3>5. QED
      BY <3>4 DEF h
  <2>2. IsFiniteSet(T) /\ \A x \in T : f[x] \in Int
    BY FS_Subset
  <2> DEFINE h == [U \in SUBSET T |-> g[U]]
  <2>3. h[T] = g[T]
    OBVIOUS
  <2> HIDE DEF h
  <2>4. SumOver(f, T) = h[T]
    <3>1. IsSum(f, T, h)
      BY <2>1 DEF h
    <3>2. QED
      BY <2>2, <3>1, SumIsFold
  <2>5. QED
    BY <2>3, <2>4
<1>3. ASSUME NEW T \in SUBSET S, NEW x \in S, x \notin T
      PROVE  SumOver(f, T \cup {x}) = f[x] + SumOver(f, T)
  <2>1. T \cup {x} \in SUBSET S
    OBVIOUS
  <2>2. g[T \cup {x}] = f[x] + g[T]
    BY <1>1, <1>3 DEF IsSum
  <2>3. QED
    BY <1>2, <2>1, <2>2
<1>4. \A T \in SUBSET S : SumOver(f, T) \in Int
  BY <1>1, <1>2 DEF IsSum
<1>5. SumOver(f, {}) = 0
  BY <1>1, <1>2 DEF IsSum
<1>6. QED
  BY <1>3, <1>4, <1>5

\* Sums over disjoint sets add up, and over more of what is not negative they are not less.
LEMMA SumAdds ==
  ASSUME NEW f, NEW S, IsFiniteSet(S), \A x \in S : f[x] \in Int,
         NEW A \in SUBSET S, NEW B \in SUBSET S, A \cap B = {}
  PROVE  SumOver(f, A \cup B) = SumOver(f, A) + SumOver(f, B)
<1>0. \A T \in SUBSET S, x \in S : x \notin T => SumOver(f, T \cup {x}) = f[x] + SumOver(f, T)
  BY SumTakes
<1> DEFINE F == {T \in SUBSET B : SumOver(f, A \cup T) = SumOver(f, A) + SumOver(f, T)}
<1>1. {} \in F
  <2>1. A \cup {} = A
    OBVIOUS
  <2>2. SumOver(f, A) \in Int /\ SumOver(f, {}) = 0
    BY SumTakes
  <2>3. QED
    BY <2>1, <2>2
<1>2. ASSUME NEW T \in F, NEW x \in B, T \subseteq B, x \notin T PROVE T \cup {x} \in F
  <2>0. PICK U : U = A \cup T
    OBVIOUS
  <2>1. A \cup (T \cup {x}) = U \cup {x} /\ x \notin U /\ U \in SUBSET S /\ T \in SUBSET S /\ x \in S
    BY <1>2, <2>0
  <2>2. SumOver(f, U \cup {x}) = f[x] + SumOver(f, U)
    BY <1>0, <2>1
  <2>3. SumOver(f, T \cup {x}) = f[x] + SumOver(f, T)
    BY <1>0, <1>2, <2>1
  <2>4. SumOver(f, U) = SumOver(f, A) + SumOver(f, T)
    BY <2>0
  <2>5. SumOver(f, A) \in Int /\ SumOver(f, T) \in Int /\ f[x] \in Int
    BY <2>1, SumTakes
  <2> HIDE DEF F
  <2>6. SumOver(f, A \cup (T \cup {x})) = SumOver(f, A) + SumOver(f, T \cup {x})
    <3>1. SumOver(f, A \cup (T \cup {x})) = f[x] + SumOver(f, U)
      BY <2>1, <2>2, Zenon
    <3>2. QED
      BY <2>3, <2>4, <2>5, <3>1
  <2>7. QED
    BY <1>2, <2>6 DEF F
<1>3. IsFiniteSet(B)
  BY FS_Subset
<1> HIDE DEF F
<1>4. \A T \in SUBSET B : T \in F
  BY <1>1, <1>2, <1>3, FiniteSetInduction
<1>5. B \in F
  BY <1>4
<1>6. QED
  BY <1>5 DEF F

\* Sums of naturals: naturals that grow with the set, no less than each term, and positive
\* only with a positive term.
LEMMA SumOfNat ==
  ASSUME NEW f, NEW S, IsFiniteSet(S), \A x \in S : f[x] \in Nat
  PROVE  /\ \A T \in SUBSET S : SumOver(f, T) \in Nat
         /\ \A T \in SUBSET S : \A U \in SUBSET T : SumOver(f, U) <= SumOver(f, T)
         /\ \A T \in SUBSET S : \A x \in T : f[x] <= SumOver(f, T)
         /\ \A T \in SUBSET S : SumOver(f, T) > 0 => \E x \in T : f[x] > 0
<1>0. \A x \in S : f[x] \in Int
  OBVIOUS
<1> DEFINE F == {T \in SUBSET S : SumOver(f, T) \in Nat /\ (SumOver(f, T) > 0 => \E x \in T : f[x] > 0)}
<1>1. {} \in F
  <2>1. SumOver(f, {}) = 0
    BY <1>0, SumTakes
  <2>2. QED
    BY <2>1
<1>2. ASSUME NEW T \in F, NEW x \in S, T \subseteq S, x \notin T PROVE T \cup {x} \in F
  <2>1. SumOver(f, T \cup {x}) = f[x] + SumOver(f, T)
    BY <1>0, <1>2, SumTakes
  <2>2. SumOver(f, T) \in Nat /\ f[x] \in Nat /\ (SumOver(f, T) > 0 => \E y \in T : f[y] > 0)
    OBVIOUS
  <2>3. T \cup {x} \in SUBSET S
    BY <1>2
  <2> HIDE DEF F
  <2>4. SumOver(f, T \cup {x}) \in Nat
    BY <2>1, <2>2
  <2>5. SumOver(f, T \cup {x}) > 0 => \E y \in T \cup {x} : f[y] > 0
    BY <2>1, <2>2
  <2>6. QED
    BY <2>3, <2>4, <2>5 DEF F
<1> HIDE DEF F
<1>3. \A T \in SUBSET S : T \in F
  BY <1>1, <1>2, FiniteSetInduction
<1>4. \A T \in SUBSET S : SumOver(f, T) \in Nat /\ (SumOver(f, T) > 0 => \E x \in T : f[x] > 0)
  BY <1>3 DEF F
<1>5. ASSUME NEW T \in SUBSET S, NEW U \in SUBSET T PROVE SumOver(f, U) <= SumOver(f, T)
  <2>0. PICK V : V = T \ U
    OBVIOUS
  <2>1. U \cup V = T /\ U \cap V = {} /\ U \in SUBSET S /\ V \in SUBSET S
    BY <2>0
  <2>2. SumOver(f, U \cup V) = SumOver(f, U) + SumOver(f, V)
    BY <1>0, <2>1, SumAdds
  <2>3. SumOver(f, U) \in Nat /\ SumOver(f, V) \in Nat
    BY <1>4, <2>1
  <2>4. SumOver(f, T) = SumOver(f, U) + SumOver(f, V)
    BY <2>1, <2>2, Zenon
  <2>5. QED
    BY <2>3, <2>4
<1>6. ASSUME NEW T \in SUBSET S, NEW x \in T PROVE f[x] <= SumOver(f, T)
  <2>0. PICK V : V = T \ {x}
    OBVIOUS
  <2>1. V \cup {x} = T /\ x \notin V /\ V \in SUBSET S /\ x \in S
    BY <2>0
  <2>2. SumOver(f, V \cup {x}) = f[x] + SumOver(f, V)
    <3>1. \A W \in SUBSET S, y \in S : y \notin W => SumOver(f, W \cup {y}) = f[y] + SumOver(f, W)
      BY <1>0, SumTakes
    <3>2. QED
      BY <2>1, <3>1
  <2>3. SumOver(f, V) \in Nat /\ f[x] \in Nat
    BY <1>4, <2>1
  <2>4. QED
    BY <2>1, <2>2, <2>3
<1>7. QED
  BY <1>4, <1>5, <1>6

\* A sum depends on what is added only.
LEMMA SumSame ==
  ASSUME NEW S, IsFiniteSet(S), NEW f, NEW g, \A x \in S : f[x] \in Int /\ f[x] = g[x]
  PROVE  SumOver(f, S) = SumOver(g, S)
<1> DEFINE F == {T \in SUBSET S : SumOver(f, T) = SumOver(g, T)}
<1>0. (\A x \in S : f[x] \in Int) /\ (\A x \in S : g[x] \in Int)
  OBVIOUS
<1>1. /\ SumOver(f, {}) = 0
      /\ \A T \in SUBSET S, x \in S : x \notin T => SumOver(f, T \cup {x}) = f[x] + SumOver(f, T)
  BY <1>0, SumTakes
<1>2. /\ SumOver(g, {}) = 0
      /\ \A T \in SUBSET S, x \in S : x \notin T => SumOver(g, T \cup {x}) = g[x] + SumOver(g, T)
  BY <1>0, SumTakes
<1>3. {} \in F
  BY <1>1, <1>2
<1>4. ASSUME NEW T \in F, NEW y \in S, T \subseteq S, y \notin T PROVE T \cup {y} \in F
  <2>1. SumOver(f, T \cup {y}) = f[y] + SumOver(f, T)
    BY <1>1, <1>4
  <2>2. SumOver(g, T \cup {y}) = g[y] + SumOver(g, T)
    BY <1>2, <1>4
  <2>3. f[y] = g[y] /\ SumOver(f, T) = SumOver(g, T)
    OBVIOUS
  <2>4. SumOver(f, T \cup {y}) = SumOver(g, T \cup {y})
    BY <2>1, <2>2, <2>3
  <2>5. QED
    BY <1>4, <2>4
<1> HIDE DEF F
<1>5. \A T \in SUBSET S : T \in F
  BY <1>3, <1>4, FiniteSetInduction
<1>6. S \in F
  BY <1>5
<1>7. QED
  BY <1>6 DEF F

\* The groups of a finite set by the value of a function share it out.
LEMMA GroupsShareOut ==
  ASSUME NEW S, IsFiniteSet(S), NEW B, IsFiniteSet(B), NEW f, \A x \in S : f[x] \in B
  PROVE  SumOver([b \in B |-> Cardinality({x \in S : f[x] = b})], B) = Cardinality(S)
<1> DEFINE of(T) == [b \in B |-> Cardinality({x \in T : f[x] = b})]
           F == {T \in SUBSET S : SumOver(of(T), B) = Cardinality(T)}
<1>0. \A T \in SUBSET S : IsFiniteSet(T) /\ Cardinality(T) \in Nat
  BY FS_Subset, FS_CardinalityType
<1>1. \A T \in SUBSET S : \A b \in B : of(T)[b] \in Int
  <2> TAKE T \in SUBSET S
  <2> TAKE b \in B
  <2>1. {x \in T : f[x] = b} \in SUBSET S
    OBVIOUS
  <2>2. QED
    BY <1>0, <2>1
<1>2. {} \in F
  <2>1. \A b \in B : of({})[b] = 0
    BY FS_EmptySet
  <2> DEFINE E == {C \in SUBSET B : SumOver(of({}), C) = 0}
  <2> HIDE DEF of
  <2>2. /\ SumOver(of({}), {}) = 0
        /\ \A C \in SUBSET B, x \in B : x \notin C =>
             SumOver(of({}), C \cup {x}) = of({})[x] + SumOver(of({}), C)
    BY <1>1, SumTakes
  <2>3. {} \in E
    BY <2>2
  <2>4. ASSUME NEW C \in E, NEW y \in B, C \subseteq B, y \notin C PROVE C \cup {y} \in E
    <3>1. SumOver(of({}), C \cup {y}) = 0 + 0
      BY <2>1, <2>2, <2>4
    <3>2. QED
      BY <2>4, <3>1
  <2> HIDE DEF E
  <2>5. \A C \in SUBSET B : C \in E
    BY <2>3, <2>4, FiniteSetInduction
  <2>6. B \in E
    BY <2>5
  <2>7. SumOver(of({}), B) = 0
    BY <2>6 DEF E
  <2>8. QED
    BY <2>7, FS_EmptySet
<1>3. ASSUME NEW T \in F, NEW y \in S, T \subseteq S, y \notin T PROVE T \cup {y} \in F
  <2>0. PICK U : U = T \cup {y}
    OBVIOUS
  <2>1. U \in SUBSET S /\ T \in SUBSET S /\ f[y] \in B
    BY <1>3, <2>0
  <2>2. PICK C : C = B \ {f[y]}
    OBVIOUS
  <2>3. C \in SUBSET B /\ f[y] \notin C /\ C \cup {f[y]} = B /\ IsFiniteSet(C)
    BY <2>1, <2>2, FS_Subset
  <2>4. \A b \in C : of(U)[b] = of(T)[b]
    <3> TAKE b \in C
    <3>1. {x \in U : f[x] = b} = {x \in T : f[x] = b} /\ b \in B
      BY <2>0, <2>3
    <3>2. QED
      BY <3>1
  <2>5. of(U)[f[y]] = of(T)[f[y]] + 1
    <3> DEFINE A == {x \in T : f[x] = f[y]}
    <3>1. {x \in U : f[x] = f[y]} = A \cup {y} /\ y \notin A /\ A \in SUBSET S
      BY <1>3, <2>0
    <3>2. Cardinality(A \cup {y}) = Cardinality(A) + 1
      BY <1>0, <3>1, FS_AddElement
    <3>3. QED
      BY <2>1, <3>1, <3>2
  <2> HIDE DEF of
  <2>6. SumOver(of(U), C) = SumOver(of(T), C)
    <3>1. \A b \in C : of(T)[b] \in Int /\ of(T)[b] = of(U)[b]
      BY <1>1, <2>1, <2>3, <2>4
    <3>2. QED
      BY <2>3, <3>1, SumSame
  <2>7. SumOver(of(U), C \cup {f[y]}) = of(U)[f[y]] + SumOver(of(U), C)
    <3>1. \A b \in B : of(U)[b] \in Int
      BY <1>1, <2>1
    <3>2. \A D \in SUBSET B, b \in B : b \notin D =>
             SumOver(of(U), D \cup {b}) = of(U)[b] + SumOver(of(U), D)
      BY <3>1, SumTakes
    <3>3. QED
      BY <2>1, <2>3, <3>2
  <2>8. SumOver(of(T), C \cup {f[y]}) = of(T)[f[y]] + SumOver(of(T), C) /\ SumOver(of(T), C) \in Int
    <3>1. \A b \in B : of(T)[b] \in Int
      BY <1>1, <2>1
    <3>2. /\ \A D \in SUBSET B, b \in B : b \notin D =>
               SumOver(of(T), D \cup {b}) = of(T)[b] + SumOver(of(T), D)
          /\ \A D \in SUBSET B : SumOver(of(T), D) \in Int
      BY <3>1, SumTakes
    <3>3. QED
      BY <2>1, <2>3, <3>2
  <2>9. SumOver(of(U), B) = of(U)[f[y]] + SumOver(of(U), C)
    BY <2>3, <2>7, Zenon
  <2>10. SumOver(of(T), B) = of(T)[f[y]] + SumOver(of(T), C)
    BY <2>3, <2>8, Zenon
  <2>11. of(T)[f[y]] \in Int /\ SumOver(of(T), B) = Cardinality(T)
    BY <1>1, <2>1
  <2>12. SumOver(of(U), B) = Cardinality(T) + 1
    BY <2>5, <2>6, <2>8, <2>9, <2>10, <2>11
  <2>13. Cardinality(T \cup {y}) = Cardinality(T) + 1
    BY <1>0, <1>3, <2>1, FS_AddElement
  <2>14. SumOver(of(U), B) = Cardinality(U)
    BY <2>0, <2>12, <2>13, Zenon
  <2> HIDE DEF F
  <2>15. U \in F
    BY <2>1, <2>14 DEF F
  <2>16. QED
    BY <2>0, <2>15
<1> HIDE DEF F
<1>4. \A T \in SUBSET S : T \in F
  BY <1>2, <1>3, FiniteSetInduction
<1>5. S \in F
  BY <1>4
<1>6. SumOver(of(S), B) = Cardinality(S)
  BY <1>5 DEF F
<1>7. QED
  BY <1>6

\* The values of a function on a finite set are finitely many.
LEMMA FiniteImage ==
  ASSUME NEW S, IsFiniteSet(S), NEW f
  PROVE  IsFiniteSet({f[x] : x \in S})
<1> DEFINE B == {f[x] : x \in S}
           g == [x \in S |-> f[x]]
<1>1. g \in Surjection(S, B)
  BY Zenon DEF Surjection
<1> HIDE DEF B, g
<1>2. IsFiniteSet(B)
  BY <1>1, FS_Surjection
<1>3. QED
  BY <1>2 DEF B

\* A sum of products is at least, or at most, the bound of one factor times the sum of the
\* other.
LEMMA SumScaled ==
  ASSUME NEW S, IsFiniteSet(S), NEW c, NEW t, NEW m \in Int,
         \A x \in S : c[x] \in Int /\ t[x] \in Int
  PROVE  /\ (\A x \in S : m * c[x] <= t[x]) => m * SumOver(c, S) <= SumOver(t, S)
         /\ (\A x \in S : t[x] <= m * c[x]) => SumOver(t, S) <= m * SumOver(c, S)
<1> DEFINE F == {T \in SUBSET S :
                   /\ (\A x \in S : m * c[x] <= t[x]) => m * SumOver(c, T) <= SumOver(t, T)
                   /\ (\A x \in S : t[x] <= m * c[x]) => SumOver(t, T) <= m * SumOver(c, T)}
<1>0. (\A x \in S : c[x] \in Int) /\ (\A x \in S : t[x] \in Int)
  OBVIOUS
<1>1. /\ SumOver(c, {}) = 0 /\ \A T \in SUBSET S : SumOver(c, T) \in Int
      /\ \A T \in SUBSET S, x \in S : x \notin T => SumOver(c, T \cup {x}) = c[x] + SumOver(c, T)
  BY <1>0, SumTakes
<1>2. /\ SumOver(t, {}) = 0 /\ \A T \in SUBSET S : SumOver(t, T) \in Int
      /\ \A T \in SUBSET S, x \in S : x \notin T => SumOver(t, T \cup {x}) = t[x] + SumOver(t, T)
  BY <1>0, SumTakes
<1>3. {} \in F
  BY <1>1, <1>2
<1>4. ASSUME NEW T \in F, NEW y \in S, T \subseteq S, y \notin T PROVE T \cup {y} \in F
  <2>1. SumOver(c, T \cup {y}) = c[y] + SumOver(c, T) /\ SumOver(t, T \cup {y}) = t[y] + SumOver(t, T)
    BY <1>1, <1>2, <1>4
  <2>2. SumOver(c, T) \in Int /\ SumOver(t, T) \in Int /\ c[y] \in Int /\ t[y] \in Int
    BY <1>1, <1>2, <1>4
  <2>3. m * (c[y] + SumOver(c, T)) = m * c[y] + m * SumOver(c, T)
        /\ m * c[y] \in Int /\ m * SumOver(c, T) \in Int
    BY <2>2
  <2>4. /\ (\A x \in S : m * c[x] <= t[x]) => m * SumOver(c, T) <= SumOver(t, T) /\ m * c[y] <= t[y]
        /\ (\A x \in S : t[x] <= m * c[x]) => SumOver(t, T) <= m * SumOver(c, T) /\ t[y] <= m * c[y]
    OBVIOUS
  <2>5. /\ (\A x \in S : m * c[x] <= t[x]) => m * (c[y] + SumOver(c, T)) <= t[y] + SumOver(t, T)
        /\ (\A x \in S : t[x] <= m * c[x]) => t[y] + SumOver(t, T) <= m * (c[y] + SumOver(c, T))
    BY <2>2, <2>3, <2>4
  <2> HIDE DEF F
  <2>6. /\ (\A x \in S : m * c[x] <= t[x]) => m * SumOver(c, T \cup {y}) <= SumOver(t, T \cup {y})
        /\ (\A x \in S : t[x] <= m * c[x]) => SumOver(t, T \cup {y}) <= m * SumOver(c, T \cup {y})
    BY <2>1, <2>5, Zenon
  <2>7. T \cup {y} \in SUBSET S
    BY <1>4
  <2>8. QED
    BY <2>6, <2>7, Zenon DEF F
<1> HIDE DEF F
<1>5. \A T \in SUBSET S : T \in F
  BY <1>3, <1>4, FiniteSetInduction
<1>6. S \in F
  BY <1>5
<1>7. QED
  BY <1>6, Zenon DEF F

-----------------------------------------------------------------------------
(* Recursion and sorting.                                                  *)

\* A function on 1 .. n is a sequence.
LEMMA FunctionIsSeq ==
  ASSUME NEW n \in Nat, NEW g, g = [k \in 1 .. n |-> g[k]]
  PROVE  g \in Seq({g[k] : k \in 1 .. n}) /\ Len(g) = n /\ DOMAIN g = 1 .. n
<1>1. g \in [1 .. n -> {g[k] : k \in 1 .. n}]
  OBVIOUS
<1>2. QED
  BY <1>1

\* No step of next leads out of X.
StaysIn(next, X, last) == \A x \in X, n \in 1 .. last : next[<<x, n>>] \in X

\* h goes from first by the steps of next, all within X.
Recursion(h, X, last, first, next) ==
  /\ h \in [0 .. last -> X]
  /\ h[0] = first
  /\ \A n \in 1 .. last : h[n] = next[<<h[n - 1], n>>]

\* A recursion over the numbers up to last has what it defines, when no step leads out of X.
LEMMA RecursionExists ==
  ASSUME NEW X, NEW first \in X, NEW last \in Nat, NEW next, StaysIn(next, X, last)
  PROVE  \E h : Recursion(h, X, last, first, next)
<1> DEFINE G(m, h) == /\ h \in [0 .. m -> X]
                      /\ h[0] = first /\ \A n \in 1 .. m : h[n] = next[<<h[n - 1], n>>]
           P == {m \in Nat : m <= last => \E h : G(m, h)}
<1>1. 0 \in P
  <2>1. G(0, [n \in 0 .. 0 |-> first])
    OBVIOUS
  <2>2. QED
    BY <2>1
<1>2. ASSUME NEW m \in P PROVE m + 1 \in P
  <2> SUFFICES ASSUME m + 1 <= last PROVE \E h : G(m + 1, h)
    OBVIOUS
  <2>1. PICK g : G(m, g)
    OBVIOUS
  <2> DEFINE y == next[<<g[m], m + 1>>]
             h == [n \in 0 .. m + 1 |-> IF n <= m THEN g[n] ELSE y]
  <2>2. m \in Nat /\ m \in 0 .. m /\ g[m] \in X
    BY <2>1
  <2>3. y \in X
    BY <2>2 DEF StaysIn
  <2>4. \A n \in 0 .. m : h[n] = g[n]
    BY <2>2
  <2>5. h[m + 1] = y
    BY <2>2
  <2>6. h \in [0 .. m + 1 -> X]
    BY <2>1, <2>2, <2>3
  <2> HIDE DEF h
  <2>7. \A n \in 1 .. m + 1 : h[n] = next[<<h[n - 1], n>>]
    <3> TAKE n \in 1 .. m + 1
    <3>1. CASE n <= m
      BY <2>1, <2>2, <2>4, <3>1
    <3>2. CASE n = m + 1
      BY <2>2, <2>4, <2>5, <3>2
    <3>3. QED
      BY <2>2, <3>1, <3>2
  <2>8. QED
    BY <2>1, <2>2, <2>4, <2>6, <2>7
<1>3. last \in P
  <2> HIDE DEF P
  <2>1. P = Nat
    <3>1. P \in SUBSET Nat
      BY DEF P
    <3>2. QED
      BY <1>1, <1>2, <3>1, NatSetInduction
  <2>2. QED
    BY <2>1
<1>4. QED
  BY <1>3 DEF Recursion

\* h goes on from first by the steps of next for ever, all within X.
Endless(h, X, first, next) ==
  /\ h \in [Nat -> X]
  /\ h[0] = first
  /\ \A n \in Nat \ {0} : h[n] = next[<<h[n - 1], n>>]

\* A recursion over all numbers has what it defines.
LEMMA RecursionOverNat ==
  ASSUME NEW X, NEW first \in X, NEW next, \A last \in Nat : StaysIn(next, X, last)
  PROVE  \E h : Endless(h, X, first, next)
<1> DEFINE R(m, g) == Recursion(g, X, m, first, next)
           upTo(m) == CHOOSE g : R(m, g)
           h == [m \in Nat |-> upTo(m)[m]]
<1>1. \A m \in Nat : R(m, upTo(m))
  <2> TAKE m \in Nat
  <2>1. \E g : R(m, g)
    BY RecursionExists
  <2> HIDE DEF R
  <2>2. QED
    BY <2>1, Zenon
<1> HIDE DEF upTo
<1>2. ASSUME NEW m \in Nat, NEW g, R(m, g), NEW k \in Nat, NEW f, R(k, f)
      PROVE  \A n \in Nat : n <= m /\ n <= k => g[n] = f[n]
  <2> DEFINE P == {n \in Nat : n <= m /\ n <= k => g[n] = f[n]}
  <2>1. 0 \in P
    BY <1>2 DEF Recursion
  <2>2. ASSUME NEW n \in P PROVE n + 1 \in P
    <3>1. ASSUME n + 1 <= m, n + 1 <= k PROVE g[n + 1] = f[n + 1]
      <4>1. n + 1 \in 1 .. m /\ n + 1 \in 1 .. k /\ (n + 1) - 1 = n /\ g[n] = f[n]
        BY <3>1
      <4>2. g[n + 1] = next[<<g[n], n + 1>>] /\ f[n + 1] = next[<<f[n], n + 1>>]
        BY <1>2, <4>1 DEF Recursion
      <4>3. QED
        BY <4>1, <4>2
    <3>2. QED
      BY <3>1
  <2>3. P = Nat
    <3>1. P \in SUBSET Nat
      OBVIOUS
    <3> HIDE DEF P
    <3>2. QED
      BY <2>1, <2>2, <3>1, NatSetInduction
  <2>4. QED
    BY <2>3
<1>3. \A m \in Nat : h[m] = upTo(m)[m]
  OBVIOUS
<1>4. h \in [Nat -> X]
  <2>1. \A m \in Nat : upTo(m)[m] \in X
    <3> TAKE m \in Nat
    <3>1. R(m, upTo(m))
      BY <1>1
    <3>2. m \in 0 .. m
      OBVIOUS
    <3>3. QED
      BY <3>1, <3>2 DEF Recursion
  <2>2. QED
    BY <2>1
<1> HIDE DEF h
<1>5. h[0] = first
  <2>1. R(0, upTo(0)) /\ 0 \in Nat
    BY <1>1
  <2>2. QED
    BY <1>3, <2>1 DEF Recursion
<1>6. ASSUME NEW n \in Nat \ {0} PROVE h[n] = next[<<h[n - 1], n>>]
  <2>1. n \in Nat /\ n - 1 \in Nat /\ n - 1 <= n /\ n - 1 <= n - 1 /\ n \in 1 .. n
    OBVIOUS
  <2>2. R(n, upTo(n)) /\ R(n - 1, upTo(n - 1))
    BY <1>1, <2>1
  <2>3. upTo(n)[n] = next[<<upTo(n)[n - 1], n>>]
    BY <2>1, <2>2 DEF Recursion
  <2>4. upTo(n)[n - 1] = upTo(n - 1)[n - 1]
    <3>1. PICK g, f : g = upTo(n) /\ f = upTo(n - 1)
      OBVIOUS
    <3>2. R(n, g) /\ R(n - 1, f)
      BY <2>2, <3>1
    <3> HIDE DEF R
    <3>3. g[n - 1] = f[n - 1]
      BY <1>2, <2>1, <3>2
    <3>4. QED
      BY <3>1, <3>3
  <2>5. QED
    BY <1>3, <2>1, <2>3, <2>4
<1>7. QED
  BY <1>4, <1>5, <1>6 DEF Endless

\* A strict total order of what is in K.
Ordered(R, K) ==
  /\ \A x \in K : <<x, x>> \notin R
  /\ \A x, y, z \in K : <<x, y>> \in R /\ <<y, z>> \in R => <<x, z>> \in R
  /\ \A x, y \in K : x = y \/ <<x, y>> \in R \/ <<y, x>> \in R

\* The members of K before x.
Earlier(R, K, x) == {y \in K : <<y, x>> \in R}

\* Each member has a place of its own, from 0 on without a gap, and who comes first has the
\* lower one.
LEMMA PlacesOfOrder ==
  ASSUME NEW K, IsFiniteSet(K), NEW R, Ordered(R, K)
  PROVE  /\ Cardinality(K) \in Nat
         /\ \A x \in K : Cardinality(Earlier(R, K, x)) \in 0 .. Cardinality(K) - 1
         /\ \A x, y \in K : <<x, y>> \in R => Cardinality(Earlier(R, K, x)) < Cardinality(Earlier(R, K, y))
         /\ \A n \in 1 .. Cardinality(K) : \E x \in K : Cardinality(Earlier(R, K, x)) + 1 = n
<1>1. \A T \in SUBSET K : IsFiniteSet(T) /\ Cardinality(T) \in Nat /\ Cardinality(T) <= Cardinality(K)
  BY FS_Subset, FS_CardinalityType
<1>2. Cardinality(K) \in Nat
  BY FS_CardinalityType
<1>3. \A x \in K : Earlier(R, K, x) \in SUBSET K /\ x \notin Earlier(R, K, x)
  BY DEF Earlier, Ordered
<1>4. \A T \in SUBSET K, x \in K : x \notin T => Cardinality(T \cup {x}) = Cardinality(T) + 1
  BY <1>1, FS_AddElement
<1>5. \A x \in K : Cardinality(Earlier(R, K, x)) \in 0 .. Cardinality(K) - 1
  <2> TAKE x \in K
  <2>1. Earlier(R, K, x) \cup {x} \in SUBSET K
    BY <1>3
  <2>2. Cardinality(Earlier(R, K, x) \cup {x}) = Cardinality(Earlier(R, K, x)) + 1
    BY <1>3, <1>4
  <2>3. Cardinality(Earlier(R, K, x)) + 1 <= Cardinality(K) /\ Cardinality(Earlier(R, K, x)) \in Nat
    BY <2>1, <2>2, <1>1, <1>3
  <2>4. QED
    BY <2>3, <1>2
<1>6. ASSUME NEW x \in K, NEW y \in K, <<x, y>> \in R
      PROVE  Cardinality(Earlier(R, K, x)) < Cardinality(Earlier(R, K, y))
  <2>1. Earlier(R, K, x) \cup {x} \subseteq Earlier(R, K, y)
    BY <1>6 DEF Earlier, Ordered
  <2>2. IsFiniteSet(Earlier(R, K, y)) /\ Earlier(R, K, y) \in SUBSET K
    BY <1>1, <1>3
  <2>3. Cardinality(Earlier(R, K, x) \cup {x}) <= Cardinality(Earlier(R, K, y))
    BY <2>1, <2>2, FS_Subset
  <2>4. Cardinality(Earlier(R, K, x) \cup {x}) = Cardinality(Earlier(R, K, x)) + 1
    BY <1>3, <1>4
  <2>5. Cardinality(Earlier(R, K, x)) \in Nat /\ Cardinality(Earlier(R, K, y)) \in Nat
    BY <1>1, <1>3
  <2>6. QED
    BY <2>3, <2>4, <2>5
<1>7. ASSUME NEW n \in 1 .. Cardinality(K) PROVE \E x \in K : Cardinality(Earlier(R, K, x)) + 1 = n
  <2> DEFINE Place(x) == Cardinality(Earlier(R, K, x)) + 1
             place == [x \in K |-> Place(x)]
             all == 1 .. Cardinality(K)
  <2>1. place \in [K -> all]
    BY <1>5, <1>2
  <2>2. \A x, y \in K : place[x] = place[y] => x = y
    <3> TAKE x \in K, y \in K
    <3>1. CASE <<x, y>> \in R
      BY <3>1, <1>6, <1>5, <1>2
    <3>2. CASE <<y, x>> \in R
      BY <3>2, <1>6, <1>5, <1>2
    <3>3. QED
      BY <3>1, <3>2 DEF Ordered
  <2>3. IsFiniteSet(all) /\ Cardinality(all) = Cardinality(K)
    BY <1>2, FS_Interval
  <2>4. place \in Surjection(K, all)
    <3>1. place \in Injection(K, all)
      BY <2>1, <2>2, Zenon DEF Injection, IsInjective
    <3>2. QED
      BY <3>1, <2>3, FS_Injection
  <2>5. QED
    BY <2>4 DEF Surjection
<1>8. QED
  BY <1>2, <1>5, <1>6, <1>7

\* In placed, every member of K with its place.
PlacedBy(placed, R, K) ==
  \A p : p \in placed <=> \E x \in K : p = <<Cardinality(Earlier(R, K, x)) + 1, x>>

\* f lists what placed has at the places 1, 2 and so on.
Lists(f, placed, K) ==
  /\ f = [n \in 1 .. Cardinality(K) |-> f[n]]
  /\ \A n \in 1 .. Cardinality(K) :
       (\E p \in placed : p[1] = n) => \E p \in placed : p[1] = n /\ f[n] = p[2]

\* Arranged, of an order that is written as the set R of its pairs.
LEMMA ArrangedSorts ==
  ASSUME NEW K, IsFiniteSet(K), NEW R, Ordered(R, K),
         NEW placed, PlacedBy(placed, R, K), NEW f, Lists(f, placed, K)
  PROVE  /\ f \in [1 .. Cardinality(K) -> K]
         /\ \A x \in K : \E n \in 1 .. Cardinality(K) : f[n] = x
         /\ \A m, n \in 1 .. Cardinality(K) : m < n => <<f[m], f[n]>> \in R
         /\ \A m, n \in 1 .. Cardinality(K) : f[m] = f[n] => m = n
         /\ \A n \in 1 .. Cardinality(K) : Cardinality(Earlier(R, K, f[n])) + 1 = n
<1> DEFINE Place(x) == Cardinality(Earlier(R, K, x)) + 1
           all == 1 .. Cardinality(K)
<1>1. ASSUME NEW n \in all PROVE f[n] \in K /\ Place(f[n]) = n
  <2>1. PICK x \in K : Place(x) = n
    BY PlacesOfOrder
  <2>2. <<Place(x), x>> \in placed /\ <<Place(x), x>>[1] = n
    BY <2>1 DEF PlacedBy
  <2>3. PICK p \in placed : f[n] = p[2] /\ p[1] = n
    BY <2>2, Zenon DEF Lists
  <2>4. PICK y \in K : p = <<Place(y), y>>
    BY <2>3 DEF PlacedBy
  <2>5. f[n] = p[2]
    BY <2>3
  <2>6. p[1] = Place(y) /\ p[2] = y
    BY <2>4
  <2>7. f[n] = y /\ Place(y) = n
    BY <2>3, <2>5, <2>6, Zenon
  <2>8. QED
    BY <2>7, Zenon
<1>2. \A x \in K : Place(x) \in all
  BY PlacesOfOrder
<1>3. \A x, y \in K : <<x, y>> \in R => Place(x) < Place(y)
  BY PlacesOfOrder
<1>4. \A x, y \in K : x = y \/ <<x, y>> \in R \/ <<y, x>> \in R
  BY DEF Ordered
<1>5. \A x \in K : Place(x) \in Int
  BY <1>2, PlacesOfOrder
<1> HIDE DEF Place
<1>6. \A x, y \in K : Place(x) = Place(y) => x = y
  <2> TAKE x \in K, y \in K
  <2>1. Place(x) \in Int /\ Place(y) \in Int
    BY <1>5
  <2>2. /\ <<x, y>> \in R => Place(x) < Place(y)
        /\ <<y, x>> \in R => Place(y) < Place(x)
    BY <1>3
  <2>3. x = y \/ Place(x) < Place(y) \/ Place(y) < Place(x)
    BY <2>2, <1>4
  <2>4. QED
    BY <2>1, <2>3
<1>7. f \in [all -> K]
  BY <1>1 DEF Lists
<1>8. \A x \in K : \E n \in all : f[n] = x
  BY <1>1, <1>2, <1>6
<1>9. \A m, n \in all : f[m] = f[n] => m = n
  BY <1>1
<1>10. \A m, n \in all : m < n => <<f[m], f[n]>> \in R
  <2> TAKE m \in all, n \in all
  <2> SUFFICES ASSUME m < n PROVE <<f[m], f[n]>> \in R
    OBVIOUS
  <2>1. f[m] \in K /\ f[n] \in K /\ Place(f[m]) = m /\ Place(f[n]) = n
    BY <1>1
  <2>2. f[m] # f[n]
    BY <2>1
  <2>3. <<f[n], f[m]>> \in R => FALSE
    BY <2>1, <1>3, PlacesOfOrder
  <2>4. QED
    BY <2>1, <2>2, <2>3, <1>4
<1>11. \A n \in all : Cardinality(Earlier(R, K, f[n])) + 1 = n
  BY <1>1 DEF Place
<1>12. QED
  BY <1>7, <1>8, <1>9, <1>10, <1>11

\* A strict weak order: what it leaves undecided is of equal rank.
Ranked(B, K) ==
  /\ \A x, y \in K : <<x, y>> \in B => <<y, x>> \notin B
  /\ \A x, y, z \in K : <<x, y>> \in B => <<x, z>> \in B \/ <<z, y>> \in B

\* Positions of equal rank as they stand: a total order.
LEMMA StableOrder ==
  ASSUME NEW K \in SUBSET Int, NEW B, Ranked(B, K),
         NEW R, \A x, y \in K : <<x, y>> \in R <=> <<x, y>> \in B \/ (<<y, x>> \notin B /\ x < y)
  PROVE  Ordered(R, K)
<1>1. \A x \in K : <<x, x>> \notin R
  BY DEF Ranked
<1>2. \A x, y \in K : x = y \/ <<x, y>> \in R \/ <<y, x>> \in R
  <2> TAKE x \in K, y \in K
  <2>1. x = y \/ x < y \/ y < x
    OBVIOUS
  <2>2. QED
    BY <2>1, Zenon
<1>3. ASSUME NEW x \in K, NEW y \in K, NEW z \in K, <<x, y>> \in R, <<y, z>> \in R PROVE <<x, z>> \in R
  <2>1. CASE <<x, y>> \in B
    <3>1. <<x, z>> \in B \/ <<z, y>> \in B
      BY <2>1 DEF Ranked
    <3>2. <<z, y>> \notin B
      BY <1>3 DEF Ranked
    <3>3. QED
      BY <3>1, <3>2
  <2>2. CASE <<x, y>> \notin B
    <3>1. <<y, x>> \notin B /\ x < y
      BY <1>3, <2>2
    <3>2. CASE <<y, z>> \in B
      BY <3>1, <3>2 DEF Ranked
    <3>3. CASE <<y, z>> \notin B
      <4>1. <<z, y>> \notin B /\ y < z
        BY <1>3, <3>3
      <4>2. <<z, x>> \notin B
        BY <4>1, <3>1 DEF Ranked
      <4>3. x < z
        BY <3>1, <4>1
      <4>4. QED
        BY <4>2, <4>3
    <3>4. QED
      BY <3>2, <3>3
  <2>3. QED
    BY <2>1, <2>2
<1>4. QED
  BY <1>1, <1>2, <1>3 DEF Ordered

\* By B, and where that leaves it undecided by C.
LEMMA RankedThen ==
  ASSUME NEW K, NEW B, Ranked(B, K), NEW C, Ranked(C, K),
         NEW D, \A x, y \in K : <<x, y>> \in D <=> <<x, y>> \in B \/ (<<y, x>> \notin B /\ <<x, y>> \in C)
  PROVE  Ranked(D, K)
<1>1. \A x, y \in K : <<x, y>> \in D => <<y, x>> \notin D
  BY DEF Ranked
<1>2. ASSUME NEW x \in K, NEW y \in K, NEW z \in K, <<x, y>> \in D PROVE <<x, z>> \in D \/ <<z, y>> \in D
  <2>1. CASE <<x, y>> \in B
    <3>1. <<x, z>> \in B \/ <<z, y>> \in B
      BY <2>1 DEF Ranked
    <3>2. QED
      BY <3>1
  <2>2. CASE <<x, y>> \notin B
    <3>1. <<y, x>> \notin B /\ <<x, y>> \in C
      BY <1>2, <2>2
    <3>2. <<x, z>> \in C \/ <<z, y>> \in C
      BY <3>1 DEF Ranked
    <3>3. CASE <<z, x>> \in B
      <4>1. <<z, y>> \in B \/ <<y, x>> \in B
        BY <3>3 DEF Ranked
      <4>2. QED
        BY <4>1, <3>1
    <3>4. CASE <<y, z>> \in B
      <4>1. <<y, x>> \in B \/ <<x, z>> \in B
        BY <3>4 DEF Ranked
      <4>2. QED
        BY <4>1, <3>1
    <3>5. CASE <<z, x>> \notin B /\ <<y, z>> \notin B
      BY <3>2, <3>5
    <3>6. QED
      BY <3>3, <3>4, <3>5
  <2>3. QED
    BY <2>1, <2>2
<1>3. QED
  BY <1>1, <1>2 DEF Ranked

\* t has what s has at the positions I, by B and those of equal rank as they stand.
SortedBy(t, s, I, B) ==
  /\ Cardinality(I) \in Nat
  /\ t = [n \in 1 .. Cardinality(I) |-> t[n]]
  /\ \A n \in 1 .. Cardinality(I) : \E i \in I : t[n] = s[i]
  /\ \A i \in I : \E n \in 1 .. Cardinality(I) : t[n] = s[i]
  /\ \A m, n \in 1 .. Cardinality(I) : m < n =>
       \E i, j \in I : t[m] = s[i] /\ t[n] = s[j] /\ <<j, i>> \notin B

\* The positions I, each with its place when they are sorted stably by B.
StablyPlaced(placed, I, B) ==
  placed = {<<Cardinality({y \in I : <<y, x>> \in B \/ (<<x, y>> \notin B /\ y < x)}) + 1, x>> : x \in I}

\* t has what s has at the places 1, 2 and so on.
ListedBy(t, s, placed, I) == \E g : Lists(g, placed, I) /\ t = [n \in DOMAIN g |-> s[g[n]]]

\* StableSort, of an order that is written as the set B of its pairs.
LEMMA StableSortSorts ==
  ASSUME NEW I \in SUBSET Int, IsFiniteSet(I), NEW B, Ranked(B, I),
         NEW placed, StablyPlaced(placed, I, B), NEW s, NEW t, ListedBy(t, s, placed, I)
  PROVE  SortedBy(t, s, I, B)
<1> DEFINE R == {p \in I \X I : p \in B \/ (<<p[2], p[1]>> \notin B /\ p[1] < p[2])}
<1>1. PICK g : Lists(g, placed, I) /\ t = [n \in DOMAIN g |-> s[g[n]]]
  BY DEF ListedBy
<1>2. \A x, y \in I : <<x, y>> \in R <=> <<x, y>> \in B \/ (<<y, x>> \notin B /\ x < y)
  OBVIOUS
<1> HIDE DEF R
<1>3. Ordered(R, I)
  BY <1>2, StableOrder
<1>4. PlacedBy(placed, R, I)
  <2>1. ASSUME NEW x \in I
        PROVE  {y \in I : <<y, x>> \in B \/ (<<x, y>> \notin B /\ y < x)} = Earlier(R, I, x)
    BY <1>2, Zenon DEF Earlier
  <2>2. placed = {<<Cardinality(Earlier(R, I, x)) + 1, x>> : x \in I}
    BY <2>1, Zenon DEF StablyPlaced
  <2>3. QED
    BY <2>2 DEF PlacedBy
<1>5. PICK h, K : h = g /\ K = I
  OBVIOUS
<1>6. IsFiniteSet(K) /\ Ordered(R, K) /\ PlacedBy(placed, R, K) /\ Lists(h, placed, K)
  BY <1>1, <1>3, <1>4, <1>5
<1>7. /\ h \in [1 .. Cardinality(K) -> K]
      /\ \A x \in K : \E n \in 1 .. Cardinality(K) : h[n] = x
      /\ \A m, n \in 1 .. Cardinality(K) : m < n => <<h[m], h[n]>> \in R
  BY <1>6, ArrangedSorts
<1>8. /\ g \in [1 .. Cardinality(I) -> I]
      /\ \A x \in I : \E n \in 1 .. Cardinality(I) : g[n] = x
      /\ \A m, n \in 1 .. Cardinality(I) : m < n => <<g[m], g[n]>> \in R
  BY <1>5, <1>7
<1>9. Cardinality(I) \in Nat
  BY FS_CardinalityType
<1>10. t = [n \in 1 .. Cardinality(I) |-> t[n]] /\ \A n \in 1 .. Cardinality(I) : g[n] \in I /\ t[n] = s[g[n]]
  <2>1. DOMAIN g = 1 .. Cardinality(I)
    BY <1>8
  <2>2. \A n \in 1 .. Cardinality(I) : g[n] \in I
    BY <1>8
  <2>3. QED
    BY <1>1, <2>1, <2>2
<1>11. \A n \in 1 .. Cardinality(I) : \E i \in I : t[n] = s[i]
  BY <1>10
<1>12. ASSUME NEW i \in I PROVE \E n \in 1 .. Cardinality(I) : t[n] = s[i]
  <2>1. PICK n \in 1 .. Cardinality(I) : g[n] = i
    BY <1>8
  <2>2. QED
    BY <1>10, <2>1
<1>13. ASSUME NEW m \in 1 .. Cardinality(I), NEW n \in 1 .. Cardinality(I), m < n
       PROVE  \E i, j \in I : t[m] = s[i] /\ t[n] = s[j] /\ <<j, i>> \notin B
  <2>1. PICK i, j \in I : i = g[m] /\ j = g[n] /\ <<i, j>> \in R
    BY <1>8, <1>10, <1>13
  <2>2. <<j, i>> \notin B
    BY <1>2, <2>1, Zenon DEF Ranked
  <2>3. QED
    BY <1>10, <2>1, <2>2
<1>14. QED
  BY <1>9, <1>10, <1>11, <1>12, <1>13 DEF SortedBy

\* Numbers in their order are in a total order.
LEMMA NumbersOrdered ==
  ASSUME NEW I \in SUBSET Int
  PROVE  Ordered({p \in I \X I : p[1] < p[2]}, I)
<1> DEFINE R == {p \in I \X I : p[1] < p[2]}
<1>1. \A x, y \in I : <<x, y>> \in R <=> x < y
  OBVIOUS
<1> HIDE DEF R
<1>2. \A x \in I : x \in Int
  OBVIOUS
<1>3. QED
  BY <1>1, <1>2 DEF Ordered

\* Numbers in ascending order, each of them once.
LEMMA NumbersArranged ==
  ASSUME NEW I \in SUBSET Int, IsFiniteSet(I)
  PROVE  /\ Cardinality(I) \in Nat
         /\ Arranged(I, <) \in [1 .. Cardinality(I) -> I]
         /\ \A x \in I : \E n \in 1 .. Cardinality(I) : Arranged(I, <)[n] = x
         /\ \A m, n \in 1 .. Cardinality(I) : m < n => Arranged(I, <)[m] < Arranged(I, <)[n]
<1> DEFINE R == {p \in I \X I : p[1] < p[2]}
           placed == {<<Cardinality({y \in I : y < x}) + 1, x>> : x \in I}
           f == [n \in 1 .. Cardinality(I) |-> (CHOOSE p \in placed : p[1] = n)[2]]
<1>1. Arranged(I, <) = f
  BY Zenon DEF Arranged
<1>2. placed = {<<Cardinality(Earlier(R, I, x)) + 1, x>> : x \in I}
  <2>1. ASSUME NEW x \in I PROVE {y \in I : y < x} = Earlier(R, I, x)
    BY DEF Earlier
  <2>2. QED
    BY <2>1
<1>3. Ordered(R, I) /\ \A x, y \in I : <<x, y>> \in R => x < y
  BY NumbersOrdered
<1> HIDE DEF R, placed
<1>4. PICK g : g = f
  OBVIOUS
<1>5. g = [n \in 1 .. Cardinality(I) |-> (CHOOSE p \in placed : p[1] = n)[2]]
  BY <1>4
<1>6. /\ g \in [1 .. Cardinality(I) -> I]
      /\ \A x \in I : \E n \in 1 .. Cardinality(I) : g[n] = x
      /\ \A m, n \in 1 .. Cardinality(I) : m < n => <<g[m], g[n]>> \in R
  <2>1. PlacedBy(placed, R, I)
    BY <1>2 DEF PlacedBy
  <2>2. g = [n \in 1 .. Cardinality(I) |-> g[n]]
    BY <1>5
  <2>3. ASSUME NEW n \in 1 .. Cardinality(I), \E p \in placed : p[1] = n
        PROVE  \E p \in placed : p[1] = n /\ g[n] = p[2]
    <3>1. PICK p \in placed : p = (CHOOSE q \in placed : q[1] = n) /\ p[1] = n
      BY <2>3, Zenon
    <3>2. g[n] = p[2]
      BY <3>1, <1>5
    <3>3. QED
      BY <3>1, <3>2
  <2>4. Lists(g, placed, I)
    BY <2>2, <2>3 DEF Lists
  <2>5. QED
    BY <1>3, <2>1, <2>4, ArrangedSorts
<1>7. g = Arranged(I, <)
  BY <1>1, <1>4, Zenon
<1>8. Cardinality(I) \in Nat
  BY FS_CardinalityType
<1>9. \A m, n \in 1 .. Cardinality(I) : m < n => g[m] < g[n]
  BY <1>3, <1>6
<1>10. QED
  BY <1>6, <1>7, <1>8, <1>9, Zenon

\* What s has at the positions I, all of it and nothing else.
LEMMA SelectedFrom ==
  ASSUME NEW I \in SUBSET Int, IsFiniteSet(I), NEW s
  PROVE  /\ Cardinality(I) \in Nat
         /\ DOMAIN Selected(s, I) = 1 .. Cardinality(I)
         /\ \A n \in 1 .. Cardinality(I) : \E i \in I : Selected(s, I)[n] = s[i]
         /\ \A i \in I : \E n \in 1 .. Cardinality(I) : Selected(s, I)[n] = s[i]
<1> DEFINE order == Arranged(I, <)
<1>1. Selected(s, I) = [n \in DOMAIN order |-> s[order[n]]]
  BY Zenon DEF Selected
<1>2. PICK g : g = order
  OBVIOUS
<1>3. /\ Cardinality(I) \in Nat /\ g \in [1 .. Cardinality(I) -> I]
      /\ \A x \in I : \E n \in 1 .. Cardinality(I) : g[n] = x
  BY <1>2, NumbersArranged, Zenon
<1>4. Selected(s, I) = [n \in DOMAIN g |-> s[g[n]]]
  BY <1>1, <1>2, Zenon
<1>5. DOMAIN g = 1 .. Cardinality(I) /\ \A n \in 1 .. Cardinality(I) : g[n] \in I
  BY <1>3
<1>6. DOMAIN Selected(s, I) = 1 .. Cardinality(I) /\ \A n \in 1 .. Cardinality(I) : Selected(s, I)[n] = s[g[n]]
  BY <1>4, <1>5
<1>7. \A n \in 1 .. Cardinality(I) : \E i \in I : Selected(s, I)[n] = s[i]
  BY <1>5, <1>6
<1>8. ASSUME NEW i \in I PROVE \E n \in 1 .. Cardinality(I) : Selected(s, I)[n] = s[i]
  <2>1. PICK n \in 1 .. Cardinality(I) : g[n] = i
    BY <1>3
  <2>2. QED
    BY <1>6, <2>1
<1>9. QED
  BY <1>3, <1>6, <1>7, <1>8

-----------------------------------------------------------------------------
(* Fisher's test.                                                          *)

\* Binomial coefficients are natural numbers, and positive ones up to the diagonal.
LEMMA Binomials ==
  \A n, k \in Nat : Binomial[n][k] \in Nat /\ (k <= n => Binomial[n][k] >= 1)
<1> DEFINE X == [Nat -> Nat]
           first == [k \in Nat |-> IF k = 0 THEN 1 ELSE 0]
           row(before, n) == [k \in Nat |-> IF k = 0 THEN 1 ELSE IF k > n THEN 0
                                            ELSE before[k - 1] + before[k]]
           next == [p \in X \X (Nat \ {0}) |-> row(p[1], p[2])]
           all(B) == [n \in Nat |-> [k \in Nat |-> IF k = 0 THEN 1 ELSE IF k > n THEN 0
                                                   ELSE B[n - 1][k - 1] + B[n - 1][k]]]
<1>1. first \in X
  OBVIOUS
<1>2. ASSUME NEW x \in X, NEW n \in Nat \ {0} PROVE next[<<x, n>>] = row(x, n) /\ row(x, n) \in X
  <2>1. row(x, n) \in X
    OBVIOUS
  <2>2. next[<<x, n>>] = row(x, n)
    <3> HIDE DEF row, X
    <3>1. <<x, n>> \in X \X (Nat \ {0}) /\ <<x, n>>[1] = x /\ <<x, n>>[2] = n
      OBVIOUS
    <3>2. QED
      BY <3>1, Zenon
  <2>3. QED
    BY <2>1, <2>2
<1> HIDE DEF next
<1>3. \A last \in Nat : StaysIn(next, X, last)
  <2> HIDE DEF X, row
  <2>1. \A m \in Nat : \A n \in 1 .. m : n \in Nat \ {0}
    OBVIOUS
  <2>2. QED
    BY <1>2, <2>1, Zenon DEF StaysIn
<1>4. PICK h : Endless(h, X, first, next)
  <2> HIDE DEF X, first
  <2>1. QED
    BY <1>1, <1>3, RecursionOverNat
<1>5. h = all(h)
  <2> DEFINE at(n) == [k \in Nat |-> IF k = 0 THEN 1 ELSE IF k > n THEN 0 ELSE h[n - 1][k - 1] + h[n - 1][k]]
  <2>1. ASSUME NEW n \in Nat PROVE h[n] = at(n)
    <3>1. CASE n = 0
      <4>1. \A k \in Nat : k # 0 => k > n
        BY <3>1
      <4>2. QED
        BY <1>4, <3>1, <4>1 DEF Endless
    <3>2. CASE n # 0
      <4>1. h[n - 1] \in X
        BY <1>4, <3>2 DEF Endless
      <4>2. h[n] = row(h[n - 1], n)
        BY <1>2, <1>4, <3>2, <4>1 DEF Endless
      <4>3. QED
        BY <4>2
    <3>3. QED
      BY <3>1, <3>2
  <2>2. h = [n \in Nat |-> h[n]]
    BY <1>4 DEF Endless
  <2>3. all(h) = [n \in Nat |-> at(n)]
    OBVIOUS
  <2> HIDE DEF at, all
  <2>4. [n \in Nat |-> h[n]] = [n \in Nat |-> at(n)]
    BY <2>1
  <2>5. QED
    BY <2>2, <2>3, <2>4, Zenon
<1>6. Binomial = all(Binomial)
  <2>1. Binomial = CHOOSE B : B = all(B)
    BY Zenon DEF Binomial
  <2> HIDE DEF all
  <2>2. QED
    BY <1>5, <2>1
<1>7. /\ \A n \in Nat : Binomial[n][0] = 1
      /\ \A n, k \in Nat : k # 0 /\ k > n => Binomial[n][k] = 0
      /\ \A n, k \in Nat : k <= n => Binomial[n + 1][k + 1] = Binomial[n][k] + Binomial[n][k + 1]
  <2>1. /\ \A n \in Nat : all(Binomial)[n][0] = 1
        /\ \A n, k \in Nat : k # 0 /\ k > n => all(Binomial)[n][k] = 0
        /\ \A n, k \in Nat : k # 0 /\ ~(k > n) =>
             all(Binomial)[n][k] = Binomial[n - 1][k - 1] + Binomial[n - 1][k]
    OBVIOUS
  <2> HIDE DEF all
  <2>2. ASSUME NEW n \in Nat, NEW k \in Nat, k <= n
        PROVE  Binomial[n + 1][k + 1] = Binomial[n][k] + Binomial[n][k + 1]
    <3>1. n + 1 \in Nat /\ k + 1 \in Nat /\ k + 1 # 0 /\ ~(k + 1 > n + 1) /\ (n + 1) - 1 = n /\ (k + 1) - 1 = k
      BY <2>2
    <3>2. Binomial[n + 1][k + 1] = Binomial[(n + 1) - 1][(k + 1) - 1] + Binomial[(n + 1) - 1][k + 1]
      BY <1>6, <2>1, <3>1
    <3>3. QED
      BY <3>1, <3>2
  <2>3. QED
    BY <1>6, <2>1, <2>2
<1> HIDE DEF X, first, row, all
<1> DEFINE P == {n \in Nat : \A k \in Nat : Binomial[n][k] \in Nat /\ (k <= n => Binomial[n][k] >= 1)}
<1>8. 0 \in P
  <2>1. \A k \in Nat : k = 0 \/ k > 0
    OBVIOUS
  <2>2. QED
    BY <1>7, <2>1
<1>9. ASSUME NEW n \in P PROVE n + 1 \in P
  <2> SUFFICES ASSUME NEW k \in Nat
               PROVE  Binomial[n + 1][k] \in Nat /\ (k <= n + 1 => Binomial[n + 1][k] >= 1)
    OBVIOUS
  <2>1. n \in Nat /\ n + 1 \in Nat
    OBVIOUS
  <2>2. CASE k = 0
    BY <1>7, <2>1, <2>2
  <2>3. CASE k > n + 1
    <3>1. k # 0 /\ Binomial[n + 1][k] = 0 /\ ~(k <= n + 1)
      BY <1>7, <2>1, <2>3
    <3>2. QED
      BY <3>1
  <2>4. CASE k # 0 /\ ~(k > n + 1)
    <3>1. PICK j \in Nat : k = j + 1 /\ j <= n
      <4>1. k - 1 \in Nat /\ k = (k - 1) + 1 /\ k - 1 <= n
        BY <2>1, <2>4
      <4>2. QED
        BY <4>1
    <3>2. Binomial[n + 1][k] = Binomial[n][j] + Binomial[n][k]
      BY <1>7, <2>1, <3>1
    <3>3. Binomial[n][j] \in Nat /\ Binomial[n][j] >= 1 /\ Binomial[n][k] \in Nat
      BY <3>1
    <3>4. QED
      BY <3>2, <3>3
  <2>5. QED
    BY <2>2, <2>3, <2>4
<1>10. P = Nat
  <2>1. P \in SUBSET Nat
    OBVIOUS
  <2> HIDE DEF P
  <2>2. QED
    BY <1>8, <1>9, <2>1, NatSetInduction
<1>11. QED
  BY <1>10
\* What Fisher's test returns is a fraction of numbers with a positive denominator.
LEMMA FisherIsFraction ==
  ASSUME NEW k1 \in Nat, NEW n1 \in Nat, NEW k0 \in Nat, NEW n0 \in Nat, k1 <= n1, k0 <= n0
  PROVE  FisherP(k1, n1, k0, n0)[1] \in Nat /\ FisherP(k1, n1, k0, n0)[2] \in Nat \ {0}
<1> DEFINE n == n1 + n0
           k == k1 + k0
           last == IF n1 < k THEN n1 ELSE k
           ways == [x \in k1 .. last |-> Binomial[k][x] * Binomial[n - k][n1 - x]]
<1>1. FisherP(k1, n1, k0, n0) = IF n1 = 0 \/ n0 = 0 THEN <<1, 1>>
                                ELSE <<SumOver(ways, k1 .. last), Binomial[n][n1]>>
  BY Zenon DEF FisherP, SumOver
<1>2. /\ n \in Nat /\ k \in Nat /\ n - k \in Nat /\ last \in Nat
      /\ last <= n1 /\ n1 <= n
  OBVIOUS
<1>3. Binomial[n][n1] \in Nat \ {0}
  <2> HIDE DEF n
  <2>1. Binomial[n][n1] \in Nat /\ Binomial[n][n1] >= 1
    BY <1>2, Binomials
  <2>2. QED
    BY <2>1
<1>4. SumOver(ways, k1 .. last) \in Nat
  <2>1. \A x \in k1 .. last : x \in Nat /\ n1 - x \in Nat
    BY <1>2
  <2> HIDE DEF n, k, last
  <2>2. \A x \in k1 .. last : ways[x] \in Nat
    <3>1. ASSUME NEW x \in k1 .. last PROVE ways[x] \in Nat
      <4>1. Binomial[k][x] \in Nat /\ Binomial[n - k][n1 - x] \in Nat
        BY <1>2, <2>1, Binomials
      <4>2. ways[x] = Binomial[k][x] * Binomial[n - k][n1 - x]
        OBVIOUS
      <4>3. QED
        BY <4>1, <4>2
    <3>2. QED
      BY <3>1
  <2>3. IsFiniteSet(k1 .. last)
    BY <1>2, FS_Interval
  <2>4. PICK f, S : f = ways /\ S = k1 .. last
    OBVIOUS
  <2> HIDE DEF ways
  <2>5. IsFiniteSet(S) /\ \A x \in S : f[x] \in Nat
    BY <2>2, <2>3, <2>4
  <2>6. \A T \in SUBSET S : SumOver(f, T) \in Nat
    BY <2>5, SumOfNat
  <2>7. SumOver(f, S) \in Nat
    BY <2>6
  <2>8. QED
    BY <2>4, <2>7
<1> HIDE DEF ways, last, n, k
<1>5. QED
  BY <1>1, <1>3, <1>4

-----------------------------------------------------------------------------
(* What the operators return.                                              *)

\* The comfort cross-check over any finite table of rows: it agrees exactly if, in every
\* row that is ok, the channels as known say what the flag says.
LEMMA ComfortBreakdownSound ==
  ASSUME NEW rows, IsFiniteSet(rows), ComfortBreakdown(rows) # <<>>,
         \A row \in Ok(rows), c \in Channels : row.exceeds[c] # {}
  PROVE  /\ ComfortBreakdown(rows)[1].thresholds_agree
              <=> \A row \in Ok(rows) : (\E c \in Channels : row.exceeds[c] = {TRUE})
                                          <=> row.comfort_violation = {1}
         /\ ComfortBreakdown(rows)[1].table["any_channel"]
              # ComfortBreakdown(rows)[1].table["comfort_violation_flag"]
              => ~ComfortBreakdown(rows)[1].thresholds_agree
<1> DEFINE exceeds(row)  == \E c \in Channels : row.exceeds[c] = {TRUE}
           unexplained   == {row \in Ok(rows) : Flagged(row) /\ AnyChannel(row) = {FALSE}}
           unflagged     == {row \in Ok(rows) : ~Flagged(row) /\ AnyChannel(row) = {TRUE}}
           any           == {row \in Ok(rows) : AnyChannel(row) = {TRUE}}
           flag          == {row \in Ok(rows) : Flagged(row)}
           breakdown     == ComfortBreakdown(rows)[1]
<1>1. /\ breakdown.thresholds_agree <=> Cardinality(unexplained) = 0 /\ Cardinality(unflagged) = 0
      /\ breakdown.table = ComfortTable(rows)
  BY Zenon DEF ComfortBreakdown, ComfortConsistency
<1>2. IsFiniteSet(unexplained) /\ IsFiniteSet(unflagged)
  BY FS_Subset DEF Ok
<1>3. breakdown.thresholds_agree <=> unexplained = {} /\ unflagged = {}
  BY <1>1, <1>2, FS_EmptySet
<1>4. \A row \in Ok(rows) : AnyChannel(row) = IF exceeds(row) THEN {TRUE} ELSE {FALSE}
  BY Zenon DEF AnyChannel
<1>5. {TRUE} # {FALSE}
  OBVIOUS
<1>6. breakdown.thresholds_agree <=> \A row \in Ok(rows) : exceeds(row) <=> Flagged(row)
  BY <1>3, <1>4, <1>5, Zenon
<1>7. breakdown.table["any_channel"] = Cardinality(any)
      /\ breakdown.table["comfort_violation_flag"] = Cardinality(flag)
  <2>1. "any_channel" \notin Channels /\ "comfort_violation_flag" \notin Channels
    BY DEF Channels
  <2>2. "any_channel" # "comfort_violation_flag"
    OBVIOUS
  <2>3. ComfortTable(rows)["any_channel"]
          = Cardinality({row \in Ok(rows) :
              CASE "any_channel" \in Channels -> row.exceeds["any_channel"] = {TRUE}
                [] "any_channel" = "any_channel" -> AnyChannel(row) = {TRUE}
                [] "any_channel" = "comfort_violation_flag" -> Flagged(row)})
    BY Zenon DEF ComfortTable
  <2>4. ComfortTable(rows)["comfort_violation_flag"]
          = Cardinality({row \in Ok(rows) :
              CASE "comfort_violation_flag" \in Channels -> row.exceeds["comfort_violation_flag"] = {TRUE}
                [] "comfort_violation_flag" = "any_channel" -> AnyChannel(row) = {TRUE}
                [] "comfort_violation_flag" = "comfort_violation_flag" -> Flagged(row)})
    BY Zenon DEF ComfortTable
  <2>5. QED
    BY <1>1, <2>1, <2>2, <2>3, <2>4, Zenon
<1>8. breakdown.thresholds_agree => any = flag
  BY <1>4, <1>5, <1>6, Zenon
<1>9. QED
  BY <1>6, <1>7, <1>8, Zenon DEF Flagged

\* A features file that is loaded leaves every stored split as it was, right or wrong, and
\* puts every scenario that was not stored on the half its id gives.
LEMMA LoadFeaturesReproducible ==
  ASSUME NEW stored, NEW ids, LoadFeatures(Assigned, stored, ids) # <<>>
  PROVE  LET incoming == {ids[i] : i \in DOMAIN ids}
             table    == LoadFeatures(Assigned, stored, ids)[1]
         IN /\ DOMAIN table = DOMAIN stored \cup incoming
            /\ \A s \in DOMAIN stored : table[s] = stored[s]
            /\ \A s \in incoming : table[s] = Assigned[s]
<1> DEFINE incoming == {ids[i] : i \in DOMAIN ids}
           loaded   == [s \in DOMAIN stored \cup incoming |->
                          IF s \in incoming THEN Assigned[s] ELSE stored[s]]
<1>1. LoadFeatures(Assigned, stored, ids) = <<loaded>> /\ Misassigned(Assigned, stored, incoming) = {}
  BY Zenon DEF LoadFeatures
<1>2. LoadFeatures(Assigned, stored, ids)[1] = loaded
  BY <1>1
<1>3. \A s \in DOMAIN stored \cap incoming : stored[s] = Assigned[s]
  BY <1>1, Zenon DEF Misassigned
<1>4. QED
  BY <1>2, <1>3, Zenon

-----------------------------------------------------------------------------
(* The calls.                                                              *)

\* What a call is made on.
FromItsTables(f, arg) ==
  /\ f = "benjamini_hochberg" => arg \in PValues
  /\ f = "resample_rows" => arg.ids \in Clusterings /\ arg.draw \in Draws(arg.ids)
  /\ f = "bootstrap" => arg \in Bags
  /\ f = "candidate_predicates" => arg \in NumericColumns
  /\ f = "log_replay_vs_reactive" => arg \in AgentRows
  /\ f = "per_maneuver_failure_rates" => arg \in ManeuverRows
  /\ f = "metric_disagreement" => arg \in Means
  /\ f = "comfort_violation_breakdown" => arg \in ComfortRows
  /\ f = "latency_aggregates" => arg \in LatencyRows

\* What its operator gives.
Answers(f, arg, result) ==
  /\ f = "benjamini_hochberg" => result = [reject |-> Reject(arg, Alpha), q |-> QValues(arg, Unit)]
  /\ f = "resample_rows" => result = ResampleRows(ClusterLayout(arg.ids), arg.draw)
  /\ f = "bootstrap" => result = [ci |-> PercentileCI(arg, Alpha, Unit), p |-> TwoSidedP(arg)]
  /\ f = "candidate_predicates" => result = ColumnPredicates("column", TRUE, arg)
  /\ f = "log_replay_vs_reactive" => result = LogReplayVsReactive(arg, Alpha, Unit)
  /\ f = "per_maneuver_failure_rates" => result = PerManeuver(arg)
  /\ f = "metric_disagreement" => result = MetricDisagreement(arg)
  /\ f = "comfort_violation_breakdown" => result = ComfortBreakdown(arg)
  /\ f = "latency_aggregates" => result = LatencyAggregates(arg)
  /\ f = "load_features_csv" => result = LoadFeatures(Assigned, arg.stored, arg.ids)

\* A call has its three fields, comes from the tables it may be made on, and once it has
\* returned the answer is what its operator gives.
CallInv ==
  /\ call = [f |-> call.f, arg |-> call.arg, returned |-> call.returned]
  /\ FromItsTables(call.f, call.arg)
  /\ call.returned => answer = <<answer[1]>> /\ Answers(call.f, call.arg, answer[1])

\* A call that was just made has not returned.
LEMMA CallInvInit == CallInit => CallInv
<1> SUFFICES ASSUME CallInit PROVE CallInv
  OBVIOUS
<1>1. ASSUME NEW f, NEW arg, call = Called(f, arg), FromItsTables(f, arg)
      PROVE  CallInv
  BY <1>1, Zenon DEF Called, CallInv
<1>2. QED
  BY <1>1, Zenon DEF CallInit, FromItsTables

\* The returned answer is the result of the operator of that call.
LEMMA CallInvNext == CallInv /\ [CallNext]_callVars => CallInv'
<1> SUFFICES ASSUME CallInv, [CallNext]_callVars PROVE CallInv'
  OBVIOUS
<1>1. ASSUME NEW f, NEW result, Return(f, result), Answers(f, call.arg, result)
      PROVE  CallInv'
  <2>1. /\ call.f = f /\ answer' = <<result>>
        /\ call' = [f |-> call.f, arg |-> call.arg, returned |-> TRUE]
        /\ call'.f = call.f /\ call'.arg = call.arg
    BY <1>1, Zenon DEF Return, CallInv
  <2>2. call'.returned = TRUE
    BY <2>1
  <2>3. call' = [f |-> call'.f, arg |-> call'.arg, returned |-> call'.returned]
    BY <2>1, <2>2, Zenon
  <2>4. FromItsTables(call'.f, call'.arg)
    BY <2>1, Zenon DEF CallInv
  <2>5. answer'[1] = result
    BY <2>1
  <2>6. answer' = <<answer'[1]>> /\ Answers(call'.f, call'.arg, answer'[1])
    BY <1>1, <2>1, <2>5, Zenon
  <2>7. QED
    BY <2>3, <2>4, <2>6, Zenon DEF CallInv, FromItsTables, Answers
<1>2. CASE CallNext
  <2>1. CASE BenjaminiHochberg
    BY <1>1, <2>1, Zenon DEF BenjaminiHochberg, Answers
  <2>2. CASE Resample
    BY <1>1, <2>2, Zenon DEF Resample, Answers
  <2>3. CASE Bootstrap
    BY <1>1, <2>3, Zenon DEF Bootstrap, Answers
  <2>4. CASE CandidatePredicates
    BY <1>1, <2>4, Zenon DEF CandidatePredicates, Answers
  <2>5. CASE CompareAgentModes
    BY <1>1, <2>5, Zenon DEF CompareAgentModes, Answers
  <2>6. CASE RatesPerManeuver
    BY <1>1, <2>6, Zenon DEF RatesPerManeuver, Answers
  <2>7. CASE RankConfigurations
    BY <1>1, <2>7, Zenon DEF RankConfigurations, Answers
  <2>8. CASE BreakDownComfort
    BY <1>1, <2>8, Zenon DEF BreakDownComfort, Answers
  <2>9. CASE AggregateLatency
    BY <1>1, <2>9, Zenon DEF AggregateLatency, Answers
  <2>10. CASE LoadTheFeatures
    BY <1>1, <2>10, Zenon DEF LoadTheFeatures, Answers
  <2>11. QED
    BY <1>2, <2>1, <2>2, <2>3, <2>4, <2>5, <2>6, <2>7, <2>8, <2>9, <2>10, Zenon DEF CallNext
<1>3. CASE UNCHANGED callVars
  <2>1. call' = call /\ answer' = answer
    BY <1>3 DEF callVars
  <2>2. call' = [f |-> call'.f, arg |-> call'.arg, returned |-> call'.returned]
    BY <2>1, Zenon DEF CallInv
  <2>3. FromItsTables(call'.f, call'.arg)
    BY <2>1, Zenon DEF CallInv
  <2>4. call'.returned => answer' = <<answer'[1]>> /\ Answers(call'.f, call'.arg, answer'[1])
    BY <2>1, Zenon DEF CallInv
  <2>5. QED
    BY <2>2, <2>3, <2>4, Zenon DEF CallInv, FromItsTables, Answers
<1>4. QED
  BY <1>2, <1>3

\* Every answered call has what CallInv says of it.
LEMMA CallInvAlways == CallSpec => []CallInv
  BY CallInvInit, CallInvNext, PTL DEF CallSpec

\* The comfort cross-check is sound for finite tables of every size and every flag.
THEOREM ComfortCheckSound == CallSpec => []ComfortCheckIsSound
<1>1. CallInv => ComfortCheckIsSound
  <2> SUFFICES ASSUME CallInv, Answered("comfort_violation_breakdown"), answer[1] # <<>>
               PROVE  ComfortCheckIsSound
    BY DEF ComfortCheckIsSound
  <2>1. call.arg \in ComfortRows /\ answer = <<ComfortBreakdown(call.arg)>>
    BY Zenon DEF CallInv, Answered, FromItsTables, Answers
  <2>2. answer[1] = ComfortBreakdown(call.arg)
    BY <2>1
  <2>3. IsFiniteSet(call.arg)
    BY <2>1, AlgorithmsAssumption
  <2>4. QED
    BY <2>2, <2>3, ComfortBreakdownSound, Zenon DEF ComfortCheckIsSound, Ok
<1>2. QED
  BY <1>1, CallInvAlways, PTL

\* Loading features keeps the split reproducible, for features tables and files of every
\* size: what verify_splits would find before the load it finds after it.
THEOREM SplitReproducible == CallSpec => []SplitIsReproducible
<1>1. CallInv => SplitIsReproducible
  <2> SUFFICES ASSUME CallInv, Answered("load_features_csv"), answer[1] # <<>>
               PROVE  SplitIsReproducible
    BY DEF SplitIsReproducible
  <2> DEFINE stored == call.arg.stored
             ids    == call.arg.ids
             incoming == {ids[i] : i \in DOMAIN ids}
             table  == answer[1][1]
             wrong(t) == {s \in DOMAIN t : t[s] # Assigned[s]}
  <2>1. answer = <<LoadFeatures(Assigned, stored, ids)>>
    BY Zenon DEF CallInv, Answered, Answers
  <2>2. answer[1] = LoadFeatures(Assigned, stored, ids)
    BY <2>1
  <2>3. /\ DOMAIN table = DOMAIN stored \cup incoming
        /\ \A s \in DOMAIN stored : table[s] = stored[s]
        /\ \A s \in incoming : table[s] = Assigned[s]
    <3>1. LoadFeatures(Assigned, stored, ids) # <<>> /\ table = LoadFeatures(Assigned, stored, ids)[1]
      BY <2>2
    <3> HIDE DEF stored, ids
    <3> DEFINE loaded == LoadFeatures(Assigned, stored, ids)[1]
    <3>2. /\ DOMAIN loaded = DOMAIN stored \cup incoming
          /\ \A s \in DOMAIN stored : loaded[s] = stored[s]
          /\ \A s \in incoming : loaded[s] = Assigned[s]
      BY <3>1, LoadFeaturesReproducible
    <3>3. table = loaded
      BY <3>1
    <3> HIDE DEF table, loaded, incoming
    <3>4. QED
      BY <3>2, <3>3
  <2> HIDE DEF stored, ids, incoming, table
  <2>4. wrong(table) = wrong(stored)
    BY <2>3
  <2>5. VerifySplits(Assigned, table) = <<>> <=> VerifySplits(Assigned, stored) = <<>>
    <3>1. ASSUME NEW t
          PROVE  VerifySplits(Assigned, t) = <<>> <=> wrong(t) # {}
      BY Zenon DEF VerifySplits, Misassigned
    <3>2. QED
      BY <2>4, <3>1, Zenon
  <2>6. QED
    BY <2>3, <2>4, <2>5, Zenon DEF SplitIsReproducible, stored, ids, incoming, table
<1>2. QED
  BY <1>1, CallInvAlways, PTL

-----------------------------------------------------------------------------
(* The ranking of configurations.                                          *)

\* What a rank counts: those strictly before.
Before(means, m, c) == {e \in DOMAIN means : Precedes(means[e][m], means[c][m])}

\* A configuration nobody puts behind another has no more before it, and fewer when it
\* is itself before the other.
LEMMA RankRespects ==
  ASSUME NEW means, IsFiniteSet(DOMAIN means), NEW m,
         \A e \in DOMAIN means : means[e][m] \subseteq Int,
         NEW c \in DOMAIN means, NEW d \in DOMAIN means, ~Precedes(means[d][m], means[c][m])
  PROVE  /\ Rank(means, m, c) \in Nat /\ Rank(means, m, d) \in Nat
         /\ Rank(means, m, c) <= Rank(means, m, d)
         /\ Precedes(means[c][m], means[d][m]) => Rank(means, m, c) < Rank(means, m, d)
<1>1. \A e \in DOMAIN means : means[e][m] # {} => The(means[e][m]) \in Int
  BY DEF The
<1>2. Before(means, m, c) \subseteq Before(means, m, d)
  BY <1>1 DEF Before, Precedes
<1>3. c \notin Before(means, m, c)
  BY <1>1 DEF Before, Precedes
<1>4. IsFiniteSet(Before(means, m, d)) /\ IsFiniteSet(Before(means, m, c))
  BY FS_Subset DEF Before
<1>5. /\ Cardinality(Before(means, m, c)) \in Nat /\ Cardinality(Before(means, m, d)) \in Nat
      /\ Cardinality(Before(means, m, c)) <= Cardinality(Before(means, m, d))
      /\ Cardinality(Before(means, m, c)) = Cardinality(Before(means, m, d))
           => Before(means, m, c) = Before(means, m, d)
  BY <1>2, <1>4, FS_Subset, FS_CardinalityType
<1>6. Precedes(means[c][m], means[d][m]) => c \in Before(means, m, d)
  BY DEF Before
<1>7. /\ Rank(means, m, c) = 1 + Cardinality(Before(means, m, c))
      /\ Rank(means, m, d) = 1 + Cardinality(Before(means, m, d))
  BY DEF Rank, Before
<1>8. QED
  BY <1>3, <1>5, <1>6, <1>7

\* The ranks add up: the score of a configuration that is nowhere worse is no larger, and
\* smaller when it is somewhere better.
LEMMA ScoreRespects ==
  ASSUME NEW means, IsFiniteSet(DOMAIN means),
         \A e \in DOMAIN means : \A m \in SafetyMetrics : means[e][m] \subseteq Int,
         NEW c \in DOMAIN means, NEW d \in DOMAIN means,
         \A m \in SafetyMetrics : ~Precedes(means[d][m], means[c][m])
  PROVE  /\ SafetyScore(means, c) \in Nat /\ SafetyScore(means, d) \in Nat
         /\ SafetyScore(means, c) <= SafetyScore(means, d)
         /\ (\E m \in SafetyMetrics : Precedes(means[c][m], means[d][m]))
              => SafetyScore(means, c) < SafetyScore(means, d)
<1>1. \A m \in SafetyMetrics :
        /\ Rank(means, m, c) \in Nat /\ Rank(means, m, d) \in Nat
        /\ Rank(means, m, c) <= Rank(means, m, d)
        /\ Precedes(means[c][m], means[d][m]) => Rank(means, m, c) < Rank(means, m, d)
  BY RankRespects
<1>2. QED
  BY <1>1 DEF SafetyScore, SafetyMetrics

\* For any number of configurations, measured or not, the safety rank respects dominance.
THEOREM DominanceRanked == CallSpec => []DominanceIsRanked
<1>1. CallInv => DominanceIsRanked
  <2> SUFFICES ASSUME CallInv, Answered("metric_disagreement"), answer[1] # <<>>
               PROVE  DominanceIsRanked
    BY DEF DominanceIsRanked
  <2> DEFINE means == call.arg
             safety == [c \in DOMAIN means |->
                          1 + Cardinality({d \in DOMAIN means : SafetyScore(means, d) < SafetyScore(means, c)})]
             behind(c) == {d \in DOMAIN means : SafetyScore(means, d) < SafetyScore(means, c)}
             worse(c, d, m) == means[d][m] # {} /\ (means[c][m] = {} \/ The(means[c][m]) > The(means[d][m]))
  <2>1. means \in Means /\ answer = <<MetricDisagreement(means)>>
    BY Zenon DEF CallInv, Answered, FromItsTables, Answers
  <2>2. IsFiniteSet(DOMAIN means)
        /\ \A e \in DOMAIN means : \A m \in SafetyMetrics : means[e][m] \subseteq Int
    BY <2>1, AlgorithmsAssumption
  <2>3. answer[1] = MetricDisagreement(means)
    BY <2>1
  <2>4. answer[1][1].safety_rank = safety
    <3> DEFINE ade == [c \in DOMAIN means |-> Rank(means, "mean_ade", c)]
               first(rank) == {c \in DOMAIN means : \A d \in DOMAIN means : rank[c] <= rank[d]}
               row == [ade_rank |-> ade, safety_rank |-> safety,
                       ade_winner |-> first(ade), safety_winner |-> first(safety)]
    <3>1. answer[1] = IF Cardinality(DOMAIN means) < 2 THEN <<>> ELSE <<row>>
      BY <2>3, Zenon DEF MetricDisagreement
    <3> HIDE DEF row
    <3>2. answer[1] = <<row>>
      BY <3>1
    <3>3. row.safety_rank = safety
      BY Zenon DEF row
    <3>4. QED
      BY <3>2, <3>3
  <2>5. \A c, d \in DOMAIN means : \A m \in SafetyMetrics :
          worse(c, d, m) <=> Precedes(means[d][m], means[c][m])
    BY <2>2 DEF Precedes, The
  <2> HIDE DEF means
  <2>6. \A c \in DOMAIN means : SafetyScore(means, c) \in Nat
    <3>1. ASSUME NEW c \in DOMAIN means PROVE \A m \in SafetyMetrics : ~Precedes(means[c][m], means[c][m])
      BY <2>2 DEF Precedes, The
    <3>2. QED
      BY <2>2, <3>1, ScoreRespects
  <2>7. ASSUME NEW c \in DOMAIN means, NEW d \in DOMAIN means, SafetyScore(means, c) <= SafetyScore(means, d)
        PROVE  /\ safety[c] <= safety[d]
               /\ SafetyScore(means, c) < SafetyScore(means, d) => safety[c] < safety[d]
    <3>1. behind(c) \subseteq behind(d) /\ c \notin behind(c)
      BY <2>6, <2>7
    <3>2. SafetyScore(means, c) < SafetyScore(means, d) => c \in behind(d)
      OBVIOUS
    <3>3. safety[c] = 1 + Cardinality(behind(c)) /\ safety[d] = 1 + Cardinality(behind(d))
      OBVIOUS
    <3>4. IsFiniteSet(behind(c)) /\ IsFiniteSet(behind(d))
      BY <2>2, FS_Subset
    <3> HIDE DEF safety, behind
    <3>5. /\ Cardinality(behind(c)) \in Nat /\ Cardinality(behind(d)) \in Nat
          /\ Cardinality(behind(c)) <= Cardinality(behind(d))
          /\ Cardinality(behind(c)) = Cardinality(behind(d)) => behind(c) = behind(d)
      BY <3>1, <3>4, FS_Subset, FS_CardinalityType
    <3>6. QED
      BY <3>1, <3>2, <3>3, <3>5
  <2>8. ASSUME NEW c \in DOMAIN means, NEW d \in DOMAIN means, \A m \in SafetyMetrics : ~worse(c, d, m)
        PROVE  /\ safety[c] <= safety[d]
               /\ (\E m \in SafetyMetrics : worse(d, c, m)) => safety[c] < safety[d]
    <3>1. \A m \in SafetyMetrics : ~Precedes(means[d][m], means[c][m])
      BY <2>5, <2>8
    <3>2. /\ SafetyScore(means, c) <= SafetyScore(means, d)
          /\ (\E m \in SafetyMetrics : Precedes(means[c][m], means[d][m]))
               => SafetyScore(means, c) < SafetyScore(means, d)
      BY <2>2, <3>1, ScoreRespects
    <3> HIDE DEF safety, worse
    <3>3. QED
      BY <2>5, <2>7, <3>2
  <2> HIDE DEF safety
  <2>9. QED
    BY <2>4, <2>8, Zenon DEF DominanceIsRanked, means
<1>2. QED
  BY <1>1, CallInvAlways, PTL

-----------------------------------------------------------------------------
(* The correction for multiple comparisons.                                *)

\* Those that come no later than i when the p-values are sorted stably.
UpTo(p, i) == {j \in DOMAIN p : p[j] < p[i] \/ (p[j] = p[i] /\ j <= i)}

\* A later position has a higher rank.
LEMMA RankGrows ==
  ASSUME NEW p \in Seq(Nat), NEW i \in DOMAIN p, NEW j \in DOMAIN p
  PROVE  /\ RankOf(p, i) \in 1 .. Len(p)
         /\ p[i] < p[j] \/ (p[i] = p[j] /\ i < j) => RankOf(p, i) < RankOf(p, j)
<1>0. DOMAIN p = 1 .. Len(p) /\ Len(p) \in Nat /\ \A k \in DOMAIN p : p[k] \in Int
  BY LevelAssumption
<1>1. IsFiniteSet(DOMAIN p) /\ Cardinality(DOMAIN p) = Len(p)
  <2>1. IsFiniteSet(1 .. Len(p)) /\ Cardinality(1 .. Len(p)) = IF 1 > Len(p) THEN 0 ELSE Len(p) - 1 + 1
    BY <1>0, FS_Interval
  <2>2. QED
    BY <1>0, <2>1
<1>2. \A k \in DOMAIN p : UpTo(p, k) \subseteq DOMAIN p /\ k \in UpTo(p, k)
  BY <1>0 DEF UpTo
<1>3. \A k \in DOMAIN p : RankOf(p, k) = Cardinality(UpTo(p, k)) /\ IsFiniteSet(UpTo(p, k))
  BY <1>1, <1>2, FS_Subset DEF RankOf, UpTo
<1>4. RankOf(p, i) \in 1 .. Len(p)
  <2>1. Cardinality(UpTo(p, i)) # 0
    BY <1>2, <1>3, FS_EmptySet
  <2>2. Cardinality(UpTo(p, i)) \in Nat /\ Cardinality(UpTo(p, i)) <= Len(p)
    BY <1>1, <1>2, FS_Subset, FS_CardinalityType
  <2>3. QED
    BY <1>0, <1>3, <2>1, <2>2
<1>5. ASSUME p[i] < p[j] \/ (p[i] = p[j] /\ i < j) PROVE RankOf(p, i) < RankOf(p, j)
  <2>1. UpTo(p, i) \subseteq UpTo(p, j) /\ j \notin UpTo(p, i)
    BY <1>0, <1>5 DEF UpTo
  <2>2. UpTo(p, i) # UpTo(p, j)
    BY <1>2, <2>1
  <2>3. QED
    BY <1>3, <2>1, <2>2, FS_Subset, FS_CardinalityType
<1>6. QED
  BY <1>4, <1>5

\* Every rank is the rank of one p-value, which stands there in the sorted ones.
LEMMA RankIsSorting ==
  ASSUME NEW p \in Seq(Nat)
  PROVE  /\ \A r \in 1 .. Len(p) : \E i \in DOMAIN p : RankOf(p, i) = r
         /\ \A i \in DOMAIN p : SortedP(p)[RankOf(p, i)] = p[i]
         /\ DOMAIN SortedP(p) = 1 .. Len(p)
<1> DEFINE rank == [i \in DOMAIN p |-> RankOf(p, i)]
<1>0. DOMAIN p = 1 .. Len(p) /\ Len(p) \in Nat /\ \A k \in DOMAIN p : p[k] \in Int
  BY LevelAssumption
<1>1. IsFiniteSet(DOMAIN p)
  BY <1>0, FS_Interval
<1>2. \A i, j \in DOMAIN p : RankOf(p, i) = RankOf(p, j) => i = j
  <2> SUFFICES ASSUME NEW i \in DOMAIN p, NEW j \in DOMAIN p, i # j PROVE RankOf(p, i) # RankOf(p, j)
    OBVIOUS
  <2>1. \/ p[i] < p[j] \/ (p[i] = p[j] /\ i < j)
        \/ p[j] < p[i] \/ (p[j] = p[i] /\ j < i)
    BY <1>0
  <2>2. RankOf(p, i) < RankOf(p, j) \/ RankOf(p, j) < RankOf(p, i)
    BY <2>1, RankGrows
  <2>3. RankOf(p, i) \in Int /\ RankOf(p, j) \in Int
    BY <1>0, RankGrows
  <2>4. QED
    BY <2>2, <2>3
<1>3. rank \in Injection(DOMAIN p, DOMAIN p)
  <2>1. rank \in [DOMAIN p -> DOMAIN p]
    BY <1>0, RankGrows
  <2>2. QED
    BY <1>2, <2>1 DEF Injection, IsInjective
<1>4. rank \in Surjection(DOMAIN p, DOMAIN p)
  <2> HIDE DEF rank
  <2>1. QED
    BY <1>1, <1>3, FS_Injection
<1>5. \A r \in 1 .. Len(p) : \E i \in DOMAIN p : RankOf(p, i) = r
  BY <1>0, <1>4 DEF Surjection
<1>6. ASSUME NEW i \in DOMAIN p PROVE SortedP(p)[RankOf(p, i)] = p[i]
  <2>1. RankOf(p, i) \in DOMAIN p
    BY <1>0, RankGrows
  <2>2. SortedP(p)[RankOf(p, i)] = p[CHOOSE j \in DOMAIN p : RankOf(p, j) = RankOf(p, i)]
    BY <2>1, Zenon DEF SortedP
  <2>3. (CHOOSE j \in DOMAIN p : RankOf(p, j) = RankOf(p, i)) = i
    BY <1>2
  <2>4. QED
    BY <2>2, <2>3
<1>7. DOMAIN SortedP(p) = 1 .. Len(p)
  BY <1>0 DEF SortedP
<1>8. QED
  BY <1>5, <1>6, <1>7

\* The sorted p-values ascend, and r of them are up to rank r.
LEMMA SortedAscends ==
  ASSUME NEW p \in Seq(Nat)
  PROVE  /\ \A r \in 1 .. Len(p) : SortedP(p)[r] \in Nat
         /\ \A r, t \in 1 .. Len(p) : r <= t => SortedP(p)[r] <= SortedP(p)[t]
         /\ \A r \in 1 .. Len(p) : Cardinality({i \in DOMAIN p : RankOf(p, i) <= r}) = r
<1>0. DOMAIN p = 1 .. Len(p) /\ Len(p) \in Nat
      /\ \A k \in DOMAIN p : p[k] \in Int /\ p[k] \in Nat /\ RankOf(p, k) \in Int
  BY LevelAssumption, RankGrows
<1>1. \A r \in 1 .. Len(p) : SortedP(p)[r] \in Nat
  BY <1>0, RankIsSorting
<1>2. ASSUME NEW r \in 1 .. Len(p), NEW t \in 1 .. Len(p), r <= t PROVE SortedP(p)[r] <= SortedP(p)[t]
  <2>1. PICK i \in DOMAIN p : RankOf(p, i) = r
    BY RankIsSorting
  <2>2. PICK j \in DOMAIN p : RankOf(p, j) = t
    BY RankIsSorting
  <2>3. ~(p[j] < p[i])
    <3>1. p[j] < p[i] => RankOf(p, j) < RankOf(p, i)
      BY RankGrows
    <3>2. QED
      BY <1>0, <1>2, <2>1, <2>2, <3>1
  <2>4. SortedP(p)[r] = p[i] /\ SortedP(p)[t] = p[j]
    BY <2>1, <2>2, RankIsSorting
  <2>5. QED
    BY <1>0, <2>3, <2>4
<1>3. ASSUME NEW r \in 1 .. Len(p) PROVE Cardinality({i \in DOMAIN p : RankOf(p, i) <= r}) = r
  <2>1. PICK i \in DOMAIN p : RankOf(p, i) = r
    BY RankIsSorting
  <2>2. \A j \in DOMAIN p : j \in UpTo(p, i) <=> RankOf(p, j) <= r
    <3> TAKE j \in DOMAIN p
    <3>1. CASE p[j] < p[i] \/ (p[j] = p[i] /\ j < i)
      <4>1. RankOf(p, j) < RankOf(p, i)
        BY <3>1, RankGrows
      <4>2. QED
        BY <1>0, <2>1, <3>1, <4>1 DEF UpTo
    <3>2. CASE p[i] < p[j] \/ (p[i] = p[j] /\ i < j)
      <4>1. RankOf(p, i) < RankOf(p, j)
        BY <3>2, RankGrows
      <4>2. QED
        BY <1>0, <2>1, <3>2, <4>1 DEF UpTo
    <3>3. CASE i = j
      BY <1>0, <2>1, <3>3 DEF UpTo
    <3>4. QED
      BY <1>0, <3>1, <3>2, <3>3
  <2>3. {j \in DOMAIN p : RankOf(p, j) <= r} = UpTo(p, i)
    BY <2>2 DEF UpTo
  <2>4. QED
    BY <2>1, <2>3 DEF RankOf, UpTo
<1>4. QED
  BY <1>1, <1>2, <1>3

\* A set of hypotheses has one of the highest rank, and no more members than that.
LEMMA HighestRank ==
  ASSUME NEW p \in Seq(Nat), NEW R \in SUBSET DOMAIN p, R # {}
  PROVE  \E j \in R : /\ \A i \in R : RankOf(p, i) <= RankOf(p, j)
                      /\ Cardinality(R) \in Nat /\ Cardinality(R) <= RankOf(p, j)
<1> DEFINE m == Len(p)
           left == {m - RankOf(p, i) : i \in R}
<1>0. /\ DOMAIN p = 1 .. m /\ m \in Nat
      /\ \A k \in DOMAIN p : RankOf(p, k) \in Int /\ RankOf(p, k) \in 1 .. m
  BY LevelAssumption, RankGrows
<1> HIDE DEF m
<1>1. left \in SUBSET Nat /\ left # {} /\ \A i \in R : m - RankOf(p, i) \in left
  BY <1>0
<1>2. \A n \in left : \E i \in R : n = m - RankOf(p, i)
  OBVIOUS
<1> HIDE DEF left
<1>3. PICK n \in left : \A k \in left : n <= k
  <2>1. PICK n \in left : \A k \in left : ~(<<k, n>> \in OpToRel(<, Nat))
    BY <1>1, NatLessThanWellFounded, WFMin
  <2>2. \A k \in left : ~(k < n)
    BY <1>1, <2>1 DEF OpToRel
  <2>3. QED
    BY <1>1, <2>2
<1>4. PICK j \in R : n = m - RankOf(p, j)
  BY <1>2
<1>8. \A i \in R : RankOf(p, i) <= RankOf(p, j)
  <2> TAKE i \in R
  <2>1. n <= m - RankOf(p, i) /\ RankOf(p, i) \in Int /\ RankOf(p, j) \in Int
    BY <1>0, <1>1, <1>3
  <2>2. QED
    BY <1>0, <1>4, <2>1
<1>5. R \subseteq {i \in DOMAIN p : RankOf(p, i) <= RankOf(p, j)}
  BY <1>8
<1>6. Cardinality({i \in DOMAIN p : RankOf(p, i) <= RankOf(p, j)}) = RankOf(p, j)
  BY <1>0, SortedAscends DEF m
<1>7. IsFiniteSet(DOMAIN p)
  <2>1. IsFiniteSet(1 .. m)
    BY <1>0, FS_Interval
  <2>2. QED
    BY <1>0, <2>1
<1>9. QED
  <2>1. IsFiniteSet({i \in DOMAIN p : RankOf(p, i) <= RankOf(p, j)})
    BY <1>7, FS_Subset
  <2>2. QED
    BY <1>5, <1>6, <1>8, <2>1, FS_Subset, FS_CardinalityType

\* A threshold that is met is met by a smaller p-value.
LEMMA ThresholdUp ==
  \A x, y, n, m, a \in Nat : x <= y /\ y * m <= n * a => x * m <= n * a
OBVIOUS

\* The same at a higher rank.
LEMMA ThresholdRank ==
  \A y, n, k, m, a \in Nat : n <= k /\ y * m <= n * a => y * m <= k * a
OBVIOUS

\* The step-up procedure rejects the union of the sets that meet the threshold for their
\* own size.
LEMMA RejectIsLargest ==
  ASSUME NEW p \in Seq(Nat)
  PROVE  Reject(p, Alpha)
           = UNION {R \in SUBSET DOMAIN p : \A i \in R : p[i] * Len(p) <= Cardinality(R) * Alpha}
<1> DEFINE m == Len(p)
           s == SortedP(p)
           below == {r \in DOMAIN s : s[r] * m <= r * Alpha}
           upto(r) == {i \in DOMAIN p : RankOf(p, i) <= r}
<1>0. /\ DOMAIN p = 1 .. m /\ m \in Nat /\ Alpha \in Nat
      /\ \A k \in DOMAIN p : RankOf(p, k) \in 1 .. m /\ p[k] \in Nat /\ s[RankOf(p, k)] = p[k]
      /\ DOMAIN s = 1 .. m /\ \A r \in 1 .. m : s[r] \in Nat
      /\ \A r, t \in 1 .. m : r <= t => s[r] <= s[t]
      /\ \A r \in 1 .. m : Cardinality(upto(r)) = r
  BY LevelAssumption, RankGrows, RankIsSorting, SortedAscends
<1>1. Reject(p, Alpha) = {i \in DOMAIN p : \E r \in below : RankOf(p, i) <= r}
  BY Zenon DEF Reject
<1> HIDE DEF m, s
<1>2. ASSUME NEW i \in DOMAIN p, NEW r \in below, RankOf(p, i) <= r
      PROVE  \E R \in SUBSET DOMAIN p : i \in R /\ \A k \in R : p[k] * m <= Cardinality(R) * Alpha
  <2>1. r \in 1 .. m /\ Cardinality(upto(r)) = r /\ i \in upto(r)
    BY <1>0, <1>2
  <2>2. ASSUME NEW k \in upto(r) PROVE p[k] * m <= r * Alpha
    <3>1. p[k] <= s[r] /\ s[r] * m <= r * Alpha
      BY <1>0, <2>1
    <3>2. p[k] \in Nat /\ s[r] \in Nat /\ r \in Nat
      BY <1>0, <2>1
    <3>3. QED
      BY <1>0, <3>1, <3>2, ThresholdUp
  <2>3. QED
    BY <2>1, <2>2
<1>3. ASSUME NEW R \in SUBSET DOMAIN p, \A k \in R : p[k] * m <= Cardinality(R) * Alpha, NEW i \in R
      PROVE  \E r \in below : RankOf(p, i) <= r
  <2>1. PICK j \in R : /\ \A k \in R : RankOf(p, k) <= RankOf(p, j)
                       /\ Cardinality(R) \in Nat /\ Cardinality(R) <= RankOf(p, j)
    BY HighestRank
  <2>2. RankOf(p, j) \in 1 .. m /\ RankOf(p, j) \in Nat /\ p[j] \in Nat /\ s[RankOf(p, j)] = p[j]
    BY <1>0
  <2>3. p[j] * m <= RankOf(p, j) * Alpha
    BY <1>0, <1>3, <2>1, <2>2, ThresholdRank
  <2>4. RankOf(p, j) \in below
    BY <1>0, <2>2, <2>3
  <2>5. QED
    BY <2>1, <2>4
<1>4. Reject(p, Alpha)
        = UNION {R \in SUBSET DOMAIN p : \A k \in R : p[k] * m <= Cardinality(R) * Alpha}
  <2> HIDE DEF below
  <2>1. \A i \in Reject(p, Alpha) :
          i \in DOMAIN p /\ \E R \in SUBSET DOMAIN p : i \in R /\ \A k \in R : p[k] * m <= Cardinality(R) * Alpha
    BY <1>1, <1>2, Zenon
  <2>2. \A R \in SUBSET DOMAIN p : (\A k \in R : p[k] * m <= Cardinality(R) * Alpha)
           => \A i \in R : i \in Reject(p, Alpha)
    BY <1>1, <1>3, Zenon
  <2>3. QED
    BY <2>1, <2>2, Zenon
<1>5. QED
  BY <1>4, Zenon DEF m

\* Fractions with positive denominators, in one chain.
LEMMA FractionsChain ==
  \A x, y, z \in Int, n, k, l \in Nat \ {0} : x * k <= y * n /\ y * l <= z * k => x * l <= z * n
<1> SUFFICES ASSUME NEW x \in Int, NEW y \in Int, NEW z \in Int,
                    NEW n \in Nat \ {0}, NEW k \in Nat \ {0}, NEW l \in Nat \ {0},
                    x * k <= y * n, y * l <= z * k
             PROVE  x * l <= z * n
  OBVIOUS
<1>1. (x * k) * l <= (y * n) * l
  OBVIOUS
<1>2. (y * l) * n <= (z * k) * n
  OBVIOUS
<1>3. (x * k) * l = (x * l) * k /\ (y * n) * l = (y * l) * n /\ (z * k) * n = (z * n) * k
  OBVIOUS
<1>4. (x * l) * k <= (z * n) * k
  BY <1>1, <1>2, <1>3
<1>5. x * l \in Int /\ z * n \in Int
  OBVIOUS
<1>6. \A u, v \in Int, w \in Nat \ {0} : u * w <= v * w => u <= v
  OBVIOUS
<1>7. QED
  BY <1>4, <1>5, <1>6

\* In every non-empty set of ranks one has the least quotient of p-value and rank.
LEMMA LeastQuotient ==
  ASSUME NEW m \in Nat, NEW s, \A r \in 1 .. m : s[r] \in Nat
  PROVE  \A T \in SUBSET (1 .. m) : T # {} => \E r \in T : \A t \in T : s[r] * t <= s[t] * r
<1> DEFINE least(r, T) == \A t \in T : s[r] * t <= s[t] * r
           F == {T \in SUBSET (1 .. m) : T # {} => \E r \in T : least(r, T)}
<1>1. IsFiniteSet(1 .. m)
  BY FS_Interval
<1>2. {} \in F
  OBVIOUS
<1>3. ASSUME NEW T \in F, NEW x \in 1 .. m PROVE T \cup {x} \in F
  <2>0. T \cup {x} \in SUBSET (1 .. m) /\ T \in SUBSET (1 .. m) /\ x \in Nat /\ s[x] * x <= s[x] * x
    OBVIOUS
  <2>1. CASE T = {}
    <3>1. least(x, T \cup {x})
      BY <2>0, <2>1
    <3>2. QED
      BY <2>0, <3>1
  <2>2. CASE T # {}
    <3>1. PICK r \in T : least(r, T)
      BY <2>2
    <3>2. r \in 1 .. m /\ s[r] \in Nat /\ s[x] \in Nat /\ r \in Nat \ {0} /\ x \in Nat \ {0}
      BY <2>0
    <3>3. CASE s[r] * x <= s[x] * r
      <4>1. least(r, T \cup {x})
        BY <3>1, <3>3
      <4>2. QED
        BY <2>0, <4>1
    <3>4. CASE ~(s[r] * x <= s[x] * r)
      <4>1. s[x] * r <= s[r] * x
        <5>1. s[r] * x \in Nat /\ s[x] * r \in Nat
          BY <3>2
        <5>2. QED
          BY <3>4, <5>1
      <4>2. ASSUME NEW t \in T PROVE s[x] * t <= s[t] * x
        <5>1. s[r] * t <= s[t] * r
          BY <3>1
        <5>2. t \in Nat \ {0} /\ s[t] \in Nat
          BY <2>0
        <5>3. s[r] \in Int /\ s[x] \in Int /\ s[t] \in Int
          BY <3>2, <5>2
        <5>4. QED
          BY <3>2, <4>1, <5>1, <5>2, <5>3, FractionsChain
      <4>3. least(x, T \cup {x})
        BY <2>0, <4>2
      <4>4. QED
        BY <2>0, <4>3
    <3>5. QED
      BY <3>3, <3>4
  <2>3. QED
    BY <2>1, <2>2
<1> HIDE DEF F
<1>4. \A T \in SUBSET (1 .. m) : T \in F
  BY <1>1, <1>2, <1>3, FiniteSetInduction
<1>5. QED
  BY <1>4 DEF F

\* A q-value is the least quotient from the rank of the hypothesis on, cut at 1.
LEMMA QIsLeastQuotient ==
  ASSUME NEW p \in Seq(Nat), NEW i \in DOMAIN p
  PROVE  \E r \in RankOf(p, i) .. Len(p) :
           /\ \A t \in RankOf(p, i) .. Len(p) : SortedP(p)[r] * t <= SortedP(p)[t] * r
           /\ QValues(p, Unit)[i] = IF Len(p) * SortedP(p)[r] > Unit * r THEN [num |-> Unit, den |-> 1]
                                    ELSE [num |-> Len(p) * SortedP(p)[r], den |-> r]
<1> DEFINE m == Len(p)
           s == SortedP(p)
           tail == RankOf(p, i) .. m
           r == CHOOSE r \in tail : \A t \in tail : s[r] * t <= s[t] * r
<1>1. m \in Nat /\ RankOf(p, i) \in 1 .. m /\ \A t \in 1 .. m : s[t] \in Nat
  BY LevelAssumption, RankGrows, SortedAscends
<1>2. QValues(p, Unit)[i] = IF m * s[r] > Unit * r THEN [num |-> Unit, den |-> 1]
                            ELSE [num |-> m * s[r], den |-> r]
  BY Zenon DEF QValues
<1>3. tail \in SUBSET (1 .. m) /\ tail # {}
  BY <1>1
<1> HIDE DEF m, s, tail
<1>4. \E u \in tail : \A t \in tail : s[u] * t <= s[t] * u
  BY <1>1, <1>3, LeastQuotient
<1>5. r \in tail /\ \A t \in tail : s[r] * t <= s[t] * r
  BY <1>4, Zenon
<1>6. QED
  BY <1>2, <1>5, Zenon DEF m, s, tail

\* A q-value is a fraction.
LEMMA QIsFraction ==
  ASSUME NEW p \in Seq(Nat), NEW i \in DOMAIN p
  PROVE  QValues(p, Unit)[i].num \in Nat /\ QValues(p, Unit)[i].den \in Nat \ {0}
<1> DEFINE m == Len(p)
           s == SortedP(p)
           q == QValues(p, Unit)[i]
<1>1. m \in Nat /\ RankOf(p, i) \in 1 .. m /\ \A t \in 1 .. m : s[t] \in Nat
  BY LevelAssumption, RankGrows, SortedAscends
<1>2. PICK r \in RankOf(p, i) .. m :
        q = IF m * s[r] > Unit * r THEN [num |-> Unit, den |-> 1] ELSE [num |-> m * s[r], den |-> r]
  BY QIsLeastQuotient
<1> HIDE DEF m, s, q
<1>3. r \in Nat \ {0} /\ s[r] \in Nat
  BY <1>1
<1>4. m * s[r] \in Nat /\ Unit \in Nat
  BY <1>1, <1>3, LevelAssumption
<1>5. q.num \in Nat /\ q.den \in Nat \ {0}
  BY <1>2, <1>3, <1>4
<1>6. QED
  BY <1>5 DEF q

\* The cut at 1 changes no comparison with a level below 1.
LEMMA CutKeepsLevel ==
  ASSUME NEW x \in Nat, NEW r \in Nat \ {0}, NEW u \in Nat, NEW a \in Nat, a < u, x > u * r
  PROVE  ~(x <= a * r) /\ ~(u <= a * 1)
<1>1. a * r <= u * r /\ a * r \in Nat /\ u * r \in Nat
  OBVIOUS
<1>2. QED
  BY <1>1

\* A q-value clears alpha exactly when the hypothesis is rejected.
LEMMA ClearsIsRejected ==
  ASSUME NEW p \in Seq(Nat), NEW i \in DOMAIN p
  PROVE  Clears(QValues(p, Unit)[i], Alpha) <=> i \in Reject(p, Alpha)
<1> DEFINE m == Len(p)
           s == SortedP(p)
           tail == RankOf(p, i) .. m
           meets(t) == s[t] * m <= t * Alpha
           q == QValues(p, Unit)[i]
<1>1. /\ m \in Nat /\ RankOf(p, i) \in 1 .. m /\ DOMAIN s = 1 .. m
      /\ \A t \in 1 .. m : s[t] \in Nat
  BY LevelAssumption, RankGrows, RankIsSorting, SortedAscends
<1>2. i \in Reject(p, Alpha) <=> \E t \in {t \in DOMAIN s : meets(t)} : RankOf(p, i) <= t
  BY Zenon DEF Reject
<1>3. PICK r \in tail :
        /\ \A t \in tail : s[r] * t <= s[t] * r
        /\ q = IF m * s[r] > Unit * r THEN [num |-> Unit, den |-> 1] ELSE [num |-> m * s[r], den |-> r]
  BY QIsLeastQuotient
<1> HIDE DEF m, s, q
<1>4. \A t \in tail : t \in 1 .. m /\ t \in Nat \ {0} /\ s[t] \in Nat
  BY <1>1
<1>5. i \in Reject(p, Alpha) <=> \E t \in tail : meets(t)
  <2> HIDE DEF meets
  <2>1. \A t \in 1 .. m : t \in tail <=> RankOf(p, i) <= t
    BY <1>1
  <2>2. QED
    BY <1>1, <1>2, <1>4, <2>1
<1>6. (\E t \in tail : meets(t)) <=> meets(r)
  <2>1. ASSUME NEW t \in tail, meets(t) PROVE meets(r)
    <3>1. s[r] * t <= s[t] * r
      BY <1>3
    <3>2. s[t] * m <= Alpha * t
      BY <1>1, <1>4, <2>1, LevelAssumption
    <3>3. s[r] * m <= Alpha * r
      <4>1. r \in Nat \ {0} /\ t \in Nat \ {0} /\ s[r] \in Nat /\ s[t] \in Nat /\ Alpha \in Nat
        BY <1>4, LevelAssumption
      <4> HIDE DEF tail
      <4>2. CASE m = 0
        BY <1>1, <4>1, <4>2
      <4>3. CASE m # 0
        <5>1. m \in Nat \ {0} /\ s[r] \in Int /\ s[t] \in Int /\ Alpha \in Int
          BY <1>1, <4>1, <4>3
        <5>2. QED
          BY <3>1, <3>2, <4>1, <5>1, FractionsChain
      <4>4. QED
        BY <4>2, <4>3
    <3>4. QED
      BY <1>1, <1>4, <3>3, LevelAssumption
  <2>2. QED
    BY <2>1
<1>7. Clears(q, Alpha) <=> meets(r)
  <2>1. r \in Nat \ {0} /\ s[r] \in Nat /\ Alpha \in Nat /\ Unit \in Nat /\ Alpha < Unit
        /\ m * s[r] \in Nat /\ m * s[r] = s[r] * m /\ r * Alpha = Alpha * r
    BY <1>1, <1>4, LevelAssumption
  <2>2. CASE m * s[r] > Unit * r
    <3>1. q = [num |-> Unit, den |-> 1]
      BY <1>3, <2>2
    <3>2. ~(m * s[r] <= Alpha * r) /\ ~(Unit <= Alpha * 1)
      BY <2>1, <2>2, CutKeepsLevel
    <3>3. QED
      BY <2>1, <3>1, <3>2 DEF Clears
  <2>3. CASE ~(m * s[r] > Unit * r)
    <3>1. q = [num |-> m * s[r], den |-> r]
      BY <1>3, <2>3
    <3>2. QED
      BY <2>1, <3>1 DEF Clears
  <2>4. QED
    BY <2>2, <2>3
<1>8. QED
  BY <1>5, <1>6, <1>7 DEF q

\* The cut at 1 keeps the order of fractions.
LEMMA CutKeepsOrder ==
  ASSUME NEW x \in Nat, NEW y \in Nat, NEW n \in Nat \ {0}, NEW k \in Nat \ {0}, NEW u \in Nat,
         x * k <= y * n
  PROVE  /\ x > u * n => y > u * k
         /\ ~(x > u * n) => x * 1 <= u * n
<1>1. ASSUME x > u * n PROVE y > u * k
  <2> SUFFICES ASSUME y <= u * k PROVE FALSE
    OBVIOUS
  <2>1. y * n <= (u * k) * n
    OBVIOUS
  <2>2. (u * k) * n = (u * n) * k /\ u * n \in Nat
    OBVIOUS
  <2>3. (u * n) * k < x * k
    BY <1>1, <2>2
  <2>4. QED
    BY <2>1, <2>2, <2>3
<1>2. QED
  BY <1>1

\* The q-values order the hypotheses as the p-values do.
LEMMA QFollowsP ==
  ASSUME NEW p \in Seq(Nat), NEW i \in DOMAIN p, NEW j \in DOMAIN p, p[i] <= p[j]
  PROVE  QValues(p, Unit)[i].num * QValues(p, Unit)[j].den
           <= QValues(p, Unit)[j].num * QValues(p, Unit)[i].den
<1> DEFINE m == Len(p)
           s == SortedP(p)
           qi == QValues(p, Unit)[i]
           qj == QValues(p, Unit)[j]
           ri == RankOf(p, i)
           rj == RankOf(p, j)
<1>1. /\ m \in Nat /\ ri \in 1 .. m /\ rj \in 1 .. m
      /\ \A t \in 1 .. m : s[t] \in Nat
      /\ \A t, u \in 1 .. m : t <= u => s[t] <= s[u]
      /\ s[ri] = p[i] /\ s[rj] = p[j] /\ p[i] \in Nat /\ p[j] \in Nat
  <2>1. m \in Nat /\ p[i] \in Nat /\ p[j] \in Nat
    BY LevelAssumption
  <2>2. ri \in 1 .. m /\ rj \in 1 .. m
    BY RankGrows
  <2>3. \A t \in 1 .. m : s[t] \in Nat
    BY SortedAscends, LevelAssumption
  <2>4. \A t, u \in 1 .. m : t <= u => s[t] <= s[u]
    BY SortedAscends
  <2>5. s[ri] = p[i] /\ s[rj] = p[j]
    BY RankIsSorting
  <2>6. QED
    BY <2>1, <2>2, <2>3, <2>4, <2>5
<1>2. PICK a \in ri .. m :
        /\ \A t \in ri .. m : s[a] * t <= s[t] * a
        /\ qi = IF m * s[a] > Unit * a THEN [num |-> Unit, den |-> 1] ELSE [num |-> m * s[a], den |-> a]
  BY QIsLeastQuotient
<1>3. PICK b \in rj .. m :
        qj = IF m * s[b] > Unit * b THEN [num |-> Unit, den |-> 1] ELSE [num |-> m * s[b], den |-> b]
  BY QIsLeastQuotient
<1>4. ASSUME rj < ri PROVE s[rj] = s[ri]
  <2>1. s[rj] <= s[ri]
    BY <1>1, <1>4
  <2>2. s[ri] <= s[rj] /\ s[ri] \in Nat /\ s[rj] \in Nat
    BY <1>1
  <2>3. QED
    BY <2>1, <2>2
<1> HIDE DEF m, s, qi, qj, ri, rj
<1>5. a \in 1 .. m /\ b \in 1 .. m /\ a \in Nat \ {0} /\ b \in Nat \ {0}
      /\ s[a] \in Nat /\ s[b] \in Nat
  BY <1>1
<1>6. s[a] * b <= s[b] * a
  <2>1. CASE ri <= b
    BY <1>1, <1>2, <1>5, <2>1
  <2>2. CASE b < ri
    <3>1. rj <= b /\ rj < ri
      BY <1>1, <2>2
    <3>2. s[b] = s[ri]
      <4>1. s[rj] <= s[b] /\ s[b] <= s[ri] /\ s[rj] = s[ri]
        BY <1>1, <1>4, <1>5, <2>2, <3>1
      <4>2. s[rj] \in Nat /\ s[b] \in Nat /\ s[ri] \in Nat
        BY <1>1, <1>5
      <4>3. QED
        BY <4>1, <4>2
    <3>3. s[a] * ri <= s[ri] * a
      BY <1>1, <1>2
    <3>4. ri \in Nat /\ s[ri] \in Nat /\ b <= ri
      BY <1>1, <1>5, <2>2
    <3>5. \A x, n, k \in Nat : n <= k => x * n <= x * k /\ x * n \in Nat /\ x * k \in Nat
      OBVIOUS
    <3>6. s[a] * b <= s[a] * ri /\ s[a] * b \in Nat /\ s[a] * ri \in Nat
      BY <1>5, <3>4, <3>5
    <3>7. s[b] * a = s[ri] * a /\ s[b] * a \in Nat
      BY <1>5, <3>2
    <3>8. QED
      BY <3>3, <3>6, <3>7
  <2>3. QED
    BY <1>1, <1>5, <2>1, <2>2
<1>7. (m * s[a]) * b <= (m * s[b]) * a
  <2>1. \A x, y \in Nat : x <= y => m * x <= m * y
    BY <1>1
  <2>2. s[a] * b \in Nat /\ s[b] * a \in Nat
    BY <1>5
  <2>3. m * (s[a] * b) <= m * (s[b] * a)
    BY <1>6, <2>1, <2>2
  <2>4. m * (s[a] * b) = (m * s[a]) * b /\ m * (s[b] * a) = (m * s[b]) * a
    <3>1. \A x, y, z \in Nat : x * (y * z) = (x * y) * z
      OBVIOUS
    <3>2. m \in Nat /\ s[a] \in Nat /\ s[b] \in Nat /\ a \in Nat /\ b \in Nat
      BY <1>1, <1>5
    <3>3. PICK x, y \in Nat : x = s[a] /\ y = s[b]
      BY <3>2
    <3>4. m * (x * b) = (m * x) * b /\ m * (y * a) = (m * y) * a
      BY <3>1, <3>2
    <3>5. QED
      BY <3>3, <3>4
  <2>5. QED
    BY <2>3, <2>4
<1>8. m * s[a] \in Nat /\ m * s[b] \in Nat /\ Unit \in Nat
  <2>1. \A x, y \in Nat : x * y \in Nat
    OBVIOUS
  <2>2. QED
    BY <1>1, <1>5, <2>1, LevelAssumption
<1>9. /\ m * s[a] > Unit * a => m * s[b] > Unit * b
      /\ ~(m * s[a] > Unit * a) => (m * s[a]) * 1 <= Unit * a
  BY <1>5, <1>7, <1>8, CutKeepsOrder
<1>10. CASE m * s[b] > Unit * b
  <2>1. qj = [num |-> Unit, den |-> 1]
    BY <1>3, <1>10
  <2>2. CASE m * s[a] > Unit * a
    <3>1. qi = [num |-> Unit, den |-> 1]
      BY <1>2, <2>2
    <3>2. QED
      BY <1>8, <2>1, <3>1 DEF qi, qj
  <2>3. CASE ~(m * s[a] > Unit * a)
    <3>1. qi = [num |-> m * s[a], den |-> a]
      BY <1>2, <2>3
    <3>2. qi.num * qj.den <= qj.num * qi.den
      BY <1>9, <2>1, <2>3, <3>1
    <3>3. QED
      BY <3>2 DEF qi, qj
  <2>4. QED
    BY <2>2, <2>3
<1>11. CASE ~(m * s[b] > Unit * b)
  <2>1. qj = [num |-> m * s[b], den |-> b]
    BY <1>3, <1>11
  <2>2. qi = [num |-> m * s[a], den |-> a]
    BY <1>2, <1>9, <1>11
  <2>3. qi.num * qj.den <= qj.num * qi.den
    BY <1>7, <2>1, <2>2
  <2>4. QED
    BY <2>3 DEF qi, qj
<1>12. QED
  BY <1>10, <1>11

\* For every family of p-values, with ties or without: benjamini_hochberg rejects the
\* largest family that meets its own threshold, its q-values clear alpha for exactly
\* that family, and they order the hypotheses as the p-values do.
THEOREM StepUpLargest == CallSpec => []StepUpIsLargest
<1>1. CallInv => StepUpIsLargest
  <2> SUFFICES ASSUME CallInv, Answered("benjamini_hochberg") PROVE StepUpIsLargest
    BY DEF StepUpIsLargest
  <2> DEFINE p == call.arg
             R == Reject(p, Alpha)
             Q == QValues(p, Unit)
  <2>1. p \in PValues /\ answer = <<[reject |-> R, q |-> Q]>>
    BY Zenon DEF CallInv, Answered, FromItsTables, Answers
  <2>2. p \in Seq(Nat)
    <3>1. p \in Seq(0 .. Unit)
      BY <2>1, AlgorithmsAssumption
    <3>2. 0 .. Unit \subseteq Nat
      BY LevelAssumption
    <3>3. QED
      BY <3>1, <3>2, SeqMonotonic
  <2>3. answer[1].reject = R /\ answer[1].q = Q
    <3> HIDE DEF R, Q
    <3>1. QED
      BY <2>1
  <2>4. R = UNION {S \in SUBSET DOMAIN p : \A i \in S : p[i] * Len(p) <= Cardinality(S) * Alpha}
    BY <2>2, RejectIsLargest
  <2>5. \A i \in DOMAIN p : Clears(Q[i], Alpha) <=> i \in R
    BY <2>2, ClearsIsRejected
  <2>6. \A i, j \in DOMAIN p : p[i] <= p[j] => Q[i].num * Q[j].den <= Q[j].num * Q[i].den
    BY <2>2, QFollowsP
  <2> HIDE DEF p, R, Q
  <2>7. QED
    BY <2>3, <2>4, <2>5, <2>6, Zenon DEF StepUpIsLargest, p
<1>2. QED
  BY <1>1, CallInvAlways, PTL

-----------------------------------------------------------------------------
(* What survives the correction.                                           *)

\* Some of the hypotheses K meet the threshold for their own number with a p-value of x.
Survives(p, K, x) ==
  \E R \in SUBSET K : /\ \A j \in R : p[j] * Cardinality(K) <= Cardinality(R) * Alpha
                      /\ x * Cardinality(K) <= Cardinality(R) * Alpha

\* That is when a q-value clears the level.
LEMMA ClearsIsSurviving ==
  ASSUME NEW p \in Seq(Nat), NEW i \in DOMAIN p
  PROVE  Clears(QValues(p, Unit)[i], Alpha) <=> Survives(p, DOMAIN p, p[i])
<1> DEFINE m == Len(p)
           meets(R) == \A j \in R : p[j] * m <= Cardinality(R) * Alpha
<1>1. Clears(QValues(p, Unit)[i], Alpha) <=> \E R \in SUBSET DOMAIN p : i \in R /\ meets(R)
  <2>1. Clears(QValues(p, Unit)[i], Alpha) <=> i \in Reject(p, Alpha)
    BY ClearsIsRejected
  <2>2. Reject(p, Alpha) = UNION {R \in SUBSET DOMAIN p : meets(R)}
    BY RejectIsLargest
  <2> HIDE DEF meets
  <2>3. QED
    BY <2>1, <2>2
<1>2. /\ m \in Nat /\ DOMAIN p = 1 .. m /\ IsFiniteSet(DOMAIN p) /\ Cardinality(DOMAIN p) = m
      /\ Alpha \in Nat /\ \A j \in DOMAIN p : p[j] \in Nat
  <2>1. m \in Nat /\ DOMAIN p = 1 .. m /\ \A j \in DOMAIN p : p[j] \in Nat
    OBVIOUS
  <2>2. IsFiniteSet(1 .. m) /\ Cardinality(1 .. m) = IF 1 > m THEN 0 ELSE m - 1 + 1
    BY <2>1, FS_Interval
  <2>3. Cardinality(1 .. m) = m
    BY <2>1, <2>2
  <2>4. QED
    BY <2>1, <2>2, <2>3, LevelAssumption
<1> HIDE DEF m
<1>3. ASSUME NEW R \in SUBSET DOMAIN p, i \in R, meets(R) PROVE Survives(p, DOMAIN p, p[i])
  BY <1>2, <1>3, Zenon DEF Survives
<1>4. ASSUME NEW R \in SUBSET DOMAIN p, \A j \in R : p[j] * m <= Cardinality(R) * Alpha,
             p[i] * m <= Cardinality(R) * Alpha
      PROVE  \E U \in SUBSET DOMAIN p : i \in U /\ meets(U)
  <2> DEFINE U == R \cup {i}
  <2>1. IsFiniteSet(U) /\ IsFiniteSet(R)
    BY <1>2, FS_Subset
  <2>2. Cardinality(R) \in Nat /\ Cardinality(U) \in Nat /\ Cardinality(R) <= Cardinality(U)
    <3>1. R \subseteq U
      OBVIOUS
    <3>2. QED
      BY <2>1, <3>1, FS_Subset, FS_CardinalityType
  <2>3. Cardinality(R) * Alpha <= Cardinality(U) * Alpha
        /\ Cardinality(R) * Alpha \in Nat /\ Cardinality(U) * Alpha \in Nat
    <3> HIDE DEF U
    <3>1. \A x, y, a \in Nat : x <= y => x * a <= y * a /\ x * a \in Nat /\ y * a \in Nat
      OBVIOUS
    <3>2. QED
      BY <1>2, <2>2, <3>1
  <2>4. ASSUME NEW j \in U PROVE p[j] * m <= Cardinality(U) * Alpha
    <3>1. p[j] * m <= Cardinality(R) * Alpha
      BY <1>4
    <3>2. j \in DOMAIN p
      OBVIOUS
    <3>3. p[j] * m \in Nat
      BY <1>2, <3>2
    <3> HIDE DEF U
    <3>4. QED
      BY <2>3, <3>1, <3>3
  <2>5. QED
    BY <2>4
<1>5. QED
  <2>1. Survives(p, DOMAIN p, p[i]) <=>
          \E R \in SUBSET DOMAIN p : /\ \A j \in R : p[j] * m <= Cardinality(R) * Alpha
                                     /\ p[i] * m <= Cardinality(R) * Alpha
    BY <1>2, Zenon DEF Survives
  <2>2. QED
    BY <1>1, <1>3, <1>4, <2>1

\* Two sets of which each element of the one has its own in the other.
LEMMA OneToOne ==
  ASSUME NEW S, NEW T, IsFiniteSet(S), NEW h \in [S -> T],
         \A x, y \in S : h[x] = h[y] => x = y, \A t \in T : \E x \in S : h[x] = t
  PROVE  IsFiniteSet(T) /\ Cardinality(T) = Cardinality(S)
<1>1. h \in Injection(S, T)
  BY DEF Injection, IsInjective
<1>2. h \in Surjection(S, T)
  BY DEF Surjection
<1>3. QED
  BY <1>1, <1>2, FS_Surjection

\* It is a matter of the p-values and not of what they are numbered by.
LEMMA SurvivesAlong ==
  ASSUME NEW K, NEW M, IsFiniteSet(K), IsFiniteSet(M), Cardinality(K) = Cardinality(M),
         NEW h \in [K -> M], \A k, l \in K : h[k] = h[l] => k = l,
         NEW p, NEW q, \A k \in K : p[k] = q[h[k]], NEW x, Survives(p, K, x)
  PROVE  Survives(q, M, x)
<1>1. PICK R \in SUBSET K : /\ \A j \in R : p[j] * Cardinality(K) <= Cardinality(R) * Alpha
                            /\ x * Cardinality(K) <= Cardinality(R) * Alpha
  BY DEF Survives
<1> DEFINE U == {h[j] : j \in R}
           g == [j \in R |-> h[j]]
<1>2. /\ g \in [R -> U] /\ \A j, k \in R : g[j] = g[k] => j = k
      /\ \A u \in U : \E j \in R : g[j] = u
  OBVIOUS
<1>3. IsFiniteSet(R)
  BY FS_Subset
<1> HIDE DEF g, U
<1>4. Cardinality(U) = Cardinality(R)
  BY <1>2, <1>3, OneToOne
<1> USE DEF U
<1>5. U \in SUBSET M
  OBVIOUS
<1>6. ASSUME NEW u \in U PROVE q[u] * Cardinality(M) <= Cardinality(U) * Alpha
  <2>1. PICK j \in R : u = h[j]
    OBVIOUS
  <2>2. q[u] = p[j]
    BY <2>1
  <2>3. QED
    BY <1>1, <1>4, <2>2
<1> HIDE DEF U
<1>7. x * Cardinality(M) <= Cardinality(U) * Alpha
  BY <1>1, <1>4
<1>8. QED
  BY <1>5, <1>6, <1>7 DEF Survives

\* Two families of hypotheses of which each has the p-values of the other.
SamePs(h, K, p, M, q) ==
  /\ h \in [K -> M]
  /\ \A k, l \in K : h[k] = h[l] => k = l
  /\ \A n \in M : \E k \in K : h[k] = n
  /\ \A k \in K : p[k] = q[h[k]]

LEMMA SurvivesSame ==
  ASSUME NEW K, NEW M, IsFiniteSet(K), NEW h, NEW p, NEW q, SamePs(h, K, p, M, q), NEW x
  PROVE  Cardinality(M) = Cardinality(K) /\ (Survives(p, K, x) <=> Survives(q, M, x))
<1>1. /\ h \in [K -> M] /\ \A k, l \in K : h[k] = h[l] => k = l
      /\ \A n \in M : \E k \in K : h[k] = n
      /\ \A k \in K : p[k] = q[h[k]]
  BY DEF SamePs
<1>2. IsFiniteSet(M) /\ Cardinality(M) = Cardinality(K)
  BY <1>1, OneToOne
<1> DEFINE g == [n \in M |-> CHOOSE k \in K : h[k] = n]
<1>3. g \in [M -> K] /\ \A n \in M : h[g[n]] = n
  BY <1>1
<1> HIDE DEF g
<1>4. /\ \A n, o \in M : g[n] = g[o] => n = o
      /\ \A n \in M : q[n] = p[g[n]]
  BY <1>1, <1>3
<1>5. QED
  BY <1>1, <1>2, <1>3, <1>4, SurvivesAlong

-----------------------------------------------------------------------------
(* The interval and the p-value of a bootstrap.                            *)

\* A bag of replicates: finitely many numbers, each with how often it was drawn.
IsBag(bag) == IsFiniteSet(DOMAIN bag) /\ \A v \in DOMAIN bag : v \in Int /\ bag[v] \in Nat

\* How many replicates are at most v grows with v, by those of v at least.
LEMMA AtMostGrows ==
  ASSUME NEW bag, IsBag(bag)
  PROVE  /\ Replicates(bag) \in Nat
         /\ \A v \in Int : AtMost(bag, v) \in Nat /\ AtMost(bag, v) <= Replicates(bag)
         /\ \A v, w \in Int : v <= w => AtMost(bag, v) <= AtMost(bag, w)
         /\ \A v \in DOMAIN bag, w \in Int : w < v => AtMost(bag, w) <= AtMost(bag, v) - bag[v]
<1> DEFINE S == DOMAIN bag
           upto(v) == {u \in S : u <= v}
<1>1. IsFiniteSet(S) /\ (\A v \in S : v \in Int /\ bag[v] \in Nat) /\ (\A v \in S : bag[v] \in Int)
  BY DEF IsBag
<1>2. Replicates(bag) = SumOver(bag, S)
  BY Zenon DEF Replicates, Total, SumOver, MapThenSumSet, MapThenFoldSet
<1>3. \A v : AtMost(bag, v) = SumOver(bag, upto(v))
  BY Zenon DEF AtMost, SumOver, MapThenSumSet, MapThenFoldSet
<1> HIDE DEF S
<1>4. \A T \in SUBSET S : SumOver(bag, T) \in Nat
  BY <1>1, SumOfNat
<1>5. \A T \in SUBSET S : \A U \in SUBSET T : SumOver(bag, U) <= SumOver(bag, T)
  BY <1>1, SumOfNat
<1>6. \A T \in SUBSET S, x \in S : x \notin T => SumOver(bag, T \cup {x}) = bag[x] + SumOver(bag, T)
  BY <1>1, SumTakes
<1>7. ASSUME NEW v \in S, NEW w \in Int, w < v PROVE AtMost(bag, w) <= AtMost(bag, v) - bag[v]
  <2>0. PICK T : T = upto(v) \ {v}
    OBVIOUS
  <2>1. T \in SUBSET S /\ T \cup {v} = upto(v) /\ v \notin T /\ upto(w) \in SUBSET T
    BY <1>1, <1>7, <2>0
  <2> HIDE DEF upto
  <2>2. SumOver(bag, T \cup {v}) = bag[v] + SumOver(bag, T)
    BY <1>6, <2>1
  <2>3. SumOver(bag, upto(v)) = bag[v] + SumOver(bag, T)
    BY <2>1, <2>2, Zenon
  <2>4. SumOver(bag, upto(w)) <= SumOver(bag, T)
    BY <1>5, <2>1
  <2>5. upto(w) \in SUBSET S
    BY <2>1
  <2>6. SumOver(bag, upto(w)) \in Nat /\ SumOver(bag, T) \in Nat /\ bag[v] \in Nat
    BY <1>1, <1>4, <2>1, <2>5
  <2>7. QED
    BY <1>3, <2>3, <2>4, <2>6
<1>8. ASSUME NEW v \in Int, NEW w \in Int, v <= w PROVE AtMost(bag, v) <= AtMost(bag, w)
  <2>1. upto(v) \in SUBSET upto(w) /\ upto(w) \in SUBSET S
    BY <1>1, <1>8
  <2>2. QED
    BY <1>3, <1>5, <2>1
<1>9. ASSUME NEW v \in Int PROVE AtMost(bag, v) \in Nat /\ AtMost(bag, v) <= Replicates(bag)
  <2>1. upto(v) \in SUBSET S /\ S \in SUBSET S
    OBVIOUS
  <2>2. QED
    BY <1>2, <1>3, <1>4, <1>5, <2>1
<1>10. Replicates(bag) \in Nat
  BY <1>2, <1>4
<1>11. QED
  BY <1>7, <1>8, <1>9, <1>10 DEF S

\* The replicate at a position is at most w exactly if more replicates are than come before
\* the position.
LEMMA SortedAt ==
  ASSUME NEW bag, IsBag(bag), NEW pos \in 0 .. Replicates(bag) - 1
  PROVE  /\ Sorted(bag, pos) \in Int
         /\ \A w \in Int : Sorted(bag, pos) <= w <=> AtMost(bag, w) > pos
<1> DEFINE S == DOMAIN bag
           there(v) == bag[v] > 0 /\ AtMost(bag, v) > pos /\ AtMost(bag, v) - bag[v] <= pos
<1>0. /\ Replicates(bag) \in Nat /\ pos \in Nat /\ pos < Replicates(bag)
      /\ IsFiniteSet(S) /\ \A v \in S : v \in Int /\ bag[v] \in Nat /\ bag[v] \in Int
  BY AtMostGrows DEF IsBag
<1>1. /\ \A v \in Int : AtMost(bag, v) \in Nat
      /\ \A v, w \in Int : v <= w => AtMost(bag, v) <= AtMost(bag, w)
      /\ \A v \in S, w \in Int : w < v => AtMost(bag, w) <= AtMost(bag, v) - bag[v]
  BY AtMostGrows
<1>2. /\ Replicates(bag) = SumOver(bag, S)
      /\ \A v : AtMost(bag, v) = SumOver(bag, {u \in S : u <= v})
  BY Zenon DEF Replicates, Total, AtMost, SumOver, MapThenSumSet, MapThenFoldSet
<1>3. SumOver(bag, {}) = 0
  BY <1>0, SumTakes
<1> HIDE DEF S
<1>4. \E v \in S : there(v)
  <2> DEFINE X == {v \in S : AtMost(bag, v) > pos}
  <2>1. S # {}
    BY <1>0, <1>2, <1>3
  <2>2. PICK b \in S : \A x \in S : x <= b
    BY <1>0, <2>1, LeastAndGreatest
  <2>3. {u \in S : u <= b} = S
    BY <2>2
  <2>4. b \in X
    BY <1>0, <1>2, <2>3
  <2>5. IsFiniteSet(X) /\ X \in SUBSET Int
    BY <1>0, FS_Subset
  <2>6. PICK v \in X : \A x \in X : v <= x
    BY <2>4, <2>5, LeastAndGreatest
  <2>7. v \in S /\ v \in Int /\ bag[v] \in Nat /\ AtMost(bag, v) > pos /\ AtMost(bag, v) \in Nat
    BY <1>0, <1>1
  <2>8. AtMost(bag, v) - bag[v] <= pos
    <3> DEFINE L == {u \in S : u < v}
    <3>1. L \in SUBSET S /\ v \notin L /\ L \cup {v} = {u \in S : u <= v}
      <4>1. \A u \in S : u <= v <=> u < v \/ u = v
        BY <1>0, <2>7
      <4>2. ~(v < v)
        BY <2>7
      <4>3. QED
        BY <2>7, <4>1, <4>2, Zenon
    <3>2. SumOver(bag, L \cup {v}) = bag[v] + SumOver(bag, L) /\ SumOver(bag, L) \in Int
      <4>1. \A T \in SUBSET S : SumOver(bag, T) \in Int
        BY <1>0, SumTakes
      <4>2. \A T \in SUBSET S, x \in S : x \notin T => SumOver(bag, T \cup {x}) = bag[x] + SumOver(bag, T)
        BY <1>0, SumTakes
      <4> HIDE DEF L
      <4>3. QED
        BY <2>7, <3>1, <4>1, <4>2
    <3>3. AtMost(bag, v) = bag[v] + SumOver(bag, L)
      BY <1>2, <3>1, <3>2, Zenon
    <3>4. SumOver(bag, L) <= pos
      <4>1. CASE L = {}
        BY <1>0, <1>3, <4>1
      <4>2. CASE L # {}
        <5>1. IsFiniteSet(L) /\ L \in SUBSET Int
          BY <1>0, FS_Subset
        <5>2. PICK c \in L : \A x \in L : x <= c
          BY <4>2, <5>1, LeastAndGreatest
        <5>3. c \in S /\ c \in Int /\ c < v
          BY <1>0
        <5>4. ~(AtMost(bag, c) > pos)
          BY <2>6, <2>7, <5>3
        <5>5. {u \in S : u <= c} = L
          <6>1. \A u \in S : u < v => u <= c
            BY <5>2
          <6>2. \A u \in S : u <= c => u < v
            BY <1>0, <2>7, <5>3
          <6>3. QED
            BY <6>1, <6>2
        <5>6. AtMost(bag, c) = SumOver(bag, L)
          BY <1>2, <5>5, Zenon
        <5>7. QED
          BY <1>0, <1>1, <5>3, <5>4, <5>6
      <4>3. QED
        BY <4>1, <4>2
    <3>5. QED
      BY <1>0, <2>7, <3>2, <3>3, <3>4
  <2>9. there(v)
    BY <1>0, <2>7, <2>8
  <2>10. QED
    BY <2>7, <2>9
<1>5. Sorted(bag, pos) \in S /\ there(Sorted(bag, pos))
  BY <1>4, Zenon DEF Sorted, S
<1>6. ASSUME NEW w \in Int PROVE Sorted(bag, pos) <= w <=> AtMost(bag, w) > pos
  <2>1. PICK v \in S : v = Sorted(bag, pos) /\ there(v)
    BY <1>5
  <2>2. v \in Int /\ bag[v] \in Nat /\ AtMost(bag, v) \in Nat /\ AtMost(bag, w) \in Nat
    BY <1>0, <1>1
  <2>3. v <= w => AtMost(bag, v) <= AtMost(bag, w)
    BY <1>1, <2>2
  <2>4. w < v => AtMost(bag, w) <= AtMost(bag, v) - bag[v]
    BY <1>1, <2>2
  <2>5. QED
    BY <1>0, <2>1, <2>2, <2>3, <2>4
<1>7. QED
  BY <1>0, <1>5, <1>6

\* The positions between which a percentile is interpolated.
PosBelow(n, num, den) == (num * (n - 1)) \div den
PosAbove(n, num, den) == IF (num * (n - 1)) % den = 0 THEN PosBelow(n, num, den) ELSE PosBelow(n, num, den) + 1

\* Both are positions of a sample of n.
LEMMA Positions ==
  \A n, den \in Nat \ {0}, num \in Nat : num <= den =>
    /\ PosBelow(n, num, den) \in 0 .. n - 1 /\ PosAbove(n, num, den) \in 0 .. n - 1
    /\ PosBelow(n, num, den) <= PosAbove(n, num, den)
<1> SUFFICES ASSUME NEW n \in Nat \ {0}, NEW den \in Nat \ {0}, NEW num \in Nat, num <= den
             PROVE  /\ PosBelow(n, num, den) \in 0 .. n - 1 /\ PosAbove(n, num, den) \in 0 .. n - 1
                    /\ PosBelow(n, num, den) <= PosAbove(n, num, den)
  OBVIOUS
<1> DEFINE at == num * (n - 1)
           low == at \div den
           part == at % den
<1>1. at \in Nat /\ at <= den * (n - 1)
  <2>1. \A x, y, k \in Nat : x <= y => x * k \in Nat /\ x * k <= y * k
    OBVIOUS
  <2>2. n - 1 \in Nat
    OBVIOUS
  <2>3. QED
    BY <2>1, <2>2
<1>2. low \in Nat /\ part \in 0 .. den - 1 /\ at = low * den + part
  <2> HIDE DEF at
  <2>1. QED
    BY <1>1, DivMod
<1>3. PosBelow(n, num, den) = low /\ PosAbove(n, num, den) = IF part = 0 THEN low ELSE low + 1
  BY DEF PosBelow, PosAbove
<1> HIDE DEF at, low, part
<1>4. low <= n - 1
  <2> SUFFICES ASSUME low >= n PROVE FALSE
    BY <1>2
  <2>1. \A x, y \in Nat : x <= y => x * den \in Nat /\ x * den <= y * den
    OBVIOUS
  <2>2. n * den <= low * den /\ low * den \in Nat /\ n * den \in Nat
    BY <1>2, <2>1
  <2>3. den * (n - 1) = n * den - den
    OBVIOUS
  <2>4. QED
    BY <1>1, <1>2, <2>2, <2>3
<1>5. part # 0 => low < n - 1
  <2> SUFFICES ASSUME low = n - 1, part # 0 PROVE FALSE
    BY <1>2, <1>4
  <2>1. low * den = den * (n - 1)
    OBVIOUS
  <2>2. den * (n - 1) \in Nat
    BY <1>2, <2>1
  <2>3. QED
    BY <1>1, <1>2, <2>1, <2>2
<1>6. QED
  BY <1>2, <1>3, <1>4, <1>5

\* The sign of a weighted mean of two numbers in order.
LEMMA MeanSign ==
  \A x, y \in Int, d \in Nat \ {0}, k \in Nat : k < d /\ x <= y /\ (k = 0 => x = y) =>
    LET mean == x * (d - k) + (IF k = 0 THEN 0 ELSE y * k) IN
    /\ mean \in Int
    /\ mean > 0 => y > 0
    /\ mean <= 0 => x <= 0
    /\ mean < 0 => x < 0
    /\ mean >= 0 => y >= 0
<1> SUFFICES ASSUME NEW x \in Int, NEW y \in Int, NEW d \in Nat \ {0}, NEW k \in Nat,
                    k < d, x <= y, k = 0 => x = y
             PROVE  LET mean == x * (d - k) + (IF k = 0 THEN 0 ELSE y * k) IN
                    /\ mean \in Int
                    /\ mean > 0 => y > 0
                    /\ mean <= 0 => x <= 0
                    /\ mean < 0 => x < 0
                    /\ mean >= 0 => y >= 0
  OBVIOUS
<1>1. d - k \in Nat \ {0}
  OBVIOUS
<1>2. PICK e \in Nat \ {0} : e = d - k
  BY <1>1
<1>3. \A u \in Int, v \in Nat :
        /\ u * v \in Int
        /\ u > 0 /\ v > 0 => u * v > 0
        /\ u <= 0 => u * v <= 0
        /\ u < 0 /\ v > 0 => u * v < 0
        /\ u >= 0 => u * v >= 0
  OBVIOUS
<1>4. CASE k = 0
  <2>1. x * e \in Int /\ (x > 0 => x * e > 0) /\ (x <= 0 => x * e <= 0) /\ (x < 0 => x * e < 0) /\ (x >= 0 => x * e >= 0)
    BY <1>2, <1>3
  <2>2. QED
    BY <1>2, <1>4, <2>1
<1>5. CASE k # 0
  <2>1. x * e \in Int /\ (x > 0 => x * e > 0) /\ (x <= 0 => x * e <= 0) /\ (x < 0 => x * e < 0) /\ (x >= 0 => x * e >= 0)
    BY <1>2, <1>3
  <2>2. y * k \in Int /\ (y > 0 => y * k > 0) /\ (y <= 0 => y * k <= 0) /\ (y < 0 => y * k < 0) /\ (y >= 0 => y * k >= 0)
    BY <1>3, <1>5
  <2>3. QED
    BY <1>2, <1>5, <2>1, <2>2
<1>6. QED
  BY <1>4, <1>5

\* What the sign of a percentile says of how many replicates lie at or below 0.
LEMMA PercentileSign ==
  ASSUME NEW bag, IsBag(bag), Replicates(bag) > 0, NEW num \in Nat, NEW den \in Nat \ {0}, num <= den
  PROVE  LET n     == Replicates(bag)
             value == Percentile(bag, num, den)
         IN /\ value \in Int
            /\ value > 0 => AtMost(bag, 0) <= PosAbove(n, num, den)
            /\ value <= 0 => AtMost(bag, 0) > PosBelow(n, num, den)
            /\ value < 0 => AtMost(bag, -1) > PosBelow(n, num, den)
            /\ value >= 0 => AtMost(bag, -1) <= PosAbove(n, num, den)
<1> DEFINE n == Replicates(bag)
           at == num * (n - 1)
           part == at % den
           low == PosBelow(n, num, den)
           up == PosAbove(n, num, den)
           x == Sorted(bag, low)
           y == Sorted(bag, up)
           value == Percentile(bag, num, den)
<1>1. n \in Nat \ {0} /\ \A v \in Int : AtMost(bag, v) \in Nat
  BY AtMostGrows
<1>2. low \in 0 .. n - 1 /\ up \in 0 .. n - 1 /\ low <= up
  <2> HIDE DEF n
  <2>1. QED
    BY <1>1, Positions
<1>3. value = x * (den - part) + (IF part = 0 THEN 0 ELSE Sorted(bag, low + 1) * part)
  BY DEF Percentile, PosBelow
<1>4. part \in Nat /\ part < den
  <2>1. at \in Nat
    <3>1. \A u, v \in Nat : u * v \in Nat
      OBVIOUS
    <3>2. n - 1 \in Nat
      BY <1>1
    <3> HIDE DEF n
    <3>3. QED
      BY <3>1, <3>2
  <2> HIDE DEF at
  <2>2. QED
    BY <2>1, DivMod
<1>5. up = IF part = 0 THEN low ELSE low + 1
  BY DEF PosAbove
<1>6. value = x * (den - part) + (IF part = 0 THEN 0 ELSE y * part)
  <2> HIDE DEF n, low, up, part, value
  <2>1. CASE part = 0
    BY <1>3, <2>1
  <2>2. CASE part # 0
    BY <1>3, <1>5, <2>2
  <2>3. QED
    BY <2>1, <2>2
<1> HIDE DEF low, up, part, value
<1>7. /\ x \in Int /\ y \in Int
      /\ \A w \in Int : x <= w <=> AtMost(bag, w) > low
      /\ \A w \in Int : y <= w <=> AtMost(bag, w) > up
  BY <1>2, SortedAt
<1> HIDE DEF n, x, y
<1>8. x <= y
  <2>1. AtMost(bag, y) > up
    BY <1>7
  <2>2. QED
    BY <1>1, <1>2, <1>7, <2>1
<1>9. part = 0 => x = y
  BY <1>5 DEF x, y
<1>10. /\ value \in Int
       /\ value > 0 => y > 0
       /\ value <= 0 => x <= 0
       /\ value < 0 => x < 0
       /\ value >= 0 => y >= 0
  BY <1>4, <1>6, <1>7, <1>8, <1>9, MeanSign
<1>11. /\ AtMost(bag, 0) \in Nat /\ AtMost(bag, -1) \in Nat
       /\ (x <= 0 <=> AtMost(bag, 0) > low) /\ (y <= 0 <=> AtMost(bag, 0) > up)
       /\ (x <= -1 <=> AtMost(bag, -1) > low) /\ (y <= -1 <=> AtMost(bag, -1) > up)
  BY <1>1, <1>7
<1>12. /\ value > 0 => AtMost(bag, 0) <= up
       /\ value <= 0 => AtMost(bag, 0) > low
       /\ value < 0 => AtMost(bag, -1) > low
       /\ value >= 0 => AtMost(bag, -1) <= up
  BY <1>2, <1>7, <1>10, <1>11
<1>13. QED
  BY <1>10, <1>12 DEF value, low, up, n

\* The positions of a percentile from above mirror those from below.
LEMMA PositionsMirror ==
  ASSUME NEW n \in Nat \ {0}, NEW den \in Nat \ {0}, NEW num \in 0 .. den
  PROVE  /\ PosBelow(n, den - num, den) = n - 1 - PosAbove(n, num, den)
         /\ PosAbove(n, den - num, den) = n - 1 - PosBelow(n, num, den)
<1> DEFINE at == num * (n - 1)
           low == at \div den
           part == at % den
           other == (den - num) * (n - 1)
<1>1. at \in Nat
  <2>1. \A x, y \in Nat : x * y \in Nat
    OBVIOUS
  <2>2. n - 1 \in Nat /\ num \in Nat
    OBVIOUS
  <2>3. QED
    BY <2>1, <2>2
<1>2. low \in Nat /\ part \in 0 .. den - 1 /\ at = low * den + part
  <2> HIDE DEF at
  <2>1. QED
    BY <1>1, DivMod
<1>3. PosBelow(n, num, den) = low /\ PosAbove(n, num, den) = IF part = 0 THEN low ELSE low + 1
  BY DEF PosBelow, PosAbove
<1>4. PosBelow(n, num, den) \in 0 .. n - 1 /\ PosAbove(n, num, den) \in 0 .. n - 1
  <2>1. num \in Nat /\ num <= den
    OBVIOUS
  <2>2. QED
    BY <2>1, Positions
<1>5. other = den * (n - 1) - at
  OBVIOUS
<1>6. PosBelow(n, den - num, den) = other \div den
      /\ PosAbove(n, den - num, den) = IF other % den = 0 THEN other \div den ELSE (other \div den) + 1
  BY DEF PosBelow, PosAbove
<1> HIDE DEF at, low, part, other
<1>7. CASE part = 0
  <2>1. n - 1 - low \in Nat
    BY <1>2, <1>3, <1>4
  <2>2. other = (n - 1 - low) * den + 0
    BY <1>2, <1>5, <1>7
  <2>3. 0 \in 0 .. den - 1
    OBVIOUS
  <2>4. other \div den = n - 1 - low /\ other % den = 0
    BY <2>1, <2>2, <2>3, DivUnique
  <2>5. QED
    BY <1>3, <1>6, <1>7, <2>4
<1>8. CASE part # 0
  <2>1. n - 1 - (low + 1) \in Nat
    BY <1>2, <1>3, <1>4, <1>8
  <2>2. other = (n - 1 - (low + 1)) * den + (den - part)
    BY <1>2, <1>5
  <2>3. den - part \in 0 .. den - 1 /\ den - part # 0
    BY <1>2, <1>8
  <2>4. other \div den = n - 1 - (low + 1) /\ other % den = den - part
    BY <2>1, <2>2, <2>3, DivUnique
  <2>5. QED
    BY <1>2, <1>3, <1>6, <1>8, <2>3, <2>4
<1>9. QED
  BY <1>7, <1>8

\* An interval excludes 0 only if the replicates say so, and the p-value counts them.
LEMMA IntervalAgreesWithP ==
  ASSUME NEW bag, IsBag(bag), Replicates(bag) > 0
  PROVE  LET n     == Replicates(bag)
             below == PosBelow(n, Alpha, 2 * Unit)
             above == PosAbove(n, Alpha, 2 * Unit)
             p     == TwoSidedP(bag)
         IN IF ExcludesZero(PercentileCI(bag, Alpha, Unit)) THEN p = 1 \/ p <= 2 * above
                                                            ELSE p = n \/ p >= 2 * (below + 1)
<1> DEFINE n == Replicates(bag)
           below == PosBelow(n, Alpha, 2 * Unit)
           above == PosAbove(n, Alpha, 2 * Unit)
           lo == Percentile(bag, Alpha, 2 * Unit)
           hi == Percentile(bag, 2 * Unit - Alpha, 2 * Unit)
           left == AtMost(bag, 0)
           right == n - AtMost(bag, -1)
           less == IF left < right THEN left ELSE right
           p == TwoSidedP(bag)
           ci == PercentileCI(bag, Alpha, Unit)
<1>1. /\ Alpha \in Nat /\ 2 * Unit - Alpha \in Nat /\ 2 * Unit \in Nat \ {0}
      /\ Alpha <= 2 * Unit /\ 2 * Unit - Alpha <= 2 * Unit /\ Alpha \in 0 .. 2 * Unit
  BY LevelAssumption
<1>2. /\ n \in Nat \ {0} /\ AtMost(bag, 0) \in Nat /\ AtMost(bag, 0) <= n
      /\ AtMost(bag, -1) \in Nat /\ AtMost(bag, -1) <= n /\ AtMost(bag, -1) <= AtMost(bag, 0)
  BY AtMostGrows
<1>3. /\ lo \in Int /\ hi \in Int
      /\ lo > 0 => AtMost(bag, 0) <= above
      /\ lo <= 0 => AtMost(bag, 0) > below
      /\ hi < 0 => AtMost(bag, -1) > PosBelow(n, 2 * Unit - Alpha, 2 * Unit)
      /\ hi >= 0 => AtMost(bag, -1) <= PosAbove(n, 2 * Unit - Alpha, 2 * Unit)
  BY <1>1, PercentileSign
<1>4. /\ PosBelow(n, 2 * Unit - Alpha, 2 * Unit) = n - 1 - above
      /\ PosAbove(n, 2 * Unit - Alpha, 2 * Unit) = n - 1 - below
  <2> HIDE DEF n
  <2>1. QED
    BY <1>1, <1>2, PositionsMirror
<1>5. below \in 0 .. n - 1 /\ above \in 0 .. n - 1
  <2> HIDE DEF n
  <2>1. QED
    BY <1>1, <1>2, Positions
<1>6. p = IF 2 * less = 0 THEN 1 ELSE IF 2 * less > n THEN n ELSE 2 * less
  BY DEF TwoSidedP
<1>7. ExcludesZero(ci) <=> lo > 0 \/ hi < 0
  <2>1. ci = [finite |-> TRUE, lo |-> lo, hi |-> hi]
    <3>1. ~(Replicates(bag) = 0)
      BY <1>2
    <3>2. QED
      BY <3>1, Zenon DEF PercentileCI
  <2> HIDE DEF ci, lo, hi
  <2>2. QED
    BY <2>1 DEF ExcludesZero
<1> HIDE DEF n, below, above, lo, hi, p, ci
<1>8. less \in Nat /\ less <= left /\ less <= right /\ (less = left \/ less = right)
  BY <1>2
<1>9. CASE lo > 0 \/ hi < 0
  <2>1. less <= above
    BY <1>2, <1>3, <1>4, <1>5, <1>8, <1>9
  <2> HIDE DEF less, left, right
  <2>2. p = 1 \/ p <= 2 * above
    BY <1>2, <1>5, <1>6, <1>8, <2>1
  <2>3. QED
    BY <1>7, <1>9, <2>2 DEF n, below, above, p, ci
<1>10. CASE ~(lo > 0 \/ hi < 0)
  <2>1. less >= below + 1
    <3>1. lo <= 0 /\ hi >= 0
      BY <1>3, <1>10
    <3>2. left > below /\ AtMost(bag, -1) <= n - 1 - below
      BY <1>3, <1>4, <3>1
    <3>3. QED
      BY <1>2, <1>5, <1>8, <3>2
  <2> HIDE DEF less, left, right
  <2>2. p = n \/ p >= 2 * (below + 1)
    BY <1>2, <1>5, <1>6, <1>8, <2>1
  <2>3. QED
    BY <1>7, <1>10, <2>2 DEF n, below, above, p, ci
<1>11. QED
  BY <1>9, <1>10

\* The interval and the p-value of a bootstrap do not contradict each other, whatever the
\* replicates and however many.
THEOREM IntervalMatchesP == CallSpec => []IntervalAndPAgree
<1>1. CallInv => IntervalAndPAgree
  <2> SUFFICES ASSUME CallInv, Answered("bootstrap"), Replicates(call.arg) > 0 PROVE IntervalAndPAgree
    BY DEF IntervalAndPAgree
  <2> DEFINE bag == call.arg
             n == Replicates(bag)
             ci == PercentileCI(bag, Alpha, Unit)
             p == TwoSidedP(bag)
  <2>1. bag \in Bags /\ answer[1] = [ci |-> ci, p |-> p]
    BY Zenon DEF CallInv, Answered, FromItsTables, Answers
  <2>2. IsBag(bag)
    BY <2>1, AlgorithmsAssumption DEF IsBag
  <2>3. answer[1].ci = ci /\ answer[1].p = p
    <3> HIDE DEF ci, p
    <3>1. QED
      BY <2>1
  <2>4. IF ExcludesZero(ci) THEN p = 1 \/ p <= 2 * PosAbove(n, Alpha, 2 * Unit)
                            ELSE p = n \/ p >= 2 * (PosBelow(n, Alpha, 2 * Unit) + 1)
    BY <2>2, IntervalAgreesWithP
  <2> HIDE DEF bag, ci, p
  <2>5. QED
    BY <2>3, <2>4, Zenon DEF IntervalAndPAgree, PosAbove, PosBelow, bag
<1>2. QED
  BY <1>1, CallInvAlways, PTL

-----------------------------------------------------------------------------
(* The replicates of the opposite differences.                             *)

\* g has for -v what f has for v.
Mirrors(g, f) ==
  /\ DOMAIN g = {-v : v \in DOMAIN f}
  /\ \A v \in DOMAIN f : g[-v] = f[v]

\* The sum over the negatives.
LEMMA SumMirrors ==
  ASSUME NEW f, IsBag(f), NEW g, Mirrors(g, f)
  PROVE  IsBag(g) /\ \A T \in SUBSET DOMAIN f : SumOver(g, {-v : v \in T}) = SumOver(f, T)
<1> DEFINE S == DOMAIN f
           neg(T) == {-v : v \in T}
           F == {T \in SUBSET S : SumOver(g, neg(T)) = SumOver(f, T)}
<1>1. IsFiniteSet(S) /\ (\A v \in S : v \in Int /\ f[v] \in Nat) /\ (\A v \in S : f[v] \in Int)
  BY DEF IsBag
<1>2. DOMAIN g = neg(S) /\ \A v \in S : g[-v] = f[v]
  BY DEF Mirrors
<1>3. IsFiniteSet(neg(S))
  <2> DEFINE h == [v \in S |-> -v]
  <2>1. {h[v] : v \in S} = neg(S)
    OBVIOUS
  <2> HIDE DEF S, h, neg
  <2>2. IsFiniteSet({h[v] : v \in S})
    BY <1>1, FiniteImage
  <2>3. QED
    BY <2>1, <2>2
<1>4. \A u \in neg(S) : u \in Int /\ g[u] \in Nat /\ g[u] \in Int
  BY <1>1, <1>2
<1>5. IsBag(g)
  BY <1>2, <1>3, <1>4 DEF IsBag
<1> HIDE DEF S
<1>6. /\ SumOver(f, {}) = 0
      /\ \A T \in SUBSET S, x \in S : x \notin T => SumOver(f, T \cup {x}) = f[x] + SumOver(f, T)
  BY <1>1, SumTakes
<1>7. /\ SumOver(g, {}) = 0
      /\ \A T \in SUBSET neg(S), x \in neg(S) : x \notin T => SumOver(g, T \cup {x}) = g[x] + SumOver(g, T)
  <2>1. PICK N : N = neg(S)
    OBVIOUS
  <2>2. IsFiniteSet(N) /\ \A u \in N : g[u] \in Int
    BY <1>3, <1>4, <2>1
  <2>3. /\ SumOver(g, {}) = 0
        /\ \A T \in SUBSET N, x \in N : x \notin T => SumOver(g, T \cup {x}) = g[x] + SumOver(g, T)
    BY <2>2, SumTakes
  <2>4. QED
    BY <2>1, <2>3
<1>8. {} \in F
  <2>1. neg({}) = {}
    OBVIOUS
  <2>2. QED
    BY <1>6, <1>7, <2>1
<1>9. ASSUME NEW T \in F, NEW x \in S, T \subseteq S, x \notin T PROVE T \cup {x} \in F
  <2>1. neg(T) \in SUBSET neg(S) /\ -x \in neg(S) /\ neg(T \cup {x}) = neg(T) \cup {-x}
    BY <1>9
  <2>2. -x \notin neg(T)
    BY <1>1, <1>9
  <2>3. SumOver(g, neg(T) \cup {-x}) = g[-x] + SumOver(g, neg(T))
    <3> HIDE DEF neg
    <3>1. QED
      BY <1>7, <2>1, <2>2
  <2>4. SumOver(f, T \cup {x}) = f[x] + SumOver(f, T) /\ SumOver(g, neg(T)) = SumOver(f, T)
    BY <1>6, <1>9
  <2>5. g[-x] = f[x]
    BY <1>2
  <2> HIDE DEF neg
  <2>6. SumOver(g, neg(T \cup {x})) = SumOver(f, T \cup {x})
    BY <2>1, <2>3, <2>4, <2>5
  <2>7. QED
    BY <1>9, <2>6
<1>10. \A T \in SUBSET S : T \in F
  <2> HIDE DEF F
  <2>1. QED
    BY <1>1, <1>8, <1>9, FiniteSetInduction
<1>11. QED
  BY <1>5, <1>10 DEF S

\* As many are at most v on one side as are at least -v on the other.
LEMMA CountsMirror ==
  ASSUME NEW f, IsBag(f), NEW g, Mirrors(g, f)
  PROVE  /\ IsBag(g) /\ Replicates(g) = Replicates(f)
         /\ \A v \in Int : AtMost(g, v) = Replicates(f) - AtMost(f, -v - 1)
<1> DEFINE S == DOMAIN f
           upto(v) == {u \in S : u <= v}
           from(v) == {u \in S : -v <= u}
<1>1. IsFiniteSet(S) /\ (\A v \in S : v \in Int) /\ (\A v \in S : f[v] \in Int)
  BY DEF IsBag
<1>2. IsBag(g) /\ DOMAIN g = {-v : v \in S} /\ \A T \in SUBSET S : SumOver(g, {-v : v \in T}) = SumOver(f, T)
  BY SumMirrors DEF Mirrors
<1>3. Replicates(f) = SumOver(f, S) /\ Replicates(g) = SumOver(g, DOMAIN g)
  BY Zenon DEF Replicates, Total, SumOver, MapThenSumSet, MapThenFoldSet
<1>4. /\ \A v : AtMost(f, v) = SumOver(f, upto(v))
      /\ \A v : AtMost(g, v) = SumOver(g, {u \in DOMAIN g : u <= v})
  BY Zenon DEF AtMost, SumOver, MapThenSumSet, MapThenFoldSet
<1> HIDE DEF S
<1>5. Replicates(g) = Replicates(f)
  BY <1>2, <1>3
<1>6. ASSUME NEW v \in Int PROVE AtMost(g, v) = Replicates(f) - AtMost(f, -v - 1)
  <2>1. {u \in DOMAIN g : u <= v} = {-u : u \in from(v)}
    <3>1. \A u \in S : u \in Int /\ (-u <= v <=> -v <= u)
      BY <1>1
    <3>2. {u \in DOMAIN g : u <= v} = {-u : u \in {w \in S : -w <= v}}
      BY <1>2
    <3>3. {w \in S : -w <= v} = from(v)
      BY <3>1
    <3>4. QED
      BY <3>2, <3>3
  <2>2. from(v) \in SUBSET S /\ upto(-v - 1) \in SUBSET S
    OBVIOUS
  <2>3. from(v) \cap upto(-v - 1) = {} /\ from(v) \cup upto(-v - 1) = S
    <3>1. \A u \in S : u \in Int /\ (u <= -v - 1 <=> ~(-v <= u))
      BY <1>1
    <3>2. QED
      BY <3>1
  <2> HIDE DEF from, upto
  <2>4. AtMost(g, v) = SumOver(f, from(v))
    BY <1>2, <1>4, <2>1, <2>2
  <2>5. PICK A, B : A = from(v) /\ B = upto(-v - 1)
    OBVIOUS
  <2>6. SumOver(f, A \cup B) = SumOver(f, A) + SumOver(f, B)
    BY <1>1, <2>2, <2>3, <2>5, SumAdds
  <2>7. SumOver(f, A) \in Int /\ SumOver(f, B) \in Int
    BY <1>1, <2>2, <2>5, SumTakes
  <2>8. AtMost(f, -v - 1) = SumOver(f, B) /\ Replicates(f) = SumOver(f, A \cup B) /\ AtMost(g, v) = SumOver(f, A)
    BY <1>3, <1>4, <2>3, <2>4, <2>5
  <2>9. QED
    BY <2>6, <2>7, <2>8
<1>7. QED
  BY <1>2, <1>5, <1>6

\* The sorted replicates of the one are those of the other from behind.
LEMMA SortedMirrors ==
  ASSUME NEW f, IsBag(f), NEW g, Mirrors(g, f), NEW pos \in 0 .. Replicates(f) - 1
  PROVE  /\ Replicates(f) - 1 - pos \in 0 .. Replicates(f) - 1
         /\ Sorted(f, Replicates(f) - 1 - pos) \in Int
         /\ Sorted(g, pos) = -Sorted(f, Replicates(f) - 1 - pos)
<1> DEFINE n == Replicates(f)
<1>1. n \in Nat /\ (\A v \in Int : AtMost(f, v) \in Nat)
  BY AtMostGrows
<1>2. IsBag(g) /\ Replicates(g) = n /\ \A v \in Int : AtMost(g, v) = n - AtMost(f, -v - 1)
  BY CountsMirror
<1>3. n - 1 - pos \in 0 .. n - 1 /\ pos \in Nat
  BY <1>1
<1>4. PICK back : back = n - 1 - pos
  OBVIOUS
<1> HIDE DEF n
<1>5. back \in 0 .. Replicates(f) - 1 /\ pos \in 0 .. Replicates(g) - 1
  BY <1>2, <1>3, <1>4 DEF n
<1>6. /\ Sorted(g, pos) \in Int /\ \A w \in Int : Sorted(g, pos) <= w <=> AtMost(g, w) > pos
      /\ Sorted(f, back) \in Int /\ \A w \in Int : Sorted(f, back) <= w <=> AtMost(f, w) > back
  BY <1>2, <1>5, SortedAt
<1>7. PICK a, b \in Int : a = Sorted(g, pos) /\ b = Sorted(f, back)
  BY <1>6
<1>8. \A w \in Int : a <= w <=> -b <= w
  <2> TAKE w \in Int
  <2>1. PICK m \in Int : m = -w - 1
    OBVIOUS
  <2>2. AtMost(g, w) = n - AtMost(f, m) /\ AtMost(f, m) \in Nat
    BY <1>1, <1>2, <2>1
  <2>3. (a <= w <=> AtMost(g, w) > pos) /\ (b <= m <=> AtMost(f, m) > back)
    BY <1>6, <1>7
  <2>4. QED
    BY <1>1, <1>3, <1>4, <1>7, <2>1, <2>2, <2>3
<1>9. a <= -b /\ -b <= a
  BY <1>7, <1>8
<1>10. a = -b
  BY <1>7, <1>9
<1>11. QED
  BY <1>3, <1>4, <1>7, <1>10 DEF n

\* The interval of the one is that of the other from behind, and the p-value is the same.
LEMMA PercentileMirrors ==
  ASSUME NEW f, IsBag(f), Replicates(f) > 0, NEW g, Mirrors(g, f),
         NEW den \in Nat \ {0}, NEW num \in 0 .. den
  PROVE  /\ Percentile(f, den - num, den) \in Int
         /\ Percentile(g, num, den) = -Percentile(f, den - num, den)
<1> DEFINE n == Replicates(f)
           at == num * (n - 1)
           low == at \div den
           part == at % den
           other == (den - num) * (n - 1)
<1>1. n \in Nat \ {0} /\ Replicates(g) = n
  BY AtMostGrows, CountsMirror
<1> HIDE DEF n
<1>2. at \in Nat
  <2>1. \A x, y \in Nat : x * y \in Nat
    OBVIOUS
  <2>2. n - 1 \in Nat /\ num \in Nat
    BY <1>1
  <2>3. QED
    BY <2>1, <2>2
<1>3. low \in Nat /\ part \in 0 .. den - 1 /\ at = low * den + part
  <2> HIDE DEF at
  <2>1. QED
    BY <1>2, DivMod
<1>4. other = den * (n - 1) - at
  BY <1>1
<1>5. PosBelow(n, num, den) = low /\ PosAbove(n, num, den) = IF part = 0 THEN low ELSE low + 1
  BY DEF PosBelow, PosAbove
<1>6. low \in 0 .. n - 1 /\ (part # 0 => low + 1 \in 0 .. n - 1)
  <2>1. num \in Nat /\ num <= den
    OBVIOUS
  <2>2. PosBelow(n, num, den) \in 0 .. n - 1 /\ PosAbove(n, num, den) \in 0 .. n - 1
    BY <1>1, <2>1, Positions
  <2> HIDE DEF low, part
  <2>3. QED
    BY <1>5, <2>2
<1>7. Percentile(g, num, den) = Sorted(g, low) * (den - part) + (IF part = 0 THEN 0 ELSE Sorted(g, low + 1) * part)
  BY <1>1, Zenon DEF Percentile
<1>8. Percentile(f, den - num, den) = Sorted(f, other \div den) * (den - (other % den))
                                        + (IF other % den = 0 THEN 0 ELSE Sorted(f, other \div den + 1) * (other % den))
  BY Zenon DEF Percentile, n
<1> HIDE DEF at, low, part, other
<1>9. \A pos \in 0 .. n - 1 : /\ n - 1 - pos \in 0 .. n - 1 /\ Sorted(f, n - 1 - pos) \in Int
                              /\ Sorted(g, pos) = -Sorted(f, n - 1 - pos)
  BY SortedMirrors DEF n
<1>10. CASE part = 0
  <2>1. other = (n - 1 - low) * den + 0
    <3>1. \A m \in Int : den * m - low * den = (m - low) * den + 0
      BY <1>3
    <3>2. QED
      BY <1>1, <1>3, <1>4, <1>10, <3>1
  <2>2. n - 1 - low \in Nat /\ 0 \in 0 .. den - 1
    BY <1>1, <1>6
  <2>3. other \div den = n - 1 - low /\ other % den = 0
    BY <2>1, <2>2, DivUnique
  <2>4. PICK a \in Int : a = Sorted(f, n - 1 - low) /\ Sorted(g, low) = -a
    BY <1>6, <1>9
  <2>5. Percentile(f, den - num, den) = a * den
    BY <1>8, <2>3, <2>4
  <2>6. Percentile(g, num, den) = -a * den
    BY <1>7, <1>10, <2>4
  <2>7. a * den \in Int /\ -a * den = -(a * den)
    OBVIOUS
  <2>8. QED
    BY <2>5, <2>6, <2>7
<1>11. CASE part # 0
  <2>1. other = (n - 1 - (low + 1)) * den + (den - part)
    <3>1. \A m \in Int : den * m - (low * den + part) = (m - (low + 1)) * den + (den - part)
      BY <1>3
    <3>2. QED
      BY <1>1, <1>3, <1>4, <3>1
  <2>2. n - 1 - (low + 1) \in Nat /\ den - part \in 0 .. den - 1
    BY <1>1, <1>3, <1>6, <1>11
  <2>3. other \div den = n - 1 - (low + 1) /\ other % den = den - part
    BY <2>1, <2>2, DivUnique
  <2>4. PICK a, b \in Int : /\ a = Sorted(f, n - 1 - low) /\ Sorted(g, low) = -a
                            /\ b = Sorted(f, n - 1 - (low + 1)) /\ Sorted(g, low + 1) = -b
    BY <1>6, <1>9, <1>11
  <2>5. (other \div den) + 1 = n - 1 - low /\ den - (den - part) = part /\ den - part # 0
    BY <1>1, <1>3, <2>3
  <2>6. PICK q \in Int : q = den - part
    BY <1>3
  <2>7. Percentile(f, den - num, den) = b * part + a * q
    BY <1>8, <2>3, <2>4, <2>5, <2>6
  <2>8. PICK x, y \in Int : x = -a /\ y = -b
    OBVIOUS
  <2>9. Percentile(g, num, den) = x * q + y * part
    BY <1>7, <1>11, <2>4, <2>6, <2>8
  <2>10. \A u, v, s, t \in Int : /\ v * s + u * t \in Int
                                 /\ (-u) * t + (-v) * s = -(v * s + u * t)
    OBVIOUS
  <2>11. part \in Int
    BY <1>3
  <2>12. x * q + y * part = -(b * part + a * q) /\ b * part + a * q \in Int
    BY <2>8, <2>10, <2>11
  <2>13. QED
    BY <2>7, <2>9, <2>12
<1>12. QED
  BY <1>10, <1>11

\* A weighted mean of two numbers in order lies between them and grows with the weight.
LEMMA MeanBetween ==
  \A x, y \in Int, d \in Nat \ {0}, k \in Nat : x <= y /\ k <= d =>
    /\ x * (d - k) + y * k \in Int /\ x * d \in Int /\ y * d \in Int
    /\ x * d <= x * (d - k) + y * k
    /\ x * (d - k) + y * k <= y * d
    /\ \A l \in Nat : k <= l /\ l <= d => x * (d - k) + y * k <= x * (d - l) + y * l
<1> SUFFICES ASSUME NEW x \in Int, NEW y \in Int, NEW d \in Nat \ {0}, x <= y
             PROVE  \A k, l \in Nat : k <= l /\ l <= d =>
                      /\ x * (d - k) + y * k \in Int
                      /\ x * (d - k) + y * k <= x * (d - l) + y * l
                      /\ x * d <= x * (d - k) + y * k
                      /\ x * (d - k) + y * k <= y * d
                      /\ x * d \in Int /\ y * d \in Int
  OBVIOUS
<1>1. ASSUME NEW k \in Nat PROVE x * (d - k) + y * k = x * d + (y - x) * k
  OBVIOUS
<1>2. PICK z \in Nat : z = y - x
  OBVIOUS
<1>3. \A k, l \in Nat : k <= l => z * k \in Nat /\ z * l \in Nat /\ z * k <= z * l
  OBVIOUS
<1>4. x * d \in Int /\ y * d = x * d + z * d
  BY <1>2
<1>5. QED
  BY <1>1, <1>2, <1>3, <1>4

\* A percentile lies between the replicates x and y at the positions low and up, and part
\* is the share of the upper one.
Interpolated(f, num, den, low, up, part, x, y) ==
  /\ low \in 0 .. Replicates(f) - 1 /\ up \in 0 .. Replicates(f) - 1
  /\ up = IF part = 0 THEN low ELSE low + 1
  /\ part \in 0 .. den - 1 /\ num * (Replicates(f) - 1) = low * den + part
  /\ x \in Int /\ y \in Int /\ x <= y /\ x = Sorted(f, low) /\ y = Sorted(f, up)
  /\ Percentile(f, num, den) = x * (den - part) + y * part

\* The replicates between which a percentile lies, and its share of the upper one.
LEMMA PercentileIs ==
  ASSUME NEW f, IsBag(f), Replicates(f) > 0, NEW den \in Nat \ {0}, NEW num \in 0 .. den
  PROVE  \E low, up, part, x, y : Interpolated(f, num, den, low, up, part, x, y)
<1> DEFINE n == Replicates(f)
           at == num * (n - 1)
           part == at % den
           low == PosBelow(n, num, den)
           up == PosAbove(n, num, den)
           x == Sorted(f, low)
           y == Sorted(f, up)
<1>1. n \in Nat \ {0} /\ \A v \in Int : AtMost(f, v) \in Nat
  BY AtMostGrows
<1>2. low \in 0 .. n - 1 /\ up \in 0 .. n - 1 /\ low <= up
  <2> HIDE DEF n
  <2>1. num \in Nat /\ num <= den
    OBVIOUS
  <2>2. QED
    BY <1>1, <2>1, Positions
<1>3. Percentile(f, num, den) = x * (den - part) + (IF part = 0 THEN 0 ELSE Sorted(f, low + 1) * part)
  BY DEF Percentile, PosBelow
<1>4. at \in Nat
  <2>1. \A u, v \in Nat : u * v \in Nat
    OBVIOUS
  <2>2. n - 1 \in Nat /\ num \in Nat
    BY <1>1
  <2> HIDE DEF n
  <2>3. QED
    BY <2>1, <2>2
<1>5. part \in 0 .. den - 1 /\ at = low * den + part
  <2>1. low = at \div den
    BY DEF PosBelow
  <2> HIDE DEF at, low
  <2>2. QED
    BY <1>4, <2>1, DivMod
<1>6. up = IF part = 0 THEN low ELSE low + 1
  BY DEF PosAbove
<1> HIDE DEF low, up, part, at
<1>7. /\ x \in Int /\ y \in Int
      /\ \A w \in Int : x <= w <=> AtMost(f, w) > low
      /\ \A w \in Int : y <= w <=> AtMost(f, w) > up
  BY <1>2, SortedAt
<1>8. x <= y
  <2> HIDE DEF n, x, y
  <2>1. AtMost(f, y) > up
    BY <1>7
  <2>2. QED
    BY <1>1, <1>2, <1>7, <2>1
<1>9. Percentile(f, num, den) = x * (den - part) + y * part
  <2>1. CASE part = 0
    <3>1. x = y
      BY <1>6, <2>1
    <3> HIDE DEF x, y
    <3>2. PICK a \in Int : a = x /\ a = y
      BY <1>7, <3>1
    <3>3. Percentile(f, num, den) = a * (den - 0) /\ a * (den - 0) = a * (den - 0) + a * 0
      BY <1>3, <2>1, <3>2
    <3>4. QED
      BY <2>1, <3>2, <3>3
  <2>2. CASE part # 0
    <3>1. Sorted(f, low + 1) = y
      BY <1>6, <2>2
    <3> HIDE DEF x, y
    <3>2. QED
      BY <1>3, <2>2, <3>1
  <2>3. QED
    BY <2>1, <2>2
<1>10. Interpolated(f, num, den, low, up, part, x, y)
  BY <1>2, <1>5, <1>6, <1>7, <1>8, <1>9 DEF Interpolated, at
<1>11. QED
  BY <1>10

\* The sorted replicates ascend.
LEMMA SortedGoesUp ==
  ASSUME NEW f, IsBag(f), NEW i \in 0 .. Replicates(f) - 1, NEW j \in 0 .. Replicates(f) - 1, i <= j
  PROVE  Sorted(f, i) \in Int /\ Sorted(f, j) \in Int /\ Sorted(f, i) <= Sorted(f, j)
<1>1. \A v \in Int : AtMost(f, v) \in Nat
  BY AtMostGrows
<1>2. /\ Sorted(f, i) \in Int /\ \A w \in Int : Sorted(f, i) <= w <=> AtMost(f, w) > i
      /\ Sorted(f, j) \in Int /\ \A w \in Int : Sorted(f, j) <= w <=> AtMost(f, w) > j
  BY SortedAt
<1>3. PICK b \in Int : b = Sorted(f, j)
  BY <1>2
<1>4. AtMost(f, b) > j
  BY <1>2, <1>3
<1>5. AtMost(f, b) > i
  BY <1>1, <1>3, <1>4
<1>6. QED
  BY <1>2, <1>3, <1>5

\* The arithmetic of an interpolation further up.
LEMMA InterpolationAscends ==
  ASSUME NEW den \in Nat \ {0}, NEW low \in Nat, NEW low2 \in Nat,
         NEW part \in 0 .. den - 1, NEW part2 \in 0 .. den - 1,
         low * den + part <= low2 * den + part2,
         NEW x \in Int, NEW y \in Int, NEW x2 \in Int, NEW y2 \in Int, x <= y, x2 <= y2,
         low < low2 => y <= x2,
         low = low2 => x = x2 /\ (part # 0 /\ part2 # 0 => y = y2) /\ (part = 0 => x = y)
  PROVE  x * (den - part) + y * part <= x2 * (den - part2) + y2 * part2
<1>1. low <= low2
  <2> SUFFICES ASSUME low >= low2 + 1 PROVE FALSE
    OBVIOUS
  <2>1. \A u, v \in Nat : u <= v => u * den <= v * den
    OBVIOUS
  <2>2. (low2 + 1) * den <= low * den
    BY <2>1
  <2>3. (low2 + 1) * den = low2 * den + den /\ low2 * den \in Nat /\ low * den \in Nat
    OBVIOUS
  <2>4. QED
    BY <2>2, <2>3
<1>2. part \in Nat /\ part <= den /\ part2 \in Nat /\ part2 <= den
  OBVIOUS
<1>3. PICK p \in Int, q \in Int :
        /\ p = x * (den - part) + y * part /\ q = x2 * (den - part2) + y2 * part2
        /\ p <= y * den /\ x2 * den <= q /\ y * den \in Int /\ x2 * den \in Int
  <2>1. /\ x * (den - part) + y * part \in Int
        /\ x2 * (den - part2) + y2 * part2 \in Int
        /\ x * (den - part) + y * part <= y * den
        /\ x2 * den <= x2 * (den - part2) + y2 * part2
        /\ y * den \in Int /\ x2 * den \in Int
    BY <1>2, MeanBetween
  <2>2. QED
    BY <2>1
<1>4. \A u, v \in Int : u <= v => u * den <= v * den
  OBVIOUS
<1>5. CASE low < low2
  <2>1. y * den <= x2 * den
    BY <1>4, <1>5
  <2>2. p <= q
    BY <1>3, <2>1
  <2>3. QED
    BY <1>3, <2>2
<1>6. CASE low = low2
  <2>1. part <= part2 /\ x = x2
    BY <1>6
  <2>2. CASE part = 0
    <3>1. y * den = x2 * den
      BY <1>6, <2>1, <2>2
    <3>2. p <= q
      BY <1>3, <3>1
    <3>3. QED
      BY <1>3, <3>2
  <2>3. CASE part # 0
    <3>1. y = y2 /\ x = x2
      BY <1>2, <1>6, <2>1, <2>3
    <3>2. x * (den - part) + y * part <= x * (den - part2) + y * part2
      BY <1>2, <2>1, MeanBetween
    <3>3. QED
      BY <3>1, <3>2
  <2>4. QED
    BY <2>2, <2>3
<1>7. QED
  BY <1>1, <1>5, <1>6

\* A percentile further up is not smaller.
LEMMA PercentileAscends ==
  ASSUME NEW f, IsBag(f), Replicates(f) > 0, NEW den \in Nat \ {0},
         NEW num \in 0 .. den, NEW more \in num .. den
  PROVE  /\ Percentile(f, num, den) \in Int /\ Percentile(f, more, den) \in Int
         /\ Percentile(f, num, den) <= Percentile(f, more, den)
<1>1. Replicates(f) \in Nat /\ Replicates(f) > 0
  BY AtMostGrows
<1>2. PICK low, up, part, x, y : Interpolated(f, num, den, low, up, part, x, y)
  BY <1>1, PercentileIs
<1>3. PICK low2, up2, part2, x2, y2 : Interpolated(f, more, den, low2, up2, part2, x2, y2)
  <2>1. more \in 0 .. den
    OBVIOUS
  <2>2. QED
    BY <1>1, <2>1, PercentileIs
<1>4. low * den + part <= low2 * den + part2
  <2>1. \A u, v, m \in Nat : u <= v => u * m <= v * m
    OBVIOUS
  <2>2. num * (Replicates(f) - 1) <= more * (Replicates(f) - 1)
    BY <1>1, <2>1
  <2>3. QED
    BY <1>2, <1>3, <2>2 DEF Interpolated
<1>5. low < low2 => y <= x2
  <2> SUFFICES ASSUME low < low2 PROVE y <= x2
    OBVIOUS
  <2>1. up <= low2 /\ up \in 0 .. Replicates(f) - 1 /\ low2 \in 0 .. Replicates(f) - 1
    BY <1>1, <1>2, <1>3 DEF Interpolated
  <2>2. Sorted(f, up) <= Sorted(f, low2)
    BY <2>1, SortedGoesUp
  <2>3. QED
    BY <1>2, <1>3, <2>2 DEF Interpolated
<1>6. low = low2 => x = x2 /\ (part # 0 /\ part2 # 0 => y = y2) /\ (part = 0 => x = y)
  BY <1>2, <1>3 DEF Interpolated
<1>7. /\ low \in Nat /\ low2 \in Nat /\ part \in 0 .. den - 1 /\ part2 \in 0 .. den - 1
      /\ x \in Int /\ y \in Int /\ x2 \in Int /\ y2 \in Int /\ x <= y /\ x2 <= y2
  BY <1>1, <1>2, <1>3 DEF Interpolated
<1>8. x * (den - part) + y * part <= x2 * (den - part2) + y2 * part2
  BY <1>4, <1>5, <1>6, <1>7, InterpolationAscends
<1>9. x * (den - part) + y * part \in Int /\ x2 * (den - part2) + y2 * part2 \in Int
  <2>1. \A u, v \in Int, k \in Nat : u * (den - k) + v * k \in Int
    OBVIOUS
  <2>2. part \in Nat /\ part2 \in Nat
    BY <1>7
  <2>3. QED
    BY <1>7, <2>1, <2>2
<1>10. QED
  BY <1>2, <1>3, <1>8, <1>9 DEF Interpolated

\* The interval of the one is that of the other from behind, and the p-value is the same.
LEMMA IntervalMirrors ==
  ASSUME NEW f, IsBag(f), NEW g, Mirrors(g, f)
  PROVE  /\ TwoSidedP(g) = TwoSidedP(f)
         /\ PercentileCI(f, Alpha, Unit) = NoInterval => PercentileCI(g, Alpha, Unit) = NoInterval
         /\ PercentileCI(f, Alpha, Unit) # NoInterval =>
              \E lo, hi \in Int : /\ lo <= hi
                                  /\ PercentileCI(f, Alpha, Unit) = [finite |-> TRUE, lo |-> lo, hi |-> hi]
                                  /\ PercentileCI(g, Alpha, Unit) = [finite |-> TRUE, lo |-> -hi, hi |-> -lo]
<1>1. /\ Replicates(g) = Replicates(f) /\ Replicates(f) \in Nat
      /\ AtMost(g, 0) = Replicates(f) - AtMost(f, -1) /\ AtMost(g, -1) = Replicates(f) - AtMost(f, 0)
      /\ AtMost(f, 0) \in Nat /\ AtMost(f, -1) \in Nat
  <2>1. \A v, w \in Int : w = -v - 1 => AtMost(g, v) = Replicates(f) - AtMost(f, w)
    BY CountsMirror
  <2>2. QED
    BY <2>1, CountsMirror, AtMostGrows
<1>2. TwoSidedP(g) = TwoSidedP(f)
  <2>1. PICK n \in Nat, a \in Nat, b \in Nat : n = Replicates(f) /\ a = AtMost(f, 0) /\ b = AtMost(f, -1)
    BY <1>1
  <2>2. Replicates(g) = n /\ AtMost(g, 0) = n - b /\ AtMost(g, -1) = n - a
    BY <1>1, <2>1
  <2>3. n - (n - a) = a
    OBVIOUS
  <2> DEFINE lessF == IF a < n - b THEN a ELSE n - b
             lessG == IF n - b < a THEN n - b ELSE a
             cut(twice) == IF twice = 0 THEN 1 ELSE IF twice > n THEN n ELSE twice
  <2>4. TwoSidedP(f) = cut(2 * lessF) /\ TwoSidedP(g) = cut(2 * lessG)
    BY <2>1, <2>2, <2>3 DEF TwoSidedP
  <2>5. lessF = lessG
    OBVIOUS
  <2>6. QED
    BY <2>4, <2>5
<1>3. CASE Replicates(f) = 0
  <2>1. PercentileCI(f, Alpha, Unit) = NoInterval /\ PercentileCI(g, Alpha, Unit) = NoInterval
    BY <1>1, <1>3 DEF PercentileCI
  <2>2. QED
    BY <1>2, <2>1
<1>4. CASE Replicates(f) # 0
  <2>1. PICK den \in Nat \ {0}, num \in Nat : den = 2 * Unit /\ num = Alpha /\ num \in 0 .. den /\ den - num \in num .. den
    BY LevelAssumption
  <2>2. PICK lo \in Int, hi \in Int : /\ lo = Percentile(f, num, den) /\ hi = Percentile(f, den - num, den)
                                      /\ lo <= hi
    BY <1>1, <1>4, <2>1, PercentileAscends
  <2>3. Percentile(g, num, den) = -hi
    BY <1>1, <1>4, <2>1, <2>2, PercentileMirrors
  <2>4. Percentile(g, den - num, den) = -lo
    <3>1. den - num \in 0 .. den /\ den - (den - num) = num
      BY <2>1
    <3>2. Percentile(g, den - num, den) = -Percentile(f, den - (den - num), den)
      BY <1>1, <1>4, <3>1, PercentileMirrors
    <3>3. QED
      BY <2>2, <3>1, <3>2
  <2>5. /\ PercentileCI(f, Alpha, Unit) = [finite |-> TRUE, lo |-> lo, hi |-> hi]
        /\ PercentileCI(g, Alpha, Unit) = [finite |-> TRUE, lo |-> -hi, hi |-> -lo]
    BY <1>1, <1>4, <2>1, <2>2, <2>3, <2>4 DEF PercentileCI
  <2>6. PercentileCI(f, Alpha, Unit) # NoInterval
    BY <2>5 DEF NoInterval
  <2>7. QED
    BY <1>2, <2>2, <2>5, <2>6
<1>5. QED
  BY <1>3, <1>4

-----------------------------------------------------------------------------
(* The paired comparison of the agent modes.                               *)

\* The bag of the numbers t of the draws in D.
CountedAs(bag, D, t) ==
  bag = [v \in {t[x] : x \in D} |-> Cardinality({x \in D : t[x] = v})]

\* As many replicates are at most v as draws are.
LEMMA CountedAtMost ==
  ASSUME NEW D, IsFiniteSet(D), NEW t, \A x \in D : t[x] \in Int, NEW bag, CountedAs(bag, D, t)
  PROVE  /\ IsBag(bag) /\ Replicates(bag) = Cardinality(D)
         /\ \A v \in Int : AtMost(bag, v) = Cardinality({x \in D : t[x] <= v})
<1> DEFINE B == {t[x] : x \in D}
           of(v) == {x \in D : t[x] = v}
<1>1. DOMAIN bag = B /\ \A v \in B : bag[v] = Cardinality(of(v))
  BY DEF CountedAs
<1>2. IsFiniteSet(B) /\ \A v \in B : v \in Int
  BY FiniteImage
<1>3. \A v \in B : bag[v] \in Nat
  <2> TAKE v \in B
  <2>1. of(v) \in SUBSET D
    OBVIOUS
  <2>2. Cardinality(of(v)) \in Nat
    <3> HIDE DEF of
    <3>1. QED
      BY <2>1, FS_Subset, FS_CardinalityType
  <2>3. QED
    BY <1>1, <2>2
<1>4. IsBag(bag)
  BY <1>1, <1>2, <1>3 DEF IsBag
<1> HIDE DEF B
<1>5. ASSUME NEW E \in SUBSET D, NEW C \in SUBSET B, \A x \in D : x \in E <=> t[x] \in C
      PROVE  SumOver(bag, C) = Cardinality(E)
  <2>1. IsFiniteSet(E) /\ IsFiniteSet(C)
    BY <1>2, FS_Subset
  <2> DEFINE f == [v \in C |-> Cardinality({x \in E : t[x] = v})]
  <2>2. SumOver(f, C) = Cardinality(E)
    <3>1. \A x \in E : t[x] \in C
      BY <1>5
    <3> HIDE DEF f
    <3>2. QED
      BY <2>1, <3>1, GroupsShareOut DEF f
  <2>3. \A v \in C : bag[v] \in Int /\ bag[v] = f[v]
    <3> TAKE v \in C
    <3>1. {x \in E : t[x] = v} = of(v)
      BY <1>5
    <3>2. QED
      BY <1>1, <1>3, <3>1
  <2> HIDE DEF f
  <2>4. SumOver(bag, C) = SumOver(f, C)
    BY <2>1, <2>3, SumSame
  <2>5. QED
    BY <2>2, <2>4
<1>6. Replicates(bag) = Cardinality(D)
  <2>1. Replicates(bag) = SumOver(bag, B)
    BY <1>1, Zenon DEF Replicates, Total, SumOver, MapThenSumSet, MapThenFoldSet
  <2>2. \A x \in D : x \in D <=> t[x] \in B
    BY DEF B
  <2>3. QED
    BY <1>5, <2>1, <2>2
<1>7. ASSUME NEW v \in Int PROVE AtMost(bag, v) = Cardinality({x \in D : t[x] <= v})
  <2>1. PICK C : C = {u \in B : u <= v}
    OBVIOUS
  <2>2. AtMost(bag, v) = SumOver(bag, C)
    BY <1>1, <2>1, Zenon DEF AtMost, SumOver, MapThenSumSet, MapThenFoldSet
  <2>3. PICK E : E = {x \in D : t[x] <= v}
    OBVIOUS
  <2>4. E \in SUBSET D /\ C \in SUBSET B /\ \A x \in D : x \in E <=> t[x] \in C
    BY <2>1, <2>3 DEF B
  <2>5. QED
    BY <1>5, <2>2, <2>3, <2>4
<1>8. QED
  BY <1>4, <1>6, <1>7

\* The bag of the negatives mirrors it.
LEMMA CountedMirrors ==
  ASSUME NEW D, NEW t, \A x \in D : t[x] \in Int, NEW u, \A x \in D : u[x] = -t[x],
         NEW f, CountedAs(f, D, t), NEW g, CountedAs(g, D, u)
  PROVE  Mirrors(g, f)
<1>1. DOMAIN f = {t[x] : x \in D} /\ DOMAIN g = {u[x] : x \in D}
  BY DEF CountedAs
<1>2. {u[x] : x \in D} = {-v : v \in {t[x] : x \in D}}
  OBVIOUS
<1>3. ASSUME NEW v \in {t[x] : x \in D} PROVE g[-v] = f[v]
  <2>1. {x \in D : u[x] = -v} = {x \in D : t[x] = v}
    <3>1. v \in Int
      OBVIOUS
    <3>2. \A x \in D : u[x] = -v <=> t[x] = v
      BY <3>1
    <3>3. QED
      BY <3>2
  <2>2. -v \in {u[x] : x \in D}
    BY <1>2
  <2>3. QED
    BY <2>1, <2>2 DEF CountedAs
<1>4. QED
  BY <1>1, <1>2, <1>3 DEF Mirrors

\* What lies lower everywhere has the lower percentile.
LEMMA PercentileLower ==
  ASSUME NEW f, IsBag(f), NEW g, IsBag(g), Replicates(f) > 0, Replicates(g) = Replicates(f),
         \A v \in Int : AtMost(g, v) <= AtMost(f, v),
         NEW den \in Nat \ {0}, NEW num \in 0 .. den
  PROVE  Percentile(f, num, den) <= Percentile(g, num, den)
<1>1. PICK low, up, part, x, y : Interpolated(f, num, den, low, up, part, x, y)
  BY PercentileIs
<1>2. PICK low2, up2, part2, x2, y2 : Interpolated(g, num, den, low2, up2, part2, x2, y2)
  BY PercentileIs
<1>3. PICK n \in Nat : n = Replicates(f) /\ n = Replicates(g)
  BY AtMostGrows
<1>4. low2 = low /\ part2 = part
  <2>1. low \in Nat /\ low2 \in Nat /\ part \in 0 .. den - 1 /\ part2 \in 0 .. den - 1
    BY <1>1, <1>2, <1>3 DEF Interpolated
  <2>2. PICK at : at = low * den + part /\ at = low2 * den + part2
    BY <1>1, <1>2, <1>3 DEF Interpolated
  <2>3. at \div den = low /\ at % den = part
    BY <2>1, <2>2, DivUnique
  <2>4. at \div den = low2 /\ at % den = part2
    BY <2>1, <2>2, DivUnique
  <2>5. QED
    BY <2>3, <2>4
<1>5. ASSUME NEW pos \in 0 .. n - 1 PROVE Sorted(f, pos) <= Sorted(g, pos)
  <2>1. /\ Sorted(f, pos) \in Int /\ \A w \in Int : Sorted(f, pos) <= w <=> AtMost(f, w) > pos
        /\ Sorted(g, pos) \in Int /\ \A w \in Int : Sorted(g, pos) <= w <=> AtMost(g, w) > pos
    BY <1>3, SortedAt
  <2>2. PICK b \in Int : b = Sorted(g, pos)
    BY <2>1
  <2>3. AtMost(g, b) > pos /\ AtMost(g, b) <= AtMost(f, b)
    BY <2>1, <2>2
  <2>4. AtMost(f, b) \in Nat /\ AtMost(g, b) \in Nat
    BY AtMostGrows
  <2>5. AtMost(f, b) > pos
    BY <2>3, <2>4
  <2>6. QED
    BY <2>1, <2>2, <2>5
<1>6. /\ x \in Int /\ y \in Int /\ x2 \in Int /\ y2 \in Int /\ x <= x2 /\ y <= y2 /\ part \in 0 .. den - 1
      /\ Percentile(f, num, den) = x * (den - part) + y * part
      /\ Percentile(g, num, den) = x2 * (den - part) + y2 * part
  <2>1. up2 = up
    BY <1>1, <1>2, <1>4 DEF Interpolated
  <2>2. x <= x2 /\ y <= y2
    BY <1>1, <1>2, <1>3, <1>4, <1>5, <2>1 DEF Interpolated
  <2>3. QED
    BY <1>1, <1>2, <1>4, <2>2 DEF Interpolated
<1>7. \A a, b \in Int, c \in Nat : a <= b => a * c \in Int /\ b * c \in Int /\ a * c <= b * c
  OBVIOUS
<1>8. PICK c \in Nat, d \in Nat : c = den - part /\ d = part
  BY <1>6
<1>9. x * c <= x2 * c /\ y * d <= y2 * d /\ x * c \in Int /\ x2 * c \in Int /\ y * d \in Int /\ y2 * d \in Int
  BY <1>6, <1>7, <1>8
<1>10. QED
  BY <1>6, <1>8, <1>9

\* When each draw has one of at most the opposite number, and no two the same one, the lower
\* bound is not above 0.
LEMMA LowerBoundNotAbove ==
  ASSUME NEW D, IsFiniteSet(D), D # {}, NEW t, \A x \in D : t[x] \in Int, NEW bag, CountedAs(bag, D, t),
         NEW h \in [D -> D], \A x, y \in D : h[x] = h[y] => x = y, \A x \in D : t[h[x]] <= -t[x],
         NEW den \in Nat \ {0}, NEW num \in 0 .. den, num <= den - num
  PROVE  Percentile(bag, num, den) <= 0
<1> DEFINE u == [x \in D |-> -t[x]]
           back == [v \in {u[x] : x \in D} |-> Cardinality({x \in D : u[x] = v})]
<1>1. \A x \in D : u[x] \in Int /\ u[x] = -t[x]
  OBVIOUS
<1>2. CountedAs(back, D, u)
  BY Zenon DEF CountedAs
<1> HIDE DEF u, back
<1>3. Mirrors(back, bag)
  BY <1>1, <1>2, CountedMirrors
<1>4. /\ IsBag(bag) /\ Replicates(bag) = Cardinality(D)
      /\ \A v \in Int : AtMost(bag, v) = Cardinality({x \in D : t[x] <= v})
  BY CountedAtMost
<1>5. /\ IsBag(back) /\ Replicates(back) = Cardinality(D)
      /\ \A v \in Int : AtMost(back, v) = Cardinality({x \in D : u[x] <= v})
  BY <1>1, <1>2, CountedAtMost
<1>6. Cardinality(D) \in Nat /\ Cardinality(D) > 0
  BY FS_CardinalityType, FS_EmptySet
<1>7. ASSUME NEW v \in Int PROVE AtMost(back, v) <= AtMost(bag, v)
  <2>1. PICK A, B : A = {x \in D : u[x] <= v} /\ B = {x \in D : t[x] <= v}
    OBVIOUS
  <2>2. IsFiniteSet(A) /\ IsFiniteSet(B) /\ A \in SUBSET D
    BY <2>1, FS_Subset
  <2>3. \A x \in A : h[x] \in B
    <3> TAKE x \in A
    <3>1. x \in D /\ h[x] \in D /\ t[h[x]] \in Int /\ t[x] \in Int
      BY <2>2
    <3>2. t[h[x]] <= -t[x] /\ -t[x] <= v
      BY <1>1, <2>1, <3>1
    <3>3. t[h[x]] <= v
      BY <3>1, <3>2
    <3>4. QED
      BY <2>1, <3>1, <3>3
  <2>4. PICK i : i = [x \in A |-> h[x]]
    OBVIOUS
  <2>5. i \in Injection(A, B)
    <3>1. i \in [A -> B]
      BY <2>3, <2>4
    <3>2. \A x, y \in A : i[x] = i[y] => x = y
      BY <2>2, <2>4
    <3>3. QED
      BY <3>1, <3>2 DEF Injection, IsInjective
  <2>6. Cardinality(A) <= Cardinality(B)
    BY <2>2, <2>5, FS_Injection
  <2>7. QED
    BY <1>4, <1>5, <2>1, <2>6
<1>8. Percentile(bag, num, den) <= Percentile(back, num, den)
  BY <1>4, <1>5, <1>6, <1>7, PercentileLower
<1>9. /\ Percentile(bag, den - num, den) \in Int
      /\ Percentile(back, num, den) = -Percentile(bag, den - num, den)
  BY <1>3, <1>4, <1>6, PercentileMirrors
<1>10. /\ Percentile(bag, num, den) \in Int
       /\ Percentile(bag, num, den) <= Percentile(bag, den - num, den)
  <2>1. den - num \in num .. den
    OBVIOUS
  <2>2. QED
    BY <1>4, <1>6, <2>1, PercentileAscends
<1>11. PICK a \in Int, b \in Int : a = Percentile(bag, num, den) /\ b = Percentile(bag, den - num, den)
  BY <1>9, <1>10
<1>12. a <= -b /\ a <= b
  BY <1>8, <1>9, <1>10, <1>11
<1>13. QED
  BY <1>11, <1>12

\* h moves P into N, one to one, and leaves alone what is in neither.
MovesInto(h, S, P, N) ==
  /\ h \in [S -> S] /\ \A x, y \in S : h[x] = h[y] => x = y
  /\ \A x \in P : h[x] \in N
  /\ \A x \in S \ P : h[x] = x \/ (x \in N /\ h[x] \in P)

\* Where no more are in P than in N, P can be exchanged for a part of N.
LEMMA MoveExists ==
  ASSUME NEW S, IsFiniteSet(S), NEW P \in SUBSET S, NEW N \in SUBSET S, P \cap N = {},
         Cardinality(P) <= Cardinality(N)
  PROVE  \E h : MovesInto(h, S, P, N)
<1>1. IsFiniteSet(P) /\ IsFiniteSet(N)
  BY FS_Subset
<1>2. PICK p, q \in Nat : p = Cardinality(P) /\ q = Cardinality(N) /\ p <= q
  BY <1>1, FS_CardinalityType
<1>3. PICK a : a \in Bijection(1 .. p, P)
  <2>1. PICK n \in Nat : ExistsBijection(1 .. n, P)
    BY <1>1, FS_NatBijection
  <2>2. n = p
    BY <1>2, <2>1, FS_CountingElements
  <2>3. QED
    BY <2>1, <2>2 DEF ExistsBijection
<1>4. PICK b : b \in Bijection(1 .. q, N)
  <2>1. PICK n \in Nat : ExistsBijection(1 .. n, N)
    BY <1>1, FS_NatBijection
  <2>2. n = q
    BY <1>2, <2>1, FS_CountingElements
  <2>3. QED
    BY <2>1, <2>2 DEF ExistsBijection
<1>5. /\ \A k \in 1 .. p : a[k] \in P /\ b[k] \in N
      /\ \A k, l \in 1 .. p : (a[k] = a[l] => k = l) /\ (b[k] = b[l] => k = l)
      /\ \A x \in P : \E k \in 1 .. p : a[k] = x
  <2>1. \A k \in 1 .. p : k \in 1 .. q
    BY <1>2
  <2>2. QED
    BY <1>3, <1>4, <2>1 DEF Bijection, Injection, Surjection, IsInjective
<1> DEFINE at(x) == CHOOSE k \in 1 .. p : a[k] = x
           from(x) == CHOOSE k \in 1 .. p : b[k] = x
           h == [x \in S |-> IF x \in P THEN b[at(x)]
                             ELSE IF \E k \in 1 .. p : b[k] = x THEN a[from(x)] ELSE x]
<1>6. \A x \in P : at(x) \in 1 .. p /\ a[at(x)] = x
  BY <1>5
<1>7. \A x \in S : (\E k \in 1 .. p : b[k] = x) => from(x) \in 1 .. p /\ b[from(x)] = x
  OBVIOUS
<1>8. \A x \in P : h[x] = b[at(x)] /\ h[x] \in N
  BY <1>5, <1>6
<1>9. \A x \in S \ P : \/ h[x] = x /\ ~\E k \in 1 .. p : b[k] = x
                       \/ /\ from(x) \in 1 .. p /\ b[from(x)] = x
                          /\ x \in N /\ h[x] = a[from(x)] /\ h[x] \in P
  BY <1>5, <1>7
<1> HIDE DEF at, from, h
<1>10. h \in [S -> S]
  <2>1. \A x \in S : h[x] \in S
    BY <1>8, <1>9
  <2>2. h = [x \in S |-> h[x]]
    BY DEF h
  <2>3. QED
    BY <2>1, <2>2
<1>11. ASSUME NEW x \in S, NEW y \in S, h[x] = h[y] PROVE x = y
  <2>1. CASE x \in P /\ y \in P
    BY <1>5, <1>6, <1>8, <1>11, <2>1
  <2>2. CASE x \in P /\ y \notin P
    <3>1. h[x] = b[at(x)] /\ h[x] \in N /\ at(x) \in 1 .. p
      BY <1>6, <1>8, <2>2
    <3>2. h[y] \notin P
      BY <1>11, <3>1
    <3>3. h[y] = y /\ ~\E k \in 1 .. p : b[k] = y
      BY <1>9, <2>2, <3>2
    <3>4. QED
      BY <1>11, <3>1, <3>3
  <2>3. CASE x \notin P /\ y \in P
    <3>1. h[y] = b[at(y)] /\ h[y] \in N /\ at(y) \in 1 .. p
      BY <1>6, <1>8, <2>3
    <3>2. h[x] \notin P
      BY <1>11, <3>1
    <3>3. h[x] = x /\ ~\E k \in 1 .. p : b[k] = x
      BY <1>9, <2>3, <3>2
    <3>4. QED
      BY <1>11, <3>1, <3>3
  <2>4. CASE x \notin P /\ y \notin P
    <3>1. CASE h[x] \in P
      <4>1. /\ from(x) \in 1 .. p /\ b[from(x)] = x /\ h[x] = a[from(x)]
            /\ from(y) \in 1 .. p /\ b[from(y)] = y /\ h[y] = a[from(y)]
        BY <1>9, <1>11, <2>4, <3>1
      <4>2. PICK k, l \in 1 .. p : k = from(x) /\ l = from(y) /\ a[k] = a[l]
        BY <1>11, <4>1
      <4>3. k = l
        BY <1>5, <4>2
      <4>4. QED
        BY <4>1, <4>2, <4>3
    <3>2. CASE h[x] \notin P
      BY <1>9, <1>11, <2>4, <3>2
    <3>3. QED
      BY <3>1, <3>2
  <2>5. QED
    BY <2>1, <2>2, <2>3, <2>4
<1>12. MovesInto(h, S, P, N)
  BY <1>8, <1>9, <1>10, <1>11 DEF MovesInto
<1>13. QED
  BY <1>12

\* Sums of two terms are compared term by term.
LEMMA SumsCompare ==
  ASSUME NEW S, IsFiniteSet(S), NEW a, NEW b, NEW c, NEW d,
         \A x \in S : a[x] \in Int /\ b[x] \in Int /\ c[x] \in Int /\ d[x] \in Int,
         \A x \in S : a[x] + b[x] <= c[x] + d[x]
  PROVE  SumOver(a, S) + SumOver(b, S) <= SumOver(c, S) + SumOver(d, S)
<1> DEFINE F == {T \in SUBSET S : SumOver(a, T) + SumOver(b, T) <= SumOver(c, T) + SumOver(d, T)}
<1>1. ASSUME NEW f, \A x \in S : f[x] \in Int
      PROVE  /\ SumOver(f, {}) = 0 /\ \A T \in SUBSET S : SumOver(f, T) \in Int
             /\ \A T \in SUBSET S, x \in S : x \notin T => SumOver(f, T \cup {x}) = f[x] + SumOver(f, T)
  <2>1. /\ SumOver(f, {}) = 0
        /\ \A T \in SUBSET S, x \in S : x \notin T => SumOver(f, T \cup {x}) = f[x] + SumOver(f, T)
    BY <1>1, SumTakes
  <2>2. \A T \in SUBSET S : SumOver(f, T) \in Int
    <3> TAKE T \in SUBSET S
    <3>1. IsFiniteSet(T) /\ \A x \in T : f[x] \in Int
      BY <1>1, FS_Subset
    <3>2. QED
      BY <3>1, SumTakes
  <2>3. QED
    BY <2>1, <2>2
<1>2. {} \in F
  BY <1>1
<1>3. ASSUME NEW T \in F, NEW x \in S, T \subseteq S, x \notin T PROVE T \cup {x} \in F
  <2>1. PICK sa, sb, sc, sd \in Int :
          /\ sa = SumOver(a, T) /\ sb = SumOver(b, T) /\ sc = SumOver(c, T) /\ sd = SumOver(d, T)
          /\ sa + sb <= sc + sd
    BY <1>1
  <2>2. /\ SumOver(a, T \cup {x}) = a[x] + sa /\ SumOver(b, T \cup {x}) = b[x] + sb
        /\ SumOver(c, T \cup {x}) = c[x] + sc /\ SumOver(d, T \cup {x}) = d[x] + sd
    BY <1>1, <1>3, <2>1
  <2>3. (a[x] + sa) + (b[x] + sb) <= (c[x] + sc) + (d[x] + sd)
    BY <2>1
  <2>4. QED
    BY <1>3, <2>2, <2>3
<1> HIDE DEF F
<1>4. S \in F
  BY <1>2, <1>3, FiniteSetInduction
<1>5. QED
  BY <1>4 DEF F

\* As many functions as there are, finitely many and at least one.
LEMMA DrawsFinite ==
  ASSUME NEW S, IsFiniteSet(S)
  PROVE  IsFiniteSet([S -> S]) /\ Cardinality([S -> S]) \in Nat \ {0}
<1> DEFINE graph == [f \in [S -> S] |-> {<<x, f[x]>> : x \in S}]
<1>1. IsFiniteSet(SUBSET (S \X S))
  BY FS_Product, FS_SUBSET
<1>2. graph \in Injection([S -> S], SUBSET (S \X S))
  <2>1. graph \in [[S -> S] -> SUBSET (S \X S)]
    <3>1. \A f \in [S -> S] : {<<x, f[x]>> : x \in S} \in SUBSET (S \X S)
      OBVIOUS
    <3>2. QED
      BY <3>1
  <2>2. ASSUME NEW f \in [S -> S], NEW g \in [S -> S], graph[f] = graph[g] PROVE f = g
    <3>1. ASSUME NEW x \in S PROVE f[x] = g[x]
      <4>1. <<x, f[x]>> \in graph[f]
        OBVIOUS
      <4>2. <<x, f[x]>> \in {<<y, g[y]>> : y \in S}
        BY <2>2, <4>1
      <4>3. PICK y \in S : <<x, f[x]>> = <<y, g[y]>>
        BY <4>2
      <4>4. QED
        BY <4>3
    <3>2. QED
      BY <3>1
  <2> HIDE DEF graph
  <2>3. DOMAIN graph = [S -> S]
    BY <2>1
  <2>4. QED
    BY <2>1, <2>2, <2>3 DEF Injection, IsInjective
<1> HIDE DEF graph
<1>3. IsFiniteSet([S -> S])
  BY <1>1, <1>2, FS_Injection
<1>4. [x \in S |-> x] \in [S -> S]
  OBVIOUS
<1>5. [S -> S] # {}
  BY <1>4
<1>6. Cardinality([S -> S]) \in Nat /\ Cardinality([S -> S]) # 0
  BY <1>3, <1>5, FS_CardinalityType, FS_EmptySet
<1>7. QED
  BY <1>3, <1>6

\* The numbers of the paired scenarios.
IsPairing(pairs) ==
  IsFiniteSet(DOMAIN pairs) /\ \A s \in DOMAIN pairs, mode \in Modes : pairs[s][mode] \in Int

\* The sum over a draw.
LEMMA SumOfDraw ==
  ASSUME NEW pairs, NEW S, S = DOMAIN pairs, IsPairing(pairs), NEW mode \in Modes, NEW draw \in [S -> S]
  PROVE  LET f == [d \in S |-> pairs[draw[d]][mode]]
         IN /\ \A d \in S : f[d] \in Int
            /\ Sum(pairs, S, mode, draw) = SumOver(f, S) /\ Sum(pairs, S, mode, draw) \in Int
<1> DEFINE f == [d \in S |-> pairs[draw[d]][mode]]
           pick(s) == CHOOSE x \in s : TRUE
           sum(g) == [s \in SUBSET S |-> IF s = {} THEN 0 ELSE pairs[draw[pick(s)]][mode] + g[s \ {pick(s)}]]
           fold(g) == [s \in SUBSET S |-> IF s = {} THEN 0 ELSE f[pick(s)] + g[s \ {pick(s)}]]
<1>1. \A d \in S : f[d] \in Int /\ f[d] = pairs[draw[d]][mode]
  BY DEF IsPairing
<1>2. IsFiniteSet(S)
  BY DEF IsPairing
<1> HIDE DEF f
<1>3. Sum(pairs, S, mode, draw) = (CHOOSE g : g = sum(g))[S]
  BY Zenon DEF Sum, MapThenSumSet, MapThenFoldSet
<1>4. SumOver(f, S) = (CHOOSE g : g = fold(g))[S]
  BY Zenon DEF SumOver, MapThenSumSet, MapThenFoldSet
<1>5. \A s \in SUBSET S : s # {} => pick(s) \in S
  OBVIOUS
<1> HIDE DEF pick
<1>6. \A g : sum(g) = fold(g)
  <2>1. \A s \in SUBSET S : s # {} => f[pick(s)] = pairs[draw[pick(s)]][mode]
    BY <1>1, <1>5, Zenon
  <2>2. QED
    BY <2>1, Zenon
<1> HIDE DEF sum, fold
<1>7. Sum(pairs, S, mode, draw) = SumOver(f, S)
  BY <1>3, <1>4, <1>6, Zenon
<1>8. SumOver(f, S) \in Int
  BY <1>1, <1>2, SumTakes
<1>9. QED
  BY <1>1, <1>7, <1>8 DEF f

\* The difference of the modes in a draw.
ModeDifferences(pairs) ==
  [draw \in [DOMAIN pairs -> DOMAIN pairs] |->
     Sum(pairs, DOMAIN pairs, "reactive", draw) - Sum(pairs, DOMAIN pairs, "log_replay", draw)]

\* The replicates are counted draw by draw.
LEMMA DeltasCounted ==
  ASSUME NEW pairs, NEW S, S = DOMAIN pairs, IsPairing(pairs)
  PROVE  /\ \A draw \in [S -> S] : ModeDifferences(pairs)[draw] \in Int
         /\ CountedAs(DeltaBag(pairs), [S -> S], ModeDifferences(pairs))
<1> DEFINE D == [S -> S]
           delta(draw) == Sum(pairs, S, "reactive", draw) - Sum(pairs, S, "log_replay", draw)
           deltas == {<<draw, delta(draw)>> : draw \in D}
<1>0. PICK t : t = ModeDifferences(pairs)
  OBVIOUS
<1>1. \A draw \in D : t[draw] = delta(draw)
  BY <1>0, Zenon DEF ModeDifferences
<1>2. \A draw \in D : t[draw] \in Int
  <2> TAKE draw \in D
  <2>1. Sum(pairs, S, "reactive", draw) \in Int /\ Sum(pairs, S, "log_replay", draw) \in Int
    BY SumOfDraw DEF Modes
  <2>2. QED
    BY <1>1, <2>1
<1>3. DeltaBag(pairs) = [v \in {x[2] : x \in deltas} |-> Cardinality({x \in deltas : x[2] = v})]
  BY Zenon DEF DeltaBag
<1>4. IsFiniteSet(D)
  BY DrawsFinite DEF IsPairing
<1> HIDE DEF D, delta
<1>5. PICK X : X = deltas /\ X = {<<draw, t[draw]>> : draw \in D}
  BY <1>1
<1>6. {x[2] : x \in X} = {t[draw] : draw \in D}
  <2>1. ASSUME NEW x \in X PROVE x[2] \in {t[draw] : draw \in D}
    <3>1. PICK draw \in D : x = <<draw, t[draw]>>
      BY <1>5
    <3>2. QED
      BY <3>1
  <2>2. ASSUME NEW draw \in D PROVE t[draw] \in {x[2] : x \in X}
    <3>1. PICK x : x = <<draw, t[draw]>>
      OBVIOUS
    <3>2. x \in X /\ x[2] = t[draw]
      BY <1>5, <3>1
    <3>3. QED
      BY <3>2
  <2>3. QED
    BY <2>1, <2>2
<1>7. \A v : Cardinality({x \in X : x[2] = v}) = Cardinality({draw \in D : t[draw] = v})
  <2> TAKE v
  <2>1. PICK A, B : A = {draw \in D : t[draw] = v} /\ B = {x \in X : x[2] = v}
    OBVIOUS
  <2>2. PICK h : h = [draw \in A |-> <<draw, t[draw]>>]
    OBVIOUS
  <2>3. IsFiniteSet(A)
    BY <1>4, <2>1, FS_Subset
  <2>4. \A draw \in A : <<draw, t[draw]>> \in B
    BY <1>5, <2>1
  <2>5. \A x \in B : \E draw \in A : x = <<draw, t[draw]>>
    BY <1>5, <2>1
  <2>6. \A draw \in A : h[draw] = <<draw, t[draw]>> /\ h[draw] \in B
    BY <2>2, <2>4
  <2>7. h \in [A -> B]
    BY <2>2, <2>4
  <2>8. ASSUME NEW x \in A, NEW y \in A, h[x] = h[y] PROVE x = y
    <3>1. <<x, t[x]>> = <<y, t[y]>>
      BY <2>6, <2>8
    <3>2. QED
      BY <3>1
  <2>9. \A x \in B : \E y \in A : h[y] = x
    BY <2>5, <2>6
  <2>10. QED
    <3>1. Cardinality(B) = Cardinality(A)
      BY <2>3, <2>7, <2>8, <2>9, OneToOne
    <3>2. QED
      BY <2>1, <3>1
<1>8. DeltaBag(pairs) = [v \in {t[draw] : draw \in D} |-> Cardinality({draw \in D : t[draw] = v})]
  <2> HIDE DEF deltas
  <2>1. DeltaBag(pairs) = [v \in {t[draw] : draw \in D} |-> Cardinality({x \in X : x[2] = v})]
    BY <1>3, <1>5, <1>6
  <2>2. QED
    BY <1>7, <2>1
<1>9. CountedAs(DeltaBag(pairs), D, t)
  BY <1>8, Zenon DEF CountedAs
<1>10. QED
  BY <1>0, <1>2, <1>9 DEF D

\* w says of each scenario in the one mode what v says in the other.
ModesExchanged(w, v) ==
  /\ DOMAIN w = DOMAIN v
  /\ \A s \in DOMAIN v : w[s]["reactive"] = v[s]["log_replay"] /\ w[s]["log_replay"] = v[s]["reactive"]

\* Then its replicates are the opposite ones.
LEMMA DeltasMirror ==
  ASSUME NEW v, IsPairing(v), NEW w, ModesExchanged(w, v)
  PROVE  IsBag(DeltaBag(v)) /\ Mirrors(DeltaBag(w), DeltaBag(v))
<1>1. PICK S : S = DOMAIN v /\ S = DOMAIN w
  BY DEF ModesExchanged
<1>2. IsPairing(w) /\ IsFiniteSet(S)
  <2>1. DOMAIN w = DOMAIN v /\ IsFiniteSet(DOMAIN v)
    BY DEF IsPairing, ModesExchanged
  <2>2. ASSUME NEW s \in DOMAIN w, NEW mode \in Modes PROVE w[s][mode] \in Int
    <3>1. v[s]["log_replay"] \in Int /\ v[s]["reactive"] \in Int
      BY <2>1, <2>2 DEF IsPairing, Modes
    <3>2. w[s]["reactive"] \in Int /\ w[s]["log_replay"] \in Int
      BY <2>1, <2>2, <3>1 DEF ModesExchanged
    <3>3. mode = "reactive" \/ mode = "log_replay"
      BY <2>2 DEF Modes
    <3>4. QED
      BY <3>2, <3>3
  <2>3. QED
    BY <1>1, <2>1, <2>2 DEF IsPairing
<1>3. /\ \A draw \in [S -> S] : ModeDifferences(v)[draw] \in Int
      /\ CountedAs(DeltaBag(v), [S -> S], ModeDifferences(v))
  BY <1>1, DeltasCounted
<1>4. CountedAs(DeltaBag(w), [S -> S], ModeDifferences(w))
  BY <1>1, <1>2, DeltasCounted
<1>5. ASSUME NEW draw \in [S -> S] PROVE ModeDifferences(w)[draw] = -ModeDifferences(v)[draw]
  <2>1. ASSUME NEW m \in Modes, NEW o \in Modes, \A s \in S : w[s][m] = v[s][o]
        PROVE  Sum(w, S, m, draw) = Sum(v, S, o, draw) /\ Sum(v, S, o, draw) \in Int
    <3> DEFINE f == [d \in S |-> w[draw[d]][m]]
               g == [d \in S |-> v[draw[d]][o]]
    <3>1. Sum(w, S, m, draw) = SumOver(f, S) /\ \A d \in S : f[d] \in Int
      BY <1>1, <1>2, SumOfDraw
    <3>2. Sum(v, S, o, draw) = SumOver(g, S) /\ Sum(v, S, o, draw) \in Int
      <4>1. S = DOMAIN v /\ IsPairing(v) /\ o \in Modes /\ draw \in [S -> S]
        BY <1>1, <2>1
      <4>2. QED
        BY <4>1, SumOfDraw
    <3>3. \A d \in S : f[d] = g[d]
      BY <2>1
    <3> HIDE DEF f, g
    <3>4. SumOver(f, S) = SumOver(g, S)
      BY <1>2, <3>1, <3>3, SumSame
    <3>5. QED
      BY <3>1, <3>2, <3>4
  <2>2. "reactive" \in Modes /\ "log_replay" \in Modes
    BY DEF Modes
  <2>3. /\ Sum(w, S, "reactive", draw) = Sum(v, S, "log_replay", draw) /\ Sum(v, S, "log_replay", draw) \in Int
        /\ Sum(w, S, "log_replay", draw) = Sum(v, S, "reactive", draw) /\ Sum(v, S, "reactive", draw) \in Int
    <3>1. \A s \in S : w[s]["reactive"] = v[s]["log_replay"] /\ w[s]["log_replay"] = v[s]["reactive"]
      BY <1>1 DEF ModesExchanged
    <3>2. QED
      BY <2>1, <2>2, <3>1
  <2>4. /\ ModeDifferences(w)[draw] = Sum(w, S, "reactive", draw) - Sum(w, S, "log_replay", draw)
        /\ ModeDifferences(v)[draw] = Sum(v, S, "reactive", draw) - Sum(v, S, "log_replay", draw)
    BY <1>1, Zenon DEF ModeDifferences
  <2>5. PICK a, b \in Int : a = Sum(v, S, "reactive", draw) /\ b = Sum(v, S, "log_replay", draw)
    BY <2>3
  <2>6. ModeDifferences(w)[draw] = b - a /\ ModeDifferences(v)[draw] = a - b
    BY <2>3, <2>4, <2>5
  <2>7. QED
    BY <2>6
<1>6. IsFiniteSet([S -> S])
  BY <1>2, DrawsFinite
<1>7. IsBag(DeltaBag(v))
  BY <1>3, <1>6, CountedAtMost
<1>8. Mirrors(DeltaBag(w), DeltaBag(v))
  BY <1>3, <1>4, <1>5, CountedMirrors
<1>9. QED
  BY <1>7, <1>8

\* Where at least as many scenarios fail in log replay as against reactive agents, the
\* lower bound of the difference is not above 0.
LEMMA LowerBoundOfDeltas ==
  ASSUME NEW pairs, IsPairing(pairs), DOMAIN pairs # {},
         \A s \in DOMAIN pairs, mode \in Modes : pairs[s][mode] \in {0, 1},
         Cardinality({s \in DOMAIN pairs : pairs[s]["reactive"] = 1})
           <= Cardinality({s \in DOMAIN pairs : pairs[s]["log_replay"] = 1})
  PROVE  Percentile(DeltaBag(pairs), Alpha, 2 * Unit) <= 0
<1>1. PICK S : S = DOMAIN pairs
  OBVIOUS
<1>2. PICK R, L : /\ R = {s \in S : pairs[s]["reactive"] = 1} /\ L = {s \in S : pairs[s]["log_replay"] = 1}
                  /\ Cardinality(R) <= Cardinality(L)
  BY <1>1
<1>3. IsFiniteSet(S) /\ S # {} /\ R \in SUBSET S /\ L \in SUBSET S
  BY <1>1, <1>2 DEF IsPairing
<1>4. /\ \A s \in S : pairs[s]["reactive"] \in {0, 1} /\ pairs[s]["log_replay"] \in {0, 1}
      /\ \A s \in S : (s \in R <=> pairs[s]["reactive"] = 1) /\ (s \in L <=> pairs[s]["log_replay"] = 1)
  BY <1>1, <1>2 DEF Modes
<1>5. PICK P, N : P = R \ L /\ N = L \ R
  OBVIOUS
<1>6. P \in SUBSET S /\ N \in SUBSET S /\ P \cap N = {}
  BY <1>3, <1>5
<1>7. Cardinality(P) <= Cardinality(N)
  <2>1. PICK Y : Y = R \cap L
    OBVIOUS
  <2>2. Y \in SUBSET S /\ P \cap Y = {} /\ N \cap Y = {} /\ R = P \cup Y /\ L = N \cup Y
    BY <1>3, <1>5, <2>1
  <2>3. ASSUME NEW X \in SUBSET S, X \cap Y = {}
        PROVE  /\ Cardinality(X) \in Nat /\ Cardinality(Y) \in Nat
               /\ Cardinality(X \cup Y) = Cardinality(X) + Cardinality(Y)
    <3>1. IsFiniteSet(S) /\ X \in SUBSET S /\ Y \in SUBSET S /\ X \cap Y = {}
      BY <1>3, <2>2, <2>3
    <3>2. Cardinality(X) \in Nat /\ Cardinality(Y) \in Nat
      BY <3>1, FS_Subset, FS_CardinalityType
    <3>3. Cardinality(X \cup Y) = Cardinality(X) + Cardinality(Y)
      BY <3>1, CountsAdd
    <3>4. QED
      BY <3>2, <3>3
  <2>4. PICK p, n, b \in Nat : /\ p = Cardinality(P) /\ n = Cardinality(N) /\ b = Cardinality(Y)
                               /\ Cardinality(R) = p + b /\ Cardinality(L) = n + b
    <3>1. /\ Cardinality(P) \in Nat /\ Cardinality(Y) \in Nat
          /\ Cardinality(R) = Cardinality(P) + Cardinality(Y)
      BY <1>6, <2>2, <2>3
    <3>2. Cardinality(N) \in Nat /\ Cardinality(L) = Cardinality(N) + Cardinality(Y)
      BY <1>6, <2>2, <2>3
    <3>3. QED
      BY <3>1, <3>2
  <2>5. p + b <= n + b
    BY <1>2, <2>4
  <2>6. QED
    BY <2>4, <2>5
<1>8. PICK h : MovesInto(h, S, P, N)
  BY <1>3, <1>6, <1>7, MoveExists
<1>9. /\ h \in [S -> S] /\ \A x, y \in S : h[x] = h[y] => x = y
      /\ \A x \in S : pairs[h[x]]["reactive"] + pairs[x]["reactive"]
                        <= pairs[h[x]]["log_replay"] + pairs[x]["log_replay"]
  <2>1. /\ h \in [S -> S] /\ \A x, y \in S : h[x] = h[y] => x = y
        /\ \A x \in P : h[x] \in N
        /\ \A x \in S \ P : h[x] = x \/ (x \in N /\ h[x] \in P)
    BY <1>8 DEF MovesInto
  <2>2. \A x \in P : pairs[x]["reactive"] = 1 /\ pairs[x]["log_replay"] = 0
    BY <1>4, <1>5, <1>6
  <2>3. \A x \in N : pairs[x]["reactive"] = 0 /\ pairs[x]["log_replay"] = 1
    BY <1>4, <1>5, <1>6
  <2>4. \A x \in S \ P : pairs[x]["reactive"] <= pairs[x]["log_replay"]
    BY <1>4, <1>5
  <2>5. ASSUME NEW x \in S
        PROVE  pairs[h[x]]["reactive"] + pairs[x]["reactive"]
                 <= pairs[h[x]]["log_replay"] + pairs[x]["log_replay"]
    <3>1. CASE x \in P
      BY <2>1, <2>2, <2>3, <3>1
    <3>2. CASE x \in N /\ h[x] \in P
      BY <2>2, <2>3, <3>2
    <3>3. CASE x \in S \ P /\ h[x] = x
      BY <1>4, <2>4, <3>3
    <3>4. QED
      BY <2>1, <3>1, <3>2, <3>3
  <2>6. QED
    BY <2>1, <2>5
<1>10. PICK D : D = [S -> S]
  OBVIOUS
<1>11. PICK t : t = ModeDifferences(pairs)
  OBVIOUS
<1>12. /\ \A draw \in D : t[draw] \in Int
       /\ CountedAs(DeltaBag(pairs), D, t)
  <2>1. /\ \A draw \in [S -> S] : ModeDifferences(pairs)[draw] \in Int
        /\ CountedAs(DeltaBag(pairs), [S -> S], ModeDifferences(pairs))
    BY <1>1, DeltasCounted
  <2>2. QED
    BY <1>10, <1>11, <2>1
<1>13. IsFiniteSet(D) /\ D # {}
  BY <1>3, <1>10, DrawsFinite, FS_EmptySet
<1>14. PICK H : H = [draw \in D |-> [d \in S |-> h[draw[d]]]]
  OBVIOUS
<1>15. H \in [D -> D]
  <2>1. \A draw \in D : [d \in S |-> h[draw[d]]] \in D
    BY <1>9, <1>10
  <2>2. QED
    BY <1>14, <2>1
<1>16. \A draw \in D : \A d \in S : draw[d] \in S /\ H[draw][d] = h[draw[d]]
  BY <1>10, <1>14
<1>17. ASSUME NEW x \in D, NEW y \in D, H[x] = H[y] PROVE x = y
  <2>1. \A d \in S : x[d] = y[d]
    BY <1>9, <1>16, <1>17
  <2>2. QED
    BY <1>10, <2>1
<1>18. ASSUME NEW draw \in D PROVE t[H[draw]] <= -t[draw]
  <2>1. PICK moved \in D : moved = H[draw]
    BY <1>15
  <2>2. moved \in [S -> S] /\ draw \in [S -> S] /\ \A d \in S : draw[d] \in S /\ moved[d] = h[draw[d]]
    BY <1>10, <1>16, <2>1
  <2> DEFINE re(x) == [d \in S |-> pairs[x[d]]["reactive"]]
             lr(x) == [d \in S |-> pairs[x[d]]["log_replay"]]
  <2>3. ASSUME NEW x \in [S -> S]
        PROVE  /\ Sum(pairs, S, "reactive", x) = SumOver(re(x), S) /\ \A d \in S : re(x)[d] \in Int
               /\ Sum(pairs, S, "log_replay", x) = SumOver(lr(x), S) /\ \A d \in S : lr(x)[d] \in Int
               /\ Sum(pairs, S, "reactive", x) \in Int /\ Sum(pairs, S, "log_replay", x) \in Int
    BY <1>1, SumOfDraw DEF Modes
  <2>4. ASSUME NEW d \in S PROVE re(moved)[d] + re(draw)[d] <= lr(moved)[d] + lr(draw)[d]
    <3>1. PICK x \in S : x = draw[d] /\ moved[d] = h[x]
      BY <2>2
    <3>2. /\ re(moved)[d] = pairs[h[x]]["reactive"] /\ re(draw)[d] = pairs[x]["reactive"]
          /\ lr(moved)[d] = pairs[h[x]]["log_replay"] /\ lr(draw)[d] = pairs[x]["log_replay"]
      BY <3>1
    <3>3. QED
      BY <1>9, <3>2
  <2> HIDE DEF re, lr
  <2>5. PICK a, b, c, e : a = re(moved) /\ b = re(draw) /\ c = lr(moved) /\ e = lr(draw)
    OBVIOUS
  <2>6. /\ \A d \in S : a[d] \in Int /\ b[d] \in Int /\ c[d] \in Int /\ e[d] \in Int
        /\ \A d \in S : a[d] + b[d] <= c[d] + e[d]
    BY <2>2, <2>3, <2>4, <2>5
  <2>7. SumOver(a, S) + SumOver(b, S) <= SumOver(c, S) + SumOver(e, S)
    BY <1>3, <2>6, SumsCompare
  <2>8. PICK ra, rb, lc, le \in Int :
          /\ ra = Sum(pairs, S, "reactive", moved) /\ rb = Sum(pairs, S, "reactive", draw)
          /\ lc = Sum(pairs, S, "log_replay", moved) /\ le = Sum(pairs, S, "log_replay", draw)
    BY <2>2, <2>3
  <2>9. ra + rb <= lc + le
    BY <2>2, <2>3, <2>5, <2>7, <2>8
  <2>10. t[moved] = ra - lc /\ t[draw] = rb - le
    BY <1>1, <1>11, <2>2, <2>8, Zenon DEF ModeDifferences
  <2>11. QED
    BY <2>1, <2>8, <2>9, <2>10
<1>19. PICK den \in Nat \ {0}, num \in Nat : den = 2 * Unit /\ num = Alpha /\ num \in 0 .. den /\ num <= den - num
  BY LevelAssumption
<1>20. PICK bag : bag = DeltaBag(pairs)
  OBVIOUS
<1>21. CountedAs(bag, D, t) /\ \A draw \in D : t[draw] \in Int
  BY <1>12, <1>20
<1>22. Percentile(bag, num, den) <= 0
  BY <1>13, <1>15, <1>17, <1>18, <1>19, <1>21, LowerBoundNotAbove
<1>23. QED
  BY <1>19, <1>20, <1>22

\* What is written of an interval of the difference.
Writes(delta) ==
  IF delta.finite /\ delta.lo > 0 THEN "understates"
  ELSE IF delta.finite /\ delta.hi < 0 THEN "overstates" ELSE "null result"

\* Of exchanged modes the opposite is written.
LEMMA WritesOpposite ==
  ASSUME NEW v, IsPairing(v), NEW w, ModesExchanged(w, v),
         NEW x, x = PairedCI(v, DeltaBag(v), Alpha, Unit), NEW y, y = PairedCI(w, DeltaBag(w), Alpha, Unit)
  PROVE  /\ Writes(x) = "understates" <=> Writes(y) = "overstates"
         /\ Writes(x) = "overstates" <=> Writes(y) = "understates"
<1>1. PICK f, g : f = DeltaBag(v) /\ g = DeltaBag(w)
  OBVIOUS
<1>2. IsBag(f) /\ Mirrors(g, f)
  BY <1>1, DeltasMirror
<1>3. DOMAIN w = DOMAIN v
  BY DEF ModesExchanged
<1>4. CASE Cardinality(DOMAIN v) < MinClusters
  <2>1. x = NoInterval /\ y = NoInterval
    BY <1>3, <1>4 DEF PairedCI
  <2>2. QED
    BY <2>1 DEF Writes, NoInterval
<1>5. CASE ~(Cardinality(DOMAIN v) < MinClusters)
  <2>1. x = PercentileCI(f, Alpha, Unit) /\ y = PercentileCI(g, Alpha, Unit)
    BY <1>1, <1>3, <1>5 DEF PairedCI
  <2>2. CASE x = NoInterval
    <3>1. y = NoInterval
      BY <1>2, <2>1, <2>2, IntervalMirrors
    <3>2. QED
      BY <2>2, <3>1 DEF Writes, NoInterval
  <2>3. CASE x # NoInterval
    <3>1. PICK lo, hi \in Int : /\ lo <= hi
                                /\ x = [finite |-> TRUE, lo |-> lo, hi |-> hi]
                                /\ y = [finite |-> TRUE, lo |-> -hi, hi |-> -lo]
      BY <1>2, <2>1, <2>3, IntervalMirrors
    <3>2. /\ x.finite /\ x.lo = lo /\ x.hi = hi /\ y.finite /\ y.lo = -hi /\ y.hi = -lo
      BY <3>1
    <3>3. /\ -hi > 0 <=> hi < 0
          /\ -lo < 0 <=> lo > 0
      OBVIOUS
    <3>4. QED
      BY <3>1, <3>2, <3>3 DEF Writes
  <2>4. QED
    BY <2>2, <2>3
<1>6. QED
  BY <1>4, <1>5

\* A table of at-fault flags by scenario and agent mode.
AgentTable(rows) ==
  /\ IsFiniteSet(rows)
  /\ \A row \in rows : /\ {"scenario", "mode", "asked", "status", "v"} \subseteq DOMAIN row
                       /\ row.mode \in Modes /\ row.v \in {{}, {0}, {1}}

\* The scenarios with a result in the mode, those with one in both, and the results.
RanIn(rows, mode) == {row.scenario : row \in {row \in Measured(rows) : row.mode = mode}}
RanInBoth(rows) == RanIn(rows, "log_replay") \cap RanIn(rows, "reactive")
ResultsOf(rows, s, mode) ==
  {The(row.v) : row \in {row \in Measured(rows) : row.scenario = s /\ row.mode = mode}}

\* What the pairs of a table are.
ArePairsOf(pairs, rows) ==
  pairs = [s \in RanInBoth(rows) |-> [mode \in Modes |-> Max(ResultsOf(rows, s, mode))]]

\* PairedAgentModes gives them.
LEMMA PairsOfTable ==
  ASSUME NEW rows, AgentTable(rows)
  PROVE  ArePairsOf(PairedAgentModes(rows), rows)
<1> DEFINE of(s, mode) == {The(row.v) : row \in {row \in Measured(rows) : row.scenario = s /\ row.mode = mode}}
           ran == {s \in {row.scenario : row \in Measured(rows)} : \A mode \in Modes : of(s, mode) # {}}
<1>1. \A s, mode : of(s, mode) # {} <=> s \in RanIn(rows, mode)
  BY DEF RanIn
<1>2. ran = RanInBoth(rows)
  <2>1. \A s, mode : s \in RanIn(rows, mode) => s \in {row.scenario : row \in Measured(rows)}
    BY DEF RanIn
  <2> HIDE DEF of
  <2>2. \A s : s \in ran <=> s \in RanInBoth(rows)
    BY <1>1, <2>1 DEF RanInBoth, Modes
  <2>3. QED
    BY <2>2
<1>3. PairedAgentModes(rows) = [s \in RanInBoth(rows) |-> [mode \in Modes |-> Max(ResultsOf(rows, s, mode))]]
  <2>1. PairedAgentModes(rows) = [s \in ran |-> [mode \in Modes |-> Max(of(s, mode))]]
    BY Zenon DEF PairedAgentModes
  <2>2. \A s, mode : of(s, mode) = ResultsOf(rows, s, mode)
    BY DEF ResultsOf
  <2> HIDE DEF of, ran
  <2>3. QED
    BY <1>2, <2>1, <2>2
<1>4. QED
  BY <1>3, Zenon DEF ArePairsOf

\* A scenario fails in a mode if one of its runs there does.
LEMMA ResultsOfPairs ==
  ASSUME NEW rows, AgentTable(rows)
  PROVE  /\ IsFiniteSet(RanInBoth(rows))
         /\ \A s \in RanInBoth(rows), mode \in Modes :
              /\ Max(ResultsOf(rows, s, mode)) \in {0, 1}
              /\ Max(ResultsOf(rows, s, mode)) = 1 <=> \E row \in Measured(rows) : /\ row.scenario = s /\ row.mode = mode
                                                                                   /\ row.v = {1}
<1>1. IsFiniteSet(RanInBoth(rows))
  <2>1. IsFiniteSet(Measured(rows))
    BY FS_Subset DEF AgentTable, Measured
  <2>2. PICK M, f : M = Measured(rows) /\ f = [row \in M |-> row.scenario]
    OBVIOUS
  <2>3. IsFiniteSet({f[row] : row \in M})
    BY <2>1, <2>2, FiniteImage
  <2>4. RanInBoth(rows) \in SUBSET {f[row] : row \in M}
    BY <2>2 DEF RanInBoth, RanIn
  <2>5. QED
    BY <2>3, <2>4, FS_Subset
<1>2. ASSUME NEW s \in RanInBoth(rows), NEW mode \in Modes
      PROVE  /\ Max(ResultsOf(rows, s, mode)) \in {0, 1}
             /\ Max(ResultsOf(rows, s, mode)) = 1 <=> \E row \in Measured(rows) : /\ row.scenario = s /\ row.mode = mode
                                                                                  /\ row.v = {1}
  <2>1. PICK T : T = ResultsOf(rows, s, mode)
    OBVIOUS
  <2>2. T # {}
    <3>1. s \in RanIn(rows, mode)
      BY <1>2 DEF RanInBoth, Modes
    <3>2. QED
      BY <2>1, <3>1 DEF RanIn, ResultsOf
  <2>3. \A row \in Measured(rows) : (row.v = {0} /\ The(row.v) = 0) \/ (row.v = {1} /\ The(row.v) = 1)
    <3>1. \A row \in Measured(rows) : row.v = {0} \/ row.v = {1}
      BY DEF Measured, AgentTable
    <3>2. The({0}) = 0 /\ The({1}) = 1
      BY DEF The
    <3>3. QED
      BY <3>1, <3>2
  <2>4. T \subseteq {0, 1}
    BY <2>1, <2>3 DEF ResultsOf
  <2>5. 1 \in T <=> \E row \in Measured(rows) : row.scenario = s /\ row.mode = mode /\ row.v = {1}
    <3>1. ASSUME 1 \in T PROVE \E row \in Measured(rows) : row.scenario = s /\ row.mode = mode /\ row.v = {1}
      <4>1. PICK row \in Measured(rows) : row.scenario = s /\ row.mode = mode /\ The(row.v) = 1
        BY <2>1, <3>1 DEF ResultsOf
      <4>2. row.v = {1}
        BY <2>3, <4>1
      <4>3. QED
        BY <4>1, <4>2
    <3>2. ASSUME NEW row \in Measured(rows), row.scenario = s, row.mode = mode, row.v = {1} PROVE 1 \in T
      <4>1. The(row.v) = 1
        BY <2>3, <3>2
      <4>2. The(row.v) \in T
        BY <2>1, <3>2 DEF ResultsOf
      <4>3. QED
        BY <4>1, <4>2
    <3>3. QED
      BY <3>1, <3>2
  <2>6. PICK b \in T : \A x \in T : x <= b
    <3>1. CASE 1 \in T
      <4>1. \A x \in T : x <= 1
        BY <2>4
      <4>2. QED
        BY <3>1, <4>1
    <3>2. CASE 1 \notin T
      <4>1. 0 \in T /\ \A x \in T : x <= 0
        <5>1. \A x \in T : x = 0
          BY <2>4, <3>2
        <5>2. QED
          BY <2>2, <5>1
      <4>2. QED
        BY <4>1
    <3>3. QED
      BY <3>1, <3>2
  <2>7. Max(T) \in T /\ \A x \in T : x <= Max(T)
    BY <2>6 DEF Max
  <2>8. Max(T) \in {0, 1} /\ (Max(T) = 1 <=> 1 \in T)
    <3>1. PICK m : m = Max(T)
      OBVIOUS
    <3>2. m \in {0, 1} /\ (1 \in T => 1 <= m) /\ m \in T
      BY <2>4, <2>7, <3>1
    <3>3. 1 \in T => m = 1
      BY <3>2
    <3>4. QED
      BY <3>1, <3>2, <3>3
  <2>9. QED
    BY <2>1, <2>5, <2>8
<1>3. QED
  BY <1>1, <1>2

\* The pairs of a table are those of its rows of scenarios that ran in both modes.
LEMMA PairsOfPaired ==
  ASSUME NEW rows, AgentTable(rows), NEW paired, paired = {row \in Measured(rows) : row.scenario \in RanInBoth(rows)}
  PROVE  PairedAgentModes(paired) = PairedAgentModes(rows)
<1>1. AgentTable(paired)
  <2>1. paired \in SUBSET rows
    BY DEF Measured
  <2>2. IsFiniteSet(paired)
    BY <2>1, FS_Subset DEF AgentTable
  <2>3. QED
    BY <2>1, <2>2 DEF AgentTable
<1>2. \A row : row \in Measured(paired) <=> row \in Measured(rows) /\ row.scenario \in RanInBoth(rows)
  BY DEF Measured
<1>3. \A s, mode : s \in RanInBoth(rows) => ResultsOf(paired, s, mode) = ResultsOf(rows, s, mode)
  BY <1>2 DEF ResultsOf
<1>4. RanInBoth(paired) = RanInBoth(rows)
  <2>1. \A s, mode : s \in RanIn(paired, mode) <=> s \in RanIn(rows, mode) /\ s \in RanInBoth(rows)
    BY <1>2 DEF RanIn
  <2>2. QED
    BY <2>1 DEF RanInBoth
<1>5. /\ PairedAgentModes(rows) = [s \in RanInBoth(rows) |-> [mode \in Modes |-> Max(ResultsOf(rows, s, mode))]]
      /\ PairedAgentModes(paired) = [s \in RanInBoth(paired) |-> [mode \in Modes |-> Max(ResultsOf(paired, s, mode))]]
  <2>1. AgentTable(rows)
    OBVIOUS
  <2>2. ArePairsOf(PairedAgentModes(rows), rows) /\ ArePairsOf(PairedAgentModes(paired), paired)
    BY <1>1, <2>1, PairsOfTable
  <2>3. QED
    BY <2>2, Zenon DEF ArePairsOf
<1>6. PICK S : S = RanInBoth(rows)
  OBVIOUS
<1>7. \A s \in S : [mode \in Modes |-> Max(ResultsOf(paired, s, mode))] = [mode \in Modes |-> Max(ResultsOf(rows, s, mode))]
  <2>1. \A s \in S : \A mode : ResultsOf(paired, s, mode) = ResultsOf(rows, s, mode)
    BY <1>3, <1>6
  <2>2. QED
    BY <2>1, Zenon
<1>8. PairedAgentModes(paired) = [s \in S |-> [mode \in Modes |-> Max(ResultsOf(paired, s, mode))]]
  BY <1>4, <1>5, <1>6, Zenon
<1>9. QED
  BY <1>5, <1>6, <1>7, <1>8, Zenon

\* Of a table with the modes exchanged they are exchanged.
LEMMA PairsExchanged ==
  ASSUME NEW rows, AgentTable(rows), NEW exchanged,
         exchanged = {[row EXCEPT !.mode = IF @ = "reactive" THEN "log_replay" ELSE "reactive"] : row \in rows}
  PROVE  /\ ModesExchanged(PairedAgentModes(exchanged), PairedAgentModes(rows))
         /\ RanInBoth(exchanged) = RanInBoth(rows)
<1> DEFINE other(mode) == IF mode = "reactive" THEN "log_replay" ELSE "reactive"
           turned(row) == [row EXCEPT !.mode = other(row.mode)]
<1>1. exchanged = {turned(row) : row \in rows}
  OBVIOUS
<1>2. \A row \in rows : /\ DOMAIN turned(row) = DOMAIN row
                        /\ turned(row).scenario = row.scenario /\ turned(row).mode = other(row.mode)
                        /\ turned(row).asked = row.asked /\ turned(row).status = row.status
                        /\ turned(row).v = row.v
  BY DEF AgentTable
<1> HIDE DEF turned
<1>3. \A row \in rows : other(row.mode) \in Modes
  BY DEF Modes
<1>4. AgentTable(exchanged)
  <2>1. PICK f : f = [row \in rows |-> turned(row)]
    OBVIOUS
  <2>2. IsFiniteSet({f[row] : row \in rows})
    BY FiniteImage DEF AgentTable
  <2>3. exchanged = {f[row] : row \in rows}
    BY <1>1, <2>1
  <2>4. ASSUME NEW r \in exchanged
        PROVE  /\ {"scenario", "mode", "asked", "status", "v"} \subseteq DOMAIN r
               /\ r.mode \in Modes /\ r.v \in {{}, {0}, {1}}
    <3>1. PICK row \in rows : r = turned(row)
      BY <1>1
    <3>2. QED
      BY <1>2, <1>3, <3>1 DEF AgentTable
  <2>5. QED
    BY <2>2, <2>3, <2>4 DEF AgentTable
<1>5. \A row \in rows : turned(row) \in Measured(exchanged) <=> row \in Measured(rows)
  BY <1>1, <1>2 DEF Measured
<1>6. \A r \in Measured(exchanged) : \E row \in Measured(rows) : r = turned(row)
  <2> TAKE r \in Measured(exchanged)
  <2>1. PICK row \in rows : r = turned(row)
    BY <1>1 DEF Measured
  <2>2. QED
    BY <1>5, <2>1
<1>7. ASSUME NEW m, NEW o, {m, o} = Modes, NEW s
      PROVE  /\ ResultsOf(exchanged, s, m) = ResultsOf(rows, s, o)
             /\ s \in RanIn(exchanged, m) <=> s \in RanIn(rows, o)
  <2>1. \A row \in Measured(rows) : /\ turned(row).mode = m <=> row.mode = o
                                    /\ turned(row).scenario = row.scenario /\ turned(row).v = row.v
                                    /\ turned(row) \in Measured(exchanged)
    <3>1. \A row \in Measured(rows) : row \in rows /\ row.mode \in Modes
      BY DEF Measured, AgentTable
    <3>2. m # o /\ (m = "reactive" \/ m = "log_replay") /\ (o = "reactive" \/ o = "log_replay")
      BY <1>7 DEF Modes
    <3>3. \A mode \in Modes : other(mode) = m <=> mode = o
      BY <3>2 DEF Modes
    <3>4. QED
      BY <1>2, <1>5, <3>1, <3>3
  <2>2. ASSUME NEW x \in ResultsOf(exchanged, s, m) PROVE x \in ResultsOf(rows, s, o)
    <3>1. PICK r \in Measured(exchanged) : r.scenario = s /\ r.mode = m /\ x = The(r.v)
      BY <2>2 DEF ResultsOf
    <3>2. PICK row \in Measured(rows) : r = turned(row)
      BY <1>6, <3>1
    <3>3. row.scenario = s /\ row.mode = o /\ x = The(row.v)
      BY <2>1, <3>1, <3>2
    <3>4. QED
      BY <3>3 DEF ResultsOf
  <2>3. ASSUME NEW x \in ResultsOf(rows, s, o) PROVE x \in ResultsOf(exchanged, s, m)
    <3>1. PICK row \in Measured(rows) : row.scenario = s /\ row.mode = o /\ x = The(row.v)
      BY <2>3 DEF ResultsOf
    <3>2. PICK r \in Measured(exchanged) : r = turned(row)
      BY <2>1
    <3>3. r.scenario = s /\ r.mode = m /\ x = The(r.v)
      BY <2>1, <3>1, <3>2
    <3>4. QED
      BY <3>3 DEF ResultsOf
  <2>4. ResultsOf(exchanged, s, m) = ResultsOf(rows, s, o)
    BY <2>2, <2>3
  <2>5. \A T : s \in RanIn(T, m) <=> ResultsOf(T, s, m) # {}
    BY DEF RanIn, ResultsOf
  <2>6. \A T : s \in RanIn(T, o) <=> ResultsOf(T, s, o) # {}
    BY DEF RanIn, ResultsOf
  <2>7. QED
    BY <2>4, <2>5, <2>6
<1>8. \A s : /\ ResultsOf(exchanged, s, "reactive") = ResultsOf(rows, s, "log_replay")
             /\ ResultsOf(exchanged, s, "log_replay") = ResultsOf(rows, s, "reactive")
             /\ s \in RanIn(exchanged, "reactive") <=> s \in RanIn(rows, "log_replay")
             /\ s \in RanIn(exchanged, "log_replay") <=> s \in RanIn(rows, "reactive")
  <2>1. {"reactive", "log_replay"} = Modes /\ {"log_replay", "reactive"} = Modes
    BY DEF Modes
  <2>2. QED
    BY <1>7, <2>1
<1>9. RanInBoth(exchanged) = RanInBoth(rows)
  BY <1>8 DEF RanInBoth
<1>10. PICK S : S = RanInBoth(rows) /\ S = RanInBoth(exchanged)
  BY <1>9
<1>11. PICK v, w : v = PairedAgentModes(rows) /\ w = PairedAgentModes(exchanged)
  OBVIOUS
<1>12. /\ v = [s \in S |-> [mode \in Modes |-> Max(ResultsOf(rows, s, mode))]]
       /\ w = [s \in S |-> [mode \in Modes |-> Max(ResultsOf(exchanged, s, mode))]]
  <2>1. AgentTable(rows)
    OBVIOUS
  <2>2. ArePairsOf(v, rows) /\ ArePairsOf(w, exchanged)
    BY <1>4, <1>11, <2>1, PairsOfTable
  <2>3. QED
    BY <1>10, <2>2, Zenon DEF ArePairsOf
<1>13. \A s \in S, mode \in Modes : v[s][mode] = Max(ResultsOf(rows, s, mode)) /\ w[s][mode] = Max(ResultsOf(exchanged, s, mode))
  BY <1>12
<1>14. DOMAIN v = S /\ DOMAIN w = S
  BY <1>12
<1>15. \A s \in S : w[s]["reactive"] = v[s]["log_replay"] /\ w[s]["log_replay"] = v[s]["reactive"]
  <2>1. "reactive" \in Modes /\ "log_replay" \in Modes
    BY DEF Modes
  <2>2. QED
    BY <1>8, <1>13, <2>1, Zenon
<1>16. QED
  BY <1>9, <1>11, <1>14, <1>15 DEF ModesExchanged

\* What is written about the pairs.
WrittenOf(pairs, result) ==
  /\ DOMAIN pairs = {} => result = <<>> /\ Headline(result) = "not computed"
  /\ DOMAIN pairs # {} => /\ result # <<>> /\ result[1].n_paired = Cardinality(DOMAIN pairs)
                          /\ Headline(result) = Writes(PairedCI(pairs, DeltaBag(pairs), Alpha, Unit))

\* The headline of a comparison is what is written about its pairs.
LEMMA ComparisonWrites ==
  ASSUME NEW rows, NEW pairs, pairs = PairedAgentModes(rows),
         NEW result, result = LogReplayVsReactive(rows, Alpha, Unit)
  PROVE  WrittenOf(pairs, result)
<1>1. CASE DOMAIN pairs = {}
  <2>1. result = <<>>
    BY <1>1 DEF LogReplayVsReactive
  <2>2. QED
    BY <1>1, <2>1 DEF Headline, WrittenOf
<1>2. CASE DOMAIN pairs # {}
  <2>1. PICK n, delta, ratio : /\ n = Cardinality(DOMAIN pairs)
                               /\ delta = PairedCI(pairs, DeltaBag(pairs), Alpha, Unit)
                               /\ ratio = PairedCI(pairs, LogRatioBag(pairs), Alpha, Unit)
    OBVIOUS
  <2>2. result = <<[n_paired |-> n, delta |-> delta, ratio |-> ratio]>>
    BY <1>2, <2>1, Zenon DEF LogReplayVsReactive
  <2>3. result # <<>> /\ result[1].n_paired = n /\ result[1].delta = delta
    BY <2>2
  <2>4. Headline(result) = Writes(delta)
    BY <2>3, Zenon DEF Headline, Writes
  <2>5. QED
    BY <1>2, <2>1, <2>3, <2>4, Zenon DEF WrittenOf
<1>3. QED
  BY <1>1, <1>2

\* Of the paired rows the comparison is the same, it counts the scenarios that ran in both
\* modes, of the exchanged modes the opposite is written, and "understates" is written only
\* where more scenarios fail against reactive agents.
SaysHonestly(result, turned, paired, both) ==
  /\ LogReplayVsReactive(paired, Alpha, Unit) = result
  /\ result # <<>> => result[1].n_paired = Cardinality(both)
  /\ Headline(turned) = CASE Headline(result) = "understates" -> "overstates"
                          [] Headline(result) = "overstates" -> "understates"
                          [] OTHER -> Headline(result)
  /\ Headline(result) \in {"understates", "overstates", "null result", "not computed"}
  /\ Headline(result) = "understates" =>
       Cardinality({row.scenario : row \in {row \in paired : row.mode = "reactive" /\ row.v = {1}}})
         > Cardinality({row.scenario : row \in {row \in paired : row.mode = "log_replay" /\ row.v = {1}}})

\* So does the comparison of a table.
LEMMA ComparisonHonest ==
  ASSUME NEW rows, AgentTable(rows),
         NEW paired, paired = {row \in Measured(rows) : row.scenario \in RanInBoth(rows)},
         NEW exchanged,
         exchanged = {[row EXCEPT !.mode = IF @ = "reactive" THEN "log_replay" ELSE "reactive"] : row \in rows},
         NEW result, result = LogReplayVsReactive(rows, Alpha, Unit),
         NEW turned, turned = LogReplayVsReactive(exchanged, Alpha, Unit)
  PROVE  SaysHonestly(result, turned, paired, RanInBoth(rows))
<1>1. PairedAgentModes(paired) = PairedAgentModes(rows)
  BY PairsOfPaired
<1>2. LogReplayVsReactive(paired, Alpha, Unit) = result
  BY <1>1, Zenon DEF LogReplayVsReactive
<1>3. PICK v, w : v = PairedAgentModes(rows) /\ w = PairedAgentModes(exchanged)
  OBVIOUS
<1>4. PICK S : S = RanInBoth(rows)
  OBVIOUS
<1>5. v = [s \in S |-> [mode \in Modes |-> Max(ResultsOf(rows, s, mode))]]
  BY <1>3, <1>4, PairsOfTable, Zenon DEF ArePairsOf
<1>6. DOMAIN v = S /\ \A s \in S, mode \in Modes : v[s][mode] = Max(ResultsOf(rows, s, mode))
  BY <1>5
<1>7. /\ IsFiniteSet(S)
      /\ \A s \in S, mode \in Modes :
           /\ v[s][mode] \in {0, 1}
           /\ v[s][mode] = 1 <=> \E row \in Measured(rows) : row.scenario = s /\ row.mode = mode /\ row.v = {1}
  BY <1>4, <1>6, ResultsOfPairs
<1>8. IsPairing(v)
  BY <1>6, <1>7 DEF IsPairing
<1>9. ModesExchanged(w, v)
  BY <1>3, PairsExchanged
<1>10. DOMAIN w = S
  BY <1>6, <1>9 DEF ModesExchanged
<1>11. PICK x, y : x = PairedCI(v, DeltaBag(v), Alpha, Unit) /\ y = PairedCI(w, DeltaBag(w), Alpha, Unit)
  OBVIOUS
<1>12. /\ S = {} => result = <<>> /\ Headline(result) = "not computed" /\ Headline(turned) = "not computed"
       /\ S # {} => /\ result # <<>> /\ result[1].n_paired = Cardinality(S)
                    /\ Headline(result) = Writes(x) /\ Headline(turned) = Writes(y)
  <2>1. WrittenOf(v, result) /\ WrittenOf(w, turned)
    BY <1>3, ComparisonWrites
  <2>2. QED
    BY <1>6, <1>10, <1>11, <2>1 DEF WrittenOf
<1>13. /\ Writes(x) = "understates" <=> Writes(y) = "overstates"
       /\ Writes(x) = "overstates" <=> Writes(y) = "understates"
       /\ Writes(x) \in {"understates", "overstates", "null result"}
       /\ Writes(y) \in {"understates", "overstates", "null result"}
  <2>1. \A delta : Writes(delta) \in {"understates", "overstates", "null result"}
    BY DEF Writes
  <2>2. /\ Writes(x) = "understates" <=> Writes(y) = "overstates"
        /\ Writes(x) = "overstates" <=> Writes(y) = "understates"
    BY <1>8, <1>9, <1>11, WritesOpposite
  <2>3. QED
    BY <2>1, <2>2
<1>14. /\ Headline(turned) = CASE Headline(result) = "understates" -> "overstates"
                                [] Headline(result) = "overstates" -> "understates"
                                [] OTHER -> Headline(result)
       /\ Headline(result) \in {"understates", "overstates", "null result", "not computed"}
  <2>1. CASE S = {}
    BY <1>12, <2>1
  <2>2. CASE S # {}
    BY <1>12, <1>13, <2>2
  <2>3. QED
    BY <2>1, <2>2
<1>15. ASSUME Headline(result) = "understates"
       PROVE  Cardinality({row.scenario : row \in {row \in paired : row.mode = "reactive" /\ row.v = {1}}})
                > Cardinality({row.scenario : row \in {row \in paired : row.mode = "log_replay" /\ row.v = {1}}})
  <2> DEFINE F(mode) == {row.scenario : row \in {row \in paired : row.mode = mode /\ row.v = {1}}}
  <2>1. S # {} /\ Writes(x) = "understates"
    BY <1>12, <1>15
  <2>2. x.finite /\ x.lo > 0
    BY <2>1 DEF Writes
  <2>3. x.lo = Percentile(DeltaBag(v), Alpha, 2 * Unit)
    <3>1. x # NoInterval
      BY <2>2 DEF NoInterval
    <3>2. x = PercentileCI(DeltaBag(v), Alpha, Unit) /\ Replicates(DeltaBag(v)) # 0
      BY <1>11, <3>1 DEF PairedCI, PercentileCI
    <3>3. QED
      BY <3>2 DEF PercentileCI
  <2>4. ASSUME NEW mode \in Modes
        PROVE  /\ F(mode) = {s \in S : v[s][mode] = 1}
               /\ Cardinality(F(mode)) \in Nat
    <3>1. \A s : s \in F(mode) <=> s \in S /\ \E row \in Measured(rows) : row.scenario = s /\ row.mode = mode /\ row.v = {1}
      BY <1>4
    <3>2. F(mode) = {s \in S : v[s][mode] = 1}
      <4> HIDE DEF F
      <4>1. QED
        BY <1>7, <3>1
    <3>3. F(mode) \in SUBSET S
      <4> HIDE DEF F
      <4>1. QED
        BY <3>2
    <3>4. QED
      BY <1>7, <3>2, <3>3, FS_Subset, FS_CardinalityType
  <2> HIDE DEF F
  <2>5. PICK r, l \in Nat : r = Cardinality(F("reactive")) /\ l = Cardinality(F("log_replay"))
    BY <2>4 DEF Modes
  <2>6. ASSUME r <= l PROVE FALSE
    <3>1. F("reactive") = {s \in S : v[s]["reactive"] = 1} /\ F("log_replay") = {s \in S : v[s]["log_replay"] = 1}
      BY <2>4 DEF Modes
    <3>2. Cardinality({s \in DOMAIN v : v[s]["reactive"] = 1}) <= Cardinality({s \in DOMAIN v : v[s]["log_replay"] = 1})
      BY <1>6, <2>5, <2>6, <3>1
    <3>3. DOMAIN v # {} /\ \A s \in DOMAIN v, mode \in Modes : v[s][mode] \in {0, 1}
      BY <1>6, <1>7, <2>1
    <3>4. Percentile(DeltaBag(v), Alpha, 2 * Unit) <= 0
      BY <1>8, <3>2, <3>3, LowerBoundOfDeltas
    <3>5. IsBag(DeltaBag(v)) /\ Percentile(DeltaBag(v), Alpha, 2 * Unit) > 0
      BY <1>8, <1>9, <2>2, <2>3, DeltasMirror
    <3>6. Percentile(DeltaBag(v), Alpha, 2 * Unit) \in Int
      <4>1. PICK f : f = DeltaBag(v)
        OBVIOUS
      <4>2. IsBag(f) /\ PercentileCI(f, Alpha, Unit) # NoInterval
        <5>1. x # NoInterval
          BY <2>2 DEF NoInterval
        <5>2. QED
          BY <1>11, <3>5, <4>1, <5>1 DEF PairedCI
      <4>3. Replicates(f) # 0 /\ Replicates(f) \in Nat
        BY <4>2, AtMostGrows DEF PercentileCI
      <4>4. PICK den \in Nat \ {0}, num \in Nat : den = 2 * Unit /\ num = Alpha /\ num \in 0 .. den
        BY LevelAssumption
      <4>5. num \in num .. den
        BY <4>4
      <4>6. Percentile(f, num, den) \in Int
        BY <4>2, <4>3, <4>4, <4>5, PercentileAscends
      <4>7. QED
        BY <4>1, <4>4, <4>6
    <3>7. QED
      BY <3>4, <3>5, <3>6
  <2>7. r > l
    BY <2>5, <2>6
  <2>8. QED
    BY <2>5, <2>7 DEF F
<1>16. QED
  BY <1>2, <1>4, <1>12, <1>14, <1>15 DEF SaysHonestly

\* Whatever finite table of flags is compared, what is said rests on the scenarios measured in
\* both modes only, exchanging the modes exchanges what is said, and neither is said against
\* the observed difference.
THEOREM PairingHonest == CallSpec => []PairingIsHonest
<1>1. CallInv => PairingIsHonest
  <2> SUFFICES ASSUME CallInv, Answered("log_replay_vs_reactive") PROVE PairingIsHonest
    BY DEF PairingIsHonest
  <2> DEFINE rows == call.arg
             counts(row) == row.asked /\ row.status = "ok" /\ row.v # {}
             in(mode) == {row.scenario : row \in {row \in rows : counts(row) /\ row.mode = mode}}
             both == in("log_replay") \cap in("reactive")
             paired == {row \in rows : counts(row) /\ row.scenario \in both}
             other(mode) == IF mode = "reactive" THEN "log_replay" ELSE "reactive"
             exchanged == {[row EXCEPT !.mode = other(@)] : row \in rows}
             failures(mode) == Cardinality({row.scenario : row \in {row \in paired : row.mode = mode /\ row.v = {1}}})
             opposite == [h \in {"understates", "overstates", "null result", "not computed"} |->
                            CASE h = "understates" -> "overstates"
                              [] h = "overstates" -> "understates"
                              [] OTHER -> h]
             said == Headline(answer[1])
  <2>1. rows \in AgentRows /\ answer[1] = LogReplayVsReactive(rows, Alpha, Unit)
    BY Zenon DEF CallInv, Answered, FromItsTables, Answers
  <2>2. AgentTable(rows)
    BY <2>1, AlgorithmsAssumption DEF AgentTable
  <2>3. \A mode : in(mode) = RanIn(rows, mode)
    BY DEF RanIn, Measured
  <2>4. both = RanInBoth(rows)
    <3> HIDE DEF in
    <3>1. QED
      BY <2>3 DEF RanInBoth
  <2>5. paired = {row \in Measured(rows) : row.scenario \in RanInBoth(rows)}
    <3> HIDE DEF both
    <3>1. QED
      BY <2>4 DEF Measured
  <2> HIDE DEF rows, both, paired
  <2>6. PICK result, turned : result = answer[1] /\ turned = LogReplayVsReactive(exchanged, Alpha, Unit)
    OBVIOUS
  <2>7. exchanged = {[row EXCEPT !.mode = IF @ = "reactive" THEN "log_replay" ELSE "reactive"] : row \in rows}
    OBVIOUS
  <2> HIDE DEF exchanged
  <2>8. SaysHonestly(result, turned, paired, both)
    BY <2>1, <2>2, <2>4, <2>5, <2>6, <2>7, ComparisonHonest
  <2>9. Headline(turned) = opposite[said]
    BY <2>6, <2>8 DEF SaysHonestly
  <2> HIDE DEF opposite
  <2>10. /\ LogReplayVsReactive(paired, Alpha, Unit) = answer[1]
         /\ answer[1] # <<>> => answer[1][1].n_paired = Cardinality(both)
         /\ Headline(LogReplayVsReactive(exchanged, Alpha, Unit)) = opposite[said]
         /\ said = "understates" => failures("reactive") > failures("log_replay")
    BY <2>6, <2>8, <2>9 DEF SaysHonestly
  <2> HIDE DEF failures
  <2>11. QED
    BY <2>10, Zenon DEF PairingIsHonest, rows, both, paired, exchanged, failures, opposite
<1>2. QED
  BY <1>1, CallInvAlways, PTL

-----------------------------------------------------------------------------
(* Groups of the unknown.                                                  *)

\* The buckets of the maneuvers share out the measured scenarios and the failures among
\* them, and the unclassified ones are a bucket of their own.
LEMMA ManeuversShareOut ==
  ASSUME NEW rows, IsFiniteSet(rows), NEW buckets, buckets = PerManeuver(rows),
         \A row \in rows : /\ \A x, y \in row.features : x = y
                           /\ \A cell \in row.features : "(null)" \notin cell
  PROVE  LET measured == {row \in rows : row.features # {} /\ row.target # {}}
             unknown  == {row \in measured : row.features = {{}}}
             n(b)     == IF b \in DOMAIN buckets THEN buckets[b].n ELSE 0
         IN /\ n("(null)") = Cardinality(unknown)
            /\ MapThenSumSet(n, DOMAIN buckets) = Cardinality(measured)
            /\ MapThenSumSet(LAMBDA b : buckets[b].k, DOMAIN buckets)
                 = Cardinality({row \in measured : row.target = {1}})
<1> DEFINE measured == {row \in rows : row.features # {} /\ row.target # {}}
           failed == {row \in measured : row.target = {1}}
           unknown == {row \in measured : row.features = {{}}}
           n(b) == IF b \in DOMAIN buckets THEN buckets[b].n ELSE 0
           f == [row \in measured |-> Bucket(The(row.features))]
           B == {f[row] : row \in measured}
           pick(s) == CHOOSE x \in s : TRUE
<1>1. /\ IsFiniteSet(measured) /\ IsFiniteSet(failed) /\ IsFiniteSet(B)
      /\ \A row \in measured : f[row] \in B
      /\ \A row \in failed : f[row] \in B
  <2>1. IsFiniteSet(measured) /\ IsFiniteSet(failed)
    BY FS_Subset
  <2> HIDE DEF measured
  <2>2. IsFiniteSet(B)
    <3> HIDE DEF f
    <3>1. QED
      BY <2>1, FiniteImage
  <2>3. QED
    BY <2>1, <2>2
<1>2. /\ DOMAIN buckets = B
      /\ \A b \in B : /\ buckets[b].n = Cardinality({row \in measured : f[row] = b})
                      /\ buckets[b].k = Cardinality({row \in failed : f[row] = b})
  <2> DEFINE of(b) == {row \in measured : Bucket(The(row.features)) = b}
             line(b) == [n |-> Cardinality(of(b)), k |-> Cardinality({row \in of(b) : row.target = {1}})]
             C == {Bucket(The(row.features)) : row \in measured}
  <2>1. buckets = [b \in C |-> line(b)]
    BY Zenon DEF PerManeuver
  <2>2. C = B
    BY Zenon
  <2>3. \A b : of(b) = {row \in measured : f[row] = b}
    BY Zenon
  <2>4. \A b : {row \in of(b) : row.target = {1}} = {row \in failed : f[row] = b}
    <3> TAKE b
    <3>1. \A row : row \in of(b) <=> row \in measured /\ f[row] = b
      BY <2>3, Zenon
    <3>2. \A row : row \in failed <=> row \in measured /\ row.target = {1}
      OBVIOUS
    <3> HIDE DEF of, failed
    <3>3. QED
      BY <3>1, <3>2, Zenon
  <2>5. \A b : line(b).n = Cardinality(of(b)) /\ line(b).k = Cardinality({row \in of(b) : row.target = {1}})
    OBVIOUS
  <2> HIDE DEF line, of, C, B, f, measured, failed
  <2>6. buckets = [b \in B |-> line(b)]
    BY <2>1, <2>2, Zenon
  <2>7. /\ DOMAIN buckets = B
        /\ \A b \in B : buckets[b] = line(b)
    BY <2>6
  <2>8. \A b \in B : /\ buckets[b].n = Cardinality({row \in measured : f[row] = b})
                     /\ buckets[b].k = Cardinality({row \in failed : f[row] = b})
    <3> TAKE b \in B
    <3>1. buckets[b] = line(b)
      BY <2>7
    <3>2. QED
      BY <3>1, <2>3, <2>4, <2>5, Zenon
  <2>9. QED
    BY <2>7, <2>8
<1>3. n("(null)") = Cardinality(unknown)
  <2>1. \A row \in measured : f[row] = "(null)" <=> row.features = {{}}
    <3> TAKE row \in measured
    <3>1. The(row.features) \in row.features
      BY DEF The
    <3>2. row.features = {The(row.features)}
      BY <3>1
    <3>3. f[row] = Bucket(The(row.features))
      OBVIOUS
    <3>4. The(row.features) # {} => The(The(row.features)) \in The(row.features)
      BY DEF The
    <3>5. "(null)" \notin The(row.features)
      BY <3>1
    <3>6. Bucket(The(row.features)) = "(null)" <=> The(row.features) = {}
      BY <3>4, <3>5, Zenon DEF Bucket
    <3>7. QED
      BY <3>2, <3>3, <3>6, Zenon
  <2>2. {row \in measured : f[row] = "(null)"} = unknown
    BY <2>1, Zenon
  <2>3. CASE "(null)" \in B
    <3> HIDE DEF B, f, measured, unknown
    <3>1. n("(null)") = buckets["(null)"].n
      BY <1>2, <2>3, Zenon
    <3>2. buckets["(null)"].n = Cardinality({row \in measured : f[row] = "(null)"})
      BY <1>2, <2>3, Zenon
    <3>3. QED
      BY <2>2, <3>1, <3>2, Zenon
  <2>4. CASE "(null)" \notin B
    <3>1. unknown = {}
      BY <2>1, <2>4, Zenon
    <3> HIDE DEF B, f, measured, unknown
    <3>2. n("(null)") = 0
      BY <1>2, <2>4, Zenon
    <3>3. QED
      BY <3>1, <3>2, FS_EmptySet
  <2>5. QED
    BY <2>3, <2>4
<1> DEFINE hn == [b \in B |-> Cardinality({row \in measured : f[row] = b})]
           hk == [b \in B |-> Cardinality({row \in failed : f[row] = b})]
           sumn(g) == [s \in SUBSET B |-> IF s = {} THEN 0 ELSE n(pick(s)) + g[s \ {pick(s)}]]
           sumk(g) == [s \in SUBSET B |-> IF s = {} THEN 0 ELSE buckets[pick(s)].k + g[s \ {pick(s)}]]
           foldn(g) == [s \in SUBSET B |-> IF s = {} THEN 0 ELSE hn[pick(s)] + g[s \ {pick(s)}]]
           foldk(g) == [s \in SUBSET B |-> IF s = {} THEN 0 ELSE hk[pick(s)] + g[s \ {pick(s)}]]
<1>4. /\ MapThenSumSet(n, B) = (CHOOSE g : g = sumn(g))[B]
      /\ MapThenSumSet(LAMBDA b : buckets[b].k, B) = (CHOOSE g : g = sumk(g))[B]
  <2> HIDE DEF B
  <2>1. QED
    BY Zenon DEF MapThenSumSet, MapThenFoldSet
<1>5. /\ SumOver(hn, B) = (CHOOSE g : g = foldn(g))[B]
      /\ SumOver(hk, B) = (CHOOSE g : g = foldk(g))[B]
  <2> HIDE DEF B, hn, hk
  <2>1. QED
    BY Zenon DEF SumOver, MapThenSumSet, MapThenFoldSet
<1>6. \A s \in SUBSET B : s # {} => pick(s) \in B
  <2> HIDE DEF B
  <2>1. QED
    OBVIOUS
<1>7. \A b \in B : hn[b] = n(b) /\ hk[b] = buckets[b].k
  <2> HIDE DEF B, f, measured, failed
  <2>1. QED
    BY <1>2, Zenon
<1>8. (CHOOSE g : g = sumn(g)) = (CHOOSE g : g = foldn(g))
  <2> HIDE DEF B, n, hn, pick
  <2>1. \A s \in SUBSET B : s # {} => n(pick(s)) = hn[pick(s)]
    BY <1>6, <1>7
  <2>2. \A g : sumn(g) = foldn(g)
    BY <2>1, Zenon
  <2> HIDE DEF sumn, foldn
  <2>3. QED
    BY <2>2
<1>9. (CHOOSE g : g = sumk(g)) = (CHOOSE g : g = foldk(g))
  <2> HIDE DEF B, hk, pick
  <2>1. \A s \in SUBSET B : s # {} => buckets[pick(s)].k = hk[pick(s)]
    BY <1>6, <1>7
  <2>2. \A g : sumk(g) = foldk(g)
    BY <2>1, Zenon
  <2> HIDE DEF sumk, foldk
  <2>3. QED
    BY <2>2
<1>10. SumOver(hn, B) = Cardinality(measured) /\ SumOver(hk, B) = Cardinality(failed)
  <2> HIDE DEF B, f, measured, failed
  <2>1. SumOver(hn, B) = Cardinality(measured)
    BY <1>1, GroupsShareOut
  <2>2. SumOver(hk, B) = Cardinality(failed)
    BY <1>1, GroupsShareOut
  <2>3. QED
    BY <2>1, <2>2
<1> HIDE DEF B, hn, hk, sumn, sumk, foldn, foldk, f
<1>11. /\ MapThenSumSet(n, B) = Cardinality(measured)
       /\ MapThenSumSet(LAMBDA b : buckets[b].k, B) = Cardinality(failed)
  BY <1>4, <1>5, <1>8, <1>9, <1>10, Zenon
<1>12. QED
  BY <1>2, <1>3, <1>11, Zenon

\* Latencies are aggregated over all the timed rows or not at all, and the aggregate lies
\* between those of the fastest and of the slowest row.
LEMMA LatenciesOfOneLabel ==
  ASSUME NEW rows, IsFiniteSet(rows),
         \A row \in rows : row.n_cycles \in Nat /\ row.plan_us_mean \in Nat
  PROVE  LET timed == {row \in rows : row.status = "ok" /\ row.n_cycles > 0}
             result == LatencyAggregates(rows)
         IN \/ result = <<>> /\ (timed = {} \/ \E x, y \in timed : x.hardware # y.hardware)
            \/ /\ result # <<>>
               /\ \A row \in timed : row.hardware = result[1].hardware
               /\ result[1].n_scenarios = Cardinality(timed)
               /\ \E x, y \in timed :
                    /\ x.plan_us_mean * result[1].n_cycles <= result[1].total_us
                    /\ result[1].total_us <= y.plan_us_mean * result[1].n_cycles
<1> DEFINE timed == {row \in rows : row.status = "ok" /\ row.n_cycles > 0}
           result == LatencyAggregates(rows)
           groups == HardwareGroups(rows)
           cycles == [row \in timed |-> row.n_cycles]
           us == [row \in timed |-> row.plan_us_mean * row.n_cycles]
           pick(s) == CHOOSE x \in s : TRUE
           line == [hardware    |-> The(groups),
                    n_scenarios |-> Cardinality({row \in timed : row.hardware \in groups}),
                    n_cycles    |-> MapThenSumSet(LAMBDA row : row.n_cycles, timed),
                    total_us    |-> MapThenSumSet(LAMBDA row : row.plan_us_mean * row.n_cycles, timed),
                    max_us      |-> Max({row.plan_us_max : row \in timed})]
<1>1. groups = {row.hardware : row \in timed}
  BY Zenon DEF HardwareGroups, Timed
<1>2. result = IF Cardinality(groups) # 1 THEN <<>> ELSE <<line>>
  <2> HIDE DEF groups
  <2>1. QED
    BY Zenon DEF LatencyAggregates, Timed, groups
<1>3. IsFiniteSet(timed) /\ IsFiniteSet(groups)
  <2>1. IsFiniteSet(timed)
    BY FS_Subset
  <2> DEFINE f == [row \in timed |-> row.hardware]
  <2>2. {f[row] : row \in timed} = {row.hardware : row \in timed}
    BY Zenon
  <2> HIDE DEF timed, f
  <2>3. IsFiniteSet({f[row] : row \in timed})
    BY <2>1, FiniteImage
  <2>4. QED
    BY <1>1, <2>1, <2>2, <2>3, Zenon
<1>4. \A row \in timed : row.n_cycles \in Nat /\ row.plan_us_mean \in Nat
                        /\ cycles[row] = row.n_cycles /\ us[row] = row.plan_us_mean * row.n_cycles
                        /\ cycles[row] \in Int /\ us[row] \in Int
  <2> TAKE row \in timed
  <2>1. row.n_cycles \in Nat /\ row.plan_us_mean \in Nat
    OBVIOUS
  <2>2. \A x, y \in Nat : x * y \in Int
    OBVIOUS
  <2>3. cycles[row] = row.n_cycles /\ us[row] = row.plan_us_mean * row.n_cycles
    BY Zenon
  <2> HIDE DEF cycles, us, timed
  <2>4. QED
    BY <2>1, <2>2, <2>3
<1>5. /\ MapThenSumSet(LAMBDA row : row.n_cycles, timed) = SumOver(cycles, timed)
      /\ MapThenSumSet(LAMBDA row : row.plan_us_mean * row.n_cycles, timed) = SumOver(us, timed)
  <2> DEFINE sumc(g) == [s \in SUBSET timed |-> IF s = {} THEN 0 ELSE pick(s).n_cycles + g[s \ {pick(s)}]]
             sumu(g) == [s \in SUBSET timed |->
                           IF s = {} THEN 0 ELSE pick(s).plan_us_mean * pick(s).n_cycles + g[s \ {pick(s)}]]
             foldc(g) == [s \in SUBSET timed |-> IF s = {} THEN 0 ELSE cycles[pick(s)] + g[s \ {pick(s)}]]
             foldu(g) == [s \in SUBSET timed |-> IF s = {} THEN 0 ELSE us[pick(s)] + g[s \ {pick(s)}]]
  <2> HIDE DEF timed, cycles, us
  <2>1. /\ MapThenSumSet(LAMBDA row : row.n_cycles, timed) = (CHOOSE g : g = sumc(g))[timed]
        /\ MapThenSumSet(LAMBDA row : row.plan_us_mean * row.n_cycles, timed) = (CHOOSE g : g = sumu(g))[timed]
    BY Zenon DEF MapThenSumSet, MapThenFoldSet
  <2>2. /\ SumOver(cycles, timed) = (CHOOSE g : g = foldc(g))[timed]
        /\ SumOver(us, timed) = (CHOOSE g : g = foldu(g))[timed]
    BY Zenon DEF SumOver, MapThenSumSet, MapThenFoldSet
  <2>3. \A s \in SUBSET timed : s # {} => pick(s) \in timed
    OBVIOUS
  <2> HIDE DEF pick
  <2>4. \A s \in SUBSET timed : s # {} =>
          pick(s).n_cycles = cycles[pick(s)] /\ pick(s).plan_us_mean * pick(s).n_cycles = us[pick(s)]
    BY <1>4, <2>3, Zenon
  <2>5. \A g : sumc(g) = foldc(g) /\ sumu(g) = foldu(g)
    BY <2>4, Zenon
  <2> HIDE DEF sumc, sumu, foldc, foldu
  <2>6. (CHOOSE g : g = sumc(g)) = (CHOOSE g : g = foldc(g))
    BY <2>5
  <2>7. (CHOOSE g : g = sumu(g)) = (CHOOSE g : g = foldu(g))
    BY <2>5
  <2>8. QED
    BY <2>1, <2>2, <2>6, <2>7
<1>6. CASE Cardinality(groups) # 1
  <2>1. result = <<>>
    BY <1>2, <1>6
  <2>2. timed = {} \/ \E x, y \in timed : x.hardware # y.hardware
    <3> SUFFICES ASSUME timed # {}, \A x, y \in timed : x.hardware = y.hardware PROVE FALSE
      OBVIOUS
    <3>1. PICK x \in timed : TRUE
      OBVIOUS
    <3> HIDE DEF timed, groups
    <3>2. groups = {x.hardware}
      BY <1>1, <3>1, Zenon
    <3>3. Cardinality({x.hardware}) = 1
      BY FS_Singleton
    <3>4. QED
      BY <1>6, <3>2, <3>3, Zenon
  <2>3. QED
    BY <2>1, <2>2
<1>7. CASE Cardinality(groups) = 1
  <2> HIDE DEF line, result, cycles, us, timed, groups
  <2>1. result = <<line>> /\ result # <<>> /\ result[1] = line
    BY <1>2, <1>7
  <2>2. PICK h : groups = {h}
    BY <1>3, <1>7, FS_Singleton
  <2>3. The(groups) = h
    BY <2>2 DEF The
  <2>4. \A row \in timed : row.hardware = h
    BY <1>1, <2>2, Zenon
  <2>5. {row \in timed : row.hardware \in groups} = timed
    BY <1>1, Zenon
  <2>6. /\ line.hardware = h /\ line.n_scenarios = Cardinality(timed)
        /\ line.n_cycles = SumOver(cycles, timed) /\ line.total_us = SumOver(us, timed)
    <3>1. /\ line.hardware = The(groups)
          /\ line.n_scenarios = Cardinality({row \in timed : row.hardware \in groups})
          /\ line.n_cycles = MapThenSumSet(LAMBDA row : row.n_cycles, timed)
          /\ line.total_us = MapThenSumSet(LAMBDA row : row.plan_us_mean * row.n_cycles, timed)
      BY Zenon DEF line
    <3>2. QED
      BY <1>5, <2>3, <2>5, <3>1, Zenon
  <2>7. timed # {}
    BY <1>1, <2>2
  <2> DEFINE means == [row \in timed |-> row.plan_us_mean]
             M == {means[row] : row \in timed}
  <2>8. M \in SUBSET Int /\ M # {} /\ \A row \in timed : means[row] = row.plan_us_mean /\ means[row] \in M
    BY <1>4, <2>7
  <2>9. IsFiniteSet(M)
    <3> HIDE DEF means
    <3>1. QED
      BY <1>3, FiniteImage
  <2>10. \A a \in M : \E x \in timed : a = means[x]
    OBVIOUS
  <2> HIDE DEF means, M
  <2>11. PICK a \in M : \A x \in M : a <= x
    BY <2>8, <2>9, LeastAndGreatest
  <2>12. PICK b \in M : \A x \in M : x <= b
    BY <2>8, <2>9, LeastAndGreatest
  <2>13. PICK x \in timed : a = x.plan_us_mean
    BY <2>8, <2>10
  <2>14. PICK y \in timed : b = y.plan_us_mean
    BY <2>8, <2>10
  <2>15. ASSUME NEW row \in timed PROVE a * cycles[row] <= us[row] /\ us[row] <= b * cycles[row]
    <3>1. a \in Nat /\ b \in Nat /\ a <= row.plan_us_mean /\ row.plan_us_mean <= b
          /\ row.n_cycles \in Nat /\ row.plan_us_mean \in Nat
      BY <1>4, <2>8, <2>11, <2>12, <2>13, <2>14
    <3>2. \A u, v, k \in Nat : u <= v => u * k <= v * k
      OBVIOUS
    <3>3. QED
      BY <1>4, <3>1, <3>2
  <2>16. a \in Int /\ b \in Int /\ \A row \in timed : cycles[row] \in Int /\ us[row] \in Int
    BY <1>4, <2>8
  <2>17. a * SumOver(cycles, timed) <= SumOver(us, timed)
    BY <1>3, <2>15, <2>16, SumScaled
  <2>18. SumOver(us, timed) <= b * SumOver(cycles, timed)
    BY <1>3, <2>15, <2>16, SumScaled
  <2>19. /\ x.plan_us_mean * result[1].n_cycles <= result[1].total_us
         /\ result[1].total_us <= y.plan_us_mean * result[1].n_cycles
    BY <2>1, <2>6, <2>13, <2>14, <2>17, <2>18, Zenon
  <2>20. \A row \in timed : row.hardware = result[1].hardware
    BY <2>1, <2>4, <2>6, Zenon
  <2>21. result[1].n_scenarios = Cardinality(timed)
    BY <2>1, <2>6, Zenon
  <2>22. QED
    BY <2>1, <2>19, <2>20, <2>21, Zenon DEF timed, result
<1>8. QED
  BY <1>6, <1>7

\* For tables of every size: what is unknown is a group of its own and mixes with no other.
THEOREM UnlabelledApart == CallSpec => []UnlabelledIsApart
<1>1. CallInv => UnlabelledIsApart
  <2> SUFFICES ASSUME CallInv PROVE UnlabelledIsApart
    OBVIOUS
  <2> DEFINE rows == call.arg
  <2>1. CASE Answered("per_maneuver_failure_rates")
    <3>1. rows \in ManeuverRows /\ answer[1] = PerManeuver(rows)
      BY <2>1, Zenon DEF CallInv, Answered, FromItsTables, Answers
    <3>2. IsFiniteSet(rows) /\ \A row \in rows : /\ \A x, y \in row.features : x = y
                                                /\ \A cell \in row.features : "(null)" \notin cell
      BY <3>1, AlgorithmsAssumption
    <3>3. ~Answered("latency_aggregates")
      BY <2>1 DEF Answered
    <3> HIDE DEF rows
    <3>4. LET measured == {row \in rows : row.features # {} /\ row.target # {}}
              unknown  == {row \in measured : row.features = {{}}}
              buckets  == answer[1]
              n(b)     == IF b \in DOMAIN buckets THEN buckets[b].n ELSE 0
          IN /\ n("(null)") = Cardinality(unknown)
             /\ MapThenSumSet(n, DOMAIN buckets) = Cardinality(measured)
             /\ MapThenSumSet(LAMBDA b : buckets[b].k, DOMAIN buckets)
                  = Cardinality({row \in measured : row.target = {1}})
      BY <3>1, <3>2, ManeuversShareOut, Zenon
    <3>5. QED
      BY <3>3, <3>4, Zenon DEF UnlabelledIsApart, MapThenSumSet, MapThenFoldSet, rows
  <2>2. CASE Answered("latency_aggregates")
    <3>1. rows \in LatencyRows /\ answer[1] = LatencyAggregates(rows)
      BY <2>2, Zenon DEF CallInv, Answered, FromItsTables, Answers
    <3>2. IsFiniteSet(rows) /\ \A row \in rows : row.n_cycles \in Nat /\ row.plan_us_mean \in Nat
      BY <3>1, AlgorithmsAssumption
    <3>3. ~Answered("per_maneuver_failure_rates")
      BY <2>2 DEF Answered
    <3> HIDE DEF rows
    <3>4. LET timed == {row \in rows : row.status = "ok" /\ row.n_cycles > 0}
              result == LatencyAggregates(rows)
          IN \/ result = <<>> /\ (timed = {} \/ \E x, y \in timed : x.hardware # y.hardware)
             \/ /\ result # <<>>
                /\ \A row \in timed : row.hardware = result[1].hardware
                /\ result[1].n_scenarios = Cardinality(timed)
                /\ \E x, y \in timed :
                     /\ x.plan_us_mean * result[1].n_cycles <= result[1].total_us
                     /\ result[1].total_us <= y.plan_us_mean * result[1].n_cycles
      BY <3>2, LatenciesOfOneLabel
    <3>5. QED
      BY <3>1, <3>3, <3>4, Zenon DEF UnlabelledIsApart, rows
  <2>3. QED
    BY <2>1, <2>2, Zenon DEF UnlabelledIsApart
<1>2. QED
  BY <1>1, CallInvAlways, PTL

-----------------------------------------------------------------------------
(* Cluster resampling: the layout and the rows of the drawn clusters.      *)

\* The rows sorted by cluster: the members of the cluster called v are at the positions
\* after those of the lesser clusters, as many as they are.
RowsInOrder(ids, order) ==
  /\ order \in [DOMAIN ids -> DOMAIN ids]
  /\ \A v \in Int :
       LET of    == {i \in DOMAIN ids : ids[i] = v}
           start == Cardinality({i \in DOMAIN ids : ids[i] < v})
       IN {order[start + k] : k \in 1 .. Cardinality(of)} = of

\* _cluster_layout sorts: a row comes after all rows of lesser clusters, and before those of
\* greater ones.
LEMMA LayoutSorts ==
  ASSUME NEW ids \in Seq(Int)
  PROVE  RowsInOrder(ids, ClusterLayout(ids).order)
<1> DEFINE I == DOMAIN ids
           R == {p \in I \X I : ids[p[1]] < ids[p[2]] \/ (~(ids[p[2]] < ids[p[1]]) /\ p[1] < p[2])}
           placed == {<<Cardinality({y \in I : ids[y] < ids[x] \/ (~(ids[x] < ids[y]) /\ y < x)}) + 1, x>> : x \in I}
           f == [n \in 1 .. Cardinality(I) |-> (CHOOSE p \in placed : p[1] = n)[2]]
           less(v) == {i \in I : ids[i] < v}
           of(v)   == {i \in I : ids[i] = v}
<1>1. I = 1 .. Len(ids) /\ Len(ids) \in Nat /\ \A i \in I : i \in Int /\ ids[i] \in Int
  OBVIOUS
<1>2. IsFiniteSet(I) /\ Cardinality(I) = Len(ids)
  <2>1. IsFiniteSet(1 .. Len(ids)) /\ Cardinality(1 .. Len(ids)) = IF 1 > Len(ids) THEN 0 ELSE Len(ids) - 1 + 1
    BY <1>1, FS_Interval
  <2>2. QED
    BY <1>1, <2>1
<1>3. ClusterLayout(ids).order = f
  <2>1. ClusterLayout(ids).order = StablePositions(ids, I, <)
    BY Zenon DEF ClusterLayout
  <2>2. StablePositions(ids, I, <) = f
    BY Zenon DEF StablePositions, Arranged
  <2>3. QED
    BY <2>1, <2>2, Zenon
<1>4. \A x, y \in I : <<x, y>> \in R <=> ids[x] < ids[y] \/ (ids[x] = ids[y] /\ x < y)
  BY <1>1
<1>5. placed = {<<Cardinality(Earlier(R, I, x)) + 1, x>> : x \in I}
  <2>1. ASSUME NEW x \in I
        PROVE  {y \in I : ids[y] < ids[x] \/ (~(ids[x] < ids[y]) /\ y < x)} = Earlier(R, I, x)
    BY DEF Earlier
  <2>2. QED
    BY <2>1
<1> HIDE DEF R, placed, I
<1>6. Ordered(R, I)
  <2>1. \A x \in I : <<x, x>> \notin R
    BY <1>1, <1>4
  <2>2. ASSUME NEW x \in I, NEW y \in I, NEW z \in I, <<x, y>> \in R, <<y, z>> \in R
        PROVE  <<x, z>> \in R
    <3>1. /\ x \in Int /\ y \in Int /\ z \in Int
          /\ ids[x] \in Int /\ ids[y] \in Int /\ ids[z] \in Int
      BY <1>1
    <3>2. /\ ids[x] < ids[y] \/ (ids[x] = ids[y] /\ x < y)
          /\ ids[y] < ids[z] \/ (ids[y] = ids[z] /\ y < z)
      BY <1>4, <2>2
    <3>3. ids[x] < ids[z] \/ (ids[x] = ids[z] /\ x < z)
      BY <3>1, <3>2
    <3>4. QED
      BY <1>4, <3>3
  <2>3. ASSUME NEW x \in I, NEW y \in I PROVE x = y \/ <<x, y>> \in R \/ <<y, x>> \in R
    <3>1. x \in Int /\ y \in Int /\ ids[x] \in Int /\ ids[y] \in Int
      BY <1>1
    <3>2. QED
      BY <1>4, <3>1
  <2>4. QED
    BY <2>1, <2>2, <2>3, Zenon DEF Ordered
<1>7. PICK g : g = f
  OBVIOUS
<1>8. g = [n \in 1 .. Cardinality(I) |-> (CHOOSE p \in placed : p[1] = n)[2]]
  BY <1>7
<1>9. /\ g \in [1 .. Cardinality(I) -> I]
      /\ \A x \in I : \E n \in 1 .. Cardinality(I) : g[n] = x
      /\ \A n \in 1 .. Cardinality(I) : Cardinality(Earlier(R, I, g[n])) + 1 = n
  <2>1. PlacedBy(placed, R, I)
    BY <1>5 DEF PlacedBy
  <2>2. g = [n \in 1 .. Cardinality(I) |-> g[n]]
    BY <1>8
  <2>3. ASSUME NEW n \in 1 .. Cardinality(I), \E p \in placed : p[1] = n
        PROVE  \E p \in placed : p[1] = n /\ g[n] = p[2]
    <3>1. PICK p \in placed : p = (CHOOSE q \in placed : q[1] = n) /\ p[1] = n
      BY <2>3, Zenon
    <3>2. g[n] = p[2]
      BY <3>1, <1>8
    <3>3. QED
      BY <3>1, <3>2
  <2>4. Lists(g, placed, I)
    BY <2>2, <2>3 DEF Lists
  <2>5. QED
    BY <1>2, <1>6, <2>1, <2>4, ArrangedSorts
<1>10. 1 .. Cardinality(I) = I
  BY <1>1, <1>2
<1>11. ASSUME NEW v \in Int, NEW i \in I
       PROVE  /\ ids[i] < v => Cardinality(Earlier(R, I, i)) + 1 <= Cardinality(less(v))
              /\ ids[i] >= v => Cardinality(less(v)) <= Cardinality(Earlier(R, I, i))
              /\ ids[i] <= v => Cardinality(Earlier(R, I, i)) + 1 <= Cardinality(less(v)) + Cardinality(of(v))
              /\ ids[i] > v => Cardinality(less(v)) + Cardinality(of(v)) <= Cardinality(Earlier(R, I, i))
  <2> PICK A, B, E : A = less(v) /\ B = of(v) /\ E = Earlier(R, I, i)
    OBVIOUS
  <2>1. /\ A \in SUBSET I /\ B \in SUBSET I /\ E \in SUBSET I /\ A \cap B = {} /\ i \notin E
        /\ ids[i] < v => E \cup {i} \subseteq A
        /\ ids[i] >= v => A \subseteq E
        /\ ids[i] <= v => E \cup {i} \subseteq A \cup B
        /\ ids[i] > v => A \cup B \subseteq E
    <3>1. \A x \in I : x \in Int /\ ids[x] \in Int
      BY <1>1
    <3>2. E = {y \in I : ids[y] < ids[i] \/ (ids[y] = ids[i] /\ y < i)}
      BY <1>4 DEF Earlier
    <3>3. QED
      BY <3>1, <3>2
  <2>2. /\ IsFiniteSet(A) /\ IsFiniteSet(B) /\ IsFiniteSet(E)
        /\ IsFiniteSet(E \cup {i}) /\ IsFiniteSet(A \cup B)
    BY <1>2, <2>1, FS_Subset, FS_AddElement, FS_Union
  <2>3. /\ Cardinality(A) \in Nat /\ Cardinality(B) \in Nat /\ Cardinality(E) \in Nat
    BY <2>2, FS_CardinalityType
  <2>4. Cardinality(A \cup B) = Cardinality(A) + Cardinality(B)
    BY <1>2, <2>1, CountsAdd
  <2>5. Cardinality(E \cup {i}) = Cardinality(E) + 1
    BY <2>1, <2>2, FS_AddElement
  <2>6. ids[i] < v => Cardinality(E) + 1 <= Cardinality(A)
    BY <2>1, <2>2, <2>5, FS_Subset
  <2>7. ids[i] >= v => Cardinality(A) <= Cardinality(E)
    BY <2>1, <2>2, FS_Subset
  <2>8. ids[i] <= v => Cardinality(E) + 1 <= Cardinality(A) + Cardinality(B)
    BY <2>1, <2>2, <2>4, <2>5, FS_Subset
  <2>9. ids[i] > v => Cardinality(A) + Cardinality(B) <= Cardinality(E)
    BY <2>1, <2>2, <2>4, FS_Subset
  <2> HIDE DEF less, of
  <2>10. QED
    BY <2>6, <2>7, <2>8, <2>9
<1>12. ASSUME NEW v \in Int PROVE {g[Cardinality(less(v)) + k] : k \in 1 .. Cardinality(of(v))} = of(v)
  <2> PICK a, b : a = Cardinality(less(v)) /\ b = Cardinality(of(v))
    OBVIOUS
  <2> DEFINE before(i) == Cardinality(Earlier(R, I, i))
  <2>0. a \in Nat /\ b \in Nat
    <3>1. less(v) \in SUBSET I /\ of(v) \in SUBSET I
      OBVIOUS
    <3> HIDE DEF less, of
    <3>2. QED
      BY <1>2, <3>1, FS_Subset, FS_CardinalityType
  <2>1. /\ a \in Nat /\ b \in Nat
        /\ \A i \in I : /\ ids[i] < v => before(i) + 1 <= a
                        /\ ids[i] >= v => a <= before(i)
                        /\ ids[i] <= v => before(i) + 1 <= a + b
                        /\ ids[i] > v => a + b <= before(i)
    BY <1>11, <2>0
  <2>2. \A n \in I : g[n] \in I /\ before(g[n]) = n - 1
    <3>1. \A n \in I : g[n] \in I /\ before(g[n]) + 1 = n
      BY <1>9, <1>10
    <3>2. \A n \in I : before(g[n]) \in Nat
      <4> TAKE n \in I
      <4>1. Earlier(R, I, g[n]) \subseteq I
        BY DEF Earlier
      <4>2. QED
        BY <1>2, <4>1, FS_Subset, FS_CardinalityType
    <3> HIDE DEF before
    <3>3. QED
      BY <1>1, <3>1, <3>2
  <2>3. a + b <= Cardinality(I)
    <3>1. less(v) \cup of(v) \subseteq I /\ less(v) \in SUBSET I /\ of(v) \in SUBSET I /\ less(v) \cap of(v) = {}
      BY <1>1, <1>12
    <3> HIDE DEF less, of
    <3>2. Cardinality(less(v) \cup of(v)) = a + b
      BY <1>2, <3>1, CountsAdd
    <3>3. QED
      BY <1>2, <3>1, <3>2, FS_Subset
  <2>4. \A n \in I : ids[g[n]] = v <=> (a < n /\ n <= a + b)
    <3> TAKE n \in I
    <3>1. n \in Int /\ g[n] \in I /\ ids[g[n]] \in Int /\ before(g[n]) = n - 1
      BY <1>1, <2>2
    <3> PICK i : i = g[n]
      OBVIOUS
    <3>2. /\ i \in I /\ ids[i] \in Int /\ before(i) = n - 1
      BY <3>1
    <3> HIDE DEF before
    <3>3. /\ ids[i] < v => n - 1 + 1 <= a
          /\ ids[i] >= v => a <= n - 1
          /\ ids[i] <= v => n - 1 + 1 <= a + b
          /\ ids[i] > v => a + b <= n - 1
      BY <2>1, <3>2
    <3>4. ids[i] = v <=> (a < n /\ n <= a + b)
      BY <2>0, <3>1, <3>2, <3>3
    <3>5. QED
      BY <3>4
  <2>5. \A k \in 1 .. b : a + k \in I
    BY <1>1, <1>2, <2>1, <2>3
  <2>6. \A i \in I : \E n \in I : g[n] = i
    BY <1>9, <1>10
  <2>7. \A i \in of(v) : \E k \in 1 .. b : g[a + k] = i
    <3> TAKE i \in of(v)
    <3>1. PICK n \in I : g[n] = i
      BY <2>6
    <3>2. a < n /\ n <= a + b
      BY <2>4, <3>1
    <3>3. n - a \in 1 .. b /\ a + (n - a) = n
      BY <1>1, <2>1, <3>2
    <3>4. QED
      BY <3>1, <3>3
  <2>8. \A k \in 1 .. b : g[a + k] \in of(v)
    <3> TAKE k \in 1 .. b
    <3>1. a + k \in I /\ a < a + k /\ a + k <= a + b
      BY <2>1, <2>5
    <3>2. QED
      BY <2>2, <2>4, <3>1
  <2> HIDE DEF of, less, before
  <2>9. {g[a + k] : k \in 1 .. b} = of(v)
    BY <2>7, <2>8
  <2>10. QED
    BY <2>9
<1>13. PICK order : order = ClusterLayout(ids).order
  OBVIOUS
<1>14. order = g
  BY <1>3, <1>7, <1>13, Zenon
<1>15. order \in [I -> I]
  BY <1>9, <1>10, <1>14
<1>16. RowsInOrder(ids, order)
  <2>1. \A v \in Int : {order[Cardinality(less(v)) + k] : k \in 1 .. Cardinality(of(v))} = of(v)
    <3> HIDE DEF less, of
    <3>1. \A v \in Int : {g[Cardinality(less(v)) + k] : k \in 1 .. Cardinality(of(v))} = of(v)
      BY <1>12
    <3>2. QED
      BY <1>14, <3>1
  <2>2. QED
    BY <1>15, <2>1, Zenon DEF RowsInOrder, I
<1>17. QED
  BY <1>13, <1>16, Zenon

\* before tells how many places those of the given sizes take before each of them.
EndToEnd(before, size, n) ==
  before = [d \in 1 .. n + 1 |-> SumOver([e \in 1 .. d - 1 |-> size[e]], 1 .. d - 1)]

\* Laid end to end each has its own stretch, and all stretches together are the whole.
LEMMA StretchesFollow ==
  ASSUME NEW n \in Nat, NEW size \in [1 .. n -> Nat], NEW before, EndToEnd(before, size, n)
  PROVE  /\ before \in [1 .. n + 1 -> Nat]
         /\ before[1] = 0
         /\ \A d \in 1 .. n : before[d + 1] = before[d] + size[d]
         /\ \A d, e \in 1 .. n : d < e => before[d] + size[d] <= before[e]
         /\ before[n + 1] = SumOver(size, 1 .. n)
         /\ \A d \in 1 .. n : before[d] + size[d] <= SumOver(size, 1 .. n)
<1> DEFINE S == 1 .. n
<1> USE DEF EndToEnd
<1>1. IsFiniteSet(S) /\ (\A x \in S : size[x] \in Nat) /\ (\A x \in S : size[x] \in Int)
  <2>1. 1 \in Int /\ n \in Int
    OBVIOUS
  <2>2. IsFiniteSet(S)
    BY <2>1, FS_Interval
  <2>3. \A x \in S : size[x] \in Nat
    OBVIOUS
  <2>4. \A k \in Nat : k \in Int
    OBVIOUS
  <2>5. QED
    BY <2>2, <2>3, <2>4
<1>2. ASSUME NEW d \in 1 .. n + 1 PROVE before[d] = SumOver(size, 1 .. d - 1) /\ 1 .. d - 1 \in SUBSET S
  <2>1. IsFiniteSet(1 .. d - 1) /\ \A x \in 1 .. d - 1 : x \in S
    BY FS_Interval
  <2>2. PICK f : f = [e \in 1 .. d - 1 |-> size[e]]
    OBVIOUS
  <2>3. \A x \in 1 .. d - 1 : f[x] \in Int /\ f[x] = size[x]
    BY <1>1, <2>1, <2>2
  <2>4. PICK T : T = 1 .. d - 1
    OBVIOUS
  <2>5. SumOver(f, T) = SumOver(size, T)
    BY <2>1, <2>3, <2>4, SumSame
  <2>6. before[d] = SumOver(f, T)
    BY <2>2, <2>4
  <2>7. QED
    BY <2>1, <2>4, <2>5, <2>6
<1>3. /\ \A T \in SUBSET S : SumOver(size, T) \in Nat
      /\ \A T \in SUBSET S : \A U \in SUBSET T : SumOver(size, U) <= SumOver(size, T)
  BY <1>1, SumOfNat
<1>4. /\ SumOver(size, {}) = 0
      /\ \A T \in SUBSET S, x \in S : x \notin T => SumOver(size, T \cup {x}) = size[x] + SumOver(size, T)
  BY <1>1, SumTakes
<1>5. before \in [1 .. n + 1 -> Nat]
  <2>1. \A d \in 1 .. n + 1 : before[d] \in Nat
    BY <1>2, <1>3
  <2>2. before = [d \in 1 .. n + 1 |-> before[d]]
    OBVIOUS
  <2>3. QED
    BY <2>1, <2>2
<1>6. before[1] = 0
  <2>1. 1 \in 1 .. n + 1 /\ 1 .. 1 - 1 = {}
    OBVIOUS
  <2>2. QED
    BY <1>2, <1>4, <2>1
<1>7. ASSUME NEW d \in 1 .. n PROVE before[d + 1] = before[d] + size[d]
  <2>1. d \in 1 .. n + 1 /\ d + 1 \in 1 .. n + 1 /\ 1 .. (d + 1) - 1 = (1 .. d - 1) \cup {d} /\ d \notin 1 .. d - 1
    OBVIOUS
  <2>2. PICK T, U : T = 1 .. d - 1 /\ U = 1 .. (d + 1) - 1
    OBVIOUS
  <2>3. before[d] = SumOver(size, T) /\ before[d + 1] = SumOver(size, U) /\ T \in SUBSET S
    BY <1>2, <2>1, <2>2
  <2>4. SumOver(size, T \cup {d}) = size[d] + SumOver(size, T)
    BY <1>4, <2>1, <2>2, <2>3
  <2>5. U = T \cup {d}
    BY <2>1, <2>2
  <2>6. before[d + 1] = size[d] + before[d]
    BY <2>3, <2>4, <2>5
  <2>7. before[d] \in Nat /\ size[d] \in Nat
    BY <1>1, <1>5, <2>1
  <2>8. QED
    BY <2>6, <2>7
<1>8. ASSUME NEW d \in 1 .. n, NEW e \in 1 .. n + 1, d < e PROVE before[d] + size[d] <= before[e]
  <2>1. d + 1 \in 1 .. n + 1 /\ 1 .. (d + 1) - 1 \in SUBSET (1 .. e - 1)
    BY <1>8
  <2>2. before[d + 1] = SumOver(size, 1 .. (d + 1) - 1) /\ before[e] = SumOver(size, 1 .. e - 1)
    BY <1>2, <2>1
  <2>3. 1 .. e - 1 \in SUBSET S
    BY <1>2
  <2>4. before[d + 1] <= before[e]
    BY <1>3, <2>1, <2>2, <2>3
  <2>5. QED
    BY <1>7, <2>4
<1>9. before[n + 1] = SumOver(size, 1 .. n)
  <2>1. n + 1 \in 1 .. n + 1 /\ (n + 1) - 1 = n
    OBVIOUS
  <2>2. QED
    BY <1>2, <2>1
<1>10. ASSUME NEW d \in 1 .. n, NEW e \in 1 .. n, d < e PROVE before[d] + size[d] <= before[e]
  <2>1. e \in 1 .. n + 1
    OBVIOUS
  <2>2. QED
    BY <1>8, <1>10, <2>1
<1>11. ASSUME NEW d \in 1 .. n PROVE before[d] + size[d] <= SumOver(size, 1 .. n)
  <2>1. n + 1 \in 1 .. n + 1 /\ d < n + 1
    OBVIOUS
  <2>2. before[d] + size[d] <= before[n + 1]
    BY <1>8, <2>1
  <2>3. QED
    BY <1>9, <2>2
<1>12. QED
  BY <1>5, <1>6, <1>7, <1>9, <1>10, <1>11

\* The rows of the drawn clusters, one cluster after the other: what RowsComeInClusters says
\* of one call, with the sizes of the drawn clusters.
RowsFollow(names, size, ids, draw, result) ==
  /\ Len(result) = Total(size)
  /\ \A d \in DOMAIN draw : {result[Total([e \in 1 .. d - 1 |-> size[e]]) + k] : k \in 1 .. size[d]}
                              = {i \in DOMAIN ids : ids[i] = names[draw[d]]}

\* The same, with the sizes that they have.
ComesInClusters(names, ids, draw, result) ==
  RowsFollow(names, [d \in DOMAIN draw |-> Cardinality({i \in DOMAIN ids : ids[i] = names[draw[d]]})],
             ids, draw, result)

\* The arithmetic on the layout finds the rows of the drawn clusters.
LEMMA ResampleFindsRows ==
  ASSUME NEW ids \in Seq(Int), NEW draw \in Draws(ids)
  PROVE  ComesInClusters(Arranged({ids[i] : i \in DOMAIN ids}, <), ids, draw,
                         ResampleRows(ClusterLayout(ids), draw))
<1> DEFINE I == DOMAIN ids
           values == {ids[i] : i \in I}
           m == Cardinality(values)
           layout == ClusterLayout(ids)
           of(v) == {i \in I : ids[i] = v}
           less(v) == {i \in I : ids[i] < v}
<1>1. I = 1 .. Len(ids) /\ Len(ids) \in Nat /\ \A i \in I : i \in Int /\ ids[i] \in Int
  OBVIOUS
<1>2. IsFiniteSet(I)
  BY <1>1, FS_Interval
<1>3. IsFiniteSet(values) /\ values \in SUBSET Int
  <2>1. values \in SUBSET Int
    BY <1>1
  <2> HIDE DEF I
  <2>2. QED
    BY <1>2, <2>1, FiniteImage
<1>4. PICK names : names = Arranged(values, <)
  OBVIOUS
<1> HIDE DEF values
<1>5. m \in Nat /\ names \in [1 .. m -> values]
  BY <1>3, <1>4, NumbersArranged
<1>6. draw \in [1 .. m -> 1 .. m]
  BY Zenon DEF Draws, values, I
<1>7. /\ layout.counts = [c \in DOMAIN names |-> Cardinality(of(names[c]))]
      /\ layout.starts = [c \in DOMAIN names |-> Cardinality(less(names[c]))]
  BY <1>4 DEF ClusterLayout, values
<1>8. PICK order, counts, starts : /\ order = layout.order /\ counts = layout.counts /\ starts = layout.starts
  OBVIOUS
<1>9. RowsInOrder(ids, order)
  BY <1>8, LayoutSorts
<1>10. \A c \in 1 .. m : /\ names[c] \in Int /\ counts[c] \in Nat /\ starts[c] \in Nat
                         /\ counts[c] = Cardinality(of(names[c]))
                         /\ {order[starts[c] + k] : k \in 1 .. counts[c]} = of(names[c])
  <2> TAKE c \in 1 .. m
  <2>1. names[c] \in Int
    BY <1>3, <1>5
  <2>2. counts[c] = Cardinality(of(names[c])) /\ starts[c] = Cardinality(less(names[c]))
    BY <1>5, <1>7, <1>8
  <2>3. {order[Cardinality(less(names[c])) + k] : k \in 1 .. Cardinality(of(names[c]))} = of(names[c])
    BY <1>9, <2>1, Zenon DEF RowsInOrder, I
  <2>4. of(names[c]) \in SUBSET I /\ less(names[c]) \in SUBSET I
    OBVIOUS
  <2> HIDE DEF of, less, I
  <2>5. counts[c] \in Nat /\ starts[c] \in Nat
    BY <1>2, <2>2, <2>4, FS_Subset, FS_CardinalityType
  <2>6. QED
    BY <2>1, <2>2, <2>3, <2>5
<1> HIDE DEF layout, m
<1> DEFINE size == [d \in DOMAIN draw |-> layout.counts[draw[d]]]
           before(d) == Total([e \in 1 .. d - 1 |-> size[e]])
           bf == [d \in 1 .. m + 1 |-> SumOver([e \in 1 .. d - 1 |-> size[e]], 1 .. d - 1)]
           total == Total(size)
           within(d, n) == before(d) < n /\ n <= before(d) + size[d]
           holder(n) == CHOOSE d \in DOMAIN draw : within(d, n)
           result == ResampleRows(layout, draw)
<1>11. result = [n \in 1 .. total |-> layout.order[n - before(holder(n)) + layout.starts[draw[holder(n)]]]]
  BY Zenon DEF ResampleRows
<1>12. size \in [1 .. m -> Nat]
  BY <1>6, <1>8, <1>10
<1>13. \A d \in 1 .. m : size[d] = counts[draw[d]]
  BY <1>6, <1>8
<1>14. DOMAIN size = 1 .. m
  BY <1>6
<1> HIDE DEF size
<1>15. \A d \in 1 .. m + 1 : bf[d] = before(d)
  <2> TAKE d \in 1 .. m + 1
  <2>1. bf[d] = SumOver([e \in 1 .. d - 1 |-> size[e]], 1 .. d - 1)
    OBVIOUS
  <2>2. before(d) = SumOver([e \in 1 .. d - 1 |-> size[e]], DOMAIN [e \in 1 .. d - 1 |-> size[e]])
    BY Zenon DEF Total, SumOver, MapThenSumSet, MapThenFoldSet
  <2>3. DOMAIN [e \in 1 .. d - 1 |-> size[e]] = 1 .. d - 1
    OBVIOUS
  <2>4. QED
    BY <2>1, <2>2, <2>3, Zenon
<1>16. total = SumOver(size, 1 .. m)
  <2>1. total = SumOver(size, DOMAIN size)
    BY Zenon DEF Total, SumOver, MapThenSumSet, MapThenFoldSet
  <2>2. QED
    BY <1>14, <2>1
<1>17. EndToEnd(bf, size, m)
  BY DEF EndToEnd
<1> HIDE DEF bf
<1>18. /\ bf \in [1 .. m + 1 -> Nat]
       /\ \A d, e \in 1 .. m : d < e => bf[d] + size[d] <= bf[e]
       /\ \A d \in 1 .. m : bf[d] + size[d] <= SumOver(size, 1 .. m)
  BY <1>5, <1>12, <1>17, StretchesFollow
<1> HIDE DEF before, total
<1>19. \A d \in 1 .. m : before(d) \in Nat /\ size[d] \in Nat /\ before(d) + size[d] <= total
  <2> TAKE d \in 1 .. m
  <2>1. d \in 1 .. m + 1
    BY <1>5
  <2>2. QED
    BY <1>12, <1>15, <1>16, <1>18, <2>1
<1>20. \A d, e \in 1 .. m : d < e => before(d) + size[d] <= before(e)
  <2> TAKE d, e \in 1 .. m
  <2>1. d \in 1 .. m + 1 /\ e \in 1 .. m + 1
    BY <1>5
  <2>2. QED
    BY <1>15, <1>18, <2>1
<1>21. total \in Nat
  <2>1. IsFiniteSet(1 .. m)
    BY <1>5, FS_Interval
  <2>2. \A d \in 1 .. m : size[d] \in Nat
    BY <1>12
  <2>3. QED
    BY <1>16, <2>1, <2>2, SumOfNat
<1>22. ASSUME NEW d \in 1 .. m, NEW k \in 1 .. size[d]
       PROVE  result[before(d) + k] = order[starts[draw[d]] + k]
  <2>1. before(d) \in Nat /\ size[d] \in Nat /\ before(d) + size[d] <= total
    BY <1>19
  <2>2. PICK n : n = before(d) + k
    OBVIOUS
  <2>3. n \in 1 .. total /\ within(d, n)
    BY <1>21, <2>1, <2>2
  <2>4. ASSUME NEW e \in 1 .. m, within(e, n) PROVE e = d
    <3>1. before(e) \in Nat /\ size[e] \in Nat /\ before(e) < n /\ n <= before(e) + size[e]
      BY <1>19, <2>4
    <3>2. d < e => before(d) + size[d] <= before(e)
      BY <1>20
    <3>3. e < d => before(e) + size[e] <= before(d)
      BY <1>20
    <3>4. ~(d < e) /\ ~(e < d)
      BY <2>1, <2>3, <3>1, <3>2, <3>3
    <3>5. d \in Int /\ e \in Int
      BY <1>5
    <3>6. QED
      BY <3>4, <3>5
  <2>5. DOMAIN draw = 1 .. m
    BY <1>6
  <2> HIDE DEF within
  <2>6. holder(n) = d
    BY <2>3, <2>4, <2>5
  <2> HIDE DEF holder, result
  <2>7. result[n] = layout.order[n - before(holder(n)) + layout.starts[draw[holder(n)]]]
    BY <1>11, <2>3
  <2>8. result[n] = order[n - before(d) + starts[draw[d]]]
    BY <1>8, <2>6, <2>7
  <2>9. starts[draw[d]] \in Nat
    BY <1>6, <1>10
  <2>10. n - before(d) + starts[draw[d]] = starts[draw[d]] + k
    BY <2>1, <2>2, <2>9
  <2>11. QED
    BY <2>2, <2>8, <2>10
<1>23. ASSUME NEW d \in 1 .. m
       PROVE  {result[before(d) + k] : k \in 1 .. size[d]} = of(names[draw[d]])
  <2>1. {order[starts[draw[d]] + k] : k \in 1 .. size[d]} = of(names[draw[d]])
    <3>1. draw[d] \in 1 .. m /\ size[d] = counts[draw[d]]
      BY <1>6, <1>13
    <3> HIDE DEF of
    <3>2. QED
      BY <1>10, <3>1
  <2> HIDE DEF result, of
  <2>2. QED
    BY <1>22, <2>1
<1>24. Len(result) = total
  <2> HIDE DEF holder, before
  <2> QED
    BY <1>11, <1>21
<1>25. size = [d \in DOMAIN draw |-> Cardinality(of(names[draw[d]]))]
  <2>1. \A d \in 1 .. m : size[d] = Cardinality(of(names[draw[d]]))
    <3> TAKE d \in 1 .. m
    <3>1. draw[d] \in 1 .. m
      BY <1>6
    <3> HIDE DEF of
    <3>2. QED
      BY <1>10, <1>13, <3>1
  <2>2. DOMAIN draw = 1 .. m
    BY <1>6
  <2> HIDE DEF of
  <2>3. size = [d \in 1 .. m |-> size[d]]
    BY <1>12
  <2>4. QED
    BY <2>1, <2>2, <2>3
<1>26. DOMAIN draw = 1 .. m
  BY <1>6
<1> HIDE DEF result
<1>27. RowsFollow(names, size, ids, draw, result)
  BY <1>23, <1>24, <1>26, Zenon DEF RowsFollow, of, before, total, I
<1>28. ComesInClusters(names, ids, draw, result)
  BY <1>25, <1>27, Zenon DEF ComesInClusters, of, I
<1>29. QED
  BY <1>4, <1>28, Zenon DEF result, layout, values, I

\* A cluster bootstrap draws clusters, never rows, for rows and clusters of every number and
\* size.
THEOREM RowsInClusters == CallSpec => []RowsComeInClusters
<1>1. CallInv => RowsComeInClusters
  <2> SUFFICES ASSUME CallInv, Answered("resample_rows") PROVE RowsComeInClusters
    BY DEF RowsComeInClusters
  <2> DEFINE ids  == call.arg.ids
             draw == call.arg.draw
  <2>1. /\ ids \in Clusterings /\ draw \in Draws(ids)
        /\ answer = <<ResampleRows(ClusterLayout(ids), draw)>>
    BY Zenon DEF CallInv, Answered, FromItsTables, Answers
  <2>2. ids \in Seq(Int)
    BY <2>1, AlgorithmsAssumption
  <2>3. answer[1] = ResampleRows(ClusterLayout(ids), draw)
    BY <2>1
  <2>4. ComesInClusters(Arranged({ids[i] : i \in DOMAIN ids}, <), ids, draw, answer[1])
    BY <2>1, <2>2, <2>3, ResampleFindsRows, Zenon
  <2> HIDE DEF ids, draw
  <2>5. QED
    BY <2>4, Zenon DEF RowsComeInClusters, ComesInClusters, RowsFollow, ids, draw
<1>2. QED
  BY <1>1, CallInvAlways, PTL

-----------------------------------------------------------------------------
(* The predicates of a numeric column.                                     *)

\* A column of numbers and NULLs.
IsColumn(column) ==
  /\ column \in Seq(SUBSET Int)
  /\ \A i \in DOMAIN column : \A x, y \in column[i] : x = y

\* A column has finitely many values, and each is the value of some row.
LEMMA ColumnHas ==
  ASSUME NEW column, IsColumn(column)
  PROVE  /\ IsFiniteSet(DOMAIN column) /\ IsFiniteSet(NonNull(column))
         /\ IsFiniteSet(Values(column)) /\ Values(column) \in SUBSET Int
         /\ \A i \in NonNull(column) : \E v \in Values(column) : column[i] = {v}
         /\ \A v \in Values(column) : \E i \in NonNull(column) : column[i] = {v}
<1> DEFINE I == DOMAIN column
           K == NonNull(column)
           V == Values(column)
<1>1. I = 1 .. Len(column) /\ Len(column) \in Nat /\ \A i \in I : column[i] \in SUBSET Int
  BY DEF IsColumn
<1>2. IsFiniteSet(I)
  BY <1>1, FS_Interval
<1>3. K \in SUBSET I
  BY DEF NonNull
<1>4. IsFiniteSet(K)
  BY <1>2, <1>3, FS_Subset
<1>5. V \in SUBSET Int
  BY <1>1 DEF Values
<1>6. ASSUME NEW i \in K PROVE \E v \in V : column[i] = {v}
  <2>1. i \in I /\ column[i] # {}
    BY <1>6 DEF NonNull
  <2>2. PICK v : v \in column[i]
    BY <2>1
  <2>3. v \in V
    BY <2>1, <2>2 DEF Values
  <2>4. column[i] = {v}
    BY <2>1, <2>2 DEF IsColumn
  <2>5. QED
    BY <2>3, <2>4
<1>7. ASSUME NEW v \in V PROVE \E i \in K : column[i] = {v}
  <2>1. PICK i \in I : v \in column[i]
    BY DEF Values
  <2>2. i \in K /\ column[i] = {v}
    BY <2>1 DEF NonNull, IsColumn
  <2>3. QED
    BY <2>2
<1>8. IsFiniteSet(V)
  <2> DEFINE the == [i \in K |-> CHOOSE v \in column[i] : TRUE]
  <2>1. \A i \in K : column[i] = {the[i]}
    <3> TAKE i \in K
    <3>1. PICK v \in V : column[i] = {v}
      BY <1>6
    <3>2. the[i] \in column[i]
      BY <3>1
    <3>3. QED
      BY <3>1, <3>2
  <2> HIDE DEF the
  <2>2. {the[i] : i \in K} = V
    <3>1. \A i \in K : the[i] \in V
      BY <1>6, <2>1
    <3>2. \A v \in V : \E i \in K : the[i] = v
      BY <1>7, <2>1
    <3>3. QED
      BY <3>1, <3>2
  <2>3. IsFiniteSet({the[i] : i \in K})
    BY <1>4, FiniteImage
  <2>4. QED
    BY <2>2, <2>3
<1>9. QED
  BY <1>2, <1>4, <1>5, <1>6, <1>7, <1>8

\* How many rows are up to v, and how many before it, are the counts of the quantiles.
RowsUpTo(column, v) == Cardinality({i \in NonNull(column) : \E w \in column[i] : w <= v})
QuantileAt(column, n) == CHOOSE v \in Values(column) : RowsUpTo(column, v) - Count(column, v) < n /\ n <= RowsUpTo(column, v)

\* Every place of the sorted column has its value.
LEMMA QuantileIsAValue ==
  ASSUME NEW column, IsColumn(column), NEW n \in 1 .. Cardinality(NonNull(column))
  PROVE  QuantileAt(column, n) \in Values(column)
<1> DEFINE K == NonNull(column)
           V == Values(column)
           upto(v) == {i \in K : \E w \in column[i] : w <= v}
           below(v) == {i \in K : \E w \in column[i] : w < v}
           of(v) == {i \in K : column[i] = {v}}
           S == {v \in V : n <= Cardinality(upto(v))}
<1>1. /\ IsFiniteSet(K) /\ IsFiniteSet(V) /\ V \in SUBSET Int
      /\ \A i \in K : \E v \in V : column[i] = {v}
      /\ \A v \in V : \E i \in K : column[i] = {v}
  BY ColumnHas
<1>2. Cardinality(K) \in Nat /\ n \in Nat /\ 1 <= n /\ n <= Cardinality(K)
  BY <1>1, FS_CardinalityType
<1>3. \A v \in V : /\ of(v) = {i \in DOMAIN column : column[i] = {v}}
                   /\ upto(v) = below(v) \cup of(v) /\ below(v) \cap of(v) = {}
                   /\ below(v) \in SUBSET K /\ of(v) \in SUBSET K
  <2> TAKE v \in V
  <2>1. of(v) = {i \in DOMAIN column : column[i] = {v}}
    BY DEF NonNull
  <2>2. upto(v) = below(v) \cup of(v) /\ below(v) \cap of(v) = {}
    BY <1>1
  <2>3. QED
    BY <2>1, <2>2
<1>4. S # {}
  <2>1. PICK i \in K : TRUE
    <3>1. K # {}
      <4>1. K = {} => Cardinality(K) = 0
        BY FS_EmptySet
      <4>2. QED
        BY <1>2, <4>1
    <3>2. QED
      BY <3>1
  <2>2. V # {}
    BY <1>1
  <2> HIDE DEF V
  <2>3. PICK top \in V : \A x \in V : x <= top
    BY <1>1, <2>2, LeastAndGreatest
  <2>4. upto(top) = K
    BY <1>1, <2>3
  <2>5. top \in S
    BY <1>2, <2>3, <2>4
  <2>6. QED
    BY <2>5
<1>5. S \in SUBSET V /\ S \in SUBSET Int
  BY <1>1
<1> HIDE DEF K, V
<1>6. PICK v \in S : \A x \in S : v <= x
  <2>1. IsFiniteSet(S)
    BY <1>1, <1>5, FS_Subset
  <2> HIDE DEF S
  <2>2. QED
    BY <1>4, <1>5, <2>1, LeastAndGreatest
<1>7. v \in V /\ v \in Int /\ n <= Cardinality(upto(v))
  BY <1>5, <1>6
<1>8. Cardinality(below(v)) < n
  <2> SUFFICES ASSUME n <= Cardinality(below(v)) PROVE FALSE
    <3> HIDE DEF below
    <3>1. below(v) \in SUBSET K
      BY <1>3, <1>7
    <3>2. Cardinality(below(v)) \in Nat
      BY <1>1, <3>1, FS_Subset, FS_CardinalityType
    <3>3. QED
      BY <1>2, <3>2
  <2> DEFINE L == {x \in V : x < v}
  <2>1. below(v) # {}
    <3>1. below(v) = {} => Cardinality(below(v)) = 0
      BY FS_EmptySet
    <3>2. QED
      BY <1>2, <3>1
  <2>2. L # {}
    BY <1>1, <2>1
  <2>3. L \in SUBSET V /\ L \in SUBSET Int
    BY <1>1
  <2>4. IsFiniteSet(L)
    BY <1>1, <2>3, FS_Subset
  <2>5. PICK u \in L : \A x \in L : x <= u
    <3> HIDE DEF L
    <3>1. QED
      BY <2>2, <2>3, <2>4, LeastAndGreatest
  <2>6. u \in V /\ u < v /\ u \in Int
    BY <1>1, <2>5
  <2>7. upto(u) = below(v)
    <3>1. \A i \in upto(u) : i \in below(v)
      BY <1>1, <1>7, <2>6
    <3>2. \A i \in below(v) : i \in upto(u)
      <4> TAKE i \in below(v)
      <4>1. PICK x \in V : column[i] = {x}
        BY <1>1
      <4>2. x < v /\ x <= u
        BY <2>5, <4>1
      <4>3. QED
        BY <4>1, <4>2
    <3>3. QED
      BY <3>1, <3>2
  <2>8. u \in S
    BY <2>6, <2>7
  <2>9. v <= u
    BY <1>6, <2>8
  <2>10. QED
    BY <1>7, <2>6, <2>9
<1>9. Cardinality(upto(v)) = Cardinality(below(v)) + Cardinality(of(v)) /\ Cardinality(below(v)) \in Nat /\ Cardinality(of(v)) \in Nat
  <2>1. PICK A, B : A = below(v) /\ B = of(v)
    OBVIOUS
  <2>2. A \in SUBSET K /\ B \in SUBSET K /\ A \cap B = {} /\ upto(v) = A \cup B
    BY <1>3, <1>7, <2>1
  <2>3. /\ Cardinality(A) \in Nat /\ Cardinality(B) \in Nat
        /\ Cardinality(A \cup B) = Cardinality(A) + Cardinality(B)
    <3>1. IsFiniteSet(K)
      BY <1>1
    <3>2. A \in SUBSET K /\ B \in SUBSET K /\ A \cap B = {}
      BY <2>2
    <3> HIDE DEF below, of, upto
    <3>3. QED
      BY <3>1, <3>2, CountsAdd
  <2> HIDE DEF below, of, upto
  <2>4. QED
    BY <2>1, <2>2, <2>3
<1>10. Count(column, v) = Cardinality(of(v)) /\ RowsUpTo(column, v) = Cardinality(upto(v))
  <2>1. Count(column, v) = Cardinality({i \in DOMAIN column : column[i] = {v}})
    BY Zenon DEF Count
  <2>2. of(v) = {i \in DOMAIN column : column[i] = {v}}
    BY <1>3, <1>7
  <2>3. RowsUpTo(column, v) = Cardinality(upto(v))
    BY Zenon DEF RowsUpTo, K
  <2>4. QED
    BY <2>1, <2>2, <2>3, Zenon
<1>11. RowsUpTo(column, v) - Count(column, v) < n /\ n <= RowsUpTo(column, v)
  <2> HIDE DEF below, of, upto
  <2>1. QED
    BY <1>2, <1>7, <1>8, <1>9, <1>10
<1>12. QED
  BY <1>7, <1>11, Zenon DEF QuantileAt, V

\* The places low + 1 and low + 2 from which a quantile edge is interpolated are in the column.
LEMMA EdgePlaces ==
  ASSUME NEW total \in Nat \ {0}, NEW bins \in Nat \ {0, 1}, NEW b \in 1 .. bins - 1
  PROVE  LET pos == b * (total - 1) IN
         /\ pos \div bins + 1 \in 1 .. total /\ pos \div bins \in Nat /\ pos % bins \in 0 .. bins - 1
         /\ pos % bins # 0 => pos \div bins + 2 \in 1 .. total
<1> DEFINE pos == b * (total - 1)
           q == pos \div bins
           r == pos % bins
<1>1. b \in Nat /\ total - 1 \in Nat /\ b <= bins - 1 /\ bins - 1 \in Nat
  OBVIOUS
<1>2. pos \in Nat
  <2>1. \A x, y \in Nat : x * y \in Nat
    OBVIOUS
  <2>2. QED
    BY <1>1, <2>1
<1>3. r \in 0 .. bins - 1 /\ q \in Nat /\ pos = bins * q + r
  <2> HIDE DEF pos
  <2>1. QED
    BY <1>2, DivMod
<1>4. pos <= bins * (total - 1)
  <2>1. \A x, y, z \in Nat : x <= y => x * z <= y * z
    OBVIOUS
  <2>2. b <= bins
    BY <1>1
  <2>3. QED
    BY <1>1, <2>1, <2>2
<1> HIDE DEF pos, q, r
<1>5. q <= total - 1 /\ (r # 0 => q + 1 <= total - 1)
  <2>1. PICK t \in Nat : t = total - 1
    BY <1>1
  <2>2. bins * q + r <= bins * t
    BY <1>3, <1>4, <2>1
  <2>3. \A x, y \in Nat, c \in Nat \ {0} : c * x <= c * y => x <= y
    OBVIOUS
  <2>4. \A x, y \in Nat, c \in Nat \ {0} : c * x < c * y => x + 1 <= y
    OBVIOUS
  <2>5. bins \in Nat \ {0} /\ bins * q \in Nat /\ bins * t \in Nat /\ r \in Nat
    <3>1. \A x, y \in Nat : x * y \in Nat
      OBVIOUS
    <3>2. QED
      BY <1>3, <2>1, <3>1
  <2>6. bins * q <= bins * t /\ (r # 0 => bins * q < bins * t)
    BY <2>2, <2>5
  <2>7. q <= t /\ (r # 0 => q + 1 <= t)
    BY <1>3, <2>1, <2>3, <2>4, <2>5, <2>6
  <2>8. QED
    BY <2>1, <2>7
<1>6. q + 1 \in 1 .. total /\ (r # 0 => q + 2 \in 1 .. total)
  BY <1>3, <1>5
<1>7. QED
  BY <1>3, <1>6 DEF pos, q, r

\* Rounding gives a number.
LEMMA RoundedIsInt ==
  ASSUME NEW x \in Int, NEW den \in Nat \ {0}
  PROVE  Rounded(x, den) \in Int
<1> DEFINE low == x \div (Tenth * den)
           up == \/ 2 * (x % (Tenth * den)) > Tenth * den
                 \/ 2 * (x % (Tenth * den)) = Tenth * den /\ low % 2 = 1
<1>1. Rounded(x, den) = Tenth * (IF up THEN low + 1 ELSE low)
  BY Zenon DEF Rounded
<1>2. low \in Int
  <2>1. Tenth * den \in Int /\ Tenth * den > 0
    BY DEF Tenth
  <2>2. \A y \in Int, z \in Int : z > 0 => y \div z \in Int
    OBVIOUS
  <2>3. QED
    BY <2>1, <2>2
<1> HIDE DEF low, up
<1>3. Tenth * (IF up THEN low + 1 ELSE low) \in Int
  BY <1>2 DEF Tenth
<1>4. QED
  BY <1>1, <1>3

\* The cuts of a column are finitely many numbers, each above the least value and not above
\* all of them.
LEMMA EdgesCut ==
  ASSUME NEW column, IsColumn(column), NonNull(column) # {}
  PROVE  /\ IsFiniteSet(Edges(column)) /\ Edges(column) \in SUBSET Int
         /\ \A e \in Edges(column) : /\ \E v \in Values(column) : v < e
                                     /\ \E v \in Values(column) : e <= v
<1> DEFINE V == Values(column)
           K == NonNull(column)
           least == CHOOSE v \in V : \A w \in V : v <= w
           total == Cardinality(K)
           pos(b) == b * (total - 1)
           low(b) == pos(b) \div NBins
           f(b) == pos(b) % NBins
           at(n) == QuantileAt(column, n)
           sum(b) == at(low(b) + 1) * (NBins - f(b)) + (IF f(b) = 0 THEN 0 ELSE at(low(b) + 2) * f(b))
           edge(b) == Rounded(sum(b), NBins)
           few == (\A v \in V : v % One = 0) /\ Cardinality(V) <= IntSupportMax
<1>1. /\ IsFiniteSet(K) /\ IsFiniteSet(V) /\ V \in SUBSET Int
      /\ V # {}
  BY ColumnHas
<1>2. NBins \in Nat \ {0, 1}
  BY DiscretizeAssumption
<1>3. total \in Nat \ {0}
  <2> HIDE DEF K
  <2>1. K # {}
    BY DEF K
  <2>2. QED
    BY <1>1, <2>1, FS_CardinalityType, FS_EmptySet
<1>4. QuantileEdges(column) = {edge(b) : b \in 1 .. NBins - 1}
  BY Zenon DEF QuantileEdges, QuantileAt, RowsUpTo
<1>5. Edges(column) = IF few THEN V \ {least} ELSE {e \in QuantileEdges(column) : least < e /\ \E v \in V : e <= v}
  BY Zenon DEF Edges
<1>6. least \in V /\ \A w \in V : least <= w
  <2> HIDE DEF V
  <2>1. PICK v \in V : \A w \in V : v <= w
    BY <1>1, LeastAndGreatest
  <2>2. QED
    BY <2>1, Zenon
<1>7. ASSUME NEW b \in 1 .. NBins - 1 PROVE edge(b) \in Int
  <2>1. /\ low(b) + 1 \in 1 .. total /\ low(b) \in Nat /\ f(b) \in 0 .. NBins - 1
        /\ f(b) # 0 => low(b) + 2 \in 1 .. total
    <3> HIDE DEF total
    <3>1. QED
      BY <1>2, <1>3, EdgePlaces
  <2>2. at(low(b) + 1) \in Int
    <3> HIDE DEF low
    <3>1. QED
      BY <1>1, <2>1, QuantileIsAValue
  <2>3. f(b) # 0 => at(low(b) + 2) \in Int
    <3> HIDE DEF low, f
    <3>1. QED
      BY <1>1, <2>1, QuantileIsAValue
  <2> HIDE DEF low, f, at
  <2>4. NBins - f(b) \in Int /\ f(b) \in Int
    BY <1>2, <2>1
  <2>5. sum(b) \in Int
    <3>1. \A x, y \in Int : x * y \in Int
      OBVIOUS
    <3>2. at(low(b) + 1) * (NBins - f(b)) \in Int
      BY <2>2, <2>4, <3>1
    <3>3. (IF f(b) = 0 THEN 0 ELSE at(low(b) + 2) * f(b)) \in Int
      BY <2>3, <2>4, <3>1
    <3>4. QED
      BY <3>2, <3>3
  <2> HIDE DEF sum
  <2>6. QED
    BY <1>2, <2>5, RoundedIsInt
<1>8. QuantileEdges(column) \in SUBSET Int /\ IsFiniteSet(QuantileEdges(column))
  <2> DEFINE g == [b \in 1 .. NBins - 1 |-> edge(b)]
  <2>1. \A b \in 1 .. NBins - 1 : g[b] = edge(b) /\ g[b] \in Int
    BY <1>7
  <2> HIDE DEF edge, g
  <2>2. QuantileEdges(column) = {g[b] : b \in 1 .. NBins - 1}
    BY <1>4, <2>1
  <2>3. IsFiniteSet(1 .. NBins - 1)
    BY <1>2, FS_Interval
  <2>4. PICK S : S = 1 .. NBins - 1
    OBVIOUS
  <2>5. IsFiniteSet({g[b] : b \in S})
    BY <2>3, <2>4, FiniteImage
  <2>6. QED
    BY <2>1, <2>2, <2>4, <2>5
<1> HIDE DEF V, K, least, few, edge
<1>9. CASE few
  <2>1. Edges(column) = V \ {least}
    BY <1>5, <1>9
  <2>2. IsFiniteSet(V \ {least})
    BY <1>1, FS_RemoveElement
  <2>3. \A e \in V \ {least} : e \in Int /\ least < e /\ e <= e
    BY <1>1, <1>6
  <2>4. QED
    BY <1>1, <1>6, <2>1, <2>2, <2>3 DEF V
<1>10. CASE ~few
  <2>1. Edges(column) = {e \in QuantileEdges(column) : least < e /\ \E v \in V : e <= v}
    BY <1>5, <1>10
  <2>2. Edges(column) \in SUBSET QuantileEdges(column)
    BY <2>1
  <2>3. IsFiniteSet(Edges(column))
    BY <1>8, <2>2, FS_Subset
  <2>4. QED
    BY <1>6, <1>8, <2>1, <2>2, <2>3 DEF V
<1>11. QED
  BY <1>9, <1>10

\* What each kind of predicate says of a cell.
LEMMA HoldsSays ==
  ASSUME NEW name, NEW edge, NEW cell
  PROVE  /\ Holds(Predicate(name, "IS NULL", {}), cell) <=> cell = {}
         /\ Holds(Predicate(name, "IS NOT NULL", {}), cell) <=> cell # {}
         /\ Holds(Predicate(name, ">=", {edge}), cell) <=> \E v \in cell : v >= edge
         /\ Holds(Predicate(name, "<", {edge}), cell) <=> \E v \in cell : v < edge
  BY DEF Holds, Predicate

\* The threshold predicates of the cuts, two of each.
IsThreshold(p, name, cuts, n) ==
  p = Predicate(name, IF n % 2 = 1 THEN ">=" ELSE "<", {cuts[(n + 1) \div 2]})

\* Where a predicate of the threshold kind finds its cut.
LEMMA ThresholdPlaces ==
  ASSUME NEW size \in Nat, NEW n \in 1 .. 2 * size
  PROVE  /\ (n + 1) \div 2 \in 1 .. size
         /\ \A m \in 1 .. 2 * size : (n % 2 = 1 <=> m % 2 = 1) /\ (n + 1) \div 2 = (m + 1) \div 2 => n = m
  OBVIOUS

\* The predicates of a column: first the ones on NULL, if some cells are and some are not,
\* then two for each of the cuts, which are in ascending order.
MadeFrom(made, name, column, nulls, cuts) ==
  /\ made = [n \in 1 .. nulls + 2 * Len(cuts) |-> made[n]]
  /\ nulls \in {0, 2}
  /\ nulls = 2 => /\ NonNull(column) # {} /\ NonNull(column) # DOMAIN column
                  /\ made[1] = Predicate(name, "IS NULL", {})
                  /\ made[2] = Predicate(name, "IS NOT NULL", {})
  /\ cuts \in Seq(Edges(column)) /\ (cuts # <<>> => NonNull(column) # {})
  /\ \A j, k \in DOMAIN cuts : cuts[j] = cuts[k] => j = k
  /\ \A n \in 1 .. 2 * Len(cuts) : IsThreshold(made[nulls + n], name, cuts, n)

\* Such are the predicates of a numeric column.
LEMMA PredicatesMade ==
  ASSUME NEW column, IsColumn(column), NEW name
  PROVE  \E nulls, cuts : MadeFrom(ColumnPredicates(name, TRUE, column), name, column, nulls, cuts)
<1> DEFINE made == ColumnPredicates(name, TRUE, column)
           first == NullPredicates(name, column)
           mixed == ~(NonNull(column) = {} \/ NonNull(column) = DOMAIN column)
           cut == NonNull(column) # {} /\ ~(Cardinality(Values(column)) < 2)
           sorted == Arranged(Edges(column), <)
           pairs == [n \in 1 .. 2 * Len(sorted) |->
                       Predicate(name, IF n % 2 = 1 THEN ">=" ELSE "<", {sorted[(n + 1) \div 2]})]
           rest == IF cut THEN pairs ELSE <<>>
<1>1. first = IF mixed THEN <<Predicate(name, "IS NULL", {}), Predicate(name, "IS NOT NULL", {})>> ELSE <<>>
  BY DEF NullPredicates
<1>2. made = first \o rest
  <2>1. made = first \o (IF NonNull(column) = {} THEN <<>> ELSE ThresholdPredicates(name, column))
    BY DEF ColumnPredicates
  <2>2. ThresholdPredicates(name, column) = IF Cardinality(Values(column)) < 2 THEN <<>> ELSE pairs
    BY Zenon DEF ThresholdPredicates
  <2> HIDE DEF first, pairs
  <2>3. QED
    BY <2>1, <2>2
<1>3. PICK cuts : cuts = IF cut THEN sorted ELSE <<>>
  OBVIOUS
<1>4. /\ cuts \in Seq(Edges(column)) /\ (cuts # <<>> => NonNull(column) # {})
      /\ \A j, k \in DOMAIN cuts : cuts[j] = cuts[k] => j = k
  <2>1. CASE ~cut
    <3>1. cuts = <<>>
      BY <1>3, <2>1
    <3>2. <<>> \in Seq(Edges(column)) /\ DOMAIN <<>> = {}
      OBVIOUS
    <3>3. QED
      BY <3>1, <3>2
  <2>2. CASE cut
    <3>1. IsFiniteSet(Edges(column)) /\ Edges(column) \in SUBSET Int
      BY <2>2, EdgesCut
    <3>2. PICK m, E : m = Cardinality(E) /\ E = Edges(column)
      OBVIOUS
    <3>3. /\ m \in Nat /\ cuts \in [1 .. m -> E]
          /\ \A j, k \in 1 .. m : j < k => cuts[j] < cuts[k]
      <4>1. cuts = sorted
        BY <1>3, <2>2
      <4> HIDE DEF cut
      <4>2. QED
        BY <3>1, <3>2, <4>1, NumbersArranged
    <3>4. cuts \in Seq(E) /\ DOMAIN cuts = 1 .. m
      BY <3>3
    <3>5. \A j, k \in 1 .. m : cuts[j] = cuts[k] => j = k
      <4> SUFFICES ASSUME NEW j \in 1 .. m, NEW k \in 1 .. m, cuts[j] = cuts[k], j # k PROVE FALSE
        OBVIOUS
      <4>1. cuts[j] \in Int /\ cuts[k] \in Int
        BY <3>1, <3>2, <3>3
      <4>2. j < k \/ k < j
        BY <3>3
      <4>3. QED
        BY <3>3, <4>1, <4>2
    <3>6. QED
      BY <2>2, <3>2, <3>4, <3>5
  <2>3. QED
    BY <2>1, <2>2
<1>5. PICK nulls : nulls = IF mixed THEN 2 ELSE 0
  OBVIOUS
<1>6. Len(cuts) \in Nat
  BY <1>4
<1>7. PICK r, len : r = rest /\ len = 2 * Len(cuts)
  OBVIOUS
<1>8. r \in Seq({r[n] : n \in 1 .. len}) /\ Len(r) = len /\ len \in Nat
      /\ \A n \in 1 .. len : IsThreshold(r[n], name, cuts, n)
  <2>1. len \in Nat
    <3>1. len = 2 * Len(cuts)
      BY <1>7
    <3>2. QED
      BY <1>6, <3>1
  <2>2. CASE cut
    <3>1. r = [n \in 1 .. len |-> Predicate(name, IF n % 2 = 1 THEN ">=" ELSE "<", {cuts[(n + 1) \div 2]})]
      <4>1. cuts = sorted
        BY <1>3, <2>2
      <4> HIDE DEF sorted, cut
      <4>2. QED
        BY <1>7, <2>2, <4>1
    <3>2. r = [n \in 1 .. len |-> r[n]]
      BY <3>1
    <3>3. \A n \in 1 .. len : IsThreshold(r[n], name, cuts, n)
      BY <3>1 DEF IsThreshold
    <3>4. QED
      BY <2>1, <3>2, <3>3, FunctionIsSeq
  <2>3. CASE ~cut
    <3>1. cuts = <<>> /\ r = <<>>
      BY <1>3, <1>7, <2>3
    <3>2. len = 0
      <4>1. len = 2 * Len(cuts) /\ Len(cuts) = 0
        BY <1>7, <3>1, EmptySeq
      <4>2. QED
        BY <4>1
    <3>3. <<>> \in Seq({r[n] : n \in 1 .. len}) /\ Len(<<>>) = 0 /\ 1 .. 0 = {}
      OBVIOUS
    <3>4. QED
      BY <3>1, <3>2, <3>3
  <2>4. QED
    BY <2>2, <2>3
<1> HIDE DEF rest, cut, sorted, made
<1>9. PICK x, y : x = Predicate(name, "IS NULL", {}) /\ y = Predicate(name, "IS NOT NULL", {})
  OBVIOUS
<1>10. PICK f : f = IF mixed THEN <<x, y>> ELSE <<>>
  OBVIOUS
<1>11. made = f \o r
  <2>1. first = f
    <3> HIDE DEF first, mixed
    <3>1. QED
      BY <1>1, <1>9, <1>10
  <2> HIDE DEF first
  <2>2. QED
    BY <1>2, <1>7, <2>1
<1> HIDE DEF mixed
<1>12. /\ nulls \in {0, 2} /\ (nulls = 2 => mixed /\ f = <<x, y>>) /\ (nulls = 0 => f = <<>>)
  BY <1>5, <1>10
<1>13. /\ made = [n \in 1 .. nulls + len |-> made[n]]
       /\ nulls = 2 => made[1] = x /\ made[2] = y
       /\ \A n \in 1 .. len : made[nulls + n] = r[n]
  <2>1. CASE nulls = 2
    <3>1. f = <<x, y>>
      BY <1>12, <2>1
    <3>2. QED
      BY <1>8, <1>11, <2>1, <3>1
  <2>2. CASE nulls = 0
    <3>1. f = <<>>
      BY <1>12, <2>2
    <3>2. QED
      BY <1>8, <1>11, <2>2, <3>1
  <2>3. QED
    BY <1>12, <2>1, <2>2
<1>14. \A n \in 1 .. 2 * Len(cuts) : IsThreshold(made[nulls + n], name, cuts, n)
  BY <1>7, <1>8, <1>13
<1>15. MadeFrom(made, name, column, nulls, cuts)
  BY <1>4, <1>7, <1>9, <1>12, <1>13, <1>14 DEF MadeFrom, mixed
<1>16. QED
  BY <1>15 DEF made

\* What PredicatesCutTheColumn says of the predicates of one column.
CutsTheColumn(column, made) ==
  LET rows(p) == {i \in DOMAIN column : Holds(p, column[i])}
      other(p) == [p EXCEPT !.op = IF @ = ">=" THEN "<" ELSE ">="]
  IN /\ \A n \in DOMAIN made : rows(made[n]) # {} /\ rows(made[n]) # DOMAIN column
     /\ \A n, m \in DOMAIN made : made[n] = made[m] => n = m
     /\ \A n \in DOMAIN made : made[n].op \in {">=", "<"} =>
          /\ rows(made[n]) \cap rows(other(made[n])) = {}
          /\ rows(made[n]) \cup rows(other(made[n])) = NonNull(column)

\* Two predicates share out the known rows, and leave some on either side.
SharesOut(column, p, q) ==
  LET up   == {i \in DOMAIN column : Holds(p, column[i])}
      down == {i \in DOMAIN column : Holds(q, column[i])}
  IN /\ up \cap down = {} /\ up \cup down = NonNull(column)
     /\ up # {} /\ down # {}
     /\ up # DOMAIN column /\ down # DOMAIN column

\* The two sides of a threshold do.
LEMMA ThresholdCuts ==
  ASSUME NEW column, IsColumn(column), NEW name, NEW e \in Edges(column), NonNull(column) # {},
         NEW p, p = Predicate(name, ">=", {e}), NEW q, q = Predicate(name, "<", {e})
  PROVE  SharesOut(column, p, q)
<1> DEFINE up == {i \in DOMAIN column : Holds(p, column[i])}
           down == {i \in DOMAIN column : Holds(q, column[i])}
           V == Values(column)
           K == NonNull(column)
<1>1. /\ V \in SUBSET Int /\ K \in SUBSET DOMAIN column
      /\ \A i \in K : \E v \in V : column[i] = {v}
      /\ \A v \in V : \E i \in K : column[i] = {v}
      /\ \A i \in DOMAIN column : i \in K <=> column[i] # {}
  BY ColumnHas DEF NonNull
<1>2. e \in Int /\ (\E v \in V : v < e) /\ (\E v \in V : e <= v)
  BY EdgesCut
<1>3. /\ up = {i \in DOMAIN column : \E v \in column[i] : v >= e}
      /\ down = {i \in DOMAIN column : \E v \in column[i] : v < e}
  BY HoldsSays
<1> HIDE DEF up, down, V, K
<1>4. up \cap down = {}
  <2> SUFFICES ASSUME NEW i \in up, i \in down PROVE FALSE
    OBVIOUS
  <2>1. i \in DOMAIN column /\ (\E v \in column[i] : v >= e) /\ (\E v \in column[i] : v < e)
    BY <1>3
  <2>2. PICK v \in V : column[i] = {v}
    BY <1>1, <2>1
  <2>3. v \in Int /\ v >= e /\ v < e
    BY <1>1, <2>1, <2>2
  <2>4. QED
    BY <1>2, <2>3
<1>5. up \cup down = K
  <2>1. \A i \in up \cup down : i \in K
    BY <1>1, <1>3
  <2>2. \A i \in K : i \in up \cup down
    <3> TAKE i \in K
    <3>1. PICK v \in V : column[i] = {v}
      BY <1>1
    <3>2. v \in Int /\ i \in DOMAIN column
      BY <1>1
    <3>3. v >= e \/ v < e
      BY <1>2, <3>2
    <3>4. QED
      BY <1>3, <3>1, <3>2, <3>3
  <2>3. QED
    BY <2>1, <2>2
<1>6. up # {} /\ down # {}
  <2>1. PICK v \in V : v < e
    BY <1>2
  <2>2. PICK w \in V : e <= w
    BY <1>2
  <2>3. w >= e
    BY <1>1, <1>2, <2>2
  <2>4. (\E i \in K : column[i] = {v}) /\ (\E i \in K : column[i] = {w})
    BY <1>1
  <2>5. QED
    BY <1>1, <1>3, <2>1, <2>3, <2>4
<1>7. up # DOMAIN column /\ down # DOMAIN column
  BY <1>1, <1>4, <1>5, <1>6
<1>8. QED
  BY <1>4, <1>5, <1>6, <1>7, Zenon DEF SharesOut, up, down, K

\* Every predicate of a numeric column tells two rows apart, and none is made twice.
LEMMA PredicatesCut ==
  ASSUME NEW column, IsColumn(column), NEW name
  PROVE  CutsTheColumn(column, ColumnPredicates(name, TRUE, column))
<1> DEFINE D == DOMAIN column
           rows(p) == {i \in D : Holds(p, column[i])}
           other(p) == [p EXCEPT !.op = IF @ = ">=" THEN "<" ELSE ">="]
<1>1. PICK made : made = ColumnPredicates(name, TRUE, column)
  OBVIOUS
<1>2. PICK nulls, cuts : MadeFrom(made, name, column, nulls, cuts)
  BY <1>1, PredicatesMade
<1>3. PICK size : size = Len(cuts)
  OBVIOUS
<1>4. /\ made = [n \in 1 .. nulls + 2 * size |-> made[n]]
      /\ nulls \in {0, 2} /\ size \in Nat /\ DOMAIN cuts = 1 .. size
      /\ \A j \in 1 .. size : cuts[j] \in Edges(column) /\ NonNull(column) # {}
      /\ \A j, k \in 1 .. size : cuts[j] = cuts[k] => j = k
      /\ \A n \in 1 .. 2 * size : IsThreshold(made[nulls + n], name, cuts, n)
      /\ nulls = 2 => /\ NonNull(column) # {} /\ NonNull(column) # D
                      /\ made[1] = Predicate(name, "IS NULL", {})
                      /\ made[2] = Predicate(name, "IS NOT NULL", {})
  <2>1. cuts \in Seq(Edges(column)) /\ (cuts # <<>> => NonNull(column) # {})
    BY <1>2 DEF MadeFrom
  <2>2. size \in Nat /\ DOMAIN cuts = 1 .. size /\ \A j \in 1 .. size : cuts[j] \in Edges(column)
    BY <1>3, <2>1
  <2>3. ASSUME NEW j \in 1 .. size PROVE NonNull(column) # {}
    <3>1. cuts # <<>>
      <4>1. DOMAIN <<>> = {}
        OBVIOUS
      <4>2. QED
        BY <2>2, <4>1
    <3>2. QED
      BY <2>1, <3>1
  <2>4. /\ made = [n \in 1 .. nulls + 2 * size |-> made[n]]
        /\ nulls \in {0, 2}
        /\ \A n \in 1 .. 2 * size : IsThreshold(made[nulls + n], name, cuts, n)
        /\ \A j, k \in DOMAIN cuts : cuts[j] = cuts[k] => j = k
        /\ nulls = 2 => /\ NonNull(column) # {} /\ NonNull(column) # D
                        /\ made[1] = Predicate(name, "IS NULL", {})
                        /\ made[2] = Predicate(name, "IS NOT NULL", {})
    BY <1>2, <1>3, Zenon DEF MadeFrom
  <2>5. QED
    BY <2>2, <2>3, <2>4, Zenon
<1>5. DOMAIN made = 1 .. nulls + 2 * size /\ nulls \in Int /\ 2 * size \in Nat
  <2>1. nulls \in {0, 2} /\ size \in Nat
    BY <1>4
  <2>2. made = [n \in 1 .. nulls + 2 * size |-> made[n]]
    BY <1>4
  <2>3. QED
    BY <2>1, <2>2
<1>6. ASSUME NEW n \in DOMAIN made
      PROVE  \/ nulls = 2 /\ n \in {1, 2}
             \/ \E k \in 1 .. 2 * size : n = nulls + k
  <2>1. n \in Int /\ 1 <= n /\ n <= nulls + 2 * size
    BY <1>5
  <2>2. CASE nulls = 0
    <3>1. n \in 1 .. 2 * size /\ n = nulls + n
      BY <1>4, <2>1, <2>2
    <3>2. QED
      BY <3>1
  <2>3. CASE nulls = 2
    <3>1. PICK k \in Int : k = n - 2
      BY <2>1
    <3>2. n = nulls + k
      BY <2>1, <2>3, <3>1
    <3>3. n \in {1, 2} \/ k \in 1 .. 2 * size
      BY <1>5, <2>1, <2>3, <3>1
    <3>4. QED
      BY <2>3, <3>2, <3>3
  <2>4. nulls \in {0, 2}
    BY <1>4
  <2>5. QED
    BY <2>2, <2>3, <2>4
<1>7. ASSUME NEW k \in 1 .. 2 * size
      PROVE  /\ (k + 1) \div 2 \in 1 .. size
             /\ made[nulls + k] = Predicate(name, IF k % 2 = 1 THEN ">=" ELSE "<", {cuts[(k + 1) \div 2]})
  BY <1>4, ThresholdPlaces DEF IsThreshold
<1>8. ASSUME NEW k \in 1 .. 2 * size
      PROVE  LET p == made[nulls + k] IN
             /\ rows(p) # {} /\ rows(p) # D
             /\ rows(p) \cap rows(other(p)) = {} /\ rows(p) \cup rows(other(p)) = NonNull(column)
  <2>1. PICK e \in Edges(column) : e = cuts[(k + 1) \div 2] /\ NonNull(column) # {}
    BY <1>4, <1>7
  <2>2. PICK up, down : up = Predicate(name, ">=", {e}) /\ down = Predicate(name, "<", {e})
    OBVIOUS
  <2>3. /\ rows(up) \cap rows(down) = {} /\ rows(up) \cup rows(down) = NonNull(column)
        /\ rows(up) # {} /\ rows(down) # {} /\ rows(up) # D /\ rows(down) # D
    <3>1. SharesOut(column, up, down)
      BY <2>1, <2>2, ThresholdCuts
    <3>2. QED
      BY <3>1, Zenon DEF SharesOut, rows, D
  <2>4. other(up) = down /\ other(down) = up
    <3>1. PICK c : c = {e}
      OBVIOUS
    <3>2. up = [column |-> name, op |-> ">=", value |-> c] /\ down = [column |-> name, op |-> "<", value |-> c]
      BY <2>2, <3>1 DEF Predicate
    <3>3. up.op = ">=" /\ down.op = "<"
      BY <3>2
    <3>4. other(up) = [up EXCEPT !.op = "<"] /\ other(down) = [down EXCEPT !.op = ">="]
      BY <3>3
    <3>5. QED
      BY <3>2, <3>4
  <2>5. made[nulls + k] = up \/ made[nulls + k] = down
    BY <1>7, <2>1, <2>2
  <2> HIDE DEF rows, other
  <2>6. QED
    BY <2>3, <2>4, <2>5
<1>9. nulls = 2 => /\ rows(made[1]) = D \ NonNull(column) /\ rows(made[2]) = NonNull(column)
                   /\ made[1].op = "IS NULL" /\ made[2].op = "IS NOT NULL"
  <2> SUFFICES ASSUME nulls = 2 PROVE /\ rows(made[1]) = D \ NonNull(column) /\ rows(made[2]) = NonNull(column)
                                      /\ made[1].op = "IS NULL" /\ made[2].op = "IS NOT NULL"
    OBVIOUS
  <2>1. /\ made[1] = Predicate(name, "IS NULL", {}) /\ made[2] = Predicate(name, "IS NOT NULL", {})
    BY <1>4
  <2>2. rows(made[1]) = {i \in D : column[i] = {}} /\ rows(made[2]) = {i \in D : column[i] # {}}
    <3>1. PICK p, q : p = made[1] /\ q = made[2]
      OBVIOUS
    <3>2. \A c : (Holds(p, c) <=> c = {}) /\ (Holds(q, c) <=> c # {})
      BY <2>1, <3>1, HoldsSays
    <3>3. rows(p) = {i \in D : column[i] = {}} /\ rows(q) = {i \in D : column[i] # {}}
      BY <3>2
    <3> HIDE DEF rows
    <3>4. QED
      BY <3>1, <3>3
  <2>3. made[1].op = "IS NULL" /\ made[2].op = "IS NOT NULL"
    <3>1. Predicate(name, "IS NULL", {}).op = "IS NULL" /\ Predicate(name, "IS NOT NULL", {}).op = "IS NOT NULL"
      BY DEF Predicate
    <3>2. QED
      BY <2>1, <3>1
  <2>4. QED
    BY <2>2, <2>3 DEF NonNull
<1>10. nulls = 2 => NonNull(column) # {} /\ NonNull(column) # D /\ NonNull(column) \subseteq D
  BY <1>4 DEF NonNull
<1>11. \A k \in 1 .. 2 * size : made[nulls + k].op \in {">=", "<"}
  <2>1. \A op, v : Predicate(name, op, v).op = op
    BY DEF Predicate
  <2>2. QED
    BY <1>7, <2>1
<1>12. \A n \in DOMAIN made : rows(made[n]) # {} /\ rows(made[n]) # D
  <2> TAKE n \in DOMAIN made
  <2> HIDE DEF rows, D
  <2>1. CASE nulls = 2 /\ n \in {1, 2}
    BY <1>9, <1>10, <2>1
  <2>2. CASE \E k \in 1 .. 2 * size : n = nulls + k
    BY <1>8, <2>2
  <2>3. QED
    BY <1>6, <2>1, <2>2
<1>13. \A n \in DOMAIN made : made[n].op \in {">=", "<"} =>
         /\ rows(made[n]) \cap rows(other(made[n])) = {}
         /\ rows(made[n]) \cup rows(other(made[n])) = NonNull(column)
  <2> TAKE n \in DOMAIN made
  <2> HIDE DEF rows, D, other
  <2>1. CASE nulls = 2 /\ n \in {1, 2}
    BY <1>9, <2>1
  <2>2. CASE \E k \in 1 .. 2 * size : n = nulls + k
    BY <1>8, <2>2
  <2>3. QED
    BY <1>6, <2>1, <2>2
<1>14. ASSUME NEW n \in DOMAIN made, NEW m \in DOMAIN made, made[n] = made[m] PROVE n = m
  <2>1. CASE nulls = 2 /\ n \in {1, 2}
    <3>1. made[m].op \notin {">=", "<"}
      BY <1>9, <1>14, <2>1
    <3>2. m \in {1, 2}
      BY <1>6, <1>11, <3>1
    <3>3. made[1].op = "IS NULL" /\ made[2].op = "IS NOT NULL"
      BY <1>9, <2>1
    <3>4. made[1] # made[2]
      BY <3>3
    <3>5. QED
      BY <1>14, <2>1, <3>2, <3>4
  <2>2. CASE \E k \in 1 .. 2 * size : n = nulls + k
    <3>1. PICK k \in 1 .. 2 * size : n = nulls + k
      BY <2>2
    <3>2. made[m].op \in {">=", "<"}
      BY <1>11, <1>14, <3>1
    <3>3. PICK j \in 1 .. 2 * size : m = nulls + j
      BY <1>6, <1>9, <3>2
    <3>4. PICK a, b : a = (k + 1) \div 2 /\ b = (j + 1) \div 2
      OBVIOUS
    <3>5. /\ a \in 1 .. size /\ made[n] = Predicate(name, IF k % 2 = 1 THEN ">=" ELSE "<", {cuts[a]})
          /\ b \in 1 .. size /\ made[m] = Predicate(name, IF j % 2 = 1 THEN ">=" ELSE "<", {cuts[b]})
      BY <1>7, <3>1, <3>3, <3>4
    <3>6. (k % 2 = 1 <=> j % 2 = 1) /\ cuts[a] = cuts[b]
      <4>1. \A op, v : Predicate(name, op, v).op = op /\ Predicate(name, op, v).value = v
        BY DEF Predicate
      <4>2. PICK x, y : x = {cuts[a]} /\ y = {cuts[b]}
        OBVIOUS
      <4>3. PICK s, t : s = (IF k % 2 = 1 THEN ">=" ELSE "<") /\ t = (IF j % 2 = 1 THEN ">=" ELSE "<")
        OBVIOUS
      <4>4. Predicate(name, s, x) = Predicate(name, t, y)
        BY <1>14, <3>5, <4>2, <4>3
      <4>5. s = t /\ x = y
        BY <4>1, <4>4
      <4>6. k % 2 = 1 <=> j % 2 = 1
        BY <4>3, <4>5
      <4>7. QED
        BY <4>2, <4>5, <4>6
    <3>7. a = b
      BY <1>4, <3>5, <3>6
    <3>8. k = j
      BY <1>4, <3>4, <3>6, <3>7, ThresholdPlaces
    <3>9. QED
      BY <3>1, <3>3, <3>8
  <2>3. QED
    BY <1>6, <2>1, <2>2
<1>15. CutsTheColumn(column, made)
  BY <1>12, <1>13, <1>14, Zenon DEF CutsTheColumn, rows, other, D
<1>16. QED
  BY <1>1, <1>15

\* Predicates tell rows apart, for columns of every length and for every setting of the bins.
THEOREM PredicatesCutColumns == CallSpec => []PredicatesCutTheColumn
<1>1. CallInv => PredicatesCutTheColumn
  <2> SUFFICES ASSUME CallInv, Answered("candidate_predicates") PROVE PredicatesCutTheColumn
    BY DEF PredicatesCutTheColumn
  <2>1. call.arg \in NumericColumns /\ answer = <<ColumnPredicates("column", TRUE, call.arg)>>
    BY Zenon DEF CallInv, Answered, FromItsTables, Answers
  <2>2. answer[1] = ColumnPredicates("column", TRUE, call.arg)
    BY <2>1
  <2>3. IsColumn(call.arg)
    BY <2>1, AlgorithmsAssumption DEF IsColumn
  <2>4. CutsTheColumn(call.arg, answer[1])
    BY <2>2, <2>3, PredicatesCut
  <2>5. QED
    BY <2>4, Zenon DEF PredicatesCutTheColumn, CutsTheColumn
<1>2. QED
  BY <1>1, CallInvAlways, PTL

=============================================================================

---------------------------- MODULE CaptureProofs ----------------------------
(***************************************************************************)
(* Proofs about Capture, for any commands, configurations and frames, and   *)
(* about what Matching and FaceGeometry compute in one pass over a list.    *)
(***************************************************************************)
EXTENDS Capture, FaceGeometryProofs, FiniteSetTheorems, FunctionTheorems,
        WellFoundedInduction, TLAPS

-----------------------------------------------------------------------------
(* Induction, and the folds of SequencesExt                                 *)

\* Of numbers there is a least; the induction below rests on it.
LEMMA LeastExists ==
  ASSUME NEW T \in SUBSET Nat, T # {} PROVE \E i \in T : \A j \in T : i <= j
<1> DEFINE R == {s \in Nat \X Nat : s[1] < s[2]}
<1>1. IsWellFoundedOn(R, Nat)
  BY NatLessThanWellFounded DEF OpToRel
<1>2. \A x, y \in Nat : <<x, y>> \in R <=> x < y
  OBVIOUS
<1> HIDE DEF R
<1>3. \E i \in T : \A j \in T : ~ (<<j, i>> \in R)
  BY <1>1, WFMin, Zenon
<1>4. PICK i \in T : \A j \in T : ~ (<<j, i>> \in R)
  BY <1>3
<1>5. \A j \in T : ~(j < i) /\ j \in Nat /\ i \in Nat
  BY <1>4, <1>2
<1> QED BY <1>5

\* Induction, over a set
LEMMA EveryNat ==
  ASSUME NEW T \in SUBSET Nat, 0 \in T, \A k \in T : k + 1 \in T PROVE T = Nat
<1> SUFFICES ASSUME Nat \ T # {} PROVE FALSE
  OBVIOUS
<1>1. PICK i \in Nat \ T : \A j \in Nat \ T : i <= j
  BY LeastExists
<1>2. i # 0 /\ i - 1 \in Nat
  BY <1>1
<1>3. i - 1 \in T
  BY <1>1, <1>2
<1>4. (i - 1) + 1 = i
  BY <1>1
<1> QED BY <1>1, <1>3, <1>4

\* Of some of the numbers up to n there is a greatest.
LEMMA GreatestExists ==
  ASSUME NEW n \in Nat, NEW S \in SUBSET (1..n), S # {}
  PROVE  \E i \in S : \A j \in S : j <= i
<1> DEFINE T == {n - i : i \in S}
<1>1. T \in SUBSET Nat /\ T # {}
  <2>1. \A i \in S : i \in Int /\ n - i \in Nat
    OBVIOUS
  <2>2. PICK i \in S : TRUE
    OBVIOUS
  <2>3. n - i \in T
    OBVIOUS
  <2> QED BY <2>1, <2>3
<1>2. PICK t \in T : \A u \in T : t <= u
  BY <1>1, LeastExists
<1>3. PICK i \in S : t = n - i
  BY <1>2
<1>4. \A j \in S : n - i <= n - j
  BY <1>2, <1>3
<1>5. \A j \in S : j <= i
  BY <1>4
<1> QED BY <1>5

\* It is the one that Max chooses.
LEMMA MaxIsGreatest ==
  ASSUME NEW n \in Nat, NEW S \in SUBSET (1..n), S # {}
  PROVE  Max(S) \in S /\ \A j \in S : j <= Max(S)
<1>1. \E i \in S : \A j \in S : i >= j
  BY GreatestExists
<1> QED BY <1>1 DEF Max

\* The greatest up to k is k.
LEMMA MaxOfInterval ==
  ASSUME NEW k \in Nat \ {0} PROVE Max(1..k) = k /\ (1..k) \ {k} = 1..k - 1
<1>0. k \in 1..k /\ 1..k \in SUBSET (1..k) /\ 1..k # {}
  OBVIOUS
<1>1. Max(1..k) \in 1..k /\ k <= Max(1..k)
  BY <1>0, MaxIsGreatest
<1> QED BY <1>1

\* A fold from left to right is a function on the sets of indices.
Folds(it, V, base, step, n) ==
    /\ it \in [SUBSET (1..n) -> V]
    /\ \A s \in SUBSET (1..n) :
          it[s] = IF s = {} THEN base ELSE step[<<it[s \ {Max(s)}], Max(s)>>]

\* There is such a function, whatever the step.
LEMMA FoldExists ==
  ASSUME NEW V, NEW base \in V, NEW step \in [V \X Nat -> V], NEW n \in Nat
  PROVE  \E it : Folds(it, V, base, step, n)
<1> DEFINE T == {k \in Nat : \E it : Folds(it, V, base, step, k)}
<1>1. 0 \in T
  <2> DEFINE it == [s \in SUBSET (1..0) |-> base]
  <2>1. SUBSET (1..0) = {{}}
    OBVIOUS
  <2>2. Folds(it, V, base, step, 0)
    BY <2>1 DEF Folds
  <2> QED BY <2>2
<1>2. ASSUME NEW k \in T PROVE k + 1 \in T
  <2>1. k \in Nat /\ k + 1 \in Nat
    OBVIOUS
  <2>2. PICK it : Folds(it, V, base, step, k)
    OBVIOUS
  <2> DEFINE next == [s \in SUBSET (1..k + 1) |->
                        IF k + 1 \in s THEN step[<<it[s \ {k + 1}], k + 1>>] ELSE it[s]]
  <2>3. ASSUME NEW s \in SUBSET (1..k + 1), k + 1 \in s
        PROVE  /\ s \ {k + 1} \in SUBSET (1..k) /\ Max(s) = k + 1 /\ s # {}
               /\ next[s] = step[<<it[s \ {k + 1}], k + 1>>]
               /\ next[s \ {k + 1}] = it[s \ {k + 1}]
    <3>1. Max(s) \in s /\ k + 1 <= Max(s)
      BY <2>1, <2>3, MaxIsGreatest
    <3>0. Max(s) \in 1..k + 1
      BY <3>1
    <3>2. Max(s) = k + 1
      BY <2>1, <3>0, <3>1
    <3>3. \A x \in s \ {k + 1} : x \in 1..k
      BY <2>1
    <3>4. s \ {k + 1} \in SUBSET (1..k) /\ s \ {k + 1} \in SUBSET (1..k + 1)
      BY <3>3
    <3> QED BY <2>3, <3>2, <3>4
  <2>4. ASSUME NEW s \in SUBSET (1..k + 1), k + 1 \notin s
        PROVE  /\ s \in SUBSET (1..k) /\ next[s] = it[s]
               /\ s # {} => next[s \ {Max(s)}] = it[s \ {Max(s)}]
    <3>0. \A x \in s : x \in 1..k
      BY <2>1, <2>4
    <3>1. s \in SUBSET (1..k) /\ s \ {Max(s)} \in SUBSET (1..k + 1) /\ k + 1 \notin s \ {Max(s)}
      BY <3>0, <2>4
    <3> QED BY <3>1, <2>4
  <2>5. it \in [SUBSET (1..k) -> V]
    BY <2>2 DEF Folds
  <2>6. next \in [SUBSET (1..k + 1) -> V]
    <3>1. \A s \in SUBSET (1..k + 1) : next[s] \in V
      <4> TAKE s \in SUBSET (1..k + 1)
      <4>1. CASE k + 1 \in s
        BY <2>1, <2>3, <2>5, <4>1
      <4>2. CASE k + 1 \notin s
        BY <2>4, <2>5, <4>2
      <4> QED BY <4>1, <4>2
    <3> QED BY <3>1
  <2>7. \A s \in SUBSET (1..k + 1) :
          next[s] = IF s = {} THEN base ELSE step[<<next[s \ {Max(s)}], Max(s)>>]
    <3> TAKE s \in SUBSET (1..k + 1)
    <3> HIDE DEF next
    <3>1. CASE k + 1 \in s
      BY <2>3, <3>1
    <3>2. CASE k + 1 \notin s
      BY <2>2, <2>4, <3>2 DEF Folds
    <3> QED BY <3>1, <3>2
  <2> HIDE DEF next
  <2>8. Folds(next, V, base, step, k + 1)
    BY <2>6, <2>7 DEF Folds
  <2> QED BY <2>1, <2>8
<1>3. T = Nat
  BY <1>1, <1>2, EveryNat
<1> QED BY <1>3

-----------------------------------------------------------------------------
(* The primary face                                                         *)

\* Each face of the list is considered in turn.
LEMMA PrimaryIsScan ==
  ASSUME NEW f \in Seq(Row)
  PROVE  \E r :
            /\ r[0] = NoFace
            /\ \A k \in 1..Len(f) :
                  r[k] = IF ~ValidateFace(f[k]) THEN r[k - 1]
                         ELSE IF r[k - 1] # NoFace /\ KeepsFace(f[r[k - 1]], f[k]) THEN r[k - 1]
                         ELSE k
            /\ SelectPrimaryFace(f) = r[Len(f)]
<1> DEFINE n == Len(f)
           V == 0..n
           Considered(b, k) == IF ~ValidateFace(f[k]) THEN b
                               ELSE IF b # NoFace /\ KeepsFace(f[b], f[k]) THEN b
                               ELSE k
           step == [z \in V \X Nat |-> IF z[2] \in 1..n THEN Considered(z[1], z[2]) ELSE 0]
           ids == [i \in DOMAIN f |-> i]
           Equation(it) == it = [s \in SUBSET (DOMAIN ids) |->
                                   IF s = {} THEN NoFace
                                   ELSE Considered(it[s \ {Max(s)}], ids[Max(s)])]
           fold == CHOOSE it : Equation(it)
<1>1. n \in Nat /\ DOMAIN f = 1..n /\ DOMAIN ids = 1..n /\ NoFace \in V
  BY DEF NoFace
<1>2. /\ step \in [V \X Nat -> V]
      /\ \A b \in V, k \in 1..n : step[<<b, k>>] = Considered(b, k) /\ step[<<b, k>>] \in V
  BY <1>1
<1>3. SelectPrimaryFace(f) = fold[DOMAIN ids]
  BY DEF SelectPrimaryFace, FoldLeft, MapThenFoldSet
<1>4. ASSUME NEW s \in SUBSET (1..n), s # {}
      PROVE  Max(s) \in 1..n /\ ids[Max(s)] = Max(s) /\ s \ {Max(s)} \in SUBSET (1..n)
  BY <1>1, <1>4, MaxIsGreatest
<1> HIDE DEF step, ids, Considered, n, V
<1>5. ASSUME NEW it, Folds(it, V, NoFace, step, n) PROVE Equation(it)
  <2>1. it \in [SUBSET (1..n) -> V]
    BY <1>5 DEF Folds
  <2>2. \A s \in SUBSET (1..n) : s # {} => it[s] = Considered(it[s \ {Max(s)}], ids[Max(s)])
    <3> TAKE s \in SUBSET (1..n)
    <3> HAVE s # {}
    <3>1. it[s \ {Max(s)}] \in V /\ Max(s) \in 1..n /\ ids[Max(s)] = Max(s)
      BY <1>4, <2>1
    <3>2. it[s] = step[<<it[s \ {Max(s)}], Max(s)>>]
      BY <1>5 DEF Folds
    <3> QED BY <1>2, <3>1, <3>2
  <2>3. it[{}] = NoFace
    BY <1>5 DEF Folds
  <2> QED BY <1>1, <2>1, <2>2, <2>3
<1>6. Equation(fold)
  <2>1. \E it : Equation(it)
    BY <1>1, <1>2, <1>5, FoldExists
  <2> HIDE DEF Equation
  <2> QED BY <2>1
<1> HIDE DEF fold
<1>7. \A k \in 1..n : fold[1..k] = Considered(fold[1..k - 1], k)
  <2> TAKE k \in 1..n
  <2>1. k \in Nat \ {0} /\ 1..k \in SUBSET (1..n) /\ k \in 1..k
    BY <1>1
  <2>2. Max(1..k) = k /\ (1..k) \ {k} = 1..k - 1 /\ ids[k] = k
    BY <1>1, <2>1, MaxOfInterval DEF ids
  <2> QED BY <1>1, <1>6, <2>1, <2>2
<1>8. fold[1..0] = NoFace
  <2>1. 1..0 = {}
    OBVIOUS
  <2> QED BY <1>6, <2>1
<1> DEFINE r == [k \in 0..n |-> fold[1..k]]
<1>9. r[0] = NoFace /\ SelectPrimaryFace(f) = r[n]
  BY <1>1, <1>3, <1>8
<1>10. \A k \in 1..n : r[k] = Considered(r[k - 1], k)
  <2> HIDE DEF Considered
  <2>1. \A k \in 1..n : k \in 0..n /\ k - 1 \in 0..n
    BY <1>1
  <2> QED BY <1>7, <2>1
<1> HIDE DEF r
<1> QED BY <1>9, <1>10 DEF n, Considered

\* The face found is valid, and the first of the most confident valid ones.
LEMMA PrimaryIsBest ==
  ASSUME NEW f \in Seq(Row)
  PROVE  LET p == SelectPrimaryFace(f)
         IN  /\ p \in 0..Len(f)
             /\ p = NoFace => \A i \in 1..Len(f) : ~ValidateFace(f[i])
             /\ p # NoFace =>
                   /\ ValidateFace(f[p])
                   /\ \A i \in 1..Len(f) : ValidateFace(f[i]) =>
                         \/ f[i].confidence < f[p].confidence
                         \/ f[i].confidence = f[p].confidence /\ p <= i
<1> DEFINE n == Len(f)
           Best(p, k) ==
               /\ p \in 0..k
               /\ p = NoFace => \A i \in 1..k : ~ValidateFace(f[i])
               /\ p # NoFace =>
                     /\ ValidateFace(f[p])
                     /\ \A i \in 1..k : ValidateFace(f[i]) =>
                           \/ f[i].confidence < f[p].confidence
                           \/ f[i].confidence = f[p].confidence /\ p <= i
<1>1. PICK r : /\ r[0] = NoFace
               /\ \A k \in 1..n :
                     r[k] = IF ~ValidateFace(f[k]) THEN r[k - 1]
                            ELSE IF r[k - 1] # NoFace /\ KeepsFace(f[r[k - 1]], f[k]) THEN r[k - 1]
                            ELSE k
               /\ SelectPrimaryFace(f) = r[n]
  BY PrimaryIsScan
<1>2. n \in Nat /\ \A i \in 1..n : f[i].confidence \in Int
  <2>1. \A i \in 1..n : f[i] \in Row
    OBVIOUS
  <2>2. \A row \in Row : row.confidence \in Int
    BY DEF Row
  <2> QED BY <2>1, <2>2
<1> HIDE DEF n
<1> DEFINE T == {k \in Nat : k <= n => Best(r[k], k)}
<1>3. 0 \in T
  BY <1>1 DEF NoFace
<1>4. ASSUME NEW k \in T PROVE k + 1 \in T
  <2> SUFFICES ASSUME k + 1 <= n PROVE Best(r[k + 1], k + 1)
    OBVIOUS
  <2>1. k \in Nat /\ Best(r[k], k) /\ k + 1 \in 1..n /\ (k + 1) - 1 = k
    BY <1>2
  <2>2. r[k + 1] = IF ~ValidateFace(f[k + 1]) THEN r[k]
                   ELSE IF r[k] # NoFace /\ KeepsFace(f[r[k]], f[k + 1]) THEN r[k]
                   ELSE k + 1
    BY <1>1, <2>1
  <2>3. 1..k + 1 = 1..k \cup {k + 1} /\ r[k] \in 0..k
    BY <2>1
  <2>4. CASE ~ValidateFace(f[k + 1])
    BY <2>1, <2>2, <2>3, <2>4
  <2>5. CASE ValidateFace(f[k + 1]) /\ r[k] = NoFace
    BY <2>1, <2>2, <2>3, <2>5 DEF NoFace
  <2>6. CASE ValidateFace(f[k + 1]) /\ r[k] # NoFace
    BY <1>2, <2>1, <2>2, <2>3, <2>6 DEF NoFace, KeepsFace
  <2> QED BY <2>4, <2>5, <2>6
<1>5. T = Nat
  BY <1>3, <1>4, EveryNat
<1>6. Best(r[n], n)
  BY <1>2, <1>5
<1> QED BY <1>1, <1>6 DEF n

-----------------------------------------------------------------------------
(* Similarities                                                             *)

\* The products are added one by one.
LEMMA DotIsScan ==
  ASSUME NEW a \in Seq(Int), NEW b \in Seq(Int), Len(a) = Len(b)
  PROVE  \E r : /\ r[0] = 0
                /\ \A k \in 1..Len(a) : r[k] = r[k - 1] + a[k] * b[k]
                /\ Dot(a, b) = r[Len(a)]
<1> DEFINE n == Len(a)
           products == [i \in DOMAIN a |-> a[i] * b[i]]
           step == [z \in Int \X Nat |-> IF z[2] \in 1..n THEN z[1] + products[z[2]] ELSE 0]
           Equation(it) == it = [s \in SUBSET (DOMAIN products) |->
                                   IF s = {} THEN 0
                                   ELSE it[s \ {Max(s)}] + products[Max(s)]]
           fold == CHOOSE it : Equation(it)
<1>1. /\ n \in Nat /\ DOMAIN a = 1..n /\ DOMAIN products = 1..n
      /\ \A k \in 1..n : products[k] \in Int /\ products[k] = a[k] * b[k]
  OBVIOUS
<1> HIDE DEF products, n
<1>2. /\ step \in [Int \X Nat -> Int]
      /\ \A v \in Int, k \in 1..n : step[<<v, k>>] = v + products[k]
  BY <1>1
<1>3. Dot(a, b) = fold[DOMAIN products]
  BY DEF Dot, FoldLeft, MapThenFoldSet, products
<1>4. ASSUME NEW s \in SUBSET (1..n), s # {}
      PROVE  Max(s) \in 1..n /\ s \ {Max(s)} \in SUBSET (1..n)
  BY <1>1, <1>4, MaxIsGreatest
<1> HIDE DEF step
<1>5. ASSUME NEW it, Folds(it, Int, 0, step, n) PROVE Equation(it)
  <2>1. it \in [SUBSET (1..n) -> Int] /\ it[{}] = 0
    BY <1>5 DEF Folds
  <2>2. \A s \in SUBSET (1..n) : s # {} => it[s] = it[s \ {Max(s)}] + products[Max(s)]
    <3> TAKE s \in SUBSET (1..n)
    <3> HAVE s # {}
    <3>1. it[s \ {Max(s)}] \in Int /\ Max(s) \in 1..n
      BY <1>4, <2>1
    <3>2. it[s] = step[<<it[s \ {Max(s)}], Max(s)>>]
      BY <1>5 DEF Folds
    <3> QED BY <1>2, <3>1, <3>2
  <2> QED BY <1>1, <2>1, <2>2
<1>6. Equation(fold)
  <2>0. 0 \in Int /\ n \in Nat /\ step \in [Int \X Nat -> Int]
    BY <1>1, <1>2
  <2>1. \E it : Folds(it, Int, 0, step, n)
    <3> HIDE DEF fold, Equation
    <3> QED BY <2>0, FoldExists
  <2>2. \E it : Equation(it)
    BY <1>5, <2>1
  <2> HIDE DEF Equation
  <2> QED BY <2>2
<1> HIDE DEF fold
<1>7. \A k \in 1..n : fold[1..k] = fold[1..k - 1] + products[k]
  <2> TAKE k \in 1..n
  <2>1. k \in Nat \ {0} /\ 1..k \in SUBSET (1..n) /\ k \in 1..k
    BY <1>1
  <2>2. Max(1..k) = k /\ (1..k) \ {k} = 1..k - 1
    BY <2>1, MaxOfInterval
  <2> QED BY <1>1, <1>6, <2>1, <2>2
<1>8. fold[1..0] = 0
  <2>1. 1..0 = {}
    OBVIOUS
  <2> QED BY <1>6, <2>1
<1> DEFINE r == [k \in 0..n |-> fold[1..k]]
<1>9. r[0] = 0 /\ Dot(a, b) = r[n]
  BY <1>1, <1>3, <1>8
<1>10. \A k \in 1..n : r[k] = r[k - 1] + a[k] * b[k]
  <2>1. \A k \in 1..n : k \in 0..n /\ k - 1 \in 0..n
    BY <1>1
  <2> QED BY <1>1, <1>7, <2>1
<1> HIDE DEF r
<1> QED BY <1>9, <1>10 DEF n

\* A sum of products is an integer, one of squares is no less than 0.
LEMMA DotTyped ==
  ASSUME NEW a \in Seq(Int), NEW b \in Seq(Int), Len(a) = Len(b)
  PROVE  Dot(a, b) \in Int /\ (a = b => Dot(a, b) >= 0)
<1> DEFINE n == Len(a)
<1>1. PICK r : /\ r[0] = 0
               /\ \A k \in 1..n : r[k] = r[k - 1] + a[k] * b[k]
               /\ Dot(a, b) = r[n]
  BY DotIsScan
<1>2. n \in Nat /\ \A k \in 1..n : a[k] \in Int /\ b[k] \in Int
  OBVIOUS
<1> HIDE DEF n
<1> DEFINE T == {k \in Nat : k <= n => r[k] \in Int /\ (a = b => r[k] >= 0)}
<1>3. 0 \in T
  BY <1>1
<1>4. ASSUME NEW k \in T PROVE k + 1 \in T
  <2> SUFFICES ASSUME k + 1 <= n PROVE r[k + 1] \in Int /\ (a = b => r[k + 1] >= 0)
    OBVIOUS
  <2>1. k + 1 \in 1..n /\ (k + 1) - 1 = k /\ r[k] \in Int /\ (a = b => r[k] >= 0)
    BY <1>2
  <2>2. a[k + 1] * b[k + 1] \in Int /\ (a = b => a[k + 1] * b[k + 1] >= 0)
    <3>1. \A x \in Int : x * x >= 0
      OBVIOUS
    <3> QED BY <1>2, <2>1, <3>1
  <2>3. r[k + 1] = r[k] + a[k + 1] * b[k + 1]
    BY <1>1, <2>1
  <2> DEFINE x == a[k + 1] * b[k + 1]
  <2> HIDE DEF x
  <2> QED BY <2>1, <2>2, <2>3 DEF x
<1>5. T = Nat
  BY <1>3, <1>4, EveryNat
<1>6. n \in T
  BY <1>2, <1>5
<1>7. r[n] \in Int /\ (a = b => r[n] >= 0)
  BY <1>2, <1>6
<1> HIDE DEF T
<1> QED BY <1>1, <1>7

Fraction == [n : Int, d : Nat \ {0}]

\* A similarity is a fraction.
LEMMA SimilarityTyped ==
  ASSUME NEW a \in Seq(Int), NEW b \in Seq(Int), Len(a) = Len(b)
  PROVE  CosineSimilarity(a, b) \in Fraction
<1> DEFINE dot == Dot(a, b)
           norms == Dot(a, a) * Dot(b, b)
<1>1. dot \in Int /\ Dot(a, a) \in Nat /\ Dot(b, b) \in Nat
  BY DotTyped
<1>2. norms \in Nat /\ dot * dot \in Int /\ -dot * dot \in Int
  BY <1>1
<1>3. CosineSimilarity(a, b) =
         IF norms = 0 THEN [n |-> 0, d |-> 1]
         ELSE [n |-> IF dot < 0 THEN -dot * dot ELSE dot * dot, d |-> norms]
  BY DEF CosineSimilarity
<1> HIDE DEF dot, norms
<1> QED BY <1>2, <1>3 DEF Fraction

\* Fractions are ordered as numbers are.
LEMMA FractionsOrdered ==
  ASSUME NEW s \in Fraction, NEW t \in Fraction, NEW u \in Fraction
  PROVE  /\ AtLeast(s, t) \/ AtLeast(t, s)
         /\ AtLeast(s, t) /\ AtLeast(t, u) => AtLeast(s, u)
<1>1. /\ s.n \in Int /\ s.d \in Nat \ {0} /\ t.n \in Int /\ t.d \in Nat \ {0}
      /\ u.n \in Int /\ u.d \in Nat \ {0}
  BY DEF Fraction
<1>2. s.n * t.d \in Int /\ t.n * s.d \in Int /\ s.n * u.d \in Int /\ u.n * s.d \in Int
  BY <1>1
<1>3. ASSUME s.n * t.d >= t.n * s.d, t.n * u.d >= u.n * t.d PROVE s.n * u.d >= u.n * s.d
  <2>1. (s.n * t.d) * u.d >= (t.n * s.d) * u.d
    BY <1>1, <1>2, <1>3, Products
  <2>2. (t.n * u.d) * s.d >= (u.n * t.d) * s.d
    BY <1>1, <1>3, Products
  <2>3. (t.n * s.d) * u.d = (t.n * u.d) * s.d
    BY <1>1
  <2>4. (s.n * u.d) * t.d >= (u.n * s.d) * t.d
    BY <1>1, <2>1, <2>2, <2>3
  <2> SUFFICES ASSUME s.n * u.d < u.n * s.d PROVE FALSE
    BY <1>2
  <2>5. (u.n * s.d - s.n * u.d) * t.d > 0
    BY <1>1, <1>2
  <2> QED BY <1>1, <1>2, <2>4, <2>5
<1> QED BY <1>2, <1>3 DEF AtLeast

\* One for each candidate
LEMMA SimilaritiesTyped ==
  ASSUME NEW q \in Seq(Int), NEW c \in Seq(Seq(Int)), Comparable(q, c)
  PROVE  /\ DOMAIN Similarities(q, c) = 1..Len(c)
         /\ \A i \in 1..Len(c) : /\ Similarities(q, c)[i] = CosineSimilarity(q, c[i])
                                 /\ Similarities(q, c)[i] \in Fraction
<1>1. \A i \in 1..Len(c) : c[i] \in Seq(Int) /\ Len(c[i]) = Len(q)
  BY DEF Comparable
<1> QED BY <1>1, SimilarityTyped DEF Similarities

\* Each candidate is compared in turn.
LEMMA MatchIsScan ==
  ASSUME NEW q, NEW c \in Seq(Seq(Int))
  PROVE  \E r :
            /\ r[0] = NoMatch
            /\ \A k \in 1..Len(c) :
                  r[k] = IF r[k - 1] # NoMatch
                            /\ Keeps(Similarities(q, c)[r[k - 1]], Similarities(q, c)[k])
                         THEN r[k - 1] ELSE k
            /\ FindBestMatch(q, c) = r[Len(c)]
<1> DEFINE n == Len(c)
           V == 0..n
           sims == Similarities(q, c)
           Considered(b, k) == IF b # NoMatch /\ Keeps(sims[b], sims[k]) THEN b ELSE k
           step == [z \in V \X Nat |-> IF z[2] \in 1..n THEN Considered(z[1], z[2]) ELSE 0]
           ids == [i \in DOMAIN c |-> i]
           Equation(it) == it = [s \in SUBSET (DOMAIN ids) |->
                                   IF s = {} THEN NoMatch
                                   ELSE Considered(it[s \ {Max(s)}], ids[Max(s)])]
           fold == CHOOSE it : Equation(it)
<1>1. n \in Nat /\ DOMAIN c = 1..n /\ DOMAIN ids = 1..n /\ NoMatch \in V
  BY DEF NoMatch
<1>2. /\ step \in [V \X Nat -> V]
      /\ \A b \in V, k \in 1..n : step[<<b, k>>] = Considered(b, k) /\ step[<<b, k>>] \in V
  BY <1>1
<1>3. FindBestMatch(q, c) = fold[DOMAIN ids]
  BY DEF FindBestMatch, FoldLeft, MapThenFoldSet
<1>4. ASSUME NEW s \in SUBSET (1..n), s # {}
      PROVE  Max(s) \in 1..n /\ ids[Max(s)] = Max(s) /\ s \ {Max(s)} \in SUBSET (1..n)
  BY <1>1, <1>4, MaxIsGreatest
<1> HIDE DEF step, ids, Considered, n, V
<1>5. ASSUME NEW it, Folds(it, V, NoMatch, step, n) PROVE Equation(it)
  <2>1. it \in [SUBSET (1..n) -> V]
    BY <1>5 DEF Folds
  <2>2. \A s \in SUBSET (1..n) : s # {} => it[s] = Considered(it[s \ {Max(s)}], ids[Max(s)])
    <3> TAKE s \in SUBSET (1..n)
    <3> HAVE s # {}
    <3>1. it[s \ {Max(s)}] \in V /\ Max(s) \in 1..n /\ ids[Max(s)] = Max(s)
      BY <1>4, <2>1
    <3>2. it[s] = step[<<it[s \ {Max(s)}], Max(s)>>]
      BY <1>5 DEF Folds
    <3> QED BY <1>2, <3>1, <3>2
  <2>3. it[{}] = NoMatch
    BY <1>5 DEF Folds
  <2> QED BY <1>1, <2>1, <2>2, <2>3
<1>6. Equation(fold)
  <2>1. \E it : Equation(it)
    BY <1>1, <1>2, <1>5, FoldExists
  <2> HIDE DEF Equation
  <2> QED BY <2>1
<1> HIDE DEF fold
<1>7. \A k \in 1..n : fold[1..k] = Considered(fold[1..k - 1], k)
  <2> TAKE k \in 1..n
  <2>1. k \in Nat \ {0} /\ 1..k \in SUBSET (1..n) /\ k \in 1..k
    BY <1>1
  <2>2. Max(1..k) = k /\ (1..k) \ {k} = 1..k - 1 /\ ids[k] = k
    BY <1>1, <2>1, MaxOfInterval DEF ids
  <2> QED BY <1>1, <1>6, <2>1, <2>2
<1>8. fold[1..0] = NoMatch
  <2>1. 1..0 = {}
    OBVIOUS
  <2> QED BY <1>6, <2>1
<1> DEFINE r == [k \in 0..n |-> fold[1..k]]
<1>9. r[0] = NoMatch /\ FindBestMatch(q, c) = r[n]
  BY <1>1, <1>3, <1>8
<1>10. \A k \in 1..n : r[k] = Considered(r[k - 1], k)
  <2> HIDE DEF Considered
  <2>1. \A k \in 1..n : k \in 0..n /\ k - 1 \in 0..n
    BY <1>1
  <2> QED BY <1>7, <2>1
<1> HIDE DEF r
<1> QED BY <1>9, <1>10 DEF n, Considered

\* The candidate found is the first of those no other is more similar than.
LEMMA MatchIsBest ==
  ASSUME NEW q \in Seq(Int), NEW c \in Seq(Seq(Int)), Comparable(q, c), c # <<>>
  PROVE  LET b == FindBestMatch(q, c)
             sims == Similarities(q, c)
         IN  /\ b \in 1..Len(c)
             /\ \A i \in 1..Len(c) : /\ AtLeast(sims[b], sims[i])
                                     /\ AtLeast(sims[i], sims[b]) => b <= i
<1> DEFINE n == Len(c)
           sims == Similarities(q, c)
           Best(b, k) == /\ b \in 1..k
                         /\ \A i \in 1..k : /\ AtLeast(sims[b], sims[i])
                                            /\ AtLeast(sims[i], sims[b]) => b <= i
<1>1. PICK r : /\ r[0] = NoMatch
               /\ \A k \in 1..n :
                     r[k] = IF r[k - 1] # NoMatch /\ Keeps(sims[r[k - 1]], sims[k])
                            THEN r[k - 1] ELSE k
               /\ FindBestMatch(q, c) = r[n]
  BY MatchIsScan
<1>2. n \in Nat /\ n # 0 /\ \A i \in 1..n : sims[i] \in Fraction
  BY SimilaritiesTyped
<1> HIDE DEF n, sims
<1> DEFINE T == {k \in Nat : k # 0 /\ k <= n => Best(r[k], k)}
<1>3. 0 \in T
  OBVIOUS
<1>4. ASSUME NEW k \in T PROVE k + 1 \in T
  <2> SUFFICES ASSUME k + 1 <= n PROVE Best(r[k + 1], k + 1)
    OBVIOUS
  <2>0. k \in Nat /\ n \in Nat /\ (k # 0 => Best(r[k], k))
    BY <1>2
  <2> HIDE DEF T, Best
  <2>1. k \in Nat /\ k + 1 \in 1..n /\ (k + 1) - 1 = k /\ 1..k + 1 = 1..k \cup {k + 1}
    BY <2>0
  <2> USE DEF Best
  <2>2. r[k + 1] = IF r[k] # NoMatch /\ Keeps(sims[r[k]], sims[k + 1]) THEN r[k] ELSE k + 1
    BY <1>1, <2>1
  <2>3. AtLeast(sims[k + 1], sims[k + 1])
    BY <1>2, <2>1, FractionsOrdered
  <2>4. CASE k = 0
    BY <1>1, <2>1, <2>2, <2>3, <2>4 DEF NoMatch
  <2>5. CASE k # 0
    <3>1. Best(r[k], k) /\ r[k] \in 1..k /\ r[k] # NoMatch /\ r[k] \in 1..n
      BY <1>2, <2>0, <2>1, <2>5 DEF NoMatch
    <3>2. CASE AtLeast(sims[r[k]], sims[k + 1])
      BY <2>1, <2>2, <3>1, <3>2 DEF Keeps
    <3>3. CASE ~AtLeast(sims[r[k]], sims[k + 1])
      <4>1. r[k + 1] = k + 1 /\ AtLeast(sims[k + 1], sims[r[k]])
        BY <1>2, <2>1, <2>2, <3>1, <3>3, FractionsOrdered DEF Keeps
      <4>2. \A i \in 1..k : /\ i \in 1..n /\ AtLeast(sims[k + 1], sims[i])
                            /\ ~AtLeast(sims[i], sims[k + 1])
        <5> TAKE i \in 1..k
        <5>1. i \in 1..n /\ AtLeast(sims[r[k]], sims[i])
          BY <2>1, <3>1, <1>2
        <5> QED BY <1>2, <2>1, <3>1, <3>3, <4>1, <5>1, FractionsOrdered
      <4> QED BY <2>1, <2>3, <4>1, <4>2
    <3> QED BY <3>2, <3>3
  <2> QED BY <2>4, <2>5
<1>5. T = Nat
  BY <1>3, <1>4, EveryNat
<1>6. n \in T
  BY <1>2, <1>5
<1>7. Best(r[n], n)
  BY <1>2, <1>6
<1> QED BY <1>1, <1>7 DEF n, sims
-----------------------------------------------------------------------------
(* The list of all matches                                                  *)

\* A strict order of the whole of 1..n
StrictOrder(before, n) ==
    /\ before \in SUBSET ((1..n) \X (1..n))
    /\ \A i, j \in 1..n : i # j => (<<i, j>> \in before \/ <<j, i>> \in before)
    /\ \A i \in 1..n : <<i, i>> \notin before
    /\ \A i, j, k \in 1..n :
          <<i, j>> \in before /\ <<j, k>> \in before => <<i, k>> \in before

\* A set of indices has a number of members.
LEMMA PartFinite ==
  ASSUME NEW n \in Nat, NEW S \in SUBSET (1..n)
  PROVE  IsFiniteSet(S) /\ Cardinality(S) \in Nat
<1>1. IsFiniteSet(1..n)
  BY FS_Interval
<1>2. IsFiniteSet(S)
  BY <1>1, FS_Subset
<1> QED BY <1>2, FS_CardinalityType

\* Every part of the list has a last member.
LEMMA LastExists ==
  ASSUME NEW n \in Nat, NEW before, StrictOrder(before, n),
         NEW S \in SUBSET (1..n), S # {}
  PROVE  \E m \in S : \A x \in S \ {m} : <<x, m>> \in before
<1> DEFINE Has(s) == \E m \in s : \A x \in s \ {m} : <<x, m>> \in before
           T == {k \in Nat : \A s \in SUBSET (1..n) : Cardinality(s) = k /\ s # {} => Has(s)}
<1>1. \A s \in SUBSET (1..n) : IsFiniteSet(s) /\ Cardinality(s) \in Nat
  BY PartFinite
<1>2. 0 \in T
  <2>1. \A s \in SUBSET (1..n) : Cardinality(s) = 0 => s = {}
    BY <1>1, FS_EmptySet
  <2> HIDE DEF Has
  <2> QED BY <2>1
<1>3. ASSUME NEW k \in T PROVE k + 1 \in T
  <2> SUFFICES ASSUME NEW s \in SUBSET (1..n), Cardinality(s) = k + 1, s # {} PROVE Has(s)
    OBVIOUS
  <2>1. PICK x \in s : TRUE
    OBVIOUS
  <2>2. s \ {x} \in SUBSET (1..n) /\ Cardinality(s \ {x}) = k
    <3>1. Cardinality(s \ {x}) = Cardinality(s) - 1
      BY <1>1, <2>1, FS_RemoveElement
    <3> QED BY <3>1
  <2>3. CASE s \ {x} = {}
    BY <2>1, <2>3
  <2>4. CASE s \ {x} # {}
    <3>1. Has(s \ {x})
      BY <2>2, <2>4
    <3>2. PICK m \in s \ {x} : \A y \in (s \ {x}) \ {m} : <<y, m>> \in before
      BY <3>1
    <3>3. CASE <<x, m>> \in before
      BY <3>2, <3>3
    <3>4. CASE <<m, x>> \in before
      <4>1. \A y \in s \ {x} : <<y, x>> \in before
        BY <2>1, <3>2, <3>4 DEF StrictOrder
      <4> QED BY <2>1, <4>1
    <3> QED BY <2>1, <3>2, <3>3, <3>4 DEF StrictOrder
  <2> QED BY <2>3, <2>4
<1>4. Cardinality(S) \in T
  BY <1>1, <1>2, <1>3, EveryNat
<1> QED BY <1>4

\* Every set of indices can be listed in the order.
LEMMA ListExists ==
  ASSUME NEW n \in Nat, NEW before, StrictOrder(before, n), NEW S \in SUBSET (1..n)
  PROVE  \E o \in [1..Cardinality(S) -> S] :
            \A i, j \in DOMAIN o : i < j => <<o[i], o[j]>> \in before
<1> DEFINE Lists(o, s) == /\ o \in [1..Cardinality(s) -> s]
                          /\ \A i, j \in 1..Cardinality(s) : i < j => <<o[i], o[j]>> \in before
           T == {k \in Nat : \A s \in SUBSET (1..n) : Cardinality(s) = k => \E o : Lists(o, s)}
<1>1. \A s \in SUBSET (1..n) : IsFiniteSet(s) /\ Cardinality(s) \in Nat
  BY PartFinite
<1>2. 0 \in T
  <2> SUFFICES ASSUME NEW s \in SUBSET (1..n), Cardinality(s) = 0 PROVE \E o : Lists(o, s)
    OBVIOUS
  <2>1. Lists([i \in 1..0 |-> 0], s)
    OBVIOUS
  <2> QED BY <2>1
<1>3. ASSUME NEW k \in T PROVE k + 1 \in T
  <2> SUFFICES ASSUME NEW s \in SUBSET (1..n), Cardinality(s) = k + 1 PROVE \E o : Lists(o, s)
    OBVIOUS
  <2>0. k \in Nat /\ s # {}
    BY FS_EmptySet
  <2>1. PICK m \in s : \A x \in s \ {m} : <<x, m>> \in before
    BY <2>0, LastExists
  <2>2. s \ {m} \in SUBSET (1..n) /\ Cardinality(s \ {m}) = k
    <3>1. Cardinality(s \ {m}) = Cardinality(s) - 1
      BY <1>1, <2>1, FS_RemoveElement
    <3> QED BY <2>0, <3>1
  <2>3. PICK o : Lists(o, s \ {m})
    BY <2>2
  <2> DEFINE longer == [i \in 1..k + 1 |-> IF i = k + 1 THEN m ELSE o[i]]
  <2>4. \A i \in 1..k : o[i] \in s \ {m}
    BY <2>2, <2>3
  <2>5. \A i \in 1..k + 1 : i \in 1..k \/ i = k + 1
    BY <2>0
  <2>6. longer \in [1..k + 1 -> s]
    BY <2>1, <2>4, <2>5
  <2>7. ASSUME NEW i \in 1..k + 1, NEW j \in 1..k + 1, i < j
        PROVE  <<longer[i], longer[j]>> \in before
    <3>1. i \in 1..k /\ longer[i] = o[i]
      BY <2>0, <2>7
    <3>2. CASE j = k + 1
      BY <2>1, <2>4, <3>1, <3>2
    <3>3. CASE j \in 1..k
      <4>1. longer[j] = o[j]
        BY <2>0, <3>3
      <4>2. <<o[i], o[j]>> \in before
        BY <2>2, <2>3, <2>7, <3>1, <3>3
      <4> QED BY <3>1, <4>1, <4>2
    <3> QED BY <2>5, <3>2, <3>3
  <2> HIDE DEF longer
  <2>8. Lists(longer, s)
    BY <2>6, <2>7
  <2> QED BY <2>8
<1>4. Cardinality(S) \in T
  BY <1>1, <1>2, <1>3, EveryNat
<1>5. PICK o : Lists(o, S)
  BY <1>4
<1> QED BY <1>5

\* The list of all matches begins with the best candidate, if that one passes.
LEMMA AllMatchesHead ==
  ASSUME NEW q \in Seq(Int), NEW c \in Seq(Seq(Int)), Comparable(q, c),
         NEW threshold \in Fraction, NEW b \in 1..Len(c),
         \A i \in 1..Len(c) : /\ AtLeast(Similarities(q, c)[b], Similarities(q, c)[i])
                              /\ AtLeast(Similarities(q, c)[i], Similarities(q, c)[b]) => b <= i,
         AtLeast(Similarities(q, c)[b], threshold)
  PROVE  FindAllMatches(q, c, threshold)[1] = b
<1> DEFINE n == Len(c)
           sims == Similarities(q, c)
           passing == {i \in DOMAIN c : AtLeast(sims[i], threshold)}
           Before(i, j) == AtLeast(sims[i], sims[j]) /\ (AtLeast(sims[j], sims[i]) => i < j)
           Orders(o) == /\ o \in [1..Cardinality(passing) -> passing]
                        /\ \A i, j \in DOMAIN o : i < j => Before(o[i], o[j])
           order == CHOOSE o \in [1..Cardinality(passing) -> passing] :
                        \A i, j \in DOMAIN o : i < j => Before(o[i], o[j])
           before == {z \in (1..n) \X (1..n) : Before(z[1], z[2])}
<1>1. n \in Nat /\ DOMAIN c = 1..n /\ \A i \in 1..n : sims[i] \in Fraction
  BY SimilaritiesTyped
<1>2. FindAllMatches(q, c, threshold) = order
  BY DEF FindAllMatches
<1>3. passing \in SUBSET (1..n) /\ b \in passing
  BY <1>1
<1> HIDE DEF sims, n, passing
<1>4. \A i, j \in 1..n : <<i, j>> \in before <=> Before(i, j)
  OBVIOUS
<1>5. StrictOrder(before, n)
  <2>1. before \in SUBSET ((1..n) \X (1..n))
    OBVIOUS
  <2> HIDE DEF before
  <2>2. \A i, j \in 1..n : i # j => (Before(i, j) \/ Before(j, i))
    BY <1>1, FractionsOrdered
  <2>3. \A i \in 1..n : ~Before(i, i)
    BY <1>1, FractionsOrdered
  <2>4. ASSUME NEW i \in 1..n, NEW j \in 1..n, NEW k \in 1..n, Before(i, j), Before(j, k)
        PROVE  Before(i, k)
    <3>1. AtLeast(sims[i], sims[k])
      BY <1>1, <2>4, FractionsOrdered
    <3>2. ASSUME AtLeast(sims[k], sims[i]) PROVE i < k
      <4>1. AtLeast(sims[k], sims[j]) /\ AtLeast(sims[j], sims[i])
        BY <1>1, <2>4, <3>2, FractionsOrdered
      <4> QED BY <1>1, <2>4, <4>1
    <3> QED BY <3>1, <3>2
  <2> HIDE DEF Before
  <2> QED BY <1>4, <2>1, <2>2, <2>3, <2>4 DEF StrictOrder
<1>6. Orders(order)
  <2>1. PICK o \in [1..Cardinality(passing) -> passing] :
            \A i, j \in DOMAIN o : i < j => <<o[i], o[j]>> \in before
    BY <1>1, <1>3, <1>5, ListExists
  <2>2. \A i, j \in DOMAIN o : i < j => Before(o[i], o[j])
    <3> HIDE DEF before, Before
    <3> QED BY <1>3, <1>4, <2>1
  <2> HIDE DEF Before
  <2> QED BY <2>2
<1> HIDE DEF order
<1>7. IsFiniteSet(passing) /\ Cardinality(passing) \in Nat
  BY <1>1, <1>3, PartFinite
<1> DEFINE m == Cardinality(passing)
<1>8. m \in Nat /\ order \in [1..m -> passing]
  BY <1>6, <1>7
<1> HIDE DEF m
<1>9. \A i, j \in 1..m : order[i] = order[j] => i = j
  <2> SUFFICES ASSUME NEW i \in 1..m, NEW j \in 1..m, order[i] = order[j], i < j PROVE FALSE
    BY <1>8
  <2>1. Before(order[i], order[j]) /\ order[i] \in 1..n
    BY <1>3, <1>6, <1>8
  <2> QED BY <1>1, <2>1
<1>10. order \in Surjection(1..m, passing)
  <2>1. order \in Injection(1..m, passing)
    BY <1>8, <1>9, Fun_IsInj
  <2>2. Cardinality(1..m) = m
    BY <1>8, FS_Interval
  <2> QED BY <1>7, <2>1, <2>2, FS_Injection DEF m
<1>11. PICK p \in 1..m : order[p] = b
  <2>1. \A t \in passing : \E p \in 1..m : order[p] = t
    BY <1>10 DEF Surjection
  <2> QED BY <1>3, <2>1
<1>12. CASE p = 1
  BY <1>2, <1>11, <1>12
<1>13. CASE p # 1
  <2>1. 1 \in 1..m /\ 1 < p
    BY <1>8, <1>13
  <2>2. Before(order[1], order[p]) /\ order[1] \in 1..n
    BY <1>3, <1>6, <1>8, <2>1
  <2>3. AtLeast(sims[b], sims[order[1]]) /\ (AtLeast(sims[order[1]], sims[b]) => b <= order[1])
    BY <2>2 DEF sims, n
  <2> QED BY <1>1, <1>11, <2>2, <2>3
<1> QED BY <1>12, <1>13

-----------------------------------------------------------------------------
(* The inductive invariant                                                  *)

\* The assumptions on the constants
LEMMA Config ==
  /\ Frames \subseteq Seq(Row) /\ Setups \subseteq Setup
  /\ MaxFrames \in Nat \ {0} /\ Similarity \in [n : Int, d : Nat \ {0}]
  /\ {ScoreThreshold, LivenessThreshold} \subseteq 0..100
  /\ None \notin Row /\ None \notin Reasons
  BY CaptureAssumption, InputsAssumption, NoneAssumption

\* The counters, one by one
LEMMA Tallied ==
  ASSUME TypeOK
  PROVE  /\ stats.total \in Nat /\ stats.frame_errors \in Nat /\ stats.no_face \in Nat
         /\ stats.detected \in Nat /\ stats.invalid \in Nat /\ stats.valid \in Nat
         /\ stats.matched \in Nat /\ stats.unmatched \in Nat /\ stats.spoof \in Nat
         /\ stats.anti_spoof_errors \in Nat /\ stats.max_streak \in Nat
         /\ streak \in Nat
<1>1. \A c \in Counters : stats[c] \in Nat
  BY Config DEF TypeOK
<1>2. stats.max_streak \in Nat
  BY <1>1 DEF Counters
<1>3. streak \in Nat
  BY <1>2 DEF TypeOK
<1> QED BY <1>1, <1>2, <1>3 DEF Counters

\* What Add does to each counter
LEMMA Added ==
  ASSUME NEW names
  PROVE  \A c \in Counters : Add(names)[c] = IF c \in names THEN stats[c] + 1 ELSE stats[c]
  BY DEF Add

\* The row looked at is a valid one of the frame.
LEMMA PrimaryKnown ==
  ASSUME FrameInv, Looking
  PROVE  /\ rows \in Seq(Row) /\ face \in 1..Len(rows) /\ Primary \in Row
         /\ face = SelectPrimaryFace(rows) /\ ValidateFace(Primary)
<1>1. rows \in Frames /\ rows \in Seq(Row)
  BY Config DEF FrameInv
<1>2. face = SelectPrimaryFace(rows) /\ face # NoFace
  BY <1>1 DEF FrameInv, PrimaryOf
<1>3. face \in 0..Len(rows) /\ ValidateFace(rows[face])
  BY <1>1, <1>2, PrimaryIsBest
<1>4. face \in 1..Len(rows)
  BY <1>2, <1>3 DEF NoFace
<1>5. rows[face] \in Row
  BY <1>1, <1>4
<1> QED BY <1>1, <1>2, <1>3, <1>4, <1>5 DEF Primary

\* The invariant holds at the start.
LEMMA IInvInit == Init => IInv
<1> SUFFICES ASSUME Init PROVE IInv
  OBVIOUS
<1> USE DEF Init
<1>0. \A c \in Counters : stats[c] = 0
  OBVIOUS
<1>c. stats.max_streak = 0 /\ stats.anti_spoof_errors = 0 /\ stats.total = 0
      /\ stats.detected = 0 /\ stats.invalid = 0 /\ stats.valid = 0 /\ stats.matched = 0
      /\ stats.unmatched = 0 /\ stats.spoof = 0 /\ stats.frame_errors = 0 /\ stats.no_face = 0
  BY <1>0 DEF Counters
<1>1. TypeOK
  <2>1. \A c \in Counters : stats[c] \in 0..MaxFrames
    BY <1>0, Config
  <2>2. face \in 0..Len(rows) /\ rows \in Frames \cup {<<>>}
    BY DEF NoFace
  <2>3. streak \in 0..stats.max_streak /\ stats.anti_spoof_errors <= MAX_ANTI_SPOOF_ERRORS
    BY <1>c DEF MAX_ANTI_SPOOF_ERRORS
  <2>4. (stop # None) = (pc = "done")
    OBVIOUS
  <2> QED BY <2>1, <2>2, <2>3, <2>4 DEF TypeOK
<1>2. FrameInv /\ MatchInv
  BY DEF FrameInv, MatchInv, Looking
<1>3. SavedInv
  BY DEF SavedInv
<1>4. CountInv
  BY <1>c DEF CountInv, Uncounted, Unjudged, MAX_ANTI_SPOOF_ERRORS
<1>5. TraceInv
  <2>1. \A k : Fates(k) = {}
    BY DEF Fates
  <2>2. Cardinality({}) = 0
    BY FS_EmptySet
  <2>3. Len(trace) = 0 /\ trace \in Seq(Judged \cup {"unread", "noface", "invalid", "failed"})
    OBVIOUS
  <2>4. Uncounted = 0 /\ Unjudged = 0
    BY DEF Uncounted, Unjudged
  <2>5. Cardinality(Fates({"match"})) = 0 /\ Cardinality(Fates(Judged)) = 0
        /\ Cardinality(Fates({"broken"})) = 0
    BY <2>1, <2>2
  <2> QED BY <1>c, <2>3, <2>4, <2>5 DEF TraceInv
<1>6. RunInv
  BY <1>c DEF RunInv
<1>7. MissingInv
  <2>1. Fates({"failed"}) = {} /\ Uncounted = 0
    BY DEF Fates, Uncounted
  <2>2. Cardinality(Fates({"failed"})) = 0
    BY <2>1, FS_EmptySet
  <2> QED BY <1>c, <2>1, <2>2 DEF MissingInv
<1> QED BY <1>1, <1>2, <1>3, <1>4, <1>5, <1>6, <1>7 DEF IInv

-----------------------------------------------------------------------------
(* The loop                                                                 *)

\* Type correctness in two parts: what is looked at, and the counters
LookOK ==
    /\ setup \in Setups
    /\ pc \in {"start", "head", "restart", "frame", "liveness", "judge", "view", "save", "done"}
    /\ detector \in BOOLEAN /\ allowed \in BOOLEAN /\ asked \in BOOLEAN
    /\ rows \in Frames \cup {<<>>} /\ face \in 0..Len(rows)
    /\ (stop # None) = (pc = "done")

StatsOK ==
    /\ \A c \in Counters : stats[c] \in 0..MaxFrames
    /\ stats.anti_spoof_errors <= MAX_ANTI_SPOOF_ERRORS
    /\ streak \in 0..stats.max_streak

\* Each step keeps the loop's variables in their sets.
LEMMA LookStep == LookOK /\ [Next]_vars => LookOK'
<1> SUFFICES ASSUME LookOK, [Next]_vars PROVE LookOK'
  OBVIOUS
<1>a. /\ \A r \in Reasons : r # None
      /\ \A s \in Setups : s.anti_spoof \in BOOLEAN /\ s.debug \in BOOLEAN /\ s.view \in BOOLEAN
  BY Config DEF Setup
<1>b. \A f \in Frames : f \in Frames \cup {<<>>} /\ PrimaryOf[f] \in 0..Len(f)
  BY Config, PrimaryIsBest DEF PrimaryOf
<1>c. 0 \in 0..Len(<<>>) /\ NoFace = 0
  BY DEF NoFace
<1> USE <1>a, <1>b, <1>c DEF LookOK, looked, kept, tally, Go, End, Reasons, GivenUp,
         Forget, NextFrame, KeysRead
<1>1. ASSUME StartFails PROVE LookOK'
  BY <1>1 DEF StartFails
<1>2. ASSUME ExtractFails PROVE LookOK'
  BY <1>2 DEF ExtractFails
<1>3. ASSUME TestStarts PROVE LookOK'
  BY <1>3 DEF TestStarts
<1>4. ASSUME TestStops PROVE LookOK'
  BY <1>4 DEF TestStops
<1>5. ASSUME TestNextFrame PROVE LookOK'
  BY <1>5 DEF TestNextFrame
<1>6. ASSUME TestRestart PROVE LookOK'
  BY <1>6 DEF TestRestart
<1>7. ASSUME TestNoFrame PROVE LookOK'
  BY <1>7 DEF TestNoFrame
<1>8. ASSUME TestNoFace PROVE LookOK'
  BY <1>8 DEF TestNoFace
<1>9. ASSUME TestInvalidFace PROVE LookOK'
  BY <1>9 DEF TestInvalidFace
<1>10. ASSUME TestFaceFound PROVE LookOK'
  BY <1>10 DEF TestFaceFound
<1>11. ASSUME TestLivenessPasses PROVE LookOK'
  BY <1>11 DEF TestLivenessPasses
<1>12. ASSUME TestSpoof PROVE LookOK'
  BY <1>12 DEF TestSpoof
<1>13. ASSUME TestLivenessBreaks PROVE LookOK'
  BY <1>13 DEF TestLivenessBreaks
<1>14. ASSUME TestJudge PROVE LookOK'
  BY <1>14 DEF TestJudge
<1>15. ASSUME TestEndOfFrame PROVE LookOK'
  BY <1>15 DEF TestEndOfFrame
<1>16. ASSUME AddStarts PROVE LookOK'
  BY <1>16 DEF AddStarts
<1>17. ASSUME AddStops PROVE LookOK'
  BY <1>17 DEF AddStops
<1>18. ASSUME AddNextFrame PROVE LookOK'
  BY <1>18 DEF AddNextFrame
<1>19. ASSUME AddNoFrame PROVE LookOK'
  BY <1>19 DEF AddNoFrame
<1>20. ASSUME AddNoFace PROVE LookOK'
  BY <1>20 DEF AddNoFace
<1>21. ASSUME AddFaceFound PROVE LookOK'
  BY <1>21 DEF AddFaceFound
<1>22. ASSUME AddLivenessPasses PROVE LookOK'
  BY <1>22 DEF AddLivenessPasses
<1>23. ASSUME AddSpoof PROVE LookOK'
  BY <1>23 DEF AddSpoof
<1>24. ASSUME AddLivenessBreaks PROVE LookOK'
  BY <1>24 DEF AddLivenessBreaks
<1>25. ASSUME AddKeep PROVE LookOK'
  BY <1>25 DEF AddKeep
<1>26. ASSUME AddEndOfFrame PROVE LookOK'
  BY <1>26 DEF AddEndOfFrame
<1>27. ASSUME AddSave PROVE LookOK'
  BY <1>27 DEF AddSave
<1>28. ASSUME UNCHANGED vars PROVE LookOK'
  BY <1>28 DEF vars
<1>29. ASSUME TestSelectFails PROVE LookOK'
  BY <1>29 DEF TestSelectFails
<1> QED BY <1>1, <1>2, <1>3, <1>4, <1>5, <1>6, <1>7, <1>8, <1>9, <1>10, <1>11, <1>12, <1>13,
           <1>14, <1>15, <1>16, <1>17, <1>18, <1>19, <1>20, <1>21, <1>22, <1>23, <1>24, <1>25,
           <1>26, <1>27, <1>28, <1>29
  DEF Next, Test, AddFace

\* Each counter named goes up by one.
CountsAs(names) ==
    /\ stats.total' = IF "total" \in names THEN stats.total + 1 ELSE stats.total
    /\ stats.frame_errors' = IF "frame_errors" \in names THEN stats.frame_errors + 1 ELSE stats.frame_errors
    /\ stats.no_face' = IF "no_face" \in names THEN stats.no_face + 1 ELSE stats.no_face
    /\ stats.detected' = IF "detected" \in names THEN stats.detected + 1 ELSE stats.detected
    /\ stats.invalid' = IF "invalid" \in names THEN stats.invalid + 1 ELSE stats.invalid
    /\ stats.valid' = IF "valid" \in names THEN stats.valid + 1 ELSE stats.valid
    /\ stats.matched' = IF "matched" \in names THEN stats.matched + 1 ELSE stats.matched
    /\ stats.unmatched' = IF "unmatched" \in names THEN stats.unmatched + 1 ELSE stats.unmatched
    /\ stats.spoof' = IF "spoof" \in names THEN stats.spoof + 1 ELSE stats.spoof
    /\ stats.anti_spoof_errors' = IF "anti_spoof_errors" \in names THEN stats.anti_spoof_errors + 1 ELSE stats.anti_spoof_errors
    /\ stats.max_streak' = IF "max_streak" \in names THEN stats.max_streak + 1 ELSE stats.max_streak

\* Add, spelled out
LEMMA AddedEach ==
  ASSUME NEW names, stats' = Add(names) PROVE CountsAs(names)
<1>1. \A c \in Counters : stats'[c] = IF c \in names THEN stats[c] + 1 ELSE stats[c]
  BY Added
<1> QED BY <1>1 DEF Counters, CountsAs

\* Each step keeps the frame looked at and its primary face together.
LEMMA FrameStep == LookOK /\ FrameInv /\ [Next]_vars => FrameInv'
<1> SUFFICES ASSUME LookOK, FrameInv, [Next]_vars PROVE FrameInv'
  OBVIOUS
<1> USE DEF FrameInv, Looking, looked, kept, tally, Go, End, GivenUp, Forget, NextFrame
<1>1. ASSUME StartFails PROVE FrameInv'
  BY <1>1 DEF StartFails
<1>2. ASSUME ExtractFails PROVE FrameInv'
  BY <1>2 DEF ExtractFails
<1>3. ASSUME TestStarts PROVE FrameInv'
  BY <1>3 DEF TestStarts
<1>4. ASSUME TestStops PROVE FrameInv'
  BY <1>4 DEF TestStops
<1>5. ASSUME TestNextFrame PROVE FrameInv'
  BY <1>5 DEF TestNextFrame
<1>6. ASSUME TestRestart PROVE FrameInv'
  BY <1>6 DEF TestRestart
<1>7. ASSUME TestNoFrame PROVE FrameInv'
  BY <1>7 DEF TestNoFrame
<1>8. ASSUME TestNoFace PROVE FrameInv'
  BY <1>8 DEF TestNoFace
<1>9. ASSUME TestInvalidFace PROVE FrameInv'
  BY <1>9 DEF TestInvalidFace
<1>10. ASSUME TestFaceFound PROVE FrameInv'
  BY <1>10 DEF TestFaceFound
<1>11. ASSUME TestLivenessPasses PROVE FrameInv'
  BY <1>11 DEF TestLivenessPasses
<1>12. ASSUME TestSpoof PROVE FrameInv'
  BY <1>12 DEF TestSpoof
<1>13. ASSUME TestLivenessBreaks PROVE FrameInv'
  BY <1>13 DEF TestLivenessBreaks
<1>14. ASSUME TestJudge PROVE FrameInv'
  BY <1>14 DEF TestJudge
<1>15. ASSUME TestEndOfFrame PROVE FrameInv'
  BY <1>15 DEF TestEndOfFrame
<1>16. ASSUME AddStarts PROVE FrameInv'
  BY <1>16 DEF AddStarts
<1>17. ASSUME AddStops PROVE FrameInv'
  BY <1>17 DEF AddStops
<1>18. ASSUME AddNextFrame PROVE FrameInv'
  BY <1>18 DEF AddNextFrame
<1>19. ASSUME AddNoFrame PROVE FrameInv'
  BY <1>19 DEF AddNoFrame
<1>20. ASSUME AddNoFace PROVE FrameInv'
  BY <1>20 DEF AddNoFace
<1>21. ASSUME AddFaceFound PROVE FrameInv'
  BY <1>21 DEF AddFaceFound
<1>22. ASSUME AddLivenessPasses PROVE FrameInv'
  BY <1>22 DEF AddLivenessPasses
<1>23. ASSUME AddSpoof PROVE FrameInv'
  BY <1>23 DEF AddSpoof
<1>24. ASSUME AddLivenessBreaks PROVE FrameInv'
  BY <1>24 DEF AddLivenessBreaks
<1>25. ASSUME AddKeep PROVE FrameInv'
  BY <1>25 DEF AddKeep
<1>26. ASSUME AddEndOfFrame PROVE FrameInv'
  BY <1>26 DEF AddEndOfFrame
<1>27. ASSUME AddSave PROVE FrameInv'
  BY <1>27 DEF AddSave
<1>28. ASSUME UNCHANGED vars PROVE FrameInv'
  BY <1>28 DEF vars
<1>29. ASSUME TestSelectFails PROVE FrameInv'
  BY <1>29 DEF TestSelectFails
<1> QED BY <1>1, <1>2, <1>3, <1>4, <1>5, <1>6, <1>7, <1>8, <1>9, <1>10, <1>11, <1>12, <1>13,
           <1>14, <1>15, <1>16, <1>17, <1>18, <1>19, <1>20, <1>21, <1>22, <1>23, <1>24, <1>25,
           <1>26, <1>27, <1>28, <1>29
  DEF Next, Test, AddFace

\* Each step of add keeps the best face let past the check.
LEMMA SavedStep == LookOK /\ FrameInv /\ SavedInv /\ [Next]_vars => SavedInv'
<1> SUFFICES ASSUME LookOK, FrameInv, SavedInv, [Next]_vars PROVE SavedInv'
  OBVIOUS
<1>a. pc # "done" /\ Looking => Primary \in Row /\ Primary.confidence \in Int
  BY PrimaryKnown DEF Row
<1>b. /\ \A r \in Reasons : r # None
      /\ \A r \in live : r \in Row /\ r # None /\ r.confidence \in Int
      /\ ScoreThreshold \in Int
  <2>1. \A r \in live : r \in Row /\ r # None
    BY Config DEF SavedInv
  <2>2. \A r \in Row : r.confidence \in Int
    BY DEF Row
  <2>3. ScoreThreshold \in 0..100 /\ \A r \in Reasons : r # None
    BY Config
  <2> QED BY <2>1, <2>2, <2>3
<1> HIDE DEF Primary
<1>c. rows' = rows /\ face' = face => Primary' = Primary
  BY DEF Primary
<1> USE <1>a, <1>b, <1>c
<1> USE DEF SavedInv, LookOK, Looking, looked, kept, tally, Go, End, GivenUp, Forget, NextFrame,
            Testing, Adding, Improves, Reasons
<1>1. ASSUME StartFails PROVE SavedInv'
  BY <1>1 DEF StartFails
<1>2. ASSUME ExtractFails PROVE SavedInv'
  BY <1>2 DEF ExtractFails
<1>3. ASSUME TestStarts PROVE SavedInv'
  BY <1>3 DEF TestStarts
<1>4. ASSUME TestStops PROVE SavedInv'
  BY <1>4 DEF TestStops
<1>5. ASSUME TestNextFrame PROVE SavedInv'
  BY <1>5 DEF TestNextFrame
<1>6. ASSUME TestRestart PROVE SavedInv'
  BY <1>6 DEF TestRestart
<1>7. ASSUME TestNoFrame PROVE SavedInv'
  BY <1>7 DEF TestNoFrame
<1>8. ASSUME TestNoFace PROVE SavedInv'
  BY <1>8 DEF TestNoFace
<1>9. ASSUME TestInvalidFace PROVE SavedInv'
  BY <1>9 DEF TestInvalidFace
<1>10. ASSUME TestFaceFound PROVE SavedInv'
  BY <1>10 DEF TestFaceFound
<1>11. ASSUME TestLivenessPasses PROVE SavedInv'
  BY <1>11 DEF TestLivenessPasses
<1>12. ASSUME TestSpoof PROVE SavedInv'
  BY <1>12 DEF TestSpoof
<1>13. ASSUME TestLivenessBreaks PROVE SavedInv'
  BY <1>13 DEF TestLivenessBreaks
<1>14. ASSUME TestJudge PROVE SavedInv'
  BY <1>14 DEF TestJudge
<1>15. ASSUME TestEndOfFrame PROVE SavedInv'
  BY <1>15 DEF TestEndOfFrame
<1>16. ASSUME AddStarts PROVE SavedInv'
  BY <1>16 DEF AddStarts
<1>17. ASSUME AddStops PROVE SavedInv'
  BY <1>17 DEF AddStops
<1>18. ASSUME AddNextFrame PROVE SavedInv'
  BY <1>18 DEF AddNextFrame
<1>19. ASSUME AddNoFrame PROVE SavedInv'
  BY <1>19 DEF AddNoFrame
<1>20. ASSUME AddNoFace PROVE SavedInv'
  BY <1>20 DEF AddNoFace
<1>21. ASSUME AddFaceFound PROVE SavedInv'
  BY <1>21 DEF AddFaceFound
<1>22. ASSUME AddLivenessPasses PROVE SavedInv'
  BY <1>22 DEF AddLivenessPasses
<1>23. ASSUME AddSpoof PROVE SavedInv'
  BY <1>23 DEF AddSpoof
<1>24. ASSUME AddLivenessBreaks PROVE SavedInv'
  BY <1>24 DEF AddLivenessBreaks
<1>25. ASSUME AddKeep PROVE SavedInv'
  BY <1>25 DEF AddKeep
<1>26. ASSUME AddEndOfFrame PROVE SavedInv'
  BY <1>26 DEF AddEndOfFrame
<1>27. ASSUME AddSave PROVE SavedInv'
  BY <1>27 DEF AddSave
<1>28. ASSUME UNCHANGED vars PROVE SavedInv'
  BY <1>28 DEF vars
<1>29. ASSUME TestSelectFails PROVE SavedInv'
  BY <1>29 DEF TestSelectFails
<1> QED BY <1>1, <1>2, <1>3, <1>4, <1>5, <1>6, <1>7, <1>8, <1>9, <1>10, <1>11, <1>12, <1>13,
           <1>14, <1>15, <1>16, <1>17, <1>18, <1>19, <1>20, <1>21, <1>22, <1>23, <1>24, <1>25,
           <1>26, <1>27, <1>28, <1>29
  DEF Next, Test, AddFace

-----------------------------------------------------------------------------
(* The counters                                                             *)

\* Max of two numbers
LEMMA MaxOfTwo ==
  ASSUME NEW a \in Nat, NEW b \in Nat PROVE Max({a, b}) = IF a >= b THEN a ELSE b
<1>1. \E x \in {a, b} : \A y \in {a, b} : x >= y
  OBVIOUS
<1>2. Max({a, b}) \in {a, b} /\ \A y \in {a, b} : Max({a, b}) >= y
  BY <1>1 DEF Max
<1> QED BY <1>2

\* What a match does to the counters
LEMMA Matched ==
  ASSUME StatsOK, stats' = [Add({"matched"}) EXCEPT !.max_streak = Max({@, streak + 1})]
  PROVE  /\ \A c \in Counters \ {"matched", "max_streak"} : stats'[c] = stats[c]
         /\ stats.matched' = stats.matched + 1
         /\ stats.max_streak' = IF stats.max_streak >= streak + 1 THEN stats.max_streak ELSE streak + 1
<1>1. DOMAIN Add({"matched"}) = Counters /\ Add({"matched"}).max_streak = stats.max_streak
  BY DEF Add, Counters
<1>2. stats.max_streak \in Nat /\ streak \in Nat
  <2>1. stats.max_streak \in 0..MaxFrames
    BY DEF StatsOK, Counters
  <2> QED BY <2>1, Config DEF StatsOK
<1>3. stats'.max_streak = Max({stats.max_streak, streak + 1})
  BY <1>1 DEF Counters
<1>4. \A c \in Counters \ {"max_streak"} : stats'[c] = Add({"matched"})[c]
  BY <1>1
<1> QED BY <1>2, <1>3, <1>4, MaxOfTwo, Added DEF Counters

\* Each step keeps the counters adding up.
LEMMA CountStep == LookOK /\ StatsOK /\ FrameInv /\ CountInv /\ [Next]_vars => CountInv'
<1> SUFFICES ASSUME LookOK, StatsOK, FrameInv, CountInv, [Next]_vars PROVE CountInv'
  OBVIOUS
<1>a. /\ stats.total \in Nat /\ stats.frame_errors \in Nat /\ stats.no_face \in Nat
      /\ stats.detected \in Nat /\ stats.invalid \in Nat /\ stats.valid \in Nat
      /\ stats.matched \in Nat /\ stats.unmatched \in Nat /\ stats.spoof \in Nat
      /\ stats.anti_spoof_errors \in Nat /\ stats.max_streak \in Nat /\ streak \in Nat
  BY Tallied DEF TypeOK, LookOK, StatsOK
<1>b. (stop # None) = (pc = "done") /\ \A r \in Reasons : r # None
  BY Config DEF LookOK
<1>d. streak <= stats.max_streak
  BY <1>a DEF StatsOK
<1>c. "anti_spoof_error" # None
  BY <1>b DEF Reasons
<1> USE <1>a, <1>b, <1>c
<1> USE DEF CountInv, Uncounted, Unjudged, Testing, Adding, FrameInv, Looking, Affordable,
            MAX_ANTI_SPOOF_ERRORS, Reasons, looked, kept, tally, Go, End, GivenUp, Forget,
            NextFrame, StreakAfterRefusal
<1>1. ASSUME StartFails PROVE CountInv'
  BY <1>1 DEF StartFails
<1>2. ASSUME ExtractFails PROVE CountInv'
  BY <1>2 DEF ExtractFails
<1>3. ASSUME TestStarts PROVE CountInv'
  BY <1>3 DEF TestStarts
<1>4. ASSUME TestStops PROVE CountInv'
  BY <1>4 DEF TestStops
<1>5. ASSUME TestNextFrame PROVE CountInv'
  <2>1. CountsAs({"total"})
    BY <1>5, AddedEach DEF TestNextFrame
  <2> QED BY <1>5, <2>1 DEF CountsAs, TestNextFrame
<1>6. ASSUME TestRestart PROVE CountInv'
  <2>0. Testing /\ pc = "restart" /\ setup' = setup /\ stop = None
    BY <1>6 DEF TestRestart
  <2>1. CASE detector' = TRUE /\ Go("frame") /\ UNCHANGED stats
    BY <2>0, <2>1
  <2>2. CASE /\ stats' = Add({"anti_spoof_errors"}) /\ UNCHANGED detector
             /\ IF Affordable THEN Go("frame") ELSE End("anti_spoof_error")
    <3>1. CountsAs({"anti_spoof_errors"})
      BY <2>2, AddedEach
    <3>2. /\ UNCHANGED <<stats.total, stats.frame_errors, stats.no_face>>
          /\ UNCHANGED <<stats.detected, stats.invalid, stats.valid>>
          /\ UNCHANGED <<stats.matched, stats.unmatched, stats.spoof, stats.max_streak>>
          /\ stats.anti_spoof_errors' = stats.anti_spoof_errors + 1
      BY <3>1 DEF CountsAs
    <3>3. \/ Affordable /\ pc' = "frame" /\ stop' = stop
          \/ pc' = "done" /\ stop' = "anti_spoof_error"
      BY <2>2
    <3>4. stats.anti_spoof_errors < stats.total /\ ~detector' /\ Uncounted = 1 /\ Unjudged = 0
          /\ Unjudged' = 0
      BY <2>0, <2>2, <3>3
    <3>5. stats.matched + stats.unmatched + stats.spoof <= stats.valid
      BY <2>0, <3>4
    <3>6. \/ Uncounted' = 1 /\ stats.anti_spoof_errors + 1 < MAX_ANTI_SPOOF_ERRORS /\ pc' = "frame"
          \/ stop' = "anti_spoof_error" /\ pc' = "done"
      BY <3>3
    <3>7. stats.frame_errors + stats.no_face + stats.detected + 1 <= stats.total
      BY <1>c, <2>0, <3>4
    <3> HIDE DEF Unjudged, FrameInv, Uncounted, Go, End
    <3> QED BY <2>0, <3>2, <3>4, <3>5, <3>6, <3>7
  <2> QED BY <1>6, <2>1, <2>2 DEF TestRestart
<1>7. ASSUME TestNoFrame PROVE CountInv'
  <2>1. CountsAs({"frame_errors"})
    BY <1>7, AddedEach DEF TestNoFrame
  <2> QED BY <1>7, <2>1 DEF CountsAs, TestNoFrame
<1>8. ASSUME TestNoFace PROVE CountInv'
  <2>1. CountsAs({"no_face"})
    BY <1>8, AddedEach DEF TestNoFace
  <2>2. /\ Testing /\ pc = "frame" /\ setup' = setup /\ detector' = detector
        /\ pc' \in {"head", "done"} /\ stop' # "anti_spoof_error" /\ stop = None
    BY <1>8 DEF TestNoFace
  <2>3. /\ stats.total' = stats.total /\ stats.frame_errors' = stats.frame_errors
        /\ stats.no_face' = stats.no_face + 1 /\ UNCHANGED <<stats.detected, stats.invalid>>
        /\ UNCHANGED <<stats.valid, stats.matched, stats.unmatched, stats.spoof>>
        /\ UNCHANGED <<stats.anti_spoof_errors, stats.max_streak>>
    BY <2>1 DEF CountsAs
  <2> QED BY <2>2, <2>3
<1>9. ASSUME TestInvalidFace PROVE CountInv'
  <2>1. CountsAs({"detected", "invalid"})
    BY <1>9, AddedEach DEF TestInvalidFace
  <2>2. /\ Testing /\ pc = "frame" /\ setup' = setup /\ detector' = detector
        /\ pc' \in {"head", "done"} /\ stop' # "anti_spoof_error" /\ stop = None
    BY <1>9 DEF TestInvalidFace
  <2>3. /\ stats.total' = stats.total /\ stats.frame_errors' = stats.frame_errors
        /\ UNCHANGED stats.no_face /\ stats.detected' = stats.detected + 1
        /\ stats.invalid' = stats.invalid + 1
        /\ UNCHANGED <<stats.valid, stats.matched, stats.unmatched, stats.spoof>>
        /\ UNCHANGED <<stats.anti_spoof_errors, stats.max_streak>>
    BY <2>1 DEF CountsAs
  <2> QED BY <2>2, <2>3
<1>10. ASSUME TestFaceFound PROVE CountInv'
  <2>1. CountsAs({"detected", "valid"})
    BY <1>10, AddedEach DEF TestFaceFound
  <2>2. /\ Testing /\ pc = "frame" /\ setup' = setup /\ detector' = detector
        /\ pc' = "liveness" /\ stop' = stop /\ stop = None
    BY <1>10 DEF TestFaceFound
  <2>3. /\ stats.total' = stats.total /\ stats.frame_errors' = stats.frame_errors
        /\ stats.no_face' = stats.no_face /\ stats.detected' = stats.detected + 1
        /\ stats.invalid' = stats.invalid /\ stats.valid' = stats.valid + 1
        /\ UNCHANGED <<stats.matched, stats.unmatched, stats.spoof>>
        /\ UNCHANGED <<stats.anti_spoof_errors, stats.max_streak>>
    BY <2>1 DEF CountsAs
  <2>4. Uncounted = 1 /\ Uncounted' = 0 /\ Unjudged = 0 /\ Unjudged' = 1
    BY <2>2
  <2> HIDE DEF Uncounted, Unjudged, Go, End, FrameInv
  <2> QED BY <2>2, <2>3, <2>4
<1>11. ASSUME TestLivenessPasses PROVE CountInv'
  BY <1>11 DEF TestLivenessPasses
<1>12. ASSUME TestSpoof PROVE CountInv'
  <2>1. CountsAs({"spoof"})
    BY <1>12, AddedEach DEF TestSpoof
  <2> QED BY <1>12, <2>1 DEF CountsAs, TestSpoof
<1>13. ASSUME TestLivenessBreaks PROVE CountInv'
  <2>1. CountsAs({"anti_spoof_errors"})
    BY <1>13, AddedEach DEF TestLivenessBreaks
  <2>2. /\ Testing /\ pc = "liveness" /\ setup' = setup /\ detector /\ ~allowed' /\ stop = None
        /\ \/ Affordable /\ pc' = "judge" /\ stop' = stop
           \/ pc' = "done" /\ stop' = "anti_spoof_error"
    BY <1>13 DEF TestLivenessBreaks
  <2>3. /\ UNCHANGED <<stats.total, stats.frame_errors, stats.no_face>>
        /\ UNCHANGED <<stats.detected, stats.invalid, stats.valid>>
        /\ UNCHANGED <<stats.matched, stats.unmatched, stats.spoof, stats.max_streak>>
        /\ stats.anti_spoof_errors' = stats.anti_spoof_errors + 1
    BY <2>1 DEF CountsAs
  <2>4. Uncounted = 0 /\ Uncounted' = 0 /\ Unjudged = 1 /\ Unjudged' = 0
    BY <2>2
  <2>5. Affordable => stats.anti_spoof_errors' < MAX_ANTI_SPOOF_ERRORS
    BY <2>3
  <2>6. /\ stats.detected = stats.invalid + stats.valid
        /\ stats.matched + stats.unmatched + stats.spoof + 1 <= stats.valid
        /\ stats.max_streak <= stats.matched
        /\ stats.frame_errors + stats.no_face + stats.detected <= stats.total
        /\ stats.anti_spoof_errors < stats.total
    BY <2>2, <2>4
  <2>7. \/ stats.anti_spoof_errors' < stats.total'
        \/ stats.anti_spoof_errors' = stats.total' /\ pc' \notin {"restart", "frame", "liveness"}
    <3>1. pc' \notin {"restart", "frame", "liveness"}
      BY <2>2
    <3>2. stats.total' = stats.total /\ stats.anti_spoof_errors' = stats.anti_spoof_errors + 1
      BY <2>3
    <3> HIDE DEF CountInv
    <3>3. stats.anti_spoof_errors' < stats.total' \/ stats.anti_spoof_errors' = stats.total'
      BY <2>6, <3>2
    <3> QED BY <3>1, <3>3
  <2>8. stats.anti_spoof_errors' < MAX_ANTI_SPOOF_ERRORS \/ stop' = "anti_spoof_error"
    BY <2>2, <2>5
  <2> HIDE DEF Uncounted, Unjudged, Affordable, Go, End, FrameInv
  <2> QED BY <2>3, <2>4, <2>6, <2>7, <2>8
<1>14. ASSUME TestJudge PROVE CountInv'
  <2>0. Testing /\ pc = "judge" /\ Go("view") /\ UNCHANGED <<setup, detector, allowed>>
    BY <1>14 DEF TestJudge
  <2>1. CASE stats' = [Add({"matched"}) EXCEPT !.max_streak = Max({@, streak + 1})] /\ allowed
    <3>1. stats.total' = stats.total /\ stats.frame_errors' = stats.frame_errors
          /\ stats.no_face' = stats.no_face /\ stats.detected' = stats.detected
          /\ stats.invalid' = stats.invalid /\ stats.valid' = stats.valid
          /\ stats.unmatched' = stats.unmatched /\ stats.spoof' = stats.spoof
          /\ stats.anti_spoof_errors' = stats.anti_spoof_errors
          /\ stats.matched' = stats.matched + 1
      BY <2>1, Matched DEF Counters
    <3>2. stats.max_streak' = IF stats.max_streak >= streak + 1 THEN stats.max_streak ELSE streak + 1
      BY <2>1, Matched
    <3> QED BY <1>d, <2>0, <2>1, <3>1, <3>2
  <2>2. CASE stats' = Add({"unmatched"}) /\ allowed
    <3>1. CountsAs({"unmatched"})
      BY <2>2, AddedEach
    <3> QED BY <2>0, <2>2, <3>1 DEF CountsAs
  <2>3. CASE UNCHANGED stats
    BY <2>0, <2>3
  <2> QED BY <1>14, <2>1, <2>2, <2>3 DEF TestJudge
<1>15. ASSUME TestEndOfFrame PROVE CountInv'
  BY <1>15 DEF TestEndOfFrame
<1>16. ASSUME AddStarts PROVE CountInv'
  BY <1>16 DEF AddStarts
<1>17. ASSUME AddStops PROVE CountInv'
  BY <1>17 DEF AddStops
<1>18. ASSUME AddNextFrame PROVE CountInv'
  BY <1>18 DEF AddNextFrame
<1>19. ASSUME AddNoFrame PROVE CountInv'
  BY <1>19 DEF AddNoFrame
<1>20. ASSUME AddNoFace PROVE CountInv'
  BY <1>20 DEF AddNoFace
<1>21. ASSUME AddFaceFound PROVE CountInv'
  BY <1>21 DEF AddFaceFound
<1>22. ASSUME AddLivenessPasses PROVE CountInv'
  BY <1>22 DEF AddLivenessPasses
<1>23. ASSUME AddSpoof PROVE CountInv'
  BY <1>23 DEF AddSpoof
<1>24. ASSUME AddLivenessBreaks PROVE CountInv'
  BY <1>24 DEF AddLivenessBreaks
<1>25. ASSUME AddKeep PROVE CountInv'
  BY <1>25 DEF AddKeep
<1>26. ASSUME AddEndOfFrame PROVE CountInv'
  BY <1>26 DEF AddEndOfFrame
<1>27. ASSUME AddSave PROVE CountInv'
  BY <1>27 DEF AddSave
<1>28. ASSUME UNCHANGED vars PROVE CountInv'
  BY <1>28 DEF vars
<1>29. ASSUME TestSelectFails PROVE CountInv'
  BY <1>29 DEF TestSelectFails
<1> QED BY <1>1, <1>2, <1>3, <1>4, <1>5, <1>6, <1>7, <1>8, <1>9, <1>10, <1>11, <1>12, <1>13,
           <1>14, <1>15, <1>16, <1>17, <1>18, <1>19, <1>20, <1>21, <1>22, <1>23, <1>24, <1>25,
           <1>26, <1>27, <1>28, <1>29
  DEF Next, Test, AddFace

\* The counters of a frame in progress have room for it.
LEMMA Room ==
  ASSUME LookOK, StatsOK, CountInv, Testing, stop = None
  PROVE  /\ pc \in {"restart", "frame"} =>
                \A c \in {"frame_errors", "no_face", "detected", "invalid", "valid"} :
                    stats[c] < MaxFrames
         /\ Unjudged = 1 => \A c \in {"matched", "unmatched", "spoof"} : stats[c] < MaxFrames
         /\ pc = "restart" \/ (detector /\ pc \in {"frame", "liveness"}) =>
                stats.anti_spoof_errors < MaxFrames
<1>1. /\ stats.total \in Nat /\ stats.frame_errors \in Nat /\ stats.no_face \in Nat
      /\ stats.detected \in Nat /\ stats.invalid \in Nat /\ stats.valid \in Nat
      /\ stats.matched \in Nat /\ stats.unmatched \in Nat /\ stats.spoof \in Nat
      /\ stats.anti_spoof_errors \in Nat
  BY Tallied DEF TypeOK, LookOK, StatsOK
<1>2. stats.total <= MaxFrames /\ MaxFrames \in Nat
  BY Config DEF StatsOK, Counters
<1>3. "anti_spoof_error" # None
  BY Config DEF Reasons
<1>4. stats.frame_errors + stats.no_face + stats.detected + Uncounted <= stats.total
  BY <1>3 DEF CountInv
<1>5. pc \in {"restart", "frame"} => Uncounted = 1
  BY DEF Uncounted
<1>6. Uncounted \in Nat /\ Unjudged \in Nat
  BY DEF Uncounted, Unjudged
<1>7. stats.detected = stats.invalid + stats.valid
      /\ stats.matched + stats.unmatched + stats.spoof + Unjudged <= stats.valid
  BY DEF CountInv
<1>8. \/ stats.anti_spoof_errors < stats.total
      \/ stats.anti_spoof_errors = stats.total
           /\ ~(pc = "restart" \/ (detector /\ pc \in {"frame", "liveness"}))
  BY DEF CountInv
<1>9. Uncounted = 1 => \A c \in {"frame_errors", "no_face", "detected", "invalid", "valid"} :
                           stats[c] < MaxFrames
  BY <1>1, <1>2, <1>4, <1>6, <1>7
<1>10. Unjudged = 1 => \A c \in {"matched", "unmatched", "spoof"} : stats[c] < MaxFrames
  BY <1>1, <1>2, <1>4, <1>6, <1>7
<1> QED BY <1>1, <1>2, <1>5, <1>8, <1>9, <1>10

\* Raising such counters keeps all in range.
LEMMA StatsKept ==
  ASSUME StatsOK, NEW names, stats' = Add(names),
         \A c \in names : c \in Counters => stats[c] < MaxFrames
  PROVE  \A c \in Counters : stats'[c] \in 0..MaxFrames
<1>1. \A c \in Counters : stats[c] \in 0..MaxFrames /\ MaxFrames \in Nat
  BY Config DEF StatsOK
<1> QED BY <1>1, Added

\* Each step keeps the counters in their range.
LEMMA StatsStep == LookOK /\ StatsOK /\ FrameInv /\ CountInv /\ [Next]_vars => StatsOK'
<1> SUFFICES ASSUME LookOK, StatsOK, FrameInv, CountInv, [Next]_vars PROVE StatsOK'
  OBVIOUS
<1>a. /\ stats.anti_spoof_errors \in Nat /\ stats.max_streak \in Nat /\ streak \in Nat
      /\ streak <= stats.max_streak /\ stats.total \in Nat
  BY Tallied DEF TypeOK, LookOK, StatsOK
<1>b. (stop # None) = (pc = "done") /\ "anti_spoof_error" # None
  BY Config DEF LookOK, Reasons
<1>c. \A c \in Counters : stats[c] \in 0..MaxFrames
  BY DEF StatsOK
<1> USE <1>b
<1>e. pc = "liveness" => Unjudged = 1
  BY DEF Unjudged
<1> USE DEF looked, kept, tally, Go, End
<1>1. ASSUME StartFails PROVE StatsOK'
  BY <1>1 DEF StatsOK, NextFrame, Forget, StartFails
<1>2. ASSUME ExtractFails PROVE StatsOK'
  BY <1>2 DEF StatsOK, NextFrame, Forget, ExtractFails
<1>3. ASSUME TestStarts PROVE StatsOK'
  BY <1>3 DEF StatsOK, NextFrame, Forget, TestStarts
<1>4. ASSUME TestStops PROVE StatsOK'
  BY <1>4 DEF StatsOK, NextFrame, Forget, TestStops
<1>5. ASSUME TestNextFrame PROVE StatsOK'
  <2>1. stats' = Add({"total"}) /\ CountsAs({"total"})
    BY <1>5, AddedEach DEF TestNextFrame
  <2>2. \A c \in {"total"} : stats[c] < MaxFrames
    BY <1>5 DEF TestNextFrame
  <2>3. \A c \in Counters : stats'[c] \in 0..MaxFrames
    BY <2>1, <2>2, StatsKept
  <2> QED BY <1>5, <1>a, <2>1, <2>3 DEF StatsOK, CountsAs, StreakAfterRefusal, TestNextFrame
<1>6. ASSUME TestRestart PROVE StatsOK'
  <2>1. CASE UNCHANGED stats
    BY <1>6, <1>a, <1>c, <2>1 DEF TestRestart, StatsOK
  <2>2. CASE stats' = Add({"anti_spoof_errors"})
    <3>1. CountsAs({"anti_spoof_errors"})
      BY <2>2, AddedEach
    <3>2. stats.anti_spoof_errors < MaxFrames
      BY <1>6, Room DEF TestRestart
    <3>3. \A c \in Counters : stats'[c] \in 0..MaxFrames
      BY <2>2, <3>2, StatsKept
    <3>4. stats.anti_spoof_errors < MAX_ANTI_SPOOF_ERRORS
      BY <1>6 DEF CountInv, TestRestart
    <3> QED BY <1>6, <1>a, <3>1, <3>3, <3>4 DEF StatsOK, CountsAs, MAX_ANTI_SPOOF_ERRORS,
               TestRestart
  <2> QED BY <1>6, <2>1, <2>2 DEF TestRestart
<1>7. ASSUME TestNoFrame PROVE StatsOK'
  <2>1. stats' = Add({"frame_errors"}) /\ CountsAs({"frame_errors"})
    BY <1>7, AddedEach DEF TestNoFrame
  <2>2. \A c \in {"frame_errors"} : stats[c] < MaxFrames
    BY <1>7, Room DEF TestNoFrame, Unjudged
  <2>3. \A c \in Counters : stats'[c] \in 0..MaxFrames
    BY <2>1, <2>2, StatsKept
  <2> QED BY <1>7, <1>a, <2>1, <2>3 DEF StatsOK, CountsAs, StreakAfterRefusal, TestNoFrame
<1>8. ASSUME TestNoFace PROVE StatsOK'
  <2>1. stats' = Add({"no_face"}) /\ CountsAs({"no_face"})
    BY <1>8, AddedEach DEF TestNoFace
  <2>2. \A c \in {"no_face"} : stats[c] < MaxFrames
    BY <1>8, Room DEF TestNoFace, Unjudged
  <2>3. \A c \in Counters : stats'[c] \in 0..MaxFrames
    BY <2>1, <2>2, StatsKept
  <2> QED BY <1>8, <1>a, <2>1, <2>3 DEF StatsOK, CountsAs, StreakAfterRefusal, TestNoFace
<1>9. ASSUME TestInvalidFace PROVE StatsOK'
  <2>1. stats' = Add({"detected", "invalid"}) /\ CountsAs({"detected", "invalid"})
    BY <1>9, AddedEach DEF TestInvalidFace
  <2>2. \A c \in {"detected", "invalid"} : stats[c] < MaxFrames
    BY <1>9, Room DEF TestInvalidFace, Unjudged
  <2>3. \A c \in Counters : stats'[c] \in 0..MaxFrames
    BY <2>1, <2>2, StatsKept
  <2> QED BY <1>9, <1>a, <2>1, <2>3 DEF StatsOK, CountsAs, StreakAfterRefusal, TestInvalidFace
<1>10. ASSUME TestFaceFound PROVE StatsOK'
  <2>1. stats' = Add({"detected", "valid"}) /\ CountsAs({"detected", "valid"})
    BY <1>10, AddedEach DEF TestFaceFound
  <2>2. \A c \in {"detected", "valid"} : stats[c] < MaxFrames
    BY <1>10, Room DEF TestFaceFound, Unjudged
  <2>3. \A c \in Counters : stats'[c] \in 0..MaxFrames
    BY <2>1, <2>2, StatsKept
  <2> QED BY <1>10, <1>a, <2>1, <2>3 DEF StatsOK, CountsAs, StreakAfterRefusal, TestFaceFound
<1>11. ASSUME TestLivenessPasses PROVE StatsOK'
  BY <1>11 DEF StatsOK, NextFrame, Forget, TestLivenessPasses
<1>12. ASSUME TestSpoof PROVE StatsOK'
  <2>1. stats' = Add({"spoof"}) /\ CountsAs({"spoof"})
    BY <1>12, AddedEach DEF TestSpoof
  <2>2. \A c \in {"spoof"} : stats[c] < MaxFrames
    BY <1>12, Room, <1>e DEF TestSpoof
  <2>3. \A c \in Counters : stats'[c] \in 0..MaxFrames
    BY <2>1, <2>2, StatsKept
  <2> QED BY <1>12, <1>a, <2>1, <2>3 DEF StatsOK, CountsAs, StreakAfterRefusal, TestSpoof
<1>13. ASSUME TestLivenessBreaks PROVE StatsOK'
  <2>1. stats' = Add({"anti_spoof_errors"}) /\ CountsAs({"anti_spoof_errors"})
    BY <1>13, AddedEach DEF TestLivenessBreaks
  <2>2. stats.anti_spoof_errors < MaxFrames
    BY <1>13, Room DEF TestLivenessBreaks
  <2>3. \A c \in Counters : stats'[c] \in 0..MaxFrames
    BY <2>1, <2>2, StatsKept
  <2>4. stats.anti_spoof_errors < MAX_ANTI_SPOOF_ERRORS /\ streak' = 0
    BY <1>13 DEF CountInv, TestLivenessBreaks, StreakAfterRefusal
  <2> QED BY <1>a, <2>1, <2>3, <2>4 DEF StatsOK, CountsAs, MAX_ANTI_SPOOF_ERRORS
<1>14. ASSUME TestJudge PROVE StatsOK'
  <2>0. Testing /\ pc = "judge" /\ stop = None
    BY <1>14 DEF TestJudge
  <2>1. CASE /\ stats' = [Add({"matched"}) EXCEPT !.max_streak = Max({@, streak + 1})]
             /\ streak' = streak + 1 /\ allowed
    <3>1. /\ \A c \in Counters \ {"matched", "max_streak"} : stats'[c] = stats[c]
          /\ stats.matched' = stats.matched + 1
          /\ stats.max_streak' = IF stats.max_streak >= streak + 1 THEN stats.max_streak ELSE streak + 1
      BY <2>1, Matched
    <3>2. stats.matched < MaxFrames /\ streak < MaxFrames
      <4>1. stats.matched < MaxFrames
        BY <2>0, <2>1, Room DEF Unjudged
      <4>2. stats.max_streak <= stats.matched
        BY <2>0 DEF CountInv
      <4> QED BY <1>a, <1>c, <4>1, <4>2, Config DEF Counters
    <3>3. stats.matched' \in 0..MaxFrames /\ stats.max_streak' \in 0..MaxFrames
      <4>1. stats.matched \in 0..MaxFrames /\ stats.max_streak \in 0..MaxFrames
        BY <1>c DEF Counters
      <4> QED BY <1>a, <3>1, <3>2, <4>1, Config
    <3>4. stats.anti_spoof_errors' = stats.anti_spoof_errors
      BY <3>1 DEF Counters
    <3>5. \A c \in Counters : stats'[c] \in 0..MaxFrames
      BY <1>c, <3>1, <3>3
    <3>6. streak' \in 0..stats.max_streak'
      BY <1>a, <2>1, <3>1
    <3> QED BY <3>4, <3>5, <3>6 DEF StatsOK
  <2>2. CASE stats' = Add({"unmatched"}) /\ streak' = 0 /\ allowed
    <3>1. CountsAs({"unmatched"})
      BY <2>2, AddedEach
    <3>2. stats.unmatched < MaxFrames
      BY <2>0, <2>2, Room DEF Unjudged
    <3>3. \A c \in Counters : stats'[c] \in 0..MaxFrames
      BY <2>2, <3>2, StatsKept
    <3> QED BY <1>a, <2>2, <3>1, <3>3 DEF StatsOK, CountsAs
  <2>3. CASE UNCHANGED stats /\ streak' \in {streak, 0}
    BY <1>a, <1>c, <2>3 DEF StatsOK
  <2> QED BY <1>14, <2>1, <2>2, <2>3 DEF TestJudge
<1>15. ASSUME TestEndOfFrame PROVE StatsOK'
  BY <1>15 DEF StatsOK, NextFrame, Forget, TestEndOfFrame
<1>16. ASSUME AddStarts PROVE StatsOK'
  BY <1>16 DEF StatsOK, NextFrame, Forget, AddStarts
<1>17. ASSUME AddStops PROVE StatsOK'
  BY <1>17 DEF StatsOK, NextFrame, Forget, AddStops
<1>18. ASSUME AddNextFrame PROVE StatsOK'
  <2>1. stats' = Add({"total"}) /\ CountsAs({"total"})
    BY <1>18, AddedEach DEF AddNextFrame
  <2>2. \A c \in {"total"} : stats[c] < MaxFrames
    BY <1>18 DEF AddNextFrame
  <2>3. \A c \in Counters : stats'[c] \in 0..MaxFrames
    BY <2>1, <2>2, StatsKept
  <2> QED BY <1>18, <1>a, <2>1, <2>3 DEF StatsOK, CountsAs, StreakAfterRefusal, AddNextFrame
<1>19. ASSUME AddNoFrame PROVE StatsOK'
  BY <1>19 DEF StatsOK, NextFrame, Forget, AddNoFrame
<1>20. ASSUME AddNoFace PROVE StatsOK'
  BY <1>20 DEF StatsOK, NextFrame, Forget, AddNoFace
<1>21. ASSUME AddFaceFound PROVE StatsOK'
  BY <1>21 DEF StatsOK, NextFrame, Forget, AddFaceFound
<1>22. ASSUME AddLivenessPasses PROVE StatsOK'
  BY <1>22 DEF StatsOK, NextFrame, Forget, AddLivenessPasses
<1>23. ASSUME AddSpoof PROVE StatsOK'
  BY <1>23 DEF StatsOK, NextFrame, Forget, AddSpoof
<1>24. ASSUME AddLivenessBreaks PROVE StatsOK'
  BY <1>24 DEF StatsOK, NextFrame, Forget, AddLivenessBreaks
<1>25. ASSUME AddKeep PROVE StatsOK'
  BY <1>25 DEF StatsOK, NextFrame, Forget, AddKeep
<1>26. ASSUME AddEndOfFrame PROVE StatsOK'
  BY <1>26 DEF StatsOK, NextFrame, Forget, AddEndOfFrame
<1>27. ASSUME AddSave PROVE StatsOK'
  BY <1>27 DEF StatsOK, NextFrame, Forget, AddSave
<1>28. ASSUME UNCHANGED vars PROVE StatsOK'
  BY <1>28 DEF StatsOK, vars
<1>29. ASSUME TestSelectFails PROVE StatsOK'
  BY <1>29 DEF StatsOK, TestSelectFails
<1> QED BY <1>1, <1>2, <1>3, <1>4, <1>5, <1>6, <1>7, <1>8, <1>9, <1>10, <1>11, <1>12, <1>13,
           <1>14, <1>15, <1>16, <1>17, <1>18, <1>19, <1>20, <1>21, <1>22, <1>23, <1>24, <1>25,
           <1>26, <1>27, <1>28, <1>29
  DEF Next, Test, AddFace

-----------------------------------------------------------------------------
(* The match                                                                *)

\* Each step keeps the match that of the face judged, or drops it.
LEMMA MatchStep == LookOK /\ MatchInv /\ [Next]_vars => MatchInv'
<1> SUFFICES ASSUME LookOK, MatchInv, [Next]_vars PROVE MatchInv'
  OBVIOUS
<1> USE DEF MatchInv, Testing, Adding, looked, kept, tally, Go, End, GivenUp, Forget, NextFrame
<1>1. ASSUME StartFails PROVE MatchInv'
  BY <1>1 DEF StartFails
<1>2. ASSUME ExtractFails PROVE MatchInv'
  BY <1>2 DEF ExtractFails
<1>3. ASSUME TestStarts PROVE MatchInv'
  BY <1>3 DEF TestStarts
<1>4. ASSUME TestStops PROVE MatchInv'
  BY <1>4 DEF TestStops
<1>5. ASSUME TestNextFrame PROVE MatchInv'
  BY <1>5 DEF TestNextFrame
<1>6. ASSUME TestRestart PROVE MatchInv'
  BY <1>6 DEF TestRestart
<1>7. ASSUME TestNoFrame PROVE MatchInv'
  BY <1>7 DEF TestNoFrame
<1>8. ASSUME TestNoFace PROVE MatchInv'
  BY <1>8 DEF TestNoFace
<1>9. ASSUME TestInvalidFace PROVE MatchInv'
  BY <1>9 DEF TestInvalidFace
<1>10. ASSUME TestFaceFound PROVE MatchInv'
  BY <1>10 DEF TestFaceFound
<1>11. ASSUME TestLivenessPasses PROVE MatchInv'
  BY <1>11 DEF TestLivenessPasses
<1>12. ASSUME TestSpoof PROVE MatchInv'
  BY <1>12 DEF TestSpoof
<1>13. ASSUME TestLivenessBreaks PROVE MatchInv'
  BY <1>13 DEF TestLivenessBreaks
<1>14. ASSUME TestJudge PROVE MatchInv'
  <2>1. /\ Testing /\ pc = "judge" /\ pc' = "view"
        /\ setup' = setup /\ rows' = rows /\ face' = face
    BY <1>14 DEF TestJudge, Go
  <2>2. Primary' = Primary
    BY <2>1 DEF Primary
  <2>3. match' = None \/
          /\ Comparable(Primary.feature, setup.candidates)
          /\ match' = [index |-> FindBestMatch(Primary.feature, setup.candidates),
                       passed |-> PassedThreshold(Primary.feature,
                           setup.candidates[FindBestMatch(Primary.feature, setup.candidates)], Similarity)]
    <3>1. match = None
      BY <2>1 DEF MatchInv
    <3>2. PassedThreshold(Primary.feature,
             setup.candidates[FindBestMatch(Primary.feature, setup.candidates)], Similarity) \in BOOLEAN
      BY DEF PassedThreshold, AtLeast
    <3> DEFINE comparable == Comparable(Primary.feature, setup.candidates)
               index == FindBestMatch(Primary.feature, setup.candidates)
               passed == PassedThreshold(Primary.feature, setup.candidates[index], Similarity)
    <3>3. \/ comparable /\ passed /\ match' = [index |-> index, passed |-> TRUE]
          \/ comparable /\ ~passed /\ match' = [index |-> index, passed |-> FALSE]
          \/ comparable /\ match' = [index |-> index, passed |-> passed]
          \/ match' = match
      BY <1>14 DEF TestJudge
    <3>4. passed \in BOOLEAN
      BY <3>2
    <3> HIDE DEF comparable, index, passed
    <3>5. match' = None \/ (comparable /\ match' = [index |-> index, passed |-> passed])
      BY <3>1, <3>3, <3>4
    <3> QED BY <3>5 DEF comparable, index, passed
  <2> QED BY <2>1, <2>2, <2>3 DEF MatchInv, Testing
<1>15. ASSUME TestEndOfFrame PROVE MatchInv'
  BY <1>15 DEF TestEndOfFrame
<1>16. ASSUME AddStarts PROVE MatchInv'
  BY <1>16 DEF AddStarts
<1>17. ASSUME AddStops PROVE MatchInv'
  BY <1>17 DEF AddStops
<1>18. ASSUME AddNextFrame PROVE MatchInv'
  BY <1>18 DEF AddNextFrame
<1>19. ASSUME AddNoFrame PROVE MatchInv'
  BY <1>19 DEF AddNoFrame
<1>20. ASSUME AddNoFace PROVE MatchInv'
  BY <1>20 DEF AddNoFace
<1>21. ASSUME AddFaceFound PROVE MatchInv'
  BY <1>21 DEF AddFaceFound
<1>22. ASSUME AddLivenessPasses PROVE MatchInv'
  BY <1>22 DEF AddLivenessPasses
<1>23. ASSUME AddSpoof PROVE MatchInv'
  BY <1>23 DEF AddSpoof
<1>24. ASSUME AddLivenessBreaks PROVE MatchInv'
  BY <1>24 DEF AddLivenessBreaks
<1>25. ASSUME AddKeep PROVE MatchInv'
  BY <1>25 DEF AddKeep
<1>26. ASSUME AddEndOfFrame PROVE MatchInv'
  BY <1>26 DEF AddEndOfFrame
<1>27. ASSUME AddSave PROVE MatchInv'
  BY <1>27 DEF AddSave
<1>28. ASSUME UNCHANGED vars PROVE MatchInv'
  BY <1>28 DEF vars, Primary
<1>29. ASSUME TestSelectFails PROVE MatchInv'
  BY <1>29 DEF TestSelectFails
<1> QED BY <1>1, <1>2, <1>3, <1>4, <1>5, <1>6, <1>7, <1>8, <1>9, <1>10, <1>11, <1>12, <1>13,
           <1>14, <1>15, <1>16, <1>17, <1>18, <1>19, <1>20, <1>21, <1>22, <1>23, <1>24, <1>25,
           <1>26, <1>27, <1>28, <1>29
  DEF Next, Test, AddFace

-----------------------------------------------------------------------------
(* The frames judged, and the runs of matches in them                       *)

\* One more frame at the end of the trace
LEMMA Grown ==
  ASSUME NEW K, trace \in Seq(K), NEW x \in K, Became(x)
  PROVE  /\ Len(trace) \in Nat /\ Len(trace') = Len(trace) + 1 /\ trace' \in Seq(K)
         /\ DOMAIN trace = 1..Len(trace) /\ DOMAIN trace' = 1..Len(trace) + 1
         /\ 1..Len(trace) + 1 = 1..Len(trace) \cup {Len(trace) + 1}
         /\ \A k \in 1..Len(trace) : trace'[k] = trace[k]
         /\ trace'[Len(trace) + 1] = x
<1>1. trace' = Append(trace, x)
  BY DEF Became
<1>2. Len(trace) \in Nat /\ DOMAIN trace = 1..Len(trace)
  OBVIOUS
<1>3. 1..Len(trace) + 1 = 1..Len(trace) \cup {Len(trace) + 1}
  BY <1>2
<1> QED BY <1>1, <1>2, <1>3

\* It is one more of its own kind.
LEMMA FatesGrow ==
  ASSUME NEW K, trace \in Seq(K), NEW x \in K, Became(x), NEW kinds
  PROVE  /\ Cardinality(Fates(kinds)) \in Nat
         /\ Cardinality(Fates(kinds)') = Cardinality(Fates(kinds)) + IF x \in kinds THEN 1 ELSE 0
<1> DEFINE n == Len(trace)
<1>1. /\ n \in Nat /\ DOMAIN trace = 1..n /\ DOMAIN trace' = 1..n + 1
      /\ 1..n + 1 = 1..n \cup {n + 1}
      /\ (\A k \in 1..n : trace'[k] = trace[k]) /\ trace'[n + 1] = x
  BY Grown
<1> HIDE DEF n
<1>2. Fates(kinds) \in SUBSET (1..n) /\ n + 1 \notin Fates(kinds)
  BY <1>1 DEF Fates
<1>3. IsFiniteSet(Fates(kinds)) /\ Cardinality(Fates(kinds)) \in Nat
  BY <1>1, <1>2, PartFinite
<1>4. CASE x \in kinds
  <2>1. Fates(kinds)' = Fates(kinds) \cup {n + 1}
    BY <1>1, <1>4 DEF Fates
  <2> QED BY <1>2, <1>3, <1>4, <2>1, FS_AddElement
<1>5. CASE x \notin kinds
  <2>1. Fates(kinds)' = Fates(kinds)
    BY <1>1, <1>5 DEF Fates
  <2> QED BY <1>3, <1>5, <2>1
<1> QED BY <1>4, <1>5

\* A run has a length; an empty one has none.
LEMMA RunTyped ==
  ASSUME NEW n \in Nat, NEW i \in 1..n + 1, NEW j \in 0..n
  PROVE  MatchesIn(i, j) \in Nat /\ (i > j => MatchesIn(i, j) = 0 /\ Unbroken(i, j))
<1> DEFINE S == {k \in i..j : trace[k] = "match"}
<1>1. S \in SUBSET (1..n)
  OBVIOUS
<1>2. IsFiniteSet(S) /\ Cardinality(S) \in Nat
  BY <1>1, PartFinite
<1>3. i > j => i..j = {} /\ S = {}
  OBVIOUS
<1>4. MatchesIn(i, j) = Cardinality(S)
  BY DEF MatchesIn
<1>5. Cardinality({}) = 0
  BY FS_EmptySet
<1> HIDE DEF S
<1> QED BY <1>2, <1>3, <1>4, <1>5 DEF Unbroken

\* A stretch that ends at the new frame goes on from one that ended before it.
LEMMA RunGrows ==
  ASSUME NEW K, trace \in Seq(K), NEW x \in K, Became(x),
         NEW n, n = Len(trace), NEW i \in 1..n + 1
  PROVE  /\ \A j \in 1..n : /\ Unbroken(i, j)' <=> Unbroken(i, j)
                         /\ MatchesIn(i, j)' = MatchesIn(i, j)
         /\ Unbroken(i, n + 1)' <=> Unbroken(i, n) /\ x \in {"match", "unread", "noface", "failed"}
         /\ MatchesIn(i, n + 1)' = MatchesIn(i, n) + IF x = "match" THEN 1 ELSE 0
<1> DEFINE S(j) == {k \in i..j : trace[k] = "match"}
<1>1. /\ n \in Nat /\ DOMAIN trace = 1..n /\ i \in 1..n + 1
      /\ (\A k \in 1..n : trace'[k] = trace[k]) /\ trace'[n + 1] = x
  BY Grown
<1>2. \A j \in 0..n : \A k \in i..j : k \in 1..n /\ trace'[k] = trace[k]
  BY <1>1
<1>3. ASSUME NEW j \in 1..n
      PROVE  (Unbroken(i, j)' <=> Unbroken(i, j)) /\ MatchesIn(i, j)' = MatchesIn(i, j)
  <2>1. j \in 0..n
    BY <1>1
  <2>2. {k \in i..j : trace'[k] = "match"} = {k \in i..j : trace[k] = "match"}
    BY <1>2, <2>1
  <2> QED BY <1>2, <2>1, <2>2 DEF Unbroken, MatchesIn
<1>4. i..n + 1 = (i..n) \cup {n + 1} /\ n \in 0..n /\ n + 1 \notin i..n
  BY <1>1
<1>5. Unbroken(i, n + 1)' <=> Unbroken(i, n) /\ x \in {"match", "unread", "noface", "failed"}
  BY <1>1, <1>2, <1>4 DEF Unbroken
<1>6. MatchesIn(i, n + 1)' = MatchesIn(i, n) + IF x = "match" THEN 1 ELSE 0
  <2>1. S(n) \in SUBSET (1..n) /\ n + 1 \notin S(n)
    BY <1>2, <1>4
  <2>2. IsFiniteSet(S(n)) /\ Cardinality(S(n)) \in Nat
    BY <1>1, <2>1, PartFinite
  <2>3. {k \in i..n + 1 : trace'[k] = "match"} = IF x = "match" THEN S(n) \cup {n + 1} ELSE S(n)
    BY <1>1, <1>2, <1>4
  <2>4. MatchesIn(i, n) = Cardinality(S(n))
        /\ MatchesIn(i, n + 1)' = Cardinality({k \in i..n + 1 : trace'[k] = "match"})
    BY DEF MatchesIn
  <2> HIDE DEF S
  <2>5. Cardinality(S(n) \cup {n + 1}) = Cardinality(S(n)) + 1
    BY <2>1, <2>2, FS_AddElement
  <2>6. CASE x = "match"
    BY <2>3, <2>4, <2>5, <2>6
  <2>7. CASE x # "match"
    <3>1. {k \in i..n + 1 : trace'[k] = "match"} = S(n)
      BY <2>3, <2>7
    <3>2. MatchesIn(i, n + 1)' = MatchesIn(i, n) /\ MatchesIn(i, n) \in Nat
      BY <2>2, <2>4, <3>1
    <3> QED BY <2>7, <3>2
  <2> QED BY <2>6, <2>7
<1> QED BY <1>3, <1>5, <1>6

\* The longest of all runs, and of those that end with the trace
RunsAre(n, longest, last) ==
    /\ \A i, j \in 1..n : Unbroken(i, j) => MatchesIn(i, j) <= longest
    /\ longest = 0 \/ \E i, j \in 1..n : Unbroken(i, j) /\ MatchesIn(i, j) = longest
    /\ \A i \in 1..n : Unbroken(i, n) => MatchesIn(i, n) <= last
    /\ last = 0 \/ \E i \in 1..n : Unbroken(i, n) /\ MatchesIn(i, n) = last

\* RunInv in those words, now
LEMMA RunsRead ==
  ASSUME RunInv, Testing, NEW n \in Nat, n = Len(trace), DOMAIN trace = 1..n
  PROVE  RunsAre(n, stats.max_streak, streak)
  BY DEF RunInv, RunsAre, Unbroken, MatchesIn

\* and after a step
LEMMA RunsMade ==
  ASSUME NEW n \in Nat, n = Len(trace'), DOMAIN trace' = 1..n,
         NEW longest, longest = stats.max_streak', NEW last, last = streak',
         RunsAre(n, longest, last)', ~allowed' => last = 0
  PROVE  RunInv'
  BY DEF RunInv, RunsAre, Unbroken, MatchesIn

\* The runs after a step that adds no frame
LEMMA RunSame ==
  ASSUME RunInv, TraceInv, Testing, setup' = setup, trace' = trace, streak' = streak,
         stats.max_streak' = stats.max_streak, ~allowed' => streak = 0
  PROVE  RunInv'
<1>1. PICK n \in Nat : n = Len(trace) /\ DOMAIN trace = 1..n
  BY DEF TraceInv
<1>2. PICK longest : longest = stats.max_streak
  OBVIOUS
<1>3. PICK last : last = streak
  OBVIOUS
<1>4. RunsAre(n, longest, last)
  BY <1>1, <1>2, <1>3, RunsRead
<1>5. RunsAre(n, longest, last)'
  BY <1>4 DEF RunsAre, Unbroken, MatchesIn
<1> QED BY <1>1, <1>2, <1>3, <1>5, RunsMade

\* After one that adds a frame, judged or refused, which ends every run
LEMMA RunBroken ==
  ASSUME RunInv, TraceInv, StatsOK, Testing, NEW x \in Judged \cup {"invalid"},
         x # "match", Became(x), streak' = 0, stats.max_streak' = stats.max_streak
  PROVE  RunInv'
<1> DEFINE K == Judged \cup {"unread", "noface", "invalid", "failed"}
<1>1. trace \in Seq(K) /\ x \in K
  BY DEF TraceInv
<1>2. PICK n \in Nat : n = Len(trace)
  BY <1>1
<1>3. PICK longest \in Nat : longest = stats.max_streak
  BY Config DEF StatsOK, Counters
<1>4. /\ Len(trace') = n + 1 /\ DOMAIN trace = 1..n /\ DOMAIN trace' = 1..n + 1
      /\ 1..n + 1 = 1..n \cup {n + 1}
  BY <1>1, <1>2, Grown
<1>5. x \notin {"match", "unread", "noface", "failed"}
  BY DEF Judged
<1> HIDE DEF K
<1>6. \A i \in 1..n + 1 :
         /\ \A j \in 1..n : /\ Unbroken(i, j)' <=> Unbroken(i, j)
                             /\ MatchesIn(i, j)' = MatchesIn(i, j)
         /\ ~Unbroken(i, n + 1)'
  BY <1>1, <1>2, <1>5, RunGrows
<1>e. \A i \in 1..n + 1, j \in 1..n :
         (Unbroken(i, j)' <=> Unbroken(i, j)) /\ MatchesIn(i, j)' = MatchesIn(i, j)
  BY <1>1, <1>2, RunGrows
<1>7. \A j \in 1..n : MatchesIn(n + 1, j) = 0
  BY <1>2, RunTyped
<1>8. /\ \A i, j \in 1..n : Unbroken(i, j) => MatchesIn(i, j) <= longest
      /\ longest = 0 \/ \E i, j \in 1..n : Unbroken(i, j) /\ MatchesIn(i, j) = longest
  BY <1>2, <1>3, <1>4, RunsRead DEF RunsAre
<1>9. ASSUME NEW i \in 1..n + 1, NEW j \in 1..n + 1, Unbroken(i, j)'
      PROVE  MatchesIn(i, j)' <= longest
  <2>1. j \in 1..n
    BY <1>4, <1>6, <1>9
  <2>2. MatchesIn(i, j)' = MatchesIn(i, j) /\ Unbroken(i, j)
    BY <1>6, <1>9, <2>1
  <2>3. CASE i \in 1..n
    BY <1>8, <2>1, <2>2, <2>3
  <2>4. CASE i = n + 1
    BY <1>3, <1>7, <2>1, <2>2, <2>4
  <2> QED BY <1>4, <2>3, <2>4
<1>10. ASSUME longest # 0
       PROVE \E i, j \in 1..n + 1 : Unbroken(i, j)' /\ MatchesIn(i, j)' = longest
  <2>1. PICK i \in 1..n, j \in 1..n : Unbroken(i, j) /\ MatchesIn(i, j) = longest
    BY <1>8, <1>10
  <2>2. i \in 1..n + 1 /\ j \in 1..n + 1
    BY <1>4
  <2>3. (Unbroken(i, j)' <=> Unbroken(i, j)) /\ MatchesIn(i, j)' = MatchesIn(i, j)
    BY <1>e, <2>1, <2>2
  <2>4. Unbroken(i, j)' /\ MatchesIn(i, j)' = longest
    BY <2>1, <2>3
  <2> QED BY <2>2, <2>4
<1>11. RunsAre(n + 1, longest, 0)'
  BY <1>6, <1>9, <1>10 DEF RunsAre
<1>12. n + 1 \in Nat
  OBVIOUS
<1> QED BY <1>3, <1>4, <1>11, <1>12, RunsMade

\* After one that adds a frame without a face to judge, which ends no run
LEMMA RunIdle ==
  ASSUME RunInv, TraceInv, StatsOK, Testing, NEW x \in {"unread", "noface", "failed"},
         Became(x), streak' = streak, stats.max_streak' = stats.max_streak,
         ~allowed' => streak = 0
  PROVE  RunInv'
<1> DEFINE K == Judged \cup {"unread", "noface", "invalid", "failed"}
<1>1. trace \in Seq(K) /\ x \in K
  BY DEF TraceInv
<1>2. PICK n \in Nat : n = Len(trace)
  BY <1>1
<1>3. PICK longest \in Nat : longest = stats.max_streak
  BY Config DEF StatsOK, Counters
<1>0. PICK last \in Nat : last = streak
  BY Config DEF StatsOK, Counters
<1>4. /\ Len(trace') = n + 1 /\ DOMAIN trace = 1..n /\ DOMAIN trace' = 1..n + 1
      /\ 1..n + 1 = 1..n \cup {n + 1}
  BY <1>1, <1>2, Grown
<1>5. x \in {"match", "unread", "noface", "failed"} /\ x # "match"
  OBVIOUS
<1> HIDE DEF K
<1>a. \A i \in 1..n + 1, j \in 0..n : MatchesIn(i, j) \in Nat /\ (i > j => MatchesIn(i, j) = 0)
  BY RunTyped
<1>6. \A i \in 1..n + 1 :
         /\ \A j \in 1..n : /\ Unbroken(i, j)' <=> Unbroken(i, j)
                             /\ MatchesIn(i, j)' = MatchesIn(i, j)
         /\ Unbroken(i, n + 1)' <=> Unbroken(i, n)
         /\ MatchesIn(i, n + 1)' = MatchesIn(i, n)
  <2> TAKE i \in 1..n + 1
  <2>1. MatchesIn(i, n + 1)' = MatchesIn(i, n) + 0
    BY <1>1, <1>2, <1>5, RunGrows
  <2>2. MatchesIn(i, n) \in Nat
    BY <1>a
  <2> QED BY <1>1, <1>2, <1>5, <2>1, <2>2, RunGrows
<1>e. ASSUME NEW i \in 1..n + 1, NEW j \in 1..n
      PROVE  (Unbroken(i, j)' <=> Unbroken(i, j)) /\ MatchesIn(i, j)' = MatchesIn(i, j)
  BY <1>1, <1>2, <1>e, RunGrows
<1>8. /\ \A i, j \in 1..n : Unbroken(i, j) => MatchesIn(i, j) <= longest
      /\ longest = 0 \/ \E i, j \in 1..n : Unbroken(i, j) /\ MatchesIn(i, j) = longest
      /\ \A i \in 1..n : Unbroken(i, n) => MatchesIn(i, n) <= last
      /\ last = 0 \/ \E i \in 1..n : Unbroken(i, n) /\ MatchesIn(i, n) = last
  BY <1>0, <1>2, <1>3, <1>4, RunsRead DEF RunsAre
<1>b. MatchesIn(n + 1, n) = 0 /\ \A j \in 1..n : MatchesIn(n + 1, j) = 0
  BY <1>a
<1>9. ASSUME NEW i \in 1..n + 1, NEW j \in 1..n + 1, Unbroken(i, j)'
      PROVE  MatchesIn(i, j)' <= longest
  <2>1. CASE i = n + 1
    <3>1. CASE j = n + 1
      <4>1. MatchesIn(i, j)' = 0
        BY <1>6, <1>b, <2>1, <3>1
      <4> QED BY <1>3, <4>1
    <3>2. CASE j \in 1..n
      <4>1. MatchesIn(i, j)' = MatchesIn(n + 1, j)
        BY <1>e, <2>1, <3>2
      <4> QED BY <1>3, <1>b, <3>2, <4>1
    <3> QED BY <1>4, <3>1, <3>2
  <2>2. CASE i \in 1..n /\ j = n + 1
    <3>1. n \in 1..n
      BY <1>2, <2>2
    <3> QED BY <1>6, <1>8, <1>9, <2>2, <3>1
  <2>3. CASE i \in 1..n /\ j \in 1..n
    BY <1>6, <1>8, <1>9, <2>3
  <2> QED BY <1>4, <2>1, <2>2, <2>3
<1>10. ASSUME longest # 0
       PROVE \E i, j \in 1..n + 1 : Unbroken(i, j)' /\ MatchesIn(i, j)' = longest
  <2>1. PICK i \in 1..n, j \in 1..n : Unbroken(i, j) /\ MatchesIn(i, j) = longest
    BY <1>8, <1>10
  <2>2. i \in 1..n + 1 /\ j \in 1..n + 1
    BY <1>4
  <2>3. (Unbroken(i, j)' <=> Unbroken(i, j)) /\ MatchesIn(i, j)' = MatchesIn(i, j)
    BY <1>e, <2>1, <2>2
  <2>4. Unbroken(i, j)' /\ MatchesIn(i, j)' = longest
    BY <2>1, <2>3
  <2> QED BY <2>2, <2>4
<1>11. \A i \in 1..n + 1 : Unbroken(i, n + 1)' => MatchesIn(i, n + 1)' <= last
  <2> TAKE i \in 1..n + 1
  <2>1. CASE i = n + 1
    BY <1>0, <1>6, <1>b, <2>1
  <2>2. CASE i \in 1..n
    BY <1>6, <1>8, <2>2
  <2> QED BY <1>4, <2>1, <2>2
<1>12. ASSUME last # 0
       PROVE \E i \in 1..n + 1 : Unbroken(i, n + 1)' /\ MatchesIn(i, n + 1)' = last
  <2>1. PICK i \in 1..n : Unbroken(i, n) /\ MatchesIn(i, n) = last
    BY <1>8, <1>12
  <2>2. i \in 1..n + 1
    BY <1>4
  <2> QED BY <1>6, <2>1, <2>2
<1>13. RunsAre(n + 1, longest, last)'
  BY <1>9, <1>10, <1>11, <1>12 DEF RunsAre
<1>14. n + 1 \in Nat
  OBVIOUS
<1> QED BY <1>0, <1>3, <1>4, <1>13, <1>14, RunsMade

\* After a match, which ends no run and is one more in each that goes on
LEMMA RunOn ==
  ASSUME RunInv, TraceInv, StatsOK, Testing, Became("match"), allowed', streak' = streak + 1,
         stats.max_streak' = IF stats.max_streak >= streak + 1 THEN stats.max_streak ELSE streak + 1
  PROVE  RunInv'
<1> DEFINE K == Judged \cup {"unread", "noface", "invalid", "failed"}
<1>1. trace \in Seq(K) /\ "match" \in K
  BY DEF TraceInv, Judged
<1>2. PICK n \in Nat : n = Len(trace)
  BY <1>1
<1>3. PICK longest \in Nat : longest = stats.max_streak
  BY Config DEF StatsOK, Counters
<1>0. PICK last \in Nat : last = streak
  BY Config DEF StatsOK, Counters
<1>4. /\ Len(trace') = n + 1 /\ DOMAIN trace = 1..n /\ DOMAIN trace' = 1..n + 1
      /\ 1..n + 1 = 1..n \cup {n + 1} /\ n + 1 \in 1..n + 1
  BY <1>1, <1>2, Grown
<1> HIDE DEF K
<1>a. \A i \in 1..n + 1, j \in 0..n : MatchesIn(i, j) \in Nat /\ (i > j => MatchesIn(i, j) = 0 /\ Unbroken(i, j))
  BY RunTyped
<1>6. \A i \in 1..n + 1 :
         /\ \A j \in 1..n : /\ Unbroken(i, j)' <=> Unbroken(i, j)
                             /\ MatchesIn(i, j)' = MatchesIn(i, j)
         /\ Unbroken(i, n + 1)' <=> Unbroken(i, n)
         /\ MatchesIn(i, n + 1)' = MatchesIn(i, n) + 1
  BY <1>1, <1>2, RunGrows
<1>e. \A i \in 1..n + 1, j \in 1..n :
         (Unbroken(i, j)' <=> Unbroken(i, j)) /\ MatchesIn(i, j)' = MatchesIn(i, j)
  BY <1>1, <1>2, RunGrows
<1>8. /\ \A i, j \in 1..n : Unbroken(i, j) => MatchesIn(i, j) <= longest
      /\ longest = 0 \/ \E i, j \in 1..n : Unbroken(i, j) /\ MatchesIn(i, j) = longest
      /\ \A i \in 1..n : Unbroken(i, n) => MatchesIn(i, n) <= last
      /\ last = 0 \/ \E i \in 1..n : Unbroken(i, n) /\ MatchesIn(i, n) = last
  BY <1>0, <1>2, <1>3, <1>4, RunsRead DEF RunsAre
<1>b. MatchesIn(n + 1, n) = 0 /\ Unbroken(n + 1, n) /\ \A j \in 1..n : MatchesIn(n + 1, j) = 0
  BY <1>4, <1>a
<1>c. \A i \in 1..n + 1 : MatchesIn(i, n) \in Nat
  BY <1>a
<1> DEFINE most == IF longest >= last + 1 THEN longest ELSE last + 1
<1>d. most \in Nat /\ longest <= most /\ last + 1 <= most /\ most = stats.max_streak'
  BY <1>0, <1>3
<1>11. \A i \in 1..n + 1 : Unbroken(i, n + 1)' => MatchesIn(i, n + 1)' <= last + 1
  <2> TAKE i \in 1..n + 1
  <2>1. CASE i = n + 1
    BY <1>0, <1>6, <1>b, <2>1
  <2>2. CASE i \in 1..n
    BY <1>6, <1>8, <1>c, <2>2
  <2> QED BY <1>4, <2>1, <2>2
<1>12. \E i \in 1..n + 1 : Unbroken(i, n + 1)' /\ MatchesIn(i, n + 1)' = last + 1
  <2>1. CASE last = 0
    <3>1. Unbroken(n + 1, n + 1)' /\ MatchesIn(n + 1, n + 1)' = last + 1
      BY <1>4, <1>6, <1>b, <2>1
    <3> QED BY <1>4, <3>1
  <2>2. CASE last # 0
    <3>1. PICK i \in 1..n : Unbroken(i, n) /\ MatchesIn(i, n) = last
      BY <1>8, <2>2
    <3>2. i \in 1..n + 1
      BY <1>4
    <3> QED BY <1>6, <3>1, <3>2
  <2> QED BY <2>1, <2>2
<1> HIDE DEF most
<1>9. ASSUME NEW i \in 1..n + 1, NEW j \in 1..n + 1, Unbroken(i, j)'
      PROVE  MatchesIn(i, j)' <= most
  <2>1. CASE j = n + 1
    <3>1. MatchesIn(i, j)' <= last + 1 /\ MatchesIn(i, j)' \in Nat
      BY <1>6, <1>9, <1>11, <1>c, <2>1
    <3> QED BY <1>0, <1>d, <3>1
  <2>2. CASE i = n + 1 /\ j \in 1..n
    <3>1. MatchesIn(i, j)' = MatchesIn(n + 1, j)
      BY <1>e, <2>2
    <3> QED BY <1>b, <1>d, <2>2, <3>1
  <2>3. CASE i \in 1..n /\ j \in 1..n
    <3>1. MatchesIn(i, j)' <= longest /\ j \in 0..n /\ MatchesIn(i, j)' = MatchesIn(i, j)
      BY <1>6, <1>8, <1>9, <2>3
    <3> QED BY <1>3, <1>a, <1>d, <3>1
  <2> QED BY <1>4, <2>1, <2>2, <2>3
<1>10. ASSUME most # 0
       PROVE \E i, j \in 1..n + 1 : Unbroken(i, j)' /\ MatchesIn(i, j)' = most
  <2>1. CASE most = last + 1
    BY <1>4, <1>12, <2>1
  <2>2. CASE most = longest
    <3>1. PICK i \in 1..n, j \in 1..n : Unbroken(i, j) /\ MatchesIn(i, j) = longest
      BY <1>8, <1>10, <2>2
    <3>2. i \in 1..n + 1 /\ j \in 1..n + 1
      BY <1>4
    <3>3. (Unbroken(i, j)' <=> Unbroken(i, j)) /\ MatchesIn(i, j)' = MatchesIn(i, j)
      BY <1>e, <3>1, <3>2
    <3>4. Unbroken(i, j)' /\ MatchesIn(i, j)' = longest
      BY <3>1, <3>3
    <3> QED BY <2>2, <3>2, <3>4
  <2> QED BY <2>1, <2>2 DEF most
<1>13. RunsAre(n + 1, most, last + 1)'
  BY <1>9, <1>10, <1>11, <1>12 DEF RunsAre
<1>14. n + 1 \in Nat /\ last + 1 = streak'
  BY <1>0
<1> QED BY <1>4, <1>d, <1>13, <1>14, RunsMade

\* Each step keeps max_streak the longest run, and streak the last.
LEMMA RunStep == StatsOK /\ TraceInv /\ RunInv /\ [Next]_vars => RunInv'
<1> SUFFICES ASSUME StatsOK, TraceInv, RunInv, [Next]_vars PROVE RunInv'
  OBVIOUS
<1>a. Testing => (~allowed => streak = 0)
  BY DEF RunInv
<1> USE DEF looked, kept, tally, Go, End, Forget, NextFrame
<1>1. ASSUME StartFails PROVE RunInv'
  <2>1. CASE Testing
    BY <1>1, <1>a, <2>1, RunSame DEF StartFails
  <2>2. CASE ~Testing
    BY <1>1, <2>2 DEF StartFails, Testing, RunInv
  <2> QED BY <2>1, <2>2
<1>2. ASSUME ExtractFails PROVE RunInv'
  <2>1. CASE Testing
    BY <1>2, <1>a, <2>1, RunSame DEF ExtractFails
  <2>2. CASE ~Testing
    BY <1>2, <2>2 DEF ExtractFails, Testing, RunInv
  <2> QED BY <2>1, <2>2
<1>3. ASSUME TestStarts PROVE RunInv'
  BY <1>3, <1>a, RunSame DEF TestStarts
<1>4. ASSUME TestStops PROVE RunInv'
  BY <1>4, <1>a, RunSame DEF TestStops
<1>5. ASSUME TestNextFrame PROVE RunInv'
  <2>1. CountsAs({"total"})
    BY <1>5, AddedEach DEF TestNextFrame
  <2>2. stats.max_streak' = stats.max_streak
    BY <2>1 DEF CountsAs
  <2> QED BY <1>5, <1>a, <2>2, RunSame DEF TestNextFrame
<1>6. ASSUME TestRestart PROVE RunInv'
  <2>1. CASE UNCHANGED stats
    BY <1>6, <1>a, <2>1, RunSame DEF TestRestart
  <2>2. CASE stats' = Add({"anti_spoof_errors"})
    <3>1. CountsAs({"anti_spoof_errors"})
      BY <2>2, AddedEach
    <3>2. stats.max_streak' = stats.max_streak
      BY <3>1 DEF CountsAs
    <3> QED BY <1>6, <1>a, <3>2, RunSame DEF TestRestart
  <2> QED BY <1>6, <2>1, <2>2 DEF TestRestart
<1>7. ASSUME TestNoFrame PROVE RunInv'
  <2>1. CountsAs({"frame_errors"})
    BY <1>7, AddedEach DEF TestNoFrame
  <2>2. stats.max_streak' = stats.max_streak
    BY <2>1 DEF CountsAs
  <2>3. Testing /\ setup' = setup /\ Became("unread") /\ streak' = streak /\ (~allowed' => streak = 0)
    BY <1>7, <1>a DEF TestNoFrame
  <2> QED BY <2>2, <2>3, RunIdle
<1>8. ASSUME TestNoFace PROVE RunInv'
  <2>1. CountsAs({"no_face"})
    BY <1>8, AddedEach DEF TestNoFace
  <2>2. stats.max_streak' = stats.max_streak
    BY <2>1 DEF CountsAs
  <2>3. Testing /\ setup' = setup /\ Became("noface") /\ streak' = streak /\ (~allowed' => streak = 0)
    BY <1>8, <1>a DEF TestNoFace
  <2> QED BY <2>2, <2>3, RunIdle
<1>9. ASSUME TestInvalidFace PROVE RunInv'
  <2>1. CountsAs({"detected", "invalid"})
    BY <1>9, AddedEach DEF TestInvalidFace
  <2>2. stats.max_streak' = stats.max_streak
    BY <2>1 DEF CountsAs
  <2>3. Testing /\ setup' = setup /\ Became("invalid") /\ streak' = 0
    BY <1>9 DEF TestInvalidFace, StreakAfterRefusal
  <2>4. "invalid" \in Judged \cup {"invalid"} /\ "invalid" # "match"
    BY DEF Judged
  <2> QED BY <2>2, <2>3, <2>4, RunBroken
<1>10. ASSUME TestFaceFound PROVE RunInv'
  <2>1. CountsAs({"detected", "valid"})
    BY <1>10, AddedEach DEF TestFaceFound
  <2>2. stats.max_streak' = stats.max_streak
    BY <2>1 DEF CountsAs
  <2> QED BY <1>10, <1>a, <2>2, RunSame DEF TestFaceFound
<1>11. ASSUME TestLivenessPasses PROVE RunInv'
  BY <1>11, <1>a, RunSame DEF TestLivenessPasses
<1>12. ASSUME TestSpoof PROVE RunInv'
  <2>1. CountsAs({"spoof"})
    BY <1>12, AddedEach DEF TestSpoof
  <2>2. stats.max_streak' = stats.max_streak
    BY <2>1 DEF CountsAs
  <2>3. Testing /\ setup' = setup /\ Became("spoof") /\ streak' = 0
    BY <1>12 DEF TestSpoof, StreakAfterRefusal
  <2>4. "spoof" \in Judged \cup {"invalid"} /\ "spoof" # "match"
    BY DEF Judged
  <2> QED BY <2>2, <2>3, <2>4, RunBroken
<1>13. ASSUME TestLivenessBreaks PROVE RunInv'
  <2>1. CountsAs({"anti_spoof_errors"})
    BY <1>13, AddedEach DEF TestLivenessBreaks
  <2>2. stats.max_streak' = stats.max_streak
    BY <2>1 DEF CountsAs
  <2>3. Testing /\ setup' = setup /\ Became("broken") /\ streak' = 0
    BY <1>13 DEF TestLivenessBreaks, StreakAfterRefusal
  <2>4. "broken" \in Judged \cup {"invalid"} /\ "broken" # "match"
    BY DEF Judged
  <2> QED BY <2>2, <2>3, <2>4, RunBroken
<1>14. ASSUME TestJudge PROVE RunInv'
  <2>0. Testing /\ setup' = setup /\ allowed' = allowed
    BY <1>14 DEF TestJudge
  <2>a. {"miss", "unjudged"} \subseteq Judged \cup {"invalid"}
    BY DEF Judged
  <2>1. CASE /\ stats' = [Add({"matched"}) EXCEPT !.max_streak = Max({@, streak + 1})]
             /\ streak' = streak + 1 /\ allowed /\ Became("match")
    <3>1. stats.max_streak' = IF stats.max_streak >= streak + 1 THEN stats.max_streak ELSE streak + 1
      BY <2>1, Matched
    <3> QED BY <2>0, <2>1, <3>1, RunOn
  <2>2. CASE stats' = Add({"unmatched"}) /\ streak' = 0 /\ Became("miss")
    <3>1. CountsAs({"unmatched"})
      BY <2>2, AddedEach
    <3>2. stats.max_streak' = stats.max_streak
      BY <3>1 DEF CountsAs
    <3> QED BY <2>0, <2>2, <2>a, <3>2, RunBroken
  <2>3. CASE stats' = stats /\ streak' = streak /\ trace' = trace
    BY <1>a, <2>0, <2>3, RunSame
  <2>4. CASE stats' = stats /\ streak' = 0 /\ allowed /\ Became("unjudged")
    BY <2>0, <2>4, <2>a, RunBroken
  <2>5. CASE stats' = stats /\ streak' = 0 /\ ~allowed /\ trace' = trace
    <3>1. streak = 0
      BY <1>a, <2>0, <2>5
    <3> QED BY <2>0, <2>5, <3>1, RunSame
  <2> QED BY <1>14, <2>1, <2>2, <2>3, <2>4, <2>5 DEF TestJudge
<1>15. ASSUME TestEndOfFrame PROVE RunInv'
  BY <1>15, <1>a, RunSame DEF TestEndOfFrame
<1>16. ASSUME AddStarts PROVE RunInv'
  BY <1>16 DEF AddStarts, Adding, Testing, RunInv
<1>17. ASSUME AddStops PROVE RunInv'
  BY <1>17 DEF AddStops, Adding, Testing, RunInv
<1>18. ASSUME AddNextFrame PROVE RunInv'
  BY <1>18 DEF AddNextFrame, Adding, Testing, RunInv
<1>19. ASSUME AddNoFrame PROVE RunInv'
  BY <1>19 DEF AddNoFrame, Adding, Testing, RunInv
<1>20. ASSUME AddNoFace PROVE RunInv'
  BY <1>20 DEF AddNoFace, Adding, Testing, RunInv
<1>21. ASSUME AddFaceFound PROVE RunInv'
  BY <1>21 DEF AddFaceFound, Adding, Testing, RunInv
<1>22. ASSUME AddLivenessPasses PROVE RunInv'
  BY <1>22 DEF AddLivenessPasses, Adding, Testing, RunInv
<1>23. ASSUME AddSpoof PROVE RunInv'
  BY <1>23 DEF AddSpoof, Adding, Testing, RunInv
<1>24. ASSUME AddLivenessBreaks PROVE RunInv'
  BY <1>24 DEF AddLivenessBreaks, Adding, Testing, RunInv
<1>25. ASSUME AddKeep PROVE RunInv'
  BY <1>25 DEF AddKeep, Adding, Testing, RunInv
<1>26. ASSUME AddEndOfFrame PROVE RunInv'
  BY <1>26 DEF AddEndOfFrame, Adding, Testing, RunInv
<1>27. ASSUME AddSave PROVE RunInv'
  BY <1>27 DEF AddSave, Adding, Testing, RunInv
<1>28. ASSUME UNCHANGED vars PROVE RunInv'
  <2>1. CASE Testing
    BY <1>28, <1>a, <2>1, RunSame DEF vars
  <2>2. CASE ~Testing
    BY <1>28, <2>2 DEF vars, Testing, RunInv
  <2> QED BY <2>1, <2>2
<1>29. ASSUME TestSelectFails PROVE RunInv'
  <2>1. stats.max_streak' = stats.max_streak
    BY <1>29 DEF TestSelectFails
  <2>2. Testing /\ setup' = setup /\ Became("failed") /\ streak' = streak /\ (~allowed' => streak = 0)
    BY <1>29, <1>a DEF TestSelectFails
  <2> QED BY <2>1, <2>2, RunIdle
<1> QED BY <1>1, <1>2, <1>3, <1>4, <1>5, <1>6, <1>7, <1>8, <1>9, <1>10, <1>11, <1>12, <1>13,
           <1>14, <1>15, <1>16, <1>17, <1>18, <1>19, <1>20, <1>21, <1>22, <1>23, <1>24, <1>25,
           <1>26, <1>27, <1>28, <1>29
  DEF Next, Test, AddFace

-----------------------------------------------------------------------------
(* The counters against the frames                                          *)

\* The frames after a step that adds none
LEMMA TraceSame ==
  ASSUME TraceInv, setup' = setup, trace' = trace, stats.matched' = stats.matched,
         stats.anti_spoof_errors' >= stats.anti_spoof_errors, StatsOK, StatsOK',
         Testing => /\ stop' = None => stats.total' = Len(trace) + Uncounted' + Unjudged'
                    /\ stop' # "error" => stats.valid' = Cardinality(Fates(Judged)) + Unjudged'
  PROVE  TraceInv'
<1>1. CASE Testing
  <2>1. /\ trace \in Seq(Judged \cup {"unread", "noface", "invalid", "failed"})
        /\ stats.matched = Cardinality(Fates({"match"}))
        /\ Cardinality(Fates({"broken"})) <= stats.anti_spoof_errors
    BY <1>1 DEF TraceInv
  <2>2. \A kinds : Fates(kinds)' = Fates(kinds)
    BY DEF Fates
  <2>3. Fates({"match"})' = Fates({"match"}) /\ Fates({"broken"})' = Fates({"broken"})
        /\ Fates(Judged)' = Fates(Judged) /\ Judged' = Judged
    BY <2>2 DEF Judged
  <2>4. stats.anti_spoof_errors \in Int /\ stats.anti_spoof_errors' \in Int
    BY Config DEF StatsOK, Counters
  <2>5. Cardinality(Fates({"broken"})) \in Nat
    <3>1. PICK n \in Nat : n = Len(trace) /\ DOMAIN trace = 1..n
      BY <2>1
    <3>2. Fates({"broken"}) \in SUBSET (1..n)
      BY <3>1 DEF Fates
    <3> QED BY <3>1, <3>2, PartFinite
  <2>6. Cardinality(Fates({"broken"}))' <= stats.anti_spoof_errors'
    BY <2>1, <2>3, <2>4, <2>5
  <2> QED BY <1>1, <2>1, <2>3, <2>6 DEF TraceInv
<1>2. CASE ~Testing
  BY <1>2 DEF TraceInv, Testing
<1> QED BY <1>1, <1>2

\* ... and after one that adds one
LEMMA TraceGrows ==
  ASSUME TraceInv, Testing, setup' = setup, StatsOK, StatsOK',
         NEW x \in Judged \cup {"unread", "noface", "invalid", "failed"}, Became(x),
         stats.matched' = stats.matched + (IF x = "match" THEN 1 ELSE 0),
         stats.anti_spoof_errors' = stats.anti_spoof_errors + (IF x = "broken" THEN 1 ELSE 0),
         stop' = None => stats.total' = Len(trace) + 1 + Uncounted' + Unjudged',
         stop' # "error" =>
            stats.valid' = Cardinality(Fates(Judged)) + (IF x \in Judged THEN 1 ELSE 0) + Unjudged'
  PROVE  TraceInv'
<1> DEFINE K == Judged \cup {"unread", "noface", "invalid", "failed"}
<1>1. /\ trace \in Seq(K) /\ x \in K
      /\ stats.matched = Cardinality(Fates({"match"}))
      /\ Cardinality(Fates({"broken"})) <= stats.anti_spoof_errors
  BY DEF TraceInv
<1>2. Len(trace') = Len(trace) + 1 /\ trace' \in Seq(K)
  BY <1>1, Grown
<1> HIDE DEF K
<1>3. ASSUME NEW kinds
      PROVE  /\ Cardinality(Fates(kinds)) \in Nat
             /\ Cardinality(Fates(kinds)') = Cardinality(Fates(kinds)) + IF x \in kinds THEN 1 ELSE 0
  BY <1>1, FatesGrow
<1>4. Cardinality(Fates({"match"})') = Cardinality(Fates({"match"})) + IF x = "match" THEN 1 ELSE 0
  <2>1. x \in {"match"} <=> x = "match"
    OBVIOUS
  <2> QED BY <1>3, <2>1
<1>5. /\ Cardinality(Fates({"broken"})') = Cardinality(Fates({"broken"})) + IF x = "broken" THEN 1 ELSE 0
      /\ Cardinality(Fates({"broken"})) \in Nat
  <2>1. x \in {"broken"} <=> x = "broken"
    OBVIOUS
  <2> QED BY <1>3, <2>1
<1>6. Cardinality(Fates(Judged)') = Cardinality(Fates(Judged)) + IF x \in Judged THEN 1 ELSE 0
  BY <1>3
<1>7. stats.anti_spoof_errors \in Int /\ stats.anti_spoof_errors' \in Int
  BY Config DEF StatsOK, Counters
<1>8. Cardinality(Fates({"broken"}))' <= stats.anti_spoof_errors'
  BY <1>1, <1>5, <1>7
<1>9. Testing' /\ Judged' = Judged
  BY DEF Testing, Judged
<1>10. stats.matched' = Cardinality(Fates({"match"}))'
  BY <1>1, <1>4
<1>11. stop' # "error" => stats.valid' = Cardinality(Fates(Judged))' + Unjudged'
  BY <1>6
<1>12. stop' = None => stats.total' = Len(trace)' + Uncounted' + Unjudged'
  BY <1>2
<1> QED BY <1>2, <1>8, <1>9, <1>10, <1>11, <1>12 DEF TraceInv, K

\* Each step keeps the counters those of the frames in the trace.
LEMMA TraceStep ==
  LookOK /\ StatsOK /\ FrameInv /\ CountInv /\ TraceInv /\ [Next]_vars => TraceInv'
<1> SUFFICES ASSUME LookOK, StatsOK, FrameInv, CountInv, TraceInv, [Next]_vars PROVE TraceInv'
  OBVIOUS
<1>a. /\ Testing => /\ stop = None => stats.total = Len(trace) + Uncounted + Unjudged
                    /\ stop # "error" => stats.valid = Cardinality(Fates(Judged)) + Unjudged
                    /\ Len(trace) \in Nat /\ Cardinality(Fates(Judged)) \in Nat
      /\ None # "error" /\ StatsOK /\ StatsOK' /\ TraceInv
      /\ stats.total \in Nat /\ stats.valid \in Nat /\ stats.anti_spoof_errors \in Nat /\ stats.matched \in Nat
  <2>1. ASSUME Testing PROVE Len(trace) \in Nat /\ Cardinality(Fates(Judged)) \in Nat
    <3>1. PICK n \in Nat : n = Len(trace) /\ DOMAIN trace = 1..n
      BY <2>1 DEF TraceInv
    <3>2. Fates(Judged) \in SUBSET (1..n)
      BY <3>1 DEF Fates
    <3> QED BY <3>1, <3>2, PartFinite
  <2>2. "error" # None
    BY Config DEF Reasons
  <2>3. stats.total \in Nat /\ stats.valid \in Nat /\ stats.anti_spoof_errors \in Nat /\ stats.matched \in Nat
    BY Tallied DEF TypeOK, LookOK, StatsOK
  <2> QED BY <2>1, <2>2, <2>3, StatsStep DEF TraceInv
<1>b. /\ (stop # None) = (pc = "done") /\ \A r \in Reasons : r # None
      /\ pc = "liveness" => allowed
  BY Config DEF LookOK, FrameInv
<1> USE <1>b
<1> USE DEF looked, kept, tally, Go, End, Forget, NextFrame, Uncounted, Unjudged, Reasons, GivenUp
<1>1. ASSUME StartFails PROVE TraceInv'
  <2>1. /\ UNCHANGED <<setup, trace, stats>> /\ stop = None
        /\ stop' = None => Testing /\ Uncounted' = Uncounted /\ Unjudged' = Unjudged
        /\ stop' # "error" => Testing /\ Unjudged' = Unjudged
    BY <1>1 DEF StartFails
  <2>2. UNCHANGED <<stats.matched, stats.anti_spoof_errors, stats.total, stats.valid>>
    BY <2>1
  <2> HIDE DEF Uncounted, Unjudged, Reasons
  <2>9. Testing => /\ stop' = None => stats.total' = Len(trace) + Uncounted' + Unjudged'
                   /\ stop' # "error" => stats.valid' = Cardinality(Fates(Judged)) + Unjudged'
    BY <1>a, <2>1, <2>2
  <2>10. stats.anti_spoof_errors' >= stats.anti_spoof_errors
    BY <1>a, <2>1, <2>2
  <2> QED BY <1>a, <2>1, <2>2, <2>9, <2>10, TraceSame
<1>2. ASSUME ExtractFails PROVE TraceInv'
  <2>1. /\ UNCHANGED <<setup, trace, stats>> /\ stop = None
        /\ stop' = None => Testing /\ Uncounted' = Uncounted /\ Unjudged' = Unjudged
        /\ stop' # "error" => Testing /\ Unjudged' = Unjudged
    BY <1>2 DEF ExtractFails
  <2>2. UNCHANGED <<stats.matched, stats.anti_spoof_errors, stats.total, stats.valid>>
    BY <2>1
  <2> HIDE DEF Uncounted, Unjudged, Reasons
  <2>9. Testing => /\ stop' = None => stats.total' = Len(trace) + Uncounted' + Unjudged'
                   /\ stop' # "error" => stats.valid' = Cardinality(Fates(Judged)) + Unjudged'
    BY <1>a, <2>1, <2>2
  <2>10. stats.anti_spoof_errors' >= stats.anti_spoof_errors
    BY <1>a, <2>1, <2>2
  <2> QED BY <1>a, <2>1, <2>2, <2>9, <2>10, TraceSame
<1>3. ASSUME TestStarts PROVE TraceInv'
  <2>1. /\ UNCHANGED <<setup, trace, stats>> /\ stop = None
        /\ stop' = None => Testing /\ Uncounted' = Uncounted /\ Unjudged' = Unjudged
        /\ stop' # "error" => Testing /\ Unjudged' = Unjudged
    BY <1>3 DEF TestStarts
  <2>2. UNCHANGED <<stats.matched, stats.anti_spoof_errors, stats.total, stats.valid>>
    BY <2>1
  <2> HIDE DEF Uncounted, Unjudged, Reasons
  <2>9. Testing => /\ stop' = None => stats.total' = Len(trace) + Uncounted' + Unjudged'
                   /\ stop' # "error" => stats.valid' = Cardinality(Fates(Judged)) + Unjudged'
    BY <1>a, <2>1, <2>2
  <2>10. stats.anti_spoof_errors' >= stats.anti_spoof_errors
    BY <1>a, <2>1, <2>2
  <2> QED BY <1>a, <2>1, <2>2, <2>9, <2>10, TraceSame
<1>4. ASSUME TestStops PROVE TraceInv'
  <2>1. /\ UNCHANGED <<setup, trace, stats>> /\ stop = None
        /\ stop' = None => Testing /\ Uncounted' = Uncounted /\ Unjudged' = Unjudged
        /\ stop' # "error" => Testing /\ Unjudged' = Unjudged
    BY <1>4 DEF TestStops
  <2>2. UNCHANGED <<stats.matched, stats.anti_spoof_errors, stats.total, stats.valid>>
    BY <2>1
  <2> HIDE DEF Uncounted, Unjudged, Reasons
  <2>9. Testing => /\ stop' = None => stats.total' = Len(trace) + Uncounted' + Unjudged'
                   /\ stop' # "error" => stats.valid' = Cardinality(Fates(Judged)) + Unjudged'
    BY <1>a, <2>1, <2>2
  <2>10. stats.anti_spoof_errors' >= stats.anti_spoof_errors
    BY <1>a, <2>1, <2>2
  <2> QED BY <1>a, <2>1, <2>2, <2>9, <2>10, TraceSame
<1>5. ASSUME TestNextFrame PROVE TraceInv'
  <2>1. CountsAs({"total"})
    BY <1>5, AddedEach DEF TestNextFrame
  <2>2. /\ stats.matched' = stats.matched
        /\ stats.anti_spoof_errors' = stats.anti_spoof_errors
        /\ stats.total' = stats.total + 1
        /\ stats.valid' = stats.valid
    BY <2>1 DEF CountsAs
  <2>3. /\ Testing /\ UNCHANGED <<setup, trace, stop>> /\ stop = None
        /\ Uncounted = 0 /\ Uncounted' = 1 /\ Unjudged = 0 /\ Unjudged' = 0
    BY <1>5 DEF TestNextFrame
  <2> HIDE DEF Uncounted, Unjudged, Reasons
  <2>9. Testing => /\ stop' = None => stats.total' = Len(trace) + Uncounted' + Unjudged'
                   /\ stop' # "error" => stats.valid' = Cardinality(Fates(Judged)) + Unjudged'
    BY <1>a, <2>2, <2>3
  <2>10. stats.anti_spoof_errors' >= stats.anti_spoof_errors
    BY <1>a, <2>2, <2>3
  <2> QED BY <1>a, <2>2, <2>3, <2>9, <2>10, TraceSame
<1>6. ASSUME TestRestart PROVE TraceInv'
  <2>0. /\ Testing /\ UNCHANGED <<setup, trace>> /\ stop = None /\ Uncounted = 1
        /\ Unjudged = 0 /\ Unjudged' = 0 /\ (stop' = None => Uncounted' = 1)
    BY <1>6 DEF TestRestart
  <2>1. CASE UNCHANGED stats
    <3>1. UNCHANGED <<stats.matched, stats.anti_spoof_errors, stats.total, stats.valid>>
      BY <2>1
    <3> HIDE DEF Uncounted, Unjudged, Reasons
    <3>9. Testing => /\ stop' = None => stats.total' = Len(trace) + Uncounted' + Unjudged'
                     /\ stop' # "error" => stats.valid' = Cardinality(Fates(Judged)) + Unjudged'
      BY <1>a, <2>0, <3>1
    <3>10. stats.anti_spoof_errors' >= stats.anti_spoof_errors
      BY <1>a, <2>0, <3>1
    <3> QED BY <1>a, <2>0, <3>1, <3>9, <3>10, TraceSame
  <2>2. CASE stats' = Add({"anti_spoof_errors"})
    <3>1. CountsAs({"anti_spoof_errors"})
      BY <2>2, AddedEach
    <3>2. /\ stats.matched' = stats.matched
          /\ stats.anti_spoof_errors' = stats.anti_spoof_errors + 1
          /\ stats.total' = stats.total
          /\ stats.valid' = stats.valid
      BY <3>1 DEF CountsAs
    <3> HIDE DEF Uncounted, Unjudged, Reasons
    <3>9. Testing => /\ stop' = None => stats.total' = Len(trace) + Uncounted' + Unjudged'
                     /\ stop' # "error" => stats.valid' = Cardinality(Fates(Judged)) + Unjudged'
      BY <1>a, <2>0, <3>2
    <3>10. stats.anti_spoof_errors' >= stats.anti_spoof_errors
      BY <1>a, <2>0, <3>2
    <3> QED BY <1>a, <2>0, <3>2, <3>9, <3>10, TraceSame
  <2> QED BY <1>6, <2>1, <2>2 DEF TestRestart
<1>7. ASSUME TestNoFrame PROVE TraceInv'
  <2>1. CountsAs({"frame_errors"})
    BY <1>7, AddedEach DEF TestNoFrame
  <2>2. /\ stats.matched' = stats.matched
        /\ stats.anti_spoof_errors' = stats.anti_spoof_errors
        /\ stats.total' = stats.total
        /\ stats.valid' = stats.valid
    BY <2>1 DEF CountsAs
  <2>3. /\ Testing /\ setup' = setup /\ stop = None /\ Became("unread")
        /\ Uncounted = 1 /\ Uncounted' = 0 /\ Unjudged = 0 /\ Unjudged' = 0
    BY <1>7 DEF TestNoFrame
  <2>4. "unread" \notin Judged /\ "unread" # "match" /\ "unread" # "broken"
    BY DEF Judged
  <2> HIDE DEF Uncounted, Unjudged, Reasons
  <2>9. stop' = None => stats.total' = Len(trace) + 1 + Uncounted' + Unjudged'
    BY <1>a, <2>2, <2>3, <2>4
  <2>10. stop' # "error" =>
            stats.valid' = Cardinality(Fates(Judged)) + (IF "unread" \in Judged THEN 1 ELSE 0) + Unjudged'
    BY <1>a, <2>2, <2>3, <2>4
  <2>11. /\ stats.matched' = stats.matched + (IF "unread" = "match" THEN 1 ELSE 0)
         /\ stats.anti_spoof_errors' = stats.anti_spoof_errors + (IF "unread" = "broken" THEN 1 ELSE 0)
    BY <1>a, <2>2, <2>3, <2>4
  <2>12. "unread" \in Judged \cup {"unread", "noface", "invalid", "failed"}
    BY <1>a, <2>2, <2>3, <2>4
  <2> QED BY <1>a, <2>2, <2>3, <2>4, <2>9, <2>10, <2>11, <2>12, TraceGrows
<1>8. ASSUME TestNoFace PROVE TraceInv'
  <2>1. CountsAs({"no_face"})
    BY <1>8, AddedEach DEF TestNoFace
  <2>2. /\ stats.matched' = stats.matched
        /\ stats.anti_spoof_errors' = stats.anti_spoof_errors
        /\ stats.total' = stats.total
        /\ stats.valid' = stats.valid
    BY <2>1 DEF CountsAs
  <2>3. /\ Testing /\ setup' = setup /\ stop = None /\ Became("noface")
        /\ Uncounted = 1 /\ Uncounted' = 0 /\ Unjudged = 0 /\ Unjudged' = 0
    BY <1>8 DEF TestNoFace
  <2>4. "noface" \notin Judged /\ "noface" # "match" /\ "noface" # "broken"
    BY DEF Judged
  <2> HIDE DEF Uncounted, Unjudged, Reasons
  <2>9. stop' = None => stats.total' = Len(trace) + 1 + Uncounted' + Unjudged'
    BY <1>a, <2>2, <2>3, <2>4
  <2>10. stop' # "error" =>
            stats.valid' = Cardinality(Fates(Judged)) + (IF "noface" \in Judged THEN 1 ELSE 0) + Unjudged'
    BY <1>a, <2>2, <2>3, <2>4
  <2>11. /\ stats.matched' = stats.matched + (IF "noface" = "match" THEN 1 ELSE 0)
         /\ stats.anti_spoof_errors' = stats.anti_spoof_errors + (IF "noface" = "broken" THEN 1 ELSE 0)
    BY <1>a, <2>2, <2>3, <2>4
  <2>12. "noface" \in Judged \cup {"unread", "noface", "invalid", "failed"}
    BY <1>a, <2>2, <2>3, <2>4
  <2> QED BY <1>a, <2>2, <2>3, <2>4, <2>9, <2>10, <2>11, <2>12, TraceGrows
<1>9. ASSUME TestInvalidFace PROVE TraceInv'
  <2>1. CountsAs({"detected", "invalid"})
    BY <1>9, AddedEach DEF TestInvalidFace
  <2>2. /\ stats.matched' = stats.matched
        /\ stats.anti_spoof_errors' = stats.anti_spoof_errors
        /\ stats.total' = stats.total
        /\ stats.valid' = stats.valid
    BY <2>1 DEF CountsAs
  <2>3. /\ Testing /\ setup' = setup /\ stop = None /\ Became("invalid")
        /\ Uncounted = 1 /\ Uncounted' = 0 /\ Unjudged = 0 /\ Unjudged' = 0
    BY <1>9 DEF TestInvalidFace
  <2>4. "invalid" \notin Judged /\ "invalid" # "match" /\ "invalid" # "broken"
    BY DEF Judged
  <2> HIDE DEF Uncounted, Unjudged, Reasons
  <2>9. stop' = None => stats.total' = Len(trace) + 1 + Uncounted' + Unjudged'
    BY <1>a, <2>2, <2>3, <2>4
  <2>10. stop' # "error" =>
            stats.valid' = Cardinality(Fates(Judged)) + (IF "invalid" \in Judged THEN 1 ELSE 0) + Unjudged'
    BY <1>a, <2>2, <2>3, <2>4
  <2>11. /\ stats.matched' = stats.matched + (IF "invalid" = "match" THEN 1 ELSE 0)
         /\ stats.anti_spoof_errors' = stats.anti_spoof_errors + (IF "invalid" = "broken" THEN 1 ELSE 0)
    BY <1>a, <2>2, <2>3, <2>4
  <2>12. "invalid" \in Judged \cup {"unread", "noface", "invalid", "failed"}
    BY <1>a, <2>2, <2>3, <2>4
  <2> QED BY <1>a, <2>2, <2>3, <2>4, <2>9, <2>10, <2>11, <2>12, TraceGrows
<1>10. ASSUME TestFaceFound PROVE TraceInv'
  <2>1. CountsAs({"detected", "valid"})
    BY <1>10, AddedEach DEF TestFaceFound
  <2>2. /\ stats.matched' = stats.matched
        /\ stats.anti_spoof_errors' = stats.anti_spoof_errors
        /\ stats.total' = stats.total
        /\ stats.valid' = stats.valid + 1
    BY <2>1 DEF CountsAs
  <2>3. /\ Testing /\ UNCHANGED <<setup, trace, stop>> /\ stop = None
        /\ Uncounted = 1 /\ Uncounted' = 0 /\ Unjudged = 0 /\ Unjudged' = 1
    BY <1>10 DEF TestFaceFound
  <2> HIDE DEF Uncounted, Unjudged, Reasons
  <2>9. Testing => /\ stop' = None => stats.total' = Len(trace) + Uncounted' + Unjudged'
                   /\ stop' # "error" => stats.valid' = Cardinality(Fates(Judged)) + Unjudged'
    BY <1>a, <2>2, <2>3
  <2>10. stats.anti_spoof_errors' >= stats.anti_spoof_errors
    BY <1>a, <2>2, <2>3
  <2> QED BY <1>a, <2>2, <2>3, <2>9, <2>10, TraceSame
<1>11. ASSUME TestLivenessPasses PROVE TraceInv'
  <2>1. /\ UNCHANGED <<setup, trace, stats>> /\ stop = None
        /\ stop' = None => Testing /\ Uncounted' = Uncounted /\ Unjudged' = Unjudged
        /\ stop' # "error" => Testing /\ Unjudged' = Unjudged
    BY <1>11 DEF TestLivenessPasses
  <2>2. UNCHANGED <<stats.matched, stats.anti_spoof_errors, stats.total, stats.valid>>
    BY <2>1
  <2> HIDE DEF Uncounted, Unjudged, Reasons
  <2>9. Testing => /\ stop' = None => stats.total' = Len(trace) + Uncounted' + Unjudged'
                   /\ stop' # "error" => stats.valid' = Cardinality(Fates(Judged)) + Unjudged'
    BY <1>a, <2>1, <2>2
  <2>10. stats.anti_spoof_errors' >= stats.anti_spoof_errors
    BY <1>a, <2>1, <2>2
  <2> QED BY <1>a, <2>1, <2>2, <2>9, <2>10, TraceSame
<1>12. ASSUME TestSpoof PROVE TraceInv'
  <2>1. CountsAs({"spoof"})
    BY <1>12, AddedEach DEF TestSpoof
  <2>2. /\ stats.matched' = stats.matched
        /\ stats.anti_spoof_errors' = stats.anti_spoof_errors
        /\ stats.total' = stats.total
        /\ stats.valid' = stats.valid
    BY <2>1 DEF CountsAs
  <2>3. /\ Testing /\ setup' = setup /\ stop = None /\ Became("spoof")
        /\ Uncounted = 0 /\ Uncounted' = 0 /\ Unjudged = 1 /\ Unjudged' = 0
    BY <1>12 DEF TestSpoof
  <2>4. "spoof" \in Judged /\ "spoof" # "match" /\ "spoof" # "broken"
    BY DEF Judged
  <2> HIDE DEF Uncounted, Unjudged, Reasons
  <2>9. stop' = None => stats.total' = Len(trace) + 1 + Uncounted' + Unjudged'
    BY <1>a, <2>2, <2>3, <2>4
  <2>10. stop' # "error" =>
            stats.valid' = Cardinality(Fates(Judged)) + (IF "spoof" \in Judged THEN 1 ELSE 0) + Unjudged'
    BY <1>a, <2>2, <2>3, <2>4
  <2>11. /\ stats.matched' = stats.matched + (IF "spoof" = "match" THEN 1 ELSE 0)
         /\ stats.anti_spoof_errors' = stats.anti_spoof_errors + (IF "spoof" = "broken" THEN 1 ELSE 0)
    BY <1>a, <2>2, <2>3, <2>4
  <2>12. "spoof" \in Judged \cup {"unread", "noface", "invalid", "failed"}
    BY <1>a, <2>2, <2>3, <2>4
  <2> QED BY <1>a, <2>2, <2>3, <2>4, <2>9, <2>10, <2>11, <2>12, TraceGrows
<1>13. ASSUME TestLivenessBreaks PROVE TraceInv'
  <2>1. CountsAs({"anti_spoof_errors"})
    BY <1>13, AddedEach DEF TestLivenessBreaks
  <2>2. /\ stats.matched' = stats.matched
        /\ stats.anti_spoof_errors' = stats.anti_spoof_errors + 1
        /\ stats.total' = stats.total
        /\ stats.valid' = stats.valid
    BY <2>1 DEF CountsAs
  <2>3. /\ Testing /\ setup' = setup /\ stop = None /\ Became("broken")
        /\ Uncounted = 0 /\ Uncounted' = 0 /\ Unjudged = 1 /\ Unjudged' = 0
    BY <1>13 DEF TestLivenessBreaks
  <2>4. "broken" \in Judged /\ "broken" # "match" 
    BY DEF Judged
  <2> HIDE DEF Uncounted, Unjudged, Reasons
  <2>9. stop' = None => stats.total' = Len(trace) + 1 + Uncounted' + Unjudged'
    BY <1>a, <2>2, <2>3, <2>4
  <2>10. stop' # "error" =>
            stats.valid' = Cardinality(Fates(Judged)) + (IF "broken" \in Judged THEN 1 ELSE 0) + Unjudged'
    BY <1>a, <2>2, <2>3, <2>4
  <2>11. /\ stats.matched' = stats.matched + (IF "broken" = "match" THEN 1 ELSE 0)
         /\ stats.anti_spoof_errors' = stats.anti_spoof_errors + (IF "broken" = "broken" THEN 1 ELSE 0)
    BY <1>a, <2>2, <2>3, <2>4
  <2>12. "broken" \in Judged \cup {"unread", "noface", "invalid", "failed"}
    BY <1>a, <2>2, <2>3, <2>4
  <2> QED BY <1>a, <2>2, <2>3, <2>4, <2>9, <2>10, <2>11, <2>12, TraceGrows
<1>14. ASSUME TestJudge PROVE TraceInv'
  <2>0. /\ Testing /\ setup' = setup /\ allowed' = allowed /\ stop = None /\ stop' = None
        /\ Uncounted = 0 /\ Uncounted' = 0 /\ Unjudged' = 0 /\ Unjudged = IF allowed THEN 1 ELSE 0
    BY <1>14 DEF TestJudge
  <2>a. {"match", "miss", "unjudged"} \subseteq Judged
    BY DEF Judged
  <2>1. CASE /\ stats' = [Add({"matched"}) EXCEPT !.max_streak = Max({@, streak + 1})]
             /\ allowed /\ Became("match")
    <3>1. /\ stats.matched' = stats.matched + 1
          /\ UNCHANGED <<stats.anti_spoof_errors, stats.total, stats.valid>>
      BY <2>1, Matched DEF Counters
    <3> HIDE DEF Uncounted, Unjudged, Reasons
    <3>9. stop' = None => stats.total' = Len(trace) + 1 + Uncounted' + Unjudged'
      BY <1>a, <2>0, <2>1, <2>a, <3>1
    <3>10. stop' # "error" =>
              stats.valid' = Cardinality(Fates(Judged)) + (IF "match" \in Judged THEN 1 ELSE 0) + Unjudged'
      BY <1>a, <2>0, <2>1, <2>a, <3>1
    <3>11. /\ stats.matched' = stats.matched + (IF "match" = "match" THEN 1 ELSE 0)
           /\ stats.anti_spoof_errors' = stats.anti_spoof_errors + (IF "match" = "broken" THEN 1 ELSE 0)
      BY <1>a, <2>0, <2>1, <2>a, <3>1
    <3>12. "match" \in Judged \cup {"unread", "noface", "invalid", "failed"}
      BY <1>a, <2>0, <2>1, <2>a, <3>1
    <3> QED BY <1>a, <2>0, <2>1, <2>a, <3>1, <3>9, <3>10, <3>11, <3>12, TraceGrows
  <2>2. CASE stats' = Add({"unmatched"}) /\ allowed /\ Became("miss")
    <3>1. CountsAs({"unmatched"})
      BY <2>2, AddedEach
    <3>2. UNCHANGED <<stats.matched, stats.anti_spoof_errors, stats.total, stats.valid>>
      BY <3>1 DEF CountsAs
    <3> HIDE DEF Uncounted, Unjudged, Reasons
    <3>9. stop' = None => stats.total' = Len(trace) + 1 + Uncounted' + Unjudged'
      BY <1>a, <2>0, <2>2, <2>a, <3>2
    <3>10. stop' # "error" =>
              stats.valid' = Cardinality(Fates(Judged)) + (IF "miss" \in Judged THEN 1 ELSE 0) + Unjudged'
      BY <1>a, <2>0, <2>2, <2>a, <3>2
    <3>11. /\ stats.matched' = stats.matched + (IF "miss" = "match" THEN 1 ELSE 0)
           /\ stats.anti_spoof_errors' = stats.anti_spoof_errors + (IF "miss" = "broken" THEN 1 ELSE 0)
      BY <1>a, <2>0, <2>2, <2>a, <3>2
    <3>12. "miss" \in Judged \cup {"unread", "noface", "invalid", "failed"}
      BY <1>a, <2>0, <2>2, <2>a, <3>2
    <3> QED BY <1>a, <2>0, <2>2, <2>a, <3>2, <3>9, <3>10, <3>11, <3>12, TraceGrows
  <2>3. CASE stats' = stats /\ ~allowed /\ trace' = trace
    <3>1. UNCHANGED <<stats.matched, stats.anti_spoof_errors, stats.total, stats.valid>>
      BY <2>3
    <3> HIDE DEF Uncounted, Unjudged, Reasons
    <3>9. Testing => /\ stop' = None => stats.total' = Len(trace) + Uncounted' + Unjudged'
                     /\ stop' # "error" => stats.valid' = Cardinality(Fates(Judged)) + Unjudged'
      BY <1>a, <2>0, <2>3, <3>1
    <3>10. stats.anti_spoof_errors' >= stats.anti_spoof_errors
      BY <1>a, <2>0, <2>3, <3>1
    <3> QED BY <1>a, <2>0, <2>3, <3>1, <3>9, <3>10, TraceSame
  <2>4. CASE stats' = stats /\ allowed /\ Became("unjudged")
    <3>1. UNCHANGED <<stats.matched, stats.anti_spoof_errors, stats.total, stats.valid>>
      BY <2>4
    <3> HIDE DEF Uncounted, Unjudged, Reasons
    <3>9. stop' = None => stats.total' = Len(trace) + 1 + Uncounted' + Unjudged'
      BY <1>a, <2>0, <2>4, <2>a, <3>1
    <3>10. stop' # "error" =>
              stats.valid' = Cardinality(Fates(Judged)) + (IF "unjudged" \in Judged THEN 1 ELSE 0) + Unjudged'
      BY <1>a, <2>0, <2>4, <2>a, <3>1
    <3>11. /\ stats.matched' = stats.matched + (IF "unjudged" = "match" THEN 1 ELSE 0)
           /\ stats.anti_spoof_errors' = stats.anti_spoof_errors + (IF "unjudged" = "broken" THEN 1 ELSE 0)
      BY <1>a, <2>0, <2>4, <2>a, <3>1
    <3>12. "unjudged" \in Judged \cup {"unread", "noface", "invalid", "failed"}
      BY <1>a, <2>0, <2>4, <2>a, <3>1
    <3> QED BY <1>a, <2>0, <2>4, <2>a, <3>1, <3>9, <3>10, <3>11, <3>12, TraceGrows
  <2> QED BY <1>14, <2>1, <2>2, <2>3, <2>4 DEF TestJudge
<1>15. ASSUME TestEndOfFrame PROVE TraceInv'
  <2>1. /\ UNCHANGED <<setup, trace, stats>> /\ stop = None
        /\ stop' = None => Testing /\ Uncounted' = Uncounted /\ Unjudged' = Unjudged
        /\ stop' # "error" => Testing /\ Unjudged' = Unjudged
    BY <1>15 DEF TestEndOfFrame
  <2>2. UNCHANGED <<stats.matched, stats.anti_spoof_errors, stats.total, stats.valid>>
    BY <2>1
  <2> HIDE DEF Uncounted, Unjudged, Reasons
  <2>9. Testing => /\ stop' = None => stats.total' = Len(trace) + Uncounted' + Unjudged'
                   /\ stop' # "error" => stats.valid' = Cardinality(Fates(Judged)) + Unjudged'
    BY <1>a, <2>1, <2>2
  <2>10. stats.anti_spoof_errors' >= stats.anti_spoof_errors
    BY <1>a, <2>1, <2>2
  <2> QED BY <1>a, <2>1, <2>2, <2>9, <2>10, TraceSame
<1>16. ASSUME AddStarts PROVE TraceInv'
  BY <1>16 DEF AddStarts, Adding, Testing, TraceInv
<1>17. ASSUME AddStops PROVE TraceInv'
  BY <1>17 DEF AddStops, Adding, Testing, TraceInv
<1>18. ASSUME AddNextFrame PROVE TraceInv'
  BY <1>18 DEF AddNextFrame, Adding, Testing, TraceInv
<1>19. ASSUME AddNoFrame PROVE TraceInv'
  BY <1>19 DEF AddNoFrame, Adding, Testing, TraceInv
<1>20. ASSUME AddNoFace PROVE TraceInv'
  BY <1>20 DEF AddNoFace, Adding, Testing, TraceInv
<1>21. ASSUME AddFaceFound PROVE TraceInv'
  BY <1>21 DEF AddFaceFound, Adding, Testing, TraceInv
<1>22. ASSUME AddLivenessPasses PROVE TraceInv'
  BY <1>22 DEF AddLivenessPasses, Adding, Testing, TraceInv
<1>23. ASSUME AddSpoof PROVE TraceInv'
  BY <1>23 DEF AddSpoof, Adding, Testing, TraceInv
<1>24. ASSUME AddLivenessBreaks PROVE TraceInv'
  BY <1>24 DEF AddLivenessBreaks, Adding, Testing, TraceInv
<1>25. ASSUME AddKeep PROVE TraceInv'
  BY <1>25 DEF AddKeep, Adding, Testing, TraceInv
<1>26. ASSUME AddEndOfFrame PROVE TraceInv'
  BY <1>26 DEF AddEndOfFrame, Adding, Testing, TraceInv
<1>27. ASSUME AddSave PROVE TraceInv'
  BY <1>27 DEF AddSave, Adding, Testing, TraceInv
<1>28. ASSUME UNCHANGED vars PROVE TraceInv'
  <2>1. /\ UNCHANGED <<setup, trace, stats>>
        /\ UNCHANGED <<stop, Uncounted, Unjudged>>
    BY <1>28 DEF vars
  <2>2. UNCHANGED <<stats.matched, stats.anti_spoof_errors, stats.total, stats.valid>>
    BY <2>1
  <2> HIDE DEF Uncounted, Unjudged, Reasons
  <2>9. Testing => /\ stop' = None => stats.total' = Len(trace) + Uncounted' + Unjudged'
                   /\ stop' # "error" => stats.valid' = Cardinality(Fates(Judged)) + Unjudged'
    BY <1>a, <2>1, <2>2
  <2>10. stats.anti_spoof_errors' >= stats.anti_spoof_errors
    BY <1>a, <2>1, <2>2
  <2> QED BY <1>a, <2>1, <2>2, <2>9, <2>10, TraceSame
<1>29. ASSUME TestSelectFails PROVE TraceInv'
  <2>1. stats' = stats
    BY <1>29 DEF TestSelectFails
  <2>2. /\ stats.matched' = stats.matched
        /\ stats.anti_spoof_errors' = stats.anti_spoof_errors
        /\ stats.total' = stats.total
        /\ stats.valid' = stats.valid
    BY <2>1
  <2>3. /\ Testing /\ setup' = setup /\ stop = None /\ Became("failed")
        /\ Uncounted = 1 /\ Uncounted' = 0 /\ Unjudged = 0 /\ Unjudged' = 0
    BY <1>29 DEF TestSelectFails
  <2>4. "failed" \notin Judged /\ "failed" # "match" /\ "failed" # "broken"
    BY DEF Judged
  <2> HIDE DEF Uncounted, Unjudged, Reasons
  <2>9. stop' = None => stats.total' = Len(trace) + 1 + Uncounted' + Unjudged'
    BY <1>a, <2>2, <2>3, <2>4
  <2>10. stop' # "error" =>
            stats.valid' = Cardinality(Fates(Judged)) + (IF "failed" \in Judged THEN 1 ELSE 0) + Unjudged'
    BY <1>a, <2>2, <2>3, <2>4
  <2>11. /\ stats.matched' = stats.matched + (IF "failed" = "match" THEN 1 ELSE 0)
         /\ stats.anti_spoof_errors' = stats.anti_spoof_errors + (IF "failed" = "broken" THEN 1 ELSE 0)
    BY <1>a, <2>2, <2>3, <2>4
  <2>12. "failed" \in Judged \cup {"unread", "noface", "invalid", "failed"}
    OBVIOUS
  <2> QED BY <1>a, <2>2, <2>3, <2>4, <2>9, <2>10, <2>11, <2>12, TraceGrows
<1> QED BY <1>1, <1>2, <1>3, <1>4, <1>5, <1>6, <1>7, <1>8, <1>9, <1>10, <1>11, <1>12, <1>13,
           <1>14, <1>15, <1>16, <1>17, <1>18, <1>19, <1>20, <1>21, <1>22, <1>23, <1>24, <1>25,
           <1>26, <1>27, <1>28, <1>29
  DEF Next, Test, AddFace

-----------------------------------------------------------------------------
(* The frames the counters leave out                                        *)

\* How many they are
Gap == Cardinality(Fates({"failed"}))

\* A frame added is one more of them if the search for a face failed in it.
LEMMA GapGrows ==
  ASSUME TraceInv, Testing, NEW x \in Judged \cup {"unread", "noface", "invalid", "failed"},
         Became(x)
  PROVE  Gap' = Gap + IF x = "failed" THEN 1 ELSE 0
<1>1. trace \in Seq(Judged \cup {"unread", "noface", "invalid", "failed"})
  BY DEF TraceInv
<1>2. x \in {"failed"} <=> x = "failed"
  OBVIOUS
<1>3. Cardinality(Fates({"failed"})') = Cardinality(Fates({"failed"})) + IF x \in {"failed"} THEN 1 ELSE 0
  BY <1>1, FatesGrow
<1> QED BY <1>2, <1>3 DEF Gap

\* Each step keeps the counters short of the total by just those frames.
LEMMA MissingStep ==
  LookOK /\ StatsOK /\ FrameInv /\ TraceInv /\ MissingInv /\ [Next]_vars => MissingInv'
<1> SUFFICES ASSUME LookOK, StatsOK, FrameInv, TraceInv, MissingInv, [Next]_vars
             PROVE  MissingInv'
  OBVIOUS
<1>a. /\ stats.total \in Nat /\ stats.frame_errors \in Nat /\ stats.no_face \in Nat
      /\ stats.detected \in Nat
  BY Tallied DEF TypeOK, LookOK, StatsOK
<1>b. (stop # None) = (pc = "done") /\ \A r \in Reasons : r # None
  BY Config DEF LookOK
<1>c. Testing => Gap \in Nat
  <2> SUFFICES ASSUME Testing PROVE Gap \in Nat
    OBVIOUS
  <2>1. PICK n \in Nat : n = Len(trace) /\ DOMAIN trace = 1..n
    BY DEF TraceInv
  <2>2. Fates({"failed"}) \in SUBSET (1..n)
    BY <2>1 DEF Fates
  <2> QED BY <2>1, <2>2, PartFinite DEF Gap
<1>s. trace' = trace => Gap' = Gap
  BY DEF Gap, Fates
<1>k. \A x \in Judged : x # "failed"
  BY DEF Judged
<1>m. MissingInv = (Testing =>
          \/ stats.total = stats.frame_errors + stats.no_face + stats.detected + Gap + Uncounted
          \/ stop = "anti_spoof_error")
  BY DEF MissingInv, Gap
<1>n. MissingInv' = (Testing' =>
          \/ stats.total' = stats.frame_errors' + stats.no_face' + stats.detected' + Gap' + Uncounted'
          \/ stop' = "anti_spoof_error")
  BY DEF MissingInv, Gap
<1> HIDE DEF MissingInv
<1> USE <1>a, <1>b, <1>c, <1>m, <1>n
<1> USE DEF Uncounted, Testing, Reasons, looked, kept, tally, Go, End, GivenUp, Forget,
            NextFrame
<1>1. ASSUME StartFails PROVE MissingInv'
  BY <1>1, <1>s DEF StartFails
<1>2. ASSUME ExtractFails PROVE MissingInv'
  BY <1>2, <1>s DEF ExtractFails
<1>3. ASSUME TestStarts PROVE MissingInv'
  BY <1>3, <1>s DEF TestStarts
<1>4. ASSUME TestStops PROVE MissingInv'
  BY <1>4, <1>s DEF TestStops
<1>5. ASSUME TestNextFrame PROVE MissingInv'
  <2>1. CountsAs({"total"})
    BY <1>5, AddedEach DEF TestNextFrame
  <2>2. Gap' = Gap
    BY <1>5, <1>s DEF TestNextFrame
  <2> QED BY <1>5, <2>1, <2>2 DEF CountsAs, TestNextFrame
<1>6. ASSUME TestRestart PROVE MissingInv'
  <2>0. Testing /\ pc = "restart" /\ setup' = setup /\ stop = None /\ Gap' = Gap
    BY <1>6, <1>s DEF TestRestart
  <2>1. CASE UNCHANGED stats
    BY <1>6, <2>0, <2>1 DEF TestRestart, Affordable
  <2>2. CASE stats' = Add({"anti_spoof_errors"})
    <3>1. CountsAs({"anti_spoof_errors"})
      BY <2>2, AddedEach
    <3> QED BY <1>6, <2>0, <3>1 DEF TestRestart, CountsAs
  <2> QED BY <1>6, <2>1, <2>2 DEF TestRestart
<1>7. ASSUME TestNoFrame PROVE MissingInv'
  <2>1. CountsAs({"frame_errors"})
    BY <1>7, AddedEach DEF TestNoFrame
  <2>2. Gap' = Gap
    BY <1>7, GapGrows, <1>k DEF TestNoFrame
  <2> QED BY <1>7, <2>1, <2>2 DEF CountsAs, TestNoFrame
<1>8. ASSUME TestNoFace PROVE MissingInv'
  <2>1. CountsAs({"no_face"})
    BY <1>8, AddedEach DEF TestNoFace
  <2>2. Gap' = Gap
    BY <1>8, GapGrows, <1>k DEF TestNoFace
  <2>3. /\ stats.total' = stats.total /\ stats.frame_errors' = stats.frame_errors
        /\ stats.no_face' = stats.no_face + 1 /\ stats.detected' = stats.detected
    BY <2>1 DEF CountsAs
  <2>4. Testing /\ setup' = setup /\ Uncounted = 1 /\ Uncounted' = 0 /\ stop = None
    BY <1>8 DEF TestNoFace
  <2>5. stats.total = stats.frame_errors + stats.no_face + stats.detected + Gap + 1
    BY <2>4 DEF Reasons
  <2> HIDE DEF Uncounted, NextFrame, Go, End
  <2> QED BY <2>2, <2>3, <2>4, <2>5
<1>9. ASSUME TestInvalidFace PROVE MissingInv'
  <2>1. CountsAs({"detected", "invalid"})
    BY <1>9, AddedEach DEF TestInvalidFace
  <2>2. Gap' = Gap
    BY <1>9, GapGrows, <1>k DEF TestInvalidFace
  <2> QED BY <1>9, <2>1, <2>2 DEF CountsAs, TestInvalidFace
<1>10. ASSUME TestFaceFound PROVE MissingInv'
  <2>1. CountsAs({"detected", "valid"})
    BY <1>10, AddedEach DEF TestFaceFound
  <2>2. Gap' = Gap
    BY <1>10, <1>s DEF TestFaceFound
  <2> QED BY <1>10, <2>1, <2>2 DEF CountsAs, TestFaceFound
<1>11. ASSUME TestLivenessPasses PROVE MissingInv'
  BY <1>11, <1>s DEF TestLivenessPasses
<1>12. ASSUME TestSpoof PROVE MissingInv'
  <2>1. CountsAs({"spoof"})
    BY <1>12, AddedEach DEF TestSpoof
  <2>2. Gap' = Gap
    <3>1. Testing /\ Became("spoof") /\ "spoof" \in Judged /\ "spoof" # "failed"
      BY <1>12 DEF TestSpoof, Judged
    <3> QED BY <3>1, GapGrows
  <2> QED BY <1>12, <2>1, <2>2 DEF CountsAs, TestSpoof
<1>13. ASSUME TestLivenessBreaks PROVE MissingInv'
  <2>1. CountsAs({"anti_spoof_errors"})
    BY <1>13, AddedEach DEF TestLivenessBreaks
  <2>2. Gap' = Gap
    <3>1. Testing /\ Became("broken") /\ "broken" \in Judged /\ "broken" # "failed"
      BY <1>13 DEF TestLivenessBreaks, Judged
    <3> QED BY <3>1, GapGrows
  <2> QED BY <1>13, <2>1, <2>2 DEF CountsAs, TestLivenessBreaks
<1>14. ASSUME TestJudge PROVE MissingInv'
  <2>0. Testing /\ pc = "judge" /\ Go("view") /\ setup' = setup
    BY <1>14 DEF TestJudge
  <2>1. Gap' = Gap
    <3>1. \/ trace' = trace
          \/ \E x \in Judged : Became(x)
      BY <1>14 DEF TestJudge, Judged
    <3>2. ASSUME NEW x \in Judged, Became(x) PROVE Gap' = Gap
      BY <1>k, <2>0, <3>2, GapGrows
    <3> QED BY <1>s, <3>1, <3>2
  <2>2. UNCHANGED <<stats.total, stats.frame_errors, stats.no_face, stats.detected>>
    <3>1. CASE stats' = [Add({"matched"}) EXCEPT !.max_streak = Max({@, streak + 1})]
      BY <3>1, Matched DEF Counters
    <3>2. CASE stats' = Add({"unmatched"})
      <4>1. CountsAs({"unmatched"})
        BY <3>2, AddedEach
      <4> QED BY <4>1 DEF CountsAs
    <3>3. CASE UNCHANGED stats
      BY <3>3
    <3> QED BY <1>14, <3>1, <3>2, <3>3 DEF TestJudge
  <2> QED BY <2>0, <2>1, <2>2
<1>15. ASSUME TestEndOfFrame PROVE MissingInv'
  BY <1>15, <1>s DEF TestEndOfFrame
<1>16. ASSUME AddStarts PROVE MissingInv'
  BY <1>16 DEF AddStarts, Adding
<1>17. ASSUME AddStops PROVE MissingInv'
  BY <1>17 DEF AddStops, Adding
<1>18. ASSUME AddNextFrame PROVE MissingInv'
  BY <1>18 DEF AddNextFrame, Adding
<1>19. ASSUME AddNoFrame PROVE MissingInv'
  BY <1>19 DEF AddNoFrame, Adding
<1>20. ASSUME AddNoFace PROVE MissingInv'
  BY <1>20 DEF AddNoFace, Adding
<1>21. ASSUME AddFaceFound PROVE MissingInv'
  BY <1>21 DEF AddFaceFound, Adding
<1>22. ASSUME AddLivenessPasses PROVE MissingInv'
  BY <1>22 DEF AddLivenessPasses, Adding
<1>23. ASSUME AddSpoof PROVE MissingInv'
  BY <1>23 DEF AddSpoof, Adding
<1>24. ASSUME AddLivenessBreaks PROVE MissingInv'
  BY <1>24 DEF AddLivenessBreaks, Adding
<1>25. ASSUME AddKeep PROVE MissingInv'
  BY <1>25 DEF AddKeep, Adding
<1>26. ASSUME AddEndOfFrame PROVE MissingInv'
  BY <1>26 DEF AddEndOfFrame, Adding
<1>27. ASSUME AddSave PROVE MissingInv'
  BY <1>27 DEF AddSave, Adding
<1>28. ASSUME UNCHANGED vars PROVE MissingInv'
  BY <1>28, <1>s DEF vars
<1>29. ASSUME TestSelectFails PROVE MissingInv'
  <2>1. Gap' = Gap + 1
    BY <1>29, GapGrows DEF TestSelectFails
  <2> QED BY <1>29, <2>1 DEF TestSelectFails
<1> QED BY <1>1, <1>2, <1>3, <1>4, <1>5, <1>6, <1>7, <1>8, <1>9, <1>10, <1>11, <1>12, <1>13,
           <1>14, <1>15, <1>16, <1>17, <1>18, <1>19, <1>20, <1>21, <1>22, <1>23, <1>24, <1>25,
           <1>26, <1>27, <1>28, <1>29
  DEF Next, Test, AddFace

-----------------------------------------------------------------------------
(* All of it                                                                *)

\* Each step keeps the inductive invariant.
LEMMA IInvStep == IInv /\ [Next]_vars => IInv'
<1> SUFFICES ASSUME IInv, [Next]_vars PROVE IInv'
  OBVIOUS
<1>1. /\ LookOK /\ StatsOK /\ FrameInv /\ MatchInv /\ SavedInv
      /\ CountInv /\ MissingInv /\ TraceInv /\ RunInv
  BY DEF IInv, TypeOK, LookOK, StatsOK
<1>2. LookOK' /\ StatsOK'
  BY <1>1, LookStep, StatsStep
<1>3. TypeOK'
  BY <1>2 DEF TypeOK, LookOK, StatsOK
<1>4. FrameInv' /\ MatchInv' /\ SavedInv'
  BY <1>1, FrameStep, MatchStep, SavedStep
<1>5. CountInv' /\ MissingInv' /\ TraceInv' /\ RunInv'
  BY <1>1, CountStep, MissingStep, TraceStep, RunStep
<1> QED BY <1>3, <1>4, <1>5 DEF IInv

-----------------------------------------------------------------------------
(* Theorems                                                                 *)

\* test.rs:231-662, add.rs:133-444: of every reachable state, with any commands,
\* frames and thresholds, the inductive invariant holds.
THEOREM InvariantHolds == Spec => []IInv
<1>1. Init => IInv
  BY IInvInit
<1>2. IInv /\ [Next]_vars => IInv'
  BY IInvStep
<1> QED BY <1>1, <1>2, PTL DEF Spec

\* test.rs:231-662, add.rs:133-444: the counters stay in their range, at most
\* three failed liveness checks among them, the streak is never above the longest
\* one, and a loop has a reason exactly when it has ended.
THEOREM TypeCorrect == Spec => []TypeOK
<1>1. IInv => TypeOK
  BY DEF IInv
<1> QED BY <1>1, InvariantHolds, PTL

\* The primary face is valid, so there is something to show.
LEMMA IInvSees == IInv => LivenessSeesTheFace
<1> SUFFICES ASSUME IInv, pc = "liveness", NEW profile \in ActiveProfiles
             PROVE  LET scale == setup.crop_scale[profile]
                    IN  /\ ModelCropRect(Primary.box, scale) # NoRect
                        /\ RoiInFrame(CropFace(Primary.box, scale))
                        /\ RoiShows(CropFace(Primary.box, scale), Primary.box)
  BY DEF LivenessSeesTheFace
<1>1. Primary \in Row /\ ValidateFace(Primary)
  BY PrimaryKnown DEF IInv, Looking
<1>2. Primary.box \in Box
  BY <1>1 DEF Row, ValidateFace, Box
<1>3. setup \in Setup
  BY Config DEF IInv, TypeOK
<1>4. profile \in Profiles
  BY <1>3 DEF ActiveProfiles, Setup, Profiles
<1>5. setup.crop_scale[profile] \in Nat
  BY <1>3, <1>4 DEF Setup
<1> QED BY <1>1, <1>2, <1>5, ValidFaceIsShown

\* anti_spoofing.rs:80, 222-325: whatever the frame, the scales and the valid
\* face, each active model is shown a rectangle that holds the whole face.
THEOREM LivenessAlwaysSees == Spec => []LivenessSeesTheFace
  BY InvariantHolds, IInvSees, PTL

\* No face let past the check is more confident than the one kept.
LEMMA IInvSaves == IInv => SavedFaceIsBest
<1> SUFFICES ASSUME IInv, saved # None
             PROVE  /\ stop = "finished"
                    /\ saved \in live /\ saved.confidence > ScoreThreshold
                    /\ \A row \in live : row.confidence <= saved.confidence
  BY DEF SavedFaceIsBest
<1>1. SavedInv /\ saved = best /\ best # None /\ stop = "finished"
  BY DEF IInv, SavedInv
<1>2. pc = "done"
  BY <1>1, Config DEF IInv, TypeOK, Reasons
<1>3. best \in live /\ best.confidence > ScoreThreshold /\ live \subseteq Row
  BY <1>1 DEF SavedInv
<1>4. \A row \in live : row.confidence <= ScoreThreshold \/ row.confidence <= best.confidence
  BY <1>1, <1>2 DEF SavedInv
<1>5. ScoreThreshold \in Int /\ \A row \in live : row.confidence \in Int
  <2>1. \A row \in Row : row.confidence \in Int
    BY DEF Row
  <2>2. ScoreThreshold \in 0..100
    BY Config
  <2> QED BY <1>3, <2>1, <2>2
<1>6. \A row \in live : row.confidence <= best.confidence
  BY <1>3, <1>4, <1>5
<1> QED BY <1>1, <1>3, <1>6

\* add.rs:133-444: in every capture, however long, what is enrolled is the most
\* confident of the faces that passed the liveness check, and nothing is after a
\* cancel or an error.
THEOREM SavedAlwaysBest == Spec => []SavedFaceIsBest
  BY InvariantHolds, IInvSaves, PTL

\* The primary face and the match are the best there are.
LEMMA IInvJudges == IInv => JudgedFaceIsBest
<1> SUFFICES ASSUME IInv PROVE JudgedFaceIsBest
  OBVIOUS
<1>1. ASSUME Looking
      PROVE  /\ ValidateFace(Primary)
             /\ \A i \in DOMAIN rows : ValidateFace(rows[i]) =>
                    \/ rows[i].confidence < Primary.confidence
                    \/ rows[i].confidence = Primary.confidence /\ face <= i
  <2>1. /\ rows \in Seq(Row) /\ face \in 1..Len(rows) /\ face # NoFace
        /\ face = SelectPrimaryFace(rows) /\ ValidateFace(Primary)
    BY <1>1, PrimaryKnown DEF IInv, NoFace
  <2>2. DOMAIN rows = 1..Len(rows)
    BY <2>1
  <2> QED BY <2>1, <2>2, PrimaryIsBest DEF Primary
<1>2. ASSUME match # None
      PROVE  LET all == FindAllMatches(Primary.feature, setup.candidates, Similarity)
                 sims == Similarities(Primary.feature, setup.candidates)
             IN  /\ match.passed = MatchesAny(Primary.feature, setup.candidates, Similarity)
                 /\ match.passed => match.index = all[1]
                 /\ \A i \in DOMAIN sims : AtLeast(sims[match.index], sims[i])
  <2> DEFINE q == Primary.feature
             c == setup.candidates
             b == FindBestMatch(q, c)
             sims == Similarities(q, c)
  <2>1. /\ Testing /\ pc = "view" /\ Comparable(q, c) /\ c # <<>>
        /\ match = [index |-> b, passed |-> PassedThreshold(q, c[b], Similarity)]
    BY <1>2 DEF IInv, MatchInv
  <2>2. q \in Seq(Int) /\ c \in Seq(Seq(Int)) /\ Similarity \in Fraction
    <3>1. Primary \in Row
      BY <2>1, PrimaryKnown DEF IInv, Looking
    <3>2. setup \in Setup
      BY Config DEF IInv, TypeOK
    <3> QED BY <3>1, <3>2, Config DEF Row, Setup, Fraction
  <2> HIDE DEF q, c
  <2>3. /\ b \in 1..Len(c)
        /\ \A i \in 1..Len(c) : /\ AtLeast(sims[b], sims[i])
                                /\ AtLeast(sims[i], sims[b]) => b <= i
    BY <2>1, <2>2, MatchIsBest
  <2>4. /\ DOMAIN sims = 1..Len(c) /\ DOMAIN c = 1..Len(c)
        /\ \A i \in 1..Len(c) : sims[i] = CosineSimilarity(q, c[i]) /\ sims[i] \in Fraction
    BY <2>1, <2>2, SimilaritiesTyped
  <2>5. match.index = b /\ match.passed = AtLeast(sims[b], Similarity)
    BY <2>1, <2>3, <2>4 DEF PassedThreshold
  <2>6. MatchesAny(q, c, Similarity) = \E i \in 1..Len(c) : AtLeast(sims[i], Similarity)
    BY <2>4 DEF MatchesAny, PassedThreshold
  <2> HIDE DEF b, sims
  <2>7. MatchesAny(q, c, Similarity) <=> AtLeast(sims[b], Similarity)
    BY <2>2, <2>3, <2>4, <2>6, FractionsOrdered
  <2>8. AtLeast(sims[b], Similarity) => FindAllMatches(q, c, Similarity)[1] = b
    BY <2>1, <2>2, <2>3, AllMatchesHead DEF sims
  <2>9. match.passed = MatchesAny(q, c, Similarity)
    <3>1. MatchesAny(q, c, Similarity) \in BOOLEAN /\ AtLeast(sims[b], Similarity) \in BOOLEAN
      BY DEF MatchesAny, AtLeast
    <3> HIDE DEF MatchesAny
    <3> QED BY <2>5, <2>7, <3>1, Zenon
  <2> QED BY <2>3, <2>4, <2>5, <2>8, <2>9 DEF q, c, sims
<1> QED BY <1>1, <1>2 DEF JudgedFaceIsBest, Looking

\* face_validation.rs:10-44, matching.rs:75-142: the one pass over the rows and
\* the one over the candidates find what the properties ask for, whatever the
\* frame, the features, the enrolled ones and the threshold are.
THEOREM JudgedAlwaysBest == Spec => []JudgedFaceIsBest
  BY InvariantHolds, IInvJudges, PTL

\* The longest run is what max_streak counts.
LEMMA LongestIsCounted ==
  ASSUME StatsOK, TraceInv, RunInv, Testing PROVE LongestRun = stats.max_streak
<1> DEFINE stretches == {z \in (DOMAIN trace) \X (DOMAIN trace) : Unbroken(z[1], z[2])}
           lengths == {0} \cup {MatchesIn(z[1], z[2]) : z \in stretches}
<1>1. PICK n \in Nat : n = Len(trace) /\ DOMAIN trace = 1..n
  BY DEF TraceInv
<1>2. PICK longest \in Nat : longest = stats.max_streak
  BY DEF StatsOK, Counters
<1>3. RunsAre(n, longest, streak)
  BY <1>1, <1>2, RunsRead
<1>4. \A x \in lengths : x \in Nat /\ x <= longest
  <2>1. \A z \in stretches : MatchesIn(z[1], z[2]) \in Nat /\ MatchesIn(z[1], z[2]) <= longest
    BY <1>1, <1>3, RunTyped DEF RunsAre
  <2> QED BY <2>1
<1>5. longest \in lengths
  <2>1. CASE longest = 0
    BY <2>1
  <2>2. CASE longest # 0
    <3>1. PICK i \in 1..n, j \in 1..n : Unbroken(i, j) /\ MatchesIn(i, j) = longest
      BY <1>3, <2>2 DEF RunsAre
    <3>2. <<i, j>> \in stretches
      BY <1>1, <3>1
    <3> QED BY <3>1, <3>2
  <2> QED BY <2>1, <2>2
<1>6. LongestRun = Max(lengths)
  BY DEF LongestRun
<1> HIDE DEF lengths
<1> HIDE DEF LongestRun
<1>7. \E x \in lengths : \A y \in lengths : x >= y
  BY <1>4, <1>5
<1>8. Max(lengths) \in lengths /\ \A y \in lengths : Max(lengths) >= y
  BY <1>7 DEF Max
<1>9. PICK most : most = Max(lengths)
  OBVIOUS
<1>10. most \in lengths /\ longest <= most
  BY <1>5, <1>8, <1>9
<1>11. most \in Nat /\ most <= longest
  BY <1>4, <1>10
<1> QED BY <1>2, <1>6, <1>9, <1>10, <1>11

\* The counters tell what the trace shows.
LEMMA IInvTells == IInv => ReportTellsFrames
<1> SUFFICES ASSUME IInv, Testing, pc \in {"head", "done"}, stop # "error"
             PROVE  /\ stop = None => stats.total = Len(trace)
                    /\ \/ stats.total = stats.frame_errors + stats.no_face + stats.detected
                                           + Cardinality(Fates({"failed"}))
                       \/ stop = "anti_spoof_error"
                    /\ stats.matched = Cardinality(Fates({"match"}))
                    /\ stats.valid = Cardinality(Fates(Judged))
                    /\ stats.max_streak = LongestRun
                    /\ pc = "done" /\ ResultValid =>
                           /\ Cardinality(Fates(Judged)) >= setup.required
                           /\ LongestRun >= setup.consecutive
                           /\ Cardinality(Fates({"broken"})) < MAX_ANTI_SPOOF_ERRORS
  BY DEF ReportTellsFrames
<1>1. TypeOK /\ StatsOK /\ CountInv /\ MissingInv /\ TraceInv /\ RunInv
  BY DEF IInv, TypeOK, StatsOK
<1>2. Uncounted = 0 /\ Unjudged = 0
  BY DEF Uncounted, Unjudged
<1>3. PICK n \in Nat : n = Len(trace) /\ DOMAIN trace = 1..n
  BY <1>1 DEF TraceInv
<1>4. \A kinds : Cardinality(Fates(kinds)) \in Nat
  <2> TAKE kinds
  <2>1. Fates(kinds) \in SUBSET (1..n)
    BY <1>3 DEF Fates
  <2> QED BY <2>1, PartFinite
<1>5. /\ stats.total \in Nat /\ stats.frame_errors \in Nat /\ stats.no_face \in Nat
      /\ stats.detected \in Nat /\ stats.anti_spoof_errors \in Nat /\ stats.max_streak \in Nat
  BY <1>1, Tallied
<1>6. stats.valid = Cardinality(Fates(Judged))
  BY <1>1, <1>2, <1>4 DEF TraceInv
<1>7. stats.max_streak = LongestRun
  BY <1>1, LongestIsCounted
<1>8. stop = None => stats.total = Len(trace)
  BY <1>1, <1>2, <1>3 DEF TraceInv
<1>9. \/ stats.total = stats.frame_errors + stats.no_face + stats.detected
                          + Cardinality(Fates({"failed"}))
      \/ stop = "anti_spoof_error"
  BY <1>1, <1>2, <1>4, <1>5 DEF MissingInv
<1>10. ASSUME ResultValid
       PROVE  /\ Cardinality(Fates(Judged)) >= setup.required
              /\ LongestRun >= setup.consecutive
              /\ Cardinality(Fates({"broken"})) < MAX_ANTI_SPOOF_ERRORS
  <2>1. setup.required \in Nat
    BY <1>1, Config DEF TypeOK, Setup
  <2>2. Cardinality(Fates(Judged)) >= setup.required
    BY <1>4, <1>6, <1>10, <2>1 DEF ResultValid
  <2>3. LongestRun >= setup.consecutive
    BY <1>7, <1>10 DEF ResultValid
  <2>4. stats.anti_spoof_errors < MAX_ANTI_SPOOF_ERRORS
    BY <1>1, <1>10 DEF CountInv, ResultValid
  <2>5. Cardinality(Fates({"broken"})) <= stats.anti_spoof_errors
    BY <1>1 DEF TraceInv
  <2> QED BY <1>4, <1>5, <2>2, <2>3, <2>4, <2>5 DEF MAX_ANTI_SPOOF_ERRORS
<1> QED BY <1>1, <1>6, <1>7, <1>8, <1>9, <1>10 DEF TraceInv

\* test.rs:231-662: after any number of frames the report says what happened to
\* them, its counters add up to the total but for the frames in which the search
\* for a face failed, and its verdict is "valid" only with the faces and the run
\* of matches the command was to see.
THEOREM ReportAlwaysTells == Spec => []ReportTellsFrames
  BY InvariantHolds, IInvTells, PTL
=============================================================================

------------------------- MODULE OrderedSeqsProofs -------------------------
(***************************************************************************)
(* What the operators of OrderedSeqs return, for any sequence and set: the *)
(* facts about deque and vector edits that the runtime's proofs rest on,   *)
(* the sums over finite sets that count blocks and bytes, and the          *)
(* arithmetic of blocks, chunks and rows that they share.                  *)
(***************************************************************************)
EXTENDS OrderedSeqs, FiniteSetTheorems, FunctionTheorems, WellFoundedInduction, TLAPS

(* Arithmetic. *)

\* Quotient and remainder.
LEMMA DivMod ==
  ASSUME NEW n \in Nat, NEW g \in Nat \ {0}
  PROVE  /\ n \div g \in Nat
         /\ n % g \in Nat
         /\ n % g < g
         /\ n = (n \div g) * g + (n % g)
<1>1. n \div g \in Nat /\ n % g \in Nat /\ n % g < g
  OBVIOUS
<1>2. n = (n \div g) * g + (n % g)
  OBVIOUS
<1> QED
  BY <1>1, <1>2

\* Multiplication keeps the order, and multiples are that far apart.
LEMMA Multiples ==
  ASSUME NEW a \in Nat, NEW b \in Nat, NEW g \in Nat \ {0}
  PROVE  /\ a * g \in Nat
         /\ a <= b => a * g <= b * g
         /\ a < b => a * g + g <= b * g
  OBVIOUS

\* Quotient and remainder are the only ones.
LEMMA DivModUnique ==
  ASSUME NEW g \in Nat \ {0}, NEW a \in Nat, NEW b \in Nat, NEW r \in Nat,
         NEW t \in Nat, r < g, t < g, a * g + r = b * g + t
  PROVE  a = b /\ r = t
<1>1. a * g \in Nat /\ b * g \in Nat
  BY Multiples
<1>2. ~(a < b)
  <2> SUFFICES ASSUME a < b PROVE FALSE
    OBVIOUS
  <2>1. a * g + g <= b * g
    BY Multiples
  <2> QED
    BY <1>1, <2>1
<1>3. ~(b < a)
  <2> SUFFICES ASSUME b < a PROVE FALSE
    OBVIOUS
  <2>1. b * g + g <= a * g
    BY Multiples
  <2> QED
    BY <1>1, <2>1
<1>4. a = b
  BY <1>2, <1>3
<1> QED
  BY <1>1, <1>4

\* The first n numbers are n, from one and from zero.
LEMMA CountUp ==
  ASSUME NEW n \in Nat
  PROVE  /\ IsFiniteSet(1..n) /\ Cardinality(1..n) = n
         /\ IsFiniteSet(0..(n - 1)) /\ Cardinality(0..(n - 1)) = n
<1>1. /\ 0 \in Int /\ 1 \in Int /\ n \in Int /\ n - 1 \in Int
      /\ n = (IF 1 > n THEN 0 ELSE n - 1 + 1)
      /\ n = (IF 0 > n - 1 THEN 0 ELSE (n - 1) - 0 + 1)
  OBVIOUS
<1> DEFINE m == n - 1
<1> HIDE DEF m
<1>2. IsFiniteSet(0..m) /\ Cardinality(0..m) = IF 0 > m THEN 0 ELSE m - 0 + 1
  BY <1>1, FS_Interval DEF m
<1>3. IsFiniteSet(1..n) /\ Cardinality(1..n) = IF 1 > n THEN 0 ELSE n - 1 + 1
  BY <1>1, FS_Interval
<1> QED
  BY <1>1, <1>2, <1>3 DEF m
----------------------------------------------------------------------------
(* Induction, from the well-foundedness of the naturals, over sets of what is *)
(* to be proved. *)

\* A set of naturals has a least element.
LEMMA LeastExists ==
  ASSUME NEW T \in SUBSET Nat, T # {}
  PROVE  \E x \in T : \A y \in T : x <= y
<1> DEFINE R == OpToRel(<, Nat)
<1>1. IsWellFoundedOn(R, Nat)
  BY NatLessThanWellFounded
<1>2. \A x, y \in Nat : x < y => <<x, y>> \in R
  BY DEF OpToRel
<1> HIDE DEF R
<1>3. PICK x \in T : \A y \in T : ~(<<y, x>> \in R)
  BY <1>1, WFMin
<1>4. ASSUME NEW y \in T PROVE x <= y
  <2>1. x \in Nat /\ y \in Nat /\ ~(y < x)
    BY <1>2, <1>3
  <2> QED
    BY <2>1
<1> QED
  BY <1>4

\* A set of naturals that holds zero and every successor of a member holds all.
LEMMA Induction ==
  ASSUME NEW P \in SUBSET Nat, 0 \in P, \A n \in P : n + 1 \in P
  PROVE  P = Nat
<1> SUFFICES ASSUME Nat \ P # {} PROVE FALSE
  OBVIOUS
<1>1. PICK x \in Nat \ P : \A y \in Nat \ P : x <= y
  <2> DEFINE T == Nat \ P
  <2>1. T \in SUBSET Nat /\ T # {}
    OBVIOUS
  <2> HIDE DEF T
  <2>2. \E x \in T : \A y \in T : x <= y
    BY <2>1, LeastExists
  <2> QED
    BY <2>2 DEF T
<1>2. x # 0 /\ x - 1 \in Nat /\ ~(x <= x - 1) /\ (x - 1) + 1 = x
  BY <1>1
<1>3. x - 1 \in P
  BY <1>1, <1>2
<1> QED
  BY <1>1, <1>2, <1>3

\* Strong induction on a measure.
LEMMA MeasureInduction ==
  ASSUME NEW S, NEW m \in [S -> Nat], NEW Q \in SUBSET S,
         \A s \in S : (\A t \in S : m[t] < m[s] => t \in Q) => s \in Q
  PROVE  Q = S
<1> SUFFICES ASSUME S \ Q # {} PROVE FALSE
  OBVIOUS
<1> DEFINE M == {m[s] : s \in S \ Q}
<1>1. M \in SUBSET Nat /\ M # {}
  OBVIOUS
<1>2. \E x \in M : \A y \in M : x <= y
  <2> HIDE DEF M
  <2> QED
    BY <1>1, LeastExists
<1>3. PICK s \in S \ Q : \A t \in S \ Q : m[s] <= m[t]
  BY <1>2
<1>4. ASSUME NEW t \in S, m[t] < m[s] PROVE t \in Q
  <2> SUFFICES ASSUME t \notin Q PROVE FALSE
    OBVIOUS
  <2>1. m[s] <= m[t] /\ m[s] \in Nat /\ m[t] \in Nat
    BY <1>3
  <2> QED
    BY <1>4, <2>1
<1> QED
  BY <1>3, <1>4

\* f is defined on D by recursion: b gives its value on T, h elsewhere from the
\* value at the next point.
Recurs(f, D, T, b, next, h) ==
  \A s \in D : f[s] = IF s \in T THEN b[s] ELSE h[<<s, f[next[s]]>>]

\* A recursion whose next points are smaller defines a function.
LEMMA RecursionExists ==
  ASSUME NEW S, NEW R, NEW m \in [S -> Nat], NEW T \in SUBSET S, NEW b \in [T -> R],
         NEW next \in [S \ T -> S], \A s \in S \ T : m[next[s]] < m[s],
         NEW h \in [(S \ T) \X R -> R]
  PROVE  \E f \in [S -> R] : Recurs(f, S, T, b, next, h)
<1> DEFINE D(n) == {s \in S : m[s] < n}
           Good(f, n) == f \in [D(n) -> R] /\ Recurs(f, D(n), T, b, next, h)
           P == {n \in Nat : \E f \in [D(n) -> R] : Good(f, n)}
<1>1. 0 \in P
  <2>1. D(0) = {}
    BY SMT
  <2> DEFINE f == [s \in {} |-> b[s]]
  <2>2. f \in [D(0) -> R]
    BY <2>1
  <2>3. Recurs(f, D(0), T, b, next, h)
    BY <2>1 DEF Recurs
  <2> QED
    BY <2>2, <2>3
<1>2. ASSUME NEW n \in P PROVE n + 1 \in P
  <2>1. PICK f \in [D(n) -> R] : Good(f, n)
    OBVIOUS
  <2> DEFINE e == [s \in D(n + 1) |-> IF s \in T THEN b[s] ELSE h[<<s, f[next[s]]>>]]
  <2>2. n \in Nat /\ n + 1 \in Nat
    OBVIOUS
  <2>3. \A s \in D(n + 1) : s \notin T => next[s] \in D(n)
    <3> SUFFICES ASSUME NEW s \in D(n + 1), s \notin T PROVE next[s] \in D(n)
      OBVIOUS
    <3>1. next[s] \in S /\ m[next[s]] < m[s] /\ m[s] < n + 1 /\ m[s] \in Nat /\ m[next[s]] \in Nat
      OBVIOUS
    <3> QED
      BY <2>2, <3>1
  <2>4. e \in [D(n + 1) -> R]
    <3> SUFFICES ASSUME NEW s \in D(n + 1) PROVE e[s] \in R
      OBVIOUS
    <3>1. CASE s \in T
      BY <3>1
    <3>2. CASE s \notin T
      <4>1. f[next[s]] \in R /\ s \in S \ T
        BY <2>3, <3>2
      <4> QED
        BY <3>2, <4>1
    <3> QED
      BY <3>1, <3>2
  <2>5. \A s \in D(n) : s \in D(n + 1) /\ e[s] = f[s]
    <3> SUFFICES ASSUME NEW s \in D(n) PROVE s \in D(n + 1) /\ e[s] = f[s]
      OBVIOUS
    <3>1. s \in D(n + 1)
      BY <2>2
    <3>2. f[s] = IF s \in T THEN b[s] ELSE h[<<s, f[next[s]]>>]
      BY <2>1 DEF Recurs
    <3> QED
      BY <3>1, <3>2
  <2>6. Recurs(e, D(n + 1), T, b, next, h)
    <3> SUFFICES ASSUME NEW s \in D(n + 1)
                 PROVE  e[s] = IF s \in T THEN b[s] ELSE h[<<s, e[next[s]]>>]
      BY DEF Recurs
    <3>1. e[s] = IF s \in T THEN b[s] ELSE h[<<s, f[next[s]]>>]
      OBVIOUS
    <3>2. s \notin T => e[next[s]] = f[next[s]]
      BY <2>3, <2>5
    <3> HIDE DEF e
    <3> QED
      BY <3>1, <3>2
  <2> HIDE DEF e
  <2> QED
    BY <2>2, <2>4, <2>6
<1>3. P = Nat
  <2>1. P \in SUBSET Nat
    OBVIOUS
  <2> HIDE DEF P
  <2> QED
    BY <1>1, <1>2, <2>1, Induction
<1>4. ASSUME NEW n \in Nat, NEW k \in Nat, NEW f, NEW e, Good(f, n), Good(e, k),
             NEW s \in S, m[s] < n, m[s] < k
      PROVE  f[s] = e[s]
  <2> DEFINE Q == {x \in S : m[x] < n /\ m[x] < k => f[x] = e[x]}
  <2>1. ASSUME NEW x \in S, \A t \in S : m[t] < m[x] => t \in Q PROVE x \in Q
    <3> SUFFICES ASSUME m[x] < n, m[x] < k PROVE f[x] = e[x]
      OBVIOUS
    <3>1. x \in D(n) /\ x \in D(k)
      OBVIOUS
    <3>2. /\ f[x] = IF x \in T THEN b[x] ELSE h[<<x, f[next[x]]>>]
          /\ e[x] = IF x \in T THEN b[x] ELSE h[<<x, e[next[x]]>>]
      BY <1>4, <3>1 DEF Recurs
    <3>3. CASE x \in T
      BY <3>2, <3>3
    <3>4. CASE x \notin T
      <4>1. next[x] \in S /\ m[next[x]] < m[x] /\ m[x] \in Nat /\ m[next[x]] \in Nat
        BY <3>4
      <4>2. next[x] \in Q
        BY <2>1, <4>1
      <4>3. m[next[x]] < n /\ m[next[x]] < k
        BY <3>1, <4>1
      <4>4. f[next[x]] = e[next[x]]
        BY <4>2, <4>3
      <4> QED
        BY <3>2, <3>4, <4>4
    <3> QED
      BY <3>3, <3>4
  <2>2. Q \in SUBSET S
    OBVIOUS
  <2> HIDE DEF Q
  <2>3. Q = S
    BY <2>1, <2>2, MeasureInduction
  <2> QED
    BY <1>4, <2>3 DEF Q
<1>5. \A n \in Nat : \E f : Good(f, n)
  BY <1>3
<1> DEFINE F == [n \in Nat |-> CHOOSE f : Good(f, n)]
           g == [s \in S |-> F[m[s] + 1][s]]
<1>6. \A n \in Nat : Good(F[n], n)
  <2> HIDE DEF Good
  <2> QED
    BY <1>5
<1> HIDE DEF F
<1>7. \A s \in S : m[s] \in Nat /\ m[s] + 1 \in Nat /\ m[s] < m[s] + 1
  OBVIOUS
<1>8. g \in [S -> R]
  <2> SUFFICES ASSUME NEW s \in S PROVE g[s] \in R
    OBVIOUS
  <2>1. s \in D(m[s] + 1) /\ F[m[s] + 1] \in [D(m[s] + 1) -> R]
    BY <1>6, <1>7
  <2> QED
    BY <2>1
<1>9. ASSUME NEW s \in S
      PROVE  g[s] = IF s \in T THEN b[s] ELSE h[<<s, g[next[s]]>>]
  <2>1. Good(F[m[s] + 1], m[s] + 1) /\ s \in D(m[s] + 1)
    BY <1>6, <1>7
  <2>2. g[s] = IF s \in T THEN b[s] ELSE h[<<s, F[m[s] + 1][next[s]]>>]
    BY <2>1 DEF Recurs
  <2>3. CASE s \notin T
    <3>1. next[s] \in S /\ m[next[s]] < m[s]
      BY <2>3
    <3>2. m[next[s]] < m[next[s]] + 1 /\ m[next[s]] < m[s] + 1
      BY <1>7, <3>1
    <3>3. Good(F[m[next[s]] + 1], m[next[s]] + 1)
      BY <1>6, <1>7, <3>1
    <3>4. F[m[next[s]] + 1][next[s]] = F[m[s] + 1][next[s]]
      <4> HIDE DEF Good
      <4> QED
        BY <1>4, <1>7, <2>1, <3>1, <3>2, <3>3
    <3>5. g[next[s]] = F[m[s] + 1][next[s]]
      BY <3>1, <3>4
    <3> HIDE DEF g
    <3> QED
      BY <2>2, <2>3, <3>5
  <2>4. CASE s \in T
    BY <2>2, <2>4
  <2> QED
    BY <2>3, <2>4
<1> HIDE DEF g
<1> QED
  BY <1>8, <1>9 DEF Recurs

\* A finite set without one of its elements.
LEMMA RemoveOne ==
  ASSUME NEW S, IsFiniteSet(S), NEW a \in S
  PROVE  /\ IsFiniteSet(S \ {a}) /\ Cardinality(S) \in Nat \ {0}
         /\ Cardinality(S \ {a}) = Cardinality(S) - 1
BY FS_RemoveElement, FS_EmptySet, FS_CardinalityType

\* A finite set, element by element: a set of its subsets that holds the empty
\* one, and each member with one more element, holds the whole.
LEMMA SubsetInduction ==
  ASSUME NEW S, IsFiniteSet(S), NEW Q \in SUBSET SUBSET S,
         {} \in Q, \A s \in Q : \A x \in S \ s : s \cup {x} \in Q
  PROVE  S \in Q
<1> DEFINE P == {n \in Nat : \A s \in SUBSET S : Cardinality(s) = n => s \in Q}
<1>1. \A s \in SUBSET S : IsFiniteSet(s) /\ Cardinality(s) \in Nat
  BY FS_Subset, FS_CardinalityType
<1>2. 0 \in P
  BY <1>1, FS_EmptySet
<1>3. ASSUME NEW n \in P PROVE n + 1 \in P
  <2>1. n \in Nat /\ n + 1 \in Nat /\ n + 1 # 0
    OBVIOUS
  <2> SUFFICES ASSUME NEW s \in SUBSET S, Cardinality(s) = n + 1 PROVE s \in Q
    BY <2>1
  <2>2. PICK x \in s : TRUE
    BY <1>1, <2>1, FS_EmptySet
  <2>3. Cardinality(s \ {x}) = n
    <3>1. Cardinality(s \ {x}) = (n + 1) - 1
      BY <1>1, RemoveOne
    <3> QED
      BY <2>1, <3>1
  <2>4. s \ {x} \in Q
    BY <2>3
  <2>5. (s \ {x}) \cup {x} = s /\ x \in S \ (s \ {x})
    OBVIOUS
  <2> QED
    BY <2>4, <2>5
<1>4. P = Nat
  <2> HIDE DEF P
  <2>1. P \in SUBSET Nat
    BY DEF P
  <2> QED
    BY <1>2, <1>3, <2>1, Induction
<1> QED
  BY <1>1, <1>4
----------------------------------------------------------------------------
(* Sums. *)

\* The element SumOver takes next, and the equation its recursive function has.
NextOf(s) == CHOOSE x \in s : TRUE

Sums(g, f, D) ==
  g = [s \in D |-> IF s = {} THEN 0 ELSE f[NextOf(s)] + g[s \ {NextOf(s)}]]

\* The summands agree on a set.
Agree(f, e, T) == \A x \in T : f[x] = e[x]

\* SumOver is the value of that recursive function.
LEMMA SumIs ==
  ASSUME NEW f, NEW S
  PROVE  SumOver(f, S) = (CHOOSE g : Sums(g, f, SUBSET S))[S]
BY DEF SumOver, FoldFunctionOnSet, MapThenFoldSet, Sums, NextOf

\* A set without its next element is smaller by one.
LEMMA NextFacts ==
  ASSUME NEW s, IsFiniteSet(s), s # {}
  PROVE  /\ NextOf(s) \in s
         /\ IsFiniteSet(s \ {NextOf(s)})
         /\ Cardinality(s) \in Nat \ {0}
         /\ Cardinality(s \ {NextOf(s)}) = Cardinality(s) - 1
<1>1. NextOf(s) \in s
  BY DEF NextOf
<1> QED
  BY <1>1, FS_RemoveElement, FS_EmptySet, FS_CardinalityType

\* The recursive function exists.
LEMMA SumsExists ==
  ASSUME NEW S, IsFiniteSet(S), NEW f, \A x \in S : f[x] \in Int
  PROVE  \E g \in [SUBSET S -> Int] : Sums(g, f, SUBSET S)
<1> DEFINE D(n) == {s \in SUBSET S : Cardinality(s) <= n}
           P == {n \in Nat : \E g \in [D(n) -> Int] : Sums(g, f, D(n))}
<1>1. \A s \in SUBSET S : IsFiniteSet(s) /\ Cardinality(s) \in Nat
  BY FS_Subset, FS_CardinalityType
<1>2. 0 \in P
  <2> DEFINE g == [s \in D(0) |-> 0]
  <2>1. \A s \in D(0) : s = {}
    BY <1>1, FS_EmptySet
  <2>2. g \in [D(0) -> Int] /\ Sums(g, f, D(0))
    BY <2>1 DEF Sums
  <2> QED
    BY <2>2
<1>3. ASSUME NEW n \in P PROVE n + 1 \in P
  <2>1. PICK g \in [D(n) -> Int] : Sums(g, f, D(n))
    OBVIOUS
  <2> DEFINE h == [s \in D(n + 1) |-> IF s = {} THEN 0
                                      ELSE f[NextOf(s)] + g[s \ {NextOf(s)}]]
  <2>2. ASSUME NEW s \in D(n + 1), s # {}
        PROVE  NextOf(s) \in S /\ s \ {NextOf(s)} \in D(n)
    <3>1. /\ NextOf(s) \in s /\ Cardinality(s) \in Nat
          /\ Cardinality(s \ {NextOf(s)}) = Cardinality(s) - 1
      BY <1>1, <2>2, NextFacts
    <3>2. Cardinality(s) - 1 <= n
      BY <3>1
    <3> QED
      BY <3>1, <3>2
  <2>3. h \in [D(n + 1) -> Int]
    <3>1. ASSUME NEW s \in D(n + 1) PROVE h[s] \in Int
      BY <2>2
    <3> QED
      BY <3>1
  <2>4. \A s \in D(n) : s \in D(n + 1) /\ h[s] = g[s]
    <3>1. \A s \in D(n) : s \in D(n + 1)
      BY <1>1
    <3> QED
      BY <2>1, <3>1 DEF Sums
  <2>5. Sums(h, f, D(n + 1))
    <3> SUFFICES ASSUME NEW s \in D(n + 1)
                 PROVE  h[s] = IF s = {} THEN 0
                               ELSE f[NextOf(s)] + h[s \ {NextOf(s)}]
      BY <2>3 DEF Sums
    <3> QED
      BY <2>2, <2>4
  <2> HIDE DEF h, D
  <2>6. n + 1 \in Nat
    OBVIOUS
  <2> QED
    BY <2>3, <2>5, <2>6
<1>4. P = Nat
  <2> HIDE DEF P
  <2>1. P \in SUBSET Nat
    BY DEF P
  <2> QED
    BY <1>2, <1>3, <2>1, Induction
<1>5. D(Cardinality(S)) = SUBSET S
  BY <1>1, FS_Subset
<1>6. Cardinality(S) \in P
  BY <1>4, FS_CardinalityType
<1> QED
  BY <1>5, <1>6

\* Two such functions agree where both are defined and their summands agree.
LEMMA SumsAgree ==
  ASSUME NEW S, NEW T, T \subseteq S, IsFiniteSet(T),
         NEW f, NEW e, NEW g, NEW h, Agree(f, e, T),
         Sums(g, f, SUBSET S), Sums(h, e, SUBSET T)
  PROVE  \A s \in SUBSET T : g[s] = h[s]
<1> DEFINE P == {n \in Nat : \A s \in SUBSET T : Cardinality(s) = n => g[s] = h[s]}
<1>1. \A s \in SUBSET T : IsFiniteSet(s) /\ Cardinality(s) \in Nat
  BY FS_Subset, FS_CardinalityType
<1>2. 0 \in P
  BY <1>1, FS_EmptySet DEF Sums
<1>3. ASSUME NEW n \in P PROVE n + 1 \in P
  <2> SUFFICES ASSUME NEW s \in SUBSET T, Cardinality(s) = n + 1
               PROVE  g[s] = h[s]
    OBVIOUS
  <2>1. s # {}
    <3>1. n \in Nat /\ n + 1 # 0
      OBVIOUS
    <3> HIDE DEF P
    <3> QED
      BY <3>1, <1>1, FS_EmptySet
  <2>2. /\ NextOf(s) \in s /\ Cardinality(s \ {NextOf(s)}) = n
        /\ f[NextOf(s)] = e[NextOf(s)]
    BY <1>1, <2>1, NextFacts DEF Agree
  <2>3. g[s \ {NextOf(s)}] = h[s \ {NextOf(s)}]
    BY <2>2
  <2>4. g[s] = f[NextOf(s)] + g[s \ {NextOf(s)}]
    BY <2>1 DEF Sums
  <2>5. h[s] = e[NextOf(s)] + h[s \ {NextOf(s)}]
    BY <2>1 DEF Sums
  <2> QED
    BY <2>2, <2>3, <2>4, <2>5
<1>4. P = Nat
  <2> HIDE DEF P
  <2>1. P \in SUBSET Nat
    BY DEF P
  <2> QED
    BY <1>2, <1>3, <2>1, Induction
<1> QED
  BY <1>1, <1>4

\* Such a function gives every sum below its top.
LEMMA SumsValue ==
  ASSUME NEW S, NEW T, T \subseteq S, IsFiniteSet(T), NEW f, NEW e, NEW g,
         \A x \in T : f[x] = e[x] /\ e[x] \in Int,
         Sums(g, f, SUBSET S)
  PROVE  SumOver(e, T) = g[T] /\ SumOver(e, T) \in Int
<1>1. PICK k \in [SUBSET T -> Int] : Sums(k, e, SUBSET T)
  BY SumsExists
<1> DEFINE h == CHOOSE j : Sums(j, e, SUBSET T)
<1>2. Sums(h, e, SUBSET T)
  BY <1>1
<1>3. SumOver(e, T) = h[T]
  BY SumIs
<1> HIDE DEF h
<1>4. \A s \in SUBSET T : h[s] = k[s]
  <2>1. Agree(e, e, T) /\ T \subseteq T
    BY DEF Agree
  <2>2. \A s \in SUBSET T : k[s] = h[s]
    BY <1>1, <1>2, <2>1, SumsAgree
  <2> QED
    BY <2>2
<1>5. \A s \in SUBSET T : g[s] = h[s]
  <2>1. Agree(f, e, T)
    BY DEF Agree
  <2> QED
    BY <1>2, <2>1, SumsAgree
<1>6. T \in SUBSET T
  OBVIOUS
<1>7. h[T] = k[T] /\ g[T] = h[T]
  BY <1>4, <1>5, <1>6, Zenon
<1>8. k[T] \in Int
  BY <1>1, <1>6
<1>9. SumOver(e, T) = g[T]
  BY <1>3, <1>7, Zenon
<1>10. SumOver(e, T) \in Int
  BY <1>3, <1>7, <1>8, Zenon
<1> QED
  BY <1>9, <1>10, Zenon

\* The recursion behind a sum, from the first element it takes.
LEMMA SumStep ==
  ASSUME NEW S, IsFiniteSet(S), NEW f, \A x \in S : f[x] \in Int
  PROVE  /\ SumOver(f, S) \in Int
         /\ S = {} => SumOver(f, S) = 0
         /\ S # {} => SumOver(f, S) = f[NextOf(S)] + SumOver(f, S \ {NextOf(S)})
<1>1. PICK g \in [SUBSET S -> Int] : Sums(g, f, SUBSET S)
  BY SumsExists
<1>2. SumOver(f, S) = g[S]
  BY <1>1, SumsValue
<1>3. ASSUME NEW T, T \subseteq S PROVE SumOver(f, T) = g[T]
  <2>1. IsFiniteSet(T)
    BY <1>3, FS_Subset
  <2>2. \A x \in T : f[x] = f[x] /\ f[x] \in Int
    BY <1>3
  <2> QED
    BY <1>1, <1>3, <2>1, <2>2, SumsValue
<1>4. S = {} => g[S] = 0
  BY <1>1 DEF Sums
<1>5. S # {} => g[S] = f[NextOf(S)] + g[S \ {NextOf(S)}]
  BY <1>1 DEF Sums
<1>6. SumOver(f, S \ {NextOf(S)}) = g[S \ {NextOf(S)}]
  BY <1>3
<1> QED
  BY <1>1, <1>2, <1>4, <1>5, <1>6

\* A sum is an integer, nothing sums to zero.
LEMMA SumType ==
  ASSUME NEW S, IsFiniteSet(S), NEW f, \A x \in S : f[x] \in Int
  PROVE  SumOver(f, S) \in Int /\ (S = {} => SumOver(f, S) = 0)
BY SumStep

\* A sum depends on the summands alone.
LEMMA SumSame ==
  ASSUME NEW S, IsFiniteSet(S), NEW f, NEW e,
         \A x \in S : f[x] = e[x] /\ e[x] \in Int
  PROVE  SumOver(f, S) = SumOver(e, S)
<1>1. PICK g \in [SUBSET S -> Int] : Sums(g, f, SUBSET S)
  BY SumsExists
<1>2. SumOver(e, S) = g[S]
  BY <1>1, SumsValue
<1>3. \A x \in S : f[x] = f[x] /\ f[x] \in Int
  OBVIOUS
<1>4. SumOver(f, S) = g[S]
  BY <1>1, <1>3, SumsValue
<1> QED
  BY <1>2, <1>4

\* Any element can be taken first.
LEMMA SumTake ==
  ASSUME NEW S, IsFiniteSet(S), NEW f, \A x \in S : f[x] \in Int
  PROVE  \A a \in S : SumOver(f, S) = f[a] + SumOver(f, S \ {a})
<1> DEFINE Ok(s) == \A a \in s : SumOver(f, s) = f[a] + SumOver(f, s \ {a})
           P == {n \in Nat : \A s \in SUBSET S : Cardinality(s) = n => Ok(s)}
<1>1. \A s \in SUBSET S : /\ IsFiniteSet(s) /\ Cardinality(s) \in Nat
                          /\ \A x \in s : f[x] \in Int
  BY FS_Subset, FS_CardinalityType
<1>2. 0 \in P
  BY <1>1, FS_EmptySet
<1>3. ASSUME NEW n \in P PROVE n + 1 \in P
  <2>1. n \in Nat /\ n + 1 \in Nat /\ \A s \in SUBSET S : Cardinality(s) = n => Ok(s)
    OBVIOUS
  <2> SUFFICES ASSUME NEW s \in SUBSET S, Cardinality(s) = n + 1, NEW a \in s
               PROVE  SumOver(f, s) = f[a] + SumOver(f, s \ {a})
    BY <2>1
  <2> HIDE DEF P
  <2> DEFINE b == NextOf(s)
  <2>2. b \in s /\ Cardinality(s \ {b}) = n
    BY <1>1, <2>1, NextFacts
  <2>3. SumOver(f, s) = f[b] + SumOver(f, s \ {b})
    BY <1>1, SumStep
  <2>4. CASE a = b
    BY <2>3, <2>4
  <2>5. CASE a # b
    <3> HIDE DEF b
    <3>1. SumOver(f, s \ {b}) = f[a] + SumOver(f, (s \ {b}) \ {a})
      BY <2>1, <2>2, <2>5
    <3>2. Cardinality(s \ {a}) = n
      <4>1. Cardinality(s \ {a}) = (n + 1) - 1
        BY <1>1, RemoveOne
      <4> QED
        BY <2>1, <4>1
    <3>3. SumOver(f, s \ {a}) = f[b] + SumOver(f, (s \ {a}) \ {b})
      BY <2>1, <2>2, <2>5, <3>2
    <3>4. (s \ {b}) \ {a} = (s \ {a}) \ {b}
      OBVIOUS
    <3>5. f[a] \in Int /\ f[b] \in Int
      BY <2>2
    <3>6. SumOver(f, (s \ {a}) \ {b}) \in Int
      <4>1. (s \ {a}) \ {b} \in SUBSET S
        OBVIOUS
      <4> QED
        BY <1>1, <4>1, SumType
    <3> DEFINE r == SumOver(f, (s \ {a}) \ {b})
               u == SumOver(f, s \ {a})
               v == SumOver(f, s \ {b})
    <3>7. SumOver(f, s) = f[b] + v /\ v = f[a] + r /\ u = f[b] + r /\ r \in Int
      BY <2>3, <3>1, <3>3, <3>4, <3>6
    <3> HIDE DEF r, u, v
    <3>8. SumOver(f, s) = f[a] + u
      BY <3>5, <3>7
    <3> QED
      BY <3>8 DEF u
  <2> QED
    BY <2>4, <2>5
<1>4. P = Nat
  <2> HIDE DEF P
  <2>1. P \in SUBSET Nat
    BY DEF P
  <2> QED
    BY <1>2, <1>3, <2>1, Induction
<1>5. Cardinality(S) \in P
  BY <1>1, <1>4
<1> QED
  BY <1>5

\* A new element adds its summand.
LEMMA SumAdd ==
  ASSUME NEW S, IsFiniteSet(S), NEW a, a \notin S, NEW f,
         \A x \in S \cup {a} : f[x] \in Int
  PROVE  SumOver(f, S \cup {a}) = f[a] + SumOver(f, S)
<1>1. IsFiniteSet(S \cup {a})
  BY FS_AddElement
<1>2. (S \cup {a}) \ {a} = S /\ a \in S \cup {a}
  OBVIOUS
<1> QED
  BY <1>1, <1>2, SumTake

\* Where one summand changes, the sum changes by as much.
LEMMA SumChange ==
  ASSUME NEW S, IsFiniteSet(S), NEW f, NEW e, NEW a \in S,
         \A x \in S : f[x] \in Int /\ e[x] \in Int,
         \A x \in S \ {a} : f[x] = e[x]
  PROVE  SumOver(e, S) + f[a] = SumOver(f, S) + e[a]
<1>1. IsFiniteSet(S \ {a})
  BY FS_Subset
<1>2. SumOver(f, S) = f[a] + SumOver(f, S \ {a})
  BY SumTake
<1>3. SumOver(e, S) = e[a] + SumOver(e, S \ {a})
  BY SumTake
<1>4. SumOver(f, S \ {a}) = SumOver(e, S \ {a})
  BY <1>1, SumSame
<1>5. SumOver(e, S \ {a}) \in Int
  BY <1>1, SumType
<1> QED
  BY <1>2, <1>3, <1>4, <1>5

\* Larger summands give a larger sum.
LEMMA SumMonotonic ==
  ASSUME NEW S, IsFiniteSet(S), NEW f, NEW e,
         \A x \in S : f[x] \in Int /\ e[x] \in Int /\ f[x] <= e[x]
  PROVE  SumOver(f, S) <= SumOver(e, S)
<1> DEFINE Q == {s \in SUBSET S : SumOver(f, s) <= SumOver(e, s)}
<1>1. \A s \in SUBSET S : /\ IsFiniteSet(s)
                          /\ SumOver(f, s) \in Int /\ SumOver(e, s) \in Int
  <2> SUFFICES ASSUME NEW s \in SUBSET S
               PROVE  IsFiniteSet(s) /\ SumOver(f, s) \in Int /\ SumOver(e, s) \in Int
    OBVIOUS
  <2>1. IsFiniteSet(s)
    BY FS_Subset
  <2> QED
    BY <2>1, SumType
<1>2. {} \in Q
  <2>1. SumOver(f, {}) = 0 /\ SumOver(e, {}) = 0
    BY FS_EmptySet, SumType
  <2> QED
    BY <2>1
<1>3. ASSUME NEW s \in Q, NEW x \in S \ s PROVE s \cup {x} \in Q
  <2>1. SumOver(f, s \cup {x}) = f[x] + SumOver(f, s)
    BY <1>1, SumAdd
  <2>2. SumOver(e, s \cup {x}) = e[x] + SumOver(e, s)
    BY <1>1, SumAdd
  <2> QED
    BY <1>1, <2>1, <2>2
<1>4. S \in Q
  <2> HIDE DEF Q
  <2>1. Q \in SUBSET SUBSET S
    BY DEF Q
  <2> QED
    BY <1>2, <1>3, <2>1, SubsetInduction
<1> QED
  BY <1>4

\* A set's sum is the sum of the sums of its two parts.
LEMMA SumSplit ==
  ASSUME NEW S, NEW T, IsFiniteSet(S), IsFiniteSet(T), S \cap T = {}, NEW f,
         \A x \in S \cup T : f[x] \in Int
  PROVE  SumOver(f, S \cup T) = SumOver(f, S) + SumOver(f, T)
<1> DEFINE Q == {s \in SUBSET T : SumOver(f, S \cup s) = SumOver(f, S) + SumOver(f, s)}
<1>1. \A s \in SUBSET T : /\ IsFiniteSet(s) /\ IsFiniteSet(S \cup s)
                          /\ SumOver(f, s) \in Int
  <2> SUFFICES ASSUME NEW s \in SUBSET T
               PROVE  IsFiniteSet(s) /\ IsFiniteSet(S \cup s) /\ SumOver(f, s) \in Int
    OBVIOUS
  <2>1. IsFiniteSet(s) /\ IsFiniteSet(S \cup s)
    BY FS_Subset, FS_Union
  <2> QED
    BY <2>1, SumType
<1>2. SumOver(f, S) \in Int
  BY SumType
<1>3. {} \in Q
  <2>1. SumOver(f, {}) = 0
    BY FS_EmptySet, SumType
  <2>2. S \cup {} = S
    OBVIOUS
  <2> QED
    BY <1>2, <2>1, <2>2
<1>4. ASSUME NEW s \in Q, NEW x \in T \ s PROVE s \cup {x} \in Q
  <2>1. SumOver(f, s \cup {x}) = f[x] + SumOver(f, s)
    BY <1>1, SumAdd
  <2>2. SumOver(f, (S \cup s) \cup {x}) = f[x] + SumOver(f, S \cup s)
    <3> DEFINE U == S \cup s
    <3>1. IsFiniteSet(U) /\ x \notin U /\ \A y \in U \cup {x} : f[y] \in Int
      BY <1>1
    <3> HIDE DEF U
    <3>2. SumOver(f, U \cup {x}) = f[x] + SumOver(f, U)
      BY <3>1, SumAdd
    <3> QED
      BY <3>2 DEF U
  <2>3. (S \cup s) \cup {x} = S \cup (s \cup {x}) /\ s \cup {x} \in SUBSET T
    OBVIOUS
  <2>4. SumOver(f, S \cup s) = SumOver(f, S) + SumOver(f, s)
    OBVIOUS
  <2>5. f[x] \in Int /\ SumOver(f, s) \in Int
    BY <1>1
  <2>6. SumOver(f, S \cup (s \cup {x})) = SumOver(f, S) + SumOver(f, s \cup {x})
    <3> DEFINE u == SumOver(f, S \cup (s \cup {x}))
               v == SumOver(f, s \cup {x})
               w == SumOver(f, S \cup s)
    <3>1. u = f[x] + w /\ v = f[x] + SumOver(f, s) /\ w = SumOver(f, S) + SumOver(f, s)
      BY <2>1, <2>2, <2>3, <2>4
    <3> HIDE DEF u, v, w
    <3>2. u = SumOver(f, S) + v
      BY <1>2, <2>5, <3>1
    <3> QED
      BY <3>2 DEF u, v
  <2> QED
    BY <2>3, <2>6
<1>5. T \in Q
  <2> HIDE DEF Q
  <2>1. Q \in SUBSET SUBSET T
    BY DEF Q
  <2> QED
    BY <1>3, <1>4, <2>1, SubsetInduction
<1> QED
  BY <1>5

\* Natural summands have a natural sum, no less than any of them or than any
\* part of it.
LEMMA SumNat ==
  ASSUME NEW S, IsFiniteSet(S), NEW f, \A x \in S : f[x] \in Nat
  PROVE  /\ SumOver(f, S) \in Nat
         /\ \A T \in SUBSET S : SumOver(f, T) \in Nat /\ SumOver(f, T) <= SumOver(f, S)
         /\ \A a \in S : f[a] <= SumOver(f, S)
<1> DEFINE Q == {s \in SUBSET S : SumOver(f, s) \in Nat}
<1>1. {} \in Q
  BY FS_EmptySet, SumType
<1>2. ASSUME NEW s \in Q, NEW x \in S \ s PROVE s \cup {x} \in Q
  <2>1. IsFiniteSet(s)
    BY FS_Subset
  <2>2. \A y \in s \cup {x} : f[y] \in Int
    OBVIOUS
  <2>3. SumOver(f, s \cup {x}) = f[x] + SumOver(f, s)
    BY <2>1, <2>2, SumAdd
  <2> QED
    BY <2>3
<1>3. ASSUME NEW T \in SUBSET S PROVE SumOver(f, T) \in Nat
  <2> DEFINE R == Q \cap SUBSET T
  <2>1. {} \in R /\ \A s \in R : \A x \in T \ s : s \cup {x} \in R
    <3> HIDE DEF Q
    <3> QED
      BY <1>1, <1>2
  <2>2. IsFiniteSet(T) /\ R \in SUBSET SUBSET T
    BY FS_Subset
  <2>3. T \in R
    <3> HIDE DEF R
    <3> QED
      BY <2>1, <2>2, SubsetInduction
  <2> QED
    BY <2>3
<1>4. ASSUME NEW T \in SUBSET S PROVE SumOver(f, T) <= SumOver(f, S)
  <2> DEFINE U == S \ T
  <2>1. IsFiniteSet(T) /\ IsFiniteSet(U) /\ T \cap U = {} /\ T \cup U = S /\ U \in SUBSET S
    BY FS_Subset
  <2> HIDE DEF U
  <2>2. SumOver(f, T \cup U) = SumOver(f, T) + SumOver(f, U)
    BY <2>1, SumSplit
  <2>3. SumOver(f, T) \in Nat /\ SumOver(f, U) \in Nat
    BY <1>3, <2>1
  <2>4. SumOver(f, S) = SumOver(f, T) + SumOver(f, U)
    BY <2>1, <2>2, Zenon
  <2> QED
    BY <2>3, <2>4
<1>5. SumOver(f, S) \in Nat
  BY <1>3
<1>6. ASSUME NEW a \in S PROVE f[a] <= SumOver(f, S)
  <2> DEFINE u == SumOver(f, S \ {a})
  <2>1. SumOver(f, S) = f[a] + u
    BY SumTake
  <2>2. u \in Nat
    BY <1>3
  <2> HIDE DEF u
  <2> QED
    BY <2>1, <2>2
<1> QED
  BY <1>3, <1>4, <1>5, <1>6

\* Nothing but zeros sums to zero.
LEMMA SumZero ==
  ASSUME NEW S, IsFiniteSet(S), NEW f, \A x \in S : f[x] = 0
  PROVE  SumOver(f, S) = 0
<1> DEFINE Q == {s \in SUBSET S : SumOver(f, s) = 0}
<1>1. {} \in Q
  BY FS_EmptySet, SumType
<1>2. ASSUME NEW s \in Q, NEW x \in S \ s PROVE s \cup {x} \in Q
  <2>1. IsFiniteSet(s) /\ \A y \in s \cup {x} : f[y] \in Int
    BY FS_Subset
  <2>2. SumOver(f, s \cup {x}) = f[x] + SumOver(f, s)
    BY <2>1, SumAdd
  <2> QED
    BY <2>2
<1>3. S \in Q
  <2> HIDE DEF Q
  <2>1. Q \in SUBSET SUBSET S
    BY DEF Q
  <2> QED
    BY <1>1, <1>2, <2>1, SubsetInduction
<1> QED
  BY <1>3

\* The sum of differences is the difference of the sums.
LEMMA SumMinus ==
  ASSUME NEW S, IsFiniteSet(S), NEW f, NEW e, NEW d,
         \A x \in S : f[x] \in Int /\ e[x] \in Int /\ d[x] = e[x] - f[x]
  PROVE  SumOver(d, S) + SumOver(f, S) = SumOver(e, S)
<1> DEFINE Q == {s \in SUBSET S : SumOver(d, s) + SumOver(f, s) = SumOver(e, s)}
<1>1. \A x \in S : d[x] \in Int
  OBVIOUS
<1>2. {} \in Q
  <2>1. SumOver(d, {}) = 0 /\ SumOver(e, {}) = 0 /\ SumOver(f, {}) = 0
    BY FS_EmptySet, SumType
  <2> QED
    BY <2>1
<1>3. ASSUME NEW s \in Q, NEW x \in S \ s PROVE s \cup {x} \in Q
  <2>1. IsFiniteSet(s)
    BY FS_Subset
  <2>2. PICK a, b, c \in Int : a = SumOver(d, s) /\ b = SumOver(f, s) /\ c = SumOver(e, s)
    BY <1>1, <2>1, SumType
  <2>3. PICK u, v, w \in Int : u = d[x] /\ v = f[x] /\ w = e[x]
    BY <1>1
  <2>4. a + b = c /\ u = w - v
    BY <2>2, <2>3
  <2>5. SumOver(d, s \cup {x}) = u + a
    BY <1>1, <2>1, <2>2, <2>3, SumAdd
  <2>6. SumOver(f, s \cup {x}) = v + b
    BY <2>1, <2>2, <2>3, SumAdd
  <2>7. SumOver(e, s \cup {x}) = w + c
    BY <2>1, <2>2, <2>3, SumAdd
  <2>8. (u + a) + (v + b) = w + c
    BY <2>4
  <2> QED
    BY <2>5, <2>6, <2>7, <2>8
<1>4. S \in Q
  <2> HIDE DEF Q
  <2>1. Q \in SUBSET SUBSET S
    BY DEF Q
  <2> QED
    BY <1>2, <1>3, <2>1, SubsetInduction
<1> QED
  BY <1>4
----------------------------------------------------------------------------
(* Sequences. *)

\* Counting, for each element of a finite set of naturals, the elements up to
\* it gives each of 1..Cardinality(S) exactly once.
LEMMA RankFacts ==
  ASSUME NEW S \in SUBSET Nat, IsFiniteSet(S)
  PROVE  LET rank == [i \in S |-> Cardinality({j \in S : j <= i})]
         IN /\ Cardinality(S) \in Nat
            /\ rank \in [S -> 1..Cardinality(S)]
            /\ \A a, b \in S : rank[a] = rank[b] => a = b
            /\ \A k \in 1..Cardinality(S) : \E i \in S : rank[i] = k
<1> DEFINE n == Cardinality(S)
           Below(i) == {j \in S : j <= i}
           rank == [i \in S |-> Cardinality(Below(i))]
<1>0. \A i \in S : i \in Nat
  OBVIOUS
<1>1. n \in Nat
  BY FS_CardinalityType
<1>2. \A i \in S : IsFiniteSet(Below(i)) /\ Cardinality(Below(i)) \in 1..n
  <2> SUFFICES ASSUME NEW i \in S
               PROVE IsFiniteSet(Below(i)) /\ Cardinality(Below(i)) \in 1..n
    OBVIOUS
  <2>1. Below(i) \in SUBSET S
    OBVIOUS
  <2>2. IsFiniteSet(Below(i)) /\ Cardinality(Below(i)) <= n
    BY <2>1, FS_Subset
  <2>3. i \in Below(i)
    OBVIOUS
  <2>4. Cardinality(Below(i)) # 0
    BY <2>2, <2>3, FS_EmptySet
  <2> QED
    BY <1>1, <2>2, <2>4, FS_CardinalityType
<1>3. rank \in [S -> 1..n]
  BY <1>2
<1>4. ASSUME NEW a \in S, NEW b \in S, rank[a] = rank[b]
      PROVE  a = b
  <2> SUFFICES ASSUME NEW c \in S, NEW d \in S, c < d, rank[c] = rank[d]
               PROVE FALSE
    BY <1>4
  <2>1. Below(c) \in SUBSET Below(d)
    <3>1. \A j \in Nat : j <= c => j <= d
      BY <1>0
    <3> QED
      BY <3>1
  <2>2. IsFiniteSet(Below(d)) /\ Cardinality(Below(d)) = Cardinality(Below(c))
    BY <1>2
  <2>3. Below(d) = Below(c)
    BY <2>1, <2>2, FS_Subset
  <2>4. d \in Below(d) /\ d \notin Below(c)
    OBVIOUS
  <2> QED
    BY <2>3, <2>4
<1>5. rank \in Injection(S, 1..n)
  BY <1>3, <1>4, Fun_IsInj
<1>6. IsFiniteSet(1..n) /\ Cardinality(1..n) = n
  BY <1>1, FS_Interval
<1>7. rank \in Surjection(S, 1..n)
  BY <1>5, <1>6, FS_Injection
<1>8. \A k \in 1..n : \E i \in S : rank[i] = k
  <2> HIDE DEF rank, n
  <2> QED
    BY <1>7, Fun_SurjectionProperties
<1> QED
  BY <1>1, <1>3, <1>4, <1>8

\* A nonempty finite set of naturals has a greatest element.
LEMMA GreatestExists ==
  ASSUME NEW S \in SUBSET Nat, IsFiniteSet(S), S # {}
  PROVE  \E m \in S : \A i \in S : i <= m
<1> DEFINE n == Cardinality(S)
           Below(i) == {j \in S : j <= i}
<1>1. n \in Nat /\ n # 0
  BY FS_CardinalityType, FS_EmptySet
<1>2. PICK m \in S : Cardinality(Below(m)) = n
  BY <1>1, RankFacts
<1>3. Below(m) = S
  <2> HIDE DEF n
  <2>1. Below(m) \in SUBSET S
    OBVIOUS
  <2> QED
    BY <1>2, <2>1, FS_Subset DEF n
<1> QED
  BY <1>3

\* Sorted lists a finite set of naturals, each element once.
LEMMA SortedFacts ==
  ASSUME NEW S \in SUBSET Nat, IsFiniteSet(S)
  PROVE  /\ Sorted(S) \in Seq(S)
         /\ Range(Sorted(S)) = S
         /\ NoDuplicates(Sorted(S))
         /\ Len(Sorted(S)) = Cardinality(S)
<1> DEFINE n == Cardinality(S)
           rank == [i \in S |-> Cardinality({j \in S : j <= i})]
<1>1. n \in Nat
  BY RankFacts
<1>2. rank \in [S -> 1..n]
  BY RankFacts
<1>3. \A a, b \in S : rank[a] = rank[b] => a = b
  BY RankFacts
<1>4. \A k \in 1..n : \E i \in S : rank[i] = k
  BY RankFacts
<1>5. \A k \in 1..n : Sorted(S)[k] \in S /\ rank[Sorted(S)[k]] = k
  BY <1>4 DEF Sorted
<1>6. DOMAIN Sorted(S) = 1..n /\ Sorted(S) \in [1..n -> S]
  BY <1>5 DEF Sorted
<1>7. Sorted(S) \in Seq(S) /\ Len(Sorted(S)) = n
  BY <1>1, <1>6
<1>8. NoDuplicates(Sorted(S))
  <2> SUFFICES ASSUME NEW i \in 1..n, NEW j \in 1..n,
                      Sorted(S)[i] = Sorted(S)[j]
               PROVE  i = j
    BY <1>6, Zenon DEF NoDuplicates
  <2>1. rank[Sorted(S)[i]] = i /\ rank[Sorted(S)[j]] = j
    BY <1>5
  <2> QED
    BY <2>1
<1>9. Range(Sorted(S)) = S
  <2>1. \A i \in S : Sorted(S)[rank[i]] = i
    BY <1>2, <1>3, <1>5
  <2> QED
    BY <1>2, <1>6, <2>1 DEF Range
<1> QED
  BY <1>7, <1>8, <1>9

\* Selecting positions keeps the type, selects exactly their elements and
\* introduces no duplicates.
LEMMA AtPositionsFacts ==
  ASSUME NEW X, NEW s \in Seq(X), NEW I \in SUBSET DOMAIN s
  PROVE  /\ AtPositions(s, I) \in Seq(X)
         /\ Range(AtPositions(s, I)) = {s[i] : i \in I}
         /\ NoDuplicates(s) => NoDuplicates(AtPositions(s, I))
<1> DEFINE at == Sorted(I)
           t == AtPositions(s, I)
<1>1. DOMAIN s = 1..Len(s) /\ Len(s) \in Nat /\ \A i \in DOMAIN s : s[i] \in X
  OBVIOUS
<1>2. I \in SUBSET Nat /\ IsFiniteSet(I)
  <2>1. IsFiniteSet(DOMAIN s)
    BY <1>1, FS_Interval
  <2> QED
    BY <1>1, <2>1, FS_Subset
<1>3. at \in Seq(I) /\ Range(at) = I /\ NoDuplicates(at)
  BY <1>2, SortedFacts
<1>4. /\ DOMAIN at = 1..Len(at)
      /\ Len(at) \in Nat
      /\ \A k \in DOMAIN at : at[k] \in I
  BY <1>3
<1> HIDE DEF at
<1>5. DOMAIN t = DOMAIN at /\ \A k \in DOMAIN at : t[k] = s[at[k]]
  BY DEF AtPositions, at
<1>6. t = [k \in 1..Len(at) |-> s[at[k]]]
  BY <1>4 DEF AtPositions, at
<1> HIDE DEF t
<1>7. t \in Seq(X)
  BY <1>1, <1>4, <1>6
<1>8. Range(t) = {s[i] : i \in I}
  <2>1. \A k \in DOMAIN t : t[k] \in {s[i] : i \in I}
    BY <1>4, <1>5
  <2>2. \A i \in I : \E k \in DOMAIN t : t[k] = s[i]
    <3> TAKE i \in I
    <3>1. PICK k \in DOMAIN at : at[k] = i
      BY <1>3 DEF Range
    <3> QED
      BY <1>5, <3>1
  <2> QED
    BY <2>1, <2>2 DEF Range
<1>9. NoDuplicates(s) => NoDuplicates(t)
  <2> SUFFICES ASSUME NoDuplicates(s), NEW j \in DOMAIN t, NEW k \in DOMAIN t,
                      t[j] = t[k]
               PROVE  j = k
    BY DEF NoDuplicates
  <2>1. at[j] \in DOMAIN s /\ at[k] \in DOMAIN s /\ s[at[j]] = s[at[k]]
    BY <1>4, <1>5
  <2>2. at[j] = at[k]
    BY <2>1 DEF NoDuplicates
  <2> QED
    BY <1>3, <1>5, <2>2 DEF NoDuplicates
<1> QED
  BY <1>7, <1>8, <1>9 DEF t

\* Filter keeps the elements that are in the set.
LEMMA FilterFacts ==
  ASSUME NEW X, NEW s \in Seq(X), NEW S
  PROVE  /\ Filter(s, S) \in Seq(X)
         /\ Range(Filter(s, S)) = Range(s) \cap S
         /\ NoDuplicates(s) => NoDuplicates(Filter(s, S))
<1> DEFINE I == {i \in DOMAIN s : s[i] \in S}
<1>1. /\ AtPositions(s, I) \in Seq(X)
      /\ Range(AtPositions(s, I)) = {s[i] : i \in I}
      /\ NoDuplicates(s) => NoDuplicates(AtPositions(s, I))
  BY AtPositionsFacts
<1>2. {s[i] : i \in I} = Range(s) \cap S
  BY Zenon DEF Range
<1> QED
  BY <1>1, <1>2, Zenon DEF Filter

\* Erase, std::erase of the code, drops the elements that are in the set.
LEMMA EraseFacts ==
  ASSUME NEW X, NEW s \in Seq(X), NEW S
  PROVE  /\ Erase(s, S) \in Seq(X)
         /\ Range(Erase(s, S)) = Range(s) \ S
         /\ NoDuplicates(s) => NoDuplicates(Erase(s, S))
<1> DEFINE I == {i \in DOMAIN s : s[i] \notin S}
<1>1. /\ AtPositions(s, I) \in Seq(X)
      /\ Range(AtPositions(s, I)) = {s[i] : i \in I}
      /\ NoDuplicates(s) => NoDuplicates(AtPositions(s, I))
  BY AtPositionsFacts
<1>2. {s[i] : i \in I} = Range(s) \ S
  BY Zenon DEF Range
<1> QED
  BY <1>1, <1>2, Zenon DEF Erase

\* Concatenation unites the elements; disjoint halves share no duplicate.
LEMMA ConcatFacts ==
  ASSUME NEW X, NEW s \in Seq(X), NEW t \in Seq(X)
  PROVE  /\ s \o t \in Seq(X)
         /\ Range(s \o t) = Range(s) \cup Range(t)
         /\ NoDuplicates(s) /\ NoDuplicates(t) /\ Range(s) \cap Range(t) = {}
              => NoDuplicates(s \o t)
<1> DEFINE u == s \o t
<1>1. /\ u \in Seq(X) /\ Len(s) \in Nat /\ Len(t) \in Nat
      /\ DOMAIN s = 1..Len(s) /\ DOMAIN t = 1..Len(t)
      /\ DOMAIN u = 1..(Len(s) + Len(t))
      /\ \A i \in 1..Len(s) : u[i] = s[i]
      /\ \A i \in 1..Len(t) : u[Len(s) + i] = t[i]
  OBVIOUS
<1>2. \A i \in DOMAIN u : \/ i \in DOMAIN s /\ u[i] = s[i]
                          \/ /\ i - Len(s) \in DOMAIN t /\ u[i] = t[i - Len(s)]
                             /\ i \notin DOMAIN s
  BY <1>1
<1> HIDE DEF u
<1>3. Range(u) = Range(s) \cup Range(t)
  <2>1. Range(u) \subseteq Range(s) \cup Range(t)
    BY <1>2 DEF Range
  <2>2. \A x \in Range(s) : x \in Range(u)
    BY <1>1 DEF Range
  <2>3. \A x \in Range(t) : x \in Range(u)
    <3> SUFFICES ASSUME NEW i \in DOMAIN t PROVE t[i] \in Range(u)
      BY DEF Range
    <3>1. Len(s) + i \in DOMAIN u /\ u[Len(s) + i] = t[i]
      BY <1>1
    <3> QED
      BY <3>1 DEF Range
  <2> QED
    BY <2>1, <2>2, <2>3
<1>4. ASSUME NoDuplicates(s), NoDuplicates(t), Range(s) \cap Range(t) = {}
      PROVE  NoDuplicates(u)
  <2> SUFFICES ASSUME NEW i \in DOMAIN u, NEW j \in DOMAIN u, u[i] = u[j]
               PROVE  i = j
    BY DEF NoDuplicates
  <2>1. CASE i \in DOMAIN s /\ j \in DOMAIN s
    BY <1>1, <1>4, <2>1 DEF NoDuplicates
  <2>2. CASE i \notin DOMAIN s /\ j \notin DOMAIN s
    <3>1. i - Len(s) \in DOMAIN t /\ j - Len(s) \in DOMAIN t /\ t[i - Len(s)] = t[j - Len(s)]
      BY <1>2, <2>2
    <3>2. i - Len(s) = j - Len(s)
      BY <1>4, <3>1 DEF NoDuplicates
    <3> QED
      BY <1>1, <3>2
  <2>3. CASE i \in DOMAIN s /\ j \notin DOMAIN s
    BY <1>2, <1>4, <2>3 DEF Range
  <2>4. CASE i \notin DOMAIN s /\ j \in DOMAIN s
    BY <1>2, <1>4, <2>4 DEF Range
  <2> QED
    BY <2>1, <2>2, <2>3, <2>4
<1> QED
  BY <1>1, <1>3, <1>4 DEF u

\* Taking the head off a sequence without duplicates removes that element.
LEMMA TailFacts ==
  ASSUME NEW X, NEW s \in Seq(X), s # <<>>
  PROVE  /\ Head(s) \in X /\ Head(s) \in Range(s)
         /\ Tail(s) \in Seq(X)
         /\ Range(Tail(s)) \subseteq Range(s)
         /\ NoDuplicates(s) =>
              /\ NoDuplicates(Tail(s))
              /\ Range(Tail(s)) = Range(s) \ {Head(s)}
<1> DEFINE t == Tail(s)
<1>1. /\ t \in Seq(X) /\ Len(s) \in Nat /\ Len(s) >= 1
      /\ DOMAIN s = 1..Len(s) /\ DOMAIN t = 1..(Len(s) - 1)
      /\ \A i \in 1..(Len(s) - 1) : t[i] = s[i + 1]
      /\ Head(s) = s[1] /\ s[1] \in X
  OBVIOUS
<1> HIDE DEF t
<1>2. \A i \in DOMAIN t : i + 1 \in DOMAIN s /\ t[i] = s[i + 1]
  BY <1>1
<1>3. \A i \in DOMAIN s : i = 1 \/ (i - 1 \in DOMAIN t /\ t[i - 1] = s[i])
  BY <1>1
<1>4. Head(s) \in Range(s) /\ Range(t) \subseteq Range(s)
  BY <1>1, <1>2 DEF Range
<1>5. ASSUME NoDuplicates(s) PROVE NoDuplicates(t)
  <2> SUFFICES ASSUME NEW i \in DOMAIN t, NEW j \in DOMAIN t, t[i] = t[j]
               PROVE  i = j
    BY DEF NoDuplicates
  <2>1. i + 1 = j + 1
    BY <1>2, <1>5 DEF NoDuplicates
  <2> QED
    BY <1>1, <2>1
<1>6. ASSUME NoDuplicates(s) PROVE Range(t) = Range(s) \ {Head(s)}
  <2>1. \A i \in DOMAIN t : t[i] # Head(s)
    <3> SUFFICES ASSUME NEW i \in DOMAIN t, t[i] = Head(s) PROVE FALSE
      OBVIOUS
    <3>1. i + 1 = 1
      BY <1>1, <1>2, <1>6 DEF NoDuplicates
    <3> QED
      BY <1>1, <3>1
  <2>2. \A x \in Range(s) \ {Head(s)} : x \in Range(t)
    BY <1>1, <1>3 DEF Range
  <2>3. \A x \in Range(t) : x \in Range(s) \ {Head(s)}
    BY <1>4, <2>1 DEF Range
  <2> QED
    BY <2>2, <2>3
<1> QED
  BY <1>1, <1>4, <1>5, <1>6 DEF t

\* Taking the last element off a sequence without duplicates removes it.
LEMMA FrontFacts ==
  ASSUME NEW X, NEW s \in Seq(X), s # <<>>
  PROVE  LET t == SubSeq(s, 1, Len(s) - 1)
         IN /\ s[Len(s)] \in X /\ s[Len(s)] \in Range(s)
            /\ t \in Seq(X) /\ Len(t) = Len(s) - 1
            /\ NoDuplicates(s) =>
                 /\ NoDuplicates(t)
                 /\ Range(t) = Range(s) \ {s[Len(s)]}
<1> DEFINE n == Len(s)
           t == SubSeq(s, 1, n - 1)
<1>1. /\ n \in Nat /\ n >= 1 /\ DOMAIN s = 1..n
      /\ t \in Seq(X) /\ Len(t) = n - 1 /\ DOMAIN t = 1..(n - 1)
      /\ \A i \in 1..(n - 1) : t[i] = s[i]
  <2>1. n \in Nat /\ n >= 1 /\ DOMAIN s = 1..n
    OBVIOUS
  <2>2. \A i \in 1..n : s[i] \in X
    OBVIOUS
  <2>3. t = [i \in 1..(n - 1) |-> s[i]]
    BY <2>1
  <2>4. n - 1 \in Nat /\ \A i \in 1..(n - 1) : i \in 1..n
    BY <2>1
  <2> HIDE DEF n, t
  <2>5. t \in [1..(n - 1) -> X]
    BY <2>2, <2>3, <2>4
  <2>6. t \in Seq(X) /\ Len(t) = n - 1
    <3>1. PICK k \in Nat : k = n - 1
      BY <2>4
    <3>2. t \in [1..k -> X] /\ DOMAIN t = 1..k
      BY <2>3, <2>5, <3>1
    <3>3. t \in Seq(X)
      BY <3>2
    <3>4. Len(t) = k
      BY <3>2, <3>3
    <3> QED
      BY <3>1, <3>3, <3>4
  <2> QED
    BY <2>1, <2>3, <2>6
<1>2. n \in DOMAIN s
  BY <1>1
<1>3. s[n] \in X /\ s[n] \in Range(s)
  BY <1>2 DEF Range
<1> HIDE DEF n, t
<1>4. NoDuplicates(s) => NoDuplicates(t)
  BY <1>1 DEF NoDuplicates
<1>5. NoDuplicates(s) => Range(t) = Range(s) \ {s[n]}
  <2> SUFFICES ASSUME NoDuplicates(s) PROVE Range(t) = Range(s) \ {s[n]}
    OBVIOUS
  <2>1. \A i \in 1..(n - 1) : i \in DOMAIN s /\ s[i] # s[n]
    BY <1>1, <1>2 DEF NoDuplicates
  <2>2. \A i \in 1..n : i \in 1..(n - 1) \/ i = n
    BY <1>1
  <2> QED
    BY <1>1, <2>1, <2>2 DEF Range
<1> QED
  BY <1>1, <1>3, <1>4, <1>5 DEF n, t

\* Appending an element.
LEMMA AppendFacts ==
  ASSUME NEW X, NEW s \in Seq(X), NEW x \in X
  PROVE  /\ Append(s, x) \in Seq(X) /\ Len(Append(s, x)) = Len(s) + 1
         /\ Range(Append(s, x)) = Range(s) \cup {x}
         /\ NoDuplicates(s) /\ x \notin Range(s) => NoDuplicates(Append(s, x))
<1> DEFINE n == Len(s)
           t == Append(s, x)
<1>1. /\ n \in Nat /\ DOMAIN s = 1..n /\ t \in Seq(X) /\ Len(t) = n + 1
      /\ DOMAIN t = 1..(n + 1) /\ t[n + 1] = x /\ \A i \in 1..n : t[i] = s[i]
  OBVIOUS
<1> HIDE DEF n, t
<1>2. \A i \in 1..(n + 1) : i \in 1..n \/ i = n + 1
  BY <1>1
<1>3. n + 1 \in 1..(n + 1) /\ 1..n \subseteq 1..(n + 1)
  BY <1>1
<1>4. Range(t) = Range(s) \cup {x}
  BY <1>1, <1>2, <1>3 DEF Range
<1>5. NoDuplicates(s) /\ x \notin Range(s) => NoDuplicates(t)
  BY <1>1, <1>2 DEF Range, NoDuplicates
<1> QED
  BY <1>1, <1>4, <1>5 DEF n, t

\* A sequence without duplicates is as long as its range has elements.
LEMMA LengthFacts ==
  ASSUME NEW X, NEW s \in Seq(X), NoDuplicates(s)
  PROVE  IsFiniteSet(Range(s)) /\ Cardinality(Range(s)) = Len(s)
<1> DEFINE D == 1..Len(s)
<1>1. Len(s) \in Nat /\ DOMAIN s = D
  OBVIOUS
<1>2. IsFiniteSet(D) /\ Cardinality(D) = Len(s)
  BY <1>1, CountUp
<1> HIDE DEF D
<1>3. s \in [D -> Range(s)] /\ \A x \in Range(s) : \E i \in D : s[i] = x
  <2>1. s = [i \in D |-> s[i]]
    BY <1>1
  <2>2. \A i \in D : s[i] \in Range(s)
    BY <1>1 DEF Range
  <2> QED
    BY <1>1, <2>1, <2>2 DEF Range
<1>4. \A i, j \in D : s[i] = s[j] => i = j
  BY <1>1 DEF NoDuplicates
<1>5. ExistsBijection(D, Range(s))
  <2>1. s \in Bijection(D, Range(s))
    BY <1>3, <1>4, Fun_IsBij
  <2> QED
    BY <2>1 DEF ExistsBijection
<1> QED
  BY <1>2, <1>5, FS_Bijection

\* A prefix has some of the elements and no new duplicates.
LEMMA PrefixFacts ==
  ASSUME NEW X, NEW s \in Seq(X), NEW n \in 0..Len(s)
  PROVE  /\ SubSeq(s, 1, n) \in Seq(X)
         /\ Range(SubSeq(s, 1, n)) \subseteq Range(s)
         /\ NoDuplicates(s) => NoDuplicates(SubSeq(s, 1, n))
<1> DEFINE t == SubSeq(s, 1, n)
<1>1. /\ t \in Seq(X) /\ DOMAIN s = 1..Len(s) /\ Len(s) \in Nat
      /\ DOMAIN t = 1..n /\ \A i \in 1..n : t[i] = s[i] /\ i \in DOMAIN s
  OBVIOUS
<1> HIDE DEF t
<1>2. Range(t) \subseteq Range(s)
  BY <1>1 DEF Range
<1>3. NoDuplicates(s) => NoDuplicates(t)
  BY <1>1 DEF NoDuplicates
<1> QED
  BY <1>1, <1>2, <1>3 DEF t

\* The elements of a sequence over X are in X.
LEMMA RangeType ==
  ASSUME NEW X, NEW s \in Seq(X)
  PROVE  Range(s) \subseteq X
<1>1. \A i \in DOMAIN s : s[i] \in X
  OBVIOUS
<1> QED
  BY <1>1 DEF Range

\* The empty sequence has no elements.
LEMMA EmptyFacts ==
  /\ Range(<<>>) = {}
  /\ NoDuplicates(<<>>)
BY DEF Range, NoDuplicates

\* A sequence of one.
LEMMA SingletonFacts ==
  ASSUME NEW x
  PROVE  Range(<<x>>) = {x} /\ NoDuplicates(<<x>>)
<1>1. DOMAIN <<x>> = {1} /\ <<x>>[1] = x
  OBVIOUS
<1> QED
  BY <1>1 DEF Range, NoDuplicates

\* Summing along a sequence without duplicates sums over its elements.
LEMMA SumAlong ==
  ASSUME NEW X, NEW s \in Seq(X), NoDuplicates(s), NEW f, \A x \in Range(s) : f[x] \in Int,
         NEW g, \A i \in 1..Len(s) : g[i] = f[s[i]]
  PROVE  SumOver(g, 1..Len(s)) = SumOver(f, Range(s))
<1>1. PICK D : D = 1..Len(s)
  OBVIOUS
<1>2. IsFiniteSet(D) /\ DOMAIN s = D
  BY <1>1, CountUp
<1>3. /\ \A i \in D : s[i] \in Range(s) /\ g[i] = f[s[i]] /\ g[i] \in Int
      /\ \A i, j \in D : s[i] = s[j] => i = j
  BY <1>1, <1>2 DEF Range, NoDuplicates
<1> DEFINE Of(I) == {s[i] : i \in I}
           Q == {I \in SUBSET D : IsFiniteSet(Of(I)) /\ SumOver(g, I) = SumOver(f, Of(I))}
<1>4. {} \in Q
  <2>1. Of({}) = {} /\ IsFiniteSet({})
    BY FS_EmptySet
  <2>2. SumOver(g, {}) = 0 /\ SumOver(f, {}) = 0
    BY <2>1, SumType
  <2> QED
    BY <2>1, <2>2
<1>5. ASSUME NEW I \in Q, NEW i \in D \ I PROVE I \cup {i} \in Q
  <2>1. PICK T : T = Of(I)
    OBVIOUS
  <2>2. I \in SUBSET D /\ IsFiniteSet(I) /\ IsFiniteSet(T) /\ SumOver(g, I) = SumOver(f, T)
    BY <1>2, <2>1, FS_Subset
  <2>3. s[i] \notin T /\ T \subseteq Range(s)
    BY <1>3, <2>1, <2>2
  <2>4. Of(I \cup {i}) = T \cup {s[i]}
    BY <2>1
  <2> HIDE DEF Of, Q
  <2>5. SumOver(g, I \cup {i}) = g[i] + SumOver(g, I)
    BY <1>3, <2>2, SumAdd
  <2>6. SumOver(f, T \cup {s[i]}) = f[s[i]] + SumOver(f, T)
    BY <1>3, <2>2, <2>3, SumAdd
  <2>7. IsFiniteSet(T \cup {s[i]})
    BY <2>2, FS_AddElement
  <2>8. g[i] = f[s[i]]
    BY <1>3
  <2>9. SumOver(g, I \cup {i}) = SumOver(f, T \cup {s[i]})
    BY <2>2, <2>5, <2>6, <2>8
  <2> QED
    BY <2>2, <2>4, <2>7, <2>9 DEF Q
<1>6. D \in Q
  <2> HIDE DEF Q
  <2>1. Q \in SUBSET SUBSET D
    BY DEF Q
  <2> QED
    BY <1>2, <1>4, <1>5, <2>1, SubsetInduction
<1>7. Of(D) = Range(s)
  BY <1>2 DEF Range
<1> QED
  BY <1>1, <1>6, <1>7

\* A sequence that lists the elements of a set in increasing order is the one
\* that Sorted returns.
LEMMA SortedUnique ==
  ASSUME NEW t \in Seq(Nat), \A i, j \in 1..Len(t) : i < j => t[i] < t[j]
  PROVE  IsFiniteSet(Range(t)) /\ Cardinality(Range(t)) = Len(t) /\ t = Sorted(Range(t))
<1>1. PICK n \in Nat : n = Len(t)
  OBVIOUS
<1>2. DOMAIN t = 1..n /\ \A i \in 1..n : t[i] \in Nat
  BY <1>1
<1>3. \A i, j \in 1..n : (i < j => t[i] < t[j]) /\ (t[i] = t[j] => i = j)
  <2>1. \A i, j \in 1..n : i < j => t[i] < t[j]
    BY <1>1
  <2>2. \A i, j \in 1..n : i = j \/ i < j \/ j < i
    OBVIOUS
  <2> QED
    BY <1>2, <2>1, <2>2
<1>4. NoDuplicates(t)
  BY <1>2, <1>3 DEF NoDuplicates
<1>5. PICK S : S = Range(t)
  OBVIOUS
<1>6. IsFiniteSet(S) /\ Cardinality(S) = n /\ S \in SUBSET Nat
  BY <1>1, <1>4, <1>5, LengthFacts, RangeType
<1>7. PICK rank : rank = [i \in S |-> Cardinality({j \in S : j <= i})]
  OBVIOUS
<1>8. \A a, b \in S : rank[a] = rank[b] => a = b
  BY <1>6, <1>7, RankFacts
<1>9. ASSUME NEW k \in 1..n PROVE t[k] \in S /\ rank[t[k]] = k
  <2>1. t[k] \in S
    BY <1>2, <1>5 DEF Range
  <2>2. PICK u : u = SubSeq(t, 1, k)
    OBVIOUS
  <2>3. u \in Seq(Nat) /\ NoDuplicates(u)
    <3>1. k \in 0..Len(t)
      BY <1>1
    <3> QED
      BY <1>4, <2>2, <3>1, PrefixFacts
  <2>4. Len(u) = k /\ DOMAIN u = 1..k /\ \A i \in 1..k : u[i] = t[i]
    BY <1>1, <2>2
  <2>5. Range(u) = {j \in S : j <= t[k]}
    <3>1. \A x \in Range(u) : x \in S /\ x <= t[k]
      <4> SUFFICES ASSUME NEW i \in 1..k PROVE u[i] \in S /\ u[i] <= t[k]
        BY <2>4 DEF Range
      <4>1. i \in 1..n /\ (i < k \/ i = k)
        OBVIOUS
      <4>2. t[i] \in S
        BY <1>2, <1>5, <4>1 DEF Range
      <4>3. t[i] <= t[k]
        BY <1>2, <1>3, <4>1
      <4> QED
        BY <2>4, <4>2, <4>3
    <3>2. ASSUME NEW x \in S, x <= t[k] PROVE x \in Range(u)
      <4>1. PICK i \in 1..n : x = t[i]
        BY <1>2, <1>5 DEF Range
      <4>2. ~(k < i)
        BY <1>2, <1>3, <3>2, <4>1
      <4>3. i \in 1..k
        BY <4>2
      <4> QED
        BY <2>4, <4>1, <4>3 DEF Range
    <3> QED
      BY <3>1, <3>2
  <2>6. Cardinality(Range(u)) = k
    BY <2>3, <2>4, LengthFacts
  <2> QED
    BY <1>7, <2>1, <2>5, <2>6
<1>10. \A k \in 1..n : t[k] = CHOOSE i \in S : Cardinality({j \in S : j <= i}) = k
  <2> SUFFICES ASSUME NEW k \in 1..n
               PROVE  t[k] = CHOOSE i \in S : Cardinality({j \in S : j <= i}) = k
    OBVIOUS
  <2>1. t[k] \in S /\ Cardinality({j \in S : j <= t[k]}) = k
    BY <1>7, <1>9
  <2>2. \A i \in S : Cardinality({j \in S : j <= i}) = k => i = t[k]
    BY <1>7, <1>8, <2>1
  <2> QED
    BY <2>1, <2>2
<1>11. t = [k \in 1..n |-> CHOOSE i \in S : Cardinality({j \in S : j <= i}) = k]
  BY <1>2, <1>10
<1> QED
  BY <1>1, <1>5, <1>6, <1>11 DEF Sorted

\* Two sequences in a row, position by position.
LEMMA JoinFacts ==
  ASSUME NEW X, NEW a \in Seq(X), NEW b \in Seq(X), NEW m \in Nat, m = Len(a),
         NEW n \in Nat, n = Len(b)
  PROVE  /\ a \o b \in Seq(X) /\ Len(a \o b) = m + n /\ DOMAIN (a \o b) = 1..(m + n)
         /\ \A k \in 1..(m + n) : (a \o b)[k] = IF k <= m THEN a[k] ELSE b[k - m]
OBVIOUS

\* A sequence without the element at one position.
Cut(s, i) == SubSeq(s, 1, i - 1) \o SubSeq(s, i + 1, Len(s))

\* What is left keeps its order, position by position.
LEMMA CutAt ==
  ASSUME NEW X, NEW s \in Seq(X), NEW i \in 1..Len(s)
  PROVE  /\ \A k \in 1..(i - 1) : Cut(s, i)[k] = s[k]
         /\ \A k \in i..(Len(s) - 1) : Cut(s, i)[k] = s[k + 1]
         /\ Cut(s, i) \in Seq(X) /\ Len(Cut(s, i)) = Len(s) - 1
<1>0. PICK n \in Nat : n = Len(s) /\ i \in 1..n
  OBVIOUS
<1>1. PICK a : a = SubSeq(s, 1, i - 1)
  OBVIOUS
<1>2. PICK b : b = SubSeq(s, i + 1, n)
  OBVIOUS
<1>3. PICK t : t = a \o b
  OBVIOUS
<1>4. a \in Seq(X) /\ Len(a) = i - 1 /\ \A k \in 1..(i - 1) : a[k] = s[k]
  BY <1>1
<1>5. b \in Seq(X) /\ Len(b) = n - i /\ \A k \in 1..(n - i) : b[k] = s[i + k]
  BY <1>0, <1>2
<1>6. /\ t \in Seq(X) /\ Len(t) = n - 1 /\ DOMAIN t = 1..(n - 1)
      /\ \A k \in 1..(n - 1) : t[k] = IF k < i THEN a[k] ELSE b[k - (i - 1)]
  <2>1. PICK la \in Nat : la = i - 1
    OBVIOUS
  <2>2. PICK lb \in Nat : lb = n - i
    <3>1. i \in Nat /\ i <= n
      BY <1>0
    <3>2. n - i \in Nat
      BY <3>1
    <3> QED
      BY <3>2
  <2>3. /\ t \in Seq(X) /\ Len(t) = la + lb /\ DOMAIN t = 1..(la + lb)
        /\ \A k \in 1..(la + lb) : t[k] = IF k <= la THEN a[k] ELSE b[k - la]
    <3>1. a \in Seq(X) /\ la = Len(a) /\ b \in Seq(X) /\ lb = Len(b)
      BY <1>4, <1>5, <2>1, <2>2
    <3>2. /\ a \o b \in Seq(X) /\ Len(a \o b) = la + lb /\ DOMAIN (a \o b) = 1..(la + lb)
          /\ \A k \in 1..(la + lb) : (a \o b)[k] = IF k <= la THEN a[k] ELSE b[k - la]
      BY <3>1, JoinFacts
    <3> QED
      BY <1>3, <3>2
  <2>4. la + lb = n - 1 /\ \A k \in 1..(n - 1) : k <= la <=> k < i
    BY <2>1, <2>2
  <2> QED
    BY <2>1, <2>3, <2>4
<1>7. ASSUME NEW k \in 1..(n - 1) PROVE t[k] = IF k < i THEN s[k] ELSE s[k + 1]
  <2>1. CASE k < i
    BY <1>4, <1>6, <2>1
  <2>2. CASE ~(k < i)
    <3>1. k - (i - 1) \in 1..(n - i) /\ i + (k - (i - 1)) = k + 1
      BY <2>2
    <3> QED
      BY <1>5, <1>6, <2>2, <3>1
  <2> QED
    BY <2>1, <2>2
<1>8. t = Cut(s, i)
  BY <1>0, <1>1, <1>2, <1>3 DEF Cut
<1>9. \A k \in 1..(i - 1) : t[k] = s[k]
  BY <1>0, <1>7
<1>10. \A k \in i..(n - 1) : t[k] = s[k + 1]
  BY <1>0, <1>7
<1> QED
  BY <1>0, <1>6, <1>8, <1>9, <1>10

\* What is left is the rest.
LEMMA CutFacts ==
  ASSUME NEW X, NEW s \in Seq(X), NEW i \in 1..Len(s), NoDuplicates(s)
  PROVE  /\ NoDuplicates(Cut(s, i))
         /\ Range(Cut(s, i)) = Range(s) \ {s[i]}
<1>0. PICK n \in Nat : n = Len(s) /\ i \in 1..n
  OBVIOUS
<1>1. PICK t : t = Cut(s, i)
  OBVIOUS
<1>2. t \in Seq(X) /\ Len(t) = n - 1
  BY <1>0, <1>1, CutAt
<1>3. DOMAIN t = 1..(n - 1)
  BY <1>2
<1>4. \A k \in 1..(i - 1) : t[k] = s[k]
  BY <1>1, CutAt
<1>5. \A k \in i..(n - 1) : t[k] = s[k + 1]
  BY <1>0, <1>1, CutAt
<1>6. ASSUME NEW k \in 1..(n - 1) PROVE t[k] = IF k < i THEN s[k] ELSE s[k + 1]
  BY <1>0, <1>5, <1>4
<1>7. NoDuplicates(t) /\ Range(t) = Range(s) \ {s[i]}
  <2>1. DOMAIN s = 1..n /\ \A j, k \in 1..n : s[j] = s[k] => j = k
    BY <1>0 DEF NoDuplicates
  <2>2. PICK at : at = [k \in 1..(n - 1) |-> IF k < i THEN k ELSE k + 1]
    OBVIOUS
  <2>3. \A k \in 1..(n - 1) : at[k] \in (1..n) \ {i} /\ t[k] = s[at[k]]
    <3> SUFFICES ASSUME NEW k \in 1..(n - 1)
                 PROVE  at[k] \in (1..n) \ {i} /\ t[k] = s[at[k]]
      OBVIOUS
    <3>1. at[k] = IF k < i THEN k ELSE k + 1
      BY <2>2
    <3>2. t[k] = IF k < i THEN s[k] ELSE s[k + 1]
      BY <1>6
    <3>3. i \in 1..n /\ k \in 1..(n - 1)
      BY <1>0
    <3>4. CASE k < i
      BY <3>1, <3>2, <3>3, <3>4
    <3>5. CASE ~(k < i)
      BY <3>1, <3>2, <3>3, <3>5
    <3> QED
      BY <3>4, <3>5
  <2>4. \A j, k \in 1..(n - 1) : at[j] = at[k] => j = k
    BY <2>2
  <2>5. NoDuplicates(t)
    <3> SUFFICES ASSUME NEW j \in 1..(n - 1), NEW k \in 1..(n - 1), t[j] = t[k]
                 PROVE  j = k
      BY <1>3 DEF NoDuplicates
    <3>1. at[j] \in 1..n /\ at[k] \in 1..n /\ s[at[j]] = s[at[k]]
      BY <2>3
    <3>2. at[j] = at[k]
      BY <2>1, <3>1
    <3> QED
      BY <2>4, <3>2
  <2>6. \A j \in (1..n) \ {i} : \E k \in 1..(n - 1) : at[k] = j
    <3> SUFFICES ASSUME NEW j \in (1..n) \ {i} PROVE \E k \in 1..(n - 1) : at[k] = j
      OBVIOUS
    <3>1. CASE j < i
      BY <1>0, <2>2, <3>1
    <3>2. CASE j > i
      <4>1. j - 1 \in 1..(n - 1) /\ at[j - 1] = j
        BY <2>2, <3>2
      <4> QED
        BY <4>1
    <3> QED
      BY <3>1, <3>2
  <2>7. Range(t) = {s[j] : j \in (1..n) \ {i}}
    <3>1. Range(t) = {t[k] : k \in 1..(n - 1)}
      BY <1>3 DEF Range
    <3>2. \A k \in 1..(n - 1) : t[k] \in {s[j] : j \in (1..n) \ {i}}
      BY <2>3
    <3>3. \A j \in (1..n) \ {i} : s[j] \in Range(t)
      <4> SUFFICES ASSUME NEW j \in (1..n) \ {i} PROVE s[j] \in Range(t)
        OBVIOUS
      <4>1. PICK k \in 1..(n - 1) : at[k] = j
        BY <2>6
      <4>2. t[k] = s[j]
        BY <2>3, <4>1
      <4> QED
        BY <3>1, <4>2
    <3> QED
      BY <3>1, <3>2, <3>3
  <2>8. {s[j] : j \in (1..n) \ {i}} = Range(s) \ {s[i]}
    BY <2>1 DEF Range
  <2> QED
    BY <2>5, <2>7, <2>8
<1> QED
  BY <1>1, <1>7

\* A sum over one index more.
LEMMA SumNext ==
  ASSUME NEW n \in Nat, NEW f, NEW e, \A i \in 1..(n + 1) : f[i] \in Int,
         \A i \in 1..n : e[i] = f[i]
  PROVE  SumOver(f, 1..(n + 1)) = f[n + 1] + SumOver(e, 1..n)
<1>1. PICK S : S = 1..n
  OBVIOUS
<1>2. 1..(n + 1) = S \cup {n + 1} /\ n + 1 \notin S
  BY <1>1
<1>3. IsFiniteSet(S)
  BY <1>1, CountUp
<1>4. \A x \in S \cup {n + 1} : f[x] \in Int
  BY <1>2
<1>5. SumOver(f, S \cup {n + 1}) = f[n + 1] + SumOver(f, S)
  BY <1>2, <1>3, <1>4, SumAdd
<1>6. \A x \in S : e[x] = f[x] /\ f[x] \in Int
  BY <1>1, <1>4
<1>7. SumOver(e, S) = SumOver(f, S)
  BY <1>3, <1>6, SumSame
<1> QED
  BY <1>1, <1>2, <1>5, <1>7
=============================================================================

------------------------------- MODULE Counting -------------------------------
(***************************************************************************)
(* Counting: how many elements of a sequence, of the values of a function, *)
(* and of a stock of numbered copies are in a set, and how one more or one *)
(* less of them changes the number.  Nothing has to be finite for ever:    *)
(* what is counted is, because one step adds or takes a finite number.     *)
(* At the end, what moving an element between two sequences does to their  *)
(* concatenation.                                                          *)
(***************************************************************************)
EXTENDS Integers, Sequences, FiniteSets, FiniteSetTheorems, SequenceTheorems,
        WellFoundedInduction, TLAPS

\* A finite set and how many elements it has
Counts(S, n) == IsFiniteSet(S) /\ Cardinality(S) = n

\* The places of a sequence with an element in S
Indices(s, S) == {i \in DOMAIN s : s[i] \in S}

\* f[d] copies of each d in D
Stock(f, D) == UNION {{d} \X (1 .. f[d]) : d \in D}

\* f[d] is a set of things, for each d in D
Piles(f, D) == UNION {{d} \X f[d] : d \in D}

\* A sequence without repetitions, and its elements
Distinct(s) == \A i, j \in DOMAIN s : s[i] = s[j] => i = j
Elements(s) == {s[i] : i \in DOMAIN s}

-----------------------------------------------------------------------------
(* Finite sets *)

\* The empty set is finite and has no element
LEMMA EmptyCounts == Counts({}, 0)
  BY FS_EmptySet DEF Counts

\* A finite set counts as many as its cardinality, a natural number
LEMMA FiniteCounts ==
    ASSUME NEW S, IsFiniteSet(S)
    PROVE  Cardinality(S) \in Nat /\ Counts(S, Cardinality(S))
  BY FS_CardinalityType DEF Counts

\* A new element makes a finite set larger by one
LEMMA AddOne ==
    ASSUME NEW S, IsFiniteSet(S), NEW x, x \notin S
    PROVE  Counts(S \cup {x}, Cardinality(S) + 1)
  BY FS_AddElement DEF Counts

\* Taking an element out makes a finite set smaller by one
LEMMA TakeOne ==
    ASSUME NEW S, IsFiniteSet(S), NEW x \in S
    PROVE  Counts(S \ {x}, Cardinality(S) - 1)
  BY FS_RemoveElement DEF Counts

\* The cardinality of the union of two disjoint finite sets is the sum of theirs
LEMMA AddMany ==
    ASSUME NEW S, IsFiniteSet(S), NEW T, IsFiniteSet(T), S \cap T = {}
    PROVE  Counts(S \cup T, Cardinality(S) + Cardinality(T))
<1>1. Cardinality(S \cap T) = 0 /\ Cardinality(S) \in Nat /\ Cardinality(T) \in Nat
  BY FS_EmptySet, FS_CardinalityType
<1> QED
  <2>1. IsFiniteSet(S \cup T)
          /\ Cardinality(S \cup T) = Cardinality(S) + Cardinality(T) - Cardinality(S \cap T)
    BY FS_Union
  <2> QED
    BY <1>1, <2>1 DEF Counts

\* A set of numbers has a least one
LEMMA LeastNat ==
    ASSUME NEW S \in SUBSET Nat, S # {}
    PROVE  \E m \in S : \A k \in S : m <= k
<1> DEFINE R == {p \in Nat \X Nat : p[1] < p[2]}
<1>1. IsWellFoundedOn(R, Nat)
  BY NatLessThanWellFounded DEF OpToRel
<1>2. \E x \in S : \A y \in S : ~(<<y, x>> \in R)
  BY <1>1, WFMin
<1>3. \A x, y \in Nat : y < x => <<y, x>> \in R
  OBVIOUS
<1>4. \A x, y \in S : <<y, x>> \notin R => x <= y
  <2>1. \A x, y \in Nat : y < x \/ x <= y
    OBVIOUS
  <2> HIDE DEF R
  <2> QED
    BY <1>3, <2>1
<1> HIDE DEF R
<1> QED
  BY <1>2, <1>4

\* Two sets of which f makes pairs
LEMMA SameCount ==
    ASSUME NEW S, IsFiniteSet(S), NEW T, NEW f \in [S -> T],
           \A x, y \in S : f[x] = f[y] => x = y,
           \A y \in T : \E x \in S : f[x] = y
    PROVE  Counts(T, Cardinality(S))
<1>1. f \in Bijection(S, T)
  BY DEF Bijection, Injection, Surjection, IsInjective
<1>2. ExistsBijection(S, T)
  BY <1>1 DEF ExistsBijection
<1> QED
  BY <1>2, FS_Bijection DEF Counts

-----------------------------------------------------------------------------
(* Elements of a sequence *)

\* The positions of a sequence that satisfy a predicate are finitely many
LEMMA IndicesFinite ==
    ASSUME NEW T, NEW s \in Seq(T), NEW S
    PROVE  IsFiniteSet(Indices(s, S)) /\ Cardinality(Indices(s, S)) \in Nat
<1>1. IsFiniteSet(1 .. Len(s))
  BY FS_Interval
<1>2. Indices(s, S) \in SUBSET (1 .. Len(s))
  BY DEF Indices
<1> QED
  BY <1>1, <1>2, FS_Subset, FS_CardinalityType

\* Appending an element adds its position, if it counts
LEMMA IndicesAppend ==
    ASSUME NEW T, NEW s \in Seq(T), NEW x \in T, NEW S
    PROVE  Cardinality(Indices(Append(s, x), S))
             = Cardinality(Indices(s, S)) + (IF x \in S THEN 1 ELSE 0)
<1> DEFINE n == Len(s) + 1
<1>1. Len(s) \in Nat /\ n \notin DOMAIN s /\ n \notin Indices(s, S)
  BY DEF Indices
<1>2. /\ DOMAIN Append(s, x) = DOMAIN s \cup {n}
      /\ Append(s, x)[n] = x
      /\ \A i \in DOMAIN s : Append(s, x)[i] = s[i]
  BY <1>1
<1> HIDE DEF n
<1>3. CASE x \in S
  <2>1. Indices(Append(s, x), S) = Indices(s, S) \cup {n}
    BY <1>1, <1>2, <1>3 DEF Indices
  <2> QED
    BY <1>1, <1>3, <2>1, IndicesFinite, AddOne DEF Counts
<1>4. CASE x \notin S
  <2>1. Indices(Append(s, x), S) = Indices(s, S)
    BY <1>1, <1>2, <1>4 DEF Indices
  <2> QED
    BY <1>4, <2>1, IndicesFinite
<1> QED
  BY <1>3, <1>4

\* Taking the head of a sequence takes its position away, if it counted
LEMMA IndicesTail ==
    ASSUME NEW T, NEW s \in Seq(T), s # <<>>, NEW S
    PROVE  Cardinality(Indices(Tail(s), S))
             = Cardinality(Indices(s, S)) - (IF Head(s) \in S THEN 1 ELSE 0)
<1> DEFINE t == Tail(s)
           J == Indices(t, S)
           I == Indices(s, S) \ {1}
           f == [j \in J |-> j + 1]
<1>1. /\ Len(s) \in Nat \ {0} /\ t \in Seq(T) /\ Len(t) = Len(s) - 1
      /\ DOMAIN s = 1 .. Len(s) /\ DOMAIN t = 1 .. (Len(s) - 1)
      /\ \A j \in 1 .. (Len(s) - 1) : t[j] = s[j + 1]
      /\ Head(s) = s[1]
  OBVIOUS
<1> HIDE DEF t
<1>2. /\ IsFiniteSet(J) /\ Cardinality(J) \in Nat /\ J \subseteq Nat
      /\ IsFiniteSet(Indices(s, S)) /\ Cardinality(Indices(s, S)) \in Nat
  <2>1. J \subseteq Nat
    BY <1>1 DEF Indices
  <2> QED
    BY <1>1, <2>1, IndicesFinite
<1>3. \A j \in J : j + 1 \in I
  BY <1>1 DEF Indices
<1>4. \A i \in I : i - 1 \in J /\ (i - 1) + 1 = i
  <2> SUFFICES ASSUME NEW i \in I PROVE i - 1 \in J /\ (i - 1) + 1 = i
    OBVIOUS
  <2>1. i \in 1 .. Len(s) /\ s[i] \in S /\ i # 1
    BY <1>1 DEF Indices
  <2>2. i - 1 \in 1 .. (Len(s) - 1) /\ (i - 1) + 1 = i
    BY <1>1, <2>1
  <2> QED
    BY <1>1, <2>1, <2>2 DEF Indices
<1> HIDE DEF I, J
<1>5. Counts(I, Cardinality(J))
  <2>1. f \in [J -> I]
    BY <1>3
  <2>2. \A x, y \in J : f[x] = f[y] => x = y
    BY <1>2
  <2>3. \A y \in I : \E x \in J : f[x] = y
    BY <1>4
  <2> HIDE DEF f
  <2> QED
    BY <1>2, <2>1, <2>2, <2>3, SameCount
<1>6. CASE Head(s) \in S
  <2>1. 1 \in Indices(s, S)
    BY <1>1, <1>6 DEF Indices
  <2>2. Cardinality(I) = Cardinality(Indices(s, S)) - 1
    BY <1>2, <2>1, TakeOne DEF I, Counts
  <2> QED
    BY <1>2, <1>5, <1>6, <2>2 DEF Counts, J, t
<1>7. CASE Head(s) \notin S
  <2>1. I = Indices(s, S)
    BY <1>1, <1>7 DEF I, Indices
  <2> QED
    BY <1>2, <1>5, <1>7, <2>1 DEF Counts, J, t
<1> QED
  BY <1>6, <1>7

\* The positions that count in a concatenation are those of its parts
LEMMA IndicesConcat ==
    ASSUME NEW T, NEW s \in Seq(T), NEW u \in Seq(T), NEW S
    PROVE  Cardinality(Indices(s \o u, S))
             = Cardinality(Indices(s, S)) + Cardinality(Indices(u, S))
<1> DEFINE m == Len(s)
           n == Len(u)
           c == s \o u
           J == Indices(u, S)
           K == {i \in Indices(c, S) : i > m}
           f == [j \in J |-> m + j]
<1>1. /\ m \in Nat /\ n \in Nat /\ c \in Seq(T) /\ Len(c) = m + n
      /\ DOMAIN s = 1 .. m /\ DOMAIN u = 1 .. n /\ DOMAIN c = 1 .. (m + n)
      /\ \A i \in 1 .. m : c[i] = s[i]
      /\ \A i \in 1 .. n : c[m + i] = u[i]
  OBVIOUS
<1> HIDE DEF c
<1>2. /\ IsFiniteSet(J) /\ Cardinality(J) \in Nat /\ J \subseteq Nat
      /\ IsFiniteSet(Indices(s, S)) /\ Cardinality(Indices(s, S)) \in Nat
  <2>1. J \subseteq Nat
    BY <1>1 DEF Indices
  <2> QED
    BY <1>1, <2>1, IndicesFinite
<1>3. \A j \in J : m + j \in K
  BY <1>1 DEF Indices
<1>4. \A i \in K : i - m \in J /\ m + (i - m) = i
  <2> SUFFICES ASSUME NEW i \in K PROVE i - m \in J /\ m + (i - m) = i
    OBVIOUS
  <2>1. i \in 1 .. (m + n) /\ c[i] \in S /\ i > m
    BY <1>1 DEF Indices
  <2>2. i - m \in 1 .. n /\ m + (i - m) = i
    BY <1>1, <2>1
  <2>3. c[i] = u[i - m]
    BY <1>1, <2>2
  <2> QED
    BY <1>1, <2>1, <2>2, <2>3 DEF Indices
<1>5. Counts(K, Cardinality(J))
  <2> HIDE DEF J, K
  <2>1. f \in [J -> K]
    BY <1>3
  <2>2. \A x, y \in J : f[x] = f[y] => x = y
    BY <1>1, <1>2
  <2>3. \A y \in K : \E x \in J : f[x] = y
    BY <1>4
  <2> HIDE DEF f
  <2> QED
    BY <1>2, <2>1, <2>2, <2>3, SameCount
<1>6. Indices(c, S) = Indices(s, S) \cup K /\ Indices(s, S) \cap K = {}
  BY <1>1 DEF Indices
<1> HIDE DEF K, J
<1>7. Counts(Indices(s, S) \cup K, Cardinality(Indices(s, S)) + Cardinality(K))
  BY <1>2, <1>5, <1>6, AddMany DEF Counts
<1> QED
  BY <1>2, <1>5, <1>6, <1>7 DEF Counts, J, c

\* n times the same element
LEMMA IndicesCopies ==
    ASSUME NEW n \in Nat, NEW x, NEW S
    PROVE  Cardinality(Indices([i \in 1 .. n |-> x], S)) = IF x \in S THEN n ELSE 0
<1>1. CASE x \in S
  <2>1. Indices([i \in 1 .. n |-> x], S) = 1 .. n
    BY <1>1 DEF Indices
  <2> QED
    BY <1>1, <2>1, FS_Interval
<1>2. CASE x \notin S
  <2>1. Indices([i \in 1 .. n |-> x], S) = {}
    BY <1>2 DEF Indices
  <2> QED
    BY <1>2, <2>1, FS_EmptySet
<1> QED
  BY <1>1, <1>2

-----------------------------------------------------------------------------
(* Elements of a sequence without repetitions *)

\* The empty sequence repeats nothing and has no element
LEMMA ElementsEmpty == Distinct(<<>>) /\ Elements(<<>>) = {}
  BY DEF Distinct, Elements

\* A new element appended to a sequence without repetitions leaves it without any
LEMMA ElementsAppend ==
    ASSUME NEW T, NEW s \in Seq(T), NEW x \in T, Distinct(s), x \notin Elements(s)
    PROVE  Distinct(Append(s, x)) /\ Elements(Append(s, x)) = Elements(s) \cup {x}
<1> DEFINE n == Len(s) + 1
           a == Append(s, x)
<1>1. Len(s) \in Nat /\ n \notin DOMAIN s
  OBVIOUS
<1>2. DOMAIN a = DOMAIN s \cup {n} /\ a[n] = x /\ \A i \in DOMAIN s : a[i] = s[i]
  BY <1>1
<1> HIDE DEF n, a
<1>3. Distinct(a)
  BY <1>2 DEF Distinct, Elements
<1>4. Elements(a) = Elements(s) \cup {x}
  BY <1>1, <1>2 DEF Elements
<1> QED
  BY <1>3, <1>4 DEF a

\* The tail of a sequence without repetitions has all its elements but the head
LEMMA ElementsTail ==
    ASSUME NEW T, NEW s \in Seq(T), s # <<>>, Distinct(s)
    PROVE  /\ Head(s) \in Elements(s) /\ Distinct(Tail(s))
           /\ Elements(Tail(s)) = Elements(s) \ {Head(s)}
<1> DEFINE t == Tail(s)
           n == Len(s)
<1>1. /\ n \in Nat \ {0} /\ DOMAIN s = 1 .. n /\ DOMAIN t = 1 .. (n - 1)
      /\ \A j \in 1 .. (n - 1) : t[j] = s[j + 1]
      /\ Head(s) = s[1]
  OBVIOUS
<1> HIDE DEF t, n
<1>2. 1 \in 1 .. n /\ \A j \in 1 .. (n - 1) : j + 1 \in 1 .. n /\ j + 1 # 1
  BY <1>1
<1>3. \A i \in 1 .. n : i # 1 => i - 1 \in 1 .. (n - 1) /\ (i - 1) + 1 = i
  BY <1>1
<1>4. Head(s) \in Elements(s)
  BY <1>1, <1>2 DEF Elements
<1>5. Distinct(t)
  <2> SUFFICES ASSUME NEW i \in 1 .. (n - 1), NEW j \in 1 .. (n - 1), t[i] = t[j]
               PROVE  i = j
    BY <1>1 DEF Distinct
  <2>1. i + 1 = j + 1
    BY <1>1, <1>2, ZenonT(40) DEF Distinct
  <2> QED
    BY <1>1, <2>1
<1>6. Elements(t) = Elements(s) \ {Head(s)}
  <2>1. ASSUME NEW x \in Elements(t) PROVE x \in Elements(s) \ {Head(s)}
    <3>1. PICK j \in 1 .. (n - 1) : x = t[j]
      BY <1>1 DEF Elements
    <3>2. x = s[j + 1] /\ j + 1 \in 1 .. n /\ j + 1 # 1
      BY <1>1, <1>2, <3>1
    <3> QED
      BY <1>1, <1>2, <3>2 DEF Elements, Distinct
  <2>2. ASSUME NEW x \in Elements(s) \ {Head(s)} PROVE x \in Elements(t)
    <3>1. PICK i \in 1 .. n : x = s[i]
      BY <1>1 DEF Elements
    <3>2. i # 1
      BY <1>1, <3>1
    <3> QED
      BY <1>1, <1>3, <3>1, <3>2 DEF Elements
  <2> QED
    BY <2>1, <2>2
<1> QED
  BY <1>4, <1>5, <1>6 DEF t

\* A sequence without repetitions has as many elements as its length
LEMMA ElementsCount ==
    ASSUME NEW T, NEW s \in Seq(T), Distinct(s)
    PROVE  Counts(Elements(s), Len(s))
<1>1. Len(s) \in Nat /\ DOMAIN s = 1 .. Len(s) /\ s \in [1 .. Len(s) -> T]
  OBVIOUS
<1>2. Counts(1 .. Len(s), Len(s))
  BY <1>1, FS_Interval, SMTT(40) DEF Counts
<1>3. s \in [1 .. Len(s) -> Elements(s)]
  BY <1>1 DEF Elements
<1>4. \A x, y \in 1 .. Len(s) : s[x] = s[y] => x = y
  BY <1>1 DEF Distinct
<1>5. \A y \in Elements(s) : \E x \in 1 .. Len(s) : s[x] = y
  BY <1>1 DEF Elements
<1> QED
  BY <1>2, <1>3, <1>4, <1>5, SameCount DEF Counts

-----------------------------------------------------------------------------
(* Stocks *)

\* A function that is zero everywhere is a stock of nothing
LEMMA StockEmpty ==
    ASSUME NEW D, NEW f, \A d \in D : f[d] = 0
    PROVE  Stock(f, D) = {}
<1>1. 1 .. 0 = {}
  OBVIOUS
<1> QED
  BY <1>1 DEF Stock

\* One more at a point of the function is one more in the stock
LEMMA StockMore ==
    ASSUME NEW A, NEW f \in [A -> Nat], NEW D \in SUBSET A, NEW d \in A,
           IsFiniteSet(Stock(f, D))
    PROVE  LET g == [f EXCEPT ![d] = @ + 1]
           IN  Counts(Stock(g, D), Cardinality(Stock(f, D)) + (IF d \in D THEN 1 ELSE 0))
<1> DEFINE g == [f EXCEPT ![d] = f[d] + 1]
           n == f[d] + 1
<1>1. f[d] \in Nat /\ n \in Nat /\ 1 .. n = (1 .. f[d]) \cup {n} /\ n \notin 1 .. f[d]
  OBVIOUS
<1>2. g[d] = n /\ \A e \in A : e # d => g[e] = f[e]
  OBVIOUS
<1> HIDE DEF g, n
<1>3. CASE d \in D
  <2>1. Stock(g, D) = Stock(f, D) \cup {<<d, n>>}
    <3>1. ASSUME NEW e \in D PROVE {e} \X (1 .. g[e]) \subseteq Stock(f, D) \cup {<<d, n>>}
      <4>1. CASE e = d
        BY <1>1, <1>2, <4>1 DEF Stock
      <4>2. CASE e # d
        BY <1>2, <4>2 DEF Stock
      <4> QED
        BY <4>1, <4>2
    <3>2. ASSUME NEW e \in D PROVE {e} \X (1 .. f[e]) \subseteq Stock(g, D)
      <4>1. CASE e = d
        BY <1>1, <1>2, <4>1 DEF Stock
      <4>2. CASE e # d
        BY <1>2, <4>2 DEF Stock
      <4> QED
        BY <4>1, <4>2
    <3>3. <<d, n>> \in {d} \X (1 .. g[d])
      BY <1>1, <1>2
    <3> QED
      BY <1>3, <3>1, <3>2, <3>3 DEF Stock
  <2>2. <<d, n>> \notin Stock(f, D)
    BY <1>1 DEF Stock
  <2> QED
    BY <1>3, <2>1, <2>2, AddOne DEF g
<1>4. CASE d \notin D
  <2>1. Stock(g, D) = Stock(f, D)
    BY <1>2, <1>4 DEF Stock
  <2>2. Cardinality(Stock(f, D)) \in Nat
    BY FiniteCounts
  <2> QED
    BY <1>4, <2>1, <2>2 DEF Counts, g
<1> QED
  BY <1>3, <1>4

\* One less at a point of the function is one less in the stock
LEMMA StockLess ==
    ASSUME NEW A, NEW f \in [A -> Nat], NEW D \in SUBSET A, NEW d \in A, f[d] > 0,
           IsFiniteSet(Stock(f, D))
    PROVE  LET g == [f EXCEPT ![d] = @ - 1]
           IN  Counts(Stock(g, D), Cardinality(Stock(f, D)) - (IF d \in D THEN 1 ELSE 0))
<1> DEFINE g == [f EXCEPT ![d] = f[d] - 1]
           n == f[d]
<1>1. /\ n \in Nat /\ n - 1 \in Nat /\ n \in 1 .. n
      /\ 1 .. (n - 1) = (1 .. n) \ {n}
  OBVIOUS
<1>2. g[d] = n - 1 /\ f[d] = n /\ \A e \in A : e # d => g[e] = f[e]
  OBVIOUS
<1> HIDE DEF g, n
<1>3. CASE d \in D
  <2>1. Stock(g, D) = Stock(f, D) \ {<<d, n>>}
    <3>1. ASSUME NEW e \in D PROVE {e} \X (1 .. g[e]) \subseteq Stock(f, D) \ {<<d, n>>}
      <4>1. CASE e = d
        BY <1>1, <1>2, <4>1 DEF Stock
      <4>2. CASE e # d
        BY <1>2, <4>2 DEF Stock
      <4> QED
        BY <4>1, <4>2
    <3>2. ASSUME NEW e \in D PROVE {e} \X (1 .. f[e]) \subseteq Stock(g, D) \cup {<<d, n>>}
      <4>1. CASE e = d
        BY <1>1, <1>2, <4>1 DEF Stock
      <4>2. CASE e # d
        BY <1>2, <4>2 DEF Stock
      <4> QED
        BY <4>1, <4>2
    <3> QED
      BY <3>1, <3>2 DEF Stock
  <2>2. <<d, n>> \in Stock(f, D)
    BY <1>1, <1>2, <1>3 DEF Stock
  <2> QED
    BY <1>3, <2>1, <2>2, TakeOne DEF g
<1>4. CASE d \notin D
  <2>1. Stock(g, D) = Stock(f, D)
    BY <1>2, <1>4 DEF Stock
  <2>2. Cardinality(Stock(f, D)) \in Nat
    BY FiniteCounts
  <2> QED
    BY <1>4, <2>1, <2>2 DEF Counts, g
<1> QED
  BY <1>3, <1>4

-----------------------------------------------------------------------------
(* Piles *)

\* A pile one higher is one more in all
LEMMA PilesMore ==
    ASSUME NEW D, NEW V, NEW f \in [D -> SUBSET V], NEW d \in D, f[d] = {},
           NEW R \in SUBSET V, IsFiniteSet(R), IsFiniteSet(Piles(f, D))
    PROVE  LET g == [f EXCEPT ![d] = R]
           IN  Counts(Piles(g, D), Cardinality(Piles(f, D)) + Cardinality(R))
<1> DEFINE g == [f EXCEPT ![d] = R]
           N == {d} \X R
<1>1. g[d] = R /\ \A e \in D : e # d => g[e] = f[e]
  OBVIOUS
<1> HIDE DEF g
<1>2. Piles(g, D) = Piles(f, D) \cup N /\ Piles(f, D) \cap N = {}
  <2>1. ASSUME NEW e \in D PROVE {e} \X g[e] \subseteq Piles(f, D) \cup N
    BY <1>1 DEF Piles
  <2>2. ASSUME NEW e \in D PROVE {e} \X f[e] \subseteq Piles(g, D)
    <3>1. CASE e = d
      BY <3>1
    <3>2. CASE e # d
      BY <1>1, <3>2 DEF Piles
    <3> QED
      BY <3>1, <3>2
  <2>3. N \subseteq Piles(g, D)
    BY <1>1 DEF Piles
  <2>4. Piles(f, D) \cap N = {}
    BY DEF Piles
  <2> QED
    BY <2>1, <2>2, <2>3, <2>4 DEF Piles
<1>3. Counts(N, Cardinality(R))
  <2> DEFINE h == [x \in R |-> <<d, x>>]
  <2>1. h \in [R -> N]
    OBVIOUS
  <2>2. \A x, y \in R : h[x] = h[y] => x = y
    OBVIOUS
  <2>3. \A y \in N : \E x \in R : h[x] = y
    OBVIOUS
  <2> HIDE DEF h, N
  <2> QED
    BY <2>1, <2>2, <2>3, SameCount
<1> HIDE DEF N
<1> QED
  BY <1>2, <1>3, AddMany, ZenonT(40) DEF Counts, g

\* A pile one lower is one less in all
LEMMA PilesLess ==
    ASSUME NEW D, NEW V, NEW f \in [D -> SUBSET V], NEW d \in D, NEW x \in f[d],
           IsFiniteSet(Piles(f, D))
    PROVE  LET g == [f EXCEPT ![d] = @ \ {x}]
           IN  Counts(Piles(g, D), Cardinality(Piles(f, D)) - 1)
<1> DEFINE g == [f EXCEPT ![d] = f[d] \ {x}]
<1>1. g[d] = f[d] \ {x} /\ \A e \in D : e # d => g[e] = f[e]
  OBVIOUS
<1> HIDE DEF g
<1>2. Piles(g, D) = Piles(f, D) \ {<<d, x>>} /\ <<d, x>> \in Piles(f, D)
  <2>1. ASSUME NEW e \in D PROVE {e} \X g[e] \subseteq Piles(f, D) \ {<<d, x>>}
    <3>1. CASE e = d
      BY <1>1, <3>1 DEF Piles
    <3>2. CASE e # d
      BY <1>1, <3>2 DEF Piles
    <3> QED
      BY <3>1, <3>2
  <2>2. ASSUME NEW e \in D PROVE {e} \X f[e] \subseteq Piles(g, D) \cup {<<d, x>>}
    <3>1. CASE e = d
      BY <1>1, <3>1 DEF Piles
    <3>2. CASE e # d
      BY <1>1, <3>2 DEF Piles
    <3> QED
      BY <3>1, <3>2
  <2>3. <<d, x>> \in Piles(f, D)
    BY DEF Piles
  <2> QED
    BY <2>1, <2>2, <2>3 DEF Piles
<1> QED
  BY <1>2, TakeOne DEF g

-----------------------------------------------------------------------------
(* One element comes, goes or stays *)

\* S and T differ by x at most
LEMMA OneChange ==
    ASSUME NEW S, IsFiniteSet(S), NEW T, NEW x,
           \A y : y # x => (y \in S <=> y \in T)
    PROVE  Counts(T, Cardinality(S) + (IF x \in T THEN 1 ELSE 0)
                                    - (IF x \in S THEN 1 ELSE 0))
<1>1. Cardinality(S) \in Nat
  BY FiniteCounts
<1>2. CASE x \in T /\ x \notin S
  <2>1. T = S \cup {x}
    BY <1>2
  <2>2. Counts(T, Cardinality(S) + 1)
    BY <1>2, <2>1, AddOne
  <2>3. Cardinality(S) + (IF x \in T THEN 1 ELSE 0) - (IF x \in S THEN 1 ELSE 0)
          = Cardinality(S) + 1
    BY <1>1, <1>2
  <2> QED
    BY <2>2, <2>3
<1>3. CASE x \notin T /\ x \in S
  <2>1. T = S \ {x}
    BY <1>3
  <2>2. Counts(T, Cardinality(S) - 1)
    BY <1>3, <2>1, TakeOne
  <2>3. Cardinality(S) + (IF x \in T THEN 1 ELSE 0) - (IF x \in S THEN 1 ELSE 0)
          = Cardinality(S) - 1
    BY <1>1, <1>3
  <2> QED
    BY <2>2, <2>3
<1>4. CASE x \in T <=> x \in S
  <2>1. T = S
    BY <1>4
  <2>2. Cardinality(S) + (IF x \in T THEN 1 ELSE 0) - (IF x \in S THEN 1 ELSE 0)
          = Cardinality(S)
    BY <1>1, <1>4
  <2> QED
    BY <2>1, <2>2 DEF Counts
<1> QED
  BY <1>2, <1>3, <1>4

-----------------------------------------------------------------------------
(* Connections in the hands of tasks, and in a queue of tasks; none is None *)

\* The values of a function that are not none, and that none of those has two places
Images(f, none) == {f[a] : a \in DOMAIN f} \ {none}
OneEach(f, none) == \A a, b \in DOMAIN f : f[a] = f[b] /\ f[a] # none => a = b

\* The connection of each task of a queue
TaskConns(s) == [i \in DOMAIN s |-> s[i].conn]

\* A task is queued, with a connection nobody else has or with none
LEMMA ConnsAppend ==
    ASSUME NEW none, NEW T, NEW s \in Seq(T), NEW t \in T, OneEach(TaskConns(s), none),
           t.conn \notin Images(TaskConns(s), none)
    PROVE  /\ OneEach(TaskConns(Append(s, t)), none)
           /\ Images(TaskConns(Append(s, t)), none)
                = Images(TaskConns(s), none) \cup ({t.conn} \ {none})
<1> DEFINE n == Len(s) + 1
           a == Append(s, t)
<1>1. n \notin DOMAIN s
  OBVIOUS
<1>2. DOMAIN a = DOMAIN s \cup {n} /\ a[n] = t /\ \A i \in DOMAIN s : a[i] = s[i]
  OBVIOUS
<1> HIDE DEF n, a
<1>3. OneEach(TaskConns(a), none)
  BY <1>1, <1>2 DEF OneEach, TaskConns, Images
<1>4. Images(TaskConns(a), none) = Images(TaskConns(s), none) \cup ({t.conn} \ {none})
  BY <1>1, <1>2 DEF TaskConns, Images
<1> QED
  BY <1>3, <1>4 DEF a

\* The first task is taken
LEMMA ConnsTail ==
    ASSUME NEW none, NEW T, NEW s \in Seq(T), s # <<>>, OneEach(TaskConns(s), none)
    PROVE  /\ OneEach(TaskConns(Tail(s)), none)
           /\ Images(TaskConns(Tail(s)), none) = Images(TaskConns(s), none) \ {Head(s).conn}
           /\ Head(s).conn \in Images(TaskConns(s), none) \cup {none}
<1> DEFINE t == Tail(s)
           n == Len(s)
<1>1. /\ n \in Nat \ {0} /\ DOMAIN s = 1 .. n /\ DOMAIN t = 1 .. (n - 1)
      /\ \A j \in 1 .. (n - 1) : t[j] = s[j + 1]
      /\ Head(s) = s[1]
  OBVIOUS
<1> HIDE DEF t, n
<1>2. /\ 1 \in 1 .. n
      /\ \A j \in 1 .. (n - 1) : j + 1 \in 1 .. n /\ j + 1 # 1
      /\ \A i \in 1 .. n : i # 1 => i - 1 \in 1 .. (n - 1) /\ (i - 1) + 1 = i
  BY <1>1
<1> DEFINE f == TaskConns(s)
           g == TaskConns(t)
<1>3. /\ DOMAIN f = 1 .. n /\ DOMAIN g = 1 .. (n - 1) /\ f[1] = Head(s).conn
      /\ \A j \in 1 .. (n - 1) : g[j] = f[j + 1]
  BY <1>1, <1>2 DEF TaskConns
<1> HIDE DEF f, g
<1>4. OneEach(g, none)
  <2> SUFFICES ASSUME NEW i \in 1 .. (n - 1), NEW j \in 1 .. (n - 1),
                      g[i] = g[j], g[i] # none
               PROVE  i = j
    BY <1>3 DEF OneEach
  <2>1. f[i + 1] = f[j + 1] /\ f[i + 1] # none
    BY <1>3
  <2>2. i + 1 = j + 1
    BY <1>2, <1>3, <2>1 DEF OneEach, f
  <2> QED
    BY <1>1, <2>2
<1>5. Images(g, none) = Images(f, none) \ {Head(s).conn}
  <2>1. ASSUME NEW j \in 1 .. (n - 1), g[j] # none
        PROVE  g[j] \in Images(f, none) \ {Head(s).conn}
    <3>1. j + 1 \in 1 .. n /\ j + 1 # 1 /\ g[j] = f[j + 1] /\ 1 \in 1 .. n
      BY <1>2, <1>3
    <3> QED
      BY <1>3, <2>1, <3>1 DEF Images, OneEach, f
  <2>2. ASSUME NEW i \in 1 .. n, f[i] # none, f[i] # Head(s).conn
        PROVE  f[i] \in Images(g, none)
    <3>1. i # 1
      BY <1>3, <2>2
    <3>2. i - 1 \in 1 .. (n - 1) /\ (i - 1) + 1 = i
      BY <1>2, <3>1
    <3>3. g[i - 1] = f[i]
      BY <1>3, <3>2
    <3> QED
      BY <1>3, <2>2, <3>2, <3>3 DEF Images
  <2> QED
    BY <1>3, <2>1, <2>2 DEF Images
<1>6. Head(s).conn \in Images(f, none) \cup {none}
  BY <1>2, <1>3 DEF Images
<1> QED
  BY <1>4, <1>5, <1>6 DEF f, g, t

\* Tasks without a connection are queued
LEMMA ConnsConcat ==
    ASSUME NEW none, NEW T, NEW s \in Seq(T), NEW u \in Seq(T),
           \A i \in DOMAIN u : u[i].conn = none, OneEach(TaskConns(s), none)
    PROVE  /\ OneEach(TaskConns(s \o u), none)
           /\ Images(TaskConns(s \o u), none) = Images(TaskConns(s), none)
<1> DEFINE a == s \o u
           m == Len(s)
           n == Len(u)
<1>1. /\ m \in Nat /\ n \in Nat /\ DOMAIN s = 1 .. m /\ DOMAIN a = 1 .. (m + n)
      /\ \A i \in 1 .. m : a[i] = s[i]
      /\ \A i \in 1 .. (m + n) : i > m => a[i].conn = none
  OBVIOUS
<1> HIDE DEF a, m, n
<1>2. \A i \in 1 .. m : i \in 1 .. (m + n)
  BY <1>1
<1>3. \A i \in 1 .. (m + n) : i \in 1 .. m \/ i > m
  BY <1>1
<1>4. OneEach(TaskConns(a), none)
  BY <1>1, <1>2, <1>3 DEF OneEach, TaskConns
<1>5. Images(TaskConns(a), none) = Images(TaskConns(s), none)
  BY <1>1, <1>2, <1>3 DEF Images, TaskConns
<1> QED
  BY <1>4, <1>5 DEF a

\* Each value has one place
LEMMA ImagesCount ==
    ASSUME NEW none, NEW f, OneEach(f, none), IsFiniteSet(Images(f, none))
    PROVE  Counts({a \in DOMAIN f : f[a] # none}, Cardinality(Images(f, none)))
<1> DEFINE S == Images(f, none)
           T == {a \in DOMAIN f : f[a] # none}
           g == [v \in S |-> CHOOSE a \in DOMAIN f : f[a] = v]
<1>1. \A v \in S : g[v] \in DOMAIN f /\ f[g[v]] = v /\ v # none
  BY DEF Images
<1>2. g \in [S -> T]
  BY <1>1
<1>3. \A v, w \in S : g[v] = g[w] => v = w
  BY <1>1
<1>4. \A a \in T : \E v \in S : g[v] = a
  <2> SUFFICES ASSUME NEW a \in T PROVE g[f[a]] = a /\ f[a] \in S
    OBVIOUS
  <2>1. f[a] \in S
    BY DEF Images
  <2>2. g[f[a]] \in DOMAIN f /\ f[g[f[a]]] = f[a]
    BY <1>1, <2>1
  <2> QED
    BY <2>1, <2>2 DEF OneEach
<1> HIDE DEF S, T, g
<1>5. IsFiniteSet(S)
  BY DEF S
<1>6. Counts(T, Cardinality(S))
  BY <1>2, <1>3, <1>4, <1>5, SameCount
<1> QED
  BY <1>6 DEF S, T

\* Piles with nothing in common
LEMMA PilesCount ==
    ASSUME NEW D, NEW f, NEW V, IsFiniteSet(V),
           \A v : v \in V <=> \E d \in D : v \in f[d],
           \A d, e \in D : \A v : v \in f[d] /\ v \in f[e] => d = e
    PROVE  Counts(Piles(f, D), Cardinality(V))
<1> DEFINE c(v) == CHOOSE d \in D : v \in f[d]
           g == [v \in V |-> <<c(v), v>>]
           T == Piles(f, D)
<1>1. \A v \in V : c(v) \in D /\ v \in f[c(v)]
  OBVIOUS
<1>2. \A d, v : <<d, v>> \in T <=> d \in D /\ v \in f[d]
  BY DEF Piles
<1>3. \A p \in T : \E d \in D : \E v \in f[d] : p = <<d, v>>
  BY DEF Piles
<1> HIDE DEF c, T
<1>4. g \in [V -> T] /\ \A v \in V : g[v] = <<c(v), v>>
  BY <1>1, <1>2
<1>5. \A v, w \in V : g[v] = g[w] => v = w
  BY <1>4
<1>6. \A p \in T : \E v \in V : g[v] = p
  <2> SUFFICES ASSUME NEW p \in T PROVE \E v \in V : g[v] = p
    OBVIOUS
  <2>1. PICK d \in D : \E v \in f[d] : p = <<d, v>>
    BY <1>3
  <2>2. PICK v \in f[d] : p = <<d, v>>
    BY <2>1
  <2>3. v \in V /\ c(v) = d
    BY <1>1, <2>2
  <2> QED
    BY <1>4, <2>2, <2>3
<1> HIDE DEF g
<1>7. Counts(T, Cardinality(V))
  BY <1>4, <1>5, <1>6, SameCount
<1> QED
  BY <1>7 DEF T

\* The first element of the second sequence moved to the end of the first
LEMMA MoveHead ==
    ASSUME NEW S, NEW s \in Seq(S), NEW t \in Seq(S), t # <<>>
    PROVE  Append(s, Head(t)) \o Tail(t) = s \o t
<1> DEFINE a == Append(s, Head(t))
           u == a \o Tail(t)
           v == s \o t
<1>1. /\ Head(t) \in S /\ Tail(t) \in Seq(S)
      /\ Len(Tail(t)) = Len(t) - 1
      /\ Len(t) \in Nat \ {0} /\ Len(s) \in Nat
      /\ Head(t) = t[1]
      /\ \A i \in 1 .. Len(t) - 1 : Tail(t)[i] = t[i + 1]
  BY HeadTailProperties, EmptySeq, LenProperties
<1>2. /\ a \in Seq(S) /\ Len(a) = Len(s) + 1
      /\ \A i \in 1 .. Len(s) : a[i] = s[i]
      /\ a[Len(s) + 1] = Head(t)
  BY <1>1, AppendProperties
<1>3. /\ u \in Seq(S) /\ Len(u) = Len(a) + Len(Tail(t))
      /\ \A i \in 1 .. Len(a) + Len(Tail(t)) :
            u[i] = IF i <= Len(a) THEN a[i] ELSE Tail(t)[i - Len(a)]
  BY <1>1, <1>2, ConcatProperties
<1>4. /\ v \in Seq(S) /\ Len(v) = Len(s) + Len(t)
      /\ \A i \in 1 .. Len(s) + Len(t) :
            v[i] = IF i <= Len(s) THEN s[i] ELSE t[i - Len(s)]
  BY <1>1, ConcatProperties
<1>5. Len(u) = Len(v)
  BY <1>1, <1>2, <1>3, <1>4
<1>6. ASSUME NEW i \in 1 .. Len(u) PROVE u[i] = v[i]
  <2> HIDE DEF u, v, a
  <2>1. CASE i <= Len(s)
    <3>1. i \in 1 .. Len(s) /\ i <= Len(a)
      BY <2>1, <1>1, <1>2, <1>3
    <3>2. u[i] = a[i] /\ a[i] = s[i]
      BY <3>1, <1>2, <1>3
    <3>3. v[i] = s[i]
      BY <2>1, <1>1, <1>4, <1>5
    <3> QED
      BY <3>2, <3>3
  <2>2. CASE i = Len(s) + 1
    BY <2>2, <1>1, <1>2, <1>3, <1>4
  <2>3. CASE i > Len(s) + 1
    <3>1. i - Len(a) \in 1 .. Len(t) - 1 /\ (i - Len(a)) + 1 = i - Len(s)
      BY <2>3, <1>1, <1>2, <1>3
    <3> QED
      BY <2>3, <3>1, <1>1, <1>2, <1>3, <1>4
  <2> QED
    BY <2>1, <2>2, <2>3, <1>1, <1>3
<1> QED
  <2> HIDE DEF u, v
  <2>1. u = v
    BY <1>3, <1>4, <1>5, <1>6, SeqEqual
  <2> QED
    BY <2>1 DEF u, v

\* Removing the first element of the first of two sequences
LEMMA TailConcat ==
    ASSUME NEW S, NEW s \in Seq(S), NEW t \in Seq(S), s # <<>>
    PROVE  Tail(s \o t) = Tail(s) \o t /\ Head(s \o t) = Head(s)
<1> DEFINE c == s \o t
           u == Tail(c)
           v == Tail(s) \o t
<1>1. /\ Tail(s) \in Seq(S) /\ Len(Tail(s)) = Len(s) - 1
      /\ Len(s) \in Nat \ {0} /\ Len(t) \in Nat
      /\ Head(s) = s[1]
      /\ \A i \in 1 .. Len(s) - 1 : Tail(s)[i] = s[i + 1]
  BY HeadTailProperties, EmptySeq, LenProperties
<1>2. /\ c \in Seq(S) /\ Len(c) = Len(s) + Len(t)
      /\ \A i \in 1 .. Len(s) + Len(t) :
            c[i] = IF i <= Len(s) THEN s[i] ELSE t[i - Len(s)]
  BY ConcatProperties
<1>3. c # <<>>
  BY <1>1, <1>2, EmptySeq
<1>4. /\ u \in Seq(S) /\ Len(u) = Len(c) - 1
      /\ \A i \in 1 .. Len(c) - 1 : u[i] = c[i + 1]
  BY <1>2, <1>3, HeadTailProperties
<1>5. /\ v \in Seq(S) /\ Len(v) = Len(Tail(s)) + Len(t)
      /\ \A i \in 1 .. Len(Tail(s)) + Len(t) :
            v[i] = IF i <= Len(Tail(s)) THEN Tail(s)[i] ELSE t[i - Len(Tail(s))]
  BY <1>1, ConcatProperties
<1>6. ASSUME NEW i \in 1 .. Len(u) PROVE u[i] = v[i]
  <2> HIDE DEF u, v, c
  <2>1. u[i] = c[i + 1]
    BY <1>1, <1>2, <1>4
  <2>2. CASE i <= Len(s) - 1
    BY <2>1, <2>2, <1>1, <1>2, <1>4, <1>5
  <2>3. CASE i > Len(s) - 1
    <3>1. /\ (i + 1) - Len(s) = i - Len(Tail(s))
          /\ i \in 1 .. Len(Tail(s)) + Len(t)
          /\ i + 1 \in 1 .. Len(s) + Len(t)
          /\ ~(i <= Len(Tail(s))) /\ ~(i + 1 <= Len(s))
      BY <2>3, <1>1, <1>2, <1>4
    <3>2. v[i] = t[i - Len(Tail(s))]
      BY <3>1, <1>5
    <3>3. c[i + 1] = t[(i + 1) - Len(s)]
      BY <3>1, <1>2
    <3> QED
      BY <2>1, <3>1, <3>2, <3>3
  <2> QED
    BY <2>2, <2>3, <1>1, <1>2, <1>4
<1>7. u = v
  <2> HIDE DEF u, v, c
  <2> QED
    BY <1>1, <1>2, <1>4, <1>5, <1>6, SeqEqual
<1>8. Head(c) = Head(s)
  <2>1. Head(c) = c[1]
    BY <1>3
  <2> HIDE DEF c
  <2> QED
    BY <2>1, <1>1, <1>2
<1> QED
  BY <1>7, <1>8
=============================================================================

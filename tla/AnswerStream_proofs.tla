-------------------------- MODULE AnswerStream_proofs --------------------------
(***************************************************************************)
(* What holds of the stream of an answer, whatever the model writes and    *)
(* however it is cut into chunks.                                          *)
(*                                                                         *)
(* Cleaning is a chain of removals.  The first lemmas say of one removal   *)
(* (Without) which pieces it leaves, and that it removes the same from two *)
(* texts as far as they agree.  From them follows that thinking is removed *)
(* in whole, and, one removal after the other, that the cleaning of what   *)
(* has arrived goes on in the cleaning of the whole text (Follows), unless *)
(* TakesBack.                                                              *)
(***************************************************************************)
EXTENDS AnswerStream, FiniteSetTheorems, SequenceTheorems, TLAPS

-----------------------------------------------------------------------------
(* Counting. *)

\* Counting the elements of a finite set one-to-one leaves no number out.
LEMMA CountedThrough ==
    ASSUME NEW S, IsFiniteSet(S), NEW r \in [S -> Nat],
           \A i \in S : r[i] < Cardinality(S),
           \A i, j \in S : r[i] = r[j] => i = j
    PROVE  \A k \in 0..Cardinality(S) - 1 : \E i \in S : r[i] = k
<1> DEFINE n == Cardinality(S)
           T == 0..n - 1
<1>1. n \in Nat
  BY FS_CardinalityType
<1>2. IsFiniteSet(T) /\ Cardinality(T) = n
  BY <1>1, FS_Interval
<1>3. r \in Injection(S, T)
  BY <1>1 DEF Injection, IsInjective
<1>4. r \in Surjection(S, T)
  BY <1>2, <1>3, FS_Injection
<1> QED
  BY <1>4 DEF Surjection

\* How many of the numbers in S are smaller than i.
Under(S, i) == Cardinality({j \in S : i > j})

LEMMA UnderCounts ==
    ASSUME NEW S \in SUBSET Nat, IsFiniteSet(S)
    PROVE  /\ \A i \in S : Under(S, i) \in Nat /\ Under(S, i) < Cardinality(S)
           /\ \A i, j \in S : i < j => Under(S, i) < Under(S, j)
           /\ \A k \in 0..Cardinality(S) - 1 : \E i \in S : Under(S, i) = k
<1> DEFINE under(i) == {j \in S : i > j}
<1>1. \A i : IsFiniteSet(under(i)) /\ Cardinality(under(i)) \in Nat
  BY FS_Subset, FS_CardinalityType
<1>2. \A i, j \in S : i < j =>
          under(i) \in SUBSET under(j) /\ i \in under(j) /\ i \notin under(i)
  <2> SUFFICES ASSUME NEW i \in S, NEW j \in S, i < j
               PROVE  under(i) \in SUBSET under(j) /\ i \in under(j) /\ i \notin under(i)
    OBVIOUS
  <2>1. i \in Nat /\ j \in Nat
    OBVIOUS
  <2>2. i \in under(j) /\ i \notin under(i)
    BY <2>1
  <2>3. ASSUME NEW m \in under(i) PROVE m \in under(j)
    BY <2>1
  <2> QED
    BY <2>2, <2>3
<1>3. \A i, j \in S : i < j => Under(S, i) < Under(S, j)
  <2> SUFFICES ASSUME NEW i \in S, NEW j \in S, i < j
               PROVE  Under(S, i) < Under(S, j)
    OBVIOUS
  <2>1. /\ under(i) \in SUBSET under(j) /\ under(j) # under(i)
        /\ IsFiniteSet(under(i)) /\ IsFiniteSet(under(j))
    BY <1>1, <1>2
  <2>2. Cardinality(under(i)) <= Cardinality(under(j))
        /\ Cardinality(under(j)) # Cardinality(under(i))
    BY <2>1, FS_Subset
  <2> QED
    BY <1>1, <2>2 DEF Under
<1>4. \A i \in S : Under(S, i) \in Nat /\ Under(S, i) < Cardinality(S)
  <2> SUFFICES ASSUME NEW i \in S
               PROVE  Under(S, i) \in Nat /\ Under(S, i) < Cardinality(S)
    OBVIOUS
  <2>1. under(i) \in SUBSET S /\ under(i) # S
    OBVIOUS
  <2>2. /\ Cardinality(under(i)) <= Cardinality(S)
        /\ Cardinality(under(i)) # Cardinality(S)
        /\ Cardinality(S) \in Nat /\ Cardinality(under(i)) \in Nat
    BY <1>1, <2>1, FS_Subset, FS_CardinalityType
  <2> QED
    BY <2>2 DEF Under
<1>5. \A k \in 0..Cardinality(S) - 1 : \E i \in S : Under(S, i) = k
  <2> DEFINE r == [i \in S |-> Under(S, i)]
  <2>1. /\ r \in [S -> Nat]
        /\ \A i \in S : r[i] < Cardinality(S)
    BY <1>4
  <2>2. \A i, j \in S : r[i] = r[j] => i = j
    BY <1>3, <1>4
  <2>3. \A i \in S : r[i] = Under(S, i)
    OBVIOUS
  <2> HIDE DEF r
  <2>4. \A k \in 0..Cardinality(S) - 1 : \E i \in S : r[i] = k
    BY <2>1, <2>2, CountedThrough
  <2> QED
    BY <2>3, <2>4
<1> QED
  BY <1>3, <1>4, <1>5

LEMMA WiderSeq ==
    ASSUME NEW S, NEW T, S \subseteq T, NEW s \in Seq(S)
    PROVE  s \in Seq(T)
OBVIOUS

LEMMA FunctionIsSeq ==
    ASSUME NEW S, NEW n \in Nat, NEW s \in [1..n -> S]
    PROVE  s \in Seq(S) /\ Len(s) = n /\ DOMAIN s = 1..n
OBVIOUS


-----------------------------------------------------------------------------
(* Places in order, and what is left when some are taken out. *)

LEMMA InOrderFacts ==
    ASSUME NEW S \in SUBSET Nat, IsFiniteSet(S)
    PROVE  LET s == InOrder(S)
               n == Cardinality(S)
           IN  /\ n \in Nat /\ s \in [1..n -> S]
               /\ \A k \in 1..n : Under(S, s[k]) = k - 1
               /\ \A k, m \in 1..n : k < m <=> s[k] < s[m]
               /\ \A i \in S : \E k \in 1..n : s[k] = i
<1> DEFINE n == Cardinality(S)
           s == InOrder(S)
<1>1. n \in Nat
  BY FS_CardinalityType
<1>2. /\ \A i \in S : Under(S, i) \in Nat /\ Under(S, i) < n
      /\ \A i, j \in S : i < j => Under(S, i) < Under(S, j)
      /\ \A k \in 0..n - 1 : \E i \in S : Under(S, i) = k
  BY UnderCounts
<1>3. s = [k \in 1..n |-> CHOOSE i \in S : Under(S, i) = k - 1]
  BY DEF InOrder, Under
<1>4. \A k \in 1..n : \E i \in S : Under(S, i) = k - 1
  <2> SUFFICES ASSUME NEW k \in 1..n PROVE \E i \in S : Under(S, i) = k - 1
    OBVIOUS
  <2>1. k - 1 \in 0..n - 1
    BY <1>1
  <2> QED
    BY <1>2, <2>1
<1> HIDE DEF n, s
<1>5. \A k \in 1..n : s[k] \in S /\ Under(S, s[k]) = k - 1
  BY <1>3, <1>4
<1>6. s \in [1..n -> S]
  BY <1>3, <1>5
<1>7. ASSUME NEW k \in 1..n, NEW m \in 1..n PROVE k < m <=> s[k] < s[m]
  <2>1. /\ s[k] \in S /\ s[m] \in S /\ s[k] \in Nat /\ s[m] \in Nat
        /\ Under(S, s[k]) = k - 1 /\ Under(S, s[m]) = m - 1
    BY <1>5
  <2>2. s[k] < s[m] => k - 1 < m - 1
    BY <1>2, <2>1
  <2>3. s[m] < s[k] => m - 1 < k - 1
    BY <1>2, <2>1
  <2>4. s[m] = s[k] => m - 1 = k - 1
    BY <2>1
  <2> QED
    BY <1>1, <2>1, <2>2, <2>3, <2>4
<1>8. ASSUME NEW i \in S PROVE \E k \in 1..n : s[k] = i
  <2>1. Under(S, i) \in Nat /\ Under(S, i) < n
    BY <1>2
  <2>2. Under(S, i) + 1 \in 1..n
    BY <1>1, <2>1
  <2>3. s[Under(S, i) + 1] \in S /\ Under(S, s[Under(S, i) + 1]) = Under(S, i)
    BY <1>5, <2>1, <2>2
  <2>4. \A j \in S : Under(S, j) = Under(S, i) => j = i
    <3> SUFFICES ASSUME NEW j \in S, Under(S, j) = Under(S, i) PROVE j = i
      OBVIOUS
    <3>1. i \in Nat /\ j \in Nat
      OBVIOUS
    <3>2. ~(i < j) /\ ~(j < i)
      BY <1>2, <2>1
    <3> QED
      BY <3>1, <3>2
  <2> QED
    BY <2>2, <2>3, <2>4
<1> QED
  BY <1>1, <1>5, <1>6, <1>7, <1>8 DEF n, s

LEMMA FinitePlaces ==
    ASSUME NEW n \in Nat, NEW S \in SUBSET (1..n)
    PROVE  S \in SUBSET Nat /\ IsFiniteSet(S)
<1>1. IsFiniteSet(1..n)
  BY FS_Interval
<1>2. IsFiniteSet(S)
  BY <1>1, FS_Subset
<1>3. S \in SUBSET Nat
  OBVIOUS
<1> QED
  BY <1>2, <1>3

\* The least and the greatest of some places.
LEMMA LeastPlace ==
    ASSUME NEW n \in Nat, NEW S \in SUBSET (1..n), S # {}
    PROVE  \E i \in S : \A j \in S : i <= j
<1>1. S \in SUBSET Nat /\ IsFiniteSet(S)
  BY FinitePlaces
<1> DEFINE s == InOrder(S)
           c == Cardinality(S)
<1>2. /\ c \in Nat /\ s \in [1..c -> S]
      /\ \A k, m \in 1..c : k < m <=> s[k] < s[m]
      /\ \A i \in S : \E k \in 1..c : s[k] = i
  BY <1>1, InOrderFacts
<1> HIDE DEF s, c
<1>3. 1 \in 1..c
  <2>1. PICK i \in S : TRUE
    OBVIOUS
  <2>2. PICK k \in 1..c : s[k] = i
    BY <1>2
  <2> QED
    BY <1>2, <2>2
<1>4. s[1] \in S /\ s[1] \in Nat
  BY <1>1, <1>2, <1>3
<1>5. ASSUME NEW j \in S PROVE s[1] <= j
  <2>1. PICK k \in 1..c : s[k] = j
    BY <1>2
  <2>2. ~(k < 1)
    BY <1>2
  <2>3. ~(s[k] < s[1])
    BY <1>2, <1>3, <2>2
  <2>4. s[k] \in Nat
    BY <1>1, <2>1
  <2> QED
    BY <1>4, <2>1, <2>3, <2>4
<1> QED
  BY <1>4, <1>5

LEMMA LastOfFacts ==
    ASSUME NEW n \in Nat, NEW S \in SUBSET (1..n)
    PROVE  /\ LastOf(S) \in S \cup {0} /\ LastOf(S) \in 0..n
           /\ \A j \in S : j <= LastOf(S)
           /\ LastOf(S) = 0 <=> S = {}
<1>1. S \in SUBSET Nat /\ IsFiniteSet(S)
  BY FinitePlaces
<1> DEFINE s == InOrder(S)
           c == Cardinality(S)
<1>2. /\ c \in Nat /\ s \in [1..c -> S]
      /\ \A k, m \in 1..c : k < m <=> s[k] < s[m]
      /\ \A i \in S : \E k \in 1..c : s[k] = i
  BY <1>1, InOrderFacts
<1> HIDE DEF s, c
<1>3. \E i \in S \cup {0} : \A j \in S : j <= i
  <2>1. CASE S = {}
    BY <2>1
  <2>2. CASE S # {}
    <3>1. c \in 1..c
      <4>1. PICK i \in S : TRUE
        BY <2>2
      <4>2. PICK k \in 1..c : s[k] = i
        BY <1>2
      <4> QED
        BY <1>2, <4>2
    <3>2. ASSUME NEW j \in S PROVE j <= s[c]
      <4>1. PICK k \in 1..c : s[k] = j
        BY <1>2
      <4>2. ~(s[c] < s[k])
        BY <1>2, <3>1
      <4>3. s[c] \in Nat /\ s[k] \in Nat
        BY <1>1, <1>2, <3>1
      <4> QED
        BY <4>1, <4>2, <4>3
    <3> QED
      BY <1>2, <3>1, <3>2
  <2> QED
    BY <2>1, <2>2
<1>4. LastOf(S) \in S \cup {0} /\ \A j \in S : j <= LastOf(S)
  BY <1>3 DEF LastOf
<1>5. LastOf(S) = 0 <=> S = {}
  <2>1. S = {} => LastOf(S) = 0
    BY <1>4
  <2>2. \A j \in S : j \in 1..n
    OBVIOUS
  <2>3. LastOf(S) = 0 => S = {}
    BY <1>4, <2>2
  <2> QED
    BY <2>1, <2>3
<1>6. LastOf(S) \in 0..n
  <2>1. 0 \in 0..n /\ \A j \in S : j \in 0..n
    OBVIOUS
  <2> QED
    BY <1>4, <2>1
<1> QED
  BY <1>4, <1>5, <1>6

\* The places that are left of 1..n without S, in order.
Left(n, S) == InOrder((1..n) \ S)

\* The pieces of w are those of t at the places f, which are all but those in S.
Picked(X, t, S, w, f) ==
    /\ w \in Seq(X) /\ Len(w) \in Nat /\ Len(t) \in Nat
    /\ Len(w) = Cardinality((1..Len(t)) \ S)
    /\ f \in [1..Len(w) -> (1..Len(t)) \ S]
    /\ \A k \in 1..Len(w) : f[k] \in 1..Len(t) /\ f[k] \notin S /\ w[k] = t[f[k]]
    /\ \A k, m \in 1..Len(w) : k < m <=> f[k] < f[m]
    /\ \A i \in (1..Len(t)) \ S : \E k \in 1..Len(w) : f[k] = i

LEMMA WithoutFacts ==
    ASSUME NEW X, NEW t \in Seq(X), NEW S
    PROVE  Picked(X, t, S, Without(t, S), Left(Len(t), S))
<1> DEFINE D == (1..Len(t)) \ S
           f == Left(Len(t), S)
           n == Cardinality(D)
           w == Without(t, S)
<1>1. Len(t) \in Nat /\ DOMAIN t = 1..Len(t) /\ \A i \in 1..Len(t) : t[i] \in X
  OBVIOUS
<1>2. D \in SUBSET Nat /\ IsFiniteSet(D)
  BY <1>1, FinitePlaces
<1>3. f = InOrder(D)
  BY DEF Left
<1>4. /\ n \in Nat /\ f \in [1..n -> D]
      /\ \A k, m \in 1..n : k < m <=> f[k] < f[m]
      /\ \A i \in D : \E k \in 1..n : f[k] = i
  BY <1>2, <1>3, InOrderFacts
<1>5. w = [k \in 1..n |-> t[f[k]]]
  <2>1. w = [k \in DOMAIN f |-> t[f[k]]]
    BY <1>1 DEF Without, Left
  <2>2. DOMAIN f = 1..n
    BY <1>4
  <2> QED
    BY <2>1, <2>2
<1> HIDE DEF D, f, n, w
<1>6. \A k \in 1..n : f[k] \in 1..Len(t) /\ f[k] \notin S
  BY <1>4 DEF D
<1>7. w \in [1..n -> X] /\ \A k \in 1..n : w[k] = t[f[k]]
  BY <1>1, <1>5, <1>6
<1>8. w \in Seq(X) /\ Len(w) = n /\ DOMAIN w = 1..n
  BY <1>4, <1>7, FunctionIsSeq
<1>9. Picked(X, t, S, w, f)
  BY <1>1, <1>4, <1>6, <1>7, <1>8 DEF D, n, Picked
<1> QED
  BY <1>9 DEF f, w

\* A sequence that t continues.
Begins(s, t) == Len(s) <= Len(t) /\ \A k \in 1..Len(s) : s[k] = t[k]

LEMMA BeginsIsPrefix ==
    ASSUME NEW X, NEW s \in Seq(X), NEW t \in Seq(X)
    PROVE  IsPrefix(s, t) <=> Begins(s, t)
<1> DEFINE n == Len(s)
           m == Len(t)
<1>1. /\ n \in Nat /\ m \in Nat /\ s = [k \in 1..n |-> s[k]]
      /\ SubSeq(s, 1, n) = s
  BY SubSeqFull
<1>2. n <= m => /\ SubSeq(t, 1, n) \in Seq(X)
                /\ Len(SubSeq(t, 1, n)) = n
                /\ \A k \in 1..n : SubSeq(t, 1, n)[k] = t[k]
  <2> SUFFICES ASSUME n <= m
               PROVE  /\ SubSeq(t, 1, n) \in Seq(X)
                      /\ Len(SubSeq(t, 1, n)) = n
                      /\ \A k \in 1..n : SubSeq(t, 1, n)[k] = t[k]
    OBVIOUS
  <2>1. \A k \in 1..n : t[k] \in X
    BY <1>1
  <2> QED
    BY <1>1, <2>1, SubSeqProperties
<1>3. ASSUME n <= m PROVE s = SubSeq(t, 1, n) <=> \A k \in 1..n : s[k] = t[k]
  <2> DEFINE p == SubSeq(t, 1, n)
  <2>1. p \in Seq(X) /\ Len(p) = n /\ \A k \in 1..n : p[k] = t[k]
    BY <1>2, <1>3
  <2> HIDE DEF p
  <2>2. (\A k \in 1..n : s[k] = p[k]) => s = p
    BY <1>1, <2>1
  <2> QED
    BY <1>1, <2>1, <2>2 DEF p
<1> QED
  BY <1>1, <1>3 DEF IsPrefix, Begins

LEMMA CutFacts ==
    ASSUME NEW X, NEW t \in Seq(X), NEW m \in Nat \ {0}, NEW n \in 0..Len(t)
    PROVE  LET s == SubSeq(t, m, n)
           IN  /\ s \in Seq(X)
               /\ Len(s) = IF m <= n THEN n - m + 1 ELSE 0
               /\ \A k \in 1..Len(s) : s[k] = t[m + k - 1]
<1>1. Len(t) \in Nat /\ m \in Int /\ n \in Int /\ \A i \in m..n : t[i] \in X
  OBVIOUS
<1>2. /\ SubSeq(t, m, n) \in Seq(X)
      /\ Len(SubSeq(t, m, n)) = IF m <= n THEN n - m + 1 ELSE 0
      /\ \A k \in 1..n - m + 1 : SubSeq(t, m, n)[k] = t[m + k - 1]
  BY <1>1, SubSeqProperties
<1>3. \A k \in 1..Len(SubSeq(t, m, n)) : k \in 1..n - m + 1
  BY <1>1, <1>2
<1> QED
  BY <1>2, <1>3

LEMMA StartFacts ==
    ASSUME NEW X, NEW t \in Seq(X), NEW n \in 0..Len(t)
    PROVE  LET s == SubSeq(t, 1, n)
           IN  /\ s \in Seq(X) /\ Len(s) = n
               /\ \A k \in 1..n : s[k] = t[k]
               /\ Begins(s, t)
<1>1. /\ SubSeq(t, 1, n) \in Seq(X) /\ Len(SubSeq(t, 1, n)) = IF 1 <= n THEN n - 1 + 1 ELSE 0
      /\ \A k \in 1..Len(SubSeq(t, 1, n)) : SubSeq(t, 1, n)[k] = t[1 + k - 1]
  BY CutFacts
<1>2. n \in Nat /\ Len(SubSeq(t, 1, n)) = n /\ n <= Len(t) /\ Len(t) \in Nat
  BY <1>1
<1>3. \A k \in 1..n : t[1 + k - 1] = t[k]
  BY <1>2
<1> QED
  BY <1>1, <1>2, <1>3 DEF Begins

LEMMA SameSeq ==
    ASSUME NEW X, NEW s \in Seq(X), NEW t \in Seq(X), Len(s) = Len(t),
           \A k \in 1..Len(s) : s[k] = t[k]
    PROVE  s = t
OBVIOUS

LEMMA BeginsChain ==
    ASSUME NEW X, NEW s \in Seq(X), NEW t \in Seq(X), NEW u \in Seq(X),
           Begins(s, t), Begins(t, u)
    PROVE  Begins(s, u)
BY DEF Begins

LEMMA SameFirstPlaces ==
    ASSUME NEW A \in SUBSET Nat, NEW B \in SUBSET Nat, IsFiniteSet(A), IsFiniteSet(B),
           A \subseteq B, \A i \in B, j \in A : i <= j => i \in A
    PROVE  /\ Cardinality(A) \in Nat /\ Cardinality(B) \in Nat
           /\ Cardinality(A) <= Cardinality(B)
           /\ \A k \in 1..Cardinality(A) : InOrder(A)[k] = InOrder(B)[k]
<1> DEFINE a == InOrder(A)
           b == InOrder(B)
           n == Cardinality(A)
           m == Cardinality(B)
<1>1. n \in Nat /\ m \in Nat /\ n <= m
  BY FS_Subset, FS_CardinalityType
<1>2. a \in [1..n -> A] /\ \A k \in 1..n : Under(A, a[k]) = k - 1
  BY InOrderFacts
<1>3. b \in [1..m -> B] /\ \A k \in 1..m : Under(B, b[k]) = k - 1
  BY InOrderFacts
<1>4. \A i \in A : Under(A, i) = Under(B, i)
  <2> SUFFICES ASSUME NEW i \in A PROVE Under(A, i) = Under(B, i)
    OBVIOUS
  <2>1. ASSUME NEW j \in B, i > j PROVE j \in A
    <3>1. j <= i
      BY <2>1
    <3> QED
      BY <3>1
  <2>2. {j \in A : i > j} = {j \in B : i > j}
    BY <2>1
  <2> QED
    BY <2>2 DEF Under
<1>5. /\ \A i, j \in B : i < j => Under(B, i) < Under(B, j)
      /\ \A i \in B : Under(B, i) \in Nat
  BY UnderCounts
<1> HIDE DEF a, b, n, m
<1>6. ASSUME NEW k \in 1..n PROVE a[k] = b[k]
  <2>1. k \in 1..m
    BY <1>1
  <2>2. /\ a[k] \in A /\ b[k] \in B /\ a[k] \in B
        /\ Under(B, a[k]) = k - 1 /\ Under(B, b[k]) = k - 1
    BY <1>2, <1>3, <1>4, <2>1
  <2>3. a[k] \in Nat /\ b[k] \in Nat
    BY <2>2
  <2>4. k - 1 \in Int /\ ~(k - 1 < k - 1)
    BY <1>1
  <2>5. ~(a[k] < b[k]) /\ ~(b[k] < a[k])
    BY <1>5, <2>2, <2>4
  <2> QED
    BY <2>3, <2>5
<1> QED
  BY <1>1, <1>6 DEF a, b, n, m

\* If t continues r and the same places are taken out of both, as far as r goes, then
\* what is left of t continues what is left of r.
LEMMA WithoutBegins ==
    ASSUME NEW X, NEW r \in Seq(X), NEW t \in Seq(X), Begins(r, t), NEW P, NEW Q,
           \A i \in 1..Len(r) : i \in P <=> i \in Q
    PROVE  Begins(Without(r, P), Without(t, Q))
<1> DEFINE A == (1..Len(r)) \ P
           B == (1..Len(t)) \ Q
           a == Left(Len(r), P)
           b == Left(Len(t), Q)
           v == Without(r, P)
           w == Without(t, Q)
<1>1. /\ Len(r) \in Nat /\ Len(t) \in Nat /\ Len(r) <= Len(t)
      /\ \A k \in 1..Len(r) : r[k] = t[k]
  BY DEF Begins
<1>2. A \in SUBSET Nat /\ IsFiniteSet(A) /\ B \in SUBSET Nat /\ IsFiniteSet(B)
  BY <1>1, FinitePlaces
<1>3. A \subseteq B /\ \A i \in B, j \in A : i <= j => i \in A
  BY <1>1
<1>4. /\ Cardinality(A) \in Nat /\ Cardinality(B) \in Nat
      /\ Cardinality(A) <= Cardinality(B)
      /\ \A k \in 1..Cardinality(A) : InOrder(A)[k] = InOrder(B)[k]
  BY <1>2, <1>3, SameFirstPlaces
<1>5. a = InOrder(A) /\ b = InOrder(B)
  BY DEF Left
<1>6. Picked(X, r, P, v, a) /\ Picked(X, t, Q, w, b)
  BY WithoutFacts
<1> HIDE DEF a, b, v, w
<1>7. /\ Len(v) = Cardinality(A) /\ Len(w) = Cardinality(B)
      /\ \A k \in 1..Len(v) : a[k] \in 1..Len(r) /\ v[k] = r[a[k]]
      /\ \A k \in 1..Len(w) : w[k] = t[b[k]]
  BY <1>6 DEF Picked
<1> HIDE DEF A, B
<1>9. \A k \in 1..Len(v) : v[k] = w[k]
  <2> SUFFICES ASSUME NEW k \in 1..Len(v) PROVE v[k] = w[k]
    OBVIOUS
  <2>1. k \in 1..Cardinality(A) /\ k \in 1..Len(w) /\ a[k] = b[k]
    BY <1>4, <1>5, <1>7
  <2> QED
    BY <1>1, <1>7, <2>1
<1> QED
  BY <1>4, <1>7, <1>9 DEF Begins, v, w

\* Nothing changes if no place of t is taken out.
LEMMA WithoutNothing ==
    ASSUME NEW X, NEW t \in Seq(X), NEW S, \A i \in 1..Len(t) : i \notin S
    PROVE  Without(t, S) = t
<1> DEFINE f == Left(Len(t), S)
           w == Without(t, S)
           n == Len(t)
<1>1. n \in Nat /\ (1..n) \ S = 1..n /\ Cardinality(1..n) = n
  BY FS_Interval
<1>2. /\ w \in Seq(X) /\ Len(w) = n /\ f = InOrder(1..n)
      /\ \A k \in 1..n : w[k] = t[f[k]]
  <2>1. Picked(X, t, S, w, f)
    BY WithoutFacts
  <2>2. f = InOrder((1..n) \ S)
    BY DEF Left
  <2> QED
    BY <1>1, <2>1, <2>2 DEF Picked
<1>3. /\ f \in [1..n -> 1..n]
      /\ \A k \in 1..n : Under(1..n, f[k]) = k - 1
  <2>1. 1..n \in SUBSET Nat /\ IsFiniteSet(1..n)
    BY <1>1, FinitePlaces
  <2> QED
    BY <1>1, <1>2, <2>1, InOrderFacts
<1>4. \A i \in 1..n : Under(1..n, i) = i - 1
  <2> SUFFICES ASSUME NEW i \in 1..n PROVE Under(1..n, i) = i - 1
    OBVIOUS
  <2>1. {j \in 1..n : i > j} = 1..i - 1
    BY <1>1
  <2>2. Cardinality(1..i - 1) = i - 1
    BY <1>1, FS_Interval
  <2> QED
    BY <2>1, <2>2 DEF Under
<1> HIDE DEF f, w, n
<1>5. \A k \in 1..n : f[k] = k
  BY <1>1, <1>3, <1>4
<1>6. \A k \in 1..n : w[k] = t[k]
  BY <1>2, <1>5
<1> QED
  BY <1>2, <1>6, SameSeq DEF n, w

-----------------------------------------------------------------------------
(* Pieces, pairs of pieces, and spans. *)

LEMMA PlacesOf ==
    ASSUME NEW X, NEW t \in Seq(X), NEW x
    PROVE  /\ At(t, x) = {i \in 1..Len(t) : t[i] = x}
           /\ At(t, x) \in SUBSET (1..Len(t))
<1>1. DOMAIN t = 1..Len(t)
  OBVIOUS
<1> QED
  BY <1>1 DEF At

LEMMA PairsOf ==
    ASSUME NEW X, NEW t \in Seq(X), NEW x, NEW y
    PROVE  /\ Pairs(t, x, y) = {i \in 1..Len(t) :
                 i + 1 \in 1..Len(t) /\ t[i] = x /\ t[i + 1] = y}
           /\ Pairs(t, x, y) \in SUBSET (1..Len(t))
BY PlacesOf DEF Pairs

LEMMA SpansOf ==
    ASSUME NEW P \in SUBSET Nat, NEW Q \in SUBSET Nat, NEW i
    PROVE  i \in Spans(P, Q) <=>
             \E p \in P, q \in Q :
                /\ p < q /\ \A r \in Q : ~(p < r /\ r < q)
                /\ i \in p..q
<1> DEFINE good(p, q) == p < q /\ \A r \in Q : ~(p < r /\ r < q)
           spans == {s \in P \X Q : s[1] < s[2] /\ \A r \in Q : ~(s[1] < r /\ r < s[2])}
<1>1. i \in Spans(P, Q) <=> \E s \in spans : i \in s[1]..s[2]
  BY DEF Spans
<1>2. ASSUME NEW s \in spans, i \in s[1]..s[2]
      PROVE  \E p \in P, q \in Q : good(p, q) /\ i \in p..q
  <2>1. s[1] \in P /\ s[2] \in Q /\ good(s[1], s[2])
    OBVIOUS
  <2> QED
    BY <1>2, <2>1
<1>3. ASSUME NEW p \in P, NEW q \in Q, good(p, q), i \in p..q
      PROVE  \E s \in spans : i \in s[1]..s[2]
  <2>1. <<p, q>> \in spans
    BY <1>3
  <2> QED
    BY <1>3, <2>1
<1> QED
  BY <1>1, <1>2, <1>3

\* Taking places out of t keeps its pairs, if no place is of a pair or follows its first.
Spared(t, S, x, y) ==
    \A i \in S : i \in 1..Len(t) => t[i] # x /\ t[i] # y /\ (i > 1 => t[i - 1] # x)

LEMMA NextLeft ==
    ASSUME NEW X, NEW t \in Seq(X), NEW S, NEW k \in 1..Len(Without(t, S)),
           Left(Len(t), S)[k] + 1 \in (1..Len(t)) \ S
    PROVE  /\ k + 1 \in 1..Len(Without(t, S))
           /\ Left(Len(t), S)[k + 1] = Left(Len(t), S)[k] + 1
<1> DEFINE w == Without(t, S)
           f == Left(Len(t), S)
<1>1. Picked(X, t, S, w, f) /\ k \in 1..Len(w) /\ f[k] + 1 \in (1..Len(t)) \ S
  BY WithoutFacts
<1> HIDE DEF w, f
<1>2. /\ Len(w) \in Nat /\ Len(t) \in Nat
      /\ \A a, b \in 1..Len(w) : a < b <=> f[a] < f[b]
      /\ \A a \in 1..Len(w) : f[a] \in 1..Len(t)
  BY <1>1 DEF Picked
<1>3. PICK m \in 1..Len(w) : f[m] = f[k] + 1
  BY <1>1 DEF Picked
<1>4. k \in 1..Len(w) /\ f[k] \in Nat
  BY <1>1, <1>2
<1>5. k < m
  BY <1>2, <1>3, <1>4
<1>6. k + 1 \in 1..Len(w)
  BY <1>2, <1>4, <1>5
<1>7. f[k] < f[k + 1] /\ f[k + 1] \in Nat
  BY <1>2, <1>4, <1>6
<1>8. ~(m > k + 1 /\ f[k + 1] >= f[m])
  BY <1>2, <1>6, <1>7
<1>9. m = k + 1
  BY <1>2, <1>3, <1>4, <1>5, <1>6, <1>7, <1>8
<1> QED
  BY <1>3, <1>6, <1>9 DEF w, f

LEMMA PairsKept ==
    ASSUME NEW X, NEW t \in Seq(X), NEW S, NEW x, NEW y, Spared(t, S, x, y),
           NEW k \in 1..Len(Without(t, S))
    PROVE  k \in Pairs(Without(t, S), x, y) <=> Left(Len(t), S)[k] \in Pairs(t, x, y)
<1> DEFINE w == Without(t, S)
           f == Left(Len(t), S)
<1>1. Picked(X, t, S, w, f) /\ k \in 1..Len(w)
  BY WithoutFacts
<1>2. f[k] + 1 \in (1..Len(t)) \ S => k + 1 \in 1..Len(w) /\ f[k + 1] = f[k] + 1
  BY NextLeft
<1> HIDE DEF w, f
<1>3. /\ w \in Seq(X) /\ Len(w) \in Nat /\ Len(t) \in Nat
      /\ \A a, b \in 1..Len(w) : a < b <=> f[a] < f[b]
      /\ \A a \in 1..Len(w) : f[a] \in 1..Len(t) /\ w[a] = t[f[a]] /\ f[a] \notin S
  BY <1>1 DEF Picked
<1>4. /\ k \in Pairs(w, x, y) <=> k + 1 \in 1..Len(w) /\ w[k] = x /\ w[k + 1] = y
      /\ f[k] \in Pairs(t, x, y) <=> f[k] + 1 \in 1..Len(t) /\ t[f[k]] = x /\ t[f[k] + 1] = y
  <2>1. f[k] \in 1..Len(t) /\ w \in Seq(X)
    BY <1>1, <1>3
  <2>2. k \in Pairs(w, x, y) <=>
            k \in 1..Len(w) /\ k + 1 \in 1..Len(w) /\ w[k] = x /\ w[k + 1] = y
    BY <2>1, PairsOf
  <2>3. f[k] \in Pairs(t, x, y) <=>
            f[k] \in 1..Len(t) /\ f[k] + 1 \in 1..Len(t) /\ t[f[k]] = x /\ t[f[k] + 1] = y
    BY PairsOf
  <2> QED
    BY <1>1, <2>1, <2>2, <2>3
<1>5. ASSUME k + 1 \in 1..Len(w), w[k] = x, w[k + 1] = y
      PROVE  f[k] + 1 \in 1..Len(t) /\ t[f[k]] = x /\ t[f[k] + 1] = y
  <2>1. f[k] < f[k + 1] /\ f[k] \in 1..Len(t) /\ f[k + 1] \in 1..Len(t) /\ t[f[k]] = x
    BY <1>1, <1>3, <1>5
  <2>2. f[k] + 1 \in 1..Len(t) /\ f[k] + 1 > 1 /\ (f[k] + 1) - 1 = f[k]
    BY <2>1
  <2>3. f[k] + 1 \notin S
    BY <2>1, <2>2 DEF Spared
  <2>4. f[k + 1] = f[k] + 1
    BY <1>2, <2>2, <2>3
  <2> QED
    BY <1>3, <1>5, <2>1, <2>2, <2>4
<1>6. ASSUME f[k] + 1 \in 1..Len(t), t[f[k]] = x, t[f[k] + 1] = y
      PROVE  k + 1 \in 1..Len(w) /\ w[k] = x /\ w[k + 1] = y
  <2>1. f[k] + 1 \notin S
    BY <1>6 DEF Spared
  <2>2. k + 1 \in 1..Len(w) /\ f[k + 1] = f[k] + 1
    BY <1>2, <1>6, <2>1
  <2> QED
    BY <1>1, <1>3, <1>6, <2>2
<1> QED
  BY <1>4, <1>5, <1>6 DEF w, f

LEMMA PairsFound ==
    ASSUME NEW X, NEW t \in Seq(X), NEW S, NEW x, NEW y, Spared(t, S, x, y),
           NEW i \in Pairs(t, x, y)
    PROVE  \E k \in 1..Len(Without(t, S)) :
              Left(Len(t), S)[k] = i /\ k \in Pairs(Without(t, S), x, y)
<1>1. i \in 1..Len(t) /\ t[i] = x
  BY PairsOf
<1>2. i \in (1..Len(t)) \ S
  BY <1>1 DEF Spared
<1>3. \E k \in 1..Len(Without(t, S)) : Left(Len(t), S)[k] = i
  <2> DEFINE w == Without(t, S)
             f == Left(Len(t), S)
  <2>1. Picked(X, t, S, w, f)
    BY WithoutFacts
  <2> HIDE DEF w, f
  <2>2. \E k \in 1..Len(w) : f[k] = i
    BY <1>2, <2>1 DEF Picked
  <2> QED
    BY <2>2 DEF w, f
<1> QED
  BY <1>3, PairsKept

LEMMA LeaksOf ==
    ASSUME NEW X, NEW t \in Seq(X)
    PROVE  /\ Leaks(t) \in SUBSET (1..Len(t))
           /\ \A i : i \in Leaks(t) <=>
                 \E p \in Pairs(t, "(", "context:"), q \in At(t, ")") :
                    /\ p < q /\ \A r \in At(t, ")") : ~(p < r /\ r < q)
                    /\ i \in p..q
<1>1. /\ Pairs(t, "(", "context:") \in SUBSET (1..Len(t))
      /\ At(t, ")") \in SUBSET (1..Len(t))
      /\ Len(t) \in Nat
  BY PlacesOf, PairsOf
<1>2. Pairs(t, "(", "context:") \in SUBSET Nat /\ At(t, ")") \in SUBSET Nat
  BY <1>1
<1>3. \A i : i \in Leaks(t) <=>
                 \E p \in Pairs(t, "(", "context:"), q \in At(t, ")") :
                    /\ p < q /\ \A r \in At(t, ")") : ~(p < r /\ r < q)
                    /\ i \in p..q
  BY <1>2, SpansOf DEF Leaks
<1>4. ASSUME NEW i \in Leaks(t) PROVE i \in 1..Len(t)
  <2>1. PICK p \in Pairs(t, "(", "context:"), q \in At(t, ")") : i \in p..q
    BY <1>3
  <2>2. p \in 1..Len(t) /\ q \in 1..Len(t)
    BY <1>1
  <2> QED
    BY <1>1, <2>1, <2>2
<1> QED
  BY <1>3, <1>4

LEMMA TagsSpared ==
    ASSUME NEW X, NEW t \in Seq(X), ~LeakAtTag(t)
    PROVE  /\ Spared(t, Leaks(t), "<", "think>")
           /\ Spared(t, Leaks(t), "<", "/think>")
BY DEF Spared, LeakAtTag

-----------------------------------------------------------------------------
(* What the cleaning does to a sequence. *)

LEMMA WithoutType ==
    ASSUME NEW X, NEW t \in Seq(X), NEW S
    PROVE  /\ Without(t, S) \in Seq(X)
           /\ Len(Without(t, S)) \in Nat /\ Len(Without(t, S)) <= Len(t)
<1> DEFINE w == Without(t, S)
           f == Left(Len(t), S)
<1>1. Picked(X, t, S, w, f)
  BY WithoutFacts
<1>2. /\ IsFiniteSet(1..Len(t)) /\ Cardinality(1..Len(t)) = Len(t)
  <2>1. Len(t) \in Nat
    OBVIOUS
  <2> QED
    BY <2>1, FS_Interval
<1>3. Cardinality((1..Len(t)) \ S) <= Len(t)
  <2>1. (1..Len(t)) \ S \in SUBSET (1..Len(t))
    OBVIOUS
  <2> QED
    BY <1>2, <2>1, FS_Subset
<1> HIDE DEF w, f
<1>4. w \in Seq(X) /\ Len(w) \in Nat /\ Len(w) <= Len(t)
  BY <1>1, <1>3 DEF Picked
<1> QED
  BY <1>4 DEF w

LEMMA LastAt ==
    ASSUME NEW X, NEW t \in Seq(X), NEW x
    PROVE  /\ LastOf(At(t, x)) \in 0..Len(t)
           /\ LastOf(At(t, x)) \in At(t, x) \cup {0}
           /\ \A i \in At(t, x) : i <= LastOf(At(t, x))
           /\ LastOf(At(t, x)) = 0 <=> At(t, x) = {}
<1>1. At(t, x) \in SUBSET (1..Len(t)) /\ Len(t) \in Nat
  BY PlacesOf
<1> QED
  BY <1>1, LastOfFacts

\* _trim_incomplete_tail: up to the parenthesis that is not closed, and of that up to
\* the last stop.
TrimmedTo(t) ==
    LET open == LastOf(At(t, "("))
        end  == IF open > LastOf(At(t, ")")) THEN open - 1 ELSE Len(t)
        stop == LastOf({i \in At(t, ".") : i <= end})
    IN  IF At(t, "|") # {} THEN Len(t) ELSE IF stop = 0 THEN end ELSE stop

LEMMA AtStart ==
    ASSUME NEW X, NEW t \in Seq(X), NEW n \in 0..Len(t), NEW x
    PROVE  At(SubSeq(t, 1, n), x) = {i \in At(t, x) : i <= n}
<1> DEFINE s == SubSeq(t, 1, n)
<1>1. s \in Seq(X) /\ Len(s) = n /\ \A k \in 1..n : s[k] = t[k]
  BY StartFacts
<1> HIDE DEF s
<1>2. At(s, x) = {i \in 1..n : s[i] = x} /\ At(t, x) = {i \in 1..Len(t) : t[i] = x}
  BY <1>1, PlacesOf
<1>3. \A i : i \in At(s, x) <=> i \in At(t, x) /\ i <= n
  BY <1>1, <1>2
<1> QED
  BY <1>2, <1>3 DEF s

LEMMA StartOfStart ==
    ASSUME NEW X, NEW t \in Seq(X), NEW n \in 0..Len(t), NEW m \in 0..n
    PROVE  SubSeq(SubSeq(t, 1, n), 1, m) = SubSeq(t, 1, m)
<1> DEFINE s == SubSeq(t, 1, n)
           u == SubSeq(t, 1, m)
<1>1. s \in Seq(X) /\ Len(s) = n /\ \A k \in 1..n : s[k] = t[k]
  BY StartFacts
<1>2. m \in 0..Len(t)
  OBVIOUS
<1>3. u \in Seq(X) /\ Len(u) = m /\ \A k \in 1..m : u[k] = t[k]
  BY <1>2, StartFacts
<1> HIDE DEF s, u
<1> DEFINE v == SubSeq(s, 1, m)
<1>4. v \in Seq(X) /\ Len(v) = m /\ \A k \in 1..m : v[k] = s[k]
  BY <1>1, StartFacts
<1> HIDE DEF v
<1>5. \A k \in 1..m : v[k] = u[k]
  BY <1>1, <1>3, <1>4
<1>6. v = u
  BY <1>3, <1>4, <1>5, SameSeq
<1> QED
  BY <1>6 DEF s, u, v

LEMMA TrimTailIs ==
    ASSUME NEW X, NEW t \in Seq(X)
    PROVE  /\ TrimmedTo(t) \in 0..Len(t)
           /\ TrimTail(t) = SubSeq(t, 1, TrimmedTo(t))
<1> DEFINE open == LastOf(At(t, "("))
           end == IF open > LastOf(At(t, ")")) THEN open - 1 ELSE Len(t)
           stops == {i \in At(t, ".") : i <= end}
           stop == LastOf(stops)
           body == SubSeq(t, 1, end)
<1>1. /\ Len(t) \in Nat /\ open \in 0..Len(t) /\ LastOf(At(t, ")")) \in 0..Len(t)
      /\ At(t, ".") \in SUBSET (1..Len(t))
      /\ SubSeq(t, 1, Len(t)) = t
  <2>1. open \in 0..Len(t) /\ LastOf(At(t, ")")) \in 0..Len(t)
    BY LastAt
  <2>2. At(t, ".") \in SUBSET (1..Len(t)) /\ SubSeq(t, 1, Len(t)) = t
    BY PlacesOf, SubSeqFull
  <2> QED
    BY <2>1, <2>2
<1>2. end \in 0..Len(t)
  BY <1>1
<1>3. stops \in SUBSET (1..end) /\ end \in Nat
  BY <1>1, <1>2
<1>4. stop \in 0..end
  <2> HIDE DEF stops, end
  <2> QED
    BY <1>3, LastOfFacts
<1>5. At(body, ".") = stops
  <2> HIDE DEF end
  <2> QED
    BY <1>2, AtStart
<1>6. SubSeq(body, 1, stop) = SubSeq(t, 1, stop)
  <2> HIDE DEF end, stop
  <2> QED
    BY <1>2, <1>4, StartOfStart
<1>7. TrimTail(t) = IF At(t, "|") # {} THEN t
                    ELSE IF LastOf(At(body, ".")) = 0 THEN body
                    ELSE SubSeq(body, 1, LastOf(At(body, ".")))
  <2>1. body = IF open > LastOf(At(t, ")")) THEN SubSeq(t, 1, open - 1) ELSE t
    BY <1>1
  <2>2. TrimTail(t) =
            LET b == IF open > LastOf(At(t, ")")) THEN SubSeq(t, 1, open - 1) ELSE t
                s == LastOf(At(b, "."))
            IN  IF At(t, "|") # {} THEN t ELSE IF s = 0 THEN b ELSE SubSeq(b, 1, s)
    BY DEF TrimTail
  <2> HIDE DEF body
  <2> QED
    BY <2>1, <2>2, Zenon
<1>8. TrimmedTo(t) = IF At(t, "|") # {} THEN Len(t) ELSE IF stop = 0 THEN end ELSE stop
  BY DEF TrimmedTo
<1>9. TrimmedTo(t) \in 0..Len(t)
  <2> HIDE DEF end, stop
  <2> QED
    BY <1>1, <1>2, <1>4, <1>8
<1>10. TrimTail(t) = SubSeq(t, 1, TrimmedTo(t))
  <2>1. LastOf(At(body, ".")) = stop
    BY <1>5
  <2> HIDE DEF stop
  <2> QED
    BY <1>1, <1>6, <1>7, <1>8, <2>1
<1> QED
  BY <1>9, <1>10

LEMMA AfterStrayType ==
    ASSUME NEW X, NEW t \in Seq(X)
    PROVE  /\ AfterStrayClose(t) \in Seq(X)
           /\ Closed(t) = {} => AfterStrayClose(t) = t
<1>1. Closed(t) = {} => AfterStrayClose(t) = t
  BY DEF AfterStrayClose
<1>2. ASSUME Closed(t) # {} PROVE AfterStrayClose(t) \in Seq(X)
  <2> DEFINE q == CHOOSE i \in Closed(t) : \A j \in Closed(t) : i <= j
             after == SubSeq(t, q + 2, Len(t))
  <2>1. Closed(t) \in SUBSET (1..Len(t)) /\ Len(t) \in Nat
    BY PairsOf DEF Closed
  <2>2. q \in 1..Len(t)
    <3>1. \E i \in Closed(t) : \A j \in Closed(t) : i <= j
      BY <1>2, <2>1, LeastPlace
    <3>2. q \in Closed(t)
      BY <3>1
    <3> QED
      BY <2>1, <3>2
  <2> HIDE DEF q
  <2>3. after \in Seq(X)
    <3>1. q + 2 \in Nat \ {0} /\ Len(t) \in 0..Len(t)
      BY <2>1, <2>2
    <3> QED
      BY <3>1, CutFacts
  <2>4. SubSeq(t, 1, q - 1) \in Seq(X)
    <3>1. q - 1 \in 0..Len(t)
      BY <2>1, <2>2
    <3> QED
      BY <3>1, StartFacts
  <2>5. AfterStrayClose(t) = IF after # <<>> THEN after ELSE SubSeq(t, 1, q - 1)
    BY <1>2 DEF AfterStrayClose, q
  <2> HIDE DEF after
  <2> QED
    BY <2>3, <2>4, <2>5
<1> QED
  BY <1>1, <1>2

LEMMA StopsOf ==
    ASSUME NEW X, NEW t \in Seq(X), NEW i \in Int
    PROVE  /\ StopBefore(t, i) \in 0..Len(t)
           /\ StopBefore(t, i) # 0 => StopBefore(t, i) \in At(t, ".") /\ StopBefore(t, i) < i
           /\ \A p \in At(t, ".") : p < i => p <= StopBefore(t, i)
<1> DEFINE P == {p \in At(t, ".") : p < i}
<1>1. P \in SUBSET (1..Len(t)) /\ Len(t) \in Nat
  BY PlacesOf
<1>2. StopBefore(t, i) = LastOf(P)
  BY DEF StopBefore
<1>3. /\ LastOf(P) \in 0..Len(t) /\ LastOf(P) \in P \cup {0}
      /\ \A j \in P : j <= LastOf(P)
  <2> HIDE DEF P
  <2> QED
    BY <1>1, LastOfFacts
<1> QED
  BY <1>2, <1>3

\* The stops of sentences that repeat the one before, and of the first of two halves.
Repeats(t) == {q \in At(t, ".") :
                  StopBefore(t, q) # 0 /\ Sentence(t, q) = Sentence(t, StopBefore(t, q))}
Halves(t)  == {q \in At(t, ".") : SubSeq(t, 1, q) = SubSeq(t, q + 1, LastOf(At(t, ".")))}

\* Where what repeats the first half begins.
RepeatedFrom(t) == IF Halves(t) # {} THEN LastOf(Halves(t)) ELSE Len(t)

LEMMA WithoutRepeatsIs ==
    ASSUME NEW X, NEW t \in Seq(X)
    PROVE  /\ WithoutRepeats(t) \in Seq(X)
           /\ Len(t) \in Nat /\ LastOf(Halves(t)) \in 0..Len(t)
           /\ Repeats(t) = {} => WithoutRepeats(t) = SubSeq(t, 1, RepeatedFrom(t))
           /\ RepeatedFrom(t) \in 0..Len(t)
<1> DEFINE cut == {i \in DOMAIN t : LastOf(At(t, ".")) < i
                      \/ \E q \in Repeats(t) : StopBefore(t, q) < i /\ i <= q}
<1>1. WithoutRepeats(t) =
          IF Repeats(t) # {} THEN Without(t, cut)
          ELSE IF Halves(t) # {} THEN SubSeq(t, 1, LastOf(Halves(t))) ELSE t
  BY Zenon DEF WithoutRepeats, Repeats, Halves
<1>2. LastOf(Halves(t)) \in 0..Len(t) /\ Len(t) \in Nat
  <2>1. Halves(t) \in SUBSET (1..Len(t)) /\ Len(t) \in Nat
    BY PlacesOf DEF Halves
  <2> QED
    BY <2>1, LastOfFacts
<1>3. SubSeq(t, 1, Len(t)) = t
  BY SubSeqFull
<1>4. SubSeq(t, 1, LastOf(Halves(t))) \in Seq(X)
  BY <1>2, StartFacts
<1>5. Without(t, cut) \in Seq(X)
  BY WithoutType
<1> HIDE DEF cut
<1>6. WithoutRepeats(t) \in Seq(X)
  BY <1>1, <1>4, <1>5
<1>7. /\ Repeats(t) = {} => WithoutRepeats(t) = SubSeq(t, 1, RepeatedFrom(t))
      /\ RepeatedFrom(t) \in 0..Len(t)
  <2>1. CASE Halves(t) # {}
    BY <1>1, <1>2, <2>1 DEF RepeatedFrom
  <2>2. CASE Halves(t) = {}
    BY <1>1, <1>2, <1>3, <2>2 DEF RepeatedFrom
  <2> QED
    BY <2>1, <2>2
<1> QED
  BY <1>2, <1>6, <1>7

LEMMA CleanChatType ==
    ASSUME NEW X, NEW t \in Seq(X)
    PROVE  /\ Spoken(t) \in Seq(X)
           /\ WithoutLeaks(t) \in Seq(X)
           /\ WithoutThinking(t) \in Seq(X)
           /\ WithoutTags(t) \in Seq(X)
           /\ WithoutRemarks(t) \in Seq(X)
           /\ TrimTail(t) \in Seq(X)
           /\ WithoutDisclaimers(t) \in Seq(X)
<1>1. \A S : Without(t, S) \in Seq(X)
  BY WithoutType
<1>2. /\ WithoutLeaks(t) \in Seq(X) /\ WithoutThinking(t) \in Seq(X)
      /\ WithoutTags(t) \in Seq(X) /\ WithoutRemarks(t) \in Seq(X)
      /\ WithoutDisclaimers(t) \in Seq(X)
  BY <1>1 DEF WithoutLeaks, WithoutThinking, WithoutTags, WithoutRemarks, WithoutDisclaimers
<1>3. Spoken(t) \in Seq(X)
  BY <1>2, WithoutType DEF Spoken, WithoutThinking
<1>4. TrimTail(t) \in Seq(X)
  BY TrimTailIs, StartFacts
<1> QED
  BY <1>2, <1>3, <1>4

\* Cleaning adds nothing but the sentence for an answer that was a disclaimer.
LEMMA CleanedType ==
    ASSUME NEW X, NEW t, Spoken(t) \in Seq(X), NEW about \in BOOLEAN, NEW fallback \in BOOLEAN
    PROVE  CleanMemorySafe(about, t, fallback) \in Seq(X \cup {"I_can_help_with_that", "."})
<1> DEFINE s == Spoken(t)
           a == AfterStrayClose(s)
           b == WithoutRemarks(WithoutTags(a))
           c == WithoutRepeats(TrimTail(b))
           d == WithoutLeaks(c)
           e == IF IsPartialDisclaimer(d) THEN <<>> ELSE WithoutDisclaimers(d)
           Y == X \cup {"I_can_help_with_that", "."}
<1>1. a \in Seq(X)
  BY AfterStrayType
<1> HIDE DEF a
<1>2. b \in Seq(X)
  BY <1>1, CleanChatType
<1> HIDE DEF b
<1>3. c \in Seq(X)
  BY <1>2, CleanChatType, WithoutRepeatsIs
<1> HIDE DEF c
<1>4. d \in Seq(X)
  BY <1>3, CleanChatType
<1> HIDE DEF d
<1>5. e \in Seq(X)
  <2>1. <<>> \in Seq(X)
    OBVIOUS
  <2>2. WithoutDisclaimers(d) \in Seq(X)
    BY <1>4, CleanChatType
  <2> QED
    BY <2>1, <2>2
<1>6. d = WithoutLeaks(CleanChatAnswer(WithoutLeaks(t)))
  BY DEF CleanChatAnswer, Spoken, a, b, c, d
<1>7. CleanMemorySafe(about, t, fallback) =
          IF about THEN d ELSE IF e = <<>> /\ fallback THEN ICanHelp ELSE e
  BY <1>6 DEF CleanMemorySafe
<1> HIDE DEF e
<1>8. ICanHelp \in Seq(Y)
  BY DEF ICanHelp
<1>9. X \subseteq Y
  OBVIOUS
<1> HIDE DEF Y
<1>10. d \in Seq(Y) /\ e \in Seq(Y)
  BY <1>4, <1>5, <1>9, WiderSeq
<1> QED
  BY <1>7, <1>8, <1>10 DEF Y

\* Each secret is between an opening tag and the first closing one, and both outlast the
\* removal of leaks: nothing of it is spoken.
LEMMA SecretsGo ==
    ASSUME NEW X, NEW t \in Seq(X), SecretsInside(t), ~LeakAtTag(t),
           Opened(t) = {} \/ Closed(t) # {}
    PROVE  Spoken(t) \in Seq(X \ {"secret"})
<1> DEFINE L == Leaks(t)
           w == Without(t, L)
           f == Left(Len(t), L)
           Q == {i + 1 : i \in Closed(w)}
           S == Spans(Opened(w), Q)
           v == Without(w, S)
           g == Left(Len(w), S)
<1>1. Picked(X, t, L, w, f)
  BY WithoutFacts
<1>2. w \in Seq(X)
  BY <1>1 DEF Picked
<1>3. Picked(X, w, S, v, g)
  <2> HIDE DEF w, S
  <2> QED
    BY <1>2, WithoutFacts
<1>4. Spoken(t) = v
  BY DEF Spoken, WithoutLeaks, WithoutThinking
<1>5. /\ \A i \in Opened(t) : \E a \in 1..Len(w) : f[a] = i /\ a \in Opened(w)
      /\ \A i \in Closed(t) : \E a \in 1..Len(w) : f[a] = i /\ a \in Closed(w)
      /\ \A a \in 1..Len(w) : a \in Closed(w) => f[a] \in Closed(t)
  BY TagsSpared, PairsFound, PairsKept DEF Opened, Closed
<1>6. /\ Closed(w) \in SUBSET (1..Len(w)) /\ Len(w) \in Nat
      /\ Opened(w) \in SUBSET (1..Len(w))
  <2> HIDE DEF w
  <2> QED
    BY <1>2, PairsOf DEF Opened, Closed
<1>7. Opened(w) \in SUBSET Nat /\ Q \in SUBSET Nat
  <2> HIDE DEF w
  <2> QED
    BY <1>6
<1>8. /\ \A a, b \in 1..Len(w) : a < b <=> f[a] < f[b]
      /\ \A a \in 1..Len(w) : f[a] \in 1..Len(t) /\ w[a] = t[f[a]]
  <2> HIDE DEF w, f, L
  <2> QED
    BY <1>1 DEF Picked
<1>9. /\ v \in Seq(X) /\ Len(v) \in Nat
      /\ \A k \in 1..Len(v) : g[k] \in 1..Len(w) /\ g[k] \notin S /\ v[k] = w[g[k]]
  <2> HIDE DEF w, S, v, g
  <2> QED
    BY <1>3 DEF Picked
<1>10. \A m : m \in S <=>
           \E p \in Opened(w), q \in Q :
              /\ p < q /\ \A r \in Q : ~(p < r /\ r < q)
              /\ m \in p..q
  <2> HIDE DEF Q, w
  <2> QED
    BY <1>7, SpansOf
<1> HIDE DEF L, w, f, S, v, g
<1>11. ASSUME NEW m \in 1..Len(w), w[m] = "secret" PROVE m \in S
  <2>1. f[m] \in At(t, "secret")
    BY <1>8, <1>11, PlacesOf
  <2>2. PICK p \in Opened(t) : p < f[m] /\ \A j \in Closed(t) : f[m] < j
    BY <2>1 DEF SecretsInside
  <2>3. PICK a \in 1..Len(w) : f[a] = p /\ a \in Opened(w)
    BY <1>5
  <2>4. Closed(w) # {}
    <3>1. PICK c \in Closed(t) : TRUE
      BY <2>2
    <3> QED
      BY <1>5, <3>1
  <2>5. PICK q \in Closed(w) : \A j \in Closed(w) : q <= j
    BY <1>6, <2>4, LeastPlace
  <2>6. a < m /\ m < q /\ q \in 1..Len(w)
    <3>1. f[q] \in Closed(t) /\ q \in 1..Len(w)
      BY <1>5, <1>6
    <3>2. f[a] < f[m] /\ f[m] < f[q]
      BY <2>2, <2>3, <3>1
    <3> QED
      BY <1>8, <3>1, <3>2
  <2>7. /\ q + 1 \in Q /\ a < q + 1 /\ m \in a..q + 1
    BY <1>6, <2>6
  <2>8. ASSUME NEW r \in Q PROVE ~(a < r /\ r < q + 1)
    <3>1. PICK j \in Closed(w) : r = j + 1
      OBVIOUS
    <3>2. q <= j /\ j \in Nat /\ q \in Nat
      BY <1>6, <2>5
    <3> QED
      BY <3>1, <3>2
  <2> HIDE DEF Q
  <2> QED
    BY <1>10, <2>3, <2>7, <2>8
<1>12. \A k \in 1..Len(v) : v[k] \in X \ {"secret"}
  <2> SUFFICES ASSUME NEW k \in 1..Len(v) PROVE v[k] \in X \ {"secret"}
    OBVIOUS
  <2>1. g[k] \in 1..Len(w) /\ g[k] \notin S /\ v[k] = w[g[k]] /\ v[k] \in X
    BY <1>9
  <2> QED
    BY <1>11, <2>1
<1>13. v \in [1..Len(v) -> X \ {"secret"}]
  BY <1>9, <1>12
<1> QED
  BY <1>4, <1>9, <1>13, FunctionIsSeq

-----------------------------------------------------------------------------
(* The stream. *)

\* What has arrived begins what the model writes.
LEMMA SameAtStart ==
    ASSUME NEW X, NEW t \in Seq(X), NEW n \in 0..Len(t)
    PROVE  /\ \A x, y : Pairs(SubSeq(t, 1, n), x, y) = {i \in Pairs(t, x, y) : i + 1 <= n}
           /\ Leaks(SubSeq(t, 1, n)) \subseteq Leaks(t)
<1> DEFINE s == SubSeq(t, 1, n)
<1>1. s \in Seq(X) /\ Len(s) = n /\ \A k \in 1..n : s[k] = t[k]
  BY StartFacts
<1>2. \A x : At(s, x) = {i \in At(t, x) : i <= n}
  BY AtStart
<1>3. Len(t) \in Nat /\ n \in Nat
  OBVIOUS
<1>4. \A x : At(t, x) \in SUBSET (1..Len(t))
  BY PlacesOf
<1> HIDE DEF s
<1>5. ASSUME NEW x, NEW y PROVE Pairs(s, x, y) = {i \in Pairs(t, x, y) : i + 1 <= n}
  <2>1. At(s, x) = {i \in At(t, x) : i <= n} /\ At(s, y) = {i \in At(t, y) : i <= n}
    BY <1>2
  <2>2. At(t, x) \in SUBSET (1..Len(t)) /\ At(t, y) \in SUBSET (1..Len(t))
    BY <1>4
  <2> QED
    BY <1>3, <2>1, <2>2 DEF Pairs
<1>6. ASSUME NEW i \in Leaks(s) PROVE i \in Leaks(t)
  <2>1. PICK p \in Pairs(s, "(", "context:"), q \in At(s, ")") :
           /\ p < q /\ \A r \in At(s, ")") : ~(p < r /\ r < q)
           /\ i \in p..q
    BY <1>1, LeaksOf
  <2>2. p \in Pairs(t, "(", "context:") /\ q \in At(t, ")") /\ q <= n
    BY <1>2, <1>5
  <2>3. ASSUME NEW r \in At(t, ")") PROVE ~(p < r /\ r < q)
    <3>1. r \in 1..Len(t) /\ q \in 1..Len(t)
      BY <1>4, <2>2
    <3>2. r < q => r \in At(s, ")")
      BY <1>2, <1>3, <2>2, <3>1
    <3> QED
      BY <2>1, <3>2
  <2> QED
    BY <2>1, <2>2, <2>3, LeaksOf
<1> QED
  BY <1>5, <1>6 DEF s

LEMMA LeaksAtStart ==
    ASSUME NEW X, NEW t \in Seq(X), NEW n \in 0..Len(t), ~LeakAtTag(t)
    PROVE  ~LeakAtTag(SubSeq(t, 1, n))
<1> DEFINE s == SubSeq(t, 1, n)
<1>1. s \in Seq(X) /\ Len(s) = n /\ \A k \in 1..n : s[k] = t[k]
  BY StartFacts
<1>2. Leaks(s) \subseteq Leaks(t)
  BY SameAtStart
<1> HIDE DEF s
<1>3. Leaks(s) \in SUBSET (1..n)
  BY <1>1, LeaksOf
<1>4. ASSUME NEW i \in Leaks(s),
             s[i] \in {"<", "think>", "/think>"} \/ (i > 1 /\ s[i - 1] = "<")
      PROVE  FALSE
  <2>1. i \in Leaks(t) /\ i \in 1..n
    BY <1>2, <1>3
  <2>2. s[i] = t[i] /\ (i > 1 => s[i - 1] = t[i - 1])
    BY <1>1, <2>1
  <2> QED
    BY <1>4, <2>1, <2>2 DEF LeakAtTag
<1> QED
  BY <1>4 DEF s, LeakAtTag

LEMMA SecretsAtStart ==
    ASSUME NEW X, NEW t \in Seq(X), NEW n \in 0..Len(t), SecretsInside(t)
    PROVE  SecretsInside(SubSeq(t, 1, n))
<1> DEFINE s == SubSeq(t, 1, n)
<1>1. /\ \A x : At(s, x) = {i \in At(t, x) : i <= n}
      /\ \A x, y : Pairs(s, x, y) = {i \in Pairs(t, x, y) : i + 1 <= n}
  BY AtStart, SameAtStart
<1>2. /\ Len(t) \in Nat /\ n \in Nat
      /\ \A i \in Opened(t) : i \in 1..Len(t) /\ i + 1 \in 1..Len(t) /\ t[i + 1] = "think>"
      /\ Opened(s) = {i \in Opened(t) : i + 1 <= n}
      /\ Closed(s) = {i \in Closed(t) : i + 1 <= n}
  <2> HIDE DEF s
  <2> QED
    BY <1>1, PairsOf DEF Opened, Closed
<1> HIDE DEF s
<1>3. ASSUME NEW i \in At(s, "secret")
      PROVE  \E k \in Opened(s) : k < i /\ \A j \in Closed(s) : i < j
  <2>1. i \in At(t, "secret") /\ i <= n
    BY <1>1
  <2>2. i \in 1..Len(t) /\ t[i] = "secret"
    BY <2>1, PlacesOf
  <2>3. PICK k \in Opened(t) : k < i /\ \A j \in Closed(t) : i < j
    BY <2>1 DEF SecretsInside
  <2>4. k \in 1..Len(t) /\ t[k + 1] = "think>"
    BY <1>2
  <2>5. k + 1 # i /\ k + 1 <= n
    BY <1>2, <2>1, <2>2, <2>3, <2>4
  <2> QED
    BY <1>2, <2>3, <2>5
<1> QED
  BY <1>3 DEF s, SecretsInside

\* What cleaning makes of what has arrived, and that it shows no thinking.
LEMMA CleanedRaw ==
    ASSUME NEW t \in Seq(Pieces), NEW about \in BOOLEAN, NEW fallback \in BOOLEAN
    PROVE  /\ CleanMemorySafe(about, t, fallback) \in Seq(Pieces \cup {"I_can_help_with_that"})
           /\ SecretsInside(t) /\ ~LeakAtTag(t) /\ (Opened(t) = {} \/ Closed(t) # {})
              => "secret" \notin Range(CleanMemorySafe(about, t, fallback))
<1> DEFINE c == CleanMemorySafe(about, t, fallback)
<1>1. c \in Seq(Pieces \cup {"I_can_help_with_that", "."})
  BY CleanChatType, CleanedType
<1>2. Pieces \cup {"I_can_help_with_that", "."} = Pieces \cup {"I_can_help_with_that"}
  BY DEF Pieces
<1>3. ASSUME SecretsInside(t), ~LeakAtTag(t), Opened(t) = {} \/ Closed(t) # {}
      PROVE  "secret" \notin Range(c)
  <2> DEFINE Y == (Pieces \ {"secret"}) \cup {"I_can_help_with_that", "."}
  <2>1. c \in Seq(Y)
    BY <1>3, SecretsGo, CleanedType
  <2>2. "secret" \notin Y
    OBVIOUS
  <2> HIDE DEF c, Y
  <2>3. DOMAIN c = 1..Len(c) /\ \A k \in 1..Len(c) : c[k] \in Y
    BY <2>1
  <2> QED
    BY <2>2, <2>3 DEF Range
<1> QED
  BY <1>1, <1>2, <1>3

StreamInv ==
    /\ StreamTypeOK
    /\ Len(raw) \in 0..Len(text) /\ raw = SubSeq(text, 1, Len(raw))
    /\ ThinkingIsHidden

LEMMA StreamStarts == StreamInit => StreamInv
<1> SUFFICES ASSUME StreamInit PROVE StreamInv
  OBVIOUS
<1>1. text \in Texts /\ text \in Seq(Pieces) /\ Len(text) \in Nat
  BY TextsAssumption DEF StreamInit
<1>2. StreamTypeOK
  BY <1>1 DEF StreamInit, StreamTypeOK
<1>3. Len(raw) \in 0..Len(text) /\ raw = SubSeq(text, 1, Len(raw))
  BY <1>1, SubSeqProperties DEF StreamInit
<1>4. ThinkingIsHidden
  BY DEF StreamInit, ThinkingIsHidden, Range
<1> QED
  BY <1>2, <1>3, <1>4 DEF StreamInv

\* What continues what is visible is shown, in whole.
LEMMA Shows ==
    ASSUME NEW t
    PROVE  ShowIfLonger(t) \in {visible, t}
BY DEF ShowIfLonger

LEMMA StreamGoesOn == StreamInv /\ [StreamNext]_streamVars => StreamInv'
<1> SUFFICES ASSUME StreamInv, [StreamNext]_streamVars PROVE StreamInv'
  OBVIOUS
<1>1. /\ asks \in BOOLEAN /\ text \in Texts /\ text \in Seq(Pieces)
      /\ raw \in Seq(Pieces) /\ raw = SubSeq(text, 1, Len(raw))
      /\ Len(raw) \in 0..Len(text) /\ Len(text) \in Nat
      /\ visible \in Seq(Pieces \cup {"I_can_help_with_that"})
  <2>1. /\ asks \in BOOLEAN /\ text \in Texts /\ raw \in Seq(Pieces)
        /\ raw = SubSeq(text, 1, Len(raw)) /\ Len(raw) \in 0..Len(text)
        /\ visible \in Seq(Pieces \cup {"I_can_help_with_that"})
    BY DEF StreamInv, StreamTypeOK
  <2>2. text \in Seq(Pieces)
    BY <2>1, TextsAssumption
  <2>3. Len(text) \in Nat
    BY <2>2
  <2> QED
    BY <2>1, <2>2, <2>3
<1>2. CASE UNCHANGED streamVars
  BY <1>2 DEF StreamInv, streamVars, StreamTypeOK, ThinkingIsHidden
<1>3. CASE \E n \in 1..MaxChunk : Deliver(n)
  <2>1. PICK n \in 1..MaxChunk : Deliver(n)
    BY <1>3
  <2>2. Len(raw) + n \in 0..Len(text)
    <3>1. Len(raw) + n <= Len(text)
      BY <2>1 DEF Deliver
    <3>2. n \in Nat
      BY TextsAssumption
    <3>3. Len(raw) \in 0..Len(text) /\ Len(text) \in Nat
      BY <1>1
    <3> QED
      BY <3>1, <3>2, <3>3
  <2>3. raw' \in Seq(Pieces) /\ Len(raw') = Len(raw) + n
    BY <1>1, <2>1, <2>2, StartFacts DEF Deliver
  <2>4. UNCHANGED <<asks, text, stored, ending>> /\ ending = "none"
        /\ raw' = SubSeq(text, 1, Len(raw) + n)
    BY <2>1 DEF Deliver
  <2> DEFINE c == CleanMemorySafe(asks, raw', FALSE)
  <2>5. visible' = visible \/ (visible' = c /\ ~HeldBack(raw'))
    BY <2>1, Shows DEF Deliver
  <2>6. /\ c \in Seq(Pieces \cup {"I_can_help_with_that"})
        /\ SecretsInside(raw') /\ ~LeakAtTag(raw')
           /\ (Opened(raw') = {} \/ Closed(raw') # {}) => "secret" \notin Range(c)
    BY <1>1, <2>3, CleanedRaw
  <2>7. ~HeldBack(raw') => Opened(raw') = {} \/ Closed(raw') # {}
    BY DEF HeldBack
  <2>8. SecretsInside(text) /\ ~LeakAtTag(text) => SecretsInside(raw') /\ ~LeakAtTag(raw')
    BY <1>1, <2>2, <2>4, SecretsAtStart, LeaksAtStart
  <2> HIDE DEF c
  <2>9. StreamTypeOK'
    BY <1>1, <2>3, <2>4, <2>5, <2>6 DEF StreamInv, StreamTypeOK
  <2>10. ThinkingIsHidden'
    <3> SUFFICES ASSUME SecretsInside(text), ~LeakAtTag(text)
                 PROVE  "secret" \notin Range(visible')
      BY <2>4 DEF ThinkingIsHidden
    <3>1. "secret" \notin Range(visible)
      BY <2>4 DEF StreamInv, ThinkingIsHidden
    <3> QED
      BY <3>1, <2>5, <2>6, <2>7, <2>8
  <2> QED
    BY <2>2, <2>3, <2>4, <2>9, <2>10 DEF StreamInv
<1>4. CASE Finish
  <2>1. UNCHANGED <<asks, text, raw>> /\ ending = "none" /\ ending' = "finished"
    BY <1>4 DEF Finish
  <2>2. visible' = visible \/ visible' = Unstreamed
    BY <1>4, Shows DEF Finish
  <2>3. /\ Unstreamed \in Seq(Pieces \cup {"I_can_help_with_that"})
        /\ SecretsInside(raw) /\ ~LeakAtTag(raw)
           /\ (Opened(raw) = {} \/ Closed(raw) # {}) => "secret" \notin Range(Unstreamed)
    BY <1>1, CleanedRaw DEF Unstreamed
  <2>4. SecretsInside(text) /\ ~LeakAtTag(text) => SecretsInside(raw) /\ ~LeakAtTag(raw)
    BY <1>1, SecretsAtStart, LeaksAtStart
  <2>5. visible' \in Seq(Pieces \cup {"I_can_help_with_that"})
    BY <1>1, <2>2, <2>3
  <2>6. /\ stored' \in Seq(Pieces \cup {"I_can_help_with_that", HowCanIHelp[1], Outage[1]})
        /\ stored' # <<>>
    <3> DEFINE Y == Pieces \cup {"I_can_help_with_that"}
               Z == Pieces \cup {"I_can_help_with_that", HowCanIHelp[1], Outage[1]}
    <3>1. HowCanIHelp \in Seq(Z) /\ HowCanIHelp # <<>>
      BY DEF HowCanIHelp
    <3>2. Y \subseteq Z
      OBVIOUS
    <3> HIDE DEF Y, Z
    <3>3. visible' \in Seq(Z)
      BY <2>5, <3>2, WiderSeq DEF Y
    <3> QED
      BY <1>4, <3>1, <3>3 DEF Finish, Z
  <2>7. StreamTypeOK'
    BY <1>1, <2>1, <2>5, <2>6 DEF StreamTypeOK
  <2>8. ThinkingIsHidden'
    <3> SUFFICES ASSUME SecretsInside(text), ~LeakAtTag(text), Closed(raw) # {}
                 PROVE  "secret" \notin Range(visible')
      BY <2>1 DEF ThinkingIsHidden
    <3>1. "secret" \notin Range(visible)
      BY <2>1 DEF StreamInv, ThinkingIsHidden
    <3> QED
      BY <3>1, <2>2, <2>3, <2>4
  <2> QED
    BY <2>1, <2>7, <2>8 DEF StreamInv
<1>5. CASE ModelFails \/ Disconnect
  <2>1. /\ UNCHANGED <<asks, text, raw, visible>> /\ ending = "none"
        /\ \/ ending' = "failed" /\ stored' = Outage
           \/ ending' = "left" /\ stored' = stored
    BY <1>5 DEF ModelFails, Disconnect
  <2>2. /\ Outage \in Seq(Pieces \cup {"I_can_help_with_that", HowCanIHelp[1], Outage[1]})
        /\ Outage # <<>>
    BY DEF Outage
  <2>3. StreamTypeOK'
    BY <2>1, <2>2 DEF StreamInv, StreamTypeOK
  <2>4. ThinkingIsHidden'
    BY <2>1 DEF StreamInv, ThinkingIsHidden
  <2> QED
    BY <2>1, <2>3, <2>4 DEF StreamInv
<1> QED
  BY <1>2, <1>3, <1>4, <1>5 DEF StreamNext

-----------------------------------------------------------------------------
(* What is visible of a part of the text begins what is visible of the whole. *)

\* t goes on as s does, but for the half of a tag at the end of s, if half.
Follows(s, t, half) ==
    \E m \in 0..Len(s) :
       /\ m <= Len(t)
       /\ \A k \in 1..m : s[k] = t[k]
       /\ \A k \in m + 1..Len(s) : half /\ s[k] = "<"

LEMMA BeginsFollows ==
    ASSUME NEW X, NEW s \in Seq(X), NEW t \in Seq(X), Begins(s, t), NEW half
    PROVE  Follows(s, t, half)
<1>1. /\ Len(s) \in 0..Len(s) /\ Len(s) <= Len(t)
      /\ \A k \in 1..Len(s) : s[k] = t[k]
      /\ \A k \in Len(s) + 1..Len(s) : half /\ s[k] = "<"
  BY DEF Begins
<1> QED
  BY <1>1 DEF Follows

LEMMA FollowsStart ==
    ASSUME NEW X, NEW s \in Seq(X), NEW t \in Seq(X), NEW half, Follows(s, t, half),
           NEW n \in 0..Len(s)
    PROVE  Follows(SubSeq(s, 1, n), t, half)
<1> DEFINE u == SubSeq(s, 1, n)
<1>1. PICK m \in 0..Len(s) : /\ m <= Len(t)
                             /\ \A k \in 1..m : s[k] = t[k]
                             /\ \A k \in m + 1..Len(s) : half /\ s[k] = "<"
  BY DEF Follows
<1>2. u \in Seq(X) /\ Len(u) = n /\ \A k \in 1..n : u[k] = s[k]
  BY StartFacts
<1>3. Len(s) \in Nat /\ Len(t) \in Nat /\ n \in Nat /\ m \in Nat /\ n <= Len(s)
  BY <1>1
<1> HIDE DEF u
<1>4. CASE n <= m
  <2>1. /\ n \in 0..Len(u) /\ n <= Len(t)
        /\ \A k \in 1..n : u[k] = t[k]
        /\ \A k \in n + 1..Len(u) : half /\ u[k] = "<"
    BY <1>1, <1>2, <1>3, <1>4
  <2>2. Follows(u, t, half)
    BY <2>1 DEF Follows
  <2> QED
    BY <2>2 DEF u
<1>5. CASE n > m
  <2>1. /\ m \in 0..Len(u) /\ m <= Len(t)
        /\ \A k \in 1..m : u[k] = t[k]
        /\ \A k \in m + 1..Len(u) : half /\ u[k] = "<"
    BY <1>1, <1>2, <1>3, <1>5
  <2>2. Follows(u, t, half)
    BY <2>1 DEF Follows
  <2> QED
    BY <2>2 DEF u
<1> QED
  BY <1>3, <1>4, <1>5

LEMMA FollowsPairs ==
    ASSUME NEW X, NEW s \in Seq(X), NEW t \in Seq(X), NEW half, Follows(s, t, half),
           NEW x, NEW y, y # "<"
    PROVE  Pairs(s, x, y) \subseteq Pairs(t, x, y)
<1>1. PICK m \in 0..Len(s) : /\ m <= Len(t)
                             /\ \A k \in 1..m : s[k] = t[k]
                             /\ \A k \in m + 1..Len(s) : half /\ s[k] = "<"
  BY DEF Follows
<1>2. Len(s) \in Nat /\ Len(t) \in Nat
  OBVIOUS
<1> SUFFICES ASSUME NEW i \in Pairs(s, x, y) PROVE i \in Pairs(t, x, y)
  OBVIOUS
<1>3. i \in 1..Len(s) /\ i + 1 \in 1..Len(s) /\ s[i] = x /\ s[i + 1] = y
  BY PairsOf
<1>4. i + 1 \in 1..m
  BY <1>1, <1>2, <1>3
<1>5. i \in 1..m
  BY <1>1, <1>2, <1>3, <1>4
<1>6. i \in 1..Len(t) /\ i + 1 \in 1..Len(t) /\ t[i] = x /\ t[i + 1] = y
  BY <1>1, <1>2, <1>3, <1>4, <1>5
<1> QED
  BY <1>6, PairsOf

LEMMA FollowsLeaks ==
    ASSUME NEW X, NEW s \in Seq(X), NEW t \in Seq(X), NEW half, Follows(s, t, half),
           Leaks(t) = {}
    PROVE  WithoutLeaks(s) = s
<1>1. PICK m \in 0..Len(s) : /\ m <= Len(t)
                             /\ \A k \in 1..m : s[k] = t[k]
                             /\ \A k \in m + 1..Len(s) : half /\ s[k] = "<"
  BY DEF Follows
<1>2. Len(s) \in Nat /\ Len(t) \in Nat
  OBVIOUS
<1>3. ASSUME NEW i \in Leaks(s) PROVE FALSE
  <2>1. PICK p \in Pairs(s, "(", "context:"), q \in At(s, ")") :
           p < q /\ \A r \in At(s, ")") : ~(p < r /\ r < q)
    BY LeaksOf
  <2>2. p \in Pairs(t, "(", "context:")
    BY FollowsPairs
  <2>3. q \in 1..m /\ q \in At(t, ")")
    <3>1. q \in 1..Len(s) /\ s[q] = ")"
      BY PlacesOf
    <3>2. q \in 1..m
      BY <1>1, <1>2, <3>1
    <3>3. q \in 1..Len(t) /\ t[q] = ")"
      BY <1>1, <1>2, <3>1, <3>2
    <3> QED
      BY <3>2, <3>3, PlacesOf
  <2>4. ASSUME NEW r \in At(t, ")") PROVE ~(p < r /\ r < q)
    <3>1. r \in 1..Len(t) /\ t[r] = ")"
      BY PlacesOf
    <3>2. r < q => r \in At(s, ")")
      <4> SUFFICES ASSUME r < q PROVE r \in At(s, ")")
        OBVIOUS
      <4>1. r \in 1..m /\ r \in 1..Len(s)
        BY <1>1, <1>2, <2>3, <3>1
      <4>2. s[r] = ")"
        BY <1>1, <3>1, <4>1
      <4> QED
        BY <4>1, <4>2, PlacesOf
    <3> QED
      BY <2>1, <3>2
  <2>5. p \in Nat /\ q \in Nat
    BY <1>1, <2>2, <2>3, PairsOf
  <2>6. p \in p..q
    BY <2>1, <2>5
  <2>7. p \in Leaks(t)
    BY <2>1, <2>2, <2>3, <2>4, <2>6, LeaksOf
  <2> QED
    BY <2>7
<1> QED
  BY <1>3, WithoutNothing DEF WithoutLeaks

\* Every piece of s but the half of a tag is where it is in t.
LEMMA FollowsPlaces ==
    ASSUME NEW X, NEW s \in Seq(X), NEW t \in Seq(X), NEW half, NEW m \in 0..Len(s),
           m <= Len(t), \A k \in 1..m : s[k] = t[k],
           \A k \in m + 1..Len(s) : half /\ s[k] = "<",
           NEW x, x # "<"
    PROVE  At(s, x) = {i \in At(t, x) : i <= m}
<1>1. Len(s) \in Nat /\ Len(t) \in Nat
  OBVIOUS
<1>2. At(s, x) = {i \in 1..Len(s) : s[i] = x} /\ At(t, x) = {i \in 1..Len(t) : t[i] = x}
  BY PlacesOf
<1>3. ASSUME NEW i \in At(s, x) PROVE i \in At(t, x) /\ i <= m
  <2>1. i \in 1..Len(s) /\ s[i] = x
    BY <1>2
  <2>2. i \in 1..m
    BY <1>1, <2>1
  <2> QED
    BY <1>1, <1>2, <2>1, <2>2
<1>4. ASSUME NEW i \in At(t, x), i <= m PROVE i \in At(s, x)
  <2>1. i \in 1..Len(t) /\ t[i] = x
    BY <1>2
  <2>2. i \in 1..m /\ i \in 1..Len(s)
    BY <1>1, <1>4, <2>1
  <2> QED
    BY <1>2, <2>1, <2>2
<1> QED
  BY <1>3, <1>4

LEMMA TrimFollows ==
    ASSUME NEW X, NEW s \in Seq(X), NEW t \in Seq(X), NEW half, Follows(s, t, half)
    PROVE  Follows(TrimTail(s), TrimTail(t), half)
<1>1. PICK m \in 0..Len(s) : /\ m <= Len(t)
                             /\ \A k \in 1..m : s[k] = t[k]
                             /\ \A k \in m + 1..Len(s) : half /\ s[k] = "<"
  BY DEF Follows
<1>2. Len(s) \in Nat /\ Len(t) \in Nat /\ m \in Nat
  BY <1>1
<1>3. /\ At(s, "(") = {i \in At(t, "(") : i <= m} /\ At(s, ")") = {i \in At(t, ")") : i <= m}
      /\ At(s, ".") = {i \in At(t, ".") : i <= m} /\ At(s, "|") = {i \in At(t, "|") : i <= m}
  BY <1>1, FollowsPlaces
<1> DEFINE so == LastOf(At(s, "("))
           sc == LastOf(At(s, ")"))
           to == LastOf(At(t, "("))
           tc == LastOf(At(t, ")"))
           se == IF so > sc THEN so - 1 ELSE Len(s)
           te == IF to > tc THEN to - 1 ELSE Len(t)
           ss == {i \in At(s, ".") : i <= se}
           ts == {i \in At(t, ".") : i <= te}
           x == TrimmedTo(s)
           y == TrimmedTo(t)
<1>4. /\ so \in At(s, "(") \cup {0} /\ so \in 0..Len(s) /\ \A i \in At(s, "(") : i <= so
      /\ sc \in At(s, ")") \cup {0} /\ sc \in 0..Len(s) /\ \A i \in At(s, ")") : i <= sc
      /\ to \in At(t, "(") \cup {0} /\ to \in 0..Len(t) /\ \A i \in At(t, "(") : i <= to
      /\ tc \in At(t, ")") \cup {0} /\ tc \in 0..Len(t) /\ \A i \in At(t, ")") : i <= tc
  BY LastAt
<1>5. /\ x = IF At(s, "|") # {} THEN Len(s) ELSE IF LastOf(ss) = 0 THEN se ELSE LastOf(ss)
      /\ y = IF At(t, "|") # {} THEN Len(t) ELSE IF LastOf(ts) = 0 THEN te ELSE LastOf(ts)
  BY DEF TrimmedTo
<1>6. /\ At(s, ".") \in SUBSET (1..Len(s)) /\ At(t, ".") \in SUBSET (1..Len(t))
      /\ At(t, "|") \in SUBSET (1..Len(t))
  BY PlacesOf
<1>7. /\ LastOf(ss) \in ss \cup {0} /\ \A i \in ss : i <= LastOf(ss)
      /\ LastOf(ts) \in ts \cup {0} /\ \A i \in ts : i <= LastOf(ts)
      /\ LastOf(ss) \in 0..Len(s) /\ LastOf(ts) \in 0..Len(t)
      /\ LastOf(ss) = 0 <=> ss = {}
  <2>1. ss \in SUBSET (1..Len(s)) /\ ts \in SUBSET (1..Len(t))
    BY <1>6
  <2> HIDE DEF ss, ts
  <2> QED
    BY <1>2, <2>1, LastOfFacts
<1> HIDE DEF so, sc, to, tc
<1>8. se \in 0..Len(s) /\ te \in 0..Len(t)
  BY <1>2, <1>4
<1>9. so \in At(t, "(") \cup {0} /\ sc \in At(t, ")") \cup {0} /\ so <= m /\ sc <= m
  BY <1>2, <1>3, <1>4
<1>10. so <= to /\ sc <= tc
  BY <1>2, <1>4, <1>9
<1>11. se <= te \/ (se > m /\ te >= m)
  <2>1. CASE so > sc
    BY <1>2, <1>4, <1>10, <2>1
  <2>2. CASE ~(so > sc) /\ to > tc
    <3>1. to > m
      <4> SUFFICES ASSUME to <= m PROVE FALSE
        BY <1>2, <1>4
      <4>1. to # 0
        BY <1>4, <2>2
      <4>2. to \in At(s, "(")
        BY <1>3, <1>4, <4>1
      <4>3. to <= so
        BY <1>4, <4>2
      <4> QED
        BY <1>2, <1>4, <1>10, <2>2, <4>3
    <3>2. se = Len(s) /\ te = to - 1
      BY <2>2
    <3> QED
      BY <1>1, <1>2, <1>4, <3>1, <3>2
  <2>3. CASE ~(so > sc) /\ ~(to > tc)
    BY <1>1, <1>2, <2>3
  <2> QED
    BY <2>1, <2>2, <2>3
<1> HIDE DEF se, te
<1>12. x \in 0..Len(s) /\ y \in 0..Len(t)
  BY TrimTailIs
<1>13. ASSUME x <= m PROVE x <= y
  <2>1. CASE At(t, "|") # {}
    BY <1>1, <1>2, <1>5, <1>12, <1>13, <2>1
  <2>2. CASE At(t, "|") = {}
    <3>1. At(s, "|") = {}
      BY <1>3, <2>2
    <3>2. CASE LastOf(ss) # 0
      <4>1. LastOf(ss) \in At(t, ".") /\ LastOf(ss) <= m /\ LastOf(ss) <= se
        BY <1>3, <1>7, <3>2
      <4>2. LastOf(ss) \in ts
        BY <1>2, <1>7, <1>8, <1>11, <4>1
      <4>3. LastOf(ss) <= LastOf(ts)
        BY <1>7, <4>2
      <4> QED
        BY <1>5, <1>7, <1>2, <2>2, <3>1, <3>2, <4>3
    <3>3. CASE LastOf(ss) = 0
      <4>1. x = se
        BY <1>5, <3>1, <3>3
      <4>2. se <= te
        BY <1>2, <1>8, <1>11, <1>13, <4>1
      <4>3. CASE LastOf(ts) = 0
        BY <1>5, <2>2, <4>1, <4>2, <4>3
      <4>4. CASE LastOf(ts) # 0
        <5>1. LastOf(ts) \in At(t, ".")
          BY <1>7, <4>4
        <5>2. ~(LastOf(ts) <= se)
          <6> SUFFICES ASSUME LastOf(ts) <= se PROVE FALSE
            OBVIOUS
          <6>1. LastOf(ts) <= m
            BY <1>2, <1>7, <1>8, <1>13, <4>1
          <6>2. LastOf(ts) \in ss
            BY <1>3, <5>1, <6>1
          <6> QED
            BY <1>7, <3>3, <6>2
        <5> QED
          BY <1>2, <1>5, <1>7, <1>8, <2>2, <4>1, <4>4, <5>2
      <4> QED
        BY <4>3, <4>4
    <3> QED
      BY <3>2, <3>3
  <2> QED
    BY <2>1, <2>2
<1>14. ASSUME x > m PROVE m <= y
  <2>1. CASE At(t, "|") # {}
    BY <1>1, <1>5, <2>1
  <2>2. CASE At(t, "|") = {}
    <3>1. At(s, "|") = {}
      BY <1>3, <2>2
    <3>2. LastOf(ss) = 0
      <4> SUFFICES ASSUME LastOf(ss) # 0 PROVE FALSE
        OBVIOUS
      <4>1. LastOf(ss) <= m
        BY <1>3, <1>7
      <4> QED
        BY <1>2, <1>5, <1>7, <1>14, <3>1, <4>1
    <3>3. x = se
      BY <1>5, <3>1, <3>2
    <3>4. te >= m
      BY <1>2, <1>8, <1>11, <1>14, <3>3
    <3>5. CASE LastOf(ts) = 0
      BY <1>5, <2>2, <3>4, <3>5
    <3>6. CASE LastOf(ts) # 0
      <4>1. LastOf(ts) \in At(t, ".")
        BY <1>7, <3>6
      <4>2. ~(LastOf(ts) <= m)
        <5> SUFFICES ASSUME LastOf(ts) <= m PROVE FALSE
          OBVIOUS
        <5>1. LastOf(ts) \in ss
          BY <1>2, <1>3, <1>7, <1>8, <1>14, <3>3, <4>1
        <5> QED
          BY <1>7, <3>2, <5>1
      <4> QED
        BY <1>2, <1>5, <1>7, <2>2, <3>6, <4>2
    <3> QED
      BY <3>5, <3>6
  <2> QED
    BY <2>1, <2>2
<1> HIDE DEF x, y
<1> DEFINE u == SubSeq(s, 1, x)
           v == SubSeq(t, 1, y)
           n == IF x <= m THEN x ELSE m
<1>15. /\ u \in Seq(X) /\ Len(u) = x /\ \A k \in 1..x : u[k] = s[k]
       /\ v \in Seq(X) /\ Len(v) = y /\ \A k \in 1..y : v[k] = t[k]
  BY <1>12, StartFacts
<1>16. TrimTail(s) = u /\ TrimTail(t) = v
  BY TrimTailIs DEF x, y
<1> HIDE DEF u, v
<1>17. n \in 0..Len(u) /\ n <= Len(v) /\ n <= m /\ n <= x /\ n <= y
  BY <1>2, <1>12, <1>13, <1>14, <1>15
<1>18. \A k \in 1..n : u[k] = v[k]
  <2> SUFFICES ASSUME NEW k \in 1..n PROVE u[k] = v[k]
    OBVIOUS
  <2>1. k \in 1..x /\ k \in 1..y /\ k \in 1..m
    BY <1>2, <1>12, <1>17
  <2> QED
    BY <1>1, <1>15, <2>1
<1>19. \A k \in n + 1..Len(u) : half /\ u[k] = "<"
  <2> SUFFICES ASSUME NEW k \in n + 1..Len(u) PROVE half /\ u[k] = "<"
    OBVIOUS
  <2>1. k \in 1..x /\ k \in m + 1..Len(s)
    BY <1>2, <1>12, <1>15, <1>17
  <2> QED
    BY <1>1, <1>15, <2>1
<1> HIDE DEF n
<1> QED
  BY <1>16, <1>17, <1>18, <1>19 DEF Follows

\* A sentence that repeats the one before is a removal.
LEMMA RepeatsShorten ==
    ASSUME NEW X, NEW t \in Seq(X), WithoutRepeats(t) = t
    PROVE  Repeats(t) = {}
<1> DEFINE cut == {i \in DOMAIN t : LastOf(At(t, ".")) < i
                      \/ \E q \in Repeats(t) : StopBefore(t, q) < i /\ i <= q}
<1>1. WithoutRepeats(t) =
          IF Repeats(t) # {} THEN Without(t, cut)
          ELSE IF Halves(t) # {} THEN SubSeq(t, 1, LastOf(Halves(t))) ELSE t
  BY Zenon DEF WithoutRepeats, Repeats, Halves
<1> SUFFICES ASSUME Repeats(t) # {} PROVE FALSE
  OBVIOUS
<1>2. PICK q \in At(t, ".") : q \in Repeats(t)
  BY DEF Repeats
<1>3. q \in 1..Len(t) /\ Len(t) \in Nat /\ DOMAIN t = 1..Len(t)
  BY PlacesOf
<1>4. StopBefore(t, q) < q
  <2>1. StopBefore(t, q) # 0 => StopBefore(t, q) < q
    BY <1>3, StopsOf
  <2> QED
    BY <1>3, <2>1
<1>5. q \in cut
  BY <1>2, <1>3, <1>4
<1> HIDE DEF cut
<1>6. Without(t, cut) = t
  BY <1>1
<1>7. Picked(X, t, cut, t, Left(Len(t), cut))
  BY <1>6, WithoutFacts
<1> DEFINE D == (1..Len(t)) \ cut
<1>8. Len(t) = Cardinality(D)
  BY <1>7 DEF Picked
<1>9. D \in SUBSET (1..Len(t)) /\ D # 1..Len(t)
  BY <1>3, <1>5
<1>10. IsFiniteSet(1..Len(t)) /\ Cardinality(1..Len(t)) = Len(t)
  BY <1>3, FS_Interval
<1> HIDE DEF D
<1> QED
  BY <1>8, <1>9, <1>10, FS_Subset

LEMMA SameSentence ==
    ASSUME NEW X, NEW s \in Seq(X), NEW t \in Seq(X), NEW m \in Nat,
           m <= Len(s), m <= Len(t), \A k \in 1..m : s[k] = t[k],
           NEW a \in Nat \ {0}, NEW b \in 0..m
    PROVE  SubSeq(s, a, b) = SubSeq(t, a, b)
<1> DEFINE u == SubSeq(s, a, b)
           v == SubSeq(t, a, b)
<1>1. Len(s) \in Nat /\ Len(t) \in Nat /\ b \in 0..Len(s) /\ b \in 0..Len(t)
  OBVIOUS
<1>2. /\ u \in Seq(X) /\ Len(u) = IF a <= b THEN b - a + 1 ELSE 0
      /\ \A k \in 1..Len(u) : u[k] = s[a + k - 1]
  BY <1>1, CutFacts
<1>3. /\ v \in Seq(X) /\ Len(v) = IF a <= b THEN b - a + 1 ELSE 0
      /\ \A k \in 1..Len(v) : v[k] = t[a + k - 1]
  BY <1>1, CutFacts
<1> HIDE DEF u, v
<1>4. \A k \in 1..Len(u) : u[k] = v[k]
  <2> SUFFICES ASSUME NEW k \in 1..Len(u) PROVE u[k] = v[k]
    OBVIOUS
  <2>1. a <= b /\ k <= b - a + 1 /\ k \in Nat /\ k >= 1
    BY <1>1, <1>2
  <2>2. a + k - 1 \in 1..m
    BY <2>1
  <2> QED
    BY <1>2, <1>3, <2>2
<1>5. u = v
  BY <1>2, <1>3, <1>4, SameSeq
<1> QED
  BY <1>5 DEF u, v

LEMMA FollowsRepeats ==
    ASSUME NEW X, NEW s \in Seq(X), NEW t \in Seq(X), NEW half, Follows(s, t, half),
           Repeats(t) = {}
    PROVE  Follows(WithoutRepeats(s), t, half)
<1>1. PICK m \in 0..Len(s) : /\ m <= Len(t)
                             /\ \A k \in 1..m : s[k] = t[k]
                             /\ \A k \in m + 1..Len(s) : half /\ s[k] = "<"
  BY DEF Follows
<1>2. Len(s) \in Nat /\ Len(t) \in Nat /\ m \in Nat /\ m <= Len(s)
  BY <1>1
<1>3. At(s, ".") = {i \in At(t, ".") : i <= m}
  BY <1>1, FollowsPlaces
<1>4. At(t, ".") \in SUBSET (1..Len(t))
  BY PlacesOf
<1>5. ASSUME NEW i \in 0..m PROVE StopBefore(s, i) = StopBefore(t, i)
  <2>1. {p \in At(s, ".") : p < i} = {p \in At(t, ".") : p < i}
    BY <1>2, <1>3, <1>4
  <2> QED
    BY <2>1 DEF StopBefore
<1>6. ASSUME NEW q \in Repeats(s) PROVE FALSE
  <2>1. /\ q \in At(s, ".") /\ StopBefore(s, q) # 0
        /\ Sentence(s, q) = Sentence(s, StopBefore(s, q))
    BY DEF Repeats
  <2>2. q \in At(t, ".") /\ q \in 0..m
    BY <1>2, <1>3, <1>4, <2>1
  <2> DEFINE p == StopBefore(s, q)
  <2>3. p = StopBefore(t, q) /\ p \in 0..m
    <3>1. p \in 0..Len(s) /\ (p # 0 => p < q)
      BY <2>2, StopsOf
    <3> QED
      BY <1>2, <1>5, <2>2, <3>1
  <2> HIDE DEF p
  <2>4. ASSUME NEW i \in 0..m PROVE Sentence(s, i) = Sentence(t, i)
    <3>1. StopBefore(s, i) = StopBefore(t, i)
      BY <1>5
    <3>2. StopBefore(s, i) + 1 \in Nat \ {0}
      <4>1. i \in Int
        OBVIOUS
      <4>2. StopBefore(s, i) \in 0..Len(s)
        BY <4>1, StopsOf
      <4> QED
        BY <4>2
    <3>3. SubSeq(s, StopBefore(s, i) + 1, i) = SubSeq(t, StopBefore(s, i) + 1, i)
      BY <1>1, <1>2, <3>2, SameSentence
    <3> QED
      BY <3>1, <3>3 DEF Sentence
  <2>5. Sentence(t, q) = Sentence(t, p)
    BY <2>1, <2>2, <2>3, <2>4 DEF p
  <2>6. q \in Repeats(t)
    BY <2>1, <2>2, <2>3, <2>5 DEF Repeats, p
  <2> QED
    BY <2>6
<1>7. Repeats(s) = {}
  BY <1>6
<1>8. WithoutRepeats(s) = SubSeq(s, 1, RepeatedFrom(s)) /\ RepeatedFrom(s) \in 0..Len(s)
  BY <1>7, WithoutRepeatsIs
<1> QED
  BY <1>8, FollowsStart

\* The places of a disclaimer and of the stop after it.
Disclaimed(t) ==
    UNION {{i, i + 1} \cup ({i + 2} \cap At(t, ".")) : i \in Pairs(t, "I_do_not", "have_memory")}

LEMMA DisclaimedIs ==
    ASSUME NEW X, NEW t \in Seq(X), Pairs(t, "I_do_not", "have_memory") \subseteq {1}, NEW i
    PROVE  i \in Disclaimed(t) <=>
              /\ 1 \in Pairs(t, "I_do_not", "have_memory")
              /\ i = 1 \/ i = 2 \/ (i = 3 /\ i \in 1..Len(t) /\ t[i] = ".")
<1> DEFINE P == Pairs(t, "I_do_not", "have_memory")
<1>1. At(t, ".") = {k \in 1..Len(t) : t[k] = "."}
  BY PlacesOf
<1>2. i \in Disclaimed(t) <=> \E j \in P : i = j \/ i = j + 1 \/ (i = j + 2 /\ i \in At(t, "."))
  BY DEF Disclaimed
<1> HIDE DEF P
<1>3. (\E j \in P : i = j \/ i = j + 1 \/ (i = j + 2 /\ i \in At(t, ".")))
      <=> 1 \in P /\ (i = 1 \/ i = 2 \/ (i = 3 /\ i \in At(t, ".")))
  BY DEF P
<1> QED
  BY <1>1, <1>2, <1>3 DEF P

\* What follows t without its disclaimer: s without its own, if s is more than the
\* beginning of one.
LEMMA BeginsDisclaimed ==
    ASSUME NEW X, NEW s \in Seq(X), NEW t \in Seq(X), Begins(s, t),
           Pairs(t, "I_do_not", "have_memory") \subseteq {1},
           ~IsPartialDisclaimer(s)
    PROVE  /\ ~IsPartialDisclaimer(t)
           /\ Begins(WithoutDisclaimers(s), WithoutDisclaimers(t))
<1>1. /\ Len(s) \in Nat /\ Len(t) \in Nat /\ Len(s) <= Len(t)
      /\ \A k \in 1..Len(s) : s[k] = t[k]
  BY DEF Begins
<1>2. s # <<>> /\ (s[1] # "I_do_not" \/ At(s, ".") # {})
  <2>1. s[1] # "I_do_not" \/ At(s, ".") # {}
    BY DEF IsPartialDisclaimer
  <2>2. ASSUME s = <<>> PROVE FALSE
    <3>1. At(s, ".") # {}
      BY <2>2 DEF IsPartialDisclaimer
    <3>2. At(s, ".") = {k \in 1..Len(s) : s[k] = "."}
      BY PlacesOf
    <3> QED
      BY <2>2, <3>1, <3>2
  <2> QED
    BY <2>1, <2>2
<1>3. Len(s) >= 1
  BY <1>1, <1>2
<1>4. t # <<>> /\ t[1] = s[1]
  BY <1>1, <1>3
<1>5. /\ At(s, ".") = {k \in 1..Len(s) : s[k] = "."}
      /\ At(t, ".") = {k \in 1..Len(t) : t[k] = "."}
  BY PlacesOf
<1>6. At(s, ".") \subseteq At(t, ".")
  BY <1>1, <1>5
<1>7. ~IsPartialDisclaimer(t)
  BY <1>2, <1>4, <1>6 DEF IsPartialDisclaimer
<1>8. Follows(s, t, FALSE)
  BY BeginsFollows
<1>9. Pairs(s, "I_do_not", "have_memory") \subseteq {1}
  BY <1>8, FollowsPairs
<1>10. 1 \in Pairs(s, "I_do_not", "have_memory") <=> 1 \in Pairs(t, "I_do_not", "have_memory")
  <2>1. ASSUME 1 \in Pairs(t, "I_do_not", "have_memory")
        PROVE  1 \in Pairs(s, "I_do_not", "have_memory")
    <3>1. t[1] = "I_do_not" /\ t[1 + 1] = "have_memory"
      BY <2>1, PairsOf
    <3>2. PICK k \in 1..Len(s) : s[k] = "."
      BY <1>2, <1>4, <1>5, <3>1
    <3>3. k # 1
      BY <1>4, <3>1, <3>2
    <3>4. 1 \in 1..Len(s) /\ 1 + 1 \in 1..Len(s)
      BY <1>1, <3>2, <3>3
    <3>5. s[1] = "I_do_not" /\ s[1 + 1] = "have_memory"
      BY <1>1, <3>1, <3>4
    <3> QED
      BY <3>4, <3>5, PairsOf
  <2>2. Pairs(s, "I_do_not", "have_memory") \subseteq Pairs(t, "I_do_not", "have_memory")
    BY <1>8, FollowsPairs
  <2> QED
    BY <2>1, <2>2
<1>11. ASSUME NEW i \in 1..Len(s) PROVE i \in Disclaimed(s) <=> i \in Disclaimed(t)
  <2>1. i \in 1..Len(t) /\ s[i] = t[i]
    BY <1>1
  <2>2. i \in Disclaimed(s) <=>
              /\ 1 \in Pairs(s, "I_do_not", "have_memory")
              /\ i = 1 \/ i = 2 \/ (i = 3 /\ i \in 1..Len(s) /\ s[i] = ".")
    BY <1>9, DisclaimedIs
  <2>3. i \in Disclaimed(t) <=>
              /\ 1 \in Pairs(t, "I_do_not", "have_memory")
              /\ i = 1 \/ i = 2 \/ (i = 3 /\ i \in 1..Len(t) /\ t[i] = ".")
    BY DisclaimedIs
  <2> QED
    BY <1>10, <2>1, <2>2, <2>3
<1>12. Begins(Without(s, Disclaimed(s)), Without(t, Disclaimed(t)))
  BY <1>11, WithoutBegins
<1> QED
  BY <1>7, <1>12 DEF WithoutDisclaimers, Disclaimed

\* The half of a tag is not part of a disclaimer.
LEMMA HalfStays ==
    ASSUME NEW X, NEW t \in Seq(X), Pairs(t, "I_do_not", "have_memory") \subseteq {1},
           "<" \notin Range(WithoutDisclaimers(t)), NEW i \in 1..Len(t)
    PROVE  t[i] # "<"
<1> SUFFICES ASSUME t[i] = "<" PROVE FALSE
  OBVIOUS
<1> DEFINE w == Without(t, Disclaimed(t))
           f == Left(Len(t), Disclaimed(t))
<1>1. w = WithoutDisclaimers(t)
  BY DEF WithoutDisclaimers, Disclaimed
<1>2. i \notin Disclaimed(t)
  <2> SUFFICES ASSUME i \in Disclaimed(t) PROVE FALSE
    OBVIOUS
  <2>1. /\ 1 \in Pairs(t, "I_do_not", "have_memory")
        /\ i = 1 \/ i = 2 \/ t[i] = "."
    BY DisclaimedIs
  <2>2. t[1] = "I_do_not" /\ t[1 + 1] = "have_memory"
    BY <2>1, PairsOf
  <2> QED
    BY <2>1, <2>2
<1>3. Picked(X, t, Disclaimed(t), w, f)
  BY WithoutFacts
<1> HIDE DEF w, f
<1>4. PICK k \in 1..Len(w) : f[k] = i
  BY <1>2, <1>3 DEF Picked
<1>5. w[k] = "<" /\ w \in Seq(X)
  BY <1>3, <1>4 DEF Picked
<1> QED
  BY <1>1, <1>4, <1>5 DEF Range

\* t is u and the beginning of a leak.
Ends(u, t) ==
    /\ Begins(u, t) /\ Len(u) + 1 <= Len(t) /\ t[Len(u) + 1] = "("
    /\ \A i \in 1..Len(t) :
          /\ t[i] # "|"
          /\ i # Len(u) + 1 => t[i] # "("
          /\ i > Len(u) => t[i] \notin {"<", "think>", "/think>", ")"}

LEMMA EndsWithout ==
    ASSUME NEW X, NEW u \in Seq(X), NEW t \in Seq(X), Ends(u, t), NEW S, Len(u) + 1 \notin S
    PROVE  Ends(Without(u, S), Without(t, S))
<1> DEFINE v == Without(u, S)
           w == Without(t, S)
           A == (1..Len(u)) \ S
           B == (1..Len(t)) \ S
           g == Left(Len(u), S)
           f == Left(Len(t), S)
<1>1. /\ Begins(u, t) /\ Len(u) + 1 \in 1..Len(t) /\ t[Len(u) + 1] = "("
      /\ Len(u) \in Nat /\ Len(t) \in Nat /\ Len(u) <= Len(t)
  BY DEF Ends, Begins
<1>2. \A i \in 1..Len(t) :
          /\ t[i] # "|"
          /\ i # Len(u) + 1 => t[i] # "("
          /\ i > Len(u) => t[i] \notin {"<", "think>", "/think>", ")"}
  BY DEF Ends
<1>3. Begins(v, w)
  BY <1>1, WithoutBegins
<1>4. Picked(X, u, S, v, g) /\ Picked(X, t, S, w, f)
  BY WithoutFacts
<1>5. \A k \in 1..Len(v) : g[k] = f[k]
  <2>1. A \in SUBSET Nat /\ IsFiniteSet(A) /\ B \in SUBSET Nat /\ IsFiniteSet(B)
    <3>1. A \in SUBSET (1..Len(u)) /\ B \in SUBSET (1..Len(t))
      OBVIOUS
    <3>2. Len(u) \in Nat /\ Len(t) \in Nat
      BY <1>1
    <3> HIDE DEF A, B, v, w, g, f
    <3>3. A \in SUBSET Nat /\ IsFiniteSet(A)
      BY <3>1, <3>2, FinitePlaces
    <3>4. B \in SUBSET Nat /\ IsFiniteSet(B)
      BY <3>1, <3>2, FinitePlaces
    <3> QED
      BY <3>3, <3>4
  <2>2. A \subseteq B /\ \A i \in B, j \in A : i <= j => i \in A
    BY <1>1
  <2>3. \A k \in 1..Cardinality(A) : InOrder(A)[k] = InOrder(B)[k]
    BY <2>1, <2>2, SameFirstPlaces
  <2>4. g = InOrder(A) /\ f = InOrder(B)
    BY DEF Left
  <2>5. Len(v) = Cardinality(A)
    <3> HIDE DEF v, g
    <3> QED
      BY <1>4 DEF Picked
  <2> QED
    BY <2>3, <2>4, <2>5
<1> HIDE DEF v, w, f, g
<1>6. /\ v \in Seq(X) /\ w \in Seq(X) /\ Len(v) \in Nat /\ Len(w) \in Nat
      /\ \A k \in 1..Len(v) : g[k] \in 1..Len(u)
      /\ \A i \in A : \E k \in 1..Len(v) : g[k] = i
  BY <1>4 DEF Picked
<1>7. /\ \A k \in 1..Len(w) : f[k] \in 1..Len(t) /\ f[k] \notin S /\ w[k] = t[f[k]]
      /\ \A k, m \in 1..Len(w) : k < m <=> f[k] < f[m]
      /\ \A i \in B : \E k \in 1..Len(w) : f[k] = i
  BY <1>4 DEF Picked
<1>8. Len(v) <= Len(w)
  BY <1>3 DEF Begins
<1>9. PICK c \in 1..Len(w) : f[c] = Len(u) + 1
  BY <1>1, <1>7
<1>10. c = Len(v) + 1
  <2>1. \A k \in 1..Len(v) : k < c
    <3> SUFFICES ASSUME NEW k \in 1..Len(v) PROVE k < c
      OBVIOUS
    <3>1. k \in 1..Len(w) /\ f[k] < f[c]
      BY <1>1, <1>5, <1>6, <1>8, <1>9
    <3> QED
      BY <1>7, <3>1
  <2>2. Len(v) < c
    BY <1>6, <2>1
  <2>3. ASSUME Len(v) + 1 < c PROVE FALSE
    <3> DEFINE d == Len(v) + 1
    <3>1. d \in 1..Len(w) /\ d < c /\ d \in Nat
      BY <1>6, <2>3
    <3> HIDE DEF d
    <3>2. f[d] < Len(u) + 1 /\ f[d] \in 1..Len(t) /\ f[d] \notin S
      BY <1>7, <1>9, <3>1
    <3>3. f[d] \in A
      BY <1>1, <3>2
    <3>4. PICK k \in 1..Len(v) : g[k] = f[d]
      BY <1>6, <3>3
    <3>5. k \in 1..Len(w) /\ f[k] = f[d] /\ k < d
      BY <1>5, <1>6, <1>8, <3>4 DEF d
    <3>6. f[k] < f[d]
      BY <1>7, <3>1, <3>5
    <3>7. f[d] \in Nat
      BY <3>2
    <3> QED
      BY <3>5, <3>6, <3>7
  <2> QED
    BY <1>6, <2>2, <2>3
<1>11. ASSUME NEW k \in 1..Len(w)
       PROVE  /\ w[k] # "|"
              /\ k # Len(v) + 1 => w[k] # "("
              /\ k > Len(v) => w[k] \notin {"<", "think>", "/think>", ")"}
  <2>1. f[k] \in 1..Len(t) /\ w[k] = t[f[k]]
    BY <1>7
  <2>2. f[k] = Len(u) + 1 => k = c
    <3> SUFFICES ASSUME f[k] = Len(u) + 1, k # c PROVE FALSE
      OBVIOUS
    <3>1. ~(f[k] < f[c]) /\ ~(f[c] < f[k])
      BY <1>1, <1>9
    <3>2. ~(k < c) /\ ~(c < k)
      BY <1>7, <3>1
    <3> QED
      BY <1>6, <3>2
  <2>3. k > Len(v) => f[k] > Len(u)
    <3> SUFFICES ASSUME k > Len(v) PROVE f[k] > Len(u)
      OBVIOUS
    <3>1. k = c \/ c < k
      BY <1>6, <1>10
    <3>2. f[k] = Len(u) + 1 \/ Len(u) + 1 < f[k]
      BY <1>7, <1>9, <3>1
    <3> QED
      BY <1>1, <2>1, <3>2
  <2> QED
    BY <1>2, <1>10, <2>1, <2>2, <2>3
<1>12. /\ Len(v) + 1 <= Len(w) /\ w[Len(v) + 1] = "("
  BY <1>1, <1>6, <1>7, <1>9, <1>10
<1>13. Ends(v, w)
  BY <1>3, <1>11, <1>12 DEF Ends
<1> QED
  BY <1>13 DEF v, w

LEMMA EndsTags ==
    ASSUME NEW X, NEW u \in Seq(X), NEW t \in Seq(X), Ends(u, t)
    PROVE  /\ Opened(t) = Opened(u) /\ Closed(t) = Closed(u)
           /\ \A i \in Opened(u) \cup Closed(u) : i \in 1..Len(u) /\ i + 1 \in 1..Len(u)
           /\ Len(u) \in Nat
<1>1. Begins(u, t) /\ Len(u) \in Nat /\ Len(t) \in Nat /\ Len(u) <= Len(t)
  BY DEF Ends, Begins
<1>2. Follows(u, t, FALSE)
  BY <1>1, BeginsFollows
<1>3. ASSUME NEW y \in {"think>", "/think>"} PROVE Pairs(t, "<", y) = Pairs(u, "<", y)
  <2>1. Pairs(u, "<", y) \subseteq Pairs(t, "<", y)
    BY <1>2, FollowsPairs
  <2>2. ASSUME NEW i \in Pairs(t, "<", y) PROVE i \in Pairs(u, "<", y)
    <3>1. i \in 1..Len(t) /\ i + 1 \in 1..Len(t) /\ t[i] = "<" /\ t[i + 1] = y
      BY PairsOf
    <3>2. ~(i + 1 > Len(u))
      BY <3>1 DEF Ends
    <3>3. i \in 1..Len(u) /\ i + 1 \in 1..Len(u)
      BY <1>1, <3>1, <3>2
    <3>4. u[i] = "<" /\ u[i + 1] = y
      BY <1>1, <3>1, <3>3 DEF Begins
    <3> QED
      BY <3>3, <3>4, PairsOf
  <2> QED
    BY <2>1, <2>2
<1>4. \A y : \A i \in Pairs(u, "<", y) : i \in 1..Len(u) /\ i + 1 \in 1..Len(u)
  BY PairsOf
<1> QED
  BY <1>1, <1>3, <1>4 DEF Opened, Closed

LEMMA TrimEnds ==
    ASSUME NEW X, NEW u \in Seq(X), NEW t \in Seq(X), Ends(u, t)
    PROVE  TrimTail(t) = TrimTail(u)
<1>1. /\ Len(u) \in Nat /\ Len(t) \in Nat /\ Len(u) + 1 <= Len(t)
      /\ t[Len(u) + 1] = "("
      /\ \A k \in 1..Len(u) : u[k] = t[k]
  BY DEF Ends, Begins
<1>2. \A i \in 1..Len(t) :
          /\ t[i] # "|"
          /\ i # Len(u) + 1 => t[i] # "("
          /\ i > Len(u) => t[i] # ")"
  BY DEF Ends
<1>3. \A x : /\ At(t, x) = {i \in 1..Len(t) : t[i] = x}
             /\ At(u, x) = {i \in 1..Len(u) : u[i] = x}
  BY PlacesOf
<1>4. At(t, "|") = {} /\ At(u, "|") = {} /\ At(u, "(") = {}
  BY <1>1, <1>2, <1>3
<1>5. At(t, "(") = {Len(u) + 1}
  BY <1>1, <1>2, <1>3
<1>6. At(u, ".") = {i \in At(t, ".") : i <= Len(u)}
  <2>1. \A i : i \in At(u, ".") <=> i \in At(t, ".") /\ i <= Len(u)
    BY <1>1, <1>3
  <2>2. \A i \in At(u, ".") : i \in At(t, ".")
    BY <2>1
  <2> QED
    BY <2>1, <2>2
<1>7. LastOf(At(t, "(")) = Len(u) + 1 /\ LastOf(At(t, ")")) <= Len(u)
      /\ LastOf(At(t, ")")) \in Nat
  <2>1. /\ LastOf(At(t, "(")) \in At(t, "(") \cup {0}
        /\ \A i \in At(t, "(") : i <= LastOf(At(t, "("))
        /\ LastOf(At(t, ")")) \in At(t, ")") \cup {0}
        /\ LastOf(At(t, ")")) \in 0..Len(t)
    BY LastAt
  <2>2. LastOf(At(t, "(")) = Len(u) + 1
    <3>1. LastOf(At(t, "(")) \in {Len(u) + 1, 0}
      BY <1>5, <2>1
    <3>2. Len(u) + 1 <= LastOf(At(t, "("))
      BY <1>5, <2>1
    <3> QED
      BY <1>1, <3>1, <3>2
  <2>3. LastOf(At(t, ")")) <= Len(u)
    BY <1>1, <1>2, <1>3, <2>1
  <2> QED
    BY <1>1, <2>1, <2>2, <2>3
<1>8. LastOf(At(u, "(")) = 0 /\ LastOf(At(u, ")")) \in Nat
  <2>1. LastOf(At(u, ")")) \in 0..Len(u) /\ (LastOf(At(u, "(")) = 0 <=> At(u, "(") = {})
    BY LastAt
  <2> QED
    BY <1>4, <2>1
<1> DEFINE stop == LastOf(At(u, "."))
<1>9. TrimmedTo(t) = IF stop = 0 THEN Len(u) ELSE stop
  <2>1. LastOf(At(t, "(")) > LastOf(At(t, ")"))
    BY <1>1, <1>7
  <2>2. LastOf(At(t, "(")) - 1 = Len(u)
    BY <1>1, <1>7
  <2> QED
    BY <1>4, <1>6, <2>1, <2>2, Zenon DEF TrimmedTo
<1>10. TrimmedTo(u) = IF stop = 0 THEN Len(u) ELSE stop
  <2>1. ~(LastOf(At(u, "(")) > LastOf(At(u, ")")))
    BY <1>8
  <2>2. {i \in At(u, ".") : i <= Len(u)} = At(u, ".")
    BY <1>1, <1>3
  <2> QED
    BY <1>4, <2>1, <2>2, Zenon DEF TrimmedTo
<1>11. /\ TrimTail(t) = SubSeq(t, 1, TrimmedTo(t)) /\ TrimTail(u) = SubSeq(u, 1, TrimmedTo(u))
       /\ TrimmedTo(u) \in 0..Len(u)
  BY TrimTailIs
<1>12. SubSeq(t, 1, TrimmedTo(u)) = SubSeq(u, 1, TrimmedTo(u))
  <2>1. Len(u) <= Len(t) /\ 1 \in Nat \ {0}
    BY <1>1
  <2>2. \A k \in 1..Len(u) : t[k] = u[k]
    BY <1>1
  <2> QED
    BY <1>1, <1>11, <2>1, <2>2, SameSentence
<1> QED
  BY <1>9, <1>10, <1>11, <1>12

\* Where a block of thinking is: from its opening to the second piece of the first closing.
LEMMA BlockIs ==
    ASSUME NEW P \in SUBSET Nat, NEW Q \in SUBSET Nat, NEW o \in Nat, P = {o},
           NEW c \in Q, \A j \in Q : c <= j, o < c, NEW i
    PROVE  i \in Spans(P, {j + 1 : j \in Q}) <=> i \in o..c + 1
<1> DEFINE E == {j + 1 : j \in Q}
<1>1. E \in SUBSET Nat
  OBVIOUS
<1>2. i \in Spans(P, E) <=>
         \E p \in P, q \in E : /\ p < q /\ \A r \in E : ~(p < r /\ r < q)
                               /\ i \in p..q
  <2> HIDE DEF E
  <2> QED
    BY <1>1, SpansOf
<1>3. c + 1 \in E /\ o < c + 1 /\ \A r \in E : c + 1 <= r /\ r \in Nat
  OBVIOUS
<1> HIDE DEF E
<1>4. ASSUME NEW p \in P, NEW q \in E, p < q, \A r \in E : ~(p < r /\ r < q)
      PROVE  p = o /\ q = c + 1
  <2>1. p = o
    OBVIOUS
  <2>2. ~(c + 1 < q) /\ c + 1 <= q
    BY <1>3, <1>4, <2>1
  <2> QED
    BY <1>3, <2>1, <2>2
<1>5. \A r \in E : ~(o < r /\ r < c + 1)
  BY <1>3
<1> QED
  BY <1>2, <1>3, <1>4, <1>5 DEF E

\* Nothing changes of a text without tags.
LEMMA NoTags ==
    ASSUME NEW X, NEW t \in Seq(X)
    PROVE  /\ Closed(t) = {} => WithoutThinking(t) = t
           /\ Opened(t) \cup Closed(t) = {} => WithoutTags(t) = t
<1>1. ASSUME Closed(t) = {} PROVE WithoutThinking(t) = t
  <2>1. Opened(t) \in SUBSET Nat
    BY PairsOf DEF Opened
  <2>2. \A i : i \notin Spans(Opened(t), {})
    BY <2>1, SpansOf
  <2>3. {i + 1 : i \in Closed(t)} = {}
    BY <1>1
  <2>4. Without(t, Spans(Opened(t), {})) = t
    BY <2>2, WithoutNothing
  <2> QED
    BY <2>3, <2>4 DEF WithoutThinking
<1>2. ASSUME Opened(t) \cup Closed(t) = {} PROVE WithoutTags(t) = t
  <2>1. WithoutTags(t) = Without(t, {} \cup {i + 1 : i \in {}})
    BY <1>2 DEF WithoutTags
  <2>2. Without(t, {} \cup {i + 1 : i \in {}}) = t
    BY WithoutNothing
  <2> QED
    BY <2>1, <2>2
<1> QED
  BY <1>1, <1>2

LEMMA BeginsPairs ==
    ASSUME NEW X, NEW s \in Seq(X), NEW t \in Seq(X), Begins(s, t), NEW x, NEW y
    PROVE  /\ Pairs(s, x, y) = {i \in Pairs(t, x, y) : i + 1 <= Len(s)}
           /\ Pairs(t, x, y) \in SUBSET (1..Len(t)) /\ Len(t) \in Nat
           /\ Pairs(s, x, y) \in SUBSET (1..Len(s)) /\ Len(s) \in Nat
<1>1. Len(s) \in 0..Len(t)
  BY DEF Begins
<1>2. IsPrefix(s, t)
  BY BeginsIsPrefix
<1>3. s = SubSeq(t, 1, Len(s))
  BY <1>2 DEF IsPrefix
<1>4. Pairs(SubSeq(t, 1, Len(s)), x, y) = {i \in Pairs(t, x, y) : i + 1 <= Len(s)}
  BY <1>1, SameAtStart
<1>5. Pairs(t, x, y) \in SUBSET (1..Len(t)) /\ Pairs(s, x, y) \in SUBSET (1..Len(s))
  BY PairsOf
<1>6. Len(t) \in Nat /\ Len(s) \in Nat
  OBVIOUS
<1> QED
  BY <1>3, <1>4, <1>5, <1>6

\* A text without its thinking and its tags.
Bare(t) == WithoutTags(WithoutThinking(t))

\* What has arrived, once a block of thinking that it opens is closed, begins the text
\* when both are bare, but for the half of a tag.
LEMMA BareFollows ==
    ASSUME NEW X, NEW l \in Seq(X), NEW t \in Seq(X), Begins(l, t), OneBlock(t),
           Opened(t) = {} => Closed(t) = {},
           Opened(l) = {} \/ Closed(l) # {},
           Closed(t) # {} =>
              Opened(WithoutThinking(t)) \cup Closed(WithoutThinking(t)) = {}
    PROVE  /\ Closed(WithoutThinking(l)) = {}
           /\ Follows(Bare(l), Bare(t), Opened(t) # {})
<1> DEFINE half == Opened(t) # {}
<1>1. /\ Opened(l) = {i \in Opened(t) : i + 1 <= Len(l)}
      /\ Closed(l) = {i \in Closed(t) : i + 1 <= Len(l)}
      /\ Opened(t) \in SUBSET (1..Len(t)) /\ Closed(t) \in SUBSET (1..Len(t))
      /\ Opened(l) \in SUBSET (1..Len(l)) /\ Closed(l) \in SUBSET (1..Len(l))
      /\ Len(l) \in Nat /\ Len(t) \in Nat
  BY BeginsPairs DEF Opened, Closed
<1>2. /\ Len(l) <= Len(t) /\ \A k \in 1..Len(l) : l[k] = t[k]
  BY DEF Begins
<1>3. /\ WithoutThinking(l) \in Seq(X) /\ WithoutThinking(t) \in Seq(X)
      /\ Bare(l) \in Seq(X) /\ Bare(t) \in Seq(X)
  BY CleanChatType DEF Bare
<1>4. \A o \in Opened(t) : Opened(t) = {o} /\ \A j \in Closed(t) : o < j
  <2> SUFFICES ASSUME NEW o \in Opened(t)
               PROVE  Opened(t) = {o} /\ \A j \in Closed(t) : o < j
    OBVIOUS
  <2>1. ASSUME NEW i \in Opened(t) PROVE i = o
    <3>1. i <= o /\ o <= i
      BY DEF OneBlock
    <3> QED
      BY <1>1, <3>1
  <2>2. ASSUME NEW j \in Closed(t) PROVE o < j
    <3>1. o <= j
      BY DEF OneBlock
    <3>2. t[o + 1] = "think>" /\ t[j + 1] = "/think>"
      BY PairsOf DEF Opened, Closed
    <3>3. o # j
      BY <3>2
    <3> QED
      BY <1>1, <3>1, <3>3
  <2> QED
    BY <2>1, <2>2
<1>5. CASE Closed(l) # {}
  <2>1. Closed(t) # {} /\ Opened(t) # {}
    BY <1>1, <1>5
  <2>2. PICK o \in Opened(t) : TRUE
    BY <2>1
  <2>3. PICK c \in Closed(t) : \A j \in Closed(t) : c <= j
    BY <1>1, <2>1, LeastPlace
  <2>4. c \in Closed(l) /\ \A j \in Closed(l) : c <= j
    <3>1. PICK j \in Closed(l) : TRUE
      BY <1>5
    <3>2. j \in Closed(t) /\ j + 1 <= Len(l) /\ c <= j
      BY <1>1, <2>3, <3>1
    <3>3. c + 1 <= Len(l)
      BY <1>1, <3>2
    <3> QED
      BY <1>1, <2>3, <3>3
  <2>5. Opened(t) = {o} /\ o < c /\ o \in Nat /\ c \in Nat
    BY <1>1, <1>4
  <2>6. Opened(l) = {o}
    <3>1. o + 1 <= Len(l)
      BY <1>1, <2>4, <2>5
    <3> QED
      BY <1>1, <2>5, <3>1
  <2> DEFINE S == Spans(Opened(l), {j + 1 : j \in Closed(l)})
             T == Spans(Opened(t), {j + 1 : j \in Closed(t)})
  <2>7. \A i : i \in S <=> i \in o..c + 1
    <3>1. Opened(l) \in SUBSET Nat /\ Closed(l) \in SUBSET Nat
      BY <1>1
    <3> QED
      BY <2>4, <2>5, <2>6, <3>1, BlockIs
  <2>8. \A i : i \in T <=> i \in o..c + 1
    <3>1. Opened(t) \in SUBSET Nat /\ Closed(t) \in SUBSET Nat
      BY <1>1
    <3> QED
      BY <2>3, <2>5, <3>1, BlockIs
  <2>9. WithoutThinking(l) = Without(l, S) /\ WithoutThinking(t) = Without(t, T)
    BY DEF WithoutThinking
  <2> HIDE DEF S, T
  <2>10. Begins(WithoutThinking(l), WithoutThinking(t))
    BY <2>7, <2>8, <2>9, WithoutBegins
  <2>11. Opened(WithoutThinking(t)) = {} /\ Closed(WithoutThinking(t)) = {}
    BY <2>1
  <2>12. Opened(WithoutThinking(l)) = {} /\ Closed(WithoutThinking(l)) = {}
    BY <1>3, <2>10, <2>11, BeginsPairs DEF Opened, Closed
  <2>13. Bare(l) = WithoutThinking(l) /\ Bare(t) = WithoutThinking(t)
    BY <1>3, <2>11, <2>12, NoTags DEF Bare
  <2> QED
    BY <1>3, <2>10, <2>12, <2>13, BeginsFollows
<1>6. CASE Closed(l) = {}
  <2>1. Opened(l) = {}
    BY <1>6
  <2>2. WithoutThinking(l) = l /\ Bare(l) = l
    BY <1>6, <2>1, NoTags DEF Bare
  <2>3. CASE Opened(t) = {}
    <3>1. WithoutThinking(t) = t /\ Bare(t) = t
      BY <2>3, NoTags DEF Bare
    <3> QED
      BY <1>6, <2>2, <3>1, BeginsFollows
  <2>4. CASE Opened(t) # {}
    <3>1. PICK o \in Opened(t) : TRUE
      BY <2>4
    <3>2. Opened(t) = {o} /\ o \in 1..Len(t) /\ t[o] = "<" /\ Len(l) <= o
      <4>1. o \in 1..Len(t) /\ t[o] = "<"
        BY PairsOf DEF Opened
      <4>2. ~(o + 1 <= Len(l))
        BY <1>1, <2>1
      <4> QED
        BY <1>1, <1>4, <4>1, <4>2
    <3>3. \E B : Bare(t) = Without(t, B) /\ \A i \in 1..o - 1 : i \notin B
      <4>1. CASE Closed(t) = {}
        <5> DEFINE B == {o} \cup {o + 1}
        <5>1. WithoutThinking(t) = t
          BY <4>1, NoTags
        <5>2. Bare(t) = Without(t, B)
          <6>1. Opened(t) \cup Closed(t) = {o}
            BY <3>2, <4>1
          <6>2. {i + 1 : i \in {o}} = {o + 1}
            OBVIOUS
          <6> QED
            BY <5>1, <6>1, <6>2, Zenon DEF Bare, WithoutTags
        <5>3. \A i \in 1..o - 1 : i \notin B
          BY <3>2
        <5> QED
          BY <5>2, <5>3
      <4>2. CASE Closed(t) # {}
        <5>1. PICK c \in Closed(t) : \A j \in Closed(t) : c <= j
          BY <1>1, <4>2, LeastPlace
        <5> DEFINE T == Spans(Opened(t), {j + 1 : j \in Closed(t)})
        <5>2. \A i : i \in T <=> i \in o..c + 1
          <6>1. Opened(t) \in SUBSET Nat /\ Closed(t) \in SUBSET Nat /\ o \in Nat /\ o < c
            BY <1>1, <1>4
          <6> QED
            BY <3>2, <5>1, <6>1, BlockIs
        <5>3. WithoutThinking(t) = Without(t, T)
          BY DEF WithoutThinking
        <5>4. Bare(t) = WithoutThinking(t)
          BY <1>3, <4>2, NoTags DEF Bare
        <5> HIDE DEF T
        <5>5. \A i \in 1..o - 1 : i \notin T
          BY <3>2, <5>2
        <5> QED
          BY <5>3, <5>4, <5>5
      <4> QED
        BY <4>1, <4>2
    <3>4. PICK B : Bare(t) = Without(t, B) /\ \A i \in 1..o - 1 : i \notin B
      BY <3>3
    <3> DEFINE m == IF Len(l) < o THEN Len(l) ELSE o - 1
               k == SubSeq(l, 1, m)
    <3>5. m \in 0..Len(l) /\ m <= o - 1 /\ \A i \in m + 1..Len(l) : i = o
      BY <1>1, <3>2
    <3> HIDE DEF m
    <3>6. k \in Seq(X) /\ Len(k) = m /\ (\A i \in 1..m : k[i] = l[i]) /\ Begins(k, l)
      BY <3>5, StartFacts
    <3> HIDE DEF k
    <3>7. Begins(k, t)
      BY <3>6, BeginsChain
    <3>8. \A i \in 1..Len(k) : i \in {} <=> i \in B
      BY <3>4, <3>5, <3>6, <3>2
    <3>9. Begins(Without(k, {}), Without(t, B))
      BY <3>6, <3>7, <3>8, WithoutBegins
    <3>10. Begins(k, Bare(t))
      <4>1. Without(k, {}) = k
        BY <3>6, WithoutNothing
      <4> QED
        BY <3>4, <3>9, <4>1
    <3>11. /\ m <= Len(Bare(t)) /\ \A i \in 1..m : l[i] = Bare(t)[i]
      BY <3>6, <3>10 DEF Begins
    <3>12. \A i \in m + 1..Len(l) : Opened(t) # {} /\ l[i] = "<"
      BY <1>1, <1>2, <2>4, <3>2, <3>5
    <3>13. Follows(l, Bare(t), Opened(t) # {})
      BY <3>5, <3>11, <3>12 DEF Follows
    <3> QED
      BY <1>6, <2>2, <3>13
  <2> QED
    BY <2>3, <2>4
<1> QED
  BY <1>5, <1>6

-----------------------------------------------------------------------------
(* The cleaning of a text that takes nothing back, and of what has arrived of it. *)

SaidOf(t)  == WithoutTags(Spoken(t))
Cleaned(t) == WithoutLeaks(CleanChatAnswer(WithoutLeaks(t)))

\* Nothing of TakesBack but what needs to know what is visible, or how many parentheses
\* and disclaimers there are.
Settled(t) ==
    /\ OneBlock(t) /\ ~LeakAtTag(t)
    /\ Opened(t) = {} => Closed(t) = {}
    /\ Closed(t) # {} => Opened(Spoken(t)) \cup Closed(Spoken(t)) = {}
    /\ Leaks(SaidOf(t)) = {}
    /\ Pairs(SaidOf(t), "answer", ":") \subseteq {1}
    /\ WithoutRepeats(TrimTail(SaidOf(t))) = TrimTail(SaidOf(t))

LEMMA CleanedIs ==
    ASSUME NEW X, NEW t \in Seq(X), Closed(Spoken(t)) = {}
    PROVE  /\ SaidOf(t) \in Seq(X) /\ Cleaned(t) \in Seq(X)
           /\ Cleaned(t) =
                 WithoutLeaks(WithoutRepeats(TrimTail(WithoutRemarks(SaidOf(t)))))
<1> DEFINE s == SaidOf(t)
           b == WithoutRemarks(s)
           c == TrimTail(b)
           d == WithoutRepeats(c)
<1>1. Spoken(t) \in Seq(X)
  BY CleanChatType
<1>2. AfterStrayClose(Spoken(t)) = Spoken(t)
  BY <1>1, AfterStrayType
<1>3. s \in Seq(X)
  BY <1>1, CleanChatType DEF SaidOf
<1>4. Cleaned(t) = WithoutLeaks(d)
  <2>1. Cleaned(t) = WithoutLeaks(WithoutRepeats(TrimTail(WithoutRemarks(WithoutTags(
                        AfterStrayClose(WithoutThinking(WithoutLeaks(t))))))))
    BY DEF Cleaned, CleanChatAnswer
  <2>2. AfterStrayClose(WithoutThinking(WithoutLeaks(t))) = Spoken(t)
    BY <1>2 DEF Spoken
  <2> QED
    BY <2>1, <2>2 DEF SaidOf
<1> HIDE DEF s
<1>5. b \in Seq(X)
  BY <1>3, CleanChatType
<1> HIDE DEF b
<1>6. c \in Seq(X)
  BY <1>5, CleanChatType
<1> HIDE DEF c
<1>7. d \in Seq(X)
  BY <1>6, WithoutRepeatsIs
<1> HIDE DEF d
<1>8. Cleaned(t) \in Seq(X)
  BY <1>4, <1>7, CleanChatType
<1> QED
  BY <1>3, <1>4, <1>8 DEF s, b, c, d

LEMMA NoRemarks ==
    ASSUME NEW X, NEW t \in Seq(X), Pairs(t, "answer", ":") \subseteq {1}
    PROVE  WithoutRemarks(t) = t
<1> DEFINE S == {i \in DOMAIN t : \E j \in Pairs(t, "answer", ":") \ {1} : j <= i}
<1>1. S = {}
  OBVIOUS
<1>2. WithoutRemarks(t) = Without(t, S)
  BY DEF WithoutRemarks
<1> HIDE DEF S
<1> QED
  BY <1>1, <1>2, WithoutNothing

LEMMA TagsOfSpoken ==
    ASSUME NEW X, NEW t \in Seq(X), ~LeakAtTag(t)
    PROVE  /\ Opened(WithoutLeaks(t)) = {} <=> Opened(t) = {}
           /\ Closed(WithoutLeaks(t)) = {} <=> Closed(t) = {}
           /\ OneBlock(t) => OneBlock(WithoutLeaks(t))
<1> DEFINE L == Leaks(t)
           w == Without(t, L)
           f == Left(Len(t), L)
<1>1. Picked(X, t, L, w, f)
  BY WithoutFacts
<1>2. /\ \A i \in Opened(t) : \E a \in 1..Len(w) : f[a] = i /\ a \in Opened(w)
      /\ \A i \in Closed(t) : \E a \in 1..Len(w) : f[a] = i /\ a \in Closed(w)
      /\ \A a \in 1..Len(w) : a \in Opened(w) => f[a] \in Opened(t)
      /\ \A a \in 1..Len(w) : a \in Closed(w) => f[a] \in Closed(t)
  BY TagsSpared, PairsFound, PairsKept DEF Opened, Closed
<1> HIDE DEF w, f, L
<1>3. w \in Seq(X) /\ Len(w) \in Nat
  BY <1>1 DEF Picked
<1>4. /\ \A a, b \in 1..Len(w) : a < b <=> f[a] < f[b]
      /\ \A a \in 1..Len(w) : f[a] \in 1..Len(t)
  BY <1>1 DEF Picked
<1>5. Opened(w) \in SUBSET (1..Len(w)) /\ Closed(w) \in SUBSET (1..Len(w))
  BY <1>3, PairsOf DEF Opened, Closed
<1>6. Opened(w) = {} <=> Opened(t) = {}
  BY <1>2, <1>5
<1>7. Closed(w) = {} <=> Closed(t) = {}
  BY <1>2, <1>5
<1>8. ASSUME OneBlock(t), NEW i \in Opened(w), NEW j \in Opened(w) \cup Closed(w)
      PROVE  i <= j
  <2>1. i \in 1..Len(w) /\ j \in 1..Len(w)
    BY <1>5
  <2>2. f[i] \in Opened(t) /\ f[j] \in Opened(t) \cup Closed(t)
    BY <1>2, <2>1
  <2>3. f[i] <= f[j]
    BY <1>8, <2>2 DEF OneBlock
  <2>4. ~(f[j] < f[i])
    <3>1. f[i] \in 1..Len(t) /\ f[j] \in 1..Len(t)
      BY <1>4, <2>1
    <3> QED
      BY <2>3, <3>1
  <2> QED
    BY <1>3, <1>4, <2>1, <2>4
<1> QED
  BY <1>6, <1>7, <1>8 DEF OneBlock, w, L, WithoutLeaks

\* If no leak is cut by the end of what has arrived.
LEMMA SaidFollows ==
    ASSUME NEW X, NEW r \in Seq(X), NEW t \in Seq(X), Begins(r, t), Settled(t),
           ~LeakAtTag(r), \A i \in 1..Len(r) : i \in Leaks(r) <=> i \in Leaks(t),
           Opened(r) = {} \/ Closed(r) # {}
    PROVE  /\ Closed(Spoken(r)) = {}
           /\ Follows(SaidOf(r), SaidOf(t), Opened(t) # {})
<1> DEFINE l == WithoutLeaks(r)
           m == WithoutLeaks(t)
<1>1. l \in Seq(X) /\ m \in Seq(X)
  BY CleanChatType
<1>2. Begins(l, m)
  BY WithoutBegins DEF WithoutLeaks
<1>3. /\ OneBlock(t) /\ ~LeakAtTag(t)
      /\ Opened(t) = {} => Closed(t) = {}
      /\ Closed(t) # {} => Opened(Spoken(t)) \cup Closed(Spoken(t)) = {}
  BY DEF Settled
<1>4. /\ Opened(m) = {} <=> Opened(t) = {}
      /\ Closed(m) = {} <=> Closed(t) = {}
      /\ OneBlock(m)
  BY <1>3, TagsOfSpoken
<1>5. /\ Opened(l) = {} <=> Opened(r) = {}
      /\ Closed(l) = {} <=> Closed(r) = {}
  BY TagsOfSpoken
<1>6. Spoken(t) = WithoutThinking(m) /\ Spoken(r) = WithoutThinking(l)
  BY DEF Spoken
<1>7. SaidOf(t) = Bare(m) /\ SaidOf(r) = Bare(l)
  BY DEF SaidOf, Bare, Spoken
<1> HIDE DEF l, m
<1>8. /\ Closed(WithoutThinking(l)) = {}
      /\ Follows(Bare(l), Bare(m), Opened(m) # {})
  <2>1. Opened(l) = {} \/ Closed(l) # {}
    BY <1>5
  <2>2. Opened(m) = {} => Closed(m) = {}
    BY <1>3, <1>4
  <2>3. Closed(m) # {} => Opened(WithoutThinking(m)) \cup Closed(WithoutThinking(m)) = {}
    BY <1>3, <1>4, <1>6
  <2> QED
    BY <1>1, <1>2, <1>4, <2>1, <2>2, <2>3, BareFollows
<1>9. (Opened(m) # {}) = (Opened(t) # {})
  BY <1>4
<1> QED
  BY <1>6, <1>7, <1>8, <1>9

LEMMA SettledIs ==
    ASSUME NEW X, NEW t \in Seq(X), Settled(t)
    PROVE  /\ Closed(Spoken(t)) = {}
           /\ Cleaned(t) = TrimTail(SaidOf(t))
           /\ Cleaned(t) \in Seq(X) /\ SaidOf(t) \in Seq(X)
           /\ Leaks(Cleaned(t)) = {} /\ Repeats(Cleaned(t)) = {}
           /\ Begins(Cleaned(t), SaidOf(t))
<1> DEFINE s == SaidOf(t)
           c == TrimTail(s)
<1>1. /\ ~LeakAtTag(t)
      /\ Closed(t) # {} => Opened(Spoken(t)) \cup Closed(Spoken(t)) = {}
      /\ Leaks(s) = {} /\ Pairs(s, "answer", ":") \subseteq {1} /\ WithoutRepeats(c) = c
  BY DEF Settled
<1>2. Closed(Spoken(t)) = {}
  <2>1. CASE Closed(t) # {}
    BY <1>1, <2>1
  <2>2. CASE Closed(t) = {}
    <3>1. WithoutLeaks(t) \in Seq(X) /\ Closed(WithoutLeaks(t)) = {}
      BY <1>1, <2>2, TagsOfSpoken, CleanChatType
    <3>2. Spoken(t) = WithoutLeaks(t)
      BY <3>1, NoTags DEF Spoken
    <3> QED
      BY <3>1, <3>2
  <2> QED
    BY <2>1, <2>2
<1>3. s \in Seq(X) /\ Cleaned(t) \in Seq(X)
      /\ Cleaned(t) = WithoutLeaks(WithoutRepeats(TrimTail(WithoutRemarks(s))))
  BY <1>2, CleanedIs
<1> HIDE DEF s
<1>4. WithoutRemarks(s) = s
  BY <1>1, <1>3, NoRemarks
<1>5. Cleaned(t) = WithoutLeaks(c) /\ c \in Seq(X)
  BY <1>1, <1>3, <1>4, CleanChatType
<1>6. TrimmedTo(s) \in 0..Len(s) /\ c = SubSeq(s, 1, TrimmedTo(s))
  BY <1>3, TrimTailIs
<1>7. Leaks(c) \subseteq Leaks(s) /\ Begins(c, s)
  BY <1>3, <1>6, SameAtStart, StartFacts
<1>8. Repeats(c) = {}
  BY <1>1, <1>5, RepeatsShorten
<1>9. WithoutLeaks(c) = c
  BY <1>1, <1>5, <1>7, WithoutNothing DEF WithoutLeaks
<1> QED
  BY <1>1, <1>2, <1>3, <1>5, <1>7, <1>8, <1>9 DEF s

LEMMA CleanedFollows ==
    ASSUME NEW X, NEW r \in Seq(X), NEW t \in Seq(X), Settled(t), NEW half,
           Closed(Spoken(r)) = {}, Follows(SaidOf(r), SaidOf(t), half)
    PROVE  /\ Pairs(SaidOf(r), "answer", ":") \subseteq {1}
           /\ Follows(Cleaned(r), Cleaned(t), half)
<1> DEFINE s == SaidOf(r)
           c == TrimTail(s)
           d == WithoutRepeats(c)
           w == Cleaned(t)
<1>1. /\ w = TrimTail(SaidOf(t)) /\ w \in Seq(X) /\ SaidOf(t) \in Seq(X)
      /\ Leaks(w) = {} /\ Repeats(w) = {}
  BY SettledIs
<1>2. s \in Seq(X) /\ Cleaned(r) = WithoutLeaks(WithoutRepeats(TrimTail(WithoutRemarks(s))))
  BY CleanedIs
<1>3. Pairs(SaidOf(t), "answer", ":") \subseteq {1}
  BY DEF Settled
<1> HIDE DEF w
<1>4. Pairs(s, "answer", ":") \subseteq {1}
  BY <1>1, <1>2, <1>3, FollowsPairs
<1>5. Follows(s, SaidOf(t), half)
  OBVIOUS
<1> HIDE DEF s
<1>6. WithoutRemarks(s) = s
  BY <1>2, <1>4, NoRemarks
<1>7. Follows(c, w, half) /\ c \in Seq(X)
  BY <1>1, <1>2, <1>5, TrimFollows, CleanChatType
<1> HIDE DEF c
<1>8. Follows(d, w, half) /\ d \in Seq(X)
  BY <1>1, <1>7, FollowsRepeats, WithoutRepeatsIs
<1>9. Cleaned(r) = WithoutLeaks(d)
  BY <1>2, <1>6 DEF c
<1> HIDE DEF d
<1>10. WithoutLeaks(d) = d
  BY <1>1, <1>8, FollowsLeaks
<1> QED
  BY <1>4, <1>8, <1>9, <1>10 DEF s, w

\* The beginning of a leak, cut by the end of what has arrived, goes with the tail.
LEMMA LeakGoes ==
    ASSUME NEW X, NEW u \in Seq(X), NEW r \in Seq(X), Ends(u, r),
           Leaks(u) = {}, Leaks(r) = {},
           Closed(Spoken(u)) = {}, Pairs(SaidOf(u), "answer", ":") \subseteq {1}
    PROVE  Cleaned(r) = Cleaned(u)
<1>1. WithoutLeaks(u) = u /\ WithoutLeaks(r) = r
  BY WithoutNothing DEF WithoutLeaks
<1> DEFINE S == Spans(Opened(u), {i + 1 : i \in Closed(u)})
           v == WithoutThinking(u)
           w == WithoutThinking(r)
<1>2. /\ Opened(r) = Opened(u) /\ Closed(r) = Closed(u)
      /\ \A i \in Opened(u) \cup Closed(u) : i \in 1..Len(u) /\ i + 1 \in 1..Len(u)
      /\ Len(u) \in Nat
  BY EndsTags
<1>3. v = Without(u, S) /\ w = Without(r, S)
  BY <1>2 DEF WithoutThinking
<1>4. Len(u) + 1 \notin S
  <2> DEFINE E == {i + 1 : i \in Closed(u)}
  <2>1. Opened(u) \in SUBSET Nat /\ E \in SUBSET (1..Len(u)) /\ E \in SUBSET Nat
    BY <1>2
  <2> HIDE DEF E
  <2>2. ASSUME Len(u) + 1 \in Spans(Opened(u), E) PROVE FALSE
    <3>1. PICK p \in Opened(u), q \in E :
             /\ p < q /\ \A k \in E : ~(p < k /\ k < q)
             /\ Len(u) + 1 \in p..q
      BY <2>1, <2>2, SpansOf
    <3>2. p \in 1..Len(u) /\ q \in 1..Len(u) /\ Len(u) + 1 <= q
      BY <1>2, <2>1, <3>1
    <3> QED
      BY <1>2, <3>2
  <2> QED
    BY <2>2 DEF E
<1> HIDE DEF S
<1>5. v \in Seq(X) /\ w \in Seq(X)
  BY CleanChatType
<1>6. Ends(v, w)
  BY <1>3, <1>4, EndsWithout
<1>7. Spoken(u) = v /\ Spoken(r) = w
  BY <1>1 DEF Spoken
<1> HIDE DEF v, w
<1>8. /\ Opened(w) = Opened(v) /\ Closed(w) = Closed(v)
      /\ \A i \in Opened(v) \cup Closed(v) : i \in 1..Len(v) /\ i + 1 \in 1..Len(v)
      /\ Len(v) \in Nat
  BY <1>5, <1>6, EndsTags
<1>9. Closed(Spoken(r)) = {}
  BY <1>7, <1>8
<1> DEFINE a == SaidOf(u)
           b == SaidOf(r)
           T == (Opened(v) \cup Closed(v)) \cup {i + 1 : i \in Opened(v) \cup Closed(v)}
<1>10. a = Without(v, T) /\ b = Without(w, T)
  BY <1>7, <1>8 DEF SaidOf, WithoutTags
<1>11. Len(v) + 1 \notin T
  BY <1>8
<1> HIDE DEF T
<1>12. a \in Seq(X) /\ b \in Seq(X)
  BY <1>5, <1>10, WithoutType
<1>13. Ends(a, b)
  BY <1>5, <1>6, <1>10, <1>11, EndsWithout
<1>14. Pairs(a, "answer", ":") \subseteq {1}
  OBVIOUS
<1>15. /\ Cleaned(u) = WithoutLeaks(WithoutRepeats(TrimTail(WithoutRemarks(a))))
       /\ Cleaned(r) = WithoutLeaks(WithoutRepeats(TrimTail(WithoutRemarks(b))))
  BY <1>9, CleanedIs
<1> HIDE DEF a, b
<1>16. WithoutRemarks(a) = a
  BY <1>12, <1>14, NoRemarks
<1> DEFINE R == {i \in DOMAIN b : \E j \in Pairs(b, "answer", ":") \ {1} : j <= i}
<1>17. \A i \in 1..Len(a) + 1 : i \notin R
  <2>1. /\ Begins(a, b) /\ Len(a) \in Nat /\ Len(b) \in Nat /\ Len(a) <= Len(b)
        /\ Len(a) + 1 <= Len(b) /\ b[Len(a) + 1] = "("
        /\ \A k \in 1..Len(a) : a[k] = b[k]
    BY <1>12, <1>13 DEF Ends, Begins
  <2>2. ASSUME NEW j \in Pairs(b, "answer", ":"), j <= Len(a) + 1 PROVE j = 1
    <3>1. j \in 1..Len(b) /\ j + 1 \in 1..Len(b) /\ b[j] = "answer" /\ b[j + 1] = ":"
      BY <1>12, PairsOf
    <3>2. j # Len(a) + 1 /\ j + 1 # Len(a) + 1
      BY <2>1, <3>1
    <3>3. j \in 1..Len(a) /\ j + 1 \in 1..Len(a)
      BY <2>1, <2>2, <3>1, <3>2
    <3>4. a[j] = "answer" /\ a[j + 1] = ":"
      BY <2>1, <3>1, <3>3
    <3>5. j \in Pairs(a, "answer", ":")
      BY <1>12, <3>3, <3>4, PairsOf
    <3> QED
      BY <1>14, <3>5
  <2>3. ASSUME NEW i \in 1..Len(a) + 1, NEW j \in Pairs(b, "answer", ":"), j # 1
        PROVE  ~(j <= i)
    <3>1. ~(j <= Len(a) + 1) /\ j \in 1..Len(b)
      BY <1>12, <2>2, <2>3, PairsOf
    <3> QED
      BY <2>1, <3>1
  <2> QED
    BY <2>3
<1>18. WithoutRemarks(b) = Without(b, R)
  BY DEF WithoutRemarks
<1> HIDE DEF R
<1>19. Ends(a, Without(b, R))
  <2>1. Len(a) \in Nat /\ Len(a) + 1 \in 1..Len(a) + 1
    BY <1>12
  <2>2. Ends(Without(a, R), Without(b, R))
    BY <1>12, <1>13, <1>17, <2>1, EndsWithout
  <2>3. \A i \in 1..Len(a) : i \notin R
    BY <1>17, <2>1
  <2>4. Without(a, R) = a
    BY <1>12, <2>3, WithoutNothing
  <2> QED
    BY <2>2, <2>4
<1>20. TrimTail(Without(b, R)) = TrimTail(a)
  <2>1. Without(b, R) \in Seq(X)
    BY <1>12, WithoutType
  <2> QED
    BY <1>12, <1>19, <2>1, TrimEnds
<1> QED
  BY <1>15, <1>16, <1>18, <1>20

\* What has arrived of a text with one parenthesis and no table in it, if it has a leak.
LEMMA LeakCut ==
    ASSUME NEW X, NEW t \in Seq(X), NEW n \in 0..Len(t), ~LeakAtTag(t),
           Pairs(t, "(", "context:") # {} =>
              ~(At(t, "|") # {} \/ Cardinality(At(t, "(")) > 1)
    PROVE  LET r == SubSeq(t, 1, n)
           IN  \/ \A i \in 1..n : i \in Leaks(r) <=> i \in Leaks(t)
               \/ /\ Leaks(r) = {}
                  /\ \E m \in 0..n :
                        LET u == SubSeq(t, 1, m)
                        IN  /\ Ends(u, r) /\ Leaks(u) = {}
                            /\ \A i \in 1..m : i \in Leaks(u) <=> i \in Leaks(t)
<1> DEFINE r == SubSeq(t, 1, n)
<1>1. r \in Seq(X) /\ Len(r) = n /\ \A k \in 1..n : r[k] = t[k]
  BY StartFacts
<1>2. /\ Leaks(r) \subseteq Leaks(t)
      /\ Pairs(r, "(", "context:") \subseteq Pairs(t, "(", "context:")
      /\ \A x : At(r, x) = {i \in At(t, x) : i <= n}
  BY SameAtStart, AtStart
<1>3. Len(t) \in Nat /\ n \in Nat /\ n <= Len(t)
  OBVIOUS
<1> HIDE DEF r
<1>4. SUFFICES ASSUME NEW i \in 1..n, i \in Leaks(t), i \notin Leaks(r)
               PROVE  /\ Leaks(r) = {}
                      /\ \E m \in 0..n :
                            LET u == SubSeq(t, 1, m)
                            IN  /\ Ends(u, r) /\ Leaks(u) = {}
                                /\ \A k \in 1..m : k \in Leaks(u) <=> k \in Leaks(t)
  BY <1>2 DEF r
<1>5. PICK p \in Pairs(t, "(", "context:"), q \in At(t, ")") :
         /\ p < q /\ \A k \in At(t, ")") : ~(p < k /\ k < q)
         /\ i \in p..q
  BY <1>4, LeaksOf
<1>6. /\ p \in 1..Len(t) /\ p + 1 \in 1..Len(t) /\ t[p] = "(" /\ t[p + 1] = "context:"
      /\ q \in 1..Len(t) /\ t[q] = ")"
  BY PairsOf, PlacesOf
<1>7. p <= n
  BY <1>3, <1>5, <1>6
<1>8. At(t, "|") = {} /\ \A k \in At(t, "(") : k = p
  <2>1. At(t, "|") = {} /\ ~(Cardinality(At(t, "(")) > 1)
    BY <1>5
  <2>2. ASSUME NEW k \in At(t, "("), k # p PROVE FALSE
    <3>1. p \in At(t, "(")
      BY <1>6, PlacesOf
    <3>2. At(t, "(") \in SUBSET Nat /\ IsFiniteSet(At(t, "("))
      <4>1. At(t, "(") \in SUBSET (1..Len(t))
        BY PlacesOf
      <4> QED
        BY <1>3, <4>1, FinitePlaces
    <3>3. /\ {k, p} \in SUBSET At(t, "(")
          /\ IsFiniteSet({k, p}) /\ Cardinality({k, p}) = 2
      <4>1. IsFiniteSet({k}) /\ Cardinality({k}) = 1 /\ p \notin {k}
        BY <2>2, FS_Singleton
      <4>2. IsFiniteSet({k} \cup {p}) /\ Cardinality({k} \cup {p}) = 1 + 1
        BY <4>1, FS_AddElement
      <4>3. {k} \cup {p} = {k, p}
        OBVIOUS
      <4> QED
        BY <3>1, <4>2, <4>3
    <3>4. Cardinality({k, p}) <= Cardinality(At(t, "("))
          /\ Cardinality(At(t, "(")) \in Nat
      BY <3>2, <3>3, FS_Subset, FS_CardinalityType
    <3> QED
      BY <2>1, <3>3, <3>4
  <2> QED
    BY <2>1, <2>2
<1>9. q > n
  <2> SUFFICES ASSUME q <= n PROVE FALSE
    BY <1>3, <1>6
  <2>1. q \in At(r, ")")
    BY <1>2
  <2>2. p + 1 <= q
    BY <1>5, <1>6
  <2>3. p + 1 \in 1..n /\ p \in 1..n
    BY <1>3, <1>6, <1>7, <2>2
  <2>4. p \in Pairs(r, "(", "context:")
    <3>1. r[p] = "(" /\ r[p + 1] = "context:"
      BY <1>1, <1>6, <2>3
    <3> QED
      BY <1>1, <2>3, <3>1, PairsOf
  <2>5. \A k \in At(r, ")") : ~(p < k /\ k < q)
    BY <1>2, <1>5
  <2>6. i \in Leaks(r)
    BY <1>1, <1>5, <2>1, <2>4, <2>5, LeaksOf
  <2> QED
    BY <1>4, <2>6
<1>10. \A k \in p..n : k \in Leaks(t)
  <2> SUFFICES ASSUME NEW k \in p..n PROVE k \in Leaks(t)
    OBVIOUS
  <2>1. k \in p..q
    BY <1>3, <1>6, <1>9
  <2> QED
    BY <1>5, <2>1, LeaksOf
<1>11. ASSUME NEW k \in Leaks(t) PROVE k >= p /\ k \in 1..Len(t)
  <2>1. PICK a \in Pairs(t, "(", "context:"), b \in At(t, ")") : k \in a..b
    BY LeaksOf
  <2>2. a \in At(t, "(")
    BY PairsOf, PlacesOf
  <2>3. a = p /\ k \in 1..Len(t)
    BY <1>8, <2>2, LeaksOf
  <2> QED
    BY <1>6, <2>1, <2>3
<1>12. Leaks(r) = {}
  <2> SUFFICES ASSUME NEW k \in Leaks(r) PROVE FALSE
    OBVIOUS
  <2>1. PICK a \in Pairs(r, "(", "context:"), b \in At(r, ")") : a < b
    BY <1>1, LeaksOf
  <2>2. a \in Pairs(t, "(", "context:") /\ b \in At(t, ")") /\ b <= n
    BY <1>2
  <2>3. a \in At(t, "(")
    BY <2>2, PairsOf, PlacesOf
  <2>4. a = p
    BY <1>8, <2>3
  <2>5. b \in 1..Len(t)
    BY <2>2, PlacesOf
  <2>6. p < b /\ b < q
    BY <1>3, <1>6, <1>9, <2>1, <2>2, <2>4, <2>5
  <2> QED
    BY <1>5, <2>2, <2>6
<1> DEFINE m == p - 1
           u == SubSeq(t, 1, m)
<1>13. m \in 0..n /\ m \in 0..Len(t) /\ m + 1 = p
  BY <1>3, <1>6, <1>7
<1> HIDE DEF m
<1>14. u \in Seq(X) /\ Len(u) = m /\ (\A k \in 1..m : u[k] = t[k])
  BY <1>13, StartFacts
<1>15. Leaks(u) \subseteq Leaks(t)
  BY <1>13, SameAtStart
<1> HIDE DEF u
<1>16. Leaks(u) \in SUBSET (1..m)
  BY <1>14, LeaksOf
<1>17. /\ Leaks(u) = {}
       /\ \A k \in 1..m : k \in Leaks(u) <=> k \in Leaks(t)
  <2>1. \A k \in 1..m : k \notin Leaks(t)
    BY <1>6, <1>11, <1>13
  <2> QED
    BY <1>15, <1>16, <2>1
<1>18. Ends(u, r)
  <2>1. Begins(u, r)
    BY <1>1, <1>3, <1>13, <1>14 DEF Begins
  <2>2. Len(u) + 1 <= Len(r) /\ r[Len(u) + 1] = "("
    BY <1>1, <1>6, <1>7, <1>13, <1>14
  <2>3. ASSUME NEW k \in 1..Len(r)
        PROVE  /\ r[k] # "|"
               /\ k # Len(u) + 1 => r[k] # "("
               /\ k > Len(u) => r[k] \notin {"<", "think>", "/think>", ")"}
    <3>1. k \in 1..Len(t) /\ r[k] = t[k] /\ k \in 1..n
      BY <1>1, <1>3
    <3>2. r[k] # "|"
      BY <1>8, <3>1, PlacesOf
    <3>3. k # Len(u) + 1 => r[k] # "("
      <4>1. At(t, "(") = {j \in 1..Len(t) : t[j] = "("}
        BY PlacesOf
      <4>2. r[k] = "(" => k \in At(t, "(")
        BY <3>1, <4>1
      <4> QED
        BY <1>8, <1>13, <1>14, <4>2
    <3>4. ASSUME k > Len(u) PROVE r[k] \notin {"<", "think>", "/think>", ")"}
      <4>1. k \in p..n
        BY <1>6, <1>13, <1>14, <3>1, <3>4
      <4>2. t[k] \notin {"<", "think>", "/think>"}
        BY <1>10, <4>1 DEF LeakAtTag
      <4>3. t[k] # ")"
        <5> SUFFICES ASSUME t[k] = ")" PROVE FALSE
          OBVIOUS
        <5>1. k \in At(t, ")")
          BY <3>1, PlacesOf
        <5>2. k # p
          BY <1>6
        <5>3. p < k /\ k < q
          BY <1>3, <1>6, <1>9, <4>1, <5>2
        <5> QED
          BY <1>5, <5>1, <5>3
      <4> QED
        BY <3>1, <4>2, <4>3
    <3> QED
      BY <3>2, <3>3, <3>4
  <2> QED
    BY <2>1, <2>2, <2>3 DEF Ends
<1> QED
  BY <1>12, <1>13, <1>17, <1>18 DEF u

LEMMA PartCleaned ==
    ASSUME NEW X, NEW t \in Seq(X), NEW n \in 0..Len(t), Settled(t),
           Pairs(t, "(", "context:") # {} =>
              ~(At(t, "|") # {} \/ Cardinality(At(t, "(")) > 1),
           Opened(SubSeq(t, 1, n)) = {} \/ Closed(SubSeq(t, 1, n)) # {}
    PROVE  /\ Cleaned(SubSeq(t, 1, n)) \in Seq(X)
           /\ Follows(Cleaned(SubSeq(t, 1, n)), Cleaned(t), Opened(t) # {})
<1> DEFINE r == SubSeq(t, 1, n)
<1>1. r \in Seq(X) /\ Len(r) = n /\ Begins(r, t)
  BY StartFacts
<1>2. ~LeakAtTag(t) /\ ~LeakAtTag(r)
  BY LeaksAtStart DEF Settled
<1>3. Opened(r) = {} \/ Closed(r) # {}
  OBVIOUS
<1>4. \/ \A i \in 1..n : i \in Leaks(r) <=> i \in Leaks(t)
      \/ /\ Leaks(r) = {}
         /\ \E m \in 0..n :
               LET u == SubSeq(t, 1, m)
               IN  /\ Ends(u, r) /\ Leaks(u) = {}
                   /\ \A i \in 1..m : i \in Leaks(u) <=> i \in Leaks(t)
  BY <1>2, LeakCut
<1> HIDE DEF r
<1>5. CASE \A i \in 1..n : i \in Leaks(r) <=> i \in Leaks(t)
  <2>1. /\ Closed(Spoken(r)) = {}
        /\ Follows(SaidOf(r), SaidOf(t), Opened(t) # {})
    BY <1>1, <1>2, <1>3, <1>5, SaidFollows
  <2>2. Follows(Cleaned(r), Cleaned(t), Opened(t) # {}) /\ Cleaned(r) \in Seq(X)
    BY <1>1, <2>1, CleanedFollows, CleanedIs
  <2> QED
    BY <2>2 DEF r
<1>6. CASE /\ Leaks(r) = {}
           /\ \E m \in 0..n :
                 LET u == SubSeq(t, 1, m)
                 IN  /\ Ends(u, r) /\ Leaks(u) = {}
                     /\ \A i \in 1..m : i \in Leaks(u) <=> i \in Leaks(t)
  <2>1. PICK m \in 0..n :
           /\ Ends(SubSeq(t, 1, m), r) /\ Leaks(SubSeq(t, 1, m)) = {}
           /\ \A i \in 1..m : i \in Leaks(SubSeq(t, 1, m)) <=> i \in Leaks(t)
    BY <1>6
  <2> DEFINE u == SubSeq(t, 1, m)
  <2>2. m \in 0..Len(t)
    OBVIOUS
  <2>3. u \in Seq(X) /\ Len(u) = m /\ Begins(u, t) /\ ~LeakAtTag(u)
    BY <1>2, <2>2, StartFacts, LeaksAtStart
  <2>4. /\ Ends(u, r) /\ Leaks(u) = {}
        /\ \A i \in 1..m : i \in Leaks(u) <=> i \in Leaks(t)
    BY <2>1
  <2> HIDE DEF u
  <2>5. Opened(u) = {} \/ Closed(u) # {}
    BY <1>1, <1>3, <2>3, <2>4, EndsTags
  <2>6. /\ Closed(Spoken(u)) = {}
        /\ Follows(SaidOf(u), SaidOf(t), Opened(t) # {})
    BY <2>3, <2>4, <2>5, SaidFollows
  <2>7. /\ Follows(Cleaned(u), Cleaned(t), Opened(t) # {}) /\ Cleaned(u) \in Seq(X)
        /\ Pairs(SaidOf(u), "answer", ":") \subseteq {1}
    BY <2>3, <2>6, CleanedFollows, CleanedIs
  <2>8. Cleaned(r) = Cleaned(u)
    BY <1>1, <1>6, <2>3, <2>4, <2>6, <2>7, LeakGoes
  <2> QED
    BY <2>7, <2>8 DEF r
<1> QED
  BY <1>4, <1>5, <1>6

LEMMA FollowsBegins ==
    ASSUME NEW X, NEW s \in Seq(X), NEW t \in Seq(X), NEW half, Follows(s, t, half),
           half => \A i \in 1..Len(s) : s[i] # "<"
    PROVE  Begins(s, t)
<1>1. PICK m \in 0..Len(s) : /\ m <= Len(t)
                             /\ \A k \in 1..m : s[k] = t[k]
                             /\ \A k \in m + 1..Len(s) : half /\ s[k] = "<"
  BY DEF Follows
<1>2. Len(s) \in Nat
  OBVIOUS
<1>3. \A k \in m + 1..Len(s) : FALSE
  BY <1>1, <1>2
<1>4. m = Len(s)
  <2>1. ~(m < Len(s))
    <3> SUFFICES ASSUME m < Len(s) PROVE FALSE
      OBVIOUS
    <3>1. Len(s) \in m + 1..Len(s)
      BY <1>1, <1>2
    <3> QED
      BY <1>3, <3>1
  <2> QED
    BY <1>1, <1>2, <2>1
<1> QED
  BY <1>1, <1>4 DEF Begins

LEMMA NotEmpty ==
    ASSUME NEW X, NEW s \in Seq(X), NEW t \in Seq(X), Begins(s, t), s # <<>>
    PROVE  t # <<>>
BY DEF Begins

\* What has been shown begins the whole answer, and there is one.
LEMMA ShownBegins ==
    ASSUME NEW X, NEW t \in Seq(X), NEW n \in 0..Len(t), Settled(t), NEW about \in BOOLEAN,
           Pairs(t, "(", "context:") # {} =>
              ~(At(t, "|") # {} \/ Cardinality(At(t, "(")) > 1),
           ~about => Pairs(SaidOf(t), "I_do_not", "have_memory") \subseteq {1},
           Opened(SubSeq(t, 1, n)) = {} \/ Closed(SubSeq(t, 1, n)) # {},
           NEW v, v = CleanMemorySafe(about, SubSeq(t, 1, n), FALSE), v # <<>>,
           Opened(t) # {} => "<" \notin Range(v)
    PROVE  /\ CleanMemorySafe(about, t, TRUE) # <<>>
           /\ IsPrefix(v, CleanMemorySafe(about, t, TRUE))
<1> DEFINE c == Cleaned(SubSeq(t, 1, n))
           d == Cleaned(t)
           half == Opened(t) # {}
           w == CleanMemorySafe(about, t, TRUE)
<1>1. c \in Seq(X) /\ Follows(c, d, half)
  BY PartCleaned
<1>2. d \in Seq(X) /\ SaidOf(t) \in Seq(X) /\ Begins(d, SaidOf(t))
  BY SettledIs
<1>3. /\ v = IF about THEN c ELSE IF IsPartialDisclaimer(c) THEN <<>>
                                 ELSE WithoutDisclaimers(c)
      /\ w = IF about THEN d
             ELSE IF IsPartialDisclaimer(d) \/ WithoutDisclaimers(d) = <<>> THEN ICanHelp
             ELSE WithoutDisclaimers(d)
  <2>1. v = CleanMemorySafe(about, SubSeq(t, 1, n), FALSE)
    OBVIOUS
  <2>2. v = IF about THEN c
            ELSE IF (IF IsPartialDisclaimer(c) THEN <<>> ELSE WithoutDisclaimers(c)) = <<>>
                    /\ FALSE THEN ICanHelp
            ELSE IF IsPartialDisclaimer(c) THEN <<>> ELSE WithoutDisclaimers(c)
    BY <2>1, Zenon DEF CleanMemorySafe, Cleaned
  <2>3. w = IF about THEN d
            ELSE IF (IF IsPartialDisclaimer(d) THEN <<>> ELSE WithoutDisclaimers(d)) = <<>>
                    /\ TRUE THEN ICanHelp
            ELSE IF IsPartialDisclaimer(d) THEN <<>> ELSE WithoutDisclaimers(d)
    BY Zenon DEF CleanMemorySafe, Cleaned
  <2> HIDE DEF c, d, w
  <2> QED
    BY <2>2, <2>3
<1> HIDE DEF c, d, w
<1>4. c # <<>> /\ DOMAIN c = 1..Len(c)
  <2>1. DOMAIN c = 1..Len(c) /\ Len(c) \in Nat
    BY <1>1
  <2>2. ASSUME c = <<>> PROVE FALSE
    <3>1. At(c, ".") = {i \in 1..Len(c) : c[i] = "."}
      BY <1>1, PlacesOf
    <3>2. At(c, ".") = {}
      BY <2>2, <3>1
    <3>3. IsPartialDisclaimer(c)
      BY <2>2, <3>2 DEF IsPartialDisclaimer
    <3> QED
      BY <1>3, <2>2, <3>3
  <2> QED
    BY <2>1, <2>2
<1>5. CASE about
  <2>1. v = c /\ w = d
    BY <1>3, <1>5
  <2>2. half => \A i \in 1..Len(c) : c[i] # "<"
    BY <1>4, <2>1 DEF Range
  <2>3. Begins(c, d)
    BY <1>1, <1>2, <2>2, FollowsBegins
  <2>4. IsPrefix(c, d)
    BY <1>1, <1>2, <2>3, BeginsIsPrefix
  <2>5. d # <<>>
    BY <1>1, <1>4, <2>3 DEF Begins
  <2> QED
    BY <2>1, <2>4, <2>5 DEF w
<1>6. CASE ~about
  <2>1. ~IsPartialDisclaimer(c) /\ v = WithoutDisclaimers(c)
    BY <1>3, <1>6
  <2>2. Pairs(d, "I_do_not", "have_memory") \subseteq {1}
    <3>1. Follows(d, SaidOf(t), FALSE)
      BY <1>2, BeginsFollows
    <3> QED
      BY <1>2, <1>6, <3>1, FollowsPairs
  <2>3. Pairs(c, "I_do_not", "have_memory") \subseteq {1}
    BY <1>1, <1>2, <2>2, FollowsPairs
  <2>4. half => \A i \in 1..Len(c) : c[i] # "<"
    BY <1>1, <2>1, <2>3, HalfStays
  <2>5. Begins(c, d)
    BY <1>1, <1>2, <2>4, FollowsBegins
  <2>6. ~IsPartialDisclaimer(d) /\ Begins(v, WithoutDisclaimers(d))
    BY <1>1, <1>2, <2>1, <2>2, <2>5, BeginsDisclaimed
  <2>7. v \in Seq(X) /\ WithoutDisclaimers(d) \in Seq(X)
    BY <1>1, <1>2, <2>1, CleanChatType
  <2>8. WithoutDisclaimers(d) # <<>>
    BY <2>6, <2>7, NotEmpty
  <2>9. w = WithoutDisclaimers(d)
    BY <1>3, <1>6, <2>6, <2>8
  <2>10. IsPrefix(v, WithoutDisclaimers(d))
    BY <2>6, <2>7, BeginsIsPrefix
  <2> QED
    BY <2>8, <2>9, <2>10 DEF w
<1> QED
  BY <1>5, <1>6

\* What is visible is what was made of a part that was not held back.
Shown ==
    visible = <<>> \/ \E n \in 0..Len(raw) :
        /\ ~HeldBack(SubSeq(raw, 1, n))
        /\ visible = CleanMemorySafe(asks, SubSeq(raw, 1, n), FALSE)

StreamedInv ==
    /\ StreamInv
    /\ ending = "none" => Shown
    /\ StreamedIsUnstreamed

LEMMA StreamedStarts == StreamInit => StreamedInv
<1> SUFFICES ASSUME StreamInit PROVE StreamedInv
  OBVIOUS
<1>1. visible = <<>> /\ ending = "none"
  BY DEF StreamInit
<1> QED
  BY <1>1, StreamStarts DEF StreamedInv, Shown, StreamedIsUnstreamed

LEMMA DeliverShows ==
    ASSUME StreamInv, Shown, NEW n \in 1..MaxChunk, Deliver(n)
    PROVE  Shown'
<1>1. text \in Seq(Pieces) /\ raw = SubSeq(text, 1, Len(raw)) /\ Len(raw) \in 0..Len(text)
  BY TextsAssumption DEF StreamInv, StreamTypeOK
<1>2. Len(text) \in Nat /\ n \in Nat
  BY <1>1, TextsAssumption
<1> DEFINE m == Len(raw) + n
<1>3. m \in 0..Len(text) /\ raw' = SubSeq(text, 1, m) /\ UNCHANGED asks
  BY <1>1, <1>2 DEF Deliver
<1>4. raw' \in Seq(Pieces) /\ Len(raw') = m
  BY <1>1, <1>3, StartFacts
<1>5. visible' = visible \/ (~HeldBack(raw') /\ visible' = CleanMemorySafe(asks, raw', FALSE))
  BY Shows DEF Deliver
<1>6. CASE visible' = visible
  <2>1. CASE visible = <<>>
    BY <1>6, <2>1 DEF Shown
  <2>2. CASE visible # <<>>
    <3>1. PICK k \in 0..Len(raw) :
              /\ ~HeldBack(SubSeq(raw, 1, k))
              /\ visible = CleanMemorySafe(asks, SubSeq(raw, 1, k), FALSE)
      BY <2>2 DEF Shown
    <3>2. k \in 0..m /\ k \in 0..Len(text)
      BY <1>1, <1>2
    <3>3. SubSeq(raw, 1, k) = SubSeq(text, 1, k)
      <4>1. SubSeq(SubSeq(text, 1, Len(raw)), 1, k) = SubSeq(text, 1, k)
        BY <1>1, StartOfStart
      <4> QED
        BY <1>1, <4>1
    <3>4. SubSeq(raw', 1, k) = SubSeq(text, 1, k)
      <4>1. SubSeq(SubSeq(text, 1, m), 1, k) = SubSeq(text, 1, k)
        <5> HIDE DEF m
        <5> QED
          BY <1>1, <1>3, <3>2, StartOfStart
      <4> QED
        BY <1>3, <4>1
    <3> DEFINE z == SubSeq(raw, 1, k)
    <3>5. z' = z /\ k \in 0..Len(raw')
      BY <1>4, <3>2, <3>3, <3>4
    <3>6. ~HeldBack(z) /\ visible = CleanMemorySafe(asks, z, FALSE)
      BY <3>1
    <3> HIDE DEF z
    <3>7. HeldBack(z)' = HeldBack(z)
      BY <1>3, <3>5 DEF HeldBack
    <3>8. visible' = CleanMemorySafe(asks, z, FALSE)'
      BY <1>3, <1>6, <3>5, <3>6
    <3>9. /\ k \in 0..Len(raw') /\ ~(HeldBack(SubSeq(raw, 1, k))')
          /\ visible' = CleanMemorySafe(asks, SubSeq(raw, 1, k), FALSE)'
      BY <3>5, <3>6, <3>7, <3>8 DEF z
    <3> QED
      BY <3>9 DEF Shown
  <2> QED
    BY <2>1, <2>2
<1>7. CASE ~HeldBack(raw') /\ visible' = CleanMemorySafe(asks, raw', FALSE)
  <2>1. SubSeq(raw', 1, Len(raw')) = raw' /\ Len(raw') \in 0..Len(raw')
    BY <1>4, SubSeqFull
  <2> QED
    BY <1>3, <1>7, <2>1 DEF Shown, HeldBack
<1> QED
  BY <1>5, <1>6, <1>7

LEMMA FinishStreams ==
    ASSUME StreamInv, Shown, Finish
    PROVE  StreamedIsUnstreamed'
<1> SUFFICES ASSUME ~TakesBack' PROVE visible' = Unstreamed
  <2>1. UNCHANGED <<asks, raw>> /\ stored' = IF visible' # <<>> THEN visible' ELSE HowCanIHelp
    BY DEF Finish
  <2>2. Unstreamed' = Unstreamed
    BY <2>1 DEF Unstreamed
  <2> QED
    BY <2>1, <2>2 DEF StreamedIsUnstreamed
<1> DEFINE half == Opened(raw) # {}
<1>1. raw' = raw /\ asks' = asks
      /\ visible' = IF Unstreamed # <<>> /\ IsPrefix(visible, Unstreamed)
                    THEN Unstreamed ELSE visible
  BY DEF Finish, ShowIfLonger
<1>2. asks \in BOOLEAN /\ raw \in Seq(Pieces)
      /\ visible \in Seq(Pieces \cup {"I_can_help_with_that"})
  BY DEF StreamInv, StreamTypeOK
<1>3. Unstreamed \in Seq(Pieces \cup {"I_can_help_with_that"})
  BY <1>2, CleanedRaw DEF Unstreamed
<1>4. /\ Settled(raw)
      /\ half => "<" \notin Range(visible')
      /\ Pairs(raw, "(", "context:") # {} =>
            ~(At(raw, "|") # {} \/ Cardinality(At(raw, "(")) > 1)
      /\ ~asks => Pairs(SaidOf(raw), "I_do_not", "have_memory") \subseteq {1}
  BY <1>1, Zenon DEF TakesBack, Settled, SaidOf
<1>5. CASE visible = <<>>
  <2>1. IsPrefix(<<>>, Unstreamed)
    <3>1. <<>> \in Seq(Pieces \cup {"I_can_help_with_that"}) /\ Begins(<<>>, Unstreamed)
      BY <1>3 DEF Begins
    <3> QED
      BY <1>3, <3>1, BeginsIsPrefix
  <2> QED
    BY <1>1, <1>5, <2>1
<1>6. CASE visible # <<>>
  <2>1. PICK n \in 0..Len(raw) :
           /\ ~HeldBack(SubSeq(raw, 1, n))
           /\ visible = CleanMemorySafe(asks, SubSeq(raw, 1, n), FALSE)
    BY <1>6 DEF Shown
  <2>2. Opened(SubSeq(raw, 1, n)) = {} \/ Closed(SubSeq(raw, 1, n)) # {}
    BY <2>1 DEF HeldBack
  <2>3. half => "<" \notin Range(visible)
    <3>1. CASE visible' = visible
      BY <1>4, <3>1
    <3>2. CASE visible' # visible
      <4>1. visible' = Unstreamed /\ IsPrefix(visible, Unstreamed)
        BY <1>1, <3>2
      <4>2. Begins(visible, Unstreamed)
        BY <1>2, <1>3, <4>1, BeginsIsPrefix
      <4>3. DOMAIN visible = 1..Len(visible) /\ DOMAIN Unstreamed = 1..Len(Unstreamed)
            /\ Len(visible) \in Nat /\ Len(Unstreamed) \in Nat
        BY <1>2, <1>3
      <4>4. \A i \in 1..Len(visible) : i \in 1..Len(Unstreamed) /\ visible[i] = Unstreamed[i]
        BY <4>2, <4>3 DEF Begins
      <4> QED
        BY <1>4, <4>1, <4>3, <4>4 DEF Range
    <3> QED
      BY <3>1, <3>2
  <2>4. Unstreamed # <<>> /\ IsPrefix(visible, Unstreamed)
    BY <1>2, <1>4, <1>6, <2>1, <2>2, <2>3, ShownBegins DEF Unstreamed
  <2> QED
    BY <1>1, <2>4
<1> QED
  BY <1>5, <1>6

LEMMA StreamedGoesOn == StreamedInv /\ [StreamNext]_streamVars => StreamedInv'
<1> SUFFICES ASSUME StreamedInv, [StreamNext]_streamVars PROVE StreamedInv'
  OBVIOUS
<1>1. StreamInv /\ StreamInv' /\ (ending = "none" => Shown) /\ StreamedIsUnstreamed
  BY StreamGoesOn DEF StreamedInv
<1>2. CASE UNCHANGED streamVars
  <2>1. UNCHANGED <<asks, raw, visible, stored, ending>>
    BY <1>2 DEF streamVars
  <2>2. Shown' = Shown
    BY <2>1 DEF Shown, HeldBack
  <2>3. StreamedIsUnstreamed'
    BY <1>1, <2>1 DEF StreamedIsUnstreamed, Unstreamed, TakesBack
  <2> QED
    BY <1>1, <2>1, <2>2, <2>3 DEF StreamedInv
<1>3. CASE \E n \in 1..MaxChunk : Deliver(n)
  <2>1. PICK n \in 1..MaxChunk : Deliver(n)
    BY <1>3
  <2>2. ending = "none" /\ ending' = ending
    BY <2>1 DEF Deliver
  <2>3. Shown'
    BY <1>1, <2>1, <2>2, DeliverShows
  <2> QED
    BY <1>1, <2>2, <2>3 DEF StreamedInv, StreamedIsUnstreamed
<1>4. CASE Finish
  <2>1. ending = "none" /\ ending' = "finished"
    BY <1>4 DEF Finish
  <2>2. StreamedIsUnstreamed'
    BY <1>1, <1>4, <2>1, FinishStreams
  <2> QED
    BY <1>1, <2>1, <2>2 DEF StreamedInv
<1>5. CASE ModelFails \/ Disconnect
  <2>1. ending' \in {"failed", "left"}
    BY <1>5 DEF ModelFails, Disconnect
  <2> QED
    BY <1>1, <2>1 DEF StreamedInv, StreamedIsUnstreamed
<1> QED
  BY <1>2, <1>3, <1>4, <1>5 DEF StreamNext

\* The variables keep their types, and a message is stored exactly by the streams that
\* come to their end or fail.
THEOREM StreamTypesKept == StreamSpec => []StreamTypeOK
<1>1. StreamInv => StreamTypeOK
  BY DEF StreamInv
<1> QED
  BY <1>1, StreamStarts, StreamGoesOn, PTL DEF StreamSpec

\* Thinking is hidden, however its tags are cut into chunks: a chunk is shown only when no
\* block of thinking is open, and then the cleaning removes each block in whole, because
\* no leak takes one of its tags away.
THEOREM ThinkingStaysHidden == StreamSpec => []ThinkingIsHidden
<1>1. StreamInv => ThinkingIsHidden
  BY DEF StreamInv
<1> QED
  BY <1>1, StreamStarts, StreamGoesOn, PTL DEF StreamSpec

\* Whatever the model writes, the browser and the chat end with the unstreamed answer,
\* unless the cleaning takes back what was shown: each thing that was shown is the start
\* of that answer.
THEOREM NothingElseIsLost == StreamSpec => []StreamedIsUnstreamed
<1>1. StreamedInv => StreamedIsUnstreamed
  BY DEF StreamedInv
<1> QED
  BY <1>1, StreamedStarts, StreamedGoesOn, PTL DEF StreamSpec

=============================================================================

----------------------- MODULE ContactResolution_proofs -----------------------
(***************************************************************************)
(* Proofs about ContactResolution for any texts, contacts and listings.    *)
(***************************************************************************)
EXTENDS ContactResolution, FiniteSetTheorems, FunctionTheorems, SequenceTheorems, TLAPS

-----------------------------------------------------------------------------
(* Sorting: what Order chooses exists, and is the only order there is.     *)

\* p lists what it lists in the order R.
SortedBy(p, R) == \A i, j \in DOMAIN p : i < j => <<p[i], p[j]>> \in R

Total(D, R)      == \A a, b \in D : <<a, b>> \in R \/ <<b, a>> \in R
Transitive(D, R) == \A a, b, c \in D : <<a, b>> \in R /\ <<b, c>> \in R => <<a, c>> \in R

\* Where something new belongs in a sorted list.
LEMMA Place ==
    ASSUME NEW D, NEW R, Total(D, R), Transitive(D, R),
           NEW m \in Nat, NEW p \in [1 .. m -> D], SortedBy(p, R), NEW e \in D
    PROVE  \E k \in 1 .. m + 1 :
              /\ \A j \in 1 .. m : j < k => <<p[j], e>> \in R
              /\ \A j \in 1 .. m : j >= k => <<e, p[j]>> \in R
<1> DEFINE K == {k \in 1 .. m : <<e, p[k]>> \in R} \cup {m + 1}
       T == {1 .. k : k \in K}
<1>1. T \subseteq FiniteSubsetsOf(Nat) /\ T # {}
  <2>1. \A k \in K : k \in Nat /\ 1 .. k \in SUBSET Nat
    OBVIOUS
  <2>2. \A k \in K : IsFiniteSet(1 .. k)
    BY <2>1, FS_Interval
  <2> QED
    BY <2>1, <2>2 DEF FiniteSubsetsOf
<1>2. PICK k \in K : \A j \in K : ~ (j < k)
  <2>1. PICK X \in T : \A Y \in T : ~ (<<Y, X>> \in StrictSubsetOrdering(Nat))
    <3> HIDE DEF T
    <3> QED
      BY <1>1, WFMin, FS_StrictSubsetOrderingWellFounded
  <2>2. PICK k \in K : X = 1 .. k
    OBVIOUS
  <2>3. ASSUME NEW j \in K, j < k
        PROVE  FALSE
    <3>1. k \in Nat /\ j \in Nat /\ k \in 1 .. k /\ k \notin 1 .. j
      BY <2>3
    <3>2. 1 .. j \subseteq 1 .. k /\ 1 .. k \subseteq Nat /\ 1 .. j # 1 .. k
      BY <2>3, <3>1
    <3>3. 1 .. j \in T
      OBVIOUS
    <3>4. <<1 .. j, 1 .. k>> \in StrictSubsetOrdering(Nat)
      BY <3>2 DEF StrictSubsetOrdering
    <3> QED
      BY <2>1, <2>2, <3>3, <3>4
  <2> QED
    BY <2>3
<1>3. ASSUME NEW j \in 1 .. m, j < k
      PROVE  <<p[j], e>> \in R
  <2>1. j \notin K
    BY <1>2, <1>3
  <2>2. ~ (<<e, p[j]>> \in R) /\ p[j] \in D
    BY <2>1
  <2> QED
    BY <2>2 DEF Total
<1>4. ASSUME NEW j \in 1 .. m, j >= k
      PROVE  <<e, p[j]>> \in R
  <2>1. k \in 1 .. m /\ <<e, p[k]>> \in R
    BY <1>2, <1>4
  <2>2. CASE j = k
    BY <2>1, <2>2
  <2>3. CASE k < j
    <3>1. <<p[k], p[j]>> \in R
      BY <2>1, <2>3 DEF SortedBy
    <3> QED
      BY <2>1, <3>1 DEF Transitive
  <2> QED
    BY <1>2, <1>4, <2>2, <2>3
<1>5. k \in 1 .. m + 1
  OBVIOUS
<1> HIDE DEF K, T
<1> QED
  BY <1>3, <1>4, <1>5

\* A set without one of its elements, sorted, becomes the sorted set.
LEMMA Enlarged ==
    ASSUME NEW D, NEW R, Total(D, R), Transitive(D, R),
           NEW M \in SUBSET D, NEW e \in M, NEW m \in Nat,
           NEW p \in Bijection(1 .. m, M \ {e}), SortedBy(p, R)
    PROVE  \E q \in Bijection(1 .. m + 1, M) : SortedBy(q, R)
<1>1. /\ p \in [1 .. m -> M \ {e}] /\ p \in [1 .. m -> D]
      /\ \A a, b \in 1 .. m : p[a] = p[b] => a = b
      /\ \A t \in M \ {e} : \E s \in 1 .. m : p[s] = t
  <2>1. /\ p \in [1 .. m -> M \ {e}]
        /\ \A a, b \in 1 .. m : p[a] = p[b] => a = b
        /\ \A t \in M \ {e} : \E s \in 1 .. m : p[s] = t
    BY DEF Bijection, Injection, Surjection, IsInjective
  <2> QED
    BY <2>1
<1>2. PICK k \in 1 .. m + 1 :
          /\ \A j \in 1 .. m : j < k => <<p[j], e>> \in R
          /\ \A j \in 1 .. m : j >= k => <<e, p[j]>> \in R
  <2>1. e \in D /\ p \in [1 .. m -> D]
    BY <1>1
  <2> QED
    BY <2>1, Place, Zenon
<1> DEFINE q == [x \in 1 .. m + 1 |-> IF x < k THEN p[x] ELSE IF x = k THEN e ELSE p[x - 1]]
<1>3. ASSUME NEW x \in 1 .. m + 1
      PROVE  \/ x < k /\ x \in 1 .. m /\ q[x] = p[x]
             \/ x = k /\ q[x] = e
             \/ x > k /\ x - 1 \in 1 .. m /\ q[x] = p[x - 1]
  OBVIOUS
<1>4. q \in [1 .. m + 1 -> M]
  <2>1. \A x \in 1 .. m + 1 : q[x] \in M
    BY <1>1, <1>3
  <2> QED
    BY <2>1
<1>5. DOMAIN q = 1 .. m + 1
  OBVIOUS
<1> HIDE DEF q
<1>6. ASSUME NEW x \in 1 .. m + 1, NEW y \in 1 .. m + 1, q[x] = q[y]
      PROVE  x = y
  <2>1. \A j \in 1 .. m : p[j] # e
    BY <1>1
  <2>2. CASE x < k /\ x \in 1 .. m /\ q[x] = p[x]
    <3>1. \/ y < k /\ y \in 1 .. m /\ p[x] = p[y]
          \/ y > k /\ y - 1 \in 1 .. m /\ p[x] = p[y - 1]
      BY <1>3, <1>6, <2>1, <2>2
    <3>2. x = y \/ (y > k /\ x = y - 1)
      BY <1>1, <2>2, <3>1
    <3> QED
      BY <2>2, <3>2
  <2>3. CASE x = k /\ q[x] = e
    BY <1>3, <1>6, <2>1, <2>3
  <2>4. CASE x > k /\ x - 1 \in 1 .. m /\ q[x] = p[x - 1]
    <3>1. \/ y < k /\ y \in 1 .. m /\ p[x - 1] = p[y]
          \/ y > k /\ y - 1 \in 1 .. m /\ p[x - 1] = p[y - 1]
      BY <1>3, <1>6, <2>1, <2>4
    <3>2. (y < k /\ x - 1 = y) \/ (y > k /\ x - 1 = y - 1)
      BY <1>1, <2>4, <3>1
    <3> QED
      BY <2>4, <3>2
  <2> QED
    BY <1>3, <2>2, <2>3, <2>4
<1>7. ASSUME NEW t \in M
      PROVE  \E x \in 1 .. m + 1 : q[x] = t
  <2>1. CASE t = e
    <3>1. q[k] = e
      BY <1>3
    <3> QED
      BY <2>1, <3>1
  <2>2. CASE t # e
    <3>1. PICK j \in 1 .. m : p[j] = t
      BY <1>1, <2>2
    <3>2. CASE j < k
      <4>1. j \in 1 .. m + 1
        OBVIOUS
      <4>2. q[j] = p[j]
        BY <1>3, <3>2, <4>1
      <4> QED
        BY <3>1, <4>1, <4>2
    <3>3. CASE j >= k
      <4>1. j + 1 \in 1 .. m + 1 /\ j + 1 > k /\ (j + 1) - 1 = j
        BY <3>3
      <4>2. q[j + 1] = p[j]
        BY <1>3, <4>1
      <4> QED
        BY <3>1, <4>1, <4>2
    <3> QED
      BY <3>2, <3>3
  <2> QED
    BY <2>1, <2>2
<1>8. SortedBy(q, R)
  <2> SUFFICES ASSUME NEW x \in 1 .. m + 1, NEW y \in 1 .. m + 1, x < y
               PROVE  <<q[x], q[y]>> \in R
    BY <1>5 DEF SortedBy
  <2>1. \A i, j \in 1 .. m : i < j => <<p[i], p[j]>> \in R
    BY <1>1 DEF SortedBy
  <2>2. CASE x < k /\ x \in 1 .. m /\ q[x] = p[x]
    <3>1. CASE y < k /\ y \in 1 .. m /\ q[y] = p[y]
      BY <2>1, <2>2, <3>1
    <3>2. CASE y = k /\ q[y] = e
      BY <1>2, <2>2, <3>2
    <3>3. CASE y > k /\ y - 1 \in 1 .. m /\ q[y] = p[y - 1]
      <4>1. x < y - 1
        BY <2>2, <3>3
      <4> QED
        BY <2>1, <2>2, <3>3, <4>1
    <3> QED
      BY <1>3, <3>1, <3>2, <3>3
  <2>3. CASE x = k /\ q[x] = e
    <3>1. y > k /\ y - 1 \in 1 .. m /\ q[y] = p[y - 1] /\ y - 1 >= k
      BY <1>3, <2>3
    <3> QED
      BY <1>2, <2>3, <3>1
  <2>4. CASE x > k /\ x - 1 \in 1 .. m /\ q[x] = p[x - 1]
    <3>1. y - 1 \in 1 .. m /\ q[y] = p[y - 1] /\ x - 1 < y - 1
      BY <1>3, <2>4
    <3> QED
      BY <2>1, <2>4, <3>1
  <2> QED
    BY <1>3, <2>2, <2>3, <2>4
<1> QED
  BY <1>4, <1>6, <1>7, <1>8, Fun_IsBij

\* Every finite set can be sorted.
LEMMA SortedExists ==
    ASSUME NEW D, NEW R, Total(D, R), Transitive(D, R), NEW M \in SUBSET D, IsFiniteSet(M)
    PROVE  \E p \in Bijection(1 .. Cardinality(M), M) : SortedBy(p, R)
<1> DEFINE Can(X) == \E p \in Bijection(1 .. Cardinality(X), X) : SortedBy(p, R)
           T == {X \in FiniteSubsetsOf(D) : ~ Can(X)}
<1>1. SUFFICES ASSUME T # {} PROVE FALSE
  BY <1>1 DEF FiniteSubsetsOf
<1>2. PICK X \in T : \A Y \in T : ~ (<<Y, X>> \in StrictSubsetOrdering(D))
  <2>1. T \subseteq FiniteSubsetsOf(D)
    OBVIOUS
  <2> QED
    BY <1>1, <2>1, WFMin, FS_StrictSubsetOrderingWellFounded
<1>3. X \in SUBSET D /\ IsFiniteSet(X) /\ ~ Can(X)
  BY <1>2 DEF FiniteSubsetsOf
<1>4. CASE X = {}
  <2> DEFINE p == [x \in 1 .. 0 |-> x]
  <2>1. p \in Bijection(1 .. 0, {})
    <3>1. p \in [1 .. 0 -> {}] /\ (\A a, b \in 1 .. 0 : p[a] = p[b] => a = b)
          /\ (\A t \in {} : \E s \in 1 .. 0 : p[s] = t)
      OBVIOUS
    <3> QED
      BY <3>1, Fun_IsBij
  <2>2. SortedBy(p, R)
    BY DEF SortedBy
  <2>3. Cardinality({}) = 0
    BY FS_EmptySet
  <2> QED
    BY <1>3, <1>4, <2>1, <2>2, <2>3
<1>5. ASSUME NEW e \in X
      PROVE  FALSE
  <2> DEFINE Y == X \ {e}
             m == Cardinality(Y)
  <2>1. IsFiniteSet(Y) /\ Cardinality(X) = m + 1 /\ m \in Nat /\ Y \in SUBSET D
    <3>1. IsFiniteSet(Y) /\ m = Cardinality(X) - 1 /\ Cardinality(X) \in Nat
      BY <1>3, FS_RemoveElement, FS_CardinalityType
    <3>2. m \in Nat
      BY <3>1, FS_CardinalityType
    <3> QED
      BY <1>3, <3>1, <3>2
  <2>2. <<Y, X>> \in StrictSubsetOrdering(D)
    BY <1>3, <1>5 DEF StrictSubsetOrdering
  <2>3. Can(Y)
    BY <1>2, <2>1, <2>2 DEF FiniteSubsetsOf
  <2>4. PICK p \in Bijection(1 .. m, X \ {e}) : SortedBy(p, R)
    BY <2>3
  <2> HIDE DEF m
  <2>5. \E q \in Bijection(1 .. m + 1, X) : SortedBy(q, R)
    BY <1>3, <2>1, <2>4, Enlarged
  <2> QED
    BY <1>3, <2>1, <2>5
<1> QED
  BY <1>4, <1>5

\* Two sorted lists of a set agree, place by place, up to R.
LEMMA SortedAlike ==
    ASSUME NEW D, NEW R, Transitive(D, R), \A a \in D : <<a, a>> \in R,
           NEW M \in SUBSET D, NEW n \in Nat,
           NEW p \in Bijection(1 .. n, M), SortedBy(p, R),
           NEW q \in Bijection(1 .. n, M), SortedBy(q, R),
           NEW k \in 1 .. n
    PROVE  <<q[k], p[k]>> \in R
<1>1. /\ p \in [1 .. n -> M] /\ \A a, b \in 1 .. n : p[a] = p[b] => a = b
      /\ q \in [1 .. n -> M] /\ \A t \in M : \E s \in 1 .. n : q[s] = t
  <2>1. p \in [1 .. n -> M] /\ \A a, b \in 1 .. n : p[a] = p[b] => a = b
    BY DEF Bijection, Injection, Surjection, IsInjective
  <2>2. q \in [1 .. n -> M] /\ \A t \in M : \E s \in 1 .. n : q[s] = t
    BY DEF Bijection, Injection, Surjection, IsInjective
  <2> QED
    BY <2>1, <2>2
<1> DEFINE f == [a \in 1 .. k |-> CHOOSE b \in 1 .. n : q[b] = p[a]]
<1>2. ASSUME NEW a \in 1 .. k
      PROVE  f[a] \in 1 .. n /\ q[f[a]] = p[a]
  <2>1. p[a] \in M
    BY <1>1
  <2>2. \E b \in 1 .. n : q[b] = p[a]
    BY <1>1, <2>1
  <2> QED
    BY <2>2
<1>3. DOMAIN f = 1 .. k
  OBVIOUS
<1>4. f = [a \in 1 .. k |-> f[a]]
  OBVIOUS
<1> HIDE DEF f
<1>5. PICK a \in 1 .. k : f[a] >= k
  <2> SUFFICES ASSUME \A a \in 1 .. k : ~ (f[a] >= k) PROVE FALSE
    OBVIOUS
  <2>1. \A a \in 1 .. k : f[a] \in 1 .. k - 1
    BY <1>2
  <2>2. f \in [1 .. k -> 1 .. k - 1]
    BY <1>4, <2>1
  <2>3. /\ IsFiniteSet(1 .. k) /\ Cardinality(1 .. k) = k
        /\ IsFiniteSet(1 .. k - 1) /\ Cardinality(1 .. k - 1) = k - 1
    <3>1. k \in Int /\ 1 \in Int /\ k - 1 \in Int /\ ~ (1 > k)
      OBVIOUS
    <3> QED
      BY <3>1, FS_Interval
  <2>4. Cardinality(1 .. k - 1) < Cardinality(1 .. k)
    BY <2>3
  <2>5. PICK x \in 1 .. k, y \in 1 .. k : x # y /\ f[x] = f[y]
    BY <2>2, <2>3, <2>4, FS_PigeonHole, Zenon
  <2>6. p[x] = p[y]
    BY <1>2, <2>5
  <2> QED
    BY <1>1, <2>5, <2>6
<1>6. /\ DOMAIN p = 1 .. n /\ DOMAIN q = 1 .. n
      /\ p[a] \in D /\ p[k] \in D /\ q[k] \in D /\ q[f[a]] = p[a]
  BY <1>1, <1>2
<1>7. <<q[k], p[a]>> \in R
  <2>1. k = f[a] \/ k < f[a]
    BY <1>2, <1>5
  <2>2. CASE k = f[a]
    BY <1>6, <2>2
  <2>3. CASE k < f[a]
    BY <1>2, <1>6, <2>3 DEF SortedBy
  <2> QED
    BY <2>1, <2>2, <2>3
<1>8. <<p[a], p[k]>> \in R
  <2>1. CASE a = k
    BY <1>6, <2>1
  <2>2. CASE a < k
    BY <1>6, <2>2 DEF SortedBy
  <2> QED
    BY <2>1, <2>2
<1> QED
  BY <1>6, <1>7, <1>8 DEF Transitive

-----------------------------------------------------------------------------
(* The matcher: every score is a number, and every listing can be ranked.  *)

LEMMA ScoreType == \A q, c : Score(q, c) \in Nat
<1> TAKE q, c
<1> DEFINE S == Scores(q, c)
<1>1. S \subseteq {60, 80, 90, 95, 100}
  BY DEF Scores
<1> HIDE DEF S
<1>2. \E s \in S \cup {0} : \A t \in S : t <= s
  <2>1. CASE 100 \in S
    BY <1>1, <2>1
  <2>2. CASE 100 \notin S /\ 95 \in S
    BY <1>1, <2>2
  <2>3. CASE 100 \notin S /\ 95 \notin S /\ 90 \in S
    BY <1>1, <2>3
  <2>4. CASE 100 \notin S /\ 95 \notin S /\ 90 \notin S /\ 80 \in S
    BY <1>1, <2>4
  <2>5. CASE 100 \notin S /\ 95 \notin S /\ 90 \notin S /\ 80 \notin S
    BY <1>1, <2>5
  <2> QED
    BY <2>1, <2>2, <2>3, <2>4, <2>5
<1> DEFINE top == CHOOSE s \in S \cup {0} : \A t \in S : t <= s
<1>3. top \in S \cup {0}
  BY <1>2, Zenon
<1>4. Score(q, c) = 0 \/ Score(q, c) = top
  BY DEF Score, S
<1> HIDE DEF top
<1> QED
  BY <1>1, <1>3, <1>4

\* The indices of a listing, ordered as the contacts there are.
Before(q, listing) ==
    {e \in (DOMAIN listing) \X (DOMAIN listing) :
        RankedBefore(Normalized[q], listing[e[1]], listing[e[2]])}

LEMMA RankOrder ==
    ASSUME NEW q, NEW listing \in Seq(Contacts)
    PROVE  /\ Total(DOMAIN listing, Before(q, listing))
           /\ Transitive(DOMAIN listing, Before(q, listing))
           /\ \A i \in DOMAIN listing : <<i, i>> \in Before(q, listing)
           /\ \A i, j \in DOMAIN listing :
                 <<i, j>> \in Before(q, listing) /\ <<j, i>> \in Before(q, listing)
                     => listing[i] = listing[j]
<1> DEFINE S(i) == Score(Normalized[q], listing[i])
           L(i) == listing[i].last
           I(i) == listing[i].id
<1>1. \A i \in DOMAIN listing :
          listing[i] \in Contacts /\ S(i) \in Nat /\ L(i) \in Nat /\ I(i) \in Nat
  BY ScoreType, ResolutionAssumption
<1>2. \A i, j \in DOMAIN listing :
          <<i, j>> \in Before(q, listing) <=>
              \/ S(i) > S(j)
              \/ S(i) = S(j) /\ L(i) > L(j)
              \/ S(i) = S(j) /\ L(i) = L(j) /\ I(i) <= I(j)
  BY DEF Before, RankedBefore
<1>3. \A i, j \in DOMAIN listing : I(i) = I(j) => listing[i] = listing[j]
  BY <1>1, ResolutionAssumption
<1> HIDE DEF S, L, I
<1>4. Total(DOMAIN listing, Before(q, listing))
  <2> SUFFICES ASSUME NEW i \in DOMAIN listing, NEW j \in DOMAIN listing
               PROVE  <<i, j>> \in Before(q, listing) \/ <<j, i>> \in Before(q, listing)
    BY DEF Total
  <2>1. /\ S(i) \in Nat /\ L(i) \in Nat /\ I(i) \in Nat
        /\ S(j) \in Nat /\ L(j) \in Nat /\ I(j) \in Nat
    BY <1>1
  <2>2. \/ S(i) > S(j) \/ S(j) > S(i)
        \/ S(i) = S(j) /\ (L(i) > L(j) \/ L(j) > L(i))
        \/ S(i) = S(j) /\ L(i) = L(j) /\ (I(i) <= I(j) \/ I(j) <= I(i))
    BY <2>1
  <2> QED
    BY <1>2, <2>2
<1>5. Transitive(DOMAIN listing, Before(q, listing))
  BY <1>1, <1>2, SMTT(30) DEF Transitive
<1>6. \A i \in DOMAIN listing : <<i, i>> \in Before(q, listing)
  BY <1>1, <1>2
<1>7. ASSUME NEW i \in DOMAIN listing, NEW j \in DOMAIN listing,
             <<i, j>> \in Before(q, listing), <<j, i>> \in Before(q, listing)
      PROVE  listing[i] = listing[j]
  <2>1. /\ S(i) \in Nat /\ L(i) \in Nat /\ I(i) \in Nat
        /\ S(j) \in Nat /\ L(j) \in Nat /\ I(j) \in Nat
    BY <1>1
  <2>2. \/ S(i) > S(j)
        \/ S(i) = S(j) /\ L(i) > L(j)
        \/ S(i) = S(j) /\ L(i) = L(j) /\ I(i) <= I(j)
    BY <1>2, <1>7
  <2>3. \/ S(j) > S(i)
        \/ S(j) = S(i) /\ L(j) > L(i)
        \/ S(j) = S(i) /\ L(j) = L(i) /\ I(j) <= I(i)
    BY <1>2, <1>7
  <2>4. I(i) = I(j)
    BY <2>1, <2>2, <2>3
  <2> QED
    BY <1>3, <2>4
<1> QED
  BY <1>4, <1>5, <1>6, <1>7

LEMMA OrderFacts ==
    ASSUME NEW q, NEW listing \in Seq(Contacts)
    PROVE  /\ Matches(q, listing) \in SUBSET DOMAIN listing
           /\ IsFiniteSet(Matches(q, listing)) /\ Cardinality(Matches(q, listing)) \in Nat
           /\ Order(q, listing) \in Bijection(1 .. Cardinality(Matches(q, listing)), Matches(q, listing))
           /\ SortedBy(Order(q, listing), Before(q, listing))
<1> DEFINE M == Matches(q, listing)
           n == Cardinality(M)
           Ranked(p) == \A i, j \in DOMAIN p :
               i < j => RankedBefore(Normalized[q], listing[p[i]], listing[p[j]])
<1>1. M \in SUBSET DOMAIN listing
  BY DEF Matches
<1>2. IsFiniteSet(M) /\ n \in Nat
  <2>1. DOMAIN listing = 1 .. Len(listing) /\ Len(listing) \in Int /\ 1 \in Int
    OBVIOUS
  <2>2. IsFiniteSet(1 .. Len(listing))
    BY <2>1, FS_Interval
  <2>3. IsFiniteSet(M)
    BY <1>1, <2>1, <2>2, FS_Subset
  <2> QED
    BY <2>3, FS_CardinalityType
<1> HIDE DEF M, n
<1>3. ASSUME NEW p \in Bijection(1 .. n, M)
      PROVE  Ranked(p) <=> SortedBy(p, Before(q, listing))
  <2>1. p \in [1 .. n -> M]
    BY DEF Bijection, Injection
  <2>2. \A i \in DOMAIN p : p[i] \in DOMAIN listing
    BY <1>1, <2>1
  <2>3. \A i, j \in DOMAIN p :
            <<p[i], p[j]>> \in Before(q, listing)
                <=> RankedBefore(Normalized[q], listing[p[i]], listing[p[j]])
    BY <2>2 DEF Before
  <2> QED
    BY <2>3 DEF SortedBy
<1> HIDE DEF Ranked
<1>4. \E p \in Bijection(1 .. n, M) : Ranked(p)
  <2>1. \E p \in Bijection(1 .. n, M) : SortedBy(p, Before(q, listing))
    BY <1>1, <1>2, RankOrder, SortedExists DEF n
  <2> QED
    BY <1>3, <2>1
<1>5. Order(q, listing) = CHOOSE p \in Bijection(1 .. n, M) : Ranked(p)
  BY DEF Order, M, n, Ranked
<1>6. Order(q, listing) \in Bijection(1 .. n, M) /\ Ranked(Order(q, listing))
  BY <1>4, <1>5, Zenon
<1>7. SortedBy(Order(q, listing), Before(q, listing))
  BY <1>3, <1>6
<1> QED
  BY <1>1, <1>2, <1>6, <1>7 DEF M, n

\* A ranking holds the matches of the listing, the better ones first.
LEMMA RankingFacts ==
    ASSUME NEW q, NEW listing \in Seq(Contacts)
    PROVE  \E n \in Nat :
        /\ Ranking(q, listing) \in Seq(Contacts) /\ Len(Ranking(q, listing)) = n
        /\ \A k \in 1 .. n : Ranking(q, listing)[k] \in Contacts
        /\ \A j, k \in 1 .. n : j < k =>
               Score(Normalized[q], Ranking(q, listing)[j]) >= Score(Normalized[q], Ranking(q, listing)[k])
        /\ \A i \in DOMAIN listing :
               \/ Score(Normalized[q], listing[i]) = 0
               \/ \E k \in 1 .. n : Ranking(q, listing)[k] = listing[i]
<1> DEFINE M == Matches(q, listing)
           n == Cardinality(M)
           p == Order(q, listing)
           r == Ranking(q, listing)
<1>1. /\ M \in SUBSET DOMAIN listing /\ n \in Nat
      /\ p \in [1 .. n -> M] /\ (\A t \in M : \E s \in 1 .. n : p[s] = t)
      /\ SortedBy(p, Before(q, listing))
  BY OrderFacts DEF Bijection, Injection, Surjection
<1>2. \A i \in DOMAIN listing : i \in M \/ Score(Normalized[q], listing[i]) = 0
  BY ScoreType DEF Matches
<1>3. r = [k \in DOMAIN p |-> listing[p[k]]]
  BY DEF Ranking
<1> HIDE DEF M, n, p, r
<1>4. \A k \in 1 .. n : p[k] \in DOMAIN listing /\ r[k] = listing[p[k]] /\ r[k] \in Contacts
  BY <1>1, <1>3
<1>5. r \in [1 .. n -> Contacts]
  BY <1>1, <1>3, <1>4
<1>6. r \in Seq(Contacts) /\ Len(r) = n
  BY <1>1, <1>5
<1>7. ASSUME NEW j \in 1 .. n, NEW k \in 1 .. n, j < k
      PROVE  Score(Normalized[q], r[j]) >= Score(Normalized[q], r[k])
  <2>1. <<p[j], p[k]>> \in Before(q, listing)
    BY <1>1, <1>7 DEF SortedBy
  <2>2. RankedBefore(Normalized[q], listing[p[j]], listing[p[k]])
    BY <2>1 DEF Before
  <2>3. Score(Normalized[q], listing[p[j]]) >= Score(Normalized[q], listing[p[k]])
    BY <2>2, ScoreType DEF RankedBefore
  <2> QED
    BY <1>4, <2>3
<1>8. ASSUME NEW i \in DOMAIN listing
      PROVE  Score(Normalized[q], listing[i]) = 0 \/ \E k \in 1 .. n : r[k] = listing[i]
  <2>1. CASE i \in M
    <3>1. PICK k \in 1 .. n : p[k] = i
      BY <1>1, <2>1
    <3> QED
      BY <1>4, <3>1
  <2> QED
    BY <1>2, <2>1
<1> QED
  BY <1>1, <1>4, <1>6, <1>7, <1>8 DEF r

\* Two listings of the same contacts in another order have the same ranking.
LEMMA SwappedRanking ==
    ASSUME NEW q, NEW listing \in Seq(Contacts), NEW i \in DOMAIN listing, NEW j \in DOMAIN listing
    PROVE  LET swapped == [listing EXCEPT ![i] = listing[j], ![j] = listing[i]]
           IN  Ranking(q, swapped) = Ranking(q, listing)
<1> DEFINE swapped == [listing EXCEPT ![i] = listing[j], ![j] = listing[i]]
           dom == DOMAIN listing
           at == [k \in dom |-> IF k = i THEN j ELSE IF k = j THEN i ELSE k]
           M == Matches(q, listing)     N == Matches(q, swapped)
           p == Order(q, listing)       r == Order(q, swapped)
           n == Cardinality(M)
           t == [k \in 1 .. n |-> at[r[k]]]
<1>1. swapped \in Seq(Contacts) /\ DOMAIN swapped = dom
  OBVIOUS
<1>2. /\ at \in [dom -> dom]
      /\ \A k \in dom : at[at[k]] = k /\ swapped[k] = listing[at[k]]
  OBVIOUS
<1>3. /\ M \in SUBSET dom /\ IsFiniteSet(M) /\ n \in Nat
      /\ p \in Bijection(1 .. n, M) /\ SortedBy(p, Before(q, listing))
  BY OrderFacts
<1>4. /\ N \in SUBSET dom /\ IsFiniteSet(N)
      /\ r \in Bijection(1 .. Cardinality(N), N) /\ SortedBy(r, Before(q, swapped))
  BY <1>1, OrderFacts
<1>5. \A k \in dom : k \in N <=> at[k] \in M
  BY <1>1, <1>2 DEF Matches
<1> HIDE DEF swapped, dom, at, M, N, p, r
<1>6. Cardinality(N) = n
  <2> DEFINE f == [k \in N |-> at[k]]
  <2>1. f \in Bijection(N, M)
    <3>1. f \in [N -> M]
      BY <1>4, <1>5
    <3>2. \A a, b \in N : f[a] = f[b] => a = b
      BY <1>2, <1>4
    <3>3. ASSUME NEW a \in M
          PROVE  \E b \in N : f[b] = a
      <4>1. at[a] \in N /\ at[at[a]] = a
        BY <1>2, <1>3, <1>5
      <4> QED
        BY <4>1
    <3> QED
      BY <3>1, <3>2, <3>3, Fun_IsBij
  <2> QED
    BY <1>4, <2>1, FS_Bijection DEF ExistsBijection, n
<1>7. /\ r \in [1 .. n -> N] /\ (\A a, b \in 1 .. n : r[a] = r[b] => a = b)
      /\ (\A b \in N : \E a \in 1 .. n : r[a] = b)
  BY <1>4, <1>6 DEF Bijection, Injection, Surjection, IsInjective
<1>8. p \in [1 .. n -> M]
  BY <1>3 DEF Bijection, Injection
<1> HIDE DEF n
<1>9. \A k \in 1 .. n : t[k] = at[r[k]] /\ t[k] \in M /\ r[k] \in dom
  BY <1>4, <1>5, <1>7
<1>10. t \in Bijection(1 .. n, M)
  <2>1. t \in [1 .. n -> M]
    BY <1>9
  <2>2. \A a, b \in 1 .. n : t[a] = t[b] => a = b
    <3> SUFFICES ASSUME NEW a \in 1 .. n, NEW b \in 1 .. n, t[a] = t[b]
                 PROVE  a = b
      OBVIOUS
    <3>1. r[a] = r[b]
      BY <1>2, <1>9
    <3> QED
      BY <1>7, <3>1
  <2>3. ASSUME NEW a \in M
        PROVE  \E k \in 1 .. n : t[k] = a
    <3>1. at[a] \in N /\ at[at[a]] = a
      BY <1>2, <1>3, <1>5
    <3>2. PICK k \in 1 .. n : r[k] = at[a]
      BY <1>7, <3>1
    <3> QED
      BY <1>9, <3>1, <3>2
  <2> HIDE DEF t
  <2> QED
    BY <2>1, <2>2, <2>3, Fun_IsBij
<1>11. DOMAIN r = 1 .. n /\ DOMAIN p = 1 .. n /\ DOMAIN t = 1 .. n
  BY <1>7, <1>8
<1> HIDE DEF t
<1>12. SortedBy(t, Before(q, listing))
  <2> SUFFICES ASSUME NEW a \in 1 .. n, NEW b \in 1 .. n, a < b
               PROVE  <<t[a], t[b]>> \in Before(q, listing)
    BY <1>11 DEF SortedBy
  <2>1. <<r[a], r[b]>> \in Before(q, swapped)
    BY <1>4, <1>11 DEF SortedBy
  <2>2. RankedBefore(Normalized[q], swapped[r[a]], swapped[r[b]])
    BY <2>1 DEF Before
  <2>3. RankedBefore(Normalized[q], listing[t[a]], listing[t[b]])
    BY <1>2, <1>9, <2>2
  <2>4. t[a] \in DOMAIN listing /\ t[b] \in DOMAIN listing
    BY <1>3, <1>9 DEF dom
  <2> QED
    BY <2>3, <2>4 DEF Before
<1>13. ASSUME NEW k \in 1 .. n
       PROVE  listing[t[k]] = listing[p[k]]
  <2> DEFINE R == Before(q, listing)
  <2>1. Transitive(dom, R) /\ \A a \in dom : <<a, a>> \in R
    BY RankOrder DEF dom
  <2>2. t[k] \in DOMAIN listing /\ p[k] \in DOMAIN listing
    BY <1>3, <1>8, <1>9 DEF dom
  <2> HIDE DEF R
  <2>3. <<t[k], p[k]>> \in R
    BY <1>3, <1>10, <1>12, <2>1, SortedAlike DEF R
  <2>4. <<p[k], t[k]>> \in R
    BY <1>3, <1>10, <1>12, <2>1, SortedAlike DEF R
  <2> QED
    BY <2>2, <2>3, <2>4, RankOrder DEF R
<1>14. \A k \in 1 .. n : swapped[r[k]] = listing[p[k]]
  BY <1>2, <1>9, <1>13
<1>15. Ranking(q, swapped) = [k \in 1 .. n |-> swapped[r[k]]]
  BY <1>11 DEF Ranking, r
<1>16. Ranking(q, listing) = [k \in 1 .. n |-> listing[p[k]]]
  BY <1>11 DEF Ranking, p
<1>17. Ranking(q, swapped) = Ranking(q, listing)
  BY <1>14, <1>15, <1>16
<1> QED
  BY <1>17 DEF swapped

-----------------------------------------------------------------------------
(* The resolver. *)

LEMMA FirstOfFacts ==
    ASSUME NEW m \in Nat, NEW r \in Seq(Contacts)
    PROVE  \E l \in Nat :
        /\ l = IF Len(r) < m THEN Len(r) ELSE m
        /\ FirstOf(m, r) \in Seq(Contacts) /\ Len(FirstOf(m, r)) = l
        /\ \A k \in 1 .. l : FirstOf(m, r)[k] = r[k]
<1> DEFINE l == IF Len(r) < m THEN Len(r) ELSE m
<1>1. l \in Nat /\ l <= Len(r) /\ l <= m
  OBVIOUS
<1>2. FirstOf(m, r) = SubSeq(r, 1, l)
  BY DEF FirstOf
<1> HIDE DEF l
<1>3. /\ SubSeq(r, 1, l) \in Seq(Contacts) /\ Len(SubSeq(r, 1, l)) = l
      /\ \A k \in 1 .. l : SubSeq(r, 1, l)[k] = r[k]
  BY <1>1
<1> QED
  BY <1>1, <1>2, <1>3 DEF l

LEMMA OutcomeCases ==
    ASSUME NEW q, NEW listing
    PROVE  LET r == Ranking(q, listing)   a == Outcome(q, listing)
           IN  \/ r = << >> /\ a.outcome = "no_match" /\ a.candidates = << >>
               \/ /\ r # << >> /\ (Leads(q, r) \/ Len(r) = 1)
                  /\ a.outcome = "resolved" /\ a.candidates = FirstOf(1, r)
               \/ /\ r # << >> /\ a.outcome = "ambiguous"
                  /\ a.candidates = FirstOf(MaxCandidates, r)
BY DEF Outcome

\* The four parts of ResolvedIsClear, for one text and one listing.

LEMMA TheOthersLag ==
    ASSUME NEW q, NEW listing \in Seq(Contacts), Outcome(q, listing).outcome = "resolved",
           NEW c \in ToSet(Outcome(q, listing).candidates), NEW i \in DOMAIN listing
    PROVE  \/ c = listing[i]
           \/ Score(Normalized[q], listing[i]) = 0
           \/ Score(Normalized[q], c) - Score(Normalized[q], listing[i]) > 10
<1> DEFINE r == Ranking(q, listing)
           S(x) == Score(Normalized[q], x)
<1>1. PICK n \in Nat :
          /\ r \in Seq(Contacts) /\ Len(r) = n
          /\ \A j, k \in 1 .. n : j < k => S(r[j]) >= S(r[k])
          /\ \A x \in DOMAIN listing : S(listing[x]) = 0 \/ \E k \in 1 .. n : r[k] = listing[x]
  BY RankingFacts, SMTT(30)
<1>2. /\ r # << >> /\ (Leads(q, r) \/ Len(r) = 1)
      /\ Outcome(q, listing).candidates = FirstOf(1, r)
  BY OutcomeCases
<1>3. n >= 1
  BY <1>1, <1>2
<1>4. c = r[1]
  <2>1. PICK l \in Nat : /\ l = IF Len(r) < 1 THEN Len(r) ELSE 1
                         /\ FirstOf(1, r) \in Seq(Contacts) /\ Len(FirstOf(1, r)) = l
                         /\ \A k \in 1 .. l : FirstOf(1, r)[k] = r[k]
    <3>1. 1 \in Nat /\ r \in Seq(Contacts)
      BY <1>1
    <3> HIDE DEF r
    <3> QED
      BY <3>1, FirstOfFacts, Zenon
  <2>2. l = 1
    BY <1>1, <1>3, <2>1
  <2>3. DOMAIN FirstOf(1, r) = {1} /\ FirstOf(1, r)[1] = r[1]
    BY <2>1, <2>2
  <2> QED
    BY <1>2, <2>3 DEF ToSet
<1>5. S(r[1]) \in Nat /\ S(listing[i]) \in Nat
  BY ScoreType
<1>6. CASE S(listing[i]) = 0
  BY <1>6
<1>7. ASSUME NEW k \in 1 .. n, r[k] = listing[i], k > 1
      PROVE  S(c) - S(listing[i]) > 10
  <2>1. Len(r) > 1 /\ Leads(q, r) /\ 2 \in 1 .. n
    BY <1>1, <1>2, <1>7
  <2>2. S(r[1]) - S(r[2]) > 10
    BY <2>1 DEF Leads
  <2>3. S(r[2]) >= S(r[k]) /\ S(r[2]) \in Nat /\ S(r[k]) \in Nat
    <3>1. S(r[2]) \in Nat /\ S(r[k]) \in Nat
      BY ScoreType
    <3>2. k = 2 \/ 2 < k
      BY <1>7
    <3> QED
      BY <1>1, <2>1, <3>1, <3>2
  <2> HIDE DEF S, r
  <2> QED
    BY <1>4, <1>5, <1>7, <2>2, <2>3
<1>8. CASE \E k \in 1 .. n : r[k] = listing[i]
  <2>1. PICK k \in 1 .. n : r[k] = listing[i]
    BY <1>8
  <2>2. CASE k = 1
    BY <1>4, <2>1, <2>2
  <2>3. CASE k > 1
    BY <1>7, <2>1, <2>3
  <2> QED
    BY <2>2, <2>3
<1> QED
  BY <1>1, <1>6, <1>8

\* What the answer offers is the start of the ranking, at most MaxCandidates long.
LEMMA CandidatesFirst ==
    ASSUME NEW q, NEW listing \in Seq(Contacts)
    PROVE  \E m \in Nat : /\ m <= Len(Ranking(q, listing)) /\ m <= MaxCandidates
                          /\ Outcome(q, listing).candidates \in Seq(Contacts)
                          /\ Len(Outcome(q, listing).candidates) = m
                          /\ \A k \in 1 .. m : Outcome(q, listing).candidates[k] = Ranking(q, listing)[k]
<1> DEFINE r == Ranking(q, listing)
           o == Outcome(q, listing)
<1>1. r \in Seq(Contacts)
  BY RankingFacts
<1>2. \/ o.candidates = << >>
      \/ o.candidates = FirstOf(1, r)
      \/ o.candidates = FirstOf(MaxCandidates, r)
  BY OutcomeCases
<1>3. MaxCandidates \in Nat /\ MaxCandidates >= 1
  BY ResolutionAssumption
<1> HIDE DEF r, o
<1>4. CASE o.candidates = << >>
  <2>1. 0 \in Nat /\ 0 <= Len(r) /\ 0 <= MaxCandidates
    BY <1>1, <1>3
  <2>2. o.candidates \in Seq(Contacts) /\ Len(o.candidates) = 0
    BY <1>4
  <2> QED
    BY <2>1, <2>2 DEF o, r
<1>5. ASSUME NEW b \in Nat, b <= MaxCandidates, o.candidates = FirstOf(b, r)
      PROVE  \E m \in Nat : /\ m <= Len(r) /\ m <= MaxCandidates
                            /\ o.candidates \in Seq(Contacts) /\ Len(o.candidates) = m
                            /\ \A k \in 1 .. m : o.candidates[k] = r[k]
  <2>1. PICK l \in Nat : /\ l = IF Len(r) < b THEN Len(r) ELSE b
                         /\ FirstOf(b, r) \in Seq(Contacts) /\ Len(FirstOf(b, r)) = l
                         /\ \A k \in 1 .. l : FirstOf(b, r)[k] = r[k]
    BY <1>1, FirstOfFacts
  <2>2. l <= Len(r) /\ l <= MaxCandidates
    BY <1>1, <1>3, <1>5, <2>1
  <2> QED
    BY <1>5, <2>1, <2>2
<1> QED
  BY <1>2, <1>3, <1>4, <1>5 DEF o, r

LEMMA NoneBetterLeftOut ==
    ASSUME NEW q, NEW listing \in Seq(Contacts),
           NEW c \in ToSet(Outcome(q, listing).candidates),
           NEW d \in ToSet(listing) \ ToSet(Outcome(q, listing).candidates)
    PROVE  Score(Normalized[q], c) >= Score(Normalized[q], d)
<1> DEFINE r == Ranking(q, listing)
           o == Outcome(q, listing)
           S(x) == Score(Normalized[q], x)
<1>1. PICK n \in Nat :
          /\ r \in Seq(Contacts) /\ Len(r) = n
          /\ \A j, k \in 1 .. n : j < k => S(r[j]) >= S(r[k])
          /\ \A x \in DOMAIN listing : S(listing[x]) = 0 \/ \E k \in 1 .. n : r[k] = listing[x]
  BY RankingFacts, SMTT(30)
<1>2. PICK m \in Nat : /\ m <= Len(r)
                       /\ o.candidates \in Seq(Contacts) /\ Len(o.candidates) = m
                       /\ \A k \in 1 .. m : o.candidates[k] = r[k]
  BY CandidatesFirst
<1>3. S(c) \in Nat /\ S(d) \in Nat
  BY ScoreType
<1>4. PICK i \in DOMAIN listing : d = listing[i]
  BY DEF ToSet
<1> HIDE DEF r, o, S
<1>5. PICK j \in 1 .. m : c = r[j]
  BY <1>2 DEF ToSet, o
<1>6. ASSUME S(d) = 0
      PROVE  S(c) >= S(d)
  BY <1>3, <1>6
<1>7. ASSUME NEW k \in 1 .. n, d = r[k]
      PROVE  S(c) >= S(d)
  <2>1. k \notin 1 .. m
    <3> SUFFICES ASSUME k \in 1 .. m PROVE FALSE
      OBVIOUS
    <3>1. k \in DOMAIN o.candidates /\ o.candidates[k] = d
      BY <1>2, <1>7
    <3> QED
      BY <3>1 DEF ToSet, o
  <2>2. j \in 1 .. n /\ j < k
    BY <1>1, <1>2, <2>1
  <2> QED
    BY <1>1, <1>5, <1>7, <2>2
<1>8. S(c) >= S(d)
  BY <1>1, <1>4, <1>6, <1>7
<1> QED
  BY <1>8 DEF S

LEMMA OfferedIsShown ==
    ASSUME NEW q, NEW listing \in Seq(Contacts)
    PROVE  IsPrefix(Outcome(q, listing).candidates, FirstOf(MaxResults, Ranking(q, listing)))
<1> DEFINE r == Ranking(q, listing)
           s == Outcome(q, listing).candidates
           t == FirstOf(MaxResults, r)
<1>1. PICK m \in Nat : /\ m <= Len(r) /\ m <= MaxCandidates
                       /\ s \in Seq(Contacts) /\ Len(s) = m
                       /\ \A k \in 1 .. m : s[k] = r[k]
  BY CandidatesFirst
<1>2. r \in Seq(Contacts) /\ MaxResults \in Nat /\ MaxCandidates \in Nat /\ MaxCandidates <= MaxResults
  BY RankingFacts, ResolutionAssumption
<1>3. PICK l \in Nat : /\ l = IF Len(r) < MaxResults THEN Len(r) ELSE MaxResults
                       /\ t \in Seq(Contacts) /\ Len(t) = l
                       /\ \A k \in 1 .. l : t[k] = r[k]
  BY <1>2, FirstOfFacts
<1> HIDE DEF r, s, t
<1>4. m <= l
  BY <1>1, <1>2, <1>3
<1>5. \A k \in 1 .. m : s[k] = t[k]
  BY <1>1, <1>3, <1>4
<1>6. SubSeq(s, 1, m) = SubSeq(t, 1, m)
  BY <1>1, <1>3, <1>4, <1>5
<1>7. IsPrefix(s, t)
  BY <1>1, <1>3, <1>4, <1>6 DEF IsPrefix
<1> QED
  BY <1>7 DEF s, t, r

LEMMA OrderDecidesNothing ==
    ASSUME NEW q, NEW listing \in Seq(Contacts), NEW i \in DOMAIN listing, NEW j \in DOMAIN listing
    PROVE  Outcome(q, [listing EXCEPT ![i] = listing[j], ![j] = listing[i]]) = Outcome(q, listing)
<1>1. Ranking(q, [listing EXCEPT ![i] = listing[j], ![j] = listing[i]]) = Ranking(q, listing)
  BY SwappedRanking
<1> QED
  BY <1>1 DEF Outcome

\* The user is never answered for the wrong person: a text that resolves means one
\* contact clearly, whatever the texts, the contacts and the order they are listed in.
THEOREM ResolvedIsClearHolds == ResolutionSpec => []ResolvedIsClear
<1> DEFINE Answered ==
        resolution # NoAnswer =>
            \E q \in Texts, listing \in Listings :
                resolution = [query |-> q, listing |-> listing, answer |-> Outcome(q, listing),
                              shown |-> FirstOf(MaxResults, Ranking(q, listing))]
<1>1. ResolutionInit => Answered
  BY DEF ResolutionInit
<1>2. Answered /\ [ResolveContact]_resolution => Answered'
  <2>1. CASE ResolveContact
    BY <2>1 DEF ResolveContact
  <2>2. CASE UNCHANGED resolution
    BY <2>2
  <2> QED
    BY <2>1, <2>2
<1>3. Answered => ResolvedIsClear
  <2> SUFFICES ASSUME NEW q \in Texts, NEW listing \in Listings,
                      resolution = [query |-> q, listing |-> listing, answer |-> Outcome(q, listing),
                                    shown |-> FirstOf(MaxResults, Ranking(q, listing))]
               PROVE  ResolvedIsClear
    BY DEF ResolvedIsClear
  <2>1. listing \in Seq(Contacts)
    BY ResolutionAssumption
  <2>2. /\ resolution.query = q /\ resolution.listing = listing
        /\ resolution.answer = Outcome(q, listing)
        /\ resolution.shown = FirstOf(MaxResults, Ranking(q, listing))
    OBVIOUS
  <2>3. Outcome(q, listing).outcome = "resolved" =>
            \A c \in ToSet(Outcome(q, listing).candidates) : \A i \in DOMAIN listing :
                \/ c = listing[i]
                \/ Score(Normalized[q], listing[i]) = 0
                \/ Score(Normalized[q], c) - Score(Normalized[q], listing[i]) > 10
    BY <2>1, TheOthersLag
  <2>4. \A c \in ToSet(Outcome(q, listing).candidates),
           d \in ToSet(listing) \ ToSet(Outcome(q, listing).candidates) :
            Score(Normalized[q], c) >= Score(Normalized[q], d)
    BY <2>1, NoneBetterLeftOut
  <2>5. IsPrefix(Outcome(q, listing).candidates, FirstOf(MaxResults, Ranking(q, listing)))
    BY <2>1, OfferedIsShown
  <2>6. \A i, j \in DOMAIN listing :
            Outcome(q, [listing EXCEPT ![i] = listing[j], ![j] = listing[i]]) = Outcome(q, listing)
    BY <2>1, OrderDecidesNothing
  <2> QED
    BY <2>2, <2>3, <2>4, <2>5, <2>6, Zenon DEF ResolvedIsClear
<1> QED
  BY <1>1, <1>2, <1>3, PTL DEF ResolutionSpec
===============================================================================

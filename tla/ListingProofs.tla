---------------------------- MODULE ListingProofs ----------------------------
(***************************************************************************)
(* What sorting a finite set does: every element comes once, and in order. *)
(***************************************************************************)
EXTENDS Listings, FiniteSetTheorems, TLAPS

\* R orders the elements of S strictly and totally.
Orders(R, S) ==
    /\ \A x \in S : <<x, x>> \notin R
    /\ \A x, y \in S : x = y \/ <<x, y>> \in R \/ <<y, x>> \in R
    /\ \A x, y, z \in S : <<x, y>> \in R /\ <<y, z>> \in R => <<x, z>> \in R

\* s has the elements of S, each once, in the order of R.
IsListing(s, S, R) ==
    /\ s \in [1..Cardinality(S) -> S]
    /\ \A x \in S : \E k \in 1..Cardinality(S) : s[k] = x
    /\ \A i, j \in 1..Cardinality(S) : i < j => <<s[i], s[j]>> \in R

Before(x, S, R) == {y \in S : <<y, x>> \in R}

LEMMA BeforeGrows ==
    ASSUME NEW S, IsFiniteSet(S), NEW R, Orders(R, S), NEW x \in S, NEW z \in S, <<x, z>> \in R
    PROVE  Cardinality(Before(x, S, R)) < Cardinality(Before(z, S, R))
<1>1. Before(x, S, R) \subseteq Before(z, S, R) /\ x \in Before(z, S, R) /\ x \notin Before(x, S, R)
  BY DEF Before, Orders
<1>2. IsFiniteSet(Before(z, S, R))
  <2>1. Before(z, S, R) \in SUBSET S
    BY DEF Before
  <2> QED BY <2>1, FS_Subset
<1>3. /\ IsFiniteSet(Before(x, S, R))
      /\ Cardinality(Before(x, S, R)) <= Cardinality(Before(z, S, R))
      /\ Cardinality(Before(x, S, R)) # Cardinality(Before(z, S, R))
  BY <1>1, <1>2, FS_Subset
<1>4. Cardinality(Before(x, S, R)) \in Nat /\ Cardinality(Before(z, S, R)) \in Nat
  BY <1>2, <1>3, FS_CardinalityType
<1> QED BY <1>3, <1>4

\* Every place is that of one element.
LEMMA PlaceTaken ==
    ASSUME NEW S, IsFiniteSet(S), NEW R, Orders(R, S)
    PROVE  /\ Cardinality(S) \in Nat
           /\ \A x \in S : Cardinality(Before(x, S, R)) \in 0..Cardinality(S) - 1
           /\ \A k \in 1..Cardinality(S) : \E x \in S : Cardinality(Before(x, S, R)) = k - 1
<1> DEFINE n == Cardinality(S)
           place == [x \in S |-> Cardinality(Before(x, S, R)) + 1]
<1>1. n \in Nat
  BY FS_CardinalityType
<1>2. ASSUME NEW x \in S
      PROVE  Cardinality(Before(x, S, R)) \in 0..n - 1
  <2>1. Before(x, S, R) \in SUBSET S /\ x \notin Before(x, S, R)
    BY DEF Before, Orders
  <2>2. /\ IsFiniteSet(Before(x, S, R)) /\ Cardinality(Before(x, S, R)) <= n
        /\ Cardinality(Before(x, S, R)) # n
    BY <2>1, FS_Subset
  <2>3. Cardinality(Before(x, S, R)) \in Nat
    BY <2>2, FS_CardinalityType
  <2> QED BY <1>1, <2>2, <2>3
<1>3. place \in Injection(S, 1..n)
  <2>1. place \in [S -> 1..n]
    BY <1>1, <1>2
  <2>2. ASSUME NEW x \in S, NEW z \in S, place[x] = place[z]
        PROVE  x = z
    <3>1. Cardinality(Before(x, S, R)) = Cardinality(Before(z, S, R))
      BY <1>2, <2>2
    <3>2. CASE <<x, z>> \in R
      BY <1>2, <3>1, <3>2, BeforeGrows
    <3>3. CASE <<z, x>> \in R
      BY <1>2, <3>1, <3>3, BeforeGrows
    <3> QED BY <3>2, <3>3 DEF Orders
  <2> QED BY <2>1, <2>2, Zenon DEF Injection, IsInjective
<1>4. IsFiniteSet(1..n) /\ Cardinality(1..n) = n
  BY <1>1, FS_Interval
<1>5. place \in Surjection(S, 1..n)
  BY <1>3, <1>4, FS_Injection
<1>6. ASSUME NEW k \in 1..n
      PROVE  \E x \in S : Cardinality(Before(x, S, R)) = k - 1
  <2>1. PICK x \in S : place[x] = k
    BY <1>5 DEF Surjection
  <2> QED BY <1>2, <2>1
<1> QED BY <1>1, <1>2, <1>6

\* Listing sorts.
LEMMA ListingSorts ==
    ASSUME NEW S, IsFiniteSet(S), NEW R, Orders(R, S)
    PROVE  Cardinality(S) \in Nat /\ IsListing(Listing(S, R), S, R)
<1> DEFINE n == Cardinality(S)
           s == Listing(S, R)
<1>1. n \in Nat
  BY PlaceTaken
<1>2. DOMAIN s = 1..n
  BY DEF Listing
<1>3. ASSUME NEW k \in 1..n
      PROVE  s[k] \in S /\ Cardinality(Before(s[k], S, R)) = k - 1
  <2>1. s[k] = CHOOSE x \in S : Cardinality(Before(x, S, R)) = k - 1
    BY Zenon DEF Listing, Before
  <2>2. \E x \in S : Cardinality(Before(x, S, R)) = k - 1
    BY PlaceTaken
  <2> QED BY <2>1, <2>2, Zenon
<1>4. s \in [1..n -> S]
  BY <1>3 DEF Listing
<1> HIDE DEF s
<1>5. ASSUME NEW x \in S PROVE \E k \in 1..n : s[k] = x
  <2>1. Cardinality(Before(x, S, R)) \in 0..n - 1
    BY PlaceTaken
  <2> DEFINE k == Cardinality(Before(x, S, R)) + 1
  <2>2. k \in 1..n /\ k - 1 = Cardinality(Before(x, S, R))
    BY <1>1, <2>1
  <2>3. s[k] \in S /\ Cardinality(Before(s[k], S, R)) = Cardinality(Before(x, S, R))
    BY <1>3, <2>2
  <2> HIDE DEF k
  <2>4. ~(<<s[k], x>> \in R) /\ ~(<<x, s[k]>> \in R)
    BY <2>1, <2>3, BeforeGrows
  <2> QED BY <2>2, <2>3, <2>4 DEF Orders
<1>6. ASSUME NEW i \in 1..n, NEW j \in 1..n, i < j
      PROVE  <<s[i], s[j]>> \in R
  <2>1. /\ s[i] \in S /\ Cardinality(Before(s[i], S, R)) = i - 1
        /\ s[j] \in S /\ Cardinality(Before(s[j], S, R)) = j - 1
    BY <1>3
  <2>2. s[i] # s[j]
    BY <1>6, <2>1
  <2>3. ASSUME <<s[j], s[i]>> \in R PROVE FALSE
    <3>1. Cardinality(Before(s[j], S, R)) < Cardinality(Before(s[i], S, R))
      BY <2>1, <2>3, BeforeGrows
    <3> QED BY <1>6, <2>1, <3>1
  <2> QED BY <2>1, <2>2, <2>3, Zenon DEF Orders
<1> QED BY <1>1, <1>4, <1>5, <1>6, Zenon DEF IsListing, s

\* Ascending sorts numbers.
LEMMA AscendingSorts ==
    ASSUME NEW S \in SUBSET Nat, IsFiniteSet(S)
    PROVE  /\ Cardinality(S) \in Nat
           /\ Ascending(S) \in [1..Cardinality(S) -> S]
           /\ \A x \in S : \E k \in 1..Cardinality(S) : Ascending(S)[k] = x
           /\ \A i, j \in 1..Cardinality(S) : i < j => Ascending(S)[i] < Ascending(S)[j]
<1> DEFINE R == {p \in S \X S : p[1] < p[2]}
<1>1. \A x, y : <<x, y>> \in R <=> x \in S /\ y \in S /\ x < y
  OBVIOUS
<1>2. Orders(R, S)
  <2>1. S \subseteq Nat
    OBVIOUS
  <2> QED BY <1>1, <2>1 DEF Orders
<1>3. Cardinality(S) \in Nat /\ IsListing(Ascending(S), S, R)
  BY <1>2, ListingSorts, Zenon DEF Ascending
<1> HIDE DEF R
<1> QED BY <1>1, <1>3, Zenon DEF IsListing
=============================================================================

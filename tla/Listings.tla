------------------------------ MODULE Listings ------------------------------
(***************************************************************************)
(* Sorting, as the page's code does with Array.prototype.sort and filter:  *)
(* the elements of a set as a sequence, each in the place that the number  *)
(* of elements before it gives.                                            *)
(***************************************************************************)
EXTENDS Naturals, FiniteSets

\* The elements of S in the order of R, which holds the pairs of one element
\* and a later one.
Listing(S, R) ==
    [k \in 1..Cardinality(S) |->
        CHOOSE x \in S : Cardinality({y \in S : <<y, x>> \in R}) = k - 1]

\* Numbers in growing order.
Ascending(S) == Listing(S, {p \in S \X S : p[1] < p[2]})
=============================================================================

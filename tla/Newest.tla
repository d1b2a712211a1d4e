------------------------------- MODULE Newest -------------------------------
(***************************************************************************)
(* ORDER BY ... DESC LIMIT n, for the listings of books and forum posts    *)
(* and for the activity feed: n rows none of which is older than a row     *)
(* left out.  Rows of the same time come in any order.                     *)
(***************************************************************************)
EXTENDS Integers, FiniteSets

\* The sets of at most n rows that such a query on S may return; at[i] is
\* the time of row i.
NewestOf(at, S, n) ==
    {P \in SUBSET S :
       \/ P = S /\ Cardinality(S) <= n
       \/ Cardinality(P) = n /\ \A i \in P, j \in S \ P : at[i] >= at[j]}

=============================================================================

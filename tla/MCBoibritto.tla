---------------------------- MODULE MCBoibritto -----------------------------
(***************************************************************************)
(* Small instances of Boibritto for TLC.  The .cfg files choose how many   *)
(* students, books, request ids and goroutines there are; a student called *)
(* `lender' owns every book.                                               *)
(***************************************************************************)
EXTENDS Boibritto, TLC

CONSTANTS lender

LenderOwnsAll == [b \in Books |-> lender]

\* Everybody has a name from Firebase and a number on file.
AllSignedUp == [u \in Users |-> ProfileFields]

\* Everybody has a name from Firebase; no number yet.
NamesOnly == [u \in Users |-> {"name"}]

NoPatches == {}

\* Goroutines, request ids and books are interchangeable, and so are the
\* students who own nothing.
Symmetry ==
    Permutations(Handlers) \cup Permutations(RequestIds)
      \cup Permutations(Books) \cup Permutations(Users \ {lender})

=============================================================================

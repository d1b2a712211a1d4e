----------------------------- MODULE MCMessages -----------------------------
(***************************************************************************)
(* Small instances of Messages: one book, whose owner is `lender', and     *)
(* students that have all completed their profiles.                        *)
(***************************************************************************)
EXTENDS Messages, TLC

CONSTANTS lender

LenderOwnsAll == [b \in Books |-> lender]

AllSignedUp == [u \in Users |-> ProfileFields]

NoPatches == {}

\* Goroutines of a kind are interchangeable, and so are messages and the
\* students who own nothing.
ChatSymmetry ==
    Permutations(Handlers) \cup Permutations(Senders) \cup Permutations(MessageIds)
      \cup Permutations(Users \ {lender})

=============================================================================

----------------------------- MODULE MCActivity -----------------------------
(***************************************************************************)
(* Small instances of Activity: a student who lists books, and has sent    *)
(* one request and accepted another.                                       *)
(***************************************************************************)
EXTENDS Activity, TLC

CONSTANTS sent, accepted

SentAndAccepted ==
    [e \in Events |-> IF e = sent THEN 2 ELSE IF e = accepted THEN 3 ELSE Books]

EventSymmetry == Permutations(Events \ {sent, accepted})

=============================================================================

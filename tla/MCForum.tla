------------------------------ MODULE MCForum -------------------------------
(***************************************************************************)
(* A small instance of Forum, with the students of MCBoibritto.            *)
(***************************************************************************)
EXTENDS Forum, MCBoibritto

NoRequests == {}

ForumSymmetry ==
    Permutations(Posters) \cup Permutations(PostIds) \cup Permutations(Books)

=============================================================================

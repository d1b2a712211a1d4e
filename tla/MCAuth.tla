------------------------------- MODULE MCAuth -------------------------------
(***************************************************************************)
(* Small instances of Auth: which e-mail claims the identities carry.      *)
(***************************************************************************)
EXTENDS Auth, TLC

CONSTANTS ann, bob, cat

OwnEmails == [u \in Uids |-> u]

NoEmails == [u \in Uids |-> ""]

\* bob signed up twice, under two identities.
BobTwice == [u \in Uids |-> IF u = cat THEN bob ELSE u]

=============================================================================

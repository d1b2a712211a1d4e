------------------------------- MODULE MCPush -------------------------------
(***************************************************************************)
(* Small instances of Push: FCM refuses the token of one device.           *)
(***************************************************************************)
EXTENDS Push, TLC

CONSTANTS broken

=============================================================================

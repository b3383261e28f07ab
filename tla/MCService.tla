------------------------------- MODULE MCService -------------------------------
(***************************************************************************)
(* Instances of Service for TLC.  One slot and one place for a pending     *)
(* admission make busy rejections and evictions happen with two            *)
(* connections.                                                            *)
(***************************************************************************)
EXTENDS Service

CONSTANTS c1, s1, s2

=============================================================================

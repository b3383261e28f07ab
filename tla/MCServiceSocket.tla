---------------------------- MODULE MCServiceSocket ----------------------------
(***************************************************************************)
(* Instances of ServiceSocket for TLC: three services, one of which can    *)
(* start while another stops and the third has died.                       *)
(***************************************************************************)
EXTENDS ServiceSocket

CONSTANTS v1, v2, v3

=============================================================================

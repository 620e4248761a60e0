---------------------------- MODULE MCGelfOutput ----------------------------
(* A small instance of GelfOutput for TLC. *)
EXTENDS GelfOutput
=============================================================================

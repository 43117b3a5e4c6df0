----------------------------- MODULE MCVolumes ------------------------------
(* An instance of Volumes for TLC. *)
EXTENDS Volumes

CONSTANTS c1, loop, handler
=============================================================================

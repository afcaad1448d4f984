------------------------------ MODULE MCNetBase ------------------------------
(* Small instances of NetBase for TLC. *)
EXTENDS NetBase
=============================================================================

---------------------------- MODULE MCWriteSide -----------------------------
(* Small instances of WriteSide for TLC. *)
EXTENDS WriteSide, TLC

=============================================================================

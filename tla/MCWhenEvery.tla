----------------------------- MODULE MCWhenEvery -----------------------------
(* Small instances of WhenEvery.                                           *)
EXTENDS WhenEvery, TLC
=============================================================================

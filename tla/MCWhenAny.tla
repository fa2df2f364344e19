------------------------------ MODULE MCWhenAny ------------------------------
(* Small instances of WhenAny.                                             *)
EXTENDS WhenAny, TLC
=============================================================================

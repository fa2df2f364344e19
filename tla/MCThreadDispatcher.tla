------------------------- MODULE MCThreadDispatcher -------------------------
(* Small instances of ThreadDispatcher.                                    *)
EXTENDS ThreadDispatcher, TLC
=============================================================================

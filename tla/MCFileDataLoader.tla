--------------------------- MODULE MCFileDataLoader ---------------------------
(* Three loads by different loaders, of which two share a dispatcher: one  *)
(* file has two blocks, one is empty and read without blocks, and one is   *)
(* within its block.                                                       *)
EXTENDS FileDataLoader, TLC

CONSTANTS a, b, c, first, second

Sharing == [l \in Loads |-> IF l = c THEN second ELSE first]
Sizes == [l \in Loads |-> CASE l = a -> 2 [] l = b -> 0 [] l = c -> 1]
Blocks == [l \in Loads |-> CASE l = a -> 1 [] l = b -> nblock [] l = c -> 2]
===============================================================================

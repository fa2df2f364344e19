---------------------------- MODULE MCContinuations ----------------------------
EXTENDS Continuations
(* A when_all of two tasks, and a node behind it.                          *)
Tree == << {}, {}, {1, 2}, {3} >>
(* A task and two nodes behind it.                                         *)
Chain == << {}, {1}, {2} >>
================================================================================

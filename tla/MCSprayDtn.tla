---------------------------- MODULE MCSprayDtn ----------------------------
(* Messages of one node to another, for the model checker.                 *)
EXTENDS SprayDtn

CONSTANTS a, b, c, m1, m2

OneSource == [m \in Messages |-> a]
(* The destination also sends a message to itself.                         *)
AlsoToItself == [m \in Messages |-> IF m = m1 THEN a ELSE c]
ToC == [m \in Messages |-> c]
=============================================================================

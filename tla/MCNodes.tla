------------------------------- MODULE MCNodes -------------------------------
(* A small instance of Nodes for TLC: a node that reconnects and another one, *)
(* more than the registry takes.                                              *)
EXTENDS Nodes

CONSTANTS a, b, s1, s2, s3
MCIdsOf == [s \in {s1, s2, s3} |-> IF s = s3 THEN {b} ELSE {a}]
=============================================================================

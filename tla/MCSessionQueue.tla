--------------------------- MODULE MCSessionQueue ---------------------------
(* Instances of SessionQueue for TLC.                                       *)
EXTENDS SessionQueue

MCConns == {"c1", "c2", "c3"}
MCDeployments == {{}, {"first_message", "evict"}}
MCMaxTurns == [d \in MCDeployments |-> IF d = {} THEN 3 ELSE 2]
=============================================================================

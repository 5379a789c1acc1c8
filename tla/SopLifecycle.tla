---------------------------- MODULE SopLifecycle ----------------------------
(***************************************************************************)
(* What the SOP engine promises of its runs: ids are handed out in order,  *)
(* at most Limit runs are open at once, and a run ends once, in one of     *)
(* three ways, for good.                                                   *)
(***************************************************************************)
EXTENDS Integers, FiniteSets

CONSTANTS Ids, Limit
VARIABLE phase

Ends == {"completed", "failed", "cancelled"}

OpenIds == {r \in Ids : phase[r] = "open"}

Init == phase = [r \in Ids |-> "absent"]

Begin(r) ==
  /\ phase[r] = "absent"
  /\ \A q \in Ids : q < r => phase[q] # "absent"
  /\ Cardinality(OpenIds) < Limit
  /\ phase' = [phase EXCEPT ![r] = "open"]

End(r, outcome) ==
  /\ phase[r] = "open"
  /\ phase' = [phase EXCEPT ![r] = outcome]

Next == \E r \in Ids : Begin(r) \/ \E o \in Ends : End(r, o)

Spec == Init /\ [][Next]_phase
=============================================================================

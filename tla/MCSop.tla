-------------------------------- MODULE MCSop --------------------------------
(* Instances of SopEngine and SopCaller: the SOP directories TLC explores.  *)
EXTENDS SopCaller

Step(c, k) == [confirm |-> c, checkpoint |-> k]
Def(m, u, st, cool, max) ==
  [mode |-> m, urgent |-> u, steps |-> st, cooldown |-> cool, maxConcurrent |-> max]

Plain == Step(FALSE, FALSE)
Confirm == Step(TRUE, FALSE)
Gate == Step(FALSE, TRUE)

MCSops == {"deploy", "audit"}

\* Reloads change modes, priorities and limits under running runs, drop a SOP
\* and shorten one.
EngineLibraries ==
  {[deploy |-> NotLoaded, audit |-> Def("deterministic", FALSE, <<Plain, Gate>>, 0, 1)],
   [deploy |-> Def("step_by_step", TRUE, <<Plain, Gate>>, 0, 2),
    audit |-> Def("deterministic", FALSE, <<Gate, Plain>>, 1, 1)],
   [deploy |-> Def("priority_based", TRUE, <<Plain>>, 1, 1), audit |-> NotLoaded]}

\* Confirmations, first-step and every-step approvals, an urgent SOP, one of low
\* priority, deterministic ones with a confirmation and a checkpoint, at the first
\* step or later.
CallerLibraries ==
  {[deploy |-> Def("supervised", FALSE, <<Plain, Confirm, Plain>>, 0, 1),
    audit |-> Def("step_by_step", TRUE, <<Plain, Plain>>, 1, 1)],
   [deploy |-> Def("deterministic", FALSE, <<Confirm, Gate, Confirm>>, 0, 1),
    audit |-> Def("priority_based", FALSE, <<Plain, Confirm>>, 1, 1)],
   [deploy |-> Def("priority_based", TRUE, <<Plain, Confirm>>, 0, 1),
    audit |-> Def("deterministic", FALSE, <<Gate, Plain>>, 0, 1)]}

CheckpointLibraries ==
  {[deploy |-> Def("deterministic", FALSE, <<Plain, Gate, Plain>>, 0, 1),
    audit |-> Def("auto", FALSE, <<Plain>>, 0, 1)]}
=============================================================================

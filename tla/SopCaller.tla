------------------------------ MODULE SopCaller ------------------------------
(***************************************************************************)
(* The engine driven by callers that follow the actions it hands out.  The *)
(* program has three: sop_execute and the dispatcher start runs, agents    *)
(* report steps with sop_advance, which calls advance_step in every mode,  *)
(* and operators answer with sop_approve, which only takes on a run that   *)
(* waits for approval.  Cancelling and polling for approval timeouts are   *)
(* methods nothing in the program calls yet; here a caller may.  Driving a *)
(* deterministic run, as the engine's tests do, is apart (Drive).          *)
(***************************************************************************)
EXTENDS SopEngine

\* An agent that was given a step reports it; what a checkpoint or an approval
\* holds back was given to nobody.
Report(r) ==
  /\ told[r] \in {"ExecuteStep", "DeterministicStep"}
  /\ \E o \in Outcomes : AdvanceStep(r, o)

Answer(r) == told[r] = "WaitApproval" /\ ApproveStep(r)

CallerNext ==
  \/ \E s \in Sops : StartRun(s)
  \/ \E r \in RunIds : Report(r) \/ Answer(r) \/ CancelRun(r)
  \/ CheckApprovalTimeouts
  \/ Tick

CallerSpec == Init /\ [][CallerNext]_vars

\* Agents report the steps they are given and operators answer: both are asked
\* for by the action the engine returned.  Nobody has to start a run.
Fairness == \A r \in RunIds : WF_vars(Report(r)) /\ WF_vars(Answer(r))
FairCallerSpec == CallerSpec /\ Fairness

\* A driver of deterministic runs, with the methods made for them: outputs are
\* piped from step to step, a checkpoint is resumed from its state file.
Drive(r) ==
  \/ told[r] = "DeterministicStep" /\ AdvanceDeterministic(r)
  \/ told[r] = "CheckpointWait" /\ ResumeDeterministic(r)

DriverSpec ==
  /\ Init /\ [][CallerNext \/ \E r \in RunIds : Drive(r)]_vars
  /\ Fairness /\ \A r \in RunIds : WF_vars(Drive(r))

-----------------------------------------------------------------------------

\* A step that a run of the procedure, once it is under way, must not complete
\* without an approval: one that requires confirmation, every step of a
\* step-by-step procedure, the first of a supervised one and of one that goes by
\* a priority below high.  The first step of a deterministic procedure is handed
\* out unasked by start_deterministic_run, whatever it requires; its later steps
\* come through advance_step and are asked for.
Gated(d, k) ==
  IF d.mode = "deterministic"
    THEN k > 1 /\ d.steps[k].confirm
    ELSE \/ d.steps[k].confirm
         \/ d.mode = "step_by_step"
         \/ k = 1 /\ (d.mode = "supervised" \/ (d.mode = "priority_based" /\ ~d.urgent))

\* A completed step that needed approval was approved, by an operator or by the
\* timeout of an urgent procedure, in each of the five modes.
GatesHold ==
  \A r \in RunIds : \A i \in DOMAIN run[r].results :
    LET e == run[r].results[i]
    IN  e.status = "completed" /\ Gated(sops[run[r].sop], e.step) => <<r, e.step>> \in approvals

\* Callers that follow what they are told carry a procedure out: its steps in order,
\* each once, and none that is gated without an approval.
ProcedureFollowed == GatesHold /\ ResultsInOrder

\* Every run that was started ends, with agents and operators that answer, but
\* for one paused at a checkpoint that is its first step: sop_advance was given
\* nothing to report and sop_approve does not take a paused run on.
RunsEnd ==
  \A r \in RunIds :
    r \in active ~> r \notin active \/ (run[r].status = "paused_checkpoint" /\ run[r].step = 1)

\* A checkpoint its driver keeps resuming is passed.
CheckpointPassed ==
  \A r \in RunIds : run[r].status = "paused_checkpoint" ~> run[r].status # "paused_checkpoint"
=============================================================================

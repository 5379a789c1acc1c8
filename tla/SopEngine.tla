----------------------------- MODULE SopEngine -----------------------------
(***************************************************************************)
(* The SOP (standard operating procedure) engine of the runtime crate:     *)
(* which runs exist, the step each one is at, and what an operation of the *)
(* engine does to them.  Every operation takes the engine's mutex, so one  *)
(* operation is one action.  The callers (the sop_* tools, the dispatcher, *)
(* tests) are free here; SopCaller adds a caller that does what the engine *)
(* tells it.                                                               *)
(***************************************************************************)
EXTENDS Integers, Sequences, FiniteSets

CONSTANTS
  Sops,           \* SOP names
  Libraries,      \* what the SOP directory may hold: name -> definition
  NotLoaded,      \* the value of a name no SOP.toml declares
  MaxTotal,       \* SopConfig.max_concurrent_total
  MaxFinished,    \* SopConfig.max_finished_runs, 0 = unlimited
  Timeout,        \* SopConfig.approval_timeout_secs, 0 = disabled
  StorageFails,   \* may writing a checkpoint file fail?
  MaxRuns,        \* bound: runs ever started
  MaxTime,        \* bound: clock
  MaxResults      \* bound: step results one run records

Modes == {"auto", "supervised", "step_by_step", "priority_based", "deterministic"}
Steps == [confirm : BOOLEAN, checkpoint : BOOLEAN]
Definitions ==
  [mode : Modes, urgent : BOOLEAN, steps : Seq(Steps), cooldown : Nat, maxConcurrent : Nat]

ASSUME SopConstants ==
  /\ MaxTotal \in Nat /\ MaxFinished \in Nat /\ Timeout \in Nat
  /\ MaxRuns \in Nat /\ MaxTime \in Nat /\ MaxResults \in Nat
  /\ StorageFails \in BOOLEAN
  /\ NotLoaded \notin Definitions
  /\ Libraries \subseteq [Sops -> Definitions \cup {NotLoaded}]
  /\ Sops # {} /\ Libraries # {}

RunIds == 1 .. MaxRuns
Never == -1                                   \* a timestamp that is None
Open == {"running", "waiting_approval", "paused_checkpoint"}
Closed == {"completed", "failed", "cancelled"}
Outcomes == {"completed", "failed", "skipped"}
Actions == {"ExecuteStep", "WaitApproval", "DeterministicStep", "CheckpointWait",
            "Completed", "Failed"}

VARIABLES
  sops,       \* loaded definitions
  active,     \* ids of active_runs
  finished,   \* finished_runs, oldest first, as ids
  run,        \* the SopRun of every id ever handed out
  counter,    \* run_counter
  files,      \* checkpoint file of a run
  savings,    \* DeterministicSavings
  now,        \* wall clock
  halted,     \* an index out of bounds has aborted the process
  told,       \* last SopRunAction handed out for a run
  approvals   \* <<run, step>> approvals granted (the audit trail's approval records)

vars == <<sops, active, finished, run, counter, files, savings, now, halted, told, approvals>>

NoRun == [sop |-> CHOOSE s \in Sops : TRUE, status |-> "pending", step |-> 0, total |-> 0,
          results |-> <<>>, waiting |-> Never, completed |-> Never, saved |-> 0]
NoFile == [last |-> 0, total |-> -1, saved |-> 0]

Loaded(s) == sops[s] # NotLoaded
ActiveOf(s) == {r \in active : run[r].sop = s}

Init ==
  /\ sops \in Libraries
  /\ active = {} /\ finished = <<>> /\ counter = 0
  /\ run = [r \in RunIds |-> NoRun]
  /\ files = [r \in RunIds |-> NoFile]
  /\ savings = [calls |-> 0, runs |-> 0]
  /\ now = 0 /\ halted = FALSE
  /\ told = [r \in RunIds |-> "none"]
  /\ approvals = {}

-----------------------------------------------------------------------------
(* Deciding: start limits, what a step needs.                              *)

\* The most recent finished run of s that is still retained, if it ended too recently.
CoolingDown(s) ==
  \E i \in DOMAIN finished :
    /\ run[finished[i]].sop = s
    /\ \A j \in DOMAIN finished : j > i => run[finished[j]].sop # s
    /\ now - run[finished[i]].completed < sops[s].cooldown

\* Mutants: the limits admit one run too many; the cooldown is not consulted.
CanStart_OffByOne(s) ==
  Loaded(s) /\ Cardinality(ActiveOf(s)) <= sops[s].maxConcurrent
  /\ Cardinality(active) <= MaxTotal /\ ~CoolingDown(s)
CanStart_NoCooldown(s) ==
  Loaded(s) /\ Cardinality(ActiveOf(s)) < sops[s].maxConcurrent /\ Cardinality(active) < MaxTotal

CanStart(s) ==
  /\ Loaded(s)
  /\ Cardinality(ActiveOf(s)) < sops[s].maxConcurrent
  /\ Cardinality(active) < MaxTotal
  /\ ~CoolingDown(s)

\* Mutant: the execution mode overrides requires_confirmation.
NeedsApproval_ModeOnly(d, k) ==
  d.mode = "step_by_step" \/ (d.mode \in {"supervised", "priority_based"} /\ ~d.urgent /\ k = 1)

NeedsApproval(d, k) ==
  \/ d.steps[k].confirm
  \/ d.mode = "step_by_step"
  \/ d.mode = "supervised" /\ k = 1
  \/ d.mode = "priority_based" /\ ~d.urgent /\ k = 1

\* Mutant: approval is asked of a run that is left running.
StepAction_AlwaysAsk(d, rec) == "WaitApproval"

\* The run record after the action for its current step is resolved, and the action.
ResolveStep(d, rec) ==
  IF NeedsApproval(d, rec.step)
    THEN [rec EXCEPT !.status = "waiting_approval", !.waiting = now]
    ELSE rec
StepAction(d, rec) == IF NeedsApproval(d, rec.step) THEN "WaitApproval" ELSE "ExecuteStep"

\* Mutant: the checkpoint step itself counts as a saved call.
Snapshot_CountsCheckpoint(rec) ==
  [last |-> IF rec.step > 0 THEN rec.step - 1 ELSE 0, total |-> rec.total, saved |-> rec.step]

Snapshot(rec) ==
  [last |-> IF rec.step > 0 THEN rec.step - 1 ELSE 0, total |-> rec.total, saved |-> rec.saved]

\* The same for a deterministic step: a checkpoint pauses and writes the state
\* file; when the write fails the run stays paused and the caller gets an error.
ResolveDeterministic(r, d, rec) ==
  \/ /\ ~d.steps[rec.step].checkpoint
     /\ run' = [run EXCEPT ![r] = rec]
     /\ told' = [told EXCEPT ![r] = "DeterministicStep"]
     /\ UNCHANGED files
  \/ /\ d.steps[rec.step].checkpoint
     /\ LET paused == [rec EXCEPT !.status = "paused_checkpoint", !.waiting = now]
        IN  /\ run' = [run EXCEPT ![r] = paused]
            /\ \/ /\ files' = [files EXCEPT ![r] = Snapshot(paused)]
                  /\ told' = [told EXCEPT ![r] = "CheckpointWait"]
               \/ /\ StorageFails
                  /\ UNCHANGED <<files, told>>

\* finish_run: the run moves to finished_runs, the oldest ones over capacity go.
Retained(q) ==
  IF MaxFinished > 0 /\ Len(q) > MaxFinished
    THEN SubSeq(q, Len(q) - MaxFinished + 1, Len(q))
    ELSE q

\* Mutants: the run stays in active_runs; it ends without its final status.
Finish_KeepsActive(r, rec, status) ==
  /\ run' = [run EXCEPT ![r] = [rec EXCEPT !.status = status, !.completed = now]]
  /\ finished' = Retained(Append(finished, r))
  /\ UNCHANGED active
Finish_KeepsStatus(r, rec, status) ==
  /\ active' = active \ {r}
  /\ run' = [run EXCEPT ![r] = [rec EXCEPT !.completed = now]]
  /\ finished' = Retained(Append(finished, r))

Finish(r, rec, status) ==
  /\ active' = active \ {r}
  /\ run' = [run EXCEPT ![r] = [rec EXCEPT !.status = status, !.completed = now]]
  /\ finished' = Retained(Append(finished, r))

\* steps[k] with k beyond the loaded definition: the process aborts.
Halt == halted' = TRUE

-----------------------------------------------------------------------------
(* Operations.                                                             *)

NewRun(s, d) ==
  [sop |-> s, status |-> "running", step |-> 1, total |-> Len(d.steps),
   results |-> <<>>, waiting |-> Never, completed |-> Never, saved |-> 0]

\* start_deterministic_run: the first step is due, or its checkpoint.
StartDeterministic(r, d, new) ==
  /\ d.mode = "deterministic"
  /\ ResolveDeterministic(r, d, new)

\* start_run, which hands deterministic procedures over.
StartRun(s) ==
  /\ ~halted /\ counter < MaxRuns
  /\ CanStart(s)
  /\ sops[s].steps # <<>>
  /\ LET d == sops[s]
         r == counter + 1
         new == NewRun(s, d)
     IN  /\ counter' = r
         /\ active' = active \cup {r}
         /\ \/ StartDeterministic(r, d, new)
            \/ /\ d.mode # "deterministic"
               /\ run' = [run EXCEPT ![r] = ResolveStep(d, new)]
               /\ told' = [told EXCEPT ![r] = StepAction(d, new)]
               /\ UNCHANGED files
  /\ UNCHANGED <<sops, finished, savings, now, halted, approvals>>

\* Mutant: the result carries no number.
Recorded_None(rec, outcome) ==
  [rec EXCEPT !.results = Append(@, [step |-> Never, status |-> outcome])]

Recorded(rec, outcome) ==
  [rec EXCEPT !.results = Append(@, [step |-> rec.step, status |-> outcome])]

CanAdvance(r) ==
  /\ ~halted
  /\ r \in active /\ Loaded(run[r].sop)
  /\ Len(run[r].results) < MaxResults

AdvanceStep(r, outcome) ==
  /\ CanAdvance(r)
  /\ LET d == sops[run[r].sop]
         rec == Recorded(run[r], outcome)
         next == [rec EXCEPT !.step = @ + 1]
     IN  \/ /\ outcome = "failed"
            /\ Finish(r, rec, "failed")
            /\ told' = [told EXCEPT ![r] = "Failed"]
            /\ UNCHANGED <<counter, halted>>
         \/ /\ outcome # "failed" /\ next.step > rec.total
            /\ Finish(r, rec, "completed")
            /\ told' = [told EXCEPT ![r] = "Completed"]
            /\ UNCHANGED <<counter, halted>>
         \/ /\ outcome # "failed" /\ next.step <= rec.total
            /\ next.step > Len(d.steps)
            /\ run' = [run EXCEPT ![r] = next] /\ Halt
            /\ UNCHANGED <<active, finished, told, counter>>
         \/ /\ outcome # "failed" /\ next.step <= rec.total
            /\ next.step <= Len(d.steps)
            /\ run' = [run EXCEPT ![r] = ResolveStep(d, next)]
            /\ told' = [told EXCEPT ![r] = StepAction(d, next)]
            /\ UNCHANGED <<active, finished, counter, halted>>
  /\ UNCHANGED <<sops, files, savings, now, approvals>>

CancelRun(r) ==
  /\ ~halted /\ r \in active
  /\ Finish(r, run[r], "cancelled")
  /\ UNCHANGED <<sops, counter, files, savings, now, halted, told, approvals>>

Approved(rec) == [rec EXCEPT !.status = "running", !.waiting = Never]

\* The status is reset before the definition is looked up: with the SOP no
\* longer loaded the caller gets an error and the run is left running.
ApproveStep(r) ==
  /\ ~halted /\ r \in active
  /\ run[r].status = "waiting_approval"
  /\ run' = [run EXCEPT ![r] = Approved(@)]
  /\ LET d == sops[run[r].sop]
     IN  \/ /\ ~Loaded(run[r].sop)
            /\ UNCHANGED <<told, approvals, halted>>
         \/ /\ Loaded(run[r].sop) /\ run[r].step > Len(d.steps)
            /\ Halt /\ UNCHANGED <<told, approvals>>
         \/ /\ Loaded(run[r].sop) /\ run[r].step <= Len(d.steps)
            /\ told' = [told EXCEPT ![r] = "ExecuteStep"]
            /\ approvals' = approvals \cup {<<r, run[r].step>>}
            /\ UNCHANGED halted
  /\ UNCHANGED <<sops, active, finished, counter, files, savings, now>>

TimedOut ==
  {r \in active : /\ run[r].status = "waiting_approval"
                  /\ run[r].waiting # Never
                  /\ now - run[r].waiting >= Timeout
                  /\ Loaded(run[r].sop) /\ sops[run[r].sop].urgent}

\* Timed-out runs whose current step the loaded definition no longer has.
Stepless == {r \in TimedOut : run[r].step > Len(sops[run[r].sop].steps)}

\* The runs in done are approved; the ones in hit only lost their waiting status.
AutoApprove(done, hit) ==
  /\ run' = [r \in RunIds |-> IF r \in done \cup hit THEN Approved(run[r]) ELSE run[r]]
  /\ told' = [r \in RunIds |-> IF r \in done THEN "ExecuteStep" ELSE told[r]]
  /\ approvals' = approvals \cup {<<r, run[r].step>> : r \in done}

\* Every urgent run that waited too long is approved, in the map's order: when
\* one of them has no such step any more, some of the others were approved first.
CheckApprovalTimeouts ==
  /\ ~halted /\ Timeout > 0 /\ TimedOut # {}
  /\ \/ Stepless = {} /\ AutoApprove(TimedOut, {}) /\ UNCHANGED halted
     \/ /\ \E bad \in Stepless, done \in SUBSET (TimedOut \ Stepless) : AutoApprove(done, {bad})
        /\ Halt
  /\ UNCHANGED <<sops, active, finished, counter, files, savings, now>>

AdvanceDeterministic(r) ==
  /\ CanAdvance(r)
  /\ LET d == sops[run[r].sop]
         rec == [Recorded(run[r], "completed") EXCEPT !.saved = @ + 1]
         next == [rec EXCEPT !.step = @ + 1]
     IN  \/ /\ next.step > rec.total
            /\ Finish(r, rec, "completed")
            /\ savings' = [calls |-> savings.calls + rec.saved, runs |-> savings.runs + 1]
            /\ told' = [told EXCEPT ![r] = "Completed"]
            /\ UNCHANGED <<files, halted>>
         \/ /\ next.step <= rec.total /\ next.step > Len(d.steps)
            /\ run' = [run EXCEPT ![r] = next] /\ Halt
            /\ UNCHANGED <<active, finished, files, savings, told>>
         \/ /\ next.step <= rec.total /\ next.step <= Len(d.steps)
            /\ ResolveDeterministic(r, d, next)
            /\ UNCHANGED <<active, finished, savings, halted>>
  /\ UNCHANGED <<sops, counter, now, approvals>>

\* Resume from the run's state file, whatever the run did since it was written.
\* A state file never lets the run complete here (FilesWithinRun), so that
\* branch of the code has no disjunct.
ResumeDeterministic(r) ==
  /\ ~halted /\ r \in active /\ files[r] # NoFile
  /\ run[r].status = "paused_checkpoint" /\ Loaded(run[r].sop)
  /\ LET d == sops[run[r].sop]
         st == files[r]
         back == [run[r] EXCEPT !.status = "running", !.waiting = Never, !.saved = st.saved]
         next == [back EXCEPT !.step = st.last + 1]
     IN  \/ /\ next.step > Len(d.steps)
            /\ run' = [run EXCEPT ![r] = next] /\ Halt
            /\ UNCHANGED <<files, told>>
         \/ /\ next.step <= Len(d.steps)
            /\ ResolveDeterministic(r, d, next)
            /\ UNCHANGED halted
  /\ UNCHANGED <<sops, active, finished, counter, savings, now, approvals>>

Reload(lib) ==
  /\ ~halted /\ lib # sops
  /\ sops' = lib
  /\ UNCHANGED <<active, finished, run, counter, files, savings, now, halted, told, approvals>>

Tick ==
  /\ ~halted /\ now < MaxTime
  /\ now' = now + 1
  /\ UNCHANGED <<sops, active, finished, run, counter, files, savings, halted, told, approvals>>

\* What the program's tools and clock do; the rest of the engine's API on top.
ToolNext ==
  \/ \E s \in Sops : StartRun(s)
  \/ \E r \in RunIds, o \in Outcomes : AdvanceStep(r, o)
  \/ \E r \in RunIds : ApproveStep(r)
  \/ Tick

Next ==
  \/ ToolNext
  \/ \E r \in RunIds : CancelRun(r) \/ AdvanceDeterministic(r) \/ ResumeDeterministic(r)
  \/ CheckApprovalTimeouts
  \/ \E lib \in Libraries : Reload(lib)

Spec == Init /\ [][Next]_vars

-----------------------------------------------------------------------------
(* Correctness.                                                            *)

StepResults == [step : Nat, status : Outcomes]
Runs ==
  [sop : Sops, status : Open \cup Closed \cup {"pending"}, step : Nat, total : Nat,
   results : Seq(StepResults), waiting : Nat \cup {Never}, completed : Nat \cup {Never},
   saved : Nat]

\* Every variable of the engine holds a value of its Rust type.
TypeOK ==
  /\ sops \in Libraries
  /\ active \subseteq RunIds
  /\ finished \in Seq(RunIds)
  /\ run \in [RunIds -> Runs]
  /\ counter \in 0 .. MaxRuns
  /\ files \in [RunIds -> [last : Nat, total : Int, saved : Nat]]
  /\ savings \in [calls : Nat, runs : Nat]
  /\ now \in 0 .. MaxTime
  /\ halted \in BOOLEAN
  /\ told \in [RunIds -> Actions \cup {"none"}]
  /\ approvals \subseteq RunIds \X Nat

\* A run is in active_runs with an open status, or it has ended for good: in
\* finished_runs at most once, or evicted from it.  No operation, in whatever
\* order the callers use them, loses a run or keeps it in both places.
OneHome ==
  /\ active \subseteq 1 .. counter
  /\ \A i \in DOMAIN finished : finished[i] \in (1 .. counter) \ active
  /\ \A i, j \in DOMAIN finished : finished[i] = finished[j] => i = j
  /\ \A r \in 1 .. counter : run[r].status \in IF r \in active THEN Open ELSE Closed

\* max_concurrent_total and, per SOP, the largest max_concurrent any loaded
\* library gave it bound the runs in flight, whoever starts them.
WithinLimits ==
  /\ Cardinality(active) <= MaxTotal
  /\ \A s \in Sops : ActiveOf(s) # {} =>
       \E lib \in Libraries : lib[s] # NotLoaded /\ Cardinality(ActiveOf(s)) <= lib[s].maxConcurrent

\* An open run is at one of its own steps, and never claims more saved LLM calls
\* than steps it has left behind, resumed from an old state file or not.
SavedBehindStep ==
  \A r \in active : /\ run[r].step \in 1 .. run[r].total
                     /\ run[r].saved < run[r].step

\* A state file was written at a step of its run: a resume lands inside the
\* run, with at most the savings of the steps before it.
FilesWithinRun ==
  \A r \in RunIds : files[r] # NoFile =>
    /\ files[r].total = run[r].total /\ files[r].last < files[r].total
    /\ files[r].saved <= files[r].last

\* The process indexes past the steps of a definition only where a reload has
\* shortened the definition that an open run started from: on no other path,
\* through any mode, checkpoint or resume.
AbortsOnlyShortened ==
  halted => \E r \in active, lib \in Libraries :
    LET s == run[r].sop
    IN  /\ Loaded(s) /\ lib[s] # NotLoaded
        /\ Len(sops[s].steps) < run[r].total
        /\ run[r].total = Len(lib[s].steps)

\* An open run is at a step of its own with the savings of the steps behind it, a
\* resume lands there too, and no mode, checkpoint or resume makes the engine
\* index past the steps of a procedure that no reload has shortened.
PositionsHold == SavedBehindStep /\ FilesWithinRun /\ AbortsOnlyShortened

\* Each step of a run is recorded once, in order, and the run is at the step
\* after the last one recorded: of callers that report what they were given.
ResultsInOrder ==
  \A r \in 1 .. counter :
    /\ \A i \in DOMAIN run[r].results : run[r].results[i].step = i
    /\ r \in active => Len(run[r].results) = run[r].step - 1

\* A run is not started while a run of the same SOP ended less than its
\* cooldown ago, as long as finished runs are not evicted (MaxFinished = 0).
Starts(s) == counter' = counter + 1 /\ run'[counter'].sop = s
CooldownRespected ==
  [][\A s \in Sops : Starts(s) =>
       \A r \in 1 .. counter : run[r].sop = s /\ run[r].status \in Closed =>
         now - run[r].completed >= sops[s].cooldown]_vars

\* The engine implements the life cycle of runs its callers may rely on.
Phase ==
  [r \in RunIds |-> IF r \in active THEN "open" ELSE IF r <= counter THEN run[r].status ELSE "absent"]
Lifecycle == INSTANCE SopLifecycle WITH Ids <- RunIds, Limit <- MaxTotal, phase <- Phase
LifecycleSpec == Lifecycle!Spec
=============================================================================

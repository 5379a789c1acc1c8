----------------------------- MODULE Delegation -----------------------------
(***************************************************************************)
(* Background delegation: tools/delegate.rs runs an agent in a task of its *)
(* own and keeps the state of the run in a result file, which the other    *)
(* actions of the tool read and, to cancel, rewrite.                       *)
(*                                                                         *)
(* A file is written in two steps, truncation and write, with no lock, by  *)
(* the task that ends and by whoever cancels.  A write into a file that    *)
(* another writer filled since this one truncated it replaces it or, when  *)
(* it is the shorter of the two, leaves the other's end behind: "torn",    *)
(* which no reader can parse.                                              *)
(*                                                                         *)
(* Synchronous and parallel delegation keep no state.  Requests that are   *)
(* refused (an unknown agent, the depth limit, the policy, a bad or        *)
(* unknown task id) change nothing and are left out, and so is a disk that *)
(* fails.                                                                  *)
(***************************************************************************)
EXTENDS Naturals

CONSTANTS Tasks,      \* the background tasks
          MaxCrashes  \* how often the process ends: a bound of the model

ASSUME DelegationConstants == MaxCrashes \in Nat

VARIABLES
  task,      \* where a task stands: "lost" when its process ended under it
  outcome,   \* how the delegated agent ended, "none" before
  file,      \* the result file: its status, or what is wrong with it
  cancel,    \* a call of cancel_task: "idle", "read" or "open"
  crashes

vars == <<task, outcome, file, cancel, crashes>>

Final == {"completed", "failed", "cancelled"}

\* A file from which check_result does not learn that the task has ended: there
\* is none, it does not parse ("empty", "torn"), or it says "running".
Unfinished == {"absent", "empty", "torn", "running"}

Init ==
  /\ task = [t \in Tasks |-> "none"]
  /\ outcome = [t \in Tasks |-> "none"]
  /\ file = [t \in Tasks |-> "absent"]
  /\ cancel = [t \in Tasks |-> "idle"]
  /\ crashes = 0

\* What writing a status into the file of t may leave there.
Written(t, status) == IF file[t] = "empty" THEN {status} ELSE {status, "torn"}

-----------------------------------------------------------------------------
(* The task. *)

\* Mutant: the file is first created by the task.
Create_NoFile(t) ==
  /\ task[t] = "none"
  /\ task' = [task EXCEPT ![t] = "starting"]
  /\ UNCHANGED <<outcome, file, cancel, crashes>>

\* execute_background creates the file, writes the status "running" into it
\* and then spawns the task.
Create(t) ==
  /\ task[t] = "none"
  /\ task' = [task EXCEPT ![t] = "starting"]
  /\ file' = [file EXCEPT ![t] = "empty"]
  /\ UNCHANGED <<outcome, cancel, crashes>>

Spawn(t) ==
  /\ task[t] = "starting"
  /\ task' = [task EXCEPT ![t] = "running"]
  /\ file' = [file EXCEPT ![t] = "running"]
  /\ UNCHANGED <<outcome, cancel, crashes>>

\* The select ends: the agent answered or failed, or the token of the session
\* was cancelled.  A failure whose text says "Cancelled" counts as the last.
End(t) ==
  /\ task[t] = "running"
  /\ task' = [task EXCEPT ![t] = "ended"]
  /\ \E o \in Final : outcome' = [outcome EXCEPT ![t] = o]
  /\ UNCHANGED <<file, cancel, crashes>>

\* Mutant: a cancelled task leaves the file as it is.
Truncate_Cancelled(t) ==
  /\ task[t] = "ended"
  /\ task' = [task EXCEPT ![t] = IF outcome[t] = "cancelled" THEN "done" ELSE "writing"]
  /\ file' = [file EXCEPT ![t] = IF outcome[t] = "cancelled" THEN @ ELSE "empty"]
  /\ UNCHANGED <<outcome, cancel, crashes>>

\* What a task does once its agent ended: it truncates the file, whatever is
\* in it, and writes the result.
Truncate(t) ==
  /\ task[t] = "ended"
  /\ task' = [task EXCEPT ![t] = "writing"]
  /\ file' = [file EXCEPT ![t] = "empty"]
  /\ UNCHANGED <<outcome, cancel, crashes>>

Write(t) ==
  /\ task[t] = "writing"
  /\ task' = [task EXCEPT ![t] = "done"]
  /\ \E f \in Written(t, outcome[t]) : file' = [file EXCEPT ![t] = f]
  /\ UNCHANGED <<outcome, cancel, crashes>>

-----------------------------------------------------------------------------
(* cancel_task.  It reads the file, refuses a task that is not running, and *)
(* writes the status "cancelled"; the task itself is not touched.           *)

\* The statuses that cancel_task accepts.
Cancellable(t) == file[t] = "running"

CancelRead(t) ==
  /\ cancel[t] = "idle"
  /\ Cancellable(t)
  /\ cancel' = [cancel EXCEPT ![t] = "read"]
  /\ UNCHANGED <<task, outcome, file, crashes>>

CancelOpen(t) ==
  /\ cancel[t] = "read"
  /\ cancel' = [cancel EXCEPT ![t] = "open"]
  /\ file' = [file EXCEPT ![t] = "empty"]
  /\ UNCHANGED <<task, outcome, crashes>>

CancelWrite(t) ==
  /\ cancel[t] = "open"
  /\ cancel' = [cancel EXCEPT ![t] = "idle"]
  /\ \E f \in Written(t, "cancelled") : file' = [file EXCEPT ![t] = f]
  /\ UNCHANGED <<task, outcome, crashes>>

\* Mutant: the next process marks what it finds as failed.
Crash_MarksFailed ==
  /\ crashes < MaxCrashes
  /\ crashes' = crashes + 1
  /\ task' = [t \in Tasks |-> IF task[t] \in {"none", "done"} THEN task[t] ELSE "lost"]
  /\ cancel' = [t \in Tasks |-> "idle"]
  /\ file' = [t \in Tasks |-> IF file[t] = "absent" THEN "absent" ELSE "failed"]
  /\ UNCHANGED <<outcome>>

\* The process ends: the tasks and calls in it are gone, the files stay, and
\* nothing looks at them when the next process starts.
Crash ==
  /\ crashes < MaxCrashes
  /\ crashes' = crashes + 1
  /\ task' = [t \in Tasks |-> IF task[t] \in {"none", "done"} THEN task[t] ELSE "lost"]
  /\ cancel' = [t \in Tasks |-> "idle"]
  /\ UNCHANGED <<outcome, file>>

-----------------------------------------------------------------------------
RunTask(t) == Spawn(t) \/ End(t) \/ Truncate(t) \/ Write(t)

CancelTask(t) == CancelOpen(t) \/ CancelWrite(t)

Next ==
  \/ \E t \in Tasks : Create(t) \/ RunTask(t) \/ CancelRead(t) \/ CancelTask(t)
  \/ Crash

Spec == Init /\ [][Next]_vars

\* The runtime runs its tasks, and every delegated agent ends at its time-out
\* at the latest.
FairSpec == Spec /\ \A t \in Tasks : WF_vars(RunTask(t)) /\ WF_vars(CancelTask(t))

-----------------------------------------------------------------------------
(* Properties. *)

\* The values of the variables; an outcome exactly from the end of the agent
\* on, and no file before the task was created.
TypeOK ==
  /\ task \in [Tasks -> {"none", "starting", "running", "ended", "writing", "done", "lost"}]
  /\ outcome \in [Tasks -> Final \cup {"none"}]
  /\ file \in [Tasks -> Final \cup Unfinished]
  /\ cancel \in [Tasks -> {"idle", "read", "open"}]
  /\ \A t \in Tasks :
       /\ task[t] \in {"ended", "writing", "done"} => outcome[t] \in Final
       /\ task[t] \in {"none", "starting", "running"} => outcome[t] = "none"
       /\ (file[t] = "absent") <=> (task[t] = "none")

\* The result of a task stands: once the task has written how the agent ended,
\* and no cancellation that read the file before is still to be written, no
\* crash, restart or later cancellation changes the file.
ResultStands ==
  [][\A t \in Tasks : task[t] = "done" /\ file[t] = outcome[t] /\ cancel[t] = "idle"
                        => file'[t] = file[t]]_vars

\* The task and a cancellation have both truncated the file: the one that writes
\* last writes into what the other has written.
Overlap(t) == task[t] = "writing" /\ cancel[t] = "open"

\* However the end of a task and a cancellation of it interleave, its file says
\* in the end, and for good, that it completed, failed or was cancelled: unless
\* the process ends before, or both writers have the file truncated at once.
TaskReported ==
  \A t \in Tasks :
    task[t] = "starting" ~> \/ crashes > 0
                           \/ Overlap(t)
                           \/ [](task[t] = "done" /\ file[t] \in Final)
=============================================================================

-------------------------- MODULE DelegationProofs --------------------------
(***************************************************************************)
(* Delegation for every set of tasks and number of crashes: the types, and *)
(* that a result stands.  A cancellation that is under way has read a      *)
(* file, so its task exists: without this a step of it could make a file   *)
(* for a task that does not, and TypeOK would not be inductive.            *)
(***************************************************************************)
EXTENDS Delegation, TLAPS

\* Only the tasks that were created are being cancelled.
CancelsCreated == \A t \in Tasks : cancel[t] # "idle" => task[t] # "none"

Inv == TypeOK /\ CancelsCreated

\* A step of the task t keeps the invariant.
LEMMA TaskKeepsInv ==
  ASSUME Inv, NEW t \in Tasks, Create(t) \/ RunTask(t)
  PROVE  Inv'
  <1>0. TypeOK /\ CancelsCreated BY DEF Inv
  <1>1. CASE Create(t)
    BY <1>0, <1>1 DEF Create, Inv, TypeOK, CancelsCreated, Final, Unfinished
  <1>2. CASE Spawn(t)
    BY <1>0, <1>2 DEF Spawn, Inv, TypeOK, CancelsCreated, Final, Unfinished
  <1>3. CASE End(t)
    BY <1>0, <1>3 DEF End, Inv, TypeOK, CancelsCreated, Final, Unfinished
  <1>4. CASE Truncate(t)
    BY <1>0, <1>4 DEF Truncate, Inv, TypeOK, CancelsCreated, Final, Unfinished
  <1>5. CASE Write(t)
    <2>1. Written(t, outcome[t]) \subseteq Final \cup {"torn"}
      BY <1>0, <1>5 DEF Write, Written, TypeOK
    <2> QED BY <1>0, <1>5, <2>1 DEF Write, Inv, TypeOK, CancelsCreated, Final, Unfinished
  <1> QED BY <1>1, <1>2, <1>3, <1>4, <1>5 DEF RunTask

\* A step of a cancellation of the task t keeps the invariant.
LEMMA CancelKeepsInv ==
  ASSUME Inv, NEW t \in Tasks, CancelRead(t) \/ CancelTask(t)
  PROVE  Inv'
  <1>0. TypeOK /\ CancelsCreated BY DEF Inv
  <1>1. CASE CancelRead(t)
    BY <1>0, <1>1 DEF CancelRead, Cancellable, Inv, TypeOK, CancelsCreated, Final, Unfinished
  <1>2. CASE CancelOpen(t)
    BY <1>0, <1>2 DEF CancelOpen, Inv, TypeOK, CancelsCreated, Final, Unfinished
  <1>3. CASE CancelWrite(t)
    <2>1. Written(t, "cancelled") \subseteq Final \cup {"torn"} BY DEF Written, Final
    <2> QED BY <1>0, <1>3, <2>1 DEF CancelWrite, Inv, TypeOK, CancelsCreated, Final, Unfinished
  <1> QED BY <1>1, <1>2, <1>3 DEF CancelTask

\* Invariance of Inv.
THEOREM InvHolds == Spec => []Inv
  <1>1. Init => Inv BY DEF Init, Inv, TypeOK, CancelsCreated, Final, Unfinished
  <1>2. Inv /\ [Next]_vars => Inv'
    <2> SUFFICES ASSUME Inv, [Next]_vars PROVE Inv' OBVIOUS
    <2>1. CASE \E t \in Tasks : Create(t) \/ RunTask(t) BY <2>1, TaskKeepsInv
    <2>2. CASE \E t \in Tasks : CancelRead(t) \/ CancelTask(t) BY <2>2, CancelKeepsInv
    <2>3. CASE Crash BY <2>3 DEF Crash, Inv, TypeOK, CancelsCreated, Final, Unfinished
    <2>4. CASE UNCHANGED vars BY <2>4 DEF vars, Inv, TypeOK, CancelsCreated
    <2> QED BY <2>1, <2>2, <2>3, <2>4 DEF Next
  <1> QED BY <1>1, <1>2, PTL DEF Spec

\* The types of the variables, and no file before its task.
THEOREM TypeCorrect == Spec => []TypeOK
  BY InvHolds, PTL DEF Inv

\* Whatever tasks, crashes and cancellations follow, a result that was written while
\* no cancellation of its task was under way stays in the file (delegate.rs,
\* execute_background and handle_cancel_task).
THEOREM ResultsStand == Spec => ResultStands
  <1> DEFINE Stands == \A t \in Tasks : task[t] = "done" /\ file[t] = outcome[t] /\ cancel[t] = "idle"
                                          => file'[t] = file[t]
  <1>1. Inv /\ [Next]_vars => [Stands]_vars
    <2> SUFFICES ASSUME Inv, [Next]_vars, NEW t \in Tasks,
                        task[t] = "done", file[t] = outcome[t], cancel[t] = "idle"
                 PROVE  file'[t] = file[t]
      OBVIOUS
    <2>0. file[t] # "running" BY DEF Inv, TypeOK, Final
    <2>1. ASSUME NEW u \in Tasks, Create(u) \/ RunTask(u) PROVE file'[t] = file[t]
      BY <2>1 DEF Inv, TypeOK, RunTask, Create, Spawn, End, Truncate, Write
    <2>2. ASSUME NEW u \in Tasks, CancelRead(u) \/ CancelTask(u) PROVE file'[t] = file[t]
      BY <2>2 DEF Inv, TypeOK, CancelTask, CancelRead, CancelOpen, CancelWrite
    <2>3. CASE Crash \/ UNCHANGED vars BY <2>3 DEF Crash, vars
    <2> QED BY <2>1, <2>2, <2>3 DEF Next
  <1> QED BY <1>1, InvHolds, PTL DEF Spec, ResultStands
=============================================================================

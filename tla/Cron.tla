-------------------------------- MODULE Cron --------------------------------
(***************************************************************************)
(* The cron scheduler and its job table: the sync of the declared jobs at  *)
(* start-up, the catch-up of overdue jobs, the poll loop with its limits,  *)
(* what is stored after a job ran, and the clients (CLI, API, tools) that  *)
(* add, update and remove jobs meanwhile.  Each SQL statement commits on   *)
(* its own, so a read and the write based on it are two steps.             *)
(***************************************************************************)
EXTENDS Integers, FiniteSets

CONSTANTS
  Jobs,           \* job ids
  Declared,       \* the ids config.toml may declare
  Deployments,    \* the circumstances the scheduler works under: see deployment
  Schedules,      \* schedules clients use
  Clients,        \* processes that may update jobs
  Patches,        \* the updates they make
  Absent,         \* no row, declaration, batch item or update in progress
  Keep,           \* a patch's value for a column it leaves alone
  MaxTasks,       \* scheduler.max_tasks
  MaxConcurrent,  \* scheduler.max_concurrent
  MaxRunHistory,  \* cron.max_run_history
  CatchUp         \* cron.catch_up_on_startup

AllSchedules == [kind : {"at", "every"}, t : Nat]
Declarations == [sched : AllSchedules, enabled : BOOLEAN]
AllPatches == [sched : AllSchedules \cup {Keep}, enabled : BOOLEAN \cup {Keep}]

Rows == [sched : AllSchedules, next : Nat, enabled : BOOLEAN, once : BOOLEAN,
         status : {"none", "ok", "error"}]

ASSUME CronConstants ==
  /\ Absent \notin Rows
  /\ Declared \subseteq Jobs
  /\ Schedules \subseteq AllSchedules
  /\ Patches \subseteq AllPatches
  /\ MaxTasks \in Nat /\ MaxConcurrent \in Nat /\ MaxRunHistory \in Nat
  /\ CatchUp \in BOOLEAN
  /\ \A d \in Deployments :
       /\ d.configs # {} /\ d.configs \subseteq [Declared -> Declarations \cup {Absent}]
       /\ d.clients \subseteq Clients /\ d.patches \subseteq Patches /\ d.maxTime \in Nat
       /\ d.stops \in BOOLEAN /\ d.fails \in BOOLEAN

VARIABLES
  deployment,  \* what config.toml may declare, the clients and their updates, whether the process
               \* may stop and statements may fail, and a bound of the clock
  rows,    \* cron_jobs
  log,     \* how many cron_runs a job has
  now,     \* wall clock
  phase,   \* of the scheduler: down, synced (catch-up is next) or polling
  batch,   \* the jobs process_due_jobs works on, as read when they were selected
  client,  \* the row a client has read and will write back
  used,    \* ids that were ever added; add_job makes new ones
  settled  \* <<job, next_run>> of every run whose outcome is stored, not asked for again

vars == <<deployment, rows, log, now, phase, batch, client, used, settled>>

Max2(a, b) == IF a > b THEN a ELSE b
Exists(j) == rows[j] # Absent
Working == {j \in Jobs : batch[j] # Absent}
At(stage) == {j \in Working : batch[j].stage = stage}

NextRun(s, from) == IF s.kind = "at" THEN s.t ELSE from + s.t

NewRow(s, on) ==
  [sched |-> s, next |-> NextRun(s, now), enabled |-> on, once |-> s.kind = "at", status |-> "none"]

Init ==
  /\ deployment \in Deployments
  /\ rows = [j \in Jobs |-> Absent] /\ log = [j \in Jobs |-> 0]
  /\ now = 0 /\ phase = "down"
  /\ batch = [j \in Jobs |-> Absent] /\ client = [c \in Clients |-> Absent]
  /\ used = {} /\ settled = {}

-----------------------------------------------------------------------------
(* The table.                                                              *)

\* Mutant: every job starts anew with the process.
Synced_Anew(row, d) ==
  [row EXCEPT !.sched = d.sched, !.enabled = d.enabled, !.once = d.sched.kind = "at",
              !.next = NextRun(d.sched, now)]

\* The next run is computed anew only when the schedule was edited.
Synced(row, d) ==
  [row EXCEPT !.sched = d.sched, !.enabled = d.enabled, !.once = d.sched.kind = "at",
              !.next = IF row.sched = d.sched THEN @ ELSE NextRun(d.sched, now)]

\* sync_declarative_jobs: the declared jobs' rows become what the config says;
\* when a statement fails, only some of them do.
Sync(config) ==
  \E reached \in SUBSET Declared :
    /\ reached = Declared \/ deployment.fails
    /\ rows' = [j \in Jobs |->
         IF j \notin reached THEN rows[j]
         ELSE IF config[j] = Absent THEN Absent
         ELSE IF Exists(j) THEN Synced(rows[j], config[j])
         ELSE NewRow(config[j].sched, config[j].enabled)]
    /\ log' = [j \in Jobs |-> IF j \in reached /\ config[j] = Absent THEN 0 ELSE log[j]]

\* DELETE of a job takes its cron_runs along.
Delete(j) ==
  /\ rows' = [rows EXCEPT ![j] = Absent]
  /\ log' = [log EXCEPT ![j] = 0]

Overdue == {j \in Jobs : Exists(j) /\ rows[j].enabled /\ rows[j].next <= now}

-----------------------------------------------------------------------------
(* The scheduler.                                                          *)

Start ==
  /\ phase = "down"
  /\ phase' = "synced"
  /\ \E config \in deployment.configs : Sync(config)
  /\ UNCHANGED <<now, batch, client, used, settled>>

Select(S) ==
  batch' = [j \in Jobs |->
    IF j \in S THEN [row |-> rows[j], due |-> rows[j].next, stage |-> "queued", ok |-> FALSE] ELSE Absent]

\* The catch-up takes every overdue job, the polls the most overdue ones.
CatchUpOverdue ==
  /\ phase = "synced"
  /\ phase' = "polling"
  /\ \/ CatchUp /\ Select(Overdue)
     \/ /\ ~CatchUp \/ deployment.fails
        /\ UNCHANGED batch
  /\ UNCHANGED <<rows, log, now, client, used, settled>>

Selections ==
  {S \in SUBSET Overdue :
    /\ Cardinality(S) <= Max2(MaxTasks, 1)
    /\ S # Overdue => Cardinality(S) = Max2(MaxTasks, 1)
    /\ \A j \in S, k \in Overdue \ S : rows[j].next <= rows[k].next}

\* One poll is over when all its jobs are: nothing is selected before.
Poll ==
  /\ phase = "polling" /\ Working = {} /\ Overdue # {}
  /\ \E S \in Selections : Select(S)
  /\ UNCHANGED <<rows, log, now, phase, client, used, settled>>

\* Mutant: a limit of 0 is taken at its word.
Slots_NoFloor == MaxConcurrent

Slots == Max2(MaxConcurrent, 1)

\* buffer_unordered: a job keeps its slot until its result is stored.
Execute(j) ==
  /\ j \in At("queued") /\ Cardinality(Working \ At("queued")) < Slots
  /\ batch' = [batch EXCEPT ![j].stage = "executing"]
  /\ UNCHANGED <<rows, log, now, phase, client, used, settled>>

\* The command, its retries and the delivery of its output: good or not.
Complete(j, ok) ==
  /\ j \in At("executing")
  /\ batch' = [batch EXCEPT ![j].stage = "done", ![j].ok = ok]
  /\ UNCHANGED <<rows, log, now, phase, client, used, settled>>

\* Mutant: the history is never pruned.
Pruned_Never(n) == n

Pruned(n) == IF n > Max2(MaxRunHistory, 1) THEN Max2(MaxRunHistory, 1) ELSE n

\* record_run: one more entry, the oldest over the limit pruned; none for a job
\* that is gone; its errors are ignored.
RecordRun(j) ==
  /\ j \in At("done")
  /\ batch' = [batch EXCEPT ![j].stage = "recorded"]
  /\ \/ /\ Exists(j)
        /\ log' = [log EXCEPT ![j] = Pruned(@ + 1)]
     \/ /\ ~Exists(j) \/ deployment.fails
        /\ UNCHANGED log
  /\ UNCHANGED <<rows, now, phase, client, used, settled>>

\* Mutant: the next run is the one that was due.
Rescheduled_Same(row, item) ==
  [row EXCEPT !.status = IF item.ok THEN "ok" ELSE "error",
              !.enabled = IF item.row.sched.kind = "at" THEN FALSE ELSE @]

\* reschedule_after_run: by the schedule as it was when the job was selected.
Rescheduled(row, item) ==
  [row EXCEPT !.status = IF item.ok THEN "ok" ELSE "error",
              !.enabled = IF item.row.sched.kind = "at" THEN FALSE ELSE @,
              !.next = IF item.row.sched.kind = "at" THEN @ ELSE NextRun(item.row.sched, now)]

OneShot(item) == item.row.once /\ item.row.sched.kind = "at"
Leaves(j) == batch' = [batch EXCEPT ![j] = Absent]
Settles(j) == settled' = settled \cup {<<j, batch[j].due>>}

\* What persist_job_result stores last.  A statement that fails is only logged.
Persist(j) ==
  /\ j \in At("recorded")
  /\ LET item == batch[j]
     IN  \/ /\ OneShot(item) /\ item.ok /\ Exists(j)   \* a one-shot that succeeded is deleted
            /\ Delete(j) /\ Leaves(j) /\ Settles(j)
         \/ /\ OneShot(item) /\ Exists(j)              \* one that failed, or whose row
            /\ ~item.ok \/ deployment.fails                \* stays, is read to be disabled
            /\ \/ ~item.ok /\ rows' = [rows EXCEPT ![j].status = "error"]
               \/ deployment.fails /\ UNCHANGED rows
            /\ batch' = [batch EXCEPT ![j].stage = "disabling", ![j].row = rows'[j]]
            /\ UNCHANGED <<log, settled>>
         \/ /\ ~OneShot(item) /\ Exists(j)             \* any other job is rescheduled
            /\ rows' = [rows EXCEPT ![j] = Rescheduled(@, item)]
            /\ Leaves(j) /\ Settles(j) /\ UNCHANGED log
         \/ /\ ~Exists(j) \/ deployment.fails
            /\ Leaves(j) /\ UNCHANGED <<rows, log, settled>>
  /\ UNCHANGED <<now, phase, client, used>>

\* UPDATE ... WHERE id: every column but the last result comes from the row read.
Written(j, row) ==
  IF Exists(j) THEN [rows EXCEPT ![j] = [row EXCEPT !.status = rows[j].status]] ELSE rows

Disable(j) ==
  /\ j \in At("disabling")
  /\ \/ rows' = Written(j, [batch[j].row EXCEPT !.enabled = FALSE]) /\ Settles(j)
     \/ deployment.fails /\ UNCHANGED <<rows, settled>>
  /\ Leaves(j)
  /\ UNCHANGED <<log, now, phase, client, used>>

\* The process ends: what it was doing is lost, the table stays.
Stop ==
  /\ deployment.stops /\ phase # "down"
  /\ phase' = "down"
  /\ batch' = [j \in Jobs |-> Absent]
  /\ UNCHANGED <<rows, log, now, client, used, settled>>

-----------------------------------------------------------------------------
(* Clients.                                                                *)

Add(j, s) ==
  /\ j \notin Declared \cup used
  /\ s.kind = "at" => s.t > now
  /\ used' = used \cup {j}
  /\ rows' = [rows EXCEPT ![j] = NewRow(s, TRUE)]
  /\ UNCHANGED <<log, now, phase, batch, client, settled>>

Remove(j) ==
  /\ Exists(j)
  /\ Delete(j)
  /\ UNCHANGED <<now, phase, batch, client, used, settled>>

\* update_job reads the row, and writes all of it back with the patch applied.
UpdateRead(c, j) ==
  /\ c \in deployment.clients /\ client[c] = Absent /\ Exists(j)
  /\ client' = [client EXCEPT ![c] = [job |-> j, row |-> rows[j]]]
  /\ UNCHANGED <<rows, log, now, phase, batch, used, settled>>

Patched(row, p) ==
  [row EXCEPT !.sched = IF p.sched = Keep THEN @ ELSE p.sched,
              !.next = IF p.sched = Keep THEN @ ELSE NextRun(p.sched, now),
              !.enabled = IF p.enabled = Keep THEN @ ELSE p.enabled]

\* A new schedule or a resume asks for the job to run again.
Asks(p) == p.sched # Keep \/ p.enabled = TRUE

UpdateWrite(c, p) ==
  /\ p \in deployment.patches /\ client[c] # Absent
  /\ p.sched # Keep /\ p.sched.kind = "at" => p.sched.t > now
  /\ LET j == client[c].job
     IN  /\ rows' = Written(j, Patched(client[c].row, p))
         /\ settled' = IF Asks(p) THEN {f \in settled : f[1] # j} ELSE settled
  /\ client' = [client EXCEPT ![c] = Absent]
  /\ UNCHANGED <<log, now, phase, batch, used>>

Tick ==
  /\ now < deployment.maxTime
  /\ now' = now + 1
  /\ UNCHANGED <<rows, log, phase, batch, client, used, settled>>

SchedulerStep ==
  /\ \/ Start \/ CatchUpOverdue \/ Poll
     \/ \E j \in Jobs : \/ Execute(j) \/ RecordRun(j) \/ Persist(j) \/ Disable(j)
                        \/ \E ok \in BOOLEAN : Complete(j, ok)
  /\ UNCHANGED deployment

Around ==
  /\ \/ Stop \/ Tick
     \/ \E j \in Jobs : \/ Remove(j)
                        \/ \E s \in Schedules : Add(j, s)
                        \/ \E c \in Clients : UpdateRead(c, j)
     \/ \E c \in Clients, p \in Patches : UpdateWrite(c, p)
  /\ UNCHANGED deployment

Next == SchedulerStep \/ Around

Spec == Init /\ [][Next]_vars

\* The daemon keeps the scheduler running, and a job ends at its timeout.
FairSpec == Spec /\ WF_vars(SchedulerStep)

-----------------------------------------------------------------------------
(* Correctness.                                                            *)

Items == [row : Rows, due : Nat, stage : {"queued", "executing", "done", "recorded", "disabling"}, ok : BOOLEAN]

\* Every variable holds a value of its type.
TypeOK ==
  /\ deployment \in Deployments
  /\ rows \in [Jobs -> Rows \cup {Absent}]
  /\ log \in [Jobs -> 0 .. Max2(MaxRunHistory, 1)]
  /\ now \in 0 .. deployment.maxTime /\ phase \in {"down", "synced", "polling"}
  /\ batch \in [Jobs -> Items \cup {Absent}]
  /\ client \in [Clients -> [job : Jobs, row : Rows] \cup {Absent}]
  /\ used \subseteq Jobs /\ settled \subseteq Jobs \X Nat

\* An occurrence whose outcome is stored is not executed again, across restarts
\* too, unless a client asks for the job anew.
Fires(j) == j \in At("queued") /\ j \in At("executing")'
OccurrenceOnce == [][\A j \in Jobs : Fires(j) => <<j, batch[j].due>> \notin settled]_vars

\* What is due stays due until the job was executed: no stop at any point, restart,
\* sync, limit or failing statement makes the scheduler pass over an occurrence.
\* Only a request takes it away: a client that removes or updates the job, or a
\* config that drops it, disables it or changes its schedule.
Edited(j) == rows'[j] = Absent \/ ~rows'[j].enabled \/ rows'[j].sched # rows[j].sched
DueNotDropped ==
  [][\A j \in Overdue : j \notin Overdue' =>
       \/ j \in At("recorded") \cup At("disabling")
       \/ Remove(j)
       \/ \E c \in Clients, p \in Patches : client[c] # Absent /\ client[c].job = j /\ UpdateWrite(c, p)
       \/ phase = "down" /\ Edited(j)]_vars

\* A job that is due is executed, or it is not due any more: no limit, and no
\* job that fails, stops a scheduler whose process and storage go on.
DueRuns ==
  ~deployment.stops /\ ~deployment.fails =>
    \A j \in Jobs : j \in Overdue ~> j \notin Overdue \/ j \in At("executing")
=============================================================================

----------------------------- MODULE CronProofs -----------------------------
(***************************************************************************)
(* Cron for all jobs, deployments, limits and clocks: the types; that what *)
(* is due stays due until it was executed; and, where clients resume jobs  *)
(* but do not edit their schedules (Careful), that an occurrence whose     *)
(* outcome is stored is not executed again.                                *)
(***************************************************************************)
EXTENDS Cron, TLAPS

(* What the constants say of a deployment.                                 *)
LEMMA DeploymentFacts ==
  ASSUME deployment \in Deployments
  PROVE  /\ \A config \in deployment.configs : \A j \in Declared : config[j] \in Declarations \cup {Absent}
         /\ deployment.maxTime \in Nat
BY CronConstants

LEMMA NextRunType ==
  ASSUME NEW s \in AllSchedules, NEW from \in Nat
  PROVE  NextRun(s, from) \in Nat /\ (s.kind # "at" => NextRun(s, from) = from + s.t)
BY DEF NextRun, AllSchedules

(* The rows that are written.                                              *)
LEMMA NewRowIs ==
  ASSUME NEW s \in AllSchedules, NEW on \in BOOLEAN, now \in Nat
  PROVE  LET row == NewRow(s, on)
         IN  /\ row \in Rows /\ row.sched = s /\ row.enabled = on /\ row.next = NextRun(s, now)
             /\ row.once = (s.kind = "at")
BY NextRunType DEF NewRow, Rows

LEMMA SyncedIs ==
  ASSUME NEW row \in Rows, NEW d \in Declarations, now \in Nat
  PROVE  LET new == Synced(row, d)
         IN  /\ new \in Rows /\ new.sched = d.sched /\ new.once = (d.sched.kind = "at")
             /\ new.next = IF row.sched = d.sched THEN row.next ELSE NextRun(d.sched, now)
<1>1. d.sched \in AllSchedules /\ d.enabled \in BOOLEAN
  BY DEF Declarations
<1>2. NextRun(d.sched, now) \in Nat
  BY <1>1, NextRunType
<1> QED BY <1>1, <1>2 DEF Synced, Rows

LEMMA RescheduledIs ==
  ASSUME NEW row \in Rows, NEW item \in Items, now \in Nat
  PROVE  LET new == Rescheduled(row, item)
         IN  /\ new \in Rows /\ new.sched = row.sched /\ new.once = row.once
             /\ item.row.sched.kind # "at" =>
                  new.next = now + item.row.sched.t /\ new.enabled = row.enabled
<1>1. item.row.sched \in AllSchedules
  BY DEF Items, Rows
<1>2. NextRun(item.row.sched, now) \in Nat
  BY <1>1, NextRunType
<1> QED BY <1>1, <1>2, NextRunType DEF Rescheduled, Rows

LEMMA PatchedIs ==
  ASSUME NEW row \in Rows, NEW p \in Patches, now \in Nat
  PROVE  Patched(row, p) \in Rows
<1>1. p.sched \in AllSchedules \cup {Keep} /\ p.enabled \in BOOLEAN \cup {Keep}
  BY CronConstants DEF AllPatches
<1>2. p.sched # Keep => NextRun(p.sched, now) \in Nat
  BY <1>1, NextRunType
<1> QED BY <1>1, <1>2 DEF Patched, Rows

(* The table after an UPDATE of one row.                                   *)
LEMMA WrittenIs ==
  ASSUME TypeOK, NEW j \in Jobs, NEW row \in Rows
  PROVE  /\ Written(j, row) \in [Jobs -> Rows \cup {Absent}]
         /\ \A i \in Jobs \ {j} : Written(j, row)[i] = rows[i]
         /\ ~Exists(j) => Written(j, row)[j] = Absent
         /\ Exists(j) => LET new == Written(j, row)[j]
                         IN  /\ new \in Rows /\ new.sched = row.sched /\ new.once = row.once
                             /\ new.next = row.next /\ new.enabled = row.enabled
<1>1. rows \in [Jobs -> Rows \cup {Absent}]
  BY DEF TypeOK
<1>2. CASE Exists(j)
  <2> DEFINE new == [row EXCEPT !.status = rows[j].status]
  <2>1. rows[j] \in Rows
    BY <1>1, <1>2 DEF Exists
  <2>2. /\ new \in Rows /\ new.sched = row.sched /\ new.once = row.once
        /\ new.next = row.next /\ new.enabled = row.enabled
    BY <2>1 DEF Rows
  <2>3. Written(j, row) = [rows EXCEPT ![j] = new]
    BY <1>2 DEF Written
  <2> HIDE DEF new
  <2> QED BY <1>1, <1>2, <2>2, <2>3
<1>3. CASE ~Exists(j)
  BY <1>1, <1>3 DEF Written, Exists
<1> QED BY <1>2, <1>3

-----------------------------------------------------------------------------
(* The types.                                                              *)

LEMMA SyncType ==
  ASSUME TypeOK, NEW config \in deployment.configs, Sync(config)
  PROVE  rows' \in [Jobs -> Rows \cup {Absent}] /\ log' \in [Jobs -> 0 .. Max2(MaxRunHistory, 1)]
<1>1. PICK reached \in SUBSET Declared :
        /\ rows' = [j \in Jobs |->
             IF j \notin reached THEN rows[j]
             ELSE IF config[j] = Absent THEN Absent
             ELSE IF Exists(j) THEN Synced(rows[j], config[j])
             ELSE NewRow(config[j].sched, config[j].enabled)]
        /\ log' = [j \in Jobs |-> IF j \in reached /\ config[j] = Absent THEN 0 ELSE log[j]]
  BY DEF Sync
<1>2. now \in Nat /\ deployment \in Deployments /\ rows \in [Jobs -> Rows \cup {Absent}]
  BY CronConstants DEF TypeOK
<1>3. ASSUME NEW j \in Declared, config[j] # Absent
      PROVE  /\ rows[j] \in Rows => Synced(rows[j], config[j]) \in Rows
             /\ NewRow(config[j].sched, config[j].enabled) \in Rows
  <2>1. config[j] \in Declarations
    BY <1>2, <1>3, DeploymentFacts
  <2>2. config[j].sched \in AllSchedules /\ config[j].enabled \in BOOLEAN
    BY <2>1 DEF Declarations
  <2> QED BY <1>2, <2>1, <2>2, SyncedIs, NewRowIs
<1>4. rows' \in [Jobs -> Rows \cup {Absent}]
  BY <1>1, <1>2, <1>3 DEF Exists
<1>5. log \in [Jobs -> 0 .. Max2(MaxRunHistory, 1)] /\ Max2(MaxRunHistory, 1) \in Nat
  BY CronConstants DEF TypeOK, Max2
<1> QED BY <1>1, <1>4, <1>5

(* Every variable holds a value of its type (TypeOK).                      *)
THEOREM TypeCorrect == Spec => []TypeOK
<1>1. Init => TypeOK
  BY CronConstants, DeploymentFacts DEF Init, TypeOK, Max2
<1>2. TypeOK /\ [Next]_vars => TypeOK'
  <2> SUFFICES ASSUME TypeOK, [Next]_vars PROVE TypeOK'
    OBVIOUS
  <2>0. /\ deployment \in Deployments /\ rows \in [Jobs -> Rows \cup {Absent}]
        /\ log \in [Jobs -> 0 .. Max2(MaxRunHistory, 1)] /\ now \in Nat /\ now <= deployment.maxTime
        /\ phase \in {"down", "synced", "polling"} /\ batch \in [Jobs -> Items \cup {Absent}]
        /\ client \in [Clients -> [job : Jobs, row : Rows] \cup {Absent}]
        /\ used \subseteq Jobs /\ settled \subseteq Jobs \X Nat /\ deployment.maxTime \in Nat
        /\ Max2(MaxRunHistory, 1) \in Nat
    BY CronConstants, DeploymentFacts DEF TypeOK, Max2
  <2>1. deployment' = deployment
    BY DEF Next, SchedulerStep, Around, vars
  <2>2. \A S \in SUBSET Overdue : Select(S) => batch' \in [Jobs -> Items \cup {Absent}]
    <3> SUFFICES ASSUME NEW S \in SUBSET Overdue, Select(S) PROVE batch' \in [Jobs -> Items \cup {Absent}]
      OBVIOUS
    <3>1. \A j \in S : rows[j] \in Rows
      BY <2>0 DEF Overdue, Exists
    <3>2. \A j \in S : [row |-> rows[j], due |-> rows[j].next, stage |-> "queued", ok |-> FALSE] \in Items
      BY <3>1 DEF Items, Rows
    <3> QED BY <3>2 DEF Select
  <2>3. \A j \in Jobs : Delete(j) => /\ rows' \in [Jobs -> Rows \cup {Absent}]
                                     /\ log' \in [Jobs -> 0 .. Max2(MaxRunHistory, 1)]
    BY <2>0 DEF Delete
  <2>4. CASE Start
    BY <2>0, <2>1, <2>4, SyncType DEF Start, TypeOK
  <2>5. CASE CatchUpOverdue
    <3>1. batch' \in [Jobs -> Items \cup {Absent}]
      BY <2>0, <2>2, <2>5 DEF CatchUpOverdue
    <3> QED BY <2>0, <2>1, <2>5, <3>1 DEF CatchUpOverdue, TypeOK
  <2>6. CASE Poll
    <3>1. batch' \in [Jobs -> Items \cup {Absent}]
      BY <2>2, <2>6 DEF Poll, Selections
    <3> QED BY <2>0, <2>1, <2>6, <3>1 DEF Poll, TypeOK
  <2>7. ASSUME NEW j \in Jobs, Execute(j) \/ (\E ok \in BOOLEAN : Complete(j, ok)) \/ RecordRun(j)
        PROVE  TypeOK'
    <3>1. batch[j] \in Items
      BY <2>0, <2>7 DEF Execute, Complete, RecordRun, At, Working
    <3>2. batch' \in [Jobs -> Items \cup {Absent}]
      <4>1. /\ [batch[j] EXCEPT !.stage = "executing"] \in Items
            /\ [batch[j] EXCEPT !.stage = "recorded"] \in Items
            /\ \A ok \in BOOLEAN : [batch[j] EXCEPT !.stage = "done", !.ok = ok] \in Items
        BY <3>1 DEF Items
      <4>2. \/ batch' = [batch EXCEPT ![j] = [batch[j] EXCEPT !.stage = "executing"]]
            \/ batch' = [batch EXCEPT ![j] = [batch[j] EXCEPT !.stage = "recorded"]]
            \/ \E ok \in BOOLEAN : batch' = [batch EXCEPT ![j] = [batch[j] EXCEPT !.stage = "done", !.ok = ok]]
        BY <2>0, <2>7 DEF Execute, Complete, RecordRun
      <4> QED BY <2>0, <4>1, <4>2
    <3>3. log' \in [Jobs -> 0 .. Max2(MaxRunHistory, 1)]
      <4>1. Pruned(log[j] + 1) \in 0 .. Max2(MaxRunHistory, 1)
        BY <2>0 DEF Pruned
      <4>2. log' = log \/ log' = [log EXCEPT ![j] = Pruned(log[j] + 1)]
        BY <2>7 DEF Execute, Complete, RecordRun
      <4> QED BY <2>0, <4>1, <4>2
    <3> QED BY <2>0, <2>1, <2>7, <3>2, <3>3 DEF Execute, Complete, RecordRun, TypeOK
  <2>8. ASSUME NEW j \in Jobs, Persist(j) PROVE TypeOK'
    <3>1. batch[j] \in Items /\ batch[j].due \in Nat
      BY <2>0, <2>8 DEF Persist, At, Working, Items
    <3>2. /\ UNCHANGED <<now, phase, client, used>>
          /\ \/ Delete(j) /\ Leaves(j) /\ Settles(j)
             \/ /\ Exists(j) /\ (rows' = [rows EXCEPT ![j].status = "error"] \/ rows' = rows)
                /\ batch' = [batch EXCEPT ![j].stage = "disabling", ![j].row = rows'[j]]
                /\ UNCHANGED <<log, settled>>
             \/ /\ Exists(j) /\ rows' = [rows EXCEPT ![j] = Rescheduled(rows[j], batch[j])]
                /\ Leaves(j) /\ Settles(j) /\ UNCHANGED log
             \/ Leaves(j) /\ UNCHANGED <<rows, log, settled>>
      BY <2>8 DEF Persist
    <3>3. CASE Delete(j) /\ Leaves(j) /\ Settles(j)
      BY <2>0, <2>1, <2>3, <3>1, <3>2, <3>3 DEF Leaves, Settles, TypeOK
    <3>4. CASE /\ Exists(j) /\ (rows' = [rows EXCEPT ![j].status = "error"] \/ rows' = rows)
               /\ batch' = [batch EXCEPT ![j].stage = "disabling", ![j].row = rows'[j]]
               /\ UNCHANGED <<log, settled>>
      <4>1. rows[j] \in Rows
        BY <2>0, <3>4 DEF Exists
      <4>2. [rows[j] EXCEPT !.status = "error"] \in Rows
        BY <4>1 DEF Rows
      <4>3. rows' \in [Jobs -> Rows \cup {Absent}] /\ rows'[j] \in Rows
        BY <2>0, <3>4, <4>1, <4>2
      <4>4. [batch[j] EXCEPT !.stage = "disabling", !.row = rows'[j]] \in Items
        BY <3>1, <4>3 DEF Items
      <4>5. batch' = [batch EXCEPT ![j] = [batch[j] EXCEPT !.stage = "disabling", !.row = rows'[j]]]
        BY <2>0, <3>4
      <4>6. batch' \in [Jobs -> Items \cup {Absent}]
        BY <2>0, <4>4, <4>5
      <4> QED BY <2>0, <2>1, <3>2, <3>4, <4>3, <4>6 DEF TypeOK
    <3>5. CASE /\ Exists(j) /\ rows' = [rows EXCEPT ![j] = Rescheduled(rows[j], batch[j])]
               /\ Leaves(j) /\ Settles(j) /\ UNCHANGED log
      <4>1. Rescheduled(rows[j], batch[j]) \in Rows
        BY <2>0, <3>1, <3>5, RescheduledIs DEF Exists
      <4> QED BY <2>0, <2>1, <3>1, <3>2, <3>5, <4>1 DEF Leaves, Settles, TypeOK
    <3>6. CASE Leaves(j) /\ UNCHANGED <<rows, log, settled>>
      BY <2>0, <2>1, <3>2, <3>6 DEF Leaves, TypeOK
    <3> QED BY <3>2, <3>3, <3>4, <3>5, <3>6
  <2>9. ASSUME NEW j \in Jobs, Disable(j) PROVE TypeOK'
    <3>1. batch[j] \in Items /\ batch[j].due \in Nat /\ batch[j].row \in Rows
      BY <2>0, <2>9 DEF Disable, At, Working, Items
    <3>2. [batch[j].row EXCEPT !.enabled = FALSE] \in Rows
      BY <3>1 DEF Rows
    <3>3. rows' \in [Jobs -> Rows \cup {Absent}]
      BY <2>0, <2>9, <3>2, WrittenIs DEF Disable
    <3>4. settled' \subseteq Jobs \X Nat
      BY <2>0, <2>9, <3>1 DEF Disable, Settles
    <3> QED BY <2>0, <2>1, <2>9, <3>3, <3>4 DEF Disable, Leaves, TypeOK
  <2>10. CASE Stop
    BY <2>0, <2>1, <2>10 DEF Stop, TypeOK
  <2>11. CASE Tick
    BY <2>0, <2>1, <2>11 DEF Tick, TypeOK
  <2>12. ASSUME NEW j \in Jobs, NEW s \in Schedules, Add(j, s) PROVE TypeOK'
    <3>1. NewRow(s, TRUE) \in Rows
      BY <2>0, CronConstants, NewRowIs
    <3> QED BY <2>0, <2>1, <2>12, <3>1 DEF Add, TypeOK
  <2>13. ASSUME NEW j \in Jobs, Remove(j) PROVE TypeOK'
    BY <2>0, <2>1, <2>3, <2>13 DEF Remove, TypeOK
  <2>14. ASSUME NEW c \in Clients, NEW j \in Jobs, UpdateRead(c, j) PROVE TypeOK'
    <3>1. [job |-> j, row |-> rows[j]] \in [job : Jobs, row : Rows]
      BY <2>0, <2>14 DEF UpdateRead, Exists
    <3> QED BY <2>0, <2>1, <2>14, <3>1 DEF UpdateRead, TypeOK
  <2>15. ASSUME NEW c \in Clients, NEW p \in Patches, UpdateWrite(c, p) PROVE TypeOK'
    <3>1. client[c].job \in Jobs /\ client[c].row \in Rows
      BY <2>0, <2>15 DEF UpdateWrite
    <3>2. Patched(client[c].row, p) \in Rows
      BY <2>0, <3>1, PatchedIs
    <3>3. rows' \in [Jobs -> Rows \cup {Absent}]
      BY <2>15, <3>1, <3>2, WrittenIs DEF UpdateWrite
    <3>4. settled' \subseteq settled
      BY <2>15 DEF UpdateWrite
    <3> QED BY <2>0, <2>1, <2>15, <3>3, <3>4 DEF UpdateWrite, TypeOK
  <2>16. CASE UNCHANGED vars
    BY <2>0, <2>16 DEF vars, TypeOK
  <2> QED BY <2>4, <2>5, <2>6, <2>7, <2>8, <2>9, <2>10, <2>11, <2>12, <2>13, <2>14, <2>15, <2>16
       DEF Next, SchedulerStep, Around
<1> QED BY <1>1, <1>2, PTL DEF Spec
-----------------------------------------------------------------------------
(* What is due, for any clients, schedules and configs.                    *)

(* A row is there for ids that were declared or added only, so that an id  *)
(* that is added anew is due under no other row.                           *)
RowsKnown == \A j \in Jobs : Exists(j) => j \in Declared \cup used

(* One statement on one job's row changes no other.                        *)
LEMMA OthersKept ==
  ASSUME TypeOK, NEW j \in Jobs, Persist(j) \/ Disable(j) \/ Remove(j)
  PROVE  /\ \A i \in Jobs \ {j} : rows'[i] = rows[i]
         /\ ~Exists(j) => rows'[j] = Absent
<1>1. rows \in [Jobs -> Rows \cup {Absent}] /\ batch \in [Jobs -> Items \cup {Absent}]
  BY DEF TypeOK
<1>2. CASE Persist(j)
  BY <1>1, <1>2 DEF Persist, Delete, Exists
<1>3. CASE Disable(j)
  <2>1. batch[j] \in Items
    BY <1>1, <1>3 DEF Disable, At, Working
  <2>2. [batch[j].row EXCEPT !.enabled = FALSE] \in Rows
    BY <2>1 DEF Items, Rows
  <2> QED BY <1>3, <2>2, WrittenIs DEF Disable, Exists
<1>4. CASE Remove(j)
  BY <1>1, <1>4 DEF Remove, Delete, Exists
<1> QED BY <1>2, <1>3, <1>4

LEMMA OthersKeptByWrite ==
  ASSUME TypeOK, NEW c \in Clients, NEW p \in Patches, UpdateWrite(c, p)
  PROVE  /\ client[c] # Absent /\ client[c].job \in Jobs
         /\ \A i \in Jobs \ {client[c].job} : rows'[i] = rows[i]
         /\ ~Exists(client[c].job) => rows'[client[c].job] = Absent
<1>1. /\ client \in [Clients -> [job : Jobs, row : Rows] \cup {Absent}] /\ client[c] # Absent
      /\ now \in Nat
  BY CronConstants DEF TypeOK, UpdateWrite
<1>2. client[c].job \in Jobs /\ client[c].row \in Rows
  BY <1>1
<1>3. Patched(client[c].row, p) \in Rows
  BY <1>1, <1>2, PatchedIs
<1>4. rows' = Written(client[c].job, Patched(client[c].row, p))
  BY DEF UpdateWrite
<1> QED BY <1>1, <1>2, <1>3, <1>4, WrittenIs

(* A start leaves the rows as they are, but for those the config changes.  *)
LEMMA StartKeeps ==
  ASSUME TypeOK, Start, NEW j \in Jobs
  PROVE  /\ Exists(j) => \/ rows'[j] = rows[j] \/ Edited(j)
                         \/ rows'[j] # Absent /\ rows'[j].enabled /\ rows'[j].next = rows[j].next
         /\ ~Exists(j) /\ rows'[j] # Absent => j \in Declared
<1>1. PICK config \in deployment.configs : Sync(config)
  BY DEF Start
<1>2. PICK reached \in SUBSET Declared :
        rows' = [i \in Jobs |->
          IF i \notin reached THEN rows[i]
          ELSE IF config[i] = Absent THEN Absent
          ELSE IF Exists(i) THEN Synced(rows[i], config[i])
          ELSE NewRow(config[i].sched, config[i].enabled)]
  BY <1>1 DEF Sync
<1>3. deployment \in Deployments /\ rows \in [Jobs -> Rows \cup {Absent}] /\ now \in Nat
  BY CronConstants DEF TypeOK
<1>4. CASE j \notin reached \/ config[j] = Absent
  BY <1>2, <1>4 DEF Edited, Exists
<1>5. CASE j \in reached /\ config[j] # Absent /\ Exists(j)
  <2>1. rows[j] \in Rows /\ config[j] \in Declarations
    BY <1>2, <1>3, <1>5, DeploymentFacts DEF Exists
  <2>2. rows'[j] = Synced(rows[j], config[j])
    BY <1>2, <1>5
  <2>3. PICK new \in Rows : /\ new = Synced(rows[j], config[j]) /\ new.sched = config[j].sched
                            /\ new.next = IF rows[j].sched = config[j].sched THEN rows[j].next
                                          ELSE NextRun(config[j].sched, now)
    BY <1>3, <2>1, SyncedIs
  <2> QED BY <1>5, <2>2, <2>3, CronConstants DEF Edited
<1>6. CASE j \in reached /\ ~Exists(j)
  BY <1>2, <1>6
<1> QED BY <1>4, <1>5, <1>6

LEMMA RowsAreKnown == Spec => []RowsKnown
<1>1. Init => RowsKnown
  BY DEF Init, RowsKnown, Exists
<1>2. TypeOK /\ RowsKnown /\ [Next]_vars => RowsKnown'
  <2> SUFFICES ASSUME TypeOK, RowsKnown, [Next]_vars, NEW j \in Jobs, rows'[j] # Absent
               PROVE  j \in Declared \cup used'
    BY DEF RowsKnown, Exists
  <2>1. used \subseteq used'
    BY DEF Next, SchedulerStep, Around, Start, CatchUpOverdue, Poll, Execute, Complete, RecordRun, Persist,
           Disable, Stop, Tick, Remove, Add, UpdateRead, UpdateWrite, vars
  <2>2. CASE Exists(j)
    BY <2>1, <2>2 DEF RowsKnown
  <2>3. CASE ~Exists(j)
    <3>1. CASE Start
      BY <2>3, <3>1, StartKeeps
    <3>2. ASSUME NEW i \in Jobs, Persist(i) \/ Disable(i) \/ Remove(i) PROVE FALSE
      BY <2>3, <3>2, OthersKept DEF Exists
    <3>3. ASSUME NEW i \in Jobs, NEW s \in Schedules, Add(i, s) PROVE j \in used'
      BY <2>3, <3>3 DEF Add, TypeOK, Exists
    <3>4. ASSUME NEW c \in Clients, NEW p \in Patches, UpdateWrite(c, p) PROVE FALSE
      BY <2>3, <3>4, OthersKeptByWrite DEF Exists
    <3>5. CASE rows' = rows
      BY <2>3, <3>5 DEF Exists
    <3>6. ASSUME NEW i \in Jobs
          PROVE  /\ Execute(i) \/ (\E ok \in BOOLEAN : Complete(i, ok)) \/ RecordRun(i) => rows' = rows
                 /\ \A c \in Clients : UpdateRead(c, i) => rows' = rows
      BY DEF Execute, Complete, RecordRun, UpdateRead
    <3>7. CatchUpOverdue \/ Poll \/ Stop \/ Tick \/ UNCHANGED vars => rows' = rows
      BY DEF CatchUpOverdue, Poll, Stop, Tick, vars
    <3> QED BY <3>1, <3>2, <3>3, <3>4, <3>5, <3>6, <3>7 DEF Next, SchedulerStep, Around
  <2> QED BY <2>2, <2>3
<1> QED BY <1>1, <1>2, TypeCorrect, PTL DEF Spec

(* Whatever stops, fails or is edited, the scheduler passes over no job    *)
(* that is due: it stays due until it was executed, a client changed its   *)
(* row, or a config said otherwise (DueNotDropped).                        *)
THEOREM NothingDuePassedOver == Spec => DueNotDropped
<1> DEFINE Excused(j) ==
      \/ j \in At("recorded") \cup At("disabling")
      \/ Remove(j)
      \/ \E c \in Clients, p \in Patches : client[c] # Absent /\ client[c].job = j /\ UpdateWrite(c, p)
      \/ phase = "down" /\ Edited(j)
<1>1. TypeOK /\ RowsKnown /\ [Next]_vars => [\A j \in Overdue : j \notin Overdue' => Excused(j)]_vars
  <2> SUFFICES ASSUME TypeOK, RowsKnown, Next, NEW j \in Overdue, j \notin Overdue' PROVE Excused(j)
    OBVIOUS
  <2>1. /\ j \in Jobs /\ Exists(j) /\ rows[j].enabled /\ rows[j].next <= now
        /\ rows[j] \in Rows /\ now \in Nat /\ rows[j].next \in Nat
    BY CronConstants DEF Overdue, TypeOK, Exists, Rows
  <2>2. now' \in Nat /\ now <= now'
    <3>1. ASSUME NEW i \in Jobs
          PROVE  /\ Execute(i) \/ (\E ok \in BOOLEAN : Complete(i, ok)) \/ RecordRun(i) => now' = now
                 /\ Persist(i) \/ Disable(i) \/ Remove(i) => now' = now
                 /\ \A s \in Schedules : Add(i, s) => now' = now
                 /\ \A c \in Clients : UpdateRead(c, i) => now' = now
      BY DEF Execute, Complete, RecordRun, Persist, Disable, Remove, Add, UpdateRead
    <3>2. \A c \in Clients, p \in Patches : UpdateWrite(c, p) => now' = now
      BY DEF UpdateWrite
    <3>3. Start \/ CatchUpOverdue \/ Poll \/ Stop => now' = now
      BY DEF Start, CatchUpOverdue, Poll, Stop
    <3>4. Tick => now' = now + 1
      BY DEF Tick
    <3>5. now' = now \/ now' = now + 1
      BY <3>1, <3>2, <3>3, <3>4 DEF Next, SchedulerStep, Around
    <3> QED BY <2>1, <3>5
  <2>3. ~(rows'[j] # Absent /\ rows'[j].enabled /\ rows'[j].next = rows[j].next)
    BY <2>1, <2>2 DEF Overdue, Exists
  <2>4. rows'[j] # rows[j]
    BY <2>1, <2>3 DEF Exists
  <2>5. CASE Start
    BY <2>1, <2>3, <2>4, <2>5, StartKeeps DEF Start
  <2>6. ASSUME NEW i \in Jobs, Persist(i) \/ Disable(i) PROVE j \in At("recorded") \cup At("disabling")
    <3>1. i = j
      BY <2>1, <2>4, <2>6, OthersKept
    <3> QED BY <2>6, <3>1 DEF Persist, Disable
  <2>7. ASSUME NEW i \in Jobs, Remove(i) PROVE Remove(j)
    <3>1. i = j
      BY <2>1, <2>4, <2>7, OthersKept
    <3> QED BY <2>7, <3>1
  <2>8. ASSUME NEW i \in Jobs, NEW s \in Schedules, Add(i, s) PROVE FALSE
    <3>1. i # j
      BY <2>1, <2>8 DEF Add, RowsKnown
    <3> QED BY <2>1, <2>4, <2>8, <3>1 DEF Add, TypeOK
  <2>9. ASSUME NEW c \in Clients, NEW p \in Patches, UpdateWrite(c, p)
        PROVE  client[c] # Absent /\ client[c].job = j
    BY <2>1, <2>4, <2>9, OthersKeptByWrite
  <2>10. ASSUME NEW i \in Jobs
         PROVE  /\ ~Execute(i) /\ ~(\E ok \in BOOLEAN : Complete(i, ok)) /\ ~RecordRun(i)
                /\ \A c \in Clients : ~UpdateRead(c, i)
    BY <2>4 DEF Execute, Complete, RecordRun, UpdateRead
  <2>11. ~(CatchUpOverdue \/ Poll \/ Stop \/ Tick)
    BY <2>4 DEF CatchUpOverdue, Poll, Stop, Tick
  <2> QED BY <2>5, <2>6, <2>7, <2>8, <2>9, <2>10, <2>11 DEF Next, SchedulerStep, Around
<1> QED BY <1>1, TypeCorrect, RowsAreKnown, PTL DEF DueNotDropped, Spec

-----------------------------------------------------------------------------
(* The invariant.  An id keeps the kind of its schedule for good, so that  *)
(* copies of a row (in the batch, at a client) agree with the row about    *)
(* it; and what is settled lies before the next run of its job, or the job *)
(* is a disabled one-shot.                                                 *)

(* Clients resume jobs but do not edit schedules; declared jobs recur; what *)
(* recurs does so after a positive time.                                    *)
Careful ==
  /\ \A d \in Deployments : \A p \in d.patches : p.sched = Keep /\ p.enabled = TRUE
  /\ \A s \in Schedules : s.kind = "every" => s.t > 0
  /\ \A d \in Deployments : \A config \in d.configs : \A j \in Declared :
       config[j] # Absent => config[j].sched.kind = "every" /\ config[j].sched.t > 0

Known == Declared \cup used
Regular(j, row) ==
  /\ row.once = (row.sched.kind = "at")
  /\ row.sched.kind = "every" => row.sched.t > 0
  /\ j \in Declared => row.sched.kind = "every"
Agrees(j, row) == Exists(j) => rows[j].sched.kind = row.sched.kind
Copy(j, row) == j \in Known /\ Regular(j, row) /\ Agrees(j, row)
Dormant(row) == row.sched.kind = "at" /\ ~row.enabled

RowsRegular == \A j \in Jobs : Exists(j) => Copy(j, rows[j])
ItemsRegular ==
  \A j \in Working :
    /\ Copy(j, batch[j].row) /\ batch[j].due <= now
    /\ batch[j].stage = "queued" => <<j, batch[j].due>> \notin settled
    /\ batch[j].stage = "disabling" => batch[j].row.sched.kind = "at"
ClientsRegular == \A c \in Clients : client[c] # Absent => Copy(client[c].job, client[c].row)
SettledPast == \A j \in Jobs : \A n \in Nat : <<j, n>> \in settled => j \in Known /\ n <= now
Fresh ==
  \A j \in Jobs : \A n \in Nat :
    <<j, n>> \in settled /\ Exists(j) => rows[j].next > n \/ Dormant(rows[j])

Inv == Careful /\ TypeOK /\ RowsRegular /\ ItemsRegular /\ ClientsRegular /\ SettledPast /\ Fresh

(* What a step may do to the row of a job, to the settled occurrences, to  *)
(* an item of the batch and to the copy of a client.                       *)
RowStep(j) ==
  LET new == rows'[j]
  IN  \/ new = Absent \/ new = rows[j]
      \/ /\ j \in Known' /\ Regular(j, new)
         /\ Exists(j) => new.sched.kind = rows[j].sched.kind
         /\ ~Exists(j) => j \in Declared \/ j \notin Known
         /\ \/ ~Exists(j) /\ j \notin Known
            \/ new.next > now \/ Dormant(new)
            \/ Exists(j) /\ new.next = rows[j].next /\ (new.sched.kind = "at" => new.enabled = rows[j].enabled)
            \/ \A n \in Nat : <<j, n>> \notin settled'

SettleStep(j) ==
  \A n \in Nat : <<j, n>> \in settled' =>
    \/ <<j, n>> \in settled
    \/ /\ batch[j] # Absent /\ n = batch[j].due /\ batch'[j] = Absent
       /\ rows'[j] = Absent \/ rows'[j].next > now \/ Dormant(rows'[j])

ItemStep(j) ==
  LET new == batch'[j]
  IN  \/ new = Absent \/ new = batch[j]
      \/ /\ batch[j] # Absent /\ new.row = batch[j].row /\ new.due = batch[j].due
         /\ new.stage \notin {"queued", "disabling"}
      \/ /\ j \in Overdue /\ new.row = rows[j] /\ new.due = rows[j].next
         /\ new.stage = "queued" /\ rows' = rows /\ settled' = settled
      \/ /\ batch[j] # Absent /\ batch[j].row.sched.kind = "at" /\ new.due = batch[j].due
         /\ new.stage = "disabling" /\ Exists(j) /\ rows'[j] # Absent /\ new.row = rows'[j]

ClientStep(c) ==
  LET new == client'[c]
  IN  \/ new = Absent \/ new = client[c]
      \/ Exists(new.job) /\ new.row = rows[new.job] /\ rows' = rows

StepShape ==
  /\ used \subseteq used' /\ now <= now'
  /\ \A j \in Jobs : RowStep(j) /\ SettleStep(j) /\ ItemStep(j)
  /\ \A c \in Clients : ClientStep(c)

(* The types, in the form the proofs below cite them.                      *)
LEMMA TypeFacts ==
  ASSUME TypeOK
  PROVE  /\ deployment \in Deployments /\ now \in Nat /\ settled \subseteq Jobs \X Nat
         /\ rows \in [Jobs -> Rows \cup {Absent}] /\ \A j \in Jobs : Exists(j) => rows[j] \in Rows
         /\ batch \in [Jobs -> Items \cup {Absent}]
         /\ \A j \in Jobs : batch[j] # Absent => /\ batch[j] \in Items /\ batch[j].row \in Rows
                                               /\ batch[j].due \in Nat
         /\ client \in [Clients -> [job : Jobs, row : Rows] \cup {Absent}]
         /\ \A row \in Rows : /\ row.next \in Nat /\ row.enabled \in BOOLEAN /\ row.once \in BOOLEAN
                              /\ row.sched \in AllSchedules
                              /\ row.sched.kind \in {"at", "every"} /\ row.sched.t \in Nat
<1>1. \A row \in Rows : /\ row.next \in Nat /\ row.enabled \in BOOLEAN /\ row.once \in BOOLEAN
                        /\ row.sched \in AllSchedules
                        /\ row.sched.kind \in {"at", "every"} /\ row.sched.t \in Nat
  BY DEF Rows, AllSchedules
<1>2. \A item \in Items : item.row \in Rows /\ item.due \in Nat
  BY DEF Items
<1> QED BY <1>1, <1>2 DEF TypeOK, Exists

(* What a step leaves alone has the shape.                                 *)
LEMMA Unchanged ==
  /\ rows' = rows => \A j \in Jobs : RowStep(j)
  /\ settled' = settled => \A j \in Jobs : SettleStep(j)
  /\ batch' = batch => \A j \in Jobs : ItemStep(j)
  /\ client' = client => \A c \in Clients : ClientStep(c)
BY DEF RowStep, SettleStep, ItemStep, ClientStep

LEMMA StartShape == Inv /\ Start /\ used' = used => StepShape
<1> SUFFICES ASSUME Inv, Start, used' = used PROVE StepShape
  OBVIOUS
<1>1. TypeOK /\ Careful
  BY DEF Inv
<1>2. PICK config \in deployment.configs : Sync(config)
  BY DEF Start
<1>3. PICK reached \in SUBSET Declared :
        rows' = [j \in Jobs |->
             IF j \notin reached THEN rows[j]
             ELSE IF config[j] = Absent THEN Absent
             ELSE IF Exists(j) THEN Synced(rows[j], config[j])
             ELSE NewRow(config[j].sched, config[j].enabled)]
  BY <1>2 DEF Sync
<1>4. ASSUME NEW j \in Jobs PROVE RowStep(j)
  <2>1. CASE rows'[j] = rows[j] \/ rows'[j] = Absent
    BY <2>1 DEF RowStep
  <2>2. CASE rows'[j] # rows[j] /\ rows'[j] # Absent
    <3>1. j \in reached /\ j \in Declared /\ config[j] # Absent
      BY <1>3, <2>2
    <3>2. config[j] \in Declarations
      BY <1>1, <3>1, TypeFacts, DeploymentFacts
    <3>3. /\ config[j].sched \in AllSchedules /\ config[j].enabled \in BOOLEAN
          /\ config[j].sched.kind = "every" /\ config[j].sched.t \in Nat /\ config[j].sched.t > 0
      BY <1>1, <3>1, <3>2, TypeFacts DEF Careful, Declarations, AllSchedules
    <3>4. now \in Nat
      BY <1>1, TypeFacts
    <3>5. NextRun(config[j].sched, now) > now
      BY <3>3, <3>4, NextRunType
    <3>6. CASE Exists(j)
      <4>1. rows'[j] = Synced(rows[j], config[j]) /\ rows[j] \in Rows
        BY <1>1, <1>3, <3>1, <3>6, TypeFacts
      <4>2. /\ rows'[j].sched = config[j].sched /\ rows'[j].once = (config[j].sched.kind = "at")
            /\ rows'[j].next = IF rows[j].sched = config[j].sched THEN rows[j].next
                               ELSE NextRun(config[j].sched, now)
        BY <3>2, <3>3, <3>4, <4>1, SyncedIs
      <4>3. rows[j].sched.kind = "every"
        BY <1>1, <3>1, <3>6, TypeFacts DEF Inv, RowsRegular, Copy, Regular
      <4> QED BY <3>1, <3>3, <3>5, <3>6, <4>2, <4>3 DEF RowStep, Regular, Known
    <3>7. CASE ~Exists(j)
      <4>1. rows'[j] = NewRow(config[j].sched, config[j].enabled)
        BY <1>3, <3>1, <3>7
      <4>2. /\ rows'[j].sched = config[j].sched /\ rows'[j].once = (config[j].sched.kind = "at")
            /\ rows'[j].next = NextRun(config[j].sched, now)
        BY <3>3, <3>4, <4>1, NewRowIs
      <4> QED BY <3>1, <3>3, <3>5, <3>7, <4>2 DEF RowStep, Regular, Known
    <3> QED BY <3>6, <3>7
  <2> QED BY <2>1, <2>2
<1> QED BY <1>1, <1>4, Unchanged, TypeFacts DEF Start, StepShape

LEMMA SelectShape ==
  ASSUME Inv, NEW S \in SUBSET Overdue, Select(S), UNCHANGED <<rows, now, client, used, settled>>
  PROVE  StepShape
<1>1. \A j \in Jobs : ItemStep(j)
  BY DEF Select, ItemStep
<1> QED BY <1>1, Unchanged, TypeFacts DEF StepShape, Inv

LEMMA JobShape ==
  ASSUME Inv, NEW j \in Jobs, Execute(j) \/ (\E ok \in BOOLEAN : Complete(j, ok)) \/ RecordRun(j)
  PROVE  StepShape
<1>1. batch[j] \in Items /\ batch \in [Jobs -> Items \cup {Absent}] /\ now \in Nat
  BY TypeFacts DEF Inv, Execute, Complete, RecordRun, At, Working
<1>2. \/ batch' = [batch EXCEPT ![j] = [batch[j] EXCEPT !.stage = "executing"]]
      \/ batch' = [batch EXCEPT ![j] = [batch[j] EXCEPT !.stage = "recorded"]]
      \/ \E ok \in BOOLEAN : batch' = [batch EXCEPT ![j] = [batch[j] EXCEPT !.stage = "done", !.ok = ok]]
  BY <1>1 DEF Execute, Complete, RecordRun
<1>3. batch[j] # Absent
  BY DEF Execute, Complete, RecordRun, At, Working
<1>4. /\ batch'[j].row = batch[j].row /\ batch'[j].due = batch[j].due
      /\ batch'[j].stage \notin {"queued", "disabling"}
      /\ \A i \in Jobs \ {j} : batch'[i] = batch[i]
  <2> DEFINE Advanced(item) == /\ item.row = batch[j].row /\ item.due = batch[j].due
                               /\ item.stage \notin {"queued", "disabling"}
  <2>1. /\ Advanced([batch[j] EXCEPT !.stage = "executing"])
        /\ Advanced([batch[j] EXCEPT !.stage = "recorded"])
        /\ \A ok \in BOOLEAN : Advanced([batch[j] EXCEPT !.stage = "done", !.ok = ok])
    BY <1>1 DEF Items
  <2> HIDE DEF Advanced
  <2>2. Advanced(batch'[j]) /\ \A i \in Jobs \ {j} : batch'[i] = batch[i]
    BY <1>1, <1>2, <2>1
  <2> QED BY <2>2 DEF Advanced
<1>5. \A i \in Jobs : ItemStep(i)
  BY <1>3, <1>4 DEF ItemStep
<1>6. UNCHANGED <<rows, now, client, used, settled>>
  BY DEF Execute, Complete, RecordRun
<1> QED BY <1>1, <1>5, <1>6, Unchanged DEF StepShape

LEMMA PersistShape ==
  ASSUME Inv, NEW j \in Jobs, Persist(j)
  PROVE  StepShape
<1>1. /\ TypeOK /\ batch[j] \in Items /\ batch[j] # Absent /\ batch \in [Jobs -> Items \cup {Absent}]
      /\ batch[j].row \in Rows /\ batch[j].due \in Nat /\ now \in Nat
      /\ rows \in [Jobs -> Rows \cup {Absent}] /\ settled \subseteq Jobs \X Nat
  BY TypeFacts DEF Inv, Persist, At, Working
<1>2. /\ Copy(j, batch[j].row)
      /\ Exists(j) => Copy(j, rows[j]) /\ rows[j] \in Rows
  BY <1>1, TypeFacts DEF Inv, ItemsRegular, RowsRegular, Working
<1>3. UNCHANGED <<now, client, used>>
  BY DEF Persist
<1>4. \A i \in Jobs \ {j} : \A n \in Nat : <<i, n>> \in settled' => <<i, n>> \in settled
  BY DEF Persist, Settles
<1>5. \A n \in Nat : <<j, n>> \in settled' => <<j, n>> \in settled \/ n = batch[j].due
  BY DEF Persist, Settles
<1>6. \A i \in Jobs \ {j} : rows'[i] = rows[i] /\ batch'[i] = batch[i]
  BY <1>1 DEF Persist, Delete, Leaves
<1>7. \A i \in Jobs \ {j} : RowStep(i) /\ SettleStep(i) /\ ItemStep(i)
  BY <1>4, <1>6 DEF RowStep, SettleStep, ItemStep
<1>8. RowStep(j) /\ SettleStep(j) /\ ItemStep(j)
  <2>1. CASE Delete(j) /\ Leaves(j)
    <3>1. rows'[j] = Absent /\ batch'[j] = Absent
      BY <1>1, <2>1 DEF Delete, Leaves
    <3> QED BY <1>1, <1>5, <3>1 DEF RowStep, SettleStep, ItemStep
  <2>2. CASE /\ OneShot(batch[j]) /\ Exists(j) /\ UNCHANGED <<log, settled>>
             /\ (rows' = [rows EXCEPT ![j].status = "error"] \/ rows' = rows)
             /\ batch' = [batch EXCEPT ![j].stage = "disabling", ![j].row = rows'[j]]
    <3>1. rows'[j] = [rows[j] EXCEPT !.status = "error"] \/ rows'[j] = rows[j]
      BY <1>1, <2>2
    <3>2. /\ rows'[j] \in Rows /\ rows'[j].sched = rows[j].sched /\ rows'[j].once = rows[j].once
          /\ rows'[j].next = rows[j].next /\ rows'[j].enabled = rows[j].enabled
      BY <1>2, <2>2, <3>1 DEF Rows
    <3>3. rows'[j] # Absent
      BY <3>2, CronConstants
    <3>4. RowStep(j)
      BY <1>2, <1>3, <2>2, <3>2 DEF RowStep, Copy, Regular, Known
    <3>5. batch'[j] = [batch[j] EXCEPT !.stage = "disabling", !.row = rows'[j]]
      BY <1>1, <2>2
    <3>6. batch'[j].stage = "disabling" /\ batch'[j].row = rows'[j] /\ batch'[j].due = batch[j].due
      BY <1>1, <3>2, <3>5 DEF Items
    <3>7. ItemStep(j)
      BY <1>1, <2>2, <3>3, <3>6 DEF ItemStep, OneShot
    <3> QED BY <2>2, <3>4, <3>7, Unchanged
  <2>3. CASE /\ ~OneShot(batch[j]) /\ Exists(j) /\ Leaves(j)
             /\ rows' = [rows EXCEPT ![j] = Rescheduled(rows[j], batch[j])]
    <3>1. batch[j].row.sched.kind # "at" /\ batch[j].row.sched.t \in Nat /\ batch[j].row.sched.t > 0
      BY <1>1, <1>2, <2>3, TypeFacts DEF OneShot, Copy, Regular
    <3>2. /\ rows'[j].sched = rows[j].sched /\ rows'[j].once = rows[j].once
          /\ rows'[j].next = now + batch[j].row.sched.t
      BY <1>1, <1>2, <2>3, <3>1, RescheduledIs
    <3>3. rows'[j].next > now
      BY <1>1, <3>1, <3>2
    <3>4. batch'[j] = Absent
      BY <1>1, <2>3 DEF Leaves
    <3> QED BY <1>2, <1>3, <1>5, <1>1, <2>3, <3>2, <3>3, <3>4 DEF RowStep, SettleStep, ItemStep, Copy, Regular, Known
  <2>4. CASE Leaves(j) /\ UNCHANGED <<rows, log, settled>>
    <3>1. batch'[j] = Absent
      BY <1>1, <2>4 DEF Leaves
    <3> QED BY <2>4, <3>1, Unchanged DEF ItemStep
  <2> QED BY <2>1, <2>2, <2>3, <2>4 DEF Persist
<1> QED BY <1>1, <1>3, <1>7, <1>8, Unchanged DEF StepShape

LEMMA DisableShape ==
  ASSUME Inv, NEW j \in Jobs, Disable(j)
  PROVE  StepShape
<1>1. /\ TypeOK /\ batch[j].row \in Rows /\ batch[j].due \in Nat /\ now \in Nat
      /\ batch \in [Jobs -> Items \cup {Absent}] /\ settled \subseteq Jobs \X Nat
  BY TypeFacts DEF Inv, Disable, At, Working
<1>2. Copy(j, batch[j].row) /\ batch[j].row.sched.kind = "at" /\ batch[j] # Absent
  BY DEF Inv, ItemsRegular, Disable, At, Working
<1>3. batch'[j] = Absent /\ \A i \in Jobs \ {j} : batch'[i] = batch[i]
  BY <1>1 DEF Disable, Leaves
<1>4. UNCHANGED <<now, client, used>>
  BY DEF Disable
<1>5. CASE rows' = Written(j, [batch[j].row EXCEPT !.enabled = FALSE]) /\ Settles(j)
  <2> DEFINE row == [batch[j].row EXCEPT !.enabled = FALSE]
  <2>1. /\ row \in Rows /\ row.sched = batch[j].row.sched /\ row.once = batch[j].row.once
        /\ row.enabled = FALSE
    BY <1>1 DEF Rows
  <2>2. rows' = Written(j, row)
    BY <1>5
  <2> HIDE DEF row
  <2>3. /\ \A i \in Jobs \ {j} : rows'[i] = rows[i]
        /\ ~Exists(j) => rows'[j] = Absent
        /\ Exists(j) => /\ rows'[j].sched = batch[j].row.sched /\ rows'[j].once = batch[j].row.once
                        /\ rows'[j].enabled = FALSE
    BY <1>1, <2>1, <2>2, WrittenIs
  <2>4. RowStep(j)
    BY <1>2, <1>4, <2>3 DEF RowStep, Copy, Agrees, Regular, Known, Dormant
  <2>5. SettleStep(j)
    BY <1>1, <1>2, <1>3, <1>5, <2>3 DEF SettleStep, Settles, Dormant
  <2>6. \A i \in Jobs \ {j} : RowStep(i) /\ SettleStep(i)
    BY <1>5, <2>3 DEF RowStep, SettleStep, Settles
  <2> QED BY <1>1, <1>3, <1>4, <2>4, <2>5, <2>6, Unchanged DEF StepShape, ItemStep
<1>6. CASE UNCHANGED <<rows, settled>>
  BY <1>1, <1>3, <1>4, <1>6, Unchanged DEF StepShape, ItemStep
<1> QED BY <1>5, <1>6 DEF Disable

LEMMA StopShape == Inv /\ Stop => StepShape
BY Unchanged, TypeFacts DEF Inv, Stop, StepShape, ItemStep

LEMMA TickShape == Inv /\ Tick => StepShape
BY Unchanged, TypeFacts DEF Inv, Tick, StepShape

LEMMA AddShape ==
  ASSUME Inv, NEW j \in Jobs, NEW s \in Schedules, Add(j, s)
  PROVE  StepShape
<1>1. now \in Nat /\ s \in AllSchedules /\ (s.kind = "every" => s.t > 0) /\ rows \in [Jobs -> Rows \cup {Absent}]
  BY TypeFacts, CronConstants DEF Inv, Careful
<1>2. rows'[j] = NewRow(s, TRUE) /\ \A i \in Jobs \ {j} : rows'[i] = rows[i]
  BY <1>1 DEF Add
<1>3. rows'[j].sched = s /\ rows'[j].once = (s.kind = "at")
  BY <1>1, <1>2, NewRowIs
<1>4. j \notin Known /\ j \in Known' /\ j \notin Declared
  BY DEF Add, Known
<1>5. ~Exists(j)
  BY <1>4 DEF Inv, RowsRegular, Copy
<1>6. RowStep(j)
  BY <1>1, <1>3, <1>4, <1>5 DEF RowStep, Regular
<1>7. \A i \in Jobs : RowStep(i)
  BY <1>2, <1>6 DEF RowStep
<1> QED BY <1>1, <1>7, Unchanged DEF Add, StepShape

LEMMA RemoveShape ==
  ASSUME Inv, NEW j \in Jobs, Remove(j)
  PROVE  StepShape
<1>1. now \in Nat /\ rows \in [Jobs -> Rows \cup {Absent}]
  BY TypeFacts DEF Inv
<1>2. \A i \in Jobs : RowStep(i)
  BY <1>1 DEF Remove, Delete, RowStep
<1> QED BY <1>1, <1>2, Unchanged DEF Remove, StepShape

LEMMA UpdateReadShape ==
  ASSUME Inv, NEW c \in Clients, NEW j \in Jobs, UpdateRead(c, j)
  PROVE  StepShape
<1>1. now \in Nat /\ client \in [Clients -> [job : Jobs, row : Rows] \cup {Absent}]
  BY TypeFacts DEF Inv
<1>2. \A b \in Clients : ClientStep(b)
  BY <1>1 DEF UpdateRead, ClientStep
<1> QED BY <1>1, <1>2, Unchanged DEF UpdateRead, StepShape

LEMMA UpdateWriteShape ==
  ASSUME Inv, NEW c \in Clients, NEW p \in Patches, UpdateWrite(c, p)
  PROVE  StepShape
<1> DEFINE j == client[c].job
           row == Patched(client[c].row, p)
<1>1. /\ TypeOK /\ now \in Nat /\ j \in Jobs /\ client[c].row \in Rows /\ client[c] # Absent
      /\ client \in [Clients -> [job : Jobs, row : Rows] \cup {Absent}]
  BY TypeFacts DEF Inv, UpdateWrite
<1>2. p.sched = Keep /\ Asks(p)
  BY <1>1 DEF Inv, Careful, Asks, UpdateWrite, TypeOK
<1>3. row \in Rows
  BY <1>1, PatchedIs
<1>4. row.sched = client[c].row.sched /\ row.once = client[c].row.once
  BY <1>1, <1>2 DEF Patched, Rows
<1>5. Copy(j, client[c].row)
  BY <1>1 DEF Inv, ClientsRegular
<1>6. /\ rows' = Written(j, row)
      /\ \A n \in Nat : <<j, n>> \notin settled'
      /\ \A i \in Jobs, n \in Nat : <<i, n>> \in settled' => <<i, n>> \in settled
  BY <1>2 DEF UpdateWrite
<1>7. UNCHANGED <<now, batch, used>>
  BY DEF UpdateWrite
<1>8. \A b \in Clients : ClientStep(b)
  BY <1>1 DEF UpdateWrite, ClientStep
<1> HIDE DEF row, j
<1>9. /\ \A i \in Jobs \ {j} : rows'[i] = rows[i]
      /\ ~Exists(j) => rows'[j] = Absent
      /\ Exists(j) => rows'[j].sched = client[c].row.sched /\ rows'[j].once = client[c].row.once
  BY <1>1, <1>3, <1>4, <1>6, WrittenIs
<1>10. RowStep(j)
  BY <1>5, <1>6, <1>7, <1>9 DEF RowStep, Copy, Agrees, Regular, Known
<1>11. \A i \in Jobs : RowStep(i) /\ SettleStep(i)
  BY <1>6, <1>9, <1>10 DEF RowStep, SettleStep
<1> QED BY <1>1, <1>7, <1>8, <1>11, Unchanged DEF StepShape

LEMMA StepHasShape == Inv /\ [Next]_vars => StepShape
<1> SUFFICES ASSUME Inv, [Next]_vars PROVE StepShape
  OBVIOUS
<1>1. CASE Start
  BY <1>1, StartShape DEF Start
<1>2. CASE CatchUpOverdue
  BY <1>2, SelectShape, Unchanged, TypeFacts DEF CatchUpOverdue, StepShape, Inv
<1>3. CASE Poll
  BY <1>3, SelectShape DEF Poll, Selections
<1>4. CASE UNCHANGED vars
  BY <1>4, Unchanged, TypeFacts DEF vars, StepShape, Inv
<1> QED BY <1>1, <1>2, <1>3, <1>4, JobShape, PersistShape, DisableShape, StopShape, TickShape, AddShape,
           RemoveShape, UpdateReadShape, UpdateWriteShape DEF Next, SchedulerStep, Around

-----------------------------------------------------------------------------
(* The invariant holds.                                                    *)

LEMMA InvHolds == Careful /\ Spec => []Inv
<1>1. Careful /\ Init => Inv
  <2>1. Init => TypeOK
    BY CronConstants, DeploymentFacts DEF Init, TypeOK, Max2
  <2> QED BY <2>1 DEF Init, Inv, RowsRegular, ItemsRegular, ClientsRegular, SettledPast, Fresh, Working, Exists
<1>2. Inv /\ TypeOK' /\ [Next]_vars => Inv'
  <2> SUFFICES ASSUME Inv, TypeOK', [Next]_vars PROVE Inv'
    OBVIOUS
  <2>1. /\ StepShape /\ TypeOK /\ now \in Nat /\ now' \in Nat /\ now <= now'
        /\ Known \subseteq Known'
    BY StepHasShape, TypeFacts, CronConstants DEF Inv, StepShape, TypeOK, Known
  <2>2. \A j \in Jobs : RowStep(j) /\ SettleStep(j) /\ ItemStep(j)
    BY <2>1 DEF StepShape
  <2>3. RowsRegular'
    BY <2>1, <2>2 DEF Inv, RowsRegular, RowStep, Copy, Regular, Agrees, Exists
  <2>4. ASSUME NEW j \in Jobs, NEW row, Copy(j, row) PROVE Copy(j, row)'
    BY <2>1, <2>2, <2>4 DEF Inv, RowsRegular, RowStep, Copy, Regular, Agrees, Exists
  <2>5. ItemsRegular'
    <3> DEFINE ItemRegular(j) == /\ Copy(j, batch[j].row) /\ batch[j].due <= now
                                 /\ batch[j].stage = "queued" => <<j, batch[j].due>> \notin settled
                                 /\ batch[j].stage = "disabling" => batch[j].row.sched.kind = "at"
    <3>1. ItemsRegular <=> \A j \in Jobs : batch[j] # Absent => ItemRegular(j)
      BY DEF ItemsRegular, Working
    <3>2. ItemsRegular' <=> \A j \in Jobs : batch'[j] # Absent => ItemRegular(j)'
      BY DEF ItemsRegular, Working
    <3>3. ASSUME NEW j \in Jobs, batch'[j] # Absent PROVE ItemRegular(j)'
      <4>1. batch[j] # Absent => /\ ItemRegular(j) /\ batch[j] \in Items /\ batch[j].due \in Nat
                                 /\ batch[j].row \in Rows
        BY <2>1, <3>1, TypeFacts DEF Inv
      <4>2. CASE batch[j] # Absent /\ batch'[j].row = batch[j].row /\ batch'[j].due = batch[j].due
                 /\ (batch'[j] = batch[j] \/ batch'[j].stage \notin {"queued", "disabling"})
        <5>1. Copy(j, batch[j].row)'
          BY <2>4, <4>1, <4>2
        <5>2. batch'[j].stage = "queued" => <<j, batch'[j].due>> \notin settled'
          BY <2>2, <3>3, <4>1, <4>2 DEF SettleStep
        <5> QED BY <2>1, <4>1, <4>2, <5>1, <5>2
      <4>3. CASE /\ j \in Overdue /\ batch'[j].row = rows[j] /\ batch'[j].due = rows[j].next
                 /\ batch'[j].stage = "queued" /\ rows' = rows /\ settled' = settled
        <5>1. rows[j] \in Rows /\ rows[j].enabled /\ rows[j].next \in Nat /\ rows[j].next <= now /\ Exists(j)
          BY <2>1, <4>3, TypeFacts DEF Overdue
        <5>2. Copy(j, batch[j].row)'
          BY <2>4, <4>3, <5>1 DEF Inv, RowsRegular
        <5>3. <<j, rows[j].next>> \notin settled
          BY <5>1 DEF Inv, Fresh, Dormant
        <5> QED BY <2>1, <4>3, <5>1, <5>2, <5>3
      <4>4. CASE /\ batch[j] # Absent /\ batch[j].row.sched.kind = "at" /\ batch'[j].due = batch[j].due
                 /\ batch'[j].stage = "disabling" /\ Exists(j) /\ rows'[j] # Absent /\ batch'[j].row = rows'[j]
        <5>1. Copy(j, rows[j])'
          BY <2>3, <4>4 DEF RowsRegular, Exists
        <5>2. rows'[j].sched.kind = "at"
          BY <2>2, <4>1, <4>4 DEF Copy, Agrees, RowStep
        <5> QED BY <2>1, <4>1, <4>4, <5>1, <5>2
      <4> QED BY <2>2, <3>3, <4>2, <4>3, <4>4 DEF ItemStep
    <3> QED BY <3>2, <3>3
  <2>6. ClientsRegular'
    <3> SUFFICES ASSUME NEW c \in Clients, client'[c] # Absent
                 PROVE  Copy(client[c].job, client[c].row)'
      BY DEF ClientsRegular
    <3>1. client'[c].job \in Jobs
      BY DEF TypeOK
    <3>2. CASE client'[c] = client[c]
      BY <2>4, <3>1, <3>2 DEF Inv, ClientsRegular
    <3>3. CASE Exists(client'[c].job) /\ client'[c].row = rows[client'[c].job] /\ rows' = rows
      BY <2>4, <3>1, <3>3 DEF Inv, RowsRegular
    <3> QED BY <2>1, <3>2, <3>3 DEF StepShape, ClientStep
  <2>7. SettledPast'
    <3> SUFFICES ASSUME NEW j \in Jobs, NEW n \in Nat, <<j, n>> \in settled'
                 PROVE  j \in Known' /\ n <= now'
      BY DEF SettledPast
    <3>1. CASE <<j, n>> \in settled
      BY <2>1, <3>1 DEF Inv, SettledPast
    <3>2. CASE batch[j] # Absent /\ n = batch[j].due
      BY <2>1, <3>2 DEF Inv, ItemsRegular, Working, Copy
    <3> QED BY <2>2, <3>1, <3>2 DEF SettleStep
  <2>8. Fresh'
    <3> SUFFICES ASSUME NEW j \in Jobs, NEW n \in Nat, <<j, n>> \in settled', rows'[j] # Absent
                 PROVE  rows'[j].next > n \/ Dormant(rows'[j])
      BY DEF Fresh, Exists, Dormant
    <3>1. rows'[j].next \in Nat
      <4>1. rows'[j] \in Rows
        BY DEF TypeOK
      <4> QED BY <4>1 DEF Rows
    <3>2. CASE <<j, n>> \in settled
      <4>1. j \in Known /\ n <= now
        BY <3>2 DEF Inv, SettledPast
      <4>2. Exists(j) => /\ rows[j].next > n \/ Dormant(rows[j])
                         /\ rows[j] \in Rows
        BY <2>1, <3>2, TypeFacts DEF Inv, Fresh
      <4>3. RowStep(j)
        BY <2>2
      <4>4. CASE rows'[j] = rows[j]
        BY <4>2, <4>4 DEF Exists
      <4>5. CASE ~Exists(j) /\ j \notin Known
        BY <4>1, <4>5
      <4>6. CASE rows'[j].next > now
        BY <2>1, <3>1, <4>1, <4>6
      <4>7. CASE /\ Exists(j) /\ rows'[j].next = rows[j].next /\ rows'[j].sched.kind = rows[j].sched.kind
                 /\ rows'[j].sched.kind = "at" => rows'[j].enabled = rows[j].enabled
        BY <4>2, <4>7 DEF Dormant
      <4> QED BY <4>3, <4>4, <4>5, <4>6, <4>7 DEF RowStep
    <3>3. CASE /\ batch[j] # Absent /\ n = batch[j].due
               /\ rows'[j] = Absent \/ rows'[j].next > now \/ Dormant(rows'[j])
      <4>1. n <= now /\ n \in Nat
        BY <3>3 DEF Inv, ItemsRegular, Working
      <4> QED BY <2>1, <3>1, <3>3, <4>1
    <3> QED BY <2>2, <3>2, <3>3 DEF SettleStep
  <2> QED BY <2>3, <2>5, <2>6, <2>7, <2>8 DEF Inv, Careful
<1>3. Spec => []TypeOK
  BY TypeCorrect
<1> QED BY <1>1, <1>2, <1>3, PTL DEF Spec

(* Where declared jobs recur and clients only resume jobs, an occurrence   *)
(* whose outcome is stored is not executed again, whatever fails, and      *)
(* across restarts (OccurrenceOnce).                                       *)
THEOREM StoredNotRepeated == Careful /\ Spec => OccurrenceOnce
<1>1. Inv /\ [Next]_vars => [\A j \in Jobs : Fires(j) => <<j, batch[j].due>> \notin settled]_vars
  BY DEF Inv, ItemsRegular, Fires, At, Working
<1> QED BY <1>1, InvHolds, PTL DEF OccurrenceOnce, Spec
=============================================================================

------------------------------- MODULE MCCron -------------------------------
(* Instances of Cron for TLC.                                               *)
EXTENDS Cron

MCJobs == {"nightly", "remind"}
MCDeclared == {"nightly"}
At2 == [kind |-> "at", t |-> 2]
Every1 == [kind |-> "every", t |-> 1]
Every2 == [kind |-> "every", t |-> 2]

\* Config files: the declared job recurs, or it is not declared any more.
Recurring == {[nightly |-> [sched |-> Every2, enabled |-> TRUE]]}
EditedConfigs == Recurring \cup {[nightly |-> Absent]}

Both == {At2, Every1}
OnlyEvery == {Every1}
One == {"cli"}

Rename == [sched |-> Keep, enabled |-> Keep]
Resume == [sched |-> Keep, enabled |-> TRUE]
Repeat == [sched |-> Every1, enabled |-> Keep]
Once == [sched |-> At2, enabled |-> Keep]
Updates == {Rename, Resume, Repeat, Once}

\* A scheduler that goes on; one that stops and whose statements fail, beside a client
\* that resumes jobs; one that stops, beside a client that changes schedules; and one
\* beside a client that only edits the names of jobs.
Steady == [configs |-> Recurring, clients |-> {}, patches |-> {}, stops |-> FALSE, fails |-> FALSE, maxTime |-> 4]
Faulty == [configs |-> EditedConfigs, clients |-> One, patches |-> {Resume}, stops |-> TRUE, fails |-> TRUE, maxTime |-> 2]
Changed == [configs |-> Recurring, clients |-> One, patches |-> {Repeat, Once}, stops |-> TRUE, fails |-> FALSE, maxTime |-> 2]
Edits == [configs |-> Recurring, clients |-> One, patches |-> {Rename}, stops |-> FALSE, fails |-> FALSE, maxTime |-> 4]
SteadyFaultyChanged == {Steady, Faulty, Changed}
OnlyEdits == {Edits}
=============================================================================

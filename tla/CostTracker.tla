---------------------------- MODULE CostTracker ----------------------------
(***************************************************************************)
(* The process-wide cost tracker: an append-only file of usage records and *)
(* the sums of the current day and month, cached with the day they are of. *)
(* Every method holds the storage mutex, so each is one action; the agent  *)
(* loops of all turns call them (AgentLoop).                               *)
(***************************************************************************)
EXTENDS Integers, FiniteSetsExt

CONSTANTS
  DaysPerMonth,
  DailyLimit, MonthlyLimit,
  MaxDay   \* bound: the last day

ASSUME CostConstants ==
  /\ DaysPerMonth \in Nat \ {0} /\ MaxDay \in Nat
  /\ DailyLimit \in Nat /\ MonthlyLimit \in Nat

Days == 0 .. MaxDay
SameMonth(d, e) == d \div DaysPerMonth = e \div DaysPerMonth

VARIABLES
  today,
  file,    \* the records of each day, as their sum
  cached   \* daily_cost_usd, monthly_cost_usd, cached_day

costVars == <<today, file, cached>>

CostInit ==
  /\ today = 0 /\ file = [d \in Days |-> 0]
  /\ cached = [day |-> 0, daily |-> 0, monthly |-> 0]

MonthOf(records, day) == MapThenSumSet(LAMBDA d : records[d], {d \in Days : SameMonth(d, day)})

\* Mutant: the sum of the month is that of the day.
Rebuilt_DayOnly(records) == [day |-> today, daily |-> records[today], monthly |-> records[today]]

\* rebuild_aggregates
Rebuilt(records) == [day |-> today, daily |-> records[today], monthly |-> MonthOf(records, today)]

\* ensure_period_cache_current
Current(records) == IF cached.day = today THEN cached ELSE Rebuilt(records)

\* check_budget(0.0) refreshes the sums and looks at them.
Check == cached' = Current(file) /\ UNCHANGED <<today, file>>

Exceeded(c) == c.daily > DailyLimit \/ c.monthly > MonthlyLimit

\* record_usage: the record is written first; sums rebuilt after that contain it
\* already, and it is added to them all the same.
Record(cost) ==
  LET records == [file EXCEPT ![today] = @ + cost]
      sums == Current(records)
  IN  /\ file' = records
      /\ cached' = [sums EXCEPT !.daily = @ + cost, !.monthly = @ + cost]
      /\ UNCHANGED today

NewDay ==
  /\ today < MaxDay
  /\ today' = today + 1
  /\ UNCHANGED <<file, cached>>

CostTypeOK ==
  /\ today \in Days /\ file \in [Days -> Nat]
  /\ cached \in [day : Days, daily : Nat, monthly : Nat]
=============================================================================

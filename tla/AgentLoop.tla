----------------------------- MODULE AgentLoop -----------------------------
(***************************************************************************)
(* The agent loop, run_tool_call_loop, with those who run it: several      *)
(* turns of the channels at a time, or the turns of a terminal session one *)
(* after the other.  A turn asks the model (Reliable), decides which of    *)
(* the tool calls in the answer may run, runs them, shows the results to   *)
(* the loop detector (LoopDetector) and asks again.  The turns share the   *)
(* request to switch models, the approvals given for a session and the     *)
(* cost tracker (CostTracker).                                             *)
(***************************************************************************)
EXTENDS Integers, Sequences, FiniteSets, SequencesExt, CostTracker, LoopDetector, Reliable

CONSTANTS
  Turns,
  Tools, Arguments,
  Models,        \* the first one is configured
  AutoApproved, AlwaysAsked,  \* tools of autonomy.auto_approve and always_ask
  Exempt,        \* tool_call_dedup_exempt
  Ignored,       \* pacing.loop_ignore_tools
  Settings,      \* deployments and what their environment may do: see setting
  ActionBudget   \* requests to switch that the security policy lets through

None == "none"
\* Tools that are not approved in advance.
Guarded == AlwaysAsked \cup (Tools \ AutoApproved)
Calls == [tool : Tools, args : Arguments]
\* detects: loop_detection_enabled; gated: loop_detection_min_elapsed_secs is set.
Limits == [iterations : Nat \ {0}, repeats : Nat, window : Nat, detects : BOOLEAN, gated : BOOLEAN]
\* Identical outputs after the first one at which a run is aborted.
MaxAlike == 3

Message(role) == [role |-> role]
\* What becomes of a call: it waits, it is not run, or what its tool returns.
Marks == {"pending", "cancelled by hook", "denied", "duplicate"} \cup UNION {s.outputs : s \in Settings}

ASSUME AgentConstants ==
  /\ Turns # {} /\ IsFiniteSet(Turns) /\ ActionBudget \in Nat
  /\ AutoApproved \subseteq Tools /\ AlwaysAsked \subseteq Tools
  /\ None \notin Models /\ Models # {}
  /\ \A s \in Settings :
       /\ s.channel \in BOOLEAN /\ s.supervised \in BOOLEAN
       /\ s.hooks \in BOOLEAN /\ s.stops \in BOOLEAN
       /\ s.turns \subseteq Turns /\ s.home \in Models
       /\ s.limits \in Limits /\ s.chains \in Chains
       /\ s.history \in Seq({Message("system"), Message("user"), Message("assistant")})
       /\ s.replies \subseteq Seq(Calls) /\ s.errors \subseteq Errors
       /\ \A reply \in s.replies : \A i \in DOMAIN reply :
            reply[i].tool = "model_switch" => reply[i].args \in Models
       /\ s.rewrites \subseteq Calls
       /\ \A call \in s.rewrites : call.tool = "model_switch" => call.args \in Models
       /\ s.costs \subseteq Nat /\ IsFiniteSet(s.costs)
       /\ s.outputs # {} /\ "pending" \notin s.outputs

VARIABLES
  setting,    \* channel or terminal, its configuration, replies, errors and costs
  pc,         \* where each turn is
  turn,       \* its local variables
  home,       \* the model of the terminal session, or the configured one
  request,    \* MODEL_SWITCH_REQUEST
  allowlist,  \* ApprovalManager.session_allowlist
  cancelled,  \* turns whose token is cancelled
  requests,   \* actions counted by the security policy: who asked for which model
  credit      \* bookkeeping: prompts answered with Yes or Always less executions, by tool

agentVars == <<setting, pc, turn, home, request, allowlist, cancelled, requests, credit>>
vars == <<agentVars, costVars>>
shared == <<home, request, allowlist, cancelled, requests, credit>>

Ended == {"answered", "failed", "cancelled", "timed out", "over budget", "stuck", "runaway"}
Active(t) == pc[t] \notin Ended \cup {"waiting"}

\* The gate against identical outputs: whether its time has come, the output it counted
\* last, how many in a row were like the one before, and all of them (bookkeeping).
Closed == [open |-> FALSE, last |-> <<>>, alike |-> 0, said |-> <<>>]

\* The locals of a run of the loop: nothing of an earlier run but the history.
Fresh(history, model) ==
  [model |-> model, target |-> None, iteration |-> 0, history |-> history,
   position |-> First, tried |-> {}, calls |-> <<>>, parallel |-> FALSE,
   results |-> <<>>, queue |-> <<>>, outcomes |-> <<>>, window |-> <<>>, log |-> <<>>,
   gate |-> Closed, why |-> None]

Init ==
  /\ setting \in Settings
  /\ pc = [t \in Turns |-> "waiting"]
  /\ home = setting.home
  /\ turn = [t \in Turns |-> Fresh(<<>>, setting.home)]
  /\ request = None /\ allowlist = {} /\ cancelled = {}
  /\ requests = <<>>
  /\ credit = [x \in Guarded |-> 0]
  /\ CostInit

Goto(t, from, to) == pc[t] = from /\ pc' = [pc EXCEPT ![t] = to]
Locals(t, values) == turn' = [turn EXCEPT ![t] = values]
\* The run is over, and its locals are gone.
Gone == Fresh(<<>>, setting.home)
Earned(x, n) == credit' = IF x \in Guarded THEN [credit EXCEPT ![x] = @ + n] ELSE credit

-----------------------------------------------------------------------------
(* A turn begins, and its run of the loop may begin again.                 *)

Begin(t) ==
  /\ t \in setting.turns
  /\ setting.channel \/ \A u \in Turns : ~Active(u)
  /\ Goto(t, "waiting", "head")
  /\ Locals(t, Fresh(setting.history, home))
  /\ UNCHANGED <<setting, shared, costVars>>

\* Mutant: a run of the loop has no last iteration.
LastIteration_Never(t) == FALSE

LastIteration(t) == turn[t].iteration = setting.limits.iterations

\* The head of an iteration: cancellation, then the pending switch of models.
TopOfLoop(t) ==
  /\ ~LastIteration(t)
  /\ \/ Goto(t, "head", "cancelled") /\ t \in cancelled /\ Locals(t, Gone)
     \/ /\ t \notin cancelled /\ request \notin {None, turn[t].model}
        /\ Goto(t, "head", "switching")
        /\ Locals(t, [turn[t] EXCEPT !.target = request])
     \/ /\ t \notin cancelled /\ request \in {None, turn[t].model}
        /\ Goto(t, "head", "spending") /\ UNCHANGED turn
  /\ UNCHANGED <<setting, shared, costVars>>

\* The caller creates the provider that was asked for, clears the request, whoever
\* made it, and runs the loop again.
SwitchModel(t) ==
  LET to == turn[t].target IN
  /\ Goto(t, "switching", "head")
  /\ Locals(t, Fresh(turn[t].history, to))
  /\ request' = None
  /\ home' = IF setting.channel THEN home ELSE to
  /\ UNCHANGED <<setting, allowlist, cancelled, requests, credit, costVars>>

\* It cannot be created: a channel drops the request and the turn fails, a terminal
\* session ends and leaves the request.
SwitchFails(t) ==
  /\ pc[t] = "switching"
  /\ pc' = [u \in Turns |->
             IF u = t \/ (~setting.channel /\ pc[u] = "waiting") THEN "failed" ELSE pc[u]]
  /\ Locals(t, Gone)
  /\ request' = IF setting.channel THEN None ELSE request
  /\ UNCHANGED <<setting, home, allowlist, cancelled, requests, credit, costVars>>

-----------------------------------------------------------------------------
(* Asking the model.                                                       *)

CheckBudget(t) ==
  /\ pc[t] = "spending" /\ Check
  /\ \/ /\ Exceeded(cached')
        /\ Goto(t, "spending", "over budget") /\ Locals(t, Gone)
     \/ /\ ~Exceeded(cached')
        /\ Goto(t, "spending", "calling")
        /\ Locals(t, [turn[t] EXCEPT !.position = First, !.tried = {}])
  /\ UNCHANGED <<setting, shared>>

\* truncate_for_context keeps the newer half of what is not the system's.
Cuttable(h) == Cardinality({i \in DOMAIN h : h[i].role # "system"}) > 1

\* The elements of s at some of its positions, in their order.
Chosen(s, positions) ==
  LET nth(k) == CHOOSE i \in positions : Cardinality({j \in positions : j <= i}) = k
  IN  [k \in 1 .. Cardinality(positions) |-> s[nth(k)]]

\* The old tool results are cut short; the last four messages are left alone.
FastTrimmed(h) ==
  [i \in DOMAIN h |-> IF i <= Len(h) - 4 /\ h[i].role = "tool" /\ h[i].result.what = "long"
                      THEN [h[i] EXCEPT !.result.what = "trimmed"] ELSE h[i]]

\* The oldest third goes, but for the system's messages and the last four.
EmergencyTrimmed(h) ==
  LET droppable == {i \in 1 .. Len(h) - 4 : h[i].role # "system"}
      oldest == {i \in droppable : Cardinality({j \in droppable : j <= i}) <= Len(h) \div 3}
  IN  Chosen(h, DOMAIN h \ oldest)

Recovered(h) == IF FastTrimmed(h) # h THEN FastTrimmed(h) ELSE EmergencyTrimmed(h)

\* The request failed: an overflow costs an iteration and some history.
CallFailed(t, why, tried) ==
  \E recovered \in {Recovered(turn[t].history)} :
  \/ /\ why = "too long" /\ recovered # turn[t].history
     /\ Goto(t, "calling", "head")
     /\ Locals(t, [turn[t] EXCEPT !.history = recovered, !.iteration = @ + 1])
  \/ /\ why = "exhausted" \/ recovered = turn[t].history
     /\ Goto(t, "calling", "failed")
     /\ Locals(t, [Gone EXCEPT !.why = why, !.tried = tried])

\* One attempt of the provider fails.
Attempt(t, error) ==
  LET p == turn[t].position
      next == After(p, setting.chains, error)
      tried == turn[t].tried \cup {<<p.model, p.provider>>}
      hopeless == GivesUp(p, error, Cuttable(turn[t].history))
  IN  /\ pc[t] = "calling"
      /\ \/ hopeless /\ CallFailed(t, "too long", tried)
         \/ ~hopeless /\ Exhausted(next, setting.chains) /\ CallFailed(t, Failure(next), tried)
         \/ /\ ~hopeless /\ ~Exhausted(next, setting.chains)
            /\ Locals(t, [turn[t] EXCEPT !.position = next, !.tried = tried])
            /\ UNCHANGED pc
      /\ UNCHANGED <<setting, shared, costVars>>

\* pacing.step_timeout_secs passes; streaming has no such limit.
StepTimesOut(t) ==
  /\ Goto(t, "calling", "failed")
  /\ Locals(t, Gone)
  /\ UNCHANGED <<setting, shared, costVars>>

\* should_execute_tools_in_parallel's look at the calls comes before any approval.
\* Autonomy that is not supervised never prompts.
NeedsApproval(x) ==
  /\ setting.supervised
  /\ \/ x \in AlwaysAsked
     \/ ~(setting.channel /\ x = "shell") /\ x \notin AutoApproved \cup allowlist

InParallel(reply) ==
  /\ Len(reply) > 1
  /\ \A i \in DOMAIN reply : reply[i].tool # "tool_search" /\ ~NeedsApproval(reply[i].tool)

\* A usage of 0 stands for an answer without one, as streamed answers are.
Charged(cost) == IF cost = 0 THEN UNCHANGED costVars ELSE Record(cost)

\* The model answers: with a text, which ends the turn, or with tool calls.
Answer(t, reply, cost) ==
  /\ pc[t] = "calling" /\ Charged(cost)
  /\ \/ /\ reply = <<>>
        /\ \E end \in IF t \in cancelled THEN {"answered", "cancelled"} ELSE {"answered"} :
             Goto(t, "calling", end)
        /\ Locals(t, Gone)
     \/ /\ reply # <<>>
        /\ Goto(t, "calling", "deciding")
        /\ Locals(t, [turn[t] EXCEPT !.calls = reply, !.parallel = InParallel(reply),
                                     !.results = <<>>, !.queue = <<>>, !.outcomes = <<>>])
  /\ UNCHANGED <<setting, shared>>

\* After the last iteration the model is asked for a summary, without tools; this
\* request is neither checked against the budget nor charged.
AskForSummary(t) ==
  /\ LastIteration(t)
  /\ Goto(t, "head", "summing up")
  /\ Locals(t, [turn[t] EXCEPT !.history = Append(@, Message("user"))])
  /\ UNCHANGED <<setting, shared, costVars>>

Summary(t) ==
  /\ \E end \in {"answered", "failed"} : Goto(t, "summing up", end)
  /\ Locals(t, Gone)
  /\ UNCHANGED <<setting, shared, costVars>>

-----------------------------------------------------------------------------
(* The tool calls of an answer.                                            *)

\* What became of a call of the model, in the form that hooks gave it.
Result(call, made, what) == [call |-> call, made |-> made, what |-> what]

\* The call whose turn it is to be decided on, in the order of the answer.
Undecided(t) == Len(turn[t].results) + 1

\* Mutant: the answer of the operator to a prompt is not looked at.
Refusals_None == {}

Refusals == {"no"}

\* The prompt of the terminal; nobody is there to answer for a channel.
Prompted(x) ==
  IF ~NeedsApproval(x) THEN {"none"} ELSE IF setting.channel THEN {"no"} ELSE {"no", "yes", "always"}

Seen(t) == {turn[t].outcomes[j].made : j \in DOMAIN turn[t].outcomes}

Decided(t, made, what) ==
  Locals(t, [turn[t] EXCEPT !.results = Append(@, Result(turn[t].calls[Undecided(t)], made, what))])

\* Calls to be run wait in the queue.
Queued(t, made) ==
  LET pending == Result(turn[t].calls[Undecided(t)], made, "pending")
  IN  Locals(t, [turn[t] EXCEPT !.results = Append(@, pending), !.queue = Append(@, Undecided(t)),
                                !.outcomes = Append(@, pending)])

Pending(t, j) == turn[t].outcomes[j].what = "pending"

\* A hook may refuse a call, or put another one in its place: that one is asked for,
\* compared with the earlier ones, and run.
Decide(t) ==
  /\ pc[t] = "deciding" /\ Undecided(t) <= Len(turn[t].calls)
  /\ LET call == turn[t].calls[Undecided(t)] IN
     \/ /\ setting.hooks /\ Decided(t, call, "cancelled by hook")
        /\ UNCHANGED <<allowlist, credit>>
     \/ \E made \in {call} \cup setting.rewrites : \E answer \in Prompted(made.tool) :
          /\ allowlist' = IF answer = "always" THEN allowlist \cup {made.tool} ELSE allowlist
          /\ Earned(made.tool, IF answer \in {"yes", "always"} THEN 1 ELSE 0)
          /\ \/ answer \in Refusals /\ Decided(t, made, "denied")
             \/ /\ answer \notin Refusals /\ made \in Seen(t) /\ made.tool \notin Exempt
                /\ Decided(t, made, "duplicate")
             \/ /\ answer \notin Refusals /\ (made \notin Seen(t) \/ made.tool \in Exempt)
                /\ Queued(t, made)
  /\ UNCHANGED <<setting, pc, home, request, cancelled, requests, costVars>>

AllDecided(t) ==
  /\ Undecided(t) > Len(turn[t].calls)
  /\ Goto(t, "deciding", "running")
  /\ UNCHANGED <<setting, turn, shared, costVars>>

\* Model switches that the action budget of the security policy still allows.
MaySwitch == Len(requests) < ActionBudget

\* A queued call is run: all of them at a time, or one after the other.
Run(t, j) ==
  LET call == turn[t].outcomes[j].made IN
  /\ pc[t] = "running" /\ j \in DOMAIN turn[t].queue /\ Pending(t, j)
  /\ turn[t].parallel \/ \A k \in 1 .. j - 1 : ~Pending(t, k)
  /\ Earned(call.tool, -1)
  /\ \/ /\ call.tool = "model_switch" /\ MaySwitch
        /\ request' = call.args
        /\ requests' = Append(requests, <<t, call.args>>)
     \/ /\ call.tool # "model_switch" \/ ~MaySwitch
        /\ UNCHANGED <<request, requests>>
  /\ \E what \in setting.outputs : Locals(t, [turn[t] EXCEPT !.outcomes[j].what = what])
  /\ UNCHANGED <<setting, pc, home, allowlist, cancelled, costVars>>

\* Mutant: the outcomes are taken for those of the first calls of the answer.
Placed_ByRank(t) ==
  [i \in DOMAIN turn[t].calls |->
     IF i \in DOMAIN turn[t].outcomes THEN turn[t].outcomes[i] ELSE turn[t].results[i]]

\* The outcome of a call that was run goes to the place of the call in the answer.
Placed(t) ==
  [i \in DOMAIN turn[t].calls |->
     IF i \in Range(turn[t].queue)
     THEN turn[t].outcomes[CHOOSE j \in DOMAIN turn[t].queue : turn[t].queue[j] = i]
     ELSE turn[t].results[i]]

\* What the loop detector is shown: every call, whether it was run or not, by the tool
\* that hooks made of it and the arguments that the model gave.
Entries(t) ==
  LET relevant == Chosen(Placed(t), {i \in DOMAIN Placed(t) : Placed(t)[i].made.tool \notin Ignored})
  IN  [i \in DOMAIN relevant |->
         [tool |-> relevant[i].made.tool, args |-> relevant[i].call.args, result |-> relevant[i].what]]

\* The window after each of the new entries; a detector that is switched off keeps none.
Windows(t, new) ==
  [k \in DOMAIN new |->
     IF setting.limits.detects
     THEN FoldLeft(LAMBDA w, e : Pushed(w, e, setting.limits.window), turn[t].window, SubSeq(new, 1, k))
     ELSE turn[t].window]

Verdicts(windows) ==
  [k \in DOMAIN windows |-> Verdict(windows[k], setting.limits.repeats, setting.limits.detects)]

\* What the calls of an answer returned, taken together; no text is empty.
Output(entries) == [i \in DOMAIN entries |-> entries[i].result]

\* The gate counts an output once it is open.
Heard(gate, open, output) ==
  IF ~open \/ output = <<>> THEN [gate EXCEPT !.open = open]
  ELSE [open |-> open, last |-> output, said |-> Append(gate.said, output),
        alike |-> IF output = gate.last THEN gate.alike + 1 ELSE 0]

\* Nudges go to the history at once, before the answer they are about.
Nudges(verdicts) ==
  LET spoken == {k \in DOMAIN verdicts : verdicts[k] \in {"warn", "block"}}
  IN  [i \in 1 .. Cardinality(spoken) |-> Message("system")]

ToolMessages(t) ==
  [i \in DOMAIN turn[t].calls |->
     [role |-> "tool", answers |-> turn[t].calls[i], result |-> Placed(t)[i]]]

\* How an iteration ends: broken off by the detector or by the gate, or followed
\* by the next one, with the results and the detector's words in the history.
Concluded(t, log, windows, verdicts, gate) ==
  \/ /\ "break" \in Range(verdicts)
     /\ Goto(t, "running", "stuck") /\ Locals(t, [Gone EXCEPT !.log = log])
  \/ /\ "break" \notin Range(verdicts) /\ gate.alike >= MaxAlike
     /\ Goto(t, "running", "runaway") /\ Locals(t, [Gone EXCEPT !.log = log, !.gate = gate])
  \/ /\ "break" \notin Range(verdicts) /\ gate.alike < MaxAlike
     /\ Goto(t, "running", "head")
     /\ Locals(t, [turn[t] EXCEPT
          !.iteration = @ + 1, !.log = log, !.gate = gate,
          !.window = IF windows = <<>> THEN @ ELSE windows[Len(windows)],
          !.history = @ \o Nudges(verdicts) \o <<[role |-> "assistant", calls |-> turn[t].calls]>> \o ToolMessages(t),
          !.calls = <<>>, !.results = <<>>, !.queue = <<>>, !.outcomes = <<>>])

\* The results are shown to the detector and to the gate, which opens when the run is
\* old enough.
Collect(t) ==
  /\ pc[t] = "running" /\ \A j \in DOMAIN turn[t].queue : ~Pending(t, j)
  /\ \E entries \in {Entries(t)} : \E windows \in {Windows(t, entries)} :
     \E verdicts \in {Verdicts(windows)}, open \in {turn[t].gate.open, setting.limits.gated} :
     \E gate \in {Heard(turn[t].gate, open, Output(entries))} :
       Concluded(t, turn[t].log \o entries, windows, verdicts, gate)
  /\ UNCHANGED <<setting, shared, costVars>>

-----------------------------------------------------------------------------
(* From outside.                                                           *)

\* /stop, a newer message or Ctrl-C cancel the token of a turn.
Cancel(t) ==
  /\ setting.stops /\ Active(t)
  /\ cancelled' = cancelled \cup {t}
  /\ UNCHANGED <<setting, pc, turn, home, request, allowlist, requests, credit, costVars>>

\* A channel drops the run of the loop where it awaits, but does not look at the
\* token while it switches models; a terminal session looks at it only while it
\* waits for the model or for a tool.
Interrupted(t) ==
  /\ t \in cancelled /\ Active(t)
  /\ IF setting.channel THEN pc[t] # "switching" ELSE pc[t] \in {"calling", "running"}
  /\ pc' = [pc EXCEPT ![t] = "cancelled"]
  /\ Locals(t, Gone)
  /\ UNCHANGED <<setting, shared, costVars>>

\* The message timeout of a channel, counted anew for each run of the loop.
TimesOut(t) ==
  /\ setting.channel /\ setting.stops /\ Active(t) /\ pc[t] # "switching"
  /\ pc' = [pc EXCEPT ![t] = "timed out"]
  /\ Locals(t, Gone)
  /\ UNCHANGED <<setting, shared, costVars>>

\* The days only matter where calls cost something.
Day == setting.costs # {0} /\ NewDay /\ UNCHANGED agentVars

Step(t) ==
  \/ TopOfLoop(t) \/ SwitchModel(t) \/ SwitchFails(t) \/ CheckBudget(t)
  \/ \E error \in setting.errors : Attempt(t, error)
  \/ \E reply \in setting.replies, cost \in setting.costs : Answer(t, reply, cost)
  \/ AskForSummary(t) \/ Summary(t)
  \/ Decide(t) \/ AllDecided(t) \/ \E j \in DOMAIN turn[t].queue : Run(t, j)
  \/ Collect(t)

Next ==
  \/ \E t \in Turns : Begin(t) \/ Step(t) \/ Cancel(t) \/ Interrupted(t) \/ StepTimesOut(t) \/ TimesOut(t)
  \/ Day

Spec == Init /\ [][Next]_vars

\* The model answers or fails, tools end, and tasks are scheduled.  Turns do not
\* wait for each other, and the steps of each are finitely many (TurnsEnd), so that
\* fairness of their disjunction is fairness of each.
FairSpec == Spec /\ WF_vars(\E t \in Turns : Step(t))

-----------------------------------------------------------------------------
(* Correctness.                                                            *)

Entry == [tool : Tools, args : Arguments, result : Marks]

\* Every variable holds a value of its type, within the limits of the code.
TypeOK ==
  /\ setting \in Settings
  /\ pc \in [Turns -> Ended \cup {"waiting", "head", "switching", "spending", "calling", "deciding",
                                  "running", "summing up"}]
  /\ home \in Models /\ request \in Models \cup {None}
  /\ allowlist \subseteq Tools /\ cancelled \subseteq Turns
  /\ requests \in Seq(Turns \X Arguments) /\ Len(requests) <= ActionBudget
  /\ \A t \in Turns :
       LET r == turn[t] IN
       /\ r.model \in Models /\ r.target \in Models \cup {None}
       /\ r.iteration \in 0 .. setting.limits.iterations
       /\ r.position.model \in 1 .. setting.chains.models
       /\ r.position.provider \in 1 .. setting.chains.providers
       /\ r.position.attempt \in 0 .. setting.chains.retries
       /\ r.window \in Seq(Entry) /\ (r.window # <<>> => Len(r.window) <= Max({1, setting.limits.window}))
       /\ Range(r.queue) \subseteq DOMAIN r.calls /\ DOMAIN r.outcomes = DOMAIN r.queue
  /\ CostTypeOK

\* In the history an answer with tool calls is followed by one message for each of
\* its calls, in order, that tells what became of that very call, whichever calls
\* were refused, skipped or run at the same time, and whatever was trimmed.
ResultsMatch ==
  \A t \in Turns : LET h == turn[t].history IN
    \A i \in DOMAIN h : h[i].role = "assistant" /\ "calls" \in DOMAIN h[i] =>
      \A k \in DOMAIN h[i].calls :
        /\ i + k \in DOMAIN h /\ h[i + k].role = "tool"
        /\ h[i + k].answers = h[i].calls[k] /\ h[i + k].result.call = h[i].calls[k]

\* Under supervision, a tool that is neither approved in advance nor guarded by
\* itself is run only after a prompt was answered with Yes, and one that always
\* asks no more often than that.  Without an operator it is not run at all.
ApprovedOnly ==
  setting.supervised => \A x \in Tools :
    /\ x \notin AutoApproved /\ credit[x] < 0 =>
         x \in allowlist \/ (setting.channel /\ x = "shell" /\ x \notin AlwaysAsked)
    /\ x \in AlwaysAsked => credit[x] >= 0

MaxCost == Max(setting.costs \cup {0})

\* What is recorded goes beyond a limit by one call of each turn at most, though
\* turns that run at the same time pass the same check, and a call may end on
\* another day than it was checked on; and the sums that are checked never fall
\* short of the records.
SpendBounded ==
  /\ \A d \in Days :
       /\ file[d] <= DailyLimit + Cardinality(setting.turns) * MaxCost
       /\ MonthOf(file, d) <= MonthlyLimit + Cardinality(setting.turns) * MaxCost
  /\ cached.day = today => cached.daily >= file[today] /\ cached.monthly >= MonthOf(file, today)

\* The window holds every pattern the detector knows.
Wide ==
  LET size == setting.limits.window IN
  size >= setting.limits.repeats + 2 /\ size >= 2 * (MinCycles + 2) /\ size >= MinCalls + 2

\* The detector breaks a run of the loop off exactly when it is switched on and the
\* calls of the run, taken from its start, show a pattern that must be: a bounded window
\* that holds the patterns hides none.  The gate aborts it exactly when four outputs
\* that it counted, one after the other, are the same, whatever was not counted between.
StuckTurnStops ==
  \A t \in Turns : LET log == turn[t].log
                       said == turn[t].gate.said IN
    /\ Wide => (pc[t] = "stuck" <=>
         \E n \in DOMAIN log :
           Verdict(SubSeq(log, 1, n), setting.limits.repeats, setting.limits.detects) = "break")
    /\ pc[t] = "runaway" <=>
         \E n \in DOMAIN said : n > MaxAlike /\ \A i \in n - MaxAlike .. n : said[i] = said[n]

\* A request that is still being tried has been tried with every provider and model
\* before the present one, and one that failed because the chains were exhausted, with
\* all of them.  (An overflow that cannot be cut fails at the first pair.)
EveryPairTried ==
  \A t \in Turns :
    /\ pc[t] = "calling" => Before(turn[t].position, setting.chains) \subseteq turn[t].tried
    /\ turn[t].why = "exhausted" => turn[t].tried = Pairs(setting.chains)

\* A turn ends, whatever the model answers, if it is let switch models only
\* finitely often: each switch starts its iterations and its timeout anew.
TurnsEnd == \A t \in Turns : Active(t) ~> pc[t] \in Ended

\* A turn switches to a model that it asked for itself.
SwitchesOwn ==
  \A t \in Turns : pc[t] = "switching" => <<t, turn[t].target>> \in Range(requests)
=============================================================================

---------------------------- MODULE MCAgentLoop ----------------------------
(* Instances of AgentLoop for TLC.                                          *)
EXTENDS AgentLoop

MCTurns == {1, 2}
MCTools == {"shell", "file_write", "deploy", "web", "search", "model_switch"}
MCArguments == {"a", "b", "large", "small"}
MCModels == {"large", "small"}
MCAutoApproved == {"web", "search", "model_switch"}
MCAlwaysAsked == {"deploy"}
MCExempt == {}
MCIgnored == {"shell", "model_switch", "file_write", "deploy"}

shell(a) == [tool |-> "shell", args |-> a]
write == [tool |-> "file_write", args |-> "a"]
deploy == [tool |-> "deploy", args |-> "a"]
web(a) == [tool |-> "web", args |-> a]
search == [tool |-> "search", args |-> "a"]
switch(m) == [tool |-> "model_switch", args |-> m]

\* One provider, no retries, no errors, nobody stops a turn, no costs.
Plain ==
  [channel |-> TRUE, supervised |-> TRUE, hooks |-> FALSE, stops |-> FALSE,
   turns |-> {1}, home |-> "large", history |-> <<Message("system"), Message("user")>>,
   limits |-> [iterations |-> 2, repeats |-> 3, window |-> 20, detects |-> TRUE, gated |-> FALSE],
   chains |-> [models |-> 1, providers |-> 1, retries |-> 0],
   replies |-> {<<>>}, rewrites |-> {}, errors |-> {}, costs |-> {0}, outputs |-> {"ok"}]

\* Two turns of a channel that spend, over several days.
Spending ==
  [Plain EXCEPT !.turns = {1, 2}, !.costs = {1, 2}, !.replies = {<<>>, <<shell("a")>>}]

\* Two turns of a channel that switch models and are stopped.
Switching ==
  [Plain EXCEPT !.turns = {1, 2}, !.stops = TRUE, !.limits.iterations = 1,
                !.replies = {<<>>, <<switch("small")>>, <<switch("large")>>}]

\* A terminal session of two turns, with an operator at the prompt and a hook.
Terminal ==
  [Plain EXCEPT !.channel = FALSE, !.turns = {1, 2}, !.limits.iterations = 1, !.stops = TRUE,
                !.rewrites = {write},
                !.replies = {<<>>, <<deploy, write>>, <<write, web("a"), write>>,
                             <<web("a"), web("a"), web("b")>>, <<switch("small")>>}]

\* A channel whose hooks refuse some of several calls and replace others.
Hooked ==
  [Plain EXCEPT !.hooks = TRUE, !.limits.iterations = 1, !.rewrites = {web("b"), deploy},
                !.replies = {<<web("a"), web("b"), shell("a")>>, <<write, shell("a"), shell("a")>>}]

\* A chain of models and providers that fail in every way.
Failing ==
  [Plain EXCEPT !.chains = [models |-> 2, providers |-> 2, retries |-> 1],
                !.errors = Errors, !.outputs = {"ok", "long"}, !.limits.iterations = 3,
                !.replies = {<<>>, <<web("a"), web("b")>>}]

\* A model that goes round in circles.
Circling ==
  [Plain EXCEPT !.limits = [@ EXCEPT !.iterations = 8, !.repeats = 2, !.window = 8],
                !.replies = {<<web("a")>>, <<web("b")>>, <<search>>}]

\* One whose outputs repeat, and which only the gate can stop.
Repeating ==
  [Plain EXCEPT !.limits = [@ EXCEPT !.iterations = 5, !.detects = FALSE, !.gated = TRUE],
                !.replies = {<<web("a")>>, <<shell("a")>>}, !.outputs = {"ok", "long"}]

\* One that the detector or the gate stops, whichever is first.
Guarding ==
  [Plain EXCEPT !.limits = [@ EXCEPT !.iterations = 5, !.repeats = 2, !.window = 8, !.gated = TRUE],
                !.replies = {<<web("a")>>, <<web("b")>>}, !.outputs = {"ok", "long"}]

MCSettings == {Spending, Switching, Terminal, Hooked, Failing, Circling, Repeating, Guarding}
=============================================================================

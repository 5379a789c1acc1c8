---------------------------- MODULE LoopDetector ----------------------------
(***************************************************************************)
(* The loop detector of one run of the agent loop: a sliding window of the *)
(* tool calls whose results were collected, and the verdict on the newest. *)
(* An entry is a tool, its arguments and its result; the code compares     *)
(* hashes of the latter two.                                               *)
(***************************************************************************)
EXTENDS Integers, Sequences, FiniteSetsExt

CONSTANTS
  MinCycles,  \* alternations of two tools that count as one: 4
  MinCalls    \* results alike that count as no progress: 5

ASSUME DetectorConstants == MinCycles \in Nat \ {0} /\ MinCalls \in Nat \ {0}

SameCall(e, f) == e.tool = f.tool /\ e.args = f.args
SameResult(e, f) == e.tool = f.tool /\ e.result = f.result

\* Length of the longest end of w in which every entry stands in R to the newest.
Streak(w, R(_, _)) ==
  Max({k \in 0 .. Len(w) : \A i \in Len(w) - k + 1 .. Len(w) : R(w[i], w[Len(w)])})

Escalated(n, from) ==
  IF n >= from + 2 THEN "break" ELSE IF n > from THEN "block" ELSE IF n = from THEN "warn" ELSE "ok"

\* detect_exact_repeat
ExactRepeat(w, repeats) == IF Len(w) < repeats THEN "ok" ELSE Escalated(Streak(w, SameCall), repeats)

\* The last 2 * c entries name two tools in turn.
Alternates(w, c) ==
  LET n == Len(w) IN
  /\ 2 * c <= n /\ w[n].tool # w[n - 1].tool
  /\ \A i \in n - 2 * c + 1 .. n - 2 : w[i].tool = w[i + 2].tool

\* detect_ping_pong
PingPong(w) ==
  LET cycles == {c \in MinCycles .. Len(w) : Alternates(w, c)}
  IN  IF cycles = {} THEN "ok" ELSE Escalated(Max(cycles), MinCycles)

\* detect_no_progress: the same arguments throughout are an exact repeat.
NoProgress(w) ==
  LET n == Streak(w, SameResult)
      arguments == {w[i].args : i \in Len(w) - n + 1 .. Len(w)}
  IN  IF Cardinality(arguments) < 2 THEN "ok" ELSE Escalated(n, MinCalls)

\* Mutant: the window forgets at every call.
Pushed_Fresh(w, e, size) == <<e>>

Pushed(w, e, size) == Append(IF w # <<>> /\ Len(w) >= size THEN Tail(w) ELSE w, e)

\* The first pattern with something to say has the word.
Pattern(w, repeats) ==
  CASE ExactRepeat(w, repeats) # "ok" -> ExactRepeat(w, repeats)
    [] PingPong(w) # "ok" -> PingPong(w)
    [] OTHER -> NoProgress(w)

\* record(): a detector that is switched off has nothing to say.
Verdict(w, repeats, enabled) == IF enabled THEN Pattern(w, repeats) ELSE "ok"
=============================================================================

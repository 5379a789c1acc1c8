------------------------------ MODULE Reliable ------------------------------
(***************************************************************************)
(* ReliableProvider::chat: one request is tried with every model of the    *)
(* fallback chain, there with every provider, and there again after        *)
(* retryable errors.  A position is the attempt that is being made, with   *)
(* what the request carries along; a conversation too long for the model   *)
(* is cut in half once.                                                    *)
(***************************************************************************)
EXTENDS Integers

\* models and providers are the lengths of the two chains.
Chains == [models : Nat \ {0}, providers : Nat \ {0}, retries : Nat]
Errors == {"retryable", "fatal", "overflow"}

\* listed: an overflow is among the failures the final error will list.
First == [model |-> 1, provider |-> 1, attempt |-> 0, truncated |-> FALSE, listed |-> FALSE]

\* Mutant: the fallback models are tried with the last provider only.
NextPair_KeepsProvider(p, c) ==
  IF p.provider < c.providers THEN [p EXCEPT !.provider = @ + 1, !.attempt = 0]
  ELSE [p EXCEPT !.model = @ + 1, !.attempt = 0]

\* Mutant: the last model is followed by the first one again.
NextPair_Wraps(p, c) ==
  IF p.provider < c.providers THEN [p EXCEPT !.provider = @ + 1, !.attempt = 0]
  ELSE [p EXCEPT !.model = IF @ = c.models THEN 1 ELSE @ + 1, !.provider = 1, !.attempt = 0]

\* The next provider, or the first one with the next model.
NextPair(p, c) ==
  IF p.provider < c.providers THEN [p EXCEPT !.provider = @ + 1, !.attempt = 0]
  ELSE [p EXCEPT !.model = @ + 1, !.provider = 1, !.attempt = 0]

NextAttempt(p, c) == IF p.attempt < c.retries THEN [p EXCEPT !.attempt = @ + 1] ELSE NextPair(p, c)

\* The first overflow cuts the request and counts as an attempt, but as no failure;
\* later ones are failures that may be retried.
Cuts(p, error) == error = "overflow" /\ ~p.truncated

After(p, c, error) ==
  CASE Cuts(p, error) -> NextAttempt([p EXCEPT !.truncated = TRUE], c)
    [] error = "fatal" -> NextPair(p, c)
    [] error = "overflow" -> NextAttempt([p EXCEPT !.listed = TRUE], c)
    [] OTHER -> NextAttempt(p, c)

\* A request that cannot be cut is given up at once.
GivesUp(p, error, cuttable) == Cuts(p, error) /\ ~cuttable

Exhausted(p, c) == p.model > c.models

Failure(p) == IF p.listed THEN "too long" ELSE "exhausted"

Pairs(c) == (1 .. c.models) \X (1 .. c.providers)

\* Pairs that come before the one of p.
Before(p, c) == {q \in Pairs(c) : q[1] < p.model \/ (q[1] = p.model /\ q[2] < p.provider)}
=============================================================================

------------------------------ MODULE Dispatch ------------------------------
(***************************************************************************)
(* The channel orchestrator's dispatch of inbound messages, composed with  *)
(* the debouncer: the loop handles /stop, gives a message to the debouncer *)
(* or spawns a worker for it under the in-flight limit; a debounced one    *)
(* waits for a permit in a task of its own.  A worker registers as its     *)
(* sender's task, may interrupt the one before and wait for it, and        *)
(* processes the message.  Workers run on different threads: every access  *)
(* to the in-flight map, a token or a completion is a step.  A sender has  *)
(* one debounce key and one interruption scope here, and they are the same.*)
(***************************************************************************)
EXTENDS Debounce

CONSTANTS
  CliKeys,       \* the senders on the cli channel
  MaxInFlight,   \* permits of the semaphore
  MaxStops       \* bound: /stop commands

ASSUME DispatchConstants ==
  CliKeys \subseteq Keys /\ MaxInFlight \in Nat \ {0} /\ MaxStops \in Nat

None == 0

VARIABLES
  interrupts, \* interrupt_on_new_message of the channels but cli
  permits,    \* free permits
  inFlight,   \* the map: the task registered for a sender, or None
  pc,         \* where the task of each message is
  previous,   \* the task it found registered
  cancelled,  \* tokens that are cancelled
  done,       \* completions that are marked done
  waiting,    \* workers the completion of a task will wake
  stopping,   \* task removed by /stop whose token the loop is about to cancel
  stops       \* /stop commands handled

vars == <<debouncer, interrupts, permits, inFlight, pc, previous, cancelled, done, waiting, stopping, stops>>
loop == <<debouncer, interrupts, stopping, stops>>
tokens == <<cancelled, done, waiting>>

Registers(m) == key[m] \notin CliKeys

Init ==
  /\ DebouncerInit
  /\ interrupts \in BOOLEAN
  /\ permits = MaxInFlight
  /\ inFlight = [k \in Keys |-> None]
  /\ pc = [m \in Messages |-> "none"] /\ previous = [m \in Messages |-> None]
  /\ cancelled = {} /\ done = {} /\ waiting = [m \in Messages |-> {}]
  /\ stopping = None /\ stops = 0

Goto(m, from, to) == pc[m] = from /\ pc' = [pc EXCEPT ![m] = to]

-----------------------------------------------------------------------------
(* The loop, the debouncer's timers and the permits.                       *)

\* The loop is free when no message waits there for a permit and no /stop is half done.
LoopFree == stopping = None /\ \A m \in Messages : pc[m] # "received"

\* The task of a message ends when a newer one has taken its place in the entry.
Overtaken == "superseded"

\* apply_debounce: the message goes on at once, or a task waits for the debouncer.
Receive(k) ==
  /\ LoopFree
  /\ \/ k \in CliKeys /\ Passthrough(k)
     \/ k \notin CliKeys /\ Debounce(k)
  /\ LET m == Count + 1
     IN  IF received'[m] # <<>> THEN pc' = [pc EXCEPT ![m] = "received"]
         ELSE pc' = [q \in Messages |-> IF q = m THEN "collecting"
                                        ELSE IF HasEntry(k) /\ q = Newest(k) THEN Overtaken ELSE pc[q]]
  /\ UNCHANGED <<interrupts, permits, inFlight, previous, tokens, stopping, stops>>

\* A timer fires; the task that gets the combined message asks for a permit.
Expire(t) ==
  /\ Fire(t)
  /\ pc' = [q \in Messages |-> IF HasEntry(key[t]) /\ q = Newest(key[t]) THEN "queued" ELSE pc[q]]
  /\ UNCHANGED <<interrupts, permits, inFlight, previous, tokens, stopping, stops>>

\* Mutant: the limit is not applied.
Admitted_Always == TRUE

Admitted == permits > 0

\* acquire_owned: by the loop, which handles nothing until it has a permit, or by
\* the task of a combined message.
Admit(m) ==
  /\ Admitted
  /\ Goto(m, "received", "admitted") \/ Goto(m, "queued", "admitted")
  /\ permits' = permits - 1
  /\ UNCHANGED <<loop, inFlight, previous, tokens>>

\* /stop of a sender: its entry is removed, then the task's token is cancelled.
Stop(k) ==
  /\ LoopFree /\ stops < MaxStops /\ k \notin CliKeys
  /\ stops' = stops + 1
  /\ stopping' = inFlight[k]
  /\ inFlight' = [inFlight EXCEPT ![k] = None]
  /\ UNCHANGED <<debouncer, interrupts, permits, pc, previous, tokens>>

StopCancels ==
  /\ stopping # None
  /\ cancelled' = cancelled \cup {stopping}
  /\ stopping' = None
  /\ UNCHANGED <<debouncer, interrupts, permits, inFlight, pc, previous, done, waiting, stops>>

-----------------------------------------------------------------------------
(* A worker.                                                               *)

Registered(m) == [inFlight EXCEPT ![key[m]] = m]

Register(m) ==
  \/ /\ Goto(m, "admitted", "ready")
     /\ ~Registers(m)
     /\ UNCHANGED <<loop, permits, inFlight, previous, tokens>>
  \/ /\ Goto(m, "admitted", IF interrupts /\ inFlight[key[m]] # None THEN "interrupting" ELSE "ready")
     /\ Registers(m)
     /\ previous' = [previous EXCEPT ![m] = inFlight[key[m]]]
     /\ inFlight' = Registered(m)
     /\ UNCHANGED <<loop, permits, tokens>>

\* Mutant: the previous task is not waited for.
AfterInterrupt_Proceeds == "ready"

AfterInterrupt == "checking"

Interrupt(m) ==
  /\ Goto(m, "interrupting", AfterInterrupt)
  /\ cancelled' = cancelled \cup {previous[m]}
  /\ UNCHANGED <<loop, permits, inFlight, previous, done, waiting>>

\* wait(): the flag is read, and only afterwards the worker asks to be notified.
CheckDone(m) ==
  \/ /\ Goto(m, "checking", "ready")
     /\ previous[m] \in done
     /\ UNCHANGED <<loop, permits, inFlight, previous, tokens>>
  \/ /\ Goto(m, "checking", IF threaded THEN "subscribing" ELSE "waiting")
     /\ previous[m] \notin done
     /\ waiting' = IF threaded THEN waiting ELSE [waiting EXCEPT ![previous[m]] = @ \cup {m}]
     /\ UNCHANGED <<loop, permits, inFlight, previous, cancelled, done>>

Subscribe(m) ==
  /\ Goto(m, "subscribing", "waiting")
  /\ waiting' = [waiting EXCEPT ![previous[m]] = @ \cup {m}]
  /\ UNCHANGED <<loop, permits, inFlight, previous, cancelled, done>>

\* process_channel_message: nothing when the token is cancelled already.
Begin(m) ==
  /\ Goto(m, "ready", IF m \in cancelled THEN "processed" ELSE "running")
  /\ UNCHANGED <<loop, permits, inFlight, previous, tokens>>

\* The turn is answered, times out, fails or notices its cancellation.
Finish(m) ==
  /\ Goto(m, "running", "processed")
  /\ UNCHANGED <<loop, permits, inFlight, previous, tokens>>

\* Mutant: the entry is removed whoever owns it.
Unregistered_Any(m) == [inFlight EXCEPT ![key[m]] = None]

\* The entry goes only if it is still this task's.
Unregistered(m) ==
  IF inFlight[key[m]] = m THEN [inFlight EXCEPT ![key[m]] = None] ELSE inFlight

Unregister(m) ==
  /\ Goto(m, "processed", "marking")
  /\ inFlight' = IF Registers(m) THEN Unregistered(m) ELSE inFlight
  /\ UNCHANGED <<loop, permits, previous, tokens>>

MarkDone(m) ==
  /\ Goto(m, "marking", "notifying")
  /\ done' = done \cup {m}
  /\ UNCHANGED <<loop, permits, inFlight, previous, cancelled, waiting>>

\* Mutant: nobody is notified.
Woken_None(m) == {}

Woken(m) == waiting[m]

Notify(m) ==
  /\ pc[m] = "notifying"
  /\ pc' = [q \in Messages |-> IF q = m THEN "leaving" ELSE IF q \in Woken(m) THEN "ready" ELSE pc[q]]
  /\ waiting' = [waiting EXCEPT ![m] = {}]
  /\ UNCHANGED <<loop, permits, inFlight, previous, cancelled, done>>

Leave(m) ==
  /\ Goto(m, "leaving", "ended")
  /\ permits' = permits + 1
  /\ UNCHANGED <<loop, inFlight, previous, tokens>>

Worker(m) ==
  \/ Register(m) \/ Interrupt(m) \/ CheckDone(m) \/ Subscribe(m) \/ Begin(m) \/ Finish(m)
  \/ Unregister(m) \/ MarkDone(m) \/ Notify(m) \/ Leave(m)

\* What the tasks of the program do by themselves.
Tasks ==
  \/ \E m \in Messages : Admit(m) \/ Worker(m) \/ Expire(m)
  \/ \E t \in Messages : Wake(t) /\ UNCHANGED <<interrupts, permits, inFlight, pc, previous, tokens, stopping, stops>>
  \/ Tick /\ UNCHANGED <<interrupts, permits, inFlight, pc, previous, tokens, stopping, stops>>
  \/ StopCancels

Next ==
  \/ \E k \in Keys : Receive(k) \/ Stop(k)
  \/ Tasks

Spec == Init /\ [][Next]_vars

\* Tasks are scheduled, timers run out, and a turn ends at its timeout if not
\* before.  Every one of these steps is taken at most once, so that fairness of
\* their disjunction is fairness of each.
FairSpec == Spec /\ WF_vars(Tasks)

-----------------------------------------------------------------------------
(* Correctness.                                                            *)

Phases == {"none", "collecting", "superseded", "queued", "received", "admitted", "interrupting",
           "checking", "subscribing", "waiting", "ready", "running", "processed", "marking",
           "notifying", "leaving", "ended"}

\* Every variable holds a value of its type.
TypeOK ==
  /\ DebouncerTypeOK
  /\ interrupts \in BOOLEAN
  /\ permits \in 0 .. MaxInFlight
  /\ inFlight \in [Keys -> Messages \cup {None}]
  /\ pc \in [Messages -> Phases]
  /\ previous \in [Messages -> Messages \cup {None}]
  /\ cancelled \subseteq Messages /\ done \subseteq Messages
  /\ waiting \in [Messages -> SUBSET Messages]
  /\ stopping \in Messages \cup {None} /\ stops \in 0 .. MaxStops

\* Tasks whose token is cancelled, or is about to be, by the loop or by a worker.
Doomed == cancelled \cup {stopping} \cup {previous[q] : q \in {w \in Messages : pc[w] = "interrupting"}}

\* The turns of a sender that go on.
Live(k) == {m \in 1 .. Count : key[m] = k /\ pc[m] = "running" /\ m \notin Doomed}

\* Where new messages interrupt, a sender has at most one turn that goes on: the
\* others are cancelled or the step that cancels them is next.
OneLive == interrupts => \A k \in Keys \ CliKeys : Cardinality(Live(k)) <= 1

\* An interrupted turn has ended, with all it writes, before its successor begins;
\* only /stop lets a sender's next turn begin beside a cancelled one.
NoOverlap ==
  interrupts /\ stops = 0 =>
    \A k \in Keys \ CliKeys :
      Cardinality({m \in 1 .. Count : key[m] = k /\ pc[m] = "running"}) <= 1

\* The turns of a sender exclude each other as far as the code promises it.
TurnsExclude == OneLive /\ NoOverlap

\* /stop answers that a sender has no task in flight only when none of its turns
\* goes on, where new messages interrupt.
StopTruthful ==
  [][\A k \in Keys : interrupts /\ stops' = stops + 1 /\ Stop(k) /\ inFlight[k] = None => Live(k) = {}]_vars

\* Every message that reaches the loop is part of exactly one turn, and the worker
\* of that turn ends and gives its permit back: no race of timers, permits and
\* interruptions loses a message.  Not promised where interruption meets threads:
\* there the notification of a finished turn can be lost (README, Divergences).
EveryMessageHandled ==
  \A x \in Messages :
    x <= Count /\ ~(interrupts /\ threaded)
      ~> \E m \in Messages : x \in Elements(received[m]) /\ pc[m] = "ended"
=============================================================================

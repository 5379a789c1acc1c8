---------------------------- MODULE SessionQueue ----------------------------
(***************************************************************************)
(* The gateway's per-session queue and the WebSocket connections of one    *)
(* session that use it: SessionActorQueue::acquire with its slot map,      *)
(* depth counter, fair semaphore and timeout; the guard; and the turn a    *)
(* connection runs while it holds the guard.  Connections run on different *)
(* threads, so every access to shared state is a step.                     *)
(***************************************************************************)
EXTENDS Integers, Sequences, FiniteSets, SequencesExt

CONSTANTS
  Conns,          \* WebSocket connections to the session
  MaxQueueDepth,  \* max_queue_depth
  Deployments,    \* which features are in use: see features
  MaxTurns,       \* bound: messages sent by clients, for each deployment
  MaxSlots        \* bound: slots created for the session

ASSUME SessionConstants ==
  /\ IsFiniteSet(Conns)
  /\ MaxQueueDepth \in Nat /\ MaxTurns \in [Deployments -> Nat] /\ MaxSlots \in Nat \ {0}
  /\ Deployments \subseteq SUBSET {"first_message", "evict"}

Slots == 1 .. MaxSlots
None == 0

VARIABLES
  features,  \* "first_message": clients send a message as the first frame of a
             \* connection; "evict": somebody calls evict_idle
  slot,      \* the map's slot for the session, or None
  created,   \* slots created so far
  pending,   \* SessionSlot.pending
  holder,    \* who holds the permit of a slot: {} or one connection
  waiters,   \* the semaphore's queue, first come first served
  old,       \* slots whose last_active is older than idle_ttl
  pc,        \* where each connection is
  mine,      \* the slot its acquire or guard refers to
  history,   \* the session's stored messages
  state,     \* the session's stored state
  sent       \* messages sent by clients

vars == <<features, slot, created, pending, holder, waiters, old, pc, mine, history, state, sent>>
queue == <<slot, created, pending, holder, waiters, old, mine>>
store == <<history, state>>

Turn == {"begin", "asked", "running", "answered", "failed"}
Queued == {"counted", "waiting", "timed_out"}

Init ==
  /\ features \in Deployments
  /\ slot = None /\ created = 0
  /\ pending = [s \in Slots |-> 0] /\ holder = [s \in Slots |-> {}]
  /\ waiters = [s \in Slots |-> <<>>] /\ old = {}
  /\ pc = [c \in Conns |-> "new"] /\ mine = [c \in Conns |-> None]
  /\ history = <<>> /\ state = "idle" /\ sent = 0

Goto(c, from, to) == pc[c] = from /\ pc' = [pc EXCEPT ![c] = to]

\* The first frame: a connect frame, or a message handled before the loop.
Connect(c) ==
  \/ Goto(c, "new", "idle") /\ UNCHANGED <<queue, store, sent>>
  \/ /\ "first_message" \in features /\ sent < MaxTurns[features]
     /\ Goto(c, "new", "begin")
     /\ sent' = sent + 1
     /\ UNCHANGED <<queue, store>>

-----------------------------------------------------------------------------
(* acquire.                                                                *)

\* Mutant: the slot is created for this call only and not stored.
Inserted_NotStored(c) == slot' = None

\* The slot inserted for the session stays in the map.
Inserted(c) == slot' = created'

\* A message arrives: the slot is found or created under the map's lock.
Lookup(c) ==
  /\ sent < MaxTurns[features]
  /\ Goto(c, "idle", "found")
  /\ \/ /\ slot # None
        /\ mine' = [mine EXCEPT ![c] = slot]
        /\ UNCHANGED <<slot, created>>
     \/ /\ slot = None /\ created < MaxSlots
        /\ created' = created + 1
        /\ mine' = [mine EXCEPT ![c] = created']
        /\ Inserted(c)
  /\ sent' = sent + 1
  /\ UNCHANGED <<pending, holder, waiters, old, store>>

Full(s) == pending[s] >= MaxQueueDepth

Count(c) ==
  LET s == mine[c]
  IN  /\ \/ Goto(c, "found", "counted") /\ ~Full(s)
         \/ Goto(c, "found", "rejected") /\ Full(s)
      /\ pending' = [pending EXCEPT ![s] = @ + 1]
      /\ UNCHANGED <<slot, created, holder, waiters, old, mine, store, sent>>

\* acquire_owned: the permit at once, or a place in the queue.
Acquire(c) ==
  LET s == mine[c]
  IN  /\ \/ /\ Goto(c, "counted", "granted")
            /\ holder[s] = {} /\ waiters[s] = <<>>
            /\ holder' = [holder EXCEPT ![s] = {c}]
            /\ UNCHANGED waiters
         \/ /\ Goto(c, "counted", "waiting")
            /\ ~(holder[s] = {} /\ waiters[s] = <<>>)
            /\ waiters' = [waiters EXCEPT ![s] = Append(@, c)]
            /\ UNCHANGED holder
      /\ UNCHANGED <<slot, created, pending, old, mine, store, sent>>

\* Mutant: the timeout covers nothing.
Expires_Never(c) == FALSE

\* lock_timeout may pass while the connection waits.
Expires(c) == pc[c] = "waiting"

Timeout(c) ==
  /\ Expires(c)
  /\ Goto(c, "waiting", "timed_out")
  /\ \E i \in DOMAIN waiters[mine[c]] :
       /\ waiters[mine[c]][i] = c
       /\ waiters' = [waiters EXCEPT ![mine[c]] = RemoveAt(@, i)]
  /\ UNCHANGED <<slot, created, pending, holder, old, mine, store, sent>>

\* Mutants: the place is not given back; it is given back twice.
Uncounted_Leaks(s) == pending
Uncounted_Twice(s) == [pending EXCEPT ![s] = @ - 2]

Uncounted(s) == [pending EXCEPT ![s] = @ - 1]

\* QueueFull or Timeout: the place is given back and the client told SESSION_BUSY.
Refuse(c) ==
  /\ Goto(c, "rejected", "idle") \/ Goto(c, "timed_out", "idle")
  /\ pending' = Uncounted(mine[c])
  /\ mine' = [mine EXCEPT ![c] = None]
  /\ UNCHANGED <<slot, created, holder, waiters, old, store, sent>>

Touch(c) ==
  /\ Goto(c, "granted", "begin")
  /\ old' = old \ {mine[c]}
  /\ UNCHANGED <<slot, created, pending, holder, waiters, mine, store, sent>>

-----------------------------------------------------------------------------
(* The turn.                                                               *)

Ask(c) ==
  /\ Goto(c, "begin", "asked")
  /\ history' = Append(history, <<"user", c>>)
  /\ UNCHANGED <<queue, state, sent>>

Run(c) ==
  /\ Goto(c, "asked", "running")
  /\ state' = "running"
  /\ UNCHANGED <<queue, history, sent>>

\* The agent's turn succeeds and its answer is stored, or it fails.
Reply(c) ==
  \/ /\ Goto(c, "running", "answered")
     /\ history' = Append(history, <<"assistant", c>>)
     /\ UNCHANGED <<queue, state, sent>>
  \/ /\ Goto(c, "running", "failed")
     /\ UNCHANGED <<queue, store, sent>>

Ended(c) == IF pc[c] = "answered" THEN "idle" ELSE "error"

\* A turn on the first frame holds no guard: the connection is in its loop next.
End(c) ==
  /\ pc[c] \in {"answered", "failed"}
  /\ pc' = [pc EXCEPT ![c] = IF mine[c] = None THEN "idle" ELSE "leaving"]
  /\ state' = Ended(c)
  /\ UNCHANGED <<queue, history, sent>>

\* SessionGuard's Drop runs before its fields are dropped.
Leave(c) ==
  /\ Goto(c, "leaving", "releasing")
  /\ pending' = Uncounted(mine[c])
  /\ UNCHANGED <<slot, created, holder, waiters, old, mine, store, sent>>

NextWaiter(s) == Head(waiters[s])

\* The permit goes to the first request that waits for it.
Release(c) ==
  LET s == mine[c]
      w == NextWaiter(s)
  IN  /\ pc[c] = "releasing"
      /\ mine' = [mine EXCEPT ![c] = None]
      /\ \/ /\ waiters[s] = <<>>
            /\ pc' = [pc EXCEPT ![c] = "idle"]
            /\ holder' = [holder EXCEPT ![s] = {}]
            /\ UNCHANGED waiters
         \/ /\ waiters[s] # <<>>
            /\ pc' = [pc EXCEPT ![c] = "idle", ![w] = "granted"]
            /\ holder' = [holder EXCEPT ![s] = {w}]
            /\ waiters' = [waiters EXCEPT ![s] = Tail(@)]
      /\ UNCHANGED <<slot, created, pending, old, store, sent>>

-----------------------------------------------------------------------------
(* Eviction.                                                               *)

Age(s) ==
  /\ "evict" \in features /\ s = slot /\ s \notin old
  /\ old' = old \cup {s}
  /\ UNCHANGED <<slot, created, pending, holder, waiters, mine, pc, store, sent>>

EvictIdle ==
  /\ "evict" \in features /\ slot # None /\ slot \in old /\ pending[slot] = 0
  /\ slot' = None
  /\ UNCHANGED <<created, pending, holder, waiters, old, mine, pc, store, sent>>

Step(c) ==
  \/ Count(c) \/ Acquire(c) \/ Timeout(c) \/ Refuse(c) \/ Touch(c)
  \/ Ask(c) \/ Run(c) \/ End(c) \/ Leave(c) \/ Release(c)

Act ==
  \/ \E c \in Conns : Connect(c) \/ Lookup(c) \/ Step(c) \/ Reply(c)
  \/ \E s \in Slots : Age(s)
  \/ EvictIdle

Next == Act /\ UNCHANGED features

Spec == Init /\ [][Next]_vars

\* Tasks run and timeouts expire; nothing says that an agent's turn ends.
Fairness == \A c \in Conns : WF_vars(Step(c) /\ UNCHANGED features)
FairSpec == Spec /\ Fairness

-----------------------------------------------------------------------------
(* Correctness.                                                            *)

InTurn == {c \in Conns : pc[c] \in Turn}

\* Every variable holds a value of its type; pending is a usize.
TypeOK ==
  /\ features \in Deployments
  /\ slot \in Slots \cup {None} /\ created \in 0 .. MaxSlots
  /\ pending \in [Slots -> Nat]
  /\ holder \in [Slots -> SUBSET Conns] /\ waiters \in [Slots -> Seq(Conns)]
  /\ old \subseteq Slots
  /\ pc \in [Conns -> Turn \cup Queued \cup
       {"new", "idle", "found", "rejected", "granted", "leaving", "releasing"}]
  /\ mine \in [Conns -> Slots \cup {None}]
  /\ history \in Seq({"user", "assistant"} \X Conns)
  /\ state \in {"idle", "running", "error"} /\ sent \in 0 .. MaxTurns[features]

\* A session has at most one turn at a time, as long as no message comes as a
\* first frame and no slot is evicted.
OneTurn == features = {} => Cardinality(InTurn) <= 1

\* Stored turns do not overlap: an answer follows the message it answers, and
\* only the newest message can be without one while its turn goes on.
WholeTurns ==
  features = {} =>
    /\ \A i \in DOMAIN history : history[i][1] = "assistant" =>
         i > 1 /\ history[i - 1] = <<"user", history[i][2]>>
    /\ \A c \in Conns : pc[c] \in {"asked", "running"} =>
         history # <<>> /\ history[Len(history)] = <<"user", c>>

\* The queue serializes the turns of a session: one at a time, each whole in the
\* stored history.
TurnsSerialized == OneTurn /\ WholeTurns

\* No error path and no release loses a place in the queue or gives one back
\* twice, in any slot, with eviction and unguarded turns too.
PendingExact ==
  \A s \in Slots : pending[s] =
    Cardinality({c \in Conns : mine[c] = s /\ pc[c] \notin {"found", "releasing"}})

\* Every request is answered, with a turn or an error, even when the turn in
\* front of it never ends.
Answered == \A c \in Conns : pc[c] = "found" ~> pc[c] \in {"begin", "idle"}
=============================================================================

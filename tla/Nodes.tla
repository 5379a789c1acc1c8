------------------------------- MODULE Nodes -------------------------------
(***************************************************************************)
(* The gateway's registry of remote nodes and the calls made to them       *)
(* (nodes.rs, node_tool.rs).                                               *)
(*                                                                         *)
(* A node connects over a socket and registers an id; the registry maps    *)
(* the id to the queue of that socket.  A tool call looks the id up, puts  *)
(* an invocation into the queue and waits for its reply, at most 30        *)
(* seconds.  Two tasks serve a socket: the send task takes invocations     *)
(* from the queue, writes each to the socket and then records where its    *)
(* reply goes; the handler reads the socket, hands replies over and, when  *)
(* the socket ends, unregisters the id and aborts the send task.           *)
(*                                                                         *)
(* The reply channel of a call is a one-shot: whoever drops its sender     *)
(* closes it, so what a task holds when it ends decides who is told.       *)
(* A caller makes one call.  Messages of the node that the handler         *)
(* ignores (other kinds, ids out of bounds) change nothing and are left    *)
(* out.                                                                    *)
(***************************************************************************)
EXTENDS Naturals, Sequences, FiniteSets, SequencesExt

CONSTANTS Ids,       \* ids of nodes
          Sockets,   \* connections, each used once
          Callers,   \* tool calls
          IdsOf,     \* the ids that a connection may register
          Gated,     \* the calls that need an approval they may not have
          Cap,       \* length of a socket's queue (32 in the code)
          MaxNodes,  \* limit of the registry
          None

ASSUME NodesConstants ==
  /\ IsFiniteSet(Ids)
  /\ IdsOf \in [Sockets -> SUBSET Ids]
  /\ Gated \subseteq Callers
  /\ Cap \in Nat \ {0}
  /\ MaxNodes \in Nat
  /\ None \notin Ids \cup Sockets \cup Callers

VARIABLES
  nodes,     \* the registry: the socket whose queue an id stands for
  handler,   \* the read loop of a socket: "new", "open" or "gone"
  mine,      \* registered_node_id: the id the handler registered last
  task,      \* the send task: at "recv", "send" or "insert", or "ended"
  current,   \* the invocation that the send task took from the queue
  queue,     \* the invocations in the channel of a socket
  pending,   \* the calls whose reply channel a socket has recorded
  got,       \* the calls that the node has received and not answered
  call,      \* where a call stands, or how it ended
  to,        \* the socket that a call resolved its id to
  slot       \* the one-shot of a call: "empty", "result" or "closed"

vars == <<nodes, handler, mine, task, current, queue, pending, got, call, to, slot>>
serving == <<task, current, queue, pending>>
calling == <<call, to>>

Outcomes == {"unapproved", "offline", "unsent", "dropped", "timedOut", "ok"}

Init ==
  /\ nodes = [i \in Ids |-> None]
  /\ handler = [s \in Sockets |-> "new"]
  /\ mine = [s \in Sockets |-> None]
  /\ task = [s \in Sockets |-> "ended"]
  /\ current = [s \in Sockets |-> None]
  /\ queue = [s \in Sockets |-> <<>>]
  /\ pending = [s \in Sockets |-> {}]
  /\ got = [s \in Sockets |-> {}]
  /\ call = [c \in Callers |-> "idle"]
  /\ to = [c \in Callers |-> None]
  /\ slot = [c \in Callers |-> "empty"]

-----------------------------------------------------------------------------
(* The registry. *)

\* The ids that the registry knows.
Registered == {i \in Ids : nodes[i] # None}

\* Whether register accepts an id: it is known, or there is room.
Accepts(i) == i \in Registered \/ Cardinality(Registered) < MaxNodes

\* What unregister leaves: it removes the id, whoever registered it last.
Unregistered(i) == [nodes EXCEPT ![i] = None]

\* The one-shots after the senders of some calls were dropped.
Closed(cs) == [c \in Callers |-> IF c \in cs /\ slot[c] = "empty" THEN "closed" ELSE slot[c]]

\* The calls that the send task of s holds: taken, or still in its channel.
Held(s) == ToSet(queue[s]) \cup ({current[s]} \ {None})

\* Mutant: the queue of the channel is not dropped.
DroppedByTask_OnlyCurrent(s) == {current[s]} \ {None}

\* What is dropped when the send task ends: what it holds and, when the
\* handler has gone before it, the map of recorded replies too.
DroppedByTask(s) == Held(s) \cup (IF handler[s] = "gone" THEN pending[s] ELSE {})

\* What the queue of s holds after its head was taken.
Taken(s) == Tail(queue[s])

\* Mutant: one invocation too many fits.
HasRoom_OffByOne(s) == Len(queue[s]) <= Cap

\* Whether an invocation fits into the queue of s.
HasRoom(s) == Len(queue[s]) < Cap

-----------------------------------------------------------------------------
(* The handler of a socket. *)

\* A node connects: the send task is spawned and the read loop starts.
Connect(s) ==
  /\ handler[s] = "new"
  /\ handler' = [handler EXCEPT ![s] = "open"]
  /\ task' = [task EXCEPT ![s] = "recv"]
  /\ UNCHANGED <<nodes, mine, current, queue, pending, got, calling, slot>>

\* The node registers an id.  A refused one changes nothing.
Register(s, i) ==
  /\ handler[s] = "open"
  /\ i \in IdsOf[s]
  /\ Accepts(i)
  /\ nodes' = [nodes EXCEPT ![i] = s]
  /\ mine' = [mine EXCEPT ![s] = i]
  /\ UNCHANGED <<handler, serving, got, calling, slot>>

\* The node answers a call it received.  Only a recorded call has a channel
\* for the reply; any other answer is ignored.
Result(s, c) ==
  /\ handler[s] = "open"
  /\ c \in got[s]
  /\ got' = [got EXCEPT ![s] = @ \ {c}]
  /\ pending' = [pending EXCEPT ![s] = @ \ {c}]
  /\ slot' = IF c \in pending[s] THEN [slot EXCEPT ![c] = "result"] ELSE slot
  /\ UNCHANGED <<nodes, handler, mine, task, current, queue, calling>>

\* The socket ends: the handler unregisters what it registered last, aborts
\* the send task and drops its share of the recorded replies.
Close(s) ==
  /\ handler[s] = "open"
  /\ handler' = [handler EXCEPT ![s] = "gone"]
  /\ nodes' = IF mine[s] = None THEN nodes ELSE Unregistered(mine[s])
  /\ IF task[s] = "ended"
       THEN /\ slot' = Closed(pending[s])
            /\ pending' = [pending EXCEPT ![s] = {}]
       ELSE UNCHANGED <<slot, pending>>
  /\ UNCHANGED <<mine, task, current, queue, got, calling>>

-----------------------------------------------------------------------------
(* The send task of a socket. *)

Take(s) ==
  /\ task[s] = "recv"
  /\ queue[s] # <<>>
  /\ current' = [current EXCEPT ![s] = Head(queue[s])]
  /\ queue' = [queue EXCEPT ![s] = Taken(s)]
  /\ task' = [task EXCEPT ![s] = "send"]
  /\ UNCHANGED <<nodes, handler, mine, pending, got, calling, slot>>

\* The invocation is written to the socket, and the node has it.
Sent(s) ==
  /\ task[s] = "send"
  /\ got' = [got EXCEPT ![s] = @ \cup {current[s]}]
  /\ task' = [task EXCEPT ![s] = "insert"]
  /\ UNCHANGED <<nodes, handler, mine, current, queue, pending, calling, slot>>

\* The reply channel is recorded, after the write.
Insert(s) ==
  /\ task[s] = "insert"
  /\ pending' = [pending EXCEPT ![s] = @ \cup {current[s]}]
  /\ current' = [current EXCEPT ![s] = None]
  /\ task' = [task EXCEPT ![s] = "recv"]
  /\ UNCHANGED <<nodes, handler, mine, queue, got, calling, slot>>

\* The send task ends and drops what it holds: the write failed, or the
\* abort took effect, which it does only where the task waits.
TaskEnds(s) ==
  /\ slot' = Closed(DroppedByTask(s))
  /\ task' = [task EXCEPT ![s] = "ended"]
  /\ current' = [current EXCEPT ![s] = None]
  /\ queue' = [queue EXCEPT ![s] = <<>>]
  /\ pending' = IF handler[s] = "gone" THEN [pending EXCEPT ![s] = {}] ELSE pending
  /\ UNCHANGED <<nodes, handler, mine, got, calling>>

SendFails(s) == task[s] = "send" /\ TaskEnds(s)

Aborted(s) == handler[s] = "gone" /\ task[s] \in {"recv", "send"} /\ TaskEnds(s)

-----------------------------------------------------------------------------
(* The tool call. *)

\* execute up to the channel: the approval, and the id looked up.
Invoke(c, i) ==
  /\ call[c] = "idle"
  /\ \/ /\ c \in Gated
        /\ call' = [call EXCEPT ![c] = "unapproved"]
        /\ to' = to
     \/ /\ nodes[i] = None
        /\ call' = [call EXCEPT ![c] = "offline"]
        /\ to' = to
     \/ /\ nodes[i] # None
        /\ call' = [call EXCEPT ![c] = "send"]
        /\ to' = [to EXCEPT ![c] = nodes[i]]
  /\ UNCHANGED <<nodes, handler, mine, serving, got, slot>>

\* The invocation enters the channel of the socket once there is room, or
\* comes back because the send task has ended.
Enqueue(c) ==
  /\ call[c] = "send"
  /\ \/ /\ task[to[c]] = "ended"
        /\ call' = [call EXCEPT ![c] = "unsent"]
        /\ UNCHANGED queue
     \/ /\ task[to[c]] # "ended"
        /\ HasRoom(to[c])
        /\ queue' = [queue EXCEPT ![to[c]] = Append(@, c)]
        /\ call' = [call EXCEPT ![c] = "wait"]
  /\ UNCHANGED <<nodes, handler, mine, task, current, pending, got, to, slot>>

\* Mutant: the wait has no time-out.
Await_NoTimeout(c) ==
  /\ call[c] = "wait"
  /\ slot[c] # "empty"
  /\ call' = [call EXCEPT ![c] = IF slot[c] = "result" THEN "ok" ELSE "dropped"]
  /\ UNCHANGED <<nodes, handler, mine, serving, got, to, slot>>

\* The wait ends with the reply, with a dropped channel or, as long as the
\* channel holds neither, at the time-out.
Await(c) ==
  /\ call[c] = "wait"
  /\ call' = [call EXCEPT ![c] = CASE slot[c] = "result" -> "ok"
                                   [] slot[c] = "closed" -> "dropped"
                                   [] OTHER -> "timedOut"]
  /\ UNCHANGED <<nodes, handler, mine, serving, got, to, slot>>

-----------------------------------------------------------------------------
ServeSocket(s) == Take(s) \/ Sent(s) \/ SendFails(s) \/ Insert(s) \/ Aborted(s)

Next ==
  \/ \E s \in Sockets :
       \/ Connect(s) \/ Close(s) \/ ServeSocket(s)
       \/ \E i \in Ids : Register(s, i)
       \/ \E c \in Callers : Result(s, c)
  \/ \E c \in Callers : Enqueue(c) \/ Await(c) \/ \E i \in Ids : Invoke(c, i)

Spec == Init /\ [][Next]_vars

\* The runtime runs every task that can go on, and its timers; a write to a
\* socket ends: the peer reads, or the connection breaks.
Fairness ==
  /\ \A s \in Sockets :
       /\ WF_vars(Take(s)) /\ WF_vars(Insert(s)) /\ WF_vars(Aborted(s))
       /\ WF_vars(Sent(s) \/ SendFails(s))
  /\ \A c \in Callers : WF_vars(Enqueue(c)) /\ WF_vars(Await(c))

FairSpec == Spec /\ Fairness

-----------------------------------------------------------------------------
(* Properties. *)

\* The values of the variables, a queue within its length, and a send task
\* that holds an invocation exactly while it writes or records it.
TypeOK ==
  /\ nodes \in [Ids -> Sockets \cup {None}]
  /\ handler \in [Sockets -> {"new", "open", "gone"}]
  /\ mine \in [Sockets -> Ids \cup {None}]
  /\ task \in [Sockets -> {"recv", "send", "insert", "ended"}]
  /\ \A s \in Sockets :
       /\ current[s] \in (IF task[s] \in {"send", "insert"} THEN Callers ELSE {None})
       /\ queue[s] \in Seq(Callers)
       /\ Len(queue[s]) <= Cap
  /\ pending \in [Sockets -> SUBSET Callers]
  /\ got \in [Sockets -> SUBSET Callers]
  /\ call \in [Callers -> {"idle", "send", "wait"} \cup Outcomes]
  /\ to \in [Callers -> Sockets \cup {None}]
  /\ slot \in [Callers -> {"empty", "result", "closed"}]

\* Nobody waits for a reply that nobody can give: while a call waits on an
\* empty one-shot, the sender of its reply is in the queue of its socket, in
\* the hands of the send task or among the recorded replies.  So a node that
\* goes away is reported at once and not after the time-out.
WaiterHasSender ==
  \A c \in Callers : call[c] = "wait" /\ slot[c] = "empty" => c \in Held(to[c]) \cup pending[to[c]]

\* What the registry lists is connected: no entry outlives its connection, when
\* a connection registers one id.
ListedIsConnected ==
  (\A s \in Sockets : Cardinality(IdsOf[s]) <= 1) =>
    \A i \in Registered : handler[nodes[i]] = "open"

\* Callers and the registry know a connection that is gone: no call waits for it and
\* it is not listed.
GoneIsKnown == WaiterHasSender /\ ListedIsConnected

\* Every tool call ends, when writes to sockets end.
CallsEnd == \A c \in Callers : call[c] # "idle" ~> call[c] \in Outcomes
=============================================================================

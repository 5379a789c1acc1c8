----------------------------- MODULE NodesProofs -----------------------------
(***************************************************************************)
(* Nodes for all sockets, ids, callers and limits: the types, and that a   *)
(* connection that is gone is known to its callers and to the registry.    *)
(*                                                                         *)
(* Where the sender of a reply is (WaiterHasSender) is inductive once the  *)
(* types are known and a call knows its socket (Known).  What the registry *)
(* lists is connected because an entry is always the one that the handler  *)
(* of its socket registered last (EntriesMine), which needs that a         *)
(* connection registers one id (OneId).                                    *)
(***************************************************************************)
EXTENDS Nodes, FiniteSetTheorems, SequenceTheorems, TLAPS

\* What the tasks hold are functions of the socket, the send task of a connection that
\* is new has not begun, and a call that looked its node up knows the socket.
Known ==
  /\ current \in [Sockets -> Callers \cup {None}]
  /\ queue \in [Sockets -> Seq(Callers)]
  /\ \A s \in Sockets : handler[s] = "new" => task[s] = "ended"
  /\ \A c \in Callers : call[c] \in {"send", "wait"} => to[c] \in Sockets

Inv == TypeOK /\ Known

\* A connection registers one id.
OneId == \A s \in Sockets : Cardinality(IdsOf[s]) <= 1

\* An entry of the registry is the one that the handler of its socket, which still
\* reads, registered last.
EntriesMine ==
  \A i \in Ids : nodes[i] # None =>
    /\ i \in IdsOf[nodes[i]]
    /\ mine[nodes[i]] = i
    /\ handler[nodes[i]] = "open"

-----------------------------------------------------------------------------
(* Sequences. *)

\* The elements of a queue and of its tail.
LEMMA HeadAndTail ==
  ASSUME NEW q \in Seq(Callers), q # <<>>
  PROVE  /\ Head(q) \in Callers /\ Tail(q) \in Seq(Callers) /\ Len(Tail(q)) = Len(q) - 1
         /\ ToSet(q) = {Head(q)} \cup ToSet(Tail(q))
  <1>1. /\ Tail(q) \in Seq(Callers) /\ Len(Tail(q)) = Len(q) - 1 /\ Len(q) \in Nat \ {0}
        /\ Head(q) = q[1] /\ q[1] \in Callers
        /\ \A i \in 1 .. Len(Tail(q)) : Tail(q)[i] = q[i + 1]
    BY HeadTailProperties, LenProperties, ElementOfSeq
  <1>2. DOMAIN q = 1 .. Len(q) /\ DOMAIN Tail(q) = 1 .. Len(q) - 1 BY <1>1, LenProperties
  <1>3. ASSUME NEW x \in ToSet(q) PROVE x \in {Head(q)} \cup ToSet(Tail(q))
    <2>1. PICK i \in 1 .. Len(q) : x = q[i] BY <1>2, <1>3 DEF ToSet
    <2>2. CASE i = 1 BY <2>1, <2>2, <1>1
    <2>3. CASE i # 1
      <3>1. i - 1 \in 1 .. Len(q) - 1 /\ Tail(q)[i - 1] = q[i] BY <2>1, <2>3, <1>1
      <3> QED BY <3>1, <2>1, <1>2 DEF ToSet
    <2> QED BY <2>2, <2>3
  <1>4. ASSUME NEW x \in {Head(q)} \cup ToSet(Tail(q)) PROVE x \in ToSet(q)
    <2>1. CASE x = Head(q) BY <2>1, <1>1, <1>2 DEF ToSet
    <2>2. CASE x \in ToSet(Tail(q))
      <3>1. PICK i \in 1 .. Len(q) - 1 : x = Tail(q)[i] BY <2>2, <1>2 DEF ToSet
      <3>2. i + 1 \in 1 .. Len(q) /\ x = q[i + 1] BY <3>1, <1>1
      <3> QED BY <3>2, <1>2 DEF ToSet
    <2> QED BY <1>4, <2>1, <2>2
  <1> QED BY <1>1, <1>3, <1>4

\* The elements of a queue to which one more was appended.
LEMMA Appended ==
  ASSUME NEW q \in Seq(Callers), NEW c \in Callers
  PROVE  /\ Append(q, c) \in Seq(Callers) /\ Len(Append(q, c)) = Len(q) + 1
         /\ ToSet(Append(q, c)) = ToSet(q) \cup {c}
  <1>1. /\ Append(q, c) \in Seq(Callers) /\ Len(Append(q, c)) = Len(q) + 1 /\ Len(q) \in Nat
        /\ \A i \in 1 .. Len(q) : Append(q, c)[i] = q[i]
        /\ Append(q, c)[Len(q) + 1] = c
    BY AppendProperties, LenProperties
  <1>2. DOMAIN q = 1 .. Len(q) /\ DOMAIN Append(q, c) = 1 .. Len(q) + 1 BY <1>1, LenProperties
  <1>3. ASSUME NEW x \in ToSet(Append(q, c)) PROVE x \in ToSet(q) \cup {c}
    <2>1. PICK i \in 1 .. Len(q) + 1 : x = Append(q, c)[i] BY <1>2, <1>3 DEF ToSet
    <2>2. i \in 1 .. Len(q) \/ i = Len(q) + 1 BY <1>1, <2>1
    <2> QED BY <2>1, <2>2, <1>1, <1>2 DEF ToSet
  <1>4. ASSUME NEW x \in ToSet(q) \cup {c} PROVE x \in ToSet(Append(q, c))
    <2>1. CASE x = c
      <3>1. Len(q) + 1 \in 1 .. Len(q) + 1 BY <1>1
      <3> QED BY <2>1, <3>1, <1>1, <1>2 DEF ToSet
    <2>2. CASE x \in ToSet(q)
      <3>1. PICK i \in 1 .. Len(q) : x = q[i] BY <2>2, <1>2 DEF ToSet
      <3>2. i \in 1 .. Len(q) + 1 /\ x = Append(q, c)[i] BY <3>1, <1>1
      <3> QED BY <3>2, <1>2 DEF ToSet
    <2> QED BY <1>4, <2>1, <2>2
  <1> QED BY <1>1, <1>3, <1>4

-----------------------------------------------------------------------------
(* The types. *)

LEMMA InitTypes == Init => Inv
  <1> SUFFICES ASSUME Init PROVE Inv OBVIOUS
  <1> USE NodesConstants DEF Init
  <1>1. <<>> \in Seq(Callers) /\ Len(<<>>) = 0 BY EmptySeq
  <1>2. TypeOK BY <1>1 DEF TypeOK
  <1>3. Known BY <1>1 DEF Known
  <1> QED BY <1>2, <1>3 DEF Inv

\* The handler of a socket.
LEMMA HandlerTypes ==
  ASSUME Inv, NEW s \in Sockets,
         \/ Connect(s) \/ Close(s)
         \/ \E i \in Ids : Register(s, i)
         \/ \E c \in Callers : Result(s, c)
  PROVE  Inv'
  <1> USE NodesConstants
  <1>1. CASE Connect(s)
    <2>1. TypeOK' BY <1>1 DEF Connect, calling, Inv, TypeOK, Known
    <2>2. Known' BY <1>1 DEF Connect, calling, Inv, TypeOK, Known
    <2> QED BY <2>1, <2>2 DEF Inv
  <1>2. CASE Close(s)
    <2> USE <1>2 DEF Close, calling, Inv, TypeOK, Known
    <2>1. nodes' \in [Ids -> Sockets \cup {None}] BY DEF Unregistered
    <2>2. slot' \in [Callers -> {"empty", "result", "closed"}] BY DEF Closed
    <2>3. handler' \in [Sockets -> {"new", "open", "gone"}] OBVIOUS
    <2>4. pending' \in [Sockets -> SUBSET Callers] OBVIOUS
    <2>5. TypeOK' BY <2>1, <2>2, <2>3, <2>4
    <2>6. Known' OBVIOUS
    <2> QED BY <2>5, <2>6
  <1>3. ASSUME NEW i \in Ids, Register(s, i) PROVE Inv'
    <2>1. TypeOK' BY <1>3 DEF Register, serving, calling, Inv, TypeOK, Known
    <2>2. Known' BY <1>3 DEF Register, serving, calling, Inv, TypeOK, Known
    <2> QED BY <2>1, <2>2 DEF Inv
  <1>4. ASSUME NEW c \in Callers, Result(s, c) PROVE Inv'
    <2>1. TypeOK' BY <1>4 DEF Result, calling, Inv, TypeOK, Known
    <2>2. Known' BY <1>4 DEF Result, calling, Inv, TypeOK, Known
    <2> QED BY <2>1, <2>2 DEF Inv
  <1> QED BY <1>1, <1>2, <1>3, <1>4

\* The send task of a socket.
LEMMA ServeTypes ==
  ASSUME Inv, NEW s \in Sockets, ServeSocket(s)
  PROVE  Inv'
  <1> USE NodesConstants
  <1>1. CASE Take(s)
    <2>1. Head(queue[s]) \in Callers /\ Tail(queue[s]) \in Seq(Callers)
          /\ Len(Tail(queue[s])) = Len(queue[s]) - 1 /\ Len(queue[s]) \in Nat
      <3>1. queue[s] \in Seq(Callers) /\ queue[s] # <<>> BY <1>1 DEF Take, Inv, Known
      <3> QED BY <3>1, HeadAndTail, LenProperties
    <2>2. Len(Tail(queue[s])) <= Cap BY <2>1 DEF Inv, TypeOK
    <2>3. TypeOK' BY <1>1, <2>1, <2>2 DEF Take, Taken, calling, Inv, TypeOK, Known
    <2>4. Known' BY <1>1, <2>1 DEF Take, Taken, calling, Inv, TypeOK, Known
    <2> QED BY <2>3, <2>4 DEF Inv
  <1>2. CASE Sent(s)
    <2>1. TypeOK' BY <1>2 DEF Sent, calling, Inv, TypeOK, Known
    <2>2. Known' BY <1>2 DEF Sent, calling, Inv, TypeOK, Known
    <2> QED BY <2>1, <2>2 DEF Inv
  <1>3. CASE Insert(s)
    <2>1. TypeOK' BY <1>3 DEF Insert, calling, Inv, TypeOK, Known
    <2>2. Known' BY <1>3 DEF Insert, calling, Inv, TypeOK, Known
    <2> QED BY <2>1, <2>2 DEF Inv
  <1>4. CASE TaskEnds(s)
    <2>1. <<>> \in Seq(Callers) /\ Len(<<>>) = 0 BY EmptySeq
    <2>2. slot' \in [Callers -> {"empty", "result", "closed"}]
      BY <1>4 DEF TaskEnds, Closed, Inv, TypeOK
    <2>3. TypeOK' BY <1>4, <2>1, <2>2 DEF TaskEnds, calling, Inv, TypeOK, Known
    <2>4. Known' BY <1>4, <2>1 DEF TaskEnds, calling, Inv, TypeOK, Known
    <2> QED BY <2>3, <2>4 DEF Inv
  <1> QED BY <1>1, <1>2, <1>3, <1>4 DEF ServeSocket, SendFails, Aborted

\* A tool call.
LEMMA CallTypes ==
  ASSUME Inv, NEW c \in Callers,
         Enqueue(c) \/ Await(c) \/ \E i \in Ids : Invoke(c, i)
  PROVE  Inv'
  <1> USE NodesConstants
  <1>1. CASE Enqueue(c)
    <2>1. to[c] \in Sockets /\ queue[to[c]] \in Seq(Callers) BY <1>1 DEF Enqueue, Inv, Known
    <2>2. Append(queue[to[c]], c) \in Seq(Callers)
          /\ Len(Append(queue[to[c]], c)) = Len(queue[to[c]]) + 1 /\ Len(queue[to[c]]) \in Nat
      BY <2>1, Appended, LenProperties
    <2>3. CASE task[to[c]] = "ended"
      <3>1. TypeOK' BY <1>1, <2>3 DEF Enqueue, Outcomes, Inv, TypeOK, Known
      <3>2. Known' BY <1>1, <2>3 DEF Enqueue, Outcomes, Inv, TypeOK, Known
      <3> QED BY <3>1, <3>2 DEF Inv
    <2>4. CASE task[to[c]] # "ended"
      <3>1. queue' = [queue EXCEPT ![to[c]] = Append(@, c)] /\ call' = [call EXCEPT ![c] = "wait"]
            /\ UNCHANGED <<nodes, handler, mine, task, current, pending, got, to, slot>>
            /\ Len(queue[to[c]]) < Cap
        BY <1>1, <2>4 DEF Enqueue, HasRoom
      <3>2. Len(Append(queue[to[c]], c)) <= Cap BY <2>2, <3>1
      <3>3. TypeOK' BY <2>1, <2>2, <3>1, <3>2 DEF Outcomes, Inv, TypeOK, Known
      <3>4. Known' BY <2>1, <2>2, <3>1 DEF Inv, TypeOK, Known
      <3> QED BY <3>3, <3>4 DEF Inv
    <2> QED BY <2>3, <2>4
  <1>2. CASE Await(c)
    <2>1. TypeOK' BY <1>2 DEF Await, serving, Outcomes, Inv, TypeOK, Known
    <2>2. Known' BY <1>2 DEF Await, serving, Outcomes, Inv, TypeOK, Known
    <2> QED BY <2>1, <2>2 DEF Inv
  <1>3. ASSUME NEW i \in Ids, Invoke(c, i) PROVE Inv'
    <2>1. nodes[i] \in Sockets \cup {None} BY DEF Inv, TypeOK
    <2>2. TypeOK'
      <3>1. call' \in [Callers -> {"idle", "send", "wait"} \cup Outcomes]
        <4>1. PICK o \in {"unapproved", "offline", "send"} : call' = [call EXCEPT ![c] = o]
          BY <1>3 DEF Invoke
        <4>2. o \in {"idle", "send", "wait"} \cup Outcomes BY DEF Outcomes
        <4>3. call \in [Callers -> {"idle", "send", "wait"} \cup Outcomes] BY DEF Inv, TypeOK
        <4> QED BY <4>1, <4>2, <4>3
      <3>2. to' \in [Callers -> Sockets \cup {None}] BY <1>3, <2>1 DEF Invoke, Inv, TypeOK
      <3> QED BY <1>3, <3>1, <3>2 DEF Invoke, serving, Inv, TypeOK
    <2>3. Known' BY <1>3, <2>1 DEF Invoke, serving, Outcomes, Inv, TypeOK, Known
    <2> QED BY <2>2, <2>3 DEF Inv
  <1> QED BY <1>1, <1>2, <1>3

LEMMA StutterTypes == Inv /\ UNCHANGED vars => Inv'
  BY DEF Inv, TypeOK, Known, vars

\* The strengthened types are an invariant.
THEOREM TypesHold == Spec => []Inv
  <1>1. Inv /\ [Next]_vars => Inv'
    <2> SUFFICES ASSUME Inv, [Next]_vars PROVE Inv' OBVIOUS
    <2>1. CASE UNCHANGED vars BY <2>1, StutterTypes
    <2>2. ASSUME NEW s \in Sockets,
                 Connect(s) \/ Close(s) \/ (\E i \in Ids : Register(s, i))
                 \/ \E c \in Callers : Result(s, c)
          PROVE Inv'
      BY <2>2, HandlerTypes
    <2>3. ASSUME NEW s \in Sockets, ServeSocket(s) PROVE Inv' BY <2>3, ServeTypes
    <2>4. ASSUME NEW c \in Callers, Enqueue(c) \/ Await(c) \/ \E i \in Ids : Invoke(c, i) PROVE Inv'
      BY <2>4, CallTypes
    <2> QED BY <2>1, <2>2, <2>3, <2>4 DEF Next
  <1> QED BY <1>1, InitTypes, PTL DEF Spec

\* Every variable of the registry keeps its values, a queue its length, and a send
\* task holds an invocation exactly while it writes or records it.
THEOREM TypeCorrect == Spec => []TypeOK
  <1>1. Inv => TypeOK BY DEF Inv
  <1> QED BY <1>1, TypesHold, PTL

-----------------------------------------------------------------------------
(* A connection that is gone, and its callers. *)

\* The handler of a socket drops no sender of a call that waits without closing it.
LEMMA HandlerSender ==
  ASSUME Inv, WaiterHasSender, NEW s \in Sockets,
         \/ Connect(s) \/ Close(s)
         \/ \E i \in Ids : Register(s, i)
         \/ \E c \in Callers : Result(s, c)
  PROVE  WaiterHasSender'
  <1> SUFFICES ASSUME NEW c \in Callers, call'[c] = "wait", slot'[c] = "empty"
               PROVE  c \in (Held(to[c]) \cup pending[to[c]])'
    BY DEF WaiterHasSender
  <1>1. /\ UNCHANGED <<call, to, queue, current>>
        /\ slot[c] = "empty"
        /\ to[c] \in Sockets
        /\ c \in Held(to[c]) \cup pending[to[c]]
    <2>1. UNCHANGED <<call, to, queue, current>>
      BY DEF Connect, Close, Register, Result, calling, serving
    <2>2. slot[c] = "empty"
      BY DEF Connect, Close, Register, Result, calling, serving, Closed, Inv, TypeOK
    <2> QED BY <2>1, <2>2 DEF WaiterHasSender, Inv, Known
  <1>2. Held(to[c])' = Held(to[c]) BY <1>1 DEF Held
  <1>3. c \in pending[to[c]] => c \in pending'[to[c]]
    <2> HAVE c \in pending[to[c]]
    <2>1. CASE pending' = pending BY <2>1
    <2>2. CASE Close(s) BY <1>1, <2>2 DEF Close, Closed, Inv, TypeOK
    <2>3. ASSUME NEW d \in Callers, Result(s, d) PROVE c \in pending'[to[c]]
      BY <1>1, <2>3 DEF Result, Inv, TypeOK
    <2> QED BY <2>1, <2>2, <2>3 DEF Connect, Register, serving
  <1> QED BY <1>1, <1>2, <1>3

\* The send task moves a sender along and closes what it drops.
LEMMA ServeSender ==
  ASSUME Inv, WaiterHasSender, NEW s \in Sockets, ServeSocket(s)
  PROVE  WaiterHasSender'
  <1> SUFFICES ASSUME NEW c \in Callers, call'[c] = "wait", slot'[c] = "empty"
               PROVE  c \in (Held(to[c]) \cup pending[to[c]])'
    BY DEF WaiterHasSender
  <1> USE NodesConstants
  <1>1. UNCHANGED <<call, to>>
    BY DEF ServeSocket, Take, Sent, SendFails, Insert, Aborted, TaskEnds, calling
  <1>2. slot[c] = "empty"
    BY DEF ServeSocket, Take, Sent, SendFails, Insert, Aborted, TaskEnds, Closed, Inv, TypeOK
  <1>3. to[c] \in Sockets /\ c \in Held(to[c]) \cup pending[to[c]]
    BY <1>1, <1>2 DEF WaiterHasSender, Inv, Known
  <1>4. CASE to[c] # s
    <2>1. /\ queue'[to[c]] = queue[to[c]] /\ current'[to[c]] = current[to[c]]
          /\ pending'[to[c]] = pending[to[c]]
      BY <1>3, <1>4 DEF ServeSocket, Take, Sent, SendFails, Insert, Aborted, TaskEnds, Inv, TypeOK, Known
    <2> QED BY <1>1, <1>3, <2>1 DEF Held
  <1>5. CASE to[c] = s
    <2>1. CASE Take(s)
      <3>1. queue[s] \in Seq(Callers) /\ queue[s] # <<>> BY <2>1 DEF Take, Inv, Known
      <3>2. ToSet(queue[s]) = {Head(queue[s])} \cup ToSet(Tail(queue[s])) /\ Head(queue[s]) \in Callers
        BY <3>1, HeadAndTail
      <3>3. queue'[s] = Tail(queue[s]) /\ current'[s] = Head(queue[s]) /\ pending' = pending
        BY <2>1 DEF Take, Taken, Inv, Known
      <3>4. current[s] = None BY <2>1 DEF Take, Inv, TypeOK
      <3>5. Held(s)' = Held(s) BY <3>2, <3>3, <3>4 DEF Held
      <3> QED BY <1>1, <1>3, <1>5, <3>3, <3>5
    <2>2. CASE Sent(s)
      BY <1>1, <1>3, <1>5, <2>2 DEF Sent, Held
    <2>3. CASE Insert(s)
      <3>1. queue' = queue /\ current'[s] = None /\ pending'[s] = pending[s] \cup {current[s]}
        BY <2>3 DEF Insert, Inv, TypeOK, Known
      <3> QED BY <1>1, <1>3, <1>5, <3>1 DEF Held
    <2>4. CASE TaskEnds(s)
      <3>1. c \notin DroppedByTask(s) BY <1>2, <2>4 DEF TaskEnds, Closed
      <3>2. c \in pending[s] /\ handler[s] # "gone" BY <1>3, <1>5, <3>1 DEF DroppedByTask
      <3>3. pending' = pending BY <2>4, <3>2 DEF TaskEnds
      <3> QED BY <1>1, <1>5, <3>2, <3>3
    <2> QED BY <2>1, <2>2, <2>3, <2>4 DEF ServeSocket, SendFails, Aborted
  <1> QED BY <1>4, <1>5

\* A call that begins to wait has its sender in the queue.
LEMMA CallSender ==
  ASSUME Inv, WaiterHasSender, NEW d \in Callers,
         Enqueue(d) \/ Await(d) \/ \E i \in Ids : Invoke(d, i)
  PROVE  WaiterHasSender'
  <1> SUFFICES ASSUME NEW c \in Callers, call'[c] = "wait", slot'[c] = "empty"
               PROVE  c \in (Held(to[c]) \cup pending[to[c]])'
    BY DEF WaiterHasSender
  <1> USE NodesConstants
  <1>1. UNCHANGED <<slot, current, pending>> BY DEF Enqueue, Await, Invoke, serving
  <1>2. CASE Enqueue(d)
    <2>1. to' = to /\ to[d] \in Sockets BY <1>2 DEF Enqueue, Inv, Known
    <2>2. CASE queue' = queue
      <3>1. c # d => call[c] = "wait" BY <1>2 DEF Enqueue, Inv, TypeOK
      <3>2. c # d
        <4>1. CASE call' = [call EXCEPT ![d] = "unsent"] BY <4>1 DEF Inv, TypeOK
        <4>2. CASE queue' = [queue EXCEPT ![to[d]] = Append(@, d)]
          <5>1. queue[to[d]] \in Seq(Callers) BY <2>1 DEF Inv, Known
          <5>2. Len(Append(queue[to[d]], d)) = Len(queue[to[d]]) + 1 /\ Len(queue[to[d]]) \in Nat
            BY <5>1, Appended, LenProperties
          <5>3. queue'[to[d]] = Append(queue[to[d]], d) BY <2>1, <4>2 DEF Inv, Known
          <5> QED BY <2>2, <5>2, <5>3
        <4> QED BY <1>2, <4>1, <4>2 DEF Enqueue
      <3>3. c \in Held(to[c]) \cup pending[to[c]] BY <3>1, <3>2, <1>1 DEF WaiterHasSender
      <3> QED BY <1>1, <2>1, <2>2, <3>3 DEF Held
    <2>3. CASE queue' = [queue EXCEPT ![to[d]] = Append(@, d)]
      <3>1. queue[to[d]] \in Seq(Callers) BY <2>1 DEF Inv, Known
      <3>2. ToSet(Append(queue[to[d]], d)) = ToSet(queue[to[d]]) \cup {d} BY <3>1, Appended
      <3>3. queue'[to[d]] = Append(queue[to[d]], d) BY <2>1, <2>3 DEF Inv, Known
      <3>4. CASE c = d BY <2>1, <3>2, <3>3, <3>4 DEF Held
      <3>5. CASE c # d
        <4>1. call[c] = "wait" BY <1>2, <3>5 DEF Enqueue, Inv, TypeOK
        <4>2. to[c] \in Sockets /\ c \in Held(to[c]) \cup pending[to[c]]
          BY <4>1, <1>1 DEF WaiterHasSender, Inv, Known
        <4>3. ToSet(queue[to[c]]) \subseteq ToSet(queue'[to[c]])
          <5>1. to[c] # to[d] => queue'[to[c]] = queue[to[c]] BY <2>3, <4>2 DEF Inv, Known
          <5> QED BY <3>2, <3>3, <5>1
        <4> QED BY <1>1, <2>1, <4>2, <4>3 DEF Held
      <3> QED BY <3>4, <3>5
    <2> QED BY <1>2, <2>2, <2>3 DEF Enqueue
  <1>3. CASE Await(d) \/ \E i \in Ids : Invoke(d, i)
    <2>1. c # d
      <3>1. CASE Await(d)
        <4>1. call'[d] \in {"ok", "dropped", "timedOut"} BY <3>1 DEF Await, Inv, TypeOK
        <4> QED BY <4>1
      <3>2. ASSUME NEW i \in Ids, Invoke(d, i) PROVE c # d BY <3>2 DEF Invoke, Inv, TypeOK
      <3> QED BY <1>3, <3>1, <3>2
    <2>2. call[c] = "wait" /\ to'[c] = to[c] /\ queue' = queue
      BY <1>3, <2>1 DEF Await, Invoke, serving, Inv, TypeOK
    <2>3. c \in Held(to[c]) \cup pending[to[c]] BY <1>1, <2>2 DEF WaiterHasSender
    <2> QED BY <1>1, <2>2, <2>3 DEF Held
  <1> QED BY <1>2, <1>3

-----------------------------------------------------------------------------
(* A connection that is gone, and the registry. *)

LEMMA OnlyId ==
  ASSUME OneId, NEW s \in Sockets, NEW i \in IdsOf[s], NEW j \in IdsOf[s]
  PROVE  i = j
  <1>1. IsFiniteSet(IdsOf[s]) BY NodesConstants, FS_Subset
  <1>2. Cardinality(IdsOf[s]) \in Nat /\ Cardinality(IdsOf[s]) <= 1
    BY <1>1, FS_CardinalityType DEF OneId
  <1>3. Cardinality(IdsOf[s]) # 0 BY <1>1, FS_EmptySet
  <1>4. PICK x : IdsOf[s] = {x} BY <1>1, <1>2, <1>3, FS_Singleton
  <1> QED BY <1>4

\* A handler that ends takes out the one entry that it has.
LEMMA RegistryStep ==
  ASSUME OneId, Inv, EntriesMine, [Next]_vars
  PROVE  EntriesMine'
  <1> SUFFICES ASSUME NEW i \in Ids, nodes'[i] # None
               PROVE  /\ i \in IdsOf[nodes'[i]]
                      /\ mine'[nodes'[i]] = i
                      /\ handler'[nodes'[i]] = "open"
    BY DEF EntriesMine
  <1> USE NodesConstants
  <1>1. CASE UNCHANGED <<nodes, mine, handler>> BY <1>1 DEF EntriesMine
  <1>2. ASSUME NEW s \in Sockets, Connect(s)
        PROVE  i \in IdsOf[nodes'[i]] /\ mine'[nodes'[i]] = i /\ handler'[nodes'[i]] = "open"
    BY <1>2 DEF Connect, EntriesMine, Inv, TypeOK
  <1>3. ASSUME NEW s \in Sockets, Close(s)
        PROVE  i \in IdsOf[nodes'[i]] /\ mine'[nodes'[i]] = i /\ handler'[nodes'[i]] = "open"
    <2>1. nodes'[i] = nodes[i] /\ mine' = mine BY <1>3 DEF Close, Unregistered, Inv, TypeOK
    <2>2. nodes[i] # s
      <3> SUFFICES ASSUME nodes[i] = s PROVE FALSE OBVIOUS
      <3>1. mine[s] = i /\ i # None BY <2>1 DEF EntriesMine
      <3>2. nodes'[i] = None BY <1>3, <3>1 DEF Close, Unregistered, Inv, TypeOK
      <3> QED BY <3>2
    <2>3. nodes[i] \in Sockets BY <2>1 DEF Inv, TypeOK
    <2> QED BY <1>3, <2>1, <2>2, <2>3 DEF Close, EntriesMine, Inv, TypeOK
  <1>4. ASSUME NEW s \in Sockets, NEW j \in Ids, Register(s, j)
        PROVE  i \in IdsOf[nodes'[i]] /\ mine'[nodes'[i]] = i /\ handler'[nodes'[i]] = "open"
    <2>1. CASE i = j BY <1>4, <2>1 DEF Register, Inv, TypeOK
    <2>2. CASE i # j
      <3>1. nodes'[i] = nodes[i] /\ handler' = handler BY <1>4, <2>2 DEF Register, Inv, TypeOK
      <3>2. i \in IdsOf[nodes[i]] /\ mine[nodes[i]] = i /\ handler[nodes[i]] = "open"
        BY <3>1 DEF EntriesMine
      <3>3. nodes[i] # s BY <1>4, <2>2, <3>2, OnlyId DEF Register
      <3> QED BY <1>4, <3>1, <3>2, <3>3 DEF Register, Inv, TypeOK
    <2> QED BY <2>1, <2>2
  <1>5. \/ UNCHANGED <<nodes, mine, handler>>
        \/ \E s \in Sockets : Connect(s) \/ Close(s) \/ \E j \in Ids : Register(s, j)
    BY DEF Next, vars, ServeSocket, Take, Sent, SendFails, Insert, Aborted, TaskEnds, Result,
           Enqueue, Await, Invoke
  <1> QED BY <1>1, <1>2, <1>3, <1>4, <1>5

\* Callers and the registry know a connection that is gone: no call waits for it and it
\* is not listed.
THEOREM GoneConnections == Spec => []GoneIsKnown
  <1>1. Init => WaiterHasSender /\ EntriesMine
    BY DEF Init, WaiterHasSender, EntriesMine
  <1>2. Inv /\ WaiterHasSender /\ [Next]_vars => WaiterHasSender'
    <2> SUFFICES ASSUME Inv, WaiterHasSender, [Next]_vars PROVE WaiterHasSender' OBVIOUS
    <2>1. CASE UNCHANGED vars BY <2>1 DEF WaiterHasSender, Held, vars
    <2>2. ASSUME NEW s \in Sockets,
                 Connect(s) \/ Close(s) \/ (\E i \in Ids : Register(s, i))
                 \/ \E c \in Callers : Result(s, c)
          PROVE WaiterHasSender'
      BY <2>2, HandlerSender
    <2>3. ASSUME NEW s \in Sockets, ServeSocket(s) PROVE WaiterHasSender' BY <2>3, ServeSender
    <2>4. ASSUME NEW c \in Callers, Enqueue(c) \/ Await(c) \/ \E i \in Ids : Invoke(c, i)
          PROVE WaiterHasSender'
      BY <2>4, CallSender
    <2> QED BY <2>1, <2>2, <2>3, <2>4 DEF Next
  <1>3. OneId /\ Inv /\ EntriesMine /\ [Next]_vars => EntriesMine' BY RegistryStep
  <1>4. EntriesMine => \A i \in Registered : handler[nodes[i]] = "open"
    BY DEF EntriesMine, Registered
  <1>5. (OneId => EntriesMine) => ListedIsConnected BY <1>4 DEF ListedIsConnected, OneId
  <1>6. WaiterHasSender /\ (OneId => EntriesMine) => GoneIsKnown BY <1>5 DEF GoneIsKnown
  <1>7. Inv /\ (OneId => EntriesMine) /\ [Next]_vars => (OneId' => EntriesMine')
    BY <1>3 DEF OneId
  <1>8. Init => (OneId => EntriesMine) BY <1>1
  <1>9. Init => WaiterHasSender BY <1>1
  <1> QED BY <1>2, <1>6, <1>7, <1>8, <1>9, TypesHold, PTL DEF Spec
=============================================================================

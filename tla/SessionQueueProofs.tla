------------------------- MODULE SessionQueueProofs -------------------------
(***************************************************************************)
(* SessionQueue for all connections, depths and deployments: the types,    *)
(* exact counting of the places in the queue, and one turn at a time.      *)
(*                                                                         *)
(* The counting is inductive once it is known where a connection that      *)
(* stands somewhere in acquire has its slot (Places); pending is a Nat     *)
(* only because of it, so the three are proved together (Inv).  The turns  *)
(* exclude each other because whoever is past the semaphore holds the      *)
(* permit of its slot (Places) and, where nothing is evicted and no turn   *)
(* starts on a first frame, there is one slot (Unsplit).                   *)
(***************************************************************************)
EXTENDS SessionQueue, FiniteSetTheorems, SequenceTheorems, TLAPS

Served == Turn \cup {"granted", "leaving", "releasing"}

\* Who counts in the pending of a slot.
Counted(s) == {c \in Conns : mine[c] = s /\ pc[c] \notin {"found", "releasing"}}

\* A connection outside acquire and its turn has no slot and one inside has, one that
\* has the permit is the holder, and the queue of a slot has those that wait for it,
\* each once.
Places ==
  /\ \A c \in Conns :
       /\ pc[c] \in {"new", "idle"} => mine[c] = None
       /\ pc[c] \in Queued \cup {"found", "rejected", "granted", "leaving", "releasing"} => mine[c] # None
       /\ pc[c] \in Served /\ mine[c] # None => holder[mine[c]] = {c}
  /\ \A s \in Slots :
       /\ \A i \in 1 .. Len(waiters[s]) : pc[waiters[s][i]] = "waiting" /\ mine[waiters[s][i]] = s
       /\ \A i, j \in 1 .. Len(waiters[s]) : waiters[s][i] = waiters[s][j] => i = j

Inv == TypeOK /\ Places /\ PendingExact

\* Without eviction and first messages a session has one slot, and every turn its guard.
Unsplit ==
  features = {} =>
    /\ slot = created /\ created <= 1
    /\ \A c \in Conns : mine[c] \in {None, slot} /\ (pc[c] \in Turn => mine[c] # None)

Exclusive == features = {} => \A c, d \in InTurn : c = d

-----------------------------------------------------------------------------
(* Sequences and sets. *)

\* What is left of a queue after its i-th element was removed.
LEMMA Removed ==
  ASSUME NEW q \in Seq(Conns), NEW i \in 1 .. Len(q)
  PROVE  /\ RemoveAt(q, i) \in Seq(Conns)
         /\ Len(RemoveAt(q, i)) = Len(q) - 1
         /\ \A j \in 1 .. Len(q) - 1 : RemoveAt(q, i)[j] = q[IF j < i THEN j ELSE j + 1]
  <1> DEFINE a == SubSeq(q, 1, i - 1)
             b == SubSeq(q, i + 1, Len(q))
  <1>1. Len(q) \in Nat /\ \A j \in 1 .. Len(q) : q[j] \in Conns BY ElementOfSeq, LenProperties
  <1>2. /\ a \in Seq(Conns) /\ Len(a) = i - 1
        /\ \A j \in 1 .. i - 1 : a[j] = q[j]
    <2>1. \A j \in 1 .. i - 1 : q[j] \in Conns BY <1>1
    <2>2. 1 \in Int /\ i - 1 \in Int BY <1>1
    <2>3. /\ a \in Seq(Conns) /\ Len(a) = IF 1 <= i - 1 THEN i - 1 - 1 + 1 ELSE 0
          /\ \A j \in 1 .. i - 1 - 1 + 1 : a[j] = q[1 + j - 1]
      BY <2>1, <2>2, SubSeqProperties
    <2> QED BY <2>3, <1>1
  <1>3. /\ b \in Seq(Conns) /\ Len(b) = Len(q) - i
        /\ \A j \in 1 .. Len(q) - i : b[j] = q[j + i]
    <2>1. \A j \in i + 1 .. Len(q) : q[j] \in Conns BY <1>1
    <2>2. i + 1 \in Int /\ Len(q) \in Int BY <1>1
    <2>3. /\ b \in Seq(Conns) /\ Len(b) = IF i + 1 <= Len(q) THEN Len(q) - (i + 1) + 1 ELSE 0
          /\ \A j \in 1 .. Len(q) - (i + 1) + 1 : b[j] = q[i + 1 + j - 1]
      BY <2>1, <2>2, SubSeqProperties
    <2> QED BY <2>3, <1>1
  <1>4. /\ a \o b \in Seq(Conns) /\ Len(a \o b) = Len(a) + Len(b)
        /\ \A j \in 1 .. Len(a) + Len(b) : (a \o b)[j] = IF j <= Len(a) THEN a[j] ELSE b[j - Len(a)]
    BY <1>2, <1>3, ConcatProperties
  <1>5. RemoveAt(q, i) = a \o b BY DEF RemoveAt
  <1> HIDE DEF a, b
  <1>7. Len(a) + Len(b) = Len(q) - 1 BY <1>1, <1>2, <1>3
  <1>6. ASSUME NEW j \in 1 .. Len(q) - 1 PROVE (a \o b)[j] = q[IF j < i THEN j ELSE j + 1]
    <2>1. CASE j < i BY <1>1, <1>2, <1>4, <1>7, <2>1
    <2>2. CASE ~(j < i)
      <3>1. (a \o b)[j] = b[j - (i - 1)] BY <1>1, <1>2, <1>4, <1>7, <2>2
      <3>2. j - (i - 1) \in 1 .. Len(q) - i BY <1>1, <2>2
      <3>3. b[j - (i - 1)] = q[j - (i - 1) + i] BY <1>3, <3>2
      <3>4. j - (i - 1) + i = j + 1 BY <1>1
      <3> QED BY <2>2, <3>1, <3>3, <3>4
    <2> QED BY <2>1, <2>2
  <1> QED BY <1>4, <1>5, <1>6, <1>7

\* The first connection of a queue and the others.
LEMMA Heads ==
  ASSUME NEW q \in Seq(Conns), q # <<>>
  PROVE  /\ Tail(q) \in Seq(Conns) /\ Len(Tail(q)) = Len(q) - 1 /\ Len(q) \in Nat \ {0}
         /\ Head(q) = q[1] /\ Head(q) \in Conns
         /\ \A i \in 1 .. Len(q) - 1 : Tail(q)[i] = q[i + 1]
  BY HeadTailProperties, LenProperties

LEMMA Appended ==
  ASSUME NEW S, NEW q \in Seq(S), NEW x \in S
  PROVE  /\ Append(q, x) \in Seq(S) /\ Len(Append(q, x)) = Len(q) + 1 /\ Len(q) \in Nat
         /\ \A i \in 1 .. Len(q) : Append(q, x)[i] = q[i]
         /\ Append(q, x)[Len(q) + 1] = x
  BY AppendProperties, LenProperties

\* The places of a slot are as many as its pending, after one came or went.
LEMMA Places1 ==
  ASSUME NEW s
  PROVE  /\ IsFiniteSet(Counted(s)) /\ Cardinality(Counted(s)) \in Nat
         /\ \A c : Cardinality(Counted(s) \cup {c}) =
              IF c \in Counted(s) THEN Cardinality(Counted(s)) ELSE Cardinality(Counted(s)) + 1
         /\ \A c : Cardinality(Counted(s) \ {c}) =
              IF c \in Counted(s) THEN Cardinality(Counted(s)) - 1 ELSE Cardinality(Counted(s))
         /\ \A c \in Counted(s) : Cardinality(Counted(s)) # 0
  <1>1. IsFiniteSet(Counted(s))
    <2>1. Counted(s) \in SUBSET Conns BY DEF Counted
    <2> QED BY <2>1, SessionConstants, FS_Subset
  <1> QED BY <1>1, FS_CardinalityType, FS_AddElement, FS_RemoveElement, FS_EmptySet

-----------------------------------------------------------------------------
(* Steps of the kinds that there are. *)

Pcs == Turn \cup Queued \cup {"new", "idle", "found", "rejected", "granted", "leaving", "releasing"}

\* A connection that did not wait goes on, without a change of the semaphore.
LEMMA GoesOn ==
  ASSUME Inv, NEW c \in Conns, NEW p \in Pcs, NEW m \in Slots \cup {None},
         pc' = [pc EXCEPT ![c] = p], mine' = [mine EXCEPT ![c] = m],
         UNCHANGED <<holder, waiters>>,
         pc[c] # "waiting", p # "waiting",
         p \in {"new", "idle"} => m = None,
         p \in Queued \cup {"found", "rejected", "granted", "leaving", "releasing"} => m # None,
         p \in Served /\ m # None => holder[m] = {c}
  PROVE  Places'
  <1>1. /\ pc \in [Conns -> Pcs] /\ mine \in [Conns -> Slots \cup {None}]
        /\ waiters \in [Slots -> Seq(Conns)]
    BY DEF Inv, TypeOK, Pcs
  <1>2. /\ pc'[c] = p /\ mine'[c] = m
        /\ \A d \in Conns \ {c} : pc'[d] = pc[d] /\ mine'[d] = mine[d]
    BY <1>1
  <1>3. ASSUME NEW d \in Conns
        PROVE  /\ pc'[d] \in {"new", "idle"} => mine'[d] = None
               /\ pc'[d] \in Queued \cup {"found", "rejected", "granted", "leaving", "releasing"} => mine'[d] # None
               /\ pc'[d] \in Served /\ mine'[d] # None => holder'[mine'[d]] = {d}
    BY <1>2 DEF Inv, Places
  <1>4. ASSUME NEW s \in Slots, NEW i \in 1 .. Len(waiters[s])
        PROVE  pc'[waiters[s][i]] = "waiting" /\ mine'[waiters[s][i]] = s
    <2>1. pc[waiters[s][i]] = "waiting" /\ mine[waiters[s][i]] = s BY DEF Inv, Places
    <2>2. waiters[s][i] \in Conns BY <1>1, ElementOfSeq
    <2> QED BY <1>2, <2>1, <2>2
  <1> QED BY <1>3, <1>4 DEF Inv, Places

\* The count is exact after a step in which a connection came to the places of a slot,
\* left them, or none did.
LEMMA CountsMore ==
  ASSUME Inv, NEW c \in Conns, NEW s \in Slots,
         pending' = [pending EXCEPT ![s] = @ + 1],
         \A t \in Slots \ {s} : Counted(t)' = Counted(t),
         c \notin Counted(s), Counted(s)' = Counted(s) \cup {c}
  PROVE  PendingExact' /\ pending' \in [Slots -> Nat]
  <1>1. /\ pending \in [Slots -> Nat]
        /\ \A t \in Slots : pending[t] = Cardinality(Counted(t))
    BY DEF Inv, TypeOK, PendingExact, Counted
  <1>2. Cardinality(Counted(s)') = Cardinality(Counted(s)) + 1 BY Places1
  <1>3. \A t \in Slots : pending'[t] = Cardinality(Counted(t)') BY <1>1, <1>2
  <1> QED BY <1>1, <1>3 DEF PendingExact, Counted

LEMMA CountsLess ==
  ASSUME Inv, NEW c \in Conns, NEW s \in Slots,
         pending' = [pending EXCEPT ![s] = @ - 1],
         \A t \in Slots \ {s} : Counted(t)' = Counted(t),
         c \in Counted(s), Counted(s)' = Counted(s) \ {c}
  PROVE  PendingExact' /\ pending' \in [Slots -> Nat]
  <1>1. /\ pending \in [Slots -> Nat]
        /\ \A t \in Slots : pending[t] = Cardinality(Counted(t))
    BY DEF Inv, TypeOK, PendingExact, Counted
  <1>2. Cardinality(Counted(s)') = Cardinality(Counted(s)) - 1 BY Places1
  <1>3. pending[s] # 0 BY <1>1, Places1
  <1>4. \A t \in Slots : pending'[t] = Cardinality(Counted(t)') BY <1>1, <1>2
  <1>5. pending' \in [Slots -> Nat] BY <1>1, <1>3
  <1> QED BY <1>4, <1>5 DEF PendingExact, Counted

LEMMA CountsSame ==
  ASSUME Inv, pending' = pending, \A t \in Slots : Counted(t)' = Counted(t)
  PROVE  PendingExact' /\ pending' \in [Slots -> Nat]
  BY DEF Inv, TypeOK, PendingExact, Counted

-----------------------------------------------------------------------------
(* The types, the places and the count. *)

LEMMA InitInv == Init => Inv
  <1> SUFFICES ASSUME Init PROVE Inv OBVIOUS
  <1> USE DEF Init
  <1>1. <<>> \in Seq(Conns) /\ Len(<<>>) = 0 /\ <<>> \in Seq({"user", "assistant"} \X Conns)
    BY EmptySeq
  <1>2. TypeOK BY <1>1, SessionConstants DEF TypeOK, Slots, None
  <1>3. Places BY <1>1 DEF Places, Served, Turn, Queued
  <1>4. \A s \in Slots : Counted(s) = {} BY DEF Counted, Slots, None
  <1>5. PendingExact BY <1>4, FS_EmptySet DEF PendingExact, Counted
  <1> QED BY <1>2, <1>3, <1>5 DEF Inv

\* The steps of a turn and what a connection does around acquire.
LEMMA TurnInv ==
  ASSUME Inv, UNCHANGED features, NEW c \in Conns,
         Connect(c) \/ Touch(c) \/ Ask(c) \/ Run(c) \/ Reply(c) \/ End(c)
  PROVE  Inv'
  <1> USE DEF Goto
  <1>1. /\ pc \in [Conns -> Pcs] /\ mine \in [Conns -> Slots \cup {None}]
    BY DEF Inv, TypeOK, Pcs
  <1>2. PICK p \in Pcs : pc' = [pc EXCEPT ![c] = p]
    BY DEF Connect, Touch, Ask, Run, Reply, End, Pcs, Turn
  <1>3. UNCHANGED <<mine, holder, waiters, pending, slot, created>>
    BY DEF Connect, Touch, Ask, Run, Reply, End, queue
  <1>4. /\ pc[c] \in {"new", "granted", "begin", "asked", "running", "answered", "failed"}
        /\ p \in Turn \cup {"leaving", "idle"}
        /\ p = "leaving" => mine[c] # None
        /\ p = "idle" => mine[c] = None
        /\ pc[c] \in Served \/ mine[c] = None
    BY <1>1, <1>2 DEF Connect, Touch, Ask, Run, Reply, End, Pcs, Turn, Served, Inv, Places
  <1>5. mine' = [mine EXCEPT ![c] = mine[c]] BY <1>1, <1>3
  <1>6. Places'
    <2>1. pc[c] \in Served /\ mine[c] # None => holder[mine[c]] = {c} BY DEF Inv, Places
    <2>2. /\ pc[c] # "waiting" /\ p # "waiting"
          /\ p \in {"new", "idle"} => mine[c] = None
          /\ p \in Queued \cup {"found", "rejected", "granted", "leaving", "releasing"} => mine[c] # None
          /\ p \in Served /\ mine[c] # None => holder[mine[c]] = {c}
      BY <1>4, <2>1 DEF Turn, Queued
    <2>3. mine[c] \in Slots \cup {None} BY <1>1
    <2> QED BY <1>2, <1>3, <1>5, <2>2, <2>3, GoesOn
  <1>7. \A s \in Slots : Counted(s)' = Counted(s)
    BY <1>1, <1>2, <1>3, <1>4 DEF Counted, Turn
  <1>8. PendingExact' BY <1>3, <1>7, CountsSame
  <1>9. TypeOK'
    <2>1. pc' \in [Conns -> Pcs] BY <1>1, <1>2
    <2>2. history' \in Seq({"user", "assistant"} \X Conns)
      <3>1. /\ history \in Seq({"user", "assistant"} \X Conns)
            /\ <<"user", c>> \in {"user", "assistant"} \X Conns
            /\ <<"assistant", c>> \in {"user", "assistant"} \X Conns
        BY DEF Inv, TypeOK
      <3>2. /\ Append(history, <<"user", c>>) \in Seq({"user", "assistant"} \X Conns)
            /\ Append(history, <<"assistant", c>>) \in Seq({"user", "assistant"} \X Conns)
        BY <3>1, Appended
      <3>3. history' \in {history, Append(history, <<"user", c>>), Append(history, <<"assistant", c>>)}
        BY DEF Connect, Touch, Ask, Run, Reply, End, store
      <3> QED BY <3>1, <3>2, <3>3
    <2>4. state' \in {"idle", "running", "error"} /\ old' \subseteq Slots
      BY DEF Connect, Touch, Ask, Run, Reply, End, Ended, queue, store, Inv, TypeOK
    <2>3. sent' \in 0 .. MaxTurns[features]
      BY SessionConstants DEF Connect, Touch, Ask, Run, Reply, End, Inv, TypeOK
    <2> QED BY <1>3, <2>1, <2>2, <2>3, <2>4 DEF Inv, TypeOK, Pcs
  <1> QED BY <1>6, <1>8, <1>9 DEF Inv

\* The places that are taken, given back and left.
LEMMA CountingInv ==
  ASSUME Inv, UNCHANGED features, NEW c \in Conns,
         Lookup(c) \/ Count(c) \/ Refuse(c) \/ Leave(c)
  PROVE  Inv'
  <1> USE DEF Goto
  <1>1. /\ pc \in [Conns -> Pcs] /\ mine \in [Conns -> Slots \cup {None}]
        /\ pending \in [Slots -> Nat] /\ slot \in Slots \cup {None} /\ created \in 0 .. MaxSlots
    BY DEF Inv, TypeOK, Pcs
  <1>2. UNCHANGED <<holder, waiters, store, old>>
    BY DEF Lookup, Count, Refuse, Leave
  <1>3. ASSUME NEW p \in Pcs, NEW m \in Slots \cup {None},
               pc' = [pc EXCEPT ![c] = p], mine' = [mine EXCEPT ![c] = m],
               PendingExact', pending' \in [Slots -> Nat], Places',
               slot' \in Slots \cup {None}, created' \in 0 .. MaxSlots,
               sent' \in 0 .. MaxTurns[features]
        PROVE  Inv'
    <2>1. pc' \in [Conns -> Pcs] /\ mine' \in [Conns -> Slots \cup {None}] BY <1>1, <1>3
    <2> QED BY <1>2, <1>3, <2>1 DEF Inv, TypeOK, Pcs, store
  <1>4. CASE Lookup(c)
    <2>1. PICK m \in Slots : mine' = [mine EXCEPT ![c] = m]
      BY <1>1, <1>4, SessionConstants DEF Lookup, Slots, None
    <2>2. slot' \in Slots \cup {None} /\ created' \in 0 .. MaxSlots
      BY <1>1, <1>4, SessionConstants DEF Lookup, Inserted, Slots
    <2>3. sent' \in 0 .. MaxTurns[features]
      BY <1>4, SessionConstants DEF Lookup, Inv, TypeOK
    <2>4. pc' = [pc EXCEPT ![c] = "found"] /\ pc[c] = "idle" /\ pending' = pending
      BY <1>4 DEF Lookup
    <2>5. mine[c] = None BY <2>4 DEF Inv, Places
    <2>6. \A s \in Slots : Counted(s)' = Counted(s)
      BY <1>1, <2>1, <2>4, <2>5 DEF Counted, Slots, None
    <2>7. PendingExact' /\ pending' \in [Slots -> Nat] BY <2>4, <2>6, CountsSame
    <2>8. "found" \in Pcs /\ m # None BY DEF Pcs, Slots, None
    <2>9. Places'
      <3>1. "found" \notin Served /\ "found" \notin {"new", "idle"} BY DEF Served, Turn
      <3> QED BY <1>2, <2>1, <2>4, <2>8, <3>1, GoesOn
    <2> QED BY <1>3, <2>1, <2>2, <2>3, <2>4, <2>7, <2>8, <2>9
  <1>5. CASE Count(c)
    <2>1. PICK p \in {"counted", "rejected"} : pc' = [pc EXCEPT ![c] = p]
      BY <1>5 DEF Count
    <2>2. pc[c] = "found" /\ mine[c] \in Slots BY <1>1, <1>5 DEF Count, Inv, Places
    <2>3. mine' = mine /\ pending' = [pending EXCEPT ![mine[c]] = @ + 1]
          /\ UNCHANGED <<slot, created, sent>>
      BY <1>5 DEF Count
    <2>4. mine' = [mine EXCEPT ![c] = mine[c]] BY <1>1, <2>3
    <2>5. PICK s \in Slots : s = mine[c] BY <2>2
    <2>6. PendingExact' /\ pending' \in [Slots -> Nat]
      <3>1. /\ c \notin Counted(s) /\ Counted(s)' = Counted(s) \cup {c}
            /\ \A t \in Slots \ {s} : Counted(t)' = Counted(t)
        BY <1>1, <2>1, <2>2, <2>3, <2>5 DEF Counted
      <3>2. pending' = [pending EXCEPT ![s] = @ + 1] BY <2>3, <2>5
      <3> QED BY <3>1, <3>2, CountsMore
    <2>7. p \in Pcs BY DEF Pcs, Queued
    <2>8. Places'
      <3>1. p \notin Served /\ p \notin {"new", "idle", "waiting"} /\ mine[c] # None
        BY <2>2 DEF Served, Turn, Slots, None
      <3> QED BY <1>1, <1>2, <2>1, <2>2, <2>4, <2>7, <3>1, GoesOn
    <2> QED BY <1>1, <1>3, <2>1, <2>2, <2>3, <2>4, <2>6, <2>7, <2>8 DEF Inv, TypeOK
  <1>6. CASE Refuse(c)
    <2>1. /\ pc' = [pc EXCEPT ![c] = "idle"] /\ mine' = [mine EXCEPT ![c] = None]
          /\ pc[c] \in {"rejected", "timed_out"}
          /\ pending' = [pending EXCEPT ![mine[c]] = @ - 1]
          /\ UNCHANGED <<slot, created, sent>>
      BY <1>6 DEF Refuse, Uncounted
    <2>2. mine[c] \in Slots BY <1>1, <2>1 DEF Inv, Places, Queued
    <2>3. PICK s \in Slots : s = mine[c] BY <2>2
    <2>4. PendingExact' /\ pending' \in [Slots -> Nat]
      <3>1. /\ c \in Counted(s) /\ Counted(s)' = Counted(s) \ {c}
            /\ \A t \in Slots \ {s} : Counted(t)' = Counted(t)
        BY <1>1, <2>1, <2>2, <2>3 DEF Counted, Slots, None
      <3>2. pending' = [pending EXCEPT ![s] = @ - 1] BY <2>1, <2>3
      <3> QED BY <3>1, <3>2, CountsLess
    <2>5. "idle" \in Pcs /\ "idle" \notin Served BY DEF Pcs, Served, Turn
    <2>6. Places'
      <3>1. "idle" \notin Queued \cup {"found", "rejected", "granted", "leaving", "releasing"}
        BY DEF Queued
      <3> QED BY <1>2, <2>1, <2>5, <3>1, GoesOn
    <2> QED BY <1>1, <1>3, <2>1, <2>4, <2>5, <2>6 DEF Inv, TypeOK
  <1>7. CASE Leave(c)
    <2>1. /\ pc' = [pc EXCEPT ![c] = "releasing"] /\ mine' = mine
          /\ pc[c] = "leaving"
          /\ pending' = [pending EXCEPT ![mine[c]] = @ - 1]
          /\ UNCHANGED <<slot, created, sent>>
      BY <1>7 DEF Leave, Uncounted
    <2>2. mine[c] \in Slots /\ mine' = [mine EXCEPT ![c] = mine[c]]
      BY <1>1, <2>1 DEF Inv, Places
    <2>3. PICK s \in Slots : s = mine[c] BY <2>2
    <2>4. PendingExact' /\ pending' \in [Slots -> Nat]
      <3>1. /\ c \in Counted(s) /\ Counted(s)' = Counted(s) \ {c}
            /\ \A t \in Slots \ {s} : Counted(t)' = Counted(t)
        BY <1>1, <2>1, <2>2, <2>3 DEF Counted
      <3>2. pending' = [pending EXCEPT ![s] = @ - 1] BY <2>1, <2>3
      <3> QED BY <3>1, <3>2, CountsLess
    <2>5. "releasing" \in Pcs BY DEF Pcs
    <2>6. Places'
      <3>1. "leaving" \in Served /\ mine[c] # None BY <2>2 DEF Served, Slots, None
      <3>2. holder[mine[c]] = {c} BY <2>1, <3>1 DEF Inv, Places
      <3> QED BY <1>2, <2>1, <2>2, <2>5, <3>1, <3>2, GoesOn
    <2> QED BY <1>1, <1>3, <2>1, <2>2, <2>4, <2>5, <2>6 DEF Inv, TypeOK
  <1> QED BY <1>4, <1>5, <1>6, <1>7

\* The types after a step that changes the semaphore only.
LEMMA SemaphoreTypes ==
  ASSUME Inv, UNCHANGED <<features, slot, created, pending, old, history, state, sent>>,
         pc' \in [Conns -> Pcs], mine' \in [Conns -> Slots \cup {None}],
         holder' \in [Slots -> SUBSET Conns], waiters' \in [Slots -> Seq(Conns)],
         Places', \A t \in Slots : Counted(t)' = Counted(t)
  PROVE  Inv'
  <1>1. PendingExact' BY CountsSame
  <1> QED BY <1>1 DEF Inv, TypeOK, Pcs

\* The permit is free and taken, or the connection joins the queue.
LEMMA AcquireInv ==
  ASSUME Inv, UNCHANGED features, NEW c \in Conns, Acquire(c)
  PROVE  Inv'
  <1> USE DEF Goto
  <1>1. /\ pc \in [Conns -> Pcs] /\ mine \in [Conns -> Slots \cup {None}]
        /\ holder \in [Slots -> SUBSET Conns] /\ waiters \in [Slots -> Seq(Conns)]
    BY DEF Inv, TypeOK, Pcs
  <1>2. /\ pc[c] = "counted" /\ mine' = mine
        /\ UNCHANGED <<features, slot, created, pending, old, history, state, sent>>
    BY DEF Acquire, store
  <1>3. PICK s \in Slots : s = mine[c] BY <1>1, <1>2 DEF Inv, Places, Queued
  <1>4. CASE /\ pc' = [pc EXCEPT ![c] = "granted"]
             /\ holder[s] = {} /\ waiters' = waiters
             /\ holder' = [holder EXCEPT ![s] = {c}]
    <2>1. ASSUME NEW d \in Conns
          PROVE  /\ pc'[d] \in {"new", "idle"} => mine'[d] = None
                 /\ pc'[d] \in Queued \cup {"found", "rejected", "granted", "leaving", "releasing"} => mine'[d] # None
                 /\ pc'[d] \in Served /\ mine'[d] # None => holder'[mine'[d]] = {d}
      <3>1. CASE d = c BY <1>1, <1>2, <1>3, <1>4, <3>1 DEF Slots, None
      <3>2. CASE d # c
        <4>1. pc'[d] = pc[d] /\ mine'[d] = mine[d] BY <1>1, <1>2, <1>4, <3>2
        <4>2. pc[d] \in Served /\ mine[d] # None => mine[d] # s /\ mine[d] \in Slots
          <5>1. pc[d] \in Served /\ mine[d] # None => holder[mine[d]] = {d} BY DEF Inv, Places
          <5>2. mine[d] \in Slots \cup {None} /\ holder[s] # {d} BY <1>1, <1>4
          <5> QED BY <5>1, <5>2
        <4> QED BY <1>1, <1>4, <4>1, <4>2 DEF Inv, Places
      <3> QED BY <3>1, <3>2
    <2>2. ASSUME NEW t \in Slots, NEW i \in 1 .. Len(waiters[t])
          PROVE  pc'[waiters[t][i]] = "waiting" /\ mine'[waiters[t][i]] = t
      <3>1. pc[waiters[t][i]] = "waiting" /\ mine[waiters[t][i]] = t BY DEF Inv, Places
      <3>2. waiters[t][i] \in Conns BY <1>1, ElementOfSeq
      <3> QED BY <1>1, <1>2, <1>4, <3>1, <3>2
    <2>3. Places' BY <1>4, <2>1, <2>2 DEF Inv, Places
    <2>4. \A t \in Slots : Counted(t)' = Counted(t) BY <1>1, <1>2, <1>4 DEF Counted
    <2>5. pc' \in [Conns -> Pcs] BY <1>1, <1>4 DEF Pcs
    <2> QED BY <1>1, <1>2, <1>4, <2>3, <2>4, <2>5, SemaphoreTypes
  <1>5. CASE /\ pc' = [pc EXCEPT ![c] = "waiting"] /\ holder' = holder
             /\ waiters' = [waiters EXCEPT ![s] = Append(@, c)]
    <2>1. ASSUME NEW d \in Conns
          PROVE  /\ pc'[d] \in {"new", "idle"} => mine'[d] = None
                 /\ pc'[d] \in Queued \cup {"found", "rejected", "granted", "leaving", "releasing"} => mine'[d] # None
                 /\ pc'[d] \in Served /\ mine'[d] # None => holder'[mine'[d]] = {d}
      <3>1. CASE d = c BY <1>1, <1>2, <1>3, <1>5, <3>1 DEF Slots, None, Served, Turn
      <3>2. CASE d # c BY <1>1, <1>2, <1>5, <3>2 DEF Inv, Places
      <3> QED BY <3>1, <3>2
    <2>2. /\ waiters[s] \in Seq(Conns) /\ Append(waiters[s], c) \in Seq(Conns)
          /\ Len(Append(waiters[s], c)) = Len(waiters[s]) + 1 /\ Len(waiters[s]) \in Nat
          /\ \A i \in 1 .. Len(waiters[s]) : Append(waiters[s], c)[i] = waiters[s][i]
          /\ Append(waiters[s], c)[Len(waiters[s]) + 1] = c
      BY <1>1, Appended
    <2>3. ASSUME NEW t \in Slots
          PROVE  /\ \A i \in 1 .. Len(waiters'[t]) : pc'[waiters'[t][i]] = "waiting" /\ mine'[waiters'[t][i]] = t
                 /\ \A i, j \in 1 .. Len(waiters'[t]) : waiters'[t][i] = waiters'[t][j] => i = j
      <3>1. \A i \in 1 .. Len(waiters[t]) :
              /\ waiters[t][i] \in Conns /\ waiters[t][i] # c
              /\ pc'[waiters[t][i]] = "waiting" /\ mine'[waiters[t][i]] = t
        <4> TAKE i \in 1 .. Len(waiters[t])
        <4>1. pc[waiters[t][i]] = "waiting" /\ mine[waiters[t][i]] = t BY DEF Inv, Places
        <4>2. waiters[t][i] \in Conns BY <1>1, ElementOfSeq
        <4> QED BY <1>1, <1>2, <1>5, <4>1, <4>2
      <3>2. \A i, j \in 1 .. Len(waiters[t]) : waiters[t][i] = waiters[t][j] => i = j
        BY DEF Inv, Places
      <3>3. CASE t # s
        <4>1. waiters'[t] = waiters[t] BY <1>1, <1>5, <3>3
        <4> QED BY <3>1, <3>2, <4>1
      <3>4. CASE t = s
        <4>1. waiters'[t] = Append(waiters[s], c) BY <1>1, <1>5, <3>4
        <4>2. pc'[c] = "waiting" /\ mine'[c] = s BY <1>1, <1>2, <1>3, <1>5
        <4>3. \A i \in 1 .. Len(waiters[s]) + 1 : i \in 1 .. Len(waiters[s]) \/ i = Len(waiters[s]) + 1
          BY <2>2
        <4> QED BY <2>2, <3>1, <3>2, <3>4, <4>1, <4>2, <4>3
      <3> QED BY <3>3, <3>4
    <2>4. Places' BY <2>1, <2>3 DEF Places
    <2>5. \A t \in Slots : Counted(t)' = Counted(t) BY <1>1, <1>2, <1>5 DEF Counted
    <2>6. pc' \in [Conns -> Pcs] /\ waiters' \in [Slots -> Seq(Conns)]
      BY <1>1, <1>5, <2>2 DEF Pcs, Queued
    <2> QED BY <1>1, <1>2, <1>5, <2>4, <2>5, <2>6, SemaphoreTypes
  <1> QED BY <1>3, <1>4, <1>5 DEF Acquire

\* A connection that waited too long leaves the queue.
LEMMA TimeoutInv ==
  ASSUME Inv, UNCHANGED features, NEW c \in Conns, Timeout(c)
  PROVE  Inv'
  <1> USE DEF Goto
  <1>1. /\ pc \in [Conns -> Pcs] /\ mine \in [Conns -> Slots \cup {None}]
        /\ holder \in [Slots -> SUBSET Conns] /\ waiters \in [Slots -> Seq(Conns)]
    BY DEF Inv, TypeOK, Pcs
  <1>2. /\ pc[c] = "waiting" /\ mine' = mine /\ holder' = holder
        /\ pc' = [pc EXCEPT ![c] = "timed_out"]
        /\ UNCHANGED <<features, slot, created, pending, old, history, state, sent>>
    BY DEF Timeout, store
  <1>3. PICK s \in Slots : s = mine[c] BY <1>1, <1>2 DEF Inv, Places, Queued
  <1>4. PICK k \in 1 .. Len(waiters[s]) :
          waiters[s][k] = c /\ waiters' = [waiters EXCEPT ![s] = RemoveAt(@, k)]
    <2>1. DOMAIN waiters[s] = 1 .. Len(waiters[s]) BY <1>1, LenProperties
    <2> QED BY <1>3, <2>1 DEF Timeout
  <1>5. /\ waiters[s] \in Seq(Conns) /\ RemoveAt(waiters[s], k) \in Seq(Conns)
        /\ Len(RemoveAt(waiters[s], k)) = Len(waiters[s]) - 1 /\ Len(waiters[s]) \in Nat
        /\ \A j \in 1 .. Len(waiters[s]) - 1 :
             RemoveAt(waiters[s], k)[j] = waiters[s][IF j < k THEN j ELSE j + 1]
    BY <1>1, Removed, LenProperties
  <1>6. ASSUME NEW d \in Conns
        PROVE  /\ pc'[d] \in {"new", "idle"} => mine'[d] = None
               /\ pc'[d] \in Queued \cup {"found", "rejected", "granted", "leaving", "releasing"} => mine'[d] # None
               /\ pc'[d] \in Served /\ mine'[d] # None => holder'[mine'[d]] = {d}
    <2>1. CASE d = c BY <1>1, <1>2, <1>3, <2>1 DEF Slots, None, Served, Turn
    <2>2. CASE d # c BY <1>1, <1>2, <2>2 DEF Inv, Places
    <2> QED BY <2>1, <2>2
  <1>7. ASSUME NEW t \in Slots
        PROVE  /\ \A i \in 1 .. Len(waiters'[t]) : pc'[waiters'[t][i]] = "waiting" /\ mine'[waiters'[t][i]] = t
               /\ \A i, j \in 1 .. Len(waiters'[t]) : waiters'[t][i] = waiters'[t][j] => i = j
    <2>1. \A i \in 1 .. Len(waiters[t]) :
            /\ waiters[t][i] \in Conns
            /\ pc[waiters[t][i]] = "waiting" /\ mine[waiters[t][i]] = t
      BY <1>1, ElementOfSeq DEF Inv, Places
    <2>2. \A i, j \in 1 .. Len(waiters[t]) : waiters[t][i] = waiters[t][j] => i = j
      BY DEF Inv, Places
    <2>3. CASE t # s
      <3>1. waiters'[t] = waiters[t] BY <1>1, <1>4, <2>3
      <3>2. \A i \in 1 .. Len(waiters[t]) : waiters[t][i] # c BY <1>3, <2>1, <2>3
      <3> QED BY <1>1, <1>2, <2>1, <2>2, <3>1, <3>2
    <2>4. CASE t = s
      <3>1. waiters'[t] = RemoveAt(waiters[s], k) BY <1>1, <1>4, <2>4
      <3> DEFINE e(j) == IF j < k THEN j ELSE j + 1
      <3>2. \A j \in 1 .. Len(waiters[s]) - 1 :
              e(j) \in 1 .. Len(waiters[s]) /\ e(j) # k
        BY <1>5
      <3>3. \A i, j \in 1 .. Len(waiters[s]) - 1 : e(i) = e(j) => i = j BY <1>5
      <3>4. \A j \in 1 .. Len(waiters[s]) - 1 : RemoveAt(waiters[s], k)[j] = waiters[s][e(j)]
        BY <1>5
      <3> HIDE DEF e
      <3>5. \A j \in 1 .. Len(waiters[s]) - 1 : waiters[s][e(j)] # c BY <1>4, <2>2, <2>4, <3>2
      <3>6. \A j \in 1 .. Len(waiters[s]) - 1 :
              pc'[waiters[s][e(j)]] = "waiting" /\ mine'[waiters[s][e(j)]] = s
        BY <1>1, <1>2, <2>1, <2>4, <3>2, <3>5
      <3>7. \A i, j \in 1 .. Len(waiters[s]) - 1 : waiters[s][e(i)] = waiters[s][e(j)] => i = j
        BY <2>2, <2>4, <3>2, <3>3
      <3>8. /\ \A j \in 1 .. Len(waiters[s]) - 1 : waiters'[t][j] = waiters[s][e(j)]
            /\ Len(waiters'[t]) = Len(waiters[s]) - 1
        BY <1>5, <3>1, <3>4
      <3>9. \A i \in 1 .. Len(waiters'[t]) : pc'[waiters'[t][i]] = "waiting" /\ mine'[waiters'[t][i]] = t
        BY <2>4, <3>6, <3>8
      <3>10. \A i, j \in 1 .. Len(waiters'[t]) : waiters'[t][i] = waiters'[t][j] => i = j
        BY <3>7, <3>8
      <3> QED BY <3>9, <3>10
    <2> QED BY <2>3, <2>4
  <1>8. Places' BY <1>6, <1>7 DEF Places
  <1>9. \A t \in Slots : Counted(t)' = Counted(t) BY <1>1, <1>2 DEF Counted
  <1>10. pc' \in [Conns -> Pcs] /\ waiters' \in [Slots -> Seq(Conns)]
    BY <1>1, <1>2, <1>4, <1>5 DEF Pcs, Queued
  <1> QED BY <1>1, <1>2, <1>8, <1>9, <1>10, SemaphoreTypes

\* The permit is free again, or the first connection of the queue has it.
LEMMA ReleaseInv ==
  ASSUME Inv, UNCHANGED features, NEW c \in Conns, Release(c)
  PROVE  Inv'
  <1>1. /\ pc \in [Conns -> Pcs] /\ mine \in [Conns -> Slots \cup {None}]
        /\ holder \in [Slots -> SUBSET Conns] /\ waiters \in [Slots -> Seq(Conns)]
    BY DEF Inv, TypeOK, Pcs
  <1>2. /\ pc[c] = "releasing" /\ mine' = [mine EXCEPT ![c] = None]
        /\ UNCHANGED <<features, slot, created, pending, old, history, state, sent>>
    BY DEF Release, store
  <1>3. PICK s \in Slots : s = mine[c] BY <1>1, <1>2 DEF Inv, Places
  <1>4. holder[s] = {c}
    <2>1. "releasing" \in Served /\ s # None BY DEF Served, Slots, None
    <2> QED BY <1>2, <1>3, <2>1 DEF Inv, Places
  <1>5. \A t \in Slots : \A i \in 1 .. Len(waiters[t]) :
          /\ waiters[t][i] \in Conns /\ waiters[t][i] # c
          /\ pc[waiters[t][i]] = "waiting" /\ mine[waiters[t][i]] = t
    BY <1>1, <1>2, ElementOfSeq DEF Inv, Places
  <1>6. mine' \in [Conns -> Slots \cup {None}] /\ mine'[c] = None
        /\ \A d \in Conns \ {c} : mine'[d] = mine[d]
    BY <1>1, <1>2
  <1>7. \A d \in Conns \ {c} : pc[d] \in Served /\ mine[d] # None => mine[d] # s /\ mine[d] \in Slots
    <2> TAKE d \in Conns \ {c}
    <2>1. pc[d] \in Served /\ mine[d] # None => holder[mine[d]] = {d} BY DEF Inv, Places
    <2>2. mine[d] \in Slots \cup {None} /\ holder[s] # {d} BY <1>1, <1>4
    <2> QED BY <2>1, <2>2
  <1>8. CASE /\ pc' = [pc EXCEPT ![c] = "idle"] /\ waiters' = waiters
             /\ holder' = [holder EXCEPT ![s] = {}]
    <2>1. ASSUME NEW d \in Conns
          PROVE  /\ pc'[d] \in {"new", "idle"} => mine'[d] = None
                 /\ pc'[d] \in Queued \cup {"found", "rejected", "granted", "leaving", "releasing"} => mine'[d] # None
                 /\ pc'[d] \in Served /\ mine'[d] # None => holder'[mine'[d]] = {d}
      <3>1. CASE d = c BY <1>1, <1>6, <1>8, <3>1 DEF Queued
      <3>2. CASE d # c
        <4>1. pc'[d] = pc[d] /\ mine'[d] = mine[d] BY <1>1, <1>6, <1>8, <3>2
        <4> QED BY <1>1, <1>7, <1>8, <3>2, <4>1 DEF Inv, Places
      <3> QED BY <3>1, <3>2
    <2>2. Places' BY <1>1, <1>5, <1>6, <1>8, <2>1 DEF Inv, Places
    <2>3. \A t \in Slots : Counted(t)' = Counted(t)
      BY <1>1, <1>2, <1>6, <1>8 DEF Counted, Slots, None
    <2>4. pc' \in [Conns -> Pcs] /\ holder' \in [Slots -> SUBSET Conns] BY <1>1, <1>8 DEF Pcs
    <2> QED BY <1>1, <1>2, <1>6, <1>8, <2>2, <2>3, <2>4, SemaphoreTypes
  <1>9. CASE /\ waiters[s] # <<>>
             /\ pc' = [pc EXCEPT ![c] = "idle", ![Head(waiters[s])] = "granted"]
             /\ holder' = [holder EXCEPT ![s] = {Head(waiters[s])}]
             /\ waiters' = [waiters EXCEPT ![s] = Tail(@)]
    <2>1. /\ Tail(waiters[s]) \in Seq(Conns) /\ Len(Tail(waiters[s])) = Len(waiters[s]) - 1
          /\ Len(waiters[s]) \in Nat \ {0} /\ Head(waiters[s]) = waiters[s][1]
          /\ \A i \in 1 .. Len(waiters[s]) - 1 : Tail(waiters[s])[i] = waiters[s][i + 1]
      BY <1>1, <1>9, Heads
    <2>2. PICK w \in Conns : w = Head(waiters[s]) /\ w # c /\ pc[w] = "waiting" /\ mine[w] = s
      <3>1. 1 \in 1 .. Len(waiters[s]) BY <2>1
      <3> QED BY <1>5, <2>1, <3>1
    <2>3. /\ pc'[c] = "idle" /\ pc'[w] = "granted" /\ \A d \in Conns \ {c, w} : pc'[d] = pc[d]
          /\ pc' \in [Conns -> Pcs]
      BY <1>1, <1>9, <2>2 DEF Pcs
    <2>4. ASSUME NEW d \in Conns
          PROVE  /\ pc'[d] \in {"new", "idle"} => mine'[d] = None
                 /\ pc'[d] \in Queued \cup {"found", "rejected", "granted", "leaving", "releasing"} => mine'[d] # None
                 /\ pc'[d] \in Served /\ mine'[d] # None => holder'[mine'[d]] = {d}
      <3>1. CASE d = c BY <1>6, <2>3, <3>1 DEF Queued
      <3>2. CASE d = w BY <1>1, <1>6, <1>9, <2>2, <2>3, <3>2 DEF Slots, None
      <3>3. CASE d \notin {c, w}
        <4>1. pc'[d] = pc[d] /\ mine'[d] = mine[d] BY <1>6, <2>3, <3>3
        <4> QED BY <1>1, <1>7, <1>9, <3>3, <4>1 DEF Inv, Places
      <3> QED BY <3>1, <3>2, <3>3
    <2>5. ASSUME NEW t \in Slots
          PROVE  /\ \A i \in 1 .. Len(waiters'[t]) : pc'[waiters'[t][i]] = "waiting" /\ mine'[waiters'[t][i]] = t
                 /\ \A i, j \in 1 .. Len(waiters'[t]) : waiters'[t][i] = waiters'[t][j] => i = j
      <3>1. \A i, j \in 1 .. Len(waiters[t]) : waiters[t][i] = waiters[t][j] => i = j
        BY DEF Inv, Places
      <3>2. CASE t # s
        <4>1. waiters'[t] = waiters[t] BY <1>1, <1>9, <3>2
        <4>2. \A i \in 1 .. Len(waiters[t]) : waiters[t][i] # w BY <1>5, <2>2, <3>2
        <4> QED BY <1>5, <1>6, <2>3, <3>1, <4>1, <4>2
      <3>3. CASE t = s
        <4>1. waiters'[t] = Tail(waiters[s]) BY <1>1, <1>9, <3>3
        <4>2. \A i \in 1 .. Len(waiters[s]) - 1 :
                i + 1 \in 1 .. Len(waiters[s]) /\ waiters[s][i + 1] # w
          <5> TAKE i \in 1 .. Len(waiters[s]) - 1
          <5>1. i + 1 \in 1 .. Len(waiters[s]) /\ 1 \in 1 .. Len(waiters[s]) /\ i + 1 # 1 BY <2>1
          <5> QED BY <2>1, <2>2, <3>1, <3>3, <5>1
        <4>3. \A i \in 1 .. Len(waiters[s]) - 1 :
                pc'[waiters[s][i + 1]] = "waiting" /\ mine'[waiters[s][i + 1]] = s
          BY <1>5, <1>6, <2>3, <4>2
        <4>4. \A i, j \in 1 .. Len(waiters[s]) - 1 : waiters[s][i + 1] = waiters[s][j + 1] => i = j
          <5> TAKE i, j \in 1 .. Len(waiters[s]) - 1
          <5>1. waiters[s][i + 1] = waiters[s][j + 1] => i + 1 = j + 1 BY <3>1, <3>3, <4>2
          <5> QED BY <2>1, <5>1
        <4> QED BY <2>1, <3>3, <4>1, <4>3, <4>4
      <3> QED BY <3>2, <3>3
    <2>6. Places' BY <2>4, <2>5 DEF Places
    <2>7. \A t \in Slots : Counted(t)' = Counted(t)
      BY <1>1, <1>2, <1>6, <2>2, <2>3 DEF Counted, Slots, None
    <2>8. holder' \in [Slots -> SUBSET Conns] /\ waiters' \in [Slots -> Seq(Conns)]
      BY <1>1, <1>9, <2>1, <2>2
    <2> QED BY <1>2, <1>6, <2>3, <2>6, <2>7, <2>8, SemaphoreTypes
  <1> QED BY <1>3, <1>8, <1>9 DEF Release, NextWaiter

LEMMA EvictInv ==
  ASSUME Inv, UNCHANGED features, EvictIdle \/ \E s \in Slots : Age(s)
  PROVE  Inv'
  <1>1. UNCHANGED <<pc, mine, holder, waiters, pending, created, sent, store>>
    BY DEF EvictIdle, Age
  <1>2. slot' \in Slots \cup {None} /\ old' \subseteq Slots BY DEF EvictIdle, Age, Inv, TypeOK
  <1>3. TypeOK' BY <1>1, <1>2 DEF Inv, TypeOK, store
  <1>4. Places' BY <1>1 DEF Inv, Places
  <1>5. PendingExact' BY <1>1 DEF Inv, PendingExact
  <1> QED BY <1>3, <1>4, <1>5 DEF Inv

\* Types, places and the count are an invariant.
THEOREM InvHolds == Spec => []Inv
  <1>1. Inv /\ [Next]_vars => Inv'
    <2> SUFFICES ASSUME Inv, [Next]_vars PROVE Inv' OBVIOUS
    <2>1. CASE UNCHANGED vars
      <3>1. TypeOK' /\ Places' BY <2>1 DEF Inv, TypeOK, Places, vars
      <3>2. PendingExact' BY <2>1 DEF Inv, PendingExact, vars
      <3> QED BY <3>1, <3>2 DEF Inv
    <2>2. ASSUME NEW c \in Conns, UNCHANGED features, Connect(c) \/ Lookup(c) \/ Step(c) \/ Reply(c)
          PROVE  Inv'
      BY <2>2, TurnInv, CountingInv, AcquireInv, TimeoutInv, ReleaseInv DEF Step
    <2>3. CASE UNCHANGED features /\ (EvictIdle \/ \E s \in Slots : Age(s)) BY <2>3, EvictInv
    <2> QED BY <2>1, <2>2, <2>3 DEF Next, Act
  <1> QED BY <1>1, InitInv, PTL DEF Spec

\* Every variable keeps a value of its type; above all, pending, a usize, never wraps.
THEOREM TypeCorrect == Spec => []TypeOK
  <1>1. Inv => TypeOK BY DEF Inv
  <1> QED BY <1>1, InvHolds, PTL

\* No error path and no release loses a place in the queue or gives one back twice.
THEOREM CountExact == Spec => []PendingExact
  <1>1. Inv => PendingExact BY DEF Inv
  <1> QED BY <1>1, InvHolds, PTL

-----------------------------------------------------------------------------
(* One turn at a time. *)

LEMMA UnsplitStep ==
  ASSUME Inv, Unsplit, [Next]_vars
  PROVE  Unsplit'
  <1> SUFFICES ASSUME features' = {}
               PROVE  /\ slot' = created' /\ created' <= 1
                      /\ \A c \in Conns : mine'[c] \in {None, slot'} /\ (pc'[c] \in Turn => mine'[c] # None)
    BY DEF Unsplit
  <1> USE DEF Goto
  <1>1. /\ features = {} /\ slot = created /\ created <= 1
        /\ \A c \in Conns : mine[c] \in {None, slot} /\ (pc[c] \in Turn => mine[c] # None)
    BY DEF Unsplit, Next, vars
  <1>2. /\ pc \in [Conns -> Pcs] /\ mine \in [Conns -> Slots \cup {None}]
        /\ slot \in Slots \cup {None} /\ created \in 0 .. MaxSlots
    BY DEF Inv, TypeOK, Pcs
  <1>3. CASE UNCHANGED vars BY <1>1, <1>3 DEF vars
  <1>4. CASE EvictIdle \/ \E s \in Slots : Age(s)
    BY <1>1, <1>4 DEF EvictIdle, Age
  <1>5. ASSUME NEW c \in Conns, Lookup(c) PROVE Unsplit'
    <2>1. slot = None <=> created = 0 BY <1>1 DEF None
    <2>2. /\ slot' = created' /\ created' <= 1
          /\ mine' = [mine EXCEPT ![c] = slot'] /\ (slot # None => slot' = slot)
      BY <1>1, <1>2, <1>5, <2>1 DEF Lookup, Inserted, None
    <2>3. pc' = [pc EXCEPT ![c] = "found"] BY <1>5 DEF Lookup
    <2> QED BY <1>1, <1>2, <2>2, <2>3 DEF Unsplit, Turn
  <1>6. ASSUME NEW c \in Conns, Refuse(c) PROVE Unsplit'
    <2>1. /\ pc' = [pc EXCEPT ![c] = "idle"] /\ mine' = [mine EXCEPT ![c] = None]
          /\ UNCHANGED <<slot, created>>
      BY <1>6 DEF Refuse
    <2> QED BY <1>1, <1>2, <2>1 DEF Unsplit, Turn
  <1>7. ASSUME NEW c \in Conns, Release(c) PROVE Unsplit'
    <2>1. /\ mine' = [mine EXCEPT ![c] = None] /\ UNCHANGED <<slot, created>>
          /\ \A d \in Conns : pc'[d] \in {pc[d], "idle", "granted"}
          /\ pc'[c] \in {"idle", "granted"}
      BY <1>2, <1>7 DEF Release
    <2> QED BY <1>1, <1>2, <2>1 DEF Unsplit, Turn
  <1>8. ASSUME NEW c \in Conns,
               Connect(c) \/ Count(c) \/ Acquire(c) \/ Timeout(c) \/ Touch(c) \/ Ask(c) \/ Run(c)
               \/ Reply(c) \/ End(c) \/ Leave(c)
        PROVE  Unsplit'
    <2>1. UNCHANGED <<mine, slot, created>>
      BY <1>8 DEF Connect, Count, Acquire, Timeout, Touch, Ask, Run, Reply, End, Leave, queue
    <2>2. pc'[c] \in Turn => pc[c] \in Turn \cup {"granted"}
      <3>1. ASSUME Connect(c) \/ Count(c) \/ Acquire(c) \/ Timeout(c) \/ End(c) \/ Leave(c)
            PROVE  pc'[c] \notin Turn
        BY <1>1, <1>2, <3>1 DEF Connect, Count, Acquire, Timeout, End, Leave, Turn
      <3>2. ASSUME Touch(c) \/ Ask(c) \/ Run(c) \/ Reply(c) PROVE pc[c] \in Turn \cup {"granted"}
        BY <1>2, <3>2 DEF Touch, Ask, Run, Reply, Turn
      <3> QED BY <1>8, <3>1, <3>2
    <2>3. \A d \in Conns \ {c} : pc'[d] = pc[d]
      BY <1>2, <1>8 DEF Connect, Count, Acquire, Timeout, Touch, Ask, Run, Reply, End, Leave
    <2>4. pc[c] = "granted" => mine[c] # None BY DEF Inv, Places
    <2> QED BY <1>1, <2>1, <2>2, <2>3, <2>4 DEF Unsplit
  <1>9. Unsplit' BY <1>1, <1>3, <1>4, <1>5, <1>6, <1>7, <1>8 DEF Next, Act, Step, Unsplit
  <1> QED BY <1>9 DEF Unsplit

\* Whoever is in a turn holds the permit of the only slot.
LEMMA Excluded == Inv /\ Unsplit => Exclusive
  <1> SUFFICES ASSUME Inv, Unsplit, features = {}, NEW c \in InTurn, NEW d \in InTurn
               PROVE  c = d
    BY DEF Exclusive
  <1>1. mine[c] = slot /\ mine[d] = slot /\ slot # None BY DEF Unsplit, InTurn
  <1>2. ASSUME NEW e \in {c, d} PROVE holder[slot] = {e}
    <2>1. e \in Conns /\ pc[e] \in Served /\ mine[e] = slot BY <1>1 DEF InTurn, Served, Turn
    <2>2. \A x \in Conns : pc[x] \in Served /\ mine[x] # None => holder[mine[x]] = {x}
      BY DEF Inv, Places
    <2> QED BY <1>1, <2>1, <2>2
  <1> QED BY <1>2

LEMMA AtMostOne == Exclusive => OneTurn
  <1> SUFFICES ASSUME Exclusive, features = {} PROVE Cardinality(InTurn) <= 1
    BY DEF OneTurn
  <1>1. CASE InTurn = {} BY <1>1, FS_EmptySet
  <1>2. ASSUME NEW c \in InTurn PROVE Cardinality(InTurn) <= 1
    <2>1. InTurn = {c} BY <1>2 DEF Exclusive
    <2>2. Cardinality(InTurn) = 1 BY <2>1, FS_Singleton
    <2> QED BY <2>2
  <1> QED BY <1>1, <1>2

\* A message or an answer is appended only by the turn that goes on.
LEMMA WholeStep ==
  ASSUME Inv, Exclusive, WholeTurns, [Next]_vars
  PROVE  WholeTurns'
  <1> SUFFICES ASSUME features' = {}
               PROVE  /\ \A i \in DOMAIN history' : history'[i][1] = "assistant" =>
                           i > 1 /\ history'[i - 1] = <<"user", history'[i][2]>>
                      /\ \A c \in Conns : pc'[c] \in {"asked", "running"} =>
                           history' # <<>> /\ history'[Len(history')] = <<"user", c>>
    BY DEF WholeTurns
  <1> USE DEF Goto
  <1> DEFINE Entry == {"user", "assistant"} \X Conns
  <1>1. /\ features = {} /\ history \in Seq(Entry) /\ pc \in [Conns -> Pcs]
        /\ \A i \in DOMAIN history : history[i][1] = "assistant" =>
             i > 1 /\ history[i - 1] = <<"user", history[i][2]>>
        /\ \A c \in Conns : pc[c] \in {"asked", "running"} =>
             history # <<>> /\ history[Len(history)] = <<"user", c>>
    BY DEF WholeTurns, Next, vars, Inv, TypeOK, Pcs
  <1>2. ASSUME history' = history,
               \A c \in Conns : pc'[c] \in {"asked", "running"} => pc[c] \in {"asked", "running"}
        PROVE  WholeTurns'
    BY <1>1, <1>2 DEF WholeTurns
  <1>3. ASSUME NEW c \in Conns, NEW e \in Entry, history' = Append(history, e),
               pc[c] \in Turn, \A d \in Conns \ {c} : pc'[d] = pc[d],
               e[1] = "assistant" => pc[c] = "running" /\ e[2] = c,
               pc'[c] \in {"asked", "running"} => e = <<"user", c>>
        PROVE  WholeTurns'
    <2>1. /\ Len(history') = Len(history) + 1 /\ Len(history) \in Nat
          /\ \A i \in 1 .. Len(history) : history'[i] = history[i]
          /\ history'[Len(history) + 1] = e
          /\ history' \in Seq(Entry)
      BY <1>1, <1>3, Appended
    <2>2. DOMAIN history' = 1 .. Len(history) + 1 /\ DOMAIN history = 1 .. Len(history)
      BY <1>1, <2>1, LenProperties
    <2>3. ASSUME NEW i \in 1 .. Len(history) + 1, history'[i][1] = "assistant"
          PROVE  i > 1 /\ history'[i - 1] = <<"user", history'[i][2]>>
      <3>1. CASE i \in 1 .. Len(history)
        <4>1. i > 1 /\ history[i - 1] = <<"user", history[i][2]>> BY <1>1, <2>1, <2>2, <2>3, <3>1
        <4>2. i - 1 \in 1 .. Len(history) BY <2>1, <3>1, <4>1
        <4> QED BY <2>1, <3>1, <4>1, <4>2
      <3>2. CASE i = Len(history) + 1
        <4>1. pc[c] = "running" /\ e[2] = c BY <1>3, <2>1, <2>3, <3>2
        <4>2. history # <<>> /\ history[Len(history)] = <<"user", c>> BY <1>1, <4>1
        <4>3. Len(history) \in Nat \ {0} BY <1>1, <4>2, EmptySeq
        <4>4. Len(history) \in 1 .. Len(history) BY <4>3
        <4> QED BY <2>1, <3>2, <4>1, <4>2, <4>3, <4>4
      <3> QED BY <2>1, <3>1, <3>2
    <2>4. ASSUME NEW d \in Conns, pc'[d] \in {"asked", "running"}
          PROVE  history' # <<>> /\ history'[Len(history')] = <<"user", d>>
      <3>1. d = c
        <4> SUFFICES ASSUME d # c PROVE FALSE OBVIOUS
        <4>1. pc[d] \in Turn BY <1>3, <2>4 DEF Turn
        <4> QED BY <1>1, <1>3, <4>1 DEF Exclusive, InTurn
      <3>2. e = <<"user", c>> BY <1>3, <2>4, <3>1
      <3>3. history' # <<>>
        <4>1. Len(history') # 0 BY <2>1
        <4> QED BY <4>1, EmptySeq
      <3> QED BY <2>1, <3>1, <3>2, <3>3
    <2> QED BY <2>2, <2>3, <2>4 DEF WholeTurns
  <1>4. ASSUME NEW c \in Conns, Ask(c) PROVE WholeTurns'
    <2>1. /\ pc[c] = "begin" /\ history' = Append(history, <<"user", c>>)
          /\ pc' = [pc EXCEPT ![c] = "asked"]
      BY <1>4 DEF Ask
    <2>2. <<"user", c>> \in Entry /\ \A d \in Conns \ {c} : pc'[d] = pc[d] BY <1>1, <2>1
    <2> QED BY <2>1, <2>2, <1>3 DEF Turn
  <1>5. ASSUME NEW c \in Conns, Reply(c) PROVE WholeTurns'
    <2>1. CASE /\ pc[c] = "running" /\ history' = Append(history, <<"assistant", c>>)
               /\ pc' = [pc EXCEPT ![c] = "answered"]
      <3>1. /\ <<"assistant", c>> \in Entry /\ \A d \in Conns \ {c} : pc'[d] = pc[d]
            /\ pc'[c] = "answered"
        BY <1>1, <2>1
      <3> QED BY <2>1, <3>1, <1>3 DEF Turn
    <2>2. CASE history' = history /\ pc' = [pc EXCEPT ![c] = "failed"]
      BY <1>1, <1>2, <2>2
    <2> QED BY <1>5, <2>1, <2>2 DEF Reply, store
  <1>6. ASSUME NEW c \in Conns,
               Connect(c) \/ Lookup(c) \/ Count(c) \/ Acquire(c) \/ Timeout(c) \/ Refuse(c) \/ Touch(c)
               \/ Run(c) \/ End(c) \/ Leave(c) \/ Release(c)
        PROVE  WholeTurns'
    <2>1. history' = history
      BY <1>6 DEF Connect, Lookup, Count, Acquire, Timeout, Refuse, Touch, Run, End, Leave, Release, store
    <2>2. \A d \in Conns : pc'[d] \in {"asked", "running"} => pc[d] \in {"asked", "running"}
      BY <1>1, <1>6 DEF Connect, Lookup, Count, Acquire, Timeout, Refuse, Touch, Run, End, Leave, Release
    <2> QED BY <1>2, <2>1, <2>2
  <1>7. ASSUME UNCHANGED <<history, pc>> PROVE WholeTurns'
    <2>1. \A c \in Conns : pc'[c] \in {"asked", "running"} => pc[c] \in {"asked", "running"} BY <1>7
    <2>2. history' = history BY <1>7
    <2> QED BY <1>2, <2>1, <2>2
  <1>8. \/ UNCHANGED <<history, pc>>
        \/ \E c \in Conns : Ask(c) \/ Reply(c) \/ Connect(c) \/ Lookup(c) \/ Count(c) \/ Acquire(c)
             \/ Timeout(c) \/ Refuse(c) \/ Touch(c) \/ Run(c) \/ End(c) \/ Leave(c) \/ Release(c)
    BY DEF Next, Act, Step, vars, EvictIdle, Age, store
  <1>9. WholeTurns' BY <1>4, <1>5, <1>6, <1>7, <1>8
  <1> QED BY <1>9 DEF WholeTurns

\* The queue serializes the turns of a session: one at a time, each whole in the stored
\* history, as long as no message comes as a first frame and no slot is evicted.
THEOREM TurnsExcluded == Spec => []TurnsSerialized
  <1>1. Init => Unsplit BY DEF Init, Unsplit, None, Turn
  <1>2. Inv /\ Unsplit /\ [Next]_vars => Unsplit' BY UnsplitStep
  <1>3. Init => WholeTurns BY DEF Init, WholeTurns
  <1>4. Inv /\ Unsplit /\ WholeTurns /\ [Next]_vars => WholeTurns' BY Excluded, WholeStep
  <1>5. Inv /\ Unsplit /\ WholeTurns => TurnsSerialized
    BY Excluded, AtMostOne DEF TurnsSerialized
  <1> QED BY <1>1, <1>2, <1>3, <1>4, <1>5, InvHolds, PTL DEF Spec
=============================================================================

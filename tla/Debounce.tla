------------------------------ MODULE Debounce ------------------------------
(***************************************************************************)
(* The inbound message debouncer: messages of one sender collect in an     *)
(* entry until a timer fires and hands them, joined, to the receiver of    *)
(* the newest one.  debounce() and fire_debounced() hold the entries'      *)
(* mutex from their first to their last access, so each is one action.     *)
(* A message, the timer it starts and the receiver its caller gets have    *)
(* the same number.  Dispatch composes it with the loop that calls it.     *)
(***************************************************************************)
EXTENDS Integers, Sequences, FiniteSets

CONSTANTS
  Keys,         \* sender keys
  Windows,      \* the configured window is one of these; 0 disables debouncing
  Runtimes,     \* may a task run on another thread between two statements of one?
  MaxMessages,  \* bound: messages submitted
  MaxTime       \* bound: clock; messages come early enough for their window to pass

ASSUME DebounceConstants ==
  /\ Keys # {} /\ Windows # {} /\ Windows \subseteq Nat /\ Runtimes \subseteq BOOLEAN
  /\ MaxMessages \in Nat /\ MaxTime \in Nat

Messages == 1 .. MaxMessages

VARIABLES
  window,    \* MessageDebouncer.window
  threaded,  \* does the Tokio runtime have several worker threads?
  entries,   \* DebouncerEntry of a key: its messages; the newest is also its timer and tx
  key,       \* sender key of each submitted message
  timer,     \* state of the task each message spawned
  due,       \* when its sleep ends
  received,  \* what the receiver of each message got: combined text, or nothing yet
  last,      \* time of the newest message of a key
  now

debouncer == <<window, threaded, entries, key, timer, due, received, last, now>>

Count == Len(key)
Elements(q) == {q[i] : i \in DOMAIN q}
HasEntry(k) == entries[k] # <<>>
Newest(k) == entries[k][Len(entries[k])]

DebouncerInit ==
  /\ window \in Windows /\ threaded \in Runtimes
  /\ entries = [k \in Keys |-> <<>>] /\ key = <<>>
  /\ timer = [m \in Messages |-> "none"] /\ due = [m \in Messages |-> 0]
  /\ received = [m \in Messages |-> <<>>]
  /\ last = [k \in Keys |-> 0] /\ now = 0

\* Mutant: the old timer is left running.
Aborted_Not(t) == {timer[t]}

\* abort() cancels a task that is suspended, in its sleep or in the queue for
\* the mutex.  A task another thread is polling at that moment may still take the
\* mutex in the same poll, once debounce() has released it.
Aborted(t) == IF timer[t] = "awake" /\ threaded THEN {"done", "awake"} ELSE {"done"}

\* The timers once message m has reset the one of its sender, if there is one.
Restarted(k, m) ==
  LET others == IF HasEntry(k)
                  THEN {[timer EXCEPT ![Newest(k)] = s] : s \in Aborted(Newest(k))}
                  ELSE {timer}
  IN  {[t EXCEPT ![m] = "sleeping"] : t \in others}

Collected(k, m) == Append(entries[k], m)

\* A message that is not held back: the only one of its combined message.
Passthrough(k) ==
  /\ Count < MaxMessages
  /\ key' = Append(key, k)
  /\ received' = [received EXCEPT ![Count + 1] = <<Count + 1>>]
  /\ last' = [last EXCEPT ![k] = now]
  /\ UNCHANGED <<window, threaded, entries, timer, due, now>>

\* A message that joins the entry of its sender.
Collect(k) ==
  LET m == Count + 1
  IN  /\ m <= MaxMessages /\ now + window <= MaxTime
      /\ key' = Append(key, k)
      /\ entries' = [entries EXCEPT ![k] = Collected(k, m)]
      /\ timer' \in Restarted(k, m)
      /\ due' = [due EXCEPT ![m] = now + window]
      /\ last' = [last EXCEPT ![k] = now]
      /\ UNCHANGED <<window, threaded, received, now>>

Debounce(k) ==
  \/ window = 0 /\ Passthrough(k)
  \/ window > 0 /\ Collect(k)

\* The sleep of a timer has ended and its task is scheduled again.
Wake(t) ==
  /\ timer[t] = "sleeping" /\ now >= due[t]
  /\ timer' = [timer EXCEPT ![t] = "awake"]
  /\ UNCHANGED <<window, threaded, entries, key, due, received, last, now>>

\* Mutant: the entry stays in the map after its messages were sent.
Taken_Kept(k) == entries

Taken(k) == [entries EXCEPT ![k] = <<>>]

\* fire_debounced: the entry of the key goes to its tx, whichever timer fires.
Fire(t) ==
  /\ timer[t] = "awake"
  /\ timer' = [timer EXCEPT ![t] = "done"]
  /\ LET k == key[t]
     IN  \/ /\ HasEntry(k)
            /\ received' = [received EXCEPT ![Newest(k)] = entries[k]]
            /\ entries' = Taken(k)
         \/ /\ ~HasEntry(k)
            /\ UNCHANGED <<received, entries>>
  /\ UNCHANGED <<window, threaded, key, due, last, now>>

\* Time passes; while no timer sleeps nothing depends on it.
Tick ==
  /\ now < MaxTime /\ \E t \in Messages : timer[t] = "sleeping"
  /\ now' = now + 1
  /\ UNCHANGED <<window, threaded, entries, key, timer, due, received, last>>

-----------------------------------------------------------------------------
(* Correctness.                                                            *)

\* Every variable of the debouncer holds a value of its type.
DebouncerTypeOK ==
  /\ window \in Windows /\ threaded \in Runtimes
  /\ entries \in [Keys -> Seq(Messages)]
  /\ key \in Seq(Keys) /\ Count <= MaxMessages
  /\ timer \in [Messages -> {"none", "sleeping", "awake", "done"}]
  /\ due \in [Messages -> Nat]
  /\ received \in [Messages -> Seq(Messages)]
  /\ last \in [Keys -> Nat] /\ now \in Nat

\* Each submitted message is in exactly one place: still in its sender's entry,
\* or in exactly one combined message.  No race of timers and new messages drops
\* a message or sends it twice.
ExactlyOnce ==
  \A x \in 1 .. Count :
    LET holders == {m \in 1 .. Count : x \in Elements(received[m])}
    IN  IF x \in Elements(entries[key[x]]) THEN holders = {} ELSE Cardinality(holders) = 1

\* A combined message holds messages of one sender, oldest first, up to the one
\* whose caller receives it, and none that an earlier one overtook.
InOrder ==
  \A m \in 1 .. Count : received[m] # <<>> =>
    /\ received[m][Len(received[m])] = m
    /\ \A i, j \in DOMAIN received[m] : i < j => received[m][i] < received[m][j]
    /\ \A i \in DOMAIN received[m] : key[received[m][i]] = key[m]
    /\ \A p \in 1 .. m - 1 : key[p] = key[m] /\ received[p] # <<>> => received[m][1] > p

\* Every message is combined exactly once, into a message that is in order.
CombinedOnce == ExactlyOnce /\ InOrder

\* A combined message is sent only after the window passed without new input, on
\* a runtime where an aborted timer cannot be running.
QuietWindow ==
  [][\A k \in Keys : HasEntry(k) /\ entries'[k] = <<>> /\ ~threaded => now - last[k] >= window]_debouncer
=============================================================================

--------------------------- MODULE DispatchProofs ---------------------------
(***************************************************************************)
(* Dispatch for all senders, windows, limits and numbers of messages: the  *)
(* types, every message combined once, after a quiet window, and the turns *)
(* of a sender that exclude each other.                                    *)
(*                                                                         *)
(* What the debouncer promises rests on the order of numbers: an entry     *)
(* grows at its end by the newest message, and what was sent to a receiver *)
(* is older than what is still in the entry of the same sender (Filled).   *)
(* The first section shows that its steps keep this, whoever takes them;   *)
(* the dispatch takes one of them or leaves the debouncer alone.           *)
(*                                                                         *)
(* A turn that goes on is the registered one of its sender (Owned).  That  *)
(* an interrupted turn ends before its successor begins needs more: the    *)
(* workers of a sender have an order, in which each waits for the one just *)
(* before it and none is past its wait unless all before it are over       *)
(* (Ordered).  The program keeps no such order, so the invariant says that *)
(* there is one.                                                           *)
(***************************************************************************)
EXTENDS Dispatch, FiniteSetTheorems, SequenceTheorems, TLAPS

-----------------------------------------------------------------------------
(* The debouncer.                                                          *)

\* The entries and the combined messages hold submitted messages, oldest first, and what
\* a sender's entry holds came after all that was sent for this sender.
Filled ==
  /\ \A m \in Messages : timer[m] # "none" \/ received[m] # <<>> => m <= Count
  /\ \A m \in Messages : \A i \in 1 .. Len(received[m]) : received[m][i] <= m
  /\ \A k \in Keys :
       /\ \A i \in 1 .. Len(entries[k]) : entries[k][i] <= Count /\ key[entries[k][i]] = k
       /\ \A i, j \in 1 .. Len(entries[k]) : i < j => entries[k][i] < entries[k][j]
       /\ \A p \in 1 .. Count : key[p] = k /\ received[p] # <<>> =>
            \A i \in 1 .. Len(entries[k]) : p < entries[k][i]

\* ExactlyOnce without cardinalities.
Once ==
  \A x \in 1 .. Count :
    \/ /\ x \in Elements(entries[key[x]])
       /\ \A m \in 1 .. Count : x \notin Elements(received[m])
    \/ /\ x \notin Elements(entries[key[x]])
       /\ \E m \in 1 .. Count :
            /\ x \in Elements(received[m])
            /\ \A n \in 1 .. Count : x \in Elements(received[n]) => n = m

DebouncerInv == DebouncerTypeOK /\ Filled /\ Once /\ InOrder

-----------------------------------------------------------------------------
(* Sequences. *)

LEMMA Grown ==
  ASSUME NEW S, NEW q \in Seq(S), NEW x \in S
  PROVE  /\ Append(q, x) \in Seq(S) /\ Len(Append(q, x)) = Len(q) + 1 /\ Len(q) \in Nat
         /\ \A i \in 1 .. Len(q) : Append(q, x)[i] = q[i]
         /\ Append(q, x)[Len(q) + 1] = x
         /\ DOMAIN q = 1 .. Len(q) /\ DOMAIN Append(q, x) = 1 .. Len(q) + 1
  <1>1. /\ Append(q, x) \in Seq(S) /\ Len(Append(q, x)) = Len(q) + 1 /\ Len(q) \in Nat
        /\ \A i \in 1 .. Len(q) : Append(q, x)[i] = q[i]
        /\ Append(q, x)[Len(q) + 1] = x
    BY AppendProperties, LenProperties
  <1> QED BY <1>1, LenProperties

LEMMA GrownElements ==
  ASSUME NEW q \in Seq(Messages), NEW x \in Messages
  PROVE  Elements(Append(q, x)) = Elements(q) \cup {x}
  <1>1. /\ \A i \in 1 .. Len(q) : Append(q, x)[i] = q[i] /\ i \in 1 .. Len(q) + 1
        /\ Append(q, x)[Len(q) + 1] = x /\ Len(q) + 1 \in 1 .. Len(q) + 1
        /\ \A i \in 1 .. Len(q) + 1 : i \in 1 .. Len(q) \/ i = Len(q) + 1
    BY Grown
  <1>2. DOMAIN q = 1 .. Len(q) /\ DOMAIN Append(q, x) = 1 .. Len(q) + 1 BY Grown
  <1> QED BY <1>1, <1>2 DEF Elements

LEMMA Submitted ==
  ASSUME NEW x \in Messages, NEW n \in Nat, x <= n
  PROVE  x \in 1 .. n
  BY DEF Messages

LEMMA ElementsOf ==
  ASSUME NEW q \in Seq(Messages)
  PROVE  /\ Elements(q) = {q[i] : i \in 1 .. Len(q)} /\ Len(q) \in Nat
         /\ Elements(q) \subseteq Messages
         /\ q = <<>> <=> Len(q) = 0
         /\ q # <<>> => q[Len(q)] \in Elements(q) /\ Len(q) \in 1 .. Len(q) /\ 1 \in 1 .. Len(q)
  <1>1. DOMAIN q = 1 .. Len(q) /\ Len(q) \in Nat BY LenProperties
  <1>2. q = <<>> <=> Len(q) = 0 BY EmptySeq
  <1>3. \A i \in 1 .. Len(q) : q[i] \in Messages BY ElementOfSeq
  <1>4. Elements(q) = {q[i] : i \in 1 .. Len(q)} BY <1>1 DEF Elements
  <1>5. q # <<>> => Len(q) \in 1 .. Len(q) /\ 1 \in 1 .. Len(q) BY <1>1, <1>2
  <1> QED BY <1>1, <1>2, <1>3, <1>4, <1>5

LEMMA NoElements == Elements(<<>>) = {} /\ Len(<<>>) = 0 /\ <<>> \in Seq(Messages)
  <1>1. <<>> \in Seq(Messages) /\ Len(<<>>) = 0 BY EmptySeq
  <1>2. DOMAIN <<>> = {} OBVIOUS
  <1> QED BY <1>1, <1>2 DEF Elements

LEMMA OneElement ==
  ASSUME NEW m \in Messages
  PROVE  /\ <<m>> \in Seq(Messages) /\ Len(<<m>>) = 1 /\ <<m>>[1] = m /\ Elements(<<m>>) = {m}
  <1>1. <<m>> \in Seq(Messages) /\ Len(<<m>>) = 1 /\ <<m>>[1] = m OBVIOUS
  <1>2. DOMAIN <<m>> = {1} OBVIOUS
  <1> QED BY <1>1, <1>2 DEF Elements

-----------------------------------------------------------------------------
(* The steps. *)

LEMMA InitDebouncer == DebouncerInit => DebouncerInv
  <1> SUFFICES ASSUME DebouncerInit PROVE DebouncerInv OBVIOUS
  <1> USE DEF DebouncerInit
  <1>1. <<>> \in Seq(Messages) /\ Len(<<>>) = 0 /\ <<>> \in Seq(Keys) BY EmptySeq
  <1>2. Count = 0 BY <1>1 DEF Count
  <1>3. DebouncerTypeOK BY <1>1, <1>2, DebounceConstants DEF DebouncerTypeOK, Messages
  <1>4. Filled BY <1>1, <1>2 DEF Filled
  <1>5. Once /\ InOrder BY <1>2 DEF Once, InOrder
  <1> QED BY <1>3, <1>4, <1>5 DEF DebouncerInv

\* A message that passes through, when nothing of its sender is held back.
LEMMA PassesThrough ==
  ASSUME DebouncerInv, NEW k \in Keys, Passthrough(k), entries[k] = <<>>
  PROVE  DebouncerInv'
  <1> USE DebounceConstants
  <1>1. /\ Count \in Nat /\ key \in Seq(Keys) /\ Count + 1 \in Messages /\ MaxMessages \in Nat
        /\ received \in [Messages -> Seq(Messages)] /\ entries \in [Keys -> Seq(Messages)]
        /\ \A p \in 1 .. Count : p \in Messages /\ key[p] \in Keys
    <2>1. Count \in Nat /\ \A p \in 1 .. Count : key[p] \in Keys
      BY LenProperties, ElementOfSeq DEF Count, DebouncerInv, DebouncerTypeOK
    <2>2. MaxMessages \in Nat /\ Count < MaxMessages BY DEF Passthrough
    <2>3. Count + 1 \in Messages /\ \A p \in 1 .. Count : p \in Messages
      BY <2>1, <2>2 DEF Messages
    <2> QED BY <2>1, <2>2, <2>3 DEF DebouncerInv, DebouncerTypeOK
  <1> DEFINE m == Count + 1
  <1>2. /\ Count' = m /\ key' \in Seq(Keys) /\ key'[m] = k
        /\ \A p \in 1 .. Count : key'[p] = key[p]
    BY <1>1, Grown DEF Passthrough, Count
  <1>3. /\ received' \in [Messages -> Seq(Messages)]
        /\ received'[m] = <<m>> /\ received[m] = <<>>
        /\ \A q \in Messages \ {m} : received'[q] = received[q]
    BY <1>1, OneElement DEF Passthrough, DebouncerInv, Filled
  <1>4. UNCHANGED <<window, threaded, entries, timer, due, now>> /\ last' \in [Keys -> Nat]
    BY DEF Passthrough, DebouncerInv, DebouncerTypeOK
  <1>5. 1 .. m = 1 .. Count \cup {m} /\ m \notin 1 .. Count BY <1>1
  <1>6. Elements(<<m>>) = {m} /\ Len(<<m>>) = 1 /\ <<m>>[1] = m /\ Elements(<<>>) = {} /\ Len(<<>>) = 0
    BY <1>1, OneElement, NoElements
  <1>7. \A q \in 1 .. Count : \A x \in Elements(received[q]) : x <= Count
    <2> TAKE q \in 1 .. Count
    <2>1. Elements(received[q]) = {received[q][i] : i \in 1 .. Len(received[q])}
          /\ Elements(received[q]) \subseteq Messages
      BY <1>1, ElementsOf
    <2>2. \A i \in 1 .. Len(received[q]) : received[q][i] <= q BY <1>1 DEF DebouncerInv, Filled
    <2>3. \A x \in Messages : x <= q => x <= Count BY <1>1 DEF Messages
    <2> QED BY <2>1, <2>2, <2>3
  <1> HIDE DEF m
  <1>8. DebouncerTypeOK'
    <2>1. Count' <= MaxMessages BY <1>1, <1>2 DEF m, Messages
    <2> QED BY <1>2, <1>3, <1>4, <2>1 DEF DebouncerInv, DebouncerTypeOK
  <1>9. Filled'
    <2>1. \A q \in Messages : timer'[q] # "none" \/ received'[q] # <<>> => q <= Count'
      <3> TAKE q \in Messages
      <3>1. CASE q = m BY <1>1, <1>2, <3>1 DEF m
      <3>2. CASE q # m
        <4>1. timer[q] # "none" \/ received[q] # <<>> => q <= Count BY DEF DebouncerInv, Filled
        <4>2. q \in Nat BY DEF Messages
        <4> QED BY <1>1, <1>2, <1>3, <1>4, <3>2, <4>1, <4>2 DEF m
      <3> QED BY <3>1, <3>2
    <2>2. \A q \in Messages : \A i \in 1 .. Len(received'[q]) : received'[q][i] <= q
      <3> TAKE q \in Messages
      <3>1. CASE q = m BY <1>1, <1>3, <1>6, <3>1 DEF m
      <3>2. CASE q # m BY <1>3, <3>2 DEF DebouncerInv, Filled
      <3> QED BY <3>1, <3>2
    <2>3. ASSUME NEW l \in Keys
          PROVE  /\ \A i \in 1 .. Len(entries[l]) : entries[l][i] <= Count' /\ key'[entries[l][i]] = l
                 /\ \A i, j \in 1 .. Len(entries[l]) : i < j => entries[l][i] < entries[l][j]
                 /\ \A p \in 1 .. m : key'[p] = l /\ received'[p] # <<>> =>
                      \A i \in 1 .. Len(entries[l]) : p < entries[l][i]
      <3>1. \A i \in 1 .. Len(entries[l]) : entries[l][i] \in 1 .. Count /\ key[entries[l][i]] = l
        <4> TAKE i \in 1 .. Len(entries[l])
        <4>1. entries[l][i] \in Messages BY <1>1, ElementOfSeq
        <4>2. entries[l][i] <= Count /\ key[entries[l][i]] = l BY DEF DebouncerInv, Filled
        <4> QED BY <4>1, <4>2, <1>1, Submitted
      <3>2. \A i \in 1 .. Len(entries[l]) : entries[l][i] <= Count' /\ key'[entries[l][i]] = l
        <4> TAKE i \in 1 .. Len(entries[l])
        <4>1. entries[l][i] \in 1 .. Count /\ key[entries[l][i]] = l BY <3>1
        <4>2. \A x \in 1 .. Count : x <= m BY <1>1 DEF m
        <4> QED BY <1>2, <4>1, <4>2
      <3>3. \A p \in 1 .. Count : key'[p] = l /\ received'[p] # <<>> =>
              \A i \in 1 .. Len(entries[l]) : p < entries[l][i]
        BY <1>1, <1>2, <1>3, <1>5 DEF DebouncerInv, Filled
      <3>4. key'[m] = l => Len(entries[l]) = 0 BY <1>2, <1>6
      <3> QED BY <1>5, <3>2, <3>3, <3>4 DEF DebouncerInv, Filled
    <2> QED BY <1>2, <1>4, <2>1, <2>2, <2>3 DEF Filled
  <1>10. Once'
    <2> SUFFICES ASSUME NEW x \in 1 .. m
                 PROVE  \/ /\ x \in Elements(entries[key'[x]])
                           /\ \A q \in 1 .. m : x \notin Elements(received'[q])
                        \/ /\ x \notin Elements(entries[key'[x]])
                           /\ \E q \in 1 .. m :
                                /\ x \in Elements(received'[q])
                                /\ \A n \in 1 .. m : x \in Elements(received'[n]) => n = q
      BY <1>2, <1>4 DEF Once
    <2>1. CASE x = m
      <3>1. x \notin Elements(entries[key'[x]]) BY <1>2, <1>6, <2>1
      <3>2. m \in 1 .. m /\ x \in Elements(received'[m]) BY <1>3, <1>5, <1>6, <2>1
      <3>3. \A n \in 1 .. Count : x \notin Elements(received'[n])
        <4> TAKE n \in 1 .. Count
        <4>1. received'[n] = received[n] BY <1>1, <1>3, <1>5
        <4>2. ~(m <= Count) BY <1>1 DEF m
        <4> QED BY <1>7, <2>1, <4>1, <4>2
      <3> QED BY <1>5, <3>1, <3>2, <3>3
    <2>2. CASE x \in 1 .. Count
      <3>1. key'[x] = key[x] /\ x \notin Elements(received'[m]) BY <1>2, <1>3, <1>5, <1>6, <2>2
      <3>2. \A q \in 1 .. Count : received'[q] = received[q] BY <1>1, <1>3, <1>5
      <3>3. CASE /\ x \in Elements(entries[key[x]])
                 /\ \A q \in 1 .. Count : x \notin Elements(received[q])
        BY <1>5, <3>1, <3>2, <3>3
      <3>4. CASE /\ x \notin Elements(entries[key[x]])
                 /\ \E q \in 1 .. Count :
                      /\ x \in Elements(received[q])
                      /\ \A n \in 1 .. Count : x \in Elements(received[n]) => n = q
        BY <1>5, <3>1, <3>2, <3>4
      <3> QED BY <2>2, <3>3, <3>4 DEF DebouncerInv, Once
    <2> QED BY <1>5, <2>1, <2>2
  <1>11. InOrder'
    <2> SUFFICES ASSUME NEW q \in 1 .. m, received'[q] # <<>>
                 PROVE  /\ received'[q][Len(received'[q])] = q
                        /\ \A i, j \in DOMAIN received'[q] : i < j => received'[q][i] < received'[q][j]
                        /\ \A i \in DOMAIN received'[q] : key'[received'[q][i]] = key'[q]
                        /\ \A p \in 1 .. q - 1 : key'[p] = key'[q] /\ received'[p] # <<>> => received'[q][1] > p
      BY <1>2 DEF InOrder
    <2>1. CASE q = m
      <3>1. DOMAIN received'[q] = {1} BY <1>3, <1>6, <2>1
      <3>2. received'[q][1] = m /\ Len(received'[q]) = 1 BY <1>3, <1>6, <2>1
      <3>3. \A p \in 1 .. q - 1 : m > p BY <1>1, <2>1 DEF m
      <3> QED BY <2>1, <3>1, <3>2, <3>3
    <2>2. CASE q \in 1 .. Count
      <3>1. received'[q] = received[q] /\ received[q] \in Seq(Messages) /\ q \in Messages
        BY <1>1, <1>3, <1>5, <2>2
      <3>2. DOMAIN received[q] = 1 .. Len(received[q]) BY <3>1, LenProperties
      <3>3. \A i \in DOMAIN received[q] : received[q][i] \in 1 .. Count
        <4> TAKE i \in DOMAIN received[q]
        <4>1. received[q][i] \in Messages /\ received[q][i] <= q
          BY <3>1, <3>2, ElementOfSeq DEF DebouncerInv, Filled
        <4> QED BY <4>1, <2>2, <1>1 DEF Messages
      <3>4. \A p \in 1 .. q - 1 : p \in 1 .. Count /\ received'[p] = received[p]
        BY <1>1, <1>3, <1>5, <2>2
      <3>5. /\ received[q][Len(received[q])] = q
            /\ \A i, j \in DOMAIN received[q] : i < j => received[q][i] < received[q][j]
            /\ \A i \in DOMAIN received[q] : key[received[q][i]] = key[q]
            /\ \A p \in 1 .. q - 1 : key[p] = key[q] /\ received[p] # <<>> => received[q][1] > p
        BY <2>2, <3>1 DEF DebouncerInv, InOrder
      <3> QED BY <1>2, <2>2, <3>1, <3>3, <3>4, <3>5
    <2> QED BY <1>5, <2>1, <2>2
  <1> QED BY <1>8, <1>9, <1>10, <1>11 DEF DebouncerInv

\* A message that joins the entry of its sender.
LEMMA Collects ==
  ASSUME DebouncerInv, NEW k \in Keys, Collect(k)
  PROVE  DebouncerInv'
  <1> DEFINE m == Count + 1
  <1>1. /\ Count \in Nat /\ key \in Seq(Keys) /\ m \in Messages /\ m <= MaxMessages
        /\ received \in [Messages -> Seq(Messages)] /\ entries \in [Keys -> Seq(Messages)]
        /\ timer \in [Messages -> {"none", "sleeping", "awake", "done"}]
        /\ \A p \in 1 .. Count : p \in Messages /\ key[p] \in Keys
    <2>1. Count \in Nat /\ \A p \in 1 .. Count : key[p] \in Keys
      BY LenProperties, ElementOfSeq DEF Count, DebouncerInv, DebouncerTypeOK
    <2>2. MaxMessages \in Nat /\ Count + 1 <= MaxMessages BY DebounceConstants DEF Collect
    <2>3. Count + 1 \in Messages /\ \A p \in 1 .. Count : p \in Messages
      BY <2>1, <2>2 DEF Messages
    <2> QED BY <2>1, <2>2, <2>3 DEF DebouncerInv, DebouncerTypeOK
  <1>2. /\ Count' = m /\ key' \in Seq(Keys) /\ key'[m] = k
        /\ \A p \in 1 .. Count : key'[p] = key[p]
    BY <1>1, Grown DEF Collect, Count
  <1>3. /\ entries'[k] = Append(entries[k], m)
        /\ \A l \in Keys \ {k} : entries'[l] = entries[l]
        /\ entries' = [entries EXCEPT ![k] = Append(entries[k], m)]
    BY <1>1 DEF Collect, Collected
  <1>4. /\ Append(entries[k], m) \in Seq(Messages)
        /\ Len(Append(entries[k], m)) = Len(entries[k]) + 1 /\ Len(entries[k]) \in Nat
        /\ \A i \in 1 .. Len(entries[k]) : Append(entries[k], m)[i] = entries[k][i]
        /\ Append(entries[k], m)[Len(entries[k]) + 1] = m
        /\ Elements(Append(entries[k], m)) = Elements(entries[k]) \cup {m}
    BY <1>1, Grown, GrownElements
  <1>5. UNCHANGED <<window, threaded, received, now>>
    BY DEF Collect
  <1>6. 1 .. m = 1 .. Count \cup {m} /\ m \notin 1 .. Count /\ \A x \in 1 .. Count : x < m BY <1>1
  <1>7. \A q \in 1 .. Count : \A x \in Elements(received[q]) : x \in 1 .. Count
    <2> TAKE q \in 1 .. Count
    <2>1. Elements(received[q]) = {received[q][i] : i \in 1 .. Len(received[q])}
          /\ Elements(received[q]) \subseteq Messages
      BY <1>1, ElementsOf
    <2>2. \A i \in 1 .. Len(received[q]) : received[q][i] <= q BY <1>1 DEF DebouncerInv, Filled
    <2>3. \A x \in Messages : x <= q => x \in 1 .. Count BY <1>1 DEF Messages
    <2> QED BY <2>1, <2>2, <2>3
  <1>8. received[m] = <<>> /\ Elements(received[m]) = {}
    <2>1. ~(m <= Count) BY <1>1
    <2>2. received[m] = <<>> BY <1>1, <2>1 DEF DebouncerInv, Filled
    <2> QED BY <2>2, NoElements
  <1>9. /\ timer' \in [Messages -> {"none", "sleeping", "awake", "done"}]
        /\ \A q \in Messages \ {m} : timer'[q] = "none" \/ timer[q] # "none" \/ q <= Count
    <2>1. CASE HasEntry(k)
      <3>1. PICK a \in {"done", "awake"} : timer' = [[timer EXCEPT ![Newest(k)] = a] EXCEPT ![m] = "sleeping"]
        BY <2>1 DEF Collect, Restarted, Aborted
      <3>2. Newest(k) \in Messages /\ Newest(k) <= Count
        <4>1. entries[k] # <<>> /\ entries[k] \in Seq(Messages) BY <1>1, <2>1 DEF HasEntry
        <4>2. Len(entries[k]) \in 1 .. Len(entries[k]) BY <4>1, ElementsOf
        <4> QED BY <4>1, <4>2, ElementOfSeq DEF Newest, DebouncerInv, Filled
      <3>3. timer' \in [Messages -> {"none", "sleeping", "awake", "done"}] BY <1>1, <3>1
      <3>4. \A q \in Messages \ {m, Newest(k)} : timer'[q] = timer[q] BY <1>1, <3>1
      <3> QED BY <3>2, <3>3, <3>4
    <2>2. CASE ~HasEntry(k)
      <3>1. timer' = [timer EXCEPT ![m] = "sleeping"] BY <2>2 DEF Collect, Restarted
      <3> QED BY <1>1, <3>1
    <2> QED BY <2>1, <2>2
  <1>10. due' \in [Messages -> Nat] /\ last' \in [Keys -> Nat]
    BY <1>1, DebounceConstants DEF Collect, DebouncerInv, DebouncerTypeOK
  <1>11. DebouncerTypeOK'
    <2>1. entries' \in [Keys -> Seq(Messages)] BY <1>1, <1>3, <1>4
    <2> QED BY <1>1, <1>2, <1>5, <1>9, <1>10, <2>1 DEF DebouncerInv, DebouncerTypeOK
  <1> HIDE DEF m
  <1>12. Filled'
    <2>1. \A q \in Messages : timer'[q] # "none" \/ received'[q] # <<>> => q <= Count'
      <3> TAKE q \in Messages
      <3>1. CASE q = m BY <1>1, <1>2, <3>1 DEF m
      <3>2. CASE q # m
        <4>1. timer[q] # "none" \/ received[q] # <<>> => q <= Count BY DEF DebouncerInv, Filled
        <4>2. q \in Nat /\ (q <= Count => q <= m) BY <1>1 DEF Messages, m
        <4> QED BY <1>2, <1>5, <1>9, <3>2, <4>1, <4>2
      <3> QED BY <3>1, <3>2
    <2>2. ASSUME NEW l \in Keys
          PROVE  /\ \A i \in 1 .. Len(entries[l]) : entries[l][i] \in 1 .. Count /\ key[entries[l][i]] = l
                 /\ \A i, j \in 1 .. Len(entries[l]) : i < j => entries[l][i] < entries[l][j]
                 /\ \A p \in 1 .. Count : key[p] = l /\ received[p] # <<>> =>
                      \A i \in 1 .. Len(entries[l]) : p < entries[l][i]
      <3>1. \A i \in 1 .. Len(entries[l]) : entries[l][i] \in 1 .. Count /\ key[entries[l][i]] = l
        <4> TAKE i \in 1 .. Len(entries[l])
        <4>1. entries[l][i] \in Messages BY <1>1, ElementOfSeq
        <4>2. entries[l][i] <= Count /\ key[entries[l][i]] = l BY DEF DebouncerInv, Filled
        <4> QED BY <4>1, <4>2, <1>1, Submitted
      <3> QED BY <3>1 DEF DebouncerInv, Filled
    <2>3. ASSUME NEW l \in Keys
          PROVE  /\ \A i \in 1 .. Len(entries'[l]) : entries'[l][i] <= m /\ key'[entries'[l][i]] = l
                 /\ \A i, j \in 1 .. Len(entries'[l]) : i < j => entries'[l][i] < entries'[l][j]
                 /\ \A p \in 1 .. m : key'[p] = l /\ received[p] # <<>> =>
                      \A i \in 1 .. Len(entries'[l]) : p < entries'[l][i]
      <3>1. CASE l # k
        <4>1. entries'[l] = entries[l] BY <1>3, <3>1
        <4>2. \A x \in 1 .. Count : x <= m BY <1>1, <1>6
        <4> QED BY <1>2, <1>6, <1>8, <2>2, <4>1, <4>2
      <3>2. CASE l = k
        <4> DEFINE n == Len(entries[k])
        <4>1. /\ entries'[k] = Append(entries[k], m) /\ Len(entries'[k]) = n + 1 /\ n \in Nat
              /\ \A i \in 1 .. n : entries'[k][i] = entries[k][i]
              /\ entries'[k][n + 1] = m
          BY <1>3, <1>4
        <4> HIDE DEF n
        <4>2. 1 .. n + 1 = 1 .. n \cup {n + 1} /\ \A i \in 1 .. n : i < n + 1 /\ ~(n + 1 < i)
          BY <4>1
        <4>3. \A i \in 1 .. n : entries[k][i] \in 1 .. Count /\ key[entries[k][i]] = k
          BY <2>2 DEF n
        <4>4. m <= m /\ \A x \in 1 .. Count : x <= m /\ x < m BY <1>1, <1>6 DEF m
        <4>5. \A i \in 1 .. n + 1 : entries'[k][i] <= m /\ key'[entries'[k][i]] = k
          BY <1>2, <4>1, <4>2, <4>3, <4>4
        <4>6. ASSUME NEW i \in 1 .. n + 1, NEW j \in 1 .. n + 1, i < j
              PROVE  entries'[k][i] < entries'[k][j]
          <5>1. i \in 1 .. n BY <4>1, <4>6
          <5>2. CASE j \in 1 .. n BY <2>2, <4>1, <4>6, <5>1, <5>2 DEF n
          <5>3. CASE j = n + 1 BY <4>1, <4>3, <4>4, <5>1, <5>3
          <5> QED BY <4>2, <5>2, <5>3
        <4>7. ASSUME NEW p \in 1 .. m, key'[p] = k, received[p] # <<>>, NEW i \in 1 .. n + 1
              PROVE  p < entries'[k][i]
          <5>1. p \in 1 .. Count /\ key[p] = k BY <1>2, <1>6, <1>8, <4>7
          <5>2. CASE i \in 1 .. n BY <2>2, <4>1, <4>7, <5>1, <5>2 DEF n
          <5>3. CASE i = n + 1 BY <4>1, <4>4, <5>1, <5>3
          <5> QED BY <4>2, <5>2, <5>3
        <4> QED BY <3>2, <4>1, <4>5, <4>6, <4>7
      <3> QED BY <3>1, <3>2
    <2>4. \A q \in Messages : \A i \in 1 .. Len(received[q]) : received[q][i] <= q
      BY DEF DebouncerInv, Filled
    <2> QED BY <1>2, <1>5, <2>1, <2>3, <2>4 DEF Filled
  <1>13. Once'
    <2> SUFFICES ASSUME NEW x \in 1 .. m
                 PROVE  \/ /\ x \in Elements(entries'[key'[x]])
                           /\ \A q \in 1 .. m : x \notin Elements(received[q])
                        \/ /\ x \notin Elements(entries'[key'[x]])
                           /\ \E q \in 1 .. m :
                                /\ x \in Elements(received[q])
                                /\ \A n \in 1 .. m : x \in Elements(received[n]) => n = q
      BY <1>2, <1>5 DEF Once
    <2>1. CASE x = m
      <3>1. x \in Elements(entries'[key'[x]]) BY <1>2, <1>3, <1>4, <2>1
      <3>2. \A q \in 1 .. Count : x \notin Elements(received[q]) BY <1>6, <1>7, <2>1
      <3> QED BY <1>6, <1>8, <3>1, <3>2
    <2>2. CASE x \in 1 .. Count
      <3>1. key'[x] = key[x] /\ key[x] \in Keys /\ x # m BY <1>1, <1>2, <1>6, <2>2
      <3>2. x \in Elements(entries'[key[x]]) <=> x \in Elements(entries[key[x]])
        BY <1>3, <1>4, <3>1
      <3> QED BY <1>6, <1>8, <2>2, <3>1, <3>2 DEF DebouncerInv, Once
    <2> QED BY <1>6, <2>1, <2>2
  <1>14. InOrder'
    <2> SUFFICES ASSUME NEW q \in 1 .. m, received[q] # <<>>
                 PROVE  /\ received[q][Len(received[q])] = q
                        /\ \A i, j \in DOMAIN received[q] : i < j => received[q][i] < received[q][j]
                        /\ \A i \in DOMAIN received[q] : key'[received[q][i]] = key'[q]
                        /\ \A p \in 1 .. q - 1 : key'[p] = key'[q] /\ received[p] # <<>> => received[q][1] > p
      BY <1>2, <1>5 DEF InOrder
    <2>1. q \in 1 .. Count BY <1>6, <1>8
    <2>2. received[q] \in Seq(Messages) BY <1>1, <2>1
    <2>3. \A i \in DOMAIN received[q] : received[q][i] \in 1 .. Count
      BY <1>7, <2>1 DEF Elements
    <2>4. \A p \in 1 .. q - 1 : p \in 1 .. Count BY <1>1, <2>1
    <2> QED BY <1>2, <2>1, <2>3, <2>4 DEF DebouncerInv, InOrder
  <1> QED BY <1>11, <1>12, <1>13, <1>14 DEF DebouncerInv

\* A timer that wakes up and time that passes change no message.
LEMMA TimePasses ==
  ASSUME DebouncerInv, Tick \/ (\E t \in Messages : Wake(t)) \/ UNCHANGED debouncer
  PROVE  DebouncerInv'
  <1>1. /\ UNCHANGED <<window, threaded, entries, key, received>> /\ Count' = Count
        /\ due' = due /\ last' = last
        /\ now' \in Nat
    BY DEF Tick, Wake, debouncer, Count, DebouncerInv, DebouncerTypeOK
  <1>2. /\ timer' \in [Messages -> {"none", "sleeping", "awake", "done"}]
        /\ \A m \in Messages : timer'[m] # "none" => timer[m] # "none"
    BY DEF Tick, Wake, debouncer, DebouncerInv, DebouncerTypeOK
  <1>3. DebouncerTypeOK' BY <1>1, <1>2 DEF DebouncerInv, DebouncerTypeOK
  <1>4. Filled' BY <1>1, <1>2 DEF DebouncerInv, Filled
  <1>5. Once' BY <1>1 DEF DebouncerInv, Once
  <1>6. InOrder' BY <1>1 DEF DebouncerInv, InOrder
  <1> QED BY <1>3, <1>4, <1>5, <1>6 DEF DebouncerInv

\* The entry of a sender goes to the receiver of its newest message.
LEMMA Fires ==
  ASSUME DebouncerInv, NEW t \in Messages, Fire(t)
  PROVE  DebouncerInv'
  <1>1. /\ Count \in Nat /\ received \in [Messages -> Seq(Messages)]
        /\ entries \in [Keys -> Seq(Messages)]
        /\ \A p \in 1 .. Count : p \in Messages /\ key[p] \in Keys
    <2>1. Count \in Nat /\ \A p \in 1 .. Count : key[p] \in Keys
      BY LenProperties, ElementOfSeq DEF Count, DebouncerInv, DebouncerTypeOK
    <2>2. MaxMessages \in Nat /\ Count <= MaxMessages
      BY DebounceConstants DEF DebouncerInv, DebouncerTypeOK
    <2>3. \A p \in 1 .. Count : p \in Messages BY <2>1, <2>2 DEF Messages
    <2> QED BY <2>1, <2>3 DEF DebouncerInv, DebouncerTypeOK
  <1>2. t \in 1 .. Count
    <2>1. t <= Count BY DEF Fire, DebouncerInv, Filled
    <2> QED BY <1>1, <2>1, Submitted
  <1>3. PICK k \in Keys : k = key[t] BY <1>1, <1>2
  <1>4. UNCHANGED <<window, threaded, key, due, last, now>> /\ Count' = Count
        /\ timer' = [timer EXCEPT ![t] = "done"]
    BY DEF Fire, Count
  <1>5. /\ timer' \in [Messages -> {"none", "sleeping", "awake", "done"}]
        /\ \A m \in Messages : timer'[m] # "none" => m <= Count
    BY <1>4 DEF Fire, DebouncerInv, DebouncerTypeOK, Filled
  <1>6. CASE UNCHANGED <<received, entries>>
    <2>1. DebouncerTypeOK' BY <1>4, <1>5, <1>6 DEF DebouncerInv, DebouncerTypeOK
    <2>2. Filled' BY <1>4, <1>5, <1>6 DEF DebouncerInv, Filled
    <2>3. Once' BY <1>4, <1>6 DEF DebouncerInv, Once
    <2>4. InOrder' BY <1>4, <1>6 DEF DebouncerInv, InOrder
    <2> QED BY <2>1, <2>2, <2>3, <2>4 DEF DebouncerInv
  <1>7. CASE HasEntry(k) /\ received' = [received EXCEPT ![Newest(k)] = entries[k]] /\ entries' = Taken(k)
    <2>1. /\ entries[k] \in Seq(Messages) /\ entries[k] # <<>>
          /\ Len(entries[k]) \in Nat /\ Len(entries[k]) \in 1 .. Len(entries[k])
          /\ 1 \in 1 .. Len(entries[k])
          /\ DOMAIN entries[k] = 1 .. Len(entries[k])
          /\ Elements(entries[k]) = {entries[k][i] : i \in 1 .. Len(entries[k])}
      BY <1>1, <1>7, ElementsOf, LenProperties DEF HasEntry
    <2>2. \A i \in 1 .. Len(entries[k]) : entries[k][i] \in 1 .. Count /\ key[entries[k][i]] = k
      <3> TAKE i \in 1 .. Len(entries[k])
      <3>1. entries[k][i] \in Messages BY <2>1, ElementOfSeq
      <3>2. entries[k][i] <= Count /\ key[entries[k][i]] = k BY DEF DebouncerInv, Filled
      <3> QED BY <3>1, <3>2, <1>1, Submitted
    <2>3. PICK n \in 1 .. Count : n = Newest(k) /\ n = entries[k][Len(entries[k])] /\ key[n] = k
      BY <2>1, <2>2 DEF Newest
    <2>4. n \in Elements(entries[k]) /\ n \in Messages BY <1>1, <2>1, <2>3
    <2>5. received[n] = <<>>
      <3> SUFFICES ASSUME received[n] # <<>> PROVE FALSE OBVIOUS
      <3>1. received[n][Len(received[n])] = n BY <2>3 DEF DebouncerInv, InOrder
      <3>2. n \in Elements(received[n]) BY <1>1, <2>4, <3>1, ElementsOf
      <3> QED BY <2>3, <2>4, <3>2 DEF DebouncerInv, Once
    <2>6. /\ received' \in [Messages -> Seq(Messages)] /\ received'[n] = entries[k]
          /\ \A q \in Messages \ {n} : received'[q] = received[q]
      BY <1>1, <1>7, <2>1, <2>3, <2>4
    <2>7. /\ entries' \in [Keys -> Seq(Messages)] /\ entries'[k] = <<>>
          /\ \A l \in Keys \ {k} : entries'[l] = entries[l]
      BY <1>1, <1>7, NoElements DEF Taken
    <2>8. \A i, j \in 1 .. Len(entries[k]) : i < j => entries[k][i] < entries[k][j]
      BY DEF DebouncerInv, Filled
    <2>9. \A i \in 1 .. Len(entries[k]) : entries[k][i] <= n
      <3> TAKE i \in 1 .. Len(entries[k])
      <3>1. i < Len(entries[k]) \/ i = Len(entries[k]) BY <2>1
      <3>2. entries[k][i] \in 1 .. Count BY <2>2
      <3>3. \A x \in 1 .. Count : x < n => x <= n BY <1>1
      <3>4. n <= n BY <1>1
      <3>5. i < Len(entries[k]) => entries[k][i] < n BY <2>1, <2>3, <2>8
      <3> QED BY <2>3, <3>1, <3>2, <3>3, <3>4, <3>5
    <2>10. \A p \in 1 .. Count : key[p] = k /\ received[p] # <<>> =>
             \A i \in 1 .. Len(entries[k]) : p < entries[k][i]
      BY DEF DebouncerInv, Filled
    <2>11. DebouncerTypeOK' BY <1>4, <1>5, <2>6, <2>7 DEF DebouncerInv, DebouncerTypeOK
    <2>12. Filled'
      <3>1. \A m \in Messages : timer'[m] # "none" \/ received'[m] # <<>> => m <= Count
        <4> TAKE m \in Messages
        <4>1. received'[m] # <<>> => m = n \/ received[m] # <<>> BY <2>6
        <4>2. n <= Count BY <1>1
        <4> QED BY <1>5, <4>1, <4>2 DEF DebouncerInv, Filled
      <3>2. \A m \in Messages : \A i \in 1 .. Len(received'[m]) : received'[m][i] <= m
        <4> TAKE m \in Messages
        <4>1. CASE m = n BY <2>6, <2>9, <4>1
        <4>2. CASE m # n BY <2>6, <4>2 DEF DebouncerInv, Filled
        <4> QED BY <4>1, <4>2
      <3>3. ASSUME NEW l \in Keys
            PROVE  /\ \A i \in 1 .. Len(entries'[l]) : entries'[l][i] <= Count /\ key[entries'[l][i]] = l
                   /\ \A i, j \in 1 .. Len(entries'[l]) : i < j => entries'[l][i] < entries'[l][j]
                   /\ \A p \in 1 .. Count : key[p] = l /\ received'[p] # <<>> =>
                        \A i \in 1 .. Len(entries'[l]) : p < entries'[l][i]
        <4>1. CASE l = k
          <5>1. 1 .. Len(entries'[l]) = {} BY <2>7, <4>1, NoElements
          <5> QED BY <5>1
        <4>2. CASE l # k
          <5>1. \A p \in 1 .. Count : key[p] = l => received'[p] = received[p]
            BY <1>1, <2>3, <2>6, <4>2
          <5> QED BY <2>7, <4>2, <5>1 DEF DebouncerInv, Filled
        <4> QED BY <4>1, <4>2
      <3> QED BY <1>4, <3>1, <3>2, <3>3 DEF Filled
    <2>13. Once'
      <3> SUFFICES ASSUME NEW x \in 1 .. Count
                   PROVE  \/ /\ x \in Elements(entries'[key[x]])
                             /\ \A q \in 1 .. Count : x \notin Elements(received'[q])
                          \/ /\ x \notin Elements(entries'[key[x]])
                             /\ \E q \in 1 .. Count :
                                  /\ x \in Elements(received'[q])
                                  /\ \A r \in 1 .. Count : x \in Elements(received'[r]) => r = q
        BY <1>4 DEF Once
      <3>1. x \in Elements(entries[k]) => key[x] = k BY <2>1, <2>2
      <3>2. \A q \in 1 .. Count : q # n => received'[q] = received[q] BY <1>1, <2>6
      <3>3. Elements(received[n]) = {} /\ Elements(entries'[k]) = {} BY <2>5, <2>7, NoElements
      <3>4. CASE x \in Elements(entries[k])
        <4>1. \A q \in 1 .. Count : x \notin Elements(received[q])
          BY <3>1, <3>4 DEF DebouncerInv, Once
        <4> QED BY <2>6, <3>1, <3>2, <3>3, <3>4, <4>1
      <3>5. CASE x \notin Elements(entries[k])
        <4>1. x \in Elements(entries'[key[x]]) <=> x \in Elements(entries[key[x]])
          BY <1>1, <2>7, <3>3, <3>5
        <4>2. \A q \in 1 .. Count : x \in Elements(received'[q]) <=> x \in Elements(received[q])
          BY <2>6, <3>2, <3>3, <3>5
        <4> QED BY <4>1, <4>2 DEF DebouncerInv, Once
      <3> QED BY <3>4, <3>5
    <2>14. InOrder'
      <3> SUFFICES ASSUME NEW q \in 1 .. Count, received'[q] # <<>>
                   PROVE  /\ received'[q][Len(received'[q])] = q
                          /\ \A i, j \in DOMAIN received'[q] : i < j => received'[q][i] < received'[q][j]
                          /\ \A i \in DOMAIN received'[q] : key[received'[q][i]] = key[q]
                          /\ \A p \in 1 .. q - 1 : key[p] = key[q] /\ received'[p] # <<>> => received'[q][1] > p
        BY <1>4 DEF InOrder
      <3>1. CASE q = n
        <4>1. \A p \in 1 .. q - 1 : p \in 1 .. Count /\ received'[p] = received[p]
          BY <1>1, <2>6, <3>1
        <4>2. \A p \in 1 .. q - 1 : key[p] = key[q] /\ received[p] # <<>> => p < entries[k][1]
          BY <2>1, <2>3, <2>10, <3>1, <4>1
        <4>3. entries[k][1] \in 1 .. Count BY <2>1, <2>2
        <4>4. \A p \in 1 .. q - 1 : p < entries[k][1] => entries[k][1] > p BY <4>3
        <4>5. received'[q] = entries[k] /\ key[q] = k BY <2>3, <2>6, <3>1
        <4>6. entries[k][Len(entries[k])] = q BY <2>3, <3>1
        <4>7. \A i, j \in DOMAIN entries[k] : i < j => entries[k][i] < entries[k][j] BY <2>1, <2>8
        <4>8. \A i \in DOMAIN entries[k] : key[entries[k][i]] = key[q] BY <2>1, <2>2, <4>5
        <4>9. \A p \in 1 .. q - 1 : key[p] = key[q] /\ received'[p] # <<>> => entries[k][1] > p
          BY <4>1, <4>2, <4>4
        <4> QED BY <4>5, <4>6, <4>7, <4>8, <4>9
      <3>2. CASE q # n
        <4>1. received'[q] = received[q] /\ received[q] \in Seq(Messages) BY <1>1, <2>6, <3>2
        <4>2. /\ received[q][Len(received[q])] = q
              /\ \A i, j \in DOMAIN received[q] : i < j => received[q][i] < received[q][j]
              /\ \A i \in DOMAIN received[q] : key[received[q][i]] = key[q]
              /\ \A p \in 1 .. q - 1 : key[p] = key[q] /\ received[p] # <<>> => received[q][1] > p
          BY <4>1 DEF DebouncerInv, InOrder
        <4>3. ASSUME n \in 1 .. q - 1, key[n] = key[q] PROVE FALSE
          <5>1. q < entries[k][Len(entries[k])] BY <2>1, <2>3, <2>10, <4>1, <4>3
          <5> QED BY <1>1, <2>3, <4>3, <5>1
        <4>4. \A p \in 1 .. q - 1 : p \in Messages BY <1>1
        <4>5. \A p \in 1 .. q - 1 : key[p] = key[q] => received'[p] = received[p]
          BY <2>6, <4>3, <4>4
        <4> QED BY <4>1, <4>2, <4>5
      <3> QED BY <3>1, <3>2
    <2> QED BY <2>11, <2>12, <2>13, <2>14 DEF DebouncerInv
  <1> QED BY <1>3, <1>6, <1>7 DEF Fire

\* ExactlyOnce follows from its form without cardinalities.
LEMMA CombinesOnce == DebouncerInv => CombinedOnce
  <1> SUFFICES ASSUME DebouncerInv PROVE ExactlyOnce
    BY DEF CombinedOnce, DebouncerInv
  <1> SUFFICES ASSUME NEW x \in 1 .. Count
               PROVE  LET holders == {m \in 1 .. Count : x \in Elements(received[m])}
                      IN  IF x \in Elements(entries[key[x]]) THEN holders = {} ELSE Cardinality(holders) = 1
    BY DEF ExactlyOnce
  <1> DEFINE holders == {m \in 1 .. Count : x \in Elements(received[m])}
  <1>1. CASE /\ x \in Elements(entries[key[x]])
             /\ \A m \in 1 .. Count : x \notin Elements(received[m])
    BY <1>1
  <1>2. CASE /\ x \notin Elements(entries[key[x]])
             /\ \E m \in 1 .. Count :
                  /\ x \in Elements(received[m])
                  /\ \A n \in 1 .. Count : x \in Elements(received[n]) => n = m
    <2>1. PICK m : holders = {m} BY <1>2
    <2>2. Cardinality(holders) = 1 BY <2>1, FS_Singleton
    <2> QED BY <1>2, <2>2
  <1> QED BY <1>1, <1>2 DEF DebouncerInv, Once

-----------------------------------------------------------------------------
(* The dispatch.                                                           *)

Blocked == {"interrupting", "checking", "subscribing", "waiting"}
Active == Blocked \cup {"ready", "running"}
Over == {"processed", "marking", "notifying", "leaving", "ended"}

\* Who holds a permit.
Busy == {m \in Messages : pc[m] \in (Active \cup Over \cup {"admitted"}) \ {"ended"}}

\* Where tasks and entries of the maps come from: the task of a message that is held
\* back is the one that collects; whoever is to be woken waits; a worker that waits
\* found a predecessor; who is done is past its turn.
Known ==
  /\ \A m \in Messages : pc[m] # "none" => m <= Count
  /\ \A k \in Keys : HasEntry(k) =>
       /\ window > 0 /\ k \notin CliKeys
       /\ pc[Newest(k)] = "collecting"
  /\ \A p, q \in Messages : q \in waiting[p] => pc[q] = "waiting" /\ previous[q] = p
  /\ \A m \in Messages : pc[m] \in Blocked => interrupts /\ Registers(m) /\ previous[m] \in Messages
  /\ \A m \in done : pc[m] \in {"notifying", "leaving", "ended"}

\* The variables of the dispatch, but for the permits.
Types ==
  /\ interrupts \in BOOLEAN
  /\ inFlight \in [Keys -> Messages \cup {None}]
  /\ pc \in [Messages -> Phases]
  /\ previous \in [Messages -> Messages \cup {None}]
  /\ cancelled \subseteq Messages /\ done \subseteq Messages
  /\ waiting \in [Messages -> SUBSET Messages]
  /\ stopping \in Messages \cup {None} /\ stops \in 0 .. MaxStops

\* A permit is free or held by one worker.
PermitsExact == permits \in Nat /\ permits + Cardinality(Busy) = MaxInFlight

Inv == DebouncerInv /\ Types /\ Known /\ PermitsExact

-----------------------------------------------------------------------------
(* The debouncer in the dispatch. *)

LEMMA Numbers ==
  ASSUME DebouncerInv
  PROVE  /\ Count \in Nat /\ MaxMessages \in Nat /\ Count <= MaxMessages
         /\ \A m \in Messages : m <= Count => m \in 1 .. Count /\ key[m] \in Keys
         /\ \A m \in 1 .. Count : m \in Messages
         /\ None \notin Messages
         /\ key \in Seq(Keys) /\ entries \in [Keys -> Seq(Messages)]
  <1>1. /\ Count \in Nat /\ MaxMessages \in Nat /\ Count <= MaxMessages
        /\ key \in Seq(Keys) /\ entries \in [Keys -> Seq(Messages)]
        /\ \A m \in 1 .. Count : key[m] \in Keys
    BY DebounceConstants, LenProperties, ElementOfSeq DEF Count, DebouncerInv, DebouncerTypeOK
  <1> QED BY <1>1 DEF Messages, None

\* The newest message of an entry is a submitted one of the sender.
LEMMA NewestOf ==
  ASSUME DebouncerInv, NEW k \in Keys, HasEntry(k)
  PROVE  Newest(k) \in 1 .. Count /\ Newest(k) \in Messages /\ key[Newest(k)] = k
  <1>1. entries[k] \in Seq(Messages) /\ entries[k] # <<>> BY Numbers DEF HasEntry
  <1>2. Len(entries[k]) \in 1 .. Len(entries[k]) BY <1>1, ElementsOf
  <1>3. Newest(k) \in Messages /\ Newest(k) <= Count /\ key[Newest(k)] = k
    BY <1>1, <1>2, ElementOfSeq DEF Newest, DebouncerInv, Filled
  <1> QED BY <1>3, Numbers

LEMMA DebouncerStep ==
  ASSUME Inv, [Next]_vars
  PROVE  DebouncerInv'
  <1>1. DebouncerInv /\ \A k \in Keys : HasEntry(k) => window > 0 /\ k \notin CliKeys
    BY DEF Inv, Known
  <1>2. ASSUME NEW k \in Keys, Receive(k) PROVE DebouncerInv'
    <2>1. CASE Passthrough(k) /\ (window = 0 \/ k \in CliKeys)
      <3>1. entries[k] = <<>> BY <1>1, <2>1 DEF HasEntry
      <3> QED BY <1>1, <2>1, <3>1, PassesThrough
    <2>2. CASE Collect(k) BY <1>1, <2>2, Collects
    <2> QED BY <1>2, <2>1, <2>2 DEF Receive, Debounce
  <1>3. ASSUME NEW t \in Messages, Expire(t) PROVE DebouncerInv'
    BY <1>1, <1>3, Fires DEF Expire
  <1>4. CASE Tick \/ \E t \in Messages : Wake(t) BY <1>1, <1>4, TimePasses
  <1>5. CASE UNCHANGED debouncer BY <1>1, <1>5, TimePasses
  <1>6. \/ UNCHANGED debouncer \/ Tick \/ (\E t \in Messages : Wake(t))
        \/ (\E k \in Keys : Receive(k)) \/ \E t \in Messages : Expire(t)
    BY DEF Next, Tasks, vars, Stop, StopCancels, Admit, Worker, Register, Interrupt, CheckDone,
           Subscribe, Begin, Finish, Unregister, MarkDone, Notify, Leave, loop
  <1> QED BY <1>2, <1>3, <1>4, <1>5, <1>6

-----------------------------------------------------------------------------
(* The types and the permits. *)

LEMMA BusyFinite ==
  /\ IsFiniteSet(Busy) /\ Cardinality(Busy) \in Nat
  /\ \A m : Cardinality(Busy \cup {m}) = IF m \in Busy THEN Cardinality(Busy) ELSE Cardinality(Busy) + 1
  /\ \A m : Cardinality(Busy \ {m}) = IF m \in Busy THEN Cardinality(Busy) - 1 ELSE Cardinality(Busy)
  /\ \A m \in Busy : Cardinality(Busy) # 0
  <1>1. IsFiniteSet(Messages) BY DebounceConstants, FS_Interval DEF Messages
  <1>2. Busy \in SUBSET Messages BY DEF Busy
  <1>3. IsFiniteSet(Busy) BY <1>1, <1>2, FS_Subset
  <1> QED BY <1>3, FS_CardinalityType, FS_AddElement, FS_RemoveElement, FS_EmptySet

LEMMA InitInv == Init => Inv
  <1> SUFFICES ASSUME Init PROVE Inv OBVIOUS
  <1> USE DEF Init
  <1>1. DebouncerInv BY InitDebouncer
  <1>2. Types BY DispatchConstants DEF Types, Phases
  <1>3. Known
    <2>1. \A k \in Keys : ~HasEntry(k) BY DEF DebouncerInit, HasEntry
    <2> QED BY <2>1 DEF Known, Blocked
  <1>4. PermitsExact
    <2>1. Busy = {} BY DEF Busy, Active, Blocked, Over
    <2> QED BY <2>1, FS_EmptySet, DispatchConstants DEF PermitsExact
  <1> QED BY <1>1, <1>2, <1>3, <1>4 DEF Inv

\* A message arrives and passes through, or is held back.
LEMMA ReceiveInv ==
  ASSUME Inv, NEW k \in Keys, Receive(k)
  PROVE  Types' /\ Known' /\ Busy' = Busy /\ permits' = permits
  <1> DEFINE m == Count + 1
  <1>1. /\ Count \in Nat /\ m \in Messages /\ ~(m <= Count) /\ pc[m] = "none"
        /\ key \in Seq(Keys) /\ pc \in [Messages -> Phases]
        /\ entries \in [Keys -> Seq(Messages)]
        /\ \A q \in Messages : q <= Count => key[q] \in Keys
    <2>1. Count \in Nat /\ m <= MaxMessages /\ MaxMessages \in Nat
      BY Numbers DEF Receive, Debounce, Passthrough, Collect, Inv
    <2>2. m \in Messages /\ ~(m <= Count) BY <2>1 DEF Messages
    <2> QED BY <2>1, <2>2, Numbers DEF Inv, Types, Known
  <1>2. UNCHANGED <<interrupts, permits, inFlight, previous, cancelled, done, waiting, stopping, stops, window>>
    BY DEF Receive, tokens, Debounce, Passthrough, Collect
  <1>3. /\ key' = Append(key, k) /\ Count' = m
        /\ \A q \in Messages : q <= Count => key'[q] = key[q]
    <2>1. key' = Append(key, k) BY DEF Receive, Debounce, Passthrough, Collect
    <2>2. Len(key') = Len(key) + 1 /\ \A q \in 1 .. Len(key) : key'[q] = key[q]
      BY <1>1, <2>1, Grown
    <2>3. \A q \in Messages : q <= Count => q \in 1 .. Len(key) BY <1>1 DEF Count, Messages
    <2> QED BY <2>1, <2>2, <2>3 DEF Count
  <1>4. CASE Passthrough(k) /\ (window = 0 \/ k \in CliKeys)
    <2>1. entries' = entries /\ received'[m] = <<m>>
      BY <1>1, <1>4 DEF Passthrough, Inv, DebouncerInv, DebouncerTypeOK
    <2>2. pc' = [pc EXCEPT ![m] = "received"]
      <3>1. <<m>> # <<>> OBVIOUS
      <3> QED BY <2>1, <3>1 DEF Receive
    <2> HIDE DEF m
    <2>3. Types' BY <1>1, <1>2, <2>2 DEF Inv, Types, Phases
    <2>4. Busy' = Busy BY <1>1, <2>2 DEF Busy, Active, Blocked, Over
    <2>5. Known'
      <3>1. \A q \in Messages : pc'[q] # "none" => q <= Count'
        <4> TAKE q \in Messages
        <4>1. CASE q = m BY <1>1, <1>3, <4>1 DEF m
        <4>2. CASE q # m
          <5>1. q \in Nat /\ (q <= Count => q <= m) BY <1>1 DEF Messages, m
          <5> QED BY <1>1, <1>3, <2>2, <4>2, <5>1 DEF Inv, Known
        <4> QED BY <4>1, <4>2
      <3>2. ASSUME NEW l \in Keys, HasEntry(l)
            PROVE  window > 0 /\ l \notin CliKeys /\ pc'[Newest(l)] = "collecting"
        <4>1. window > 0 /\ l \notin CliKeys /\ pc[Newest(l)] = "collecting" BY <3>2 DEF Inv, Known
        <4>2. Newest(l) \in Messages BY <3>2, NewestOf DEF Inv
        <4> QED BY <1>1, <2>2, <4>1, <4>2
      <3>3. \A q \in Messages : pc'[q] \in Blocked => pc[q] \in Blocked /\ key'[q] = key[q]
        BY <1>1, <1>3, <2>2 DEF Blocked, Inv, Known
      <3>4. \A q \in Messages : pc[q] # "none" => pc'[q] = pc[q] BY <1>1, <2>2
      <3> QED BY <1>2, <2>1, <3>1, <3>2, <3>3, <3>4 DEF Inv, Types, Known, HasEntry, Newest, Registers
    <2> QED BY <1>2, <2>3, <2>4, <2>5
  <1>5. CASE Collect(k) /\ window > 0 /\ k \notin CliKeys
    <2>1. /\ entries' = [entries EXCEPT ![k] = Append(entries[k], m)]
          /\ received'[m] = <<>>
      BY <1>1, <1>5 DEF Collect, Collected, Inv, DebouncerInv, Filled
    <2>2. pc' = [q \in Messages |-> IF q = m THEN "collecting"
                                    ELSE IF HasEntry(k) /\ q = Newest(k) THEN "superseded" ELSE pc[q]]
      BY <2>1 DEF Receive, Overtaken
    <2>3. /\ entries'[k] # <<>> /\ entries'[k][Len(entries'[k])] = m
          /\ \A l \in Keys \ {k} : entries'[l] = entries[l]
      <3>1. entries[k] \in Seq(Messages) /\ entries'[k] = Append(entries[k], m) BY <1>1, <2>1
      <3>2. Len(entries'[k]) = Len(entries[k]) + 1 /\ Len(entries[k]) \in Nat
            /\ entries'[k][Len(entries[k]) + 1] = m
        BY <1>1, <3>1, Grown
      <3>3. entries'[k] # <<>> BY <3>2, EmptySeq
      <3> QED BY <1>1, <2>1, <3>2, <3>3
    <2> HIDE DEF m
    <2>4. HasEntry(k) => Newest(k) \in Messages /\ pc[Newest(k)] = "collecting" /\ Newest(k) <= Count
      BY NewestOf, <1>1 DEF Inv, Known
    <2>5. \A q \in Messages : pc[q] \notin {"none", "collecting"} => pc'[q] = pc[q]
      BY <1>1, <2>2, <2>4
    <2>6. \A q \in Messages : pc[q] \in {"none", "collecting"} =>
            pc'[q] \in {"none", "collecting", "superseded"}
      BY <1>1, <2>2, <2>4
    <2>7. Types'
      <3>1. pc' \in [Messages -> Phases] BY <1>1, <2>2 DEF Phases
      <3> QED BY <1>2, <3>1 DEF Inv, Types
    <2>8. Busy' = Busy BY <2>5, <2>6 DEF Busy, Active, Blocked, Over
    <2>9. Known'
      <3>1. \A q \in Messages : pc'[q] # "none" => q <= Count'
        <4> TAKE q \in Messages
        <4>1. CASE q = m BY <1>1, <1>3, <4>1 DEF m
        <4>2. CASE q # m
          <5>1. q \in Nat /\ (q <= Count => q <= m) BY <1>1 DEF Messages, m
          <5>2. pc'[q] # "none" => pc[q] # "none" BY <2>2, <2>4, <4>2
          <5> QED BY <1>3, <5>1, <5>2 DEF Inv, Known
        <4> QED BY <4>1, <4>2
      <3>2. ASSUME NEW l \in Keys, entries'[l] # <<>>
            PROVE  window > 0 /\ l \notin CliKeys /\ pc'[entries'[l][Len(entries'[l])]] = "collecting"
        <4>1. CASE l = k BY <1>1, <1>5, <2>2, <2>3, <4>1
        <4>2. CASE l # k
          <5>1. entries'[l] = entries[l] /\ HasEntry(l) BY <2>3, <3>2, <4>2 DEF HasEntry
          <5>2. window > 0 /\ l \notin CliKeys /\ pc[Newest(l)] = "collecting" BY <5>1 DEF Inv, Known
          <5>3. Newest(l) \in Messages /\ key[Newest(l)] = l BY <5>1, NewestOf DEF Inv
          <5>4. HasEntry(k) => Newest(l) # Newest(k) BY <4>2, <5>3, NewestOf DEF Inv
          <5>5. pc'[Newest(l)] = "collecting" BY <2>2, <5>2, <5>3, <5>4
          <5> QED BY <5>1, <5>2, <5>5 DEF Newest
        <4> QED BY <4>1, <4>2
      <3>3. \A q \in Messages : pc'[q] \in Blocked => pc[q] \in Blocked /\ key'[q] = key[q]
        <4> TAKE q \in Messages
        <4>1. pc'[q] \in Blocked => pc[q] \in Blocked BY <2>5, <2>6 DEF Blocked
        <4>2. pc[q] \in Blocked => q <= Count BY DEF Inv, Known, Blocked
        <4> QED BY <1>3, <4>1, <4>2
      <3>4. \A p, q \in Messages : q \in waiting[p] => pc'[q] = "waiting" /\ previous[q] = p
        BY <2>5 DEF Inv, Known
      <3>5. \A q \in done : pc'[q] \in {"notifying", "leaving", "ended"}
        BY <2>5 DEF Inv, Known, Types
      <3>6. \A q \in Messages : pc'[q] \in Blocked => interrupts /\ key'[q] \notin CliKeys /\ previous[q] \in Messages
        BY <3>3 DEF Inv, Known, Registers
      <3> QED BY <1>2, <3>1, <3>2, <3>4, <3>5, <3>6 DEF Known, HasEntry, Newest, Registers
    <2> QED BY <1>2, <2>7, <2>8, <2>9
  <1> QED BY <1>4, <1>5 DEF Receive, Debounce

\* A timer fires, and the task that collects goes on.
LEMMA ExpireInv ==
  ASSUME Inv, NEW t \in Messages, Expire(t)
  PROVE  Types' /\ Known' /\ Busy' = Busy /\ permits' = permits
  <1>1. /\ pc \in [Messages -> Phases] /\ entries \in [Keys -> Seq(Messages)]
        /\ UNCHANGED <<interrupts, permits, inFlight, previous, cancelled, done, waiting, stopping, stops, window, key>>
        /\ Count' = Count
    BY Numbers DEF Expire, Fire, tokens, Count, Inv, Types
  <1>2. PICK k \in Keys : k = key[t]
    <2>1. t <= Count BY DEF Expire, Fire, Inv, DebouncerInv, Filled
    <2> QED BY <2>1, Numbers DEF Inv
  <1>3. CASE HasEntry(k)
    <2>1. entries' = [entries EXCEPT ![k] = <<>>] BY <1>2, <1>3 DEF Expire, Fire, Taken
    <2>2. PICK n \in Messages : n = Newest(k) /\ key[n] = k /\ pc[n] = "collecting"
      BY <1>3, NewestOf DEF Inv, Known
    <2>3. pc' = [pc EXCEPT ![n] = "queued"]
      <3>1. pc' = [q \in Messages |-> IF q = n THEN "queued" ELSE pc[q]]
        BY <1>2, <1>3, <2>2 DEF Expire
      <3> QED BY <1>1, <3>1
    <2>4. Types' BY <1>1, <2>3 DEF Inv, Types, Phases
    <2>5. Busy' = Busy BY <1>1, <2>2, <2>3 DEF Busy, Active, Blocked, Over
    <2>6. ASSUME NEW l \in Keys, entries'[l] # <<>>
          PROVE  window > 0 /\ l \notin CliKeys /\ pc'[entries'[l][Len(entries'[l])]] = "collecting"
      <3>1. l # k BY <1>1, <2>1, <2>6
      <3>2. entries'[l] = entries[l] /\ HasEntry(l) BY <1>1, <2>1, <2>6, <3>1 DEF HasEntry
      <3>3. window > 0 /\ l \notin CliKeys /\ pc[Newest(l)] = "collecting" BY <3>2 DEF Inv, Known
      <3>4. Newest(l) \in Messages /\ Newest(l) # n BY <2>2, <3>1, <3>2, NewestOf DEF Inv
      <3>5. pc'[Newest(l)] = "collecting" BY <1>1, <2>3, <3>3, <3>4
      <3> QED BY <3>2, <3>3, <3>5 DEF Newest
    <2>7. \A q \in Messages : q # n => pc'[q] = pc[q] BY <1>1, <2>3
    <2>8. \A q \in Messages : pc'[q] # "none" => q <= Count
      BY <2>2, <2>7 DEF Inv, Known
    <2>9. \A p, q \in Messages : q \in waiting[p] => pc'[q] = "waiting" /\ previous[q] = p
      BY <2>2, <2>7 DEF Inv, Known
    <2>10. pc'[n] = "queued" BY <1>1, <2>3
    <2>11. \A q \in Messages : pc'[q] \in Blocked => interrupts /\ Registers(q) /\ previous[q] \in Messages
      BY <2>7, <2>10 DEF Inv, Known, Blocked
    <2>12. \A q \in done : pc'[q] \in {"notifying", "leaving", "ended"}
      BY <2>2, <2>7 DEF Inv, Known, Types
    <2>13. Known' BY <1>1, <2>6, <2>8, <2>9, <2>11, <2>12 DEF Known, HasEntry, Newest, Registers
    <2> QED BY <1>1, <2>4, <2>5, <2>13
  <1>4. CASE ~HasEntry(k)
    <2>1. entries' = entries BY <1>2, <1>4 DEF Expire, Fire
    <2>2. pc' = pc
      <3>1. pc' = [q \in Messages |-> pc[q]] BY <1>2, <1>4 DEF Expire
      <3> QED BY <1>1, <3>1
    <2>3. Types' BY <1>1, <2>2 DEF Inv, Types
    <2>4. Known' BY <1>1, <2>1, <2>2 DEF Inv, Known, HasEntry, Newest, Registers
    <2>5. Busy' = Busy BY <2>2 DEF Busy
    <2> QED BY <1>1, <2>3, <2>4, <2>5
  <1> QED BY <1>3, <1>4

\* A worker goes from one phase to another, and nobody waits to be woken by it but as
\* the step says.
LEMMA WorkerGoes ==
  ASSUME Inv, NEW m \in Messages, NEW p \in Phases \ {"none"},
         UNCHANGED <<interrupts, entries, key, window>>,
         pc' = [pc EXCEPT ![m] = p],
         pc[m] \notin {"none", "collecting", "waiting"},
         \A q \in Messages \ {m} : previous'[q] = previous[q],
         p \in Blocked => interrupts /\ Registers(m) /\ previous'[m] \in Messages,
         \A a, q \in Messages : q \in waiting'[a] => q \in waiting[a] \/ (q = m /\ p = "waiting" /\ previous'[m] = a),
         done' \subseteq Messages,
         \A q \in done' : q \in done \/ q = m,
         m \in done' => p \in {"notifying", "leaving", "ended"}
  PROVE  Known'
  <1>1. /\ pc \in [Messages -> Phases] /\ pc'[m] = p
        /\ \A q \in Messages \ {m} : pc'[q] = pc[q]
    BY DEF Inv, Types
  <1>2. Count' = Count BY DEF Count
  <1>3. \A q \in Messages : pc'[q] # "none" => q <= Count
    BY <1>1 DEF Inv, Known
  <1>4. ASSUME NEW k \in Keys, HasEntry(k)
        PROVE  window > 0 /\ k \notin CliKeys /\ pc'[Newest(k)] = "collecting"
    <2>1. window > 0 /\ k \notin CliKeys /\ pc[Newest(k)] = "collecting" BY <1>4 DEF Inv, Known
    <2>2. Newest(k) \in Messages BY <1>4, NewestOf DEF Inv
    <2> QED BY <1>1, <2>1, <2>2
  <1>5. \A a, q \in Messages : q \in waiting'[a] => pc'[q] = "waiting" /\ previous'[q] = a
    <2> TAKE a, q \in Messages
    <2>1. q \in waiting[a] => q # m /\ pc'[q] = "waiting" /\ previous'[q] = a
      BY <1>1 DEF Inv, Known
    <2> QED BY <1>1, <2>1
  <1>6. \A q \in Messages : pc'[q] \in Blocked => interrupts /\ Registers(q) /\ previous'[q] \in Messages
    BY <1>1 DEF Inv, Known
  <1>7. \A q \in done' : pc'[q] \in {"notifying", "leaving", "ended"}
    BY <1>1 DEF Inv, Known
  <1> QED BY <1>2, <1>3, <1>4, <1>5, <1>6, <1>7 DEF Known, HasEntry, Newest, Registers

LEMMA WorkerKnown ==
  ASSUME Inv, NEW m \in Messages, Worker(m)
  PROVE  Types' /\ Known'
  <1>1. /\ pc \in [Messages -> Phases] /\ previous \in [Messages -> Messages \cup {None}]
        /\ waiting \in [Messages -> SUBSET Messages] /\ inFlight \in [Keys -> Messages \cup {None}]
        /\ done \subseteq Messages /\ cancelled \subseteq Messages
        /\ None \notin Messages
    BY Numbers DEF Inv, Types
  <1>2. UNCHANGED <<interrupts, entries, key, window, stopping, stops>>
    BY DEF Worker, Register, Interrupt, CheckDone, Subscribe, Begin, Finish, Unregister, MarkDone, Notify,
           Leave, loop, debouncer
  <1>3. pc[m] # "none" => key[m] \in Keys BY Numbers DEF Inv, Known
  <1>4. m \in done => pc[m] \in {"notifying", "leaving", "ended"} BY DEF Inv, Known
  <1> USE DEF Goto
  <1>5. CASE Register(m)
    <2>1. PICK p \in {"ready", "interrupting"} : pc' = [pc EXCEPT ![m] = p] BY <1>5 DEF Register
    <2>2. /\ pc[m] = "admitted" /\ UNCHANGED <<cancelled, done, waiting>>
          /\ \A q \in Messages \ {m} : previous'[q] = previous[q]
          /\ previous' \in [Messages -> Messages \cup {None}]
          /\ inFlight' \in [Keys -> Messages \cup {None}]
      BY <1>1, <1>3, <1>5 DEF Register, Registered, tokens
    <2>3. p = "interrupting" => interrupts /\ Registers(m) /\ previous'[m] \in Messages
      <3> HAVE p = "interrupting"
      <3>1. pc'[m] = "interrupting" BY <1>1, <2>1
      <3>2. Registers(m) /\ interrupts /\ inFlight[key[m]] # None /\ previous' = [previous EXCEPT ![m] = inFlight[key[m]]]
        BY <1>1, <1>5, <3>1 DEF Register
      <3> QED BY <1>1, <1>3, <2>2, <3>2
    <2>4. p \in Phases \ {"none"} BY DEF Phases
    <2>5. Known' BY <1>1, <1>2, <1>4, <2>1, <2>2, <2>3, <2>4, WorkerGoes DEF Blocked
    <2>6. Types' BY <1>1, <1>2, <2>1, <2>2, <2>4 DEF Inv, Types
    <2> QED BY <2>5, <2>6
  <1>6. CASE Interrupt(m)
    <2>1. /\ pc' = [pc EXCEPT ![m] = "checking"] /\ pc[m] = "interrupting"
          /\ UNCHANGED <<done, waiting, previous, inFlight>> /\ cancelled' = cancelled \cup {previous[m]}
      BY <1>6 DEF Interrupt, AfterInterrupt
    <2>2. interrupts /\ Registers(m) /\ previous[m] \in Messages BY <2>1 DEF Inv, Known, Blocked
    <2>3. "checking" \in Phases \ {"none"} BY DEF Phases
    <2>4. Known' BY <1>1, <1>2, <1>4, <2>1, <2>2, <2>3, WorkerGoes
    <2>5. Types' BY <1>1, <1>2, <2>1, <2>2, <2>3 DEF Inv, Types
    <2> QED BY <2>4, <2>5
  <1>7. CASE CheckDone(m)
    <2>1. PICK p \in {"ready", "subscribing", "waiting"} : pc' = [pc EXCEPT ![m] = p] BY <1>7 DEF CheckDone
    <2>2. pc[m] = "checking" /\ UNCHANGED <<done, cancelled, previous, inFlight>> BY <1>7 DEF CheckDone, tokens
    <2>3. interrupts /\ Registers(m) /\ previous[m] \in Messages BY <2>2 DEF Inv, Known, Blocked
    <2>4. /\ waiting' \in [Messages -> SUBSET Messages]
          /\ \A a, q \in Messages : q \in waiting'[a] => q \in waiting[a] \/ (q = m /\ p = "waiting" /\ previous[m] = a)
      <3>1. CASE waiting' = waiting BY <1>1, <3>1
      <3>2. CASE ~threaded /\ pc'[m] = "waiting" /\ waiting' = [waiting EXCEPT ![previous[m]] = @ \cup {m}]
        BY <1>1, <2>1, <2>3, <3>2
      <3> QED BY <1>1, <1>7, <3>1, <3>2 DEF CheckDone, tokens
    <2>5. p \in Phases \ {"none"} BY DEF Phases
    <2>6. Known' BY <1>1, <1>2, <1>4, <2>1, <2>2, <2>3, <2>4, <2>5, WorkerGoes
    <2>7. Types' BY <1>1, <1>2, <2>1, <2>2, <2>4, <2>5 DEF Inv, Types
    <2> QED BY <2>6, <2>7
  <1>8. CASE Subscribe(m)
    <2>1. /\ pc' = [pc EXCEPT ![m] = "waiting"] /\ pc[m] = "subscribing"
          /\ UNCHANGED <<done, cancelled, previous, inFlight>>
          /\ waiting' = [waiting EXCEPT ![previous[m]] = @ \cup {m}]
      BY <1>8 DEF Subscribe
    <2>2. interrupts /\ Registers(m) /\ previous[m] \in Messages BY <2>1 DEF Inv, Known, Blocked
    <2>3. /\ waiting' \in [Messages -> SUBSET Messages]
          /\ \A a, q \in Messages : q \in waiting'[a] => q \in waiting[a] \/ (q = m /\ previous[m] = a)
      BY <1>1, <2>1, <2>2
    <2>4. "waiting" \in Phases \ {"none"} BY DEF Phases
    <2>5. Known' BY <1>1, <1>2, <1>4, <2>1, <2>2, <2>3, <2>4, WorkerGoes
    <2>6. Types' BY <1>1, <1>2, <2>1, <2>3, <2>4 DEF Inv, Types
    <2> QED BY <2>5, <2>6
  <1>9. CASE Begin(m) \/ Finish(m) \/ Unregister(m) \/ MarkDone(m) \/ Leave(m)
    <2>1. PICK p \in {"processed", "running", "marking", "notifying", "ended"} : pc' = [pc EXCEPT ![m] = p]
      BY <1>9 DEF Begin, Finish, Unregister, MarkDone, Leave
    <2>2. /\ pc[m] \in {"ready", "running", "processed", "marking", "leaving"}
          /\ UNCHANGED <<cancelled, previous, waiting>>
      BY <1>9 DEF Begin, Finish, Unregister, MarkDone, Leave, tokens
    <2>3. /\ done' \subseteq Messages /\ \A q \in done' : q \in done \/ q = m
          /\ m \in done' => p \in {"notifying", "leaving", "ended"}
      <3>1. CASE done' = done
        <4>1. m \in done => pc[m] = "leaving" BY <1>4, <2>2
        <4>2. pc[m] = "leaving" => pc'[m] = "ended" BY <1>1, <1>9 DEF Begin, Finish, Unregister, MarkDone, Leave
        <4> QED BY <1>1, <2>1, <3>1, <4>1, <4>2
      <3>2. CASE MarkDone(m) BY <1>1, <2>1, <3>2 DEF MarkDone
      <3> QED BY <1>9, <3>1, <3>2 DEF Begin, Finish, Unregister, Leave, tokens
    <2>4. inFlight' \in [Keys -> Messages \cup {None}]
      <3>1. CASE inFlight' = inFlight BY <1>1, <3>1
      <3>2. CASE inFlight' = Unregistered(m) BY <1>1, <3>2 DEF Unregistered
      <3> QED BY <1>9, <3>1, <3>2 DEF Begin, Finish, Unregister, MarkDone, Leave
    <2>5. p \in Phases \ {"none"} /\ p \notin Blocked /\ p # "waiting" BY DEF Phases, Blocked
    <2>6. pc[m] \notin {"none", "collecting", "waiting"} BY <2>2
    <2>7. Known' BY <1>1, <1>2, <2>1, <2>2, <2>3, <2>5, <2>6, WorkerGoes
    <2>8. Types' BY <1>1, <1>2, <2>1, <2>2, <2>3, <2>4, <2>5 DEF Inv, Types
    <2> QED BY <2>7, <2>8
  <1>10. CASE Notify(m)
    <2>1. /\ pc' = [q \in Messages |-> IF q = m THEN "leaving" ELSE IF q \in waiting[m] THEN "ready" ELSE pc[q]]
          /\ waiting' = [waiting EXCEPT ![m] = {}]
          /\ UNCHANGED <<cancelled, done, previous, inFlight, debouncer>> /\ pc[m] = "notifying"
      BY <1>10 DEF Notify, Woken, loop
    <2>2. \A q \in Messages : q \in waiting[m] => pc[q] = "waiting" /\ previous[q] = m BY DEF Inv, Known
    <2>3. pc' \in [Messages -> Phases] /\ waiting' \in [Messages -> SUBSET Messages]
      BY <1>1, <2>1 DEF Phases
    <2>4. Types' BY <1>1, <1>2, <2>1, <2>3 DEF Inv, Types
    <2>5. Count' = Count /\ pc'[m] = "leaving"
          /\ \A q \in Messages : pc'[q] = pc[q] \/ (pc[q] = "waiting" /\ pc'[q] = "ready") \/ q = m
      BY <1>1, <1>2, <2>1, <2>2 DEF Count
    <2>6. \A q \in Messages : pc'[q] # "none" => q <= Count BY <2>1, <2>5 DEF Inv, Known
    <2>7. ASSUME NEW k \in Keys, HasEntry(k)
          PROVE  window > 0 /\ k \notin CliKeys /\ pc'[Newest(k)] = "collecting"
      <3>1. window > 0 /\ k \notin CliKeys /\ pc[Newest(k)] = "collecting" BY <2>7 DEF Inv, Known
      <3>2. Newest(k) \in Messages BY <2>7, NewestOf DEF Inv
      <3> QED BY <2>1, <2>5, <3>1, <3>2
    <2>8. \A a, q \in Messages : q \in waiting'[a] => pc'[q] = "waiting" /\ previous[q] = a
      <3> TAKE a, q \in Messages
      <3>1. q \in waiting'[a] => a # m /\ q \in waiting[a] BY <1>1, <2>1
      <3>2. q \in waiting[a] => pc[q] = "waiting" /\ previous[q] = a BY DEF Inv, Known
      <3> QED BY <2>1, <2>2, <3>1, <3>2
    <2>9. \A q \in Messages : pc'[q] \in Blocked => interrupts /\ Registers(q) /\ previous[q] \in Messages
      <3> TAKE q \in Messages
      <3>1. pc'[q] \in Blocked => pc[q] \in Blocked BY <2>5 DEF Blocked
      <3> QED BY <3>1 DEF Inv, Known
    <2>10. \A q \in done : pc'[q] \in {"notifying", "leaving", "ended"}
      <3> TAKE q \in done
      <3>1. q \in Messages /\ pc[q] \in {"notifying", "leaving", "ended"} BY <1>1 DEF Inv, Known
      <3> QED BY <2>5, <3>1
    <2>11. Known' BY <1>2, <2>1, <2>5, <2>6, <2>7, <2>8, <2>9, <2>10 DEF Known, HasEntry, Newest, Registers
    <2> QED BY <2>4, <2>11
  <1> QED BY <1>5, <1>6, <1>7, <1>8, <1>9, <1>10 DEF Worker

\* A permit is taken on the way in and given back on the way out.
LEMMA PermitsStep ==
  ASSUME Inv, NEW m \in Messages, Admit(m) \/ Worker(m)
  PROVE  PermitsExact'
  <1> USE DEF Goto
  <1>1. /\ pc \in [Messages -> Phases] /\ permits \in Nat /\ permits + Cardinality(Busy) = MaxInFlight
        /\ waiting \in [Messages -> SUBSET Messages] /\ MaxInFlight \in Nat
    BY DispatchConstants DEF Inv, Types, PermitsExact
  <1>2. CASE Admit(m)
    <2>1. m \notin Busy /\ Busy' = Busy \cup {m} /\ permits' = permits - 1 /\ permits > 0
      BY <1>1, <1>2 DEF Admit, Admitted, Busy, Active, Blocked, Over
    <2> QED BY <1>1, <2>1, BusyFinite DEF PermitsExact
  <1>3. CASE Leave(m)
    <2>1. m \in Busy /\ Busy' = Busy \ {m} /\ permits' = permits + 1
      BY <1>1, <1>3 DEF Leave, Busy, Active, Blocked, Over
    <2> QED BY <1>1, <2>1, BusyFinite DEF PermitsExact
  <1>4. CASE Notify(m)
    <2>1. \A q \in waiting[m] : q \in Messages /\ pc[q] = "waiting" BY <1>1 DEF Inv, Known
    <2>2. Busy' = Busy /\ permits' = permits
      BY <1>1, <1>4, <2>1 DEF Notify, Woken, loop, Busy, Active, Blocked, Over
    <2> QED BY <1>1, <2>2 DEF PermitsExact
  <1>5. CASE \/ Register(m) \/ Interrupt(m) \/ CheckDone(m) \/ Subscribe(m) \/ Begin(m) \/ Finish(m)
             \/ Unregister(m) \/ MarkDone(m)
    <2>1. PICK p \in Active \cup {"processed", "marking", "notifying"} : pc' = [pc EXCEPT ![m] = p]
      BY <1>5 DEF Register, Interrupt, AfterInterrupt, CheckDone, Subscribe, Begin, Finish, Unregister,
                  MarkDone, Active, Blocked
    <2>2. pc[m] \in Active \cup {"admitted", "processed", "marking"} /\ permits' = permits
      BY <1>5 DEF Register, Interrupt, AfterInterrupt, CheckDone, Subscribe, Begin, Finish, Unregister,
                  MarkDone, Active, Blocked, loop
    <2>3. Busy' = Busy BY <1>1, <2>1, <2>2 DEF Busy, Active, Blocked, Over
    <2> QED BY <1>1, <2>2, <2>3 DEF PermitsExact
  <1> QED BY <1>2, <1>3, <1>4, <1>5 DEF Worker

\* The steps that move no worker but one that is admitted.
LEMMA OtherKnown ==
  ASSUME Inv,
         \/ \E m \in Messages : Admit(m)
         \/ \E k \in Keys : Stop(k)
         \/ StopCancels
         \/ /\ Tick \/ \E t \in Messages : Wake(t)
            /\ UNCHANGED <<interrupts, permits, inFlight, pc, previous, tokens, stopping, stops>>
         \/ UNCHANGED vars
  PROVE  Types' /\ Known'
  <1>1. UNCHANGED <<interrupts, entries, key, window, previous, done, waiting>> /\ Count' = Count
    BY DEF Admit, Stop, StopCancels, Tick, Wake, vars, loop, tokens, debouncer, Count
  <1>2. ASSUME pc' = pc PROVE Known'
    BY <1>1, <1>2 DEF Inv, Known, HasEntry, Newest, Registers
  <1>3. ASSUME NEW m \in Messages, Admit(m) PROVE Types' /\ Known'
    <2>1. /\ pc' = [pc EXCEPT ![m] = "admitted"] /\ pc[m] \in {"received", "queued"}
          /\ UNCHANGED <<inFlight, cancelled, stopping, stops>>
      BY <1>3 DEF Admit, Goto, loop, tokens
    <2>2. "admitted" \in Phases \ {"none"} /\ "admitted" \notin Blocked BY DEF Phases, Blocked
    <2>3. m \notin done BY <2>1 DEF Inv, Known
    <2>4. done \subseteq Messages BY DEF Inv, Types
    <2>5. Known' BY <1>1, <2>1, <2>2, <2>3, <2>4, WorkerGoes
    <2>6. Types' BY <1>1, <2>1, <2>2 DEF Inv, Types
    <2> QED BY <2>5, <2>6
  <1>4. ASSUME NEW k \in Keys, Stop(k) PROVE Types' /\ Known'
    <2>1. pc' = pc /\ UNCHANGED cancelled BY <1>4 DEF Stop, tokens
    <2>2. inFlight' \in [Keys -> Messages \cup {None}] /\ stopping' \in Messages \cup {None}
          /\ stops' \in 0 .. MaxStops
      BY <1>4, DispatchConstants DEF Stop, Inv, Types
    <2>3. Types' BY <1>1, <2>1, <2>2 DEF Inv, Types
    <2> QED BY <1>2, <2>1, <2>3
  <1>5. CASE StopCancels
    <2>1. pc' = pc BY <1>5 DEF StopCancels
    <2>2. Types' BY <1>1, <1>5 DEF StopCancels, Inv, Types
    <2> QED BY <1>2, <2>1, <2>2
  <1>6. CASE UNCHANGED <<inFlight, pc, cancelled, stopping, stops>>
    <2>1. Types' BY <1>1, <1>6 DEF Inv, Types
    <2> QED BY <1>2, <1>6, <2>1
  <1> QED BY <1>3, <1>4, <1>5, <1>6 DEF vars, tokens

\* What is known of the dispatch is an invariant.
THEOREM InvHolds == Spec => []Inv
  <1>1. Inv /\ [Next]_vars => Inv'
    <2> SUFFICES ASSUME Inv, [Next]_vars PROVE Inv' OBVIOUS
    <2>1. DebouncerInv' BY DebouncerStep
    <2>2. PermitsExact BY DEF Inv
    <2>3. ASSUME Types', Known', Busy' = Busy, permits' = permits PROVE Inv'
      BY <2>1, <2>2, <2>3 DEF Inv, PermitsExact
    <2>4. ASSUME NEW k \in Keys, Receive(k) PROVE Inv' BY <2>3, <2>4, ReceiveInv
    <2>5. ASSUME NEW t \in Messages, Expire(t) PROVE Inv' BY <2>3, <2>5, ExpireInv
    <2>6. ASSUME NEW m \in Messages, Worker(m) PROVE Inv'
      BY <2>1, <2>6, WorkerKnown, PermitsStep DEF Inv
    <2>7. ASSUME NEW m \in Messages, Admit(m) PROVE Inv'
      BY <2>1, <2>7, OtherKnown, PermitsStep DEF Inv
    <2>8. CASE \/ \E k \in Keys : Stop(k)
               \/ StopCancels
               \/ /\ Tick \/ \E t \in Messages : Wake(t)
                  /\ UNCHANGED <<interrupts, permits, inFlight, pc, previous, tokens, stopping, stops>>
               \/ UNCHANGED vars
      <3>1. Types' /\ Known' BY <2>8, OtherKnown
      <3>2. pc' = pc /\ permits' = permits BY <2>8 DEF Stop, StopCancels, vars
      <3>3. Busy' = Busy BY <3>2 DEF Busy
      <3> QED BY <2>3, <3>1, <3>2, <3>3
    <2> QED BY <2>4, <2>5, <2>6, <2>7, <2>8 DEF Next, Tasks
  <1> QED BY <1>1, InitInv, PTL DEF Spec

\* Every variable keeps a value of its type; above all no permit is lost or returned twice.
THEOREM TypeCorrect == Spec => []TypeOK
  <1>1. Inv => TypeOK
    <2> SUFFICES ASSUME Inv PROVE TypeOK OBVIOUS
    <2>1. permits \in 0 .. MaxInFlight
      BY BusyFinite, DispatchConstants DEF Inv, PermitsExact
    <2> QED BY <2>1 DEF Inv, Types, TypeOK, DebouncerInv
  <1> QED BY <1>1, InvHolds, PTL

\* Every message that reaches the debouncer is combined exactly once, into a message
\* that is in order, whatever timers, new messages and permits do.
THEOREM AllCombinedOnce == Spec => []CombinedOnce
  <1>1. Inv => CombinedOnce BY CombinesOnce DEF Inv
  <1> QED BY <1>1, InvHolds, PTL

-----------------------------------------------------------------------------
(* The steps outside a worker. *)

Before == {"none", "collecting", "superseded", "received", "queued", "admitted"}

\* Messages that arrive, timers and permits concern no worker that has registered.
Away ==
  /\ UNCHANGED <<interrupts, inFlight, previous, cancelled, done, stopping, stops>>
  /\ \A q \in Messages : pc'[q] = pc[q] \/ (pc[q] \in Before /\ pc'[q] \in Before)
  /\ \A q \in Messages : pc[q] \notin Before => key'[q] = key[q]

LEMMA AwaySteps ==
  ASSUME Inv,
         \/ \E k \in Keys : Receive(k)
         \/ \E m \in Messages : Expire(m) \/ Admit(m)
         \/ /\ Tick \/ \E t \in Messages : Wake(t)
            /\ UNCHANGED <<interrupts, permits, inFlight, pc, previous, tokens, stopping, stops>>
         \/ UNCHANGED vars
  PROVE  Away
  <1>1. UNCHANGED <<interrupts, inFlight, previous, cancelled, done, stopping, stops>>
    BY DEF Receive, Expire, Admit, loop, tokens, vars
  <1>2. pc \in [Messages -> Phases] /\ \A q \in Messages : pc[q] \notin Before => q <= Count
    BY DEF Inv, Types, Known, Before
  <1>3. ASSUME NEW k \in Keys, Receive(k) PROVE Away
    <2>1. key' = Append(key, k) /\ key \in Seq(Keys)
      BY <1>3, Numbers DEF Inv, Receive, Debounce, Passthrough, Collect
    <2>2. \A q \in Messages : q <= Count => key'[q] = key[q]
      <3>1. \A q \in 1 .. Len(key) : key'[q] = key[q] BY <2>1, Grown
      <3>2. \A q \in Messages : q <= Count => q \in 1 .. Len(key) BY Numbers DEF Inv, Count
      <3> QED BY <3>1, <3>2
    <2>3. \A q \in Messages : pc'[q] = pc[q] \/ (pc[q] \in Before /\ pc'[q] \in Before)
      <3> TAKE q \in Messages
      <3>1. q = Count + 1 => pc[q] = "none"
        <4>1. ~(Count + 1 <= Count) BY Numbers DEF Inv
        <4> QED BY <4>1 DEF Inv, Known
      <3>2. HasEntry(k) /\ q = Newest(k) => pc[q] = "collecting" BY DEF Inv, Known
      <3>3. pc'[q] = pc[q] \/ ((q = Count + 1 \/ (HasEntry(k) /\ q = Newest(k)))
                               /\ pc'[q] \in {"received", "collecting", "superseded"})
        BY <1>2, <1>3 DEF Receive, Overtaken
      <3> QED BY <3>1, <3>2, <3>3 DEF Before
    <2> QED BY <1>1, <1>2, <2>2, <2>3 DEF Away
  <1>4. ASSUME NEW t \in Messages, Expire(t) PROVE Away
    <2>1. key' = key BY <1>4 DEF Expire, Fire
    <2>2. key[t] \in Keys
      <3>1. t <= Count BY <1>4 DEF Expire, Fire, Inv, DebouncerInv, Filled
      <3> QED BY <3>1, Numbers DEF Inv
    <2>3. HasEntry(key[t]) => pc[Newest(key[t])] = "collecting" BY <2>2 DEF Inv, Known
    <2>4. \A q \in Messages : pc'[q] = pc[q] \/ (pc[q] = "collecting" /\ pc'[q] = "queued")
      BY <1>2, <1>4, <2>3 DEF Expire
    <2> QED BY <1>1, <2>1, <2>4 DEF Away, Before
  <1>5. ASSUME NEW m \in Messages, Admit(m) PROVE Away
    BY <1>1, <1>2, <1>5 DEF Away, Before, Admit, Goto, loop, debouncer
  <1>6. CASE \/ /\ Tick \/ \E t \in Messages : Wake(t)
                /\ UNCHANGED <<interrupts, permits, inFlight, pc, previous, tokens, stopping, stops>>
             \/ UNCHANGED vars
    BY <1>1, <1>6 DEF Away, Tick, Wake, vars, debouncer
  <1> QED BY <1>3, <1>4, <1>5, <1>6

\* What a worker leaves alone.
LEMMA WorkerFrame ==
  ASSUME NEW m \in Messages, Worker(m)
  PROVE  UNCHANGED <<interrupts, key, stopping, stops>>
  BY DEF Worker, Register, Interrupt, CheckDone, Subscribe, Begin, Finish, Unregister, MarkDone,
         Notify, Leave, loop, debouncer

-----------------------------------------------------------------------------
(* One turn goes on. *)

\* A worker that is neither cancelled nor about to be is the registered one.
Owned ==
  interrupts => \A m \in Messages :
    pc[m] \in Active /\ Registers(m) /\ m \notin Doomed => inFlight[key[m]] = m

LEMMA OwnedStep ==
  ASSUME Inv, Owned, [Next]_vars
  PROVE  Owned'
  <1> SUFFICES ASSUME interrupts', NEW m \in Messages, pc'[m] \in Active, Registers(m)', m \notin Doomed'
               PROVE  inFlight'[key'[m]] = m
    BY DEF Owned
  <1> USE DEF Goto
  <1>1. /\ pc \in [Messages -> Phases] /\ previous \in [Messages -> Messages \cup {None}]
        /\ inFlight \in [Keys -> Messages \cup {None}]
        /\ None \notin Messages
        /\ \A q \in Messages : pc[q] # "none" => key[q] \in Keys
        /\ \A q \in Messages : pc[q] \in Blocked => interrupts /\ Registers(q) /\ previous[q] \in Messages
    BY Numbers DEF Inv, Types, Known
  <1>2. /\ m \notin cancelled' /\ m # stopping'
        /\ \A w \in Messages : pc'[w] = "interrupting" => previous'[w] # m
    BY DEF Doomed
  <1>3. ASSUME pc[m] \in Active, Registers(m), interrupts, m \notin cancelled, m # stopping,
               \A w \in Messages : pc[w] = "interrupting" => previous[w] # m
        PROVE  inFlight[key[m]] = m /\ key[m] \in Keys
    BY <1>1, <1>3 DEF Owned, Doomed, Active, Blocked
  <1>4. CASE Away
    <2>1. pc[m] = pc'[m] /\ key'[m] = key[m] BY <1>4 DEF Away, Active, Blocked, Before
    <2>2. \A w \in Messages : pc[w] = "interrupting" => pc'[w] = "interrupting" BY <1>4 DEF Away, Before
    <2> QED BY <1>2, <1>3, <1>4, <2>1, <2>2 DEF Away, Registers
  <1>5. ASSUME NEW q \in Messages, Register(q) PROVE inFlight'[key'[m]] = m
    <2>1. /\ pc[q] = "admitted" /\ UNCHANGED <<key, interrupts, cancelled, stopping>>
      BY <1>5 DEF Register, loop, tokens, debouncer
    <2>2. key[q] \in Keys /\ \A w \in Messages \ {q} : pc'[w] = pc[w] /\ previous'[w] = previous[w]
      BY <1>1, <1>5, <2>1 DEF Register
    <2>3. CASE m = q
      <3>1. inFlight' = [inFlight EXCEPT ![key[m]] = m]
        BY <1>5, <2>1, <2>3 DEF Register, Registered, Registers
      <3> QED BY <1>1, <2>1, <2>2, <2>3, <3>1
    <2>4. CASE m # q
      <3>1. inFlight[key[m]] = m /\ key[m] \in Keys
        BY <1>2, <1>3, <2>1, <2>2, <2>4 DEF Registers
      <3>2. CASE inFlight' = inFlight BY <2>1, <3>1, <3>2
      <3>3. CASE /\ Registers(q) /\ inFlight' = Registered(q)
                 /\ previous' = [previous EXCEPT ![q] = inFlight[key[q]]]
                 /\ pc' = [pc EXCEPT ![q] = IF interrupts /\ inFlight[key[q]] # None THEN "interrupting" ELSE "ready"]
        <4>1. key[m] # key[q]
          <5> SUFFICES ASSUME key[m] = key[q] PROVE FALSE OBVIOUS
          <5>1. inFlight[key[q]] = m /\ m # None BY <1>1, <3>1
          <5>2. pc'[q] = "interrupting" /\ previous'[q] = m BY <1>1, <2>1, <3>3, <5>1
          <5> QED BY <1>2, <5>2
        <4> QED BY <1>1, <2>1, <3>1, <3>3, <4>1 DEF Registered
      <3> QED BY <1>5, <3>2, <3>3 DEF Register
    <2> QED BY <2>3, <2>4
  <1>6. ASSUME NEW q \in Messages, Interrupt(q) PROVE inFlight'[key'[m]] = m
    <2>1. /\ UNCHANGED <<key, interrupts, inFlight, stopping, previous>>
          /\ cancelled' = cancelled \cup {previous[q]}
          /\ pc[q] = "interrupting" /\ pc' = [pc EXCEPT ![q] = "checking"]
      BY <1>6 DEF Interrupt, AfterInterrupt, loop, debouncer
    <2>2. pc[m] \in Active BY <1>1, <2>1 DEF Active, Blocked
    <2>3. \A w \in Messages : pc[w] = "interrupting" => previous[w] # m BY <1>1, <1>2, <2>1
    <2> QED BY <1>2, <1>3, <2>1, <2>2, <2>3 DEF Registers
  <1>7. ASSUME NEW q \in Messages, Unregister(q) PROVE inFlight'[key'[m]] = m
    <2>1. /\ UNCHANGED <<key, interrupts, stopping, previous, cancelled>>
          /\ pc[q] = "processed" /\ pc' = [pc EXCEPT ![q] = "marking"]
          /\ inFlight' \in {inFlight, Unregistered(q)}
      BY <1>7 DEF Unregister, loop, tokens, debouncer
    <2>2. m # q /\ pc[m] = pc'[m] BY <1>1, <2>1 DEF Active, Blocked
    <2>3. \A w \in Messages : pc[w] = "interrupting" => previous[w] # m BY <1>1, <1>2, <2>1
    <2>4. inFlight[key[m]] = m /\ key[m] \in Keys BY <1>2, <1>3, <2>1, <2>2, <2>3 DEF Registers
    <2> QED BY <1>1, <2>1, <2>2, <2>4 DEF Unregistered
  <1>8. ASSUME NEW k \in Keys, Stop(k) PROVE inFlight'[key'[m]] = m
    <2>1. /\ UNCHANGED <<key, interrupts, pc, previous, cancelled>>
          /\ inFlight' = [inFlight EXCEPT ![k] = None] /\ stopping' = inFlight[k] /\ stopping = None
      BY <1>8 DEF Stop, tokens, debouncer, LoopFree
    <2>2. inFlight[key[m]] = m /\ key[m] \in Keys BY <1>1, <1>2, <1>3, <2>1 DEF Registers
    <2> QED BY <1>1, <1>2, <2>1, <2>2
  <1>9. CASE StopCancels
    <2>1. /\ UNCHANGED <<key, interrupts, pc, previous, inFlight>>
          /\ cancelled' = cancelled \cup {stopping}
      BY <1>9 DEF StopCancels, debouncer
    <2> QED BY <1>2, <1>3, <2>1 DEF Registers
  <1>10. ASSUME NEW q \in Messages,
                CheckDone(q) \/ Subscribe(q) \/ Begin(q) \/ Finish(q) \/ MarkDone(q) \/ Notify(q) \/ Leave(q)
         PROVE  inFlight'[key'[m]] = m
    <2>1. UNCHANGED <<key, interrupts, inFlight, stopping, previous, cancelled>>
      BY <1>10 DEF CheckDone, Subscribe, Begin, Finish, MarkDone, Notify, Leave, loop, tokens, debouncer
    <2>2. \A w \in Messages : w \in waiting[q] => pc[w] = "waiting" BY DEF Inv, Known
    <2>3. \A w \in Messages :
            /\ pc'[w] \in Active => pc[w] \in Active
            /\ pc[w] = "interrupting" => pc'[w] = "interrupting"
      BY <1>1, <1>10, <2>2 DEF CheckDone, Subscribe, Begin, Finish, MarkDone, Notify, Leave, Woken, Active, Blocked
    <2> QED BY <1>2, <1>3, <2>1, <2>3 DEF Registers
  <1> QED BY <1>4, <1>5, <1>6, <1>7, <1>8, <1>9, <1>10, AwaySteps DEF Next, Tasks, Worker

LEMMA OwnedIsLive ==
  ASSUME Inv, Owned
  PROVE  /\ OneLive
         /\ interrupts => \A k \in Keys \ CliKeys : \A m \in Live(k) : inFlight[k] = m /\ m \in Messages
  <1>1. ASSUME interrupts, NEW k \in Keys \ CliKeys, NEW m \in Live(k)
        PROVE  inFlight[k] = m /\ m \in Messages
    BY <1>1, Numbers DEF Inv, Live, Owned, Registers, Active
  <1>2. ASSUME interrupts, NEW k \in Keys \ CliKeys PROVE Cardinality(Live(k)) <= 1
    <2>1. CASE Live(k) = {} BY <2>1, FS_EmptySet
    <2>2. ASSUME NEW m \in Live(k) PROVE Cardinality(Live(k)) <= 1
      <3>1. Live(k) = {m} BY <1>1, <1>2, <2>2
      <3>2. Cardinality(Live(k)) = 1 BY <3>1, FS_Singleton
      <3> QED BY <3>2
    <2> QED BY <2>1, <2>2
  <1> QED BY <1>1, <1>2 DEF OneLive

\* /stop answers that a sender has no task in flight only when none of its turns goes
\* on, where new messages interrupt.
THEOREM StopIsTruthful == Spec => StopTruthful
  <1>1. Init => Owned BY DEF Init, Owned, Active, Blocked
  <1>2. Inv /\ Owned /\ [Next]_vars => Owned' BY OwnedStep
  <1>3. Inv /\ Owned /\ [Next]_vars =>
          [\A k \in Keys : interrupts /\ stops' = stops + 1 /\ Stop(k) /\ inFlight[k] = None => Live(k) = {}]_vars
    <2> SUFFICES ASSUME Inv, Owned, NEW k \in Keys, interrupts, Stop(k), inFlight[k] = None
                 PROVE  Live(k) = {}
      OBVIOUS
    <2>1. k \in Keys \ CliKeys BY DEF Stop
    <2> QED BY <2>1, OwnedIsLive, Numbers DEF Inv
  <1> QED BY <1>1, <1>2, <1>3, InvHolds, PTL DEF Spec, StopTruthful

-----------------------------------------------------------------------------
(* The turns of a sender do not overlap. *)

\* The workers that have registered.
Workers == {m \in Messages : Registers(m) /\ pc[m] \in Active \cup Over}

\* An order of the workers of a sender: none is past its wait unless all before it are
\* over, each waits for the one just before it, and the registered one is the last.
Ordered(rank, top) ==
  /\ \A m \in Workers : rank[m] \in Nat /\ rank[m] <= top
  /\ \A m, q \in Workers : key[m] = key[q] =>
       /\ rank[m] = rank[q] => m = q
       /\ pc[m] \notin Blocked /\ rank[q] < rank[m] => pc[q] \in Over
       /\ pc[m] \in Blocked /\ rank[q] < rank[m] => q = previous[m] \/ rank[q] < rank[previous[m]]
  /\ \A m \in Workers : pc[m] \in Blocked =>
       previous[m] \in Workers /\ key[previous[m]] = key[m] /\ rank[previous[m]] < rank[m]
  /\ \A k \in Keys : inFlight[k] # None =>
       /\ inFlight[k] \in Workers /\ key[inFlight[k]] = k
       /\ \A q \in Workers : key[q] = k /\ q # inFlight[k] => rank[q] < rank[inFlight[k]]
  /\ \A q \in Workers : inFlight[key[q]] = None => pc[q] \in Over

InOrderOfRank ==
  interrupts /\ stops = 0 => \E rank \in [Messages -> Nat], top \in Nat : Ordered(rank, top)

\* A worker that goes on in its turn keeps the order; it leaves its wait only when the
\* one before it is over.
LEMMA KeepsOrder ==
  ASSUME Inv, NEW rank, NEW top, Ordered(rank, top),
         UNCHANGED <<key, inFlight, previous>>,
         \A q \in Messages :
           \/ pc'[q] = pc[q]
           \/ /\ pc[q] \in Blocked /\ pc'[q] \in Blocked
           \/ /\ pc[q] \in Blocked /\ pc'[q] = "ready" /\ pc[previous[q]] \in Over
           \/ /\ pc[q] \in {"ready", "running"} /\ pc'[q] \in {"running"} \cup Over
           \/ /\ pc[q] \in Over /\ pc'[q] \in Over
  PROVE  Ordered(rank, top)'
  <1>1. Workers' = Workers
    <2>1. \A q \in Messages : pc[q] \in Active \cup Over <=> pc'[q] \in Active \cup Over
      BY DEF Active, Blocked, Over
    <2> QED BY <2>1 DEF Workers, Registers
  <1>2. \A q \in Workers : q \in Messages BY DEF Workers
  <1>3. \A q \in Workers : pc[q] \in Over => pc'[q] \in Over
    BY <1>2 DEF Blocked, Over
  <1>4. \A q \in Workers : pc'[q] \in Blocked => pc[q] \in Blocked
    BY <1>2 DEF Blocked, Over
  <1>5. ASSUME NEW m \in Workers, NEW q \in Workers, key[m] = key[q],
               pc'[m] \notin Blocked, rank[q] < rank[m]
        PROVE  pc'[q] \in Over
    <2>1. CASE pc[m] \notin Blocked BY <1>3, <1>5, <2>1 DEF Ordered
    <2>2. CASE pc[m] \in Blocked
      <3>1. pc[previous[m]] \in Over BY <1>2, <1>5, <2>2 DEF Over, Blocked
      <3>2. previous[m] \in Workers /\ key[previous[m]] = key[m] BY <2>2 DEF Ordered
      <3>3. q = previous[m] \/ rank[q] < rank[previous[m]] BY <1>5, <2>2 DEF Ordered
      <3>4. pc[previous[m]] \notin Blocked BY <3>1 DEF Over, Blocked
      <3>5. pc[q] \in Over BY <1>5, <3>1, <3>2, <3>3, <3>4 DEF Ordered
      <3> QED BY <1>3, <3>5
    <2> QED BY <2>1, <2>2
  <1> QED BY <1>1, <1>3, <1>4, <1>5 DEF Ordered

\* Steps outside the workers leave the order as it is.
LEMMA AwayKeepsOrder ==
  ASSUME Inv, NEW rank, NEW top, Ordered(rank, top), Away
  PROVE  Ordered(rank, top)'
  <1>1. \A q \in Messages : pc[q] \in Active \cup Over => pc'[q] = pc[q] /\ key'[q] = key[q]
    BY DEF Away, Before, Active, Blocked, Over
  <1>2. \A q \in Messages : pc'[q] \in Active \cup Over => pc'[q] = pc[q]
    BY DEF Away, Before, Active, Blocked, Over
  <1>3. Workers' = Workers BY <1>1, <1>2 DEF Workers, Registers
  <1>4. \A q \in Workers : pc'[q] = pc[q] /\ key'[q] = key[q] BY <1>1 DEF Workers
  <1>5. UNCHANGED <<inFlight, previous>> BY DEF Away
  <1> QED BY <1>3, <1>4, <1>5 DEF Ordered

\* A worker that registers is the last; one that unregisters was the last, if it owns
\* the entry, and all before it are over.
LEMMA RegisterKeepsOrder ==
  ASSUME Inv, NEW rank \in [Messages -> Nat], NEW top \in Nat, Ordered(rank, top), interrupts,
         NEW m \in Messages, Register(m)
  PROVE  \E r \in [Messages -> Nat], t \in Nat : Ordered(r, t)'
  <1> USE DEF Goto
  <1>1. /\ pc \in [Messages -> Phases] /\ previous \in [Messages -> Messages \cup {None}]
        /\ inFlight \in [Keys -> Messages \cup {None}] /\ None \notin Messages
        /\ pc[m] = "admitted" /\ key[m] \in Keys /\ key' = key
    BY Numbers DEF Inv, Types, Known, Register, loop, debouncer
  <1>2. m \notin Workers BY <1>1 DEF Workers, Active, Blocked, Over
  <1>3. CASE ~Registers(m)
    <2>1. pc' = [pc EXCEPT ![m] = "ready"] /\ UNCHANGED <<inFlight, previous>>
      BY <1>3 DEF Register
    <2>2. Workers' = Workers BY <1>1, <1>3, <2>1 DEF Workers, Registers
    <2>3. \A q \in Workers : pc'[q] = pc[q] BY <1>1, <1>2, <2>1 DEF Workers
    <2>4. Ordered(rank, top)' BY <1>1, <2>1, <2>2, <2>3 DEF Ordered
    <2> QED BY <2>4
  <1>4. CASE Registers(m)
    <2> DEFINE f == inFlight[key[m]]
               r == [rank EXCEPT ![m] = top + 1]
    <2>1. /\ pc' = [pc EXCEPT ![m] = IF f # None THEN "interrupting" ELSE "ready"]
          /\ inFlight' = [inFlight EXCEPT ![key[m]] = m]
          /\ previous' = [previous EXCEPT ![m] = f]
      BY <1>4 DEF Register, Registered
    <2>2. Workers' = Workers \cup {m}
      <3>1. pc'[m] \in Active /\ \A q \in Messages \ {m} : pc'[q] = pc[q]
        BY <1>1, <2>1 DEF Active, Blocked
      <3> QED BY <1>1, <1>4, <3>1 DEF Workers, Registers
    <2>3. /\ r \in [Messages -> Nat] /\ top + 1 \in Nat /\ r[m] = top + 1
          /\ \A q \in Workers : r[q] = rank[q] /\ r[q] < r[m] /\ r[q] <= top + 1
      <3>1. r \in [Messages -> Nat] /\ r[m] = top + 1 /\ top + 1 \in Nat OBVIOUS
      <3>2. \A q \in Workers : r[q] = rank[q] /\ rank[q] \in Nat /\ rank[q] <= top
        BY <1>2 DEF Ordered, Workers
      <3>3. \A x \in Nat : x <= top => x < top + 1 /\ x <= top + 1 OBVIOUS
      <3> QED BY <3>1, <3>2, <3>3
    <2>4. /\ \A q \in Workers : q \in Messages /\ q # m /\ pc'[q] = pc[q] /\ previous'[q] = previous[q]
          /\ pc'[m] = (IF f # None THEN "interrupting" ELSE "ready") /\ previous'[m] = f
          /\ f # None => f \in Workers /\ key[f] = key[m]
      BY <1>1, <1>2, <2>1 DEF Workers, Ordered
    <2>5. \A k \in Keys : inFlight'[k] = IF k = key[m] THEN m ELSE inFlight[k]
      BY <1>1, <2>1
    <2>6. \A q \in Workers : key[q] \in Keys
      BY Numbers DEF Inv, Known, Workers, Active, Blocked, Over
    <2>7. m \notin Workers /\ m # None BY <1>1, <1>2
    <2> HIDE DEF r
    <2>8. \A a \in Workers' : r[a] \in Nat /\ r[a] <= top + 1
      BY <2>2, <2>3, <2>4
    <2>9. ASSUME NEW a \in Workers', NEW q \in Workers', key[a] = key[q]
          PROVE  /\ r[a] = r[q] => a = q
                 /\ pc'[a] \notin Blocked /\ r[q] < r[a] => pc'[q] \in Over
                 /\ pc'[a] \in Blocked /\ r[q] < r[a] => q = previous'[a] \/ r[q] < r[previous'[a]]
      <3>1. CASE a \in Workers /\ q \in Workers
        <4>1. pc[a] \in Blocked => previous[a] \in Workers BY <3>1 DEF Ordered
        <4>2. /\ rank[a] = rank[q] => a = q
              /\ pc[a] \notin Blocked /\ rank[q] < rank[a] => pc[q] \in Over
              /\ pc[a] \in Blocked /\ rank[q] < rank[a] => q = previous[a] \/ rank[q] < rank[previous[a]]
          BY <2>9, <3>1 DEF Ordered
        <4> QED BY <2>3, <2>4, <3>1, <4>1, <4>2
      <3>2. CASE a = m /\ q = m
        <4>1. ~(r[m] < r[m]) BY <2>3
        <4> QED BY <3>2, <4>1
      <3>3. CASE a \in Workers /\ q = m
        <4>1. r[a] \in Nat /\ r[m] \in Nat /\ r[a] < r[m] BY <2>3, <2>8, <3>3, <2>2
        <4>2. r[a] # r[q] /\ ~(r[q] < r[a]) BY <3>3, <4>1
        <4> QED BY <4>2
      <3>4. CASE a = m /\ q \in Workers
        <4>1. r[q] \in Nat /\ r[m] \in Nat /\ r[q] < r[m] BY <2>3, <2>8, <3>4, <2>2
        <4>2. r[a] # r[q] BY <3>4, <4>1
        <4>3. CASE f = None
          <5>1. pc[q] \in Over BY <2>9, <3>4, <4>3 DEF Ordered
          <5>2. pc'[m] = "ready" /\ "ready" \notin Blocked BY <2>4, <4>3 DEF Blocked
          <5> QED BY <2>4, <3>4, <4>2, <5>1, <5>2
        <4>4. CASE f # None
          <5>1. pc'[m] \in Blocked /\ previous'[m] = f BY <2>4, <4>4 DEF Blocked
          <5>2. q = f \/ rank[q] < rank[f] BY <1>1, <2>9, <3>4, <4>4 DEF Ordered
          <5>3. r[q] = rank[q] /\ r[f] = rank[f] BY <2>3, <2>4, <3>4, <4>4
          <5> QED BY <3>4, <4>2, <5>1, <5>2, <5>3
        <4> QED BY <4>3, <4>4
      <3> QED BY <2>2, <3>1, <3>2, <3>3, <3>4
    <2>10. ASSUME NEW a \in Workers', pc'[a] \in Blocked
           PROVE  previous'[a] \in Workers' /\ key[previous'[a]] = key[a] /\ r[previous'[a]] < r[a]
      <3>1. CASE a \in Workers
        <4>1. previous[a] \in Workers /\ key[previous[a]] = key[a] /\ rank[previous[a]] < rank[a]
          BY <2>4, <2>10, <3>1 DEF Ordered
        <4> QED BY <2>2, <2>3, <2>4, <3>1, <4>1
      <3>2. CASE a = m
        <4>1. f # None BY <2>4, <2>10, <3>2 DEF Blocked
        <4> QED BY <2>2, <2>3, <2>4, <3>2, <4>1
      <3> QED BY <2>2, <3>1, <3>2
    <2>11. ASSUME NEW k \in Keys, inFlight'[k] # None
           PROVE  /\ inFlight'[k] \in Workers' /\ key[inFlight'[k]] = k
                  /\ \A q \in Workers' : key[q] = k /\ q # inFlight'[k] => r[q] < r[inFlight'[k]]
      <3>1. CASE k = key[m] BY <2>2, <2>3, <2>5, <3>1
      <3>2. CASE k # key[m]
        <4>1. /\ inFlight'[k] = inFlight[k] /\ inFlight[k] \in Workers /\ key[inFlight[k]] = k
              /\ \A q \in Workers : key[q] = k /\ q # inFlight[k] => rank[q] < rank[inFlight[k]]
          BY <2>5, <2>11, <3>2 DEF Ordered
        <4> QED BY <2>2, <2>3, <3>2, <4>1
      <3> QED BY <3>1, <3>2
    <2>12. ASSUME NEW q \in Workers', inFlight'[key[q]] = None PROVE pc'[q] \in Over
      <3>1. q \in Workers /\ key[q] # key[m] BY <1>1, <2>2, <2>5, <2>6, <2>7, <2>12
      <3>2. inFlight[key[q]] = None BY <2>5, <2>6, <2>12, <3>1
      <3> QED BY <2>4, <3>1, <3>2 DEF Ordered
    <2>13. Ordered(r, top + 1)'
      BY <1>1, <2>8, <2>9, <2>10, <2>11, <2>12 DEF Ordered
    <2> QED BY <2>3, <2>13
  <1> QED BY <1>3, <1>4

LEMMA UnregisterKeepsOrder ==
  ASSUME Inv, NEW rank, NEW top, Ordered(rank, top), NEW m \in Messages, Unregister(m)
  PROVE  Ordered(rank, top)'
  <1> USE DEF Goto
  <1>1. /\ pc \in [Messages -> Phases] /\ inFlight \in [Keys -> Messages \cup {None}]
        /\ pc[m] = "processed" /\ pc' = [pc EXCEPT ![m] = "marking"]
        /\ key[m] \in Keys /\ UNCHANGED <<key, previous>>
    BY Numbers DEF Inv, Types, Known, Unregister, loop, debouncer
  <1>2. /\ pc'[m] = "marking" /\ \A q \in Messages \ {m} : pc'[q] = pc[q] BY <1>1
  <1>3. Workers' = Workers BY <1>1, <1>2 DEF Workers, Registers, Over
  <1>4. \A q \in Workers : q \in Messages BY DEF Workers
  <1>5. \A q \in Workers : (pc'[q] \in Over <=> pc[q] \in Over) /\ (pc'[q] \in Blocked <=> pc[q] \in Blocked)
    BY <1>1, <1>2, <1>4 DEF Over, Blocked
  <1>6. CASE inFlight' = inFlight BY <1>1, <1>3, <1>5, <1>6 DEF Ordered
  <1>7. CASE /\ Registers(m) /\ inFlight[key[m]] = m
             /\ inFlight' = [inFlight EXCEPT ![key[m]] = None]
    <2>1. m \in Workers BY <1>1, <1>7 DEF Workers, Over
    <2>2. \A k \in Keys : inFlight'[k] = IF k = key[m] THEN None ELSE inFlight[k] BY <1>1, <1>7
    <2>3. pc[m] \notin Blocked /\ pc'[m] \in Over BY <1>1, <1>2 DEF Blocked, Over
    <2>4. m # None BY Numbers DEF Inv
    <2>5. \A q \in Workers : key[q] = key[m] => pc'[q] \in Over
      <3> TAKE q \in Workers
      <3> HAVE key[q] = key[m]
      <3>1. CASE q = m BY <2>3, <3>1
      <3>2. CASE q # m
        <4>1. rank[q] < rank[m] BY <1>1, <1>7, <2>4, <3>2 DEF Ordered
        <4>2. pc[q] \in Over BY <2>1, <2>3, <4>1 DEF Ordered
        <4> QED BY <1>5, <4>2
      <3> QED BY <3>1, <3>2
    <2>6. \A q \in Workers : key[q] \in Keys
      BY Numbers DEF Inv, Known, Workers, Active, Blocked, Over
    <2>7. \A q \in Workers : inFlight'[key[q]] = None => pc'[q] \in Over
      BY <1>5, <2>2, <2>5, <2>6 DEF Ordered
    <2>8. \A k \in Keys : inFlight'[k] # None => inFlight'[k] = inFlight[k] BY <2>2
    <2> QED BY <1>1, <1>3, <1>5, <2>7, <2>8 DEF Ordered
  <1> QED BY <1>6, <1>7 DEF Unregister, Unregistered

LEMMA OrderStep ==
  ASSUME Inv, InOrderOfRank, [Next]_vars
  PROVE  InOrderOfRank'
  <1> SUFFICES ASSUME interrupts', stops' = 0
               PROVE  \E r \in [Messages -> Nat], t \in Nat : Ordered(r, t)'
    BY DEF InOrderOfRank
  <1>1. /\ pc \in [Messages -> Phases] /\ stops \in Nat
        /\ \A q \in Messages : pc[q] \in Blocked => previous[q] \in Messages
        /\ \A q \in done : pc[q] \in Over
        /\ \A p, q \in Messages : q \in waiting[p] => pc[q] = "waiting" /\ previous[q] = p
        /\ done \subseteq Messages
    BY DispatchConstants DEF Inv, Types, Known, Over
  <1>2. ASSUME UNCHANGED <<interrupts, stops>>
        PROVE  \E rank \in [Messages -> Nat], top \in Nat : Ordered(rank, top)
    BY <1>2 DEF InOrderOfRank
  <1>3. CASE Away
    <2>1. PICK rank \in [Messages -> Nat], top \in Nat : Ordered(rank, top) BY <1>2, <1>3 DEF Away
    <2> QED BY <1>3, <2>1, AwayKeepsOrder
  <1>4. ASSUME NEW k \in Keys, Stop(k) PROVE FALSE BY <1>1, <1>4 DEF Stop
  <1>5. CASE StopCancels
    <2>1. UNCHANGED <<interrupts, stops, key, inFlight, previous, pc>> BY <1>5 DEF StopCancels, debouncer
    <2>2. PICK rank \in [Messages -> Nat], top \in Nat : Ordered(rank, top) BY <1>2, <2>1
    <2> QED BY <2>1, <2>2, KeepsOrder
  <1>6. ASSUME NEW m \in Messages, Worker(m)
        PROVE  \E r \in [Messages -> Nat], t \in Nat : Ordered(r, t)'
    <2>1. UNCHANGED <<interrupts, key, stops>> BY <1>6, WorkerFrame
    <2>2. PICK rank \in [Messages -> Nat], top \in Nat : Ordered(rank, top) BY <1>2, <2>1
    <2>3. interrupts BY <2>1
    <2>4. CASE Register(m) BY <2>2, <2>3, <2>4, RegisterKeepsOrder
    <2>5. CASE Unregister(m) BY <2>2, <2>5, UnregisterKeepsOrder
    <2>6. ASSUME UNCHANGED <<inFlight, previous>>,
                 \A q \in Messages :
                   \/ pc'[q] = pc[q]
                   \/ /\ pc[q] \in Blocked /\ pc'[q] \in Blocked
                   \/ /\ pc[q] \in Blocked /\ pc'[q] = "ready" /\ pc[previous[q]] \in Over
                   \/ /\ pc[q] \in {"ready", "running"} /\ pc'[q] \in {"running"} \cup Over
                   \/ /\ pc[q] \in Over /\ pc'[q] \in Over
          PROVE  \E r \in [Messages -> Nat], t \in Nat : Ordered(r, t)'
      BY <2>1, <2>2, <2>6, KeepsOrder
    <2> USE DEF Goto
    <2>7. CASE Interrupt(m) \/ Subscribe(m)
      BY <1>1, <2>6, <2>7 DEF Interrupt, AfterInterrupt, Subscribe, Blocked
    <2>8. CASE CheckDone(m)
      <3>1. /\ UNCHANGED <<inFlight, previous>> /\ pc[m] = "checking" /\ previous[m] \in Messages
            /\ \/ previous[m] \in done /\ pc' = [pc EXCEPT ![m] = "ready"]
               \/ pc' = [pc EXCEPT ![m] = IF threaded THEN "subscribing" ELSE "waiting"]
        BY <1>1, <2>8 DEF CheckDone, Blocked
      <3> QED BY <1>1, <2>6, <3>1 DEF Blocked
    <2>9. CASE Begin(m) \/ Finish(m)
      BY <1>1, <2>6, <2>9 DEF Begin, Finish, Over
    <2>10. CASE MarkDone(m) \/ Leave(m)
      BY <1>1, <2>6, <2>10 DEF MarkDone, Leave, Over
    <2>11. CASE Notify(m)
      BY <1>1, <2>6, <2>11 DEF Notify, Woken, Over, Blocked
    <2> QED BY <1>6, <2>4, <2>5, <2>7, <2>8, <2>9, <2>10, <2>11 DEF Worker
  <1> QED BY <1>3, <1>4, <1>5, <1>6, AwaySteps DEF Next, Tasks

\* Two turns of a sender at a time would both be past their wait.
LEMMA OrderExcludes ==
  ASSUME Inv, InOrderOfRank
  PROVE  NoOverlap
  <1> SUFFICES ASSUME interrupts, stops = 0, NEW k \in Keys \ CliKeys
               PROVE  Cardinality({m \in 1 .. Count : key[m] = k /\ pc[m] = "running"}) <= 1
    BY DEF NoOverlap
  <1> DEFINE Turns == {m \in 1 .. Count : key[m] = k /\ pc[m] = "running"}
  <1>1. PICK rank \in [Messages -> Nat], top \in Nat : Ordered(rank, top) BY DEF InOrderOfRank
  <1>2. \A m \in Turns : m \in Workers /\ rank[m] \in Nat
    BY Numbers DEF Inv, Workers, Registers, Active
  <1>3. ASSUME NEW m \in Turns, NEW q \in Turns PROVE m = q
    <2>1. m \in Workers /\ q \in Workers /\ key[m] = key[q] /\ pc[m] = "running" /\ pc[q] = "running"
      BY <1>2
    <2>2. ~(rank[q] < rank[m]) /\ ~(rank[m] < rank[q]) BY <1>1, <2>1 DEF Ordered, Blocked, Over
    <2>3. rank[m] = rank[q] BY <1>2, <2>2
    <2> QED BY <1>1, <2>1, <2>3 DEF Ordered
  <1>4. CASE Turns = {} BY <1>4, FS_EmptySet
  <1>5. ASSUME NEW m \in Turns PROVE Cardinality(Turns) <= 1
    <2>1. Turns = {m} BY <1>3
    <2>2. Cardinality(Turns) = 1 BY <2>1, FS_Singleton
    <2> QED BY <2>2
  <1> QED BY <1>4, <1>5

\* The turns of a sender exclude each other: one at a time goes on, and until a /stop an
\* interrupted one has ended before its successor begins.
THEOREM TurnsExcluded == Spec => []TurnsExclude
  <1>1. Init => Owned /\ InOrderOfRank
    <2> SUFFICES ASSUME Init PROVE Owned /\ InOrderOfRank OBVIOUS
    <2>1. Owned BY DEF Init, Owned, Active, Blocked
    <2> DEFINE zero == [m \in Messages |-> 0]
    <2>2. Workers = {} /\ \A k \in Keys : inFlight[k] = None
      BY DEF Init, Workers, Active, Blocked, Over
    <2>3. Ordered(zero, 0) BY <2>2 DEF Ordered
    <2>4. zero \in [Messages -> Nat] OBVIOUS
    <2> QED BY <2>1, <2>3, <2>4 DEF InOrderOfRank
  <1>2. Inv /\ Owned /\ InOrderOfRank /\ [Next]_vars => Owned' /\ InOrderOfRank'
    BY OwnedStep, OrderStep
  <1>3. Inv /\ Owned /\ InOrderOfRank => TurnsExclude
    BY OwnedIsLive, OrderExcludes DEF TurnsExclude
  <1> QED BY <1>1, <1>2, <1>3, InvHolds, PTL DEF Spec

-----------------------------------------------------------------------------
(* The windows. *)

\* On one thread, only the timer of the newest message of an entry is left, it ends one
\* window after that message, and a timer wakes no earlier.
Timed ==
  ~threaded =>
    /\ \A m \in Messages : timer[m] \in {"sleeping", "awake"} =>
         m <= Count /\ HasEntry(key[m]) /\ Newest(key[m]) = m
    /\ \A k \in Keys : HasEntry(k) => due[Newest(k)] = last[k] + window
    /\ \A m \in Messages : timer[m] = "awake" => now >= due[m]

\* An entry is emptied one window after its newest message.
Quiet == \A k \in Keys : HasEntry(k) /\ entries'[k] = <<>> /\ ~threaded => now - last[k] >= window

\* Numbers of messages, as one more is submitted.
LEMMA OneMore ==
  ASSUME DebouncerInv, NEW k \in Keys, Count < MaxMessages, key' = Append(key, k)
  PROVE  /\ Count' = Count + 1 /\ Count + 1 \in Messages /\ key'[Count + 1] = k
         /\ timer[Count + 1] = "none"
         /\ \A m \in Messages : m <= Count => m # Count + 1 /\ m <= Count' /\ key'[m] = key[m] /\ key[m] \in Keys
  <1>1. /\ Count \in Nat /\ MaxMessages \in Nat /\ key \in Seq(Keys)
        /\ \A m \in Messages : m <= Count => m \in 1 .. Count /\ key[m] \in Keys
    BY Numbers
  <1>2. /\ Count' = Count + 1 /\ key'[Count + 1] = k
        /\ \A p \in 1 .. Count : key'[p] = key[p]
    BY <1>1, Grown DEF Count
  <1>3. Count + 1 \in Messages /\ ~(Count + 1 <= Count) BY <1>1 DEF Messages
  <1>4. timer[Count + 1] = "none" BY <1>3 DEF DebouncerInv, Filled
  <1>5. ASSUME NEW m \in Messages, m <= Count
        PROVE m # Count + 1 /\ m <= Count' /\ key'[m] = key[m] /\ key[m] \in Keys
    <2>1. m \in 1 .. Count /\ key[m] \in Keys BY <1>1, <1>5
    <2>2. m # Count + 1 /\ m <= Count + 1 BY <1>1, <2>1
    <2> QED BY <1>2, <2>1, <2>2
  <1> QED BY <1>2, <1>3, <1>4, <1>5

LEMMA PassesTimed ==
  ASSUME DebouncerInv, Timed, NEW k \in Keys, Passthrough(k), entries[k] = <<>>
  PROVE  Timed' /\ Quiet
  <1>1. UNCHANGED <<window, threaded, entries, timer, due, now>>
        /\ \A l \in Keys : l # k => last'[l] = last[l]
    BY DEF Passthrough, DebouncerInv, DebouncerTypeOK
  <1>2. \A m \in Messages : m <= Count => m <= Count' /\ key'[m] = key[m]
    BY OneMore DEF Passthrough
  <1>3. Quiet BY <1>1 DEF Quiet, HasEntry
  <1> QED BY <1>1, <1>2, <1>3 DEF Timed, HasEntry, Newest

LEMMA CollectsTimed ==
  ASSUME DebouncerInv, Timed, NEW k \in Keys, Collect(k)
  PROVE  Timed' /\ Quiet
  <1> DEFINE m == Count + 1
  <1>1. /\ Count \in Nat /\ MaxMessages \in Nat /\ entries \in [Keys -> Seq(Messages)]
        /\ timer \in [Messages -> {"none", "sleeping", "awake", "done"}]
        /\ due \in [Messages -> Nat] /\ last \in [Keys -> Nat] /\ now \in Nat /\ window \in Nat
    BY Numbers, DebounceConstants DEF DebouncerInv, DebouncerTypeOK
  <1>2. /\ Count' = m /\ m \in Messages /\ key'[m] = k /\ timer[m] = "none"
        /\ \A q \in Messages : q <= Count => q # m /\ q <= Count' /\ key'[q] = key[q] /\ key[q] \in Keys
    <2>1. Count < MaxMessages /\ key' = Append(key, k) BY <1>1 DEF Collect
    <2> QED BY <2>1, OneMore
  <1>3. /\ UNCHANGED <<window, threaded, now>>
        /\ entries' = [entries EXCEPT ![k] = Append(entries[k], m)]
        /\ due' = [due EXCEPT ![m] = now + window] /\ last' = [last EXCEPT ![k] = now]
    BY DEF Collect, Collected
  <1>4. Append(entries[k], m) # <<>> /\ Append(entries[k], m)[Len(Append(entries[k], m))] = m
    <2>1. entries[k] \in Seq(Messages) BY <1>1
    <2>2. Len(Append(entries[k], m)) = Len(entries[k]) + 1 /\ Len(entries[k]) \in Nat
          /\ Append(entries[k], m)[Len(entries[k]) + 1] = m /\ Append(entries[k], m) \in Seq(Messages)
      BY <1>2, <2>1, Grown
    <2> QED BY <2>2, EmptySeq
  <1>5. HasEntry(k)' /\ Newest(k)' = m BY <1>1, <1>3, <1>4 DEF HasEntry, Newest
  <1>6. \A l \in Keys \ {k} : HasEntry(l)' = HasEntry(l) /\ Newest(l)' = Newest(l) /\ last'[l] = last[l]
    BY <1>1, <1>3 DEF HasEntry, Newest
  <1>7. Quiet BY <1>1, <1>5, <1>6 DEF Quiet, HasEntry
  <1>8. ASSUME ~threaded
        PROVE  /\ timer'[m] = "sleeping"
               /\ \A q \in Messages \ {m} : timer'[q] \in {"sleeping", "awake"} =>
                    timer'[q] = timer[q] /\ ~(HasEntry(k) /\ q = Newest(k))
    <2>1. CASE HasEntry(k)
      <3>1. Newest(k) \in Messages /\ Newest(k) # m
        <4>1. Newest(k) \in Messages /\ Newest(k) \in 1 .. Count BY <2>1, NewestOf
        <4> QED BY <1>1, <4>1
      <3>2. timer' = [[timer EXCEPT ![Newest(k)] = "done"] EXCEPT ![m] = "sleeping"]
        BY <1>8, <2>1 DEF Collect, Restarted, Aborted
      <3>3. timer'[m] = "sleeping" /\ timer'[Newest(k)] = "done"
            /\ \A q \in Messages \ {m, Newest(k)} : timer'[q] = timer[q]
        BY <1>1, <1>2, <3>1, <3>2
      <3> QED BY <3>3
    <2>2. CASE ~HasEntry(k)
      <3>1. timer' = [timer EXCEPT ![m] = "sleeping"] BY <2>2 DEF Collect, Restarted
      <3> QED BY <1>1, <1>2, <2>2, <3>1
    <2> QED BY <2>1, <2>2
  <1> HIDE DEF m
  <1>9. Timed'
    <2> SUFFICES ASSUME ~threaded
                 PROVE /\ \A q \in Messages : timer'[q] \in {"sleeping", "awake"} =>
                            q <= Count' /\ HasEntry(key[q])' /\ Newest(key[q])' = q
                       /\ \A l \in Keys : HasEntry(l)' => due'[Newest(l)'] = last'[l] + window
                       /\ \A q \in Messages : timer'[q] = "awake" => now >= due'[q]
      BY <1>3 DEF Timed
    <2>1. /\ timer'[m] = "sleeping"
          /\ \A q \in Messages \ {m} : timer'[q] \in {"sleeping", "awake"} =>
               timer'[q] = timer[q] /\ ~(HasEntry(k) /\ q = Newest(k))
      BY <1>8
    <2>2. due'[m] = now + window /\ last'[k] = now /\ \A q \in Messages \ {m} : due'[q] = due[q]
      BY <1>1, <1>2, <1>3
    <2>3. ASSUME NEW q \in Messages, timer'[q] \in {"sleeping", "awake"}
          PROVE q <= Count' /\ HasEntry(key[q])' /\ Newest(key[q])' = q
      <3>1. CASE q = m
        <4>1. m <= m BY <1>2 DEF Messages
        <4>2. key'[q] = k BY <1>2, <3>1
        <4>3. HasEntry(key[q])' /\ Newest(key[q])' = m BY <1>5, <4>2 DEF HasEntry, Newest
        <4> QED BY <1>2, <3>1, <4>1, <4>3
      <3>2. CASE q # m
        <4>1. q <= Count /\ HasEntry(key[q]) /\ Newest(key[q]) = q /\ key[q] # k
          BY <2>1, <2>3, <3>2 DEF Timed
        <4>2. key'[q] = key[q] /\ key[q] \in Keys /\ q <= Count' BY <1>2, <4>1
        <4>3. entries'[key'[q]] = entries[key[q]] BY <1>1, <1>3, <4>1, <4>2
        <4> QED BY <4>1, <4>2, <4>3 DEF HasEntry, Newest
      <3> QED BY <3>1, <3>2
    <2>4. ASSUME NEW l \in Keys, HasEntry(l)' PROVE due'[Newest(l)'] = last'[l] + window
      <3>1. CASE l = k BY <1>5, <2>2, <3>1
      <3>2. CASE l # k
        <4>1. HasEntry(l) /\ Newest(l)' = Newest(l) /\ last'[l] = last[l] BY <1>6, <2>4, <3>2
        <4>2. Newest(l) \in Messages /\ Newest(l) \in 1 .. Count BY <4>1, NewestOf
        <4>3. Newest(l) # m BY <1>1, <4>2 DEF m
        <4> QED BY <2>2, <4>1, <4>2, <4>3 DEF Timed
      <3> QED BY <3>1, <3>2
    <2>5. ASSUME NEW q \in Messages, timer'[q] = "awake" PROVE now >= due'[q]
      BY <2>1, <2>2, <2>5 DEF Timed
    <2> QED BY <2>3, <2>4, <2>5
  <1> QED BY <1>7, <1>9

LEMMA FiresTimed ==
  ASSUME DebouncerInv, Timed, NEW t \in Messages, Fire(t)
  PROVE  Timed' /\ Quiet
  <1>1. /\ entries \in [Keys -> Seq(Messages)] /\ Count' = Count /\ Count \in Nat
        /\ timer \in [Messages -> {"none", "sleeping", "awake", "done"}]
        /\ due \in [Messages -> Nat] /\ last \in [Keys -> Nat] /\ now \in Nat /\ window \in Nat
    BY Numbers, DebounceConstants DEF DebouncerInv, DebouncerTypeOK, Fire, Count
  <1>2. /\ timer[t] = "awake" /\ timer' = [timer EXCEPT ![t] = "done"]
        /\ UNCHANGED <<window, threaded, key, due, last, now>>
    BY DEF Fire
  <1>3. t <= Count /\ key[t] \in Keys
    <2>1. t <= Count BY <1>2 DEF DebouncerInv, Filled
    <2> QED BY <2>1, Numbers
  <1>4. entries' = entries \/ entries' = [entries EXCEPT ![key[t]] = <<>>]
    BY DEF Fire, Taken
  <1>5. \A l \in Keys \ {key[t]} : entries'[l] = entries[l] BY <1>1, <1>4
  <1>6. \A q \in Messages : timer'[q] \in {"sleeping", "awake"} => q # t /\ timer'[q] = timer[q]
    BY <1>1, <1>2
  <1>7. Quiet
    <2> SUFFICES ASSUME NEW k \in Keys, HasEntry(k), entries'[k] = <<>>, ~threaded
                 PROVE now - last[k] >= window
      BY DEF Quiet
    <2>1. k = key[t] BY <1>5 DEF HasEntry
    <2>2. Newest(k) = t /\ now >= due[t] /\ due[t] = last[k] + window
      BY <1>2, <2>1 DEF Timed
    <2> QED BY <1>1, <2>2
  <1>8. Timed'
    <2> SUFFICES ASSUME ~threaded
                 PROVE /\ \A q \in Messages : timer'[q] \in {"sleeping", "awake"} =>
                            q <= Count /\ entries'[key[q]] = entries[key[q]]
                       /\ \A l \in Keys : entries'[l] # <<>> => entries'[l] = entries[l]
      BY <1>1, <1>2, <1>6 DEF Timed, HasEntry, Newest
    <2>1. ASSUME NEW q \in Messages, timer'[q] \in {"sleeping", "awake"}
          PROVE q <= Count /\ entries'[key[q]] = entries[key[q]]
      <3>1. q # t /\ q <= Count /\ Newest(key[q]) = q /\ Newest(key[t]) = t
        BY <1>2, <1>6, <2>1 DEF Timed
      <3>2. key[q] \in Keys BY <3>1, Numbers
      <3> QED BY <1>5, <3>1, <3>2
    <2>2. \A l \in Keys : entries'[l] # <<>> => entries'[l] = entries[l] BY <1>1, <1>4
    <2> QED BY <2>1, <2>2
  <1> QED BY <1>7, <1>8

\* The steps that leave the entries and the timers' ends alone.
LEMMA PassingTimed ==
  ASSUME DebouncerInv, Timed, Tick \/ (\E t \in Messages : Wake(t)) \/ UNCHANGED debouncer
  PROVE  Timed' /\ Quiet
  <1>1. UNCHANGED <<window, threaded, entries, key, due, last>> /\ Count' = Count
    BY DEF Tick, Wake, debouncer, Count
  <1>2. Quiet BY <1>1 DEF Quiet, HasEntry
  <1>3. /\ timer \in [Messages -> {"none", "sleeping", "awake", "done"}]
        /\ now \in Nat /\ due \in [Messages -> Nat]
    BY DEF DebouncerInv, DebouncerTypeOK
  <1>4. ASSUME NEW t \in Messages, Wake(t) PROVE Timed'
    <2>1. /\ timer' = [timer EXCEPT ![t] = "awake"] /\ timer[t] = "sleeping"
          /\ now >= due[t] /\ now' = now
      BY <1>4 DEF Wake
    <2>2. \A q \in Messages : q # t => timer'[q] = timer[q] BY <1>3, <2>1
    <2> QED BY <1>1, <1>3, <2>1, <2>2 DEF Timed, HasEntry, Newest
  <1>5. ASSUME Tick PROVE Timed'
    <2>1. timer' = timer /\ now' = now + 1 BY <1>5 DEF Tick
    <2>2. \A q \in Messages : now >= due[q] => now' >= due[q] BY <1>3, <2>1
    <2> QED BY <1>1, <2>1, <2>2 DEF Timed, HasEntry, Newest
  <1>6. ASSUME UNCHANGED debouncer PROVE Timed'
    BY <1>1, <1>6 DEF debouncer, Timed, HasEntry, Newest
  <1> QED BY <1>2, <1>4, <1>5, <1>6

LEMMA TimedStep ==
  ASSUME Inv, Timed, [Next]_vars
  PROVE  Timed' /\ Quiet
  <1>1. DebouncerInv /\ \A k \in Keys : HasEntry(k) => window > 0 /\ k \notin CliKeys
    BY DEF Inv, Known
  <1>2. ASSUME NEW k \in Keys, Receive(k) PROVE Timed' /\ Quiet
    <2>1. CASE Passthrough(k) /\ (window = 0 \/ k \in CliKeys)
      <3>1. entries[k] = <<>> BY <1>1, <2>1 DEF HasEntry
      <3> QED BY <1>1, <2>1, <3>1, PassesTimed
    <2>2. CASE Collect(k) BY <1>1, <2>2, CollectsTimed
    <2> QED BY <1>2, <2>1, <2>2 DEF Receive, Debounce
  <1>3. ASSUME NEW t \in Messages, Expire(t) PROVE Timed' /\ Quiet
    BY <1>1, <1>3, FiresTimed DEF Expire
  <1>4. CASE UNCHANGED debouncer \/ Tick \/ \E t \in Messages : Wake(t)
    BY <1>1, <1>4, PassingTimed
  <1>5. \/ UNCHANGED debouncer \/ Tick \/ (\E t \in Messages : Wake(t))
        \/ (\E k \in Keys : Receive(k)) \/ \E t \in Messages : Expire(t)
    BY DEF Next, Tasks, vars, Stop, StopCancels, Admit, Worker, Register, Interrupt, CheckDone,
           Subscribe, Begin, Finish, Unregister, MarkDone, Notify, Leave, loop
  <1> QED BY <1>2, <1>3, <1>4, <1>5

\* On one thread, a combined message leaves its entry only after the window has passed
\* without a new message of the sender.
THEOREM WindowsAreQuiet == Spec => QuietWindow
  <1>1. Init => Timed
    <2> SUFFICES ASSUME Init PROVE Timed OBVIOUS
    <2> QED BY DEF Init, DebouncerInit, Timed, HasEntry
  <1>2. Inv /\ Timed /\ [Next]_vars => Timed' BY TimedStep
  <1>3. Inv /\ Timed /\ [Next]_vars =>
          [\A k \in Keys : HasEntry(k) /\ entries'[k] = <<>> /\ ~threaded => now - last[k] >= window]_debouncer
    BY TimedStep DEF Quiet
  <1> QED BY <1>1, <1>2, <1>3, InvHolds, PTL DEF Spec, QuietWindow
=============================================================================

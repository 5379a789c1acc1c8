------------------------- MODULE ChannelHistoryProofs -------------------------
(***************************************************************************)
(* ChannelHistory for all senders, file names, settings, limits, numbers   *)
(* of messages and of restarts.  The inductive invariants, which the steps *)
(* keep one action at a time, each on top of the one before:               *)
(*                                                                         *)
(*   TypeInv   what the variables hold; a worker that appends has a turn   *)
(*             to append.                                                  *)
(*   WorkInv   every worker is where its locals say (Workers), and without *)
(*             overlap one message of a conversation is worked on at a     *)
(*             time, the last one (Serial).                                *)
(*   AskedLast the message that the model is to answer is the last turn    *)
(*             remembered, and was when the view was made.                 *)
(*   PlaceInv  where the request of a message is, in memory and in the     *)
(*             file, at each point of its processing (Placed); what /new   *)
(*             has cleared so far (Forgotten); nothing is kept that nobody *)
(*             said (Known).  A rollback removes the last turn of each:    *)
(*             that it is the request, and the only copy of it, is what    *)
(*             Placed adds to the property.                                *)
(*   Shape     who speaks in a turn: no reply inside a user's turn or the  *)
(*             result of a tool; a file holds turns as they were appended. *)
(*   Spacing   what may follow what, where messages come one at a time: a  *)
(*             result follows its call only, so that stripping old tool    *)
(*             turns leaves a conversation in which turns alternate.       *)
(*   AllMarked a marker that closes a request is in the file, and in       *)
(*             memory, from where no later step takes it (TaleInv holds    *)
(*             these and the ones above).                                  *)
(*   Telling   memory says what the end of the file says, except between   *)
(*             the two writes of one turn; the turn on its way is the      *)
(*             difference (Tale).                                          *)
(*                                                                         *)
(* Conversations are folded over turn by turn (Normalize, Stripped, Parts).*)
(* The first sections derive induction from the least element of a set of  *)
(* naturals and prove what those operators keep of a conversation.         *)
(***************************************************************************)
EXTENDS ChannelHistory, FiniteSetTheorems, SequenceTheorems, WellFoundedInduction, TLAPS

-----------------------------------------------------------------------------
(* Induction, and folds over finite sets.                                  *)

\* Sets of naturals have least elements: the induction of all that follows.
LEMMA LeastNat ==
  ASSUME NEW S \in SUBSET Nat, S # {}
  PROVE  \E m \in S : \A n \in S : m <= n
<1> DEFINE R == OpToRel(<, Nat)
<1>1. IsWellFoundedOn(R, Nat)
  BY NatLessThanWellFounded
<1>2. \A x, y \in Nat : <<y, x>> \in R <=> y < x
  BY DEF OpToRel
<1> HIDE DEF R
<1>3. PICK m \in S : \A n \in S : ~(<<n, m>> \in R)
  BY <1>1, WFMin
<1>4. \A n \in S : m <= n
  <2> TAKE n \in S
  <2>1. n \in Nat /\ m \in Nat /\ ~(n < m)
    BY <1>2, <1>3
  <2> QED BY <2>1
<1> QED BY <1>4

\* Induction over the naturals, for a set instead of a predicate.
LEMMA SetInduction ==
  ASSUME NEW S, 0 \in S, \A n \in Nat : n \in S => n + 1 \in S
  PROVE  Nat \subseteq S
<1> SUFFICES ASSUME Nat \ S # {} PROVE FALSE
  OBVIOUS
<1>1. PICK m \in Nat \ S : \A n \in Nat \ S : m <= n
  BY LeastNat
<1>2. m # 0 /\ m - 1 \in Nat /\ m - 1 \in S
  BY <1>1
<1> QED BY <1>1, <1>2

\* Induction over the subsets of a finite set: one element less.
LEMMA SubsetInduction ==
  ASSUME NEW D, IsFiniteSet(D), NEW P, {} \in P,
         \A s \in SUBSET D : s # {} => \E x \in s : s \ {x} \in P => s \in P
  PROVE  SUBSET D \subseteq P
<1> DEFINE Good == {n \in Nat : \A s \in SUBSET D : Cardinality(s) = n => s \in P}
<1>1. \A s \in SUBSET D : IsFiniteSet(s) /\ Cardinality(s) \in Nat /\ (Cardinality(s) = 0 <=> s = {})
  BY FS_Subset, FS_CardinalityType, FS_EmptySet
<1>2. 0 \in Good
  BY <1>1
<1>3. ASSUME NEW n \in Nat, n \in Good PROVE n + 1 \in Good
  <2> SUFFICES ASSUME NEW s \in SUBSET D, Cardinality(s) = n + 1 PROVE s \in P
    OBVIOUS
  <2>1. s # {} /\ IsFiniteSet(s)
    BY <1>1
  <2>2. PICK x \in s : s \ {x} \in P => s \in P
    BY <2>1
  <2>3. s \ {x} \in SUBSET D /\ Cardinality(s \ {x}) \in Nat
    BY <1>1
  <2>4. Cardinality(s \ {x}) = Cardinality(s) - 1
    BY <2>1, FS_RemoveElement
  <2> QED BY <1>3, <2>2, <2>3, <2>4
<1> HIDE DEF Good
<1>4. Nat \subseteq Good
  BY <1>2, <1>3, SetInduction
<1> QED BY <1>1, <1>4 DEF Good

\* A choice of one element of each nonempty subset of D.
Picks(pick, D) == \A s \in SUBSET D : s # {} => pick[s] \in s

\* g is the fold of step over every subset of D, in the order that pick makes.
Folds(g, D, T, base, pick, step) ==
  /\ g \in [SUBSET D -> T]
  /\ \A s \in SUBSET D : g[s] = IF s = {} THEN base ELSE step[pick[s]][g[s \ {pick[s]}]]

\* The fold over the subsets of a finite set exists, as a function.
LEMMA FoldExists ==
  ASSUME NEW D, IsFiniteSet(D), NEW T, NEW base \in T,
         NEW pick, Picks(pick, D), NEW step \in [D -> [T -> T]]
  PROVE  \E g : Folds(g, D, T, base, pick, step)
<1> DEFINE Upto(n) == {s \in SUBSET D : Cardinality(s) <= n}
           IsFold(g, n) ==
             /\ g \in [Upto(n) -> T]
             /\ \A s \in Upto(n) : g[s] = IF s = {} THEN base ELSE step[pick[s]][g[s \ {pick[s]}]]
           Good == {n \in Nat : \E g : IsFold(g, n)}
<1>1. \A s \in SUBSET D : IsFiniteSet(s) /\ Cardinality(s) \in Nat /\ (Cardinality(s) = 0 <=> s = {})
  BY FS_Subset, FS_CardinalityType, FS_EmptySet
<1>2. ASSUME NEW s \in SUBSET D, s # {}
      PROVE  /\ pick[s] \in s /\ pick[s] \in D /\ s \ {pick[s]} \in SUBSET D
             /\ Cardinality(s \ {pick[s]}) = Cardinality(s) - 1
  BY <1>1, <1>2, FS_RemoveElement DEF Picks
<1>3. 0 \in Good
  <2> DEFINE g == [s \in Upto(0) |-> base]
  <2>1. \A s \in Upto(0) : s = {}
    BY <1>1
  <2>2. IsFold(g, 0)
    BY <2>1
  <2> QED BY <2>2
<1>4. ASSUME NEW n \in Nat, n \in Good PROVE n + 1 \in Good
  <2>1. PICK g : IsFold(g, n)
    BY <1>4
  <2> DEFINE h == [s \in Upto(n + 1) |-> IF s \in Upto(n) THEN g[s] ELSE step[pick[s]][g[s \ {pick[s]}]]]
  <2>2. ASSUME NEW s \in Upto(n + 1), s # {} PROVE s \ {pick[s]} \in Upto(n) /\ s \ {pick[s]} \in Upto(n + 1)
    <3>1. s \in SUBSET D /\ Cardinality(s) <= n + 1 /\ Cardinality(s) \in Nat
      BY <1>1
    <3>2. Cardinality(s \ {pick[s]}) = Cardinality(s) - 1 /\ s \ {pick[s]} \in SUBSET D
      BY <1>2, <2>2, <3>1
    <3> QED BY <3>1, <3>2
  <2>3. \A s \in Upto(n + 1) : s \notin Upto(n) => s # {}
    BY <1>1
  <2>4. ASSUME NEW s \in Upto(n + 1) PROVE h[s] \in T
    <3>1. CASE s \in Upto(n)
      BY <2>1, <3>1
    <3>2. CASE s \notin Upto(n)
      <4>1. s # {} /\ pick[s] \in D
        BY <1>2, <2>3, <3>2
      <4>2. g[s \ {pick[s]}] \in T
        BY <2>1, <2>2, <4>1
      <4>3. step[pick[s]] \in [T -> T]
        BY <4>1
      <4> QED BY <3>2, <4>1, <4>2, <4>3
    <3> QED BY <3>1, <3>2
  <2>5. ASSUME NEW s \in Upto(n + 1)
        PROVE  h[s] = IF s = {} THEN base ELSE step[pick[s]][h[s \ {pick[s]}]]
    <3>1. CASE s = {}
      <4>1. s \in Upto(n)
        BY <1>1, <3>1
      <4>2. h[s] = g[s] /\ g[s] = base
        BY <2>1, <3>1, <4>1
      <4> QED BY <3>1, <4>2
    <3>2. CASE s # {}
      <4>1. h[s \ {pick[s]}] = g[s \ {pick[s]}]
        BY <2>2, <3>2
      <4>2. h[s] = step[pick[s]][g[s \ {pick[s]}]]
        BY <2>1, <3>2
      <4> QED BY <3>2, <4>1, <4>2
    <3> QED BY <3>1, <3>2
  <2>6. IsFold(h, n + 1)
    <3>1. h \in [Upto(n + 1) -> T]
      <4> HIDE DEF Upto
      <4> QED BY <2>4
    <3> HIDE DEF h, Upto
    <3> QED BY <2>5, <3>1
  <2> HIDE DEF IsFold, h
  <2>7. \E f : IsFold(f, n + 1)
    BY <2>6
  <2> QED BY <2>7
<1>5. Cardinality(D) \in Good
  <2> HIDE DEF Good
  <2>1. Nat \subseteq Good
    BY <1>3, <1>4, SetInduction
  <2> QED BY <2>1, FS_CardinalityType
<1>6. Upto(Cardinality(D)) = SUBSET D
  BY FS_Subset
<1>7. PICK g : IsFold(g, Cardinality(D))
  BY <1>5
<1> HIDE DEF Upto
<1> QED BY <1>6, <1>7 DEF Folds

\* A bounded set of naturals has a maximum.
LEMMA MaxIs ==
  ASSUME NEW S \in SUBSET Nat, S # {}, NEW n \in Nat, \A x \in S : x <= n
  PROVE  Max(S) \in S /\ \A x \in S : Max(S) >= x
<1> DEFINE B == {m \in Nat : \A x \in S : x <= m}
<1>1. PICK m \in B : \A k \in B : m <= k
  BY LeastNat
<1>2. m \in S
  <2> SUFFICES ASSUME m \notin S PROVE FALSE
    OBVIOUS
  <2>1. PICK y \in S : TRUE
    OBVIOUS
  <2>2. m - 1 \in Nat /\ \A x \in S : x <= m - 1
    BY <1>1, <2>1
  <2> QED BY <1>1, <2>2
<1>3. \E x \in S : \A y \in S : x >= y
  BY <1>1, <1>2
<1> QED BY <1>3 DEF Max

-----------------------------------------------------------------------------
(* Folds over sequences.                                                     *)

\* acc has the values of a fold over 1 .. n from base on, one more each time.
Upward(acc, n, T, base, step) ==
  /\ acc \in [0 .. n -> T] /\ acc[0] = base
  /\ \A k \in 1 .. n : acc[k] = step[k][acc[k - 1]]

\* g is a fold that takes the greatest element of a set last.
TakesGreatest(g, n, T, base, step) ==
  /\ g[{}] = base
  /\ \A S \in SUBSET (1 .. n) : S # {} /\ g[S \ {Max(S)}] \in T => g[S] = step[Max(S)][g[S \ {Max(S)}]]

\* The greatest of some positions,
LEMMA GreatestIs ==
  ASSUME NEW n \in Nat, NEW S \in SUBSET (1 .. n), S # {}
  PROVE  Max(S) \in S
<1>1. S \in SUBSET Nat /\ \A x \in S : x <= n
  OBVIOUS
<1> QED BY <1>1, MaxIs

\* and of the first ones.
LEMMA GreatestOfFirst ==
  ASSUME NEW n \in Nat, NEW k \in 1 .. n
  PROVE  /\ (1 .. k) \in SUBSET (1 .. n) /\ 1 .. k # {} /\ Max(1 .. k) = k
         /\ (1 .. k) \ {k} = 1 .. k - 1
<1>0. k \in Nat /\ 1 <= k /\ k <= n
  OBVIOUS
<1>1. \A x \in 1 .. k : x \in 1 .. n
  BY <1>0
<1>2. (1 .. k) \ {k} = 1 .. k - 1
  BY <1>0
<1>3. PICK S : S = 1 .. k
  OBVIOUS
<1>4. \A x : x \in S <=> x \in Int /\ 1 <= x /\ x <= k
  BY <1>0, <1>3
<1>5. S \in SUBSET Nat /\ S # {} /\ (\A x \in S : x <= k) /\ k \in S
  BY <1>0, <1>4
<1>6. Max(S) \in S /\ Max(S) >= k
  BY <1>0, <1>5, MaxIs
<1>7. Max(S) <= k /\ Max(S) \in Nat
  BY <1>5, <1>6
<1>8. Max(S) = k
  BY <1>0, <1>6, <1>7
<1> QED BY <1>1, <1>2, <1>3, <1>5, <1>8

\* Such a fold goes up the positions of a sequence.
LEMMA FoldGoesUp ==
  ASSUME NEW n \in Nat, NEW T, NEW base \in T, NEW step \in [1 .. n -> [T -> T]],
         NEW g, TakesGreatest(g, n, T, base, step)
  PROVE  \E acc : Upward(acc, n, T, base, step) /\ acc[n] = g[1 .. n]
<1> DEFINE acc == [k \in 0 .. n |-> g[1 .. k]]
<1>1. acc[0] = base
  <2>1. 1 .. 0 = {} /\ 0 \in 0 .. n
    OBVIOUS
  <2>2. acc[0] = g[{}]
    BY <2>1
  <2> QED BY <2>2 DEF TakesGreatest
<1>2. ASSUME NEW k \in 1 .. n, acc[k - 1] \in T PROVE acc[k] = step[k][acc[k - 1]]
  <2>1. acc[k] = g[1 .. k] /\ acc[k - 1] = g[1 .. k - 1]
    OBVIOUS
  <2>2. (1 .. k) \in SUBSET (1 .. n) /\ 1 .. k # {} /\ Max(1 .. k) = k /\ (1 .. k) \ {k} = 1 .. k - 1
    BY GreatestOfFirst
  <2> HIDE DEF acc
  <2>3. g[1 .. k] = step[k][g[1 .. k - 1]]
    BY <1>2, <2>1, <2>2 DEF TakesGreatest
  <2> QED BY <2>1, <2>3
<1>3. \A k \in Nat : k \in 0 .. n => acc[k] \in T
  <2> DEFINE P == {k \in Nat : k \in 0 .. n => acc[k] \in T}
  <2> HIDE DEF acc
  <2>1. 0 \in P
    BY <1>1
  <2>2. ASSUME NEW k \in Nat, k \in P PROVE k + 1 \in P
    <3> SUFFICES ASSUME k + 1 \in 0 .. n PROVE acc[k + 1] \in T
      OBVIOUS
    <3>1. acc[k] \in T /\ k + 1 \in 1 .. n /\ (k + 1) - 1 = k
      BY <2>2
    <3>2. acc[k + 1] = step[k + 1][acc[k]]
      BY <1>2, <3>1
    <3> QED BY <3>1, <3>2
  <2> HIDE DEF P
  <2>3. Nat \subseteq P
    BY <2>1, <2>2, SetInduction
  <2> QED BY <2>3 DEF P
<1>4. acc \in [0 .. n -> T]
  BY <1>3
<1>5. acc[n] = g[1 .. n]
  OBVIOUS
<1>6. \A k \in 1 .. n : acc[k - 1] \in T
  <2> HIDE DEF acc
  <2> QED BY <1>4
<1> HIDE DEF acc
<1>7. Upward(acc, n, T, base, step)
  BY <1>1, <1>2, <1>4, <1>6 DEF Upward
<1> QED BY <1>5, <1>7

\* g takes the greatest element of each set last.
FoldsGreatest(g, n, T, base, step) ==
  /\ g \in [SUBSET (1 .. n) -> T]
  /\ \A S \in SUBSET (1 .. n) : g[S] = IF S = {} THEN base ELSE step[Max(S)][g[S \ {Max(S)}]]

\* There is such a fold, as a function.
LEMMA GreatestFold ==
  ASSUME NEW n \in Nat, NEW T, NEW base \in T, NEW step \in [1 .. n -> [T -> T]]
  PROVE  \E g : FoldsGreatest(g, n, T, base, step)
<1> DEFINE D == 1 .. n
           pick == [S \in SUBSET D |-> Max(S)]
<1>1. IsFiniteSet(D)
  BY FS_Interval
<1>2. \A S \in SUBSET D : S # {} => Max(S) \in S /\ pick[S] = Max(S)
  BY GreatestIs
<1>3. Picks(pick, D)
  <2> HIDE DEF D, pick
  <2> QED BY <1>2 DEF Picks
<1>4. PICK g : Folds(g, D, T, base, pick, step)
  <2> HIDE DEF pick
  <2> QED BY <1>1, <1>3, FoldExists
<1> HIDE DEF pick
<1>5. ASSUME NEW S \in SUBSET D PROVE g[S] = IF S = {} THEN base ELSE step[Max(S)][g[S \ {Max(S)}]]
  BY <1>2, <1>4 DEF Folds
<1> QED BY <1>4, <1>5 DEF Folds, FoldsGreatest

-----------------------------------------------------------------------------
(* The folds of the model, one element after the other.                      *)

\* One element more of Only,
OnlyStep(v, x, S) == IF x \in S THEN Append(v, x) ELSE v

\* acc has what is kept of each beginning of s.
OnlyOver(acc, s, S, X) ==
  /\ acc \in [0 .. Len(s) -> Seq(X)]
  /\ acc[0] = <<>> /\ Only(s, S) = acc[Len(s)]
  /\ \A k \in 1 .. Len(s) : acc[k] = OnlyStep(acc[k - 1], s[k], S)

\* Only takes the elements one by one.
LEMMA OnlyOneByOne ==
  ASSUME NEW X, NEW s \in Seq(X), NEW S
  PROVE  \E acc : OnlyOver(acc, s, S, X)
<1> DEFINE n == Len(s)
           T == Seq(X)
           step == [k \in 1 .. n |-> [v \in T |-> OnlyStep(v, s[k], S)]]
           IsIter(g) == g = [P \in SUBSET (DOMAIN s) |->
                               IF P = {} THEN <<>> ELSE OnlyStep(g[P \ {Max(P)}], s[Max(P)], S)]
           iter == CHOOSE g : IsIter(g)
<1>1. n \in Nat /\ DOMAIN s = 1 .. n /\ <<>> \in T /\ \A k \in 1 .. n : s[k] \in X
  OBVIOUS
<1>2. \A v \in T, k \in 1 .. n : OnlyStep(v, s[k], S) \in T
  BY <1>1 DEF OnlyStep
<1>3. step \in [1 .. n -> [T -> T]] /\ \A k \in 1 .. n, v \in T : step[k][v] = OnlyStep(v, s[k], S)
  BY <1>2
<1> HIDE DEF step, n, T
<1>4. PICK g : FoldsGreatest(g, n, T, <<>>, step)
  BY <1>1, <1>3, GreatestFold
<1>5. ASSUME NEW P \in SUBSET (1 .. n), P # {}
      PROVE  step[Max(P)][g[P \ {Max(P)}]] = OnlyStep(g[P \ {Max(P)}], s[Max(P)], S)
  <2>1. Max(P) \in 1 .. n /\ g[P \ {Max(P)}] \in T
    BY <1>1, <1>4, <1>5, GreatestIs DEF FoldsGreatest
  <2> QED BY <1>3, <2>1
<1>6. IsIter(g)
  BY <1>1, <1>4, <1>5 DEF FoldsGreatest
<1>7. IsIter(iter)
  BY <1>6
<1>8. Only(s, S) = iter[DOMAIN s]
  BY DEF Only, OnlyStep, FoldLeft, MapThenFoldSet
<1> HIDE DEF iter
<1>9. ASSUME NEW P \in SUBSET (1 .. n)
      PROVE  iter[P] = IF P = {} THEN <<>> ELSE OnlyStep(iter[P \ {Max(P)}], s[Max(P)], S)
  BY <1>1, <1>7
<1>10. TakesGreatest(iter, n, T, <<>>, step)
  <2>1. iter[{}] = <<>>
    BY <1>9
  <2>2. ASSUME NEW P \in SUBSET (1 .. n), P # {}, iter[P \ {Max(P)}] \in T
        PROVE  iter[P] = step[Max(P)][iter[P \ {Max(P)}]]
    <3>1. Max(P) \in 1 .. n
      BY <1>1, <2>2, GreatestIs
    <3> QED BY <1>3, <1>9, <2>2, <3>1
  <2> QED BY <2>1, <2>2 DEF TakesGreatest
<1>11. PICK acc : Upward(acc, n, T, <<>>, step) /\ acc[n] = iter[1 .. n]
  BY <1>1, <1>3, <1>10, FoldGoesUp
<1>12. /\ acc \in [0 .. n -> T] /\ acc[0] = <<>>
       /\ \A k \in 1 .. n : acc[k] = step[k][acc[k - 1]]
  BY <1>11 DEF Upward
<1>13. ASSUME NEW k \in 1 .. n PROVE acc[k] = OnlyStep(acc[k - 1], s[k], S)
  <2>1. k - 1 \in 0 .. n
    BY <1>1
  <2> QED BY <1>3, <1>12, <2>1
<1> QED BY <1>1, <1>8, <1>11, <1>12, <1>13 DEF OnlyOver, n, T

\* One turn more of Parts.
PartsStep(v, t) == v \o t.parts

\* What a part of a turn is.
Part == Roles \X (Messages \cup {Closure})

\* acc has the parts of each beginning of turns.
PartsOver(acc, turns) ==
  /\ acc \in [0 .. Len(turns) -> Seq(Part)]
  /\ acc[0] = <<>> /\ Parts(turns) = acc[Len(turns)]
  /\ \A k \in 1 .. Len(turns) : acc[k] = PartsStep(acc[k - 1], turns[k])

\* Parts takes the turns one by one.
LEMMA PartsOneByOne ==
  ASSUME NEW turns \in Seq(Turns)
  PROVE  \E acc : PartsOver(acc, turns)
<1> DEFINE n == Len(turns)
           T == Seq(Part)
           step == [k \in 1 .. n |-> [v \in T |-> PartsStep(v, turns[k])]]
           IsIter(g) == g = [P \in SUBSET (DOMAIN turns) |->
                               IF P = {} THEN <<>> ELSE PartsStep(g[P \ {Max(P)}], turns[Max(P)])]
           iter == CHOOSE g : IsIter(g)
<1>1. n \in Nat /\ DOMAIN turns = 1 .. n /\ <<>> \in T /\ \A k \in 1 .. n : turns[k] \in Turns
  OBVIOUS
<1>2. \A v \in T, k \in 1 .. n : PartsStep(v, turns[k]) \in T
  <2>1. \A k \in 1 .. n : turns[k].parts \in T
    BY <1>1 DEF Turns, Part
  <2> QED BY <2>1 DEF PartsStep
<1>3. step \in [1 .. n -> [T -> T]] /\ \A k \in 1 .. n, v \in T : step[k][v] = PartsStep(v, turns[k])
  BY <1>2
<1> HIDE DEF step, n, T
<1>4. PICK g : FoldsGreatest(g, n, T, <<>>, step)
  BY <1>1, <1>3, GreatestFold
<1>5. ASSUME NEW P \in SUBSET (1 .. n), P # {}
      PROVE  step[Max(P)][g[P \ {Max(P)}]] = PartsStep(g[P \ {Max(P)}], turns[Max(P)])
  <2>1. Max(P) \in 1 .. n /\ g[P \ {Max(P)}] \in T
    BY <1>1, <1>4, <1>5, GreatestIs DEF FoldsGreatest
  <2> QED BY <1>3, <2>1
<1>6. IsIter(g)
  BY <1>1, <1>4, <1>5 DEF FoldsGreatest
<1>7. IsIter(iter)
  BY <1>6
<1>8. Parts(turns) = iter[DOMAIN turns]
  BY DEF Parts, PartsStep, FoldLeft, MapThenFoldSet
<1> HIDE DEF iter
<1>9. ASSUME NEW P \in SUBSET (1 .. n)
      PROVE  iter[P] = IF P = {} THEN <<>> ELSE PartsStep(iter[P \ {Max(P)}], turns[Max(P)])
  BY <1>1, <1>7
<1>10. TakesGreatest(iter, n, T, <<>>, step)
  <2>1. iter[{}] = <<>>
    BY <1>9
  <2>2. ASSUME NEW P \in SUBSET (1 .. n), P # {}, iter[P \ {Max(P)}] \in T
        PROVE  iter[P] = step[Max(P)][iter[P \ {Max(P)}]]
    <3>1. Max(P) \in 1 .. n
      BY <1>1, <2>2, GreatestIs
    <3> QED BY <1>3, <1>9, <2>2, <3>1
  <2> QED BY <2>1, <2>2 DEF TakesGreatest
<1>11. PICK acc : Upward(acc, n, T, <<>>, step) /\ acc[n] = iter[1 .. n]
  BY <1>1, <1>3, <1>10, FoldGoesUp
<1>12. /\ acc \in [0 .. n -> T] /\ acc[0] = <<>>
       /\ \A k \in 1 .. n : acc[k] = step[k][acc[k - 1]]
  BY <1>11 DEF Upward
<1>13. ASSUME NEW k \in 1 .. n PROVE acc[k] = PartsStep(acc[k - 1], turns[k])
  <2>1. k - 1 \in 0 .. n
    BY <1>1
  <2> QED BY <1>3, <1>12, <2>1
<1> QED BY <1>1, <1>8, <1>11, <1>12, <1>13 DEF PartsOver, n, T

\* What normalize_cached_channel_turns has made so far.
Made == [turns : Seq(Turns), user : BOOLEAN]

\* What Merged makes is such a value.
LEMMA MergedTypes ==
  ASSUME NEW acc \in Made, NEW t \in Turns
  PROVE  Merged(acc, t) \in Made
<1>1. acc.turns \in Seq(Turns) /\ acc.user \in BOOLEAN /\ t.parts \in Seq(Part) /\ t.role \in Roles
  BY DEF Made, Turns, Part
<1>2. Append(acc.turns, t) \in Seq(Turns)
  BY <1>1
<1>3. CASE t.role = "tool" \/ (acc.user /\ t.role = "user")
  BY <1>2, <1>3 DEF Merged, Made
<1>4. CASE ~(t.role = "tool" \/ (acc.user /\ t.role = "user")) /\ ~acc.user /\ t.role # "user"
  BY <1>2, <1>4 DEF Merged, Made
<1>5. CASE /\ ~(t.role = "tool" \/ (acc.user /\ t.role = "user")) /\ ~(~acc.user /\ t.role # "user")
           /\ acc.turns = <<>>
  BY <1>5 DEF Merged
<1>6. CASE /\ ~(t.role = "tool" \/ (acc.user /\ t.role = "user")) /\ ~(~acc.user /\ t.role # "user")
           /\ acc.turns # <<>>
  <2>1. Merged(acc, t) = [acc EXCEPT !.turns[Len(acc.turns)].parts = @ \o t.parts]
    BY <1>6 DEF Merged
  <2> DEFINE n == Len(acc.turns)
  <2>2. n \in 1 .. Len(acc.turns) /\ acc.turns[n] \in Turns
    BY <1>1, <1>6
  <2>3. acc.turns[n].parts \o t.parts \in Seq(Part)
    BY <1>1, <2>2 DEF Turns, Part
  <2>4. PICK w : w = acc.turns[n].parts \o t.parts
    OBVIOUS
  <2>5. [acc.turns[n] EXCEPT !.parts = w] \in Turns
    BY <2>2, <2>3, <2>4 DEF Turns, Part
  <2>6. PICK u : u = [acc.turns[n] EXCEPT !.parts = w]
    OBVIOUS
  <2>7. [acc.turns EXCEPT ![n] = u] \in Seq(Turns)
    BY <1>1, <2>2, <2>5, <2>6
  <2>8. Merged(acc, t) = [acc EXCEPT !.turns = [acc.turns EXCEPT ![n] = u]]
    BY <2>1, <2>4, <2>6 DEF Made
  <2> QED BY <2>7, <2>8 DEF Made
<1> QED BY <1>3, <1>4, <1>5, <1>6

\* Before the first turn.
Nothing == [turns |-> <<>>, user |-> TRUE]

\* acc has what is made of each beginning of turns.
MergedOver(acc, turns) ==
  /\ acc \in [0 .. Len(turns) -> Made]
  /\ acc[0] = Nothing /\ Normalize(turns) = acc[Len(turns)].turns
  /\ \A k \in 1 .. Len(turns) : acc[k] = Merged(acc[k - 1], turns[k])

\* Normalize takes the turns one by one.
LEMMA MergedOneByOne ==
  ASSUME NEW turns \in Seq(Turns)
  PROVE  \E acc : MergedOver(acc, turns)
<1> DEFINE n == Len(turns)
           T == Made
           step == [k \in 1 .. n |-> [v \in T |-> Merged(v, turns[k])]]
           IsIter(g) == g = [P \in SUBSET (DOMAIN turns) |->
                               IF P = {} THEN Nothing ELSE Merged(g[P \ {Max(P)}], turns[Max(P)])]
           iter == CHOOSE g : IsIter(g)
<1>1. n \in Nat /\ DOMAIN turns = 1 .. n /\ Nothing \in T /\ \A k \in 1 .. n : turns[k] \in Turns
  BY DEF Made, Nothing
<1>2. \A v \in T, k \in 1 .. n : Merged(v, turns[k]) \in T
  BY <1>1, MergedTypes
<1>3. step \in [1 .. n -> [T -> T]] /\ \A k \in 1 .. n, v \in T : step[k][v] = Merged(v, turns[k])
  BY <1>2
<1> HIDE DEF step, n, T
<1>4. PICK g : FoldsGreatest(g, n, T, Nothing, step)
  BY <1>1, <1>3, GreatestFold
<1>5. ASSUME NEW P \in SUBSET (1 .. n), P # {}
      PROVE  step[Max(P)][g[P \ {Max(P)}]] = Merged(g[P \ {Max(P)}], turns[Max(P)])
  <2>1. Max(P) \in 1 .. n /\ g[P \ {Max(P)}] \in T
    BY <1>1, <1>4, <1>5, GreatestIs DEF FoldsGreatest
  <2> QED BY <1>3, <2>1
<1>6. IsIter(g)
  BY <1>1, <1>4, <1>5 DEF FoldsGreatest
<1>7. IsIter(iter)
  BY <1>6
<1>8. Normalize(turns) = iter[DOMAIN turns].turns
  BY DEF Normalize, Nothing, FoldLeft, MapThenFoldSet
<1> HIDE DEF iter
<1>9. ASSUME NEW P \in SUBSET (1 .. n)
      PROVE  iter[P] = IF P = {} THEN Nothing ELSE Merged(iter[P \ {Max(P)}], turns[Max(P)])
  BY <1>1, <1>7
<1>10. TakesGreatest(iter, n, T, Nothing, step)
  <2>1. iter[{}] = Nothing
    BY <1>9
  <2>2. ASSUME NEW P \in SUBSET (1 .. n), P # {}, iter[P \ {Max(P)}] \in T
        PROVE  iter[P] = step[Max(P)][iter[P \ {Max(P)}]]
    <3>1. Max(P) \in 1 .. n
      BY <1>1, <2>2, GreatestIs
    <3> QED BY <1>3, <1>9, <2>2, <3>1
  <2> QED BY <2>1, <2>2 DEF TakesGreatest
<1>11. PICK acc : Upward(acc, n, T, Nothing, step) /\ acc[n] = iter[1 .. n]
  BY <1>1, <1>3, <1>10, FoldGoesUp
<1>12. /\ acc \in [0 .. n -> T] /\ acc[0] = Nothing
       /\ \A k \in 1 .. n : acc[k] = step[k][acc[k - 1]]
  BY <1>11 DEF Upward
<1>13. ASSUME NEW k \in 1 .. n PROVE acc[k] = Merged(acc[k - 1], turns[k])
  <2>1. k - 1 \in 0 .. n
    BY <1>1
  <2> QED BY <1>3, <1>12, <2>1
<1> QED BY <1>1, <1>8, <1>11, <1>12, <1>13 DEF MergedOver, n, T

-----------------------------------------------------------------------------
(* What the operators on conversations leave, cut and keep.                  *)

\* Everything that is said in turns.
PartSet(turns) == UNION {Range(turns[i].parts) : i \in DOMAIN turns}

\* Has in terms of the set of parts.
LEMMA HasIs ==
  ASSUME NEW turns, NEW role, NEW m
  PROVE  Has(turns, role, m) <=> <<role, m>> \in PartSet(turns)
BY DEF Has, PartSet

\* The parts of a conversation with one turn more, and with one less.
LEMMA PartSetOf ==
  ASSUME NEW turns \in Seq(Turns), NEW t \in Turns
  PROVE  /\ PartSet(<<>>) = {}
         /\ PartSet(<<t>>) = Range(t.parts)
         /\ PartSet(Append(turns, t)) = PartSet(turns) \cup Range(t.parts)
         /\ turns # <<>> => PartSet(turns) = PartSet(Front(turns)) \cup Range(Last(turns).parts)
<1>1. PartSet(<<>>) = {} /\ PartSet(<<t>>) = Range(t.parts)
  BY DEF PartSet
<1>2. PartSet(Append(turns, t)) = PartSet(turns) \cup Range(t.parts)
  <2>1. \A i \in DOMAIN turns : i \in DOMAIN Append(turns, t) /\ Append(turns, t)[i] = turns[i]
    OBVIOUS
  <2>2. \A i \in DOMAIN Append(turns, t) : i \in DOMAIN turns \/ Append(turns, t)[i] = t
    OBVIOUS
  <2>3. Len(turns) + 1 \in DOMAIN Append(turns, t) /\ Append(turns, t)[Len(turns) + 1] = t
    OBVIOUS
  <2> QED BY <2>1, <2>2, <2>3 DEF PartSet
<1>3. ASSUME turns # <<>> PROVE PartSet(turns) = PartSet(Front(turns)) \cup Range(Last(turns).parts)
  <2>1. \A i \in DOMAIN Front(turns) : i \in DOMAIN turns /\ Front(turns)[i] = turns[i]
    BY <1>3 DEF Front
  <2>2. \A i \in DOMAIN turns : i \in DOMAIN Front(turns) \/ turns[i] = Last(turns)
    BY <1>3 DEF Front, Last
  <2>3. Len(turns) \in DOMAIN turns /\ turns[Len(turns)] = Last(turns)
    BY <1>3 DEF Last
  <2> QED BY <2>1, <2>2, <2>3 DEF PartSet
<1> QED BY <1>1, <1>2, <1>3

\* Latest keeps the end of a conversation.
LEMMA LatestKeepsEnd ==
  ASSUME NEW turns \in Seq(Turns), NEW n \in Nat
  PROVE  /\ Latest(n, turns) \in Seq(Turns)
         /\ Len(Latest(n, turns)) <= n /\ Len(Latest(n, turns)) <= Len(turns)
         /\ PartSet(Latest(n, turns)) \subseteq PartSet(turns)
         /\ n > 0 /\ turns # <<>> => Latest(n, turns) # <<>> /\ Last(Latest(n, turns)) = Last(turns)
         /\ \A i \in DOMAIN Latest(n, turns) :
              Latest(n, turns)[i] = turns[Len(turns) - Len(Latest(n, turns)) + i]
<1>1. CASE Len(turns) > n
  <2> DEFINE l == Len(turns)
             end == SubSeq(turns, l - n + 1, l)
  <2>1. Latest(n, turns) = end /\ l \in Nat
    BY <1>1 DEF Latest
  <2>2. end \in Seq(Turns) /\ Len(end) = n /\ DOMAIN end = 1 .. n /\ \A i \in 1 .. n : end[i] = turns[l - n + i]
    BY <1>1
  <2>3. \A i \in 1 .. n : l - n + i \in DOMAIN turns
    BY <1>1, <2>1
  <2> HIDE DEF end
  <2>4. PartSet(end) \subseteq PartSet(turns)
    BY <2>2, <2>3 DEF PartSet
  <2>5. n > 0 => end # <<>> /\ Last(end) = Last(turns)
    BY <2>1, <2>2 DEF Last
  <2> QED BY <1>1, <2>1, <2>2, <2>4, <2>5
<1>2. CASE ~(Len(turns) > n)
  BY <1>2 DEF Latest
<1> QED BY <1>1, <1>2

\* Only leaves out elements and adds none.
LEMMA OnlyLeavesOut ==
  ASSUME NEW X, NEW s \in Seq(X), NEW S
  PROVE  /\ Only(s, S) \in Seq(X) /\ Len(Only(s, S)) <= Len(s)
         /\ \A i \in DOMAIN Only(s, S) : Only(s, S)[i] \in S /\ Only(s, S)[i] \in Range(s)
<1> DEFINE Good(v, k) == Len(v) <= k /\ \A i \in DOMAIN v : v[i] \in S /\ v[i] \in Range(s)
<1>1. PICK acc : OnlyOver(acc, s, S, X)
  BY OnlyOneByOne
<1>2. /\ acc \in [0 .. Len(s) -> Seq(X)] /\ acc[0] = <<>> /\ Only(s, S) = acc[Len(s)]
      /\ \A k \in 1 .. Len(s) : acc[k] = OnlyStep(acc[k - 1], s[k], S)
  BY <1>1 DEF OnlyOver
<1> DEFINE P == {k \in Nat : k <= Len(s) => Good(acc[k], k)}
<1>3. 0 \in P
  BY <1>2
<1>4. ASSUME NEW k \in Nat, k \in P PROVE k + 1 \in P
  <2> SUFFICES ASSUME k + 1 <= Len(s) PROVE Good(acc[k + 1], k + 1)
    OBVIOUS
  <2>1. Good(acc[k], k) /\ k + 1 \in 1 .. Len(s) /\ (k + 1) - 1 = k /\ k \in 0 .. Len(s)
    BY <1>4
  <2>2. acc[k + 1] = OnlyStep(acc[k], s[k + 1], S) /\ acc[k] \in Seq(X)
    BY <1>2, <2>1
  <2>3. s[k + 1] \in X /\ s[k + 1] \in Range(s)
    BY <2>1 DEF Range
  <2>4. PICK v, x : v = acc[k] /\ x = s[k + 1]
    OBVIOUS
  <2>5. v \in Seq(X) /\ x \in X /\ x \in Range(s) /\ Good(v, k) /\ acc[k + 1] = OnlyStep(v, x, S)
    BY <2>1, <2>2, <2>3, <2>4
  <2>6. x \in S => Good(Append(v, x), k + 1)
    <3>1. \A i \in DOMAIN Append(v, x) : (i \in DOMAIN v /\ Append(v, x)[i] = v[i]) \/ Append(v, x)[i] = x
      BY <2>5
    <3>2. Len(Append(v, x)) = Len(v) + 1 /\ Len(v) \in Nat
      BY <2>5
    <3> QED BY <2>5, <3>1, <3>2
  <2>7. Len(v) \in Nat
    BY <2>5
  <2> QED BY <2>5, <2>6, <2>7 DEF OnlyStep
<1> HIDE DEF P
<1>5. Nat \subseteq P
  BY <1>3, <1>4, SetInduction
<1>6. Good(acc[Len(s)], Len(s))
  BY <1>5 DEF P
<1> QED BY <1>2, <1>6

\* Stripping only leaves turns out,
LEMMA StrippedKeeps ==
  ASSUME NEW turns \in Seq(Turns)
  PROVE  /\ Protected(turns) \in 0 .. Len(turns)
         /\ Stripped(turns) \in Seq(Turns) /\ Len(Stripped(turns)) <= Len(turns)
         /\ PartSet(Stripped(turns)) \subseteq PartSet(turns)
<1> DEFINE n == Len(turns)
           b == Protected(turns)
           old == SubSeq(turns, 1, b)
           texts == {t \in Range(turns) : t.role # "tool" /\ ~LooksLikeCall(t)}
           kept == Only(old, texts)
           recent == SubSeq(turns, b + 1, n)
<1>1. n \in Nat /\ DOMAIN turns = 1 .. n
  OBVIOUS
<1>2. b \in 0 .. n
  <2> DEFINE users == {i \in DOMAIN turns : turns[i].role = "user"}
             older == {i \in users : Cardinality({j \in users : j > i}) = KeepTools}
  <2>1. b = IF older = {} THEN n ELSE CHOOSE i \in older : TRUE
    BY DEF Protected
  <2>2. \A i \in older : i \in 0 .. n
    BY <1>1
  <2> HIDE DEF older, b, n
  <2>3. older # {} => (CHOOSE i \in older : TRUE) \in older
    OBVIOUS
  <2> QED BY <1>1, <2>1, <2>2, <2>3
<1>3. Stripped(turns) = kept \o recent
  BY DEF Stripped
<1> HIDE DEF b
<1>4. old \in Seq(Turns) /\ Len(old) = b /\ \A i \in 1 .. b : old[i] = turns[i]
  BY <1>1, <1>2
<1>5. recent \in Seq(Turns) /\ Len(recent) = n - b /\ \A i \in 1 .. n - b : recent[i] = turns[b + i]
  BY <1>1, <1>2
<1> HIDE DEF old, recent, texts
<1>6. kept \in Seq(Turns) /\ Len(kept) <= b /\ \A i \in DOMAIN kept : kept[i] \in Range(old)
  BY <1>4, OnlyLeavesOut
<1>7. ASSUME NEW i \in DOMAIN (kept \o recent) PROVE \E j \in 1 .. n : (kept \o recent)[i] = turns[j]
  <2>1. CASE i \in DOMAIN kept
    <3>1. (kept \o recent)[i] = kept[i]
      BY <1>5, <1>6, <2>1
    <3>2. PICK j \in DOMAIN old : kept[i] = old[j]
      BY <1>6, <2>1 DEF Range
    <3>3. j \in 1 .. b
      BY <1>4
    <3> QED BY <1>1, <1>2, <1>4, <3>1, <3>2, <3>3
  <2>2. CASE i \notin DOMAIN kept
    <3>1. PICK j \in 1 .. n - b : (kept \o recent)[i] = recent[j]
      <4>1. i - Len(kept) \in 1 .. n - b /\ (kept \o recent)[i] = recent[i - Len(kept)]
        BY <1>1, <1>2, <1>5, <1>6, <2>2
      <4> QED BY <4>1
    <3>2. b + j \in 1 .. n
      BY <1>1, <1>2, <3>1
    <3> QED BY <1>5, <3>1, <3>2
  <2> QED BY <2>1, <2>2
<1>8. kept \o recent \in Seq(Turns) /\ Len(kept \o recent) <= n
  BY <1>1, <1>2, <1>5, <1>6
<1>9. PartSet(kept \o recent) \subseteq PartSet(turns)
  BY <1>1, <1>7 DEF PartSet
<1> QED BY <1>2, <1>3, <1>8, <1>9 DEF b

\* merging puts no part where none was,
LEMMA MergedKeeps ==
  ASSUME NEW acc \in Made, NEW t \in Turns
  PROVE  /\ Len(Merged(acc, t).turns) <= Len(acc.turns) + 1
         /\ PartSet(Merged(acc, t).turns) \subseteq PartSet(acc.turns) \cup Range(t.parts)
<1>1. acc.turns \in Seq(Turns) /\ t.parts \in Seq(Part) /\ acc.user \in BOOLEAN
  BY DEF Made, Turns, Part
<1>2. CASE Merged(acc, t).turns = Append(acc.turns, t)
  <2>1. PICK s : s = acc.turns
    OBVIOUS
  <2>2. s \in Seq(Turns) /\ Len(Append(s, t)) = Len(s) + 1
    BY <1>1, <2>1
  <2>3. PartSet(Append(s, t)) = PartSet(s) \cup Range(t.parts)
    BY <2>2, PartSetOf
  <2>4. Len(s) \in Nat
    BY <2>2
  <2> QED BY <1>2, <2>1, <2>2, <2>3, <2>4
<1>3. CASE Merged(acc, t).turns = acc.turns
  BY <1>1, <1>3
<1>4. CASE acc.turns # <<>> /\ Merged(acc, t) = [acc EXCEPT !.turns[Len(acc.turns)].parts = @ \o t.parts]
  <2> DEFINE n == Len(acc.turns)
  <2>1. n \in 1 .. n /\ DOMAIN acc.turns = 1 .. n /\ acc.turns[n] \in Turns
    BY <1>1, <1>4
  <2>2. acc.turns[n].parts \in Seq(Part)
    BY <2>1 DEF Turns, Part
  <2>3. PICK w : w = acc.turns[n].parts \o t.parts
    OBVIOUS
  <2>4. PICK u : u = [acc.turns[n] EXCEPT !.parts = w]
    OBVIOUS
  <2>5. u.parts = w
    BY <2>1, <2>4 DEF Turns
  <2>6. Range(w) = Range(acc.turns[n].parts) \cup Range(t.parts)
    <3>1. PICK v : v = acc.turns[n].parts
      OBVIOUS
    <3>2. v \in Seq(Part) /\ w = v \o t.parts
      BY <2>2, <2>3, <3>1
    <3>3. \A i \in DOMAIN v : i \in DOMAIN w /\ w[i] = v[i]
      BY <1>1, <3>2
    <3>4. \A i \in DOMAIN t.parts : Len(v) + i \in DOMAIN w /\ w[Len(v) + i] = t.parts[i]
      BY <1>1, <3>2
    <3>5. ASSUME NEW i \in DOMAIN w, i \notin DOMAIN v
          PROVE  i - Len(v) \in DOMAIN t.parts /\ w[i] = t.parts[i - Len(v)]
      <4>1. PICK q : q = t.parts
        OBVIOUS
      <4>2. q \in Seq(Part) /\ w = v \o q
        BY <1>1, <3>2, <4>1
      <4>3. i \in 1 .. Len(v) + Len(q) /\ ~(i \in 1 .. Len(v))
        BY <3>2, <3>5, <4>2
      <4>4. Len(v) \in Nat /\ Len(q) \in Nat
        BY <3>2, <4>2
      <4>5. i - Len(v) \in 1 .. Len(q)
        BY <4>3, <4>4
      <4>6. w[i] = q[i - Len(v)]
        BY <3>2, <4>2, <4>3, <4>4
      <4> QED BY <4>1, <4>2, <4>5, <4>6
    <3> QED BY <3>1, <3>3, <3>4, <3>5 DEF Range
  <2>7. PICK s : s = [acc.turns EXCEPT ![n] = u]
    OBVIOUS
  <2>8. Merged(acc, t).turns = s
    BY <1>4, <2>3, <2>4, <2>7 DEF Made
  <2>9. DOMAIN s = 1 .. n /\ Len(s) = n /\ s[n] = u /\ \A i \in 1 .. n : i # n => s[i] = acc.turns[i]
    BY <1>1, <2>1, <2>7
  <2>10. PartSet(s) \subseteq PartSet(acc.turns) \cup Range(t.parts)
    BY <2>1, <2>5, <2>6, <2>9 DEF PartSet
  <2> QED BY <1>1, <2>8, <2>9, <2>10
<1> QED BY <1>2, <1>3, <1>4 DEF Merged

\* and so does what the model is shown.
LEMMA NormalizeKeeps ==
  ASSUME NEW turns \in Seq(Turns)
  PROVE  /\ Normalize(turns) \in Seq(Turns) /\ Len(Normalize(turns)) <= Len(turns)
         /\ PartSet(Normalize(turns)) \subseteq PartSet(turns)
<1> DEFINE Good(v, k) == Len(v.turns) <= k /\ PartSet(v.turns) \subseteq PartSet(turns)
<1>1. PICK acc : MergedOver(acc, turns)
  BY MergedOneByOne
<1>2. /\ acc \in [0 .. Len(turns) -> Made] /\ acc[0] = Nothing /\ Normalize(turns) = acc[Len(turns)].turns
      /\ \A k \in 1 .. Len(turns) : acc[k] = Merged(acc[k - 1], turns[k])
  BY <1>1 DEF MergedOver
<1> DEFINE P == {k \in Nat : k <= Len(turns) => Good(acc[k], k)}
<1>3. 0 \in P
  BY <1>2 DEF Nothing, PartSet
<1>4. ASSUME NEW k \in Nat, k \in P PROVE k + 1 \in P
  <2> SUFFICES ASSUME k + 1 <= Len(turns) PROVE Good(acc[k + 1], k + 1)
    OBVIOUS
  <2>1. Good(acc[k], k) /\ k + 1 \in 1 .. Len(turns) /\ (k + 1) - 1 = k /\ k \in 0 .. Len(turns)
    BY <1>4
  <2>2. acc[k + 1] = Merged(acc[k], turns[k + 1]) /\ acc[k] \in Made /\ acc[k + 1] \in Made
    BY <1>2, <2>1
  <2>3. turns[k + 1] \in Turns /\ Range(turns[k + 1].parts) \subseteq PartSet(turns)
    BY <2>1 DEF PartSet
  <2>4. /\ Len(acc[k + 1].turns) <= Len(acc[k].turns) + 1
        /\ PartSet(acc[k + 1].turns) \subseteq PartSet(acc[k].turns) \cup Range(turns[k + 1].parts)
    BY <2>2, <2>3, MergedKeeps
  <2>5. Len(acc[k].turns) \in Nat /\ Len(acc[k + 1].turns) \in Nat
    BY <2>2 DEF Made
  <2> QED BY <2>1, <2>3, <2>4, <2>5
<1> HIDE DEF P
<1>5. Nat \subseteq P
  BY <1>3, <1>4, SetInduction
<1>6. Good(acc[Len(turns)], Len(turns)) /\ acc[Len(turns)] \in Made
  BY <1>2, <1>5 DEF P
<1> QED BY <1>2, <1>6 DEF Made

\* The model is shown the last request at the end of a user's turn.
LEMMA NormalizeEndsWith ==
  ASSUME NEW turns \in Seq(Turns), turns # <<>>, NEW m \in Messages, Last(turns) = User(m), ~Torn(turns)
  PROVE  LET shown == Normalize(turns)
         IN  shown # <<>> /\ Last(shown).role = "user" /\ Last(Last(shown).parts) = <<"user", m>>
<1> DEFINE n == Len(turns)
           AfterUser(v) == v.turns # <<>> /\ Last(v.turns).role = "user"
           Good(v, k) == ~v.user => k >= 1 /\ v.turns # <<>> /\ (AfterUser(v) \/ turns[k].role = "tool")
<1>1. PICK acc : MergedOver(acc, turns)
  BY MergedOneByOne
<1>2. /\ acc \in [0 .. n -> Made] /\ acc[0] = Nothing /\ Normalize(turns) = acc[n].turns
      /\ \A k \in 1 .. n : acc[k] = Merged(acc[k - 1], turns[k])
  BY <1>1 DEF MergedOver
<1> DEFINE P == {k \in Nat : k <= n => Good(acc[k], k)}
<1>3. 0 \in P
  BY <1>2 DEF Nothing
<1>4. ASSUME NEW k \in Nat, k \in P PROVE k + 1 \in P
  <2> SUFFICES ASSUME k + 1 <= n PROVE Good(acc[k + 1], k + 1)
    OBVIOUS
  <2>1. Good(acc[k], k) /\ k + 1 \in 1 .. n /\ (k + 1) - 1 = k /\ k \in 0 .. n
    BY <1>4
  <2>2. PICK v, t : v = acc[k] /\ t = turns[k + 1]
    OBVIOUS
  <2>3. acc[k + 1] = Merged(v, t) /\ v \in Made /\ t \in Turns /\ Good(v, k)
    BY <1>2, <2>1, <2>2
  <2>4. v.turns \in Seq(Turns) /\ v.user \in BOOLEAN
    BY <2>3 DEF Made
  <2>5. CASE t.role = "tool"
    <3>1. acc[k + 1].turns = Append(v.turns, t)
      BY <2>3, <2>5 DEF Merged
    <3> QED BY <2>2, <2>4, <2>5, <3>1
  <2>6. CASE v.user /\ t.role = "user"
    <3>1. acc[k + 1].turns = Append(v.turns, t)
      BY <2>3, <2>6 DEF Merged
    <3>2. PICK s : s = v.turns
      OBVIOUS
    <3>3. Append(s, t) # <<>> /\ Len(Append(s, t)) = Len(s) + 1 /\ Append(s, t)[Len(s) + 1] = t
      <4>1. s \in Seq(Turns) /\ t \in Turns
        BY <2>3, <2>4, <3>2
      <4> QED BY <4>1
    <3>4. Last(Append(s, t)) = t
      BY <3>3 DEF Last
    <3> QED BY <2>1, <2>6, <3>1, <3>2, <3>3, <3>4
  <2>7. CASE t.role # "tool" /\ ~(v.user /\ t.role = "user") /\ ~v.user /\ t.role # "user"
    BY <2>3, <2>7 DEF Merged
  <2>8. CASE t.role # "tool" /\ v.user /\ t.role # "user"
    <3>1. acc[k + 1].user = v.user
      BY <2>3, <2>8 DEF Merged, Made
    <3> QED BY <2>8, <3>1
  <2>9. CASE ~v.user /\ t.role = "user"
    <3>1. k >= 1 /\ v.turns # <<>> /\ turns[k].role # "tool"
      <4>1. k >= 1 /\ v.turns # <<>>
        BY <2>3, <2>9
      <4>2. k + 1 \in 2 .. n /\ turns[k + 1].role = "user"
        BY <2>1, <2>2, <2>9, <4>1
      <4> QED BY <2>1, <4>1, <4>2 DEF Torn
    <3>2. Last(v.turns).role = "user"
      BY <2>3, <2>9, <3>1
    <3>3. acc[k + 1] = [v EXCEPT !.turns[Len(v.turns)].parts = @ \o t.parts]
      BY <2>3, <2>9, <3>1 DEF Merged
    <3>4. PICK w : w = v.turns[Len(v.turns)].parts \o t.parts
      OBVIOUS
    <3>5. PICK u : u = [v.turns[Len(v.turns)] EXCEPT !.parts = w]
      OBVIOUS
    <3>6. acc[k + 1].turns = [v.turns EXCEPT ![Len(v.turns)] = u]
      BY <2>3, <3>3, <3>4, <3>5 DEF Made
    <3>7. Len(v.turns) \in DOMAIN v.turns /\ v.turns[Len(v.turns)] \in Turns
      BY <2>4, <3>1
    <3>8. u.role = "user"
      BY <3>2, <3>5, <3>7 DEF Last, Turns
    <3>9. Last([v.turns EXCEPT ![Len(v.turns)] = u]) = u /\ [v.turns EXCEPT ![Len(v.turns)] = u] # <<>>
      BY <2>4, <3>1, <3>7 DEF Last
    <3> QED BY <2>1, <3>6, <3>8, <3>9
  <2> QED BY <2>4, <2>5, <2>6, <2>7, <2>8, <2>9
<1> HIDE DEF P
<1>5. Nat \subseteq P
  BY <1>3, <1>4, SetInduction
<1>6. n \in 1 .. n /\ n \in Nat /\ turns[n] = User(m) /\ User(m) \in Turns
  BY DEF Last, User, Turn, Turns, Roles
<1>7. PICK v : v = acc[n - 1]
  OBVIOUS
<1>8. v \in Made /\ acc[n] = Merged(v, User(m)) /\ Good(v, n - 1)
  BY <1>2, <1>5, <1>6, <1>7 DEF P
<1>9. v.turns \in Seq(Turns) /\ v.user \in BOOLEAN
  BY <1>8 DEF Made
<1>10. User(m).role = "user" /\ User(m).parts = <<<<"user", m>>>>
  BY DEF User, Turn
<1>11. CASE v.user
  <2>1. acc[n].turns = Append(v.turns, User(m))
    BY <1>8, <1>10, <1>11 DEF Merged
  <2>2. Append(v.turns, User(m)) # <<>> /\ Last(Append(v.turns, User(m))) = User(m)
    BY <1>6, <1>9 DEF Last
  <2>3. Last(User(m).parts) = <<"user", m>>
    BY <1>10 DEF Last
  <2> QED BY <1>2, <1>10, <2>1, <2>2, <2>3
<1>12. CASE ~v.user
  <2>1. n - 1 >= 1 /\ v.turns # <<>>
    BY <1>8, <1>12
  <2>2. turns[n - 1].role # "tool"
    <3>1. n \in 2 .. n /\ turns[n].role = "user"
      BY <1>6, <1>10, <2>1
    <3> QED BY <3>1 DEF Torn
  <2>3. Last(v.turns).role = "user"
    BY <1>8, <1>12, <2>2
  <2>4. acc[n] = [v EXCEPT !.turns[Len(v.turns)].parts = @ \o User(m).parts]
    BY <1>8, <1>10, <1>12, <2>1 DEF Merged
  <2>5. PICK w : w = v.turns[Len(v.turns)].parts \o User(m).parts
    OBVIOUS
  <2>6. PICK u : u = [v.turns[Len(v.turns)] EXCEPT !.parts = w]
    OBVIOUS
  <2>7. acc[n].turns = [v.turns EXCEPT ![Len(v.turns)] = u]
    BY <1>8, <2>4, <2>5, <2>6 DEF Made
  <2>8. Len(v.turns) \in DOMAIN v.turns /\ v.turns[Len(v.turns)] \in Turns
    BY <1>9, <2>1
  <2>9. u.role = "user" /\ u.parts = w
    BY <2>3, <2>6, <2>8 DEF Last, Turns
  <2>10. Last([v.turns EXCEPT ![Len(v.turns)] = u]) = u /\ [v.turns EXCEPT ![Len(v.turns)] = u] # <<>>
    BY <1>9, <2>1, <2>8 DEF Last
  <2>11. Last(w) = <<"user", m>>
    <3>1. v.turns[Len(v.turns)].parts \in Seq(Part)
      BY <2>8 DEF Turns, Part
    <3>2. PICK q : q = v.turns[Len(v.turns)].parts
      OBVIOUS
    <3>3. w = q \o <<<<"user", m>>>> /\ q \in Seq(Part)
      BY <1>10, <2>5, <3>1, <3>2
    <3> QED BY <3>3 DEF Last
  <2> QED BY <1>2, <2>7, <2>9, <2>10, <2>11
<1> QED BY <1>9, <1>11, <1>12

-----------------------------------------------------------------------------
(* Types.                                                                    *)

\* The variables.
Types ==
  /\ setting \in Settings
  /\ mem \in [Keys -> Seq(Turns)] /\ disk \in [Keys -> Seq(Turns)]
  /\ pending \subseteq Keys
  /\ key \in Seq(Keys) /\ Len(key) <= setting.messages
  /\ pc \in [Messages -> Places] /\ outcome \in [Messages -> Outcomes]
  /\ out \in [Messages -> Seq(Turns)] /\ view \in [Messages -> Seq(Turns)]
  /\ loaded \in [Messages -> Seq(Turns)]
  /\ restarts \in 0 .. setting.restarts

\* What memory holds is no longer than configured, or than hydration makes it.
Bounded ==
  \A k \in Keys : Len(mem[k]) > setting.maxHistory => restarts > 0 /\ Len(mem[k]) <= HydrateMax + 1

\* A worker that persists has a turn to persist; the file it rewrites was not empty.
Ready ==
  \A m \in Messages : /\ pc[m] \in {"fresh", "persist", "remember"} => out[m] # <<>>
                      /\ pc[m] = "rewrite" => loaded[m] # <<>>

\* The invariant of the types.
TypeInv == Types /\ Bounded /\ Ready

\* What HistoryConstants says of a setting.
LEMMA SettingIs ==
  ASSUME setting \in Settings
  PROVE  /\ setting.overlap \in BOOLEAN /\ setting.nativeCalls \in BOOLEAN
         /\ setting.storageFails \in BOOLEAN
         /\ setting.maxHistory \in Nat /\ setting.maxHistory > 0 /\ KeepTools \in Nat
         /\ setting.messages \in Nat /\ setting.messages <= MaxMessages /\ setting.restarts \in Nat
         /\ MaxMessages \in Nat /\ CompactKeep \in Nat /\ CompactKeep > 0
         /\ HydrateMax \in Nat /\ HydrateMax > 0
         /\ \A k \in Keys : Sanitize[k] \in Keys
<1>1. /\ Sanitize \in [Keys -> Keys]
      /\ setting \in [overlap : BOOLEAN, nativeCalls : BOOLEAN, storageFails : BOOLEAN,
                      maxHistory : Nat \ {0}, keepTools : Nat,
                      messages : 0 .. MaxMessages, restarts : Nat]
      /\ CompactKeep \in Nat \ {0} /\ HydrateMax \in Nat \ {0} /\ MaxMessages \in Nat
  BY HistoryConstants
<1> QED BY <1>1 DEF KeepTools

\* The turns of a message are turns,
LEMMA TurnsAre ==
  ASSUME NEW m \in Messages \cup {Closure}, NEW role \in Roles
  PROVE  /\ Turn(role, m) \in Turns /\ User(m) \in Turns /\ Reply(m) \in Turns
         /\ <<Turn(role, m)>> \in Seq(Turns) /\ <<User(m)>> \in Seq(Turns) /\ <<Reply(m)>> \in Seq(Turns)
<1>1. ASSUME NEW r \in Roles PROVE Turn(r, m) \in Turns
  BY DEF Turn, Turns
<1>2. "user" \in Roles /\ "assistant" \in Roles
  BY DEF Roles
<1>3. Turn(role, m) \in Turns /\ User(m) \in Turns /\ Reply(m) \in Turns
  BY <1>1, <1>2 DEF User, Reply
<1> QED BY <1>3

\* and its conversation is one.
LEMMA ArrivedAre ==
  ASSUME Types, NEW m \in Arrived
  PROVE  m \in Messages /\ key[m] \in Keys /\ Sanitize[key[m]] \in Keys
<1>1. m \in Messages
  BY SettingIs DEF Types, Arrived, Messages
<1>2. key[m] \in Keys
  BY DEF Types, Arrived
<1> QED BY <1>1, <1>2, SettingIs DEF Types

\* The worker of a message goes on.
LEMMA GotoTypes ==
  ASSUME Types, NEW m \in Messages, NEW from, NEW to \in Places, Goto(m, from, to)
  PROVE  /\ pc' \in [Messages -> Places] /\ pc'[m] = to /\ pc[m] = from
         /\ \A j \in Messages : j # m => pc'[j] = pc[j]
BY DEF Goto, Types

\* Memory of one conversation changes, and does not grow beyond the limit.
LEMMA MemoryTypes ==
  ASSUME Types, Bounded, NEW k \in Keys, NEW v \in Seq(Turns), mem' = [mem EXCEPT ![k] = v],
         Len(v) <= setting.maxHistory \/ Len(v) <= Len(mem[k]), setting' = setting, restarts' = restarts
  PROVE  mem' \in [Keys -> Seq(Turns)] /\ Bounded'
<1>1. mem' \in [Keys -> Seq(Turns)] /\ mem'[k] = v /\ \A j \in Keys : j # k => mem'[j] = mem[j]
  BY DEF Types
<1>2. Len(v) \in Nat /\ Len(mem[k]) \in Nat /\ setting.maxHistory \in Nat /\ HydrateMax \in Nat
  BY SettingIs DEF Types
<1>3. ASSUME NEW j \in Keys, Len(mem'[j]) > setting.maxHistory
      PROVE  restarts > 0 /\ Len(mem'[j]) <= HydrateMax + 1
  <2>1. CASE j = k
    <3>1. Len(v) > setting.maxHistory /\ Len(v) <= Len(mem[k])
      BY <1>1, <1>2, <1>3, <2>1
    <3>2. Len(mem[k]) > setting.maxHistory
      BY <1>2, <3>1
    <3> QED BY <1>1, <1>2, <2>1, <3>1, <3>2 DEF Bounded
  <2>2. CASE j # k
    BY <1>1, <1>3, <2>2 DEF Bounded
  <2> QED BY <2>1, <2>2
<1> QED BY <1>1, <1>3 DEF Bounded

\* A conversation with a turn more ends with it.
LEMMA ExtendedIs ==
  ASSUME setting \in Settings, NEW turns \in Seq(Turns), NEW t \in Turns
  PROVE  /\ Extended(turns, t) \in Seq(Turns) /\ Len(Extended(turns, t)) <= setting.maxHistory
         /\ Extended(turns, t) # <<>> /\ Last(Extended(turns, t)) = t
         /\ PartSet(Extended(turns, t)) \subseteq PartSet(turns) \cup Range(t.parts)
<1>1. PICK s : s = Append(turns, t)
  OBVIOUS
<1>2. s \in Seq(Turns) /\ s # <<>> /\ Len(s) = Len(turns) + 1 /\ s[Len(turns) + 1] = t
  BY <1>1
<1>3. Last(s) = t
  BY <1>2 DEF Last
<1>4. PartSet(s) = PartSet(turns) \cup Range(t.parts)
  BY <1>1, PartSetOf
<1>5. setting.maxHistory \in Nat /\ setting.maxHistory > 0
  BY SettingIs
<1>6. Extended(turns, t) = Latest(setting.maxHistory, s)
  BY <1>1 DEF Extended
<1> QED BY <1>2, <1>3, <1>4, <1>5, <1>6, LatestKeepsEnd

\* What a restart makes of a file.
LEMMA HydratedIs ==
  ASSUME NEW turns \in Seq(Turns)
  PROVE  /\ Hydrated(turns) \in Seq(Turns) /\ Len(Hydrated(turns)) <= HydrateMax + 1
         /\ PartSet(Hydrated(turns)) \subseteq PartSet(turns) \cup Range(Reply(Closure).parts)
<1>1. HydrateMax \in Nat
  BY HistoryConstants
<1>2. Reply(Closure) \in Turns
  BY TurnsAre DEF Roles
<1>3. PICK s : s = Latest(HydrateMax, turns)
  OBVIOUS
<1>4. s \in Seq(Turns) /\ Len(s) <= HydrateMax /\ PartSet(s) \subseteq PartSet(turns)
  BY <1>1, <1>3, LatestKeepsEnd
<1>5. PICK t : t = Reply(Closure)
  OBVIOUS
<1>6. Append(s, t) \in Seq(Turns) /\ Len(Append(s, t)) = Len(s) + 1 /\ Len(s) \in Nat
  BY <1>2, <1>4, <1>5
<1>7. PartSet(Append(s, t)) = PartSet(s) \cup Range(t.parts)
  BY <1>2, <1>4, <1>5, PartSetOf
<1>8. Hydrated(turns) = Append(s, t) \/ Hydrated(turns) = s
  BY <1>3, <1>5 DEF Hydrated
<1>9. CASE Hydrated(turns) = Append(s, t)
  BY <1>1, <1>4, <1>5, <1>6, <1>7, <1>9
<1>10. CASE Hydrated(turns) = s
  BY <1>1, <1>4, <1>6, <1>10
<1> QED BY <1>8, <1>9, <1>10

\* The invariant holds at the start.
LEMMA TypeInit == Init => TypeInv
<1> SUFFICES ASSUME Init PROVE TypeInv
  OBVIOUS
<1>1. setting \in Settings
  BY DEF Init
<1>2. \A k \in Keys : mem[k] = <<>>
  BY DEF Init
<1>3. Types
  BY <1>1, SettingIs DEF Init, Types, Places, Outcomes
<1>4. Bounded
  BY <1>1, <1>2, SettingIs DEF Bounded
<1>5. Ready
  BY DEF Init, Ready
<1> QED BY <1>3, <1>4, <1>5 DEF TypeInv

\* Each action keeps it.  Arrive:
LEMMA ArriveTypes ==
  ASSUME TypeInv, NEW k \in Keys, NEW first \in {"begin", "new"}, Arrive(k, first), setting' = setting
  PROVE  TypeInv'
<1> DEFINE n == Len(key) + 1
<1>1. /\ n \in Nat /\ 1 <= n /\ n <= setting.messages
      /\ setting.messages \in Nat /\ setting.messages <= MaxMessages /\ MaxMessages \in Nat
  BY SettingIs DEF TypeInv, Types, Arrive
<1>2. n \in Messages
  <2> HIDE DEF n
  <2> QED BY <1>1 DEF Messages
<1>3. key' \in Seq(Keys) /\ Len(key') = n
  BY DEF TypeInv, Types, Arrive
<1>4. pc' \in [Messages -> Places] /\ outcome' \in [Messages -> Outcomes]
  BY DEF TypeInv, Types, Arrive, Places, Outcomes
<1>5. \A m \in Messages : pc'[m] = pc[m] \/ pc'[m] = first
  BY <1>2 DEF TypeInv, Types, Arrive
<1>6. Types'
  BY <1>1, <1>3, <1>4 DEF TypeInv, Types, Arrive
<1>7. Bounded'
  BY DEF TypeInv, Bounded, Arrive
<1>8. Ready'
  BY <1>5 DEF TypeInv, Ready, Arrive
<1> QED BY <1>6, <1>7, <1>8 DEF TypeInv

\* A step of a worker that goes on to a place where it persists no turn, or has one.
LEMMA GoesOn ==
  ASSUME TypeInv, NEW m \in Messages, NEW from, NEW to \in Places, Goto(m, from, to),
         UNCHANGED <<setting, key, restarts>>,
         mem' \in [Keys -> Seq(Turns)], Bounded', disk' \in [Keys -> Seq(Turns)], pending' \subseteq Keys,
         outcome' \in [Messages -> Outcomes], view' \in [Messages -> Seq(Turns)],
         NEW o \in Seq(Turns), out' = out \/ out' = [out EXCEPT ![m] = o],
         NEW l \in Seq(Turns), loaded' = loaded \/ loaded' = [loaded EXCEPT ![m] = l],
         to \in {"fresh", "persist", "remember"} => out'[m] # <<>>, to = "rewrite" => loaded'[m] # <<>>
  PROVE  TypeInv'
<1>1. pc' \in [Messages -> Places] /\ pc'[m] = to /\ \A j \in Messages : j # m => pc'[j] = pc[j]
  BY GotoTypes DEF TypeInv
<1>2. out' \in [Messages -> Seq(Turns)] /\ \A j \in Messages : j # m => out'[j] = out[j]
  BY DEF TypeInv, Types
<1>3. loaded' \in [Messages -> Seq(Turns)] /\ \A j \in Messages : j # m => loaded'[j] = loaded[j]
  BY DEF TypeInv, Types
<1>4. Types'
  BY <1>1, <1>2, <1>3 DEF TypeInv, Types
<1>5. Ready'
  <2> SUFFICES ASSUME NEW j \in Messages
               PROVE  /\ pc'[j] \in {"fresh", "persist", "remember"} => out'[j] # <<>>
                      /\ pc'[j] = "rewrite" => loaded'[j] # <<>>
    BY DEF Ready
  <2>1. CASE j = m
    BY <1>1, <2>1
  <2>2. CASE j # m
    BY <1>1, <1>2, <1>3, <2>2 DEF TypeInv, Ready
  <2> QED BY <2>1, <2>2
<1> QED BY <1>4, <1>5 DEF TypeInv

\* Memory that does not change stays within its bounds.
LEMMA SameBounds ==
  ASSUME TypeInv, UNCHANGED <<setting, mem, restarts>>
  PROVE  Bounded'
BY DEF TypeInv, Bounded

\* The steps before the request is appended:
LEMMA BeginTypes ==
  ASSUME TypeInv, NEW m \in Arrived, setting' = setting,
         Drop(m) \/ TakePending(m) \/ ClearFresh(m)
  PROVE  TypeInv'
<1>0. Types /\ m \in Messages /\ key[m] \in Keys /\ <<>> \in Seq(Turns)
  BY ArrivedAre DEF TypeInv
<1>1. CASE Drop(m)
  <2>1. outcome' \in [Messages -> Outcomes]
    BY <1>0, <1>1 DEF Drop, Types, Outcomes
  <2>2. Bounded'
    BY <1>1, SameBounds DEF Drop
  <2>3. Goto(m, "begin", "done") /\ "done" \in Places
    BY <1>1 DEF Drop, Places
  <2> QED BY <1>0, <1>1, <2>1, <2>2, <2>3, GoesOn DEF Drop, Types
<1>2. CASE TakePending(m)
  <2> DEFINE to == IF Fresh(m) THEN "fresh" ELSE "persist"
  <2>1. pc[m] = "begin" /\ pc' = [pc EXCEPT ![m] = to] /\ to \in {"fresh", "persist"}
    BY <1>2 DEF TakePending
  <2>2. Goto(m, "begin", to) /\ to \in Places
    BY <2>1 DEF Goto, Places
  <2> HIDE DEF to
  <2>3. out' = [out EXCEPT ![m] = <<User(m)>>] /\ <<User(m)>> \in Seq(Turns) /\ <<User(m)>> # <<>>
    BY <1>0, <1>2, TurnsAre DEF TakePending, Roles
  <2>4. out'[m] # <<>>
    BY <1>0, <2>3 DEF Types
  <2>5. Bounded'
    BY <1>2, SameBounds DEF TakePending
  <2>6. pending' \subseteq Keys
    BY <1>0, <1>2 DEF TakePending, Types
  <2>7. UNCHANGED <<mem, disk, key, view, loaded, outcome, restarts>>
    BY <1>2 DEF TakePending
  <2> QED BY <1>0, <2>1, <2>2, <2>3, <2>4, <2>5, <2>6, <2>7, GoesOn DEF Types
<1>3. CASE ClearFresh(m)
  <2>1. mem' \in [Keys -> Seq(Turns)] /\ Bounded'
    <3>1. mem' = [mem EXCEPT ![key[m]] = <<>>] /\ restarts' = restarts
      BY <1>3 DEF ClearFresh
    <3>2. Len(<<>>) <= setting.maxHistory
      BY <1>0, SettingIs DEF Types
    <3> QED BY <1>0, <3>1, <3>2, MemoryTypes DEF TypeInv
  <2>2. view' \in [Messages -> Seq(Turns)]
    <3>1. <<User(m)>> \in Seq(Turns)
      BY <1>0, TurnsAre DEF Roles
    <3>2. view' = [view EXCEPT ![m] = <<User(m)>>]
      BY <1>3 DEF ClearFresh
    <3> QED BY <1>0, <3>1, <3>2 DEF Types
  <2>3. Goto(m, "fresh", "persist") /\ "persist" \in Places
    BY <1>3 DEF ClearFresh, Places
  <2>4. UNCHANGED <<disk, pending, key, out, loaded, outcome, restarts>>
    BY <1>3 DEF ClearFresh
  <2>5. out[m] # <<>>
    <3>1. pc[m] = "fresh"
      BY <2>3 DEF Goto
    <3> QED BY <1>0, <3>1 DEF TypeInv, Ready
  <2> QED BY <1>0, <2>1, <2>2, <2>3, <2>4, <2>5, GoesOn DEF Types
<1> QED BY <1>1, <1>2, <1>3

\* Remember, Persist and Read:
LEMMA RememberTypes ==
  ASSUME TypeInv, NEW m \in Arrived, setting' = setting, Persist(m) \/ Remember(m) \/ Read(m)
  PROVE  TypeInv'
<1>0. Types /\ m \in Messages /\ key[m] \in Keys /\ Sanitize[key[m]] \in Keys /\ <<>> \in Seq(Turns)
  BY ArrivedAre DEF TypeInv
<1>1. CASE Persist(m)
  <2>1. Goto(m, "persist", "remember") /\ "remember" \in Places
    BY <1>1 DEF Persist, Places
  <2>2. out[m] # <<>> /\ out[m] \in Seq(Turns)
    <3>1. pc[m] = "persist"
      BY <2>1 DEF Goto
    <3> QED BY <1>0, <3>1 DEF TypeInv, Ready, Types
  <2>3. Head(out[m]) \in Turns
    BY <2>2
  <2>4. PICK t : t = Head(out[m])
    OBVIOUS
  <2>5. disk' \in [Keys -> Seq(Turns)]
    <3>1. PICK s : s = Append(disk[Sanitize[key[m]]], t)
      OBVIOUS
    <3>2. s \in Seq(Turns)
      BY <1>0, <2>3, <2>4, <3>1 DEF Types
    <3>3. disk' = [disk EXCEPT ![Sanitize[key[m]]] = s] \/ disk' = disk
      BY <1>1, <2>4, <3>1 DEF Persist
    <3> QED BY <1>0, <3>2, <3>3 DEF Types
  <2>6. UNCHANGED <<mem, pending, key, out, view, loaded, outcome, restarts>>
    BY <1>1 DEF Persist
  <2>7. Bounded'
    BY <2>6, SameBounds
  <2> QED BY <1>0, <2>1, <2>2, <2>5, <2>6, <2>7, GoesOn DEF Types
<1>2. CASE Remember(m)
  <2> DEFINE to == IF Len(out[m]) > 1 THEN "persist" ELSE After(m)
  <2>1. pc[m] = "remember" /\ pc' = [pc EXCEPT ![m] = to] /\ to \in Places
    BY <1>2 DEF Remember, After, Places
  <2>2. out[m] # <<>> /\ out[m] \in Seq(Turns)
    BY <1>0, <2>1 DEF TypeInv, Ready, Types
  <2>3. PICK t, rest : t = Head(out[m]) /\ rest = Tail(out[m])
    OBVIOUS
  <2>4. t \in Turns /\ rest \in Seq(Turns) /\ (Len(out[m]) > 1 => rest # <<>>)
    <3>1. PICK o : o = out[m]
      OBVIOUS
    <3>2. o \in Seq(Turns) /\ o # <<>> /\ t = Head(o) /\ rest = Tail(o)
      BY <2>2, <2>3, <3>1
    <3>3. Head(o) \in Turns /\ Tail(o) \in Seq(Turns) /\ Len(Tail(o)) = Len(o) - 1 /\ Len(o) \in Nat
      BY <3>2
    <3>4. Len(o) > 1 => Len(Tail(o)) # Len(<<>>)
      BY <3>3
    <3> QED BY <3>1, <3>2, <3>3, <3>4
  <2>5. to = "persist" => rest # <<>>
    BY <2>4 DEF After
  <2>6. to \notin {"fresh", "remember", "rewrite"}
    BY DEF After
  <2>7. Goto(m, "remember", to)
    BY <2>1 DEF Goto
  <2> HIDE DEF to
  <2>8. out' = [out EXCEPT ![m] = rest] /\ out'[m] = rest
    BY <1>0, <1>2, <2>3 DEF Remember, Types
  <2>9. mem' \in [Keys -> Seq(Turns)] /\ Bounded'
    <3>1. PICK v : v = Extended(mem[key[m]], t)
      OBVIOUS
    <3>2. mem[key[m]] \in Seq(Turns)
      BY <1>0 DEF Types
    <3>3. v \in Seq(Turns) /\ Len(v) <= setting.maxHistory
      BY <1>0, <2>4, <3>1, <3>2, ExtendedIs DEF Types
    <3>4. mem' = [mem EXCEPT ![key[m]] = v] /\ restarts' = restarts
      BY <1>2, <2>3, <3>1 DEF Remember
    <3> QED BY <1>0, <3>3, <3>4, MemoryTypes DEF TypeInv
  <2>10. UNCHANGED <<disk, pending, key, view, loaded, outcome, restarts>>
    BY <1>2 DEF Remember
  <2> QED BY <1>0, <2>1, <2>4, <2>5, <2>6, <2>7, <2>8, <2>9, <2>10, GoesOn DEF Types
<1>3. CASE Read(m)
  <2>1. Goto(m, "read", "model") /\ "model" \in Places
    BY <1>3 DEF Read, Places
  <2>2. view' \in [Messages -> Seq(Turns)]
    <3>1. PICK s : s = IF view[m] # <<>> THEN view[m] ELSE mem[key[m]]
      OBVIOUS
    <3>2. s \in Seq(Turns)
      BY <1>0, <3>1 DEF Types
    <3>3. Normalize(s) \in Seq(Turns)
      BY <3>2, NormalizeKeeps
    <3>4. view' = [view EXCEPT ![m] = Normalize(s)]
      BY <1>3, <3>1 DEF Read
    <3> QED BY <1>0, <3>3, <3>4 DEF Types
  <2>3. UNCHANGED <<mem, disk, pending, key, out, loaded, outcome, restarts>>
    BY <1>3 DEF Read
  <2>4. Bounded'
    BY <2>3, SameBounds
  <2> QED BY <1>0, <2>1, <2>2, <2>3, <2>4, GoesOn DEF Types
<1> QED BY <1>1, <1>2, <1>3

\* How the model's call ends, and what is to be appended then.
Ending(m, how, next, turns) ==
  \/ how = "cancelled" /\ next = "done" /\ turns = <<>>
  \/ how \in {"answered", "silent", "failed"} /\ next = "persist" /\ turns = <<Reply(m)>>
  \/ how = "answered" /\ next = "persist" /\ KeepTools > 0
       /\ turns = <<Turn("call", m), Turn("tool", m), Reply(m)>>
  \/ how = "overflow" /\ next = "compact" /\ turns = <<>>
  \/ how = "rejected" /\ next = "rollback" /\ turns = <<>>

\* The ways in which the model ends are such endings,
LEMMA EndsSomehow ==
  ASSUME NEW m, Cancel(m) \/ Answer(m) \/ NoReply(m) \/ Fail(m) \/ Overflow(m) \/ Reject(m)
  PROVE  \E how, next, turns : Ending(m, how, next, turns) /\ Ends(m, how, next, turns)
<1>1. CASE Cancel(m)
  BY <1>1 DEF Cancel, Ending
<1>2. CASE Answer(m)
  BY <1>2 DEF Answer, Ending
<1>3. CASE NoReply(m)
  BY <1>3 DEF NoReply, Ending
<1>4. CASE Fail(m)
  BY <1>4 DEF Fail, Ending
<1>5. CASE Overflow(m)
  BY <1>5 DEF Overflow, Ending
<1>6. CASE Reject(m)
  BY <1>6 DEF Reject, Ending
<1> QED BY <1>1, <1>2, <1>3, <1>4, <1>5, <1>6

\* which keep the types.
LEMMA EndTypes ==
  ASSUME TypeInv, NEW m \in Arrived, setting' = setting,
         NEW how, NEW next, NEW turns, Ending(m, how, next, turns), Ends(m, how, next, turns)
  PROVE  TypeInv'
<1>0. Types /\ m \in Messages
  BY ArrivedAre DEF TypeInv
<1>1. turns \in Seq(Turns) /\ (next = "persist" => turns # <<>>)
  <2>1. Turn("call", m) \in Turns /\ Turn("tool", m) \in Turns /\ Reply(m) \in Turns
    BY <1>0, TurnsAre DEF Roles
  <2>2. <<Turn("call", m), Turn("tool", m), Reply(m)>> \in Seq(Turns) /\ <<Reply(m)>> \in Seq(Turns)
    BY <2>1
  <2>3. turns \in {<<>>, <<Reply(m)>>, <<Turn("call", m), Turn("tool", m), Reply(m)>>}
    BY DEF Ending
  <2>4. next = "persist" => turns \in {<<Reply(m)>>, <<Turn("call", m), Turn("tool", m), Reply(m)>>}
    BY DEF Ending
  <2>5. <<Turn("call", m), Turn("tool", m), Reply(m)>> # <<>> /\ <<Reply(m)>> # <<>> /\ <<>> \in Seq(Turns)
    OBVIOUS
  <2> QED BY <2>2, <2>3, <2>4, <2>5
<1>2. how \in Outcomes /\ next \in Places /\ next \notin {"fresh", "remember", "rewrite"}
  BY DEF Ending, Outcomes, Places
<1>3. /\ Goto(m, "model", next) /\ outcome' = [outcome EXCEPT ![m] = how] /\ out' = [out EXCEPT ![m] = turns]
      /\ UNCHANGED <<mem, disk, pending, key, view, loaded, restarts>>
  BY DEF Ends
<1>4. outcome' \in [Messages -> Outcomes] /\ out'[m] = turns
  BY <1>0, <1>2, <1>3 DEF Types
<1>5. Bounded'
  BY <1>3, SameBounds
<1> QED BY <1>0, <1>1, <1>2, <1>3, <1>4, <1>5, GoesOn DEF Types

\* Strip, Compact and NewClear:
LEMMA ShortenTypes ==
  ASSUME TypeInv, NEW m \in Arrived, setting' = setting, Strip(m) \/ Compact(m) \/ NewClear(m)
  PROVE  TypeInv'
<1>0. Types /\ m \in Messages /\ key[m] \in Keys /\ <<>> \in Seq(Turns) /\ mem[key[m]] \in Seq(Turns)
  BY ArrivedAre DEF TypeInv, Types
<1>1. UNCHANGED <<disk, pending, key, out, view, loaded, outcome, restarts>>
  BY DEF Strip, Compact, NewClear
<1>2. PICK from, to \in Places : Goto(m, from, to) /\ to \notin {"fresh", "persist", "remember", "rewrite"}
  BY DEF Strip, Compact, NewClear, Places
<1>3. PICK v \in Seq(Turns) : mem' = [mem EXCEPT ![key[m]] = v] /\ Len(v) <= Len(mem[key[m]])
  <2>1. CASE Strip(m)
    BY <1>0, <2>1, StrippedKeeps DEF Strip
  <2>2. CASE Compact(m)
    <3>1. PICK s : s = Latest(CompactKeep, mem[key[m]])
      OBVIOUS
    <3>2. s \in Seq(Turns) /\ Len(s) <= Len(mem[key[m]])
      BY <1>0, <3>1, LatestKeepsEnd, SettingIs DEF Types
    <3>3. Normalize(s) \in Seq(Turns) /\ Len(Normalize(s)) <= Len(s)
      BY <3>2, NormalizeKeeps
    <3>4. Len(Normalize(s)) <= Len(mem[key[m]])
      BY <1>0, <3>2, <3>3
    <3> QED BY <2>2, <3>1, <3>3, <3>4 DEF Compact
  <2>3. CASE NewClear(m)
    <3>1. Len(<<>>) <= Len(mem[key[m]])
      BY <1>0
    <3> QED BY <1>0, <2>3, <3>1 DEF NewClear
  <2> QED BY <2>1, <2>2, <2>3
<1>4. mem' \in [Keys -> Seq(Turns)] /\ Bounded'
  BY <1>0, <1>1, <1>3, MemoryTypes DEF TypeInv
<1> QED BY <1>0, <1>1, <1>2, <1>4, GoesOn DEF Types

\* A conversation without its last turn.
LEMMA FrontIs ==
  ASSUME NEW s \in Seq(Turns), s # <<>>
  PROVE  Front(s) \in Seq(Turns) /\ Len(Front(s)) <= Len(s)
BY DEF Front

\* Rollback:
LEMMA RollbackTypes ==
  ASSUME TypeInv, NEW m \in Arrived, setting' = setting, Rollback(m)
  PROVE  TypeInv'
<1> DEFINE k == key[m]
           file == disk[Sanitize[k]]
<1>0. Types /\ m \in Messages /\ k \in Keys /\ Sanitize[k] \in Keys /\ mem[k] \in Seq(Turns) /\ file \in Seq(Turns)
  BY ArrivedAre DEF TypeInv, Types
<1>1. pc[m] = "rollback" /\ UNCHANGED <<disk, pending, key, view, restarts>>
  BY DEF Rollback
<1>2. CASE IsOrphan(mem[k], m)
  <2> DEFINE to == IF file = <<>> THEN "done" ELSE "rewrite"
  <2>1. /\ mem' = [mem EXCEPT ![k] = Front(mem[k])] /\ loaded' = [loaded EXCEPT ![m] = file]
        /\ pc' = [pc EXCEPT ![m] = to] /\ UNCHANGED <<out, outcome>>
    BY <1>2 DEF Rollback
  <2>2. Goto(m, "rollback", to) /\ to \in Places /\ to \notin {"fresh", "persist", "remember"}
    BY <1>1, <2>1 DEF Goto, Places
  <2>3. PICK v : v = Front(mem[k])
    OBVIOUS
  <2>4. v \in Seq(Turns) /\ Len(v) <= Len(mem[k])
    BY <1>0, <1>2, <2>3, FrontIs DEF IsOrphan
  <2>5. mem' \in [Keys -> Seq(Turns)] /\ Bounded'
    BY <1>0, <1>1, <2>1, <2>3, <2>4, MemoryTypes DEF TypeInv
  <2>6. to = "rewrite" => loaded'[m] # <<>>
    BY <1>0, <2>1 DEF Types
  <2> HIDE DEF to, file, k
  <2> QED BY <1>0, <1>1, <2>1, <2>2, <2>5, <2>6, GoesOn DEF Types
<1>3. CASE ~IsOrphan(mem[k], m)
  <2>1. /\ out' = [out EXCEPT ![m] = <<Reply(m)>>] /\ outcome' = [outcome EXCEPT ![m] = "failed"]
        /\ pc' = [pc EXCEPT ![m] = "persist"] /\ UNCHANGED <<mem, loaded>>
    BY <1>3 DEF Rollback
  <2>2. Goto(m, "rollback", "persist") /\ "persist" \in Places /\ outcome' \in [Messages -> Outcomes]
    BY <1>0, <1>1, <2>1 DEF Goto, Places, Outcomes, Types
  <2>3. <<Reply(m)>> \in Seq(Turns) /\ out'[m] # <<>>
    BY <1>0, <2>1, TurnsAre DEF Roles, Types
  <2>4. Bounded'
    BY <1>1, <2>1, SameBounds
  <2> HIDE DEF file, k
  <2> QED BY <1>0, <1>1, <2>1, <2>2, <2>3, <2>4, GoesOn DEF Types
<1> QED BY <1>2, <1>3

\* The steps on the file:
LEMMA FileTypes ==
  ASSUME TypeInv, NEW m \in Arrived, setting' = setting, Rewrite(m) \/ NewDelete(m) \/ NewMark(m)
  PROVE  TypeInv'
<1>0. Types /\ m \in Messages /\ key[m] \in Keys /\ Sanitize[key[m]] \in Keys /\ <<>> \in Seq(Turns)
  BY ArrivedAre DEF TypeInv
<1>1. UNCHANGED <<mem, key, out, view, loaded, outcome, restarts>>
  BY DEF Rewrite, NewDelete, NewMark
<1>2. PICK from, to \in Places : Goto(m, from, to) /\ to \notin {"fresh", "persist", "remember", "rewrite"}
  BY DEF Rewrite, NewDelete, NewMark, Places
<1>3. disk' \in [Keys -> Seq(Turns)] /\ pending' \subseteq Keys
  <2>1. CASE Rewrite(m)
    <3>1. loaded[m] # <<>> /\ loaded[m] \in Seq(Turns)
      <4>1. pc[m] = "rewrite"
        BY <2>1 DEF Rewrite, Goto
      <4> QED BY <1>0, <4>1 DEF TypeInv, Ready, Types
    <3>2. Kept(loaded[m]) \in Seq(Turns)
      BY <3>1, FrontIs DEF Kept
    <3> QED BY <1>0, <2>1, <3>2 DEF Rewrite, Types
  <2>2. CASE NewDelete(m)
    BY <1>0, <2>2 DEF NewDelete, Deleted, Types
  <2>3. CASE NewMark(m)
    BY <1>0, <2>3 DEF NewMark, Types
  <2> QED BY <2>1, <2>2, <2>3
<1>4. Bounded'
  BY <1>1, SameBounds
<1> QED BY <1>0, <1>1, <1>2, <1>3, <1>4, GoesOn DEF Types

\* Restart:
LEMMA RestartTypes ==
  ASSUME TypeInv, setting' = setting, Restart
  PROVE  TypeInv'
<1>1. \A k \in Keys : Hydrated(disk[k]) \in Seq(Turns) /\ Len(Hydrated(disk[k])) <= HydrateMax + 1
  BY HydratedIs DEF TypeInv, Types
<1>2. mem' = [k \in Keys |-> Hydrated(disk[k])] /\ restarts' = restarts + 1 /\ restarts < setting.restarts
  BY DEF Restart
<1>3. mem' \in [Keys -> Seq(Turns)]
  BY <1>1, <1>2
<1>4. Bounded'
  <2>1. restarts' > 0
    BY <1>2, SettingIs DEF TypeInv, Types
  <2>2. \A k \in Keys : Len(mem'[k]) <= HydrateMax + 1
    BY <1>1, <1>2
  <2> QED BY <2>1, <2>2 DEF Bounded
<1>5. disk' \in [Keys -> Seq(Turns)]
  <2>1. Reply(Closure) \in Turns
    BY TurnsAre DEF Roles
  <2>2. PICK t : t = Reply(Closure)
    OBVIOUS
  <2>3. \A k \in Keys : disk[k] \in Seq(Turns) /\ Append(disk[k], t) \in Seq(Turns)
    BY <2>1, <2>2 DEF TypeInv, Types
  <2>4. disk' = [k \in Keys |-> IF Open(disk[k]) THEN Append(disk[k], t) ELSE disk[k]] \/ disk' = disk
    BY <2>2 DEF Restart
  <2> QED BY <2>3, <2>4 DEF TypeInv, Types
<1>6. /\ pc' \in [Messages -> Places]
      /\ \A m \in Messages : pc'[m] \in {"none", "done", "lost"}
  BY DEF TypeInv, Types, Restart, Places
<1>7. Types'
  <2>1. restarts' \in 0 .. setting.restarts
    BY <1>2, SettingIs DEF TypeInv, Types
  <2> QED BY <1>3, <1>5, <1>6, <2>1 DEF TypeInv, Types, Restart
<1>8. Ready'
  BY <1>6 DEF Ready
<1> QED BY <1>4, <1>7, <1>8 DEF TypeInv

\* Every step keeps the types.
LEMMA TypeStep == TypeInv /\ [Next]_vars => TypeInv'
<1> SUFFICES ASSUME TypeInv, [Next]_vars PROVE TypeInv'
  OBVIOUS
<1>1. CASE UNCHANGED vars
  BY <1>1 DEF vars, TypeInv, Types, Bounded, Ready
<1>2. CASE Next
  <2>0. setting' = setting /\ Act
    BY <1>2 DEF Next
  <2>1. ASSUME NEW k \in Keys, Arrive(k, "begin") \/ Arrive(k, "new") PROVE TypeInv'
    BY <2>0, <2>1, ArriveTypes
  <2>2. ASSUME NEW m \in Arrived, Drop(m) \/ TakePending(m) \/ ClearFresh(m) PROVE TypeInv'
    BY <2>0, <2>2, BeginTypes
  <2>3. ASSUME NEW m \in Arrived, Persist(m) \/ Remember(m) \/ Read(m) PROVE TypeInv'
    BY <2>0, <2>3, RememberTypes
  <2>4. ASSUME NEW m \in Arrived, Cancel(m) \/ Answer(m) \/ NoReply(m) \/ Fail(m) \/ Overflow(m) \/ Reject(m)
        PROVE  TypeInv'
    BY <2>0, <2>4, EndsSomehow, EndTypes
  <2>5. ASSUME NEW m \in Arrived, Strip(m) \/ Compact(m) \/ NewClear(m) PROVE TypeInv'
    BY <2>0, <2>5, ShortenTypes
  <2>6. ASSUME NEW m \in Arrived, Rollback(m) PROVE TypeInv'
    BY <2>0, <2>6, RollbackTypes
  <2>7. ASSUME NEW m \in Arrived, Rewrite(m) \/ NewDelete(m) \/ NewMark(m) PROVE TypeInv'
    BY <2>0, <2>7, FileTypes
  <2>8. CASE Restart
    BY <2>0, <2>8, RestartTypes
  <2> QED BY <2>0, <2>1, <2>2, <2>3, <2>4, <2>5, <2>6, <2>7, <2>8 DEF Act
<1> QED BY <1>1, <1>2

\* So they hold throughout.
LEMMA TypeInvHolds == Spec => []TypeInv
BY TypeInit, TypeStep, PTL DEF Spec

\* Every variable of ChannelHistory holds a value of its type; memory keeps to its limit.
THEOREM HistoryTypes == Spec => []TypeOK
<1>1. TypeInv => TypeOK
  BY DEF TypeInv, Types, Bounded, TypeOK
<1> QED BY <1>1, TypeInvHolds, PTL

-----------------------------------------------------------------------------
(* Workers: what one of them leaves alone, and what is true of it where it is. *)

\* The steps of the worker of a message.
Work(m) ==
  \/ Drop(m) \/ TakePending(m) \/ ClearFresh(m) \/ Persist(m) \/ Remember(m) \/ Read(m)
  \/ Cancel(m) \/ Answer(m) \/ NoReply(m) \/ Fail(m) \/ Overflow(m) \/ Reject(m)
  \/ Strip(m) \/ Compact(m) \/ Rollback(m) \/ Rewrite(m)
  \/ NewClear(m) \/ NewDelete(m) \/ NewMark(m)

\* Nobody works on it any more.
Over(m) == pc[m] \in {"done", "lost"}

\* Every step is an arrival, one of a worker, or a restart.
LEMMA Steps ==
  ASSUME [Next]_vars
  PROVE  \/ UNCHANGED vars
         \/ setting' = setting /\ \E k \in Keys, first \in {"begin", "new"} : Arrive(k, first)
         \/ setting' = setting /\ \E m \in Arrived : Work(m)
         \/ setting' = setting /\ Restart
BY DEF Next, Act, Work

\* A worker touches its own locals, its conversation and its file.
LEMMA WorkerFrame ==
  ASSUME Types, NEW m \in Arrived, Work(m)
  PROVE  /\ key' = key /\ restarts' = restarts
         /\ ~Over(m) /\ pc[m] # "none" /\ pc'[m] # "none"
         /\ \A j \in Messages : j # m => /\ pc'[j] = pc[j] /\ outcome'[j] = outcome[j] /\ out'[j] = out[j]
                                         /\ view'[j] = view[j] /\ loaded'[j] = loaded[j]
         /\ \A k \in Keys : /\ k # key[m] => mem'[k] = mem[k]
                            /\ k # Sanitize[key[m]] => disk'[k] = disk[k]
<1> DEFINE Frame ==
             /\ key' = key /\ restarts' = restarts
             /\ ~Over(m) /\ pc[m] # "none" /\ pc'[m] # "none"
             /\ \A j \in Messages : j # m => /\ pc'[j] = pc[j] /\ outcome'[j] = outcome[j] /\ out'[j] = out[j]
                                             /\ view'[j] = view[j] /\ loaded'[j] = loaded[j]
             /\ \A k \in Keys : /\ k # key[m] => mem'[k] = mem[k]
                                /\ k # Sanitize[key[m]] => disk'[k] = disk[k]
<1>0. m \in Messages
  BY ArrivedAre
<1>1. CASE Drop(m) \/ TakePending(m) \/ ClearFresh(m)
  <2>1. CASE Drop(m)
    BY <1>0, <2>1 DEF Drop, Goto, Types, Over
  <2>2. CASE TakePending(m)
    BY <1>0, <2>2 DEF TakePending, Types, Over
  <2>3. CASE ClearFresh(m)
    BY <1>0, <2>3 DEF ClearFresh, Goto, Types, Over
  <2> QED BY <1>1, <2>1, <2>2, <2>3
<1>2. CASE Persist(m)
  BY <1>0, <1>2 DEF Persist, Goto, Types, Over
<1>3. CASE Remember(m)
  <2>1. pc'[m] # "none"
    BY <1>0, <1>3 DEF Remember, After, Types
  <2> QED BY <1>0, <1>3, <2>1 DEF Remember, Types, Over
<1>4. CASE Read(m)
  BY <1>0, <1>4 DEF Read, Goto, Types, Over
<1>5. CASE Cancel(m) \/ Answer(m) \/ NoReply(m) \/ Fail(m) \/ Overflow(m) \/ Reject(m)
  <2>1. PICK how, next, turns : Ending(m, how, next, turns) /\ Ends(m, how, next, turns)
    BY <1>5, EndsSomehow
  <2>2. next # "none"
    BY <2>1 DEF Ending
  <2> QED BY <1>0, <2>1, <2>2 DEF Ends, Goto, Types, Over
<1>6. CASE Strip(m) \/ Compact(m) \/ NewClear(m)
  <2>1. CASE Strip(m)
    BY <1>0, <2>1 DEF Strip, Goto, Types, Over
  <2>2. CASE Compact(m)
    BY <1>0, <2>2 DEF Compact, Goto, Types, Over
  <2>3. CASE NewClear(m)
    BY <1>0, <2>3 DEF NewClear, Goto, Types, Over
  <2> QED BY <1>6, <2>1, <2>2, <2>3
<1>7. CASE Rollback(m)
  <2>1. pc'[m] # "none"
    BY <1>0, <1>7 DEF Rollback, Types
  <2> QED BY <1>0, <1>7, <2>1 DEF Rollback, Types, Over
<1>8. CASE Rewrite(m) \/ NewDelete(m) \/ NewMark(m)
  <2>1. CASE Rewrite(m)
    BY <1>0, <2>1 DEF Rewrite, Goto, Types, Over
  <2>2. CASE NewDelete(m)
    BY <1>0, <2>2 DEF NewDelete, Deleted, Goto, Types, Over
  <2>3. CASE NewMark(m)
    BY <1>0, <2>3 DEF NewMark, Goto, Types, Over
  <2> QED BY <1>8, <2>1, <2>2, <2>3
<1> QED BY <1>1, <1>2, <1>3, <1>4, <1>5, <1>6, <1>7, <1>8 DEF Work

\* What is still to be appended, and how far the message is.
StillToAppend(m) ==
  \/ outcome[m] = "none" /\ out[m] = <<User(m)>> /\ view[m] \in {<<>>, <<User(m)>>}
  \/ outcome[m] \in {"answered", "silent", "failed"} /\ out[m] = <<Reply(m)>>
  \/ /\ outcome[m] = "answered" /\ KeepTools > 0
     /\ out[m] \in {<<Turn("tool", m), Reply(m)>>, <<Turn("call", m), Turn("tool", m), Reply(m)>>}

\* The locals of a worker at each place.
WorkerOK(m) ==
  /\ pc[m] \in {"none", "begin"} => outcome[m] = "none" /\ view[m] = <<>>
  /\ pc[m] = "fresh" => outcome[m] = "none" /\ out[m] = <<User(m)>>
  /\ pc[m] \in {"persist", "remember"} => StillToAppend(m)
  /\ pc[m] = "read" => outcome[m] = "none" /\ view[m] \in {<<>>, <<User(m)>>}
  /\ pc[m] = "model" => outcome[m] = "none"
  /\ pc[m] = "strip" => outcome[m] = "answered" /\ KeepTools > 0
  /\ pc[m] = "compact" => outcome[m] = "overflow"
  /\ pc[m] \in {"rollback", "rewrite"} => outcome[m] = "rejected"
  /\ pc[m] \in {"new", "new_file", "new_mark"} => outcome[m] = "new"
  /\ outcome[m] = "new" => pc[m] \in {"new", "new_file", "new_mark", "done", "lost"}

\* Every worker is where its locals say, and only for messages that have arrived.
Workers == \A m \in Messages : WorkerOK(m) /\ (m > Len(key) => pc[m] = "none")

\* Without overlap, the messages of a conversation before the last one are over.
Serial ==
  ~setting.overlap => \A m, n \in Arrived : m < n /\ key[m] = key[n] => Over(m)

\* The invariant of the workers.
WorkInv == TypeInv /\ Workers /\ Serial

\* A worker whose own variables stay as they are.
LEMMA WorkerStays ==
  ASSUME WorkInv, NEW m \in Arrived, Work(m), setting' = setting, WorkerOK(m)'
  PROVE  WorkInv'
<1>1. TypeInv'
  <2>1. [Next]_vars
    BY DEF Next, Act, Work
  <2> QED BY <2>1, TypeStep DEF WorkInv
<1>2. /\ key' = key /\ ~Over(m)
      /\ \A j \in Messages : j # m => /\ pc'[j] = pc[j] /\ outcome'[j] = outcome[j] /\ out'[j] = out[j]
                                      /\ view'[j] = view[j]
  BY WorkerFrame DEF WorkInv, TypeInv
<1>3. m \in Messages /\ m <= Len(key) /\ m \in Nat /\ Len(key) \in Nat
  BY ArrivedAre DEF WorkInv, TypeInv, Types, Arrived, Messages
<1>4. Workers'
  <2> SUFFICES ASSUME NEW j \in Messages PROVE WorkerOK(j)' /\ (j > Len(key') => pc'[j] = "none")
    BY DEF Workers
  <2>1. CASE j = m
    BY <1>2, <1>3, <2>1
  <2>2. CASE j # m
    BY <1>2, <2>2 DEF WorkInv, Workers, WorkerOK, StillToAppend, KeepTools
  <2> QED BY <2>1, <2>2
<1>5. Serial'
  <2> SUFFICES ASSUME ~setting.overlap, NEW i \in Arrived, NEW j \in Arrived, i < j, key[i] = key[j]
               PROVE  Over(i)'
    BY <1>2 DEF Serial, Arrived
  <2>1. Over(i) /\ i # m /\ i \in Messages
    BY <1>2, ArrivedAre DEF WorkInv, TypeInv, Serial
  <2> QED BY <1>2, <2>1 DEF Over
<1> QED BY <1>1, <1>4, <1>5 DEF WorkInv

\* Each step of a worker keeps the invariant,
LEMMA WorkerGoesOn ==
  ASSUME WorkInv, NEW m \in Arrived, Work(m), setting' = setting
  PROVE  WorkInv'
<1>0. Types /\ m \in Messages /\ WorkerOK(m) /\ TypeInv
  BY ArrivedAre DEF WorkInv, TypeInv, Workers
<1> SUFFICES WorkerOK(m)'
  BY WorkerStays
<1>1. CASE Drop(m) \/ TakePending(m) \/ ClearFresh(m)
  <2>1. CASE Drop(m)
    BY <1>0, <2>1 DEF Drop, Goto, WorkerOK, Types
  <2>2. CASE TakePending(m)
    BY <1>0, <2>2 DEF TakePending, WorkerOK, StillToAppend, Types
  <2>3. CASE ClearFresh(m)
    BY <1>0, <2>3 DEF ClearFresh, Goto, WorkerOK, StillToAppend, Types
  <2> QED BY <1>1, <2>1, <2>2, <2>3
<1>2. CASE Persist(m)
  <2>1. pc[m] = "persist" /\ pc'[m] = "remember" /\ UNCHANGED <<out, view, outcome>>
    BY <1>0, <1>2 DEF Persist, Goto, Types
  <2> QED BY <1>0, <2>1 DEF WorkerOK, StillToAppend, KeepTools
<1>3. CASE Remember(m)
  <2>1. /\ pc[m] = "remember" /\ out'[m] = Tail(out[m]) /\ UNCHANGED <<view, outcome>>
        /\ pc'[m] = IF Len(out[m]) > 1 THEN "persist" ELSE After(m)
    BY <1>0, <1>3 DEF Remember, Types
  <2>2. StillToAppend(m)
    BY <1>0, <2>1 DEF WorkerOK
  <2>3. CASE outcome[m] = "none" /\ out[m] = <<User(m)>> /\ view[m] \in {<<>>, <<User(m)>>}
    <3>1. pc'[m] = "read"
      BY <2>1, <2>3 DEF After
    <3> QED BY <2>1, <2>3, <3>1 DEF WorkerOK
  <2>4. CASE outcome[m] \in {"answered", "silent", "failed"} /\ out[m] = <<Reply(m)>>
    <3>1. pc'[m] = "done" \/ (pc'[m] = "strip" /\ outcome[m] = "answered" /\ KeepTools > 0)
      <4>1. Len(out[m]) = 1
        BY <2>4
      <4>2. pc'[m] = After(m) /\ outcome[m] # "none"
        BY <2>1, <2>4, <4>1
      <4> QED BY <4>2 DEF After
    <3> QED BY <2>1, <2>4, <3>1 DEF WorkerOK, KeepTools
  <2>5. CASE outcome[m] = "answered" /\ KeepTools > 0 /\ out[m] = <<Turn("tool", m), Reply(m)>>
    <3>1. pc'[m] = "persist" /\ out'[m] = <<Reply(m)>>
      BY <2>1, <2>5
    <3> QED BY <2>1, <2>5, <3>1 DEF WorkerOK, StillToAppend
  <2>6. CASE outcome[m] = "answered" /\ KeepTools > 0 /\ out[m] = <<Turn("call", m), Turn("tool", m), Reply(m)>>
    <3>1. pc'[m] = "persist" /\ out'[m] = <<Turn("tool", m), Reply(m)>>
      BY <2>1, <2>6
    <3>2. KeepTools' > 0
      BY <2>6 DEF KeepTools
    <3> QED BY <2>1, <2>6, <3>1, <3>2 DEF WorkerOK, StillToAppend
  <2> QED BY <2>2, <2>3, <2>4, <2>5, <2>6 DEF StillToAppend
<1>4. CASE Read(m)
  BY <1>0, <1>4 DEF Read, Goto, WorkerOK, Types
<1>5. CASE Cancel(m) \/ Answer(m) \/ NoReply(m) \/ Fail(m) \/ Overflow(m) \/ Reject(m)
  <2>1. PICK how, next, turns : Ending(m, how, next, turns) /\ Ends(m, how, next, turns)
    BY <1>5, EndsSomehow
  <2>2. pc'[m] = next /\ outcome'[m] = how /\ out'[m] = turns
    BY <1>0, <2>1 DEF Ends, Goto, Types
  <2>3. KeepTools' = KeepTools
    BY DEF KeepTools
  <2>4. CASE how = "cancelled" /\ next = "done"
    BY <2>2, <2>4 DEF WorkerOK
  <2>5. CASE how \in {"answered", "silent", "failed"} /\ next = "persist" /\ turns = <<Reply(m)>>
    BY <2>2, <2>5 DEF WorkerOK, StillToAppend
  <2>6. CASE /\ how = "answered" /\ next = "persist" /\ KeepTools > 0
             /\ turns = <<Turn("call", m), Turn("tool", m), Reply(m)>>
    BY <2>2, <2>3, <2>6 DEF WorkerOK, StillToAppend
  <2>7. CASE how = "overflow" /\ next = "compact"
    BY <2>2, <2>7 DEF WorkerOK
  <2>8. CASE how = "rejected" /\ next = "rollback"
    BY <2>2, <2>8 DEF WorkerOK
  <2> QED BY <2>1, <2>4, <2>5, <2>6, <2>7, <2>8 DEF Ending
<1>6. CASE Strip(m) \/ Compact(m) \/ NewClear(m)
  <2>1. CASE Strip(m)
    BY <1>0, <2>1 DEF Strip, Goto, WorkerOK, Types
  <2>2. CASE Compact(m)
    BY <1>0, <2>2 DEF Compact, Goto, WorkerOK, Types
  <2>3. CASE NewClear(m)
    BY <1>0, <2>3 DEF NewClear, Goto, WorkerOK, Types
  <2> QED BY <1>6, <2>1, <2>2, <2>3
<1>7. CASE Rollback(m)
  <2>1. CASE IsOrphan(mem[key[m]], m)
    <3>1. pc[m] = "rollback" /\ pc'[m] \in {"done", "rewrite"} /\ outcome' = outcome
      BY <1>0, <1>7, <2>1 DEF Rollback, Types
    <3> QED BY <1>0, <3>1 DEF WorkerOK
  <2>2. CASE ~IsOrphan(mem[key[m]], m)
    <3>1. pc'[m] = "persist" /\ out'[m] = <<Reply(m)>> /\ outcome'[m] = "failed"
      BY <1>0, <1>7, <2>2 DEF Rollback, Types
    <3> QED BY <3>1 DEF WorkerOK, StillToAppend
  <2> QED BY <2>1, <2>2
<1>8. CASE Rewrite(m) \/ NewDelete(m) \/ NewMark(m)
  <2>1. CASE Rewrite(m)
    BY <1>0, <2>1 DEF Rewrite, Goto, WorkerOK, Types
  <2>2. CASE NewDelete(m)
    BY <1>0, <2>2 DEF NewDelete, Goto, WorkerOK, Types
  <2>3. CASE NewMark(m)
    BY <1>0, <2>3 DEF NewMark, Goto, WorkerOK, Types
  <2> QED BY <1>8, <2>1, <2>2, <2>3
<1> QED BY <1>1, <1>2, <1>3, <1>4, <1>5, <1>6, <1>7, <1>8 DEF Work

\* A message that arrives is the next one; with no overlap those before it are over.
LEMMA ArriveIs ==
  ASSUME WorkInv, NEW k \in Keys, NEW first \in {"begin", "new"}, Arrive(k, first), setting' = setting
  PROVE  LET n == Len(key) + 1
         IN  /\ n \in Messages /\ n \notin Arrived /\ Arrived' = Arrived \cup {n}
             /\ key'[n] = k /\ \A m \in Arrived : key'[m] = key[m]
             /\ pc[n] = "none" /\ pc'[n] = first /\ outcome'[n] = IF first = "new" THEN "new" ELSE "none"
             /\ \A j \in Messages : j # n => pc'[j] = pc[j] /\ outcome'[j] = outcome[j]
             /\ ~setting.overlap => \A m \in Arrived : key[m] = k => Over(m)
             /\ UNCHANGED <<mem, disk, pending, out, view, loaded, restarts>>
<1> DEFINE n == Len(key) + 1
<1>1. Types /\ Len(key) \in Nat /\ key \in Seq(Keys)
  BY DEF WorkInv, TypeInv, Types
<1>2. n \in Messages
  <2>1. n <= setting.messages /\ setting.messages <= MaxMessages /\ setting.messages \in Nat /\ MaxMessages \in Nat
    BY <1>1, SettingIs DEF Types, Arrive
  <2>2. n \in Nat /\ 1 <= n
    BY <1>1
  <2> HIDE DEF n
  <2> QED BY <2>1, <2>2 DEF Messages
<1>3. key' = Append(key, k)
  BY DEF Arrive
<1>4. key'[n] = k /\ Len(key') = n /\ \A m \in 1 .. Len(key) : key'[m] = key[m]
  BY <1>1, <1>3
<1>5. n \notin Arrived /\ Arrived' = Arrived \cup {n}
  BY <1>1, <1>4 DEF Arrived
<1>6. pc[n] = "none"
  <2>1. n > Len(key)
    BY <1>1
  <2> HIDE DEF n
  <2> QED BY <1>2, <2>1 DEF WorkInv, Workers
<1>7. /\ pc' = [pc EXCEPT ![n] = first] /\ outcome' = [outcome EXCEPT ![n] = IF first = "new" THEN "new" ELSE "none"]
      /\ UNCHANGED <<mem, disk, pending, out, view, loaded, restarts>>
  BY DEF Arrive
<1>8. ~setting.overlap => \A m \in Arrived : key[m] = k => Over(m)
  BY DEF Arrive, Over
<1> HIDE DEF n
<1>9. /\ pc'[n] = first /\ outcome'[n] = IF first = "new" THEN "new" ELSE "none"
      /\ \A j \in Messages : j # n => pc'[j] = pc[j] /\ outcome'[j] = outcome[j]
  BY <1>1, <1>2, <1>7 DEF Types
<1>10. \A m \in Arrived : key'[m] = key[m]
  BY <1>4 DEF Arrived
<1> QED BY <1>2, <1>4, <1>5, <1>6, <1>7, <1>8, <1>9, <1>10 DEF n

\* and so do an arrival
LEMMA ArriveWork ==
  ASSUME WorkInv, NEW k \in Keys, NEW first \in {"begin", "new"}, Arrive(k, first), setting' = setting
  PROVE  WorkInv'
<1> DEFINE n == Len(key) + 1
<1>1. /\ n \in Messages /\ n \notin Arrived /\ Arrived' = Arrived \cup {n}
      /\ key'[n] = k /\ \A m \in Arrived : key'[m] = key[m]
      /\ pc[n] = "none" /\ pc'[n] = first /\ outcome'[n] = IF first = "new" THEN "new" ELSE "none"
      /\ \A j \in Messages : j # n => pc'[j] = pc[j] /\ outcome'[j] = outcome[j]
      /\ ~setting.overlap => \A m \in Arrived : key[m] = k => Over(m)
      /\ UNCHANGED <<mem, disk, pending, out, view, loaded, restarts>>
  BY ArriveIs
<1>2. TypeInv'
  BY ArriveTypes DEF WorkInv
<1>3. Len(key') = n /\ n \in Nat /\ Len(key) \in Nat /\ n = Len(key) + 1
  BY DEF Arrive, WorkInv, TypeInv, Types
<1> HIDE DEF n
<1>4. Workers'
  <2> SUFFICES ASSUME NEW j \in Messages PROVE WorkerOK(j)' /\ (j > Len(key') => pc'[j] = "none")
    BY DEF Workers
  <2>0. j \in Nat
    BY DEF Messages
  <2>1. CASE j = n
    <3>1. view[n] = <<>> /\ outcome[n] = "none"
      BY <1>1 DEF WorkInv, Workers, WorkerOK
    <3> QED BY <1>1, <1>3, <2>1, <3>1 DEF WorkerOK
  <2>2. CASE j # n
    BY <1>1, <1>3, <2>0, <2>2 DEF WorkInv, Workers, WorkerOK, StillToAppend, KeepTools
  <2> QED BY <2>1, <2>2
<1>5. Serial'
  <2> SUFFICES ASSUME ~setting.overlap, NEW i \in Arrived', NEW j \in Arrived', i < j, key'[i] = key'[j]
               PROVE  Over(i)'
    BY DEF Serial
  <2>1. i \in Arrived /\ i # n /\ i \in Messages
    BY <1>1, <1>3, ArrivedAre DEF Arrived, WorkInv, TypeInv
  <2>2. CASE j = n
    BY <1>1, <2>1, <2>2 DEF Over
  <2>3. CASE j # n
    BY <1>1, <2>1, <2>3 DEF Over, WorkInv, Serial
  <2> QED BY <2>2, <2>3
<1> QED BY <1>2, <1>4, <1>5 DEF WorkInv

\* and a restart.
LEMMA RestartWork ==
  ASSUME WorkInv, Restart, setting' = setting
  PROVE  WorkInv'
<1>1. /\ \A m \in Messages : pc'[m] = IF pc[m] \in {"none", "done"} THEN pc[m] ELSE "lost"
      /\ UNCHANGED <<key, out, view, loaded, outcome>>
  BY DEF Restart
<1>2. TypeInv'
  BY RestartTypes DEF WorkInv
<1>3. Workers'
  <2> SUFFICES ASSUME NEW m \in Messages PROVE WorkerOK(m)' /\ (m > Len(key) => pc'[m] = "none")
    BY <1>1 DEF Workers
  <2> QED BY <1>1 DEF WorkInv, Workers, WorkerOK
<1>4. Serial'
  <2> SUFFICES ASSUME ~setting.overlap, NEW i \in Arrived, NEW j \in Arrived, i < j, key[i] = key[j]
               PROVE  Over(i)'
    BY <1>1 DEF Serial, Arrived
  <2>1. Over(i) /\ i \in Messages
    BY ArrivedAre DEF WorkInv, TypeInv, Serial
  <2> QED BY <1>1, <2>1 DEF Over
<1> QED BY <1>2, <1>3, <1>4 DEF WorkInv

\* It holds at the start.
LEMMA WorkInit == Init => WorkInv
<1> SUFFICES ASSUME Init PROVE WorkInv
  OBVIOUS
<1>1. TypeInv
  BY TypeInit
<1>2. Workers
  BY DEF Init, Workers, WorkerOK
<1>3. Serial
  BY DEF Init, Serial, Arrived
<1> QED BY <1>1, <1>2, <1>3 DEF WorkInv

\* Every step keeps it.
LEMMA WorkStep == WorkInv /\ [Next]_vars => WorkInv'
<1> SUFFICES ASSUME WorkInv, [Next]_vars PROVE WorkInv'
  OBVIOUS
<1>1. CASE UNCHANGED vars
  <2>1. TypeInv'
    BY TypeStep DEF WorkInv
  <2>2. Workers' /\ Serial'
    BY <1>1 DEF vars, WorkInv, Workers, WorkerOK, StillToAppend, KeepTools, Serial, Over, Arrived
  <2> QED BY <2>1, <2>2 DEF WorkInv
<1> QED BY <1>1, Steps, ArriveWork, WorkerGoesOn, RestartWork

-----------------------------------------------------------------------------
(* The model is shown the message.                                           *)

\* While a message is worked on, nobody else works on its conversation.
LEMMA OthersOver ==
  ASSUME WorkInv, ~setting.overlap, NEW x \in Arrived, ~Over(x),
         NEW m \in Arrived, m # x, key[m] = key[x]
  PROVE  Over(m)
<1>1. m \in Nat /\ x \in Nat
  BY DEF Arrived
<1>2. CASE m < x
  BY <1>2 DEF WorkInv, Serial
<1>3. CASE x < m
  BY <1>3 DEF WorkInv, Serial
<1> QED BY <1>1, <1>2, <1>3

\* A message that the model is to answer is the last turn remembered, and the view of
\* its worker was made from that memory, or from the message alone.
AskedLast ==
  ~setting.overlap => \A m \in Arrived :
    /\ pc[m] \in {"read", "model", "rollback"} => mem[key[m]] # <<>> /\ Last(mem[key[m]]) = User(m)
    /\ pc[m] = "model" => view[m] \in {Normalize(<<User(m)>>), Normalize(mem[key[m]])}

\* The steps of workers keep this,
LEMMA AskedWork ==
  ASSUME WorkInv, AskedLast, NEW x \in Arrived, Work(x), setting' = setting
  PROVE  AskedLast'
<1>0. TypeInv /\ Types /\ x \in Messages /\ key[x] \in Keys /\ Workers /\ WorkerOK(x)
  BY ArrivedAre DEF WorkInv, TypeInv, Workers
<1>1. /\ key' = key /\ ~Over(x)
      /\ \A j \in Messages : j # x => pc'[j] = pc[j] /\ view'[j] = view[j]
      /\ \A k \in Keys : k # key[x] => mem'[k] = mem[k]
  BY <1>0, WorkerFrame
<1>2. ASSUME ~setting.overlap
      PROVE  /\ pc'[x] \in {"read", "model", "rollback"} => mem'[key[x]] # <<>> /\ Last(mem'[key[x]]) = User(x)
             /\ pc'[x] = "model" => view'[x] \in {Normalize(<<User(x)>>), Normalize(mem'[key[x]])}
  <2> DEFINE Shown == /\ pc'[x] \in {"read", "model", "rollback"} => mem'[key[x]] # <<>> /\ Last(mem'[key[x]]) = User(x)
                      /\ pc'[x] = "model" => view'[x] \in {Normalize(<<User(x)>>), Normalize(mem'[key[x]])}
             Elsewhere == pc'[x] \notin {"read", "model", "rollback"}
  <2>0. Elsewhere => Shown
    OBVIOUS
  <2>1. CASE Drop(x) \/ TakePending(x) \/ ClearFresh(x)
    <3>1. Elsewhere
      BY <1>0, <2>1 DEF Drop, TakePending, ClearFresh, Goto, Types
    <3> QED BY <2>0, <3>1
  <2>2. CASE Persist(x) \/ Rewrite(x)
    <3>1. Elsewhere
      BY <1>0, <2>2 DEF Persist, Rewrite, Goto, Types
    <3> QED BY <2>0, <3>1
  <2>3. CASE Remember(x)
    <3>1. /\ pc[x] = "remember" /\ mem' = [mem EXCEPT ![key[x]] = Extended(mem[key[x]], Head(out[x]))]
          /\ pc'[x] = IF Len(out[x]) > 1 THEN "persist" ELSE After(x)
      BY <1>0, <2>3 DEF Remember, Types
    <3>2. CASE outcome[x] # "none"
      <4>1. Elsewhere
        BY <3>1, <3>2 DEF After
      <4> QED BY <2>0, <4>1
    <3>3. CASE outcome[x] = "none"
      <4>1. out[x] = <<User(x)>> /\ Head(out[x]) = User(x)
        BY <1>0, <3>1, <3>3 DEF WorkerOK, StillToAppend
      <4>2. pc'[x] = "read"
        BY <3>1, <3>3, <4>1 DEF After
      <4>3. PICK v : v = Extended(mem[key[x]], User(x))
        OBVIOUS
      <4>4. v # <<>> /\ Last(v) = User(x)
        <5>1. User(x) \in Turns /\ mem[key[x]] \in Seq(Turns) /\ setting \in Settings
          BY <1>0, TurnsAre DEF Roles, Types
        <5> QED BY <4>3, <5>1, ExtendedIs
      <4>5. mem'[key[x]] = v
        BY <1>0, <3>1, <4>1, <4>3 DEF Types
      <4> QED BY <4>2, <4>4, <4>5
    <3> QED BY <3>2, <3>3
  <2>4. CASE Read(x)
    <3>1. pc[x] = "read" /\ pc'[x] = "model" /\ mem' = mem
          /\ view'[x] = Normalize(IF view[x] # <<>> THEN view[x] ELSE mem[key[x]])
      BY <1>0, <2>4 DEF Read, Goto, Types
    <3>2. view[x] \in {<<>>, <<User(x)>>}
      BY <1>0, <3>1 DEF WorkerOK
    <3>3. mem[key[x]] # <<>> /\ Last(mem[key[x]]) = User(x)
      BY <1>2, <3>1 DEF AskedLast
    <3> QED BY <3>1, <3>2, <3>3
  <2>5. CASE Cancel(x) \/ Answer(x) \/ NoReply(x) \/ Fail(x) \/ Overflow(x) \/ Reject(x)
    <3>1. pc[x] = "model" /\ pc'[x] # "read" /\ pc'[x] # "model" /\ mem' = mem
      <4>1. PICK how, next, turns : Ending(x, how, next, turns) /\ Ends(x, how, next, turns)
        BY <2>5, EndsSomehow
      <4>2. next # "read" /\ next # "model"
        BY <4>1 DEF Ending
      <4> QED BY <1>0, <4>1, <4>2 DEF Ends, Goto, Types
    <3> QED BY <1>2, <3>1 DEF AskedLast
  <2>6. CASE Strip(x) \/ Compact(x)
    <3>1. Elsewhere
      BY <1>0, <2>6 DEF Strip, Compact, Goto, Types
    <3> QED BY <2>0, <3>1
  <2>7. CASE Rollback(x)
    <3>1. Elsewhere
      BY <1>0, <2>7 DEF Rollback, Types
    <3> QED BY <2>0, <3>1
  <2>8. CASE NewClear(x) \/ NewDelete(x) \/ NewMark(x)
    <3>1. Elsewhere
      BY <1>0, <2>8 DEF NewClear, NewDelete, NewMark, Goto, Types
    <3> QED BY <2>0, <3>1
  <2> QED BY <2>1, <2>2, <2>3, <2>4, <2>5, <2>6, <2>7, <2>8 DEF Work
<1>3. ASSUME ~setting.overlap, NEW m \in Arrived, m # x
      PROVE  /\ pc'[m] \in {"read", "model", "rollback"} => mem'[key[m]] # <<>> /\ Last(mem'[key[m]]) = User(m)
             /\ pc'[m] = "model" => view'[m] \in {Normalize(<<User(m)>>), Normalize(mem'[key[m]])}
  <2>1. m \in Messages /\ key[m] \in Keys
    BY <1>0, ArrivedAre
  <2>2. CASE key[m] = key[x]
    <3>1. Over(m)
      BY <1>1, <1>3, <2>2, OthersOver
    <3> QED BY <1>1, <1>3, <2>1, <3>1 DEF Over
  <2>3. CASE key[m] # key[x]
    BY <1>1, <1>3, <2>1, <2>3 DEF AskedLast
  <2> QED BY <2>2, <2>3
<1>4. ASSUME ~setting.overlap, NEW m \in Arrived
      PROVE  /\ pc'[m] \in {"read", "model", "rollback"} => mem'[key[m]] # <<>> /\ Last(mem'[key[m]]) = User(m)
             /\ pc'[m] = "model" => view'[m] \in {Normalize(<<User(m)>>), Normalize(mem'[key[m]])}
  BY <1>2, <1>3, <1>4
<1> QED BY <1>1, <1>4 DEF AskedLast, Arrived

\* and all steps do.
LEMMA AskedStep == WorkInv /\ AskedLast /\ [Next]_vars => AskedLast'
<1> SUFFICES ASSUME WorkInv, AskedLast, [Next]_vars PROVE AskedLast'
  OBVIOUS
<1>1. CASE UNCHANGED vars
  BY <1>1 DEF vars, AskedLast, Arrived
<1>2. ASSUME NEW k \in Keys, NEW first \in {"begin", "new"}, Arrive(k, first), setting' = setting
      PROVE  AskedLast'
  <2> DEFINE n == Len(key) + 1
  <2>1. /\ n \in Messages /\ n \notin Arrived /\ Arrived' = Arrived \cup {n}
        /\ key'[n] = k /\ \A m \in Arrived : key'[m] = key[m]
        /\ pc[n] = "none" /\ pc'[n] = first /\ outcome'[n] = IF first = "new" THEN "new" ELSE "none"
        /\ \A j \in Messages : j # n => pc'[j] = pc[j] /\ outcome'[j] = outcome[j]
        /\ ~setting.overlap => \A m \in Arrived : key[m] = k => Over(m)
        /\ UNCHANGED <<mem, disk, pending, out, view, loaded, restarts>>
    BY <1>2, ArriveIs
  <2> HIDE DEF n
  <2>2. \A m \in Arrived : m \in Messages
    BY ArrivedAre DEF WorkInv, TypeInv
  <2> QED BY <1>2, <2>1, <2>2 DEF AskedLast
<1>3. CASE setting' = setting /\ Restart
  <2>1. \A m \in Messages : pc'[m] \in {"none", "done", "lost"}
    BY <1>3 DEF Restart
  <2>2. \A m \in Arrived' : m \in Messages
    BY <1>3, ArrivedAre DEF WorkInv, TypeInv, Restart, Arrived
  <2> QED BY <2>1, <2>2 DEF AskedLast
<1> QED BY <1>1, <1>2, <1>3, Steps, AskedWork

\* It holds at the start,
LEMMA AskedInit == Init => AskedLast
BY DEF Init, AskedLast, Arrived

\* and it says what is shown to the model.
LEMMA AskedAnswers == WorkInv /\ AskedLast => AnswersOwnMessage
<1> SUFFICES ASSUME WorkInv, AskedLast, ~setting.overlap, NEW m \in Arrived,
                    pc[m] = "model", ~Torn(mem[key[m]])
             PROVE  view[m] # <<>> /\ Last(view[m]).role = "user" /\ Last(Last(view[m]).parts) = <<"user", m>>
  BY DEF AnswersOwnMessage
<1>0. m \in Messages /\ mem[key[m]] \in Seq(Turns)
  BY ArrivedAre DEF WorkInv, TypeInv, Types
<1>1. CASE view[m] = Normalize(<<User(m)>>)
  <2>1. PICK s : s = <<User(m)>>
    OBVIOUS
  <2>2. s \in Seq(Turns) /\ s # <<>>
    BY <1>0, <2>1, TurnsAre DEF Roles
  <2>3. Last(s) = User(m)
    BY <2>1 DEF Last
  <2>4. ~Torn(s)
    <3>1. Len(s) = 1
      BY <2>1
    <3> QED BY <3>1 DEF Torn
  <2> QED BY <1>0, <1>1, <2>1, <2>2, <2>3, <2>4, NormalizeEndsWith
<1>2. CASE view[m] = Normalize(mem[key[m]])
  <2>1. mem[key[m]] # <<>> /\ Last(mem[key[m]]) = User(m)
    BY DEF AskedLast
  <2> QED BY <1>0, <1>2, <2>1, NormalizeEndsWith
<1> QED BY <1>1, <1>2 DEF AskedLast

\* The message a worker answers is the last thing its model is shown.
THEOREM OwnMessageAnswered == Spec => []AnswersOwnMessage
<1>1. Init => WorkInv /\ AskedLast
  BY WorkInit, AskedInit
<1>2. WorkInv /\ AskedLast /\ [Next]_vars => (WorkInv /\ AskedLast)'
  BY WorkStep, AskedStep
<1> QED BY <1>1, <1>2, AskedAnswers, PTL DEF Spec

-----------------------------------------------------------------------------
(* What is said where: rolled back requests are gone, and /new forgets.      *)

\* The parts a message can have.
Own(m) == Roles \X {m}
Heard == Roles \X (Arrived \cup {Closure})

\* Nothing is kept that nobody said.
Known ==
  /\ \A k \in Keys : PartSet(mem[k]) \subseteq Heard /\ PartSet(disk[k]) \subseteq Heard
  /\ \A m \in Messages : PartSet(loaded[m]) \subseteq Heard

\* What the turns of a message consist of.
LEMMA TurnParts ==
  ASSUME NEW role, NEW m
  PROVE  /\ Range(Turn(role, m).parts) = {<<role, m>>}
         /\ Range(User(m).parts) = {<<"user", m>>} /\ Range(Reply(m).parts) = {<<"assistant", m>>}
<1>1. ASSUME NEW r PROVE Range(Turn(r, m).parts) = {<<r, m>>}
  <2>1. PICK p : p = <<r, m>>
    OBVIOUS
  <2>2. Turn(r, m).parts = <<p>>
    BY <2>1 DEF Turn
  <2>3. Range(<<p>>) = {p}
    BY DEF Range
  <2> QED BY <2>1, <2>2, <2>3
<1> QED BY <1>1 DEF User, Reply

\* What a worker appends is its own.
LEMMA OwnTurns ==
  ASSUME WorkInv, NEW m \in Messages, pc[m] \in {"persist", "remember"}
  PROVE  Head(out[m]) \in Turns /\ Range(Head(out[m]).parts) \subseteq Own(m)
<1>1. StillToAppend(m)
  BY DEF WorkInv, Workers, WorkerOK
<1>2. PICK role \in Roles : Head(out[m]) = Turn(role, m)
  <2>1. out[m] \in {<<User(m)>>, <<Reply(m)>>, <<Turn("tool", m), Reply(m)>>,
                    <<Turn("call", m), Turn("tool", m), Reply(m)>>}
    BY <1>1 DEF StillToAppend
  <2>2. Head(out[m]) \in {User(m), Reply(m), Turn("tool", m), Turn("call", m)}
    BY <2>1
  <2> QED BY <2>2 DEF User, Reply, Roles
<1>3. Range(Turn(role, m).parts) = {<<role, m>>} /\ Turn(role, m) \in Turns
  BY TurnParts, TurnsAre
<1> QED BY <1>2, <1>3 DEF Own

\* A worker adds what is its own message's to memory and to the file, or puts back
\* what it read of the file but its last turn.
LEMMA WorkAdds ==
  ASSUME WorkInv, NEW x \in Arrived, Work(x), setting' = setting
  PROVE  /\ PartSet(mem'[key[x]]) \subseteq PartSet(mem[key[x]]) \cup Own(x)
         /\ \/ PartSet(disk'[Sanitize[key[x]]]) \subseteq PartSet(disk[Sanitize[key[x]]]) \cup Own(x)
            \/ pc[x] = "rewrite" /\ disk'[Sanitize[key[x]]] = Front(loaded[x])
         /\ loaded'[x] = loaded[x] \/ loaded'[x] = disk[Sanitize[key[x]]]
<1> DEFINE k == key[x]
           f == Sanitize[k]
           Adds == /\ PartSet(mem'[k]) \subseteq PartSet(mem[k]) \cup Own(x)
                   /\ \/ PartSet(disk'[f]) \subseteq PartSet(disk[f]) \cup Own(x)
                      \/ pc[x] = "rewrite" /\ disk'[f] = Front(loaded[x])
                   /\ loaded'[x] = loaded[x] \/ loaded'[x] = disk[f]
<1>0. /\ Types /\ x \in Messages /\ k \in Keys /\ f \in Keys /\ setting \in Settings
      /\ mem[k] \in Seq(Turns) /\ disk[f] \in Seq(Turns) /\ PartSet(<<>>) = {}
  BY ArrivedAre DEF WorkInv, TypeInv, Types, PartSet
<1>1. mem' = mem /\ disk' = disk /\ loaded' = loaded => Adds
  OBVIOUS
<1>2. CASE Drop(x) \/ TakePending(x) \/ Read(x) \/ NewMark(x)
  BY <1>1, <1>2 DEF Drop, TakePending, Read, NewMark
<1>3. CASE ClearFresh(x) \/ NewClear(x)
  <2>1. mem' = [mem EXCEPT ![k] = <<>>] /\ disk' = disk /\ loaded' = loaded
    BY <1>3 DEF ClearFresh, NewClear
  <2> QED BY <1>0, <2>1 DEF Types
<1>4. CASE Persist(x)
  <2>1. pc[x] = "persist" /\ mem' = mem /\ loaded' = loaded
    BY <1>4 DEF Persist, Goto
  <2>2. PICK t : t = Head(out[x])
    OBVIOUS
  <2>3. t \in Turns /\ Range(t.parts) \subseteq Own(x)
    BY <1>0, <2>1, <2>2, OwnTurns
  <2>4. PartSet(Append(disk[f], t)) = PartSet(disk[f]) \cup Range(t.parts)
    BY <1>0, <2>3, PartSetOf
  <2>5. disk' = [disk EXCEPT ![f] = Append(disk[f], t)] \/ disk' = disk
    BY <1>4, <2>2 DEF Persist
  <2>6. disk'[f] = Append(disk[f], t) \/ disk'[f] = disk[f]
    BY <1>0, <2>5 DEF Types
  <2> QED BY <2>1, <2>3, <2>4, <2>6
<1>5. CASE Remember(x)
  <2>1. pc[x] = "remember" /\ disk' = disk /\ loaded' = loaded
    BY <1>5 DEF Remember
  <2>2. PICK t : t = Head(out[x])
    OBVIOUS
  <2>3. t \in Turns /\ Range(t.parts) \subseteq Own(x)
    BY <1>0, <2>1, <2>2, OwnTurns
  <2>4. PartSet(Extended(mem[k], t)) \subseteq PartSet(mem[k]) \cup Range(t.parts)
    BY <1>0, <2>3, ExtendedIs
  <2>5. mem'[k] = Extended(mem[k], t)
    BY <1>0, <1>5, <2>2 DEF Remember, Types
  <2> QED BY <2>1, <2>3, <2>4, <2>5
<1>6. CASE Cancel(x) \/ Answer(x) \/ NoReply(x) \/ Fail(x) \/ Overflow(x) \/ Reject(x)
  BY <1>1, <1>6, EndsSomehow DEF Ends
<1>7. CASE Strip(x)
  <2>1. mem'[k] = Stripped(mem[k]) /\ disk' = disk /\ loaded' = loaded
    BY <1>0, <1>7 DEF Strip, Types
  <2> QED BY <1>0, <2>1, StrippedKeeps
<1>8. CASE Compact(x)
  <2>1. mem'[k] = Normalize(Latest(CompactKeep, mem[k])) /\ disk' = disk /\ loaded' = loaded
    BY <1>0, <1>8 DEF Compact, Types
  <2>2. PICK s : s = Latest(CompactKeep, mem[k])
    OBVIOUS
  <2>3. s \in Seq(Turns) /\ PartSet(s) \subseteq PartSet(mem[k])
    BY <1>0, <2>2, SettingIs, LatestKeepsEnd
  <2>4. PartSet(Normalize(s)) \subseteq PartSet(s)
    BY <2>3, NormalizeKeeps
  <2> QED BY <2>1, <2>2, <2>3, <2>4
<1>9. CASE Rollback(x)
  <2>1. CASE IsOrphan(mem[k], x)
    <3>1. mem'[k] = Front(mem[k]) /\ disk' = disk /\ loaded'[x] = disk[f]
      BY <1>0, <1>9, <2>1 DEF Rollback, Types
    <3>2. mem[k] # <<>>
      BY <2>1 DEF IsOrphan
    <3>3. PartSet(mem[k]) = PartSet(Front(mem[k])) \cup Range(Last(mem[k]).parts)
      <4>1. \E t \in Turns : TRUE
        BY <1>0, TurnsAre DEF Roles
      <4> QED BY <1>0, <3>2, <4>1, PartSetOf
    <3> QED BY <3>1, <3>3
  <2>2. CASE ~IsOrphan(mem[k], x)
    <3>1. mem' = mem /\ disk' = disk /\ loaded' = loaded
      BY <1>9, <2>2 DEF Rollback
    <3> QED BY <1>1, <3>1
  <2> QED BY <2>1, <2>2
<1>10. CASE Rewrite(x)
  <2>1. pc[x] = "rewrite" /\ disk'[f] = Front(loaded[x]) /\ mem' = mem /\ loaded' = loaded
    BY <1>0, <1>10 DEF Rewrite, Kept, Goto, Types
  <2> QED BY <2>1
<1>11. CASE NewDelete(x)
  <2>1. disk'[f] = <<>> /\ mem' = mem /\ loaded' = loaded
    BY <1>0, <1>11 DEF NewDelete, Deleted, Types
  <2> QED BY <1>0, <2>1
<1> QED BY <1>2, <1>3, <1>4, <1>5, <1>6, <1>7, <1>8, <1>9, <1>10, <1>11 DEF Work

\* Without the last turn there is nothing more.
LEMMA FrontParts ==
  ASSUME NEW s \in Seq(Turns), s # <<>>
  PROVE  PartSet(Front(s)) \subseteq PartSet(s)
<1>1. \E t \in Turns : TRUE
  BY TurnsAre DEF Roles
<1> QED BY <1>1, PartSetOf

\* Every step keeps this.
LEMMA KnownStep == WorkInv /\ Known /\ [Next]_vars => Known'
<1> SUFFICES ASSUME WorkInv, Known, [Next]_vars PROVE Known'
  OBVIOUS
<1>0. WorkInv' /\ Types
  BY WorkStep DEF WorkInv, TypeInv
<1>1. CASE UNCHANGED vars
  BY <1>1 DEF vars, Known, Heard, Arrived
<1>2. ASSUME NEW k \in Keys, NEW first \in {"begin", "new"}, Arrive(k, first), setting' = setting
      PROVE  Known'
  <2>1. Arrived' = Arrived \cup {Len(key) + 1} /\ UNCHANGED <<mem, disk, loaded>>
    BY <1>2, ArriveIs
  <2>2. Heard \subseteq Heard'
    BY <2>1 DEF Heard
  <2> QED BY <2>1, <2>2 DEF Known
<1>3. ASSUME NEW x \in Arrived, Work(x), setting' = setting PROVE Known'
  <2>1. /\ key' = key
        /\ \A j \in Messages : j # x => loaded'[j] = loaded[j]
        /\ \A k \in Keys : /\ k # key[x] => mem'[k] = mem[k]
                           /\ k # Sanitize[key[x]] => disk'[k] = disk[k]
    BY <1>0, <1>3, WorkerFrame
  <2>2. Heard' = Heard /\ Own(x) \subseteq Heard
    BY <2>1 DEF Heard, Own, Arrived
  <2>3. x \in Messages /\ key[x] \in Keys /\ Sanitize[key[x]] \in Keys
    BY <1>0, ArrivedAre
  <2>4. /\ PartSet(mem'[key[x]]) \subseteq PartSet(mem[key[x]]) \cup Own(x)
        /\ \/ PartSet(disk'[Sanitize[key[x]]]) \subseteq PartSet(disk[Sanitize[key[x]]]) \cup Own(x)
           \/ pc[x] = "rewrite" /\ disk'[Sanitize[key[x]]] = Front(loaded[x])
        /\ loaded'[x] = loaded[x] \/ loaded'[x] = disk[Sanitize[key[x]]]
    BY <1>3, WorkAdds
  <2>5. pc[x] = "rewrite" => PartSet(Front(loaded[x])) \subseteq PartSet(loaded[x])
    BY <1>0, <2>3, FrontParts DEF WorkInv, TypeInv, Ready, Types
  <2>6. PartSet(mem'[key[x]]) \subseteq Heard /\ PartSet(disk'[Sanitize[key[x]]]) \subseteq Heard
        /\ PartSet(loaded'[x]) \subseteq Heard
    BY <2>2, <2>3, <2>4, <2>5 DEF Known
  <2> QED BY <2>1, <2>2, <2>6 DEF Known
<1>4. CASE setting' = setting /\ Restart
  <2>1. Heard' = Heard /\ loaded' = loaded /\ mem' = [k \in Keys |-> Hydrated(disk[k])]
    BY <1>4 DEF Restart, Heard, Arrived
  <2>2. PICK t : t = Reply(Closure)
    OBVIOUS
  <2>3. t \in Turns /\ Range(t.parts) \subseteq Heard
    BY <2>2, TurnsAre, TurnParts DEF Roles, Heard
  <2>4. ASSUME NEW k \in Keys PROVE PartSet(mem'[k]) \subseteq Heard /\ PartSet(disk'[k]) \subseteq Heard
    <3>1. disk[k] \in Seq(Turns) /\ PartSet(disk[k]) \subseteq Heard
      BY <1>0 DEF Types, Known
    <3>2. PartSet(Hydrated(disk[k])) \subseteq PartSet(disk[k]) \cup Range(t.parts)
      BY <2>2, <3>1, HydratedIs
    <3>3. PartSet(Append(disk[k], t)) = PartSet(disk[k]) \cup Range(t.parts)
      BY <2>3, <3>1, PartSetOf
    <3>4. disk'[k] = disk[k] \/ disk'[k] = Append(disk[k], t)
      BY <1>4, <2>2 DEF Restart
    <3> QED BY <2>1, <2>3, <3>1, <3>2, <3>3, <3>4
  <2> QED BY <2>1, <2>4 DEF Known
<1> QED BY <1>1, <1>2, <1>3, <1>4, Steps

\* It holds at the start.
LEMMA KnownInit == Init => Known
<1> SUFFICES ASSUME Init PROVE Known
  OBVIOUS
<1>1. PartSet(<<>>) = {}
  BY DEF PartSet
<1> QED BY <1>1 DEF Init, Known

\* The request of m is not in turns.
Without(turns, m) == <<"user", m>> \notin PartSet(turns)
EndsWith(turns, m) == turns # <<>> /\ Last(turns) = User(m) /\ Without(Front(turns), m)

\* Where the request of a message is: nowhere yet, at the end of the file, at the end
\* of both, at the end of the file that is to be rewritten, or gone.
Placed(m) ==
  LET inMemory == mem[key[m]]
      inFile == File(key[m])
  IN  /\ pc[m] \in {"begin", "fresh"} \/ (pc[m] = "persist" /\ outcome[m] = "none") =>
           Without(inMemory, m) /\ Without(inFile, m)
      /\ pc[m] = "remember" /\ outcome[m] = "none" => Without(inMemory, m) /\ EndsWith(inFile, m)
      /\ pc[m] \in {"read", "model", "rollback"} => EndsWith(inMemory, m) /\ EndsWith(inFile, m)
      /\ pc[m] = "rewrite" => Without(inMemory, m) /\ EndsWith(inFile, m) /\ loaded[m] = inFile
      /\ pc[m] = "done" /\ outcome[m] = "rejected" => Without(inMemory, m) /\ Without(inFile, m)

\* With one message at a time, and a file of its own, the request of each is where it should be.
AllPlaced == Orderly => \A m \in Arrived : Alone(key[m]) => Placed(m)

\* Nothing is in turns that was said in the conversation of n before n.
Clean(turns, n) == \A m \in Arrived : m < n /\ key[m] = key[n] => PartSet(turns) \cap Own(m) = {}

\* /new has cleared memory, then the file.
Forgotten ==
  Orderly => \A n \in Arrived : outcome[n] = "new" /\ Alone(key[n]) =>
    /\ pc[n] \in {"new_file", "new_mark", "done"} => Clean(mem[key[n]], n)
    /\ pc[n] \in {"new_mark", "done"} => Clean(File(key[n]), n)

\* The invariant of the places.
PlaceInv == WorkInv /\ Known /\ AllPlaced /\ Forgotten

\* A conversation with a file of its own gives it its name.
LEMMA AloneIs ==
  ASSUME NEW k \in Keys, Alone(k)
  PROVE  Sanitize[k] = k /\ \A j \in Keys : Sanitize[j] = Sanitize[k] => j = k
<1>1. Sanitize[k] \in Keys /\ Sanitize[Sanitize[k]] = Sanitize[k]
  BY HistoryConstants
<1> QED BY <1>1 DEF Alone

\* A request that is appended is the last turn.
LEMMA OnceAppended ==
  ASSUME NEW turns \in Seq(Turns), NEW m \in Messages, Without(turns, m), setting \in Settings
  PROVE  EndsWith(Append(turns, User(m)), m) /\ EndsWith(Extended(turns, User(m)), m)
<1>0. User(m) \in Turns
  BY TurnsAre DEF Roles
<1>1. PICK t : t = User(m)
  OBVIOUS
<1>2. PICK s : s = Append(turns, t)
  OBVIOUS
<1>3. s \in Seq(Turns) /\ Len(s) = Len(turns) + 1 /\ s[Len(s)] = t /\ \A i \in 1 .. Len(turns) : s[i] = turns[i]
  BY <1>0, <1>1, <1>2
<1>4. Len(turns) \in Nat
  OBVIOUS
<1>5. s # <<>> /\ Last(s) = t
  BY <1>3, <1>4 DEF Last
<1>6. PartSet(Front(s)) \subseteq PartSet(turns)
  <2>1. DOMAIN Front(s) = 1 .. Len(turns) /\ \A i \in 1 .. Len(turns) : Front(s)[i] = turns[i]
    BY <1>3, <1>4 DEF Front
  <2> QED BY <2>1 DEF PartSet
<1>7. PICK e : e = Extended(turns, t)
  OBVIOUS
<1>8. e \in Seq(Turns) /\ e # <<>> /\ Last(e) = t
  BY <1>0, <1>1, <1>7, ExtendedIs
<1>9. PartSet(Front(e)) \subseteq PartSet(turns)
  <2>1. setting.maxHistory \in Nat
    BY SettingIs
  <2>2. e = Latest(setting.maxHistory, s)
    BY <1>2, <1>7 DEF Extended
  <2>3. Len(e) <= Len(s) /\ \A i \in DOMAIN e : e[i] = s[Len(s) - Len(e) + i]
    BY <1>3, <2>1, <2>2, LatestKeepsEnd
  <2>4. Len(e) \in Nat /\ DOMAIN e = 1 .. Len(e)
    BY <1>8
  <2>5. DOMAIN Front(e) = 1 .. Len(e) - 1 /\ \A i \in 1 .. Len(e) - 1 : Front(e)[i] = e[i]
    BY <1>8, <2>4 DEF Front
  <2>6. ASSUME NEW i \in 1 .. Len(e) - 1
        PROVE  \E j \in 1 .. Len(turns) : Front(e)[i] = turns[j]
    <3>1. i \in DOMAIN e /\ e[i] = s[Len(s) - Len(e) + i]
      BY <2>3, <2>4
    <3>2. Len(s) - Len(e) + i \in 1 .. Len(turns)
      BY <1>3, <1>4, <2>3, <2>4
    <3> QED BY <1>3, <2>5, <3>1, <3>2
  <2> QED BY <2>5, <2>6 DEF PartSet
<1> QED BY <1>1, <1>2, <1>5, <1>6, <1>7, <1>8, <1>9 DEF EndsWith, Without

\* The steps of the worker that works on a conversation alone.
LEMMA PlacedWork ==
  ASSUME PlaceInv, NEW x \in Arrived, Work(x), setting' = setting, Orderly, Alone(key[x])
  PROVE  Placed(x)'
<1> DEFINE k == key[x]
           f == Sanitize[k]
<1>0. /\ TypeInv /\ Types /\ x \in Messages /\ k \in Keys /\ f = k /\ setting \in Settings
      /\ mem[k] \in Seq(Turns) /\ disk[k] \in Seq(Turns) /\ WorkerOK(x) /\ Placed(x)
  BY ArrivedAre, AloneIs DEF PlaceInv, WorkInv, Workers, TypeInv, Types, AllPlaced
<1>1. key' = key
  BY <1>0, WorkerFrame
<1> DEFINE Nowhere == Without(mem'[k], x) /\ Without(disk'[k], x)
           Elsewhere == /\ pc'[x] \notin {"begin", "fresh", "read", "model", "rollback", "rewrite"}
                        /\ pc'[x] \in {"persist", "remember"} => outcome'[x] # "none"
                        /\ pc'[x] = "done" => outcome'[x] # "rejected"
<1>2. Placed(x)' <=>
        /\ pc'[x] \in {"begin", "fresh"} \/ (pc'[x] = "persist" /\ outcome'[x] = "none") => Nowhere
        /\ pc'[x] = "remember" /\ outcome'[x] = "none" => Without(mem'[k], x) /\ EndsWith(disk'[k], x)
        /\ pc'[x] \in {"read", "model", "rollback"} => EndsWith(mem'[k], x) /\ EndsWith(disk'[k], x)
        /\ pc'[x] = "rewrite" => Without(mem'[k], x) /\ EndsWith(disk'[k], x) /\ loaded'[x] = disk'[k]
        /\ pc'[x] = "done" /\ outcome'[x] = "rejected" => Nowhere
  BY <1>0, <1>1 DEF Placed, File
<1>3. /\ pc[x] \in {"begin", "fresh"} \/ (pc[x] = "persist" /\ outcome[x] = "none") =>
           Without(mem[k], x) /\ Without(disk[k], x)
      /\ pc[x] = "remember" /\ outcome[x] = "none" => Without(mem[k], x) /\ EndsWith(disk[k], x)
      /\ pc[x] \in {"read", "model", "rollback"} => EndsWith(mem[k], x) /\ EndsWith(disk[k], x)
      /\ pc[x] = "rewrite" => Without(mem[k], x) /\ EndsWith(disk[k], x) /\ loaded[x] = disk[k]
  BY <1>0 DEF Placed, File
<1> HIDE DEF k
<1>4. Elsewhere => Placed(x)'
  BY <1>2
<1>5. CASE Drop(x)
  <2>1. pc'[x] = "done" /\ outcome'[x] = "cancelled"
    BY <1>0, <1>5 DEF Drop, Goto, Types
  <2> QED BY <1>4, <2>1
<1>6. CASE TakePending(x)
  <2>1. pc[x] = "begin" /\ pc'[x] \in {"fresh", "persist"} /\ mem' = mem /\ disk' = disk
    BY <1>0, <1>6 DEF TakePending, Types
  <2> QED BY <1>2, <1>3, <2>1
<1>7. CASE ClearFresh(x)
  <2>1. pc[x] = "fresh" /\ pc'[x] = "persist" /\ mem'[k] = <<>> /\ disk' = disk
    BY <1>0, <1>7 DEF ClearFresh, Goto, Types, k
  <2>2. Without(<<>>, x)
    BY DEF Without, PartSet
  <2> QED BY <1>2, <1>3, <2>1, <2>2
<1>8. CASE Persist(x)
  <2>1. pc[x] = "persist" /\ pc'[x] = "remember" /\ mem' = mem /\ outcome' = outcome
    BY <1>0, <1>8 DEF Persist, Goto, Types
  <2>2. CASE outcome[x] = "none"
    <3>1. out[x] = <<User(x)>>
      BY <1>0, <2>1, <2>2 DEF WorkerOK, StillToAppend
    <3>2. disk'[k] = Append(disk[k], User(x))
      BY <1>0, <1>8, <3>1 DEF Persist, Orderly, Types, k
    <3>3. EndsWith(disk'[k], x)
      BY <1>0, <1>3, <2>1, <2>2, <3>2, OnceAppended
    <3> QED BY <1>2, <1>3, <2>1, <2>2, <3>3
  <2>3. CASE outcome[x] # "none"
    BY <1>4, <2>1, <2>3
  <2> QED BY <2>2, <2>3
<1>9. CASE Remember(x)
  <2>1. /\ pc[x] = "remember" /\ disk' = disk /\ outcome' = outcome
        /\ pc'[x] = IF Len(out[x]) > 1 THEN "persist" ELSE After(x)
        /\ mem'[k] = Extended(mem[k], Head(out[x]))
    BY <1>0, <1>9 DEF Remember, Types, k
  <2>2. CASE outcome[x] = "none"
    <3>1. out[x] = <<User(x)>> /\ Head(out[x]) = User(x)
      BY <1>0, <2>1, <2>2 DEF WorkerOK, StillToAppend
    <3>2. pc'[x] = "read"
      BY <2>1, <2>2, <3>1 DEF After
    <3>3. EndsWith(Extended(mem[k], User(x)), x)
      BY <1>0, <1>3, <2>1, <2>2, OnceAppended
    <3> QED BY <1>2, <1>3, <2>1, <2>2, <3>1, <3>2, <3>3
  <2>3. CASE outcome[x] # "none"
    <3>1. pc'[x] \in {"persist", "strip", "done"}
      BY <2>1, <2>3 DEF After
    <3>2. outcome[x] # "rejected"
      BY <1>0, <2>1 DEF WorkerOK, StillToAppend
    <3> QED BY <1>4, <2>1, <2>3, <3>1, <3>2
  <2> QED BY <2>2, <2>3
<1>10. CASE Read(x)
  <2>1. pc[x] = "read" /\ pc'[x] = "model" /\ mem' = mem /\ disk' = disk
    BY <1>0, <1>10 DEF Read, Goto, Types
  <2> QED BY <1>2, <1>3, <2>1
<1>11. CASE Cancel(x) \/ Answer(x) \/ NoReply(x) \/ Fail(x) \/ Overflow(x) \/ Reject(x)
  <2>1. PICK how, next, turns : Ending(x, how, next, turns) /\ Ends(x, how, next, turns)
    BY <1>11, EndsSomehow
  <2>2. pc[x] = "model" /\ pc'[x] = next /\ outcome'[x] = how /\ mem' = mem /\ disk' = disk
    BY <1>0, <2>1 DEF Ends, Goto, Types
  <2>3. CASE next = "rollback"
    BY <1>2, <1>3, <2>2, <2>3
  <2>4. CASE next # "rollback"
    <3>1. next \in {"done", "persist", "compact"} /\ how \notin {"none", "rejected"}
      BY <2>1, <2>4 DEF Ending
    <3> QED BY <1>4, <2>2, <3>1
  <2> QED BY <2>3, <2>4
<1>12. CASE Strip(x) \/ Compact(x)
  <2>1. pc[x] \in {"strip", "compact"} /\ pc'[x] = "done" /\ outcome' = outcome
    BY <1>0, <1>12 DEF Strip, Compact, Goto, Types
  <2>2. outcome[x] # "rejected"
    BY <1>0, <2>1 DEF WorkerOK
  <2> QED BY <1>4, <2>1, <2>2
<1>13. CASE Rollback(x)
  <2>1. pc[x] = "rollback" /\ disk' = disk
    BY <1>13 DEF Rollback
  <2>2. EndsWith(mem[k], x) /\ EndsWith(disk[k], x)
    BY <1>3, <2>1
  <2>3. IsOrphan(mem[k], x) /\ disk[k] # <<>>
    BY <2>2 DEF EndsWith, IsOrphan
  <2>4. mem'[k] = Front(mem[k]) /\ loaded'[x] = disk[k] /\ pc'[x] = "rewrite"
    BY <1>0, <1>13, <2>3 DEF Rollback, Types, k
  <2> QED BY <1>2, <2>1, <2>2, <2>4 DEF EndsWith
<1>14. CASE Rewrite(x)
  <2>1. pc[x] = "rewrite" /\ pc'[x] = "done" /\ mem' = mem /\ disk'[k] = Front(loaded[x])
    BY <1>0, <1>14 DEF Rewrite, Kept, Goto, Types, k
  <2> QED BY <1>2, <1>3, <2>1 DEF EndsWith
<1>15. CASE NewClear(x) \/ NewDelete(x) \/ NewMark(x)
  <2>1. /\ pc[x] \in {"new", "new_file", "new_mark"} /\ pc'[x] \in {"new_file", "new_mark", "done"}
        /\ outcome' = outcome
    BY <1>0, <1>15 DEF NewClear, NewDelete, NewMark, Goto, Types
  <2>2. outcome[x] = "new"
    BY <1>0, <2>1 DEF WorkerOK
  <2> QED BY <1>4, <2>1, <2>2
<1> QED BY <1>5, <1>6, <1>7, <1>8, <1>9, <1>10, <1>11, <1>12, <1>13, <1>14, <1>15 DEF Work

\* A worker leaves alone what is not of its conversation.
LEMMA OthersKept ==
  ASSUME WorkInv, NEW x \in Arrived, Work(x), setting' = setting, NEW k \in Keys, Alone(k), k # key[x]
  PROVE  mem'[k] = mem[k] /\ disk'[Sanitize[k]] = disk[Sanitize[k]]
<1>0. Types /\ x \in Messages /\ key[x] \in Keys
  BY ArrivedAre DEF WorkInv, TypeInv
<1>1. Sanitize[k] # Sanitize[key[x]] /\ Sanitize[k] \in Keys
  BY <1>0, SettingIs DEF Alone, Types
<1>2. \A j \in Keys : /\ j # key[x] => mem'[j] = mem[j]
                      /\ j # Sanitize[key[x]] => disk'[j] = disk[j]
  BY <1>0, WorkerFrame DEF WorkInv
<1> QED BY <1>1, <1>2

\* What a worker adds to a conversation nobody else uses is its own.
LEMMA SoleAdds ==
  ASSUME PlaceInv, NEW x \in Arrived, Work(x), setting' = setting, Orderly, Alone(key[x])
  PROVE  /\ PartSet(mem'[key[x]]) \subseteq PartSet(mem[key[x]]) \cup Own(x)
         /\ PartSet(disk'[Sanitize[key[x]]]) \subseteq PartSet(disk[Sanitize[key[x]]]) \cup Own(x)
<1> DEFINE f == Sanitize[key[x]]
<1>0. Types /\ x \in Messages /\ key[x] \in Keys /\ WorkInv
  BY ArrivedAre DEF PlaceInv, WorkInv, TypeInv
<1>1. /\ PartSet(mem'[key[x]]) \subseteq PartSet(mem[key[x]]) \cup Own(x)
      /\ \/ PartSet(disk'[f]) \subseteq PartSet(disk[f]) \cup Own(x)
         \/ pc[x] = "rewrite" /\ disk'[f] = Front(loaded[x])
  BY <1>0, WorkAdds
<1>2. ASSUME pc[x] = "rewrite" PROVE PartSet(Front(loaded[x])) \subseteq PartSet(disk[f])
  <2>1. loaded[x] = disk[f] /\ loaded[x] # <<>>
    BY <1>0, <1>2 DEF PlaceInv, AllPlaced, Placed, EndsWith, File
  <2>2. loaded[x] \in Seq(Turns)
    BY <1>0 DEF Types
  <2> QED BY <2>1, <2>2, FrontParts
<1> QED BY <1>1, <1>2

\* The steps of workers keep the invariant,
LEMMA PlaceWork ==
  ASSUME PlaceInv, NEW x \in Arrived, Work(x), setting' = setting
  PROVE  AllPlaced' /\ Forgotten'
<1>0. Types /\ x \in Messages /\ key[x] \in Keys /\ WorkInv /\ Workers
  BY ArrivedAre DEF PlaceInv, WorkInv, TypeInv
<1>1. /\ key' = key /\ ~Over(x)
      /\ \A j \in Messages : j # x => pc'[j] = pc[j] /\ outcome'[j] = outcome[j] /\ loaded'[j] = loaded[j]
  BY <1>0, WorkerFrame
<1>2. Orderly' = Orderly /\ Arrived' = Arrived /\ \A m \in Arrived : m \in Messages /\ key[m] \in Keys
  BY <1>0, <1>1, ArrivedAre DEF Orderly, Arrived
<1>3. ASSUME Orderly, NEW m \in Arrived, Alone(key[m]) PROVE Placed(m)'
  <2>1. CASE m = x
    BY <1>3, <2>1, PlacedWork
  <2>2. CASE m # x /\ key[m] # key[x]
    <3>1. mem'[key[m]] = mem[key[m]] /\ disk'[Sanitize[key[m]]] = disk[Sanitize[key[m]]]
      BY <1>0, <1>2, <1>3, <2>2, OthersKept
    <3>2. Placed(m)
      BY <1>3 DEF PlaceInv, AllPlaced
    <3>3. pc'[m] = pc[m] /\ outcome'[m] = outcome[m] /\ loaded'[m] = loaded[m] /\ key'[m] = key[m]
      BY <1>1, <1>2, <2>2
    <3> QED BY <1>1, <3>1, <3>2, <3>3 DEF Placed, File
  <2>3. CASE m # x /\ key[m] = key[x]
    <3>1. Over(m) /\ pc'[m] = pc[m] /\ outcome'[m] = outcome[m]
      BY <1>0, <1>1, <1>2, <1>3, <2>3, OthersOver DEF Orderly
    <3>2. <<"user", m>> \notin Own(x)
      BY <2>3 DEF Own
    <3>3. /\ PartSet(mem'[key[m]]) \subseteq PartSet(mem[key[m]]) \cup Own(x)
          /\ PartSet(disk'[Sanitize[key[m]]]) \subseteq PartSet(disk[Sanitize[key[m]]]) \cup Own(x)
      BY <1>2, <1>3, <2>3, SoleAdds
    <3>4. pc[m] = "done" /\ outcome[m] = "rejected" => Without(mem[key[m]], m) /\ Without(disk[Sanitize[key[m]]], m)
      BY <1>3 DEF PlaceInv, AllPlaced, Placed, File
    <3>5. pc[m] = "done" /\ outcome[m] = "rejected" => Without(mem'[key[m]], m) /\ Without(disk'[Sanitize[key[m]]], m)
      BY <3>2, <3>3, <3>4 DEF Without
    <3> QED BY <1>1, <3>1, <3>5 DEF Placed, Over, File
  <2> QED BY <2>1, <2>2, <2>3
<1>4. ASSUME Orderly, NEW n \in Arrived, outcome'[n] = "new", Alone(key[n])
      PROVE  /\ pc'[n] \in {"new_file", "new_mark", "done"} => Clean(mem'[key[n]], n)
             /\ pc'[n] \in {"new_mark", "done"} => Clean(disk'[Sanitize[key[n]]], n)
  <2>1. CASE n = x
    <3>1. pc'[x] \in {"new", "new_file", "new_mark", "done", "lost"}
      <4>1. Workers'
        BY <1>0, WorkerGoesOn DEF WorkInv
      <4> QED BY <1>0, <1>4, <2>1, <4>1 DEF Workers, WorkerOK
    <3>2. CASE NewClear(x)
      <4>1. pc'[x] = "new_file" /\ mem'[key[x]] = <<>>
        BY <1>0, <3>2 DEF NewClear, Goto, Types
      <4> QED BY <2>1, <4>1 DEF Clean, PartSet
    <3>3. CASE NewDelete(x)
      <4>1. pc[x] = "new_file" /\ pc'[x] = "new_mark" /\ mem' = mem /\ disk'[Sanitize[key[x]]] = <<>> /\ outcome' = outcome
        BY <1>0, <1>1, <3>3, SettingIs DEF NewDelete, Deleted, Goto, Types, File
      <4>2. Clean(mem[key[n]], n)
        BY <1>4, <2>1, <4>1 DEF PlaceInv, Forgotten, File
      <4>3. Clean(<<>>, n)
        BY DEF Clean, PartSet
      <4> QED BY <2>1, <4>1, <4>2, <4>3
    <3>4. CASE NewMark(x)
      <4>1. pc[x] = "new_mark" /\ UNCHANGED <<mem, disk, outcome>>
        BY <3>4 DEF NewMark, Goto
      <4>2. Clean(mem[key[n]], n) /\ Clean(disk[Sanitize[key[n]]], n)
        BY <1>4, <2>1, <4>1 DEF PlaceInv, Forgotten, File
      <4> QED BY <1>1, <4>1, <4>2 DEF File
    <3>5. CASE ~(NewClear(x) \/ NewDelete(x) \/ NewMark(x))
      <4>1. outcome'[x] # "new"
        <5>1. ASSUME outcome' = outcome
              PROVE  outcome'[x] # "new"
          <6>1. pc[x] \in {"new", "new_file", "new_mark"} => FALSE
            BY <3>5 DEF Work, Drop, TakePending, ClearFresh, Persist, Remember, Read, Cancel, Answer, NoReply,
               Fail, Overflow, Reject, Ends, Strip, Compact, Rollback, Rewrite, Goto
          <6> QED BY <1>0, <1>1, <5>1, <6>1 DEF Workers, WorkerOK, Over
        <5>2. CASE Drop(x)
          BY <1>0, <5>2 DEF Drop, Types
        <5>3. CASE Cancel(x) \/ Answer(x) \/ NoReply(x) \/ Fail(x) \/ Overflow(x) \/ Reject(x)
          <6>1. PICK how, next, turns : Ending(x, how, next, turns) /\ Ends(x, how, next, turns)
            BY <5>3, EndsSomehow
          <6>2. how # "new"
            BY <6>1 DEF Ending
          <6>3. outcome'[x] = how
            BY <1>0, <6>1 DEF Ends, Types
          <6> QED BY <6>2, <6>3
        <5>4. CASE Rollback(x)
          <6>1. outcome' = outcome \/ outcome'[x] = "failed"
            BY <1>0, <5>4 DEF Rollback, Types
          <6> QED BY <5>1, <6>1
        <5>5. CASE \/ TakePending(x) \/ ClearFresh(x) \/ Persist(x) \/ Remember(x) \/ Read(x)
                   \/ Strip(x) \/ Compact(x) \/ Rewrite(x)
          <6>1. outcome' = outcome
            BY <5>5 DEF TakePending, ClearFresh, Persist, Remember, Read, Strip, Compact, Rewrite
          <6> QED BY <5>1, <6>1
        <5> QED BY <3>5, <5>2, <5>3, <5>4, <5>5 DEF Work
      <4> QED BY <1>4, <2>1, <4>1
    <3> QED BY <3>2, <3>3, <3>4, <3>5
  <2>2. CASE n # x /\ key[n] # key[x]
    <3>1. mem'[key[n]] = mem[key[n]] /\ disk'[Sanitize[key[n]]] = disk[Sanitize[key[n]]]
      BY <1>0, <1>2, <1>4, <2>2, OthersKept
    <3>2. pc'[n] = pc[n] /\ outcome'[n] = outcome[n]
      BY <1>1, <1>2, <2>2
    <3> QED BY <1>4, <3>1, <3>2 DEF PlaceInv, Forgotten, File
  <2>3. CASE n # x /\ key[n] = key[x]
    <3>1. Over(n) /\ pc'[n] = pc[n] /\ outcome'[n] = outcome[n]
      BY <1>0, <1>1, <1>2, <1>4, <2>3, OthersOver DEF Orderly
    <3>2. n < x
      <4>1. ~(x < n)
        BY <1>0, <1>1, <1>4, <2>3 DEF WorkInv, Serial, Orderly
      <4> QED BY <2>3, <4>1 DEF Arrived
    <3>3. /\ PartSet(mem'[key[n]]) \subseteq PartSet(mem[key[n]]) \cup Own(x)
          /\ PartSet(disk'[Sanitize[key[n]]]) \subseteq PartSet(disk[Sanitize[key[n]]]) \cup Own(x)
      BY <1>2, <1>4, <2>3, SoleAdds
    <3>4. \A m \in Arrived : m < n => Own(x) \cap Own(m) = {}
      BY <3>2 DEF Own, Arrived
    <3>5. /\ Clean(mem[key[n]], n) => Clean(mem'[key[n]], n)
          /\ Clean(disk[Sanitize[key[n]]], n) => Clean(disk'[Sanitize[key[n]]], n)
      BY <3>3, <3>4 DEF Clean
    <3> QED BY <1>4, <3>1, <3>5 DEF PlaceInv, Forgotten, File
  <2> QED BY <2>1, <2>2, <2>3
<1>5. AllPlaced'
  BY <1>1, <1>2, <1>3 DEF AllPlaced, Alone
<1>6. Forgotten'
  <2>1. \A s, n : Clean(s, n)' <=> \A m \in Arrived : m < n /\ key[m] = key[n] => PartSet(s') \cap Own(m) = {}
    BY <1>1, <1>2 DEF Clean, Own, PartSet
  <2> QED BY <1>1, <1>2, <1>4 DEF Forgotten, Alone, Clean, File
<1> QED BY <1>5, <1>6

\* and so do an arrival
LEMMA PlaceArrive ==
  ASSUME PlaceInv, NEW k \in Keys, NEW first \in {"begin", "new"}, Arrive(k, first), setting' = setting
  PROVE  AllPlaced' /\ Forgotten'
<1>0. PICK n : n = Len(key) + 1
  OBVIOUS
<1>1. /\ n \in Messages /\ n \notin Arrived /\ Arrived' = Arrived \cup {n}
      /\ key'[n] = k /\ \A m \in Arrived : key'[m] = key[m]
      /\ pc[n] = "none" /\ pc'[n] = first /\ outcome'[n] = IF first = "new" THEN "new" ELSE "none"
      /\ \A j \in Messages : j # n => pc'[j] = pc[j] /\ outcome'[j] = outcome[j]
      /\ ~setting.overlap => \A m \in Arrived : key[m] = k => Over(m)
      /\ UNCHANGED <<mem, disk, pending, out, view, loaded, restarts>>
  BY <1>0, ArriveIs DEF PlaceInv
<1>2. Types /\ \A m \in Arrived : m \in Messages /\ m < n /\ Sanitize[key[m]] \in Keys /\ key[m] \in Keys
  <2>1. Types
    BY DEF PlaceInv, WorkInv, TypeInv
  <2>2. \A m \in Arrived : m < n
    BY <1>0, <2>1 DEF Arrived, Types
  <2> QED BY <2>1, <2>2, ArrivedAre
<1>3. n # Closure
  <2>1. Len(key) \in Nat
    BY <1>2 DEF Types
  <2> QED BY <1>0, <2>1 DEF Closure
<1>4. Placed(n)'
  <2>1. PartSet(mem[k]) \subseteq Heard /\ PartSet(disk[Sanitize[k]]) \subseteq Heard
    BY <1>2, SettingIs DEF PlaceInv, Known, Types
  <2>2. <<"user", n>> \notin Heard
    BY <1>1, <1>3 DEF Heard
  <2>3. Without(mem[k], n) /\ Without(disk[Sanitize[k]], n)
    BY <2>1, <2>2 DEF Without
  <2> QED BY <1>1, <2>3 DEF Placed, File
<1>5. ASSUME NEW m \in Arrived, Placed(m) PROVE Placed(m)'
  <2>1. /\ key'[m] = key[m] /\ pc'[m] = pc[m] /\ outcome'[m] = outcome[m]
        /\ loaded'[m] = loaded[m] /\ mem' = mem /\ disk' = disk
    BY <1>1, <1>2
  <2> QED BY <1>5, <2>1 DEF Placed, File
<1>6. AllPlaced'
  BY <1>1, <1>4, <1>5 DEF PlaceInv, AllPlaced, Orderly, Alone
<1>7. ASSUME NEW j \in Arrived, NEW turns, Clean(turns, j) PROVE Clean(turns, j)'
  <2>1. \A m \in Arrived' : m < j => m \in Arrived
    <3>1. j < n /\ n \in Nat
      BY <1>1, <1>2 DEF Messages
    <3> QED BY <1>1, <3>1 DEF Arrived
  <2>2. \A m \in Arrived : key'[m] = key[m]
    BY <1>1
  <2> QED BY <1>7, <2>1, <2>2 DEF Clean, Own
<1>8. Forgotten'
  <2> SUFFICES ASSUME Orderly, NEW j \in Arrived', outcome'[j] = "new", Alone(key'[j])
               PROVE  /\ pc'[j] \in {"new_file", "new_mark", "done"} => Clean(mem[key[j]], j)'
                      /\ pc'[j] \in {"new_mark", "done"} => Clean(File(key[j]), j)'
    BY <1>1 DEF Forgotten, Orderly, Alone
  <2>1. CASE j = n
    BY <1>1, <2>1
  <2>2. CASE j # n
    <3>1. j \in Arrived /\ key'[j] = key[j] /\ pc'[j] = pc[j] /\ outcome'[j] = outcome[j]
          /\ mem' = mem /\ disk' = disk
      BY <1>1, <1>2, <2>2
    <3>2. /\ pc[j] \in {"new_file", "new_mark", "done"} => Clean(mem[key[j]], j)
          /\ pc[j] \in {"new_mark", "done"} => Clean(disk[Sanitize[key[j]]], j)
      BY <3>1 DEF PlaceInv, Forgotten, File
    <3>3. \A turns : Clean(turns, j) => \A m \in Arrived' : m < j /\ key'[m] = key'[j] => PartSet(turns) \cap Own(m) = {}
      BY <1>7, <3>1 DEF Clean, Own
    <3> QED BY <3>1, <3>2, <3>3 DEF Clean, File, Own, PartSet
  <2> QED BY <2>1, <2>2
<1> QED BY <1>6, <1>8

\* and a restart.
LEMMA PlaceRestart ==
  ASSUME PlaceInv, Restart, setting' = setting
  PROVE  AllPlaced' /\ Forgotten'
<1>1. /\ \A m \in Messages : pc'[m] = IF pc[m] \in {"none", "done"} THEN pc[m] ELSE "lost"
      /\ UNCHANGED <<key, out, view, loaded, outcome>>
      /\ mem' = [k \in Keys |-> Hydrated(disk[k])]
  BY DEF Restart
<1>2. Types /\ \A m \in Arrived : m \in Messages /\ key[m] \in Keys /\ m # Closure
  <2>1. Types
    BY DEF PlaceInv, WorkInv, TypeInv
  <2>2. \A m \in Arrived : m # Closure
    BY DEF Arrived, Closure
  <2> QED BY <2>1, <2>2, ArrivedAre
<1>3. ASSUME NEW k \in Keys, Alone(k)
      PROVE  /\ PartSet(mem'[k]) \subseteq PartSet(disk[Sanitize[k]]) \cup {<<"assistant", Closure>>}
             /\ PartSet(disk'[Sanitize[k]]) \subseteq PartSet(disk[Sanitize[k]]) \cup {<<"assistant", Closure>>}
  <2>1. Sanitize[k] = k /\ disk[k] \in Seq(Turns)
    BY <1>2, <1>3, AloneIs DEF Types
  <2>2. PICK t : t = Reply(Closure)
    OBVIOUS
  <2>3. t \in Turns /\ Range(t.parts) = {<<"assistant", Closure>>}
    BY <2>2, TurnsAre, TurnParts DEF Roles
  <2>4. PartSet(Hydrated(disk[k])) \subseteq PartSet(disk[k]) \cup Range(t.parts)
    BY <2>1, <2>2, HydratedIs
  <2>5. PartSet(Append(disk[k], t)) = PartSet(disk[k]) \cup Range(t.parts)
    BY <2>1, <2>3, PartSetOf
  <2>6. disk'[k] = disk[k] \/ disk'[k] = Append(disk[k], t)
    BY <2>2 DEF Restart
  <2> QED BY <1>1, <2>1, <2>3, <2>4, <2>5, <2>6
<1>4. AllPlaced'
  <2> SUFFICES ASSUME Orderly, NEW m \in Arrived, Alone(key[m]) PROVE Placed(m)'
    BY <1>1 DEF AllPlaced, Orderly, Arrived, Alone
  <2>1. pc'[m] \in {"none", "done", "lost"} /\ (pc'[m] = "done" => pc[m] = "done") /\ outcome'[m] = outcome[m]
    BY <1>1, <1>2
  <2>2. pc[m] = "done" /\ outcome[m] = "rejected" =>
          Without(mem[key[m]], m) /\ Without(disk[Sanitize[key[m]]], m)
    BY DEF PlaceInv, AllPlaced, Placed, File
  <2>3. <<"user", m>> # <<"assistant", Closure>>
    OBVIOUS
  <2>4. pc[m] = "done" /\ outcome[m] = "rejected" =>
          Without(mem'[key[m]], m) /\ Without(disk'[Sanitize[key[m]]], m)
    BY <1>2, <1>3, <2>2, <2>3 DEF Without
  <2> QED BY <1>1, <2>1, <2>4 DEF Placed, File
<1>5. Forgotten'
  <2> SUFFICES ASSUME Orderly, NEW n \in Arrived, outcome[n] = "new", Alone(key[n]),
                      pc'[n] \in {"new_file", "new_mark", "done"},
                      NEW m \in Arrived, m < n, key[m] = key[n]
               PROVE  PartSet(mem'[key[n]]) \cap Own(m) = {} /\ PartSet(disk'[Sanitize[key[n]]]) \cap Own(m) = {}
    <3>1. \A turns, n : Clean(turns, n)' <=>
             \A m \in Arrived : m < n /\ key[m] = key[n] => PartSet(turns') \cap Own(m) = {}
      BY <1>1 DEF Clean, Own, Arrived, PartSet
    <3> QED BY <1>1, <3>1 DEF Forgotten, Orderly, Arrived, Alone, File
  <2>1. pc[n] = "done"
    BY <1>1, <1>2
  <2>2. Clean(disk[Sanitize[key[n]]], n)
    BY <2>1 DEF PlaceInv, Forgotten, File
  <2>3. PartSet(disk[Sanitize[key[n]]]) \cap Own(m) = {}
    BY <2>2 DEF Clean
  <2>4. <<"assistant", Closure>> \notin Own(m)
    BY <1>2 DEF Own
  <2> QED BY <1>2, <1>3, <2>3, <2>4
<1> QED BY <1>4, <1>5

\* Every step keeps it.
LEMMA PlaceStep == PlaceInv /\ [Next]_vars => PlaceInv'
<1> SUFFICES ASSUME PlaceInv, [Next]_vars PROVE PlaceInv'
  OBVIOUS
<1>1. WorkInv' /\ Known'
  BY WorkStep, KnownStep DEF PlaceInv
<1>2. CASE UNCHANGED vars
  <2>1. AllPlaced'
    <3>1. \A m : Placed(m)' <=> Placed(m)
      BY <1>2 DEF vars, Placed, File
    <3>2. Orderly' = Orderly /\ Arrived' = Arrived /\ key' = key
      BY <1>2 DEF vars, Orderly, Arrived
    <3> QED BY <3>1, <3>2 DEF PlaceInv, AllPlaced, Alone
  <2>2. Forgotten'
    <3>1. Orderly' = Orderly /\ Arrived' = Arrived /\ UNCHANGED <<key, mem, disk, pc, outcome>>
      BY <1>2 DEF vars, Orderly, Arrived
    <3>2. \A turns, n : Clean(turns, n)' <=>
             \A m \in Arrived : m < n /\ key[m] = key[n] => PartSet(turns') \cap Own(m) = {}
      BY <3>1 DEF Clean, Own, PartSet
    <3> SUFFICES ASSUME Orderly, NEW n \in Arrived, outcome[n] = "new", Alone(key[n])
                 PROVE  /\ pc[n] \in {"new_file", "new_mark", "done"} => Clean(mem[key[n]], n)
                        /\ pc[n] \in {"new_mark", "done"} => Clean(disk[Sanitize[key[n]]], n)
      BY <3>1, <3>2 DEF Forgotten, Orderly, Alone, File, Clean
    <3> QED BY DEF PlaceInv, Forgotten, File
  <2> QED BY <1>1, <2>1, <2>2 DEF PlaceInv
<1>3. AllPlaced' /\ Forgotten' => PlaceInv'
  BY <1>1 DEF PlaceInv
<1> QED BY <1>2, <1>3, Steps, PlaceArrive, PlaceWork, PlaceRestart

\* It holds at the start.
LEMMA PlaceInit == Init => PlaceInv
<1> SUFFICES ASSUME Init PROVE PlaceInv
  OBVIOUS
<1>1. WorkInv /\ Known
  BY WorkInit, KnownInit
<1>2. AllPlaced /\ Forgotten
  <2>1. Arrived = {}
    BY DEF Init, Arrived
  <2> QED BY <2>1 DEF AllPlaced, Forgotten
<1> QED BY <1>1, <1>2 DEF PlaceInv

\* After /new nothing said before it is left, in memory or in the file.
THEOREM NewForgetsAll == Spec => []NewForgets
<1>1. PlaceInv => NewForgets
  <2> SUFFICES ASSUME PlaceInv, Orderly, NEW n \in Arrived, pc[n] = "done", outcome[n] = "new", Alone(key[n]),
                      NEW m \in 1 .. n - 1, key[m] = key[n], NEW r \in Roles
               PROVE  ~Has(mem[key[n]], r, m) /\ ~Has(File(key[n]), r, m)
    BY DEF NewForgets
  <2>1. Clean(mem[key[n]], n) /\ Clean(File(key[n]), n)
    BY DEF PlaceInv, Forgotten
  <2>2. m \in Arrived /\ m < n
    BY DEF Arrived
  <2>3. <<r, m>> \in Own(m)
    BY DEF Own
  <2> QED BY <2>1, <2>2, <2>3, HasIs DEF Clean
<1> QED BY <1>1, PlaceInit, PlaceStep, PTL DEF Spec

\* What the places say of messages that were rolled back.
LEMMA PlaceGone == PlaceInv => (Orderly => RolledBackGone)
<1> SUFFICES ASSUME PlaceInv, Orderly, NEW m \in Arrived, pc[m] = "done", outcome[m] = "rejected", Alone(key[m])
             PROVE  ~Has(mem[key[m]], "user", m) /\ ~Has(File(key[m]), "user", m)
  BY DEF RolledBackGone
<1>1. Without(mem[key[m]], m) /\ Without(File(key[m]), m)
  BY DEF PlaceInv, AllPlaced, Placed
<1> QED BY <1>1, HasIs DEF Without

\* A request that was rolled back is gone from memory and from the file, when the
\* messages of a conversation come one at a time and every append reaches its file.
THEOREM RolledBackForGood == Spec => [](Orderly => RolledBackGone)
BY PlaceGone, PlaceInit, PlaceStep, PTL DEF Spec

-----------------------------------------------------------------------------
(* Closed requests: what is done to a conversation does not open them.       *)

\* An assistant has spoken.
Replied(parts) == \E a \in DOMAIN parts : parts[a][1] = "assistant"

\* After every request of m in parts an assistant speaks.
Shut(parts, m) ==
  \A a \in DOMAIN parts : parts[a] = <<"user", m>> =>
    \E b \in DOMAIN parts : b > a /\ parts[b][1] = "assistant"

\* The same of turns, and of the first n of them.
ClosedIn(turns, m) ==
  \A i \in DOMAIN turns : Shut(turns[i].parts, m) \/ \E j \in DOMAIN turns : j > i /\ Replied(turns[j].parts)
ClosedUpTo(turns, n, m) ==
  \A i \in 1 .. n : Shut(turns[i].parts, m) \/ \E j \in 1 .. n : j > i /\ Replied(turns[j].parts)

\* One turn, and two runs of parts.
LEMMA PartsOfTurns ==
  ASSUME NEW role, NEW n, NEW m
  PROVE  /\ Replied(Turn(role, n).parts) <=> role = "assistant"
         /\ Shut(Turn(role, n).parts, m) <=> role # "user" \/ n # m
<1>1. PICK p : p = <<role, n>>
  OBVIOUS
<1>2. Turn(role, n).parts = <<p>>
  BY <1>1 DEF Turn
<1>3. DOMAIN <<p>> = {1} /\ <<p>>[1] = p
  OBVIOUS
<1>4. p[1] = role /\ (p = <<"user", m>> <=> role = "user" /\ n = m)
  BY <1>1
<1> QED BY <1>2, <1>3, <1>4 DEF Replied, Shut

\* The parts of two turns.
LEMMA PartsTogether ==
  ASSUME NEW p \in Seq(Part), NEW q \in Seq(Part), NEW m
  PROVE  /\ Replied(p \o q) <=> Replied(p) \/ Replied(q)
         /\ Shut(q, m) /\ (Shut(p, m) \/ Replied(q)) => Shut(p \o q, m)
<1>1. Len(p) \in Nat /\ Len(q) \in Nat /\ DOMAIN p = 1 .. Len(p) /\ DOMAIN q = 1 .. Len(q)
  OBVIOUS
<1>2. PICK w : w = p \o q
  OBVIOUS
<1>3. w \in Seq(Part) /\ DOMAIN w = 1 .. Len(p) + Len(q)
  BY <1>2
<1>4. \A a \in 1 .. Len(p) : a \in DOMAIN w /\ w[a] = p[a]
  BY <1>1, <1>2
<1>5. \A a \in 1 .. Len(q) : Len(p) + a \in DOMAIN w /\ w[Len(p) + a] = q[a] /\ Len(p) + a > Len(p)
  BY <1>1, <1>2
<1>6. \A a \in DOMAIN w : a \in 1 .. Len(p) \/ (a > Len(p) /\ \E b \in 1 .. Len(q) : a = Len(p) + b /\ w[a] = q[b])
  <2> SUFFICES ASSUME NEW a \in DOMAIN w, a \notin 1 .. Len(p)
               PROVE  a > Len(p) /\ \E b \in 1 .. Len(q) : a = Len(p) + b /\ w[a] = q[b]
    OBVIOUS
  <2>1. a > Len(p) /\ a - Len(p) \in 1 .. Len(q) /\ a = Len(p) + (a - Len(p))
    BY <1>1, <1>3
  <2> QED BY <1>5, <2>1
<1>7. Replied(w) <=> Replied(p) \/ Replied(q)
  <2>1. ASSUME Replied(w) PROVE Replied(p) \/ Replied(q)
    <3>1. PICK a \in DOMAIN w : w[a][1] = "assistant"
      BY <2>1 DEF Replied
    <3>2. CASE a \in 1 .. Len(p)
      BY <1>1, <1>4, <3>1, <3>2 DEF Replied
    <3>3. CASE a \notin 1 .. Len(p)
      <4>1. PICK b \in 1 .. Len(q) : w[a] = q[b]
        BY <1>6, <3>3
      <4> QED BY <1>1, <3>1, <4>1 DEF Replied
    <3> QED BY <3>2, <3>3
  <2>2. ASSUME Replied(p) PROVE Replied(w)
    BY <1>1, <1>4, <2>2 DEF Replied
  <2>3. ASSUME Replied(q) PROVE Replied(w)
    <3>1. PICK a \in 1 .. Len(q) : q[a][1] = "assistant"
      BY <1>1, <2>3 DEF Replied
    <3>2. Len(p) + a \in DOMAIN w /\ w[Len(p) + a][1] = "assistant"
      BY <1>5, <3>1
    <3> QED BY <3>2 DEF Replied
  <2> QED BY <2>1, <2>2, <2>3
<1>8. ASSUME Shut(q, m), Shut(p, m) \/ Replied(q), NEW a \in DOMAIN w, w[a] = <<"user", m>>
      PROVE  \E b \in DOMAIN w : b > a /\ w[b][1] = "assistant"
  <2>1. CASE a \in 1 .. Len(p)
    <3>1. CASE Replied(q)
      <4>1. PICK b \in 1 .. Len(q) : q[b][1] = "assistant"
        BY <1>1, <3>1 DEF Replied
      <4>2. Len(p) + b > a
        BY <1>1, <2>1
      <4> QED BY <1>5, <4>1, <4>2
    <3>2. CASE Shut(p, m)
      <4>1. p[a] = <<"user", m>>
        BY <1>4, <1>8, <2>1
      <4>2. PICK b \in 1 .. Len(p) : b > a /\ p[b][1] = "assistant"
        BY <1>1, <2>1, <3>2, <4>1 DEF Shut
      <4> QED BY <1>4, <4>2
    <3> QED BY <1>8, <3>1, <3>2
  <2>2. CASE a \notin 1 .. Len(p)
    <3>1. PICK c \in 1 .. Len(q) : a = Len(p) + c /\ w[a] = q[c]
      BY <1>6, <2>2
    <3>2. PICK b \in 1 .. Len(q) : b > c /\ q[b][1] = "assistant"
      BY <1>1, <1>8, <3>1 DEF Shut
    <3>3. Len(p) + b > a
      BY <1>1, <3>1, <3>2
    <3> QED BY <1>5, <3>2, <3>3
  <2> QED BY <2>1, <2>2
<1>9. Shut(q, m) /\ (Shut(p, m) \/ Replied(q)) => Shut(w, m)
  BY <1>8 DEF Shut
<1> QED BY <1>2, <1>7, <1>9

\* What closes requests, or leaves them closed: one turn more,
LEMMA AppendCloses ==
  ASSUME NEW turns \in Seq(Turns), NEW t \in Turns, NEW m,
         Shut(t.parts, m), ClosedIn(turns, m) \/ Replied(t.parts)
  PROVE  ClosedIn(Append(turns, t), m)
<1>1. PICK s : s = Append(turns, t)
  OBVIOUS
<1>2. PICK n : n = Len(turns) + 1
  OBVIOUS
<1>3. /\ n \in Nat /\ n \in DOMAIN s /\ s[n] = t /\ DOMAIN s = 1 .. n /\ DOMAIN turns = 1 .. n - 1
      /\ \A i \in 1 .. n - 1 : i \in DOMAIN s /\ s[i] = turns[i] /\ n > i
  BY <1>1, <1>2
<1>4. \A i \in DOMAIN s : i \in 1 .. n - 1 \/ i = n
  BY <1>3
<1>5. ClosedIn(s, m)
  BY <1>3, <1>4 DEF ClosedIn
<1> QED BY <1>1, <1>5

\* the end of a conversation,
LEMMA LatestCloses ==
  ASSUME NEW turns \in Seq(Turns), NEW n \in Nat, NEW m, ClosedIn(turns, m)
  PROVE  ClosedIn(Latest(n, turns), m)
<1>1. PICK e : e = Latest(n, turns)
  OBVIOUS
<1>2. PICK d : d = Len(turns) - Len(e)
  OBVIOUS
<1>3. e \in Seq(Turns) /\ Len(e) <= Len(turns) /\ \A i \in DOMAIN e : e[i] = turns[d + i]
  BY <1>1, <1>2, LatestKeepsEnd
<1>4. d \in Nat /\ Len(turns) = d + Len(e) /\ Len(e) \in Nat
  BY <1>2, <1>3
<1>5. ASSUME NEW i \in DOMAIN e
      PROVE  Shut(e[i].parts, m) \/ \E j \in DOMAIN e : j > i /\ Replied(e[j].parts)
  <2>1. d + i \in DOMAIN turns /\ e[i] = turns[d + i]
    BY <1>3, <1>4
  <2>2. CASE \E j \in DOMAIN turns : j > d + i /\ Replied(turns[j].parts)
    <3>1. PICK j \in DOMAIN turns : j > d + i /\ Replied(turns[j].parts)
      BY <2>2
    <3>2. j - d \in DOMAIN e /\ j - d > i /\ d + (j - d) = j
      BY <1>3, <1>4, <3>1
    <3> QED BY <1>3, <3>1, <3>2
  <2> QED BY <2>1, <2>2 DEF ClosedIn
<1>6. ClosedIn(e, m)
  BY <1>5 DEF ClosedIn
<1> QED BY <1>1, <1>6

\* both of these,
LEMMA ExtendedCloses ==
  ASSUME setting \in Settings, NEW turns \in Seq(Turns), NEW t \in Turns, NEW m,
         Shut(t.parts, m), ClosedIn(turns, m) \/ Replied(t.parts)
  PROVE  ClosedIn(Extended(turns, t), m)
<1>1. PICK s : s = Append(turns, t)
  OBVIOUS
<1>2. s \in Seq(Turns)
  BY <1>1
<1>3. ClosedIn(s, m)
  BY <1>1, AppendCloses
<1>4. setting.maxHistory \in Nat
  BY SettingIs
<1> QED BY <1>1, <1>2, <1>3, <1>4, LatestCloses DEF Extended

\* a conversation without its last turn,
LEMMA FrontCloses ==
  ASSUME NEW turns \in Seq(Turns), turns # <<>>, NEW m, ClosedIn(turns, m), ~Replied(Last(turns).parts)
  PROVE  ClosedIn(Front(turns), m)
<1>1. PICK n : n = Len(turns)
  OBVIOUS
<1>2. n \in Nat /\ n >= 1 /\ DOMAIN turns = 1 .. n /\ Last(turns) = turns[n]
  BY <1>1 DEF Last
<1>3. DOMAIN Front(turns) = 1 .. n - 1 /\ \A i \in 1 .. n - 1 : Front(turns)[i] = turns[i]
  BY <1>1, <1>2 DEF Front
<1>4. \A i \in 1 .. n - 1 : i \in 1 .. n
  BY <1>2
<1>5. \A j \in 1 .. n : j \in 1 .. n - 1 \/ j = n
  BY <1>2
<1> QED BY <1>2, <1>3, <1>4, <1>5 DEF ClosedIn

\* The last of the first turns is closed in itself; unless it is a reply, those before
\* it are closed without it.
LEMMA ClosedOneByOne ==
  ASSUME NEW turns \in Seq(Turns), NEW k \in Nat, NEW m, ClosedUpTo(turns, k + 1, m)
  PROVE  /\ Shut(turns[k + 1].parts, m)
         /\ ClosedUpTo(turns, k, m) \/ Replied(turns[k + 1].parts)
<1>1. \A j \in 1 .. k + 1 : ~(j > k + 1) /\ (j \in 1 .. k \/ j = k + 1)
  OBVIOUS
<1>2. k + 1 \in 1 .. k + 1 /\ \A j \in 1 .. k : j \in 1 .. k + 1
  OBVIOUS
<1> QED BY <1>1, <1>2 DEF ClosedUpTo

\* All of a conversation are its first Len turns.
LEMMA AllUpTo ==
  ASSUME NEW turns \in Seq(Turns), NEW m
  PROVE  ClosedIn(turns, m) <=> ClosedUpTo(turns, Len(turns), m)
<1>1. DOMAIN turns = 1 .. Len(turns)
  OBVIOUS
<1> QED BY <1>1 DEF ClosedIn, ClosedUpTo

\* The last turn with parts after its own.
LEMMA MergedIs ==
  ASSUME NEW acc \in Made, NEW t \in Turns, acc.turns # <<>>,
         Merged(acc, t) = [acc EXCEPT !.turns[Len(acc.turns)].parts = @ \o t.parts]
  PROVE  LET n == Len(acc.turns)
             made == Merged(acc, t).turns
         IN  /\ n \in Nat /\ n >= 1 /\ DOMAIN acc.turns = 1 .. n /\ acc.turns[n] \in Turns
             /\ DOMAIN made = 1 .. n /\ \A i \in 1 .. n : i # n => made[i] = acc.turns[i]
             /\ made[n].role = acc.turns[n].role /\ made[n].parts = acc.turns[n].parts \o t.parts
             /\ Merged(acc, t).user = acc.user
<1> DEFINE n == Len(acc.turns)
<1>1. acc.turns \in Seq(Turns)
  BY DEF Made
<1>2. n \in Nat /\ n >= 1 /\ DOMAIN acc.turns = 1 .. n /\ acc.turns[n] \in Turns
  BY <1>1
<1>3. PICK w : w = acc.turns[n].parts \o t.parts
  OBVIOUS
<1>4. PICK u : u = [acc.turns[n] EXCEPT !.parts = w]
  OBVIOUS
<1>5. u.parts = w /\ u.role = acc.turns[n].role
  BY <1>2, <1>4 DEF Turns
<1>6. PICK s : s = [acc.turns EXCEPT ![n] = u]
  OBVIOUS
<1>7. Merged(acc, t).turns = s /\ Merged(acc, t).user = acc.user
  BY <1>3, <1>4, <1>6 DEF Made
<1>8. DOMAIN s = 1 .. n /\ s[n] = u /\ \A i \in 1 .. n : i # n => s[i] = acc.turns[i]
  BY <1>2, <1>6
<1> QED BY <1>2, <1>3, <1>5, <1>7, <1>8

\* a turn merged into another,
LEMMA MergedCloses ==
  ASSUME NEW acc \in Made, NEW t \in Turns, NEW m,
         Shut(t.parts, m), ClosedIn(acc.turns, m) \/ Replied(t.parts)
  PROVE  ClosedIn(Merged(acc, t).turns, m)
<1>1. acc.turns \in Seq(Turns) /\ t.parts \in Seq(Part)
  BY DEF Made, Turns, Part
<1>2. CASE Merged(acc, t).turns = Append(acc.turns, t)
  <2>1. PICK s : s = acc.turns
    OBVIOUS
  <2>2. ClosedIn(Append(s, t), m)
    BY <1>1, <2>1, AppendCloses
  <2> QED BY <1>2, <2>1, <2>2
<1>3. CASE acc.turns = <<>> /\ Merged(acc, t) = acc
  BY <1>3 DEF ClosedIn
<1>4. CASE acc.turns # <<>> /\ Merged(acc, t) = [acc EXCEPT !.turns[Len(acc.turns)].parts = @ \o t.parts]
  <2>1. PICK n, made : n = Len(acc.turns) /\ made = Merged(acc, t).turns
    OBVIOUS
  <2>2. /\ n \in Nat /\ n >= 1 /\ DOMAIN acc.turns = 1 .. n /\ acc.turns[n] \in Turns
        /\ DOMAIN made = 1 .. n /\ \A i \in 1 .. n : i # n => made[i] = acc.turns[i]
        /\ made[n].parts = acc.turns[n].parts \o t.parts
    BY <1>4, <2>1, MergedIs
  <2>3. PICK p : p = acc.turns[n].parts
    OBVIOUS
  <2>4. p \in Seq(Part) /\ made[n].parts = p \o t.parts
    BY <2>2, <2>3 DEF Turns, Part
  <2>5. Replied(made[n].parts) <=> Replied(p) \/ Replied(t.parts)
    BY <1>1, <2>4, PartsTogether
  <2>6. ClosedIn(acc.turns, m) => Shut(p, m)
    <3>1. n \in 1 .. n /\ \A j \in 1 .. n : ~(j > n)
      BY <2>2
    <3> QED BY <2>2, <2>3, <3>1 DEF ClosedIn
  <2>7. Shut(made[n].parts, m)
    BY <1>1, <2>4, <2>6, PartsTogether
  <2>8. ASSUME NEW i \in 1 .. n, i # n
        PROVE  Shut(made[i].parts, m) \/ \E j \in 1 .. n : j > i /\ Replied(made[j].parts)
    <3>1. n > i /\ n \in 1 .. n
      BY <2>2, <2>8
    <3>2. CASE Replied(t.parts)
      BY <2>5, <3>1, <3>2
    <3>3. CASE ClosedIn(acc.turns, m)
      <4>1. Shut(acc.turns[i].parts, m) \/ \E j \in 1 .. n : j > i /\ Replied(acc.turns[j].parts)
        BY <2>2, <3>3 DEF ClosedIn
      <4>2. \A j \in 1 .. n : Replied(acc.turns[j].parts) => Replied(made[j].parts)
        BY <2>2, <2>3, <2>5
      <4> QED BY <2>2, <2>8, <4>1, <4>2
    <3> QED BY <3>2, <3>3
  <2> QED BY <2>1, <2>2, <2>7, <2>8 DEF ClosedIn
<1> QED BY <1>2, <1>3, <1>4 DEF Merged

\* what is shown to the model,
LEMMA NormalizeCloses ==
  ASSUME NEW turns \in Seq(Turns), NEW m, ClosedIn(turns, m)
  PROVE  ClosedIn(Normalize(turns), m)
<1>1. PICK acc : MergedOver(acc, turns)
  BY MergedOneByOne
<1>2. /\ acc \in [0 .. Len(turns) -> Made] /\ acc[0] = Nothing /\ Normalize(turns) = acc[Len(turns)].turns
      /\ \A k \in 1 .. Len(turns) : acc[k] = Merged(acc[k - 1], turns[k])
  BY <1>1 DEF MergedOver
<1> DEFINE P == {k \in Nat : k <= Len(turns) /\ ClosedUpTo(turns, k, m) => ClosedIn(acc[k].turns, m)}
<1>3. 0 \in P
  BY <1>2 DEF Nothing, ClosedIn
<1>4. ASSUME NEW k \in Nat, k \in P PROVE k + 1 \in P
  <2> SUFFICES ASSUME k + 1 <= Len(turns), ClosedUpTo(turns, k + 1, m) PROVE ClosedIn(acc[k + 1].turns, m)
    OBVIOUS
  <2>1. k + 1 \in 1 .. Len(turns) /\ (k + 1) - 1 = k /\ k \in 0 .. Len(turns)
    BY <1>4
  <2>2. acc[k + 1] = Merged(acc[k], turns[k + 1]) /\ acc[k] \in Made /\ turns[k + 1] \in Turns
    BY <1>2, <2>1
  <2>3. /\ Shut(turns[k + 1].parts, m)
        /\ ClosedUpTo(turns, k, m) \/ Replied(turns[k + 1].parts)
    BY ClosedOneByOne
  <2>4. ClosedUpTo(turns, k, m) => ClosedIn(acc[k].turns, m)
    BY <1>4, <2>1
  <2>5. PICK v, t : v = acc[k] /\ t = turns[k + 1]
    OBVIOUS
  <2>6. ClosedIn(Merged(v, t).turns, m)
    BY <2>2, <2>3, <2>4, <2>5, MergedCloses
  <2> QED BY <2>2, <2>5, <2>6
<1> HIDE DEF P
<1>5. Nat \subseteq P
  BY <1>3, <1>4, SetInduction
<1>6. ClosedUpTo(turns, Len(turns), m) => ClosedIn(acc[Len(turns)].turns, m)
  BY <1>5 DEF P
<1> QED BY <1>2, <1>6, AllUpTo

\* leaving out turns in which no assistant speaks,
LEMMA OnlyCloses ==
  ASSUME NEW turns \in Seq(Turns), NEW S, NEW m, ClosedIn(turns, m),
         \A i \in DOMAIN turns : turns[i] \notin S => ~Replied(turns[i].parts)
  PROVE  ClosedIn(Only(turns, S), m)
<1>1. PICK acc : OnlyOver(acc, turns, S, Turns)
  BY OnlyOneByOne
<1>2. /\ acc \in [0 .. Len(turns) -> Seq(Turns)] /\ acc[0] = <<>> /\ Only(turns, S) = acc[Len(turns)]
      /\ \A k \in 1 .. Len(turns) : acc[k] = OnlyStep(acc[k - 1], turns[k], S)
  BY <1>1 DEF OnlyOver
<1> DEFINE P == {k \in Nat : k <= Len(turns) /\ ClosedUpTo(turns, k, m) => ClosedIn(acc[k], m)}
<1>3. 0 \in P
  BY <1>2 DEF ClosedIn
<1>4. ASSUME NEW k \in Nat, k \in P PROVE k + 1 \in P
  <2> SUFFICES ASSUME k + 1 <= Len(turns), ClosedUpTo(turns, k + 1, m) PROVE ClosedIn(acc[k + 1], m)
    OBVIOUS
  <2>1. k + 1 \in 1 .. Len(turns) /\ (k + 1) - 1 = k /\ k \in 0 .. Len(turns) /\ k + 1 \in DOMAIN turns
    BY <1>4
  <2>2. acc[k + 1] = OnlyStep(acc[k], turns[k + 1], S) /\ acc[k] \in Seq(Turns) /\ turns[k + 1] \in Turns
    BY <1>2, <2>1
  <2>3. /\ Shut(turns[k + 1].parts, m)
        /\ ClosedUpTo(turns, k, m) \/ Replied(turns[k + 1].parts)
    BY ClosedOneByOne
  <2>4. ClosedUpTo(turns, k, m) => ClosedIn(acc[k], m)
    BY <1>4, <2>1
  <2>5. PICK v, t : v = acc[k] /\ t = turns[k + 1]
    OBVIOUS
  <2>6. CASE t \in S
    <3>1. ClosedIn(Append(v, t), m)
      BY <2>2, <2>3, <2>4, <2>5, AppendCloses
    <3> QED BY <2>2, <2>5, <2>6, <3>1 DEF OnlyStep
  <2>7. CASE t \notin S
    BY <2>1, <2>2, <2>3, <2>4, <2>5, <2>7 DEF OnlyStep
  <2> QED BY <2>6, <2>7
<1> HIDE DEF P
<1>5. Nat \subseteq P
  BY <1>3, <1>4, SetInduction
<1>6. ClosedUpTo(turns, Len(turns), m) => ClosedIn(acc[Len(turns)], m)
  BY <1>5 DEF P
<1> QED BY <1>2, <1>6, AllUpTo

\* The rest of a conversation, after other turns that close what the first ones did.
LEMMA RestCloses ==
  ASSUME NEW turns \in Seq(Turns), NEW b \in 0 .. Len(turns), NEW kept \in Seq(Turns), NEW m,
         ClosedIn(turns, m), ClosedIn(SubSeq(turns, 1, b), m) => ClosedIn(kept, m)
  PROVE  ClosedIn(kept \o SubSeq(turns, b + 1, Len(turns)), m)
<1>1. PICK n, old, rest : n = Len(turns) /\ old = SubSeq(turns, 1, b) /\ rest = SubSeq(turns, b + 1, n)
  OBVIOUS
<1>2. n \in Nat /\ DOMAIN turns = 1 .. n /\ b \in Nat /\ b <= n
  BY <1>1
<1>3. DOMAIN old = 1 .. b /\ \A i \in 1 .. b : old[i] = turns[i]
  BY <1>1, <1>2
<1>4. rest \in Seq(Turns) /\ Len(rest) = n - b /\ \A i \in 1 .. n - b : rest[i] = turns[b + i]
  BY <1>1, <1>2
<1>5. PICK w, c : w = kept \o rest /\ c = Len(kept)
  OBVIOUS
<1>6. c \in Nat /\ DOMAIN kept = 1 .. c /\ DOMAIN w = 1 .. c + (n - b)
  <2>1. w \in Seq(Turns) /\ Len(w) = Len(kept) + Len(rest)
    <3>1. kept \in Seq(Turns) /\ rest \in Seq(Turns) /\ w = kept \o rest
      BY <1>4, <1>5
    <3>2. kept \o rest \in Seq(Turns) /\ Len(kept \o rest) = Len(kept) + Len(rest)
      BY <3>1
    <3> QED BY <3>1, <3>2
  <2>2. DOMAIN kept = 1 .. Len(kept) /\ Len(kept) \in Nat /\ DOMAIN w = 1 .. Len(w)
    BY <2>1
  <2> QED BY <1>4, <1>5, <2>1, <2>2
<1>7. \A i \in 1 .. c : i \in DOMAIN w /\ w[i] = kept[i]
  BY <1>2, <1>4, <1>5, <1>6
<1>8. \A i \in 1 .. n - b : c + i \in DOMAIN w /\ w[c + i] = turns[b + i] /\ c + i > c
  BY <1>2, <1>4, <1>5, <1>6
<1>9. CASE \E j \in 1 .. n - b : Replied(turns[b + j].parts)
  <2>1. PICK j \in 1 .. n - b : Replied(turns[b + j].parts)
    BY <1>9
  <2>2. ASSUME NEW i \in DOMAIN w
        PROVE  Shut(w[i].parts, m) \/ \E h \in DOMAIN w : h > i /\ Replied(w[h].parts)
    <3>1. CASE i \in 1 .. c
      <4>1. c + j > i
        BY <1>6, <2>1, <3>1
      <4> QED BY <1>8, <2>1, <4>1
    <3>2. CASE i \notin 1 .. c
      <4>1. i - c \in 1 .. n - b /\ i = c + (i - c)
        BY <1>2, <1>6, <3>2
      <4>2. PICK a : a = b + (i - c)
        OBVIOUS
      <4>3. a \in DOMAIN turns /\ w[i] = turns[a] /\ a > b
        BY <1>2, <1>8, <4>1, <4>2
      <4>4. CASE \E h \in DOMAIN turns : h > a /\ Replied(turns[h].parts)
        <5>1. PICK h \in DOMAIN turns : h > a /\ Replied(turns[h].parts)
          BY <4>4
        <5>2. h - b \in 1 .. n - b /\ b + (h - b) = h /\ c + (h - b) > i
          BY <1>2, <1>6, <4>1, <4>2, <4>3, <5>1
        <5> QED BY <1>8, <5>1, <5>2
      <4> QED BY <4>3, <4>4 DEF ClosedIn
    <3> QED BY <3>1, <3>2
  <2>3. ClosedIn(w, m)
    BY <2>2 DEF ClosedIn
  <2> QED BY <1>1, <1>5, <2>3
<1>10. CASE ~\E j \in 1 .. n - b : Replied(turns[b + j].parts)
  <2>1. ASSUME NEW j \in DOMAIN turns, Replied(turns[j].parts) PROVE j \in 1 .. b
    <3>1. CASE j > b
      <4>1. j - b \in 1 .. n - b /\ b + (j - b) = j
        BY <1>2, <3>1
      <4> QED BY <1>10, <2>1, <4>1
    <3> QED BY <1>2, <3>1
  <2>2. \A i \in 1 .. b : i \in DOMAIN turns
    BY <1>2
  <2>3. ClosedIn(old, m)
    BY <1>3, <2>1, <2>2 DEF ClosedIn
  <2>4. ClosedIn(kept, m)
    BY <1>1, <2>3
  <2>5. ASSUME NEW i \in DOMAIN w
        PROVE  Shut(w[i].parts, m) \/ \E h \in DOMAIN w : h > i /\ Replied(w[h].parts)
    <3>1. CASE i \in 1 .. c
      <4>1. Shut(kept[i].parts, m) \/ \E h \in 1 .. c : h > i /\ Replied(kept[h].parts)
        BY <1>6, <2>4, <3>1 DEF ClosedIn
      <4> QED BY <1>7, <3>1, <4>1
    <3>2. CASE i \notin 1 .. c
      <4>1. i - c \in 1 .. n - b /\ i = c + (i - c)
        BY <1>2, <1>6, <3>2
      <4>2. PICK a : a = b + (i - c)
        OBVIOUS
      <4>3. a \in DOMAIN turns /\ w[i] = turns[a] /\ a > b
        BY <1>2, <1>8, <4>1, <4>2
      <4>4. ~\E h \in DOMAIN turns : h > a /\ Replied(turns[h].parts)
        BY <1>2, <2>1, <4>3
      <4> QED BY <4>3, <4>4 DEF ClosedIn
    <3> QED BY <3>1, <3>2
  <2>6. ClosedIn(w, m)
    BY <2>5 DEF ClosedIn
  <2> QED BY <1>1, <1>5, <2>6
<1> QED BY <1>9, <1>10

\* What strip_old_tool_context leaves out of the first turns.
Texts(turns) == {t \in Range(turns) : t.role # "tool" /\ ~LooksLikeCall(t)}

\* What is left are texts, and all turns from the last kept request on.
LEMMA StrippedIs ==
  ASSUME NEW turns \in Seq(Turns)
  PROVE  \E b \in 0 .. Len(turns) :
           /\ Stripped(turns) = Only(SubSeq(turns, 1, b), Texts(turns)) \o SubSeq(turns, b + 1, Len(turns))
           /\ b = Len(turns) \/ (b \in DOMAIN turns /\ turns[b].role = "user")
<1> DEFINE users == {i \in DOMAIN turns : turns[i].role = "user"}
           older == {i \in users : Cardinality({j \in users : j > i}) = KeepTools}
           b == Protected(turns)
<1>1. b = IF older = {} THEN Len(turns) ELSE CHOOSE i \in older : TRUE
  BY DEF Protected
<1>2. \A i \in older : i \in DOMAIN turns /\ turns[i].role = "user"
  OBVIOUS
<1>3. Stripped(turns) = Only(SubSeq(turns, 1, b), Texts(turns)) \o SubSeq(turns, b + 1, Len(turns))
  BY DEF Stripped, Texts
<1> HIDE DEF older, b
<1>4. b = Len(turns) \/ b \in older
  BY <1>1
<1>5. b \in 0 .. Len(turns)
  BY <1>2, <1>4
<1> QED BY <1>2, <1>3, <1>4, <1>5

\* and so stripping tool turns.
LEMMA StrippedCloses ==
  ASSUME NEW turns \in Seq(Turns), NEW m, ClosedIn(turns, m),
         \A i \in DOMAIN turns : turns[i].role = "tool" \/ LooksLikeCall(turns[i]) => ~Replied(turns[i].parts)
  PROVE  ClosedIn(Stripped(turns), m)
<1>1. PICK b \in 0 .. Len(turns) :
        Stripped(turns) = Only(SubSeq(turns, 1, b), Texts(turns)) \o SubSeq(turns, b + 1, Len(turns))
  BY StrippedIs
<1>2. PICK old, S, kept : old = SubSeq(turns, 1, b) /\ S = Texts(turns) /\ kept = Only(old, S)
  OBVIOUS
<1>3. old \in Seq(Turns) /\ DOMAIN old = 1 .. b /\ \A i \in 1 .. b : i \in DOMAIN turns /\ old[i] = turns[i]
  BY <1>2
<1>4. \A i \in DOMAIN old : old[i] \notin S => ~Replied(old[i].parts)
  <2>1. \A i \in DOMAIN turns : turns[i] \in Range(turns)
    BY DEF Range
  <2> QED BY <1>2, <1>3, <2>1 DEF Texts
<1>5. ClosedIn(old, m) => ClosedIn(kept, m)
  BY <1>2, <1>3, <1>4, OnlyCloses
<1>6. kept \in Seq(Turns)
  BY <1>2, <1>3, OnlyLeavesOut
<1>7. ClosedIn(kept \o SubSeq(turns, b + 1, Len(turns)), m)
  BY <1>2, <1>5, <1>6, RestCloses
<1> QED BY <1>1, <1>2, <1>7

\* Requests that are closed turn by turn are closed in what is spoken.
LEMMA PartsShut ==
  ASSUME NEW turns \in Seq(Turns), NEW m, ClosedIn(turns, m)
  PROVE  Parts(turns) \in Seq(Part) /\ Shut(Parts(turns), m)
<1>1. PICK acc : PartsOver(acc, turns)
  BY PartsOneByOne
<1>2. /\ acc \in [0 .. Len(turns) -> Seq(Part)] /\ acc[0] = <<>> /\ Parts(turns) = acc[Len(turns)]
      /\ \A k \in 1 .. Len(turns) : acc[k] = PartsStep(acc[k - 1], turns[k])
  BY <1>1 DEF PartsOver
<1> DEFINE P == {k \in Nat : k <= Len(turns) /\ ClosedUpTo(turns, k, m) => Shut(acc[k], m)}
<1>3. 0 \in P
  BY <1>2 DEF Shut
<1>4. ASSUME NEW k \in Nat, k \in P PROVE k + 1 \in P
  <2> SUFFICES ASSUME k + 1 <= Len(turns), ClosedUpTo(turns, k + 1, m) PROVE Shut(acc[k + 1], m)
    OBVIOUS
  <2>1. k + 1 \in 1 .. Len(turns) /\ (k + 1) - 1 = k /\ k \in 0 .. Len(turns) /\ k + 1 \in DOMAIN turns
    BY <1>4
  <2>2. acc[k + 1] = PartsStep(acc[k], turns[k + 1]) /\ acc[k] \in Seq(Part) /\ turns[k + 1] \in Turns
    BY <1>2, <2>1
  <2>3. /\ Shut(turns[k + 1].parts, m)
        /\ ClosedUpTo(turns, k, m) \/ Replied(turns[k + 1].parts)
    BY ClosedOneByOne
  <2>4. ClosedUpTo(turns, k, m) => Shut(acc[k], m)
    BY <1>4, <2>1
  <2>5. PICK v, p : v = acc[k] /\ p = turns[k + 1].parts
    OBVIOUS
  <2>6. v \in Seq(Part) /\ p \in Seq(Part) /\ Shut(p, m) /\ (Shut(v, m) \/ Replied(p))
    BY <2>2, <2>3, <2>4, <2>5 DEF Turns, Part
  <2>7. Shut(v \o p, m)
    BY <2>6, PartsTogether
  <2> QED BY <2>2, <2>5, <2>7 DEF PartsStep
<1> HIDE DEF P
<1>5. Nat \subseteq P
  BY <1>3, <1>4, SetInduction
<1>6. ClosedUpTo(turns, Len(turns), m) => Shut(acc[Len(turns)], m)
  BY <1>5 DEF P
<1>7. Len(turns) \in 0 .. Len(turns)
  OBVIOUS
<1> QED BY <1>2, <1>6, <1>7, AllUpTo

\* Leaving out parts that are no replies,
LEMMA OnlyShut ==
  ASSUME NEW p \in Seq(Part), NEW S, NEW m, Shut(p, m),
         \A x \in Part : x[1] = "assistant" => x \in S
  PROVE  Shut(Only(p, S), m)
<1>1. PICK acc : OnlyOver(acc, p, S, Part)
  BY OnlyOneByOne
<1>2. /\ acc \in [0 .. Len(p) -> Seq(Part)] /\ acc[0] = <<>> /\ Only(p, S) = acc[Len(p)]
      /\ \A k \in 1 .. Len(p) : acc[k] = OnlyStep(acc[k - 1], p[k], S)
  BY <1>1 DEF OnlyOver
<1> DEFINE Upto(k) == \A a \in 1 .. k : p[a] = <<"user", m>> => \E b \in 1 .. k : b > a /\ p[b][1] = "assistant"
           P == {k \in Nat : k <= Len(p) /\ Upto(k) => Shut(acc[k], m)}
<1>3. 0 \in P
  BY <1>2 DEF Shut
<1>4. ASSUME NEW k \in Nat, k \in P PROVE k + 1 \in P
  <2> SUFFICES ASSUME k + 1 <= Len(p), Upto(k + 1) PROVE Shut(acc[k + 1], m)
    OBVIOUS
  <2>1. k + 1 \in 1 .. Len(p) /\ (k + 1) - 1 = k /\ k \in 0 .. Len(p) /\ k <= Len(p)
    BY <1>4
  <2>2. acc[k + 1] = OnlyStep(acc[k], p[k + 1], S) /\ acc[k] \in Seq(Part) /\ p[k + 1] \in Part
    BY <1>2, <2>1
  <2>3. p[k + 1] # <<"user", m>> /\ (Upto(k) \/ p[k + 1][1] = "assistant")
    <3>1. \A j \in 1 .. k + 1 : ~(j > k + 1) /\ (j \in 1 .. k \/ j = k + 1)
      BY <1>4
    <3>2. k + 1 \in 1 .. k + 1 /\ \A j \in 1 .. k : j \in 1 .. k + 1
      BY <1>4
    <3> QED BY <3>1, <3>2
  <2>4. Upto(k) => Shut(acc[k], m)
    BY <1>4, <2>1
  <2> HIDE DEF Upto
  <2>5. PICK v, x : v = acc[k] /\ x = p[k + 1]
    OBVIOUS
  <2>6. v \in Seq(Part) /\ x \in Part /\ x # <<"user", m>> /\ (Shut(v, m) \/ x[1] = "assistant")
    BY <2>2, <2>3, <2>4, <2>5
  <2>7. CASE x \in S
    <3>1. PICK q : q = <<x>>
      OBVIOUS
    <3>2. q \in Seq(Part) /\ DOMAIN q = {1} /\ q[1] = x
      BY <2>6, <3>1
    <3>3. Shut(q, m) /\ (x[1] = "assistant" => Replied(q))
      BY <2>6, <3>2 DEF Shut, Replied
    <3>4. Shut(v \o q, m)
      BY <2>6, <3>2, <3>3, PartsTogether
    <3>5. v \o q = Append(v, x)
      BY <2>6, <3>1
    <3> QED BY <2>2, <2>5, <2>7, <3>4, <3>5 DEF OnlyStep
  <2>8. CASE x \notin S
    BY <2>2, <2>5, <2>6, <2>8 DEF OnlyStep
  <2> QED BY <2>7, <2>8
<1> HIDE DEF P
<1>5. Nat \subseteq P
  BY <1>3, <1>4, SetInduction
<1>6. Upto(Len(p)) => Shut(acc[Len(p)], m)
  <2> HIDE DEF Upto
  <2>1. Len(p) \in Nat /\ Len(p) <= Len(p)
    OBVIOUS
  <2>2. Len(p) \in P
    BY <1>5, <2>1
  <2> QED BY <2>1, <2>2 DEF P
<1>7. Upto(Len(p))
  <2>1. DOMAIN p = 1 .. Len(p)
    OBVIOUS
  <2> QED BY <2>1 DEF Shut
<1> QED BY <1>2, <1>6, <1>7

\* so closed requests are closed in what is spoken.
LEMMA SpokenShut ==
  ASSUME NEW turns \in Seq(Turns), NEW m, ClosedIn(turns, m)
  PROVE  Shut(Spoken(turns), m)
<1>1. PICK p : p = Parts(turns)
  OBVIOUS
<1>2. p \in Seq(Part) /\ Shut(p, m)
  BY <1>1, PartsShut
<1>3. PICK S : S = {"user", "assistant"} \X (Messages \cup {Closure})
  OBVIOUS
<1>4. \A x \in Part : x[1] = "assistant" => x \in S
  BY <1>3 DEF Part
<1>5. Shut(Only(p, S), m)
  BY <1>2, <1>4, OnlyShut
<1> QED BY <1>1, <1>3, <1>5 DEF Spoken

-----------------------------------------------------------------------------
(* The order of turns and what they may hold.                                *)

\* A request, or a call, is among parts.
Says(parts, role) == \E a \in DOMAIN parts : parts[a][1] = role
Asks(parts) == Says(parts, "user")
Calls(parts) == Says(parts, "call")

\* Nobody answers in a user's turn or in the result of a tool.
Mute(turns) == \A i \in DOMAIN turns : turns[i].role \in {"user", "tool"} => ~Replied(turns[i].parts)

\* A turn with a call holds calls only.
CallAlone(t) ==
  IF t.role = "call" THEN Calls(t.parts) /\ ~Replied(t.parts) /\ ~Asks(t.parts) ELSE ~Calls(t.parts)
CallsAlone(turns) == \A i \in DOMAIN turns : CallAlone(turns[i])

\* What may follow what, in memory and in files, when messages come one at a time.
Follows(r, s) ==
  /\ r \in {"user", "tool"} => s # "tool"
  /\ r = "call" => s \in {"tool", "user"}
  /\ r = "assistant" => s = "user"
Spaced(turns) == \A i \in 2 .. Len(turns) : Follows(turns[i - 1].role, turns[i].role)

\* No request is merged into the result of a tool; otherwise one is, or would be.
Unasked(turns) == \A i \in DOMAIN turns : turns[i].role = "tool" => ~Asks(turns[i].parts)
Tainted(turns) == Torn(turns) \/ ~Unasked(turns)

\* Every turn is as it was appended.
Single(turns) == \A i \in DOMAIN turns : \E role \in Roles, m \in Messages \cup {Closure} : turns[i] = Turn(role, m)

\* a has turns of b only; what follows each other in a does so in b.
From(a, b) == \A i \in DOMAIN a : \E j \in DOMAIN b : a[i] = b[j]
Along(a, b) == \A i \in 2 .. Len(a) : \E j \in 2 .. Len(b) : a[i - 1] = b[j - 1] /\ a[i] = b[j]

\* What is kept when turns are left out,
LEMMA FromKeeps ==
  ASSUME NEW a, NEW b, From(a, b)
  PROVE  /\ Mute(b) => Mute(a)
         /\ CallsAlone(b) => CallsAlone(a)
         /\ Single(b) => Single(a)
         /\ Unasked(b) => Unasked(a)
<1>1. Mute(b) => Mute(a)
  BY DEF From, Mute
<1>2. CallsAlone(b) => CallsAlone(a)
  BY DEF From, CallsAlone
<1>3. Single(b) => Single(a)
  BY DEF From, Single
<1>4. Unasked(b) => Unasked(a)
  BY DEF From, Unasked
<1> QED BY <1>1, <1>2, <1>3, <1>4

\* and when those that are left were neighbours.
LEMMA AlongKeeps ==
  ASSUME NEW a, NEW b, Along(a, b)
  PROVE  (Spaced(b) => Spaced(a)) /\ (Torn(a) => Torn(b))
<1>1. Spaced(b) => Spaced(a)
  BY DEF Along, Spaced
<1>2. Torn(a) => Torn(b)
  BY DEF Along, Torn
<1> QED BY <1>1, <1>2

\* The empty conversation.
LEMMA NothingIs ==
  /\ Mute(<<>>) /\ CallsAlone(<<>>) /\ Spaced(<<>>) /\ Single(<<>>) /\ ~Torn(<<>>) /\ ~Tainted(<<>>)
  /\ \A m : ClosedIn(<<>>, m)
<1>1. ~Torn(<<>>)
  BY DEF Torn
<1> QED BY <1>1 DEF Mute, CallsAlone, Spaced, Single, Tainted, Unasked, ClosedIn

\* The end of a conversation.
LEMMA LatestFrom ==
  ASSUME NEW turns \in Seq(Turns), NEW n \in Nat
  PROVE  From(Latest(n, turns), turns) /\ Along(Latest(n, turns), turns)
<1>1. PICK e : e = Latest(n, turns)
  OBVIOUS
<1>2. PICK d : d = Len(turns) - Len(e)
  OBVIOUS
<1>3. e \in Seq(Turns) /\ Len(e) <= Len(turns) /\ \A i \in DOMAIN e : e[i] = turns[d + i]
  BY <1>1, <1>2, LatestKeepsEnd
<1>4. d \in Nat /\ Len(turns) = d + Len(e) /\ Len(e) \in Nat
  BY <1>2, <1>3
<1>5. \A i \in DOMAIN e : d + i \in DOMAIN turns
  BY <1>3, <1>4
<1>6. From(e, turns)
  BY <1>3, <1>5 DEF From
<1>7. Along(e, turns)
  <2> SUFFICES ASSUME NEW i \in 2 .. Len(e)
               PROVE  \E j \in 2 .. Len(turns) : e[i - 1] = turns[j - 1] /\ e[i] = turns[j]
    BY DEF Along
  <2>1. i \in DOMAIN e /\ i - 1 \in DOMAIN e
    BY <1>3, <1>4
  <2>2. d + i \in 2 .. Len(turns) /\ (d + i) - 1 = d + (i - 1)
    BY <1>4
  <2> QED BY <1>3, <2>1, <2>2
<1> QED BY <1>1, <1>6, <1>7

\* All but the last turn.
LEMMA FrontFrom ==
  ASSUME NEW turns \in Seq(Turns), turns # <<>>
  PROVE  From(Front(turns), turns) /\ Along(Front(turns), turns)
<1>1. PICK n, f : n = Len(turns) /\ f = Front(turns)
  OBVIOUS
<1>2. n \in Nat /\ n >= 1 /\ DOMAIN turns = 1 .. n
  BY <1>1
<1>3. Len(f) = n - 1 /\ DOMAIN f = 1 .. n - 1 /\ \A i \in 1 .. n - 1 : f[i] = turns[i]
  BY <1>1, <1>2 DEF Front
<1>4. From(f, turns)
  BY <1>2, <1>3 DEF From
<1>5. Along(f, turns)
  <2> SUFFICES ASSUME NEW i \in 2 .. Len(f)
               PROVE  \E j \in 2 .. Len(turns) : f[i - 1] = turns[j - 1] /\ f[i] = turns[j]
    BY DEF Along
  <2>1. i \in 1 .. n - 1 /\ i - 1 \in 1 .. n - 1 /\ i \in 2 .. n
    BY <1>2, <1>3
  <2> QED BY <1>1, <1>3, <2>1
<1> QED BY <1>1, <1>4, <1>5

\* One turn more.
LEMMA AppendShape ==
  ASSUME NEW turns \in Seq(Turns), NEW t \in Turns
  PROVE  /\ Mute(turns) /\ (t.role \in {"user", "tool"} => ~Replied(t.parts)) => Mute(Append(turns, t))
         /\ Spaced(turns) /\ (turns # <<>> => Follows(Last(turns).role, t.role)) => Spaced(Append(turns, t))
         /\ Torn(Append(turns, t)) <=>
              Torn(turns) \/ (turns # <<>> /\ Last(turns).role = "tool" /\ t.role = "user")
         /\ CallsAlone(turns) /\ CallAlone(t) => CallsAlone(Append(turns, t))
         /\ Unasked(turns) /\ (t.role = "tool" => ~Asks(t.parts)) => Unasked(Append(turns, t))
         /\ Append(turns, t) \in Seq(Turns) /\ Append(turns, t) # <<>>
         /\ Last(Append(turns, t)) = t /\ Front(Append(turns, t)) = turns
<1>1. PICK s, n : s = Append(turns, t) /\ n = Len(turns) + 1
  OBVIOUS
<1>2. /\ n \in Nat /\ n >= 1 /\ s \in Seq(Turns) /\ Len(s) = n /\ DOMAIN s = 1 .. n /\ DOMAIN turns = 1 .. n - 1
      /\ Len(turns) = n - 1 /\ s[n] = t /\ \A i \in 1 .. n - 1 : s[i] = turns[i]
  BY <1>1
<1>3. \A i \in 1 .. n : i \in 1 .. n - 1 \/ i = n
  BY <1>2
<1>4. turns # <<>> => n >= 2 /\ n - 1 \in 1 .. n - 1 /\ Last(turns) = s[n - 1]
  BY <1>2 DEF Last
<1>5. Mute(turns) /\ (t.role \in {"user", "tool"} => ~Replied(t.parts)) => Mute(s)
  BY <1>2, <1>3 DEF Mute
<1>6. \A i \in 2 .. n : (i \in 2 .. n - 1 /\ i - 1 \in 1 .. n - 1 /\ i \in 1 .. n - 1) \/ (i = n /\ turns # <<>>)
  BY <1>2
<1>7. Spaced(turns) /\ (turns # <<>> => Follows(Last(turns).role, t.role)) => Spaced(s)
  BY <1>2, <1>4, <1>6 DEF Spaced
<1>8. Torn(s) <=> Torn(turns) \/ (turns # <<>> /\ Last(turns).role = "tool" /\ t.role = "user")
  <2>1. Torn(s) => Torn(turns) \/ (turns # <<>> /\ Last(turns).role = "tool" /\ t.role = "user")
    BY <1>2, <1>4, <1>6 DEF Torn
  <2>2. Torn(turns) => Torn(s)
    <3>1. \A i \in 2 .. n - 1 : i \in 2 .. n /\ i - 1 \in 1 .. n - 1 /\ i \in 1 .. n - 1
      BY <1>2
    <3> QED BY <1>2, <3>1 DEF Torn
  <2>3. turns # <<>> /\ Last(turns).role = "tool" /\ t.role = "user" => Torn(s)
    <3>1. turns # <<>> => n \in 2 .. n
      BY <1>2, <1>4
    <3> QED BY <1>2, <1>4, <3>1 DEF Torn
  <2> QED BY <2>1, <2>2, <2>3
<1>9. s # <<>> /\ Last(s) = t
  BY <1>2 DEF Last
<1>10. Front(s) = turns
  BY <1>1 DEF Front
<1>11. CallsAlone(turns) /\ CallAlone(t) => CallsAlone(s)
  BY <1>2, <1>3 DEF CallsAlone
<1>12. Unasked(turns) /\ (t.role = "tool" => ~Asks(t.parts)) => Unasked(s)
  BY <1>2, <1>3 DEF Unasked
<1> QED BY <1>1, <1>2, <1>5, <1>7, <1>8, <1>9, <1>10, <1>11, <1>12

\* A conversation is its last turn after the others.
LEMMA FrontAndLast ==
  ASSUME NEW turns \in Seq(Turns), turns # <<>>
  PROVE  Front(turns) \in Seq(Turns) /\ Last(turns) \in Turns /\ turns = Append(Front(turns), Last(turns))
<1>1. PICK n : n = Len(turns)
  OBVIOUS
<1>2. n \in Nat /\ n >= 1 /\ DOMAIN turns = 1 .. n /\ Last(turns) = turns[n]
  BY <1>1 DEF Last
<1>3. PICK f, t : f = Front(turns) /\ t = Last(turns)
  OBVIOUS
<1>4. f \in Seq(Turns) /\ Len(f) = n - 1 /\ \A i \in 1 .. n - 1 : f[i] = turns[i]
  BY <1>1, <1>2, <1>3 DEF Front
<1>5. t \in Turns
  BY <1>2, <1>3
<1>6. turns = Append(f, t)
  BY <1>1, <1>2, <1>3, <1>4, <1>5
<1> QED BY <1>3, <1>4, <1>5, <1>6

\* The turns that are appended.
LEMMA TurnShape ==
  ASSUME NEW role \in Roles, NEW n
  PROVE  /\ Replied(Turn(role, n).parts) <=> role = "assistant"
         /\ Asks(Turn(role, n).parts) <=> role = "user"
         /\ Calls(Turn(role, n).parts) <=> role = "call"
         /\ Turn(role, n).role = role /\ CallAlone(Turn(role, n))
<1>1. PICK p : p = <<role, n>>
  OBVIOUS
<1>2. Turn(role, n).parts = <<p>> /\ Turn(role, n).role = role
  BY <1>1 DEF Turn
<1>3. DOMAIN <<p>> = {1} /\ <<p>>[1] = p /\ p[1] = role
  BY <1>1
<1> QED BY <1>2, <1>3 DEF Replied, Says, Asks, Calls, CallAlone

\* What was appended once is in a turn of its own.
LEMMA SingleIs ==
  ASSUME NEW turns, Single(turns)
  PROVE  /\ Mute(turns) /\ CallsAlone(turns) /\ (Tainted(turns) => Torn(turns))
<1>1. \A i \in DOMAIN turns :
        /\ Replied(turns[i].parts) <=> turns[i].role = "assistant"
        /\ Asks(turns[i].parts) <=> turns[i].role = "user"
        /\ Calls(turns[i].parts) <=> turns[i].role = "call"
  BY TurnShape DEF Single
<1>2. Mute(turns)
  BY <1>1 DEF Mute
<1>3. CallsAlone(turns)
  BY <1>1 DEF CallsAlone, CallAlone
<1>4. Unasked(turns)
  BY <1>1 DEF Unasked
<1> QED BY <1>2, <1>3, <1>4 DEF Tainted

\* Appending one keeps that.
LEMMA AppendSingle ==
  ASSUME NEW turns \in Seq(Turns), Single(turns), NEW role \in Roles, NEW m \in Messages \cup {Closure}
  PROVE  Single(Append(turns, Turn(role, m)))
<1>1. PICK t : t = Turn(role, m)
  OBVIOUS
<1>2. \A i \in DOMAIN Append(turns, t) : (i \in DOMAIN turns /\ Append(turns, t)[i] = turns[i]) \/ Append(turns, t)[i] = t
  OBVIOUS
<1> QED BY <1>1, <1>2 DEF Single

\* Two runs of parts.
LEMMA SaysTogether ==
  ASSUME NEW p \in Seq(Part), NEW q \in Seq(Part), NEW role
  PROVE  Says(p \o q, role) <=> Says(p, role) \/ Says(q, role)
<1>1. Len(p) \in Nat /\ Len(q) \in Nat /\ DOMAIN p = 1 .. Len(p) /\ DOMAIN q = 1 .. Len(q)
  OBVIOUS
<1>2. PICK w : w = p \o q
  OBVIOUS
<1>3. w \in Seq(Part) /\ DOMAIN w = 1 .. Len(p) + Len(q)
  BY <1>2
<1>4. \A a \in 1 .. Len(p) : a \in DOMAIN w /\ w[a] = p[a]
  BY <1>1, <1>2
<1>5. \A a \in 1 .. Len(q) : Len(p) + a \in DOMAIN w /\ w[Len(p) + a] = q[a]
  BY <1>1, <1>2
<1>6. ASSUME NEW a \in DOMAIN w, a \notin 1 .. Len(p) PROVE \E b \in 1 .. Len(q) : w[a] = q[b]
  <2>1. a - Len(p) \in 1 .. Len(q) /\ a = Len(p) + (a - Len(p))
    BY <1>1, <1>3, <1>6
  <2> QED BY <1>5, <2>1
<1>7. Says(w, role) => Says(p, role) \/ Says(q, role)
  BY <1>1, <1>4, <1>6 DEF Says
<1>8. Says(p, role) => Says(w, role)
  BY <1>1, <1>4 DEF Says
<1>9. Says(q, role) => Says(w, role)
  BY <1>1, <1>5 DEF Says
<1> QED BY <1>2, <1>7, <1>8, <1>9

\* s is turns with the parts of t added to its last turn.
Joined(s, turns, t) ==
  LET n == Len(turns)
  IN  /\ Len(s) = n /\ DOMAIN s = 1 .. n /\ \A i \in 1 .. n : i # n => s[i] = turns[i]
      /\ s[n].role = turns[n].role /\ s[n].parts = turns[n].parts \o t.parts

\* What merging keeps of a conversation.
LEMMA JoinedShape ==
  ASSUME NEW turns \in Seq(Turns), turns # <<>>, NEW t \in Turns, NEW s \in Seq(Turns), Joined(s, turns, t)
  PROVE  /\ s # <<>> /\ Last(s).role = Last(turns).role
         /\ (Torn(s) <=> Torn(turns)) /\ (Spaced(s) <=> Spaced(turns))
         /\ Mute(turns) /\ (Last(turns).role \in {"user", "tool"} => ~Replied(t.parts)) => Mute(s)
         /\ CallsAlone(turns) /\ Last(turns).role # "call" /\ ~Calls(t.parts) => CallsAlone(s)
         /\ Unasked(turns) /\ Last(turns).role # "tool" => Unasked(s)
<1>1. PICK n : n = Len(turns)
  OBVIOUS
<1>2. /\ n \in Nat /\ n >= 1 /\ n \in 1 .. n /\ DOMAIN turns = 1 .. n /\ DOMAIN s = 1 .. n /\ Len(s) = n
      /\ \A i \in 1 .. n : i # n => s[i] = turns[i]
      /\ s[n].role = turns[n].role /\ s[n].parts = turns[n].parts \o t.parts
  <2>1. n \in Nat /\ n >= 1 /\ n \in 1 .. n /\ DOMAIN turns = 1 .. n
    BY <1>1
  <2> QED BY <1>1, <2>1 DEF Joined
<1>3. Last(turns) = turns[n] /\ Last(s) = s[n] /\ s # <<>>
  BY <1>1, <1>2 DEF Last
<1>4. \A i \in 1 .. n : s[i].role = turns[i].role
  BY <1>2
<1>5. \A i \in 2 .. n : i \in 1 .. n /\ i - 1 \in 1 .. n
  BY <1>2
<1>6. (Torn(s) <=> Torn(turns)) /\ (Spaced(s) <=> Spaced(turns))
  BY <1>1, <1>2, <1>4, <1>5 DEF Torn, Spaced
<1>7. PICK p, q : p = turns[n].parts /\ q = t.parts
  OBVIOUS
<1>8. p \in Seq(Part) /\ q \in Seq(Part) /\ s[n].parts = p \o q
  <2>1. turns[n] \in Turns
    BY <1>2
  <2>2. p \in Seq(Part) /\ q \in Seq(Part)
    BY <1>7, <2>1 DEF Turns, Part
  <2> QED BY <1>2, <1>7, <2>2
<1>9. Replied(s[n].parts) <=> Replied(p) \/ Replied(q)
  BY <1>8, PartsTogether
<1>10. Calls(s[n].parts) <=> Calls(p) \/ Calls(q)
  BY <1>8, SaysTogether DEF Calls
<1>11. Mute(turns) /\ (Last(turns).role \in {"user", "tool"} => ~Replied(t.parts)) => Mute(s)
  BY <1>2, <1>3, <1>4, <1>7, <1>9 DEF Mute
<1>12. ASSUME CallsAlone(turns), Last(turns).role # "call", ~Calls(q) PROVE CallsAlone(s)
  <2>1. ~Calls(s[n].parts) /\ s[n].role # "call"
    BY <1>2, <1>3, <1>7, <1>10, <1>12 DEF CallsAlone, CallAlone
  <2> QED BY <1>2, <1>12, <2>1 DEF CallsAlone, CallAlone
<1>13. Unasked(turns) /\ Last(turns).role # "tool" => Unasked(s)
  BY <1>2, <1>3, <1>4 DEF Unasked
<1> QED BY <1>2, <1>3, <1>6, <1>7, <1>11, <1>12, <1>13

\* Whether a user's turn is expected tells what the last turn is.
Formed(v) ==
  /\ v.turns = <<>> => v.user
  /\ v.turns # <<>> => Last(v.turns).role \in IF v.user THEN {"assistant", "call"} ELSE {"user", "tool"}

\* The ways a turn is merged: appended, dropped or joined to the last one.
LEMMA MergedShape ==
  ASSUME NEW v \in Made, Formed(v), NEW t \in Turns
  PROVE  LET w == Merged(v, t)
         IN  /\ w \in Made
             /\ \/ t.role = "tool" /\ w.turns = Append(v.turns, t) /\ ~w.user
                \/ t.role = "user" /\ v.user /\ w.turns = Append(v.turns, t) /\ ~w.user
                \/ t.role \in {"assistant", "call"} /\ ~v.user /\ w.turns = Append(v.turns, t) /\ w.user
                \/ v.turns = <<>> /\ w = v /\ v.user
                \/ /\ v.turns # <<>> /\ Joined(w.turns, v.turns, t) /\ w.user = v.user
                   /\ IF v.user THEN t.role \in {"assistant", "call"} ELSE t.role = "user"
<1>1. PICK w : w = Merged(v, t)
  OBVIOUS
<1>2. t.role \in {"user", "assistant", "call", "tool"} /\ v.user \in BOOLEAN
  BY DEF Turns, Roles, Made
<1>3. w \in Made
  BY <1>1, MergedTypes
<1>4. CASE t.role = "tool" \/ (v.user /\ t.role = "user")
  <2>1. w = [turns |-> Append(v.turns, t), user |-> FALSE]
    BY <1>1, <1>4 DEF Merged
  <2>2. w.turns = Append(v.turns, t) /\ ~w.user
    BY <2>1
  <2> QED BY <1>1, <1>3, <1>4, <2>2
<1>5. CASE ~(t.role = "tool" \/ (v.user /\ t.role = "user")) /\ (~v.user /\ t.role # "user")
  <2>1. w = [turns |-> Append(v.turns, t), user |-> TRUE]
    BY <1>1, <1>5 DEF Merged
  <2>2. w.turns = Append(v.turns, t) /\ w.user
    BY <2>1
  <2> QED BY <1>1, <1>2, <1>3, <1>5, <2>2
<1>6. CASE ~(t.role = "tool" \/ (v.user /\ t.role = "user")) /\ ~(~v.user /\ t.role # "user")
  <2>1. IF v.user THEN t.role \in {"assistant", "call"} ELSE t.role = "user"
    BY <1>2, <1>6
  <2>2. CASE v.turns = <<>>
    <3>1. w = v /\ v.user
      BY <1>1, <1>6, <2>2 DEF Merged, Formed
    <3> QED BY <1>1, <1>3, <2>2, <3>1
  <2>3. CASE v.turns # <<>>
    <3>1. w = [v EXCEPT !.turns[Len(v.turns)].parts = @ \o t.parts]
      BY <1>1, <1>6, <2>3 DEF Merged
    <3>2. PICK n, made : n = Len(v.turns) /\ made = w.turns
      OBVIOUS
    <3>8. Merged(v, t) = [v EXCEPT !.turns[Len(v.turns)].parts = @ \o t.parts]
      BY <1>1, <3>1
    <3>3. /\ n \in Nat /\ n >= 1 /\ DOMAIN made = 1 .. n /\ \A i \in 1 .. n : i # n => made[i] = v.turns[i]
          /\ made[n].role = v.turns[n].role /\ made[n].parts = v.turns[n].parts \o t.parts
          /\ w.user = v.user
      BY <1>1, <2>3, <3>2, <3>8, MergedIs
    <3>4. made \in Seq(Turns)
      BY <1>3, <3>2 DEF Made
    <3>5. Len(made) = n
      BY <3>3, <3>4
    <3>6. Joined(made, v.turns, t)
      BY <3>2, <3>3, <3>5 DEF Joined
    <3> QED BY <1>1, <1>3, <2>1, <2>3, <3>2, <3>3, <3>6
  <2> QED BY <2>2, <2>3
<1> QED BY <1>4, <1>5, <1>6

\* Merging tears no call from its result.
LEMMA MergedTidy ==
  ASSUME NEW v \in Made, Formed(v), ~Torn(v.turns), NEW t \in Turns, NEW w, w = Merged(v, t)
  PROVE  /\ w \in Made /\ Formed(w) /\ ~Torn(w.turns)
         /\ Mute(v.turns) /\ (t.role \in {"user", "tool"} => ~Replied(t.parts)) => Mute(w.turns)
<1>1. w \in Made
  BY MergedShape
<1>2. PICK a, b : a = v.turns /\ b = w.turns
  OBVIOUS
<1>3. a \in Seq(Turns) /\ b \in Seq(Turns)
  BY <1>1, <1>2 DEF Made
<1>4. a # <<>> => Last(a).role \in IF v.user THEN {"assistant", "call"} ELSE {"user", "tool"}
  BY <1>2 DEF Formed
<1>5. CASE b = Append(a, t) /\ \/ t.role = "tool" /\ ~w.user
                               \/ t.role = "user" /\ v.user /\ ~w.user
                               \/ t.role \in {"assistant", "call"} /\ ~v.user /\ w.user
  <2>1. /\ Mute(a) /\ (t.role \in {"user", "tool"} => ~Replied(t.parts)) => Mute(b)
        /\ Torn(b) <=> Torn(a) \/ (a # <<>> /\ Last(a).role = "tool" /\ t.role = "user")
        /\ b # <<>> /\ Last(b) = t
    BY <1>3, <1>5, AppendShape
  <2>2. Formed(w)
    BY <1>2, <1>5, <2>1 DEF Formed
  <2> QED BY <1>1, <1>2, <1>4, <1>5, <2>1, <2>2
<1>6. CASE a = <<>> /\ w = v
  BY <1>1, <1>2, <1>6
<1>7. CASE /\ a # <<>> /\ Joined(b, a, t) /\ w.user = v.user
           /\ IF v.user THEN t.role \in {"assistant", "call"} ELSE t.role = "user"
  <2>1. /\ b # <<>> /\ Last(b).role = Last(a).role /\ (Torn(b) <=> Torn(a))
        /\ Mute(a) /\ (Last(a).role \in {"user", "tool"} => ~Replied(t.parts)) => Mute(b)
    BY <1>3, <1>7, JoinedShape
  <2>2. Formed(w)
    BY <1>2, <1>4, <1>7, <2>1 DEF Formed
  <2> QED BY <1>1, <1>2, <1>4, <1>7, <2>1, <2>2
<1> QED BY <1>2, <1>5, <1>6, <1>7, MergedShape

\* Where messages come one at a time, turns are kept apart.
SameEnd(turns, role) ==
  turns # <<>> => Last(turns).role = role \/ (role = "user" /\ Last(turns).role \in {"user", "tool"})

\* Merging in order keeps the order.
LEMMA MergedInOrder ==
  ASSUME NEW v \in Made, Formed(v), Spaced(v.turns), CallsAlone(v.turns), NEW t \in Turns, CallAlone(t),
         NEW r \in Roles, SameEnd(v.turns, r), v.turns # <<>> => Follows(r, t.role), NEW w, w = Merged(v, t)
  PROVE  Spaced(w.turns) /\ CallsAlone(w.turns) /\ SameEnd(w.turns, t.role)
<1>1. w \in Made
  BY MergedShape
<1>2. PICK a, b : a = v.turns /\ b = w.turns
  OBVIOUS
<1>3. a \in Seq(Turns) /\ b \in Seq(Turns)
  BY <1>1, <1>2 DEF Made
<1>4. a # <<>> => /\ Last(a).role \in IF v.user THEN {"assistant", "call"} ELSE {"user", "tool"}
                  /\ Last(a).role = r \/ (r = "user" /\ Last(a).role \in {"user", "tool"})
                  /\ Follows(r, t.role)
  BY <1>2 DEF Formed, SameEnd
<1>5. t.role \in {"user", "assistant", "call", "tool"} /\ r \in {"user", "assistant", "call", "tool"}
  BY DEF Turns, Roles
<1>6. CASE b = Append(a, t) /\ \/ t.role = "tool" /\ ~w.user
                               \/ t.role = "user" /\ v.user /\ ~w.user
                               \/ t.role \in {"assistant", "call"} /\ ~v.user /\ w.user
  <2>1. /\ Spaced(a) /\ (a # <<>> => Follows(Last(a).role, t.role)) => Spaced(b)
        /\ CallsAlone(a) /\ CallAlone(t) => CallsAlone(b)
        /\ b # <<>> /\ Last(b) = t
    BY <1>3, <1>6, AppendShape
  <2>2. a # <<>> => Follows(Last(a).role, t.role)
    BY <1>4, <1>5, <1>6 DEF Follows
  <2> QED BY <1>2, <2>1, <2>2 DEF SameEnd
<1>7. CASE a = <<>> /\ w = v
  BY <1>2, <1>7 DEF SameEnd
<1>8. CASE /\ a # <<>> /\ Joined(b, a, t) /\ w.user = v.user
           /\ IF v.user THEN t.role \in {"assistant", "call"} ELSE t.role = "user"
  <2>1. /\ b # <<>> /\ Last(b).role = Last(a).role /\ (Spaced(b) <=> Spaced(a))
        /\ CallsAlone(a) /\ Last(a).role # "call" /\ ~Calls(t.parts) => CallsAlone(b)
    BY <1>3, <1>8, JoinedShape
  <2>2. ~v.user /\ t.role = "user" /\ Last(a).role \in {"user", "tool"}
    BY <1>4, <1>5, <1>8 DEF Follows
  <2> QED BY <1>2, <2>1, <2>2 DEF CallAlone, SameEnd
<1> QED BY <1>2, <1>6, <1>7, <1>8, MergedShape

\* No request is merged into a result where none follows one.
LEMMA MergedUnasked ==
  ASSUME NEW v \in Made, Formed(v), Unasked(v.turns), NEW t \in Turns, t.role = "tool" => ~Asks(t.parts),
         v.turns # <<>> /\ Last(v.turns).role = "tool" => t.role # "user", NEW w, w = Merged(v, t)
  PROVE  Unasked(w.turns) /\ (w.turns # <<>> /\ Last(w.turns).role = "tool" => t.role = "tool")
<1>1. w \in Made
  BY MergedShape
<1>2. PICK a, b : a = v.turns /\ b = w.turns
  OBVIOUS
<1>3. a \in Seq(Turns) /\ b \in Seq(Turns)
  BY <1>1, <1>2 DEF Made
<1>4. a # <<>> => Last(a).role \in IF v.user THEN {"assistant", "call"} ELSE {"user", "tool"}
  BY <1>2 DEF Formed
<1>5. CASE b = Append(a, t)
  <2>1. /\ Unasked(a) /\ (t.role = "tool" => ~Asks(t.parts)) => Unasked(b)
        /\ Last(b) = t
    BY <1>3, <1>5, AppendShape
  <2> QED BY <1>2, <2>1
<1>6. CASE a = <<>> /\ w = v
  BY <1>2, <1>6
<1>7. CASE /\ a # <<>> /\ Joined(b, a, t)
           /\ IF v.user THEN t.role \in {"assistant", "call"} ELSE t.role = "user"
  <2>1. Last(b).role = Last(a).role /\ (Unasked(a) /\ Last(a).role # "tool" => Unasked(b))
    BY <1>3, <1>7, JoinedShape
  <2>2. Last(a).role # "tool"
    BY <1>2, <1>4, <1>7
  <2> QED BY <1>2, <2>1, <2>2
<1> QED BY <1>2, <1>5, <1>6, <1>7, MergedShape

\* normalize_cached_channel_turns: what the turns may hold and what follows what.
LEMMA NormalizeShape ==
  ASSUME NEW turns \in Seq(Turns)
  PROVE  LET shown == Normalize(turns)
         IN  /\ shown \in Seq(Turns) /\ ~Torn(shown)
             /\ Mute(turns) => Mute(shown)
             /\ Spaced(turns) /\ CallsAlone(turns) => Spaced(shown) /\ CallsAlone(shown)
             /\ ~Tainted(turns) =>
                  /\ Unasked(shown)
                  /\ shown # <<>> /\ Last(shown).role = "tool" => turns # <<>> /\ Last(turns).role = "tool"
<1>1. PICK acc : MergedOver(acc, turns)
  BY MergedOneByOne
<1>2. /\ acc \in [0 .. Len(turns) -> Made] /\ acc[0] = Nothing /\ Normalize(turns) = acc[Len(turns)].turns
      /\ \A k \in 1 .. Len(turns) : acc[k] = Merged(acc[k - 1], turns[k])
  BY <1>1 DEF MergedOver
<1> DEFINE Tidy(v) == Formed(v) /\ ~Torn(v.turns) /\ (Mute(turns) => Mute(v.turns))
           Ordered(v, k) == Spaced(turns) /\ CallsAlone(turns) =>
                              /\ Spaced(v.turns) /\ CallsAlone(v.turns)
                              /\ k >= 1 => SameEnd(v.turns, turns[k].role)
                              /\ k = 0 => v.turns = <<>>
           Untouched(v, k) == ~Tainted(turns) =>
                              /\ Unasked(v.turns)
                              /\ v.turns # <<>> /\ Last(v.turns).role = "tool" => k >= 1 /\ turns[k].role = "tool"
           P == {k \in Nat : k <= Len(turns) => Tidy(acc[k]) /\ Ordered(acc[k], k) /\ Untouched(acc[k], k)}
<1>3. 0 \in P
  BY <1>2, NothingIs DEF Nothing, Formed, Tainted
<1>4. ASSUME NEW k \in Nat, k \in P PROVE k + 1 \in P
  <2> SUFFICES ASSUME k + 1 <= Len(turns)
               PROVE  Tidy(acc[k + 1]) /\ Ordered(acc[k + 1], k + 1) /\ Untouched(acc[k + 1], k + 1)
    OBVIOUS
  <2>1. /\ k + 1 \in 1 .. Len(turns) /\ (k + 1) - 1 = k /\ k \in 0 .. Len(turns) /\ k + 1 \in DOMAIN turns
        /\ k >= 1 => k \in DOMAIN turns /\ k + 1 \in 2 .. Len(turns)
    BY <1>4
  <2>2. acc[k + 1] = Merged(acc[k], turns[k + 1]) /\ acc[k] \in Made /\ turns[k + 1] \in Turns
    BY <1>2, <2>1
  <2>3. Tidy(acc[k]) /\ Ordered(acc[k], k) /\ Untouched(acc[k], k)
    BY <1>4, <2>1
  <2>4. PICK v, t, w : v = acc[k] /\ t = turns[k + 1] /\ w = acc[k + 1]
    OBVIOUS
  <2>5. v \in Made /\ t \in Turns /\ w = Merged(v, t) /\ Formed(v) /\ ~Torn(v.turns)
    BY <2>2, <2>3, <2>4
  <2>6. Tidy(w)
    <3>1. Mute(turns) => (t.role \in {"user", "tool"} => ~Replied(t.parts))
      BY <2>1, <2>4 DEF Mute
    <3>2. /\ Formed(w) /\ ~Torn(w.turns)
          /\ Mute(v.turns) /\ (t.role \in {"user", "tool"} => ~Replied(t.parts)) => Mute(w.turns)
      BY <2>5, MergedTidy
    <3> QED BY <2>3, <2>4, <3>1, <3>2
  <2>7. ASSUME Spaced(turns), CallsAlone(turns)
        PROVE  Spaced(w.turns) /\ CallsAlone(w.turns) /\ SameEnd(w.turns, t.role)
    <3>1. Spaced(v.turns) /\ CallsAlone(v.turns) /\ CallAlone(t)
      BY <2>1, <2>3, <2>4, <2>7 DEF CallsAlone
    <3>2. PICK r \in Roles : SameEnd(v.turns, r) /\ (v.turns # <<>> => Follows(r, t.role))
      <4>1. CASE k = 0
        <5>1. v.turns = <<>>
          BY <2>3, <2>4, <2>7, <4>1
        <5>2. "user" \in Roles
          BY DEF Roles
        <5> QED BY <5>1, <5>2 DEF SameEnd
      <4>2. CASE k >= 1
        <5>4. turns[k] \in Turns
          BY <2>1, <4>2
        <5>1. turns[k].role \in Roles
          BY <5>4 DEF Turns
        <5>2. SameEnd(v.turns, turns[k].role)
          BY <2>3, <2>4, <2>7, <4>2
        <5>3. Follows(turns[(k + 1) - 1].role, turns[k + 1].role)
          BY <2>1, <2>7, <4>2 DEF Spaced
        <5> QED BY <2>1, <2>4, <5>1, <5>2, <5>3
      <4> QED BY <4>1, <4>2
    <3> QED BY <2>5, <3>1, <3>2, MergedInOrder
  <2>8. ASSUME ~Tainted(turns)
        PROVE  Unasked(w.turns) /\ (w.turns # <<>> /\ Last(w.turns).role = "tool" => t.role = "tool")
    <3>1. Unasked(v.turns) /\ (t.role = "tool" => ~Asks(t.parts))
      BY <2>1, <2>3, <2>4, <2>8 DEF Tainted, Unasked
    <3>2. v.turns # <<>> /\ Last(v.turns).role = "tool" => t.role # "user"
      <4> SUFFICES ASSUME v.turns # <<>>, Last(v.turns).role = "tool", t.role = "user" PROVE FALSE
        OBVIOUS
      <4>1. k >= 1 /\ turns[k].role = "tool"
        BY <2>3, <2>4, <2>8
      <4>2. k + 1 \in 2 .. Len(turns) /\ turns[(k + 1) - 1].role = "tool" /\ turns[k + 1].role = "user"
        BY <2>1, <2>4, <4>1
      <4> QED BY <2>8, <4>2 DEF Tainted, Torn
    <3> QED BY <2>5, <3>1, <3>2, MergedUnasked
  <2>9. k + 1 >= 1 /\ k + 1 # 0
    BY <1>4
  <2>10. Ordered(w, k + 1)
    BY <2>4, <2>7, <2>9
  <2>11. Untouched(w, k + 1)
    BY <2>4, <2>8, <2>9
  <2> QED BY <2>4, <2>6, <2>10, <2>11
<1> HIDE DEF P
<1>5. Nat \subseteq P
  BY <1>3, <1>4, SetInduction
<1>6. PICK n, v : n = Len(turns) /\ v = acc[n]
  OBVIOUS
<1>7. Tidy(v) /\ Ordered(v, n) /\ Untouched(v, n)
  BY <1>5, <1>6 DEF P
<1>8. v \in Made /\ v.turns = Normalize(turns)
  BY <1>2, <1>6
<1>9. n >= 1 => turns # <<>> /\ Last(turns) = turns[n]
  BY <1>6 DEF Last
<1>10. v.turns \in Seq(Turns)
  BY <1>8 DEF Made
<1>11. ~Tainted(turns) =>
         /\ Unasked(v.turns)
         /\ v.turns # <<>> /\ Last(v.turns).role = "tool" => turns # <<>> /\ Last(turns).role = "tool"
  BY <1>7, <1>9
<1>12. Spaced(turns) /\ CallsAlone(turns) => Spaced(v.turns) /\ CallsAlone(v.turns)
  BY <1>7
<1>13. ~Torn(v.turns) /\ (Mute(turns) => Mute(v.turns))
  BY <1>7
<1> QED BY <1>8, <1>10, <1>11, <1>12, <1>13

\* What is stripped and what is not touched.
Split(turns, b, old, kept, rest) ==
  /\ b \in 0 .. Len(turns)
  /\ old \in Seq(Turns) /\ Len(old) = b /\ \A i \in 1 .. b : i \in DOMAIN turns /\ old[i] = turns[i]
  /\ rest \in Seq(Turns) /\ Len(rest) = Len(turns) - b
  /\ \A i \in 1 .. Len(turns) - b : b + i \in DOMAIN turns /\ rest[i] = turns[b + i]
  /\ kept \in Seq(Turns) /\ kept = Only(old, Texts(turns))
  /\ Stripped(turns) = kept \o rest /\ turns = old \o rest
  /\ rest # <<>> => b \in DOMAIN turns /\ turns[b].role = "user"

\* Stripping splits a conversation that way.
LEMMA StrippedSplit ==
  ASSUME NEW turns \in Seq(Turns)
  PROVE  \E b, old, kept, rest : Split(turns, b, old, kept, rest)
<1>1. PICK b \in 0 .. Len(turns) :
           /\ Stripped(turns) = Only(SubSeq(turns, 1, b), Texts(turns)) \o SubSeq(turns, b + 1, Len(turns))
           /\ b = Len(turns) \/ (b \in DOMAIN turns /\ turns[b].role = "user")
  BY StrippedIs
<1>2. PICK n, old, rest : n = Len(turns) /\ old = SubSeq(turns, 1, b) /\ rest = SubSeq(turns, b + 1, n)
  OBVIOUS
<1>3. PICK kept : kept = Only(old, Texts(turns))
  OBVIOUS
<1>4. n \in Nat /\ DOMAIN turns = 1 .. n /\ b \in 0 .. n
  BY <1>1, <1>2
<1>5. old \in Seq(Turns) /\ Len(old) = b /\ \A i \in 1 .. b : i \in DOMAIN turns /\ old[i] = turns[i]
  BY <1>2, <1>4
<1>6. /\ rest \in Seq(Turns) /\ Len(rest) = n - b
      /\ \A i \in 1 .. n - b : b + i \in DOMAIN turns /\ rest[i] = turns[b + i]
  BY <1>2, <1>4
<1>7. kept \in Seq(Turns)
  BY <1>3, <1>5, OnlyLeavesOut
<1>8. turns = old \o rest
  <2>1. old \o rest \in Seq(Turns) /\ Len(old \o rest) = n
    <3>1. old \in Seq(Turns) /\ rest \in Seq(Turns)
      BY <1>5, <1>6
    <3>2. old \o rest \in Seq(Turns) /\ Len(old \o rest) = Len(old) + Len(rest)
      BY <3>1
    <3>3. Len(old) = b /\ Len(rest) = n - b
      BY <1>5, <1>6
    <3> QED BY <1>4, <3>2, <3>3
  <2>2. \A i \in 1 .. n : (old \o rest)[i] = turns[i]
    <3> TAKE i \in 1 .. n
    <3>1. CASE i <= b
      BY <1>4, <1>5, <1>6, <3>1
    <3>2. CASE i > b
      <4>1. i - b \in 1 .. n - b /\ b + (i - b) = i
        BY <1>4, <3>2
      <4>2. (old \o rest)[i] = rest[i - b]
        BY <1>4, <1>5, <1>6, <3>2
      <4> QED BY <1>6, <4>1, <4>2
    <3>3. i <= b \/ i > b
      BY <1>4
    <3> QED BY <3>1, <3>2, <3>3
  <2>3. PICK z : z = old \o rest
    OBVIOUS
  <2>4. z \in Seq(Turns) /\ Len(z) = n /\ \A i \in 1 .. n : z[i] = turns[i]
    BY <2>1, <2>2, <2>3
  <2>6. z = [i \in 1 .. n |-> z[i]]
    BY <2>4
  <2>7. turns = [i \in 1 .. n |-> turns[i]]
    BY <1>2
  <2>8. [i \in 1 .. n |-> z[i]] = [i \in 1 .. n |-> turns[i]]
    BY <2>4
  <2>5. z = turns
    BY <2>6, <2>7, <2>8
  <2> QED BY <2>3, <2>5
<1>9. rest # <<>> => b # n
  BY <1>4, <1>6
<1>10. Stripped(turns) = kept \o rest
  BY <1>1, <1>2, <1>3
<1>11. rest # <<>> => b \in DOMAIN turns /\ turns[b].role = "user"
  BY <1>1, <1>2, <1>9
<1>12. Split(turns, b, old, kept, rest)
  BY <1>2, <1>3, <1>4, <1>5, <1>6, <1>7, <1>8, <1>10, <1>11 DEF Split
<1> QED BY <1>12

\* w is q after p, and keeps to what both keep to when their ends do.
Linked(p, q, w) ==
  /\ w \in Seq(Turns) /\ (q = <<>> => w = p) /\ (q # <<>> => w # <<>> /\ Last(w) = Last(q))
  /\ Mute(p) /\ Mute(q) => Mute(w)
  /\ CallsAlone(p) /\ CallsAlone(q) => CallsAlone(w)
  /\ Unasked(p) /\ Unasked(q) => Unasked(w)
  /\ Spaced(p) /\ Spaced(q) /\ (p # <<>> /\ q # <<>> => Follows(Last(p).role, q[1].role)) => Spaced(w)
  /\ Torn(w) => Torn(p) \/ Torn(q) \/ (p # <<>> /\ q # <<>> /\ Last(p).role = "tool")

\* Concatenation is such a link.
LEMMA OneAfterOther ==
  ASSUME NEW p \in Seq(Turns), NEW q \in Seq(Turns), NEW w, w = p \o q
  PROVE  Linked(p, q, w)
<1>1. PICK a, b : a = Len(p) /\ b = Len(q)
  OBVIOUS
<1>2. a \in Nat /\ b \in Nat /\ DOMAIN p = 1 .. a /\ DOMAIN q = 1 .. b
  BY <1>1
<1>3. w \in Seq(Turns) /\ Len(w) = a + b /\ DOMAIN w = 1 .. a + b
  <2>1. w \in Seq(Turns) /\ Len(w) = a + b
    BY <1>1
  <2> QED BY <2>1
<1>4. \A i \in 1 .. a : w[i] = p[i]
  BY <1>1, <1>2
<1>5. \A i \in 1 .. b : w[a + i] = q[i]
  BY <1>1, <1>2
<1>6. \A i \in DOMAIN w : (i \in 1 .. a /\ w[i] = p[i]) \/ (i > a /\ i - a \in 1 .. b /\ w[i] = q[i - a])
  <2> TAKE i \in DOMAIN w
  <2>1. CASE i <= a
    BY <1>2, <1>3, <1>4, <2>1
  <2>2. CASE i > a
    <3>1. i - a \in 1 .. b /\ a + (i - a) = i
      BY <1>2, <1>3, <2>2
    <3> QED BY <1>5, <2>2, <3>1
  <2> QED BY <1>2, <1>3, <2>1, <2>2
<1>7. p # <<>> => a >= 1 /\ Last(p) = p[a]
  BY <1>1, <1>2 DEF Last
<1>8. q = <<>> => w = p
  BY <1>1
<1>9. q # <<>> => w # <<>> /\ Last(w) = Last(q)
  <2> SUFFICES ASSUME q # <<>> PROVE w # <<>> /\ Last(w) = Last(q)
    OBVIOUS
  <2>1. b >= 1 /\ Last(q) = q[b]
    BY <1>1, <1>2 DEF Last
  <2>2. w # <<>> /\ Last(w) = w[a + b]
    BY <1>2, <1>3, <2>1 DEF Last
  <2>3. b \in 1 .. b
    BY <1>2, <2>1
  <2> QED BY <1>5, <2>1, <2>2, <2>3
<1>10. Mute(p) /\ Mute(q) => Mute(w)
  BY <1>2, <1>6 DEF Mute
<1>11. CallsAlone(p) /\ CallsAlone(q) => CallsAlone(w)
  BY <1>2, <1>6 DEF CallsAlone
<1>12. Unasked(p) /\ Unasked(q) => Unasked(w)
  BY <1>2, <1>6 DEF Unasked
<1>13. \A i \in 2 .. a + b :
         \/ i \in 2 .. a /\ w[i - 1] = p[i - 1] /\ w[i] = p[i]
         \/ p # <<>> /\ q # <<>> /\ w[i - 1] = Last(p) /\ w[i] = q[1]
         \/ i - a \in 2 .. b /\ w[i - 1] = q[(i - a) - 1] /\ w[i] = q[i - a]
  <2> TAKE i \in 2 .. a + b
  <2>1. i \in DOMAIN w /\ i - 1 \in DOMAIN w
    BY <1>2, <1>3
  <2>2. CASE i <= a
    <3>1. i \in 1 .. a /\ i - 1 \in 1 .. a /\ i \in 2 .. a
      BY <1>2, <2>2
    <3> QED BY <1>4, <3>1
  <2>3. CASE i = a + 1
    <3>1. a >= 1 /\ b >= 1 /\ i - 1 = a /\ a \in 1 .. a /\ 1 \in 1 .. b
      BY <1>2, <2>3
    <3>2. p # <<>> /\ q # <<>>
      BY <1>1, <3>1
    <3> QED BY <1>4, <1>5, <1>7, <2>3, <3>1, <3>2
  <2>4. CASE i > a + 1
    <3>1. i - a \in 2 .. b /\ i - a \in 1 .. b /\ (i - a) - 1 \in 1 .. b /\ a + ((i - a) - 1) = i - 1 /\ a + (i - a) = i
      BY <1>2, <2>4
    <3> QED BY <1>5, <3>1
  <2> QED BY <1>2, <2>2, <2>3, <2>4
<1>14. Spaced(p) /\ Spaced(q) /\ (p # <<>> /\ q # <<>> => Follows(Last(p).role, q[1].role)) => Spaced(w)
  <2> SUFFICES ASSUME Spaced(p), Spaced(q), p # <<>> /\ q # <<>> => Follows(Last(p).role, q[1].role),
                      NEW i \in 2 .. Len(w)
               PROVE  Follows(w[i - 1].role, w[i].role)
    BY DEF Spaced
  <2> QED BY <1>1, <1>3, <1>13 DEF Spaced
<1>15. Torn(w) => Torn(p) \/ Torn(q) \/ (p # <<>> /\ q # <<>> /\ Last(p).role = "tool")
  <2> SUFFICES ASSUME NEW i \in 2 .. Len(w), w[i - 1].role = "tool", w[i].role = "user"
               PROVE  Torn(p) \/ Torn(q) \/ (p # <<>> /\ q # <<>> /\ Last(p).role = "tool")
    BY DEF Torn
  <2> QED BY <1>1, <1>3, <1>13 DEF Torn
<1> QED BY <1>3, <1>8, <1>9, <1>10, <1>11, <1>12, <1>14, <1>15 DEF Linked

\* The rest of a conversation.
LEMMA RestFrom ==
  ASSUME NEW turns \in Seq(Turns), NEW b, NEW old, NEW kept, NEW rest, Split(turns, b, old, kept, rest)
  PROVE  /\ From(old, turns) /\ Along(old, turns) /\ From(rest, turns) /\ Along(rest, turns)
         /\ rest # <<>> => Last(rest) = Last(turns)
         /\ b \in Nat /\ DOMAIN old = 1 .. b /\ DOMAIN rest = 1 .. Len(turns) - b /\ b <= Len(turns)
<1>1. PICK n : n = Len(turns)
  OBVIOUS
<1>2. /\ n \in Nat /\ b \in 0 .. n /\ old \in Seq(Turns) /\ Len(old) = b /\ rest \in Seq(Turns) /\ Len(rest) = n - b
      /\ \A i \in 1 .. b : i \in DOMAIN turns /\ old[i] = turns[i]
      /\ \A i \in 1 .. n - b : b + i \in DOMAIN turns /\ rest[i] = turns[b + i]
  BY <1>1 DEF Split
<1>3. DOMAIN old = 1 .. b /\ DOMAIN rest = 1 .. n - b /\ b <= n
  BY <1>2
<1>4. From(old, turns) /\ From(rest, turns)
  BY <1>2, <1>3 DEF From
<1>5. Along(old, turns)
  <2> SUFFICES ASSUME NEW i \in 2 .. Len(old)
               PROVE  \E j \in 2 .. Len(turns) : old[i - 1] = turns[j - 1] /\ old[i] = turns[j]
    BY DEF Along
  <2>1. i \in 1 .. b /\ i - 1 \in 1 .. b /\ i \in 2 .. Len(turns)
    BY <1>1, <1>2
  <2> QED BY <1>2, <2>1
<1>6. Along(rest, turns)
  <2> SUFFICES ASSUME NEW i \in 2 .. Len(rest)
               PROVE  \E j \in 2 .. Len(turns) : rest[i - 1] = turns[j - 1] /\ rest[i] = turns[j]
    BY DEF Along
  <2>1. i \in 1 .. n - b /\ i - 1 \in 1 .. n - b /\ b + i \in 2 .. Len(turns) /\ (b + i) - 1 = b + (i - 1)
    BY <1>1, <1>2
  <2> QED BY <1>2, <2>1
<1>7. rest # <<>> => Last(rest) = Last(turns)
  <2> SUFFICES ASSUME rest # <<>> PROVE Last(rest) = Last(turns)
    OBVIOUS
  <2>1. n - b \in 1 .. n - b /\ b + (n - b) = n
    BY <1>2
  <2> QED BY <1>1, <1>2, <2>1 DEF Last
<1> QED BY <1>1, <1>2, <1>3, <1>4, <1>5, <1>6, <1>7

\* strip_old_tool_context: where messages come one at a time and calls are text, only
\* whole runs of calls and results between a request and its reply are left out.
LEMMA OnlyTexts ==
  ASSUME NEW turns \in Seq(Turns), Spaced(turns), NEW S,
         \A i \in DOMAIN turns : turns[i] \in S <=> turns[i].role \in {"user", "assistant"}
  PROVE  LET kept == Only(turns, S)
         IN  /\ Spaced(kept)
             /\ turns # <<>> /\ Last(turns).role = "user" => kept # <<>> /\ Last(kept).role = "user"
<1>1. PICK acc : OnlyOver(acc, turns, S, Turns)
  BY OnlyOneByOne
<1>2. /\ acc \in [0 .. Len(turns) -> Seq(Turns)] /\ acc[0] = <<>> /\ Only(turns, S) = acc[Len(turns)]
      /\ \A k \in 1 .. Len(turns) : acc[k] = OnlyStep(acc[k - 1], turns[k], S)
  BY <1>1 DEF OnlyOver
<1> DEFINE Good(v, k) ==
             /\ Spaced(v) /\ (v # <<>> => Last(v).role \in {"user", "assistant"})
             /\ v # <<>> /\ Last(v).role = "assistant" => k >= 1 /\ turns[k].role = "assistant"
             /\ k >= 1 /\ turns[k].role = "user" => v # <<>> /\ Last(v).role = "user"
           P == {k \in Nat : k <= Len(turns) => Good(acc[k], k)}
<1>3. 0 \in P
  BY <1>2, NothingIs
<1>4. ASSUME NEW k \in Nat, k \in P PROVE k + 1 \in P
  <2> SUFFICES ASSUME k + 1 <= Len(turns) PROVE Good(acc[k + 1], k + 1)
    OBVIOUS
  <2>1. /\ k + 1 \in 1 .. Len(turns) /\ (k + 1) - 1 = k /\ k \in 0 .. Len(turns) /\ k + 1 \in DOMAIN turns
        /\ k >= 1 => k + 1 \in 2 .. Len(turns)
        /\ k + 1 >= 1
    BY <1>4
  <2>2. acc[k + 1] = OnlyStep(acc[k], turns[k + 1], S) /\ acc[k] \in Seq(Turns) /\ turns[k + 1] \in Turns
    BY <1>2, <2>1
  <2>3. Good(acc[k], k)
    BY <1>4, <2>1
  <2>4. PICK v, t, w : v = acc[k] /\ t = turns[k + 1] /\ w = acc[k + 1]
    OBVIOUS
  <2>5. k >= 1 => Follows(turns[k].role, t.role)
    BY <2>1, <2>4 DEF Spaced
  <2>6. t \in S <=> t.role \in {"user", "assistant"}
    BY <2>1, <2>4
  <2>7. CASE t \in S
    <3>1. w = Append(v, t)
      BY <2>2, <2>4, <2>7 DEF OnlyStep
    <3>2. v \in Seq(Turns) /\ t \in Turns
      BY <2>2, <2>4
    <3>3. v # <<>> => Follows(Last(v).role, t.role)
      BY <2>3, <2>4, <2>5, <2>6, <2>7 DEF Follows
    <3>4. Spaced(w) /\ w # <<>> /\ Last(w) = t
      BY <2>3, <2>4, <3>1, <3>2, <3>3, AppendShape
    <3> QED BY <2>1, <2>4, <2>6, <2>7, <3>4
  <2>8. CASE t \notin S
    <3>1. w = v
      BY <2>2, <2>4, <2>8 DEF OnlyStep
    <3>2. ~(v # <<>> /\ Last(v).role = "assistant")
      <4>1. v # <<>> /\ Last(v).role = "assistant" => k >= 1 /\ turns[k].role = "assistant"
        BY <2>3, <2>4
      <4> QED BY <2>5, <2>6, <2>8, <4>1 DEF Follows
    <3> QED BY <2>3, <2>4, <2>6, <2>8, <3>1, <3>2
  <2> QED BY <2>7, <2>8
<1> HIDE DEF P
<1>5. Nat \subseteq P
  BY <1>3, <1>4, SetInduction
<1>6. PICK n, v : n = Len(turns) /\ v = acc[n]
  OBVIOUS
<1>7. Good(v, n)
  BY <1>5, <1>6 DEF P
<1>8. turns # <<>> => n >= 1 /\ Last(turns) = turns[n]
  BY <1>6 DEF Last
<1> QED BY <1>2, <1>6, <1>7, <1>8

\* strip_old_tool_context: what the turns may hold and what follows what.
LEMMA StrippedShape ==
  ASSUME NEW turns \in Seq(Turns)
  PROVE  LET kept == Stripped(turns)
         IN  /\ kept \in Seq(Turns)
             /\ Mute(turns) => Mute(kept)
             /\ CallsAlone(turns) => CallsAlone(kept)
             /\ Unasked(turns) => Unasked(kept)
             /\ Torn(kept) => Torn(turns)
             /\ kept # <<>> /\ Last(kept).role = "tool" => turns # <<>> /\ Last(turns).role = "tool"
             /\ ~setting.nativeCalls /\ Spaced(turns) /\ CallsAlone(turns) => Spaced(kept)
<1>1. PICK b, old, kept, rest : Split(turns, b, old, kept, rest)
  BY StrippedSplit
<1>2. /\ old \in Seq(Turns) /\ rest \in Seq(Turns) /\ kept \in Seq(Turns) /\ kept = Only(old, Texts(turns))
      /\ Stripped(turns) = kept \o rest /\ Len(old) = b /\ Len(rest) = Len(turns) - b
      /\ \A i \in 1 .. b : i \in DOMAIN turns /\ old[i] = turns[i]
      /\ \A i \in 1 .. Len(turns) - b : b + i \in DOMAIN turns /\ rest[i] = turns[b + i]
      /\ rest # <<>> => b \in DOMAIN turns /\ turns[b].role = "user"
  BY <1>1 DEF Split
<1>3. /\ From(old, turns) /\ Along(old, turns) /\ From(rest, turns) /\ Along(rest, turns)
      /\ rest # <<>> => Last(rest) = Last(turns)
      /\ b \in Nat /\ DOMAIN old = 1 .. b /\ DOMAIN rest = 1 .. Len(turns) - b /\ b <= Len(turns)
  BY <1>1, RestFrom
<1>4. PICK w : w = Stripped(turns)
  OBVIOUS
<1>5. w = kept \o rest
  BY <1>2, <1>4
<1>6. \A i \in DOMAIN kept : kept[i] \in Texts(turns) /\ kept[i] \in Range(old)
  BY <1>2, OnlyLeavesOut
<1>7. From(kept, turns)
  BY <1>2, <1>3, <1>6 DEF From, Range
<1>8. \A i \in DOMAIN kept : kept[i].role # "tool"
  BY <1>6 DEF Texts
<1>9. ~Torn(kept) /\ (kept # <<>> => Last(kept).role # "tool")
  <2>1. \A i \in 2 .. Len(kept) : i - 1 \in DOMAIN kept
    BY <1>2
  <2>2. kept # <<>> => Len(kept) \in DOMAIN kept
    BY <1>2
  <2> QED BY <1>8, <2>1, <2>2 DEF Torn, Last
<1>10. /\ w \in Seq(Turns) /\ (rest = <<>> => w = kept) /\ (rest # <<>> => w # <<>> /\ Last(w) = Last(rest))
       /\ Mute(kept) /\ Mute(rest) => Mute(w)
       /\ CallsAlone(kept) /\ CallsAlone(rest) => CallsAlone(w)
       /\ Unasked(kept) /\ Unasked(rest) => Unasked(w)
       /\ Spaced(kept) /\ Spaced(rest) /\ (kept # <<>> /\ rest # <<>> => Follows(Last(kept).role, rest[1].role)) => Spaced(w)
       /\ Torn(w) => Torn(kept) \/ Torn(rest) \/ (kept # <<>> /\ rest # <<>> /\ Last(kept).role = "tool")
  <2>1. kept \in Seq(Turns) /\ rest \in Seq(Turns) /\ w = kept \o rest
    BY <1>2, <1>5
  <2>2. Linked(kept, rest, w)
    BY <2>1, OneAfterOther
  <2> QED BY <2>2 DEF Linked
<1>11. /\ Mute(turns) => Mute(kept) /\ Mute(rest)
       /\ CallsAlone(turns) => CallsAlone(kept) /\ CallsAlone(rest)
       /\ Unasked(turns) => Unasked(kept) /\ Unasked(rest)
  BY <1>3, <1>7, FromKeeps
<1>12. (Spaced(turns) => Spaced(old) /\ Spaced(rest)) /\ (Torn(rest) => Torn(turns))
  BY <1>3, AlongKeeps
<1>13. Torn(w) => Torn(turns)
  BY <1>9, <1>10, <1>12
<1>14. w # <<>> /\ Last(w).role = "tool" => turns # <<>> /\ Last(turns).role = "tool"
  <2>1. CASE rest = <<>>
    BY <1>9, <1>10, <2>1
  <2>2. CASE rest # <<>>
    <3>1. turns # <<>>
      BY <1>2, <1>3, <2>2
    <3> QED BY <1>3, <1>10, <2>2, <3>1
  <2> QED BY <2>1, <2>2
<1>15. ASSUME ~setting.nativeCalls, Spaced(turns), CallsAlone(turns) PROVE Spaced(w)
  <2>1. ASSUME NEW i \in DOMAIN old PROVE old[i] \in Texts(turns) <=> old[i].role \in {"user", "assistant"}
    <3>1. PICK t : t = old[i]
      OBVIOUS
    <3>2. t \in Range(turns) /\ CallAlone(t) /\ t.role \in {"user", "assistant", "call", "tool"}
      <4>1. i \in DOMAIN turns /\ t = turns[i]
        BY <1>2, <1>3, <3>1
      <4>2. t \in Turns
        BY <4>1
      <4> QED BY <1>15, <4>1, <4>2 DEF Range, CallsAlone, Turns, Roles
    <3>3. LooksLikeCall(t) <=> t.role # "user" /\ Calls(t.parts)
      BY <1>15 DEF LooksLikeCall, Calls, Says
    <3>4. t \in Texts(turns) <=> t.role # "tool" /\ ~LooksLikeCall(t)
      BY <3>2 DEF Texts
    <3> QED BY <3>1, <3>2, <3>3, <3>4 DEF CallAlone
  <2>2. PICK S : S = Texts(turns)
    OBVIOUS
  <2>3. /\ Spaced(kept)
        /\ old # <<>> /\ Last(old).role = "user" => kept # <<>> /\ Last(kept).role = "user"
    BY <1>2, <1>12, <1>15, <2>1, <2>2, OnlyTexts
  <2>4. rest # <<>> => kept # <<>> /\ Last(kept).role = "user" /\ Follows("user", rest[1].role)
    <3> SUFFICES ASSUME rest # <<>> PROVE kept # <<>> /\ Last(kept).role = "user" /\ Follows("user", rest[1].role)
      OBVIOUS
    <3>1. b \in DOMAIN turns /\ turns[b].role = "user" /\ b >= 1 /\ b \in 1 .. b
      BY <1>2
    <3>2. old # <<>> /\ Last(old) = turns[b]
      BY <1>2, <3>1 DEF Last
    <3>3. 1 \in 1 .. Len(turns) - b /\ b + 1 \in 2 .. Len(turns) /\ (b + 1) - 1 = b
      BY <1>2, <1>3, <3>1
    <3>4. Follows(turns[b].role, turns[b + 1].role) /\ rest[1] = turns[b + 1]
      BY <1>2, <1>15, <3>3 DEF Spaced
    <3> QED BY <2>3, <3>1, <3>2, <3>4
  <2> QED BY <1>10, <1>12, <1>15, <2>3, <2>4
<1> QED BY <1>4, <1>10, <1>11, <1>13, <1>14, <1>15

-----------------------------------------------------------------------------
(* What a step does to the conversation of its message, and where it leads.  *)

\* What the model's answer, or an error, leads to.
Next3(m) == <<Turn("call", m), Turn("tool", m), Reply(m)>>
Next2(m) == <<Turn("tool", m), Reply(m)>>
Next1(m) == <<Reply(m)>>

\* The conversation of x in memory and in its file, now and next.
InMemory(x) == mem[key[x]]
InMemoryThen(x) == mem'[key[x]]
InFile(x) == disk[Sanitize[key[x]]]
InFileThen(x) == disk'[Sanitize[key[x]]]

\* Neither memory nor the file is written.
Idle(x) ==
  /\ InMemoryThen(x) = InMemory(x) /\ InFileThen(x) = InFile(x) /\ loaded'[x] = loaded[x]
  /\ \/ pc[x] \in {"begin", "model", "new_mark"} /\ pc'[x] = "done" /\ outcome'[x] \in {"cancelled", "new"}
     \/ pc[x] = "begin" /\ pc'[x] \in {"fresh", "persist"} /\ outcome'[x] = "none"
     \/ pc[x] = "read" /\ pc'[x] = "model"
     \/ pc[x] = "model" /\ pc'[x] \in {"compact", "rollback"}
     \/ pc[x] = "model" /\ pc'[x] = "persist" /\ out'[x] \in {Next3(x), Next1(x)} /\ outcome'[x] # "none"
     \/ pc[x] = "rollback" /\ pc'[x] = "persist" /\ ~IsOrphan(InMemory(x), x)
          /\ out'[x] = Next1(x) /\ outcome'[x] # "none"

\* Memory is cleared, by a fresh start or by /new.
Cleared(x) ==
  /\ InMemoryThen(x) = <<>> /\ InFileThen(x) = InFile(x) /\ loaded'[x] = loaded[x]
  /\ \/ pc[x] = "fresh" /\ pc'[x] = "persist" /\ outcome'[x] = "none"
     \/ pc[x] = "new" /\ pc'[x] = "new_file"

\* A turn is appended to the file, or that fails.
Written(x) ==
  /\ pc[x] = "persist" /\ pc'[x] = "remember" /\ out'[x] = out[x] /\ outcome'[x] = outcome[x]
  /\ InMemoryThen(x) = InMemory(x) /\ loaded'[x] = loaded[x]
  /\ \/ InFileThen(x) = Append(InFile(x), Head(out[x]))
     \/ setting.storageFails /\ InFileThen(x) = InFile(x)

\* A turn is appended to memory: the request, or what follows it.
Remembered(x) ==
  /\ pc[x] = "remember" /\ outcome'[x] = outcome[x]
  /\ InMemoryThen(x) = Extended(InMemory(x), Head(out[x]))
  /\ InFileThen(x) = InFile(x) /\ loaded'[x] = loaded[x]
  /\ \/ outcome[x] = "none" /\ Head(out[x]) = User(x) /\ pc'[x] = "read"
     \/ outcome[x] # "none" /\ out[x] = Next1(x) /\ (pc'[x] = "done" \/ (pc'[x] = "strip" /\ outcome[x] = "answered"))
     \/ outcome[x] = "answered" /\ pc'[x] = "persist" /\ out[x] = Next3(x) /\ out'[x] = Next2(x)
     \/ outcome[x] = "answered" /\ pc'[x] = "persist" /\ out[x] = Next2(x) /\ out'[x] = Next1(x)

\* Old tool turns are stripped from memory.
StrippedOff(x) ==
  /\ pc[x] = "strip" /\ pc'[x] = "done" /\ outcome'[x] = "answered" /\ KeepTools > 0
  /\ InMemoryThen(x) = Stripped(InMemory(x)) /\ InFileThen(x) = InFile(x) /\ loaded'[x] = loaded[x]

\* Memory is compacted.
Compacted(x) ==
  /\ pc[x] = "compact" /\ pc'[x] = "done" /\ outcome'[x] = "overflow"
  /\ InMemoryThen(x) = Normalize(Latest(CompactKeep, InMemory(x)))
  /\ InFileThen(x) = InFile(x) /\ loaded'[x] = loaded[x]

\* The request is removed from memory,
RolledBack(x) ==
  /\ pc[x] = "rollback" /\ pc'[x] = (IF InFile(x) = <<>> THEN "done" ELSE "rewrite") /\ outcome'[x] = "rejected"
  /\ IsOrphan(InMemory(x), x) /\ InMemoryThen(x) = Front(InMemory(x))
  /\ InFileThen(x) = InFile(x) /\ loaded'[x] = InFile(x)

\* and from the file.
Rewritten(x) ==
  /\ pc[x] = "rewrite" /\ pc'[x] = "done" /\ outcome'[x] = "rejected"
  /\ InMemoryThen(x) = InMemory(x) /\ InFileThen(x) = Front(loaded[x]) /\ loaded'[x] = loaded[x]

\* /new removes the file.
Emptied(x) ==
  /\ pc[x] = "new_file" /\ pc'[x] = "new_mark"
  /\ InMemoryThen(x) = InMemory(x) /\ InFileThen(x) = <<>> /\ loaded'[x] = loaded[x]

\* What a step of the worker of x does to its conversation.
Effect(x) ==
  \/ Idle(x) \/ Cleared(x) \/ Written(x) \/ Remembered(x) \/ StrippedOff(x) \/ Compacted(x) \/ RolledBack(x)
  \/ Rewritten(x) \/ Emptied(x)

\* There is nothing else.
LEMMA Effects ==
  ASSUME WorkInv, NEW x \in Arrived, Work(x), setting' = setting
  PROVE  Effect(x)
<1>0. Types /\ x \in Messages /\ key[x] \in Keys /\ Sanitize[key[x]] \in Keys /\ WorkerOK(x)
  BY ArrivedAre DEF WorkInv, TypeInv, Workers
<1>1. PICK k, f : k = key[x] /\ f = Sanitize[key[x]]
  OBVIOUS
<1>2. /\ InMemory(x) = mem[k] /\ InMemoryThen(x) = mem'[k] /\ InFile(x) = disk[f] /\ InFileThen(x) = disk'[f]
      /\ k \in Keys /\ f \in Keys
  BY <1>0, <1>1 DEF InMemory, InMemoryThen, InFile, InFileThen
<1>3. CASE Drop(x)
  <2>1. /\ mem' = mem /\ disk' = disk /\ loaded' = loaded /\ pc[x] = "begin" /\ pc'[x] = "done"
        /\ outcome'[x] = "cancelled"
    BY <1>0, <1>3 DEF Drop, Goto, Types
  <2> QED BY <1>2, <2>1 DEF Idle, Effect
<1>4. CASE TakePending(x)
  <2>1. /\ mem' = mem /\ disk' = disk /\ loaded' = loaded /\ pc[x] = "begin" /\ pc'[x] \in {"fresh", "persist"}
        /\ outcome' = outcome
    BY <1>0, <1>4 DEF TakePending, Types
  <2>2. outcome[x] = "none"
    BY <1>0, <2>1 DEF WorkerOK
  <2> QED BY <1>2, <2>1, <2>2 DEF Idle, Effect
<1>5. CASE ClearFresh(x)
  <2>1. /\ mem'[k] = <<>> /\ disk' = disk /\ loaded' = loaded /\ pc[x] = "fresh" /\ pc'[x] = "persist"
        /\ outcome' = outcome
    BY <1>0, <1>1, <1>5 DEF ClearFresh, Goto, Types
  <2>2. outcome[x] = "none"
    BY <1>0, <2>1 DEF WorkerOK
  <2> QED BY <1>2, <2>1, <2>2 DEF Cleared, Effect
<1>6. CASE Persist(x)
  <2>1. /\ mem' = mem /\ loaded' = loaded /\ pc[x] = "persist" /\ pc'[x] = "remember" /\ out' = out
        /\ outcome' = outcome
    BY <1>0, <1>6 DEF Persist, Goto, Types
  <2>2. disk'[f] = Append(disk[f], Head(out[x])) \/ (setting.storageFails /\ disk'[f] = disk[f])
    BY <1>0, <1>1, <1>6 DEF Persist, Types
  <2> QED BY <1>2, <2>1, <2>2 DEF Written, Effect
<1>7. CASE Remember(x)
  <2>1. /\ pc[x] = "remember" /\ disk' = disk /\ loaded' = loaded /\ outcome' = outcome /\ out'[x] = Tail(out[x])
        /\ pc'[x] = IF Len(out[x]) > 1 THEN "persist" ELSE After(x)
        /\ mem'[k] = Extended(mem[k], Head(out[x]))
    BY <1>0, <1>1, <1>7 DEF Remember, Types
  <2>2. StillToAppend(x)
    BY <1>0, <2>1 DEF WorkerOK
  <2>3. CASE outcome[x] = "none" /\ out[x] = <<User(x)>>
    <3>1. Head(out[x]) = User(x) /\ pc'[x] = "read"
      BY <2>1, <2>3 DEF After
    <3> QED BY <1>2, <2>1, <2>3, <3>1 DEF Remembered, Effect
  <2>4. CASE outcome[x] \in {"answered", "silent", "failed"} /\ out[x] = <<Reply(x)>>
    <3>1. pc'[x] = After(x)
      BY <2>1, <2>4
    <3>2. pc'[x] = "done" \/ (pc'[x] = "strip" /\ outcome[x] = "answered")
      BY <2>4, <3>1 DEF After
    <3> QED BY <1>2, <2>1, <2>4, <3>2 DEF Remembered, Effect, Next1
  <2>5. CASE outcome[x] = "answered" /\ out[x] = <<Turn("tool", x), Reply(x)>>
    <3>1. pc'[x] = "persist" /\ out'[x] = <<Reply(x)>>
      BY <2>1, <2>5
    <3> QED BY <1>2, <2>1, <2>5, <3>1 DEF Remembered, Effect, Next1, Next2
  <2>6. CASE outcome[x] = "answered" /\ out[x] = <<Turn("call", x), Turn("tool", x), Reply(x)>>
    <3>1. pc'[x] = "persist" /\ out'[x] = <<Turn("tool", x), Reply(x)>>
      BY <2>1, <2>6
    <3> QED BY <1>2, <2>1, <2>6, <3>1 DEF Remembered, Effect, Next2, Next3
  <2> QED BY <2>2, <2>3, <2>4, <2>5, <2>6 DEF StillToAppend
<1>8. CASE Read(x)
  <2>1. mem' = mem /\ disk' = disk /\ loaded' = loaded /\ pc[x] = "read" /\ pc'[x] = "model"
    BY <1>0, <1>8 DEF Read, Goto, Types
  <2> QED BY <1>2, <2>1 DEF Idle, Effect
<1>9. CASE Cancel(x) \/ Answer(x) \/ NoReply(x) \/ Fail(x) \/ Overflow(x) \/ Reject(x)
  <2>1. PICK how, next, turns : Ending(x, how, next, turns) /\ Ends(x, how, next, turns)
    BY <1>9, EndsSomehow
  <2>2. /\ mem' = mem /\ disk' = disk /\ loaded' = loaded /\ pc[x] = "model" /\ pc'[x] = next
        /\ outcome'[x] = how /\ out'[x] = turns
    BY <1>0, <2>1 DEF Ends, Goto, Types
  <2>3. \/ next = "done" /\ how = "cancelled"
        \/ next \in {"compact", "rollback"}
        \/ next = "persist" /\ how # "none" /\ turns \in {Next3(x), Next1(x)}
    BY <2>1 DEF Ending, Next1, Next3
  <2> QED BY <1>2, <2>2, <2>3 DEF Idle, Effect
<1>10. CASE Strip(x)
  <2>1. /\ mem'[k] = Stripped(mem[k]) /\ disk' = disk /\ loaded' = loaded /\ pc[x] = "strip" /\ pc'[x] = "done"
        /\ outcome' = outcome
    BY <1>0, <1>1, <1>10 DEF Strip, Goto, Types
  <2>2. outcome[x] = "answered" /\ KeepTools > 0
    BY <1>0, <2>1 DEF WorkerOK
  <2> QED BY <1>2, <2>1, <2>2 DEF StrippedOff, Effect
<1>11. CASE Compact(x)
  <2>1. /\ mem'[k] = Normalize(Latest(CompactKeep, mem[k])) /\ disk' = disk /\ loaded' = loaded
        /\ pc[x] = "compact" /\ pc'[x] = "done" /\ outcome' = outcome
    BY <1>0, <1>1, <1>11 DEF Compact, Goto, Types
  <2>2. outcome[x] = "overflow"
    BY <1>0, <2>1 DEF WorkerOK
  <2> QED BY <1>2, <2>1, <2>2 DEF Compacted, Effect
<1>12. CASE Rollback(x)
  <2>1. pc[x] = "rollback" /\ disk' = disk
    BY <1>12 DEF Rollback
  <2>2. outcome[x] = "rejected"
    BY <1>0, <2>1 DEF WorkerOK
  <2>3. CASE IsOrphan(mem[k], x)
    <3>1. /\ mem'[k] = Front(mem[k]) /\ loaded'[x] = disk[f] /\ outcome' = outcome
          /\ pc'[x] = IF disk[f] = <<>> THEN "done" ELSE "rewrite"
      BY <1>0, <1>1, <1>12, <2>3 DEF Rollback, Types
    <3> QED BY <1>2, <2>1, <2>2, <2>3, <3>1 DEF RolledBack, Effect
  <2>4. CASE ~IsOrphan(mem[k], x)
    <3>1. mem' = mem /\ loaded' = loaded /\ out'[x] = <<Reply(x)>> /\ outcome'[x] = "failed" /\ pc'[x] = "persist"
      BY <1>0, <1>1, <1>12, <2>4 DEF Rollback, Types
    <3> QED BY <1>2, <2>1, <2>4, <3>1 DEF Idle, Effect, Next1
  <2> QED BY <2>3, <2>4
<1>13. CASE Rewrite(x)
  <2>1. /\ mem' = mem /\ loaded' = loaded /\ disk'[f] = Front(loaded[x]) /\ pc[x] = "rewrite" /\ pc'[x] = "done"
        /\ outcome' = outcome
    BY <1>0, <1>1, <1>13 DEF Rewrite, Kept, Goto, Types
  <2>2. outcome[x] = "rejected"
    BY <1>0, <2>1 DEF WorkerOK
  <2> QED BY <1>2, <2>1, <2>2 DEF Rewritten, Effect
<1>14. CASE NewClear(x)
  <2>1. mem'[k] = <<>> /\ disk' = disk /\ loaded' = loaded /\ pc[x] = "new" /\ pc'[x] = "new_file"
    BY <1>0, <1>1, <1>14 DEF NewClear, Goto, Types
  <2> QED BY <1>2, <2>1 DEF Cleared, Effect
<1>15. CASE NewDelete(x)
  <2>1. mem' = mem /\ loaded' = loaded /\ disk'[f] = <<>> /\ pc[x] = "new_file" /\ pc'[x] = "new_mark"
    BY <1>0, <1>1, <1>15 DEF NewDelete, Deleted, Goto, Types
  <2> QED BY <1>2, <2>1 DEF Emptied, Effect
<1>16. CASE NewMark(x)
  <2>1. /\ mem' = mem /\ disk' = disk /\ loaded' = loaded /\ pc[x] = "new_mark" /\ pc'[x] = "done"
        /\ outcome' = outcome
    BY <1>0, <1>16 DEF NewMark, Goto, Types
  <2>2. outcome[x] = "new"
    BY <1>0, <2>1 DEF WorkerOK
  <2> QED BY <1>2, <2>1, <2>2 DEF Idle, Effect
<1> QED BY <1>3, <1>4, <1>5, <1>6, <1>7, <1>8, <1>9, <1>10, <1>11, <1>12, <1>13, <1>14, <1>15, <1>16 DEF Work

\* The turn that is to be appended next.
LEMMA HeadIs ==
  ASSUME WorkInv, NEW x \in Messages, pc[x] \in {"persist", "remember"}
  PROVE  \E role \in Roles :
           /\ Head(out[x]) = Turn(role, x) /\ Head(out[x]) \in Turns
           /\ KeepTools = 0 => role \in {"user", "assistant"}
           /\ outcome[x] = "none" => role = "user"
           /\ outcome[x] # "none" => role # "user"
           /\ outcome[x] = "failed" => role = "assistant"
<1>1. StillToAppend(x)
  BY DEF WorkInv, Workers, WorkerOK
<1>2. ASSUME NEW role \in Roles PROVE Turn(role, x) \in Turns
  BY TurnsAre
<1>3. {"user", "assistant", "call", "tool"} \subseteq Roles
  BY DEF Roles
<1>4. CASE outcome[x] = "none" /\ out[x] = <<User(x)>>
  <2>1. Head(out[x]) = Turn("user", x)
    BY <1>4 DEF User
  <2> QED BY <1>2, <1>3, <1>4, <2>1
<1>5. CASE outcome[x] \in {"answered", "silent", "failed"} /\ out[x] = <<Reply(x)>>
  <2>1. Head(out[x]) = Turn("assistant", x)
    BY <1>5 DEF Reply
  <2> QED BY <1>2, <1>3, <1>5, <2>1
<1>6. CASE outcome[x] = "answered" /\ KeepTools > 0 /\ out[x] = <<Turn("tool", x), Reply(x)>>
  <2>1. Head(out[x]) = Turn("tool", x)
    BY <1>6
  <2> QED BY <1>2, <1>3, <1>6, <2>1
<1>7. CASE outcome[x] = "answered" /\ KeepTools > 0 /\ out[x] = <<Turn("call", x), Turn("tool", x), Reply(x)>>
  <2>1. Head(out[x]) = Turn("call", x)
    BY <1>7
  <2> QED BY <1>2, <1>3, <1>7, <2>1
<1> QED BY <1>1, <1>4, <1>5, <1>6, <1>7 DEF StillToAppend

-----------------------------------------------------------------------------
(* What turns may hold.                                                      *)

\* Requests and replies only.
Plain(turns) == \A i \in DOMAIN turns : turns[i].role \in {"user", "assistant"}

\* A file holds turns as they were appended, tool turns only when some are kept.
Filed(turns, keep) == Single(turns) /\ (keep = 0 => Plain(turns))

\* Who speaks in the turns of memory, and which turns a file holds.
Shape ==
  /\ \A k \in Keys : Mute(mem[k]) /\ Filed(disk[k], KeepTools)
  /\ \A m \in Messages : Filed(loaded[m], KeepTools)

\* Fewer turns, and one more.
LEMMA FiledFrom ==
  ASSUME NEW a, NEW b, From(a, b), NEW keep, Filed(b, keep)
  PROVE  Filed(a, keep)
BY FromKeeps DEF Filed, Plain, From

\* One turn more in a file.
LEMMA AppendFiled ==
  ASSUME NEW turns \in Seq(Turns), NEW keep, Filed(turns, keep), NEW role \in Roles, NEW m \in Messages \cup {Closure},
         keep = 0 => role \in {"user", "assistant"}
  PROVE  Filed(Append(turns, Turn(role, m)), keep)
<1>1. PICK t, s : t = Turn(role, m) /\ s = Append(turns, t)
  OBVIOUS
<1>2. Single(s)
  BY <1>1, AppendSingle DEF Filed
<1>3. t.role = role
  BY <1>1 DEF Turn
<1>4. \A i \in DOMAIN s : (i \in DOMAIN turns /\ s[i] = turns[i]) \/ s[i] = t
  BY <1>1
<1>5. keep = 0 => Plain(s)
  BY <1>3, <1>4 DEF Filed, Plain
<1> QED BY <1>1, <1>2, <1>5 DEF Filed

\* append_sender_turn: what the turns may hold and what follows what.
LEMMA ExtendedShape ==
  ASSUME setting \in Settings, NEW turns \in Seq(Turns), NEW t \in Turns
  PROVE  LET e == Extended(turns, t)
         IN  /\ Mute(turns) /\ (t.role \in {"user", "tool"} => ~Replied(t.parts)) => Mute(e)
             /\ CallsAlone(turns) /\ CallAlone(t) => CallsAlone(e)
             /\ Unasked(turns) /\ (t.role = "tool" => ~Asks(t.parts)) => Unasked(e)
             /\ Spaced(turns) /\ (turns # <<>> => Follows(Last(turns).role, t.role)) => Spaced(e)
             /\ Torn(e) => Torn(turns) \/ (turns # <<>> /\ Last(turns).role = "tool" /\ t.role = "user")
             /\ e \in Seq(Turns) /\ e # <<>> /\ Last(e) = t
<1>1. PICK s, n : s = Append(turns, t) /\ n = setting.maxHistory
  OBVIOUS
<1>2. n \in Nat
  BY <1>1, SettingIs
<1>3. /\ Mute(turns) /\ (t.role \in {"user", "tool"} => ~Replied(t.parts)) => Mute(s)
      /\ Spaced(turns) /\ (turns # <<>> => Follows(Last(turns).role, t.role)) => Spaced(s)
      /\ Torn(s) <=> Torn(turns) \/ (turns # <<>> /\ Last(turns).role = "tool" /\ t.role = "user")
      /\ CallsAlone(turns) /\ CallAlone(t) => CallsAlone(s)
      /\ Unasked(turns) /\ (t.role = "tool" => ~Asks(t.parts)) => Unasked(s)
      /\ s \in Seq(Turns)
  BY <1>1, AppendShape
<1>4. PICK e : e = Extended(turns, t)
  OBVIOUS
<1>5. e = Latest(n, s)
  BY <1>1, <1>4 DEF Extended
<1>6. From(e, s) /\ Along(e, s)
  BY <1>2, <1>3, <1>5, LatestFrom
<1>7. (Mute(s) => Mute(e)) /\ (CallsAlone(s) => CallsAlone(e)) /\ (Unasked(s) => Unasked(e))
  BY <1>6, FromKeeps
<1>8. (Spaced(s) => Spaced(e)) /\ (Torn(e) => Torn(s))
  BY <1>6, AlongKeeps
<1>9. e \in Seq(Turns) /\ e # <<>> /\ Last(e) = t
  BY <1>4, ExtendedIs
<1> QED BY <1>3, <1>4, <1>7, <1>8, <1>9

\* What hydration puts in memory: the end of the file, and an assistant's turn after a
\* request at its end.
LEMMA HydratedShape ==
  ASSUME NEW turns \in Seq(Turns)
  PROVE  LET h == Hydrated(turns)
         IN  /\ h \in Seq(Turns)
             /\ Single(turns) => Single(h)
             /\ Spaced(turns) => Spaced(h)
             /\ Torn(h) => Torn(turns)
             /\ h # <<>> => /\ Last(h).role # "user"
                            /\ Last(h).role = "tool" => turns # <<>> /\ Last(turns).role = "tool"
             /\ \A keep : Filed(turns, keep) => Filed(h, keep)
             /\ \A m \in Messages : ClosedIn(turns, m) => ClosedIn(h, m)
<1>0. HydrateMax \in Nat /\ HydrateMax > 0
  BY HistoryConstants
<1>1. PICK s, r, h : s = Latest(HydrateMax, turns) /\ r = Reply(Closure) /\ h = Hydrated(turns)
  OBVIOUS
<1>2. s \in Seq(Turns) /\ (turns # <<>> => s # <<>> /\ Last(s) = Last(turns)) /\ Len(s) <= Len(turns)
  BY <1>0, <1>1, LatestKeepsEnd
<1>3. From(s, turns) /\ Along(s, turns)
  BY <1>0, <1>1, LatestFrom
<1>4. /\ Single(turns) => Single(s)
      /\ Spaced(turns) => Spaced(s)
      /\ Torn(s) => Torn(turns)
      /\ \A keep : Filed(turns, keep) => Filed(s, keep)
  BY <1>3, FromKeeps, AlongKeeps, FiledFrom
<1>5. \A m : ClosedIn(turns, m) => ClosedIn(s, m)
  BY <1>0, <1>1, LatestCloses
<1>6. turns = <<>> => s = <<>>
  BY <1>2
<1>7. CASE Open(turns)
  <2>1. turns # <<>> /\ Last(turns).role = "user" /\ h = Append(s, r)
    BY <1>1, <1>7 DEF Open, Hydrated
  <2>2. /\ r = Turn("assistant", Closure) /\ r.role = "assistant"
        /\ "assistant" \in Roles /\ Closure \in Messages \cup {Closure}
    BY <1>1 DEF Reply, Turn, Roles
  <2>3. r \in Turns
    BY <2>2, TurnsAre
  <2>4. /\ Spaced(s) /\ (s # <<>> => Follows(Last(s).role, r.role)) => Spaced(h)
        /\ Torn(h) <=> Torn(s) \/ (s # <<>> /\ Last(s).role = "tool" /\ r.role = "user")
        /\ h \in Seq(Turns) /\ h # <<>> /\ Last(h) = r
    BY <1>2, <2>1, <2>3, AppendShape
  <2>5. Single(s) => Single(h)
    BY <1>2, <2>1, <2>2, AppendSingle
  <2>6. \A keep : Filed(s, keep) => Filed(h, keep)
    BY <1>2, <2>1, <2>2, AppendFiled
  <2>7. Follows(Last(s).role, r.role)
    BY <1>2, <2>1, <2>2 DEF Follows
  <2>8. ASSUME NEW m \in Messages, ClosedIn(s, m) PROVE ClosedIn(h, m)
    <3>1. Shut(r.parts, m)
      BY <2>2, PartsOfTurns
    <3> QED BY <1>2, <2>1, <2>3, <2>8, <3>1, AppendCloses
  <2> QED BY <1>1, <1>4, <1>5, <2>2, <2>4, <2>5, <2>6, <2>7, <2>8
<1>8. CASE ~Open(turns)
  <2>1. h = s
    BY <1>1, <1>8 DEF Hydrated
  <2>2. turns # <<>> => Last(turns).role # "user"
    BY <1>8 DEF Open
  <2> QED BY <1>1, <1>2, <1>4, <1>5, <1>6, <2>1, <2>2
<1> QED BY <1>7, <1>8

\* compact_sender_history keeps the end.
LEMMA CompactedFrom ==
  ASSUME NEW turns \in Seq(Turns)
  PROVE  LET s == Latest(CompactKeep, turns)
         IN  /\ s \in Seq(Turns) /\ From(s, turns) /\ Along(s, turns)
             /\ turns # <<>> => s # <<>> /\ Last(s) = Last(turns)
             /\ turns = <<>> => s = <<>>
             /\ \A m : ClosedIn(turns, m) => ClosedIn(s, m)
<1>1. CompactKeep \in Nat /\ CompactKeep > 0
  BY HistoryConstants
<1>2. PICK s : s = Latest(CompactKeep, turns)
  OBVIOUS
<1>3. /\ s \in Seq(Turns) /\ Len(s) <= Len(turns)
      /\ turns # <<>> => s # <<>> /\ Last(s) = Last(turns)
  BY <1>1, <1>2, LatestKeepsEnd
<1>4. From(s, turns) /\ Along(s, turns)
  BY <1>1, <1>2, LatestFrom
<1>5. \A m : ClosedIn(turns, m) => ClosedIn(s, m)
  BY <1>1, <1>2, LatestCloses
<1>6. turns = <<>> => s = <<>>
  BY <1>3
<1> QED BY <1>2, <1>3, <1>4, <1>5, <1>6

\* The steps of workers keep the shape,
LEMMA ShapeWork ==
  ASSUME WorkInv, Shape, NEW x \in Arrived, Work(x), setting' = setting
  PROVE  Shape'
<1>0. /\ Types /\ x \in Messages /\ key[x] \in Keys /\ Sanitize[key[x]] \in Keys /\ setting \in Settings
  BY ArrivedAre DEF WorkInv, TypeInv, Types
<1>1. PICK keep, k, f : keep = KeepTools /\ k = key[x] /\ f = Sanitize[key[x]]
  OBVIOUS
<1>2. /\ InMemory(x) = mem[k] /\ InMemoryThen(x) = mem'[k] /\ InFile(x) = disk[f] /\ InFileThen(x) = disk'[f]
      /\ k \in Keys /\ f \in Keys /\ mem[k] \in Seq(Turns) /\ disk[f] \in Seq(Turns) /\ loaded[x] \in Seq(Turns)
      /\ KeepTools' = keep
  BY <1>0, <1>1 DEF InMemory, InMemoryThen, InFile, InFileThen, Types, KeepTools
<1>3. /\ \A j \in Keys : Mute(mem[j]) /\ Filed(disk[j], keep)
      /\ \A m \in Messages : Filed(loaded[m], keep)
  BY <1>1 DEF Shape
<1>4. /\ \A m \in Messages : m # x => loaded'[m] = loaded[m]
      /\ \A j \in Keys : (j # k => mem'[j] = mem[j]) /\ (j # f => disk'[j] = disk[j])
  BY <1>0, <1>1, WorkerFrame
<1>5. Mute(mem'[k]) /\ Filed(disk'[f], keep) /\ Filed(loaded'[x], keep) => Shape'
  BY <1>0, <1>2, <1>3, <1>4 DEF Shape
<1> SUFFICES Mute(mem'[k]) /\ Filed(disk'[f], keep) /\ Filed(loaded'[x], keep)
  BY <1>5
<1>6. PICK a, b : a = mem[k] /\ b = disk[f]
  OBVIOUS
<1>7. a \in Seq(Turns) /\ b \in Seq(Turns) /\ Mute(a) /\ Filed(b, keep) /\ Filed(loaded[x], keep)
  BY <1>0, <1>2, <1>3, <1>6
<1>8. CASE Idle(x)
  BY <1>2, <1>6, <1>7, <1>8 DEF Idle
<1>9. CASE Cleared(x)
  BY <1>2, <1>6, <1>7, <1>9, NothingIs DEF Cleared
<1>10. CASE Written(x)
  <2>1. pc[x] = "persist"
    BY <1>10 DEF Written
  <2>2. PICK role \in Roles : Head(out[x]) = Turn(role, x) /\ (KeepTools = 0 => role \in {"user", "assistant"})
    BY <1>0, <2>1, HeadIs
  <2>3. Filed(Append(b, Turn(role, x)), keep)
    BY <1>0, <1>1, <1>7, <2>2, AppendFiled
  <2> QED BY <1>2, <1>6, <1>7, <1>10, <2>2, <2>3 DEF Written
<1>11. CASE Remembered(x)
  <2>1. pc[x] = "remember"
    BY <1>11 DEF Remembered
  <2>2. PICK role \in Roles : Head(out[x]) = Turn(role, x) /\ Head(out[x]) \in Turns
    BY <1>0, <2>1, HeadIs
  <2>3. PICK t : t = Turn(role, x)
    OBVIOUS
  <2>4. t.role \in {"user", "tool"} => ~Replied(t.parts)
    BY <2>3, TurnShape
  <2>5. Mute(Extended(a, t))
    BY <1>0, <1>7, <2>2, <2>3, <2>4, ExtendedShape
  <2> QED BY <1>2, <1>6, <1>7, <1>11, <2>2, <2>3, <2>5 DEF Remembered
<1>12. CASE StrippedOff(x)
  <2>1. Mute(Stripped(a))
    BY <1>7, StrippedShape
  <2> QED BY <1>2, <1>6, <1>7, <1>12, <2>1 DEF StrippedOff
<1>13. CASE Compacted(x)
  <2>1. PICK s : s = Latest(CompactKeep, a)
    OBVIOUS
  <2>2. s \in Seq(Turns) /\ From(s, a)
    BY <1>7, <2>1, CompactedFrom
  <2>3. Mute(s)
    BY <1>7, <2>2, FromKeeps
  <2>4. Mute(Normalize(s))
    BY <2>2, <2>3, NormalizeShape
  <2> QED BY <1>2, <1>6, <1>7, <1>13, <2>1, <2>4 DEF Compacted
<1>14. CASE RolledBack(x)
  <2>1. a # <<>>
    BY <1>2, <1>6, <1>14 DEF RolledBack, IsOrphan
  <2>2. From(Front(a), a)
    BY <1>7, <2>1, FrontFrom
  <2>3. Mute(Front(a))
    BY <1>7, <2>2, FromKeeps
  <2> QED BY <1>2, <1>6, <1>7, <1>14, <2>3 DEF RolledBack
<1>15. CASE Rewritten(x)
  <2>1. PICK l : l = loaded[x]
    OBVIOUS
  <2>2. Filed(Front(l), keep)
    <3>1. CASE l = <<>>
      <4>1. DOMAIN Front(l) = {}
        BY <3>1 DEF Front
      <4> QED BY <4>1 DEF Filed, Single, Plain
    <3>2. CASE l # <<>>
      <4>1. From(Front(l), l)
        BY <1>2, <2>1, <3>2, FrontFrom
      <4> QED BY <1>7, <2>1, <4>1, FiledFrom
    <3> QED BY <3>1, <3>2
  <2> QED BY <1>2, <1>6, <1>7, <1>15, <2>1, <2>2 DEF Rewritten
<1>16. CASE Emptied(x)
  <2>1. Filed(<<>>, keep)
    BY DEF Filed, Single, Plain
  <2> QED BY <1>2, <1>6, <1>7, <1>16, <2>1 DEF Emptied
<1> QED BY <1>8, <1>9, <1>10, <1>11, <1>12, <1>13, <1>14, <1>15, <1>16, Effects DEF Effect

\* and all steps do.
LEMMA ShapeStep == WorkInv /\ Shape /\ [Next]_vars => Shape'
<1> SUFFICES ASSUME WorkInv, Shape, [Next]_vars PROVE Shape'
  OBVIOUS
<1>1. UNCHANGED <<setting, mem, disk, loaded>> => Shape'
  BY DEF Shape, KeepTools
<1>2. CASE UNCHANGED vars
  BY <1>1, <1>2 DEF vars
<1>3. ASSUME NEW k \in Keys, NEW first \in {"begin", "new"}, Arrive(k, first), setting' = setting PROVE Shape'
  BY <1>1, <1>3 DEF Arrive
<1>4. ASSUME Restart, setting' = setting PROVE Shape'
  <2>1. /\ mem' = [k \in Keys |-> Hydrated(disk[k])] /\ loaded' = loaded /\ KeepTools' = KeepTools
        /\ \A k \in Keys : disk'[k] = disk[k] \/ disk'[k] = Append(disk[k], Reply(Closure))
    BY <1>4 DEF Restart, KeepTools, WorkInv, TypeInv, Types
  <2>2. ASSUME NEW k \in Keys PROVE Mute(mem'[k]) /\ Filed(disk'[k], KeepTools)
    <3>1. PICK b : b = disk[k]
      OBVIOUS
    <3>2. b \in Seq(Turns) /\ Filed(b, KeepTools)
      BY <3>1 DEF WorkInv, TypeInv, Types, Shape
    <3>3. Single(Hydrated(b))
      BY <3>2, HydratedShape DEF Filed
    <3>4. Mute(Hydrated(b))
      BY <3>3, SingleIs
    <3>5. Filed(Append(b, Turn("assistant", Closure)), KeepTools)
      BY <3>2, AppendFiled DEF Roles
    <3> QED BY <2>1, <3>1, <3>2, <3>4, <3>5 DEF Reply
  <2> QED BY <2>1, <2>2 DEF Shape
<1> QED BY <1>2, <1>3, <1>4, Steps, ShapeWork

\* It holds at the start.
LEMMA ShapeInit == Init => Shape
<1> SUFFICES ASSUME Init PROVE Shape
  OBVIOUS
<1>1. Filed(<<>>, KeepTools)
  BY DEF Filed, Single, Plain
<1> QED BY <1>1, NothingIs DEF Init, Shape

-----------------------------------------------------------------------------
(* What follows what, while messages of a conversation come one at a time.   *)

\* Turns follow each other as they are made.
InOrder(turns) == Spaced(turns) /\ CallsAlone(turns)
Continues(turns, t) == turns # <<>> /\ Follows(Last(turns).role, t.role)

\* The turn to append continues memory and the file; what was written is remembered next.
Pacing(m) ==
  /\ pc[m] \in {"persist", "remember"} /\ outcome[m] # "none" => Continues(mem[key[m]], Head(out[m]))
  /\ Orderly /\ Alone(key[m]) =>
       /\ pc[m] = "persist" /\ outcome[m] # "none" => Continues(disk[key[m]], Head(out[m]))
       /\ pc[m] = "remember" => disk[key[m]] # <<>> /\ Last(disk[key[m]]) = Head(out[m])

\* Where calls are text, every run of calls and results is between a request and what
\* comes next; memory loses that when a restart reads a file that appends did not reach.
Spacing ==
  ~setting.overlap /\ ~setting.nativeCalls =>
    /\ \A k \in Keys : restarts = 0 \/ (Orderly /\ Alone(k)) => InOrder(mem[k])
    /\ \A k \in Keys : Orderly /\ Alone(k) => Spaced(disk[k])
    /\ \A m \in Arrived : Pacing(m)

\* The turns that an answer leads to.
LEMMA HeadsAre ==
  ASSUME NEW x
  PROVE  /\ Head(Next3(x)) = Turn("call", x) /\ Head(Next2(x)) = Turn("tool", x) /\ Head(Next1(x)) = Turn("assistant", x)
         /\ \A role : Turn(role, x).role = role
BY DEF Next1, Next2, Next3, Reply, Turn

\* What the steps of the worker do to the order of its conversation's turns.
LEMMA OrderWork ==
  ASSUME PlaceInv, AskedLast, Shape, Spacing, NEW x \in Arrived, Work(x), setting' = setting,
         ~setting.overlap, ~setting.nativeCalls, NEW k, k = key[x], NEW sole, sole <=> Orderly /\ Alone(k)
  PROVE  /\ restarts = 0 \/ sole => InOrder(mem'[k])
         /\ sole => Spaced(disk'[k])
         /\ pc'[x] \in {"persist", "remember"} /\ outcome'[x] # "none" => Continues(mem'[k], Head(out'[x]))
         /\ sole => /\ pc'[x] = "persist" /\ outcome'[x] # "none" => Continues(disk'[k], Head(out'[x]))
                    /\ pc'[x] = "remember" => disk'[k] # <<>> /\ Last(disk'[k]) = Head(out'[x])
<1> DEFINE Paced == /\ pc'[x] \in {"persist", "remember"} /\ outcome'[x] # "none" => Continues(mem'[k], Head(out'[x]))
                    /\ sole => /\ pc'[x] = "persist" /\ outcome'[x] # "none" => Continues(disk'[k], Head(out'[x]))
                               /\ pc'[x] = "remember" => disk'[k] # <<>> /\ Last(disk'[k]) = Head(out'[x])
           Ordered == (restarts = 0 \/ sole => InOrder(mem'[k])) /\ (sole => Spaced(disk'[k]))
<1> SUFFICES Ordered /\ Paced
  OBVIOUS
<1>0. /\ WorkInv /\ Types /\ x \in Messages /\ k \in Keys /\ Sanitize[k] \in Keys /\ setting \in Settings
  BY ArrivedAre DEF PlaceInv, WorkInv, TypeInv, Types
<1>1. PICK f : f = Sanitize[k]
  OBVIOUS
<1>2. /\ InMemory(x) = mem[k] /\ InMemoryThen(x) = mem'[k] /\ InFile(x) = disk[f] /\ InFileThen(x) = disk'[f]
      /\ f \in Keys /\ mem[k] \in Seq(Turns) /\ disk[f] \in Seq(Turns) /\ (sole => f = k)
  BY <1>0, <1>1, AloneIs DEF InMemory, InMemoryThen, InFile, InFileThen, Types
<1>3. PICK a, b : a = mem[k] /\ b = disk[f]
  OBVIOUS
<1>4. a \in Seq(Turns) /\ b \in Seq(Turns) /\ (restarts = 0 \/ sole => InOrder(a)) /\ (sole => Spaced(b))
  BY <1>0, <1>2, <1>3 DEF Spacing
<1>5. /\ pc[x] \in {"persist", "remember"} /\ outcome[x] # "none" => Continues(a, Head(out[x]))
      /\ sole => /\ pc[x] = "persist" /\ outcome[x] # "none" => Continues(b, Head(out[x]))
                 /\ pc[x] = "remember" => b # <<>> /\ Last(b) = Head(out[x])
  <2>1. Pacing(x)
    BY DEF Spacing
  <2> QED BY <1>2, <1>3, <2>1 DEF Pacing
<1>6. ASSUME pc[x] \in {"read", "model", "rollback"}
      PROVE  a # <<>> /\ Last(a) = User(x) /\ (sole => b # <<>> /\ Last(b) = User(x))
  <2>1. a # <<>> /\ Last(a) = User(x)
    BY <1>3, <1>6 DEF AskedLast
  <2>2. ASSUME sole PROVE EndsWith(b, x)
    <3>1. Placed(x)
      BY <2>2 DEF PlaceInv, AllPlaced
    <3> QED BY <1>1, <1>3, <1>6, <3>1 DEF Placed, File
  <2> QED BY <2>1, <2>2 DEF EndsWith
<1>7. \A r : Follows(r, "user")
  BY DEF Follows
<1>8. User(x) = Turn("user", x) /\ Reply(x) = Turn("assistant", x) /\ \A role : Turn(role, x).role = role
  BY DEF User, Reply, Turn
<1>9. /\ Follows("user", "call") /\ Follows("user", "assistant") /\ Follows("call", "tool")
      /\ Follows("tool", "assistant")
  BY DEF Follows
<1>10. CASE Idle(x)
  <2>1. mem'[k] = a /\ disk'[f] = b
    BY <1>2, <1>3, <1>10 DEF Idle
  <2>2. Ordered
    BY <1>2, <1>4, <2>1
  <2>3. CASE pc'[x] \notin {"persist", "remember"} \/ (pc'[x] = "persist" /\ outcome'[x] = "none")
    BY <2>2, <2>3
  <2>4. CASE pc[x] = "model" /\ pc'[x] = "persist" /\ out'[x] \in {Next3(x), Next1(x)}
    <3>0. pc[x] \in {"read", "model", "rollback"}
      BY <2>4
    <3>a. a # <<>> /\ Last(a) = User(x) /\ (sole => b # <<>> /\ Last(b) = User(x))
      BY <1>6, <3>0
    <3>b. User(x).role = "user"
      BY DEF User, Turn
    <3>1. a # <<>> /\ Last(a).role = "user" /\ (sole => b # <<>> /\ Last(b).role = "user")
      BY <3>a, <3>b
    <3>2. Head(out'[x]).role \in {"call", "assistant"}
      BY <2>4, HeadsAre
    <3> QED BY <1>2, <1>9, <2>1, <2>2, <2>4, <3>1, <3>2 DEF Continues
  <2>5. CASE pc[x] = "rollback" /\ ~IsOrphan(a, x)
    <3>0. pc[x] \in {"read", "model", "rollback"}
      BY <2>5
    <3>a. a # <<>> /\ Last(a) = User(x)
      BY <1>6, <3>0
    <3> QED BY <2>5, <3>a DEF IsOrphan
  <2> QED BY <1>2, <1>3, <1>10, <2>3, <2>4, <2>5 DEF Idle
<1>11. CASE Cleared(x)
  <2>1. mem'[k] = <<>> /\ disk'[f] = b /\ pc'[x] \in {"persist", "new_file"} /\ (pc'[x] = "persist" => outcome'[x] = "none")
    BY <1>2, <1>3, <1>11 DEF Cleared
  <2> QED BY <1>2, <1>4, <2>1, NothingIs DEF InOrder
<1>12. CASE Written(x)
  <2>1. /\ pc[x] = "persist" /\ pc'[x] = "remember" /\ mem'[k] = a /\ out'[x] = out[x] /\ outcome'[x] = outcome[x]
        /\ sole => disk'[f] = Append(b, Head(out[x]))
    BY <1>2, <1>3, <1>12 DEF Written, Orderly
  <2>2. PICK role \in Roles : /\ Head(out[x]) = Turn(role, x) /\ Head(out[x]) \in Turns
                              /\ outcome[x] = "none" => role = "user"
    BY <1>0, <2>1, HeadIs
  <2>3. PICK t, s : t = Head(out[x]) /\ s = Append(b, t)
    OBVIOUS
  <2>4. sole /\ b # <<>> => Follows(Last(b).role, t.role)
    BY <1>5, <1>7, <1>8, <2>1, <2>2, <2>3 DEF Continues
  <2>5. s # <<>> /\ Last(s) = t /\ (sole => Spaced(s))
    BY <1>4, <2>2, <2>3, <2>4, AppendShape
  <2> QED BY <1>2, <1>4, <1>5, <2>1, <2>3, <2>5
<1>13. CASE Remembered(x)
  <2>1. /\ pc[x] = "remember" /\ mem'[k] = Extended(a, Head(out[x])) /\ disk'[f] = b /\ outcome'[x] = outcome[x]
    BY <1>2, <1>3, <1>13 DEF Remembered
  <2>2. PICK role \in Roles : /\ Head(out[x]) = Turn(role, x) /\ Head(out[x]) \in Turns
                              /\ outcome[x] = "none" => role = "user"
    BY <1>0, <2>1, HeadIs
  <2>3. PICK t, e : t = Head(out[x]) /\ e = Extended(a, t)
    OBVIOUS
  <2>4. a # <<>> => Follows(Last(a).role, t.role)
    BY <1>5, <1>7, <1>8, <2>1, <2>2, <2>3 DEF Continues
  <2>5. CallAlone(t)
    BY <2>2, <2>3, TurnShape
  <2>6. e # <<>> /\ Last(e) = t /\ (InOrder(a) => InOrder(e))
    BY <1>0, <1>4, <2>2, <2>3, <2>4, <2>5, ExtendedShape DEF InOrder
  <2>7. Ordered
    BY <1>2, <1>4, <2>1, <2>3, <2>6
  <2>8. CASE pc'[x] \in {"read", "done", "strip"}
    BY <2>7, <2>8
  <2>9. CASE pc'[x] = "persist" /\ ((out[x] = Next3(x) /\ out'[x] = Next2(x)) \/ (out[x] = Next2(x) /\ out'[x] = Next1(x)))
    <3>1. Follows(t.role, Head(out'[x]).role)
      BY <1>9, <2>3, <2>9, HeadsAre
    <3>2. Continues(mem'[k], Head(out'[x]))
      BY <2>1, <2>3, <2>6, <3>1 DEF Continues
    <3>3. sole => Continues(disk'[k], Head(out'[x]))
      BY <1>2, <1>5, <2>1, <2>3, <3>1 DEF Continues
    <3> QED BY <2>7, <2>9, <3>2, <3>3
  <2> QED BY <1>13, <2>8, <2>9 DEF Remembered
<1>14. CASE StrippedOff(x)
  <2>1. mem'[k] = Stripped(a) /\ disk'[f] = b /\ pc'[x] = "done"
    BY <1>2, <1>3, <1>14 DEF StrippedOff
  <2>2. InOrder(a) => InOrder(Stripped(a))
    BY <1>4, StrippedShape DEF InOrder
  <2> QED BY <1>2, <1>4, <2>1, <2>2
<1>15. CASE Compacted(x)
  <2>1. mem'[k] = Normalize(Latest(CompactKeep, a)) /\ disk'[f] = b /\ pc'[x] = "done"
    BY <1>2, <1>3, <1>15 DEF Compacted
  <2>2. PICK s : s = Latest(CompactKeep, a)
    OBVIOUS
  <2>3. s \in Seq(Turns) /\ From(s, a) /\ Along(s, a)
    BY <1>4, <2>2, CompactedFrom
  <2>4. InOrder(a) => Spaced(s) /\ CallsAlone(s)
    BY <2>3, FromKeeps, AlongKeeps DEF InOrder
  <2>5. Spaced(s) /\ CallsAlone(s) => InOrder(Normalize(s))
    BY <2>3, NormalizeShape DEF InOrder
  <2> QED BY <1>2, <1>4, <2>1, <2>2, <2>4, <2>5
<1>16. CASE RolledBack(x)
  <2>1. mem'[k] = Front(a) /\ disk'[f] = b /\ pc'[x] \in {"done", "rewrite"} /\ a # <<>>
    BY <1>2, <1>3, <1>16 DEF RolledBack, IsOrphan
  <2>2. From(Front(a), a) /\ Along(Front(a), a)
    BY <1>4, <2>1, FrontFrom
  <2>3. InOrder(a) => InOrder(Front(a))
    BY <2>2, FromKeeps, AlongKeeps DEF InOrder
  <2> QED BY <1>2, <1>4, <2>1, <2>3
<1>17. CASE Rewritten(x)
  <2>1. mem'[k] = a /\ disk'[f] = Front(loaded[x]) /\ pc[x] = "rewrite" /\ pc'[x] = "done"
    BY <1>2, <1>3, <1>17 DEF Rewritten
  <2>2. sole => loaded[x] = b /\ b # <<>>
    BY <1>1, <1>3, <2>1 DEF PlaceInv, AllPlaced, Placed, EndsWith, File
  <2>3. b # <<>> => Along(Front(b), b)
    BY <1>4, FrontFrom
  <2>4. sole => Spaced(Front(b))
    BY <1>4, <2>2, <2>3, AlongKeeps
  <2> QED BY <1>2, <1>4, <2>1, <2>2, <2>4
<1>18. CASE Emptied(x)
  <2>1. mem'[k] = a /\ disk'[f] = <<>> /\ pc'[x] = "new_mark"
    BY <1>2, <1>3, <1>18 DEF Emptied
  <2> QED BY <1>2, <1>4, <2>1, NothingIs
<1> QED BY <1>0, <1>10, <1>11, <1>12, <1>13, <1>14, <1>15, <1>16, <1>17, <1>18, Effects DEF Effect

\* The steps of workers keep the order,
LEMMA SpacingWork ==
  ASSUME PlaceInv, AskedLast, Shape, Spacing, NEW x \in Arrived, Work(x), setting' = setting
  PROVE  Spacing'
<1> SUFFICES ASSUME ~setting.overlap, ~setting.nativeCalls
             PROVE  /\ \A k \in Keys : restarts' = 0 \/ (Orderly /\ Alone(k)) => InOrder(mem'[k])
                    /\ \A k \in Keys : Orderly /\ Alone(k) => Spaced(disk'[k])
                    /\ \A m \in Arrived' : Pacing(m)'
  BY DEF Spacing, Orderly, InOrder, Spaced, CallsAlone, Alone
<1>0. /\ WorkInv /\ Types /\ x \in Messages /\ key[x] \in Keys /\ \A m \in Arrived : m \in Messages /\ key[m] \in Keys
  BY ArrivedAre DEF PlaceInv, WorkInv, TypeInv
<1>1. /\ key' = key /\ restarts' = restarts /\ ~Over(x)
      /\ \A j \in Messages : j # x => pc'[j] = pc[j] /\ outcome'[j] = outcome[j] /\ out'[j] = out[j]
      /\ \A k \in Keys : k # key[x] => mem'[k] = mem[k]
  BY <1>0, WorkerFrame
<1>2. PICK k, sole : k = key[x] /\ (sole <=> Orderly /\ Alone(k))
  OBVIOUS
<1>3. /\ restarts = 0 \/ sole => InOrder(mem'[k])
      /\ sole => Spaced(disk'[k])
      /\ pc'[x] \in {"persist", "remember"} /\ outcome'[x] # "none" => Continues(mem'[k], Head(out'[x]))
      /\ sole => /\ pc'[x] = "persist" /\ outcome'[x] # "none" => Continues(disk'[k], Head(out'[x]))
                 /\ pc'[x] = "remember" => disk'[k] # <<>> /\ Last(disk'[k]) = Head(out'[x])
  BY <1>2, OrderWork
<1>4. ASSUME NEW j \in Keys, j # k, Alone(j) PROVE disk'[j] = disk[j]
  BY <1>0, <1>2, <1>4, OthersKept, AloneIs
<1>5. ASSUME NEW j \in Keys
      PROVE  /\ restarts' = 0 \/ (Orderly /\ Alone(j)) => InOrder(mem'[j])
             /\ Orderly /\ Alone(j) => Spaced(disk'[j])
  <2>1. CASE j = k
    BY <1>1, <1>2, <1>3, <2>1
  <2>2. CASE j # k
    BY <1>1, <1>2, <1>4, <2>2 DEF Spacing
  <2> QED BY <2>1, <2>2
<1>6. ASSUME NEW m \in Arrived PROVE Pacing(m)'
  <2>1. Pacing(m)' <=>
          /\ pc'[m] \in {"persist", "remember"} /\ outcome'[m] # "none" => Continues(mem'[key[m]], Head(out'[m]))
          /\ Orderly /\ Alone(key[m]) =>
               /\ pc'[m] = "persist" /\ outcome'[m] # "none" => Continues(disk'[key[m]], Head(out'[m]))
               /\ pc'[m] = "remember" => disk'[key[m]] # <<>> /\ Last(disk'[key[m]]) = Head(out'[m])
    BY <1>1 DEF Pacing, Continues, Follows, Orderly, Alone
  <2>2. CASE m = x
    BY <1>2, <1>3, <2>1, <2>2
  <2>3. CASE m # x /\ key[m] = k
    <3>1. Over(m) /\ pc'[m] = pc[m]
      BY <1>0, <1>1, <1>2, <2>3, OthersOver
    <3> QED BY <2>1, <3>1 DEF Over
  <2>4. CASE m # x /\ key[m] # k
    <3>1. /\ pc'[m] = pc[m] /\ outcome'[m] = outcome[m] /\ out'[m] = out[m] /\ mem'[key[m]] = mem[key[m]]
          /\ Alone(key[m]) => disk'[key[m]] = disk[key[m]]
      BY <1>0, <1>1, <1>2, <1>4, <2>4
    <3>2. Pacing(m)
      BY DEF Spacing
    <3> QED BY <2>1, <3>1, <3>2 DEF Pacing
  <2> QED BY <2>2, <2>3, <2>4
<1>7. Arrived' = Arrived
  BY <1>1 DEF Arrived
<1> QED BY <1>5, <1>6, <1>7

\* and all steps do.
LEMMA SpacingStep == PlaceInv /\ AskedLast /\ Shape /\ Spacing /\ [Next]_vars => Spacing'
<1> SUFFICES ASSUME PlaceInv, AskedLast, Shape, Spacing, [Next]_vars PROVE Spacing'
  OBVIOUS
<1>0. WorkInv /\ Types /\ \A m \in Arrived : m \in Messages
  BY ArrivedAre DEF PlaceInv, WorkInv, TypeInv
<1>1. CASE UNCHANGED vars
  BY <1>1 DEF vars, Spacing, Pacing, InOrder, Spaced, CallsAlone, Orderly, Alone, Arrived, Continues
<1>2. ASSUME NEW k \in Keys, NEW first \in {"begin", "new"}, Arrive(k, first), setting' = setting PROVE Spacing'
  <2> DEFINE n == Len(key) + 1
  <2>1. /\ n \in Messages /\ n \notin Arrived /\ Arrived' = Arrived \cup {n}
        /\ key'[n] = k /\ \A m \in Arrived : key'[m] = key[m]
        /\ pc'[n] = first
        /\ \A j \in Messages : j # n => pc'[j] = pc[j] /\ outcome'[j] = outcome[j]
        /\ UNCHANGED <<mem, disk, out, restarts>>
    BY <1>0, <1>2, ArriveIs
  <2> HIDE DEF n
  <2>2. ASSUME ~setting.overlap, ~setting.nativeCalls, NEW m \in Arrived' PROVE Pacing(m)'
    <3>1. CASE m = n
      BY <1>2, <2>1, <3>1 DEF Pacing
    <3>2. CASE m # n
      <4>1. m \in Arrived /\ m \in Messages
        BY <1>0, <2>1, <3>2
      <4>2. pc'[m] = pc[m] /\ outcome'[m] = outcome[m] /\ out'[m] = out[m] /\ key'[m] = key[m] /\ mem' = mem /\ disk' = disk
        BY <2>1, <3>2, <4>1
      <4>3. Pacing(m)
        BY <2>2, <4>1 DEF Spacing
      <4> QED BY <1>2, <4>2, <4>3 DEF Pacing, Continues, Orderly, Alone
    <3> QED BY <3>1, <3>2
  <2> QED BY <1>2, <2>1, <2>2 DEF Spacing, InOrder, Spaced, CallsAlone, Orderly, Alone
<1>3. ASSUME Restart, setting' = setting PROVE Spacing'
  <2>1. /\ mem' = [k \in Keys |-> Hydrated(disk[k])] /\ key' = key
        /\ \A k \in Keys : disk'[k] = disk[k] \/ (Open(disk[k]) /\ disk'[k] = Append(disk[k], Reply(Closure)))
        /\ \A m \in Messages : pc'[m] \in {"none", "done", "lost"}
    BY <1>0, <1>3 DEF Restart, Types
  <2>2. restarts' # 0
    <3>1. restarts \in Nat /\ restarts' = restarts + 1
      BY <1>0, <1>3 DEF Restart, Types
    <3> QED BY <3>1
  <2>3. ASSUME ~setting.overlap, ~setting.nativeCalls, NEW k \in Keys, Orderly, Alone(k)
        PROVE  InOrder(mem'[k]) /\ Spaced(disk'[k])
    <3>1. PICK b, r : b = disk[k] /\ r = Reply(Closure)
      OBVIOUS
    <3>2. b \in Seq(Turns) /\ Spaced(b) /\ Single(b)
      BY <1>0, <2>3, <3>1 DEF Types, Spacing, Shape, Filed
    <3>3. Spaced(Hydrated(b)) /\ Single(Hydrated(b))
      BY <3>2, HydratedShape
    <3>4. InOrder(Hydrated(b))
      BY <3>3, SingleIs DEF InOrder
    <3>5. ASSUME Open(b) PROVE Spaced(Append(b, r))
      <4>1. b # <<>> /\ Last(b).role = "user" /\ r.role = "assistant" /\ r \in Turns
        BY <3>1, <3>5, TurnsAre DEF Open, Reply, Turn, Roles
      <4>2. Follows(Last(b).role, r.role)
        BY <4>1 DEF Follows
      <4> QED BY <3>2, <4>1, <4>2, AppendShape
    <3> QED BY <2>1, <3>1, <3>2, <3>4, <3>5
  <2>4. ASSUME NEW m \in Arrived' PROVE Pacing(m)'
    <3>1. m \in Messages
      BY <1>0, <2>1, <2>4 DEF Arrived
    <3> QED BY <2>1, <3>1 DEF Pacing
  <2>5. \A k : Alone(k)' <=> Alone(k)
    BY DEF Alone
  <2>6. (Orderly' <=> Orderly) /\ (\A k \in Keys : InOrder(mem[k])' <=> InOrder(mem'[k])) /\
        \A k \in Keys : Spaced(disk[k])' <=> Spaced(disk'[k])
    BY <1>3 DEF Orderly, InOrder, Spaced, CallsAlone
  <2> QED BY <1>3, <2>2, <2>3, <2>4, <2>5, <2>6 DEF Spacing
<1> QED BY <1>1, <1>2, <1>3, Steps, SpacingWork

\* It holds at the start.
LEMMA SpacingInit == Init => Spacing
<1> SUFFICES ASSUME Init PROVE Spacing
  OBVIOUS
<1>1. Arrived = {} /\ \A k \in Keys : mem[k] = <<>> /\ disk[k] = <<>>
  BY DEF Init, Arrived
<1> QED BY <1>1, NothingIs DEF Spacing, InOrder

-----------------------------------------------------------------------------
(* Failed requests stay closed.                                              *)

\* Messages come one at a time, and the file is of this conversation only.
Sole(k) == Orderly /\ Alone(k)

\* The marker is in memory as long as it can be, and in the file once it is written.
Marked(m) ==
  outcome[m] = "failed" =>
    /\ pc[m] = "done" /\ Closable(m) => ClosedIn(mem[key[m]], m)
    /\ pc[m] \in {"remember", "done"} /\ Sole(key[m]) => ClosedIn(disk[key[m]], m)

\* So for all messages.
AllMarked == \A m \in Arrived : Marked(m)

\* The marker closes the request before it.
LEMMA MarkerCloses ==
  ASSUME NEW m \in Messages, NEW turns \in Seq(Turns)
  PROVE  /\ ClosedIn(Append(turns, Reply(m)), m)
         /\ setting \in Settings => ClosedIn(Extended(turns, Reply(m)), m)
<1>1. PICK r : r = Reply(m)
  OBVIOUS
<1>2. r = Turn("assistant", m) /\ "assistant" \in Roles
  BY <1>1 DEF Reply, Roles
<1>3. r \in Turns
  BY <1>2, TurnsAre
<1>4. Replied(r.parts) /\ Shut(r.parts, m)
  BY <1>2, PartsOfTurns
<1> QED BY <1>1, <1>3, <1>4, AppendCloses, ExtendedCloses

\* What a worker does to its conversation leaves the requests of others as they are.
LEMMA OthersStayClosed ==
  ASSUME PlaceInv, AskedLast, Shape, Spacing, NEW x \in Arrived, Work(x), setting' = setting,
         NEW m \in Arrived, m # x, key[m] = key[x]
  PROVE  /\ Closable(m) /\ ClosedIn(mem[key[x]], m) => ClosedIn(mem'[key[x]], m)
         /\ Sole(key[x]) /\ ClosedIn(disk[key[x]], m) => ClosedIn(disk'[key[x]], m)
<1>0. /\ WorkInv /\ Types /\ x \in Messages /\ m \in Messages /\ key[x] \in Keys /\ Sanitize[key[x]] \in Keys
      /\ setting \in Settings
  BY ArrivedAre DEF PlaceInv, WorkInv, TypeInv, Types
<1>1. PICK k, f : k = key[x] /\ f = Sanitize[k]
  OBVIOUS
<1>2. /\ InMemory(x) = mem[k] /\ InMemoryThen(x) = mem'[k] /\ InFile(x) = disk[f] /\ InFileThen(x) = disk'[f]
      /\ f \in Keys /\ k \in Keys /\ mem[k] \in Seq(Turns) /\ disk[f] \in Seq(Turns) /\ (Sole(k) => f = k)
  BY <1>0, <1>1, AloneIs DEF InMemory, InMemoryThen, InFile, InFileThen, Types, Sole
<1>3. PICK a, b : a = mem[k] /\ b = disk[f]
  OBVIOUS
<1>4. a \in Seq(Turns) /\ b \in Seq(Turns) /\ Mute(a)
  BY <1>2, <1>3 DEF Shape
<1>5. SUFFICES /\ Closable(m) /\ ClosedIn(a, m) => ClosedIn(mem'[k], m)
               /\ Sole(k) /\ ClosedIn(b, m) => ClosedIn(disk'[f], m)
  BY <1>1, <1>2, <1>3
<1>6. \A s : s = <<>> => ClosedIn(s, m)
  BY NothingIs
<1>7. ASSUME pc[x] \in {"persist", "remember"}
      PROVE  Head(out[x]) \in Turns /\ Shut(Head(out[x]).parts, m)
  BY <1>0, <1>7, HeadIs, PartsOfTurns
<1>8. ASSUME NEW s \in Seq(Turns), s # <<>>, Last(s) = User(x), ClosedIn(s, m)
      PROVE  ClosedIn(Front(s), m)
  <2>1. ~Replied(Last(s).parts)
    BY <1>8, PartsOfTurns DEF User
  <2> QED BY <1>8, <2>1, FrontCloses
<1>10. CASE Idle(x)
  BY <1>2, <1>3, <1>10 DEF Idle
<1>11. CASE Cleared(x)
  BY <1>2, <1>3, <1>6, <1>11 DEF Cleared
<1>12. CASE Written(x)
  <2>1. /\ pc[x] = "persist" /\ mem'[k] = a
        /\ disk'[f] = Append(b, Head(out[x])) \/ disk'[f] = b
    BY <1>2, <1>3, <1>12 DEF Written
  <2>2. PICK t : t = Head(out[x])
    OBVIOUS
  <2>3. t \in Turns /\ Shut(t.parts, m)
    BY <1>7, <2>1, <2>2
  <2>4. ClosedIn(b, m) => ClosedIn(Append(b, t), m)
    BY <1>4, <2>3, AppendCloses
  <2> QED BY <2>1, <2>2, <2>4
<1>13. CASE Remembered(x)
  <2>1. pc[x] = "remember" /\ mem'[k] = Extended(a, Head(out[x])) /\ disk'[f] = b
    BY <1>2, <1>3, <1>13 DEF Remembered
  <2>2. PICK t : t = Head(out[x])
    OBVIOUS
  <2>3. t \in Turns /\ Shut(t.parts, m)
    BY <1>7, <2>1, <2>2
  <2>4. ClosedIn(a, m) => ClosedIn(Extended(a, t), m)
    BY <1>0, <1>4, <2>3, ExtendedCloses
  <2> QED BY <2>1, <2>2, <2>4
<1>14. CASE StrippedOff(x)
  <2>1. mem'[k] = Stripped(a) /\ disk'[f] = b /\ KeepTools > 0
    BY <1>2, <1>3, <1>14 DEF StrippedOff
  <2>2. ASSUME Closable(m), NEW i \in DOMAIN a, a[i].role = "tool" \/ LooksLikeCall(a[i])
        PROVE  ~Replied(a[i].parts)
    <3>1. CASE a[i].role = "tool"
      BY <1>4, <2>2, <3>1 DEF Mute
    <3>2. CASE a[i].role # "tool"
      <4>1. ~setting.nativeCalls /\ Calls(a[i].parts)
        BY <2>2, <3>2 DEF LooksLikeCall, Calls, Says
      <4>2. ~setting.overlap /\ (restarts = 0 \/ (Orderly /\ Alone(k)))
        BY <1>1, <2>1, <2>2, <4>1 DEF Closable, Orderly
      <4>3. CallsAlone(a)
        BY <1>2, <1>3, <4>1, <4>2 DEF Spacing, InOrder
      <4> QED BY <2>2, <4>1, <4>3 DEF CallsAlone, CallAlone
    <3> QED BY <3>1, <3>2
  <2>3. Closable(m) /\ ClosedIn(a, m) => ClosedIn(Stripped(a), m)
    BY <1>4, <2>2, StrippedCloses
  <2> QED BY <2>1, <2>3
<1>15. CASE Compacted(x)
  <2>1. mem'[k] = Normalize(Latest(CompactKeep, a)) /\ disk'[f] = b
    BY <1>2, <1>3, <1>15 DEF Compacted
  <2>2. PICK s : s = Latest(CompactKeep, a)
    OBVIOUS
  <2>3. CompactKeep \in Nat
    BY HistoryConstants
  <2>4. s \in Seq(Turns) /\ (ClosedIn(a, m) => ClosedIn(s, m))
    BY <1>4, <2>2, <2>3, LatestCloses, LatestKeepsEnd
  <2>5. ClosedIn(s, m) => ClosedIn(Normalize(s), m)
    BY <2>4, NormalizeCloses
  <2> QED BY <2>1, <2>2, <2>4, <2>5
<1>16. CASE RolledBack(x)
  <2>1. mem'[k] = Front(a) /\ disk'[f] = b /\ a # <<>> /\ Last(a) = User(x)
    BY <1>2, <1>3, <1>16 DEF RolledBack, IsOrphan
  <2> QED BY <1>4, <1>8, <2>1
<1>17. CASE Rewritten(x)
  <2>1. mem'[k] = a /\ disk'[f] = Front(loaded[x]) /\ pc[x] = "rewrite"
    BY <1>2, <1>3, <1>17 DEF Rewritten
  <2>2. ASSUME Sole(k) PROVE loaded[x] = b /\ b # <<>> /\ Last(b) = User(x)
    <3>1. Placed(x)
      BY <1>1, <2>2 DEF PlaceInv, AllPlaced, Sole
    <3> QED BY <1>1, <1>3, <2>1, <3>1 DEF Placed, EndsWith, File
  <2>3. Sole(k) /\ ClosedIn(b, m) => ClosedIn(Front(b), m)
    BY <1>4, <1>8, <2>2
  <2> QED BY <2>1, <2>2, <2>3
<1>18. CASE Emptied(x)
  <2>1. mem'[k] = a /\ disk'[f] = <<>>
    BY <1>2, <1>3, <1>18 DEF Emptied
  <2> QED BY <1>6, <2>1
<1> QED BY <1>0, <1>10, <1>11, <1>12, <1>13, <1>14, <1>15, <1>16, <1>17, <1>18, Effects DEF Effect

\* A worker that closes its own request writes the marker to the file and then to memory.
LEMMA OwnIsClosed ==
  ASSUME PlaceInv, AllMarked, NEW x \in Arrived, Work(x), setting' = setting, outcome'[x] = "failed"
  PROVE  /\ pc'[x] = "done" => ClosedIn(mem'[key[x]], x)
         /\ pc'[x] \in {"remember", "done"} /\ Sole(key[x]) => ClosedIn(disk'[key[x]], x)
<1>0. /\ WorkInv /\ Types /\ x \in Messages /\ key[x] \in Keys /\ Sanitize[key[x]] \in Keys /\ setting \in Settings
  BY ArrivedAre DEF PlaceInv, WorkInv, TypeInv, Types
<1>1. PICK k, f : k = key[x] /\ f = Sanitize[k]
  OBVIOUS
<1>2. /\ InMemory(x) = mem[k] /\ InMemoryThen(x) = mem'[k] /\ InFile(x) = disk[f] /\ InFileThen(x) = disk'[f]
      /\ mem[k] \in Seq(Turns) /\ disk[f] \in Seq(Turns) /\ (Sole(k) => f = k)
  BY <1>0, <1>1, AloneIs DEF InMemory, InMemoryThen, InFile, InFileThen, Types, Sole
<1>3. CASE Written(x)
  <2>1. /\ pc[x] = "persist" /\ pc'[x] = "remember" /\ outcome[x] = "failed"
        /\ Sole(k) => disk'[f] = Append(disk[f], Head(out[x]))
    BY <1>2, <1>3 DEF Written, Sole, Orderly
  <2>2. Head(out[x]) = Reply(x)
    BY <1>0, <2>1, HeadIs DEF Reply
  <2>3. Sole(k) => ClosedIn(disk'[f], x)
    BY <1>0, <1>2, <2>1, <2>2, MarkerCloses
  <2> QED BY <1>1, <1>2, <2>1, <2>3
<1>4. CASE Remembered(x)
  <2>1. /\ pc[x] = "remember" /\ outcome[x] = "failed" /\ pc'[x] = "done" /\ out[x] = Next1(x)
        /\ mem'[k] = Extended(mem[k], Head(out[x])) /\ disk'[f] = disk[f]
    BY <1>2, <1>4 DEF Remembered
  <2>2. Head(out[x]) = Reply(x)
    BY <2>1 DEF Next1
  <2>3. ClosedIn(mem'[k], x)
    BY <1>0, <1>2, <2>1, <2>2, MarkerCloses
  <2>4. Sole(k) => ClosedIn(disk'[f], x)
    BY <1>1, <1>2, <2>1 DEF AllMarked, Marked
  <2> QED BY <1>1, <1>2, <2>1, <2>3, <2>4
<1>5. CASE Idle(x) \/ Cleared(x) \/ StrippedOff(x) \/ Compacted(x) \/ RolledBack(x) \/ Rewritten(x) \/ Emptied(x)
  <2>1. CASE Idle(x)
    BY <2>1 DEF Idle
  <2>2. CASE Cleared(x) \/ StrippedOff(x) \/ Compacted(x)
    BY <2>2 DEF Cleared, StrippedOff, Compacted
  <2>3. CASE RolledBack(x) \/ Rewritten(x) \/ Emptied(x)
    BY <2>3 DEF RolledBack, Rewritten, Emptied
  <2> QED BY <1>5, <2>1, <2>2, <2>3
<1> QED BY <1>0, <1>3, <1>4, <1>5, Effects DEF Effect

\* The steps of workers keep the markers,
LEMMA MarkedWork ==
  ASSUME PlaceInv, AskedLast, Shape, Spacing, AllMarked, NEW x \in Arrived, Work(x), setting' = setting
  PROVE  AllMarked'
<1>0. /\ WorkInv /\ Types /\ x \in Messages /\ key[x] \in Keys /\ \A m \in Arrived : m \in Messages /\ key[m] \in Keys
  BY ArrivedAre DEF PlaceInv, WorkInv, TypeInv
<1>1. /\ key' = key /\ restarts' = restarts
      /\ \A j \in Messages : j # x => pc'[j] = pc[j] /\ outcome'[j] = outcome[j]
      /\ \A k \in Keys : k # key[x] => mem'[k] = mem[k]
  BY <1>0, WorkerFrame
<1> SUFFICES ASSUME NEW m \in Arrived, outcome'[m] = "failed"
             PROVE  /\ pc'[m] = "done" /\ Closable(m) => ClosedIn(mem'[key[m]], m)
                    /\ pc'[m] \in {"remember", "done"} /\ Sole(key[m]) => ClosedIn(disk'[key[m]], m)
  BY <1>1 DEF AllMarked, Marked, Arrived, Closable, Sole, Orderly, Alone, KeepTools, ClosedIn
<1>2. CASE m = x
  BY <1>2, OwnIsClosed
<1>3. CASE m # x
  <2>1. /\ pc'[m] = pc[m] /\ outcome[m] = "failed"
        /\ pc[m] = "done" /\ Closable(m) => ClosedIn(mem[key[m]], m)
        /\ pc[m] \in {"remember", "done"} /\ Sole(key[m]) => ClosedIn(disk[key[m]], m)
    BY <1>0, <1>1, <1>3 DEF AllMarked, Marked
  <2>2. CASE key[m] = key[x]
    BY <1>3, <2>1, <2>2, OthersStayClosed
  <2>3. CASE key[m] # key[x]
    <3>1. mem'[key[m]] = mem[key[m]]
      BY <1>0, <1>1, <2>3
    <3>2. Sole(key[m]) => disk'[key[m]] = disk[key[m]]
      BY <1>0, <2>3, OthersKept, AloneIs DEF Sole
    <3> QED BY <2>1, <3>1, <3>2
  <2> QED BY <2>2, <2>3
<1> QED BY <1>2, <1>3

\* A restart without tool turns leaves an assistant's turn at the end of memory.
LEMMA HydratedCloses ==
  ASSUME NEW turns \in Seq(Turns), Filed(turns, 0), NEW m
  PROVE  ClosedIn(Hydrated(turns), m)
<1>1. PICK h, n : h = Hydrated(turns) /\ n = Len(h)
  OBVIOUS
<1>2. h \in Seq(Turns) /\ Filed(h, 0) /\ (h # <<>> => Last(h).role # "user")
  BY <1>1, HydratedShape
<1>3. CASE h = <<>>
  BY <1>1, <1>3, NothingIs
<1>4. CASE h # <<>>
  <2>1. n \in Nat /\ n >= 1 /\ DOMAIN h = 1 .. n /\ n \in DOMAIN h /\ Last(h) = h[n]
    BY <1>1, <1>2, <1>4 DEF Last
  <2>2. h[n].role = "assistant"
    BY <1>2, <1>4, <2>1 DEF Filed, Plain
  <2>3. PICK role \in Roles, by \in Messages \cup {Closure} : h[n] = Turn(role, by)
    BY <1>2, <2>1 DEF Filed, Single
  <2>4. role = "assistant"
    BY <2>2, <2>3 DEF Turn
  <2>5. Replied(h[n].parts) /\ Shut(h[n].parts, m)
    BY <2>3, <2>4, PartsOfTurns
  <2>6. \A i \in DOMAIN h : i = n \/ n > i
    BY <2>1
  <2> QED BY <1>1, <2>1, <2>5, <2>6 DEF ClosedIn
<1> QED BY <1>3, <1>4

\* a restart does,
LEMMA MarkedRestart ==
  ASSUME PlaceInv, Shape, AllMarked, Restart, setting' = setting
  PROVE  AllMarked'
<1>0. /\ WorkInv /\ Types /\ \A m \in Arrived : m \in Messages /\ key[m] \in Keys
  BY ArrivedAre DEF PlaceInv, WorkInv, TypeInv
<1>1. /\ mem' = [k \in Keys |-> Hydrated(disk[k])] /\ key' = key /\ outcome' = outcome
      /\ \A k \in Keys : disk'[k] = disk[k] \/ disk'[k] = Append(disk[k], Reply(Closure))
      /\ \A m \in Messages : pc'[m] \in {"none", "done", "lost"} /\ (pc'[m] = "done" => pc[m] = "done")
  BY <1>0 DEF Restart, Types
<1>2. restarts' # 0
  <2>1. restarts \in Nat /\ restarts' = restarts + 1
    BY <1>0 DEF Restart, Types
  <2> QED BY <2>1
<1> SUFFICES ASSUME NEW m \in Arrived, outcome[m] = "failed", pc'[m] \in {"remember", "done"}
             PROVE  /\ KeepTools = 0 \/ Sole(key[m]) => ClosedIn(mem'[key[m]], m)
                    /\ Sole(key[m]) => ClosedIn(disk'[key[m]], m)
  <2>1. Arrived' = Arrived /\ \A m : Sole(key[m])' <=> Sole(key[m])
    BY <1>1 DEF Arrived, Sole, Orderly, Alone
  <2>2. \A m : Closable(m)' => KeepTools = 0 \/ Sole(key[m])
    BY <1>1, <1>2 DEF Closable, Sole, Orderly, Alone, KeepTools
  <2>3. \A m : /\ ClosedIn(mem[key[m]], m)' <=> ClosedIn(mem'[key[m]], m)
              /\ ClosedIn(disk[key[m]], m)' <=> ClosedIn(disk'[key[m]], m)
    BY <1>1 DEF ClosedIn
  <2>4. \A m \in Arrived : Marked(m)'
    BY <1>1, <2>1, <2>2, <2>3 DEF Marked
  <2> QED BY <2>1, <2>4 DEF AllMarked
<1>3. m \in Messages /\ key[m] \in Keys /\ pc[m] = "done"
  BY <1>0, <1>1
<1>4. PICK k, b : k = key[m] /\ b = disk[k]
  OBVIOUS
<1>5. b \in Seq(Turns) /\ Filed(b, KeepTools) /\ (Sole(k) => ClosedIn(b, m))
  BY <1>0, <1>3, <1>4 DEF Types, Shape, AllMarked, Marked
<1>6. mem'[k] = Hydrated(b) /\ (disk'[k] = b \/ disk'[k] = Append(b, Reply(Closure)))
  BY <1>1, <1>3, <1>4
<1>7. Sole(k) => ClosedIn(Hydrated(b), m)
  BY <1>3, <1>5, HydratedShape
<1>8. KeepTools = 0 => ClosedIn(Hydrated(b), m)
  BY <1>5, HydratedCloses
<1>9. Sole(k) => ClosedIn(Append(b, Reply(Closure)), m)
  <2>1. PICK r : r = Reply(Closure)
    OBVIOUS
  <2>2. r = Turn("assistant", Closure) /\ "assistant" \in Roles
    BY <2>1 DEF Reply, Roles
  <2>3. r \in Turns /\ Shut(r.parts, m)
    BY <2>2, TurnsAre, PartsOfTurns
  <2>4. ClosedIn(b, m) => ClosedIn(Append(b, r), m)
    BY <1>5, <2>3, AppendCloses
  <2> QED BY <1>5, <2>1, <2>4
<1> QED BY <1>4, <1>5, <1>6, <1>7, <1>8, <1>9

\* and all steps do.
LEMMA MarkedStep == PlaceInv /\ AskedLast /\ Shape /\ Spacing /\ AllMarked /\ [Next]_vars => AllMarked'
<1> SUFFICES ASSUME PlaceInv, AskedLast, Shape, Spacing, AllMarked, [Next]_vars PROVE AllMarked'
  OBVIOUS
<1>0. WorkInv /\ Types /\ \A m \in Arrived : m \in Messages
  BY ArrivedAre DEF PlaceInv, WorkInv, TypeInv
<1>1. CASE UNCHANGED vars
  <2>1. UNCHANGED <<setting, mem, disk, key, pc, out, outcome, restarts>>
    BY <1>1 DEF vars
  <2>2. Arrived' = Arrived
    BY <2>1 DEF Arrived
  <2>3. ASSUME NEW m \in Arrived PROVE Marked(m)'
    <3>1. Marked(m)
      BY DEF AllMarked
    <3>2. (Closable(m)' <=> Closable(m)) /\ (Sole(key[m])' <=> Sole(key[m]))
      BY <2>1 DEF Closable, Sole, Orderly, Alone, KeepTools
    <3> QED BY <2>1, <3>1, <3>2 DEF Marked
  <2> QED BY <2>2, <2>3 DEF AllMarked
<1>2. ASSUME NEW k \in Keys, NEW first \in {"begin", "new"}, Arrive(k, first), setting' = setting PROVE AllMarked'
  <2> DEFINE n == Len(key) + 1
  <2>1. /\ n \in Messages /\ n \notin Arrived /\ Arrived' = Arrived \cup {n}
        /\ key'[n] = k /\ \A m \in Arrived : key'[m] = key[m]
        /\ pc'[n] = first
        /\ \A j \in Messages : j # n => pc'[j] = pc[j] /\ outcome'[j] = outcome[j]
        /\ UNCHANGED <<mem, disk, out, restarts>>
    BY <1>0, <1>2, ArriveIs
  <2> HIDE DEF n
  <2>2. ASSUME NEW m \in Arrived' PROVE Marked(m)'
    <3>1. CASE m = n
      BY <1>2, <2>1, <3>1 DEF Marked
    <3>2. CASE m # n
      <4>1. m \in Arrived /\ m \in Messages
        BY <1>0, <2>1, <2>2, <3>2
      <4>2. pc'[m] = pc[m] /\ outcome'[m] = outcome[m] /\ key'[m] = key[m] /\ UNCHANGED <<mem, disk, restarts, setting>>
        BY <1>2, <2>1, <3>2, <4>1
      <4>3. Marked(m)
        BY <4>1 DEF AllMarked
      <4> QED BY <4>2, <4>3 DEF Marked, Closable, Sole, Orderly, Alone, KeepTools, ClosedIn
    <3> QED BY <3>1, <3>2
  <2> QED BY <2>2 DEF AllMarked
<1>3. ASSUME Restart, setting' = setting PROVE AllMarked'
  BY <1>3, MarkedRestart
<1> QED BY <1>1, <1>2, <1>3, Steps, MarkedWork

\* The inductive invariant of what a conversation may hold.
TaleInv == PlaceInv /\ AskedLast /\ Shape /\ Spacing /\ AllMarked

\* It holds at the start,
LEMMA TaleInit == Init => TaleInv
<1>1. Init => AllMarked
  BY DEF Init, AllMarked, Arrived
<1>2. Init => WorkInv
  BY WorkInit
<1> QED BY <1>1, <1>2, PlaceInit, AskedInit, ShapeInit, SpacingInit DEF TaleInv

\* and every step keeps it.
LEMMA TaleStep == TaleInv /\ [Next]_vars => TaleInv'
<1> SUFFICES ASSUME TaleInv, [Next]_vars PROVE TaleInv'
  OBVIOUS
<1>1. PlaceInv /\ AskedLast /\ Shape /\ Spacing /\ AllMarked /\ WorkInv
  BY DEF TaleInv, PlaceInv
<1> QED BY <1>1, PlaceStep, AskedStep, ShapeStep, SpacingStep, MarkedStep DEF TaleInv

\* An error leaves no request open (FailuresResolved): one that failed is closed in memory
\* while Closable, and where messages come one at a time and appends succeed, one that
\* failed is closed in memory and file, and one that was rejected is gone from both.
THEOREM ErrorsResolved == Spec => []FailuresResolved
<1>1. TaleInv => FailuresClosed
  <2> SUFFICES ASSUME TaleInv, NEW m \in Arrived, pc[m] = "done", outcome[m] = "failed"
               PROVE  /\ Closable(m) => Closed(mem[key[m]], m)
                      /\ Orderly /\ Alone(key[m]) => Closed(File(key[m]), m)
    BY DEF FailuresClosed
  <2>1. /\ Closable(m) => ClosedIn(mem[key[m]], m)
        /\ Orderly /\ Alone(key[m]) => ClosedIn(disk[key[m]], m)
    BY DEF TaleInv, AllMarked, Marked, Sole
  <2>2. key[m] \in Keys /\ mem[key[m]] \in Seq(Turns) /\ disk[key[m]] \in Seq(Turns)
    BY ArrivedAre DEF TaleInv, PlaceInv, WorkInv, TypeInv, Types
  <2>3. ASSUME NEW turns \in Seq(Turns), ClosedIn(turns, m) PROVE Closed(turns, m)
    BY <2>3, SpokenShut DEF Shut, Closed
  <2>4. Alone(key[m]) => File(key[m]) = disk[key[m]]
    BY <2>2, AloneIs DEF File
  <2> QED BY <2>1, <2>2, <2>3, <2>4
<1>2. TaleInv => (Orderly => RolledBackGone)
  BY PlaceGone DEF TaleInv
<1>3. TaleInv => FailuresResolved
  BY <1>1, <1>2 DEF FailuresResolved
<1> QED BY <1>3, TaleInit, TaleStep, PTL DEF Spec

-----------------------------------------------------------------------------
(* What was said, over parts of a conversation.                              *)

\* Sequences are equal when their elements are.
LEMMA SameSequence ==
  ASSUME NEW X, NEW p \in Seq(X), NEW q \in Seq(X), Len(p) = Len(q), \A i \in 1 .. Len(p) : p[i] = q[i]
  PROVE  p = q
<1>1. PICK n : n = Len(p)
  OBVIOUS
<1>2. p = [i \in 1 .. n |-> p[i]]
  BY <1>1
<1>3. q = [i \in 1 .. n |-> q[i]]
  BY <1>1
<1>4. [i \in 1 .. n |-> p[i]] = [i \in 1 .. n |-> q[i]]
  BY <1>1
<1> QED BY <1>2, <1>3, <1>4

\* One sequence after another.
LEMMA Concatenated ==
  ASSUME NEW X, NEW p \in Seq(X), NEW q \in Seq(X)
  PROVE  /\ p \o q \in Seq(X) /\ Len(p \o q) = Len(p) + Len(q)
         /\ \A i \in 1 .. Len(p) : (p \o q)[i] = p[i]
         /\ \A i \in 1 .. Len(q) : (p \o q)[Len(p) + i] = q[i]
OBVIOUS

\* Three of them.
LEMMA Associative ==
  ASSUME NEW X, NEW p \in Seq(X), NEW q \in Seq(X), NEW r \in Seq(X)
  PROVE  (p \o q) \o r = p \o (q \o r)
<1>1. PICK a, b, c : a = Len(p) /\ b = Len(q) /\ c = Len(r)
  OBVIOUS
<1>2. a \in Nat /\ b \in Nat /\ c \in Nat
  BY <1>1
<1>3. PICK v, w : v = p \o q /\ w = q \o r
  OBVIOUS
<1>4. /\ v \in Seq(X) /\ Len(v) = a + b /\ \A i \in 1 .. a : v[i] = p[i] 
      /\ \A i \in 1 .. b : v[a + i] = q[i]
  BY <1>1, <1>3, Concatenated
<1>5. /\ w \in Seq(X) /\ Len(w) = b + c /\ \A i \in 1 .. b : w[i] = q[i]
      /\ \A i \in 1 .. c : w[b + i] = r[i]
  BY <1>1, <1>3, Concatenated
<1>6. PICK y, z : y = v \o r /\ z = p \o w
  OBVIOUS
<1>7. /\ y \in Seq(X) /\ Len(y) = (a + b) + c /\ \A i \in 1 .. a + b : y[i] = v[i]
      /\ \A i \in 1 .. c : y[(a + b) + i] = r[i]
  <2>1. v \in Seq(X) /\ r \in Seq(X) /\ Len(v) = a + b /\ Len(r) = c
    BY <1>1, <1>4
  <2>2. v \o r \in Seq(X) /\ Len(v \o r) = Len(v) + Len(r)
    BY <2>1, Concatenated
  <2>3. \A i \in 1 .. Len(v) : (v \o r)[i] = v[i]
    BY <2>1, Concatenated
  <2>4. \A i \in 1 .. Len(r) : (v \o r)[Len(v) + i] = r[i]
    BY <2>1, Concatenated
  <2> QED BY <1>6, <2>1, <2>2, <2>3, <2>4
<1>8. /\ z \in Seq(X) /\ Len(z) = a + (b + c) /\ \A i \in 1 .. a : z[i] = p[i]
      /\ \A i \in 1 .. b + c : z[a + i] = w[i]
  <2>1. p \in Seq(X) /\ w \in Seq(X) /\ Len(p) = a /\ Len(w) = b + c
    BY <1>1, <1>5
  <2>2. p \o w \in Seq(X) /\ Len(p \o w) = Len(p) + Len(w)
    BY <2>1, Concatenated
  <2>3. \A i \in 1 .. Len(p) : (p \o w)[i] = p[i]
    BY <2>1, Concatenated
  <2>4. \A i \in 1 .. Len(w) : (p \o w)[Len(p) + i] = w[i]
    BY <2>1, Concatenated
  <2> QED BY <1>6, <2>1, <2>2, <2>3, <2>4
<1>9. ASSUME NEW i \in 1 .. (a + b) + c PROVE y[i] = z[i]
  <2>1. CASE i <= a
    <3>1. i \in 1 .. a /\ i \in 1 .. a + b
      BY <1>2, <2>1
    <3> QED BY <1>4, <1>7, <1>8, <3>1
  <2>2. CASE i > a /\ i <= a + b
    <3>1. PICK j : j = i - a
      OBVIOUS
    <3>2. j \in 1 .. b /\ j \in 1 .. b + c /\ i = a + j /\ i \in 1 .. a + b
      BY <1>2, <2>2, <3>1
    <3> QED BY <1>4, <1>5, <1>7, <1>8, <3>2
  <2>3. CASE i > a + b
    <3>1. PICK j : j = i - (a + b)
      OBVIOUS
    <3>2. j \in 1 .. c /\ b + j \in 1 .. b + c /\ i = (a + b) + j /\ i = a + (b + j)
      BY <1>2, <2>3, <3>1
    <3> QED BY <1>5, <1>7, <1>8, <3>2
  <2> QED BY <1>2, <2>1, <2>2, <2>3
<1>10. Len(y) = Len(z)
  BY <1>2, <1>7, <1>8
<1>11. y = z
  BY <1>7, <1>8, <1>9, <1>10, SameSequence
<1> QED BY <1>3, <1>6, <1>11

\* A set with the empty sequence and, with a sequence, whatever extends it has them all.
LEMMA SequenceInduction ==
  ASSUME NEW X, NEW P, <<>> \in P, \A q \in Seq(X), x \in X : q \in P => Append(q, x) \in P
  PROVE  Seq(X) \subseteq P
<1> DEFINE N == {n \in Nat : \A q \in Seq(X) : Len(q) = n => q \in P}
<1>1. 0 \in N
  OBVIOUS
<1>2. ASSUME NEW n \in Nat, n \in N PROVE n + 1 \in N
  <2> SUFFICES ASSUME NEW q \in Seq(X), Len(q) = n + 1 PROVE q \in P
    OBVIOUS
  <2>1. PICK f, x : f = SubSeq(q, 1, n) /\ x = q[n + 1]
    OBVIOUS
  <2>2. f \in Seq(X) /\ Len(f) = n /\ x \in X /\ \A i \in 1 .. n : f[i] = q[i]
    BY <2>1
  <2>3. f \in P
    BY <1>2, <2>2
  <2>4. PICK w : w = Append(f, x)
    OBVIOUS
  <2>5. w \in Seq(X) /\ Len(w) = n + 1 /\ \A i \in 1 .. n + 1 : w[i] = q[i]
    BY <2>1, <2>2, <2>4
  <2>6. w = q
    BY <2>5, SameSequence
  <2> QED BY <2>2, <2>3, <2>4, <2>6
<1> HIDE DEF N
<1>3. Nat \subseteq N
  BY <1>1, <1>2, SetInduction
<1>4. ASSUME NEW q \in Seq(X) PROVE q \in P
  BY <1>3 DEF N
<1> QED BY <1>4

\* An element more of the second of two.
LEMMA AppendAfter ==
  ASSUME NEW X, NEW p \in Seq(X), NEW q \in Seq(X), NEW x \in X
  PROVE  p \o Append(q, x) = Append(p \o q, x)
<1>1. PICK w, v : w = Append(q, x) /\ v = p \o q
  OBVIOUS
<1>2. w \in Seq(X) /\ v \in Seq(X) /\ Len(w) = Len(q) + 1 /\ Len(v) = Len(p) + Len(q)
  BY <1>1
<1>3. PICK y, z : y = p \o w /\ z = Append(v, x)
  OBVIOUS
<1>4. y \in Seq(X) /\ z \in Seq(X) /\ Len(y) = Len(p) + Len(w) /\ Len(z) = Len(v) + 1
  BY <1>2, <1>3
<1>5. \A i \in 1 .. Len(y) : y[i] = z[i]
  <2> TAKE i \in 1 .. Len(y)
  <2>1. CASE i <= Len(p)
    BY <1>1, <1>2, <1>3, <1>4, <2>1
  <2>2. CASE i > Len(p) /\ i <= Len(p) + Len(q)
    BY <1>1, <1>2, <1>3, <1>4, <2>2
  <2>3. CASE i = Len(p) + Len(q) + 1
    BY <1>1, <1>2, <1>3, <1>4, <2>3
  <2> QED BY <1>2, <1>4, <2>1, <2>2, <2>3
<1>6. y = z
  BY <1>2, <1>4, <1>5, SameSequence
<1> QED BY <1>1, <1>3, <1>6

\* Only of nothing,
LEMMA OnlyOfNothing ==
  ASSUME NEW S
  PROVE  Only(<<>>, S) = <<>>
<1>1. <<>> \in Seq({}) /\ Len(<<>>) = 0
  OBVIOUS
<1>2. PICK c : OnlyOver(c, <<>>, S, {})
  BY <1>1, OnlyOneByOne
<1> QED BY <1>1, <1>2 DEF OnlyOver

\* its type,
LEMMA OnlyTypes ==
  ASSUME NEW X, NEW p \in Seq(X), NEW S
  PROVE  Only(p, S) \in Seq(X)
<1>1. PICK b : OnlyOver(b, p, S, X)
  BY OnlyOneByOne
<1>2. Len(p) \in 0 .. Len(p)
  OBVIOUS
<1> QED BY <1>1, <1>2 DEF OnlyOver

\* Only of one element more,
LEMMA OnlyAppend ==
  ASSUME NEW X, NEW p \in Seq(X), NEW x \in X, NEW S
  PROVE  /\ Only(Append(p, x), S) = OnlyStep(Only(p, S), x, S)
         /\ Only(p, S) \in Seq(X)
<1>1. PICK w, n : w = Append(p, x) /\ n = Len(p)
  OBVIOUS
<1>2. w \in Seq(X) /\ Len(w) = n + 1 /\ n \in Nat /\ w[n + 1] = x /\ \A i \in 1 .. n : w[i] = p[i]
  BY <1>1
<1>3. PICK b : OnlyOver(b, p, S, X)
  BY OnlyOneByOne
<1>4. PICK a : OnlyOver(a, w, S, X)
  BY <1>2, OnlyOneByOne
<1>5. /\ b \in [0 .. n -> Seq(X)] /\ b[0] = <<>> /\ Only(p, S) = b[n]
      /\ \A k \in 1 .. n : b[k] = OnlyStep(b[k - 1], p[k], S)
  BY <1>1, <1>3 DEF OnlyOver
<1>6. /\ a \in [0 .. n + 1 -> Seq(X)] /\ a[0] = <<>> /\ Only(w, S) = a[n + 1]
      /\ \A k \in 1 .. n + 1 : a[k] = OnlyStep(a[k - 1], w[k], S)
  BY <1>2, <1>4 DEF OnlyOver
<1> DEFINE P == {k \in Nat : k <= n => a[k] = b[k]}
<1>7. 0 \in P
  BY <1>5, <1>6
<1>8. ASSUME NEW k \in Nat, k \in P PROVE k + 1 \in P
  <2> SUFFICES ASSUME k + 1 <= n PROVE a[k + 1] = b[k + 1]
    OBVIOUS
  <2>1. k + 1 \in 1 .. n /\ k + 1 \in 1 .. n + 1 /\ (k + 1) - 1 = k /\ k <= n
    BY <1>2
  <2> QED BY <1>2, <1>5, <1>6, <1>8, <2>1
<1> HIDE DEF P
<1>9. n \in P
  BY <1>2, <1>7, <1>8, SetInduction
<1>10. a[n] = b[n]
  BY <1>2, <1>9 DEF P
<1>11. n + 1 \in 1 .. n + 1 /\ (n + 1) - 1 = n /\ n \in 0 .. n
  BY <1>2
<1> QED BY <1>1, <1>2, <1>5, <1>6, <1>10, <1>11

\* and of two sequences.
LEMMA OnlyTogether ==
  ASSUME NEW X, NEW p \in Seq(X), NEW q \in Seq(X), NEW S
  PROVE  Only(p \o q, S) = Only(p, S) \o Only(q, S)
<1>1. PICK o : o = Only(p, S)
  OBVIOUS
<1> DEFINE P == {r \in Seq(X) : Only(p \o r, S) = o \o Only(r, S)}
<1>2. <<>> \in P
  <2>1. o \in Seq(X)
    BY <1>1, OnlyTypes
  <2>2. Only(<<>>, S) = <<>>
    BY OnlyOfNothing
  <2>3. p \o <<>> = p /\ o \o <<>> = o /\ <<>> \in Seq(X)
    BY <2>1
  <2> QED BY <1>1, <2>2, <2>3
<1>3. ASSUME NEW r \in Seq(X), NEW x \in X, r \in P PROVE Append(r, x) \in P
  <2>1. PICK w, v, u : w = Append(r, x) /\ v = p \o r /\ u = Only(r, S)
    OBVIOUS
  <2>2. w \in Seq(X) /\ v \in Seq(X) /\ p \o w = Append(v, x)
    BY <2>1, AppendAfter
  <2>a. Only(Append(v, x), S) = OnlyStep(Only(v, S), x, S)
    BY <2>2, OnlyAppend
  <2>b. Only(Append(r, x), S) = OnlyStep(Only(r, S), x, S)
    BY <1>3, OnlyAppend
  <2>c. Only(r, S) \in Seq(X)
    BY <1>3, OnlyTypes
  <2>3. Only(Append(v, x), S) = OnlyStep(Only(v, S), x, S) /\ Only(w, S) = OnlyStep(u, x, S) /\ u \in Seq(X)
    BY <2>1, <2>a, <2>b, <2>c
  <2>4. Only(v, S) = o \o u
    BY <1>3, <2>1
  <2>5. o \in Seq(X)
    BY <1>1, OnlyTypes
  <2>6. o \o Append(u, x) = Append(o \o u, x)
    BY <2>3, <2>5, AppendAfter
  <2>7. OnlyStep(o \o u, x, S) = o \o OnlyStep(u, x, S)
    BY <2>6 DEF OnlyStep
  <2> QED BY <2>1, <2>2, <2>3, <2>4, <2>7
<1> HIDE DEF P
<1>4. q \in P
  BY <1>2, <1>3, SequenceInduction
<1> QED BY <1>1, <1>4 DEF P

\* Parts of one turn more,
LEMMA PartsAppend ==
  ASSUME NEW turns \in Seq(Turns), NEW t \in Turns
  PROVE  Parts(Append(turns, t)) = Parts(turns) \o t.parts
<1>1. PICK w, n : w = Append(turns, t) /\ n = Len(turns)
  OBVIOUS
<1>2. w \in Seq(Turns) /\ Len(w) = n + 1 /\ n \in Nat /\ w[n + 1] = t /\ \A i \in 1 .. n : w[i] = turns[i]
  BY <1>1
<1>3. PICK b : PartsOver(b, turns)
  BY PartsOneByOne
<1>4. PICK a : PartsOver(a, w)
  BY <1>2, PartsOneByOne
<1>5. /\ b[0] = <<>> /\ Parts(turns) = b[n]
      /\ \A k \in 1 .. n : b[k] = PartsStep(b[k - 1], turns[k])
  BY <1>1, <1>3 DEF PartsOver
<1>6. /\ a[0] = <<>> /\ Parts(w) = a[n + 1]
      /\ \A k \in 1 .. n + 1 : a[k] = PartsStep(a[k - 1], w[k])
  BY <1>2, <1>4 DEF PartsOver
<1> DEFINE P == {k \in Nat : k <= n => a[k] = b[k]}
<1>7. 0 \in P
  BY <1>5, <1>6
<1>8. ASSUME NEW k \in Nat, k \in P PROVE k + 1 \in P
  <2> SUFFICES ASSUME k + 1 <= n PROVE a[k + 1] = b[k + 1]
    OBVIOUS
  <2>1. k + 1 \in 1 .. n /\ k + 1 \in 1 .. n + 1 /\ (k + 1) - 1 = k /\ k <= n
    BY <1>2
  <2> QED BY <1>2, <1>5, <1>6, <1>8, <2>1
<1> HIDE DEF P
<1>9. n \in P
  BY <1>2, <1>7, <1>8, SetInduction
<1>10. a[n] = b[n]
  BY <1>2, <1>9 DEF P
<1>11. n + 1 \in 1 .. n + 1 /\ (n + 1) - 1 = n
  BY <1>2
<1>12. Parts(w) = PartsStep(Parts(turns), t)
  BY <1>2, <1>5, <1>6, <1>10, <1>11
<1> QED BY <1>1, <1>12 DEF PartsStep

\* and their type.
LEMMA PartsTypes ==
  ASSUME NEW turns \in Seq(Turns)
  PROVE  Parts(turns) \in Seq(Part) /\ Parts(<<>>) = <<>>
<1>1. PICK b : PartsOver(b, turns)
  BY PartsOneByOne
<1>2. Len(turns) \in 0 .. Len(turns)
  OBVIOUS
<1>3. <<>> \in Seq(Turns) /\ Len(<<>>) = 0
  OBVIOUS
<1>4. PICK c : PartsOver(c, <<>>)
  BY <1>3, PartsOneByOne
<1>5. Parts(<<>>) = <<>>
  BY <1>3, <1>4 DEF PartsOver
<1>6. Parts(turns) \in Seq(Part)
  BY <1>1, <1>2 DEF PartsOver
<1> QED BY <1>5, <1>6

\* Requests and replies, and those of a turn.
Sentences == {"user", "assistant"} \X (Messages \cup {Closure})
Said(t) == Only(t.parts, Sentences)

\* What is said in a turn is made of parts.
LEMMA SaidTypes ==
  ASSUME NEW t \in Turns
  PROVE  Said(t) \in Seq(Part) /\ t.parts \in Seq(Part)
<1>1. t.parts \in Seq(Part)
  BY DEF Turns, Part
<1>2. Said(t) \in Seq(Part)
  BY <1>1, OnlyTypes DEF Said
<1> QED BY <1>1, <1>2

\* What is spoken in an empty conversation,
LEMMA NothingSaid == Spoken(<<>>) = <<>>
<1>1. <<>> \in Seq(Turns)
  OBVIOUS
<1>2. Parts(<<>>) = <<>>
  BY <1>1, PartsTypes
<1>3. Only(Parts(<<>>), Sentences) = <<>>
  BY <1>2, OnlyOfNothing
<1> QED BY <1>3 DEF Spoken, Sentences

\* its type,
LEMMA SpokenKinds ==
  ASSUME NEW turns \in Seq(Turns)
  PROVE  Spoken(turns) \in Seq(Part)
<1>1. PICK p : p = Parts(turns)
  OBVIOUS
<1>2. p \in Seq(Part)
  BY <1>1, PartsTypes
<1>3. Only(p, Sentences) \in Seq(Part)
  BY <1>2, OnlyTypes
<1> QED BY <1>1, <1>3 DEF Spoken, Sentences

\* of one turn more,
LEMMA SpokenAppend ==
  ASSUME NEW turns \in Seq(Turns), NEW t \in Turns
  PROVE  Spoken(Append(turns, t)) = Spoken(turns) \o Said(t)
<1>1. PICK p, q : p = Parts(turns) /\ q = t.parts
  OBVIOUS
<1>2. p \in Seq(Part) /\ q \in Seq(Part)
  BY <1>1, PartsTypes, SaidTypes
<1>3. Parts(Append(turns, t)) = p \o q
  BY <1>1, PartsAppend
<1>4. Only(p \o q, Sentences) = Only(p, Sentences) \o Only(q, Sentences)
  BY <1>2, OnlyTogether
<1> QED BY <1>1, <1>3, <1>4 DEF Spoken, Said, Sentences

\* and of one conversation after another.
LEMMA SpokenTogether ==
  ASSUME NEW s \in Seq(Turns), NEW turns \in Seq(Turns)
  PROVE  Spoken(s \o turns) = Spoken(s) \o Spoken(turns)
<1>1. PICK o : o = Spoken(s)
  OBVIOUS
<1> DEFINE P == {r \in Seq(Turns) : Spoken(s \o r) = o \o Spoken(r)}
<1>2. <<>> \in P
  <2>1. <<>> \in Seq(Turns) /\ s \o <<>> = s
    OBVIOUS
  <2>2. o \in Seq(Part) /\ Spoken(<<>>) = <<>>
    BY <1>1, SpokenKinds, NothingSaid
  <2>3. o \o <<>> = o
    BY <2>2
  <2> QED BY <1>1, <2>1, <2>2, <2>3
<1>3. ASSUME NEW r \in Seq(Turns), NEW t \in Turns, r \in P PROVE Append(r, t) \in P
  <2>1. PICK w, v, u, d : w = Append(r, t) /\ v = s \o r /\ u = Spoken(r) /\ d = Said(t)
    OBVIOUS
  <2>2. w \in Seq(Turns) /\ v \in Seq(Turns)
    BY <2>1
  <2>3. s \o w = Append(v, t)
    BY <2>1, AppendAfter
  <2>4. Spoken(Append(v, t)) = Spoken(v) \o d
    BY <2>1, <2>2, SpokenAppend
  <2>5. Spoken(Append(r, t)) = Spoken(r) \o Said(t)
    BY <1>3, SpokenAppend
  <2>6. o \in Seq(Part) /\ u \in Seq(Part) /\ d \in Seq(Part)
    BY <1>1, <1>3, <2>1, SpokenKinds, SaidTypes
  <2>7. (o \o u) \o d = o \o (u \o d)
    BY <2>6, Associative
  <2>8. Spoken(v) = o \o u
    BY <1>3, <2>1
  <2> QED BY <2>1, <2>2, <2>3, <2>4, <2>5, <2>7, <2>8
<1> HIDE DEF P
<1>4. turns \in P
  BY <1>2, <1>3, SequenceInduction
<1> QED BY <1>1, <1>4 DEF P

-----------------------------------------------------------------------------
(* The end of what was said.                                                 *)

\* p is the end of q.
EndOf(p, q) == p \in Seq(Part) /\ \E u \in Seq(Part) : q = u \o p

\* Nothing and everything are ends,
LEMMA EndOfNothing ==
  ASSUME NEW q \in Seq(Part)
  PROVE  EndOf(<<>>, q) /\ EndOf(q, q)
<1>1. q = q \o <<>> /\ q = <<>> \o q /\ <<>> \in Seq(Part)
  OBVIOUS
<1> QED BY <1>1 DEF EndOf

\* and so is an end of an end.
LEMMA EndOfEnd ==
  ASSUME NEW p, NEW q, NEW r, EndOf(p, q), EndOf(q, r)
  PROVE  EndOf(p, r)
<1>1. PICK u \in Seq(Part) : q = u \o p
  BY DEF EndOf
<1>2. PICK v \in Seq(Part) : r = v \o q
  BY DEF EndOf
<1>3. p \in Seq(Part)
  BY DEF EndOf
<1>4. (v \o u) \o p = v \o (u \o p)
  BY <1>3, Associative
<1>5. v \o u \in Seq(Part)
  BY Concatenated
<1> QED BY <1>1, <1>2, <1>3, <1>4, <1>5 DEF EndOf

\* The same after both.
LEMMA EndOfMore ==
  ASSUME NEW p, NEW q, NEW w \in Seq(Part), EndOf(p, q)
  PROVE  EndOf(p \o w, q \o w)
<1>1. PICK u \in Seq(Part) : q = u \o p
  BY DEF EndOf
<1>2. p \in Seq(Part)
  BY DEF EndOf
<1>3. (u \o p) \o w = u \o (p \o w)
  BY <1>2, Associative
<1>4. p \o w \in Seq(Part)
  BY <1>2, Concatenated
<1> QED BY <1>1, <1>3, <1>4 DEF EndOf

\* An end is a suffix.
LEMMA EndIsSuffix ==
  ASSUME NEW p, NEW q, EndOf(p, q)
  PROVE  IsSuffix(p, q)
<1>1. PICK u \in Seq(Part) : q = u \o p
  BY DEF EndOf
<1>2. p \in Seq(Part)
  BY DEF EndOf
<1>3. PICK a, b : a = Len(u) /\ b = Len(p)
  OBVIOUS
<1>4. a \in Nat /\ b \in Nat
  BY <1>2, <1>3
<1>5. q \in Seq(Part) /\ Len(q) = a + b /\ \A i \in 1 .. b : q[a + i] = p[i]
  BY <1>1, <1>2, <1>3, Concatenated
<1>6. PICK y, z : y = Reverse(p) /\ z = Reverse(q)
  OBVIOUS
<1>7. y = [i \in 1 .. b |-> p[(b - i) + 1]] /\ z = [i \in 1 .. a + b |-> q[((a + b) - i) + 1]]
  BY <1>3, <1>5, <1>6 DEF Reverse
<1>8. \A i \in 1 .. b : (b - i) + 1 \in 1 .. b /\ ((a + b) - i) + 1 = a + ((b - i) + 1) /\ i \in 1 .. a + b
  BY <1>4
<1>9. \A i \in 1 .. b : y[i] = z[i]
  BY <1>5, <1>7, <1>8
<1>10. \A i \in 1 .. a + b : ((a + b) - i) + 1 \in 1 .. a + b
  BY <1>4
<1>11. y \in Seq(Part) /\ Len(y) = b
  <2>1. \A i \in 1 .. b : p[(b - i) + 1] \in Part
    BY <1>2, <1>3, <1>8
  <2> QED BY <1>4, <1>7, <2>1
<1>12. z \in Seq(Part) /\ Len(z) = a + b
  <2>1. \A i \in 1 .. a + b : q[((a + b) - i) + 1] \in Part
    BY <1>5, <1>10
  <2>2. a + b \in Nat
    BY <1>4
  <2> QED BY <1>7, <2>1, <2>2
<1>13. PICK v, w : v = SubSeq(y, 1, b) /\ w = SubSeq(z, 1, b)
  OBVIOUS
<1>14. v \in Seq(Part) /\ Len(v) = b /\ \A i \in 1 .. b : v[i] = y[i]
  BY <1>4, <1>11, <1>13
<1>15. b <= a + b
  BY <1>4
<1>16. w \in Seq(Part) /\ Len(w) = b /\ \A i \in 1 .. b : w[i] = z[i]
  BY <1>4, <1>12, <1>13, <1>15
<1>17. v = w
  BY <1>9, <1>14, <1>16, SameSequence
<1>18. IsPrefix(y, z)
  BY <1>11, <1>12, <1>13, <1>15, <1>17 DEF IsPrefix
<1> QED BY <1>6, <1>18 DEF IsSuffix

\* Where nobody asks or replies nothing is said.
LEMMA NothingToSay ==
  ASSUME NEW p \in Seq(Part), ~Asks(p), ~Replied(p)
  PROVE  Only(p, Sentences) = <<>>
<1>1. PICK o : o = Only(p, Sentences)
  OBVIOUS
<1>2. o \in Seq(Part) /\ \A i \in DOMAIN o : o[i] \in Sentences /\ o[i] \in Range(p)
  BY <1>1, OnlyLeavesOut
<1>3. \A i \in DOMAIN o : FALSE
  <2> TAKE i \in DOMAIN o
  <2>1. PICK j \in DOMAIN p : p[j] = o[i]
    BY <1>2 DEF Range
  <2>2. o[i][1] \in {"user", "assistant"}
    BY <1>2 DEF Sentences
  <2> QED BY <2>1, <2>2 DEF Asks, Says, Replied
<1>4. o = <<>>
  <2>1. Len(o) \in Nat /\ DOMAIN o = 1 .. Len(o)
    BY <1>2
  <2>2. Len(o) = 0
    <3>1. Len(o) = 0 \/ 1 \in 1 .. Len(o)
      BY <2>1
    <3>2. 1 \notin DOMAIN o
      BY <1>3
    <3> QED BY <2>1, <3>1, <3>2
  <2> QED BY <1>2, <2>2
<1> QED BY <1>1, <1>4

\* Leaving out turns in which nothing is said.
LEMMA OnlySilent ==
  ASSUME NEW turns \in Seq(Turns), NEW S, \A i \in DOMAIN turns : turns[i] \notin S => Said(turns[i]) = <<>>
  PROVE  Spoken(Only(turns, S)) = Spoken(turns)
<1> DEFINE Silent(r) == \A i \in DOMAIN r : r[i] \notin S => Said(r[i]) = <<>>
           P == {r \in Seq(Turns) : Silent(r) => Spoken(Only(r, S)) = Spoken(r)}
<1>1. <<>> \in P
  <2>1. Only(<<>>, S) = <<>> /\ <<>> \in Seq(Turns)
    BY OnlyOfNothing
  <2> QED BY <2>1
<1>2. ASSUME NEW r \in Seq(Turns), NEW t \in Turns, r \in P PROVE Append(r, t) \in P
  <2>1. PICK w, o, n : w = Append(r, t) /\ o = Only(r, S) /\ n = Len(r)
    OBVIOUS
  <2>2. /\ w \in Seq(Turns) /\ n \in Nat /\ DOMAIN w = 1 .. n + 1 /\ DOMAIN r = 1 .. n
        /\ w[n + 1] = t /\ \A i \in 1 .. n : w[i] = r[i]
    BY <2>1
  <2> SUFFICES ASSUME Silent(w) PROVE Spoken(Only(w, S)) = Spoken(w)
    BY <2>1, <2>2
  <2>3. Silent(r) /\ (t \notin S => Said(t) = <<>>)
    <3>1. n + 1 \in DOMAIN w /\ \A i \in 1 .. n : i \in DOMAIN w
      BY <2>2
    <3> QED BY <2>2, <3>1
  <2> HIDE DEF Silent
  <2>4. Spoken(o) = Spoken(r)
    BY <1>2, <2>1, <2>3
  <2>5. Only(Append(r, t), S) = OnlyStep(Only(r, S), t, S)
    BY <1>2, OnlyAppend
  <2>6. o \in Seq(Turns)
    BY <1>2, <2>1, OnlyTypes
  <2>7. Spoken(Append(r, t)) = Spoken(r) \o Said(t)
    BY <1>2, SpokenAppend
  <2>8. CASE t \in S
    <3>1. Only(w, S) = Append(o, t)
      BY <2>1, <2>5, <2>8 DEF OnlyStep
    <3>2. Spoken(Append(o, t)) = Spoken(o) \o Said(t)
      BY <1>2, <2>6, SpokenAppend
    <3> QED BY <2>1, <2>4, <2>7, <3>1, <3>2
  <2>9. CASE t \notin S
    <3>1. Only(w, S) = o
      BY <2>1, <2>5, <2>9 DEF OnlyStep
    <3>2. PICK p : p = Spoken(r)
      OBVIOUS
    <3>3. p \in Seq(Part)
      BY <1>2, <3>2, SpokenKinds
    <3>4. p \o <<>> = p
      BY <3>3
    <3> QED BY <2>1, <2>3, <2>4, <2>7, <2>9, <3>1, <3>2, <3>4
  <2> QED BY <2>8, <2>9
<1> HIDE DEF P
<1>3. turns \in P
  BY <1>1, <1>2, SequenceInduction
<1> QED BY <1>3 DEF P

\* e is the end of a.
AtEnd(e, a) == e \in Seq(Turns) /\ \E u \in Seq(Turns) : a = u \o e

\* What the end of a conversation keeps of it.
LEMMA AtEndKeeps ==
  ASSUME NEW e, NEW a, AtEnd(e, a)
  PROVE  /\ e \in Seq(Turns) /\ a \in Seq(Turns) /\ EndOf(Spoken(e), Spoken(a)) /\ From(e, a) /\ Along(e, a)
         /\ e # <<>> => a # <<>> /\ Last(e) = Last(a)
<1>1. PICK u \in Seq(Turns) : a = u \o e
  BY DEF AtEnd
<1>2. e \in Seq(Turns)
  BY DEF AtEnd
<1>3. PICK n, k : n = Len(u) /\ k = Len(e)
  OBVIOUS
<1>4. n \in Nat /\ k \in Nat /\ DOMAIN e = 1 .. k
  BY <1>2, <1>3
<1>5. a \in Seq(Turns) /\ Len(a) = n + k /\ \A i \in 1 .. k : a[n + i] = e[i]
  BY <1>1, <1>2, <1>3, Concatenated
<1>6. EndOf(Spoken(e), Spoken(a))
  <2>1. Spoken(a) = Spoken(u) \o Spoken(e)
    BY <1>1, <1>2, SpokenTogether
  <2>2. Spoken(u) \in Seq(Part) /\ Spoken(e) \in Seq(Part)
    BY <1>2, SpokenKinds
  <2> QED BY <2>1, <2>2 DEF EndOf
<1>7. DOMAIN a = 1 .. n + k
  BY <1>5
<1>8. From(e, a)
  <2>1. \A i \in 1 .. k : n + i \in 1 .. n + k
    BY <1>4
  <2> QED BY <1>4, <1>5, <1>7, <2>1 DEF From
<1>9. Along(e, a)
  <2> SUFFICES ASSUME NEW i \in 2 .. k PROVE \E j \in 2 .. n + k : e[i - 1] = a[j - 1] /\ e[i] = a[j]
    BY <1>3, <1>5 DEF Along
  <2>1. i \in 1 .. k /\ i - 1 \in 1 .. k /\ n + i \in 2 .. n + k /\ (n + i) - 1 = n + (i - 1)
    BY <1>4
  <2> QED BY <1>5, <2>1
<1>10. ASSUME e # <<>> PROVE a # <<>> /\ Last(e) = Last(a)
  <2>1. k >= 1 /\ k \in 1 .. k /\ n + k >= 1
    BY <1>2, <1>3, <1>4, <1>10
  <2>2. a # <<>>
    BY <1>5, <2>1
  <2> QED BY <1>3, <1>5, <2>1, <2>2 DEF Last
<1> QED BY <1>2, <1>5, <1>6, <1>8, <1>9, <1>10

\* The latest turns are an end,
LEMMA LatestEnds ==
  ASSUME NEW turns \in Seq(Turns), NEW n \in Nat
  PROVE  AtEnd(Latest(n, turns), turns)
<1>1. PICK e, u : e = Latest(n, turns) /\ u = SubSeq(turns, 1, Len(turns) - Len(e))
  OBVIOUS
<1>2. PICK d, k : d = Len(turns) - Len(e) /\ k = Len(e)
  OBVIOUS
<1>3. e \in Seq(Turns) /\ k <= Len(turns) /\ \A i \in DOMAIN e : e[i] = turns[d + i]
  BY <1>1, <1>2, LatestKeepsEnd
<1>4. d \in Nat /\ k \in Nat /\ d <= Len(turns) /\ Len(turns) = d + k /\ DOMAIN e = 1 .. k
  BY <1>2, <1>3
<1>5. u \in Seq(Turns) /\ Len(u) = d /\ \A i \in 1 .. d : u[i] = turns[i]
  BY <1>1, <1>2, <1>4
<1>6. PICK w : w = u \o e
  OBVIOUS
<1>7. /\ w \in Seq(Turns) /\ Len(w) = Len(u) + Len(e)
      /\ \A i \in 1 .. Len(u) : w[i] = u[i]
      /\ \A i \in 1 .. Len(e) : w[Len(u) + i] = e[i]
  <2>1. u \in Seq(Turns) /\ e \in Seq(Turns)
    BY <1>3, <1>5
  <2>2. /\ u \o e \in Seq(Turns) /\ Len(u \o e) = Len(u) + Len(e)
        /\ \A i \in 1 .. Len(u) : (u \o e)[i] = u[i]
        /\ \A i \in 1 .. Len(e) : (u \o e)[Len(u) + i] = e[i]
    BY <2>1, Concatenated
  <2> QED BY <1>6, <2>2
<1>8. \A i \in 1 .. d + k : w[i] = turns[i]
  <2> TAKE i \in 1 .. d + k
  <2>1. CASE i <= d
    <3>1. i \in 1 .. d
      BY <1>4, <2>1
    <3> QED BY <1>5, <1>7, <3>1
  <2>2. CASE i > d
    <3>1. PICK j : j = i - d
      OBVIOUS
    <3>2. j \in 1 .. k /\ i = d + j
      BY <1>4, <2>2, <3>1
    <3> QED BY <1>2, <1>3, <1>4, <1>5, <1>7, <3>2
  <2> QED BY <1>4, <2>1, <2>2
<1>9. Len(w) = Len(turns) /\ \A i \in 1 .. Len(w) : w[i] = turns[i]
  BY <1>2, <1>4, <1>5, <1>7, <1>8
<1>10. w = turns
  BY <1>7, <1>9, SameSequence
<1> QED BY <1>1, <1>3, <1>5, <1>6, <1>10 DEF AtEnd

\* and an end stays one without the last turn of both.
LEMMA FrontEnds ==
  ASSUME NEW e, NEW a, AtEnd(e, a), e # <<>>
  PROVE  AtEnd(Front(e), Front(a))
<1>1. PICK u \in Seq(Turns) : a = u \o e
  BY DEF AtEnd
<1>2. e \in Seq(Turns)
  BY DEF AtEnd
<1>3. PICK f, t, v : f = Front(e) /\ t = Last(e) /\ v = u \o f
  OBVIOUS
<1>4. f \in Seq(Turns) /\ t \in Turns /\ e = Append(f, t)
  BY <1>2, <1>3, FrontAndLast
<1>5. u \o Append(f, t) = Append(u \o f, t)
  BY <1>4, AppendAfter
<1>6. v \in Seq(Turns)
  BY <1>3, <1>4, Concatenated
<1>7. Front(Append(v, t)) = v
  BY <1>4, <1>6, AppendShape
<1> QED BY <1>1, <1>3, <1>4, <1>5, <1>7 DEF AtEnd

\* Joining a turn to the last one says the same as appending it.
LEMMA JoinedSaid ==
  ASSUME NEW turns \in Seq(Turns), turns # <<>>, NEW t \in Turns, NEW s \in Seq(Turns), Joined(s, turns, t)
  PROVE  Spoken(s) = Spoken(turns) \o Said(t)
<1>1. PICK n, f, x, y : n = Len(turns) /\ f = Front(turns) /\ x = Last(turns) /\ y = Last(s)
  OBVIOUS
<1>2. /\ n \in Nat /\ n >= 1 /\ Len(s) = n /\ s # <<>> /\ \A i \in 1 .. n : i # n => s[i] = turns[i]
      /\ x = turns[n] /\ y = s[n] /\ y.parts = x.parts \o t.parts
  <2>1. n \in Nat /\ n >= 1
    BY <1>1
  <2>2. Len(s) = n /\ (\A i \in 1 .. n : i # n => s[i] = turns[i]) /\ s[n].parts = turns[n].parts \o t.parts
    BY <1>1, <2>1 DEF Joined
  <2> QED BY <1>1, <2>1, <2>2 DEF Last
<1>3. f \in Seq(Turns) /\ x \in Turns /\ turns = Append(f, x)
  BY <1>1, FrontAndLast
<1>4. y \in Turns /\ s = Append(f, y)
  <2>1. Front(s) \in Seq(Turns) /\ y \in Turns /\ s = Append(Front(s), y)
    BY <1>1, <1>2, FrontAndLast
  <2>2. Len(Front(s)) = n - 1 /\ Len(f) = n - 1 /\ \A i \in 1 .. n - 1 : Front(s)[i] = s[i] /\ f[i] = turns[i]
    BY <1>1, <1>2 DEF Front
  <2>3. \A i \in 1 .. n - 1 : i \in 1 .. n /\ i # n
    BY <1>2
  <2>4. PICK g : g = Front(s)
    OBVIOUS
  <2>5. Len(g) = Len(f) /\ \A i \in 1 .. Len(g) : g[i] = f[i]
    BY <1>2, <2>2, <2>3, <2>4
  <2>6. g = f
    BY <1>3, <2>1, <2>4, <2>5, SameSequence
  <2> QED BY <2>1, <2>4, <2>6
<1>5. Said(y) = Said(x) \o Said(t)
  <2>1. PICK p, q : p = x.parts /\ q = t.parts
    OBVIOUS
  <2>2. p \in Seq(Part) /\ q \in Seq(Part) /\ y.parts = p \o q
    BY <1>2, <1>3, <2>1, SaidTypes
  <2>3. Only(p \o q, Sentences) = Only(p, Sentences) \o Only(q, Sentences)
    BY <2>2, OnlyTogether
  <2> QED BY <2>1, <2>2, <2>3 DEF Said
<1>6. PICK o, u, d : o = Spoken(f) /\ u = Said(x) /\ d = Said(t)
  OBVIOUS
<1>7. o \in Seq(Part) /\ u \in Seq(Part) /\ d \in Seq(Part)
  BY <1>3, <1>6, SpokenKinds, SaidTypes
<1>8. Spoken(Append(f, y)) = o \o Said(y)
  BY <1>3, <1>4, <1>6, SpokenAppend
<1>9. Spoken(Append(f, x)) = o \o u
  BY <1>3, <1>6, SpokenAppend
<1>10. (o \o u) \o d = o \o (u \o d)
  BY <1>7, Associative
<1> QED BY <1>3, <1>4, <1>5, <1>6, <1>8, <1>9, <1>10

\* Normalizing drops what was said before the first request, and nothing after it.
LEMMA NormalizeSaid ==
  ASSUME NEW turns \in Seq(Turns)
  PROVE  EndOf(Spoken(Normalize(turns)), Spoken(turns))
<1>1. PICK acc : MergedOver(acc, turns)
  BY MergedOneByOne
<1>2. PICK a : PartsOver(a, turns)
  BY PartsOneByOne
<1>3. /\ acc \in [0 .. Len(turns) -> Made] /\ acc[0] = Nothing /\ Normalize(turns) = acc[Len(turns)].turns
      /\ \A k \in 1 .. Len(turns) : acc[k] = Merged(acc[k - 1], turns[k])
  BY <1>1 DEF MergedOver
<1>4. /\ a \in [0 .. Len(turns) -> Seq(Part)] /\ a[0] = <<>> /\ Parts(turns) = a[Len(turns)]
      /\ \A k \in 1 .. Len(turns) : a[k] = PartsStep(a[k - 1], turns[k])
  BY <1>2 DEF PartsOver
<1> DEFINE Good(v, p) == Formed(v) /\ ~Torn(v.turns) /\ EndOf(Spoken(v.turns), Only(p, Sentences))
           P == {k \in Nat : k <= Len(turns) => Good(acc[k], a[k])}
<1>5. 0 \in P
  <2>1. Formed(Nothing) /\ ~Torn(<<>>) /\ Nothing.turns = <<>>
    BY NothingIs DEF Formed, Nothing
  <2>2. Only(<<>>, Sentences) = <<>> /\ Spoken(<<>>) = <<>>
    BY OnlyOfNothing, NothingSaid
  <2>3. <<>> \in Seq(Part)
    OBVIOUS
  <2>4. EndOf(<<>>, <<>>)
    BY <2>3, EndOfNothing
  <2> QED BY <1>3, <1>4, <2>1, <2>2, <2>4
<1>6. ASSUME NEW k \in Nat, k \in P PROVE k + 1 \in P
  <2> SUFFICES ASSUME k + 1 <= Len(turns) PROVE Good(acc[k + 1], a[k + 1])
    OBVIOUS
  <2>1. k + 1 \in 1 .. Len(turns) /\ (k + 1) - 1 = k /\ k \in 0 .. Len(turns) /\ k <= Len(turns)
    BY <1>6
  <2>2. /\ acc[k + 1] = Merged(acc[k], turns[k + 1]) /\ acc[k] \in Made /\ turns[k + 1] \in Turns
        /\ a[k + 1] = PartsStep(a[k], turns[k + 1]) /\ a[k] \in Seq(Part)
    BY <1>3, <1>4, <2>1
  <2>3. Good(acc[k], a[k])
    BY <1>6, <2>1
  <2>4. PICK v, t, w, p : v = acc[k] /\ t = turns[k + 1] /\ w = acc[k + 1] /\ p = a[k]
    OBVIOUS
  <2>5. /\ v \in Made /\ t \in Turns /\ w = Merged(v, t) /\ Formed(v) /\ ~Torn(v.turns) /\ p \in Seq(Part)
        /\ a[k + 1] = p \o t.parts /\ EndOf(Spoken(v.turns), Only(p, Sentences))
    BY <2>2, <2>3, <2>4 DEF PartsStep
  <2>6. w \in Made /\ Formed(w) /\ ~Torn(w.turns)
    BY <2>5, MergedTidy
  <2>7. t.parts \in Seq(Part) /\ Said(t) \in Seq(Part) /\ v.turns \in Seq(Turns) /\ w.turns \in Seq(Turns)
    BY <2>5, <2>6, SaidTypes DEF Made
  <2>8. Only(a[k + 1], Sentences) = Only(p, Sentences) \o Said(t)
    <3>1. PICK q : q = t.parts
      OBVIOUS
    <3>2. p \in Seq(Part) /\ q \in Seq(Part)
      BY <2>5, <2>7, <3>1
    <3>3. Only(p \o q, Sentences) = Only(p, Sentences) \o Only(q, Sentences)
      BY <3>2, OnlyTogether
    <3> QED BY <2>5, <3>1, <3>3 DEF Said
  <2>9. PICK o, u, d : o = Only(p, Sentences) /\ u = Spoken(v.turns) /\ d = Said(t)
    OBVIOUS
  <2>10. EndOf(u \o d, o \o d)
    <3>1. EndOf(u, o) /\ d \in Seq(Part)
      BY <2>5, <2>7, <2>9
    <3> QED BY <3>1, EndOfMore
  <2>11. CASE w.turns = Append(v.turns, t)
    <3>1. PICK s : s = v.turns
      OBVIOUS
    <3>2. Spoken(Append(s, t)) = Spoken(s) \o Said(t)
      BY <2>5, <2>7, <3>1, SpokenAppend
    <3> QED BY <2>4, <2>6, <2>8, <2>9, <2>10, <2>11, <3>1, <3>2
  <2>12. CASE v.turns = <<>> /\ w = v
    <3>1. o \o d \in Seq(Part)
      <4>1. o \in Seq(Part) /\ d \in Seq(Part)
        BY <2>5, <2>7, <2>9, OnlyTypes
      <4> QED BY <4>1, Concatenated
    <3>2. EndOf(<<>>, o \o d)
      BY <3>1, EndOfNothing
    <3> QED BY <2>4, <2>6, <2>8, <2>9, <2>12, <3>2, NothingSaid
  <2>13. CASE v.turns # <<>> /\ Joined(w.turns, v.turns, t)
    <3>1. PICK s, z : s = v.turns /\ z = w.turns
      OBVIOUS
    <3>2. Spoken(z) = Spoken(s) \o Said(t)
      BY <2>5, <2>7, <2>13, <3>1, JoinedSaid
    <3> QED BY <2>4, <2>6, <2>8, <2>9, <2>10, <3>1, <3>2
  <2> HIDE DEF P
  <2>14. \/ w.turns = Append(v.turns, t)
         \/ v.turns = <<>> /\ w = v
         \/ v.turns # <<>> /\ Joined(w.turns, v.turns, t)
    <3> HIDE DEF Good
    <3> QED BY <2>5, MergedShape
  <2> QED BY <2>11, <2>12, <2>13, <2>14
<1> HIDE DEF P
<1>7. Len(turns) \in P
  BY <1>5, <1>6, SetInduction
<1>8. Good(acc[Len(turns)], a[Len(turns)])
  BY <1>7 DEF P
<1> QED BY <1>3, <1>4, <1>8 DEF Spoken, Sentences

\* Stripping leaves everything that was said, when calls and results hold nothing of it.
LEMMA StrippedSaid ==
  ASSUME NEW turns \in Seq(Turns), Mute(turns), Unasked(turns), setting.nativeCalls \/ CallsAlone(turns)
  PROVE  Spoken(Stripped(turns)) = Spoken(turns)
<1>1. PICK b, old, kept, rest : Split(turns, b, old, kept, rest)
  BY StrippedSplit
<1>2. PICK S : S = Texts(turns)
  OBVIOUS
<1>3. /\ old \in Seq(Turns) /\ rest \in Seq(Turns) /\ kept \in Seq(Turns) /\ kept = Only(old, S)
      /\ Stripped(turns) = kept \o rest /\ turns = old \o rest
      /\ Len(old) = b /\ \A i \in 1 .. b : i \in DOMAIN turns /\ old[i] = turns[i]
  BY <1>1, <1>2 DEF Split
<1>4. DOMAIN old = 1 .. b
  BY <1>3
<1>5. ASSUME NEW i \in DOMAIN old, old[i] \notin S PROVE Said(old[i]) = <<>>
  <2>1. PICK t : t = old[i]
    OBVIOUS
  <2>2. i \in DOMAIN turns /\ t = turns[i] /\ t \in Turns
    BY <1>3, <1>4, <2>1
  <2>3. t.role = "tool" \/ LooksLikeCall(t)
    BY <1>2, <1>5, <2>1, <2>2 DEF Texts, Range
  <2>4. ~Asks(t.parts) /\ ~Replied(t.parts)
    <3>1. CASE t.role = "tool"
      BY <2>2, <3>1 DEF Mute, Unasked
    <3>2. CASE t.role # "tool"
      <4>1. ~setting.nativeCalls /\ Calls(t.parts)
        BY <2>3, <3>2 DEF LooksLikeCall, Calls, Says
      <4>2. CallAlone(t)
        BY <2>2, <4>1 DEF CallsAlone
      <4> QED BY <4>1, <4>2 DEF CallAlone
    <3> QED BY <3>1, <3>2
  <2>5. t.parts \in Seq(Part)
    BY <2>2, SaidTypes
  <2>6. Only(t.parts, Sentences) = <<>>
    BY <2>4, <2>5, NothingToSay
  <2> QED BY <2>1, <2>6 DEF Said
<1>6. Spoken(kept) = Spoken(old)
  <2>1. Spoken(Only(old, S)) = Spoken(old)
    BY <1>3, <1>5, OnlySilent
  <2> QED BY <1>3, <2>1
<1>7. Spoken(kept \o rest) = Spoken(kept) \o Spoken(rest)
  BY <1>3, SpokenTogether
<1>8. Spoken(old \o rest) = Spoken(old) \o Spoken(rest)
  BY <1>3, SpokenTogether
<1> QED BY <1>3, <1>6, <1>7, <1>8

-----------------------------------------------------------------------------
(* What memory and file tell.                                                *)

\* Memory a tells the end of what file b does.
Told(a, b) ==
  /\ Tainted(a) => Torn(b)
  /\ Torn(b) \/ EndOf(Spoken(a), Spoken(b))
  /\ a # <<>> /\ Last(a).role = "tool" => Torn(b) \/ (b # <<>> /\ Last(b).role = "tool")

\* Memory that holds nothing tells nothing wrong.
LEMMA ToldNothing ==
  ASSUME NEW b \in Seq(Turns)
  PROVE  Told(<<>>, b)
<1>1. Spoken(b) \in Seq(Part)
  BY SpokenKinds
<1>2. EndOf(Spoken(<<>>), Spoken(b))
  BY <1>1, NothingSaid, EndOfNothing
<1> QED BY <1>2, NothingIs DEF Told

\* The same turn on both,
LEMMA ToldMore ==
  ASSUME NEW a \in Seq(Turns), NEW b \in Seq(Turns), Told(a, b), NEW t \in Turns,
         t.role = "tool" => ~Asks(t.parts)
  PROVE  Told(Append(a, t), Append(b, t))
<1>1. PICK y, z : y = Append(a, t) /\ z = Append(b, t)
  OBVIOUS
<1>2. /\ Torn(y) <=> Torn(a) \/ (a # <<>> /\ Last(a).role = "tool" /\ t.role = "user")
      /\ Unasked(a) => Unasked(y)
      /\ y # <<>> /\ Last(y) = t
  BY <1>1, AppendShape
<1>3. /\ Torn(z) <=> Torn(b) \/ (b # <<>> /\ Last(b).role = "tool" /\ t.role = "user")
      /\ z # <<>> /\ Last(z) = t
  BY <1>1, AppendShape
<1>4. Tainted(y) => Torn(z)
  BY <1>2, <1>3 DEF Told, Tainted
<1>5. EndOf(Spoken(a), Spoken(b)) => EndOf(Spoken(y), Spoken(z))
  <2>1. PICK p, q, d : p = Spoken(a) /\ q = Spoken(b) /\ d = Said(t)
    OBVIOUS
  <2>2. d \in Seq(Part)
    BY <2>1, SaidTypes
  <2>3. EndOf(p, q) => EndOf(p \o d, q \o d)
    BY <2>2, EndOfMore
  <2>4. Spoken(y) = p \o d
    BY <1>1, <2>1, SpokenAppend
  <2>5. Spoken(z) = q \o d
    BY <1>1, <2>1, SpokenAppend
  <2> QED BY <2>1, <2>3, <2>4, <2>5
<1>6. Torn(z) \/ EndOf(Spoken(y), Spoken(z))
  BY <1>3, <1>5 DEF Told
<1> QED BY <1>1, <1>2, <1>3, <1>4, <1>6 DEF Told

\* less of memory,
LEMMA ToldEnd ==
  ASSUME NEW e, NEW a, NEW b, AtEnd(e, a), Told(a, b)
  PROVE  Told(e, b)
<1>1. /\ EndOf(Spoken(e), Spoken(a)) /\ From(e, a) /\ Along(e, a)
      /\ e # <<>> => a # <<>> /\ Last(e) = Last(a)
  BY AtEndKeeps
<1>2. Tainted(e) => Tainted(a)
  BY <1>1, FromKeeps, AlongKeeps DEF Tainted
<1>3. EndOf(Spoken(a), Spoken(b)) => EndOf(Spoken(e), Spoken(b))
  BY <1>1, EndOfEnd
<1> QED BY <1>1, <1>2, <1>3 DEF Told

\* appended with the limit,
LEMMA ToldExtended ==
  ASSUME setting \in Settings, NEW a \in Seq(Turns), NEW b \in Seq(Turns), Told(a, b), NEW t \in Turns,
         t.role = "tool" => ~Asks(t.parts)
  PROVE  Told(Extended(a, t), Append(b, t)) /\ Told(Front(Extended(a, t)), b)
<1>1. PICK s, n, e : s = Append(a, t) /\ n = setting.maxHistory /\ e = Extended(a, t)
  OBVIOUS
<1>2. n \in Nat /\ s \in Seq(Turns) /\ e = Latest(n, s)
  BY <1>1, SettingIs DEF Extended
<1>3. AtEnd(e, s)
  BY <1>2, LatestEnds
<1>4. Told(s, Append(b, t))
  BY <1>1, ToldMore
<1>5. Told(e, Append(b, t))
  BY <1>3, <1>4, ToldEnd
<1>6. e # <<>>
  BY <1>1, ExtendedIs
<1>7. AtEnd(Front(e), Front(s))
  BY <1>3, <1>6, FrontEnds
<1>8. Front(s) = a
  BY <1>1, AppendShape
<1>9. Told(Front(e), b)
  BY <1>7, <1>8, ToldEnd
<1> QED BY <1>1, <1>5, <1>9

\* normalized,
LEMMA ToldNormalized ==
  ASSUME NEW a \in Seq(Turns), NEW b, Told(a, b)
  PROVE  Told(Normalize(a), b)
<1>1. PICK s : s = Normalize(a)
  OBVIOUS
<1>2. /\ ~Torn(s)
      /\ ~Tainted(a) =>
           /\ Unasked(s)
           /\ s # <<>> /\ Last(s).role = "tool" => a # <<>> /\ Last(a).role = "tool"
  BY <1>1, NormalizeShape
<1>3. EndOf(Spoken(s), Spoken(a))
  BY <1>1, NormalizeSaid
<1>4. EndOf(Spoken(a), Spoken(b)) => EndOf(Spoken(s), Spoken(b))
  BY <1>3, EndOfEnd
<1> QED BY <1>1, <1>2, <1>4 DEF Told, Tainted

\* and stripped.
LEMMA ToldStripped ==
  ASSUME NEW a \in Seq(Turns), NEW b, Told(a, b), Mute(a), setting.nativeCalls \/ CallsAlone(a)
  PROVE  Told(Stripped(a), b)
<1>1. PICK s : s = Stripped(a)
  OBVIOUS
<1>2. CASE Torn(b)
  BY <1>2 DEF Told
<1>3. CASE ~Torn(b)
  <2>1. Unasked(a) /\ ~Torn(a) /\ EndOf(Spoken(a), Spoken(b))
    BY <1>3 DEF Told, Tainted
  <2>2. Spoken(s) = Spoken(a)
    BY <1>1, <2>1, StrippedSaid
  <2>3. /\ Unasked(a) => Unasked(s)
        /\ Torn(s) => Torn(a)
        /\ s # <<>> /\ Last(s).role = "tool" => a # <<>> /\ Last(a).role = "tool"
    BY <1>1, StrippedShape
  <2> QED BY <1>1, <2>1, <2>2, <2>3 DEF Told, Tainted
<1> QED BY <1>2, <1>3

\* What a restart puts in memory and adds to the file.
LEMMA ToldHydrated ==
  ASSUME NEW b \in Seq(Turns), Single(b)
  PROVE  Told(Hydrated(b), IF Open(b) THEN Append(b, Reply(Closure)) ELSE b)
<1>1. PICK s, r : s = Latest(HydrateMax, b) /\ r = Reply(Closure)
  OBVIOUS
<1>2. HydrateMax \in Nat
  BY HistoryConstants
<1>3. AtEnd(s, b)
  BY <1>1, <1>2, LatestEnds
<1>4. Told(b, b)
  <2>1. Spoken(b) \in Seq(Part)
    BY SpokenKinds
  <2>2. EndOf(Spoken(b), Spoken(b))
    BY <2>1, EndOfNothing
  <2> QED BY <2>2, SingleIs DEF Told
<1>5. Told(s, b)
  BY <1>3, <1>4, ToldEnd
<1>6. r \in Turns /\ r.role = "assistant"
  BY <1>1, TurnsAre DEF Reply, Turn, Roles
<1>7. s \in Seq(Turns)
  BY <1>3 DEF AtEnd
<1>8. Told(Append(s, r), Append(b, r))
  BY <1>5, <1>6, <1>7, ToldMore
<1> QED BY <1>1, <1>5, <1>8 DEF Hydrated

\* Where memory and file are in step, for a message of a conversation that comes alone.
Tale(m) ==
  LET a == mem[key[m]]
      b == disk[key[m]]
  IN  /\ pc[m] \in {"begin", "fresh", "persist", "strip", "compact", "new", "new_mark"} => Told(a, b)
      /\ pc[m] = "new_file" => a = <<>>
      /\ pc[m] = "remember" => Last(b) = Head(out[m])
      /\ pc[m] \in {"remember", "rewrite"} => b # <<>> /\ Told(a, Front(b))
      /\ pc[m] \in {"read", "model", "rollback"} => Told(Front(a), Front(b))

\* Where a conversation is alone with its file, memory tells its end.
Telling ==
  \A k \in Keys : Sole(k) =>
    /\ Quiet(k) => Told(mem[k], disk[k])
    /\ \A m \in Arrived : key[m] = k => Tale(m)

\* The same request at the end of both.
LEMMA ToldAsked ==
  ASSUME NEW a \in Seq(Turns), NEW b \in Seq(Turns), a # <<>>, b # <<>>, Told(Front(a), Front(b)),
         NEW x, Last(a) = User(x), Last(b) = User(x)
  PROVE  Told(a, b)
<1>1. PICK f, g, t : f = Front(a) /\ g = Front(b) /\ t = User(x)
  OBVIOUS
<1>2. f \in Seq(Turns) /\ t \in Turns /\ a = Append(f, t) /\ g \in Seq(Turns) /\ b = Append(g, t)
  BY <1>1, FrontAndLast
<1>3. t.role = "user"
  BY <1>1 DEF User, Turn
<1> QED BY <1>1, <1>2, <1>3, ToldMore

\* What memory and file tell after a step, by where it leads.
TaleThen(x, a, b) ==
  /\ pc'[x] \in {"begin", "fresh", "persist", "strip", "compact", "new", "new_mark"} => Told(a, b)
  /\ pc'[x] = "new_file" => a = <<>>
  /\ pc'[x] = "remember" => Last(b) = Head(out'[x])
  /\ pc'[x] \in {"remember", "rewrite"} => b # <<>> /\ Told(a, Front(b))
  /\ pc'[x] \in {"read", "model", "rollback"} => Told(Front(a), Front(b))
ToldThen(x, a, b) == TaleThen(x, a, b) /\ (pc'[x] \in {"done", "lost"} => Told(a, b))

\* Each step of a worker tells what it leads to.
LEMMA TaleOne ==
  ASSUME TaleInv, NEW x \in Arrived, Work(x), setting' = setting, NEW k, k = key[x], Sole(k), Tale(x)
  PROVE  ToldThen(x, mem'[k], disk'[k])
<1>0. /\ WorkInv /\ Types /\ x \in Messages /\ k \in Keys /\ setting \in Settings
      /\ PlaceInv /\ Shape /\ Spacing
  BY ArrivedAre DEF TaleInv, PlaceInv, WorkInv, TypeInv, Types
<1>1. Sanitize[k] = k /\ Sanitize[key[x]] = k
  BY <1>0, AloneIs DEF Sole
<1>2. PICK a, b : a = mem[k] /\ b = disk[k]
  OBVIOUS
<1>3. InMemory(x) = a /\ InMemoryThen(x) = mem'[k] /\ InFile(x) = b /\ InFileThen(x) = disk'[k]
  BY <1>1, <1>2 DEF InMemory, InMemoryThen, InFile, InFileThen
<1>4. a \in Seq(Turns) /\ b \in Seq(Turns) /\ Mute(a)
  BY <1>0, <1>2 DEF Types, Shape
<1>5. /\ pc[x] \in {"begin", "fresh", "persist", "strip", "compact", "new", "new_mark"} => Told(a, b)
      /\ pc[x] = "new_file" => a = <<>>
      /\ pc[x] = "remember" => Last(b) = Head(out[x])
      /\ pc[x] \in {"remember", "rewrite"} => b # <<>> /\ Told(a, Front(b))
      /\ pc[x] \in {"read", "model", "rollback"} => Told(Front(a), Front(b))
  BY <1>2 DEF Tale
<1>6. ASSUME pc[x] \in {"read", "model", "rollback"}
      PROVE  a # <<>> /\ b # <<>> /\ Last(a) = User(x) /\ Last(b) = User(x) /\ Told(a, b)
  <2>1. Placed(x)
    BY <1>0 DEF PlaceInv, AllPlaced, Sole
  <2>2. EndsWith(a, x) /\ EndsWith(b, x)
    BY <1>1, <1>2, <1>6, <2>1 DEF Placed, File
  <2>3. a # <<>> /\ b # <<>> /\ Last(a) = User(x) /\ Last(b) = User(x)
    BY <2>2 DEF EndsWith
  <2> QED BY <1>4, <1>5, <1>6, <2>3, ToldAsked
<1>7. ~setting.storageFails
  BY DEF Sole, Orderly
<1>10. CASE Idle(x)
  <2>1. mem'[k] = a /\ disk'[k] = b
    BY <1>3, <1>10 DEF Idle
  <2>2. CASE pc'[x] = "done" /\ pc[x] \in {"begin", "model", "new_mark"}
    BY <1>5, <1>6, <2>1, <2>2 DEF ToldThen, TaleThen
  <2>3. CASE pc[x] = "begin" /\ pc'[x] \in {"fresh", "persist"}
    BY <1>5, <2>1, <2>3 DEF ToldThen, TaleThen
  <2>4. CASE pc[x] \in {"read", "model"} /\ pc'[x] \in {"model", "rollback"}
    BY <1>5, <2>1, <2>4 DEF ToldThen, TaleThen
  <2>5. CASE pc[x] \in {"model", "rollback"} /\ pc'[x] \in {"compact", "persist"}
    BY <1>6, <2>1, <2>5 DEF ToldThen, TaleThen
  <2> QED BY <1>10, <2>2, <2>3, <2>4, <2>5 DEF Idle
<1>11. CASE Cleared(x)
  <2>1. mem'[k] = <<>> /\ disk'[k] = b /\ pc'[x] \in {"persist", "new_file"}
    BY <1>3, <1>11 DEF Cleared
  <2>2. Told(<<>>, b)
    BY <1>4, ToldNothing
  <2> QED BY <2>1, <2>2 DEF ToldThen, TaleThen
<1>12. CASE Written(x)
  <2>1. pc[x] = "persist" /\ pc'[x] = "remember" /\ out'[x] = out[x] /\ mem'[k] = a /\ disk'[k] = Append(b, Head(out[x]))
    BY <1>3, <1>7, <1>12 DEF Written
  <2>2. PICK t, z : t = Head(out[x]) /\ z = Append(b, t)
    OBVIOUS
  <2>3. t \in Turns
    BY <1>0, <2>1, <2>2, HeadIs
  <2>4. z # <<>> /\ Last(z) = t /\ Front(z) = b
    BY <1>4, <2>2, <2>3, AppendShape
  <2>5. Told(a, Front(z))
    BY <1>5, <2>1, <2>4
  <2> QED BY <2>1, <2>2, <2>4, <2>5 DEF ToldThen, TaleThen
<1>13. CASE Remembered(x)
  <2>1. /\ pc[x] = "remember" /\ mem'[k] = Extended(a, Head(out[x])) /\ disk'[k] = b
        /\ pc'[x] \in {"read", "done", "strip", "persist"}
    BY <1>3, <1>13 DEF Remembered
  <2>2. PICK t, f : t = Head(out[x]) /\ f = Front(b)
    OBVIOUS
  <2>3. PICK role \in Roles : t = Turn(role, x) /\ t \in Turns
    BY <1>0, <2>1, <2>2, HeadIs
  <2>4. t.role = "tool" => ~Asks(t.parts)
    BY <2>3, TurnShape
  <2>5. b # <<>> /\ Last(b) = t /\ Told(a, f)
    BY <1>5, <2>1, <2>2
  <2>6. f \in Seq(Turns) /\ b = Append(f, t)
    BY <1>4, <2>2, <2>5, FrontAndLast
  <2>7. Told(Extended(a, t), Append(f, t)) /\ Told(Front(Extended(a, t)), f)
    BY <1>0, <1>4, <2>3, <2>4, <2>5, <2>6, ToldExtended
  <2> QED BY <2>1, <2>2, <2>6, <2>7 DEF ToldThen, TaleThen
<1>14. CASE StrippedOff(x)
  <2>1. mem'[k] = Stripped(a) /\ disk'[k] = b /\ pc[x] = "strip" /\ pc'[x] = "done"
    BY <1>3, <1>14 DEF StrippedOff
  <2>2. setting.nativeCalls \/ CallsAlone(a)
    BY <1>0, <1>2 DEF Spacing, InOrder, Sole, Orderly
  <2>3. Told(a, b)
    BY <1>5, <2>1
  <2>4. Told(Stripped(a), b)
    BY <1>4, <2>2, <2>3, ToldStripped
  <2> QED BY <2>1, <2>4 DEF ToldThen, TaleThen
<1>15. CASE Compacted(x)
  <2>1. mem'[k] = Normalize(Latest(CompactKeep, a)) /\ disk'[k] = b /\ pc[x] = "compact" /\ pc'[x] = "done"
    BY <1>3, <1>15 DEF Compacted
  <2>2. PICK s : s = Latest(CompactKeep, a)
    OBVIOUS
  <2>3. CompactKeep \in Nat
    BY HistoryConstants
  <2>4. AtEnd(s, a)
    BY <1>4, <2>2, <2>3, LatestEnds
  <2>5. Told(s, b) /\ s \in Seq(Turns)
    BY <1>5, <2>1, <2>4, ToldEnd DEF AtEnd
  <2>6. Told(Normalize(s), b)
    BY <2>5, ToldNormalized
  <2> QED BY <2>1, <2>2, <2>6 DEF ToldThen, TaleThen
<1>16. CASE RolledBack(x)
  <2>1. /\ mem'[k] = Front(a) /\ disk'[k] = b /\ pc[x] = "rollback"
        /\ pc'[x] = (IF b = <<>> THEN "done" ELSE "rewrite")
    BY <1>3, <1>16 DEF RolledBack
  <2>2. b # <<>> /\ Told(Front(a), Front(b))
    BY <1>5, <1>6, <2>1
  <2> QED BY <2>1, <2>2 DEF ToldThen, TaleThen
<1>17. CASE Rewritten(x)
  <2>1. mem'[k] = a /\ disk'[k] = Front(loaded[x]) /\ pc[x] = "rewrite" /\ pc'[x] = "done"
    BY <1>3, <1>17 DEF Rewritten
  <2>2. loaded[x] = b
    <3>1. Placed(x)
      BY <1>0 DEF PlaceInv, AllPlaced, Sole
    <3> QED BY <1>1, <1>2, <2>1, <3>1 DEF Placed, File
  <2>3. Told(a, Front(b))
    BY <1>5, <2>1
  <2> QED BY <2>1, <2>2, <2>3 DEF ToldThen, TaleThen
<1>18. CASE Emptied(x)
  <2>1. mem'[k] = a /\ disk'[k] = <<>> /\ pc[x] = "new_file" /\ pc'[x] = "new_mark"
    BY <1>3, <1>18 DEF Emptied
  <2>2. a = <<>> /\ Told(<<>>, <<>>)
    <3>1. <<>> \in Seq(Turns)
      OBVIOUS
    <3> QED BY <1>5, <2>1, <3>1, ToldNothing
  <2> QED BY <2>1, <2>2 DEF ToldThen, TaleThen
<1> QED BY <1>0, <1>10, <1>11, <1>12, <1>13, <1>14, <1>15, <1>16, <1>17, <1>18, Effects DEF Effect

\* Those are what Tale says next.
LEMMA TaleLater ==
  ASSUME NEW m, TaleThen(m, mem'[key'[m]], disk'[key'[m]])
  PROVE  Tale(m)'
BY DEF TaleThen, Tale, Told, Torn, Tainted, Unasked, EndOf

\* The steps of workers keep memory and file in step,
LEMMA TellingWork ==
  ASSUME TaleInv, Telling, NEW x \in Arrived, Work(x), setting' = setting
  PROVE  Telling'
<1>0. /\ WorkInv /\ Types /\ x \in Messages /\ key[x] \in Keys /\ \A m \in Arrived : m \in Messages /\ key[m] \in Keys
  BY ArrivedAre DEF TaleInv, PlaceInv, WorkInv, TypeInv
<1>1. /\ key' = key /\ Arrived' = Arrived /\ ~Over(x)
      /\ \A j \in Messages : j # x => pc'[j] = pc[j] /\ out'[j] = out[j]
      /\ \A k \in Keys : k # key[x] => mem'[k] = mem[k]
  BY <1>0, WorkerFrame DEF Arrived
<1> SUFFICES ASSUME NEW k \in Keys, Sole(k)
             PROVE  /\ (\A m \in Arrived : key[m] = k => Over(m)') => Told(mem'[k], disk'[k])
                    /\ \A m \in Arrived : key[m] = k => Tale(m)'
  <2>1. \A k : Sole(k)' <=> Sole(k)
    BY DEF Sole, Orderly, Alone
  <2>2. \A k : Told(mem[k], disk[k])' <=> Told(mem'[k], disk'[k])
    BY DEF Told, Torn, Tainted, Unasked, EndOf
  <2> QED BY <1>1, <2>1, <2>2 DEF Telling, Quiet, Over
<1>3. CASE k = key[x]
  <2>1. Tale(x)
    BY <1>3 DEF Telling
  <2>2. ToldThen(x, mem'[k], disk'[k])
    BY <1>3, <2>1, TaleOne
  <2>3. ASSUME NEW m \in Arrived, key[m] = k PROVE Tale(m)'
    <3>1. CASE m = x
      BY <1>1, <1>3, <2>2, <2>3, <3>1, TaleLater DEF ToldThen
    <3>2. CASE m # x
      <4>1. Over(m) /\ pc'[m] = pc[m]
        BY <1>0, <1>1, <1>3, <2>3, <3>2, OthersOver DEF Sole, Orderly
      <4>2. TaleThen(m, mem'[key'[m]], disk'[key'[m]])
        BY <4>1 DEF Over, TaleThen
      <4> QED BY <4>2, TaleLater
    <3> QED BY <3>1, <3>2
  <2>4. Over(x)' => Told(mem'[k], disk'[k])
    BY <2>2 DEF ToldThen, Over
  <2> QED BY <1>3, <2>3, <2>4
<1>4. CASE k # key[x]
  <2>1. mem'[k] = mem[k] /\ disk'[k] = disk[k]
    BY <1>0, <1>4, OthersKept, AloneIs DEF Sole
  <2>2. \A m \in Arrived : key[m] = k => pc'[m] = pc[m] /\ out'[m] = out[m]
    BY <1>0, <1>1, <1>4
  <2>3. /\ Quiet(k) => Told(mem[k], disk[k])
        /\ \A m \in Arrived : key[m] = k => Tale(m)
    BY DEF Telling
  <2>4. ASSUME NEW m \in Arrived, key[m] = k PROVE Tale(m)'
    <3>1. Tale(m)
      BY <2>3, <2>4
    <3>2. TaleThen(m, mem'[key'[m]], disk'[key'[m]])
      BY <1>1, <2>1, <2>2, <2>4, <3>1 DEF Tale, TaleThen
    <3> QED BY <3>2, TaleLater
  <2> QED BY <2>1, <2>2, <2>3, <2>4 DEF Quiet, Over
<1> QED BY <1>3, <1>4

\* and so do an arrival,
LEMMA TellingArrive ==
  ASSUME TaleInv, Telling, NEW k \in Keys, NEW first \in {"begin", "new"}, Arrive(k, first), setting' = setting
  PROVE  Telling'
<1>0. /\ WorkInv /\ \A m \in Arrived : m \in Messages
  BY ArrivedAre DEF TaleInv, PlaceInv, WorkInv, TypeInv
<1>a. PICK n : n = Len(key) + 1
  OBVIOUS
<1>1. /\ n \in Messages /\ n \notin Arrived /\ Arrived' = Arrived \cup {n}
      /\ key'[n] = k /\ \A m \in Arrived : key'[m] = key[m]
      /\ pc'[n] = first
      /\ \A j \in Messages : j # n => pc'[j] = pc[j]
      /\ ~setting.overlap => \A m \in Arrived : key[m] = k => Over(m)
      /\ UNCHANGED <<mem, disk, out>>
  BY <1>0, <1>a, ArriveIs
<1>2. \A m \in Arrived : pc'[m] = pc[m] /\ key'[m] = key[m]
  BY <1>0, <1>1
<1> SUFFICES ASSUME NEW j \in Keys, Sole(j)
             PROVE  /\ Quiet(j)' => Told(mem[j], disk[j])
                    /\ \A m \in Arrived' : key'[m] = j => Tale(m)'
  <2>1. \A i : Sole(i)' <=> Sole(i)
    BY DEF Sole, Orderly, Alone
  <2>2. \A i : Told(mem[i], disk[i])' <=> Told(mem[i], disk[i])
    BY <1>1 DEF Told, Torn, Tainted, Unasked, EndOf
  <2> QED BY <2>1, <2>2 DEF Telling
<1>3. /\ Quiet(j) => Told(mem[j], disk[j])
      /\ \A m \in Arrived : key[m] = j => Tale(m)
  BY DEF Telling
<1>4. Quiet(j)' => Quiet(j)
  BY <1>1, <1>2 DEF Quiet
<1>5. ASSUME NEW m \in Arrived, key[m] = j PROVE Tale(m)'
  <2>1. Tale(m)
    BY <1>3, <1>5
  <2>2. key'[m] = key[m] /\ pc'[m] = pc[m] /\ UNCHANGED <<mem, disk, out>>
    BY <1>1, <1>2, <1>5
  <2>3. TaleThen(m, mem'[key'[m]], disk'[key'[m]])
    BY <2>1, <2>2 DEF Tale, TaleThen
  <2> QED BY <2>3, TaleLater
<1>6. ASSUME k = j PROVE Tale(n)'
  <2>1. Quiet(j)
    BY <1>1, <1>6 DEF Quiet, Over, Sole, Orderly
  <2>2. Told(mem[j], disk[j])
    BY <1>3, <2>1
  <2>3. key'[n] = j /\ pc'[n] \in {"begin", "new"} /\ mem' = mem /\ disk' = disk
    BY <1>1, <1>6
  <2>4. TaleThen(n, mem'[key'[n]], disk'[key'[n]])
    BY <2>2, <2>3 DEF TaleThen
  <2> QED BY <2>4, TaleLater
<1>7. Quiet(j)' => Told(mem[j], disk[j])
  BY <1>3, <1>4
<1>8. ASSUME NEW m \in Arrived', key'[m] = j PROVE Tale(m)'
  <2>1. CASE m = n
    <3>1. k = j
      BY <1>1, <1>8, <2>1
    <3> QED BY <1>6, <2>1, <3>1
  <2>2. CASE m # n
    BY <1>1, <1>5, <1>8, <2>2
  <2> QED BY <2>1, <2>2
<1> QED BY <1>7, <1>8

\* and a restart, whatever was between.
LEMMA TellingRestart ==
  ASSUME TaleInv, Restart, setting' = setting
  PROVE  Telling'
<1>0. /\ Types /\ Shape /\ \A m \in Arrived : m \in Messages
  BY ArrivedAre DEF TaleInv, PlaceInv, WorkInv, TypeInv
<1>1. /\ mem' = [k \in Keys |-> Hydrated(disk[k])] /\ key' = key
      /\ \/ disk' = [k \in Keys |-> IF Open(disk[k]) THEN Append(disk[k], Reply(Closure)) ELSE disk[k]]
         \/ setting.storageFails
      /\ \A m \in Messages : pc'[m] \in {"none", "done", "lost"}
  BY <1>0 DEF Restart, Types
<1> SUFFICES ASSUME NEW j \in Keys, Sole(j)
             PROVE  /\ Told(mem'[j], disk'[j])
                    /\ \A m \in Arrived : Tale(m)'
  <2>1. \A i : Sole(i)' <=> Sole(i)
    BY DEF Sole, Orderly, Alone
  <2>2. \A i : Told(mem[i], disk[i])' <=> Told(mem'[i], disk'[i])
    BY DEF Told, Torn, Tainted, Unasked, EndOf
  <2> QED BY <1>1, <2>1, <2>2 DEF Telling, Arrived
<1>2. PICK b : b = disk[j]
  OBVIOUS
<1>3. b \in Seq(Turns) /\ Single(b)
  BY <1>0, <1>2 DEF Types, Shape, Filed
<1>4. mem'[j] = Hydrated(b) /\ disk'[j] = IF Open(b) THEN Append(b, Reply(Closure)) ELSE b
  BY <1>1, <1>2 DEF Sole, Orderly
<1>5. Told(mem'[j], disk'[j])
  BY <1>3, <1>4, ToldHydrated
<1>6. \A m \in Arrived : Tale(m)'
  BY <1>0, <1>1, TaleLater DEF TaleThen
<1> QED BY <1>5, <1>6

\* They are at the start,
LEMMA TellingInit == Init => Telling
<1> SUFFICES ASSUME Init PROVE Telling
  OBVIOUS
<1>1. Arrived = {} /\ \A k \in Keys : mem[k] = <<>> /\ disk[k] = <<>>
  BY DEF Init, Arrived
<1>2. Told(<<>>, <<>>)
  <2>1. <<>> \in Seq(Turns)
    OBVIOUS
  <2> QED BY <2>1, ToldNothing
<1> QED BY <1>1, <1>2 DEF Telling

\* and every step keeps it.
LEMMA TellingStep == TaleInv /\ Telling /\ [Next]_vars => Telling'
<1> SUFFICES ASSUME TaleInv, Telling, [Next]_vars PROVE Telling'
  OBVIOUS
<1>1. CASE UNCHANGED vars
  <2>1. Arrived' = Arrived /\ key' = key /\ pc' = pc /\ out' = out /\ mem' = mem /\ disk' = disk /\ setting' = setting
    BY <1>1 DEF vars, Arrived
  <2>2. \A i : (Sole(i)' <=> Sole(i)) /\ (Quiet(i)' <=> Quiet(i))
    BY <2>1 DEF Sole, Orderly, Alone, Quiet
  <2>3. \A i : Told(mem[i], disk[i])' <=> Told(mem[i], disk[i])
    BY <2>1 DEF Told, Torn, Tainted, Unasked, EndOf
  <2>4. ASSUME NEW m \in Arrived, Tale(m) PROVE Tale(m)'
    <3>1. TaleThen(m, mem'[key'[m]], disk'[key'[m]])
      BY <2>1, <2>4 DEF Tale, TaleThen
    <3> QED BY <3>1, TaleLater
  <2> QED BY <2>1, <2>2, <2>3, <2>4 DEF Telling
<1> QED BY <1>1, Steps, TellingWork, TellingArrive, TellingRestart

\* When nobody works on a conversation, what is remembered of it is the end of what is
\* persisted: a restart restores the context that was there, when the messages of a
\* conversation come one at a time, every append reaches its file, and no crash has left
\* the result of a tool without its reply.
THEOREM RestartRestores == Spec => []MemoryIsFileTail
<1>1. TaleInv /\ Telling => MemoryIsFileTail
  <2> SUFFICES ASSUME TaleInv, Telling, Orderly, NEW k \in Keys, Quiet(k), Alone(k), ~Torn(File(k))
               PROVE  IsSuffix(Spoken(mem[k]), Spoken(File(k)))
    BY DEF MemoryIsFileTail
  <2>1. File(k) = disk[k]
    BY AloneIs DEF File
  <2>2. Told(mem[k], disk[k])
    BY DEF Telling, Sole
  <2>3. EndOf(Spoken(mem[k]), Spoken(disk[k]))
    BY <2>1, <2>2 DEF Told
  <2> QED BY <2>1, <2>3, EndIsSuffix
<1> QED BY <1>1, TaleInit, TaleStep, TellingInit, TellingStep, PTL DEF Spec
=============================================================================

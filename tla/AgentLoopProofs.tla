--------------------------- MODULE AgentLoopProofs ---------------------------
(***************************************************************************)
(* AgentLoop for all deployments, models and tools, fallback chains,       *)
(* windows, limits and numbers of turns.  Two inductive invariants, which  *)
(* the steps keep one action at a time:                                    *)
(*                                                                         *)
(*   LoopInv   what the locals of each turn are (TurnOK), with its place,  *)
(*             and the variables the turns share.  Part of it is that a    *)
(*             tool that has to be approved is run no more often than it   *)
(*             was approved (ApprovalInv): prompts and runs are steps of   *)
(*             their own and a turn may be cancelled in between, so credit *)
(*             is compared with the calls decided on and still to be run.  *)
(*   SpendInv  the records and the sums of the tracker.  A call that was   *)
(*             let through may still cost what it likes, so what is        *)
(*             bounded is the records with the calls under way (Records).  *)
(*                                                                         *)
(* The model takes folds, minima and counts over data that the steps       *)
(* extend: the window, the log, a month of records.  The first sections    *)
(* derive induction from the least element of a set of naturals and prove  *)
(* what those operators do to one more element.                            *)
(***************************************************************************)
EXTENDS AgentLoop, FiniteSetTheorems, SequenceTheorems, WellFoundedInduction, TLAPS

-----------------------------------------------------------------------------
(* Induction, folds over finite sets, and the elements of a sequence by rank. *)

\* Sets of naturals have least elements: the induction of all that follows.
LEMMA LeastNat ==
  ASSUME NEW S \in SUBSET Nat, S # {}
  PROVE  \E m \in S : \A n \in S : m <= n
<1> DEFINE R == OpToRel(<, Nat)
<1>1. IsWellFoundedOn(R, Nat)
  BY NatLessThanWellFounded
<1>2. \A x, y \in Nat : <<y, x>> \in R <=> y < x
  BY DEF OpToRel
<1> HIDE DEF R
<1>3. PICK m \in S : \A n \in S : ~(<<n, m>> \in R)
  BY <1>1, WFMin
<1>4. \A n \in S : m <= n
  <2> TAKE n \in S
  <2>1. n \in Nat /\ m \in Nat /\ ~(n < m)
    BY <1>2, <1>3
  <2> QED BY <2>1
<1> QED BY <1>4

\* Induction over the naturals, for a set instead of a predicate.
LEMMA SetInduction ==
  ASSUME NEW S, 0 \in S, \A n \in Nat : n \in S => n + 1 \in S
  PROVE  Nat \subseteq S
<1> SUFFICES ASSUME Nat \ S # {} PROVE FALSE
  OBVIOUS
<1>1. PICK m \in Nat \ S : \A n \in Nat \ S : m <= n
  BY LeastNat
<1>2. m # 0 /\ m - 1 \in Nat /\ m - 1 \in S
  BY <1>1
<1> QED BY <1>1, <1>2

\* Induction over the subsets of a finite set: one element less.
LEMMA SubsetInduction ==
  ASSUME NEW D, IsFiniteSet(D), NEW P, {} \in P,
         \A s \in SUBSET D : s # {} => \E x \in s : s \ {x} \in P => s \in P
  PROVE  SUBSET D \subseteq P
<1> DEFINE Good == {n \in Nat : \A s \in SUBSET D : Cardinality(s) = n => s \in P}
<1>1. \A s \in SUBSET D : IsFiniteSet(s) /\ Cardinality(s) \in Nat /\ (Cardinality(s) = 0 <=> s = {})
  BY FS_Subset, FS_CardinalityType, FS_EmptySet
<1>2. 0 \in Good
  BY <1>1
<1>3. ASSUME NEW n \in Nat, n \in Good PROVE n + 1 \in Good
  <2> SUFFICES ASSUME NEW s \in SUBSET D, Cardinality(s) = n + 1 PROVE s \in P
    OBVIOUS
  <2>1. s # {} /\ IsFiniteSet(s)
    BY <1>1
  <2>2. PICK x \in s : s \ {x} \in P => s \in P
    BY <2>1
  <2>3. s \ {x} \in SUBSET D /\ Cardinality(s \ {x}) \in Nat
    BY <1>1
  <2>4. Cardinality(s \ {x}) = Cardinality(s) - 1
    BY <2>1, FS_RemoveElement
  <2> QED BY <1>3, <2>2, <2>3, <2>4
<1> HIDE DEF Good
<1>4. Nat \subseteq Good
  BY <1>2, <1>3, SetInduction
<1> QED BY <1>1, <1>4 DEF Good

\* A choice of one element of each nonempty subset of D.
Picks(pick, D) == \A s \in SUBSET D : s # {} => pick[s] \in s

\* g is the fold of step over every subset of D, in the order that pick makes.
Folds(g, D, T, base, pick, step) ==
  /\ g \in [SUBSET D -> T]
  /\ \A s \in SUBSET D : g[s] = IF s = {} THEN base ELSE step[pick[s]][g[s \ {pick[s]}]]

\* The fold over the subsets of a finite set exists, as a function.
LEMMA FoldExists ==
  ASSUME NEW D, IsFiniteSet(D), NEW T, NEW base \in T,
         NEW pick, Picks(pick, D), NEW step \in [D -> [T -> T]]
  PROVE  \E g : Folds(g, D, T, base, pick, step)
<1> DEFINE Upto(n) == {s \in SUBSET D : Cardinality(s) <= n}
           IsFold(g, n) ==
             /\ g \in [Upto(n) -> T]
             /\ \A s \in Upto(n) : g[s] = IF s = {} THEN base ELSE step[pick[s]][g[s \ {pick[s]}]]
           Good == {n \in Nat : \E g : IsFold(g, n)}
<1>1. \A s \in SUBSET D : IsFiniteSet(s) /\ Cardinality(s) \in Nat /\ (Cardinality(s) = 0 <=> s = {})
  BY FS_Subset, FS_CardinalityType, FS_EmptySet
<1>2. ASSUME NEW s \in SUBSET D, s # {}
      PROVE  /\ pick[s] \in s /\ pick[s] \in D /\ s \ {pick[s]} \in SUBSET D
             /\ Cardinality(s \ {pick[s]}) = Cardinality(s) - 1
  BY <1>1, <1>2, FS_RemoveElement DEF Picks
<1>3. 0 \in Good
  <2> DEFINE g == [s \in Upto(0) |-> base]
  <2>1. \A s \in Upto(0) : s = {}
    BY <1>1
  <2>2. IsFold(g, 0)
    BY <2>1
  <2> QED BY <2>2
<1>4. ASSUME NEW n \in Nat, n \in Good PROVE n + 1 \in Good
  <2>1. PICK g : IsFold(g, n)
    BY <1>4
  <2> DEFINE h == [s \in Upto(n + 1) |-> IF s \in Upto(n) THEN g[s] ELSE step[pick[s]][g[s \ {pick[s]}]]]
  <2>2. ASSUME NEW s \in Upto(n + 1), s # {} PROVE s \ {pick[s]} \in Upto(n) /\ s \ {pick[s]} \in Upto(n + 1)
    <3>1. s \in SUBSET D /\ Cardinality(s) <= n + 1 /\ Cardinality(s) \in Nat
      BY <1>1
    <3>2. Cardinality(s \ {pick[s]}) = Cardinality(s) - 1 /\ s \ {pick[s]} \in SUBSET D
      BY <1>2, <2>2, <3>1
    <3> QED BY <3>1, <3>2
  <2>3. \A s \in Upto(n + 1) : s \notin Upto(n) => s # {}
    BY <1>1
  <2>4. ASSUME NEW s \in Upto(n + 1) PROVE h[s] \in T
    <3>1. CASE s \in Upto(n)
      BY <2>1, <3>1
    <3>2. CASE s \notin Upto(n)
      <4>1. s # {} /\ pick[s] \in D
        BY <1>2, <2>3, <3>2
      <4>2. g[s \ {pick[s]}] \in T
        BY <2>1, <2>2, <4>1
      <4>3. step[pick[s]] \in [T -> T]
        BY <4>1
      <4> QED BY <3>2, <4>1, <4>2, <4>3
    <3> QED BY <3>1, <3>2
  <2>5. ASSUME NEW s \in Upto(n + 1)
        PROVE  h[s] = IF s = {} THEN base ELSE step[pick[s]][h[s \ {pick[s]}]]
    <3>1. CASE s = {}
      <4>1. s \in Upto(n)
        BY <1>1, <3>1
      <4>2. h[s] = g[s] /\ g[s] = base
        BY <2>1, <3>1, <4>1
      <4> QED BY <3>1, <4>2
    <3>2. CASE s # {}
      <4>1. h[s \ {pick[s]}] = g[s \ {pick[s]}]
        BY <2>2, <3>2
      <4>2. h[s] = step[pick[s]][g[s \ {pick[s]}]]
        BY <2>1, <3>2
      <4> QED BY <3>2, <4>1, <4>2
    <3> QED BY <3>1, <3>2
  <2>6. IsFold(h, n + 1)
    <3>1. h \in [Upto(n + 1) -> T]
      <4> HIDE DEF Upto
      <4> QED BY <2>4
    <3> HIDE DEF h, Upto
    <3> QED BY <2>5, <3>1
  <2> HIDE DEF IsFold, h
  <2>7. \E f : IsFold(f, n + 1)
    BY <2>6
  <2> QED BY <2>7
<1>5. Cardinality(D) \in Good
  <2> HIDE DEF Good
  <2>1. Nat \subseteq Good
    BY <1>3, <1>4, SetInduction
  <2> QED BY <2>1, FS_CardinalityType
<1>6. Upto(Cardinality(D)) = SUBSET D
  BY FS_Subset
<1>7. PICK g : IsFold(g, Cardinality(D))
  BY <1>5
<1> HIDE DEF Upto
<1> QED BY <1>6, <1>7 DEF Folds

\* The sum that MonthOf takes.
SumOf(r, S) == MapThenSumSet(LAMBDA d : r[d], S)

\* The choice that the folds of the libraries make.
Pick(S) == [s \in SUBSET S |-> CHOOSE x \in s : TRUE]

\* g has the sums of r over the subsets of S.
SumsOf(g, r, S) ==
  /\ g \in [SUBSET S -> Nat] /\ g[{}] = 0
  /\ \A s \in SUBSET S : s # {} => g[s] = r[Pick(S)[s]] + g[s \ {Pick(S)[s]}]

\* The sums over the subsets of a finite set are what the definition by recursion says.
LEMMA SumsExist ==
  ASSUME NEW S, IsFiniteSet(S), NEW r, \A d \in S : r[d] \in Nat
  PROVE  \E g : SumsOf(g, r, S) /\ SumOf(r, S) = g[S]
<1> DEFINE step == [x \in S |-> [v \in Nat |-> r[x] + v]]
           IsSum(g) ==
             g = [s \in SUBSET S |-> IF s = {} THEN 0
                                     ELSE r[CHOOSE x \in s : TRUE] + g[s \ {CHOOSE x \in s : TRUE}]]
           sum == CHOOSE g : IsSum(g)
<1>1. \A s \in SUBSET S : Pick(S)[s] = (CHOOSE x \in s : TRUE) /\ (s # {} => Pick(S)[s] \in s)
  BY DEF Pick
<1>2. step \in [S -> [Nat -> Nat]] /\ \A x \in S, v \in Nat : step[x][v] = r[x] + v
  OBVIOUS
<1>3. PICK g : Folds(g, S, Nat, 0, Pick(S), step)
  <2>1. Picks(Pick(S), S)
    BY <1>1 DEF Picks
  <2>2. PICK base \in Nat : base = 0
    OBVIOUS
  <2> HIDE DEF step
  <2>3. \E g : Folds(g, S, Nat, base, Pick(S), step)
    BY <1>2, <2>1, FoldExists
  <2> QED BY <2>2, <2>3
<1> HIDE DEF step
<1>4. ASSUME NEW s \in SUBSET S
      PROVE  g[s] = IF s = {} THEN 0 ELSE r[CHOOSE x \in s : TRUE] + g[s \ {CHOOSE x \in s : TRUE}]
  <2>1. CASE s = {}
    BY <1>3, <2>1 DEF Folds
  <2>2. CASE s # {}
    <3>1. g[s] = step[Pick(S)[s]][g[s \ {Pick(S)[s]}]]
      BY <1>3, <2>2 DEF Folds
    <3>2. Pick(S)[s] \in S /\ g[s \ {Pick(S)[s]}] \in Nat
      BY <1>1, <1>3, <2>2 DEF Folds
    <3>3. PICK y, v : y = Pick(S)[s] /\ v = g[s \ {y}]
      OBVIOUS
    <3>4. y \in S /\ v \in Nat /\ g[s] = step[y][v]
      BY <3>1, <3>2, <3>3
    <3>5. g[s] = r[y] + v
      BY <1>2, <3>4
    <3>6. y = (CHOOSE x \in s : TRUE)
      BY <1>1, <3>3
    <3> QED BY <2>2, <3>3, <3>5, <3>6
  <2> QED BY <2>1, <2>2
<1>5. IsSum(g)
  BY <1>3, <1>4 DEF Folds
<1>6. IsSum(sum)
  BY <1>5
<1>7. SumOf(r, S) = sum[S]
  BY DEF SumOf, MapThenSumSet, MapThenFoldSet
<1> HIDE DEF sum
<1>8. ASSUME NEW s \in SUBSET S
      PROVE  sum[s] = IF s = {} THEN 0 ELSE r[Pick(S)[s]] + sum[s \ {Pick(S)[s]}]
  BY <1>1, <1>6
<1> HIDE DEF IsSum
<1>9. \A s \in SUBSET S : sum[s] \in Nat
  <2> DEFINE P == {s \in SUBSET S : sum[s] \in Nat}
  <2>1. {} \in P
    BY <1>8
  <2>2. ASSUME NEW s \in SUBSET S, s # {} PROVE s \ {Pick(S)[s]} \in P => s \in P
    BY <1>1, <1>8, <2>2
  <2>3. \A s \in SUBSET S : s # {} => \E x \in s : s \ {x} \in P => s \in P
    BY <1>1, <2>2
  <2> HIDE DEF P
  <2>4. SUBSET S \subseteq P
    BY <2>1, <2>3, SubsetInduction
  <2> QED BY <2>4 DEF P
<1>10. sum = [s \in SUBSET S |-> sum[s]]
  BY <1>6 DEF IsSum
<1>11. SumsOf(sum, r, S)
  BY <1>8, <1>9, <1>10 DEF SumsOf
<1> QED BY <1>7, <1>11

\* q is r with c more at x.
Grows(q, r, S, x, c) == \A d \in S : r[d] \in Nat /\ q[d] = IF d = x THEN r[d] + c ELSE r[d]

\* A sum grows by what one of its summands grows by.
LEMMA SumGrows ==
  ASSUME NEW S, IsFiniteSet(S), NEW r, NEW q, NEW x, NEW c \in Nat, Grows(q, r, S, x, c)
  PROVE  SumOf(q, S) = SumOf(r, S) + IF x \in S THEN c ELSE 0
<1>0. \A d \in S : r[d] \in Nat /\ q[d] \in Nat
  BY DEF Grows
<1>1. PICK g : SumsOf(g, r, S) /\ SumOf(r, S) = g[S]
  BY <1>0, SumsExist
<1>2. PICK h : SumsOf(h, q, S) /\ SumOf(q, S) = h[S]
  BY <1>0, SumsExist
<1>3. \A s \in SUBSET S : s # {} => Pick(S)[s] \in s
  BY DEF Pick
<1> DEFINE P == {s \in SUBSET S : h[s] = g[s] + IF x \in s THEN c ELSE 0}
<1>4. {} \in P
  BY <1>1, <1>2 DEF SumsOf
<1>5. ASSUME NEW s \in SUBSET S, s # {}, s \ {Pick(S)[s]} \in P PROVE s \in P
  <2>1. PICK y \in s : y = Pick(S)[s]
    BY <1>3, <1>5
  <2>2. /\ h[s] = q[y] + h[s \ {y}] /\ g[s] = r[y] + g[s \ {y}]
        /\ h[s \ {y}] \in Nat /\ g[s \ {y}] \in Nat
    BY <1>1, <1>2, <1>5, <2>1 DEF SumsOf
  <2>3. h[s \ {y}] = g[s \ {y}] + IF x \in s \ {y} THEN c ELSE 0
    BY <1>5, <2>1
  <2>4. r[y] \in Nat /\ q[y] = IF y = x THEN r[y] + c ELSE r[y]
    BY DEF Grows
  <2> QED BY <2>2, <2>3, <2>4
<1>6. \A s \in SUBSET S : s # {} => \E y \in s : s \ {y} \in P => s \in P
  BY <1>3, <1>5
<1> HIDE DEF P
<1>7. SUBSET S \subseteq P
  BY <1>4, <1>6, SubsetInduction
<1> QED BY <1>1, <1>2, <1>7 DEF P

\* A sum of zeros is zero.
LEMMA SumOfNothing ==
  ASSUME NEW S, IsFiniteSet(S), NEW r, \A d \in S : r[d] = 0
  PROVE  SumOf(r, S) = 0
<1>1. PICK g : SumsOf(g, r, S) /\ SumOf(r, S) = g[S]
  BY SumsExist
<1>2. \A s \in SUBSET S : s # {} => Pick(S)[s] \in s
  BY DEF Pick
<1> DEFINE P == {s \in SUBSET S : g[s] = 0}
<1>3. {} \in P
  BY <1>1 DEF SumsOf
<1>4. ASSUME NEW s \in SUBSET S, s # {}, s \ {Pick(S)[s]} \in P PROVE s \in P
  BY <1>1, <1>2, <1>4 DEF SumsOf
<1>5. \A s \in SUBSET S : s # {} => \E y \in s : s \ {y} \in P => s \in P
  BY <1>2, <1>4
<1> HIDE DEF P
<1>6. SUBSET S \subseteq P
  BY <1>3, <1>5, SubsetInduction
<1> QED BY <1>1, <1>6 DEF P

\* A bounded set of naturals has a maximum.
LEMMA MaxIs ==
  ASSUME NEW S \in SUBSET Nat, S # {}, NEW n \in Nat, \A x \in S : x <= n
  PROVE  Max(S) \in S /\ \A x \in S : Max(S) >= x
<1> DEFINE B == {m \in Nat : \A x \in S : x <= m}
<1>1. PICK m \in B : \A k \in B : m <= k
  BY LeastNat
<1>2. m \in S
  <2> SUFFICES ASSUME m \notin S PROVE FALSE
    OBVIOUS
  <2>1. PICK y \in S : TRUE
    OBVIOUS
  <2>2. m - 1 \in Nat /\ \A x \in S : x <= m - 1
    BY <1>1, <2>1
  <2> QED BY <1>1, <2>2
<1>3. \E x \in S : \A y \in S : x >= y
  BY <1>1, <1>2
<1> QED BY <1>3 DEF Max

\* Sets of one element, and of fewer than two.
LEMMA AtMostOne ==
  ASSUME NEW S, IsFiniteSet(S), Cardinality(S) < 2, NEW x \in S, NEW y \in S
  PROVE  x = y
<1> SUFFICES ASSUME x # y PROVE FALSE
  OBVIOUS
<1>1. PICK rest : rest = S \ {x}
  OBVIOUS
<1>2. IsFiniteSet(rest) /\ Cardinality(rest) = Cardinality(S) - 1
  BY <1>1, FS_RemoveElement
<1>3. Cardinality(S) \in Nat /\ Cardinality(rest) \in Nat
  BY <1>2, FS_CardinalityType
<1>4. Cardinality(rest) = 0
  BY <1>2, <1>3
<1>5. rest = {}
  BY <1>2, <1>4, FS_EmptySet
<1> QED BY <1>1, <1>5

-----------------------------------------------------------------------------

\* How many elements of K go up to i.
Rank(K, i) == Cardinality({j \in K : j <= i})

\* K is a set of positions up to n.
Within(K, n) == n \in Nat /\ \A j \in K : j \in 1 .. n

\* Ranks count up, one by one, without a gap.
LEMMA RankFacts ==
  ASSUME NEW n, NEW K, Within(K, n)
  PROVE  /\ IsFiniteSet(K) /\ Cardinality(K) \in Nat
         /\ Rank(K, 0) = 0 /\ Rank(K, n) = Cardinality(K)
         /\ \A i \in Nat : /\ Rank(K, i) \in 0 .. Cardinality(K)
                           /\ Rank(K, i + 1) = Rank(K, i) + IF i + 1 \in K THEN 1 ELSE 0
         /\ \A i, j \in Nat : i <= j => Rank(K, i) <= Rank(K, j)
<1>0. n \in Nat /\ \A j \in K : j \in Nat /\ 1 <= j /\ j <= n
  BY DEF Within
<1>1. IsFiniteSet(K) /\ Cardinality(K) \in Nat
  <2>1. IsFiniteSet(1 .. n) /\ K \subseteq 1 .. n
    BY <1>0, FS_Interval
  <2> QED BY <2>1, FS_Subset, FS_CardinalityType
<1> DEFINE U(i) == {j \in K : j <= i}
<1>2. \A i \in Nat : IsFiniteSet(U(i)) /\ Cardinality(U(i)) \in Nat /\ Cardinality(U(i)) <= Cardinality(K)
  BY <1>1, FS_Subset, FS_CardinalityType
<1>3. U(0) = {} /\ U(n) = K
  BY <1>0
<1>4. ASSUME NEW i \in Nat PROVE Cardinality(U(i + 1)) = Cardinality(U(i)) + IF i + 1 \in K THEN 1 ELSE 0
  <2>1. CASE i + 1 \in K
    <3>1. U(i + 1) = U(i) \cup {i + 1} /\ i + 1 \notin U(i)
      BY <1>0, <2>1
    <3> HIDE DEF U
    <3> QED BY <1>2, <2>1, <3>1, FS_AddElement
  <2>2. CASE i + 1 \notin K
    <3>1. U(i + 1) = U(i)
      BY <1>0, <2>2
    <3> HIDE DEF U
    <3> QED BY <1>2, <2>2, <3>1
  <2> QED BY <2>1, <2>2
<1>5. ASSUME NEW i \in Nat, NEW j \in Nat, i <= j PROVE Cardinality(U(i)) <= Cardinality(U(j))
  <2>1. U(i) \subseteq U(j)
    BY <1>0, <1>5
  <2> HIDE DEF U
  <2> QED BY <1>2, <2>1, FS_Subset
<1>6. \A i : Rank(K, i) = Cardinality(U(i))
  BY DEF Rank
<1> HIDE DEF U
<1> QED BY <1>1, <1>2, <1>3, <1>4, <1>5, <1>6, FS_EmptySet

\* Chosen lists the elements at the positions of K, each once and in their order.
LEMMA ChosenInOrder ==
  ASSUME NEW n, NEW K, Within(K, n)
  PROVE  \E nth \in [1 .. Cardinality(K) -> K] :
           /\ \A k \in 1 .. Cardinality(K) : Rank(K, nth[k]) = k
           /\ \A i \in K : Rank(K, i) \in 1 .. Cardinality(K) /\ nth[Rank(K, i)] = i
           /\ \A i \in K : i + 1 \in K => Rank(K, i + 1) = Rank(K, i) + 1
           /\ \A s : Chosen(s, K) = [k \in 1 .. Cardinality(K) |-> s[nth[k]]]
<1>0. \A j \in K : j \in Nat /\ 1 <= j
  BY DEF Within
<1>1. Cardinality(K) \in Nat /\ n \in Nat
  BY RankFacts DEF Within
<1>2. ASSUME NEW k \in 1 .. Cardinality(K) PROVE \E i \in K : Rank(K, i) = k
  <2> DEFINE B == {i \in Nat : Rank(K, i) >= k}
  <2>1. B # {}
    <3>1. Rank(K, n) = Cardinality(K)
      BY RankFacts
    <3> QED BY <1>1, <3>1
  <2>2. PICK m \in B : \A i \in B : m <= i
    BY <2>1, LeastNat
  <2>3. m # 0
    BY RankFacts
  <2>4. m - 1 \in Nat /\ m - 1 \notin B /\ (m - 1) + 1 = m
    BY <2>2, <2>3
  <2>5. Rank(K, m) = Rank(K, m - 1) + IF m \in K THEN 1 ELSE 0
    BY <2>4, RankFacts
  <2>6. Rank(K, m - 1) < k /\ Rank(K, m - 1) \in Nat /\ Rank(K, m) >= k
    BY <1>1, <2>2, <2>4, RankFacts
  <2> QED BY <2>5, <2>6
<1>3. ASSUME NEW i \in K, NEW j \in K, i < j PROVE Rank(K, i) < Rank(K, j)
  <2>1. j - 1 \in Nat /\ i \in Nat /\ (j - 1) + 1 = j /\ i <= j - 1
    BY <1>0, <1>3
  <2>2. Rank(K, j) = Rank(K, j - 1) + 1
    BY <2>1, RankFacts
  <2>3. Rank(K, i) <= Rank(K, j - 1) /\ Rank(K, i) \in Nat /\ Rank(K, j - 1) \in Nat
    BY <1>1, <2>1, RankFacts
  <2> QED BY <2>2, <2>3
<1>4. ASSUME NEW i \in K, NEW j \in K, Rank(K, i) = Rank(K, j) PROVE i = j
  <2>1. i \in Int /\ j \in Int /\ Rank(K, i) \in Int
    BY <1>0, <1>1, RankFacts
  <2> QED BY <1>3, <1>4, <2>1
<1>5. ASSUME NEW i \in K PROVE Rank(K, i) \in 1 .. Cardinality(K)
  <2>1. i - 1 \in Nat /\ (i - 1) + 1 = i
    BY <1>0
  <2>2. Rank(K, i) = Rank(K, i - 1) + 1 /\ Rank(K, i - 1) \in Nat /\ Rank(K, i) \in 0 .. Cardinality(K)
    BY <1>1, <2>1, RankFacts
  <2> QED BY <1>1, <2>2
<1> DEFINE nth == [k \in 1 .. Cardinality(K) |-> CHOOSE i \in K : Rank(K, i) = k]
<1>6. ASSUME NEW k \in 1 .. Cardinality(K) PROVE nth[k] \in K /\ Rank(K, nth[k]) = k
  BY <1>2
<1>7. \A s : Chosen(s, K) = [k \in 1 .. Cardinality(K) |-> s[nth[k]]]
  BY DEF Chosen, Rank
<1>8. \A i \in K : i + 1 \in K => Rank(K, i + 1) = Rank(K, i) + 1
  BY <1>0, RankFacts
<1>9. nth \in [1 .. Cardinality(K) -> K]
  BY <1>6
<1> HIDE DEF nth
<1> QED BY <1>4, <1>5, <1>6, <1>7, <1>8, <1>9

-----------------------------------------------------------------------------
(* The window is the end of the log.                                       *)

\* w is the end of log, m entries long or all of it.
IsEnd(w, log, m) ==
  /\ w \in Seq(Entry) /\ log \in Seq(Entry)
  /\ Len(w) = IF Len(log) <= m THEN Len(log) ELSE m
  /\ \A i \in 1 .. Len(w) : w[i] = log[i + (Len(log) - Len(w))]

\* The entries that a window of a size holds: a window of none holds the newest.
Kept(size) == IF size = 0 THEN 1 ELSE size

\* Pushed makes the window the end of the longer log.
LEMMA PushedKeepsEnd ==
  ASSUME NEW size \in Nat, NEW w, NEW log, IsEnd(w, log, Kept(size)), NEW e \in Entry
  PROVE  IsEnd(Pushed(w, e, size), Append(log, e), Kept(size))
<1> DEFINE m == Kept(size)
           n == Len(log)
           more == Append(log, e)
<1>0. m \in Nat \ {0} /\ n \in Nat /\ Len(w) \in Nat /\ w \in Seq(Entry) /\ log \in Seq(Entry)
  BY DEF Kept, IsEnd
<1>1. more \in Seq(Entry) /\ Len(more) = n + 1 /\ more[n + 1] = e /\ \A i \in 1 .. n : more[i] = log[i]
  BY <1>0
<1>2. Len(w) = (IF n <= m THEN n ELSE m) /\ \A i \in 1 .. Len(w) : w[i] = log[i + (n - Len(w))]
  BY DEF IsEnd
<1>3. CASE w = <<>> \/ Len(w) < size
  <2> DEFINE v == Append(w, e)
  <2>1. Pushed(w, e, size) = v
    BY <1>0, <1>3 DEF Pushed
  <2>2. v \in Seq(Entry) /\ Len(v) = Len(w) + 1 /\ v[Len(w) + 1] = e /\ \A i \in 1 .. Len(w) : v[i] = w[i]
    BY <1>0
  <2>3. Len(w) = n /\ n + 1 <= m
    BY <1>0, <1>2, <1>3 DEF Kept
  <2> HIDE DEF v, more, m
  <2>4. ASSUME NEW i \in 1 .. n + 1 PROVE v[i] = more[i]
    <3>1. CASE i = n + 1
      BY <1>1, <2>2, <2>3, <3>1
    <3>2. CASE i # n + 1
      <4>1. i \in 1 .. n /\ i + (n - n) = i
        BY <1>0, <3>2
      <4> QED BY <1>1, <1>2, <2>2, <2>3, <4>1
    <3> QED BY <3>1, <3>2
  <2> QED BY <1>0, <1>1, <2>1, <2>2, <2>3, <2>4 DEF IsEnd, m
<1>4. CASE w # <<>> /\ Len(w) >= size
  <2> DEFINE v == Append(Tail(w), e)
  <2>1. Pushed(w, e, size) = v
    BY <1>4 DEF Pushed
  <2>2. Len(w) = m /\ n >= m
    BY <1>0, <1>2, <1>4 DEF Kept
  <2>3. Tail(w) \in Seq(Entry) /\ Len(Tail(w)) = m - 1 /\ \A i \in 1 .. m - 1 : Tail(w)[i] = w[i + 1]
    BY <1>0, <1>4, <2>2
  <2>4. v \in Seq(Entry) /\ Len(v) = m /\ v[m] = e /\ \A i \in 1 .. m - 1 : v[i] = w[i + 1]
    <3> HIDE DEF m
    <3> QED BY <1>0, <2>3
  <2> HIDE DEF v, more, m
  <2>5. ASSUME NEW i \in 1 .. m PROVE v[i] = more[i + (n + 1 - m)]
    <3>1. CASE i = m
      BY <1>0, <1>1, <2>4, <3>1
    <3>2. CASE i # m
      <4>1. v[i] = w[i + 1] /\ w[i + 1] = log[(i + 1) + (n - m)]
        <5>1. i \in 1 .. m - 1 /\ i + 1 \in 1 .. m
          BY <1>0, <3>2
        <5> QED BY <1>2, <2>2, <2>4, <5>1
      <4>2. (i + 1) + (n - m) = i + (n + 1 - m) /\ i + (n + 1 - m) \in 1 .. n
        BY <1>0, <2>2, <3>2
      <4> QED BY <1>1, <4>1, <4>2
    <3> QED BY <3>1, <3>2
  <2>6. Len(v) = IF Len(more) <= m THEN Len(more) ELSE m
    BY <1>0, <1>1, <2>2, <2>4
  <2>7. IsEnd(v, more, m)
    <3>1. \A i \in 1 .. Len(v) : v[i] = more[i + (Len(more) - Len(v))]
      BY <1>1, <2>4, <2>5
    <3> QED BY <1>1, <2>4, <2>6, <3>1 DEF IsEnd
  <2> QED BY <2>1, <2>7 DEF more, m
<1> QED BY <1>0, <1>3, <1>4

\* The window after all entries of s.
PushedAll(w, s, size) == FoldLeft(LAMBDA v, e : Pushed(v, e, size), w, s)

\* acc has the windows after each of the entries of s, from w on.
WindowsOver(acc, w, s, size) ==
  /\ acc \in [0 .. Len(s) -> Seq(Entry)]
  /\ acc[0] = w /\ PushedAll(w, s, size) = acc[Len(s)]
  /\ \A k \in 1 .. Len(s) : acc[k] = Pushed(acc[k - 1], s[k], size)

\* The window after one entry more is Pushed once more.
LEMMA PushedOneByOne ==
  ASSUME NEW w \in Seq(Entry), NEW s \in Seq(Entry), NEW size \in Nat
  PROVE  \E acc : WindowsOver(acc, w, s, size)
<1> DEFINE T == Seq(Entry)
           D == DOMAIN s
           n == Len(s)
           pick == [S \in SUBSET D |-> Max(S)]
           step == [i \in D |-> [v \in T |-> Pushed(v, s[i], size)]]
           IsIter(g) == g = [S \in SUBSET D |-> IF S = {} THEN w ELSE Pushed(g[S \ {Max(S)}], s[Max(S)], size)]
           iter == CHOOSE g : IsIter(g)
<1>1. n \in Nat /\ D = 1 .. n /\ IsFiniteSet(D) /\ \A i \in D : s[i] \in Entry
  BY FS_Interval
<1>2. \A v \in T, e \in Entry : Pushed(v, e, size) \in T
  BY DEF Pushed
<1>3. \A S \in SUBSET D : S # {} => Max(S) \in S /\ pick[S] = Max(S)
  <2> SUFFICES ASSUME NEW S \in SUBSET D, S # {} PROVE Max(S) \in S
    OBVIOUS
  <2>1. S \in SUBSET Nat /\ \A x \in S : x <= n
    BY <1>1
  <2> QED BY <1>1, <2>1, MaxIs
<1>4. step \in [D -> [T -> T]] /\ \A i \in D, v \in T : step[i][v] = Pushed(v, s[i], size)
  BY <1>1, <1>2
<1>5. PICK g : Folds(g, D, T, w, pick, step)
  <2>1. Picks(pick, D)
    BY <1>3 DEF Picks
  <2> HIDE DEF step, pick, D, T
  <2> QED BY <1>1, <1>4, <2>1, FoldExists DEF T
<1> HIDE DEF step
<1>6. ASSUME NEW S \in SUBSET D PROVE g[S] = IF S = {} THEN w ELSE Pushed(g[S \ {Max(S)}], s[Max(S)], size)
  <2>1. CASE S = {}
    BY <1>5, <2>1 DEF Folds
  <2>2. CASE S # {}
    <3>1. g[S] = step[Max(S)][g[S \ {Max(S)}]]
      BY <1>3, <1>5, <2>2 DEF Folds
    <3>2. Max(S) \in D /\ g[S \ {Max(S)}] \in T
      BY <1>3, <1>5, <2>2 DEF Folds
    <3> QED BY <1>4, <2>2, <3>1, <3>2
  <2> QED BY <2>1, <2>2
<1>7. IsIter(g)
  BY <1>5, <1>6 DEF Folds
<1>8. IsIter(iter)
  BY <1>7
<1>9. PushedAll(w, s, size) = iter[D]
  BY DEF PushedAll, FoldLeft, MapThenFoldSet
<1> HIDE DEF iter
<1>10. ASSUME NEW S \in SUBSET D PROVE iter[S] = IF S = {} THEN w ELSE Pushed(iter[S \ {Max(S)}], s[Max(S)], size)
  BY <1>8
<1> DEFINE acc == [k \in 0 .. n |-> iter[1 .. k]]
<1>11. acc[0] = w /\ PushedAll(w, s, size) = acc[n]
  <2>1. 1 .. 0 = {} /\ 1 .. n = D
    BY <1>1
  <2>2. 0 \in 0 .. n /\ n \in 0 .. n /\ {} \in SUBSET D
    BY <1>1
  <2>3. acc[0] = iter[{}] /\ acc[n] = iter[D]
    BY <2>1, <2>2
  <2> QED BY <1>9, <1>10, <2>2, <2>3
<1>12. ASSUME NEW k \in 1 .. n PROVE acc[k] = Pushed(acc[k - 1], s[k], size)
  <2>0. k \in Nat /\ 1 <= k /\ k <= n
    BY <1>1
  <2>1. (1 .. k) \in SUBSET D /\ k \in 1 .. k /\ (1 .. k) \ {k} = 1 .. k - 1
    <3>1. \A x \in 1 .. k : x \in 1 .. n
      BY <1>1, <2>0
    <3>2. (1 .. k) \ {k} = 1 .. k - 1
      BY <2>0
    <3> QED BY <1>1, <2>0, <3>1, <3>2
  <2>2. Max(1 .. k) = k
    <3>1. PICK S : S = 1 .. k
      OBVIOUS
    <3>0. \A x : x \in S <=> x \in Int /\ 1 <= x /\ x <= k
      BY <2>0, <3>1
    <3>2. S \in SUBSET Nat /\ S # {} /\ (\A x \in S : x <= k) /\ k \in S
      BY <2>0, <3>0
    <3>3. Max(S) \in S /\ Max(S) >= k
      BY <2>0, <3>2, MaxIs
    <3>4. Max(S) <= k /\ Max(S) \in Nat
      BY <3>2, <3>3
    <3> QED BY <2>0, <3>1, <3>3, <3>4
  <2>3. iter[1 .. k] = Pushed(iter[1 .. k - 1], s[k], size)
    BY <1>10, <2>1, <2>2
  <2>4. acc[k] = iter[1 .. k] /\ acc[k - 1] = iter[1 .. k - 1]
    BY <1>1
  <2> QED BY <2>3, <2>4
<1> HIDE DEF acc
<1>13. \A k \in Nat : k \in 0 .. n => acc[k] \in T
  <2> DEFINE P == {k \in Nat : k \in 0 .. n => acc[k] \in T}
  <2>1. 0 \in P
    BY <1>11
  <2>2. ASSUME NEW k \in Nat, k \in P PROVE k + 1 \in P
    <3> SUFFICES ASSUME k + 1 \in 0 .. n PROVE acc[k + 1] \in T
      OBVIOUS
    <3>1. acc[k] \in T /\ k + 1 \in 1 .. n /\ (k + 1) - 1 = k
      BY <1>1, <2>2
    <3>2. acc[k + 1] = Pushed(acc[k], s[k + 1], size)
      BY <1>12, <3>1
    <3> QED BY <1>1, <1>2, <3>1, <3>2
  <2> HIDE DEF P
  <2>3. Nat \subseteq P
    BY <2>1, <2>2, SetInduction
  <2> QED BY <2>3 DEF P
<1>14. acc \in [0 .. n -> T]
  BY <1>1, <1>13 DEF acc
<1> QED BY <1>11, <1>12, <1>14 DEF WindowsOver

\* The window after all entries of s is the end of the log with s.
LEMMA PushedAllIsEnd ==
  ASSUME NEW size \in Nat, NEW w, NEW log, IsEnd(w, log, Kept(size)), NEW s \in Seq(Entry)
  PROVE  IsEnd(PushedAll(w, s, size), log \o s, Kept(size))
<1>0. w \in Seq(Entry) /\ log \in Seq(Entry) /\ Len(s) \in Nat
  BY DEF IsEnd
<1>1. PICK acc : WindowsOver(acc, w, s, size)
  BY <1>0, PushedOneByOne
<1>2. /\ acc \in [0 .. Len(s) -> Seq(Entry)] /\ acc[0] = w /\ PushedAll(w, s, size) = acc[Len(s)]
      /\ \A k \in 1 .. Len(s) : acc[k] = Pushed(acc[k - 1], s[k], size)
  BY <1>1 DEF WindowsOver
<1> DEFINE P == {k \in Nat : k <= Len(s) => IsEnd(acc[k], log \o SubSeq(s, 1, k), Kept(size))}
<1>3. 0 \in P
  <2>1. log \o SubSeq(s, 1, 0) = log
    BY <1>0
  <2> QED BY <1>2, <2>1
<1>4. ASSUME NEW k \in Nat, k \in P PROVE k + 1 \in P
  <2> SUFFICES ASSUME k + 1 <= Len(s) PROVE IsEnd(acc[k + 1], log \o SubSeq(s, 1, k + 1), Kept(size))
    OBVIOUS
  <2>1. IsEnd(acc[k], log \o SubSeq(s, 1, k), Kept(size)) /\ k + 1 \in 1 .. Len(s) /\ (k + 1) - 1 = k
    BY <1>0, <1>4
  <2>2. acc[k + 1] = Pushed(acc[k], s[k + 1], size) /\ s[k + 1] \in Entry
    BY <1>2, <2>1
  <2>3. log \o SubSeq(s, 1, k + 1) = Append(log \o SubSeq(s, 1, k), s[k + 1])
    BY <1>0, <2>1
  <2> QED BY <2>1, <2>2, <2>3, PushedKeepsEnd
<1> HIDE DEF P
<1>5. Nat \subseteq P
  BY <1>3, <1>4, SetInduction
<1>6. IsEnd(acc[Len(s)], log \o SubSeq(s, 1, Len(s)), Kept(size))
  BY <1>0, <1>5 DEF P
<1>7. SubSeq(s, 1, Len(s)) = s
  BY <1>0
<1> QED BY <1>2, <1>6, <1>7

-----------------------------------------------------------------------------
(* The patterns in the end of the log: repeats and alternations.           *)

\* The lengths k such that the last k of n positions are in P.
Streaks(P, n) == {k \in 0 .. n : \A i \in n - k + 1 .. n : i \in P}

\* The longest streak is one, and the others are no longer.
LEMMA LongestStreak ==
  ASSUME NEW n \in Nat, NEW P
  PROVE  LET m == Max(Streaks(P, n)) IN
         /\ m \in 0 .. n /\ \A i \in n - m + 1 .. n : i \in P
         /\ \A k \in Streaks(P, n) : k <= m
<1>1. \A k \in Streaks(P, n) : k \in Nat /\ k <= n
  BY DEF Streaks
<1>2. 0 \in Streaks(P, n)
  BY DEF Streaks
<1>3. PICK S : S = Streaks(P, n)
  OBVIOUS
<1>4. S \in SUBSET Nat /\ S # {} /\ \A x \in S : x <= n
  BY <1>1, <1>2, <1>3
<1>5. Max(S) \in S /\ \A x \in S : Max(S) >= x
  BY <1>4, MaxIs
<1>6. Max(S) \in 0 .. n /\ \A i \in n - Max(S) + 1 .. n : i \in P
  BY <1>3, <1>5 DEF Streaks
<1>7. \A k \in S : k <= Max(S)
  BY <1>4, <1>5
<1> QED BY <1>3, <1>6, <1>7

\* A streak in the end of a log is that of the log, as far as the end goes.
LEMMA StreakOfEnd ==
  ASSUME NEW l \in Nat, NEW n \in Nat, l <= n, NEW P, NEW Q,
         \A i \in 1 .. l : i \in P <=> i + (n - l) \in Q
  PROVE  Max(Streaks(P, l)) = IF Max(Streaks(Q, n)) <= l THEN Max(Streaks(Q, n)) ELSE l
<1> DEFINE a == Max(Streaks(P, l))
           b == Max(Streaks(Q, n))
           d == n - l
<1>1. /\ a \in 0 .. l /\ (\A i \in l - a + 1 .. l : i \in P)
      /\ \A k \in Streaks(P, l) : k <= a
  BY LongestStreak
<1>2. /\ b \in 0 .. n /\ (\A i \in n - b + 1 .. n : i \in Q)
      /\ \A k \in Streaks(Q, n) : k <= b
  BY LongestStreak
<1> HIDE DEF a, b
<1>3. a <= b
  <2>1. ASSUME NEW i \in n - a + 1 .. n PROVE i \in Q
    <3>1. i - d \in l - a + 1 .. l /\ i - d \in 1 .. l /\ (i - d) + (n - l) = i
      BY <1>1
    <3> QED BY <1>1, <3>1
  <2>2. a \in 0 .. n
    BY <1>1
  <2>3. a \in Streaks(Q, n)
    BY <2>1, <2>2 DEF Streaks
  <2> QED BY <1>2, <2>3
<1>4. ASSUME NEW k \in 0 .. l, k <= b PROVE k <= a
  <2>1. ASSUME NEW i \in l - k + 1 .. l PROVE i \in P
    <3>1. i \in 1 .. l /\ i + d \in n - b + 1 .. n
      BY <1>2, <1>4
    <3> QED BY <1>2, <3>1
  <2>2. k \in Streaks(P, l)
    BY <2>1 DEF Streaks
  <2> QED BY <1>1, <2>2
<1>5. CASE b <= l
  <2>1. b <= a
    BY <1>2, <1>4, <1>5
  <2> QED BY <1>1, <1>2, <1>3, <1>5, <2>1 DEF a, b
<1>6. CASE ~(b <= l)
  <2>1. l <= a
    BY <1>2, <1>4, <1>6
  <2> QED BY <1>1, <1>2, <1>6, <2>1 DEF a, b
<1> QED BY <1>5, <1>6

\* The calls like the newest.
Alike(w) == {i \in 1 .. Len(w) : SameCall(w[i], w[Len(w)])}
\* The results like the newest.
NoNews(w) == {i \in 1 .. Len(w) : SameResult(w[i], w[Len(w)])}

\* The streaks of the detectors.
LEMMA StreakIs ==
  ASSUME NEW w, Len(w) \in Nat
  PROVE  /\ Streak(w, SameCall) = Max(Streaks(Alike(w), Len(w)))
         /\ Streak(w, SameResult) = Max(Streaks(NoNews(w), Len(w)))
<1>1. Streaks(Alike(w), Len(w)) = {k \in 0 .. Len(w) : \A i \in Len(w) - k + 1 .. Len(w) : SameCall(w[i], w[Len(w)])}
  BY DEF Streaks, Alike
<1>2. Streaks(NoNews(w), Len(w)) = {k \in 0 .. Len(w) : \A i \in Len(w) - k + 1 .. Len(w) : SameResult(w[i], w[Len(w)])}
  BY DEF Streaks, NoNews
<1> QED BY <1>1, <1>2 DEF Streak

\* The streaks of the window are those of the log, as far as the window goes.
LEMMA StreakFacts ==
  ASSUME NEW w, NEW log, NEW m \in Nat \ {0}, IsEnd(w, log, m), w # <<>>
  PROVE  /\ Len(w) \in 1 .. m /\ Len(log) \in Nat /\ Len(w) <= Len(log)
         /\ Len(w) < m => w = log
         /\ Streak(w, SameCall) \in 0 .. Len(w) /\ Streak(log, SameCall) \in 0 .. Len(log)
         /\ Streak(w, SameResult) \in 0 .. Len(w) /\ Streak(log, SameResult) \in 0 .. Len(log)
         /\ Streak(w, SameCall) = IF Streak(log, SameCall) <= Len(w) THEN Streak(log, SameCall) ELSE Len(w)
         /\ Streak(w, SameResult) = IF Streak(log, SameResult) <= Len(w) THEN Streak(log, SameResult) ELSE Len(w)
<1> DEFINE l == Len(w)
           n == Len(log)
<1>1. /\ l \in 1 .. m /\ n \in Nat /\ l <= n /\ w \in Seq(Entry) /\ log \in Seq(Entry)
      /\ \A i \in 1 .. l : w[i] = log[i + (n - l)]
  <2>1. w \in Seq(Entry) /\ log \in Seq(Entry) /\ l = IF n <= m THEN n ELSE m
    BY DEF IsEnd
  <2>2. l \in Nat /\ n \in Nat /\ l # 0
    BY <2>1
  <2>3. \A i \in 1 .. l : w[i] = log[i + (n - l)]
    BY DEF IsEnd
  <2> HIDE DEF l, n
  <2> QED BY <2>1, <2>2, <2>3
<1>2. l < m => w = log
  <2> SUFFICES ASSUME l < m PROVE w = log
    OBVIOUS
  <2>1. l = n
    BY <1>1 DEF IsEnd
  <2>2. \A i \in 1 .. l : i + (n - l) = i
    BY <1>1, <2>1
  <2>3. \A i \in 1 .. l : w[i] = log[i]
    BY <1>1, <2>2
  <2> QED BY <1>1, <2>1, <2>3, SeqEqual
<1>3. w[l] = log[n]
  <2>1. l \in 1 .. l /\ l + (n - l) = n
    BY <1>1
  <2> QED BY <1>1, <2>1
<1>4. ASSUME NEW i \in 1 .. l
      PROVE  (i \in Alike(w) <=> i + (n - l) \in Alike(log)) /\ (i \in NoNews(w) <=> i + (n - l) \in NoNews(log))
  <2>1. i + (n - l) \in 1 .. n /\ w[i] = log[i + (n - l)]
    BY <1>1
  <2> QED BY <1>3, <2>1 DEF Alike, NoNews
<1>5. /\ Streak(w, SameCall) = Max(Streaks(Alike(w), l)) /\ Streak(log, SameCall) = Max(Streaks(Alike(log), n))
      /\ Streak(w, SameResult) = Max(Streaks(NoNews(w), l)) /\ Streak(log, SameResult) = Max(Streaks(NoNews(log), n))
  BY <1>1, StreakIs
<1>6. l \in Nat /\ n \in Nat /\ l <= n
  BY <1>1
<1> HIDE DEF l, n
<1>7. /\ Max(Streaks(Alike(w), l)) \in 0 .. l /\ Max(Streaks(Alike(log), n)) \in 0 .. n
      /\ Max(Streaks(NoNews(w), l)) \in 0 .. l /\ Max(Streaks(NoNews(log), n)) \in 0 .. n
  BY <1>6, LongestStreak
<1>8. /\ Max(Streaks(Alike(w), l)) = IF Max(Streaks(Alike(log), n)) <= l THEN Max(Streaks(Alike(log), n)) ELSE l
      /\ Max(Streaks(NoNews(w), l)) = IF Max(Streaks(NoNews(log), n)) <= l THEN Max(Streaks(NoNews(log), n)) ELSE l
  BY <1>4, <1>6, StreakOfEnd
<1> QED BY <1>1, <1>2, <1>5, <1>7, <1>8 DEF l, n

\* A streak that is cut where it already breaks the run off says the same.
LEMMA SameEscalation ==
  ASSUME NEW a \in Nat, NEW b \in Nat, NEW l \in Nat, NEW from \in Nat, from + 2 <= l,
         a = (IF b <= l THEN b ELSE l)
  PROVE  Escalated(a, from) = Escalated(b, from)
BY DEF Escalated

\* More alternations include fewer.
LEMMA AlternatesDown ==
  ASSUME NEW w, Len(w) \in Nat, NEW c \in Nat, Alternates(w, c), NEW d \in Nat, d <= c, d >= 1
  PROVE  Alternates(w, d)
BY DEF Alternates

\* The window alternates as often as the log, as far as the window goes.
LEMMA AlternatesAtEnd ==
  ASSUME NEW w, NEW log, NEW m \in Nat \ {0}, IsEnd(w, log, m), w # <<>>, NEW c \in Nat \ {0}
  PROVE  Alternates(w, c) <=> Alternates(log, c) /\ 2 * c <= Len(w)
<1> DEFINE l == Len(w)
           n == Len(log)
<1>1. l \in Nat /\ l >= 1 /\ n \in Nat /\ l <= n
  BY StreakFacts
<1>2. \A i \in 1 .. l : w[i] = log[i + (n - l)]
  BY DEF IsEnd
<1> SUFFICES ASSUME 2 * c <= l PROVE Alternates(w, c) <=> Alternates(log, c)
  BY <1>1 DEF Alternates
<1>3. w[l] = log[n] /\ w[l - 1] = log[n - 1]
  <2>1. l - 1 \in 1 .. l /\ l \in 1 .. l /\ l + (n - l) = n /\ (l - 1) + (n - l) = n - 1
    BY <1>1
  <2> QED BY <1>2, <2>1
<1>4. ASSUME NEW i \in l - 2 * c + 1 .. l - 2
      PROVE  w[i] = log[i + (n - l)] /\ w[i + 2] = log[i + (n - l) + 2]
  <2>1. i \in 1 .. l /\ i + 2 \in 1 .. l /\ (i + 2) + (n - l) = i + (n - l) + 2
    BY <1>1, <1>4
  <2> QED BY <1>2, <2>1
<1>5. (\A i \in l - 2 * c + 1 .. l - 2 : w[i].tool = w[i + 2].tool)
      <=> (\A i \in n - 2 * c + 1 .. n - 2 : log[i].tool = log[i + 2].tool)
  <2>1. ASSUME \A i \in n - 2 * c + 1 .. n - 2 : log[i].tool = log[i + 2].tool,
               NEW i \in l - 2 * c + 1 .. l - 2
        PROVE  w[i].tool = w[i + 2].tool
    <3>1. i + (n - l) \in n - 2 * c + 1 .. n - 2
      BY <1>1
    <3> QED BY <1>4, <2>1, <3>1
  <2>2. ASSUME \A i \in l - 2 * c + 1 .. l - 2 : w[i].tool = w[i + 2].tool,
               NEW i \in n - 2 * c + 1 .. n - 2
        PROVE  log[i].tool = log[i + 2].tool
    <3>1. i - (n - l) \in l - 2 * c + 1 .. l - 2 /\ (i - (n - l)) + (n - l) = i
      BY <1>1
    <3>2. PICK k \in l - 2 * c + 1 .. l - 2 : k + (n - l) = i
      BY <3>1
    <3>3. k + (n - l) + 2 = i + 2
      BY <3>2
    <3>4. w[k] = log[i] /\ w[k + 2] = log[i + 2]
      BY <1>4, <3>2, <3>3
    <3> QED BY <2>2, <3>2, <3>4
  <2> QED BY <2>1, <2>2
<1> QED BY <1>1, <1>3, <1>5 DEF Alternates

\* The numbers of alternations that are found.
Turnings(w) == {c \in MinCycles .. Len(w) : Alternates(w, c)}

\* A wide window shows the alternations that the log shows.
LEMMA SamePingPong ==
  ASSUME NEW w, NEW log, NEW m \in Nat \ {0}, IsEnd(w, log, m), w # <<>>,
         Len(w) = m, 2 * (MinCycles + 2) <= m
  PROVE  PingPong(w) = PingPong(log)
<1> DEFINE l == Len(w)
           n == Len(log)
           A == Turnings(w)
           B == Turnings(log)
<1>0. MinCycles \in Nat \ {0} /\ l \in Nat /\ l >= 1 /\ n \in Nat /\ l <= n /\ 2 * (MinCycles + 2) <= l
  BY DetectorConstants, StreakFacts
<1> HIDE DEF l, n
<1>1. \A c \in Nat \ {0} : Alternates(w, c) <=> Alternates(log, c) /\ 2 * c <= l
  BY AlternatesAtEnd DEF l
<1>2. \A c, d \in Nat \ {0} : Alternates(log, c) /\ d <= c => Alternates(log, d)
  BY <1>0, AlternatesDown DEF n
<1>3. \A c : c \in A <=> c \in Nat /\ MinCycles <= c /\ c <= l /\ Alternates(w, c)
  BY <1>0 DEF Turnings, l
<1>4. \A c : c \in B <=> c \in Nat /\ MinCycles <= c /\ c <= n /\ Alternates(log, c)
  BY <1>0 DEF Turnings, n
<1> HIDE DEF A, B
<1>5. \A c : c \in A <=> c \in B /\ 2 * c <= l
  BY <1>0, <1>1, <1>3, <1>4
<1>6. A # {} => Max(A) \in A /\ \A x \in A : Max(A) >= x
  <2>1. A \in SUBSET Nat /\ \A x \in A : x <= l
    BY <1>3
  <2> QED BY <1>0, <2>1, MaxIs
<1>7. B # {} => Max(B) \in B /\ \A x \in B : Max(B) >= x
  <2>1. B \in SUBSET Nat /\ \A x \in B : x <= n
    BY <1>4
  <2> QED BY <1>0, <2>1, MaxIs
<1>8. ASSUME B # {}
      PROVE  A # {} /\ Escalated(Max(A), MinCycles) = Escalated(Max(B), MinCycles)
  <2>1. Max(B) \in Nat /\ Max(B) >= MinCycles /\ Alternates(log, Max(B)) /\ Max(B) <= n
    BY <1>4, <1>7, <1>8
  <2>2. \A c \in Nat : c >= MinCycles /\ c <= Max(B) => c \in B
    BY <1>0, <1>2, <1>4, <2>1
  <2>3. MinCycles \in A
    BY <1>0, <1>5, <2>1, <2>2
  <2>4. Max(A) \in A /\ \A x \in A : Max(A) >= x
    BY <1>6, <2>3
  <2>5. Max(A) \in Nat /\ Max(A) <= Max(B)
    BY <1>3, <1>5, <1>7, <1>8, <2>4
  <2>6. CASE 2 * Max(B) <= l
    <3>1. Max(B) \in A
      BY <1>5, <1>7, <1>8, <2>6
    <3>2. Max(A) = Max(B)
      BY <2>1, <2>4, <2>5, <3>1
    <3> QED BY <2>3, <3>2
  <2>7. CASE ~(2 * Max(B) <= l)
    <3>1. MinCycles + 2 \in A
      BY <1>0, <1>5, <2>1, <2>2, <2>7
    <3>2. Max(A) >= MinCycles + 2
      BY <2>4, <3>1
    <3> QED BY <1>0, <2>1, <2>3, <2>5, <3>2 DEF Escalated
  <2> QED BY <2>6, <2>7
<1>9. A # {} => B # {}
  BY <1>5
<1>10. PingPong(w) = (IF A = {} THEN "ok" ELSE Escalated(Max(A), MinCycles))
  BY DEF PingPong, A, Turnings
<1>11. PingPong(log) = (IF B = {} THEN "ok" ELSE Escalated(Max(B), MinCycles))
  BY DEF PingPong, B, Turnings
<1> QED BY <1>8, <1>9, <1>10, <1>11

-----------------------------------------------------------------------------
(* The pattern of no progress, and the verdict.                            *)

\* The arguments of the last n entries.
LastArguments(w, n) == {w[i].args : i \in Len(w) - n + 1 .. Len(w)}

\* They can be counted.
LEMMA ArgumentsFinite ==
  ASSUME NEW w, Len(w) \in Nat, NEW n \in Nat
  PROVE  IsFiniteSet(LastArguments(w, n))
<1> DEFINE D == Len(w) - n + 1 .. Len(w)
           f == [i \in D |-> w[i].args]
<1>1. IsFiniteSet(D)
  BY FS_Interval
<1>2. LastArguments(w, n) = {f[i] : i \in D}
  BY DEF LastArguments
<1>3. f \in Surjection(D, {f[i] : i \in D})
  BY DEF Surjection
<1> HIDE DEF f, D
<1> QED BY <1>1, <1>2, <1>3, FS_Surjection

\* NoProgress in terms of them.
LEMMA NoProgressIs ==
  ASSUME NEW w
  PROVE  NoProgress(w) = IF Cardinality(LastArguments(w, Streak(w, SameResult))) < 2 THEN "ok"
                         ELSE Escalated(Streak(w, SameResult), MinCalls)
BY DEF NoProgress, LastArguments

\* A wide window shows the lack of progress that the log shows, unless the calls are exact
\* repeats: then the arguments need not differ within the window where they differ before it.
LEMMA SameNoProgress ==
  ASSUME NEW w, NEW log, NEW m \in Nat \ {0}, IsEnd(w, log, m), w # <<>>,
         NEW repeats \in Nat, Len(w) >= repeats + 2, Len(w) >= MinCalls + 2, ExactRepeat(w, repeats) = "ok"
  PROVE  NoProgress(w) = NoProgress(log)
<1> DEFINE l == Len(w)
           n == Len(log)
           a == Streak(w, SameResult)
           b == Streak(log, SameResult)
<1>1. /\ l \in Nat /\ l >= 1 /\ n \in Nat /\ l <= n /\ a \in 0 .. l /\ b \in 0 .. n
      /\ a = (IF b <= l THEN b ELSE l) /\ MinCalls \in Nat
  BY StreakFacts, DetectorConstants
<1>2. \A i \in 1 .. l : w[i] = log[i + (n - l)]
  BY DEF IsEnd
<1>3. CASE b <= l
  <2>1. a = b
    BY <1>1, <1>3
  <2>2. \A x : x \in LastArguments(w, a) <=> x \in LastArguments(log, a)
    <3>1. ASSUME NEW i \in l - a + 1 .. l
          PROVE  i + (n - l) \in n - a + 1 .. n /\ w[i] = log[i + (n - l)]
      <4>1. i \in 1 .. l /\ i + (n - l) \in n - a + 1 .. n
        BY <1>1
      <4> QED BY <1>2, <4>1
    <3>2. ASSUME NEW i \in n - a + 1 .. n
          PROVE  \E k \in l - a + 1 .. l : w[k] = log[i]
      <4>1. i - (n - l) \in l - a + 1 .. l /\ i - (n - l) \in 1 .. l /\ (i - (n - l)) + (n - l) = i
        BY <1>1
      <4>2. PICK k \in l - a + 1 .. l : k + (n - l) = i /\ k \in 1 .. l
        BY <4>1
      <4>3. w[k] = log[i]
        BY <1>2, <4>2
      <4> QED BY <4>3
    <3>3. LastArguments(w, a) = {w[i].args : i \in l - a + 1 .. l}
      BY DEF LastArguments
    <3>4. LastArguments(log, a) = {log[i].args : i \in n - a + 1 .. n}
      BY DEF LastArguments
    <3> HIDE DEF a, b, l, n
    <3> QED BY <3>1, <3>2, <3>3, <3>4
  <2>3. LastArguments(w, a) = LastArguments(log, a)
    BY <2>2
  <2> QED BY <2>1, <2>3, NoProgressIs
<1>4. CASE ~(b <= l)
  <2>1. a = l
    BY <1>1, <1>4
  <2>2. Escalated(a, MinCalls) = "break" /\ Escalated(b, MinCalls) = "break"
    <3>1. a >= MinCalls + 2 /\ b >= MinCalls + 2
      BY <1>1, <1>4, <2>1
    <3> QED BY <3>1 DEF Escalated
  <2>3. /\ IsFiniteSet(LastArguments(w, a)) /\ IsFiniteSet(LastArguments(log, b))
        /\ Cardinality(LastArguments(w, a)) \in Nat /\ Cardinality(LastArguments(log, b)) \in Nat
    <3>1. a \in Nat /\ b \in Nat
      BY <1>1
    <3> HIDE DEF a, b
    <3> QED BY <1>1, <3>1, ArgumentsFinite, FS_CardinalityType
  <2>4. \A x : x \in LastArguments(w, a) => x \in LastArguments(log, b)
    <3>1. ASSUME NEW i \in l - a + 1 .. l
          PROVE  i + (n - l) \in n - b + 1 .. n /\ w[i] = log[i + (n - l)]
      <4>1. i \in 1 .. l /\ i + (n - l) \in n - b + 1 .. n
        BY <1>1, <1>4, <2>1
      <4> QED BY <1>2, <4>1
    <3>3. LastArguments(w, a) = {w[i].args : i \in l - a + 1 .. l}
      BY DEF LastArguments
    <3>4. LastArguments(log, b) = {log[i].args : i \in n - b + 1 .. n}
      BY DEF LastArguments
    <3> HIDE DEF a, b, l, n
    <3> QED BY <3>1, <3>3, <3>4
  <2>5. LastArguments(w, a) \subseteq LastArguments(log, b)
    BY <2>4
  <2>6. Cardinality(LastArguments(w, a)) <= Cardinality(LastArguments(log, b))
    BY <2>3, <2>5, FS_Subset
  <2>7. ~(Cardinality(LastArguments(w, a)) < 2)
    <3> SUFFICES ASSUME Cardinality(LastArguments(w, a)) < 2 PROVE FALSE
      OBVIOUS
    <3>1. \A i \in 1 .. l : w[i].args \in LastArguments(w, a)
      <4>1. l - a + 1 = 1
        BY <1>1, <2>1
      <4> QED BY <4>1 DEF LastArguments
    <3>2. \A i \in 1 .. l : w[i].args = w[l].args
      <4>1. l \in 1 .. l
        BY <1>1
      <4> QED BY <2>3, <3>1, <4>1, AtMostOne
    <3>3. \A i \in 1 .. l : SameResult(w[i], w[l])
      <4>1. a = Max(Streaks(NoNews(w), l))
        BY <1>1, StreakIs
      <4>2. \A i \in l - a + 1 .. l : i \in NoNews(w)
        BY <1>1, <4>1, LongestStreak
      <4>3. l - a + 1 = 1
        BY <1>1, <2>1
      <4> QED BY <4>2, <4>3 DEF NoNews
    <3>4. \A i \in 1 .. l : i \in Alike(w)
      BY <3>2, <3>3 DEF Alike, SameCall, SameResult
    <3>5. l \in Streaks(Alike(w), l)
      <4>1. l - l + 1 = 1 /\ l \in 0 .. l
        BY <1>1
      <4> QED BY <3>4, <4>1 DEF Streaks
    <3>6. Streak(w, SameCall) \in 0 .. l /\ Streak(w, SameCall) >= l
      BY <1>1, <3>5, LongestStreak, StreakIs
    <3>7. ExactRepeat(w, repeats) = "break"
      <4>1. ~(Len(w) < repeats) /\ Streak(w, SameCall) >= repeats + 2
        BY <1>1, <3>6
      <4> QED BY <4>1 DEF ExactRepeat, Escalated
    <3> QED BY <3>7
  <2>8. ~(Cardinality(LastArguments(log, b)) < 2)
    BY <2>3, <2>6, <2>7
  <2> QED BY <2>2, <2>7, <2>8, NoProgressIs
<1> QED BY <1>3, <1>4

\* Wide, for a window and the repeats it must show.
IsWide(size, repeats) == size >= repeats + 2 /\ size >= 2 * (MinCycles + 2) /\ size >= MinCalls + 2

\* What the detector says of a wide window is what it says of the whole log.
THEOREM SameVerdict ==
  ASSUME NEW size \in Nat, NEW repeats \in Nat, IsWide(size, repeats),
         NEW w, NEW log, IsEnd(w, log, Kept(size)), w # <<>>
  PROVE  Pattern(w, repeats) = Pattern(log, repeats)
<1>1. /\ Kept(size) = size /\ size \in Nat \ {0} /\ MinCycles \in Nat /\ MinCalls \in Nat
      /\ size >= repeats + 2 /\ size >= 2 * (MinCycles + 2) /\ size >= MinCalls + 2
  BY DetectorConstants DEF Kept, IsWide
<1>2. /\ Len(w) \in 1 .. size /\ Len(log) \in Nat /\ Len(w) <= Len(log)
      /\ Len(w) < size => w = log
  BY <1>1, StreakFacts
<1>3. CASE Len(w) < size
  BY <1>2, <1>3
<1>4. CASE Len(w) = size
  <2>1. PingPong(w) = PingPong(log)
    BY <1>1, <1>4, SamePingPong
  <2>2. ExactRepeat(w, repeats) = ExactRepeat(log, repeats)
    <3>1. /\ Streak(w, SameCall) \in Nat /\ Streak(log, SameCall) \in Nat
          /\ Streak(w, SameCall) = IF Streak(log, SameCall) <= size THEN Streak(log, SameCall) ELSE size
      BY <1>1, <1>2, <1>4, StreakFacts
    <3>2. Escalated(Streak(w, SameCall), repeats) = Escalated(Streak(log, SameCall), repeats)
      <4>1. PICK a, b \in Nat : a = Streak(w, SameCall) /\ b = Streak(log, SameCall)
        BY <3>1
      <4>2. repeats + 2 <= size /\ a = (IF b <= size THEN b ELSE size)
        BY <1>1, <3>1, <4>1
      <4>3. Escalated(a, repeats) = Escalated(b, repeats)
        BY <4>2, SameEscalation
      <4> QED BY <4>1, <4>3
    <3>3. ~(Len(w) < repeats) /\ ~(Len(log) < repeats)
      BY <1>1, <1>2, <1>4
    <3> QED BY <3>2, <3>3 DEF ExactRepeat
  <2>3. ExactRepeat(w, repeats) = "ok" => NoProgress(w) = NoProgress(log)
    BY <1>1, <1>4, SameNoProgress
  <2> QED BY <2>1, <2>2, <2>3 DEF Pattern
<1> QED BY <1>2, <1>3, <1>4

\* The calls, taken from the start, show a pattern that must be broken off.
Broken(log, repeats) == \E n \in DOMAIN log : Pattern(SubSeq(log, 1, n), repeats) = "break"

\* New entries show such a pattern in the log exactly if one of their windows does.
LEMMA BrokenOff ==
  ASSUME NEW size \in Nat, NEW repeats \in Nat, IsWide(size, repeats),
         NEW w, NEW log, IsEnd(w, log, Kept(size)), NEW new \in Seq(Entry)
  PROVE  Broken(log \o new, repeats)
           <=> \/ Broken(log, repeats)
               \/ \E k \in 1 .. Len(new) : Pattern(PushedAll(w, SubSeq(new, 1, k), size), repeats) = "break"
<1> DEFINE n == Len(log)
           all == log \o new
<1>1. log \in Seq(Entry) /\ n \in Nat /\ Len(new) \in Nat /\ Kept(size) \in Nat \ {0}
  BY DEF IsEnd, Kept
<1>2. all \in Seq(Entry) /\ Len(all) = n + Len(new) /\ DOMAIN all = 1 .. n + Len(new) /\ DOMAIN log = 1 .. n
  BY <1>1
<1>3. ASSUME NEW i \in 1 .. n PROVE SubSeq(all, 1, i) = SubSeq(log, 1, i)
  BY <1>1
<1>4. ASSUME NEW k \in 1 .. Len(new)
      PROVE  Pattern(PushedAll(w, SubSeq(new, 1, k), size), repeats) = Pattern(SubSeq(all, 1, n + k), repeats)
  <2> DEFINE s == SubSeq(new, 1, k)
             v == PushedAll(w, s, size)
  <2>1. s \in Seq(Entry) /\ Len(s) = k
    BY <1>1
  <2>2. SubSeq(all, 1, n + k) = log \o s
    BY <1>1
  <2> HIDE DEF s
  <2>3. IsEnd(v, log \o s, Kept(size))
    BY <2>1, PushedAllIsEnd
  <2>4. Len(log \o s) = n + k /\ k >= 1
    BY <1>1, <2>1
  <2> HIDE DEF v
  <2>5. v # <<>>
    <3>1. Len(v) = IF n + k <= Kept(size) THEN n + k ELSE Kept(size)
      BY <2>3, <2>4 DEF IsEnd
    <3>2. Len(v) > 0
      BY <1>1, <2>4, <3>1
    <3> QED BY <3>2
  <2>6. Pattern(v, repeats) = Pattern(log \o s, repeats)
    BY <2>3, <2>5, SameVerdict
  <2> QED BY <2>2, <2>6 DEF v, s
<1> HIDE DEF all
<1>5. ASSUME NEW i \in 1 .. n + Len(new), i > n
      PROVE  \E k \in 1 .. Len(new) : i = n + k
  <2>1. i - n \in 1 .. Len(new) /\ i = n + (i - n)
    BY <1>1, <1>5
  <2> QED BY <2>1
<1>6. \A i \in 1 .. n : i \in 1 .. n + Len(new)
  BY <1>1
<1>7. \A k \in 1 .. Len(new) : n + k \in 1 .. n + Len(new)
  BY <1>1
<1>8. ASSUME Broken(all, repeats)
      PROVE  \/ Broken(log, repeats)
             \/ \E k \in 1 .. Len(new) : Pattern(PushedAll(w, SubSeq(new, 1, k), size), repeats) = "break"
  <2>1. PICK i \in 1 .. n + Len(new) : Pattern(SubSeq(all, 1, i), repeats) = "break"
    BY <1>2, <1>8 DEF Broken
  <2>2. CASE i > n
    BY <1>4, <1>5, <2>1, <2>2
  <2>3. CASE ~(i > n)
    <3>1. i \in 1 .. n
      BY <1>1, <2>3
    <3> QED BY <1>2, <1>3, <2>1, <3>1 DEF Broken
  <2> QED BY <2>2, <2>3
<1>9. ASSUME Broken(log, repeats) PROVE Broken(all, repeats)
  BY <1>2, <1>3, <1>6, <1>9 DEF Broken
<1>10. ASSUME NEW k \in 1 .. Len(new), Pattern(PushedAll(w, SubSeq(new, 1, k), size), repeats) = "break"
       PROVE  Broken(all, repeats)
  BY <1>2, <1>4, <1>7, <1>10 DEF Broken
<1> QED BY <1>8, <1>9, <1>10 DEF all

-----------------------------------------------------------------------------
(* Approvals: no more runs than prompts that were answered with Yes.       *)

(* Calls that name a model where they have to.                            *)
Valid == {c \in Calls : c.tool = "model_switch" => c.args \in Models}

(* A call and what became of it.                                           *)
Results == [call : Valid, made : Valid, what : Marks]

(* The locals of a turn: a record with these fields,                       *)
IsLocals(r) ==
  r \in [model : {r.model}, target : {r.target}, iteration : {r.iteration}, history : {r.history},
         position : {r.position}, tried : {r.tried}, calls : {r.calls}, parallel : {r.parallel},
         results : {r.results}, queue : {r.queue}, outcomes : {r.outcomes}, window : {r.window},
         log : {r.log}, gate : {r.gate}, why : {r.why}]

(* of which some say which calls are to be run.                            *)
LocalsOK(r) ==
  /\ IsLocals(r)
  /\ r.calls \in Seq(Valid) /\ r.results \in Seq(Results)
  /\ r.queue \in Seq(Nat) /\ r.outcomes \in Seq(Results) /\ Len(r.queue) = Len(r.outcomes)
  /\ \A j \in 1 .. Len(r.outcomes) : /\ r.queue[j] \in 1 .. Len(r.calls)
                                     /\ r.outcomes[j].call = r.calls[r.queue[j]]

\* What the approvals take from the other variables.
LoopTypes ==
  /\ setting \in Settings /\ turn = [t \in Turns |-> turn[t]]
  /\ credit \in [Guarded -> Int]
  /\ \A t \in Turns : LocalsOK(turn[t])

(* The calls of a tool that are decided on and to be run.                  *)
ToRun(x) ==
  {p \in Turns \X Nat : /\ p[2] \in 1 .. Len(turn[p[1]].outcomes) /\ turn[p[1]].outcomes[p[2]].what = "pending"
                        /\ turn[p[1]].outcomes[p[2]].made.tool = x}

(* A prompt stands between a call of the tool and its run.                 *)
Prompts(x) ==
  /\ setting.supervised /\ x \in Guarded
  /\ \/ x \in AlwaysAsked
     \/ x \notin AutoApproved \cup allowlist /\ ~(setting.channel /\ x = "shell")

\* Where a prompt is needed, the credit pays for the calls that are still to be run.
Covered == \A x \in Tools : /\ IsFiniteSet(ToRun(x))
                            /\ Prompts(x) => credit[x] >= Cardinality(ToRun(x))

\* The invariant of the approvals.
ApprovalInv == LoopTypes /\ Covered

(* What a step leaves out of the queues needs no credit.                   *)
LEMMA FewerToRun ==
  ASSUME ApprovalInv, LoopTypes', setting' = setting, credit' = credit, allowlist' = allowlist,
         \A t \in Turns : turn'[t].outcomes = turn[t].outcomes \/ turn'[t].outcomes = <<>>
  PROVE  Covered'
<1>1. ASSUME NEW x \in Tools PROVE ToRun(x)' \subseteq ToRun(x)
  BY DEF ToRun
<1>2. ASSUME NEW x \in Tools
      PROVE  /\ IsFiniteSet(ToRun(x)')
             /\ Prompts(x)' => credit[x] >= Cardinality(ToRun(x)')
  <2>1. IsFiniteSet(ToRun(x)) /\ (Prompts(x) => credit[x] >= Cardinality(ToRun(x)))
    BY DEF ApprovalInv, Covered
  <2>2. IsFiniteSet(ToRun(x)') /\ Cardinality(ToRun(x)') <= Cardinality(ToRun(x))
    BY <1>1, <2>1, FS_Subset
  <2>3. Prompts(x)' => Prompts(x) /\ credit[x] \in Int
    BY DEF Prompts, ApprovalInv, LoopTypes
  <2>4. Cardinality(ToRun(x)') \in Nat /\ Cardinality(ToRun(x)) \in Nat
    BY <2>1, <2>2, FS_CardinalityType
  <2> QED BY <2>1, <2>2, <2>3, <2>4
<1> QED BY <1>2 DEF Covered

\* One element more makes a set larger by one at most.
LEMMA AtMostOneMore ==
  ASSUME NEW S, NEW x, IsFiniteSet(S)
  PROVE  Cardinality(S \cup {x}) <= Cardinality(S) + 1
<1>1. Cardinality(S) \in Nat
  BY FS_CardinalityType
<1>2. CASE x \in S
  BY <1>1, <1>2, FS_AddElement
<1>3. CASE x \notin S
  <2>1. Cardinality(S \cup {x}) = Cardinality(S) + 1
    BY <1>3, FS_AddElement
  <2> QED BY <1>1, <2>1
<1> QED BY <1>2, <1>3

(* Locals after the changes that the actions make.                         *)
LEMMA FreshOK ==
  ASSUME NEW history, NEW model
  PROVE  LocalsOK(Fresh(history, model)) /\ Fresh(history, model).outcomes = <<>>
BY DEF LocalsOK, IsLocals, Fresh

\* The fields that say nothing of the calls to be run may change.
LEMMA ChangedOK ==
  ASSUME NEW r, LocalsOK(r), NEW v, NEW w
  PROVE  LET Same(new) == LocalsOK(new) /\ new.outcomes = r.outcomes
         IN  /\ Same([r EXCEPT !.target = v]) /\ Same([r EXCEPT !.history = v])
             /\ Same([r EXCEPT !.position = v, !.tried = w])
             /\ Same([r EXCEPT !.history = v, !.iteration = w])
             /\ v \in Results => Same([r EXCEPT !.results = Append(@, v)])
<1> DEFINE Same(new) == LocalsOK(new) /\ new.outcomes = r.outcomes
<1>1. Same([r EXCEPT !.target = v])
  BY DEF LocalsOK, IsLocals
<1>2. Same([r EXCEPT !.history = v])
  BY DEF LocalsOK, IsLocals
<1>3. Same([r EXCEPT !.position = v, !.tried = w])
  BY DEF LocalsOK, IsLocals
<1>4. Same([r EXCEPT !.history = v, !.iteration = w])
  BY DEF LocalsOK, IsLocals
<1>5. v \in Results => Same([r EXCEPT !.results = Append(@, v)])
  <2>1. ASSUME NEW seq \in Seq(Results) PROVE Same([r EXCEPT !.results = seq])
    BY DEF LocalsOK, IsLocals
  <2>2. v \in Results => Append(r.results, v) \in Seq(Results)
    BY DEF LocalsOK, IsLocals
  <2> QED BY <2>1, <2>2
<1> QED BY <1>1, <1>2, <1>3, <1>4, <1>5

(* A step that writes such locals for one turn keeps the invariant.        *)
LEMMA LocalStep ==
  ASSUME ApprovalInv, NEW t \in Turns, NEW r, Locals(t, r), LocalsOK(r),
         r.outcomes = turn[t].outcomes \/ r.outcomes = <<>>,
         UNCHANGED <<setting, credit, allowlist>>
  PROVE  ApprovalInv'
<1>1. turn'[t] = r /\ (\A u \in Turns \ {t} : turn'[u] = turn[u]) /\ turn' = [u \in Turns |-> turn'[u]]
  BY DEF Locals, ApprovalInv, LoopTypes
<1>2. LoopTypes'
  BY <1>1 DEF ApprovalInv, LoopTypes
<1> QED BY <1>1, <1>2, FewerToRun DEF ApprovalInv

\* A step that touches none of this.
LEMMA NoStep ==
  ASSUME ApprovalInv, UNCHANGED <<turn, setting, credit, allowlist>>
  PROVE  ApprovalInv'
<1>1. LoopTypes'
  BY DEF ApprovalInv, LoopTypes
<1> QED BY <1>1, FewerToRun DEF ApprovalInv

-----------------------------------------------------------------------------
(* Decisions and runs.                                                     *)

\* What replies and outputs are.
LEMMA SettingFacts ==
  ASSUME setting \in Settings
  PROVE  /\ setting.replies \subseteq Seq(Valid) /\ setting.outputs \subseteq Marks
         /\ "pending" \notin setting.outputs /\ setting.channel \in BOOLEAN
         /\ setting.rewrites \subseteq Valid
<1>1. setting.outputs \subseteq Marks
  BY DEF Marks
<1>2. "pending" \notin setting.outputs /\ setting.channel \in BOOLEAN
  BY AgentConstants
<1>3. setting.rewrites \subseteq Valid
  <2>1. /\ setting.rewrites \subseteq Calls
        /\ \A call \in setting.rewrites : call.tool = "model_switch" => call.args \in Models
    BY AgentConstants
  <2> QED BY <2>1 DEF Valid
<1>4. ASSUME NEW reply \in setting.replies PROVE reply \in Seq(Valid)
  <2>1. reply \in Seq(Calls) /\ \A i \in DOMAIN reply : reply[i].tool = "model_switch" => reply[i].args \in Models
    BY <1>4, AgentConstants
  <2>2. DOMAIN reply = 1 .. Len(reply) /\ Len(reply) \in Nat /\ \A i \in 1 .. Len(reply) : reply[i] \in Calls
    BY <2>1
  <2>3. \A i \in 1 .. Len(reply) : reply[i] \in Valid
    BY <2>1, <2>2 DEF Valid
  <2>4. reply = [i \in 1 .. Len(reply) |-> reply[i]]
    BY <2>1
  <2> QED BY <2>2, <2>3, <2>4
<1> QED BY <1>1, <1>2, <1>3, <1>4

\* A decision: a call is queued once the credit it needs was earned.
LEMMA DecideKeepsInv ==
  ASSUME ApprovalInv, NEW t \in Turns, Decide(t)
  PROVE  ApprovalInv'
<1> DEFINE r == turn[t]
           call == r.calls[Undecided(t)]
<1>1. LoopTypes /\ LocalsOK(r) /\ UNCHANGED setting
  BY DEF ApprovalInv, LoopTypes, Decide
<1>2. Undecided(t) \in 1 .. Len(r.calls) /\ call \in Valid /\ call.tool \in Tools
  <2>1. Len(r.results) \in Nat /\ Len(r.calls) \in Nat /\ r.calls \in Seq(Valid)
    BY <1>1 DEF LocalsOK, IsLocals
  <2>2. Undecided(t) <= Len(r.calls)
    BY DEF Decide
  <2>3. Undecided(t) \in 1 .. Len(r.calls)
    BY <2>1, <2>2 DEF Undecided
  <2>4. call \in Valid
    BY <2>1, <2>3
  <2> HIDE DEF call
  <2> QED BY <2>3, <2>4 DEF Valid, Calls
<1>0. PICK c \in Valid : c = call
  BY <1>2
<1>3. ASSUME NEW d \in Valid, NEW what \in {"pending", "cancelled by hook", "denied", "duplicate"}
      PROVE  Result(c, d, what) \in Results
  <2>1. ASSUME NEW mark \in Marks PROVE [call |-> c, made |-> d, what |-> mark] \in Results
    BY DEF Results
  <2> QED BY <2>1 DEF Result, Marks
<1>4. ASSUME NEW d \in Valid,
             Decided(t, d, "cancelled by hook") \/ Decided(t, d, "denied") \/ Decided(t, d, "duplicate"),
             credit' \in [Guarded -> Int]
      PROVE  LoopTypes' /\ \A u \in Turns : turn'[u].outcomes = turn[u].outcomes
  <2>0. PICK what \in {"cancelled by hook", "denied", "duplicate"} : Decided(t, d, what)
    BY <1>4
  <2> DEFINE new == [r EXCEPT !.results = Append(@, Result(c, d, what))]
  <2>1. LocalsOK(new) /\ new.outcomes = r.outcomes
    BY <1>1, <1>3, ChangedOK
  <2>2. turn' = [turn EXCEPT ![t] = new]
    BY <1>0, <2>0 DEF Decided, Locals
  <2> HIDE DEF new
  <2> QED BY <1>1, <1>4, <2>1, <2>2 DEF LoopTypes
<1>5. CASE Decided(t, call, "cancelled by hook") /\ UNCHANGED <<allowlist, credit>>
  <2>1. LoopTypes' /\ \A u \in Turns : turn'[u].outcomes = turn[u].outcomes
    BY <1>0, <1>1, <1>4, <1>5 DEF LoopTypes
  <2> QED BY <1>1, <1>5, <2>1, FewerToRun DEF ApprovalInv
<1>6. ASSUME NEW d \in Valid, NEW answer \in Prompted(d.tool),
             allowlist' = IF answer = "always" THEN allowlist \cup {d.tool} ELSE allowlist,
             Earned(d.tool, IF answer \in {"yes", "always"} THEN 1 ELSE 0),
             \/ Decided(t, d, "denied") \/ Decided(t, d, "duplicate")
             \/ answer \notin Refusals /\ Queued(t, d)
      PROVE  ApprovalInv'
  <2>0. d.tool \in Tools
    BY <1>6 DEF Valid, Calls
  <2>1. /\ credit' \in [Guarded -> Int] /\ credit \in [Guarded -> Int]
        /\ \A x \in Guarded : credit'[x] >= credit[x]
        /\ d.tool \in Guarded /\ answer \in {"yes", "always"} => credit'[d.tool] = credit[d.tool] + 1
    BY <1>1, <1>6 DEF LoopTypes, Earned
  <2>2. \A x \in Tools : Prompts(x)' => Prompts(x) /\ x \in Guarded
    BY <1>1, <1>6 DEF Prompts
  <2>3. \A x \in Tools : /\ IsFiniteSet(ToRun(x)) /\ Cardinality(ToRun(x)) \in Nat
                         /\ Prompts(x) => credit[x] >= Cardinality(ToRun(x))
    BY FS_CardinalityType DEF ApprovalInv, Covered
  <2>4. CASE Decided(t, d, "denied") \/ Decided(t, d, "duplicate")
    <3>1. LoopTypes' /\ \A u \in Turns : turn'[u].outcomes = turn[u].outcomes
      BY <1>1, <1>4, <2>1, <2>4
    <3>2. \A x \in Tools : ToRun(x)' = ToRun(x)
      BY <3>1 DEF ToRun
    <3>3. \A x \in Tools : Prompts(x)' => credit'[x] >= Cardinality(ToRun(x))
      BY <2>1, <2>2, <2>3
    <3> QED BY <2>3, <3>1, <3>2, <3>3 DEF ApprovalInv, Covered
  <2>5. CASE answer \notin Refusals /\ Queued(t, d)
    <3> DEFINE pending == Result(c, d, "pending")
               n == Len(r.outcomes) + 1
               new == [r EXCEPT !.results = Append(@, pending), !.queue = Append(@, Undecided(t)),
                                !.outcomes = Append(@, pending)]
    <3>0. PICK p : p = <<t, n>>
      OBVIOUS
    <3>1. turn' = [turn EXCEPT ![t] = new]
      BY <1>0, <2>5 DEF Queued, Locals
    <3>2. /\ pending \in Results /\ pending.call = c /\ pending.made = d /\ pending.what = "pending"
          /\ Undecided(t) \in Nat /\ n \in Nat
      <4>1. pending \in Results
        BY <1>3
      <4>2. pending.call = c /\ pending.made = d /\ pending.what = "pending"
        BY DEF Result
      <4> QED BY <1>1, <1>2, <4>1, <4>2 DEF LocalsOK, IsLocals
    <3>3. /\ LocalsOK(new) /\ Len(new.outcomes) = n /\ new.outcomes[n] = pending
          /\ \A j \in 1 .. n - 1 : new.outcomes[j] = r.outcomes[j]
      <4> HIDE DEF pending
      <4>1. /\ Append(r.results, pending) \in Seq(Results) /\ Append(r.outcomes, pending) \in Seq(Results)
            /\ Append(r.queue, Undecided(t)) \in Seq(Nat)
        BY <1>1, <3>2 DEF LocalsOK, IsLocals
      <4>2. /\ new.results = Append(r.results, pending) /\ new.outcomes = Append(r.outcomes, pending)
            /\ new.queue = Append(r.queue, Undecided(t)) /\ new.calls = r.calls
        BY <1>1 DEF LocalsOK, IsLocals
      <4>3. /\ Len(new.outcomes) = n /\ Len(new.queue) = n /\ new.outcomes[n] = pending
            /\ new.queue[n] = Undecided(t)
            /\ \A j \in 1 .. n - 1 : new.outcomes[j] = r.outcomes[j] /\ new.queue[j] = r.queue[j]
        <5>1. /\ r.outcomes \in Seq(Results) /\ r.queue \in Seq(Nat) /\ Len(r.queue) = Len(r.outcomes)
              /\ Len(r.outcomes) \in Nat
          BY <1>1 DEF LocalsOK, IsLocals
        <5>2. ASSUME NEW seq, NEW S, seq \in Seq(S), NEW e \in S, Len(seq) = n - 1
              PROVE  /\ Len(Append(seq, e)) = n /\ Append(seq, e)[n] = e
                     /\ \A j \in 1 .. n - 1 : Append(seq, e)[j] = seq[j]
          BY <5>1, <5>2
        <5>3. Len(r.outcomes) = n - 1 /\ Len(r.queue) = n - 1
          BY <5>1
        <5> HIDE DEF n
        <5> QED BY <3>2, <4>2, <5>1, <5>2, <5>3
      <4>4. ASSUME NEW j \in 1 .. n
            PROVE  new.queue[j] \in 1 .. Len(r.calls) /\ new.outcomes[j].call = r.calls[new.queue[j]]
        BY <1>0, <1>1, <1>2, <3>2, <4>3, <4>4 DEF LocalsOK, IsLocals
      <4> QED BY <1>1, <4>1, <4>2, <4>3, <4>4 DEF LocalsOK, IsLocals
    <3> HIDE DEF new, pending
    <3>4. LoopTypes'
      BY <1>1, <2>1, <3>1, <3>3 DEF LoopTypes
    <3>5. \A x \in Tools : ToRun(x)' = IF x = d.tool THEN ToRun(x) \cup {p} ELSE ToRun(x)
      <4>1. turn'[t] = new /\ \A u \in Turns \ {t} : turn'[u] = turn[u]
        BY <1>1, <3>1 DEF LoopTypes
      <4>2. Len(r.outcomes) \in Nat /\ n = Len(r.outcomes) + 1 /\ (1 .. n) = (1 .. Len(r.outcomes)) \cup {n}
        BY <1>1 DEF LocalsOK, IsLocals
      <4> HIDE DEF n
      <4>3. ASSUME NEW x \in Tools, NEW u \in Turns, NEW k \in Nat
            PROVE  <<u, k>> \in ToRun(x)' <=> <<u, k>> \in ToRun(x) \/ (x = d.tool /\ u = t /\ k = n)
        <5>1. CASE u # t
          BY <4>1, <5>1 DEF ToRun
        <5>2. CASE u = t /\ k = n
          <6>1. n \in 1 .. Len(turn'[t].outcomes) /\ n \notin 1 .. Len(turn[t].outcomes)
            BY <3>2, <3>3, <4>1, <4>2
          <6>2. turn'[t].outcomes[n].what = "pending" /\ turn'[t].outcomes[n].made = d
            BY <3>2, <3>3, <4>1
          <6> QED BY <5>2, <6>1, <6>2 DEF ToRun
        <5>3. CASE u = t /\ k # n
          <6>1. k \in 1 .. Len(turn'[t].outcomes) <=> k \in 1 .. Len(r.outcomes)
            BY <3>3, <4>1, <4>2, <5>3
          <6>2. k \in 1 .. Len(r.outcomes) => turn'[t].outcomes[k] = r.outcomes[k]
            BY <3>3, <4>1, <4>2
          <6> QED BY <5>3, <6>1, <6>2 DEF ToRun
        <5> QED BY <5>1, <5>2, <5>3
      <4>4. \A x \in Tools : ToRun(x) \subseteq Turns \X Nat /\ ToRun(x)' \subseteq Turns \X Nat
        BY DEF ToRun
      <4>5. ASSUME NEW x \in Tools, x = d.tool PROVE ToRun(x)' = ToRun(x) \cup {p}
        BY <3>0, <3>2, <4>3, <4>4, <4>5
      <4>6. ASSUME NEW x \in Tools, x # d.tool PROVE ToRun(x)' = ToRun(x)
        <5>1. ToRun(x) \subseteq ToRun(x)' /\ ToRun(x)' \subseteq ToRun(x)
          BY <4>3, <4>4, <4>6
        <5> QED BY <5>1
      <4> QED BY <4>5, <4>6
    <3>6. \A x \in Tools : IsFiniteSet(ToRun(x)') /\ Cardinality(ToRun(x)') \in Nat
      <4> SUFFICES ASSUME NEW x \in Tools PROVE IsFiniteSet(ToRun(x)')
        BY FS_CardinalityType
      <4>1. IsFiniteSet(ToRun(x)) /\ IsFiniteSet(ToRun(x) \cup {p})
        BY <2>3, FS_AddElement
      <4> QED BY <3>5, <4>1
    <3>7. Prompts(d.tool)' => answer \in {"yes", "always"}
      <4>1. ASSUME Prompts(d.tool)' PROVE NeedsApproval(d.tool)
        BY <1>1, <2>0, <2>2, <4>1 DEF Prompts, NeedsApproval, Guarded
      <4>2. NeedsApproval(d.tool) => answer \in {"no", "yes", "always"}
        BY <1>6 DEF Prompted
      <4> QED BY <2>5, <4>1, <4>2 DEF Refusals
    <3>8. Cardinality(ToRun(d.tool)') <= Cardinality(ToRun(d.tool)) + 1
      <4>1. ToRun(d.tool)' = ToRun(d.tool) \cup {p}
        BY <2>0, <3>5
      <4>2. IsFiniteSet(ToRun(d.tool)) /\ Cardinality(ToRun(d.tool)) \in Nat
        BY <2>0, <2>3
      <4>3. Cardinality(ToRun(d.tool) \cup {p}) <= Cardinality(ToRun(d.tool)) + 1
        BY <4>2, AtMostOneMore
      <4> QED BY <4>1, <4>3
    <3>9. ASSUME NEW x \in Tools, Prompts(x)' PROVE credit'[x] >= Cardinality(ToRun(x)')
      <4>1. Prompts(x) /\ x \in Guarded /\ credit[x] \in Int /\ credit'[x] \in Int /\ credit[x] >= Cardinality(ToRun(x))
        BY <2>1, <2>2, <2>3, <3>9
      <4>2. CASE x = d.tool
        <5>1. credit'[x] = credit[x] + 1
          BY <2>1, <3>7, <3>9, <4>1, <4>2
        <5>2. Cardinality(ToRun(x)') <= Cardinality(ToRun(x)) + 1
          BY <3>8, <4>2
        <5> QED BY <2>3, <3>6, <4>1, <5>1, <5>2
      <4>3. CASE x # d.tool
        BY <2>1, <2>3, <3>5, <4>1, <4>3
      <4> QED BY <4>2, <4>3
    <3> QED BY <3>4, <3>6, <3>9 DEF ApprovalInv, Covered
  <2> QED BY <1>6, <2>4, <2>5
<1>7. {call} \cup setting.rewrites \subseteq Valid
  BY <1>1, <1>2, SettingFacts DEF LoopTypes
<1>8. CASE setting.hooks /\ Decided(t, call, "cancelled by hook") /\ UNCHANGED <<allowlist, credit>>
  BY <1>5, <1>8
<1>9. ASSUME NEW d \in {call} \cup setting.rewrites, NEW answer \in Prompted(d.tool),
             allowlist' = IF answer = "always" THEN allowlist \cup {d.tool} ELSE allowlist,
             Earned(d.tool, IF answer \in {"yes", "always"} THEN 1 ELSE 0),
             \/ Decided(t, d, "denied") \/ Decided(t, d, "duplicate")
             \/ answer \notin Refusals /\ Queued(t, d)
      PROVE  ApprovalInv'
  <2>1. d \in Valid
    BY <1>7
  <2> QED BY <1>6, <1>9, <2>1
<1> HIDE DEF call
<1> QED BY <1>8, <1>9 DEF Decide, call

\* A run takes from the credit what it takes from the queue.
LEMMA RunKeepsInv ==
  ASSUME ApprovalInv, NEW t \in Turns, NEW j \in DOMAIN turn[t].queue, Run(t, j)
  PROVE  ApprovalInv'
<1> DEFINE r == turn[t]
<1>1. LoopTypes /\ LocalsOK(r) /\ UNCHANGED <<setting, allowlist>>
  BY DEF ApprovalInv, LoopTypes, Run
<1>2. j \in 1 .. Len(r.outcomes) /\ j \in Nat /\ r.outcomes \in Seq(Results)
  BY <1>1 DEF LocalsOK, IsLocals
<1>0. PICK e \in Results : e = r.outcomes[j]
  BY <1>2
<1>3. PICK c \in Valid : c = e.made
  BY DEF Results
<1>4. c = r.outcomes[j].made /\ c.tool \in Tools
  BY <1>0, <1>3 DEF Valid, Calls
<1>5. r.outcomes[j].what = "pending"
  BY DEF Run, Pending
<1>6. PICK what \in setting.outputs : Locals(t, [r EXCEPT !.outcomes[j].what = what])
  BY DEF Run
<1>7. Earned(c.tool, -1)
  BY <1>4 DEF Run
<1>8. what \in Marks /\ what # "pending"
  BY <1>1, <1>6, SettingFacts DEF LoopTypes
<1> DEFINE outcomes == [r.outcomes EXCEPT ![j] = [e EXCEPT !.what = what]]
           new == [r EXCEPT !.outcomes = outcomes]
<1>9. turn' = [turn EXCEPT ![t] = new]
  BY <1>0, <1>6 DEF Locals
<1>10. /\ outcomes \in Seq(Results) /\ Len(outcomes) = Len(r.outcomes)
       /\ outcomes[j].made = c /\ outcomes[j].call = e.call /\ outcomes[j].what # "pending"
       /\ \A k \in 1 .. Len(r.outcomes) : k # j => outcomes[k] = r.outcomes[k]
  <2>1. PICK f : f = [e EXCEPT !.what = what]
    OBVIOUS
  <2>2. f \in Results /\ f.made = e.made /\ f.call = e.call /\ f.what = what
    BY <1>8, <2>1 DEF Results
  <2>3. outcomes = [r.outcomes EXCEPT ![j] = f]
    BY <2>1
  <2> HIDE DEF outcomes
  <2> QED BY <1>2, <1>3, <1>8, <2>2, <2>3
<1> HIDE DEF outcomes
<1>11. LocalsOK(new) /\ new.outcomes = outcomes
  BY <1>0, <1>1, <1>2, <1>10 DEF LocalsOK, IsLocals
<1> HIDE DEF new
<1>12. /\ credit' \in [Guarded -> Int] /\ credit \in [Guarded -> Int]
       /\ \A x \in Guarded : credit'[x] = IF x = c.tool THEN credit[x] - 1 ELSE credit[x]
  BY <1>1, <1>7 DEF LoopTypes, Earned
<1>13. LoopTypes'
  BY <1>1, <1>9, <1>11, <1>12 DEF LoopTypes
<1>14. \A x \in Tools : /\ IsFiniteSet(ToRun(x)) /\ Cardinality(ToRun(x)) \in Nat
                        /\ Prompts(x)' => x \in Guarded /\ credit[x] >= Cardinality(ToRun(x))
  BY <1>1, FS_CardinalityType DEF ApprovalInv, Covered, Prompts
<1>15. PICK p : p = <<t, j>>
  OBVIOUS
<1>16. \A x \in Tools : ToRun(x)' = IF x = c.tool THEN ToRun(x) \ {p} ELSE ToRun(x)
  <2>1. turn'[t] = new /\ \A u \in Turns \ {t} : turn'[u] = turn[u]
    BY <1>1, <1>9 DEF LoopTypes
  <2>2. ASSUME NEW x \in Tools, NEW u \in Turns, NEW k \in Nat
        PROVE  <<u, k>> \in ToRun(x)' <=> <<u, k>> \in ToRun(x) /\ ~(x = c.tool /\ u = t /\ k = j)
    <3>1. CASE u # t
      BY <2>1, <3>1 DEF ToRun
    <3>2. CASE u = t /\ k = j
      BY <1>4, <1>10, <1>11, <2>1, <3>2 DEF ToRun
    <3>3. CASE u = t /\ k # j
      BY <1>10, <1>11, <2>1, <3>3 DEF ToRun
    <3> QED BY <3>1, <3>2, <3>3
  <2>3. \A x \in Tools : ToRun(x) \subseteq Turns \X Nat /\ ToRun(x)' \subseteq Turns \X Nat
    BY DEF ToRun
  <2>4. ASSUME NEW x \in Tools, x = c.tool PROVE ToRun(x)' = ToRun(x) \ {p}
    BY <1>2, <1>15, <2>2, <2>3, <2>4
  <2>5. ASSUME NEW x \in Tools, x # c.tool PROVE ToRun(x)' = ToRun(x)
    <3>1. ToRun(x) \subseteq ToRun(x)' /\ ToRun(x)' \subseteq ToRun(x)
      BY <2>2, <2>3, <2>5
    <3> QED BY <3>1
  <2> QED BY <2>4, <2>5
<1>17. p \in ToRun(c.tool)
  BY <1>2, <1>4, <1>5, <1>15 DEF ToRun
<1>18. ASSUME NEW x \in Tools
       PROVE  /\ IsFiniteSet(ToRun(x)')
              /\ Prompts(x)' => credit'[x] >= Cardinality(ToRun(x)')
  <2>1. CASE x = c.tool
    <3>1. ToRun(x)' = ToRun(x) \ {p} /\ p \in ToRun(x)
      BY <1>16, <1>17, <2>1
    <3>2. IsFiniteSet(ToRun(x) \ {p}) /\ Cardinality(ToRun(x) \ {p}) = Cardinality(ToRun(x)) - 1
      BY <1>14, <3>1, FS_RemoveElement
    <3> QED BY <1>12, <1>14, <2>1, <3>1, <3>2
  <2>2. CASE x # c.tool
    BY <1>12, <1>14, <1>16, <2>2
  <2> QED BY <2>1, <2>2
<1> QED BY <1>13, <1>18 DEF ApprovalInv, Covered

-----------------------------------------------------------------------------
(* The other steps of a turn.                                              *)

\* Nothing to be run.
LEMMA EmptyOK ==
  ASSUME NEW r, IsLocals(r), r.calls \in Seq(Valid), r.results \in Seq(Results),
         r.queue = <<>>, r.outcomes = <<>>
  PROVE  LocalsOK(r) /\ r.outcomes = <<>>
<1>1. <<>> \in Seq(Results) /\ <<>> \in Seq(Nat) /\ Len(<<>>) = 0 /\ 1 .. 0 = {}
  OBVIOUS
<1> QED BY <1>1 DEF LocalsOK

\* The locals after an answer of the model,
LEMMA AnsweredOK ==
  ASSUME NEW r, LocalsOK(r), NEW reply \in Seq(Valid), NEW parallel
  PROVE  LET new == [r EXCEPT !.calls = reply, !.parallel = parallel, !.results = <<>>, !.queue = <<>>,
                              !.outcomes = <<>>]
         IN  LocalsOK(new) /\ new.outcomes = <<>>
<1> DEFINE new == [r EXCEPT !.calls = reply, !.parallel = parallel, !.results = <<>>, !.queue = <<>>, !.outcomes = <<>>]
<1>1. IsLocals(new) /\ new.calls = reply /\ new.results = <<>> /\ new.queue = <<>> /\ new.outcomes = <<>>
  BY DEF LocalsOK, IsLocals
<1> HIDE DEF new
<1>2. <<>> \in Seq(Results)
  OBVIOUS
<1>3. LocalsOK(new) /\ new.outcomes = <<>>
  BY <1>1, <1>2, EmptyOK
<1> QED BY <1>3 DEF new

\* and after the run of the loop.
LEMMA GoneOK ==
  ASSUME NEW log, NEW gate, NEW why, NEW tried
  PROVE  LET Empty(new) == LocalsOK(new) /\ new.outcomes = <<>>
         IN  /\ Empty(Gone) /\ Empty([Gone EXCEPT !.log = log]) /\ Empty([Gone EXCEPT !.log = log, !.gate = gate])
             /\ Empty([Gone EXCEPT !.why = why, !.tried = tried])
<1>1. LocalsOK(Gone) /\ Gone.outcomes = <<>>
  BY FreshOK DEF Gone
<1>2. LocalsOK([Gone EXCEPT !.log = log]) /\ [Gone EXCEPT !.log = log].outcomes = <<>>
  BY <1>1 DEF LocalsOK, IsLocals
<1>3. /\ LocalsOK([Gone EXCEPT !.why = why, !.tried = tried])
      /\ [Gone EXCEPT !.why = why, !.tried = tried].outcomes = <<>>
  BY <1>1 DEF LocalsOK, IsLocals
<1>4. LocalsOK([Gone EXCEPT !.log = log, !.gate = gate]) /\ [Gone EXCEPT !.log = log, !.gate = gate].outcomes = <<>>
  BY <1>1 DEF LocalsOK, IsLocals
<1> QED BY <1>1, <1>2, <1>3, <1>4

\* An attempt of the provider.
LEMMA AttemptKeepsInv ==
  ASSUME ApprovalInv, NEW t \in Turns, NEW error, Attempt(t, error)
  PROVE  ApprovalInv'
<1>1. LocalsOK(turn[t]) /\ UNCHANGED <<setting, credit, allowlist>>
  BY DEF ApprovalInv, LoopTypes, Attempt, shared
<1>2. ASSUME NEW why, NEW tried, CallFailed(t, why, tried)
      PROVE  ApprovalInv'
  <2>1. PICK recovered :
          \/ Locals(t, [turn[t] EXCEPT !.history = recovered, !.iteration = @ + 1])
          \/ Locals(t, [Gone EXCEPT !.why = why, !.tried = tried])
    BY <1>2 DEF CallFailed
  <2>2. CASE Locals(t, [turn[t] EXCEPT !.history = recovered, !.iteration = @ + 1])
    BY <1>1, <2>2, ChangedOK, LocalStep
  <2>3. CASE Locals(t, [Gone EXCEPT !.why = why, !.tried = tried])
    BY <1>1, <2>3, GoneOK, LocalStep
  <2> QED BY <2>1, <2>2, <2>3
<1>3. ASSUME NEW next, NEW tried, Locals(t, [turn[t] EXCEPT !.position = next, !.tried = tried])
      PROVE  ApprovalInv'
  BY <1>1, <1>3, ChangedOK, LocalStep
<1> QED BY <1>2, <1>3 DEF Attempt

\* An answer of the model.
LEMMA AnswerKeepsInv ==
  ASSUME ApprovalInv, NEW t \in Turns, NEW reply \in setting.replies, NEW cost, Answer(t, reply, cost)
  PROVE  ApprovalInv'
<1>1. LocalsOK(turn[t]) /\ UNCHANGED <<setting, credit, allowlist>> /\ reply \in Seq(Valid)
  BY SettingFacts DEF ApprovalInv, LoopTypes, Answer, shared
<1>2. CASE Locals(t, Gone)
  BY <1>1, <1>2, GoneOK, LocalStep
<1>3. CASE Locals(t, [turn[t] EXCEPT !.calls = reply, !.parallel = InParallel(reply),
                                     !.results = <<>>, !.queue = <<>>, !.outcomes = <<>>])
  BY <1>1, <1>3, AnsweredOK, LocalStep
<1> QED BY <1>2, <1>3 DEF Answer

\* The results are collected.
LEMMA CollectKeepsInv ==
  ASSUME ApprovalInv, NEW t \in Turns, Collect(t)
  PROVE  ApprovalInv'
<1>1. LocalsOK(turn[t]) /\ UNCHANGED <<setting, credit, allowlist>>
  BY DEF ApprovalInv, LoopTypes, Collect, shared
<1>2. PICK windows, log, gate, nudges :
        \/ Locals(t, [Gone EXCEPT !.log = log])
        \/ Locals(t, [Gone EXCEPT !.log = log, !.gate = gate])
        \/ Locals(t, [turn[t] EXCEPT
             !.iteration = @ + 1, !.log = log, !.gate = gate,
             !.window = IF windows = <<>> THEN @ ELSE windows[Len(windows)],
             !.history = @ \o nudges \o <<[role |-> "assistant", calls |-> turn[t].calls]>> \o ToolMessages(t),
             !.calls = <<>>, !.results = <<>>, !.queue = <<>>, !.outcomes = <<>>])
  BY DEF Collect, Concluded
<1>3. PICK iteration, window, history :
        /\ iteration = turn[t].iteration + 1
        /\ window = IF windows = <<>> THEN turn[t].window ELSE windows[Len(windows)]
        /\ history = turn[t].history \o nudges \o <<[role |-> "assistant", calls |-> turn[t].calls]>> \o ToolMessages(t)
  OBVIOUS
<1>4. CASE Locals(t, [Gone EXCEPT !.log = log])
  BY <1>1, <1>4, GoneOK, LocalStep
<1>5. CASE Locals(t, [Gone EXCEPT !.log = log, !.gate = gate])
  BY <1>1, <1>5, GoneOK, LocalStep
<1>6. CASE Locals(t, [turn[t] EXCEPT !.iteration = iteration, !.log = log, !.gate = gate, !.window = window,
                                     !.history = history, !.calls = <<>>, !.results = <<>>, !.queue = <<>>,
                                     !.outcomes = <<>>])
  <2>0. PICK new : new = [turn[t] EXCEPT !.iteration = iteration, !.log = log, !.gate = gate, !.window = window,
                                         !.history = history, !.calls = <<>>, !.results = <<>>, !.queue = <<>>,
                                         !.outcomes = <<>>]
    OBVIOUS
  <2>1. LocalsOK(new) /\ new.outcomes = <<>>
    <3>1. IsLocals(new) /\ new.calls = <<>> /\ new.results = <<>> /\ new.queue = <<>> /\ new.outcomes = <<>>
      BY <1>1, <2>0 DEF LocalsOK, IsLocals
    <3>2. <<>> \in Seq(Results) /\ <<>> \in Seq(Valid)
      OBVIOUS
    <3> QED BY <3>1, <3>2, EmptyOK
  <2>2. Locals(t, new)
    BY <1>6, <2>0
  <2> QED BY <1>1, <2>1, <2>2, LocalStep
<1> QED BY <1>2, <1>3, <1>4, <1>5, <1>6

-----------------------------------------------------------------------------

\* The invariant of the approvals holds at the start,
LEMMA InvInit ==
  ASSUME Init
  PROVE  ApprovalInv
<1>1. turn = [t \in Turns |-> Fresh(<<>>, setting.home)] /\ setting \in Settings
  BY DEF Init
<1>2. \A t \in Turns : LocalsOK(turn[t]) /\ turn[t].outcomes = <<>>
  BY <1>1, FreshOK
<1>3. credit = [x \in Guarded |-> 0]
  BY DEF Init
<1>4. \A x \in Tools : ToRun(x) = {}
  BY <1>2 DEF ToRun
<1>5. LoopTypes
  BY <1>1, <1>2, <1>3 DEF LoopTypes
<1>6. Covered
  BY <1>3, <1>4, FS_EmptySet DEF Covered, Prompts
<1> QED BY <1>5, <1>6 DEF ApprovalInv

\* every step keeps it,
LEMMA InvStep ==
  ASSUME ApprovalInv, [Next]_vars
  PROVE  ApprovalInv'
<1>1. ASSUME NEW t \in Turns, Begin(t) PROVE ApprovalInv'
  BY <1>1, FreshOK, LocalStep DEF Begin, shared
<1>2. ASSUME NEW t \in Turns, TopOfLoop(t) PROVE ApprovalInv'
  <2>1. LocalsOK(turn[t]) /\ UNCHANGED <<setting, credit, allowlist>>
    BY <1>2 DEF ApprovalInv, LoopTypes, TopOfLoop, shared
  <2>2. CASE Locals(t, Gone)
    BY <2>1, <2>2, GoneOK, LocalStep
  <2>3. CASE Locals(t, [turn[t] EXCEPT !.target = request])
    BY <2>1, <2>3, ChangedOK, LocalStep
  <2>4. CASE UNCHANGED turn
    BY <2>1, <2>4, NoStep
  <2> QED BY <1>2, <2>2, <2>3, <2>4 DEF TopOfLoop
<1>3. ASSUME NEW t \in Turns, SwitchModel(t) PROVE ApprovalInv'
  BY <1>3, FreshOK, LocalStep DEF SwitchModel
<1>4. ASSUME NEW t \in Turns,
             SwitchFails(t) \/ Summary(t) \/ Interrupted(t) \/ StepTimesOut(t) \/ TimesOut(t)
      PROVE  ApprovalInv'
  <2>1. Locals(t, Gone) /\ UNCHANGED <<setting, credit, allowlist>>
    BY <1>4 DEF SwitchFails, Summary, Interrupted, StepTimesOut, TimesOut, shared
  <2> QED BY <2>1, GoneOK, LocalStep
<1>5. ASSUME NEW t \in Turns, CheckBudget(t) PROVE ApprovalInv'
  <2>1. LocalsOK(turn[t]) /\ UNCHANGED <<setting, credit, allowlist>>
    BY <1>5 DEF ApprovalInv, LoopTypes, CheckBudget, shared
  <2>2. CASE Locals(t, Gone)
    BY <2>1, <2>2, GoneOK, LocalStep
  <2>3. CASE Locals(t, [turn[t] EXCEPT !.position = First, !.tried = {}])
    BY <2>1, <2>3, ChangedOK, LocalStep
  <2> QED BY <1>5, <2>2, <2>3 DEF CheckBudget
<1>6. ASSUME NEW t \in Turns, AskForSummary(t) PROVE ApprovalInv'
  <2>1. LocalsOK(turn[t]) /\ UNCHANGED <<setting, credit, allowlist>>
    BY <1>6 DEF ApprovalInv, LoopTypes, AskForSummary, shared
  <2>2. PICK history : Locals(t, [turn[t] EXCEPT !.history = history])
    BY <1>6 DEF AskForSummary
  <2> QED BY <2>1, <2>2, ChangedOK, LocalStep
<1>7. ASSUME NEW t \in Turns, AllDecided(t) \/ Cancel(t) PROVE ApprovalInv'
  BY <1>7, NoStep DEF AllDecided, Cancel, shared
<1>8. CASE Day \/ UNCHANGED vars
  BY <1>8, NoStep DEF Day, vars, agentVars
<1> QED BY <1>1, <1>2, <1>3, <1>4, <1>5, <1>6, <1>7, <1>8, AttemptKeepsInv, AnswerKeepsInv, DecideKeepsInv,
           RunKeepsInv, CollectKeepsInv DEF Next, Step

\* and it says that runs are approved.
LEMMA InvApproves ==
  ASSUME ApprovalInv
  PROVE  ApprovedOnly
<1> SUFFICES ASSUME setting.supervised, NEW x \in Tools, Prompts(x) PROVE credit[x] >= 0
  BY DEF ApprovalInv, LoopTypes, ApprovedOnly, Prompts, Guarded
<1>1. credit[x] \in Int /\ Cardinality(ToRun(x)) \in Nat /\ credit[x] >= Cardinality(ToRun(x))
  BY FS_CardinalityType DEF ApprovalInv, LoopTypes, Covered, Prompts
<1> QED BY <1>1

\* Under supervision, a tool that is neither approved in advance nor guarded by itself is run
\* only after a prompt was answered with Yes, and one that always asks no more often than
\* that, whatever the operator answers and whatever is cancelled in between (ApprovedOnly).
THEOREM RunsAreApproved == Spec => []ApprovedOnly
<1>1. Init => ApprovalInv
  BY InvInit
<1>2. ApprovalInv /\ [Next]_vars => ApprovalInv'
  BY InvStep
<1>3. ApprovalInv => ApprovedOnly
  BY InvApproves
<1> QED BY <1>1, <1>2, <1>3, PTL DEF Spec

-----------------------------------------------------------------------------
(* The attempts of a request go through the chains in order.               *)

(* A position within the chains.                                           *)
InChains(p, c) ==
  p \in [model : 1 .. c.models, provider : 1 .. c.providers, attempt : 0 .. c.retries,
         truncated : BOOLEAN, listed : BOOLEAN]

\* The pair that is being tried.
Here(p) == <<p.model, p.provider>>

\* Before the first position nothing was tried.
LEMMA FirstInChains ==
  ASSUME NEW c \in Chains
  PROVE  InChains(First, c) /\ Before(First, c) = {}
<1>1. c.models \in Nat \ {0} /\ c.providers \in Nat \ {0} /\ c.retries \in Nat
  BY DEF Chains
<1>2. InChains(First, c)
  BY <1>1 DEF InChains, First
<1>3. Before(First, c) = {}
  BY <1>1 DEF Before, Pairs, First
<1> QED BY <1>2, <1>3

(* What comes after a position: the next pair if any, else all were tried.  *)
GoesOn(p, n, c) ==
  \/ InChains(n, c) /\ Before(n, c) \subseteq Before(p, c) \cup {Here(p)}
  \/ Exhausted(n, c) /\ Pairs(c) \subseteq Before(p, c) \cup {Here(p)}

\* The next provider, or the first one with the next model, follows the pair.
LEMMA NextPairGoesOn ==
  ASSUME NEW c \in Chains, NEW p, InChains(p, c)
  PROVE  GoesOn(p, NextPair(p, c), c)
<1>1. c.models \in Nat \ {0} /\ c.providers \in Nat \ {0} /\ c.retries \in Nat
  BY DEF Chains
<1>2. /\ p.model \in 1 .. c.models /\ p.provider \in 1 .. c.providers /\ p.attempt \in 0 .. c.retries
      /\ p.truncated \in BOOLEAN /\ p.listed \in BOOLEAN
  BY DEF InChains
<1>3. CASE p.provider < c.providers
  <2> DEFINE n == [p EXCEPT !.provider = @ + 1, !.attempt = 0]
  <2>1. NextPair(p, c) = n
    BY <1>3 DEF NextPair
  <2>2. n.model = p.model /\ n.provider = p.provider + 1 /\ InChains(n, c)
    <3>1. PICK v \in 1 .. c.providers : v = p.provider + 1
      BY <1>1, <1>2, <1>3
    <3>2. PICK z \in 0 .. c.retries : z = 0
      BY <1>1
    <3>3. PICK x : x = [p EXCEPT !.provider = v, !.attempt = z]
      OBVIOUS
    <3>4. x.model = p.model /\ x.provider = v /\ InChains(x, c)
      BY <3>1, <3>2, <3>3 DEF InChains
    <3>5. n = x
      BY <3>1, <3>2, <3>3
    <3> HIDE DEF n
    <3> QED BY <3>1, <3>4, <3>5
  <2> HIDE DEF n
  <2>3. Before(n, c) \subseteq Before(p, c) \cup {Here(p)}
    <3> SUFFICES ASSUME NEW q \in Before(n, c) PROVE q \in Before(p, c) \cup {Here(p)}
      OBVIOUS
    <3>1. q \in Pairs(c) /\ (q[1] < n.model \/ (q[1] = n.model /\ q[2] < n.provider))
      BY DEF Before
    <3>2. q = <<q[1], q[2]>> /\ q[1] \in Nat /\ q[2] \in Nat
      BY <1>1, <3>1 DEF Pairs
    <3>3. CASE q[1] = p.model /\ q[2] = p.provider
      BY <3>2, <3>3 DEF Here
    <3>4. CASE ~(q[1] = p.model /\ q[2] = p.provider)
      <4>1. q[1] < p.model \/ (q[1] = p.model /\ q[2] < p.provider)
        BY <1>2, <2>2, <3>1, <3>2, <3>4
      <4> QED BY <3>1, <4>1 DEF Before
    <3> QED BY <3>3, <3>4
  <2> QED BY <2>1, <2>2, <2>3 DEF GoesOn
<1>4. CASE ~(p.provider < c.providers)
  <2> DEFINE n == [p EXCEPT !.model = @ + 1, !.provider = 1, !.attempt = 0]
  <2>1. NextPair(p, c) = n
    BY <1>4 DEF NextPair
  <2>2. n.model = p.model + 1 /\ n.provider = 1 /\ (p.model < c.models => InChains(n, c))
    <3>1. PICK w : w = p.model + 1
      OBVIOUS
    <3>2. PICK v \in 1 .. c.providers, z \in 0 .. c.retries : v = 1 /\ z = 0
      BY <1>1
    <3>3. p.model < c.models => w \in 1 .. c.models
      BY <1>1, <1>2, <3>1
    <3>4. PICK x : x = [p EXCEPT !.model = w, !.provider = v, !.attempt = z]
      OBVIOUS
    <3>5. x.model = w /\ x.provider = v /\ (w \in 1 .. c.models => InChains(x, c))
      BY <3>2, <3>4 DEF InChains
    <3>6. n = x
      BY <3>1, <3>2, <3>4
    <3> HIDE DEF n
    <3> QED BY <3>1, <3>2, <3>3, <3>5, <3>6
  <2> HIDE DEF n
  <2>3. ASSUME NEW q \in Pairs(c), q[1] < n.model PROVE q \in Before(p, c) \cup {Here(p)}
    <3>1. q = <<q[1], q[2]>> /\ q[1] \in Nat /\ q[2] \in Nat /\ q[2] <= c.providers
      BY <1>1, <2>3 DEF Pairs
    <3>2. CASE q[1] = p.model /\ q[2] = p.provider
      BY <3>1, <3>2 DEF Here
    <3>3. CASE ~(q[1] = p.model /\ q[2] = p.provider)
      <4>1. q[1] < p.model \/ (q[1] = p.model /\ q[2] < p.provider)
        BY <1>1, <1>2, <1>4, <2>2, <2>3, <3>1, <3>3
      <4> QED BY <2>3, <4>1 DEF Before
    <3> QED BY <3>2, <3>3
  <2>4. CASE p.model < c.models
    <3>1. \A q \in Before(n, c) : q \in Pairs(c) /\ q[1] < n.model
      <4> SUFFICES ASSUME NEW q \in Before(n, c) PROVE q \in Pairs(c) /\ q[1] < n.model
        OBVIOUS
      <4>1. q \in Pairs(c) /\ (q[1] < n.model \/ (q[1] = n.model /\ q[2] < 1))
        BY <2>2 DEF Before
      <4>2. q[2] >= 1
        BY <1>1, <4>1 DEF Pairs
      <4>3. q[2] \in Nat
        BY <1>1, <4>1 DEF Pairs
      <4> QED BY <4>1, <4>2, <4>3
    <3> QED BY <2>1, <2>2, <2>3, <2>4, <3>1 DEF GoesOn
  <2>5. CASE ~(p.model < c.models)
    <3>1. n.model > c.models /\ \A q \in Pairs(c) : q[1] < n.model
      BY <1>1, <1>2, <2>2, <2>5 DEF Pairs
    <3> QED BY <2>1, <2>3, <3>1 DEF GoesOn, Exhausted
  <2> QED BY <2>4, <2>5
<1> QED BY <1>3, <1>4

(* The same pair, tried again or with what is known of the request.        *)
LEMMA SamePair ==
  ASSUME NEW c \in Chains, NEW p, InChains(p, c), NEW n, InChains(n, c),
         n.model = p.model, n.provider = p.provider
  PROVE  Before(n, c) = Before(p, c) /\ Here(n) = Here(p)
BY DEF Before, Here

\* So does the next attempt.
LEMMA NextAttemptGoesOn ==
  ASSUME NEW c \in Chains, NEW p, InChains(p, c)
  PROVE  GoesOn(p, NextAttempt(p, c), c)
<1>1. CASE p.attempt < c.retries
  <2> DEFINE n == [p EXCEPT !.attempt = @ + 1]
  <2>1. NextAttempt(p, c) = n
    BY <1>1 DEF NextAttempt
  <2>2. InChains(n, c) /\ n.model = p.model /\ n.provider = p.provider
    BY <1>1 DEF InChains, Chains
  <2> HIDE DEF n
  <2> QED BY <2>1, <2>2, SamePair DEF GoesOn
<1>2. CASE ~(p.attempt < c.retries)
  BY <1>2, NextPairGoesOn DEF NextAttempt
<1> QED BY <1>1, <1>2

\* After any error the request goes on in the order of the chains.
LEMMA AfterGoesOn ==
  ASSUME NEW c \in Chains, NEW p, InChains(p, c), NEW error
  PROVE  GoesOn(p, After(p, c, error), c)
<1>1. ASSUME NEW n, InChains(n, c), n.model = p.model, n.provider = p.provider
      PROVE  GoesOn(p, NextAttempt(n, c), c)
  BY <1>1, NextAttemptGoesOn, SamePair DEF GoesOn
<1>2. LET n == [p EXCEPT !.truncated = TRUE] IN InChains(n, c) /\ n.model = p.model /\ n.provider = p.provider
  BY DEF InChains
<1>3. LET n == [p EXCEPT !.listed = TRUE] IN InChains(n, c) /\ n.model = p.model /\ n.provider = p.provider
  BY DEF InChains
<1>4. GoesOn(p, NextAttempt([p EXCEPT !.truncated = TRUE], c), c)
  BY <1>1, <1>2
<1>5. GoesOn(p, NextAttempt([p EXCEPT !.listed = TRUE], c), c)
  BY <1>1, <1>3
<1> QED BY <1>4, <1>5, NextPairGoesOn, NextAttemptGoesOn DEF After

\* Whoever is passed was tried, and all were when the chains are exhausted.
LEMMA AttemptsGoOn ==
  ASSUME NEW c \in Chains, NEW p, InChains(p, c), NEW error
  PROVE  LET n == After(p, c, error) IN
         /\ Exhausted(n, c) => Pairs(c) \subseteq Before(p, c) \cup {Here(p)}
         /\ ~Exhausted(n, c) => InChains(n, c) /\ Before(n, c) \subseteq Before(p, c) \cup {Here(p)}
<1> DEFINE n == After(p, c, error)
<1>1. GoesOn(p, n, c)
  BY AfterGoesOn
<1> HIDE DEF n
<1>2. InChains(n, c) => ~Exhausted(n, c)
  BY DEF InChains, Exhausted, Chains
<1> QED BY <1>1, <1>2 DEF GoesOn, n

-----------------------------------------------------------------------------
(* Histories in which every request to run tools is followed by its reports. *)

(* The messages of a history: texts, requests to run tools, and reports.   *)
Said == {Message("system"), Message("user"), Message("assistant")}
\* An answer with tool calls.
Requested == [role : {"assistant"}, calls : Seq(Valid)]
\* What a report tells; it may have been cut short.
Told == [call : Valid, made : Valid, what : Marks \cup {"trimmed"}]
\* A report.
Reported == [role : {"tool"}, answers : Valid, result : Told]
\* All messages.
Messages == Said \cup Requested \cup Reported

(* A report on a call.                                                     *)
Reports(m, call) == m \in Reported /\ m.answers = call /\ m.result.call = call

\* Every request to run tools is followed by its reports.
Matched(h) ==
  /\ h \in Seq(Messages)
  /\ \A i \in 1 .. Len(h) : h[i] \in Requested =>
       \A k \in 1 .. Len(h[i].calls) : i + k \in 1 .. Len(h) /\ Reports(h[i + k], h[i].calls[k])

\* The kinds of messages exclude each other.
LEMMA KindFacts ==
  ASSUME NEW m
  PROVE  /\ m \in Said => m \notin Requested /\ m \notin Reported /\ "calls" \notin DOMAIN m
         /\ m \in Requested => m.role = "assistant" /\ m.calls \in Seq(Valid) /\ Len(m.calls) \in Nat
         /\ m \in Reported => m \notin Requested /\ m.role = "tool" /\ m.answers \in Valid /\ m.result \in Told
<1>1. m \in Said => DOMAIN m = {"role"} /\ m.role \in {"system", "user", "assistant"}
  BY DEF Said, Message
<1>2. m \in Requested => DOMAIN m = {"role", "calls"} /\ m.role = "assistant" /\ m.calls \in Seq(Valid)
  BY DEF Requested
<1>3. m \in Reported => m.role = "tool" /\ m.answers \in Valid /\ m.result \in Told
  BY DEF Reported
<1>4. "calls" # "role" /\ "assistant" # "tool" /\ "system" # "tool" /\ "user" # "tool"
  OBVIOUS
<1>5. m.calls \in Seq(Valid) => Len(m.calls) \in Nat
  OBVIOUS
<1> QED BY <1>1, <1>2, <1>3, <1>4, <1>5

\* Two such histories one after the other are one.
LEMMA MatchedTogether ==
  ASSUME NEW h, NEW new, Matched(h), Matched(new)
  PROVE  Matched(h \o new)
<1> DEFINE n == Len(h)
           all == h \o new
<1>1. h \in Seq(Messages) /\ new \in Seq(Messages) /\ n \in Nat /\ Len(new) \in Nat
  BY DEF Matched
<1>2. /\ all \in Seq(Messages) /\ Len(all) = n + Len(new)
      /\ \A i \in 1 .. n : all[i] = h[i]
      /\ \A i \in 1 .. Len(new) : all[n + i] = new[i]
  BY <1>1
<1> HIDE DEF all
<1> SUFFICES ASSUME NEW i \in 1 .. Len(all), all[i] \in Requested, NEW k \in 1 .. Len(all[i].calls)
             PROVE  i + k \in 1 .. Len(all) /\ Reports(all[i + k], all[i].calls[k])
  BY <1>2 DEF Matched, all
<1>3. k \in Nat /\ k >= 1
  BY KindFacts
<1>4. CASE i \in 1 .. n
  <2>1. all[i] = h[i]
    BY <1>2, <1>4
  <2>2. i + k \in 1 .. n /\ Reports(h[i + k], h[i].calls[k])
    BY <1>4, <2>1 DEF Matched
  <2>3. i + k \in 1 .. Len(all)
    BY <1>1, <1>2, <2>2
  <2> QED BY <1>2, <2>1, <2>2, <2>3
<1>5. CASE i \notin 1 .. n
  <2>1. i - n \in 1 .. Len(new) /\ n + (i - n) = i
    BY <1>1, <1>2, <1>5
  <2>2. all[i] = new[i - n]
    BY <1>2, <2>1
  <2>3. PICK j \in 1 .. Len(new) : n + j = i /\ all[i] = new[j]
    BY <2>1, <2>2
  <2>4. j + k \in 1 .. Len(new) /\ Reports(new[j + k], new[j].calls[k])
    BY <2>3 DEF Matched
  <2>5. n + (j + k) = i + k /\ i + k \in 1 .. Len(all)
    <3>1. n \in Nat /\ Len(new) \in Nat /\ j \in 1 .. Len(new) /\ n + j = i /\ Len(all) = n + Len(new)
      BY <1>1, <1>2, <2>3
    <3> HIDE DEF n
    <3> QED BY <1>3, <2>4, <3>1
  <2>6. all[i + k] = new[j + k]
    BY <1>2, <2>4, <2>5
  <2> QED BY <2>3, <2>4, <2>5, <2>6
<1> QED BY <1>4, <1>5

\* Texts ask for nothing.
LEMMA TextsMatch ==
  ASSUME NEW h \in Seq(Said)
  PROVE  Matched(h)
<1>1. \A i \in 1 .. Len(h) : h[i] \in Said
  OBVIOUS
<1>2. h \in Seq(Messages)
  BY DEF Messages
<1> QED BY <1>1, <1>2, KindFacts DEF Matched

\* An answer with its reports is such a history.
LEMMA AnswerMatches ==
  ASSUME NEW calls \in Seq(Valid), NEW reports \in Seq(Messages), Len(reports) = Len(calls),
         \A k \in 1 .. Len(calls) : Reports(reports[k], calls[k])
  PROVE  Matched(<<[role |-> "assistant", calls |-> calls]>> \o reports)
<1> DEFINE asked == [role |-> "assistant", calls |-> calls]
           all == <<asked>> \o reports
           n == Len(calls)
<1>1. asked \in Requested /\ asked.calls = calls /\ asked \in Messages /\ n \in Nat
  BY DEF Requested, Messages
<1> HIDE DEF asked
<1>2. /\ all \in Seq(Messages) /\ Len(all) = n + 1 /\ all[1] = asked
      /\ \A k \in 1 .. n : all[1 + k] = reports[k]
  BY <1>1
<1> HIDE DEF all
<1> SUFFICES ASSUME NEW i \in 1 .. Len(all), all[i] \in Requested, NEW k \in 1 .. Len(all[i].calls)
             PROVE  i + k \in 1 .. Len(all) /\ Reports(all[i + k], all[i].calls[k])
  BY <1>2 DEF Matched, all, asked
<1>3. i = 1
  <2> SUFFICES ASSUME i # 1 PROVE FALSE
    OBVIOUS
  <2>1. i - 1 \in 1 .. n /\ 1 + (i - 1) = i
    BY <1>1, <1>2
  <2>2. all[i] = reports[i - 1]
    BY <1>2, <2>1
  <2> QED BY <2>1, <2>2, KindFacts DEF Reports
<1>4. k \in 1 .. n /\ 1 + k \in 1 .. Len(all)
  BY <1>1, <1>2, <1>3
<1> QED BY <1>1, <1>2, <1>3, <1>4

\* Cutting results short keeps the reports.
LEMMA FastTrimMatches ==
  ASSUME NEW h, Matched(h)
  PROVE  Matched(FastTrimmed(h))
<1> DEFINE new == FastTrimmed(h)
           n == Len(h)
<1>1. h \in Seq(Messages) /\ n \in Nat /\ DOMAIN h = 1 .. n
  BY DEF Matched
<1>2. ASSUME NEW m \in Reported
      PROVE  LET cut == [m EXCEPT !.result.what = "trimmed"]
             IN  cut \in Reported /\ cut.answers = m.answers /\ cut.result.call = m.result.call
  <2>1. PICK r : r = m.result
    OBVIOUS
  <2>2. r \in Told
    BY <2>1 DEF Reported
  <2>3. [r EXCEPT !.what = "trimmed"] \in Told /\ [r EXCEPT !.what = "trimmed"].call = r.call
    BY <2>2 DEF Told
  <2>4. PICK q \in Told : q = [r EXCEPT !.what = "trimmed"] /\ q.call = r.call
    BY <2>3
  <2>5. /\ [m EXCEPT !.result = q] \in Reported /\ [m EXCEPT !.result = q].answers = m.answers
        /\ [m EXCEPT !.result = q].result = q
    BY DEF Reported
  <2>6. [m EXCEPT !.result.what = "trimmed"] = [m EXCEPT !.result = q]
    BY <2>1, <2>4
  <2> QED BY <2>1, <2>4, <2>5, <2>6
<1>3. ASSUME NEW i \in 1 .. n
      PROVE  /\ new[i] \in Messages
             /\ h[i] \notin Reported => new[i] = h[i]
             /\ h[i] \in Reported => new[i] \in Reported /\ new[i].answers = h[i].answers
                                     /\ new[i].result.call = h[i].result.call
  <2>1. new[i] = IF i <= Len(h) - 4 /\ h[i].role = "tool" /\ h[i].result.what = "long"
                 THEN [h[i] EXCEPT !.result.what = "trimmed"] ELSE h[i]
    BY <1>1 DEF FastTrimmed
  <2>2. PICK m \in Messages : m = h[i]
    BY <1>1
  <2>3. m \in Reported \/ m.role # "tool"
    BY KindFacts DEF Messages, Said, Message
  <2> HIDE DEF new
  <2>4. CASE m \in Reported
    <3>1. new[i] = m \/ new[i] = [m EXCEPT !.result.what = "trimmed"]
      BY <2>1, <2>2
    <3> QED BY <1>2, <2>2, <2>4, <3>1 DEF Messages
  <2>5. CASE m \notin Reported
    <3>1. new[i] = m
      BY <2>1, <2>2, <2>3, <2>5
    <3> QED BY <2>2, <2>5, <3>1
  <2> QED BY <2>4, <2>5
<1>4. new \in Seq(Messages) /\ Len(new) = n
  <2>1. new = [i \in 1 .. n |-> new[i]]
    BY <1>1 DEF FastTrimmed
  <2> HIDE DEF new
  <2> QED BY <1>1, <1>3, <2>1
<1> HIDE DEF new
<1> SUFFICES ASSUME NEW i \in 1 .. n, new[i] \in Requested, NEW k \in 1 .. Len(new[i].calls)
             PROVE  i + k \in 1 .. n /\ Reports(new[i + k], new[i].calls[k])
  BY <1>4 DEF Matched, new
<1>5. new[i] = h[i]
  BY <1>3, KindFacts
<1>6. i + k \in 1 .. n /\ Reports(h[i + k], h[i].calls[k])
  BY <1>5 DEF Matched
<1>7. i + k \in 1 .. n /\ Reports(new[i + k], h[i].calls[k])
  BY <1>3, <1>6 DEF Reports
<1> QED BY <1>5, <1>7

\* Dropping the oldest messages drops no report whose request stays: nothing but messages of
\* the system is kept before one that goes.
LEMMA EmergencyTrimMatches ==
  ASSUME NEW h, Matched(h)
  PROVE  Matched(EmergencyTrimmed(h))
<1> DEFINE n == Len(h)
           droppable == {i \in 1 .. n - 4 : h[i].role # "system"}
           oldest == {i \in droppable : Rank(droppable, i) <= n \div 3}
           K == 1 .. n \ oldest
           new == Chosen(h, K)
           c == Cardinality(K)
<1>1. h \in Seq(Messages) /\ n \in Nat /\ DOMAIN h = 1 .. n /\ Within(K, n) /\ Within(droppable, n)
  BY DEF Matched, Within
<1>2. EmergencyTrimmed(h) = new
  BY <1>1 DEF EmergencyTrimmed, Rank
<1>3. PICK nth \in [1 .. c -> K] :
           /\ \A k \in 1 .. c : Rank(K, nth[k]) = k
           /\ \A i \in K : Rank(K, i) \in 1 .. c /\ nth[Rank(K, i)] = i
           /\ \A i \in K : i + 1 \in K => Rank(K, i + 1) = Rank(K, i) + 1
           /\ \A s : Chosen(s, K) = [k \in 1 .. c |-> s[nth[k]]]
  <2> HIDE DEF K
  <2> QED BY <1>1, ChosenInOrder
<1>4. c \in Nat /\ \A i \in K : i \in 1 .. n
  BY <1>1, RankFacts
<1>5. ASSUME NEW i \in K, h[i] \in Requested, NEW j \in 1 .. n, j > i PROVE j \in K
  <2> SUFFICES ASSUME j \in oldest PROVE FALSE
    OBVIOUS
  <2>1. i \in droppable
    <3>1. h[i].role # "system" /\ i \in 1 .. n - 4
      BY <1>1, <1>5, KindFacts
    <3> QED BY <3>1
  <2>2. Rank(droppable, i) <= Rank(droppable, j) /\ Rank(droppable, i) \in Nat /\ Rank(droppable, j) \in Nat
    <3>1. i \in Nat /\ j \in Nat /\ i <= j
      BY <1>5
    <3> HIDE DEF droppable
    <3> QED BY <1>1, <3>1, RankFacts
  <2>3. Rank(droppable, j) <= n \div 3 /\ n \div 3 \in Nat
    BY <1>1
  <2>4. i \in oldest
    BY <2>1, <2>2, <2>3
  <2> QED BY <2>4
<1> HIDE DEF K, droppable, oldest, c
<1>6. /\ new \in Seq(Messages) /\ Len(new) = c /\ \A k \in 1 .. c : new[k] = h[nth[k]]
  <2>1. new = [k \in 1 .. c |-> h[nth[k]]]
    BY <1>3
  <2>2. \A k \in 1 .. c : h[nth[k]] \in Messages
    BY <1>1, <1>3, <1>4
  <2> HIDE DEF new
  <2> QED BY <1>4, <2>1, <2>2
<1> HIDE DEF new
<1> SUFFICES ASSUME NEW a \in 1 .. c, new[a] \in Requested, NEW k \in 1 .. Len(new[a].calls)
             PROVE  a + k \in 1 .. c /\ Reports(new[a + k], new[a].calls[k])
  BY <1>2, <1>6 DEF Matched
<1>7. PICK i \in K : i = nth[a] /\ new[a] = h[i] /\ Rank(K, i) = a
  BY <1>3, <1>6
<1>8. \A j \in 1 .. Len(h[i].calls) : i + j \in 1 .. n /\ Reports(h[i + j], h[i].calls[j])
  BY <1>4, <1>7 DEF Matched
<1>9. Len(h[i].calls) \in Nat /\ i \in Nat
  BY <1>4, <1>7, KindFacts
<1>10. \A j \in 1 .. Len(h[i].calls) : i + j \in K
  BY <1>5, <1>7, <1>8, <1>9
<1> DEFINE P == {j \in Nat : j <= Len(h[i].calls) => Rank(K, i + j) = a + j}
<1>11. 0 \in P
  BY <1>7, <1>9
<1>12. ASSUME NEW j \in Nat, j \in P PROVE j + 1 \in P
  <2> SUFFICES ASSUME j + 1 <= Len(h[i].calls) PROVE Rank(K, i + (j + 1)) = a + (j + 1)
    OBVIOUS
  <2>1. Rank(K, i + j) = a + j
    BY <1>9, <1>12
  <2>2. i + j \in K /\ (i + j) + 1 \in K /\ i + (j + 1) = (i + j) + 1
    <3>1. j + 1 \in 1 .. Len(h[i].calls) /\ (j = 0 \/ j \in 1 .. Len(h[i].calls)) /\ i + (j + 1) = (i + j) + 1 /\ i + 0 = i
      BY <1>9
    <3> QED BY <1>7, <1>10, <3>1
  <2>3. Rank(K, (i + j) + 1) = Rank(K, i + j) + 1
    BY <1>3, <2>2
  <2> QED BY <2>1, <2>2, <2>3
<1> HIDE DEF P
<1>13. Nat \subseteq P
  BY <1>11, <1>12, SetInduction
<1>14. i + k \in K /\ Rank(K, i + k) = a + k
  <2>1. k \in 1 .. Len(h[i].calls) /\ k \in Nat
    BY <1>7, <1>9
  <2> QED BY <1>9, <1>10, <1>13, <2>1 DEF P
<1>15. a + k \in 1 .. c /\ new[a + k] = h[i + k]
  BY <1>3, <1>6, <1>14
<1> QED BY <1>7, <1>8, <1>15

\* Both ways to recover from an overflow keep requests and reports together.
LEMMA RecoveredMatches ==
  ASSUME NEW h, Matched(h)
  PROVE  Matched(Recovered(h))
BY FastTrimMatches, EmergencyTrimMatches DEF Recovered

-----------------------------------------------------------------------------
(* The locals of a turn, and the forms the actions give them.              *)

(* The iterations are counted, and one begins only before the last.        *)
Counted(s, r, p) ==
  /\ r.iteration \in 0 .. s.limits.iterations
  /\ p \in {"switching", "spending", "calling", "deciding", "running"} => r.iteration # s.limits.iterations

(* Models have names.                                                      *)
Named(r, p) ==
  /\ r.model \in Models /\ r.target \in Models \cup {None}
  /\ p = "switching" => r.target # None

(* What was tried.                                                         *)
Tried(s, r, p) ==
  /\ InChains(r.position, s.chains) /\ r.tried \subseteq Pairs(s.chains)
  /\ p = "calling" => Before(r.position, s.chains) \subseteq r.tried
  /\ p \notin Ended => r.why # "exhausted"
  /\ r.why = "exhausted" => r.tried = Pairs(s.chains)

(* What was asked for and what became of it.                               *)
Replied(r, p) ==
  /\ Matched(r.history)
  /\ Len(r.results) <= Len(r.calls)
  /\ \A i \in 1 .. Len(r.results) : r.results[i].call = r.calls[i]
  /\ p = "running" => Len(r.results) = Len(r.calls)

(* Places at which a run of the loop was broken off.                       *)
Halted == {"stuck", "runaway"}

(* What the loop detector has seen.                                        *)
Watched(s, r, p) ==
  /\ r.log \in Seq(Entry)
  /\ IF s.limits.detects /\ p \notin Halted THEN IsEnd(r.window, r.log, Kept(s.limits.window)) ELSE r.window = <<>>
  /\ p = "stuck" => s.limits.detects
  /\ s.limits.detects /\ IsWide(s.limits.window, s.limits.repeats) =>
       (p = "stuck" <=> Broken(r.log, s.limits.repeats))

\* Some four outputs in a row are the same.
Repeated(said) == \E n \in DOMAIN said : n > MaxAlike /\ \A i \in n - MaxAlike .. n : said[i] = said[n]

\* The outputs at the end that the gate counts as alike are just those.
GateOK(g) ==
  LET n == Len(g.said) IN
  /\ g \in [open : BOOLEAN, last : Seq(Marks), alike : Nat, said : Seq(Seq(Marks) \ {<<>>})]
  /\ n = 0 => g.last = <<>> /\ g.alike = 0
  /\ n > 0 => /\ g.alike < n /\ \A i \in n - g.alike .. n : g.said[i] = g.last
              /\ g.alike + 1 < n => g.said[n - g.alike - 1] # g.last

(* What the gate has heard.                                                *)
Listened(r, p) ==
  IF p = "runaway" THEN Repeated(r.gate.said)
  ELSE GateOK(r.gate) /\ r.gate.alike < MaxAlike /\ ~Repeated(r.gate.said)

\* The invariant of one turn, with its locals r at the place p.
TurnOK(s, r, p) ==
  Counted(s, r, p) /\ Named(r, p) /\ Tried(s, r, p) /\ Replied(r, p) /\ Watched(s, r, p) /\ Listened(r, p)

\* What AgentConstants says of a deployment.
LEMMA SettingTypes ==
  ASSUME NEW s \in Settings
  PROVE  /\ s.limits.iterations \in Nat \ {0} /\ s.limits.repeats \in Nat /\ s.limits.window \in Nat
         /\ s.limits.detects \in BOOLEAN /\ s.limits.gated \in BOOLEAN
         /\ s.chains \in Chains /\ s.home \in Models /\ s.history \in Seq(Said)
<1>1. s.limits \in Limits /\ s.chains \in Chains /\ s.home \in Models /\ s.history \in Seq(Said)
  BY AgentConstants DEF Said
<1>2. /\ s.limits.iterations \in Nat \ {0} /\ s.limits.repeats \in Nat /\ s.limits.window \in Nat
      /\ s.limits.detects \in BOOLEAN /\ s.limits.gated \in BOOLEAN
  BY <1>1 DEF Limits
<1> QED BY <1>1, <1>2

\* Before the first output.
LEMMA NothingHeard == GateOK(Closed) /\ Closed.alike < MaxAlike /\ ~Repeated(Closed.said)
<1>1. Closed.said = <<>> /\ Closed.last = <<>> /\ Closed.alike = 0 /\ Closed.open = FALSE
  BY DEF Closed
<1>2. <<>> \in Seq(Marks) /\ <<>> \in Seq(Seq(Marks) \ {<<>>}) /\ Len(<<>>) = 0 /\ DOMAIN <<>> = {}
  OBVIOUS
<1>3. Closed \in [open : BOOLEAN, last : Seq(Marks), alike : Nat, said : Seq(Seq(Marks) \ {<<>>})]
  BY <1>2 DEF Closed
<1> QED BY <1>1, <1>2, <1>3 DEF GateOK, Repeated, MaxAlike

\* One more output is one too many exactly if it is the fourth in a row.
LEMMA OneMoreHeard ==
  ASSUME NEW g, GateOK(g), g.alike < MaxAlike, ~Repeated(g.said), NEW open \in BOOLEAN, NEW output \in Seq(Marks)
  PROVE  LET new == Heard(g, open, output)
         IN  GateOK(new) /\ (new.alike >= MaxAlike <=> Repeated(new.said))
<1> DEFINE n == Len(g.said)
           a == g.alike
<1>1. /\ g.open \in BOOLEAN /\ g.last \in Seq(Marks) /\ a \in Nat /\ g.said \in Seq(Seq(Marks) \ {<<>>})
      /\ n \in Nat /\ DOMAIN g.said = 1 .. n /\ a < 3
      /\ g \in [open : BOOLEAN, last : Seq(Marks), alike : Nat, said : Seq(Seq(Marks) \ {<<>>})]
  BY DEF GateOK, MaxAlike
<1>2. /\ n = 0 => g.last = <<>> /\ a = 0
      /\ n > 0 => /\ a < n /\ \A i \in n - a .. n : g.said[i] = g.last
                  /\ a + 1 < n => g.said[n - a - 1] # g.last
  BY DEF GateOK
<1>3. CASE ~open \/ output = <<>>
  <2>1. PICK new : new = Heard(g, open, output)
    OBVIOUS
  <2>2. /\ new \in [open : BOOLEAN, last : Seq(Marks), alike : Nat, said : Seq(Seq(Marks) \ {<<>>})]
        /\ new.last = g.last /\ new.alike = g.alike /\ new.said = g.said
    BY <1>1, <1>3, <2>1 DEF Heard
  <2>3. GateOK(new)
    BY <1>2, <2>2 DEF GateOK
  <2>4. ~(new.alike >= MaxAlike) /\ ~Repeated(new.said)
    BY <1>1, <2>2 DEF MaxAlike
  <2> QED BY <2>1, <2>3, <2>4
<1>4. CASE open /\ output # <<>>
  <2>1. PICK said : said = Append(g.said, output)
    OBVIOUS
  <2>2. /\ said \in Seq(Seq(Marks) \ {<<>>}) /\ Len(said) = n + 1 /\ DOMAIN said = 1 .. n + 1
        /\ said[n + 1] = output /\ \A i \in 1 .. n : said[i] = g.said[i]
    BY <1>1, <1>4, <2>1
  <2>3. PICK alike \in Nat : alike = IF output = g.last THEN a + 1 ELSE 0
    BY <1>1
  <2>4. PICK new : new = Heard(g, open, output)
    OBVIOUS
  <2>5. new = [open |-> open, last |-> output, said |-> said, alike |-> alike]
    BY <1>4, <2>1, <2>3, <2>4 DEF Heard
  <2> HIDE DEF n, a
  <2>6. GateOK(new)
    <3>1. new \in [open : BOOLEAN, last : Seq(Marks), alike : Nat, said : Seq(Seq(Marks) \ {<<>>})]
      BY <2>2, <2>5
    <3>2. alike < n + 1
      BY <1>1, <1>2, <1>4, <2>3
    <3>3. ASSUME NEW i \in n + 1 - alike .. n + 1 PROVE said[i] = output
      <4>1. CASE i = n + 1
        BY <2>2, <4>1
      <4>2. CASE i # n + 1
        <5>1. i \in n + 1 - alike .. n /\ alike # 0
          BY <1>1, <2>3, <3>3, <4>2
        <5>2. output = g.last /\ alike = a + 1
          BY <2>3, <5>1
        <5>3. n # 0 /\ i \in n - a .. n /\ i \in 1 .. n
          BY <1>1, <1>2, <1>4, <5>1, <5>2
        <5>4. said[i] = g.said[i] /\ g.said[i] = g.last
          BY <1>1, <1>2, <2>2, <5>3
        <5> QED BY <5>2, <5>4
      <4> QED BY <4>1, <4>2
    <3>4. ASSUME alike + 1 < n + 1 PROVE said[n + 1 - alike - 1] # output
      <4>1. CASE output = g.last
        <5>1. n > 0 /\ a + 1 < n /\ n - a - 1 \in 1 .. n /\ n + 1 - alike - 1 = n - a - 1
          BY <1>1, <2>3, <3>4, <4>1
        <5> QED BY <1>2, <2>2, <4>1, <5>1
      <4>2. CASE output # g.last
        <5>1. n > 0 /\ n \in n - a .. n /\ n \in 1 .. n /\ n + 1 - alike - 1 = n
          BY <1>1, <2>3, <3>4, <4>2
        <5> QED BY <1>2, <2>2, <4>2, <5>1
      <4> QED BY <4>1, <4>2
    <3>5. new.said = said /\ new.last = output /\ new.alike = alike
      BY <2>5
    <3>6. PICK m \in Nat : m = n + 1 /\ m > 0 /\ Len(new.said) = m
      BY <1>1, <2>2, <3>5
    <3>7. new.alike < m /\ \A i \in m - new.alike .. m : new.said[i] = new.last
      <4>1. \A i \in n + 1 - alike .. n + 1 : said[i] = output
        BY <3>3
      <4>2. m - new.alike = n + 1 - alike
        BY <1>1, <2>3, <3>5, <3>6
      <4> QED BY <3>2, <3>5, <3>6, <4>1, <4>2
    <3>8. ASSUME new.alike + 1 < m PROVE new.said[m - new.alike - 1] # new.last
      <4>1. alike + 1 < n + 1 /\ m - new.alike - 1 = n + 1 - alike - 1
        BY <1>1, <2>3, <3>5, <3>6, <3>8
      <4> QED BY <3>4, <3>5, <4>1
    <3> QED BY <3>1, <3>6, <3>7, <3>8 DEF GateOK
  <2>7. ASSUME Repeated(said) PROVE n + 1 > 3 /\ \A i \in n + 1 - 3 .. n + 1 : said[i] = output
    <3>1. PICK m \in 1 .. n + 1 : m > 3 /\ \A i \in m - 3 .. m : said[i] = said[m]
      BY <2>2, <2>7 DEF Repeated, MaxAlike
    <3>2. CASE m # n + 1
      <4>1. m \in 1 .. n /\ \A i \in m - 3 .. m : i \in 1 .. n
        BY <1>1, <3>1, <3>2
      <4>2. \A i \in m - 3 .. m : g.said[i] = g.said[m]
        BY <2>2, <3>1, <4>1
      <4>3. Repeated(g.said)
        BY <1>1, <3>1, <4>1, <4>2 DEF Repeated, MaxAlike
      <4> QED BY <4>3
    <3>3. CASE m = n + 1
      <4>1. n + 1 > 3 /\ said[m] = output /\ m - 3 = n + 1 - 3
        BY <1>1, <2>2, <3>1, <3>3
      <4>2. \A i \in n + 1 - 3 .. n + 1 : said[i] = said[m]
        BY <3>1, <3>3, <4>1
      <4> QED BY <4>1, <4>2
    <3> QED BY <3>2, <3>3
  <2>8. ASSUME alike >= 3 PROVE Repeated(said)
    <3>1. output = g.last /\ a = 2 /\ alike = 3 /\ n > 0
      BY <1>1, <1>2, <1>4, <2>3, <2>8
    <3>2. n + 1 > 3 /\ n + 1 \in 1 .. n + 1
      BY <1>1, <1>2, <3>1
    <3>3. ASSUME NEW i \in n + 1 - 3 .. n + 1 PROVE said[i] = said[n + 1]
      <4>1. CASE i = n + 1
        BY <4>1
      <4>2. CASE i # n + 1
        <5>1. i \in n - a .. n /\ i \in 1 .. n
          BY <1>1, <3>1, <3>2, <3>3, <4>2
        <5> QED BY <1>2, <2>2, <3>1, <5>1
      <4> QED BY <4>1, <4>2
    <3>4. \E m \in DOMAIN said : m > 3 /\ \A i \in m - 3 .. m : said[i] = said[m]
      <4>1. PICK m : m = n + 1
        OBVIOUS
      <4>2. ASSUME NEW i \in m - 3 .. m PROVE said[i] = said[m]
        <5>1. i \in n + 1 - 3 .. n + 1
          BY <1>1, <4>1, <4>2
        <5> QED BY <3>3, <4>1, <5>1
      <4>3. m \in DOMAIN said /\ m > 3
        BY <2>2, <3>2, <4>1
      <4> QED BY <4>2, <4>3
    <3> QED BY <3>4 DEF Repeated, MaxAlike
  <2>9. ASSUME alike < 3 PROVE ~Repeated(said)
    <3> SUFFICES ASSUME Repeated(said) PROVE FALSE
      OBVIOUS
    <3>1. n + 1 > 3 /\ \A i \in n + 1 - 3 .. n + 1 : said[i] = output
      BY <2>7
    <3>2. CASE output = g.last
      <4>1. n > 0 /\ a < 2 /\ a + 1 < n /\ n - a - 1 \in n + 1 - 3 .. n + 1 /\ n - a - 1 \in 1 .. n
        BY <1>1, <2>3, <2>9, <3>1, <3>2
      <4> QED BY <1>2, <2>2, <3>1, <3>2, <4>1
    <3>3. CASE output # g.last
      <4>1. n > 0 /\ n \in n - a .. n /\ n \in n + 1 - 3 .. n + 1 /\ n \in 1 .. n
        BY <1>1, <3>1
      <4> QED BY <1>2, <2>2, <3>1, <3>3, <4>1
    <3> QED BY <3>2, <3>3
  <2>10. new.alike = alike /\ new.said = said /\ (alike >= 3 \/ alike < 3)
    BY <2>3, <2>5
  <2> QED BY <2>3, <2>4, <2>6, <2>8, <2>9, <2>10 DEF MaxAlike
<1> QED BY <1>3, <1>4

\* Before the first call nothing was seen.
LEMMA NothingSeen ==
  ASSUME NEW m \in Nat
  PROVE  IsEnd(<<>>, <<>>, m) /\ \A repeats : ~Broken(<<>>, repeats)
<1>1. <<>> \in Seq(Entry) /\ Len(<<>>) = 0 /\ 1 .. 0 = {} /\ DOMAIN <<>> = {}
  OBVIOUS
<1> QED BY <1>1 DEF IsEnd, Broken

\* A window holds something.
LEMMA KeptPositive ==
  ASSUME NEW size \in Nat
  PROVE  Kept(size) \in Nat \ {0}
BY DEF Kept

\* A run of the loop that begins, or has ended.
LEMMA FreshTurnOK ==
  ASSUME NEW s \in Settings, NEW history, Matched(history), NEW model \in Models,
         NEW p \in {"waiting", "head"} \cup (Ended \ Halted)
  PROVE  TurnOK(s, Fresh(history, model), p)
<1> DEFINE r == Fresh(history, model)
<1>1. /\ r.model = model /\ r.target = None /\ r.iteration = 0 /\ r.history = history /\ r.position = First
      /\ r.tried = {} /\ r.calls = <<>> /\ r.results = <<>> /\ r.window = <<>> /\ r.log = <<>> /\ r.why = None
      /\ r.gate = Closed
  BY DEF Fresh
<1> HIDE DEF r
<1>2. p \notin {"switching", "spending", "calling", "deciding", "running"} \cup Halted
  BY DEF Ended, Halted
<1>3. Counted(s, r, p)
  BY <1>1, <1>2, SettingTypes DEF Counted
<1>4. Named(r, p)
  BY <1>1, <1>2 DEF Named
<1>5. Tried(s, r, p)
  <2>1. None # "exhausted" /\ InChains(First, s.chains)
    BY SettingTypes, FirstInChains DEF None
  <2> QED BY <1>1, <1>2, <2>1 DEF Tried
<1>6. Replied(r, p)
  BY <1>1, <1>2 DEF Replied
<1>7. Watched(s, r, p)
  <2>1. <<>> \in Seq(Entry)
    OBVIOUS
  <2> QED BY <1>1, <1>2, <2>1, NothingSeen, SettingTypes, KeptPositive DEF Watched, Halted
<1>8. Listened(r, p)
  BY <1>1, <1>2, NothingHeard DEF Listened, Halted
<1> QED BY <1>3, <1>4, <1>5, <1>6, <1>7, <1>8 DEF TurnOK, r

\* The empty history.
LEMMA EmptyHistory == Matched(<<>>)
<1>1. <<>> \in Seq(Said)
  OBVIOUS
<1> QED BY <1>1, TextsMatch

\* A run of the loop that ended.
LEMMA GoneTurnOK ==
  ASSUME setting \in Settings, NEW p \in {"waiting"} \cup (Ended \ Halted)
  PROVE  TurnOK(setting, Gone, p)
BY FreshTurnOK, EmptyHistory, SettingTypes DEF Gone

(* A request that failed for good.                                         *)
LEMMA FailedTurnOK ==
  ASSUME setting \in Settings, NEW why, NEW tried,
         tried \subseteq Pairs(setting.chains), why = "exhausted" => tried = Pairs(setting.chains)
  PROVE  TurnOK(setting, [Gone EXCEPT !.why = why, !.tried = tried], "failed")
<1> DEFINE r == [Gone EXCEPT !.why = why, !.tried = tried]
<1>1. /\ r.model = Gone.model /\ r.target = Gone.target /\ r.iteration = Gone.iteration /\ r.history = Gone.history
      /\ r.position = Gone.position /\ r.calls = Gone.calls /\ r.results = Gone.results /\ r.window = Gone.window
      /\ r.log = Gone.log /\ r.why = why /\ r.tried = tried /\ r.gate = Gone.gate
  BY DEF Gone, Fresh
<1> HIDE DEF r
<1>2. TurnOK(setting, Gone, "failed") /\ "failed" \in Ended
  BY GoneTurnOK DEF Ended, Halted
<1>3. Tried(setting, r, "failed")
  BY <1>1, <1>2 DEF Tried, TurnOK
<1> QED BY <1>1, <1>2, <1>3 DEF TurnOK, Counted, Named, Replied, Watched, Listened, r

(* A run of the loop that the detector broke off,                          *)
LEMMA StuckTurnOK ==
  ASSUME setting \in Settings, setting.limits.detects, NEW log \in Seq(Entry),
         IsWide(setting.limits.window, setting.limits.repeats) => Broken(log, setting.limits.repeats)
  PROVE  TurnOK(setting, [Gone EXCEPT !.log = log], "stuck")
<1> DEFINE r == [Gone EXCEPT !.log = log]
<1>1. /\ r.model = Gone.model /\ r.target = Gone.target /\ r.iteration = Gone.iteration /\ r.history = Gone.history
      /\ r.position = Gone.position /\ r.calls = Gone.calls /\ r.results = Gone.results /\ r.window = <<>>
      /\ r.log = log /\ r.why = Gone.why /\ r.tried = Gone.tried /\ r.gate = Gone.gate
  BY DEF Gone, Fresh
<1> HIDE DEF r
<1>2. TurnOK(setting, Gone, "failed") /\ "failed" \in Ended /\ "stuck" \in Ended
  BY GoneTurnOK DEF Ended, Halted
<1>3. Watched(setting, r, "stuck")
  BY <1>1 DEF Watched, Halted
<1> QED BY <1>1, <1>2, <1>3 DEF TurnOK, Counted, Named, Tried, Replied, Listened, r

(* or the gate.                                                            *)
LEMMA RunawayTurnOK ==
  ASSUME setting \in Settings, NEW log \in Seq(Entry), NEW gate, Repeated(gate.said),
         setting.limits.detects /\ IsWide(setting.limits.window, setting.limits.repeats) =>
           ~Broken(log, setting.limits.repeats)
  PROVE  TurnOK(setting, [Gone EXCEPT !.log = log, !.gate = gate], "runaway")
<1> DEFINE r == [Gone EXCEPT !.log = log, !.gate = gate]
<1>1. /\ r.model = Gone.model /\ r.target = Gone.target /\ r.iteration = Gone.iteration /\ r.history = Gone.history
      /\ r.position = Gone.position /\ r.calls = Gone.calls /\ r.results = Gone.results /\ r.window = <<>>
      /\ r.log = log /\ r.why = Gone.why /\ r.tried = Gone.tried /\ r.gate = gate
  BY DEF Gone, Fresh
<1> HIDE DEF r
<1>2. TurnOK(setting, Gone, "failed") /\ "failed" \in Ended /\ "runaway" \in Ended
  BY GoneTurnOK DEF Ended, Halted
<1>3. Watched(setting, r, "runaway")
  BY <1>1 DEF Watched, Halted
<1> QED BY <1>1, <1>2, <1>3 DEF TurnOK, Counted, Named, Tried, Replied, Listened, r

(* The turn goes to another place, its locals as they are.                 *)
LEMMA MovedTurnOK ==
  ASSUME NEW s, NEW r, NEW p, NEW q, TurnOK(s, r, p), p \notin Ended,
         q \notin Ended \cup {"switching", "calling"},
         q \in {"spending", "deciding", "running"} => r.iteration # s.limits.iterations,
         q = "running" => Len(r.results) = Len(r.calls)
  PROVE  TurnOK(s, r, q)
<1>1. p \notin Halted /\ q \notin Halted /\ q # "switching" /\ q # "calling"
  BY DEF Ended, Halted
<1> QED BY <1>1 DEF TurnOK, Counted, Named, Tried, Replied, Watched, Listened, Halted

\* A switch of models is pending.
LEMMA SwitchingTurnOK ==
  ASSUME NEW s, NEW r, LocalsOK(r), NEW p, TurnOK(s, r, p), p \notin Ended,
         r.iteration # s.limits.iterations, NEW to \in Models
  PROVE  TurnOK(s, [r EXCEPT !.target = to], "switching")
<1> DEFINE new == [r EXCEPT !.target = to]
<1>1. /\ new.model = r.model /\ new.target = to /\ new.iteration = r.iteration /\ new.history = r.history
      /\ new.position = r.position /\ new.calls = r.calls /\ new.results = r.results /\ new.window = r.window
      /\ new.log = r.log /\ new.why = r.why /\ new.tried = r.tried /\ new.gate = r.gate
  BY DEF LocalsOK, IsLocals
<1> HIDE DEF new
<1>2. p \notin Ended /\ p \notin Halted /\ "switching" \notin Ended /\ to # None
  BY AgentConstants DEF Ended, Halted
<1>3. Counted(s, new, "switching")
  BY <1>1 DEF TurnOK, Counted
<1>4. Named(new, "switching")
  BY <1>1, <1>2 DEF TurnOK, Named
<1> QED BY <1>1, <1>2, <1>3, <1>4 DEF TurnOK, Tried, Replied, Watched, Listened, Halted, new

\* The model is asked, for the first time or again.
LEMMA AskedTurnOK ==
  ASSUME NEW s, NEW r, LocalsOK(r), NEW p, TurnOK(s, r, p), p \notin Ended, r.iteration # s.limits.iterations,
         NEW position, InChains(position, s.chains), NEW tried \in SUBSET Pairs(s.chains),
         Before(position, s.chains) \subseteq tried
  PROVE  TurnOK(s, [r EXCEPT !.position = position, !.tried = tried], "calling")
<1> DEFINE new == [r EXCEPT !.position = position, !.tried = tried]
<1>1. /\ new.model = r.model /\ new.target = r.target /\ new.iteration = r.iteration /\ new.history = r.history
      /\ new.position = position /\ new.calls = r.calls /\ new.results = r.results /\ new.window = r.window
      /\ new.log = r.log /\ new.why = r.why /\ new.tried = tried /\ new.gate = r.gate
  BY DEF LocalsOK, IsLocals
<1> HIDE DEF new
<1>2. p \notin Ended /\ p \notin Halted /\ "calling" \notin Ended
  BY DEF Ended, Halted
<1>3. Tried(s, new, "calling")
  BY <1>1, <1>2 DEF TurnOK, Tried
<1> QED BY <1>1, <1>2, <1>3 DEF TurnOK, Counted, Named, Replied, Watched, Listened, Halted, new

\* The history was cut after an overflow.
LEMMA TrimmedTurnOK ==
  ASSUME NEW s \in Settings, NEW r, LocalsOK(r), NEW p, TurnOK(s, r, p), p \notin Ended, r.iteration # s.limits.iterations,
         NEW history, Matched(history)
  PROVE  TurnOK(s, [r EXCEPT !.history = history, !.iteration = @ + 1], "head")
<1> DEFINE new == [r EXCEPT !.history = history, !.iteration = @ + 1]
<1>1. /\ new.model = r.model /\ new.target = r.target /\ new.iteration = r.iteration + 1 /\ new.history = history
      /\ new.position = r.position /\ new.calls = r.calls /\ new.results = r.results /\ new.window = r.window
      /\ new.log = r.log /\ new.why = r.why /\ new.tried = r.tried /\ new.gate = r.gate
  BY DEF LocalsOK, IsLocals
<1> HIDE DEF new
<1>2. p \notin Ended /\ p \notin Halted /\ "head" \notin Ended
  BY DEF Ended, Halted
<1>3. Counted(s, new, "head")
  BY <1>1, SettingTypes DEF TurnOK, Counted
<1> QED BY <1>1, <1>2, <1>3 DEF TurnOK, Named, Tried, Replied, Watched, Listened, Halted, new

\* The model is asked for a summary.
LEMMA SummingTurnOK ==
  ASSUME NEW s, NEW r, LocalsOK(r), NEW p, TurnOK(s, r, p), p \notin Ended, NEW history, Matched(history)
  PROVE  TurnOK(s, [r EXCEPT !.history = history], "summing up")
<1> DEFINE new == [r EXCEPT !.history = history]
<1>1. /\ new.model = r.model /\ new.target = r.target /\ new.iteration = r.iteration /\ new.history = history
      /\ new.position = r.position /\ new.calls = r.calls /\ new.results = r.results /\ new.window = r.window
      /\ new.log = r.log /\ new.why = r.why /\ new.tried = r.tried /\ new.gate = r.gate
  BY DEF LocalsOK, IsLocals
<1> HIDE DEF new
<1>2. p \notin Ended /\ p \notin Halted /\ "summing up" \notin Ended
  BY DEF Ended, Halted
<1> QED BY <1>1, <1>2 DEF TurnOK, Counted, Named, Tried, Replied, Watched, Listened, Halted, new

\* The model answered with tool calls.
LEMMA DecidingTurnOK ==
  ASSUME NEW s, NEW r, LocalsOK(r), NEW p, TurnOK(s, r, p), p \notin Ended, r.iteration # s.limits.iterations,
         NEW reply \in Seq(Valid), NEW parallel
  PROVE  TurnOK(s, [r EXCEPT !.calls = reply, !.parallel = parallel,
                             !.results = <<>>, !.queue = <<>>, !.outcomes = <<>>], "deciding")
<1> DEFINE new == [r EXCEPT !.calls = reply, !.parallel = parallel, !.results = <<>>, !.queue = <<>>, !.outcomes = <<>>]
<1>1. /\ new.model = r.model /\ new.target = r.target /\ new.iteration = r.iteration /\ new.history = r.history
      /\ new.position = r.position /\ new.calls = reply /\ new.results = <<>> /\ new.window = r.window
      /\ new.log = r.log /\ new.why = r.why /\ new.tried = r.tried /\ new.gate = r.gate
  BY DEF LocalsOK, IsLocals
<1> HIDE DEF new
<1>2. p \notin Ended /\ p \notin Halted /\ "deciding" \notin Ended
  BY DEF Ended, Halted
<1>3. Replied(new, "deciding")
  BY <1>1, <1>2 DEF TurnOK, Replied
<1>4. Named(new, "deciding")
  BY <1>1, <1>2 DEF TurnOK, Named
<1> QED BY <1>1, <1>2, <1>3, <1>4 DEF TurnOK, Counted, Tried, Watched, Listened, Halted, new

(* One more call is decided on.                                            *)
LEMMA DecidedTurnOK ==
  ASSUME NEW s, NEW r, LocalsOK(r), TurnOK(s, r, "deciding"), Len(r.results) + 1 <= Len(r.calls),
         NEW result \in Results, result.call = r.calls[Len(r.results) + 1], NEW queue, NEW outcomes
  PROVE  /\ TurnOK(s, [r EXCEPT !.results = Append(@, result)], "deciding")
         /\ TurnOK(s, [r EXCEPT !.results = Append(@, result), !.queue = queue, !.outcomes = outcomes], "deciding")
<1> DEFINE results == Append(r.results, result)
<1>1. ASSUME NEW new,
             /\ new.model = r.model /\ new.target = r.target /\ new.iteration = r.iteration /\ new.history = r.history
             /\ new.position = r.position /\ new.calls = r.calls /\ new.results = results /\ new.window = r.window
             /\ new.log = r.log /\ new.why = r.why /\ new.tried = r.tried /\ new.gate = r.gate
      PROVE  TurnOK(s, new, "deciding")
  <2>1. r.results \in Seq(Results) /\ r.calls \in Seq(Valid)
    BY DEF LocalsOK
  <2>2. /\ Len(results) = Len(r.results) + 1 /\ results[Len(r.results) + 1] = result
        /\ \A i \in 1 .. Len(r.results) : results[i] = r.results[i]
    BY <2>1
  <2>3. Len(r.results) \in Nat /\ \A i \in 1 .. Len(r.results) + 1 : i \in 1 .. Len(r.results) \/ i = Len(r.results) + 1
    BY <2>1
  <2> HIDE DEF results
  <2>4. Replied(new, "deciding")
    BY <1>1, <2>2, <2>3 DEF TurnOK, Replied
  <2> QED BY <1>1, <2>4 DEF TurnOK, Counted, Named, Tried, Watched, Listened
<1>2. TurnOK(s, [r EXCEPT !.results = Append(@, result)], "deciding")
  <2> DEFINE new == [r EXCEPT !.results = Append(@, result)]
  <2>1. /\ new.model = r.model /\ new.target = r.target /\ new.iteration = r.iteration /\ new.history = r.history
        /\ new.position = r.position /\ new.calls = r.calls /\ new.results = results /\ new.window = r.window
        /\ new.log = r.log /\ new.why = r.why /\ new.tried = r.tried /\ new.gate = r.gate
    BY DEF LocalsOK, IsLocals
  <2> HIDE DEF new, results
  <2>2. TurnOK(s, new, "deciding")
    BY <1>1, <2>1
  <2> QED BY <2>2 DEF new
<1>3. TurnOK(s, [r EXCEPT !.results = Append(@, result), !.queue = queue, !.outcomes = outcomes], "deciding")
  <2> DEFINE new == [r EXCEPT !.results = Append(@, result), !.queue = queue, !.outcomes = outcomes]
  <2>1. /\ new.model = r.model /\ new.target = r.target /\ new.iteration = r.iteration /\ new.history = r.history
        /\ new.position = r.position /\ new.calls = r.calls /\ new.results = results /\ new.window = r.window
        /\ new.log = r.log /\ new.why = r.why /\ new.tried = r.tried /\ new.gate = r.gate
    BY DEF LocalsOK, IsLocals
  <2> HIDE DEF new, results
  <2>2. TurnOK(s, new, "deciding")
    BY <1>1, <2>1
  <2> QED BY <2>2 DEF new
<1> QED BY <1>2, <1>3

\* A call was run.
LEMMA RunTurnOK ==
  ASSUME NEW s, NEW r, LocalsOK(r), NEW p, TurnOK(s, r, p), NEW outcomes
  PROVE  TurnOK(s, [r EXCEPT !.outcomes = outcomes], p)
<1> DEFINE new == [r EXCEPT !.outcomes = outcomes]
<1>1. /\ new.model = r.model /\ new.target = r.target /\ new.iteration = r.iteration /\ new.history = r.history
      /\ new.position = r.position /\ new.calls = r.calls /\ new.results = r.results /\ new.window = r.window
      /\ new.log = r.log /\ new.why = r.why /\ new.tried = r.tried /\ new.gate = r.gate
  BY DEF LocalsOK, IsLocals
<1> HIDE DEF new
<1> QED BY <1>1 DEF TurnOK, Counted, Named, Tried, Replied, Watched, Listened, Halted, new

(* The calls of an answer are done with.                                   *)
LEMMA CollectedTurnOK ==
  ASSUME NEW s \in Settings, NEW r, LocalsOK(r), TurnOK(s, r, "running"),
         NEW log \in Seq(Entry), NEW gate, GateOK(gate), gate.alike < MaxAlike, ~Repeated(gate.said),
         NEW window, IF s.limits.detects THEN IsEnd(window, log, Kept(s.limits.window)) ELSE window = <<>>,
         s.limits.detects /\ IsWide(s.limits.window, s.limits.repeats) => ~Broken(log, s.limits.repeats),
         NEW history, Matched(history)
  PROVE  TurnOK(s, [r EXCEPT !.iteration = @ + 1, !.log = log, !.gate = gate, !.window = window,
                             !.history = history, !.calls = <<>>, !.results = <<>>, !.queue = <<>>,
                             !.outcomes = <<>>], "head")
<1> DEFINE new == [r EXCEPT !.iteration = @ + 1, !.log = log, !.gate = gate, !.window = window,
                            !.history = history, !.calls = <<>>, !.results = <<>>, !.queue = <<>>,
                            !.outcomes = <<>>]
<1>1. /\ new.model = r.model /\ new.target = r.target /\ new.iteration = r.iteration + 1 /\ new.history = history
      /\ new.position = r.position /\ new.calls = <<>> /\ new.results = <<>> /\ new.window = window
      /\ new.log = log /\ new.why = r.why /\ new.tried = r.tried /\ new.gate = gate
  BY DEF LocalsOK, IsLocals
<1> HIDE DEF new
<1>2. "running" \notin Ended /\ "head" \notin Ended
  BY DEF Ended
<1>3. Counted(s, new, "head")
  BY <1>1, SettingTypes DEF TurnOK, Counted
<1>4. Named(new, "head")
  BY <1>1 DEF TurnOK, Named
<1>5. Tried(s, new, "head")
  BY <1>1, <1>2 DEF TurnOK, Tried
<1>6. Replied(new, "head")
  BY <1>1 DEF TurnOK, Replied
<1>7. Watched(s, new, "head")
  BY <1>1 DEF TurnOK, Watched, Halted
<1>8. Listened(new, "head")
  BY <1>1 DEF Listened
<1> QED BY <1>3, <1>4, <1>5, <1>6, <1>7, <1>8 DEF TurnOK, new

-----------------------------------------------------------------------------
(* What is collected: the results in their places, the entries, the messages. *)

\* Every call of the answer has a result, in its place.
LEMMA PlacedResults ==
  ASSUME NEW t \in Turns, LocalsOK(turn[t]), Replied(turn[t], "running")
  PROVE  /\ Placed(t) \in Seq(Results) /\ Len(Placed(t)) = Len(turn[t].calls)
         /\ \A i \in 1 .. Len(turn[t].calls) : Placed(t)[i].call = turn[t].calls[i]
<1> DEFINE r == turn[t]
           n == Len(r.calls)
<1>1. /\ r.calls \in Seq(Valid) /\ r.results \in Seq(Results) /\ r.queue \in Seq(Nat) /\ r.outcomes \in Seq(Results)
      /\ Len(r.queue) = Len(r.outcomes) /\ Len(r.results) = n /\ n \in Nat
      /\ \A j \in 1 .. Len(r.outcomes) : r.queue[j] \in 1 .. n /\ r.outcomes[j].call = r.calls[r.queue[j]]
      /\ \A i \in 1 .. n : r.results[i].call = r.calls[i]
  <2>1. PICK q : q = turn[t]
    OBVIOUS
  <2>2. /\ q.calls \in Seq(Valid) /\ q.results \in Seq(Results) /\ q.queue \in Seq(Nat) /\ q.outcomes \in Seq(Results)
        /\ Len(q.queue) = Len(q.outcomes)
        /\ \A j \in 1 .. Len(q.outcomes) : q.queue[j] \in 1 .. Len(q.calls) /\ q.outcomes[j].call = q.calls[q.queue[j]]
    BY <2>1, Zenon DEF LocalsOK
  <2>3. Len(q.results) = Len(q.calls) /\ \A i \in 1 .. Len(q.results) : q.results[i].call = q.calls[i]
    BY <2>1, Zenon DEF Replied
  <2>4. Len(q.calls) \in Nat
    BY <2>2
  <2> QED BY <2>1, <2>2, <2>3, <2>4
<1>2. DOMAIN r.calls = 1 .. n /\ DOMAIN r.queue = 1 .. Len(r.outcomes)
  BY <1>1
<1>3. ASSUME NEW i \in 1 .. n PROVE Placed(t)[i] \in Results /\ Placed(t)[i].call = r.calls[i]
  <2>1. CASE i \in Range(r.queue)
    <3>1. \E j \in DOMAIN r.queue : r.queue[j] = i
      BY <2>1 DEF Range
    <3>2. PICK j \in DOMAIN r.queue : r.queue[j] = i /\ Placed(t)[i] = r.outcomes[j]
      BY <1>2, <2>1, <3>1 DEF Placed
    <3> QED BY <1>1, <1>2, <3>2
  <2>2. CASE i \notin Range(r.queue)
    <3>1. Placed(t)[i] = r.results[i]
      BY <1>2, <2>2 DEF Placed
    <3> QED BY <1>1, <3>1
  <2> QED BY <2>1, <2>2
<1>4. Placed(t) = [i \in 1 .. n |-> Placed(t)[i]]
  BY <1>2 DEF Placed
<1>5. PICK placed : placed = Placed(t)
  OBVIOUS
<1>6. placed \in Seq(Results) /\ Len(placed) = n
  <2> HIDE DEF n
  <2>1. placed = [i \in 1 .. n |-> placed[i]] /\ \A i \in 1 .. n : placed[i] \in Results
    BY <1>3, <1>4, <1>5
  <2> QED BY <1>1, <2>1
<1> QED BY <1>3, <1>5, <1>6

\* Entries are what the detector expects.
LEMMA EntriesType ==
  ASSUME NEW t \in Turns, LocalsOK(turn[t]), Replied(turn[t], "running")
  PROVE  Entries(t) \in Seq(Entry)
<1> DEFINE placed == Placed(t)
           K == {i \in DOMAIN placed : placed[i].made.tool \notin Ignored}
           relevant == Chosen(placed, K)
           c == Cardinality(K)
<1>1. placed \in Seq(Results) /\ DOMAIN placed = 1 .. Len(placed) /\ Len(placed) \in Nat
  BY PlacedResults
<1>2. Within(K, Len(placed))
  BY <1>1 DEF Within
<1>3. Entries(t) = [i \in DOMAIN relevant |->
         [tool |-> relevant[i].made.tool, args |-> relevant[i].call.args, result |-> relevant[i].what]]
  BY DEF Entries
<1> HIDE DEF placed
<1>4. PICK nth \in [1 .. c -> K] : relevant = [k \in 1 .. c |-> placed[nth[k]]]
  <2> HIDE DEF K
  <2> QED BY <1>2, ChosenInOrder
<1>5. c \in Nat
  <2> HIDE DEF K
  <2> QED BY <1>2, RankFacts
<1>6. \A i \in K : placed[i] \in Results
  BY <1>1
<1> HIDE DEF K, c
<1>7. DOMAIN relevant = 1 .. c /\ \A k \in 1 .. c : relevant[k] \in Results
  BY <1>4, <1>6
<1> HIDE DEF relevant
<1>8. ASSUME NEW k \in 1 .. c
      PROVE  [tool |-> relevant[k].made.tool, args |-> relevant[k].call.args, result |-> relevant[k].what] \in Entry
  <2>1. relevant[k].call \in Valid /\ relevant[k].made \in Valid /\ relevant[k].what \in Marks
    BY <1>7 DEF Results
  <2>2. relevant[k].made.tool \in Tools /\ relevant[k].call.args \in Arguments
    BY <2>1 DEF Valid, Calls
  <2> QED BY <2>1, <2>2 DEF Entry
<1>9. Entries(t) = [i \in 1 .. c |->
         [tool |-> relevant[i].made.tool, args |-> relevant[i].call.args, result |-> relevant[i].what]]
  BY <1>3, <1>7
<1> QED BY <1>5, <1>8, <1>9

\* The windows after each of the new entries.
LEMMA WindowsAre ==
  ASSUME NEW t, NEW new \in Seq(Entry)
  PROVE  /\ DOMAIN Windows(t, new) = 1 .. Len(new) /\ Len(Windows(t, new)) = Len(new)
         /\ \A k \in 1 .. Len(new) :
              Windows(t, new)[k] = IF setting.limits.detects
                                   THEN PushedAll(turn[t].window, SubSeq(new, 1, k), setting.limits.window)
                                   ELSE turn[t].window
<1> DEFINE W(k) == IF setting.limits.detects
                   THEN PushedAll(turn[t].window, SubSeq(new, 1, k), setting.limits.window)
                   ELSE turn[t].window
<1>1. Windows(t, new) = [k \in DOMAIN new |-> W(k)]
  BY DEF Windows, PushedAll
<1>2. DOMAIN new = 1 .. Len(new) /\ Len(new) \in Nat
  OBVIOUS
<1> HIDE DEF W
<1>3. DOMAIN Windows(t, new) = 1 .. Len(new) /\ \A k \in 1 .. Len(new) : Windows(t, new)[k] = W(k)
  BY <1>1, <1>2
<1>4. Len(Windows(t, new)) = Len(new)
  <2>1. Windows(t, new) \in Seq({W(k) : k \in 1 .. Len(new)})
    BY <1>1, <1>2
  <2> QED BY <1>2, <1>3, <2>1
<1> QED BY <1>3, <1>4 DEF W

\* Nudges are texts.
LEMMA NudgesType ==
  ASSUME NEW n \in Nat, NEW verdicts, DOMAIN verdicts = 1 .. n
  PROVE  Nudges(verdicts) \in Seq(Said)
<1> DEFINE spoken == {k \in DOMAIN verdicts : verdicts[k] \in {"warn", "block"}}
<1>1. Cardinality(spoken) \in Nat
  <2>1. IsFiniteSet(1 .. n) /\ spoken \subseteq 1 .. n
    BY FS_Interval
  <2> HIDE DEF spoken
  <2> QED BY <2>1, FS_Subset, FS_CardinalityType
<1>2. Nudges(verdicts) = [i \in 1 .. Cardinality(spoken) |-> Message("system")]
  BY DEF Nudges
<1>3. Message("system") \in Said
  BY DEF Said
<1> HIDE DEF spoken
<1> QED BY <1>1, <1>2, <1>3

\* The tool messages report on the calls of the answer, in their order.
LEMMA ToolMessagesReport ==
  ASSUME NEW t \in Turns, LocalsOK(turn[t]), Replied(turn[t], "running")
  PROVE  /\ ToolMessages(t) \in Seq(Messages) /\ Len(ToolMessages(t)) = Len(turn[t].calls)
         /\ \A k \in 1 .. Len(turn[t].calls) : Reports(ToolMessages(t)[k], turn[t].calls[k])
<1> DEFINE calls == turn[t].calls
           n == Len(calls)
           msg(i) == [role |-> "tool", answers |-> calls[i], result |-> Placed(t)[i]]
<1>1. calls \in Seq(Valid) /\ n \in Nat /\ DOMAIN calls = 1 .. n
  BY DEF LocalsOK
<1>2. \A i \in 1 .. n : Placed(t)[i] \in Results /\ Placed(t)[i].call = calls[i]
  BY PlacedResults
<1>3. ASSUME NEW i \in 1 .. n PROVE Reports(msg(i), calls[i])
  <2>1. Placed(t)[i] \in Told /\ Placed(t)[i].call = calls[i] /\ calls[i] \in Valid
    BY <1>1, <1>2 DEF Results, Told
  <2> QED BY <2>1 DEF Reports, Reported
<1>4. ToolMessages(t) = [i \in 1 .. n |-> msg(i)]
  BY <1>1 DEF ToolMessages
<1> HIDE DEF msg
<1>5. \A i \in 1 .. n : msg(i) \in Messages
  BY <1>3 DEF Reports, Messages
<1>6. ToolMessages(t) \in Seq(Messages) /\ Len(ToolMessages(t)) = n
  BY <1>1, <1>4, <1>5
<1>7. \A i \in 1 .. n : ToolMessages(t)[i] = msg(i)
  BY <1>4
<1> QED BY <1>3, <1>6, <1>7

\* The history with the nudges, the answer and its reports.
LEMMA HistoryGrows ==
  ASSUME NEW h, Matched(h), NEW nudges \in Seq(Said), NEW calls \in Seq(Valid), NEW reports \in Seq(Messages),
         Len(reports) = Len(calls), \A k \in 1 .. Len(calls) : Reports(reports[k], calls[k])
  PROVE  Matched(h \o nudges \o <<[role |-> "assistant", calls |-> calls]>> \o reports)
<1>1. PICK a : a = <<[role |-> "assistant", calls |-> calls]>>
  OBVIOUS
<1>2. Matched(a \o reports)
  BY <1>1, AnswerMatches
<1>3. Matched(h \o nudges)
  BY TextsMatch, MatchedTogether
<1>4. Matched((h \o nudges) \o (a \o reports))
  BY <1>2, <1>3, MatchedTogether
<1>5. (h \o nudges) \o (a \o reports) = ((h \o nudges) \o a) \o reports
  <2>1. PICK b \in Seq(Messages) : b = h \o nudges
    BY <1>3 DEF Matched
  <2>2. a \in Seq(Messages)
    <3>1. [role |-> "assistant", calls |-> calls] \in Messages
      BY DEF Requested, Messages
    <3> QED BY <1>1, <3>1
  <2>3. b \o (a \o reports) = (b \o a) \o reports
    BY <2>2
  <2> QED BY <2>1, <2>3
<1> QED BY <1>1, <1>4, <1>5

-----------------------------------------------------------------------------
(* The steps of a turn up to the answer of the model.                      *)

\* Where a turn can be.
Places == Ended \cup {"waiting", "head", "switching", "spending", "calling", "deciding", "running", "summing up"}

\* What the turns share.
Shared ==
  /\ home \in Models /\ request \in Models \cup {None}
  /\ allowlist \subseteq Tools /\ cancelled \subseteq Turns
  /\ requests \in Seq(Turns \X Arguments) /\ Len(requests) <= ActionBudget

\* The invariant of the loop.
LoopInv ==
  /\ ApprovalInv /\ Shared /\ pc \in [Turns -> Places]
  /\ \A t \in Turns : TurnOK(setting, turn[t], pc[t])

\* A step of one turn: its new locals fit its new place.
LEMMA OneTurnMoves ==
  ASSUME LoopInv, ApprovalInv', Shared', UNCHANGED setting, NEW t \in Turns, NEW r, Locals(t, r),
         NEW to \in Places, pc' = [pc EXCEPT ![t] = to], TurnOK(setting, r, to)
  PROVE  LoopInv'
<1>1. turn = [u \in Turns |-> turn[u]] /\ pc \in [Turns -> Places]
  BY DEF LoopInv, ApprovalInv, LoopTypes
<1>2. turn'[t] = r /\ pc'[t] = to /\ \A u \in Turns \ {t} : turn'[u] = turn[u] /\ pc'[u] = pc[u]
  BY <1>1 DEF Locals
<1>3. pc' \in [Turns -> Places]
  BY <1>1
<1>4. \A u \in Turns : TurnOK(setting, turn'[u], pc'[u])
  BY <1>2 DEF LoopInv
<1> QED BY <1>3, <1>4 DEF LoopInv

\* The places apart from each other.
LEMMA PlacesAre ==
  /\ Ended \subseteq Places
  /\ {"waiting", "head", "switching", "spending", "calling", "deciding", "running", "summing up"} \subseteq Places
  /\ \A p \in {"waiting", "head", "switching", "spending", "calling", "deciding", "running", "summing up"} : p \notin Ended
  /\ {"answered", "failed", "cancelled", "timed out", "over budget"} \subseteq Ended \ Halted
BY DEF Places, Ended, Halted

\* What the invariant says of one turn.
LEMMA LoopFacts ==
  ASSUME LoopInv, NEW t \in Turns
  PROVE  /\ setting \in Settings /\ LocalsOK(turn[t]) /\ TurnOK(setting, turn[t], pc[t]) /\ Matched(turn[t].history)
         /\ Shared /\ pc \in [Turns -> Places] /\ turn = [u \in Turns |-> turn[u]]
BY DEF LoopInv, ApprovalInv, LoopTypes, TurnOK, Replied

(* A run of the loop that ends but is not broken off.                      *)
LEMMA EndStep ==
  ASSUME LoopInv, ApprovalInv', Shared', UNCHANGED setting, NEW t \in Turns, Locals(t, Gone),
         NEW to \in Ended \ Halted, pc' = [pc EXCEPT ![t] = to]
  PROVE  LoopInv'
BY LoopFacts, GoneTurnOK, OneTurnMoves, PlacesAre

\* Each action keeps the invariant.  Begin:
LEMMA BeginStep ==
  ASSUME LoopInv, ApprovalInv', NEW t \in Turns, Begin(t)
  PROVE  LoopInv'
<1>1. /\ UNCHANGED <<setting, shared>> /\ pc' = [pc EXCEPT ![t] = "head"]
      /\ Locals(t, Fresh(setting.history, home))
  BY DEF Begin, Goto
<1>2. Shared' /\ home \in Models
  BY <1>1, LoopFacts DEF Shared, shared
<1>3. TurnOK(setting, Fresh(setting.history, home), "head")
  BY <1>2, LoopFacts, SettingTypes, TextsMatch, FreshTurnOK
<1> QED BY <1>1, <1>2, <1>3, OneTurnMoves, PlacesAre

\* TopOfLoop:
LEMMA TopStep ==
  ASSUME LoopInv, ApprovalInv', NEW t \in Turns, TopOfLoop(t)
  PROVE  LoopInv'
<1>1. UNCHANGED <<setting, shared>> /\ turn[t].iteration # setting.limits.iterations
  BY DEF TopOfLoop, LastIteration
<1>2. Shared'
  BY <1>1, LoopFacts DEF Shared, shared
<1>3. CASE Goto(t, "head", "cancelled") /\ Locals(t, Gone)
  BY <1>1, <1>2, <1>3, EndStep, PlacesAre DEF Goto
<1>4. CASE /\ request \notin {None, turn[t].model} /\ Goto(t, "head", "switching")
           /\ Locals(t, [turn[t] EXCEPT !.target = request])
  <2>1. PICK to \in Models : to = request
    BY <1>4, LoopFacts DEF Shared
  <2>2. TurnOK(setting, [turn[t] EXCEPT !.target = to], "switching")
    BY <1>1, <1>4, LoopFacts, PlacesAre, SwitchingTurnOK DEF Goto
  <2> QED BY <1>1, <1>2, <1>4, <2>1, <2>2, OneTurnMoves, PlacesAre DEF Goto
<1>5. CASE Goto(t, "head", "spending") /\ UNCHANGED turn
  <2>1. TurnOK(setting, turn[t], "spending")
    <3>1. "spending" \notin Ended \cup {"switching", "calling"} /\ "spending" # "running"
      BY PlacesAre
    <3> QED BY <1>1, <1>5, <3>1, LoopFacts, PlacesAre, MovedTurnOK DEF Goto
  <2>2. Locals(t, turn[t])
    <3>1. turn = [turn EXCEPT ![t] = turn[t]]
      BY LoopFacts
    <3> QED BY <1>5, <3>1 DEF Locals
  <2> QED BY <1>1, <1>2, <1>5, <2>1, <2>2, OneTurnMoves, PlacesAre DEF Goto
<1> QED BY <1>3, <1>4, <1>5 DEF TopOfLoop

\* SwitchModel:
LEMMA SwitchStep ==
  ASSUME LoopInv, ApprovalInv', NEW t \in Turns, SwitchModel(t)
  PROVE  LoopInv'
<1> DEFINE to == turn[t].target
<1>1. /\ pc[t] = "switching" /\ pc' = [pc EXCEPT ![t] = "head"] /\ Locals(t, Fresh(turn[t].history, to))
      /\ request' = None /\ home' = (IF setting.channel THEN home ELSE to)
      /\ UNCHANGED <<setting, allowlist, cancelled, requests>>
  BY DEF SwitchModel, Goto
<1>2. to \in Models /\ Matched(turn[t].history)
  BY <1>1, LoopFacts DEF TurnOK, Named
<1>3. Shared'
  BY <1>1, <1>2, LoopFacts DEF Shared
<1>4. TurnOK(setting, Fresh(turn[t].history, to), "head")
  BY <1>2, LoopFacts, FreshTurnOK
<1> HIDE DEF to
<1> QED BY <1>1, <1>3, <1>4, OneTurnMoves, PlacesAre DEF to

\* SwitchFails, which in a terminal session moves the turns that wait, too:
LEMMA SwitchFailsStep ==
  ASSUME LoopInv, ApprovalInv', NEW t \in Turns, SwitchFails(t)
  PROVE  LoopInv'
<1>1. /\ pc' = [u \in Turns |-> IF u = t \/ (~setting.channel /\ pc[u] = "waiting") THEN "failed" ELSE pc[u]]
      /\ Locals(t, Gone) /\ request' = (IF setting.channel THEN None ELSE request)
      /\ UNCHANGED <<setting, home, allowlist, cancelled, requests>>
  BY DEF SwitchFails
<1>2. Shared'
  BY <1>1, LoopFacts DEF Shared
<1>3. pc' \in [Turns -> Places]
  BY <1>1, PlacesAre DEF LoopInv
<1>4. turn'[t] = Gone /\ \A u \in Turns \ {t} : turn'[u] = turn[u]
  BY <1>1, LoopFacts DEF Locals
<1>5. ASSUME NEW u \in Turns, u # t PROVE TurnOK(setting, turn[u], pc'[u])
  <2>1. TurnOK(setting, turn[u], pc[u])
    BY DEF LoopInv
  <2>2. CASE pc'[u] = pc[u]
    BY <2>1, <2>2
  <2>3. CASE pc[u] = "waiting" /\ pc'[u] = "failed"
    <3>1. "failed" \in Ended /\ "waiting" \notin Ended
      BY PlacesAre
    <3> QED BY <2>1, <2>3, <3>1 DEF TurnOK, Counted, Named, Tried, Replied, Watched, Listened, Halted
  <2>4. pc'[u] = pc[u] \/ (pc[u] = "waiting" /\ pc'[u] = "failed")
    BY <1>1, <1>5, Zenon
  <2> QED BY <2>2, <2>3, <2>4
<1>6. TurnOK(setting, Gone, pc'[t])
  BY <1>1, LoopFacts, GoneTurnOK, PlacesAre
<1>7. \A u \in Turns : TurnOK(setting, turn'[u], pc'[u])
  BY <1>4, <1>5, <1>6
<1> QED BY <1>1, <1>2, <1>3, <1>7 DEF LoopInv

\* CheckBudget:
LEMMA BudgetStep ==
  ASSUME LoopInv, ApprovalInv', NEW t \in Turns, CheckBudget(t)
  PROVE  LoopInv'
<1>1. UNCHANGED <<setting, shared>> /\ pc[t] = "spending"
  BY DEF CheckBudget
<1>2. Shared'
  BY <1>1, LoopFacts DEF Shared, shared
<1>3. CASE Goto(t, "spending", "over budget") /\ Locals(t, Gone)
  BY <1>1, <1>2, <1>3, EndStep, PlacesAre DEF Goto
<1>4. CASE Goto(t, "spending", "calling") /\ Locals(t, [turn[t] EXCEPT !.position = First, !.tried = {}])
  <2>1. turn[t].iteration # setting.limits.iterations /\ pc[t] \notin Ended
    BY <1>1, LoopFacts, PlacesAre DEF TurnOK, Counted
  <2>2. InChains(First, setting.chains) /\ Before(First, setting.chains) = {}
    BY LoopFacts, SettingTypes, FirstInChains
  <2>3. PICK tried \in SUBSET Pairs(setting.chains) : tried = {}
    OBVIOUS
  <2>4. TurnOK(setting, [turn[t] EXCEPT !.position = First, !.tried = tried], "calling")
    BY <2>1, <2>2, <2>3, LoopFacts, AskedTurnOK
  <2> QED BY <1>1, <1>2, <1>4, <2>3, <2>4, OneTurnMoves, PlacesAre DEF Goto
<1> QED BY <1>3, <1>4 DEF CheckBudget

\* Attempt: a position that is left was tried.
LEMMA AttemptStep ==
  ASSUME LoopInv, ApprovalInv', NEW t \in Turns, NEW error, Attempt(t, error)
  PROVE  LoopInv'
<1> DEFINE r == turn[t]
           c == setting.chains
           next == After(r.position, c, error)
           tried == r.tried \cup {<<r.position.model, r.position.provider>>}
<1>1. UNCHANGED <<setting, shared>> /\ pc[t] = "calling"
  BY DEF Attempt
<1>2. Shared'
  BY <1>1, LoopFacts DEF Shared, shared
<1>3. /\ r.iteration # setting.limits.iterations /\ pc[t] \notin Ended /\ InChains(r.position, c) /\ c \in Chains
      /\ r.tried \subseteq Pairs(c) /\ Before(r.position, c) \subseteq r.tried
  BY <1>1, LoopFacts, PlacesAre, SettingTypes DEF TurnOK, Counted, Tried
<1>4. /\ Exhausted(next, c) => Pairs(c) \subseteq tried
      /\ ~Exhausted(next, c) => InChains(next, c) /\ Before(next, c) \subseteq tried
  BY <1>3, AttemptsGoOn DEF Here
<1>5. tried \subseteq Pairs(c)
  BY <1>3 DEF InChains, Pairs
<1> HIDE DEF tried, next
<1>6. ASSUME NEW why, CallFailed(t, why, tried), why = "exhausted" => Exhausted(next, c)
      PROVE  LoopInv'
  <2>1. PICK recovered : recovered = Recovered(r.history)
    OBVIOUS
  <2>2. Matched(recovered)
    BY <2>1, LoopFacts, RecoveredMatches
  <2>3. CASE Goto(t, "calling", "head") /\ Locals(t, [turn[t] EXCEPT !.history = recovered, !.iteration = @ + 1])
    <3>1. TurnOK(setting, [turn[t] EXCEPT !.history = recovered, !.iteration = @ + 1], "head")
      BY <1>3, <2>2, LoopFacts, TrimmedTurnOK
    <3> QED BY <1>1, <1>2, <2>3, <3>1, OneTurnMoves, PlacesAre DEF Goto
  <2>4. CASE Goto(t, "calling", "failed") /\ Locals(t, [Gone EXCEPT !.why = why, !.tried = tried])
    <3>1. why = "exhausted" => tried = Pairs(c)
      BY <1>4, <1>5, <1>6
    <3>2. TurnOK(setting, [Gone EXCEPT !.why = why, !.tried = tried], "failed")
      BY <1>5, <3>1, LoopFacts, FailedTurnOK
    <3> QED BY <1>1, <1>2, <2>4, <3>2, OneTurnMoves, PlacesAre DEF Goto
  <2> QED BY <1>6, <2>1, <2>3, <2>4 DEF CallFailed
<1>7. CASE CallFailed(t, "too long", tried)
  BY <1>6, <1>7
<1>8. CASE Exhausted(next, c) /\ CallFailed(t, Failure(next), tried)
  BY <1>6, <1>8
<1>9. CASE ~Exhausted(next, c) /\ Locals(t, [turn[t] EXCEPT !.position = next, !.tried = tried]) /\ UNCHANGED pc
  <2>1. TurnOK(setting, [turn[t] EXCEPT !.position = next, !.tried = tried], "calling")
    BY <1>3, <1>4, <1>5, <1>9, LoopFacts, AskedTurnOK
  <2>2. pc' = [pc EXCEPT ![t] = "calling"]
    BY <1>1, <1>9, LoopFacts
  <2> QED BY <1>1, <1>2, <1>9, <2>1, <2>2, OneTurnMoves, PlacesAre
<1> QED BY <1>7, <1>8, <1>9 DEF Attempt, next, tried

\* Answer:
LEMMA AnswerStep ==
  ASSUME LoopInv, ApprovalInv', NEW t \in Turns, NEW reply \in setting.replies, NEW cost, Answer(t, reply, cost)
  PROVE  LoopInv'
<1>1. UNCHANGED <<setting, shared>> /\ pc[t] = "calling"
  BY DEF Answer
<1>2. Shared'
  BY <1>1, LoopFacts DEF Shared, shared
<1>3. CASE (\E end \in {"answered", "cancelled"} : Goto(t, "calling", end)) /\ Locals(t, Gone)
  BY <1>1, <1>2, <1>3, EndStep, PlacesAre DEF Goto
<1>4. CASE /\ Goto(t, "calling", "deciding")
           /\ Locals(t, [turn[t] EXCEPT !.calls = reply, !.parallel = InParallel(reply),
                                        !.results = <<>>, !.queue = <<>>, !.outcomes = <<>>])
  <2>1. turn[t].iteration # setting.limits.iterations /\ pc[t] \notin Ended
    BY <1>1, LoopFacts, PlacesAre DEF TurnOK, Counted
  <2>2. reply \in Seq(Valid)
    BY LoopFacts, SettingFacts
  <2>3. TurnOK(setting, [turn[t] EXCEPT !.calls = reply, !.parallel = InParallel(reply),
                                        !.results = <<>>, !.queue = <<>>, !.outcomes = <<>>], "deciding")
    BY <2>1, <2>2, LoopFacts, DecidingTurnOK
  <2> QED BY <1>1, <1>2, <1>4, <2>3, OneTurnMoves, PlacesAre DEF Goto
<1>5. (IF t \in cancelled THEN {"answered", "cancelled"} ELSE {"answered"}) \subseteq {"answered", "cancelled"}
  OBVIOUS
<1> QED BY <1>3, <1>4, <1>5 DEF Answer

\* AskForSummary and Summary:
LEMMA SummaryStep ==
  ASSUME LoopInv, ApprovalInv', NEW t \in Turns, AskForSummary(t) \/ Summary(t)
  PROVE  LoopInv'
<1>1. UNCHANGED <<setting, shared>>
  BY DEF AskForSummary, Summary
<1>2. Shared'
  BY <1>1, LoopFacts DEF Shared, shared
<1>3. CASE AskForSummary(t)
  <2>1. /\ Goto(t, "head", "summing up")
        /\ Locals(t, [turn[t] EXCEPT !.history = Append(@, Message("user"))])
    BY <1>3 DEF AskForSummary
  <2>2. PICK h : h = Append(turn[t].history, Message("user"))
    OBVIOUS
  <2>3. [turn[t] EXCEPT !.history = Append(@, Message("user"))] = [turn[t] EXCEPT !.history = h]
    BY <2>2
  <2>4. Matched(h)
    <3>1. <<Message("user")>> \in Seq(Said) /\ turn[t].history \in Seq(Messages) /\ Message("user") \in Messages
      BY LoopFacts DEF Said, Matched, Messages
    <3>2. h = turn[t].history \o <<Message("user")>>
      BY <2>2, <3>1
    <3> QED BY <3>1, <3>2, LoopFacts, TextsMatch, MatchedTogether
  <2>5. TurnOK(setting, [turn[t] EXCEPT !.history = h], "summing up")
    BY <2>1, <2>4, LoopFacts, PlacesAre, SummingTurnOK DEF Goto
  <2>6. Locals(t, [turn[t] EXCEPT !.history = h])
    BY <2>1, <2>3
  <2> QED BY <1>1, <1>2, <2>1, <2>5, <2>6, OneTurnMoves, PlacesAre DEF Goto
<1>4. CASE Summary(t)
  <2>1. PICK end \in {"answered", "failed"} : Goto(t, "summing up", end) /\ Locals(t, Gone)
    BY <1>4 DEF Summary
  <2> QED BY <1>1, <1>2, <2>1, EndStep, PlacesAre DEF Goto
<1> QED BY <1>3, <1>4

-----------------------------------------------------------------------------
(* The steps of a turn from the answer on, and all steps.                  *)

\* Decide:
LEMMA DecideStep ==
  ASSUME LoopInv, ApprovalInv', NEW t \in Turns, Decide(t)
  PROVE  LoopInv'
<1> DEFINE r == turn[t]
           n == Len(r.results) + 1
           call == r.calls[n]
<1>1. /\ UNCHANGED <<setting, pc, home, request, cancelled, requests>> /\ pc[t] = "deciding"
      /\ n <= Len(r.calls) /\ Undecided(t) = n
  BY DEF Decide, Undecided
<1>2. call \in Valid
  <2>1. r.results \in Seq(Results) /\ r.calls \in Seq(Valid)
    BY LoopFacts DEF LocalsOK
  <2>2. n \in 1 .. Len(r.calls)
    BY <1>1, <2>1
  <2> QED BY <2>1, <2>2
<1>0. ASSUME NEW made \in {call} \cup setting.rewrites PROVE made \in Valid /\ made.tool \in Tools
  <2>1. made \in Valid
    BY <1>2, LoopFacts, SettingFacts
  <2> QED BY <2>1 DEF Valid, Calls
<1>3. Shared'
  <2>1. allowlist' = allowlist \/ \E made \in {call} \cup setting.rewrites : allowlist' = allowlist \cup {made.tool}
    <3> HIDE DEF call
    <3> QED BY <1>1 DEF Decide, call
  <2>2. allowlist' \subseteq Tools
    <3> HIDE DEF call
    <3> QED BY <1>0, <2>1, LoopFacts DEF Shared
  <2> QED BY <1>1, <2>2, LoopFacts DEF Shared
<1>4. PICK c \in Valid : c = call
  BY <1>2
<1>5. pc' = [pc EXCEPT ![t] = "deciding"]
  BY <1>1, LoopFacts
<1>6. ASSUME NEW made \in Valid, NEW what \in Marks
      PROVE  Result(c, made, what) \in Results /\ Result(c, made, what).call = call
  BY <1>4 DEF Result, Results
<1>7. ASSUME NEW made \in Valid, NEW what \in Marks, Decided(t, made, what) PROVE LoopInv'
  <2>1. PICK result \in Results : result = Result(c, made, what) /\ result.call = call
    BY <1>6
  <2>2. TurnOK(setting, [r EXCEPT !.results = Append(@, result)], "deciding")
    BY <1>1, <2>1, LoopFacts, DecidedTurnOK
  <2>3. Locals(t, [r EXCEPT !.results = Append(@, result)])
    BY <1>1, <1>4, <1>7, <2>1 DEF Decided
  <2> QED BY <1>1, <1>3, <1>5, <2>2, <2>3, OneTurnMoves, PlacesAre
<1>8. ASSUME NEW made \in Valid, Queued(t, made) PROVE LoopInv'
  <2>0. "pending" \in Marks
    BY DEF Marks
  <2>1. PICK result \in Results : result = Result(c, made, "pending") /\ result.call = call
    BY <1>6, <1>8, <2>0
  <2>2. PICK queue, outcomes : queue = Append(r.queue, n) /\ outcomes = Append(r.outcomes, result)
    OBVIOUS
  <2>3. TurnOK(setting, [r EXCEPT !.results = Append(@, result), !.queue = queue, !.outcomes = outcomes], "deciding")
    BY <1>1, <2>1, LoopFacts, DecidedTurnOK
  <2>4. Locals(t, [r EXCEPT !.results = Append(@, result), !.queue = queue, !.outcomes = outcomes])
    BY <1>1, <1>4, <1>8, <2>1, <2>2 DEF Queued
  <2> QED BY <1>1, <1>3, <1>5, <2>3, <2>4, OneTurnMoves, PlacesAre
<1>9. \E made \in {call} \cup setting.rewrites :
        \/ Decided(t, made, "cancelled by hook") \/ Decided(t, made, "denied") \/ Decided(t, made, "duplicate")
        \/ Queued(t, made)
  <2> HIDE DEF call
  <2> QED BY <1>1 DEF Decide, call
<1> HIDE DEF call
<1> QED BY <1>0, <1>7, <1>8, <1>9 DEF Marks

\* AllDecided:
LEMMA AllDecidedStep ==
  ASSUME LoopInv, ApprovalInv', NEW t \in Turns, AllDecided(t)
  PROVE  LoopInv'
<1>1. /\ UNCHANGED <<setting, turn, shared>> /\ pc[t] = "deciding" /\ pc' = [pc EXCEPT ![t] = "running"]
      /\ Len(turn[t].results) + 1 > Len(turn[t].calls)
  BY DEF AllDecided, Goto, Undecided
<1>2. Shared'
  BY <1>1, LoopFacts DEF Shared, shared
<1>3. Len(turn[t].results) = Len(turn[t].calls)
  <2>1. turn[t].results \in Seq(Results) /\ turn[t].calls \in Seq(Valid) /\ Len(turn[t].results) <= Len(turn[t].calls)
    BY LoopFacts DEF LocalsOK, TurnOK, Replied
  <2>2. Len(turn[t].results) \in Nat /\ Len(turn[t].calls) \in Nat
    BY <2>1
  <2> QED BY <1>1, <2>1, <2>2
<1>4. TurnOK(setting, turn[t], "running")
  <2>1. turn[t].iteration # setting.limits.iterations
    BY <1>1, LoopFacts DEF TurnOK, Counted
  <2>2. "running" \notin Ended \cup {"switching", "calling"} /\ "deciding" \notin Ended
    BY PlacesAre
  <2> QED BY <1>1, <1>3, <2>1, <2>2, LoopFacts, MovedTurnOK
<1>5. Locals(t, turn[t])
  <2>1. turn = [turn EXCEPT ![t] = turn[t]]
    BY LoopFacts
  <2> QED BY <1>1, <2>1 DEF Locals
<1> QED BY <1>1, <1>2, <1>4, <1>5, OneTurnMoves, PlacesAre

\* Run: the model that is asked for has a name.
LEMMA RunStep ==
  ASSUME LoopInv, ApprovalInv', NEW t \in Turns, NEW j \in DOMAIN turn[t].queue, Run(t, j)
  PROVE  LoopInv'
<1> DEFINE r == turn[t]
           call == r.outcomes[j].made
<1>1. UNCHANGED <<setting, pc, home, allowlist, cancelled>>
  BY DEF Run
<1>2. call \in Valid
  <2>1. r.queue \in Seq(Nat) /\ r.outcomes \in Seq(Results) /\ DOMAIN r.queue = 1 .. Len(r.outcomes)
    BY LoopFacts DEF LocalsOK
  <2>2. r.outcomes[j] \in Results
    BY <2>1
  <2> QED BY <2>2 DEF Results
<1>3. call.tool = "model_switch" => call.args \in Models
  BY <1>2 DEF Valid
<1>4. Shared'
  <2>1. call.args \in Arguments
    BY <1>2 DEF Valid, Calls
  <2>2. CASE UNCHANGED <<request, requests>>
    BY <1>1, <2>2, LoopFacts DEF Shared
  <2>3. CASE /\ call.tool = "model_switch" /\ MaySwitch
             /\ request' = call.args /\ requests' = Append(requests, <<t, call.args>>)
    <3>1. request' \in Models
      BY <1>3, <2>3
    <3>2. PICK e \in Turns \X Arguments : e = <<t, call.args>>
      BY <2>1
    <3>3. requests \in Seq(Turns \X Arguments) /\ Len(requests) < ActionBudget /\ requests' = Append(requests, e)
      BY <2>3, <3>2, LoopFacts DEF Shared, MaySwitch
    <3>4. requests' \in Seq(Turns \X Arguments) /\ Len(requests') = Len(requests) + 1 /\ Len(requests) \in Nat
      BY <3>3
    <3>5. Len(requests') <= ActionBudget
      BY <3>3, <3>4, AgentConstants
    <3> QED BY <1>1, <3>1, <3>4, <3>5, LoopFacts DEF Shared
  <2> QED BY <2>2, <2>3 DEF Run
<1>5. PICK what \in setting.outputs : Locals(t, [r EXCEPT !.outcomes[j].what = what])
  BY DEF Run
<1>6. PICK outcomes : outcomes = [r.outcomes EXCEPT ![j].what = what]
  OBVIOUS
<1>7. [r EXCEPT !.outcomes[j].what = what] = [r EXCEPT !.outcomes = outcomes]
  BY <1>6
<1>8. Locals(t, [r EXCEPT !.outcomes = outcomes])
  BY <1>5, <1>7
<1>9. TurnOK(setting, [r EXCEPT !.outcomes = outcomes], pc[t])
  BY LoopFacts, RunTurnOK
<1>10. pc' = [pc EXCEPT ![t] = pc[t]] /\ pc[t] \in Places
  BY <1>1, LoopFacts
<1> QED BY <1>1, <1>4, <1>8, <1>9, <1>10, OneTurnMoves

\* Collect: the run is broken off exactly if the longer log shows a pattern.
LEMMA CollectStep ==
  ASSUME LoopInv, ApprovalInv', NEW t \in Turns, Collect(t)
  PROVE  LoopInv'
<1> DEFINE r == turn[t]
           size == setting.limits.window
           repeats == setting.limits.repeats
           entries == Entries(t)
           windows == Windows(t, entries)
           verdicts == Verdicts(windows)
           log == r.log \o entries
           detects == setting.limits.detects
           output == Output(entries)
           window == IF windows = <<>> THEN r.window ELSE windows[Len(windows)]
           history == r.history \o Nudges(verdicts) \o <<[role |-> "assistant", calls |-> r.calls]>> \o ToolMessages(t)
<1>1. UNCHANGED <<setting, shared>> /\ pc[t] = "running"
  BY DEF Collect
<1>2. Shared'
  BY <1>1, LoopFacts DEF Shared, shared
<1> DEFINE Outcome(gate) ==
             \/ /\ "break" \in Range(verdicts)
                /\ Goto(t, "running", "stuck") /\ Locals(t, [Gone EXCEPT !.log = log])
             \/ /\ "break" \notin Range(verdicts) /\ gate.alike >= MaxAlike
                /\ Goto(t, "running", "runaway") /\ Locals(t, [Gone EXCEPT !.log = log, !.gate = gate])
             \/ /\ "break" \notin Range(verdicts) /\ gate.alike < MaxAlike /\ Goto(t, "running", "head")
                /\ Locals(t, [r EXCEPT !.iteration = @ + 1, !.log = log, !.gate = gate, !.window = window,
                                       !.history = history, !.calls = <<>>, !.results = <<>>, !.queue = <<>>,
                                       !.outcomes = <<>>])
<1>0. PICK open \in {r.gate.open, setting.limits.gated} :
        Concluded(t, log, windows, verdicts, Heard(r.gate, open, output))
  BY DEF Collect
<1>30. PICK gate : gate = Heard(r.gate, open, output) /\ Concluded(t, log, windows, verdicts, gate)
  BY <1>0
<1>3. gate = Heard(r.gate, open, output) /\ Outcome(gate)
  BY <1>30 DEF Concluded
<1> HIDE DEF Outcome
<1>4. /\ LocalsOK(r) /\ Replied(r, "running") /\ TurnOK(setting, r, "running") /\ r.log \in Seq(Entry)
      /\ IF detects THEN IsEnd(r.window, r.log, Kept(size)) ELSE r.window = <<>>
      /\ detects /\ IsWide(size, repeats) => ~Broken(r.log, repeats)
      /\ size \in Nat /\ repeats \in Nat /\ detects \in BOOLEAN /\ open \in BOOLEAN
      /\ GateOK(r.gate) /\ r.gate.alike < MaxAlike /\ ~Repeated(r.gate.said)
  <2>1. TurnOK(setting, r, "running") /\ setting \in Settings /\ LocalsOK(r)
    BY <1>1, LoopFacts
  <2>2. /\ r.log \in Seq(Entry) /\ IF detects THEN IsEnd(r.window, r.log, Kept(size)) ELSE r.window = <<>>
        /\ detects /\ IsWide(size, repeats) => ~Broken(r.log, repeats)
    BY <2>1 DEF TurnOK, Watched, Halted
  <2>3. GateOK(r.gate) /\ r.gate.alike < MaxAlike /\ ~Repeated(r.gate.said)
    BY <2>1 DEF TurnOK, Listened
  <2>4. r.gate.open \in BOOLEAN
    BY <2>3 DEF GateOK
  <2> QED BY <1>0, <2>1, <2>2, <2>3, <2>4, SettingTypes DEF TurnOK
<1>5. entries \in Seq(Entry)
  BY <1>4, EntriesType
<1>16. GateOK(gate) /\ (gate.alike >= MaxAlike <=> Repeated(gate.said))
  <2>1. output \in Seq(Marks)
    <3> HIDE DEF entries
    <3>1. \A i \in 1 .. Len(entries) : entries[i].result \in Marks
      <4>1. \A i \in 1 .. Len(entries) : entries[i] \in Entry
        BY <1>5
      <4> QED BY <4>1 DEF Entry
    <3>2. output = [i \in 1 .. Len(entries) |-> entries[i].result] /\ Len(entries) \in Nat
      BY <1>5 DEF Output
    <3> QED BY <3>1, <3>2
  <2> HIDE DEF output
  <2> QED BY <1>3, <1>4, <2>1, OneMoreHeard
<1> HIDE DEF entries, size, repeats, detects, output
<1>6. /\ DOMAIN windows = 1 .. Len(entries) /\ Len(windows) = Len(entries) /\ Len(entries) \in Nat
      /\ \A k \in 1 .. Len(entries) : 
           windows[k] = IF detects THEN PushedAll(r.window, SubSeq(entries, 1, k), size) ELSE r.window
  BY <1>5, WindowsAre DEF size, detects
<1> HIDE DEF windows
<1>7. verdicts = [k \in 1 .. Len(entries) |-> Verdict(windows[k], repeats, detects)]
  BY <1>6 DEF Verdicts, repeats, detects
<1>8. "break" \in Range(verdicts) <=>
        detects /\ \E k \in 1 .. Len(entries) : Pattern(PushedAll(r.window, SubSeq(entries, 1, k), size), repeats) = "break"
  <2>1. /\ DOMAIN verdicts = 1 .. Len(entries)
        /\ \A k \in 1 .. Len(entries) :
             verdicts[k] = IF detects THEN Pattern(PushedAll(r.window, SubSeq(entries, 1, k), size), repeats) ELSE "ok"
    BY <1>6, <1>7 DEF Verdict
  <2> HIDE DEF verdicts
  <2> QED BY <2>1 DEF Range
<1>9. detects /\ IsWide(size, repeats) => (Broken(log, repeats) <=> "break" \in Range(verdicts))
  <2> SUFFICES ASSUME detects, IsWide(size, repeats) PROVE Broken(log, repeats) <=> "break" \in Range(verdicts)
    OBVIOUS
  <2>1. Broken(log, repeats) <=> \/ Broken(r.log, repeats)
                                \/ \E k \in 1 .. Len(entries) :
                                     Pattern(PushedAll(r.window, SubSeq(entries, 1, k), size), repeats) = "break"
    BY <1>4, <1>5, BrokenOff
  <2> QED BY <1>4, <1>8, <2>1
<1>10. log \in Seq(Entry)
  BY <1>4, <1>5
<1>11. Nudges(verdicts) \in Seq(Said)
  <2>1. DOMAIN verdicts = 1 .. Len(entries)
    BY <1>7
  <2> QED BY <1>6, <2>1, NudgesType
<1>12. Matched(history)
  <2>1. r.calls \in Seq(Valid) /\ Matched(r.history)
    BY <1>4, LoopFacts DEF LocalsOK
  <2>2. /\ ToolMessages(t) \in Seq(Messages) /\ Len(ToolMessages(t)) = Len(r.calls)
        /\ \A k \in 1 .. Len(r.calls) : Reports(ToolMessages(t)[k], r.calls[k])
    BY <1>4, ToolMessagesReport
  <2> HIDE DEF verdicts
  <2> QED BY <1>11, <2>1, <2>2, HistoryGrows
<1>13. IF detects THEN IsEnd(window, log, Kept(size)) ELSE window = <<>>
  <2>1. CASE Len(entries) = 0
    <3>1. windows = <<>> /\ entries = <<>>
      <4>1. entries = <<>>
        BY <1>5, <2>1
      <4>2. Windows(t, <<>>) = <<>>
        <5>1. DOMAIN <<>> = {} /\ 1 .. 0 = {}
          OBVIOUS
        <5> QED BY <5>1 DEF Windows
      <4> QED BY <4>1, <4>2 DEF windows
    <3>2. log = r.log
      BY <1>4, <3>1
    <3> QED BY <1>4, <3>1, <3>2
  <2>2. CASE Len(entries) # 0
    <3>1. Len(entries) \in 1 .. Len(entries)
      BY <1>6, <2>2
    <3>2. windows # <<>>
      <4>1. DOMAIN windows # {} /\ DOMAIN <<>> = {}
        BY <1>6, <3>1
      <4> QED BY <4>1
    <3>3. SubSeq(entries, 1, Len(entries)) = entries
      BY <1>5
    <3>4. window = IF detects THEN PushedAll(r.window, entries, size) ELSE r.window
      BY <1>6, <3>1, <3>2, <3>3
    <3> HIDE DEF window
    <3>5. detects => IsEnd(PushedAll(r.window, entries, size), log, Kept(size))
      BY <1>4, <1>5, PushedAllIsEnd
    <3> QED BY <1>4, <3>4, <3>5
  <2> QED BY <2>1, <2>2
<1>14. CASE "break" \in Range(verdicts) /\ Goto(t, "running", "stuck") /\ Locals(t, [Gone EXCEPT !.log = log])
  <2>1. detects /\ (IsWide(size, repeats) => Broken(log, repeats))
    BY <1>8, <1>9, <1>14
  <2> HIDE DEF log, verdicts
  <2>2. TurnOK(setting, [Gone EXCEPT !.log = log], "stuck")
    BY <1>10, <2>1, LoopFacts, StuckTurnOK DEF size, repeats, detects
  <2>3. "stuck" \in Places
    BY DEF Places, Ended
  <2> QED BY <1>1, <1>2, <1>14, <2>2, <2>3, OneTurnMoves DEF Goto
<1>15. CASE /\ "break" \notin Range(verdicts) /\ gate.alike < MaxAlike /\ Goto(t, "running", "head")
            /\ Locals(t, [r EXCEPT !.iteration = @ + 1, !.log = log, !.gate = gate, !.window = window,
                                   !.history = history, !.calls = <<>>, !.results = <<>>, !.queue = <<>>,
                                   !.outcomes = <<>>])
  <2>1. detects /\ IsWide(size, repeats) => ~Broken(log, repeats)
    BY <1>9, <1>15
  <2>0. ~Repeated(gate.said)
    <3>1. gate.alike \in Nat /\ MaxAlike = 3
      BY <1>16 DEF GateOK, MaxAlike
    <3>2. ~(gate.alike >= MaxAlike)
      BY <1>15, <3>1
    <3> QED BY <1>16, <3>2
  <2> HIDE DEF log, verdicts, window, history
  <2>2. TurnOK(setting, [r EXCEPT !.iteration = @ + 1, !.log = log, !.gate = gate, !.window = window,
                                  !.history = history, !.calls = <<>>, !.results = <<>>, !.queue = <<>>,
                                  !.outcomes = <<>>], "head")
    BY <1>4, <1>10, <1>12, <1>13, <1>15, <1>16, <2>0, <2>1, LoopFacts, CollectedTurnOK DEF size, repeats, detects
  <2> QED BY <1>1, <1>2, <1>15, <2>2, OneTurnMoves, PlacesAre DEF Goto
<1>17. CASE /\ "break" \notin Range(verdicts) /\ gate.alike >= MaxAlike
            /\ Goto(t, "running", "runaway") /\ Locals(t, [Gone EXCEPT !.log = log, !.gate = gate])
  <2>1. detects /\ IsWide(size, repeats) => ~Broken(log, repeats)
    BY <1>9, <1>17
  <2>2. Repeated(gate.said)
    BY <1>16, <1>17
  <2> HIDE DEF log, verdicts
  <2>3. TurnOK(setting, [Gone EXCEPT !.log = log, !.gate = gate], "runaway")
    BY <1>10, <2>1, <2>2, LoopFacts, RunawayTurnOK DEF size, repeats, detects
  <2>4. "runaway" \in Places
    BY DEF Places, Ended
  <2> QED BY <1>1, <1>2, <1>17, <2>3, <2>4, OneTurnMoves DEF Goto
<1> QED BY <1>3, <1>14, <1>15, <1>17 DEF Outcome

\* Cancel, Interrupted and the timeouts:
LEMMA OutsideStep ==
  ASSUME LoopInv, ApprovalInv', NEW t \in Turns, Cancel(t) \/ Interrupted(t) \/ StepTimesOut(t) \/ TimesOut(t)
  PROVE  LoopInv'
<1>1. CASE Cancel(t)
  <2>1. UNCHANGED <<setting, pc, turn, home, request, allowlist, requests>> /\ cancelled' = cancelled \cup {t}
    BY <1>1 DEF Cancel
  <2>2. Shared'
    BY <2>1, LoopFacts DEF Shared
  <2> QED BY <2>1, <2>2 DEF LoopInv
<1>2. CASE Interrupted(t) \/ StepTimesOut(t) \/ TimesOut(t)
  <2>1. /\ UNCHANGED <<setting, shared>> /\ Locals(t, Gone)
        /\ \E to \in {"cancelled", "failed", "timed out"} : pc' = [pc EXCEPT ![t] = to]
    BY <1>2 DEF Interrupted, StepTimesOut, TimesOut, Goto
  <2>2. Shared'
    BY <2>1, LoopFacts DEF Shared, shared
  <2> QED BY <2>1, <2>2, EndStep, PlacesAre
<1> QED BY <1>1, <1>2

\* The invariant of the loop holds at the start,
LEMMA LoopInvInit ==
  ASSUME Init
  PROVE  LoopInv
<1>1. ApprovalInv
  BY InvInit
<1>2. setting \in Settings /\ home = setting.home /\ turn = [t \in Turns |-> Fresh(<<>>, setting.home)]
  BY DEF Init
<1>3. Shared
  BY <1>2, SettingTypes, AgentConstants DEF Init, Shared
<1>4. pc \in [Turns -> Places] /\ \A t \in Turns : pc[t] = "waiting"
  BY PlacesAre DEF Init
<1>5. \A t \in Turns : TurnOK(setting, turn[t], pc[t])
  BY <1>2, <1>4, GoneTurnOK DEF Gone
<1> QED BY <1>1, <1>3, <1>4, <1>5 DEF LoopInv

\* and every step keeps it.
LEMMA LoopInvStep ==
  ASSUME LoopInv, [Next]_vars
  PROVE  LoopInv'
<1>1. ApprovalInv'
  BY InvStep DEF LoopInv
<1>2. CASE Day \/ UNCHANGED vars
  <2>1. UNCHANGED agentVars
    BY <1>2 DEF Day, vars
  <2> QED BY <1>1, <2>1 DEF agentVars, LoopInv, Shared
<1>3. CASE \E t \in Turns : Begin(t) \/ Step(t) \/ Cancel(t) \/ Interrupted(t) \/ StepTimesOut(t) \/ TimesOut(t)
  BY <1>1, <1>3, BeginStep, TopStep, SwitchStep, SwitchFailsStep, BudgetStep, AttemptStep, AnswerStep, SummaryStep,
     DecideStep, AllDecidedStep, RunStep, CollectStep, OutsideStep DEF Step
<1> QED BY <1>2, <1>3 DEF Next

-----------------------------------------------------------------------------
(* The largest cost, and the sum of a month.                               *)

\* Products of naturals grow with their first factor.
LEMMA ProductGrows ==
  ASSUME NEW a \in Nat, NEW b \in Nat, NEW m \in Nat, a <= b
  PROVE  a * m \in Nat /\ b * m \in Nat /\ a * m <= b * m /\ (a + 1) * m = a * m + m
OBVIOUS

\* Days in order are in months in order.
LEMMA DivGrows ==
  ASSUME NEW a \in Nat, NEW b \in Nat, NEW d \in Nat \ {0}, a <= b
  PROVE  a \div d \in Nat /\ b \div d \in Nat /\ a \div d <= b \div d
OBVIOUS

\* A finite set of naturals has a bound.
LEMMA FiniteBounded ==
  ASSUME NEW S \in SUBSET Nat, IsFiniteSet(S)
  PROVE  \E n \in Nat : \A x \in S : x <= n
<1> DEFINE P == {s \in SUBSET S : \E n \in Nat : \A x \in s : x <= n}
<1>1. {} \in P
  OBVIOUS
<1>2. ASSUME NEW s \in SUBSET S, NEW x \in s, s \ {x} \in P PROVE s \in P
  <2>1. PICK n \in Nat : \A y \in s \ {x} : y <= n
    BY <1>2
  <2>2. PICK m \in Nat : m >= n /\ m >= x
    <3>1. x \in Nat /\ n + x \in Nat /\ n + x >= n /\ n + x >= x
      OBVIOUS
    <3> QED BY <3>1
  <2>3. ASSUME NEW y \in s PROVE y <= m
    <3>1. y \in Nat /\ (y = x \/ y <= n)
      BY <2>1
    <3> QED BY <2>2, <3>1
  <2> QED BY <2>3
<1>3. \A s \in SUBSET S : s # {} => \E x \in s : s \ {x} \in P => s \in P
  BY <1>2
<1> HIDE DEF P
<1>4. SUBSET S \subseteq P
  BY <1>1, <1>3, SubsetInduction
<1> QED BY <1>4 DEF P

\* No cost exceeds MaxCost.
LEMMA MaxCostIs ==
  ASSUME setting \in Settings
  PROVE  MaxCost \in Nat /\ \A c \in setting.costs : c \in Nat /\ c <= MaxCost
<1> DEFINE S == setting.costs \cup {0}
<1>1. S \in SUBSET Nat /\ IsFiniteSet(S) /\ S # {}
  <2>1. setting.costs \subseteq Nat /\ IsFiniteSet(setting.costs)
    BY AgentConstants
  <2>2. IsFiniteSet(S)
    BY <2>1, FS_AddElement
  <2> QED BY <2>1, <2>2
<1>2. PICK n \in Nat : \A x \in S : x <= n
  BY <1>1, FiniteBounded
<1>3. MaxCost = Max(S)
  BY DEF MaxCost
<1>4. Max(S) \in S /\ \A x \in S : Max(S) >= x
  <2> HIDE DEF S
  <2> QED BY <1>1, <1>2, MaxIs
<1> HIDE DEF S
<1>5. MaxCost \in Nat /\ \A x \in S : x \in Nat /\ x <= MaxCost
  BY <1>1, <1>3, <1>4
<1> QED BY <1>5 DEF S

(* The days of a month.                                                    *)
Month(day) == {d \in Days : SameMonth(d, day)}

\* MonthOf is the sum over the days of the month.
LEMMA MonthIs ==
  ASSUME NEW records, NEW day
  PROVE  MonthOf(records, day) = SumOf(records, Month(day)) /\ IsFiniteSet(Month(day))
<1>1. MonthOf(records, day) = SumOf(records, Month(day))
  BY DEF MonthOf, SumOf, Month
<1>2. IsFiniteSet(Days) /\ Month(day) \subseteq Days
  BY CostConstants, FS_Interval DEF Days, Month
<1> QED BY <1>1, <1>2, FS_Subset

\* It is a natural number,
LEMMA MonthType ==
  ASSUME NEW records \in [Days -> Nat], NEW day
  PROVE  MonthOf(records, day) \in Nat
<1>1. \A d \in Month(day) : records[d] \in Nat
  BY DEF Month
<1>2. PICK g : SumsOf(g, records, Month(day)) /\ SumOf(records, Month(day)) = g[Month(day)]
  BY <1>1, MonthIs, SumsExist
<1>3. g[Month(day)] \in Nat
  BY <1>2 DEF SumsOf
<1> QED BY <1>2, <1>3, MonthIs

\* and the same on all days of a month.
LEMMA SameMonthSum ==
  ASSUME NEW records, NEW d \in Days, NEW e \in Days, SameMonth(d, e)
  PROVE  MonthOf(records, d) = MonthOf(records, e) /\ Month(d) = Month(e)
<1>1. Month(d) = Month(e)
  BY DEF Month, SameMonth
<1> QED BY <1>1, MonthIs

(* A record counts for the sums of its month.                              *)
LEMMA MonthGrows ==
  ASSUME NEW records \in [Days -> Nat], NEW more, NEW day \in Days, NEW cost \in Nat,
         Grows(more, records, Days, day, cost), NEW d \in Days
  PROVE  MonthOf(more, d) = MonthOf(records, d) + IF SameMonth(day, d) THEN cost ELSE 0
<1> DEFINE S == Month(d)
<1>1. Grows(more, records, S, day, cost) /\ (day \in S <=> SameMonth(day, d))
  BY DEF Month, Grows
<1> HIDE DEF S
<1>2. IsFiniteSet(S) /\ MonthOf(records, d) = SumOf(records, S) /\ MonthOf(more, d) = SumOf(more, S)
  BY MonthIs DEF S
<1>3. SumOf(more, S) = SumOf(records, S) + IF day \in S THEN cost ELSE 0
  BY <1>1, <1>2, SumGrows
<1>4. MonthOf(records, d) \in Nat
  BY MonthType
<1> QED BY <1>1, <1>2, <1>3, <1>4

-----------------------------------------------------------------------------
(* The budget.                                                             *)

\* The turns whose model is being asked.
Calling == {t \in Turns : pc[t] = "calling"}
\* What may be recorded beyond a limit,
Most == Cardinality(setting.turns) * MaxCost
\* and the part of it that the calls under way may still use up.
Open == Cardinality(Calling) * MaxCost

(* The records may not exceed a limit by more than the calls under way leave. *)
Records ==
  /\ \A d \in Days : /\ d > today => file[d] = 0
                     /\ file[d] <= DailyLimit + Most
                     /\ MonthOf(file, d) <= MonthlyLimit + Most
  /\ file[today] + Open <= DailyLimit + Most
  /\ MonthOf(file, today) + Open <= MonthlyLimit + Most

\* The sums are of no later day, and those of today do not fall short of the records.
Sums ==
  /\ cached.day <= today
  /\ cached.day = today => cached.daily >= file[today] /\ cached.monthly >= MonthOf(file, today)

\* The invariant of the budget.
SpendInv ==
  /\ setting \in Settings /\ pc \in [Turns -> Places]
  /\ \A t \in Turns : Active(t) => t \in setting.turns
  /\ CostTypeOK /\ Records /\ Sums

\* No more turns call than there are.
LEMMA CallingCount ==
  ASSUME setting \in Settings, NEW C \in SUBSET setting.turns
  PROVE  /\ Cardinality(C) \in Nat /\ Cardinality(setting.turns) \in Nat /\ Cardinality(C) <= Cardinality(setting.turns)
         /\ Cardinality(C) * MaxCost \in Nat /\ Most \in Nat /\ Cardinality(C) * MaxCost <= Most
<1>1. IsFiniteSet(setting.turns)
  BY AgentConstants, FS_Subset
<1>2. /\ Cardinality(C) \in Nat /\ Cardinality(setting.turns) \in Nat /\ Cardinality(C) <= Cardinality(setting.turns)
  BY <1>1, FS_Subset, FS_CardinalityType
<1>3. MaxCost \in Nat
  BY MaxCostIs
<1> QED BY <1>2, <1>3, ProductGrows DEF Most

\* What the invariant says of types.
LEMMA SpendFacts ==
  ASSUME SpendInv
  PROVE  /\ today \in Days /\ today \in Nat /\ file \in [Days -> Nat] /\ DailyLimit \in Nat /\ MonthlyLimit \in Nat
         /\ cached.day \in Nat /\ cached.daily \in Nat /\ cached.monthly \in Nat
         /\ Calling \in SUBSET setting.turns /\ Open \in Nat /\ Most \in Nat /\ Open <= Most
         /\ \A d \in Days : MonthOf(file, d) \in Nat /\ d \in Nat
<1>1. today \in Days /\ file \in [Days -> Nat] /\ cached \in [day : Days, daily : Nat, monthly : Nat]
  BY DEF SpendInv, CostTypeOK
<1>2. Days \subseteq Nat /\ DailyLimit \in Nat /\ MonthlyLimit \in Nat
  BY CostConstants DEF Days
<1>3. Calling \in SUBSET setting.turns
  BY DEF SpendInv, Calling, Active, Ended
<1>4. Open \in Nat /\ Most \in Nat /\ Open <= Most
  BY <1>3, CallingCount DEF SpendInv, Open
<1>5. \A d \in Days : MonthOf(file, d) \in Nat
  BY <1>1, MonthType
<1>6. cached.day \in Nat /\ cached.daily \in Nat /\ cached.monthly \in Nat
  BY <1>1, <1>2
<1> QED BY <1>1, <1>2, <1>3, <1>4, <1>5, <1>6

(* Fewer calls under way leave less room to be used up.                    *)
LEMMA FewerCalling ==
  ASSUME SpendInv, UNCHANGED setting, Calling' \subseteq Calling
  PROVE  Open' \in Nat /\ Open' <= Open /\ Most' = Most
<1>1. Calling \in SUBSET setting.turns /\ setting \in Settings
  BY SpendFacts DEF SpendInv
<1>2. IsFiniteSet(Calling)
  <2>1. IsFiniteSet(setting.turns)
    BY <1>1, AgentConstants, FS_Subset
  <2> QED BY <1>1, <2>1, FS_Subset
<1>3. Cardinality(Calling') <= Cardinality(Calling) /\ Cardinality(Calling') \in Nat /\ Cardinality(Calling) \in Nat
  BY <1>2, FS_Subset, FS_CardinalityType
<1>4. MaxCost' = MaxCost /\ MaxCost \in Nat
  BY <1>1, MaxCostIs DEF MaxCost
<1>5. Most' = Most
  BY <1>4 DEF Most
<1>6. Open' = Cardinality(Calling') * MaxCost
  BY <1>4 DEF Open
<1>7. Cardinality(Calling') * MaxCost \in Nat /\ Cardinality(Calling') * MaxCost <= Cardinality(Calling) * MaxCost
  BY <1>3, <1>4, ProductGrows
<1> QED BY <1>5, <1>6, <1>7 DEF Open

\* Records that stay, with no more calls under way.
LEMMA RecordsStay ==
  ASSUME SpendInv, UNCHANGED <<setting, today, file>>, Calling' \subseteq Calling
  PROVE  Records'
<1>1. Open' \in Nat /\ Open' <= Open /\ Most' = Most
  BY FewerCalling
<1>2. file[today] + Open <= DailyLimit + Most /\ MonthOf(file, today) + Open <= MonthlyLimit + Most
  BY DEF SpendInv, Records
<1>3. /\ today \in Days /\ file[today] \in Nat /\ MonthOf(file, today) \in Nat /\ Open \in Nat /\ Most \in Nat
      /\ DailyLimit \in Nat /\ MonthlyLimit \in Nat
  BY SpendFacts
<1>4. file[today] + Open' <= DailyLimit + Most /\ MonthOf(file, today) + Open' <= MonthlyLimit + Most
  BY <1>1, <1>2, <1>3
<1> QED BY <1>1, <1>4 DEF SpendInv, Records

(* A step that leaves the tracker alone and starts no call.                *)
LEMMA IdleStep ==
  ASSUME SpendInv, pc' \in [Turns -> Places], UNCHANGED <<setting, costVars>>,
         \A t \in Turns : pc'[t] = pc[t] \/ pc'[t] \in Ended \/ (pc'[t] # "calling" /\ t \in setting.turns)
  PROVE  SpendInv'
<1>1. UNCHANGED <<setting, today, file, cached>>
  BY DEF costVars
<1>2. Calling' \subseteq Calling
  BY DEF Calling, Ended
<1>3. Records'
  BY <1>1, <1>2, RecordsStay
<1>4. \A t \in Turns : Active(t)' => t \in setting.turns
  BY DEF SpendInv, Active
<1>5. Sums' /\ CostTypeOK'
  BY <1>1 DEF SpendInv, Sums, CostTypeOK
<1> QED BY <1>1, <1>3, <1>4, <1>5 DEF SpendInv

\* The check brings the sums up to date.
LEMMA CheckedSums ==
  ASSUME SpendInv, Check
  PROVE  /\ UNCHANGED <<today, file>> /\ CostTypeOK' /\ Sums'
         /\ cached'.daily >= file[today] /\ cached'.monthly >= MonthOf(file, today)
         /\ cached'.daily \in Nat /\ cached'.monthly \in Nat
<1>1. UNCHANGED <<today, file>> /\ cached' = Current(file)
  BY DEF Check
<1>2. CASE cached.day = today
  <2>1. cached' = cached
    BY <1>1, <1>2 DEF Current
  <2> QED BY <1>1, <1>2, <2>1, SpendFacts DEF SpendInv, CostTypeOK, Sums
<1>3. CASE cached.day # today
  <2>1. cached' = [day |-> today, daily |-> file[today], monthly |-> MonthOf(file, today)]
    BY <1>1, <1>3 DEF Current, Rebuilt
  <2>2. file[today] \in Nat /\ MonthOf(file, today) \in Nat /\ today \in Days /\ today \in Nat
    BY SpendFacts
  <2>3. cached' \in [day : Days, daily : Nat, monthly : Nat]
    BY <2>1, <2>2
  <2>4. cached'.day = today /\ cached'.daily = file[today] /\ cached'.monthly = MonthOf(file, today)
    BY <2>1
  <2> QED BY <1>1, <2>2, <2>3, <2>4 DEF SpendInv, CostTypeOK, Sums
<1> QED BY <1>2, <1>3

\* CheckBudget: the records are within the limits when a call starts, so that all calls under
\* way fit into what is left.
LEMMA CheckStep ==
  ASSUME SpendInv, NEW t \in Turns, CheckBudget(t), pc' \in [Turns -> Places]
  PROVE  SpendInv'
<1>1. Check /\ UNCHANGED <<setting, shared>> /\ pc[t] = "spending"
  BY DEF CheckBudget
<1>2. /\ UNCHANGED <<today, file>> /\ CostTypeOK' /\ Sums'
      /\ cached'.daily >= file[today] /\ cached'.monthly >= MonthOf(file, today)
      /\ cached'.daily \in Nat /\ cached'.monthly \in Nat
  BY <1>1, CheckedSums
<1>3. t \in setting.turns
  BY <1>1 DEF SpendInv, Active, Ended
<1>4. \A u \in Turns : u # t => pc'[u] = pc[u]
  BY DEF CheckBudget, Goto, SpendInv
<1>5. \A u \in Turns : Active(u)' => u \in setting.turns
  BY <1>3, <1>4 DEF SpendInv, Active
<1>6. Records'
  <2>1. CASE Exceeded(cached')
    <3>1. pc' = [pc EXCEPT ![t] = "over budget"]
      BY <2>1 DEF CheckBudget, Goto
    <3>2. Calling' \subseteq Calling
      BY <1>4, <3>1 DEF Calling, SpendInv
    <3> QED BY <1>1, <1>2, <3>2, RecordsStay
  <2>2. CASE ~Exceeded(cached')
    <3>1. file[today] <= DailyLimit /\ MonthOf(file, today) <= MonthlyLimit
      <4>1. ~(cached'.daily > DailyLimit) /\ ~(cached'.monthly > MonthlyLimit)
        BY <2>2 DEF Exceeded
      <4> QED BY <1>2, <4>1, SpendFacts
    <3>2. Calling' \in SUBSET setting.turns
      BY <1>5 DEF Calling, Active, Ended
    <3>3. /\ Cardinality(Calling') * MaxCost \in Nat /\ Most \in Nat /\ Cardinality(Calling') * MaxCost <= Most
      BY <3>2, CallingCount DEF SpendInv
    <3>4. Open' = Cardinality(Calling') * MaxCost /\ Most' = Most
      BY <1>1 DEF Open, Most, MaxCost
    <3>5. today \in Days /\ file[today] \in Nat /\ MonthOf(file, today) \in Nat /\ DailyLimit \in Nat /\ MonthlyLimit \in Nat
      BY SpendFacts
    <3>6. file[today] + Open' <= DailyLimit + Most /\ MonthOf(file, today) + Open' <= MonthlyLimit + Most
      BY <3>1, <3>3, <3>4, <3>5
    <3> QED BY <1>2, <3>4, <3>6 DEF SpendInv, Records
  <2> QED BY <2>1, <2>2
<1> QED BY <1>1, <1>2, <1>5, <1>6 DEF SpendInv

\* Answer: the call uses up its own share and leaves those of the others.
LEMMA AnsweredStep ==
  ASSUME SpendInv, NEW t \in Turns, NEW reply, NEW cost \in setting.costs, Answer(t, reply, cost), pc' \in [Turns -> Places]
  PROVE  SpendInv'
<1>1. UNCHANGED <<setting, shared>> /\ pc[t] = "calling" /\ Charged(cost)
  BY DEF Answer
<1>2. \A u \in Turns : u # t => pc'[u] = pc[u]
  BY DEF Answer, Goto, SpendInv
<1>3. pc'[t] # "calling"
  <2>1. \E to \in {"answered", "cancelled", "deciding"} : pc' = [pc EXCEPT ![t] = to]
    BY DEF Answer, Goto
  <2> QED BY <2>1 DEF SpendInv
<1>4. t \in setting.turns
  BY <1>1 DEF SpendInv, Active, Ended
<1>5. CASE cost = 0
  <2>1. UNCHANGED costVars
    BY <1>1, <1>5 DEF Charged
  <2> QED BY <1>1, <1>2, <1>3, <1>4, <2>1, IdleStep
<1>6. CASE cost # 0
  <2> DEFINE records == [file EXCEPT ![today] = @ + cost]
  <2>1. Record(cost)
    BY <1>1, <1>6 DEF Charged
  <2>2. cost \in Nat /\ cost <= MaxCost /\ MaxCost \in Nat
    BY MaxCostIs DEF SpendInv
  <2>3. file' = records /\ UNCHANGED today
    BY <2>1 DEF Record
  <2>4. /\ today \in Days /\ today \in Nat /\ file \in [Days -> Nat] /\ DailyLimit \in Nat /\ MonthlyLimit \in Nat
        /\ Open \in Nat /\ Most \in Nat /\ \A d \in Days : MonthOf(file, d) \in Nat /\ d \in Nat
    BY SpendFacts
  <2>5. /\ file' \in [Days -> Nat] /\ file'[today] = file[today] + cost /\ \A d \in Days \ {today} : file'[d] = file[d]
        /\ \A d \in Days : /\ SameMonth(today, d) => MonthOf(file', d) = MonthOf(file, d) + cost
                           /\ ~SameMonth(today, d) => MonthOf(file', d) = MonthOf(file, d)
    <3>1. /\ file' \in [Days -> Nat] /\ file'[today] = file[today] + cost
          /\ \A d \in Days \ {today} : file'[d] = file[d]
      BY <2>2, <2>3, <2>4
    <3>2. Grows(file', file, Days, today, cost)
      BY <2>4, <3>1 DEF Grows
    <3>3. \A d \in Days : MonthOf(file', d) = MonthOf(file, d) + IF SameMonth(today, d) THEN cost ELSE 0
      BY <2>2, <2>4, <3>2, MonthGrows
    <3> QED BY <2>4, <3>1, <3>3
  <2> HIDE DEF records
  <2>6. SameMonth(today, today)
    BY DEF SameMonth
  <2>7. Open' + cost <= Open /\ Open' \in Nat /\ Most' = Most
    <3>1. IsFiniteSet(Calling) /\ t \in Calling /\ Calling' = Calling \ {t}
      <4>1. IsFiniteSet(Calling)
        BY AgentConstants, FS_Subset DEF Calling
      <4>2. Calling' = Calling \ {t}
        BY <1>2, <1>3 DEF Calling
      <4> QED BY <1>1, <4>1, <4>2 DEF Calling
    <3>2. Cardinality(Calling) = Cardinality(Calling') + 1 /\ Cardinality(Calling') \in Nat /\ Cardinality(Calling) \in Nat
      <4>1. Cardinality(Calling') = Cardinality(Calling) - 1 /\ IsFiniteSet(Calling')
        BY <3>1, FS_RemoveElement
      <4> QED BY <3>1, <4>1, FS_CardinalityType
    <3>3. /\ Cardinality(Calling) * MaxCost = Cardinality(Calling') * MaxCost + MaxCost
          /\ Cardinality(Calling') * MaxCost \in Nat
      BY <2>2, <3>2, ProductGrows
    <3>4. Open' = Cardinality(Calling') * MaxCost /\ Most' = Most
      BY <1>1 DEF Open, Most, MaxCost
    <3> QED BY <2>2, <3>3, <3>4 DEF Open
  <2>8. file[today] + Open <= DailyLimit + Most /\ MonthOf(file, today) + Open <= MonthlyLimit + Most
    BY DEF SpendInv, Records
  <2>9. file'[today] + Open' <= DailyLimit + Most /\ MonthOf(file', today) + Open' <= MonthlyLimit + Most
    <3>1. MonthOf(file', today) = MonthOf(file, today) + cost
      BY <2>4, <2>5, <2>6
    <3>2. file[today] \in Nat /\ MonthOf(file, today) \in Nat
      BY <2>4
    <3> QED BY <2>2, <2>4, <2>5, <2>7, <2>8, <3>1, <3>2
  <2>10. ASSUME NEW d \in Days
         PROVE  /\ d > today => file'[d] = 0
                /\ file'[d] <= DailyLimit + Most /\ MonthOf(file', d) <= MonthlyLimit + Most
    <3>1. (d > today => file[d] = 0) /\ file[d] <= DailyLimit + Most /\ MonthOf(file, d) <= MonthlyLimit + Most
      BY DEF SpendInv, Records
    <3>2. file'[d] <= DailyLimit + Most /\ (d > today => file'[d] = 0)
      <4>1. CASE d = today
        <5>1. file'[today] \in Nat
          BY <2>4, <2>5
        <5> QED BY <2>4, <2>7, <2>9, <4>1, <5>1
      <4>2. CASE d # today
        BY <2>5, <3>1, <4>2
      <4> QED BY <4>1, <4>2
    <3>3. MonthOf(file', d) <= MonthlyLimit + Most
      <4>1. CASE SameMonth(today, d)
        <5>1. MonthOf(file', today) = MonthOf(file', d) /\ MonthOf(file', d) \in Nat
          BY <2>4, <2>5, <4>1, SameMonthSum, MonthType
        <5> QED BY <2>4, <2>7, <2>9, <5>1
      <4>2. CASE ~SameMonth(today, d)
        BY <2>5, <3>1, <4>2
      <4> QED BY <4>1, <4>2
    <3> QED BY <3>2, <3>3
  <2>11. Records'
    BY <2>3, <2>7, <2>9, <2>10 DEF Records
  <2>12. CostTypeOK' /\ Sums'
    <3> DEFINE sums == Current(file')
    <3>1. cached' = [sums EXCEPT !.daily = @ + cost, !.monthly = @ + cost]
      BY <2>1, <2>3 DEF Record, records
    <3>2. /\ sums \in [day : Days, daily : Nat, monthly : Nat] /\ sums.day = today
          /\ sums.daily + cost >= file'[today] /\ sums.monthly + cost >= MonthOf(file', today)
      <4>1. MonthOf(file', today) = MonthOf(file, today) + cost /\ MonthOf(file', today) \in Nat /\ file'[today] \in Nat
        BY <2>4, <2>5, <2>6, MonthType
      <4>2. CASE cached.day = today
        <5>1. sums = cached
          BY <4>2 DEF Current
        <5>2. /\ cached.daily >= file[today] /\ cached.monthly >= MonthOf(file, today)
              /\ cached.daily \in Nat /\ cached.monthly \in Nat
          BY <4>2, SpendFacts DEF SpendInv, Sums
        <5>3. file[today] \in Nat /\ MonthOf(file, today) \in Nat
          BY <2>4
        <5>4. cached \in [day : Days, daily : Nat, monthly : Nat]
          BY DEF SpendInv, CostTypeOK
        <5>5. cached.daily + cost >= file'[today] /\ cached.monthly + cost >= MonthOf(file', today)
          BY <2>2, <2>5, <4>1, <5>2, <5>3
        <5> QED BY <4>2, <5>1, <5>4, <5>5
      <4>3. CASE cached.day # today
        <5>1. sums = [day |-> today, daily |-> file'[today], monthly |-> MonthOf(file', today)]
          BY <4>3 DEF Current, Rebuilt
        <5> HIDE DEF sums
        <5>2. /\ sums.day = today /\ sums.daily = file'[today] /\ sums.monthly = MonthOf(file', today)
              /\ sums \in [day : Days, daily : Nat, monthly : Nat]
          BY <2>4, <4>1, <5>1
        <5> QED BY <2>2, <4>1, <5>2
      <4> QED BY <4>2, <4>3
    <3> HIDE DEF sums
    <3>3. /\ cached'.day = today /\ cached'.daily = sums.daily + cost /\ cached'.monthly = sums.monthly + cost
          /\ cached' \in [day : Days, daily : Nat, monthly : Nat]
      <4>1. PICK v \in Nat, w \in Nat : v = sums.daily + cost /\ w = sums.monthly + cost
        BY <2>2, <3>2
      <4>2. cached' = [sums EXCEPT !.daily = v, !.monthly = w]
        BY <3>1, <4>1
      <4>3. /\ cached'.day = sums.day /\ cached'.daily = v /\ cached'.monthly = w
            /\ cached' \in [day : Days, daily : Nat, monthly : Nat]
        BY <3>2, <4>2
      <4> QED BY <3>2, <4>1, <4>3
    <3> QED BY <2>3, <2>4, <2>5, <3>2, <3>3 DEF CostTypeOK, Sums
  <2>13. \A u \in Turns : Active(u)' => u \in setting.turns
    BY <1>2, <1>4 DEF SpendInv, Active
  <2> QED BY <1>1, <2>11, <2>12, <2>13 DEF SpendInv
<1> QED BY <1>5, <1>6

\* The day ends: nothing is recorded for the next, and its month is this one or a new one.
LEMMA NewDayStep ==
  ASSUME SpendInv, NewDay, UNCHANGED agentVars
  PROVE  SpendInv'
<1>1. UNCHANGED <<setting, pc>> /\ today < MaxDay /\ today' = today + 1 /\ UNCHANGED <<file, cached>>
  BY DEF NewDay, agentVars
<1>2. /\ today \in Days /\ today \in Nat /\ file \in [Days -> Nat] /\ DailyLimit \in Nat /\ MonthlyLimit \in Nat
      /\ Open \in Nat /\ Most \in Nat /\ Open <= Most /\ \A d \in Days : MonthOf(file, d) \in Nat /\ d \in Nat
      /\ cached.day \in Nat
  BY SpendFacts
<1>3. today + 1 \in Days
  BY <1>1, <1>2, CostConstants DEF Days
<1>4. Open' = Open /\ Most' = Most
  BY <1>1 DEF Open, Most, MaxCost, Calling
<1>5. /\ \A d \in Days : /\ d > today => file[d] = 0
                         /\ file[d] <= DailyLimit + Most /\ MonthOf(file, d) <= MonthlyLimit + Most
      /\ file[today] + Open <= DailyLimit + Most /\ MonthOf(file, today) + Open <= MonthlyLimit + Most
  BY DEF SpendInv, Records
<1>6. file[today + 1] + Open <= DailyLimit + Most
  <2>1. file[today + 1] = 0
    BY <1>2, <1>3, <1>5
  <2> QED BY <1>2, <2>1
<1>7. MonthOf(file, today + 1) + Open <= MonthlyLimit + Most
  <2>1. CASE SameMonth(today, today + 1)
    <3>1. MonthOf(file, today + 1) = MonthOf(file, today)
      BY <1>2, <1>3, <2>1, SameMonthSum
    <3> QED BY <1>5, <3>1
  <2>2. CASE ~SameMonth(today, today + 1)
    <3>1. ASSUME NEW d \in Month(today + 1) PROVE file[d] = 0
      <4>1. d \in Days /\ d \in Nat /\ d \div DaysPerMonth = (today + 1) \div DaysPerMonth
        BY <1>2 DEF Month, SameMonth
      <4>2. d > today
        <5> SUFFICES ASSUME d <= today PROVE FALSE
          BY <1>2, <4>1
        <5>1. PICK u \in Nat : u = today + 1
          BY <1>2
        <5>2. today <= u
          BY <1>2, <5>1
        <5>3. /\ d \div DaysPerMonth <= today \div DaysPerMonth
              /\ d \div DaysPerMonth \in Nat /\ today \div DaysPerMonth \in Nat
          BY <1>2, <4>1, CostConstants, DivGrows
        <5>4. today \div DaysPerMonth <= u \div DaysPerMonth
          BY <1>2, <5>1, <5>2, CostConstants, DivGrows
        <5>5. d \div DaysPerMonth = u \div DaysPerMonth /\ ~(today \div DaysPerMonth = u \div DaysPerMonth)
          BY <2>2, <4>1, <5>1 DEF SameMonth
        <5>6. PICK a, b, c \in Nat : a = d \div DaysPerMonth /\ b = today \div DaysPerMonth /\ c = u \div DaysPerMonth
          BY <5>3, <5>5
        <5>7. a <= b /\ b <= c /\ a = c /\ b # c
          BY <5>3, <5>4, <5>5, <5>6
        <5> QED BY <5>7
      <4> QED BY <1>5, <4>1, <4>2
    <3>2. SumOf(file, Month(today + 1)) = 0
      BY <3>1, MonthIs, SumOfNothing
    <3>3. MonthOf(file, today + 1) = 0
      BY <3>2, MonthIs
    <3> QED BY <1>2, <3>3
  <2> QED BY <2>1, <2>2
<1>8. Records'
  <2>1. \A d \in Days : d > today' => d > today
    BY <1>1, <1>2
  <2> QED BY <1>1, <1>4, <1>5, <1>6, <1>7, <2>1 DEF Records
<1>9. Sums'
  <2>1. cached.day <= today
    BY DEF SpendInv, Sums
  <2>2. cached.day <= today + 1 /\ cached.day # today + 1
    BY <1>2, <2>1
  <2> QED BY <1>1, <2>2 DEF Sums
<1>10. CostTypeOK'
  BY <1>1, <1>3 DEF SpendInv, CostTypeOK
<1> QED BY <1>1, <1>8, <1>9, <1>10 DEF SpendInv, Active

\* The invariant of the budget holds at the start,
LEMMA SpendInit ==
  ASSUME Init
  PROVE  SpendInv
<1>1. setting \in Settings /\ pc = [t \in Turns |-> "waiting"] /\ today = 0 /\ file = [d \in Days |-> 0]
      /\ cached = [day |-> 0, daily |-> 0, monthly |-> 0]
  BY DEF Init, CostInit
<1>2. 0 \in Days /\ Days \subseteq Nat /\ DailyLimit \in Nat /\ MonthlyLimit \in Nat
  BY CostConstants DEF Days
<1>3. CostTypeOK
  BY <1>1, <1>2 DEF CostTypeOK
<1>4. \A d \in Days : MonthOf(file, d) = 0
  <2> TAKE d \in Days
  <2>1. \A e \in Month(d) : file[e] = 0
    BY <1>1 DEF Month
  <2> QED BY <2>1, MonthIs, SumOfNothing
<1>5. Calling = {} /\ \A t \in Turns : ~Active(t)
  BY <1>1 DEF Calling, Active
<1>6. Open \in Nat /\ Most \in Nat /\ Open <= Most
  BY <1>1, <1>5, CallingCount DEF Open
<1>7. Records
  <2>1. (\A d \in Days : file[d] = 0) /\ today \in Days
    BY <1>1, <1>2
  <2>2. /\ DailyLimit + Most \in Nat /\ MonthlyLimit + Most \in Nat
        /\ 0 + Open <= DailyLimit + Most /\ 0 + Open <= MonthlyLimit + Most
    BY <1>2, <1>6
  <2>3. file[today] = 0 /\ MonthOf(file, today) = 0
    BY <1>4, <2>1
  <2>4. \A d \in Days : file[d] <= DailyLimit + Most /\ MonthOf(file, d) <= MonthlyLimit + Most
    BY <1>4, <2>1, <2>2
  <2> QED BY <2>1, <2>2, <2>3, <2>4 DEF Records
<1>8. Sums
  <2>1. MonthOf(file, today) = 0 /\ file[today] = 0 /\ cached.daily = 0 /\ cached.monthly = 0 /\ cached.day = 0 /\ today = 0
    BY <1>1, <1>2, <1>4
  <2> QED BY <2>1 DEF Sums
<1>9. pc \in [Turns -> Places]
  BY <1>1, PlacesAre
<1> QED BY <1>1, <1>3, <1>5, <1>7, <1>8, <1>9 DEF SpendInv

\* and every step keeps it.
LEMMA SpendStep ==
  ASSUME SpendInv, [Next]_vars, pc' \in [Turns -> Places]
  PROVE  SpendInv'
<1>0. pc \in [Turns -> Places] /\ \A t \in Turns : Active(t) => t \in setting.turns
  BY DEF SpendInv
<1>1. ASSUME NEW t \in Turns, Begin(t) PROVE SpendInv'
  <2>1. t \in setting.turns /\ pc' = [pc EXCEPT ![t] = "head"] /\ UNCHANGED <<setting, costVars>>
    BY <1>1 DEF Begin, Goto
  <2> QED BY <1>0, <2>1, IdleStep
<1>2. ASSUME NEW t \in Turns,
             \/ TopOfLoop(t) \/ SwitchModel(t) \/ AskForSummary(t) \/ Summary(t) \/ AllDecided(t) \/ Collect(t)
             \/ Interrupted(t) \/ StepTimesOut(t) \/ TimesOut(t)
      PROVE  SpendInv'
  <2>1. /\ UNCHANGED <<setting, costVars>> /\ pc[t] \notin Ended \cup {"waiting"}
        /\ \E to \in Places \ {"calling"} : pc' = [pc EXCEPT ![t] = to]
    BY <1>2 DEF TopOfLoop, SwitchModel, AskForSummary, Summary, AllDecided, Collect, Concluded, Interrupted, StepTimesOut, TimesOut,
                Goto, Active, Places, Ended
  <2>2. t \in setting.turns
    BY <1>0, <2>1 DEF Active
  <2> QED BY <1>0, <2>1, <2>2, IdleStep
<1>3. ASSUME NEW t \in Turns, SwitchFails(t) PROVE SpendInv'
  <2>1. UNCHANGED <<setting, costVars>> /\ \A u \in Turns : pc'[u] = pc[u] \/ pc'[u] = "failed"
    BY <1>3 DEF SwitchFails
  <2> QED BY <2>1, IdleStep DEF Ended
<1>4. ASSUME NEW t \in Turns, NEW error, Attempt(t, error) PROVE SpendInv'
  <2>1. UNCHANGED <<setting, costVars>> /\ pc[t] = "calling"
    BY <1>4 DEF Attempt
  <2>2. pc' = pc \/ \E to \in {"head", "failed"} : pc' = [pc EXCEPT ![t] = to]
    BY <1>4 DEF Attempt, CallFailed, Goto
  <2>3. t \in setting.turns
    BY <1>0, <2>1 DEF Active, Ended
  <2> QED BY <1>0, <2>1, <2>2, <2>3, IdleStep
<1>5. ASSUME NEW t \in Turns, Decide(t) \/ Cancel(t) \/ \E j \in DOMAIN turn[t].queue : Run(t, j) PROVE SpendInv'
  <2>1. UNCHANGED <<setting, pc, costVars>>
    BY <1>5 DEF Decide, Cancel, Run
  <2> QED BY <2>1, IdleStep
<1>6. CASE UNCHANGED vars
  BY <1>6, IdleStep DEF vars, agentVars
<1>7. CASE Day
  BY <1>7, NewDayStep DEF Day
<1> QED BY <1>1, <1>2, <1>3, <1>4, <1>5, <1>6, <1>7, CheckStep, AnsweredStep DEF Next, Step

-----------------------------------------------------------------------------
(* The properties.                                                         *)

\* What Matched says in the terms of ResultsMatch.
LEMMA MatchedTells ==
  ASSUME NEW h, Matched(h), NEW i \in DOMAIN h, h[i].role = "assistant", "calls" \in DOMAIN h[i],
         NEW k \in DOMAIN h[i].calls
  PROVE  /\ i + k \in DOMAIN h /\ h[i + k].role = "tool"
         /\ h[i + k].answers = h[i].calls[k] /\ h[i + k].result.call = h[i].calls[k]
<1>1. h \in Seq(Messages) /\ DOMAIN h = 1 .. Len(h) /\ h[i] \in Messages
  BY DEF Matched
<1>2. h[i] \in Requested
  <2>1. h[i] \notin Said
    BY KindFacts
  <2>2. h[i] \notin Reported
    <3>1. h[i] \in Reported => h[i].role = "tool"
      BY KindFacts
    <3> QED BY <3>1
  <2> QED BY <1>1, <2>1, <2>2 DEF Messages
<1>3. DOMAIN h[i].calls = 1 .. Len(h[i].calls)
  BY <1>2, KindFacts
<1>4. i + k \in 1 .. Len(h) /\ Reports(h[i + k], h[i].calls[k])
  BY <1>1, <1>2, <1>3 DEF Matched
<1> QED BY <1>1, <1>4, KindFacts DEF Reports

\* The invariants imply the properties.  ResultsMatch:
LEMMA LoopInvMatches == LoopInv => ResultsMatch
<1> SUFFICES ASSUME LoopInv, NEW t \in Turns, NEW i \in DOMAIN turn[t].history, turn[t].history[i].role = "assistant",
                    "calls" \in DOMAIN turn[t].history[i], NEW k \in DOMAIN turn[t].history[i].calls
             PROVE  /\ i + k \in DOMAIN turn[t].history /\ turn[t].history[i + k].role = "tool"
                    /\ turn[t].history[i + k].answers = turn[t].history[i].calls[k]
                    /\ turn[t].history[i + k].result.call = turn[t].history[i].calls[k]
  BY DEF ResultsMatch
<1>1. PICK h : h = turn[t].history
  OBVIOUS
<1>2. Matched(h)
  BY <1>1, LoopFacts
<1> QED BY <1>1, <1>2, MatchedTells

\* EveryPairTried:
LEMMA LoopInvTries == LoopInv => EveryPairTried
BY DEF LoopInv, TurnOK, Tried, EveryPairTried

\* StuckTurnStops:
LEMMA LoopInvStops == LoopInv => StuckTurnStops
<1> SUFFICES ASSUME LoopInv, NEW t \in Turns
             PROVE  /\ Wide => (pc[t] = "stuck" <=> \E n \in DOMAIN turn[t].log :
                         Verdict(SubSeq(turn[t].log, 1, n), setting.limits.repeats, setting.limits.detects) = "break")
                    /\ pc[t] = "runaway" <=> Repeated(turn[t].gate.said)
  BY DEF StuckTurnStops, Repeated
<1>1. Watched(setting, turn[t], pc[t]) /\ Listened(turn[t], pc[t]) /\ setting.limits.detects \in BOOLEAN
  BY LoopFacts, SettingTypes DEF LoopInv, TurnOK
<1>2. pc[t] = "runaway" <=> Repeated(turn[t].gate.said)
  BY <1>1 DEF Listened
<1>3. ASSUME Wide
      PROVE  pc[t] = "stuck" <=> \E n \in DOMAIN turn[t].log :
               Verdict(SubSeq(turn[t].log, 1, n), setting.limits.repeats, setting.limits.detects) = "break"
  <2>1. IsWide(setting.limits.window, setting.limits.repeats)
    BY <1>3 DEF Wide, IsWide
  <2>2. CASE setting.limits.detects
    <3>1. pc[t] = "stuck" <=> Broken(turn[t].log, setting.limits.repeats)
      BY <1>1, <2>1, <2>2 DEF Watched
    <3> QED BY <2>2, <3>1 DEF Broken, Verdict
  <2>3. CASE ~setting.limits.detects
    <3>1. pc[t] # "stuck"
      BY <1>1, <2>3 DEF Watched
    <3> QED BY <2>3, <3>1 DEF Verdict
  <2> QED BY <2>2, <2>3
<1> QED BY <1>2, <1>3

\* SpendBounded:
LEMMA SpendInvBounds == SpendInv => SpendBounded
<1> SUFFICES ASSUME SpendInv PROVE SpendBounded
  OBVIOUS
<1>1. \A d \in Days : file[d] <= DailyLimit + Most /\ MonthOf(file, d) <= MonthlyLimit + Most
  BY DEF SpendInv, Records
<1>2. cached.day = today => cached.daily >= file[today] /\ cached.monthly >= MonthOf(file, today)
  BY DEF SpendInv, Sums
<1> QED BY <1>1, <1>2 DEF SpendBounded, Most

\* The end of the log fits into the window.
LEMMA WindowFits ==
  ASSUME NEW size \in Nat, NEW w, NEW log, IsEnd(w, log, Kept(size))
  PROVE  w \in Seq(Entry) /\ Len(w) <= Max({1, size})
<1>1. w \in Seq(Entry) /\ log \in Seq(Entry) /\ Len(w) = (IF Len(log) <= Kept(size) THEN Len(log) ELSE Kept(size))
  BY DEF IsEnd
<1>2. Max({1, size}) \in {1, size} /\ Max({1, size}) >= 1 /\ Max({1, size}) >= size
  <2>1. PICK n \in Nat : n >= 1 /\ n >= size
    <3>1. size + 1 \in Nat /\ size + 1 >= 1 /\ size + 1 >= size
      OBVIOUS
    <3> QED BY <3>1
  <2>2. {1, size} \in SUBSET Nat /\ {1, size} # {} /\ \A x \in {1, size} : x <= n
    BY <2>1
  <2> QED BY <2>2, MaxIs
<1>3. Kept(size) <= Max({1, size}) /\ Kept(size) \in Nat /\ Max({1, size}) \in Nat
  BY <1>2 DEF Kept
<1>4. Len(log) \in Nat /\ Len(w) <= Kept(size)
  BY <1>1, <1>3
<1> QED BY <1>1, <1>3, <1>4

\* TypeOK:
LEMMA InvsType == LoopInv /\ SpendInv => TypeOK
<1> SUFFICES ASSUME LoopInv, SpendInv PROVE TypeOK
  OBVIOUS
<1>1. setting \in Settings /\ pc \in [Turns -> Places] /\ Shared
  BY DEF LoopInv, ApprovalInv, LoopTypes
<1>2. ASSUME NEW t \in Turns
      PROVE  /\ turn[t].model \in Models /\ turn[t].target \in Models \cup {None}
             /\ turn[t].iteration \in 0 .. setting.limits.iterations
             /\ turn[t].position.model \in 1 .. setting.chains.models
             /\ turn[t].position.provider \in 1 .. setting.chains.providers
             /\ turn[t].position.attempt \in 0 .. setting.chains.retries
             /\ turn[t].window \in Seq(Entry)
             /\ turn[t].window # <<>> => Len(turn[t].window) <= Max({1, setting.limits.window})
             /\ Range(turn[t].queue) \subseteq DOMAIN turn[t].calls /\ DOMAIN turn[t].outcomes = DOMAIN turn[t].queue
  <2>1. PICK r : r = turn[t]
    OBVIOUS
  <2>2. LocalsOK(r) /\ TurnOK(setting, r, pc[t])
    BY <2>1, LoopFacts
  <2>3. r.model \in Models /\ r.target \in Models \cup {None} /\ r.iteration \in 0 .. setting.limits.iterations
    BY <2>2 DEF TurnOK, Named, Counted
  <2>4. /\ r.position.model \in 1 .. setting.chains.models /\ r.position.provider \in 1 .. setting.chains.providers
        /\ r.position.attempt \in 0 .. setting.chains.retries
    BY <2>2 DEF TurnOK, Tried, InChains
  <2>5. r.window \in Seq(Entry) /\ (r.window # <<>> => Len(r.window) <= Max({1, setting.limits.window}))
    <3>1. CASE ~setting.limits.detects \/ pc[t] \in Halted
      <4>1. r.window = <<>>
        BY <2>2, <3>1 DEF TurnOK, Watched
      <4> QED BY <4>1
    <3>2. CASE setting.limits.detects /\ pc[t] \notin Halted
      <4>1. IsEnd(r.window, r.log, Kept(setting.limits.window)) /\ setting.limits.window \in Nat
        BY <1>1, <2>2, <3>2, SettingTypes DEF TurnOK, Watched
      <4> QED BY <4>1, WindowFits
    <3> QED BY <3>1, <3>2
  <2>6. Range(r.queue) \subseteq DOMAIN r.calls /\ DOMAIN r.outcomes = DOMAIN r.queue
    <3>1. /\ r.calls \in Seq(Valid) /\ r.queue \in Seq(Nat) /\ r.outcomes \in Seq(Results) /\ Len(r.queue) = Len(r.outcomes)
          /\ \A j \in 1 .. Len(r.outcomes) : r.queue[j] \in 1 .. Len(r.calls)
      BY <2>2 DEF LocalsOK
    <3>2. /\ DOMAIN r.calls = 1 .. Len(r.calls) /\ DOMAIN r.queue = 1 .. Len(r.queue)
          /\ DOMAIN r.outcomes = 1 .. Len(r.outcomes)
      BY <3>1
    <3> QED BY <3>1, <3>2 DEF Range
  <2> QED BY <2>1, <2>3, <2>4, <2>5, <2>6
<1>3. CostTypeOK
  BY DEF SpendInv
<1> QED BY <1>1, <1>2, <1>3 DEF TypeOK, Places, Shared

\* Both invariants.
LoopSpendInv == LoopInv /\ SpendInv

\* They hold at the start,
LEMMA InvsInit == Init => LoopSpendInv
BY LoopInvInit, SpendInit DEF LoopSpendInv

\* and every step keeps them.
LEMMA InvsStep == LoopSpendInv /\ [Next]_vars => LoopSpendInv'
<1> SUFFICES ASSUME LoopSpendInv, [Next]_vars PROVE LoopSpendInv'
  OBVIOUS
<1>1. LoopInv'
  BY LoopInvStep DEF LoopSpendInv
<1>2. pc' \in [Turns -> Places]
  BY <1>1 DEF LoopInv
<1> QED BY <1>1, <1>2, SpendStep DEF LoopSpendInv

\* Every variable holds a value of its type, within the limits of the code: iterations and
\* attempts are bounded, the window does not outgrow its size, and the queue of a turn and
\* its outcomes belong to calls of the answer (TypeOK).
THEOREM TypesCorrect == Spec => []TypeOK
<1>1. LoopSpendInv => TypeOK
  BY InvsType DEF LoopSpendInv
<1> QED BY <1>1, InvsInit, InvsStep, PTL DEF Spec

\* In every history an answer with tool calls is followed by one message for each of its
\* calls, in order, that tells what became of that very call, whichever calls were refused,
\* skipped or run at the same time, and whatever was trimmed (ResultsMatch).
THEOREM HistoriesMatch == Spec => []ResultsMatch
<1>1. LoopInv /\ [Next]_vars => LoopInv'
  BY LoopInvStep
<1>2. Init => LoopInv
  BY LoopInvInit
<1> QED BY <1>1, <1>2, LoopInvMatches, PTL DEF Spec

\* For fallback chains of any length, a request that is still being tried has been tried
\* with every provider and model before the present one, and one that failed because the
\* chains were exhausted, with all of them (EveryPairTried).
THEOREM ChainsAreTried == Spec => []EveryPairTried
<1>1. LoopInv /\ [Next]_vars => LoopInv'
  BY LoopInvStep
<1>2. Init => LoopInv
  BY LoopInvInit
<1> QED BY <1>1, <1>2, LoopInvTries, PTL DEF Spec

\* For any window wide enough for the patterns, the detector breaks a run of the loop off
\* exactly when it is switched on and the calls of the run, taken from its start, show a
\* pattern that must be; and the gate aborts it exactly when four outputs that it counted,
\* one after the other, are the same (StuckTurnStops).
THEOREM StuckTurnsStop == Spec => []StuckTurnStops
<1>1. LoopInv /\ [Next]_vars => LoopInv'
  BY LoopInvStep
<1>2. Init => LoopInv
  BY LoopInvInit
<1> QED BY <1>1, <1>2, LoopInvStops, PTL DEF Spec

\* Whatever calls cost, and whenever days and months end, what is recorded goes beyond a
\* limit by one call of each turn at most, and the sums that are checked never fall short of
\* the records (SpendBounded).
THEOREM SpendIsBounded == Spec => []SpendBounded
<1>1. LoopSpendInv => SpendBounded
  BY SpendInvBounds DEF LoopSpendInv
<1> QED BY <1>1, InvsInit, InvsStep, PTL DEF Spec
=============================================================================

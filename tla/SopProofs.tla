----------------------------- MODULE SopProofs -----------------------------
(***************************************************************************)
(* Proofs about SopEngine for every set of SOPs, library, limit and bound. *)
(***************************************************************************)
EXTENDS SopCaller, FiniteSetTheorems, SequenceTheorems, TLAPS

(* A loaded definition is a definition.                                    *)
LEMMA LoadedType ==
  ASSUME TypeOK, NEW s \in Sops, Loaded(s)
  PROVE  sops[s] \in Definitions
BY SopConstants DEF TypeOK, Loaded

(* Readings of TypeOK that the step proofs use one at a time.               *)
LEMMA TypeFacts ==
  ASSUME TypeOK
  PROVE  /\ now \in Nat
         /\ run \in [RunIds -> Runs]
         /\ finished \in Seq(RunIds)
         /\ \A r \in RunIds : files[r] \in [last : Nat, total : Int, saved : Nat]
BY SopConstants DEF TypeOK

(* Eviction keeps a sequence of run ids.                                   *)
LEMMA RetainedType ==
  ASSUME NEW q \in Seq(RunIds)
  PROVE  Retained(q) \in Seq(RunIds)
<1>1. CASE MaxFinished > 0 /\ Len(q) > MaxFinished
  <2>1. Len(q) - MaxFinished + 1 \in 1 .. Len(q) + 1
    BY <1>1, SopConstants
  <2>2. \A i \in (Len(q) - MaxFinished + 1) .. Len(q) : q[i] \in RunIds
    BY <2>1, SopConstants
  <2> QED BY <1>1, <2>1, <2>2, SubSeqProperties, SopConstants DEF Retained
<1> QED BY <1>1 DEF Retained

LEMMA FinishType ==
  ASSUME TypeOK, NEW r \in RunIds, NEW rec \in Runs, NEW st \in Closed, Finish(r, rec, st)
  PROVE  /\ active' \subseteq RunIds
         /\ run' \in [RunIds -> Runs]
         /\ finished' \in Seq(RunIds)
<1>1. [rec EXCEPT !.status = st, !.completed = now] \in Runs
  BY TypeFacts DEF Runs
<1>2. Append(finished, r) \in Seq(RunIds)
  BY TypeFacts
<1>3. active \subseteq RunIds
  BY DEF TypeOK
<1> QED BY <1>1, <1>2, <1>3, TypeFacts, RetainedType DEF Finish

LEMMA ResolveStepType ==
  ASSUME TypeOK, NEW rec \in Runs, NEW d
  PROVE  ResolveStep(d, rec) \in Runs /\ StepAction(d, rec) \in Actions
BY TypeFacts DEF ResolveStep, StepAction, Runs, Open, Actions

LEMMA ResolveDeterministicType ==
  ASSUME TypeOK, NEW r \in RunIds, NEW rec \in Runs, NEW d, ResolveDeterministic(r, d, rec)
  PROVE  /\ run' \in [RunIds -> Runs]
         /\ told' \in [RunIds -> Actions \cup {"none"}]
         /\ files' \in [RunIds -> [last : Nat, total : Int, saved : Nat]]
<1> DEFINE paused == [rec EXCEPT !.status = "paused_checkpoint", !.waiting = now]
<1>1. paused \in Runs
  BY TypeFacts DEF Runs, Open
<1>2. Snapshot(paused) \in [last : Nat, total : Int, saved : Nat]
  BY <1>1 DEF Snapshot, Runs
<1> HIDE DEF paused
<1>3. CASE ~d.steps[rec.step].checkpoint
  BY <1>3 DEF ResolveDeterministic, TypeOK, Actions
<1>4. CASE d.steps[rec.step].checkpoint
  <2>1. run' = [run EXCEPT ![r] = paused]
    BY <1>4 DEF ResolveDeterministic, paused
  <2>2. \/ files' = [files EXCEPT ![r] = Snapshot(paused)] /\ told' = [told EXCEPT ![r] = "CheckpointWait"]
        \/ files' = files /\ told' = told
    BY <1>4 DEF ResolveDeterministic, paused
  <2>3. files' \in [RunIds -> [last : Nat, total : Int, saved : Nat]]
    BY <1>2, <2>2 DEF TypeOK
  <2>4. told' \in [RunIds -> Actions \cup {"none"}]
    BY <2>2 DEF TypeOK, Actions
  <2> QED BY <1>1, <2>1, <2>3, <2>4, TypeFacts
<1> QED BY <1>3, <1>4

LEMMA BumpType ==
  ASSUME NEW rec \in Runs
  PROVE  /\ [rec EXCEPT !.step = @ + 1] \in Runs
         /\ [rec EXCEPT !.saved = @ + 1] \in Runs
         /\ \A k \in Nat : [rec EXCEPT !.step = k + 1] \in Runs
BY DEF Runs

LEMMA RecordedType ==
  ASSUME NEW rec \in Runs, NEW o \in Outcomes
  PROVE  Recorded(rec, o) \in Runs
<1>1. [step |-> rec.step, status |-> o] \in StepResults
  BY DEF Runs, StepResults
<1>2. Append(rec.results, [step |-> rec.step, status |-> o]) \in Seq(StepResults)
  BY <1>1 DEF Runs
<1> QED BY <1>2 DEF Recorded, Runs

(* The state stays well typed: every operation of the engine, on any input, *)
(* leaves values of the right Rust type (TypeOK).                            *)
THEOREM TypeCorrect == Spec => []TypeOK
<1>1. Init => TypeOK
  <2> SUFFICES ASSUME Init PROVE TypeOK
    OBVIOUS
  <2>1. NoRun \in Runs
    BY SopConstants DEF NoRun, Runs, Open, Closed, Never
  <2>2. NoFile \in [last : Nat, total : Int, saved : Nat]
    BY DEF NoFile
  <2>3. run \in [RunIds -> Runs] /\ files \in [RunIds -> [last : Nat, total : Int, saved : Nat]]
    BY <2>1, <2>2 DEF Init
  <2>4. /\ sops \in Libraries /\ active \subseteq RunIds /\ finished \in Seq(RunIds)
        /\ approvals \subseteq RunIds \X Nat
    BY DEF Init
  <2>5. /\ counter \in 0 .. MaxRuns /\ now \in 0 .. MaxTime
        /\ halted \in BOOLEAN /\ savings \in [calls : Nat, runs : Nat]
    <3>1. counter = 0 /\ now = 0 /\ halted = FALSE /\ savings = [calls |-> 0, runs |-> 0]
      BY DEF Init
    <3>2. MaxRuns \in Nat /\ MaxTime \in Nat
      BY SopConstants
    <3>3. halted \in BOOLEAN
      BY <3>1
    <3>4. counter \in 0 .. MaxRuns /\ now \in 0 .. MaxTime /\ savings \in [calls : Nat, runs : Nat]
      BY <3>1, <3>2
    <3> QED BY <3>3, <3>4
  <2>6. told \in [RunIds -> Actions \cup {"none"}]
    BY DEF Init
  <2> QED BY <2>3, <2>4, <2>5, <2>6 DEF TypeOK
<1>2. TypeOK /\ [Next]_vars => TypeOK'
  <2> SUFFICES ASSUME TypeOK, [Next]_vars PROVE TypeOK'
    OBVIOUS
  <2>1. ASSUME NEW s \in Sops, StartRun(s) PROVE TypeOK'
    <3> DEFINE d == sops[s]
               r == counter + 1
    <3>1. d \in Definitions
      BY <2>1, LoadedType DEF StartRun, CanStart
    <3>2. r \in RunIds
      BY <2>1, SopConstants DEF StartRun, RunIds, TypeOK
    <3>3. NewRun(s, d) \in Runs
      BY <3>1 DEF NewRun, Runs, Open, Never, Definitions
    <3>4. /\ run' \in [RunIds -> Runs]
          /\ told' \in [RunIds -> Actions \cup {"none"}]
          /\ files' \in [RunIds -> [last : Nat, total : Int, saved : Nat]]
      <4>1. CASE ResolveDeterministic(r, d, NewRun(s, d))
        BY <4>1, <3>2, <3>3, ResolveDeterministicType
      <4>2. CASE /\ run' = [run EXCEPT ![r] = ResolveStep(d, NewRun(s, d))]
                 /\ told' = [told EXCEPT ![r] = StepAction(d, NewRun(s, d))]
                 /\ UNCHANGED files
        BY <4>2, <3>2, <3>3, ResolveStepType DEF TypeOK
      <4> QED BY <2>1, <4>1, <4>2 DEF StartRun, StartDeterministic
    <3>5. counter' = r /\ active' = active \cup {r}
          /\ UNCHANGED <<sops, finished, savings, now, halted, approvals>>
      BY <2>1 DEF StartRun
    <3> QED BY <3>2, <3>4, <3>5, SopConstants DEF TypeOK, RunIds
  <2>2. ASSUME NEW r \in RunIds, NEW o \in Outcomes, AdvanceStep(r, o) PROVE TypeOK'
    <3> DEFINE d == sops[run[r].sop]
               rec == Recorded(run[r], o)
               next == [rec EXCEPT !.step = @ + 1]
    <3>1. rec \in Runs /\ next \in Runs
      <4>1. rec \in Runs
        BY RecordedType DEF TypeOK
      <4> QED BY <4>1 DEF Runs
    <3>2. /\ active' \subseteq RunIds /\ run' \in [RunIds -> Runs]
          /\ finished' \in Seq(RunIds) /\ told' \in [RunIds -> Actions \cup {"none"}]
          /\ halted' \in BOOLEAN /\ counter' = counter
      <4>1. CASE o = "failed"
        <5>1. Finish(r, rec, "failed") /\ told' = [told EXCEPT ![r] = "Failed"]
              /\ UNCHANGED <<counter, halted>>
          BY <2>2, <4>1 DEF AdvanceStep
        <5> QED BY <5>1, <3>1, FinishType DEF Closed, Actions, TypeOK
      <4>2. CASE o # "failed" /\ next.step > rec.total
        <5>1. Finish(r, rec, "completed") /\ told' = [told EXCEPT ![r] = "Completed"]
              /\ UNCHANGED <<counter, halted>>
          BY <2>2, <4>2, <3>1 DEF AdvanceStep, Runs
        <5> QED BY <5>1, <3>1, FinishType DEF Closed, Actions, TypeOK
      <4>3. CASE /\ run' = [run EXCEPT ![r] = next] /\ Halt
                 /\ UNCHANGED <<active, finished, told, counter>>
        BY <4>3, <3>1 DEF TypeOK, Halt
      <4>4. CASE /\ run' = [run EXCEPT ![r] = ResolveStep(d, next)]
                 /\ told' = [told EXCEPT ![r] = StepAction(d, next)]
                 /\ UNCHANGED <<active, finished, counter, halted>>
        BY <4>4, <3>1, ResolveStepType DEF TypeOK
      <4> QED BY <2>2, <4>1, <4>2, <4>3, <4>4 DEF AdvanceStep
    <3> QED BY <2>2, <3>2 DEF AdvanceStep, TypeOK
  <2>3. ASSUME NEW r \in RunIds, ApproveStep(r) PROVE TypeOK'
    <3>1. Approved(run[r]) \in Runs
      BY TypeFacts DEF Approved, Runs, Open
    <3>2. run[r].step \in Nat
      BY TypeFacts DEF Runs
    <3>3. run' = [run EXCEPT ![r] = Approved(run[r])]
      BY <2>3 DEF ApproveStep, TypeOK
    <3>4. \/ UNCHANGED <<told, approvals, halted>>
          \/ Halt /\ UNCHANGED <<told, approvals>>
          \/ /\ told' = [told EXCEPT ![r] = "ExecuteStep"]
             /\ approvals' = approvals \cup {<<r, run[r].step>>}
             /\ UNCHANGED halted
      BY <2>3 DEF ApproveStep
    <3>5. UNCHANGED <<sops, active, finished, counter, files, savings, now>>
      BY <2>3 DEF ApproveStep
    <3>6. run' \in [RunIds -> Runs]
      BY <3>1, <3>3, TypeFacts
    <3>7. halted' \in BOOLEAN /\ told' \in [RunIds -> Actions \cup {"none"}]
      BY <3>4 DEF TypeOK, Halt, Actions
    <3>8. approvals' \subseteq RunIds \X Nat
      BY <3>2, <3>4 DEF TypeOK
    <3> QED BY <3>5, <3>6, <3>7, <3>8 DEF TypeOK
  <2>4. CASE Tick
    BY <2>4, SopConstants DEF Tick, TypeOK
  <2>5. ASSUME NEW r \in RunIds, CancelRun(r) PROVE TypeOK'
    <3>1. Finish(r, run[r], "cancelled") /\ run[r] \in Runs
      BY <2>5 DEF CancelRun, TypeOK
    <3>2. UNCHANGED <<sops, counter, files, savings, now, halted, told, approvals>>
      BY <2>5 DEF CancelRun
    <3> QED BY <3>1, <3>2, FinishType DEF Closed, TypeOK
  <2>6. ASSUME NEW r \in RunIds, AdvanceDeterministic(r) PROVE TypeOK'
    <3> DEFINE d == sops[run[r].sop]
               rec == [Recorded(run[r], "completed") EXCEPT !.saved = @ + 1]
               next == [rec EXCEPT !.step = @ + 1]
    <3>1. rec \in Runs /\ next \in Runs
      <4>1. Recorded(run[r], "completed") \in Runs
        BY RecordedType DEF TypeOK, Outcomes
      <4> QED BY <4>1, BumpType
    <3>2. UNCHANGED <<sops, counter, now, approvals>>
      BY <2>6 DEF AdvanceDeterministic
    <3>3. CASE /\ Finish(r, rec, "completed")
               /\ savings' = [calls |-> savings.calls + rec.saved, runs |-> savings.runs + 1]
               /\ told' = [told EXCEPT ![r] = "Completed"]
               /\ UNCHANGED <<files, halted>>
      <4>1. rec.saved \in Nat
        BY <3>1 DEF Runs
      <4>2. savings' \in [calls : Nat, runs : Nat]
        BY <3>3, <4>1 DEF TypeOK
      <4> HIDE DEF rec
      <4> QED BY <3>1, <3>2, <3>3, <4>2, FinishType DEF Closed, Actions, TypeOK
    <3>4. CASE /\ run' = [run EXCEPT ![r] = next] /\ Halt
               /\ UNCHANGED <<active, finished, files, savings, told>>
      BY <3>1, <3>2, <3>4 DEF TypeOK, Halt
    <3>5. CASE ResolveDeterministic(r, d, next) /\ UNCHANGED <<active, finished, savings, halted>>
      <4> HIDE DEF next, d
      <4> QED BY <3>1, <3>2, <3>5, ResolveDeterministicType DEF TypeOK
    <3> QED BY <2>6, <3>3, <3>4, <3>5 DEF AdvanceDeterministic
  <2>7. ASSUME NEW r \in RunIds, ResumeDeterministic(r) PROVE TypeOK'
    <3> DEFINE d == sops[run[r].sop]
               st == files[r]
               back == [run[r] EXCEPT !.status = "running", !.waiting = Never, !.saved = st.saved]
               next == [back EXCEPT !.step = st.last + 1]
    <3>1. next \in Runs
      <4>1. run[r] \in Runs /\ st.last \in Nat /\ st.saved \in Nat
        BY TypeFacts
      <4>2. back \in Runs
        BY <4>1 DEF Runs, Open
      <4> HIDE DEF back, st
      <4> QED BY <4>1, <4>2, BumpType
    <3>2. UNCHANGED <<sops, active, finished, counter, savings, now, approvals>>
      BY <2>7 DEF ResumeDeterministic
    <3>3. CASE run' = [run EXCEPT ![r] = next] /\ Halt /\ UNCHANGED <<files, told>>
      BY <3>1, <3>2, <3>3 DEF TypeOK, Halt
    <3>4. CASE ResolveDeterministic(r, d, next) /\ UNCHANGED halted
      <4> HIDE DEF next, d
      <4> QED BY <3>1, <3>2, <3>4, ResolveDeterministicType DEF TypeOK
    <3> QED BY <2>7, <3>3, <3>4 DEF ResumeDeterministic
  <2>8. CASE CheckApprovalTimeouts
    <3>1. \A r \in RunIds : Approved(run[r]) \in Runs /\ run[r].step \in Nat
      BY TypeFacts DEF Approved, Runs, Open
    <3>2. UNCHANGED <<sops, active, finished, counter, files, savings, now>>
      BY <2>8 DEF CheckApprovalTimeouts
    <3>3. PICK done \in SUBSET RunIds, hit \in SUBSET RunIds : AutoApprove(done, hit)
      <4>1. TimedOut \in SUBSET RunIds /\ Stepless \subseteq RunIds /\ {} \in SUBSET RunIds
        BY DEF TimedOut, Stepless, TypeOK
      <4>2. CASE AutoApprove(TimedOut, {})
        BY <4>1, <4>2
      <4>3. CASE \E bad \in Stepless, done \in SUBSET (TimedOut \ Stepless) : AutoApprove(done, {bad})
        BY <4>1, <4>3
      <4> QED BY <2>8, <4>2, <4>3 DEF CheckApprovalTimeouts
    <3>7. halted' \in BOOLEAN
      BY <2>8 DEF CheckApprovalTimeouts, Halt, TypeOK
    <3>4. run' \in [RunIds -> Runs]
      BY <3>1, <3>3 DEF TypeOK, AutoApprove
    <3>5. told' \in [RunIds -> Actions \cup {"none"}]
      BY <3>3 DEF TypeOK, Actions, AutoApprove
    <3>6. approvals' \subseteq RunIds \X Nat
      BY <3>1, <3>3 DEF TypeOK, AutoApprove
    <3> QED BY <3>2, <3>4, <3>5, <3>6, <3>7 DEF TypeOK
  <2>9. ASSUME NEW lib \in Libraries, Reload(lib) PROVE TypeOK'
    BY <2>9 DEF Reload, TypeOK
  <2>10. CASE UNCHANGED vars
    BY <2>10 DEF vars, TypeOK
  <2> QED
    BY <2>1, <2>2, <2>3, <2>4, <2>5, <2>6, <2>7, <2>8, <2>9, <2>10 DEF Next, ToolNext
<1> QED BY <1>1, <1>2, PTL DEF Spec

-----------------------------------------------------------------------------
(* What a step does to the two homes of a run.                             *)

\* The run record of r changes and stays open; the homes stay.
Keeps(r) ==
  /\ UNCHANGED <<active, finished, counter>>
  /\ \A q \in RunIds \ {r} : run'[q] = run[q]
  /\ run'[r].sop = run[r].sop /\ run'[r].total = run[r].total
  /\ run'[r].status \in Open

Ending(r) ==
  /\ active' = active \ {r} /\ finished' = Retained(Append(finished, r))
  /\ counter' = counter
  /\ \A q \in RunIds \ {r} : run'[q] = run[q]
  /\ run'[r].sop = run[r].sop /\ run'[r].total = run[r].total
  /\ run'[r].status \in Closed /\ run'[r].completed = now

Starting(s) ==
  /\ CanStart(s)
  /\ counter' = counter + 1 /\ counter' \in RunIds
  /\ active' = active \cup {counter'} /\ finished' = finished
  /\ \A q \in RunIds \ {counter'} : run'[q] = run[q]
  /\ run'[counter'].sop = s /\ run'[counter'].status \in Open

Quiet ==
  /\ UNCHANGED <<active, finished, counter>>
  /\ \A q \in RunIds : /\ run'[q].sop = run[q].sop /\ run'[q].total = run[q].total
                       /\ q \notin active => run'[q] = run[q]
                       /\ q \in active => run'[q].status \in Open

LEMMA FinishShape ==
  ASSUME TypeOK, NEW r \in RunIds, NEW rec \in Runs, NEW st \in Closed, Finish(r, rec, st),
         counter' = counter, rec.sop = run[r].sop, rec.total = run[r].total
  PROVE  Ending(r)
<1> DEFINE over == [rec EXCEPT !.status = st, !.completed = now]
<1>1. over.sop = rec.sop /\ over.total = rec.total /\ over.status = st /\ over.completed = now
  BY DEF Runs
<1>2. run' = [run EXCEPT ![r] = over] /\ active' = active \ {r}
      /\ finished' = Retained(Append(finished, r))
  BY DEF Finish
<1> HIDE DEF over
<1> QED BY <1>1, <1>2, TypeFacts DEF Ending

LEMMA ResolveDeterministicShape ==
  ASSUME TypeOK, NEW r \in RunIds, NEW rec \in Runs, NEW d, ResolveDeterministic(r, d, rec),
         rec.status \in Open
  PROVE  \E new \in Runs :
           /\ run' = [run EXCEPT ![r] = new]
           /\ new.sop = rec.sop /\ new.total = rec.total /\ new.status \in Open
           /\ new.step = rec.step /\ new.saved = rec.saved
           /\ \/ files' = files
              \/ files' = [files EXCEPT ![r] = Snapshot(new)]
<1> DEFINE paused == [rec EXCEPT !.status = "paused_checkpoint", !.waiting = now]
<1>1. paused \in Runs
  BY TypeFacts DEF Runs, Open
<1>2. /\ paused.sop = rec.sop /\ paused.total = rec.total /\ paused.status \in Open
      /\ paused.step = rec.step /\ paused.saved = rec.saved
  BY DEF Runs, Open
<1>3. \/ run' = [run EXCEPT ![r] = rec] /\ files' = files
      \/ run' = [run EXCEPT ![r] = paused]
         /\ (files' = files \/ files' = [files EXCEPT ![r] = Snapshot(paused)])
  BY DEF ResolveDeterministic
<1> HIDE DEF paused
<1> QED BY <1>1, <1>2, <1>3

LEMMA ResolveStepShape ==
  ASSUME TypeOK, NEW rec \in Runs, NEW d, rec.status \in Open
  PROVE  LET new == ResolveStep(d, rec)
         IN  /\ new.sop = rec.sop /\ new.total = rec.total /\ new.status \in Open
             /\ new.step = rec.step /\ new.saved = rec.saved
BY TypeFacts DEF ResolveStep, Runs, Open

LEMMA RecordedShape ==
  ASSUME NEW rec \in Runs, NEW o \in Outcomes
  PROVE  LET new == Recorded(rec, o)
         IN  /\ new.sop = rec.sop /\ new.total = rec.total /\ new.status = rec.status
             /\ new.step = rec.step /\ new.saved = rec.saved
BY DEF Recorded, Runs

LEMMA BumpShape ==
  ASSUME NEW rec \in Runs
  PROVE  /\ LET up == [rec EXCEPT !.step = @ + 1]
            IN  /\ up.sop = rec.sop /\ up.total = rec.total /\ up.status = rec.status
                /\ up.step = rec.step + 1 /\ up.saved = rec.saved
         /\ LET up == [rec EXCEPT !.saved = @ + 1]
            IN  /\ up.sop = rec.sop /\ up.total = rec.total /\ up.status = rec.status
                /\ up.step = rec.step /\ up.saved = rec.saved + 1
         /\ \A k \in Nat :
              LET up == [rec EXCEPT !.step = k + 1]
              IN  /\ up.sop = rec.sop /\ up.total = rec.total /\ up.status = rec.status
                  /\ up.step = k + 1 /\ up.saved = rec.saved
BY DEF Runs

(* Every step of the engine is one of four: it starts a run, ends one,     *)
(* changes the record of one, or changes no home at all.                   *)
LEMMA StepShape ==
  ASSUME TypeOK, OneHome, [Next]_vars
  PROVE  \/ \E s \in Sops : Starting(s)
         \/ \E r \in active : Ending(r)
         \/ \E r \in active : Keeps(r)
         \/ Quiet
<1> USE TypeFacts
<1>0. \A r \in active : r \in RunIds /\ run[r] \in Runs /\ run[r].status \in Open
  BY DEF OneHome, TypeOK, RunIds
<1>1. ASSUME NEW s \in Sops, StartRun(s) PROVE Starting(s)
  <2> DEFINE d == sops[s]
             r == counter + 1
             new == NewRun(s, d)
  <2>1. r \in RunIds
    BY <1>1, SopConstants DEF StartRun, RunIds, TypeOK
  <2>2. new \in Runs /\ new.sop = s /\ new.status \in Open
    BY <1>1, LoadedType DEF StartRun, CanStart, NewRun, Runs, Open, Never, Definitions
  <2>3. /\ \A q \in RunIds \ {r} : run'[q] = run[q]
        /\ run'[r].sop = s /\ run'[r].status \in Open
    <3>1. CASE ResolveDeterministic(r, d, new)
      <4>1. PICK x \in Runs : run' = [run EXCEPT ![r] = x] /\ x.sop = new.sop /\ x.status \in Open
        BY <2>1, <2>2, <3>1, ResolveDeterministicShape
      <4> QED BY <2>1, <2>2, <4>1
    <3>2. CASE run' = [run EXCEPT ![r] = ResolveStep(d, new)]
      <4>1. ResolveStep(d, new).sop = new.sop /\ ResolveStep(d, new).status \in Open
        BY <2>2, ResolveStepShape
      <4> QED BY <2>1, <2>2, <3>2, <4>1
    <3> QED BY <1>1, <3>1, <3>2 DEF StartRun, StartDeterministic
  <2> QED BY <1>1, <2>1, <2>3 DEF StartRun, Starting
<1>2. ASSUME NEW r \in RunIds, NEW o \in Outcomes, AdvanceStep(r, o)
      PROVE  r \in active /\ (Ending(r) \/ Keeps(r))
  <2> DEFINE d == sops[run[r].sop]
             rec == Recorded(run[r], o)
             next == [rec EXCEPT !.step = @ + 1]
  <2>1. r \in active
    BY <1>2 DEF AdvanceStep, CanAdvance
  <2>2. rec \in Runs /\ next \in Runs
    BY <1>0, <2>1, RecordedType, BumpType
  <2>3. /\ rec.sop = run[r].sop /\ rec.total = run[r].total
        /\ next.sop = run[r].sop /\ next.total = run[r].total /\ next.status \in Open
    BY <1>0, <2>1, <2>2, RecordedShape, BumpShape
  <2>4. \/ (Finish(r, rec, "failed") \/ Finish(r, rec, "completed")) /\ counter' = counter
        \/ run' = [run EXCEPT ![r] = next] /\ UNCHANGED <<active, finished, counter>>
        \/ run' = [run EXCEPT ![r] = ResolveStep(d, next)] /\ UNCHANGED <<active, finished, counter>>
    BY <1>2 DEF AdvanceStep
  <2>5. CASE (Finish(r, rec, "failed") \/ Finish(r, rec, "completed")) /\ counter' = counter
    BY <2>1, <2>2, <2>3, <2>5, FinishShape DEF Closed
  <2>6. CASE run' = [run EXCEPT ![r] = next] /\ UNCHANGED <<active, finished, counter>>
    <3> HIDE DEF next
    <3> QED BY <2>1, <2>3, <2>6 DEF Keeps
  <2>7. CASE run' = [run EXCEPT ![r] = ResolveStep(d, next)] /\ UNCHANGED <<active, finished, counter>>
    <3>1. LET new == ResolveStep(d, next)
          IN  new.sop = next.sop /\ new.total = next.total /\ new.status \in Open
      BY <2>2, <2>3, ResolveStepShape
    <3> HIDE DEF next, d
    <3> QED BY <2>1, <2>3, <2>7, <3>1 DEF Keeps
  <2> QED BY <2>1, <2>4, <2>5, <2>6, <2>7
<1>3. ASSUME NEW r \in RunIds, ApproveStep(r) PROVE r \in active /\ Keeps(r)
  <2>1. /\ Approved(run[r]).sop = run[r].sop /\ Approved(run[r]).total = run[r].total
        /\ Approved(run[r]).status \in Open
    BY DEF Approved, Runs, Open
  <2>2. /\ r \in active /\ run' = [run EXCEPT ![r] = Approved(run[r])]
        /\ UNCHANGED <<active, finished, counter>>
    BY <1>3 DEF ApproveStep
  <2> QED BY <2>1, <2>2 DEF Keeps
<1>4. ASSUME Tick PROVE Quiet
  BY <1>0, <1>4 DEF Tick, Quiet
<1>5. ASSUME NEW r \in RunIds, CancelRun(r) PROVE r \in active /\ Ending(r)
  BY <1>0, <1>5, FinishShape DEF CancelRun, Closed
<1>6. ASSUME NEW r \in RunIds, AdvanceDeterministic(r)
      PROVE  r \in active /\ (Ending(r) \/ Keeps(r))
  <2> DEFINE d == sops[run[r].sop]
             base == Recorded(run[r], "completed")
             rec == [base EXCEPT !.saved = @ + 1]
             next == [rec EXCEPT !.step = @ + 1]
  <2>1. r \in active /\ counter' = counter
    BY <1>6 DEF AdvanceDeterministic, CanAdvance
  <2>2. base \in Runs /\ rec \in Runs /\ next \in Runs
    BY <1>0, <2>1, RecordedType, BumpType DEF Outcomes
  <2>3. base.sop = run[r].sop /\ base.total = run[r].total /\ base.status \in Open
    BY <1>0, <2>1, RecordedShape DEF Outcomes
  <2>4. rec.sop = run[r].sop /\ rec.total = run[r].total /\ rec.status \in Open
    <3> HIDE DEF base
    <3> QED BY <2>2, <2>3, BumpShape
  <2>5. next.sop = run[r].sop /\ next.total = run[r].total /\ next.status \in Open
    <3> HIDE DEF rec
    <3> QED BY <2>2, <2>4, BumpShape
  <2>6. \/ Finish(r, rec, "completed")
        \/ run' = [run EXCEPT ![r] = next] /\ UNCHANGED <<active, finished>>
        \/ ResolveDeterministic(r, d, next) /\ UNCHANGED <<active, finished>>
    BY <1>6 DEF AdvanceDeterministic
  <2> HIDE DEF rec, next, d
  <2>7. CASE Finish(r, rec, "completed")
    BY <2>1, <2>2, <2>4, <2>7, FinishShape DEF Closed
  <2>8. CASE run' = [run EXCEPT ![r] = next] /\ UNCHANGED <<active, finished>>
    BY <2>1, <2>5, <2>8 DEF Keeps
  <2>9. CASE ResolveDeterministic(r, d, next) /\ UNCHANGED <<active, finished>>
    BY <2>1, <2>2, <2>5, <2>9, ResolveDeterministicShape DEF Keeps
  <2> QED BY <2>1, <2>6, <2>7, <2>8, <2>9
<1>7. ASSUME NEW r \in RunIds, ResumeDeterministic(r) PROVE r \in active /\ Keeps(r)
  <2> DEFINE d == sops[run[r].sop]
             st == files[r]
             back == [run[r] EXCEPT !.status = "running", !.waiting = Never, !.saved = st.saved]
             next == [back EXCEPT !.step = st.last + 1]
  <2>1. r \in active /\ UNCHANGED <<active, finished, counter>>
    BY <1>7 DEF ResumeDeterministic
  <2>2. run[r] \in Runs /\ st.last \in Nat /\ st.saved \in Nat
    OBVIOUS
  <2>3. back \in Runs /\ back.sop = run[r].sop /\ back.total = run[r].total /\ back.status \in Open
    BY <2>2 DEF Runs, Open
  <2>4. next \in Runs /\ next.sop = run[r].sop /\ next.total = run[r].total /\ next.status \in Open
    <3> HIDE DEF back, st
    <3> QED BY <2>2, <2>3, BumpType, BumpShape
  <2>5. run' = [run EXCEPT ![r] = next] \/ ResolveDeterministic(r, d, next)
    BY <1>7 DEF ResumeDeterministic
  <2> HIDE DEF next, d
  <2>6. CASE run' = [run EXCEPT ![r] = next]
    BY <2>1, <2>4, <2>6 DEF Keeps
  <2>7. CASE ResolveDeterministic(r, d, next)
    BY <2>1, <2>4, <2>7, ResolveDeterministicShape DEF Keeps
  <2> QED BY <2>1, <2>5, <2>6, <2>7
<1>8. ASSUME CheckApprovalTimeouts PROVE Quiet
  <2>1. TimedOut \subseteq active /\ UNCHANGED <<active, finished, counter>>
    BY <1>8 DEF CheckApprovalTimeouts, TimedOut
  <2>2. \A r \in RunIds : /\ Approved(run[r]).sop = run[r].sop /\ Approved(run[r]).total = run[r].total
                          /\ Approved(run[r]).status \in Open
    BY DEF Approved, Runs, Open
  <2>3. PICK some \in SUBSET TimedOut :
          run' = [r \in RunIds |-> IF r \in some THEN Approved(run[r]) ELSE run[r]]
    <3>1. PICK done \in SUBSET TimedOut, hit \in SUBSET TimedOut : AutoApprove(done, hit)
      <4>1. Stepless \subseteq TimedOut /\ TimedOut \in SUBSET TimedOut /\ {} \in SUBSET TimedOut
        BY DEF Stepless
      <4>2. CASE AutoApprove(TimedOut, {})
        BY <4>1, <4>2
      <4>3. CASE \E bad \in Stepless, done \in SUBSET (TimedOut \ Stepless) : AutoApprove(done, {bad})
        BY <4>1, <4>3
      <4> QED BY <1>8, <4>2, <4>3 DEF CheckApprovalTimeouts
    <3> QED BY <3>1 DEF AutoApprove
  <2> QED BY <1>0, <2>1, <2>2, <2>3 DEF Quiet
<1>9. ASSUME NEW lib \in Libraries, Reload(lib) PROVE Quiet
  BY <1>0, <1>9 DEF Reload, Quiet
<1>10. ASSUME UNCHANGED vars PROVE Quiet
  BY <1>0, <1>10 DEF vars, Quiet
<1> QED
  BY <1>1, <1>2, <1>3, <1>4, <1>5, <1>6, <1>7, <1>8, <1>9, <1>10 DEF Next, ToolNext

-----------------------------------------------------------------------------

(* Eviction drops a prefix.                                                *)
LEMMA RetainedSuffix ==
  ASSUME NEW q \in Seq(RunIds)
  PROVE  \E k \in Nat : /\ Len(Retained(q)) = Len(q) - k
                        /\ \A i \in 1 .. Len(Retained(q)) : Retained(q)[i] = q[i + k]
<1> DEFINE k == Len(q) - MaxFinished
<1>1. CASE MaxFinished > 0 /\ Len(q) > MaxFinished
  <2>1. k \in Nat /\ k + 1 \in 1 .. Len(q) + 1
    BY <1>1, SopConstants
  <2>2. \A i \in (k + 1) .. Len(q) : q[i] \in RunIds
    BY <2>1, SopConstants
  <2>3. Retained(q) = SubSeq(q, k + 1, Len(q))
    BY <1>1 DEF Retained
  <2>4. /\ Len(SubSeq(q, k + 1, Len(q))) = Len(q) - k
        /\ \A i \in 1 .. Len(q) - k : SubSeq(q, k + 1, Len(q))[i] = q[i + k]
    BY <2>1, <2>2, SubSeqProperties
  <2> QED BY <2>1, <2>3, <2>4
<1>2. CASE ~(MaxFinished > 0 /\ Len(q) > MaxFinished)
  <2>1. Retained(q) = q /\ 0 \in Nat
    BY <1>2 DEF Retained
  <2>2. Len(q) = Len(q) - 0 /\ \A i \in 1 .. Len(q) : q[i] = q[i + 0]
    OBVIOUS
  <2> QED BY <2>1, <2>2
<1> QED BY <1>1, <1>2

(* A run has one home: no operation loses a run, keeps it both active and   *)
(* finished, or finishes it twice (OneHome).                                 *)
THEOREM RunsHaveOneHome == Spec => []OneHome
<1>1. Init => OneHome
  BY DEF Init, OneHome
<1>2. TypeOK /\ OneHome /\ [Next]_vars => OneHome'
  <2> SUFFICES ASSUME TypeOK, OneHome, [Next]_vars PROVE OneHome'
    OBVIOUS
  <2> USE TypeFacts
  <2>0. counter \in Nat /\ 1 .. counter \subseteq RunIds
    BY SopConstants DEF TypeOK, RunIds
  <2>1. ASSUME NEW s \in Sops, Starting(s) PROVE OneHome'
    <3>1. /\ counter' = counter + 1 /\ active' = active \cup {counter'} /\ finished' = finished
          /\ \A r \in 1 .. counter : run'[r] = run[r]
          /\ run'[counter'].status \in Open
      BY <2>0, <2>1 DEF Starting
    <3>2. active' \subseteq 1 .. counter'
      BY <2>0, <3>1 DEF OneHome
    <3>3. ASSUME NEW i \in DOMAIN finished PROVE finished[i] \in (1 .. counter') \ active'
      <4>1. finished[i] \in 1 .. counter /\ finished[i] \notin active
        BY DEF OneHome
      <4>2. finished[i] \in 1 .. counter' /\ finished[i] # counter'
        BY <2>0, <3>1, <4>1
      <4> QED BY <3>1, <4>1, <4>2
    <3>4. \A i, j \in DOMAIN finished' : finished'[i] = finished'[j] => i = j
      BY <3>1 DEF OneHome
    <3>5. ASSUME NEW r \in 1 .. counter'
          PROVE  run'[r].status \in IF r \in active' THEN Open ELSE Closed
      <4>1. CASE r = counter'
        BY <3>1, <4>1
      <4>2. CASE r # counter'
        <5>1. r \in 1 .. counter
          BY <2>0, <3>1, <4>2
        <5>2. run[r].status \in IF r \in active THEN Open ELSE Closed
          BY <5>1 DEF OneHome
        <5>3. r \in active' <=> r \in active
          BY <3>1, <4>2
        <5> QED BY <3>1, <5>1, <5>2, <5>3
      <4> QED BY <4>1, <4>2
    <3> QED BY <3>1, <3>2, <3>3, <3>4, <3>5 DEF OneHome
  <2>2. ASSUME NEW r \in active, Ending(r) PROVE OneHome'
    <3> DEFINE q == Append(finished, r)
    <3>1. r \in 1 .. counter /\ r \in RunIds
      BY <2>0 DEF OneHome
    <3>2. q \in Seq(RunIds) /\ Len(q) = Len(finished) + 1
          /\ \A i \in 1 .. Len(finished) + 1 : q[i] = IF i = Len(finished) + 1 THEN r ELSE finished[i]
      BY <3>1
    <3>a. \A i \in 1 .. Len(finished) : finished[i] \in (1 .. counter) \ active /\ finished[i] # r
      BY DEF OneHome
    <3>b. \A i, j \in 1 .. Len(finished) : finished[i] = finished[j] => i = j
      BY DEF OneHome
    <3>c. \A i \in 1 .. Len(q) : \/ i = Len(finished) + 1 /\ q[i] = r
                                 \/ i \in 1 .. Len(finished) /\ q[i] = finished[i]
      BY <3>2
    <3>3. \A i \in 1 .. Len(q) : q[i] \in (1 .. counter) \ (active \ {r})
      BY <3>1, <3>a, <3>c
    <3>4. \A i, j \in 1 .. Len(q) : q[i] = q[j] => i = j
      BY <3>a, <3>b, <3>c
    <3> HIDE DEF q
    <3>5. PICK k \in Nat : /\ Len(Retained(q)) = Len(q) - k
                           /\ \A i \in 1 .. Len(Retained(q)) : Retained(q)[i] = q[i + k]
      BY <3>2, RetainedSuffix
    <3>6. finished' = Retained(q) /\ counter' = counter /\ active' = active \ {r}
      BY <2>2 DEF Ending, q
    <3>7. Retained(q) \in Seq(RunIds) /\ Len(q) \in Nat /\ Len(Retained(q)) \in Nat
      BY <3>2, RetainedType
    <3>8. DOMAIN finished' = 1 .. Len(q) - k
      BY <3>5, <3>6, <3>7
    <3>9. \A i \in DOMAIN finished' : i + k \in 1 .. Len(q) /\ finished'[i] = q[i + k]
      BY <3>5, <3>6, <3>7, <3>8
    <3>10. active' \subseteq 1 .. counter'
      BY <3>6 DEF OneHome
    <3>11. \A i \in DOMAIN finished' : finished'[i] \in (1 .. counter') \ active'
      BY <3>3, <3>6, <3>9
    <3>12. \A i, j \in DOMAIN finished' : finished'[i] = finished'[j] => i = j
      BY <3>4, <3>7, <3>8, <3>9
    <3>13. \A p \in 1 .. counter' : run'[p].status \in IF p \in active' THEN Open ELSE Closed
      BY <2>0, <2>2, <3>1, <3>6 DEF Ending, OneHome
    <3> QED BY <3>10, <3>11, <3>12, <3>13 DEF OneHome
  <2>3. ASSUME NEW r \in active, Keeps(r) PROVE OneHome'
    BY <2>0, <2>3 DEF Keeps, OneHome
  <2>4. ASSUME Quiet PROVE OneHome'
    BY <2>0, <2>4 DEF Quiet, OneHome
  <2> QED BY <2>1, <2>2, <2>3, <2>4, StepShape
<1> QED BY <1>1, <1>2, TypeCorrect, PTL DEF Spec

(* The limits on runs in flight hold whatever is reloaded and whoever starts *)
(* runs (WithinLimits).                                                      *)
THEOREM LimitsHold == Spec => []WithinLimits
<1>1. Init => WithinLimits
  BY SopConstants, FS_EmptySet DEF Init, WithinLimits, ActiveOf
<1>2. TypeOK /\ OneHome /\ WithinLimits /\ [Next]_vars => WithinLimits'
  <2> SUFFICES ASSUME TypeOK, OneHome, WithinLimits, [Next]_vars PROVE WithinLimits'
    OBVIOUS
  <2> USE TypeFacts
  <2>1. counter \in Nat /\ 1 .. counter \subseteq RunIds /\ IsFiniteSet(active)
    <3>1. counter \in Nat /\ 1 .. counter \subseteq RunIds
      BY SopConstants DEF TypeOK, RunIds
    <3>2. IsFiniteSet(1 .. counter)
      BY <3>1, FS_Interval
    <3> QED BY <3>1, <3>2, FS_Subset DEF OneHome
  <2>2. \A s \in Sops : IsFiniteSet(ActiveOf(s)) /\ Cardinality(ActiveOf(s)) \in Nat
    BY <2>1, FS_Subset, FS_CardinalityType DEF ActiveOf
  <2>3. \A s \in Sops : s \in Sops => (Loaded(s) => sops[s].maxConcurrent \in Nat)
    BY LoadedType DEF Definitions
  <2>4. ASSUME NEW t \in Sops, Starting(t) PROVE WithinLimits'
    <3>1. /\ counter' \notin active /\ active' = active \cup {counter'}
          /\ \A r \in active : run'[r] = run[r]
          /\ run'[counter'].sop = t
      BY <2>1, <2>4 DEF Starting, OneHome
    <3>2. Cardinality(active') <= MaxTotal
      <4>1. Cardinality(active') = Cardinality(active) + 1
        BY <2>1, <3>1, FS_AddElement
      <4>2. Cardinality(active) \in Nat
        BY <2>1, FS_CardinalityType
      <4>3. Cardinality(active) < MaxTotal
        BY <2>4 DEF Starting, CanStart
      <4> QED BY <4>1, <4>2, <4>3, SopConstants
    <3>3. ASSUME NEW s \in Sops, ActiveOf(s)' # {}
          PROVE  \E lib \in Libraries : lib[s] # NotLoaded /\ Cardinality(ActiveOf(s)') <= lib[s].maxConcurrent
      <4>1. CASE s = t
        <5>1. ActiveOf(s)' = ActiveOf(s) \cup {counter'} /\ counter' \notin ActiveOf(s)
          BY <3>1, <4>1 DEF ActiveOf
        <5>2. Cardinality(ActiveOf(s)') = Cardinality(ActiveOf(s)) + 1
          BY <5>1, <2>2, FS_AddElement
        <5>3. Cardinality(ActiveOf(s)) < sops[s].maxConcurrent /\ Loaded(s)
          BY <2>4, <4>1 DEF Starting, CanStart
        <5>4. Cardinality(ActiveOf(s)') <= sops[s].maxConcurrent
          BY <2>2, <2>3, <5>2, <5>3
        <5> QED BY <5>3, <5>4 DEF TypeOK, Loaded
      <4>2. CASE s # t
        <5>1. ActiveOf(s)' = ActiveOf(s)
          BY <3>1, <4>2 DEF ActiveOf
        <5> QED BY <3>3, <5>1 DEF WithinLimits
      <4> QED BY <4>1, <4>2
    <3> QED BY <3>2, <3>3 DEF WithinLimits
  <2>5. ASSUME active' \subseteq active, \A r \in active' : run'[r].sop = run[r].sop
        PROVE  WithinLimits'
    <3>1. Cardinality(active') <= MaxTotal
      <4>1. IsFiniteSet(active') /\ Cardinality(active') <= Cardinality(active)
        BY <2>1, <2>5, FS_Subset
      <4> QED BY <2>1, <4>1, FS_CardinalityType, SopConstants DEF WithinLimits
    <3>2. ASSUME NEW s \in Sops, ActiveOf(s)' # {}
          PROVE  \E lib \in Libraries : lib[s] # NotLoaded /\ Cardinality(ActiveOf(s)') <= lib[s].maxConcurrent
      <4>1. ActiveOf(s)' \subseteq ActiveOf(s)
        BY <2>5 DEF ActiveOf
      <4>2. /\ IsFiniteSet(ActiveOf(s)') /\ Cardinality(ActiveOf(s)') <= Cardinality(ActiveOf(s))
            /\ Cardinality(ActiveOf(s)') \in Nat
        BY <2>2, <4>1, FS_Subset, FS_CardinalityType
      <4>3. PICK lib \in Libraries : lib[s] # NotLoaded /\ Cardinality(ActiveOf(s)) <= lib[s].maxConcurrent
        BY <3>2, <4>1 DEF WithinLimits
      <4>4. lib[s].maxConcurrent \in Nat
        BY <4>3, SopConstants DEF Definitions
      <4>5. Cardinality(ActiveOf(s)') <= lib[s].maxConcurrent
        BY <2>2, <4>2, <4>3, <4>4
      <4> QED BY <4>3, <4>5
    <3> QED BY <3>1, <3>2 DEF WithinLimits
  <2>6. ASSUME NEW r \in active, Ending(r) PROVE WithinLimits'
    <3>1. active' \subseteq active /\ \A p \in active' : run'[p].sop = run[p].sop
      BY <2>1, <2>6 DEF Ending, OneHome
    <3> QED BY <2>5, <3>1
  <2>7. ASSUME NEW r \in active, Keeps(r) PROVE WithinLimits'
    <3>1. active' \subseteq active /\ \A p \in active' : run'[p].sop = run[p].sop
      BY <2>1, <2>7 DEF Keeps, OneHome
    <3> QED BY <2>5, <3>1
  <2>8. ASSUME Quiet PROVE WithinLimits'
    <3>1. active' \subseteq active /\ \A p \in active' : run'[p].sop = run[p].sop
      BY <2>1, <2>8 DEF Quiet, OneHome
    <3> QED BY <2>5, <3>1
  <2> QED BY <2>4, <2>6, <2>7, <2>8, StepShape
<1> QED BY <1>1, <1>2, TypeCorrect, RunsHaveOneHome, PTL DEF Spec

(* The engine implements the life cycle its callers rely on: ids are handed   *)
(* out in order, within the limit, and a run ends once and stays as it ended  *)
(* (LifecycleSpec).                                                           *)
THEOREM ImplementsLifecycle == Spec => LifecycleSpec
<1>1. Init => Lifecycle!Init
  <2> SUFFICES ASSUME Init PROVE Phase = [r \in RunIds |-> "absent"]
    BY DEF Lifecycle!Init
  <2>1. \A r \in RunIds : r \notin active /\ ~(r <= counter)
    BY SopConstants DEF Init, RunIds
  <2> QED BY <2>1 DEF Phase
<1>2. TypeOK /\ OneHome /\ [Next]_vars => [Lifecycle!Next]_Phase
  <2> SUFFICES ASSUME TypeOK, OneHome, [Next]_vars PROVE Lifecycle!Next \/ Phase' = Phase
    OBVIOUS
  <2> USE TypeFacts
  <2>1. counter \in Nat /\ 1 .. counter \subseteq RunIds /\ active \subseteq 1 .. counter
    BY SopConstants DEF TypeOK, RunIds, OneHome
  <2>2. \A r \in RunIds : r \in Nat \ {0}
    BY SopConstants DEF RunIds
  <2>3. Lifecycle!OpenIds = active
    <3>1. \A r \in RunIds : Phase[r] = "open" <=> r \in active
      BY <2>1, <2>2 DEF Phase, OneHome, Open, Closed
    <3> QED BY <2>1, <3>1 DEF Lifecycle!OpenIds
  <2>4. ASSUME NEW s \in Sops, Starting(s) PROVE Lifecycle!Next
    <3> DEFINE new == counter + 1
    <3>1. new \in RunIds /\ counter' = new /\ active' = active \cup {new}
      BY <2>4 DEF Starting
    <3>2. new \notin active /\ Phase[new] = "absent"
      BY <2>1, <2>2, <3>1 DEF Phase
    <3>3. \A q \in RunIds : q < new => Phase[q] # "absent"
      <4> SUFFICES ASSUME NEW q \in RunIds, q < new PROVE Phase[q] # "absent"
        OBVIOUS
      <4>1. q \in 1 .. counter
        BY <2>1, <2>2
      <4> QED BY <4>1 DEF Phase, OneHome, Open, Closed
    <3>4. Lifecycle!Cardinality(Lifecycle!OpenIds) < MaxTotal
      <4>1. Lifecycle!Cardinality(active) = Cardinality(active)
        BY DEF Cardinality, Lifecycle!Cardinality   \* SopLifecycle's own instance of FiniteSets
      <4> QED BY <2>3, <2>4, <4>1 DEF Starting, CanStart
    <3>5. Phase' = [Phase EXCEPT ![new] = "open"]
      <4>1. ASSUME NEW q \in RunIds \ {new}
            PROVE  (q <= new <=> q <= counter) /\ run'[q] = run[q]
        <5>1. q \in Nat /\ q # counter + 1
          BY <2>2
        <5>2. q <= new <=> q <= counter
          BY <2>1, <5>1
        <5>3. run'[q] = run[q]
          BY <2>4, <3>1 DEF Starting
        <5> QED BY <5>2, <5>3
      <4> DEFINE over == [r \in RunIds |-> IF r \in active' THEN "open"
                                           ELSE IF r <= new THEN run'[r].status ELSE "absent"]
      <4>2. Phase' = over
        BY <3>1 DEF Phase
      <4>3. over[new] = "open"
        BY <3>1
      <4>4. ASSUME NEW q \in RunIds, q # new PROVE over[q] = Phase[q]
        BY <3>1, <4>1, <4>4 DEF Phase
      <4>5. DOMAIN Phase = RunIds /\ DOMAIN over = RunIds /\ over = [r \in RunIds |-> over[r]]
        BY DEF Phase
      <4> HIDE DEF over
      <4>6. over = [r \in RunIds |-> IF r = new THEN "open" ELSE Phase[r]]
        BY <4>3, <4>4, <4>5
      <4>7. [Phase EXCEPT ![new] = "open"] = [r \in RunIds |-> IF r = new THEN "open" ELSE Phase[r]]
        BY <4>5
      <4> QED BY <4>2, <4>6, <4>7
    <3>6. Lifecycle!Begin(new)
      BY <3>2, <3>3, <3>4, <3>5 DEF Lifecycle!Begin
    <3> QED BY <3>1, <3>6 DEF Lifecycle!Next
  <2>5. ASSUME NEW r \in active, Ending(r) PROVE Lifecycle!Next
    <3>1. r \in RunIds /\ r <= counter /\ Phase[r] = "open"
      BY <2>1 DEF Phase
    <3>2. Phase' = [Phase EXCEPT ![r] = run'[r].status]
      BY <2>1, <2>5, <3>1 DEF Ending, Phase
    <3>3. run'[r].status \in Lifecycle!Ends
      BY <2>5 DEF Ending, Closed, Lifecycle!Ends
    <3>4. Lifecycle!End(r, run'[r].status)
      BY <3>1, <3>2 DEF Lifecycle!End
    <3> QED BY <3>1, <3>3, <3>4 DEF Lifecycle!Next
  <2>6. ASSUME NEW r \in active, Keeps(r) PROVE Phase' = Phase
    BY <2>1, <2>6 DEF Keeps, Phase
  <2>7. ASSUME Quiet PROVE Phase' = Phase
    BY <2>7 DEF Quiet, Phase
  <2> QED BY <2>4, <2>5, <2>6, <2>7, StepShape
<1> QED
  BY <1>1, <1>2, TypeCorrect, RunsHaveOneHome, PTL DEF Spec, LifecycleSpec, Lifecycle!Spec

-----------------------------------------------------------------------------

Ended(s) == {r \in 1 .. counter : run[r].sop = s /\ run[r].status \in Closed}

(* The last finished run of a procedure is the one that ended last.          *)
Latest(s) ==
  \/ Ended(s) = {} /\ \A i \in DOMAIN finished : run[finished[i]].sop # s
  \/ \E i \in DOMAIN finished :
       /\ run[finished[i]].sop = s
       /\ \A j \in DOMAIN finished : j > i => run[finished[j]].sop # s
       /\ \A r \in Ended(s) : run[r].completed <= run[finished[i]].completed

(* Runs that ended did so in the past, and where none are evicted, the last  *)
(* finished run of each procedure is known.                                  *)
Recorder ==
  /\ MaxFinished = 0
  /\ \A r \in 1 .. counter : run[r].status \in Closed => run[r].completed \in 0 .. now
  /\ \A s \in Sops : Latest(s)

LEMMA TimeAdvances ==
  ASSUME TypeOK, [Next]_vars
  PROVE  now' = now \/ now' = now + 1
BY DEF Next, ToolNext, vars, StartRun, StartDeterministic, AdvanceStep, ApproveStep, Tick, CancelRun,
       AdvanceDeterministic, ResumeDeterministic, CheckApprovalTimeouts, AutoApprove, Reload

(* A step that ends no run changes no run that has ended.                    *)
LEMMA EndedStays ==
  ASSUME TypeOK, OneHome, Recorder, now' \in Nat, now' >= now, finished' = finished,
         \A q \in (1 .. counter) \ active : run'[q] = run[q],
         \A q \in (1 .. counter') \ ((1 .. counter) \ active) : run'[q].status \notin Closed,
         1 .. counter \subseteq 1 .. counter'
  PROVE  Recorder'
<1>1. \A q \in 1 .. counter : run[q].status \in Closed <=> q \notin active
  BY DEF OneHome, Open, Closed
<1>2. \A q \in 1 .. counter' : run'[q].status \in Closed =>
        q \in 1 .. counter /\ run'[q] = run[q] /\ run[q].status \in Closed
  BY <1>1
<1>3. \A s \in Sops : Ended(s)' = Ended(s)
  BY <1>1, <1>2 DEF Ended
<1>4. \A i \in DOMAIN finished : run'[finished[i]] = run[finished[i]]
  BY DEF OneHome
<1>5. ASSUME NEW s \in Sops PROVE Latest(s)'
  <2>1. \A r \in Ended(s) : run'[r] = run[r]
    BY <1>1 DEF Ended
  <2>2. Latest(s)
    BY DEF Recorder
  <2> QED BY <1>3, <1>4, <2>1, <2>2 DEF Latest
<1>6. ASSUME NEW q \in 1 .. counter', run'[q].status \in Closed PROVE run'[q].completed \in 0 .. now'
  <2>1. run'[q] = run[q] /\ run[q].completed \in 0 .. now
    BY <1>2, <1>6 DEF Recorder
  <2>2. now \in Nat
    BY TypeFacts
  <2> QED BY <2>1, <2>2
<1> QED BY <1>5, <1>6 DEF Recorder

(* The run that ends now is the last.                                        *)
LEMMA EndsLast ==
  ASSUME TypeOK, OneHome, Recorder, NEW r \in active, Ending(r), now' \in Nat, now' >= now
  PROVE  Recorder'
<1> DEFINE n == Len(finished) + 1
<1>1. r \in 1 .. counter /\ r \in RunIds /\ 1 .. counter \subseteq RunIds /\ now \in Nat
  BY SopConstants, TypeFacts DEF TypeOK, OneHome, RunIds
<1>2. /\ counter' = counter /\ run'[r].sop = run[r].sop /\ run'[r].completed = now
      /\ run'[r].status \in Closed /\ run[r].status \notin Closed
      /\ \A q \in (1 .. counter) \ {r} : run'[q] = run[q]
  BY <1>1 DEF Ending, OneHome, Open, Closed
<1>3. /\ DOMAIN finished' = 1 .. n /\ n \in Nat /\ DOMAIN finished = 1 .. Len(finished) /\ Len(finished) \in Nat
      /\ finished'[n] = r /\ \A i \in 1 .. Len(finished) : finished'[i] = finished[i]
  <2>1. finished' = Append(finished, r)
    BY DEF Ending, Retained, Recorder
  <2> QED BY <1>1, <2>1, TypeFacts
<1>4. \A i \in 1 .. Len(finished) : finished[i] \in (1 .. counter) \ {r}
  BY <1>3 DEF OneHome
<1>5. ASSUME NEW q \in 1 .. counter', run'[q].status \in Closed PROVE run'[q].completed \in 0 .. now'
  <2>1. run'[q].completed \in 0 .. now
    BY <1>1, <1>2, <1>5 DEF Recorder
  <2> QED BY <1>1, <2>1
<1>6. ASSUME NEW s \in Sops PROVE Latest(s)'
  <2>1. CASE run[r].sop = s
    <3>1. \A q \in Ended(s)' : run'[q].completed <= now
      BY <1>1, <1>2 DEF Ended, Recorder
    <3>2. n \in DOMAIN finished' /\ \A j \in DOMAIN finished' : ~(j > n)
      BY <1>3
    <3>3. run'[finished'[n]].sop = s /\ run'[finished'[n]].completed = now
      BY <1>2, <1>3, <2>1
    <3> HIDE DEF n
    <3> QED BY <3>1, <3>2, <3>3 DEF Latest
  <2>2. CASE run[r].sop # s
    <3>1. Ended(s)' = Ended(s) /\ \A q \in Ended(s) : run'[q] = run[q]
      BY <1>1, <1>2, <2>2 DEF Ended
    <3>2. \A i \in 1 .. Len(finished) : run'[finished'[i]] = run[finished[i]]
      BY <1>2, <1>3, <1>4
    <3>3. run'[finished'[n]].sop # s
      BY <1>2, <1>3, <2>2
    <3>4. CASE Ended(s) = {} /\ \A i \in DOMAIN finished : run[finished[i]].sop # s
      <4>1. \A i \in 1 .. n : i = n \/ i \in 1 .. Len(finished)
        BY <1>3
      <4>2. \A i \in DOMAIN finished' : run'[finished'[i]].sop # s
        BY <1>3, <3>2, <3>3, <3>4, <4>1
      <4> QED BY <3>1, <3>4, <4>2 DEF Latest
    <3>5. CASE \E i \in DOMAIN finished :
                 /\ run[finished[i]].sop = s
                 /\ \A j \in DOMAIN finished : j > i => run[finished[j]].sop # s
                 /\ \A q \in Ended(s) : run[q].completed <= run[finished[i]].completed
      <4>1. PICK i \in 1 .. Len(finished) :
              /\ run[finished[i]].sop = s
              /\ \A j \in 1 .. Len(finished) : j > i => run[finished[j]].sop # s
              /\ \A q \in Ended(s) : run[q].completed <= run[finished[i]].completed
        BY <1>3, <3>5
      <4>2. i \in DOMAIN finished' /\ run'[finished'[i]] = run[finished[i]]
        BY <1>3, <3>2
      <4>3. ASSUME NEW j \in DOMAIN finished', j > i PROVE run'[finished'[j]].sop # s
        <5>1. j = n \/ j \in 1 .. Len(finished)
          BY <1>3
        <5> QED BY <3>2, <3>3, <4>1, <4>3, <5>1
      <4>4. \A q \in Ended(s)' : run'[q].completed <= run'[finished'[i]].completed
        BY <3>1, <4>1, <4>2
      <4> QED BY <4>1, <4>2, <4>3, <4>4 DEF Latest
    <3>6. Latest(s)
      BY DEF Recorder
    <3> QED BY <3>4, <3>5, <3>6 DEF Latest
  <2> QED BY <2>1, <2>2
<1>7. MaxFinished = 0
  BY DEF Recorder
<1> QED BY <1>5, <1>6, <1>7 DEF Recorder

LEMMA RecorderStep ==
  ASSUME TypeOK, OneHome, Recorder, [Next]_vars
  PROVE  Recorder'
<1>1. now' \in Nat /\ now' >= now /\ counter \in Nat /\ 1 .. counter \subseteq RunIds
  <2>1. now' \in Nat /\ now' >= now
    BY TimeAdvances, TypeFacts
  <2>2. counter \in Nat /\ 1 .. counter \subseteq RunIds
    BY SopConstants DEF TypeOK, RunIds
  <2> QED BY <2>1, <2>2
<1>2. \A q \in active : run[q].status \notin Closed /\ q \in 1 .. counter
  BY DEF OneHome, Open, Closed
<1>3. ASSUME NEW s \in Sops, Starting(s) PROVE Recorder'
  <2>1. /\ counter' = counter + 1 /\ finished' = finished /\ run'[counter'].status \in Open
        /\ \A q \in 1 .. counter : run'[q] = run[q] /\ q \in 1 .. counter'
    BY <1>1, <1>3 DEF Starting
  <2>2. \A q \in 1 .. counter' : q = counter' \/ q \in 1 .. counter
    BY <1>1, <2>1
  <2>3. \A q \in (1 .. counter') \ ((1 .. counter) \ active) : run'[q].status \notin Closed
    BY <1>2, <2>1, <2>2 DEF Open, Closed
  <2> QED BY <1>1, <2>1, <2>3, EndedStays
<1>4. ASSUME NEW r \in active, Ending(r) PROVE Recorder'
  BY <1>1, <1>4, EndsLast
<1>5. ASSUME (\E r \in active : Keeps(r)) \/ Quiet PROVE Recorder'
  <2>1. /\ counter' = counter /\ finished' = finished
        /\ \A q \in (1 .. counter) \ active : run'[q] = run[q]
    BY <1>1, <1>5 DEF Keeps, Quiet
  <2>2. \A q \in active : run'[q].status \notin Closed
    BY <1>1, <1>2, <1>5 DEF Keeps, Quiet, Open, Closed
  <2>3. \A q \in (1 .. counter') \ ((1 .. counter) \ active) : run'[q].status \notin Closed
    BY <2>1, <2>2
  <2> QED BY <1>1, <2>1, <2>3, EndedStays
<1> QED BY <1>3, <1>4, <1>5, StepShape

(* As long as the engine forgets no finished run, a procedure is not started *)
(* while a run of it ended less than its cooldown ago (CooldownRespected).   *)
THEOREM CooldownHolds == MaxFinished = 0 /\ Spec => CooldownRespected
<1>1. MaxFinished = 0 /\ Init => Recorder
  BY DEF Init, Recorder, Latest, Ended
<1>2. TypeOK /\ OneHome /\ Recorder /\ [Next]_vars => Recorder'
  BY RecorderStep
<1>3. TypeOK /\ OneHome /\ Recorder /\ [Next]_vars =>
        [\A s \in Sops : Starts(s) =>
           \A r \in 1 .. counter : run[r].sop = s /\ run[r].status \in Closed =>
             now - run[r].completed >= sops[s].cooldown]_vars
  <2> SUFFICES ASSUME TypeOK, OneHome, Recorder, [Next]_vars,
                      NEW s \in Sops, Starts(s),
                      NEW r \in 1 .. counter, run[r].sop = s, run[r].status \in Closed
               PROVE  now - run[r].completed >= sops[s].cooldown
    OBVIOUS
  <2>1. Starting(s)
    <3>1. counter' # counter
      BY DEF Starts, TypeOK
    <3>2. PICK x \in Sops : Starting(x)
      BY <3>1, StepShape DEF Ending, Keeps, Quiet
    <3> QED BY <3>2 DEF Starting, Starts
  <2>2. ~CoolingDown(s) /\ sops[s].cooldown \in Nat
    BY <2>1, LoadedType DEF Starting, CanStart, Definitions
  <2>3. r \in Ended(s) /\ now \in Nat
    BY TypeFacts DEF Ended
  <2>4. PICK i \in DOMAIN finished :
          /\ run[finished[i]].sop = s
          /\ \A j \in DOMAIN finished : j > i => run[finished[j]].sop # s
          /\ run[r].completed <= run[finished[i]].completed
    BY <2>3 DEF Recorder, Latest
  <2>5. ~(now - run[finished[i]].completed < sops[s].cooldown)
    BY <2>2, <2>4 DEF CoolingDown
  <2>6. run[finished[i]].completed \in Nat /\ run[r].completed \in Nat
    BY DEF OneHome, Recorder
  <2> QED BY <2>2, <2>3, <2>4, <2>5, <2>6
<1> QED BY <1>1, <1>2, <1>3, TypeCorrect, RunsHaveOneHome, PTL DEF Spec, CooldownRespected

-----------------------------------------------------------------------------

(* A record at a step of its own, with the savings of the steps behind it,   *)
(* and the length a library gave its procedure.                              *)
Sound(rec) ==
  /\ rec.step \in 1 .. rec.total /\ rec.saved < rec.step
  /\ \E lib \in Libraries : lib[rec.sop] # NotLoaded /\ rec.total = Len(lib[rec.sop].steps)

(* A file from which a run of this length resumes at a step of its own.      *)
Fits(file, total) == file.total = total /\ file.last < total /\ file.saved <= file.last

(* What makes PositionsHold inductive: runs have the length of a procedure   *)
(* that was loaded once, and there is no file of a run that is still to come. *)
Positions ==
  /\ \A r \in active : Sound(run[r])
  /\ \A r \in RunIds : files[r] # NoFile => r \in 1 .. counter /\ Fits(files[r], run[r].total)
  /\ AbortsOnlyShortened

(* A deterministic step that is resolved leaves a sound run and, if it wrote  *)
(* one, a file that fits it.                                                  *)
LEMMA ResolveDeterministicSound ==
  ASSUME TypeOK, NEW r \in RunIds, NEW rec \in Runs, NEW d, ResolveDeterministic(r, d, rec),
         Sound(rec), rec.status \in Open
  PROVE  /\ Sound(run'[r]) /\ run'[r].total = rec.total
         /\ \A q \in RunIds \ {r} : run'[q] = run[q] /\ files'[q] = files[q]
         /\ files'[r] = files[r] \/ Fits(files'[r], rec.total)
<1>1. PICK new \in Runs :
        /\ run' = [run EXCEPT ![r] = new]
        /\ new.sop = rec.sop /\ new.total = rec.total /\ new.status \in Open
        /\ new.step = rec.step /\ new.saved = rec.saved
        /\ \/ files' = files
           \/ files' = [files EXCEPT ![r] = Snapshot(new)]
  BY ResolveDeterministicShape
<1>2. run'[r] = new /\ \A q \in RunIds \ {r} : run'[q] = run[q]
  BY <1>1, TypeFacts
<1>3. files \in [RunIds -> [last : Nat, total : Int, saved : Nat]]
  BY DEF TypeOK
<1>4. Fits(Snapshot(new), rec.total)
  BY <1>1 DEF Fits, Snapshot, Sound, Runs
<1> QED BY <1>1, <1>2, <1>3, <1>4 DEF Sound

(* A run that moves, or is new, with its file; the process may abort.         *)
LEMMA MovesSound ==
  ASSUME TypeOK, OneHome, Positions, ~halted, sops' = sops, NEW r \in RunIds, r \in active',
         active' \subseteq active \cup {r}, Sound(run'[r]), r \in 1 .. counter',
         counter' \in Nat, counter <= counter',
         \A q \in RunIds \ {r} : run'[q] = run[q] /\ files'[q] = files[q],
         \/ files'[r] = files[r] /\ (files[r] # NoFile => run'[r].total = run[r].total)
         \/ Fits(files'[r], run'[r].total),
         halted' => Loaded(run'[r].sop) /\ run'[r].step > Len(sops[run'[r].sop].steps)
                    /\ run'[r].sop \in Sops /\ run'[r].total \in Nat
  PROVE  Positions'
<1>1. counter \in Nat /\ active \subseteq RunIds
  BY SopConstants DEF TypeOK
<1>2. \A q \in active' : Sound(run'[q])
  BY <1>1 DEF Positions
<1>3. \A q \in RunIds : files'[q] # NoFile => q \in 1 .. counter' /\ Fits(files'[q], run'[q].total)
  BY <1>1 DEF Positions
<1>4. AbortsOnlyShortened'
  <2> SUFFICES ASSUME halted' PROVE AbortsOnlyShortened'
    BY DEF AbortsOnlyShortened
  <2> DEFINE s == run'[r].sop
  <2>1. PICK lib \in Libraries : lib[s] # NotLoaded /\ run'[r].total = Len(lib[s].steps)
    BY DEF Sound
  <2>2. sops[s] \in Definitions
    BY LoadedType
  <2>3. Len(sops[s].steps) \in Nat
    BY <2>2 DEF Definitions
  <2>4. Len(sops[s].steps) < run'[r].total
    <3>1. run'[r].step \in 1 .. run'[r].total /\ run'[r].step > Len(sops[s].steps)
      BY DEF Sound
    <3> QED BY <2>3, <3>1
  <2>5. sops'[s] # NotLoaded
    BY DEF Loaded
  <2> QED BY <2>1, <2>4, <2>5 DEF AbortsOnlyShortened, Loaded
<1> QED BY <1>2, <1>3, <1>4 DEF Positions

(* What soundness depends on.                                                 *)
LEMMA SameSound ==
  ASSUME NEW old, NEW new, Sound(old), new.step = old.step, new.saved = old.saved,
         new.sop = old.sop, new.total = old.total
  PROVE  Sound(new)
BY DEF Sound

(* A step that moves no run, writes no file and does not abort.               *)
LEMMA StaysSound ==
  ASSUME Positions, TypeOK, active' \subseteq active, counter' = counter, files' = files,
         \A q \in active' : /\ run'[q].step = run[q].step /\ run'[q].saved = run[q].saved
                            /\ run'[q].sop = run[q].sop,
         \A q \in RunIds : run'[q].total = run[q].total,
         ~halted'
  PROVE  Positions'
<1>1. active \subseteq RunIds
  BY DEF TypeOK
<1> QED BY <1>1 DEF Positions, Sound, AbortsOnlyShortened

LEMMA PositionsStep ==
  ASSUME TypeOK, OneHome, Positions, [Next]_vars
  PROVE  Positions'
<1> USE TypeFacts
<1>0. /\ counter \in Nat /\ counter \in 0 .. MaxRuns /\ 1 .. counter \subseteq RunIds
      /\ \A r \in active : r \in RunIds /\ r \in 1 .. counter /\ run[r] \in Runs /\ run[r].status \in Open
                           /\ Sound(run[r]) /\ run[r].sop \in Sops /\ run[r].total \in Nat
                           /\ run[r].step \in Nat /\ run[r].saved \in Nat
      /\ \A r \in RunIds : files[r] # NoFile => r \in 1 .. counter /\ Fits(files[r], run[r].total)
  <2>1. counter \in Nat /\ counter \in 0 .. MaxRuns /\ 1 .. counter \subseteq RunIds
    BY SopConstants DEF TypeOK, RunIds
  <2>2. \A r \in RunIds : /\ run[r] \in Runs /\ run[r].sop \in Sops /\ run[r].total \in Nat
                          /\ run[r].step \in Nat /\ run[r].saved \in Nat
    BY DEF Runs
  <2>3. \A r \in active : r \in 1 .. counter /\ run[r].status \in Open
    BY DEF OneHome
  <2> QED BY <2>1, <2>2, <2>3 DEF Positions
<1>1. ASSUME NEW s \in Sops, StartRun(s) PROVE Positions'
  <2> DEFINE d == sops[s]
             r == counter + 1
             new == NewRun(s, d)
  <2>1. /\ r \in RunIds /\ r \in 1 .. counter' /\ counter' = r /\ counter <= r /\ r \in Nat
        /\ r \in active' /\ active' = active \cup {r}
        /\ sops' = sops /\ ~halted /\ ~halted' /\ files[r] = NoFile
    <3>1. /\ counter' = r /\ active' = active \cup {r} /\ sops' = sops /\ ~halted /\ ~halted'
          /\ counter < MaxRuns
      BY <1>1 DEF StartRun
    <3>2. r \in Nat /\ counter <= r /\ r \in 1 .. r /\ r \in 1 .. MaxRuns /\ r \notin 1 .. counter
      BY <1>0, <3>1, SopConstants
    <3>3. r \in RunIds
      BY <3>2 DEF RunIds
    <3>4. files[r] = NoFile
      BY <1>0, <3>2, <3>3
    <3> HIDE DEF r
    <3> QED BY <3>1, <3>2, <3>3, <3>4
  <2>2. d \in Definitions /\ d.steps \in Seq(Steps) /\ d.steps # <<>> /\ d = sops[s] /\ sops \in Libraries
    BY <1>1, LoadedType DEF StartRun, CanStart, Definitions, TypeOK
  <2>3. Len(d.steps) \in Nat /\ Len(d.steps) >= 1
    BY <2>2
  <2>4. /\ new \in Runs /\ new.sop = s /\ new.status \in Open
        /\ new.step = 1 /\ new.saved = 0 /\ new.total = Len(d.steps)
    BY <2>2, <2>3 DEF NewRun, Runs, Open, Never
  <2>5. Sound(new)
    <3>1. sops[s] # NotLoaded
      BY <1>1 DEF StartRun, CanStart, Loaded
    <3> QED BY <2>2, <2>3, <2>4, <3>1 DEF Sound
  <2> HIDE DEF new, d
  <2>6. CASE ResolveDeterministic(r, d, new)
    <3>1. /\ Sound(run'[r]) /\ run'[r].total = new.total
          /\ \A q \in RunIds \ {r} : run'[q] = run[q] /\ files'[q] = files[q]
          /\ files'[r] = files[r] \/ Fits(files'[r], new.total)
      BY <2>1, <2>4, <2>5, <2>6, ResolveDeterministicSound
    <3> HIDE DEF r
    <3> QED BY <2>1, <3>1, MovesSound
  <2>7. CASE run' = [run EXCEPT ![r] = ResolveStep(d, new)] /\ files' = files
    <3>1. /\ ResolveStep(d, new).sop = new.sop /\ ResolveStep(d, new).total = new.total
          /\ ResolveStep(d, new).step = new.step /\ ResolveStep(d, new).saved = new.saved
      BY <2>4, ResolveStepShape
    <3>2. run'[r] = ResolveStep(d, new) /\ \A q \in RunIds \ {r} : run'[q] = run[q]
      BY <2>1, <2>7
    <3>3. Sound(run'[r])
      BY <2>5, <3>1, <3>2 DEF Sound
    <3> HIDE DEF r
    <3> QED BY <2>1, <2>7, <3>2, <3>3, MovesSound
  <2> QED BY <1>1, <2>6, <2>7 DEF StartRun, StartDeterministic, new, d
<1>2. ASSUME NEW r \in active, NEW rec \in Runs, NEW st \in Closed, Finish(r, rec, st), ~halted',
             rec.sop = run[r].sop, rec.total = run[r].total, counter' = counter, files' = files
      PROVE  Positions'
  <2>1. Ending(r)
    BY <1>0, <1>2, FinishShape
  <2> QED BY <1>0, <1>2, <2>1, StaysSound DEF Ending
\* A run that moves to a later or an earlier step of its own.
<1>3. ASSUME NEW r \in active, NEW next \in Runs, NEW d, d = sops[run[r].sop], Loaded(run[r].sop),
             next.sop = run[r].sop, next.total = run[r].total, Sound(next), next.status \in Open,
             ~halted, sops' = sops, active' = active, counter' = counter,
             \/ /\ next.step > Len(d.steps) /\ run' = [run EXCEPT ![r] = next] /\ files' = files
             \/ ~halted' /\ run' = [run EXCEPT ![r] = ResolveStep(d, next)] /\ files' = files
             \/ ~halted' /\ ResolveDeterministic(r, d, next)
      PROVE  Positions'
  <2>1. r \in RunIds /\ r \in 1 .. counter
    BY <1>0
  <2>2. CASE /\ next.step > Len(d.steps) /\ run' = [run EXCEPT ![r] = next] /\ files' = files
    <3>1. run'[r] = next /\ \A q \in RunIds \ {r} : run'[q] = run[q]
      BY <2>1, <2>2
    <3>2. /\ Sound(run'[r]) /\ run'[r].total = run[r].total /\ files'[r] = files[r]
          /\ Loaded(run'[r].sop) /\ run'[r].step > Len(sops[run'[r].sop].steps)
          /\ run'[r].sop \in Sops /\ run'[r].total \in Nat
      BY <1>0, <1>3, <2>2, <3>1
    <3> QED BY <1>0, <1>3, <2>1, <2>2, <3>1, <3>2, MovesSound
  <2>3. CASE ~halted' /\ run' = [run EXCEPT ![r] = ResolveStep(d, next)] /\ files' = files
    <3>1. run'[r] = ResolveStep(d, next) /\ \A q \in RunIds \ {r} : run'[q] = run[q]
      BY <2>1, <2>3
    <3>2. /\ ResolveStep(d, next).sop = next.sop /\ ResolveStep(d, next).total = next.total
          /\ ResolveStep(d, next).step = next.step /\ ResolveStep(d, next).saved = next.saved
      BY <1>3, ResolveStepShape
    <3>3. Sound(run'[r]) /\ run'[r].total = run[r].total
      BY <1>3, <3>1, <3>2, SameSound
    <3>4. counter' \in Nat /\ counter <= counter' /\ r \in 1 .. counter' /\ r \in active'
          /\ active' \subseteq active \cup {r} /\ ~halted /\ ~halted' /\ sops' = sops
      BY <1>0, <1>3, <2>1, <2>3
    <3>5. \A q \in RunIds : files'[q] = files[q]
      BY <2>3
    <3> QED BY <2>1, <3>1, <3>3, <3>4, <3>5, MovesSound
  <2>4. CASE ~halted' /\ ResolveDeterministic(r, d, next)
    <3>1. /\ Sound(run'[r]) /\ run'[r].total = next.total
          /\ \A q \in RunIds \ {r} : run'[q] = run[q] /\ files'[q] = files[q]
          /\ files'[r] = files[r] \/ Fits(files'[r], next.total)
      BY <1>3, <2>1, <2>4, ResolveDeterministicSound
    <3>2. counter' \in Nat /\ counter <= counter' /\ r \in 1 .. counter' /\ r \in active'
          /\ active' \subseteq active \cup {r} /\ ~halted /\ ~halted' /\ sops' = sops
      BY <1>0, <1>3, <2>1, <2>4
    <3>3. run'[r].total = run[r].total
      BY <1>3, <3>1
    <3> QED BY <2>1, <3>1, <3>2, <3>3, MovesSound
  <2> QED BY <1>3, <2>2, <2>3, <2>4
<1>4. ASSUME NEW r \in RunIds, NEW o \in Outcomes, AdvanceStep(r, o) PROVE Positions'
  <2> DEFINE d == sops[run[r].sop]
             rec == Recorded(run[r], o)
             next == [rec EXCEPT !.step = @ + 1]
  <2>1. /\ r \in active /\ ~halted /\ Loaded(run[r].sop) /\ UNCHANGED <<sops, files>>
    BY <1>4 DEF AdvanceStep, CanAdvance
  <2>2. rec \in Runs /\ next \in Runs
    BY <1>0, <2>1, RecordedType, BumpType
  <2>3. /\ rec.sop = run[r].sop /\ rec.total = run[r].total /\ rec.status = run[r].status
        /\ rec.step = run[r].step /\ rec.saved = run[r].saved
    BY <1>0, <2>1, RecordedShape
  <2>4. /\ next.sop = run[r].sop /\ next.total = run[r].total /\ next.status \in Open
        /\ next.step = run[r].step + 1 /\ next.saved = run[r].saved
    <3> HIDE DEF rec
    <3> QED BY <1>0, <2>1, <2>2, <2>3, BumpShape
  <2>5. \/ (Finish(r, rec, "failed") \/ Finish(r, rec, "completed")) /\ UNCHANGED <<counter, halted>>
        \/ /\ next.step <= rec.total /\ UNCHANGED <<active, counter>>
           /\ \/ next.step > Len(d.steps) /\ run' = [run EXCEPT ![r] = next]
              \/ run' = [run EXCEPT ![r] = ResolveStep(d, next)] /\ UNCHANGED halted
    BY <1>4 DEF AdvanceStep
  <2> HIDE DEF rec, next
  <2>6. CASE (Finish(r, rec, "failed") \/ Finish(r, rec, "completed")) /\ UNCHANGED <<counter, halted>>
    BY <1>2, <2>1, <2>2, <2>3, <2>6 DEF Closed
  <2>7. ASSUME next.step <= rec.total PROVE Sound(next)
    BY <1>0, <2>1, <2>3, <2>4, <2>7 DEF Sound
  <2> HIDE DEF d
  <2>8. CASE /\ next.step <= rec.total /\ UNCHANGED <<active, counter>>
             /\ \/ next.step > Len(d.steps) /\ run' = [run EXCEPT ![r] = next]
                \/ run' = [run EXCEPT ![r] = ResolveStep(d, next)] /\ UNCHANGED halted
    BY <1>3, <2>1, <2>2, <2>4, <2>7, <2>8 DEF d
  <2> QED BY <2>5, <2>6, <2>8
<1>5. ASSUME NEW r \in RunIds, AdvanceDeterministic(r) PROVE Positions'
  <2> DEFINE d == sops[run[r].sop]
             base == Recorded(run[r], "completed")
             rec == [base EXCEPT !.saved = @ + 1]
             next == [rec EXCEPT !.step = @ + 1]
  <2>1. r \in active /\ ~halted /\ Loaded(run[r].sop) /\ UNCHANGED <<sops, counter>>
    BY <1>5 DEF AdvanceDeterministic, CanAdvance
  <2>2. base \in Runs /\ rec \in Runs /\ next \in Runs
    BY <1>0, <2>1, RecordedType, BumpType DEF Outcomes
  <2>3. /\ base.sop = run[r].sop /\ base.total = run[r].total /\ base.status = run[r].status
        /\ base.step = run[r].step /\ base.saved = run[r].saved
    BY <1>0, <2>1, RecordedShape DEF Outcomes
  <2>4. /\ rec.sop = run[r].sop /\ rec.total = run[r].total /\ rec.status = run[r].status
        /\ rec.step = run[r].step /\ rec.saved = run[r].saved + 1
    <3> HIDE DEF base
    <3> QED BY <2>2, <2>3, BumpShape
  <2>5. /\ next.sop = run[r].sop /\ next.total = run[r].total /\ next.status \in Open
        /\ next.step = run[r].step + 1 /\ next.saved = run[r].saved + 1
    <3> HIDE DEF rec
    <3> QED BY <1>0, <2>1, <2>2, <2>4, BumpShape
  <2>6. \/ Finish(r, rec, "completed") /\ UNCHANGED <<files, halted>>
        \/ /\ next.step <= rec.total /\ active' = active
           /\ \/ next.step > Len(d.steps) /\ run' = [run EXCEPT ![r] = next] /\ UNCHANGED files
              \/ ResolveDeterministic(r, d, next) /\ UNCHANGED halted
    BY <1>5 DEF AdvanceDeterministic
  <2> HIDE DEF rec, next
  <2>7. CASE Finish(r, rec, "completed") /\ UNCHANGED <<files, halted>>
    BY <1>2, <2>1, <2>2, <2>4, <2>7 DEF Closed
  <2>8. ASSUME next.step <= rec.total PROVE Sound(next)
    <3>1. /\ run[r].step \in 1 .. run[r].total /\ run[r].saved < run[r].step
          /\ run[r].total \in Nat /\ run[r].step \in Nat /\ run[r].saved \in Nat
      BY <1>0, <2>1 DEF Sound
    <3>2. next.step \in 1 .. next.total /\ next.saved < next.step
      BY <2>4, <2>5, <2>8, <3>1
    <3> QED BY <1>0, <2>1, <2>5, <3>2 DEF Sound
  <2> HIDE DEF d
  <2>9. CASE /\ next.step <= rec.total /\ active' = active
             /\ \/ next.step > Len(d.steps) /\ run' = [run EXCEPT ![r] = next] /\ UNCHANGED files
                \/ ResolveDeterministic(r, d, next) /\ UNCHANGED halted
    BY <1>3, <2>1, <2>2, <2>5, <2>8, <2>9 DEF d
  <2> QED BY <2>6, <2>7, <2>9
<1>6. ASSUME NEW r \in RunIds, ResumeDeterministic(r) PROVE Positions'
  <2> DEFINE d == sops[run[r].sop]
             st == files[r]
             back == [run[r] EXCEPT !.status = "running", !.waiting = Never, !.saved = st.saved]
             next == [back EXCEPT !.step = st.last + 1]
  <2>1. /\ r \in active /\ ~halted /\ Loaded(run[r].sop)
        /\ UNCHANGED <<sops, active, counter>> /\ Fits(st, run[r].total)
    BY <1>0, <1>6 DEF ResumeDeterministic
  <2>2. run[r] \in Runs /\ st.last \in Nat /\ st.saved \in Nat
    OBVIOUS
  <2>3. /\ back \in Runs /\ back.sop = run[r].sop /\ back.total = run[r].total
        /\ back.status \in Open /\ back.saved = st.saved
    BY <2>2 DEF Runs, Open
  <2>4. /\ next \in Runs /\ next.sop = run[r].sop /\ next.total = run[r].total
        /\ next.status \in Open /\ next.step = st.last + 1 /\ next.saved = st.saved
    <3> HIDE DEF back, st
    <3> QED BY <2>2, <2>3, BumpType, BumpShape
  <2>5. \/ next.step > Len(d.steps) /\ run' = [run EXCEPT ![r] = next] /\ UNCHANGED files
        \/ ResolveDeterministic(r, d, next) /\ UNCHANGED halted
    BY <1>6 DEF ResumeDeterministic
  <2> HIDE DEF next, st
  <2>6. Sound(next)
    <3>1. st.last < run[r].total /\ st.saved <= st.last /\ run[r].total \in Nat
      BY <1>0, <2>1 DEF Fits
    <3>2. next.step \in 1 .. next.total /\ next.saved < next.step
      BY <2>2, <2>4, <3>1
    <3> QED BY <1>0, <2>1, <2>4, <3>2 DEF Sound
  <2> HIDE DEF d
  <2> QED BY <1>3, <2>1, <2>4, <2>5, <2>6 DEF d
<1>7. ASSUME NEW r \in RunIds, ApproveStep(r) PROVE Positions'
  <2>1. /\ r \in active /\ ~halted /\ UNCHANGED <<sops, active, counter, files>>
        /\ run' = [run EXCEPT ![r] = Approved(run[r])]
        /\ halted' => halted \/ (Loaded(run[r].sop) /\ run[r].step > Len(sops[run[r].sop].steps))
    BY <1>7 DEF ApproveStep
  <2>2. /\ run'[r] = Approved(run[r]) /\ \A q \in RunIds \ {r} : run'[q] = run[q]
    BY <2>1, <1>0
  <2>3. /\ Approved(run[r]).step = run[r].step /\ Approved(run[r]).saved = run[r].saved
        /\ Approved(run[r]).sop = run[r].sop /\ Approved(run[r]).total = run[r].total
    BY <1>0, <2>1 DEF Approved, Runs
  <2>4. Sound(run'[r])
    <3>1. Sound(run[r])
      BY <1>0, <2>1
    <3> QED BY <2>2, <2>3, <3>1, SameSound
  <2> QED BY <1>0, <2>1, <2>2, <2>3, <2>4, MovesSound
<1>8. ASSUME CheckApprovalTimeouts PROVE Positions'
  <2>1. /\ ~halted /\ UNCHANGED <<sops, active, counter, files>>
        /\ Stepless \subseteq TimedOut /\ TimedOut \subseteq active
    BY <1>8 DEF CheckApprovalTimeouts, Stepless, TimedOut
  <2>2. \A r \in RunIds : /\ Approved(run[r]).step = run[r].step /\ Approved(run[r]).saved = run[r].saved
                          /\ Approved(run[r]).sop = run[r].sop /\ Approved(run[r]).total = run[r].total
    BY DEF Approved, Runs
  <2>3. \A r \in RunIds : /\ run'[r].step = run[r].step /\ run'[r].saved = run[r].saved
                          /\ run'[r].sop = run[r].sop /\ run'[r].total = run[r].total
    <3>1. PICK done, hit : AutoApprove(done, hit)
      BY <1>8 DEF CheckApprovalTimeouts
    <3> QED BY <2>2, <3>1 DEF AutoApprove
  <2>4. CASE UNCHANGED halted
    BY <1>0, <2>1, <2>3, <2>4, StaysSound
  <2>5. CASE Stepless # {}
    <3>1. PICK bad \in Stepless : TRUE
      BY <2>5
    <3>2. /\ bad \in active /\ Loaded(run[bad].sop) /\ run[bad].step > Len(sops[run[bad].sop].steps)
      BY <2>1, <3>1 DEF Stepless, TimedOut
    <3>3. /\ \A r \in active' : Sound(run'[r])
          /\ \A r \in RunIds : files'[r] # NoFile => r \in 1 .. counter' /\ Fits(files'[r], run'[r].total)
      <4>1. \A r \in active' : r \in RunIds /\ Sound(run[r])
        BY <1>0, <2>1
      <4>2. \A r \in active' : Sound(run'[r])
        BY <2>3, <4>1, SameSound
      <4>3. ASSUME NEW r \in RunIds, files'[r] # NoFile
            PROVE  r \in 1 .. counter' /\ Fits(files'[r], run'[r].total)
        BY <1>0, <2>1, <2>3, <4>3
      <4> QED BY <4>2, <4>3
    <3>4. AbortsOnlyShortened'
      <4> DEFINE s == run[bad].sop
      <4>1. PICK lib \in Libraries : lib[s] # NotLoaded /\ run[bad].total = Len(lib[s].steps)
        BY <1>0, <3>2 DEF Sound
      <4>2. sops[s] \in Definitions
        BY <1>0, <3>2, LoadedType
      <4>3. Len(sops[s].steps) \in Nat
        BY <4>2 DEF Definitions
      <4>4. Len(sops[s].steps) < run[bad].total
        BY <1>0, <3>2, <4>3 DEF Sound
      <4>5. run'[bad].sop = s /\ run'[bad].total = run[bad].total /\ bad \in active'
        BY <1>0, <2>1, <2>3, <3>2
      <4> QED BY <2>1, <3>2, <4>1, <4>4, <4>5 DEF AbortsOnlyShortened, Loaded
    <3> QED BY <3>3, <3>4 DEF Positions
  <2> QED BY <1>8, <2>4, <2>5 DEF CheckApprovalTimeouts
<1>9. ASSUME NEW r \in RunIds, CancelRun(r) PROVE Positions'
  BY <1>0, <1>2, <1>9 DEF CancelRun, Closed
<1>10. ASSUME \/ Tick \/ \E lib \in Libraries : Reload(lib) PROVE Positions'
  BY <1>0, <1>10, StaysSound DEF Tick, Reload
<1>11. ASSUME UNCHANGED vars PROVE Positions'
  BY <1>11 DEF vars, Positions, Sound, AbortsOnlyShortened, Loaded
<1> QED BY <1>1, <1>4, <1>5, <1>6, <1>7, <1>8, <1>9, <1>10, <1>11 DEF Next, ToolNext

(* Runs stay at steps of their own through every mode, checkpoint, resume and *)
(* reload, and the process indexes past a definition only where a reload has   *)
(* shortened it (PositionsHold).                                               *)
THEOREM PositionsSound == Spec => []PositionsHold
<1>1. Init => Positions
  BY DEF Init, Positions, AbortsOnlyShortened
<1>2. TypeOK /\ OneHome /\ Positions /\ [Next]_vars => Positions'
  BY PositionsStep
<1>3. TypeOK /\ Positions => PositionsHold
  BY DEF TypeOK, Positions, PositionsHold, SavedBehindStep, FilesWithinRun, Sound, Fits
<1> QED BY <1>1, <1>2, <1>3, TypeCorrect, RunsHaveOneHome, PTL DEF Spec

-----------------------------------------------------------------------------

(* The results of a run: each is of the step after the one before, and was   *)
(* approved if it had to be.                                                 *)
Kept(r) ==
  \A i \in DOMAIN run[r].results :
    /\ run[r].results[i].step = i
    /\ run[r].results[i].status = "completed" /\ Gated(sops[run[r].sop], i) => <<r, i>> \in approvals

(* What the caller of an open run was told fits the step the run is at.      *)
AtStep(r) ==
  LET d == sops[run[r].sop]
  IN  /\ Loaded(run[r].sop) /\ run[r].total = Len(d.steps)
      /\ Len(run[r].results) = run[r].step - 1
      /\ told[r] = "ExecuteStep" /\ Gated(d, run[r].step) => <<r, run[r].step>> \in approvals
      /\ told[r] = "DeterministicStep" => d.mode = "deterministic" /\ run[r].step = 1

Following ==
  /\ \A r \in 1 .. counter : Kept(r)
  /\ \A r \in active : AtStep(r)
  /\ \A r \in RunIds \ (1 .. counter) : run[r].results = <<>> /\ told[r] = "none"

LEMMA ResolveStepFollows ==
  ASSUME TypeOK, NEW rec \in Runs, NEW d
  PROVE  LET new == ResolveStep(d, rec)
         IN  /\ new.sop = rec.sop /\ new.total = rec.total /\ new.step = rec.step
             /\ new.results = rec.results
             /\ \/ NeedsApproval(d, rec.step) /\ new.status = "waiting_approval"
                   /\ StepAction(d, rec) = "WaitApproval"
                \/ ~NeedsApproval(d, rec.step) /\ new.status = rec.status
                   /\ StepAction(d, rec) = "ExecuteStep"
BY TypeFacts DEF ResolveStep, StepAction, Runs

LEMMA ResolveDeterministicFollows ==
  ASSUME TypeOK, NEW r \in RunIds, NEW rec \in Runs, NEW d, ResolveDeterministic(r, d, rec)
  PROVE  /\ run'[r].sop = rec.sop /\ run'[r].total = rec.total /\ run'[r].step = rec.step
         /\ run'[r].results = rec.results
         /\ \A q \in RunIds \ {r} : run'[q] = run[q] /\ told'[q] = told[q]
         /\ told'[r] \in {"DeterministicStep", "CheckpointWait", told[r]}
<1> DEFINE paused == [rec EXCEPT !.status = "paused_checkpoint", !.waiting = now]
<1>1. /\ paused.sop = rec.sop /\ paused.total = rec.total
      /\ paused.step = rec.step /\ paused.results = rec.results
  BY TypeFacts DEF Runs
<1>2. \/ run' = [run EXCEPT ![r] = rec]
      \/ run' = [run EXCEPT ![r] = paused]
  BY DEF ResolveDeterministic
<1>3. told \in [RunIds -> Actions \cup {"none"}]
  BY DEF TypeOK
<1>4. \/ told' = [told EXCEPT ![r] = "DeterministicStep"]
      \/ told' = [told EXCEPT ![r] = "CheckpointWait"]
      \/ told' = told
  BY DEF ResolveDeterministic
<1> HIDE DEF paused
<1>5. /\ run'[r].sop = rec.sop /\ run'[r].total = rec.total /\ run'[r].step = rec.step
      /\ run'[r].results = rec.results
      /\ \A q \in RunIds \ {r} : run'[q] = run[q]
  BY <1>1, <1>2, TypeFacts
<1>6. /\ \A q \in RunIds \ {r} : told'[q] = told[q]
      /\ told'[r] \in {"DeterministicStep", "CheckpointWait", told[r]}
  BY <1>3, <1>4
<1> QED BY <1>5, <1>6

(* A recorded result is the last one.                                        *)
LEMMA RecordedFollows ==
  ASSUME NEW rec \in Runs, NEW o \in Outcomes
  PROVE  LET q == rec.results
             new == Recorded(rec, o).results
         IN  /\ q \in Seq(StepResults) /\ Len(q) \in Nat /\ Len(new) = Len(q) + 1
             /\ DOMAIN new = 1 .. Len(q) + 1 /\ DOMAIN q = 1 .. Len(q)
             /\ \A i \in 1 .. Len(q) : new[i] = q[i]
             /\ new[Len(q) + 1].step = rec.step /\ new[Len(q) + 1].status = o
<1> DEFINE e == [step |-> rec.step, status |-> o]
<1>1. rec.results \in Seq(StepResults) /\ e \in StepResults
  BY DEF Runs, StepResults
<1>2. Recorded(rec, o).results = Append(rec.results, e)
  BY DEF Recorded, Runs
<1>3. e.step = rec.step /\ e.status = o
  OBVIOUS
<1> HIDE DEF e
<1> QED BY <1>1, <1>2, <1>3

(* A step that concerns one run.                                             *)
LEMMA OneFollows ==
  ASSUME TypeOK, OneHome, Following, sops' = sops, NEW r \in RunIds,
         r \in 1 .. counter', counter' = counter \/ (counter' = counter + 1 /\ r = counter + 1),
         approvals \subseteq approvals', active' \subseteq active \cup {r},
         \A q \in RunIds \ {r} : run'[q] = run[q] /\ told'[q] = told[q],
         Kept(r)', r \in active' => AtStep(r)'
  PROVE  Following'
<1>1. counter \in Nat /\ active \subseteq RunIds /\ 1 .. counter \subseteq RunIds
      /\ 1 .. counter' \subseteq (1 .. counter) \cup {r}
  <2>1. counter \in Nat /\ active \subseteq RunIds /\ 1 .. counter \subseteq RunIds
    BY SopConstants DEF TypeOK, RunIds
  <2>2. \A q \in 1 .. counter' : q \in 1 .. counter \/ q = r
    BY <2>1
  <2> QED BY <2>1, <2>2
<1>2. ASSUME NEW q \in 1 .. counter' PROVE Kept(q)'
  <2>1. CASE q # r
    <3>1. Kept(q) /\ run'[q] = run[q]
      BY <1>1, <2>1 DEF Following, RunIds
    <3> QED BY <3>1 DEF Kept
  <2> QED BY <2>1
<1>3. \A q \in active' : AtStep(q)'
  BY <1>1 DEF Following, AtStep, Loaded
<1>4. \A q \in RunIds \ (1 .. counter') : run'[q].results = <<>> /\ told'[q] = "none"
  BY <1>1 DEF Following, RunIds
<1> QED BY <1>2, <1>3, <1>4 DEF Following

LEMMA FollowingStep ==
  ASSUME TypeOK, OneHome, Positions, Following, [CallerNext]_vars
  PROVE  Following'
<1> USE TypeFacts
<1>0. /\ counter \in Nat /\ 1 .. counter \subseteq RunIds
      /\ \A r \in active : /\ r \in RunIds /\ r \in 1 .. counter /\ run[r] \in Runs /\ AtStep(r) /\ Kept(r)
                           /\ run[r].status \in Open /\ run[r].sop \in Sops
                           /\ run[r].total \in Nat /\ run[r].step \in 1 .. run[r].total
      /\ told \in [RunIds -> Actions \cup {"none"}]
  <2>1. counter \in Nat /\ 1 .. counter \subseteq RunIds /\ told \in [RunIds -> Actions \cup {"none"}]
    BY SopConstants DEF TypeOK, RunIds
  <2>2. \A r \in RunIds : run[r] \in Runs /\ run[r].sop \in Sops /\ run[r].total \in Nat
    BY DEF Runs
  <2>3. \A r \in active : r \in 1 .. counter /\ run[r].status \in Open
    BY DEF OneHome
  <2>4. \A r \in active : AtStep(r) /\ run[r].step \in 1 .. run[r].total
    BY DEF Following, Positions, Sound
  <2>5. \A r \in 1 .. counter : Kept(r)
    BY DEF Following
  <2> QED BY <2>1, <2>2, <2>3, <2>4, <2>5
<1>1. ASSUME NEW s \in Sops, StartRun(s) PROVE Following'
  <2> DEFINE d == sops[s]
             new == NewRun(s, d)
  <2>0. PICK r \in RunIds : r = counter + 1
    BY <1>0, <1>1, SopConstants DEF StartRun, RunIds
  <2>1. /\ r \in 1 .. counter' /\ counter' = r /\ r \notin 1 .. counter
        /\ active' = active \cup {r} /\ UNCHANGED <<sops, approvals>>
        /\ sops[s] # NotLoaded /\ told[r] = "none"
    BY <1>0, <1>1, <2>0 DEF StartRun, CanStart, Loaded, Following
  <2>2. d \in Definitions /\ d.steps \in Seq(Steps)
    BY <1>1, LoadedType DEF StartRun, CanStart, Definitions
  <2>3. /\ new \in Runs /\ new.sop = s /\ new.status = "running" /\ new.results = <<>>
        /\ new.step = 1 /\ new.total = Len(d.steps)
    BY <2>2 DEF NewRun, Runs, Open, Never
  <2> HIDE DEF new
  <2>4. CASE d.mode = "deterministic" /\ ResolveDeterministic(r, d, new)
    <3>1. /\ run'[r].sop = s /\ run'[r].total = Len(d.steps) /\ run'[r].step = 1
          /\ run'[r].results = <<>>
          /\ \A q \in RunIds \ {r} : run'[q] = run[q] /\ told'[q] = told[q]
          /\ told'[r] \in {"DeterministicStep", "CheckpointWait", "none"}
      BY <2>1, <2>3, <2>4, ResolveDeterministicFollows
    <3>2. AtStep(r)'
      BY <2>1, <2>4, <3>1 DEF AtStep, Loaded
    <3>3. Kept(r)'
      BY <3>1 DEF Kept
    <3> QED BY <2>0, <2>1, <3>1, <3>2, <3>3, OneFollows
  <2>5. CASE /\ d.mode # "deterministic"
             /\ run' = [run EXCEPT ![r] = ResolveStep(d, new)]
             /\ told' = [told EXCEPT ![r] = StepAction(d, new)]
    <3>1. /\ run'[r] = ResolveStep(d, new) /\ told'[r] = StepAction(d, new)
          /\ \A q \in RunIds \ {r} : run'[q] = run[q] /\ told'[q] = told[q]
      BY <1>0, <2>1, <2>5
    <3>2. /\ run'[r].sop = s /\ run'[r].total = Len(d.steps) /\ run'[r].step = 1
          /\ run'[r].results = <<>>
          /\ told'[r] = "WaitApproval" \/ (told'[r] = "ExecuteStep" /\ ~NeedsApproval(d, 1))
      BY <2>3, <3>1, ResolveStepFollows
    <3>3. ~NeedsApproval(d, 1) => ~Gated(d, 1)
      BY DEF NeedsApproval, Gated
    <3>4. AtStep(r)'
      BY <2>1, <2>5, <3>2, <3>3 DEF AtStep, Loaded
    <3>5. Kept(r)'
      BY <3>2 DEF Kept
    <3> QED BY <2>0, <2>1, <2>5, <3>1, <3>4, <3>5, OneFollows
  <2> QED BY <1>1, <2>0, <2>4, <2>5 DEF StartRun, StartDeterministic, new
\* A run ends, with one more result or without.
<1>2. ASSUME NEW r \in active, NEW rec \in Runs, NEW st, Finish(r, rec, st), UNCHANGED <<sops, counter, approvals>>,
             \A q \in RunIds \ {r} : told'[q] = told[q],
             rec.sop = run[r].sop,
             \A i \in DOMAIN rec.results :
               /\ rec.results[i].step = i
               /\ rec.results[i].status = "completed" /\ Gated(sops[run[r].sop], i) => <<r, i>> \in approvals
      PROVE  Following'
  <2> DEFINE over == [rec EXCEPT !.status = st, !.completed = now]
  <2>1. run' = [run EXCEPT ![r] = over] /\ active' = active \ {r}
    BY <1>2 DEF Finish
  <2>2. over.results = rec.results /\ over.sop = rec.sop
    BY DEF Runs
  <2> HIDE DEF over
  <2>3. run'[r] = over /\ \A q \in RunIds \ {r} : run'[q] = run[q]
    BY <1>0, <2>1
  <2>4. Kept(r)'
    BY <1>2, <2>2, <2>3 DEF Kept
  <2> QED BY <1>0, <1>2, <2>1, <2>3, <2>4, OneFollows
\* The results with one more, of the step the run is at.
<1>3. ASSUME NEW r \in active, NEW o \in Outcomes,
             o = "completed" /\ Gated(sops[run[r].sop], run[r].step) => <<r, run[r].step>> \in approvals
      PROVE  LET new == Recorded(run[r], o).results
             IN  /\ Len(new) = run[r].step
                 /\ \A i \in DOMAIN new :
                      /\ new[i].step = i
                      /\ new[i].status = "completed" /\ Gated(sops[run[r].sop], i) => <<r, i>> \in approvals
  <2>1. Len(run[r].results) = run[r].step - 1 /\ run[r].step \in Nat
    <3>1. AtStep(r) /\ run[r].step \in 1 .. run[r].total /\ run[r].total \in Nat
      BY <1>0
    <3> QED BY <3>1 DEF AtStep
  <2>2. Kept(r) /\ run[r] \in Runs
    BY <1>0
  <2> DEFINE q == run[r].results
             new == Recorded(run[r], o).results
  <2>3. /\ Len(new) = run[r].step /\ DOMAIN new = 1 .. run[r].step /\ DOMAIN q = 1 .. run[r].step - 1
        /\ \A i \in 1 .. run[r].step - 1 : new[i] = q[i]
        /\ new[run[r].step].step = run[r].step /\ new[run[r].step].status = o
    <3>1. /\ q \in Seq(StepResults) /\ Len(q) \in Nat /\ Len(new) = Len(q) + 1
          /\ DOMAIN new = 1 .. Len(q) + 1 /\ DOMAIN q = 1 .. Len(q)
          /\ \A i \in 1 .. Len(q) : new[i] = q[i]
          /\ new[Len(q) + 1].step = run[r].step /\ new[Len(q) + 1].status = o
      BY <2>2, RecordedFollows
    <3>2. Len(q) = run[r].step - 1 /\ Len(q) + 1 = run[r].step
      BY <2>1, <3>1
    <3> HIDE DEF q, new
    <3> QED BY <3>1, <3>2
  <2>4. \A i \in DOMAIN q : /\ q[i].step = i
                            /\ q[i].status = "completed" /\ Gated(sops[run[r].sop], i) => <<r, i>> \in approvals
    BY <2>2 DEF Kept
  <2> HIDE DEF q, new
  <2>5. \A i \in DOMAIN new : i \in DOMAIN q \/ i = run[r].step
    BY <2>1, <2>3
  <2>6. \A i \in DOMAIN new :
          /\ new[i].step = i
          /\ new[i].status = "completed" /\ Gated(sops[run[r].sop], i) => <<r, i>> \in approvals
    BY <1>3, <2>3, <2>4, <2>5
  <2> QED BY <2>3, <2>6 DEF new
<1>4. ASSUME NEW r \in RunIds, NEW o \in Outcomes, told[r] \in {"ExecuteStep", "DeterministicStep"},
             AdvanceStep(r, o)
      PROVE  Following'
  <2> DEFINE d == sops[run[r].sop]
             rec == Recorded(run[r], o)
             next == [rec EXCEPT !.step = @ + 1]
  <2>1. r \in active /\ UNCHANGED <<sops, approvals>>
    BY <1>4 DEF AdvanceStep, CanAdvance
\* A step the caller was given needs no approval any more: it has one, or it is
\* the first of a deterministic procedure.
  <2>2. /\ Loaded(run[r].sop) /\ run[r].total = Len(d.steps)
        /\ Gated(d, run[r].step) => <<r, run[r].step>> \in approvals
    <3>1. AtStep(r)
      BY <1>0, <2>1
    <3>2. d.mode = "deterministic" /\ run[r].step = 1 => ~Gated(d, run[r].step)
      BY DEF Gated
    <3>3. told[r] = "ExecuteStep" \/ told[r] = "DeterministicStep"
      BY <1>4
    <3> QED BY <3>1, <3>2, <3>3 DEF AtStep
  <2>3. /\ Len(rec.results) = run[r].step
        /\ \A i \in DOMAIN rec.results :
             /\ rec.results[i].step = i
             /\ rec.results[i].status = "completed" /\ Gated(d, i) => <<r, i>> \in approvals
    BY <1>3, <2>1, <2>2
  <2>4. rec \in Runs /\ next \in Runs /\ rec.sop = run[r].sop /\ rec.total = run[r].total /\ rec.step = run[r].step
    BY <1>0, <2>1, RecordedType, RecordedShape, BumpType
  <2>5. /\ next.sop = run[r].sop /\ next.total = run[r].total /\ next.step = run[r].step + 1
        /\ next.results = rec.results
    <3> HIDE DEF rec
    <3> QED BY <2>4, BumpShape DEF Runs
  <2>6. \/ /\ Finish(r, rec, "failed") \/ Finish(r, rec, "completed")
           /\ counter' = counter /\ \A q \in RunIds \ {r} : told'[q] = told[q]
        \/ /\ next.step <= rec.total /\ UNCHANGED <<active, counter>>
           /\ \/ next.step > Len(d.steps)
              \/ /\ run' = [run EXCEPT ![r] = ResolveStep(d, next)]
                 /\ told' = [told EXCEPT ![r] = StepAction(d, next)]
    BY <1>0, <1>4 DEF AdvanceStep
  <2> HIDE DEF rec, next
  <2>7. CASE /\ Finish(r, rec, "failed") \/ Finish(r, rec, "completed")
             /\ counter' = counter /\ \A q \in RunIds \ {r} : told'[q] = told[q]
    BY <1>2, <2>1, <2>3, <2>4, <2>7
  <2>8. next.step <= rec.total => ~(next.step > Len(d.steps))
    BY <1>0, <2>1, <2>2, <2>4, <2>5
  <2>9. CASE /\ UNCHANGED <<active, counter>>
             /\ run' = [run EXCEPT ![r] = ResolveStep(d, next)]
             /\ told' = [told EXCEPT ![r] = StepAction(d, next)]
    <3>1. /\ run'[r] = ResolveStep(d, next) /\ told'[r] = StepAction(d, next)
          /\ \A q \in RunIds \ {r} : run'[q] = run[q] /\ told'[q] = told[q]
      BY <1>0, <2>1, <2>9
    <3>2. /\ run'[r].sop = run[r].sop /\ run'[r].total = run[r].total /\ run'[r].step = next.step
          /\ run'[r].results = rec.results
          /\ told'[r] = "WaitApproval" \/ (told'[r] = "ExecuteStep" /\ ~NeedsApproval(d, next.step))
      BY <2>4, <2>5, <3>1, ResolveStepFollows
    <3>3. ~NeedsApproval(d, next.step) => ~Gated(d, next.step)
      BY DEF NeedsApproval, Gated
    <3>4. run'[r].step \in Nat /\ Len(run'[r].results) = run'[r].step - 1
      BY <1>0, <2>1, <2>3, <2>5, <3>2
    <3>5. AtStep(r)'
      BY <2>1, <2>2, <3>2, <3>3, <3>4 DEF AtStep, Loaded
    <3>6. Kept(r)'
      BY <2>1, <2>3, <3>2 DEF Kept
    <3> QED BY <1>0, <2>1, <2>9, <3>1, <3>5, <3>6, OneFollows
  <2> QED BY <2>6, <2>7, <2>8, <2>9
<1>5. ASSUME NEW r \in RunIds, ApproveStep(r) PROVE Following'
  <2>1. /\ r \in active /\ UNCHANGED <<sops, active, counter>>
        /\ run' = [run EXCEPT ![r] = Approved(run[r])] /\ run[r].status = "waiting_approval"
    BY <1>5 DEF ApproveStep
  <2>2. /\ Loaded(run[r].sop) /\ run[r].total = Len(sops[run[r].sop].steps)
        /\ ~(run[r].step > Len(sops[run[r].sop].steps))
    <3>1. AtStep(r) /\ run[r].step \in 1 .. run[r].total /\ run[r].total \in Nat
      BY <1>0, <2>1
    <3> QED BY <3>1 DEF AtStep
  <2>3. told' = [told EXCEPT ![r] = "ExecuteStep"] /\ approvals' = approvals \cup {<<r, run[r].step>>}
    BY <1>5, <2>2 DEF ApproveStep
  <2>4. run'[r] = Approved(run[r]) /\ told'[r] = "ExecuteStep"
        /\ \A q \in RunIds \ {r} : run'[q] = run[q] /\ told'[q] = told[q]
    BY <1>0, <2>1, <2>3
  <2>5. /\ Approved(run[r]).step = run[r].step /\ Approved(run[r]).results = run[r].results
        /\ Approved(run[r]).sop = run[r].sop /\ Approved(run[r]).total = run[r].total
        /\ Approved(run[r]).status = "running"
    BY <1>0, <2>1 DEF Approved, Runs
  <2>6. AtStep(r)'
    BY <1>0, <2>1, <2>3, <2>4, <2>5 DEF AtStep, Loaded
  <2>7. Kept(r)'
    BY <1>0, <2>1, <2>3, <2>4, <2>5 DEF Kept
  <2> QED BY <1>0, <2>1, <2>3, <2>4, <2>6, <2>7, OneFollows
<1>6. ASSUME CheckApprovalTimeouts PROVE Following'
  <2>1. /\ UNCHANGED <<sops, active, counter>> /\ TimedOut \subseteq active
        /\ \A r \in TimedOut : run[r].status = "waiting_approval"
    BY <1>6 DEF CheckApprovalTimeouts, TimedOut
  <2>2. Stepless = {}
    <3> SUFFICES ASSUME NEW r \in active, run[r].step > Len(sops[run[r].sop].steps) PROVE FALSE
      BY <2>1 DEF Stepless
    <3>1. AtStep(r) /\ run[r].step \in 1 .. run[r].total /\ run[r].total \in Nat
      BY <1>0
    <3> QED BY <3>1 DEF AtStep
  <2>3. AutoApprove(TimedOut, {})
    BY <1>6, <2>2 DEF CheckApprovalTimeouts
  <2>4. \A r \in RunIds : /\ run'[r] = IF r \in TimedOut THEN Approved(run[r]) ELSE run[r]
                          /\ told'[r] = IF r \in TimedOut THEN "ExecuteStep" ELSE told[r]
    BY <2>3 DEF AutoApprove
  <2>5. approvals \subseteq approvals' /\ \A r \in TimedOut : <<r, run[r].step>> \in approvals'
    BY <2>3 DEF AutoApprove
  <2>6. \A r \in RunIds :
          /\ Approved(run[r]).step = run[r].step /\ Approved(run[r]).results = run[r].results
          /\ Approved(run[r]).sop = run[r].sop /\ Approved(run[r]).total = run[r].total
          /\ Approved(run[r]).status = "running"
    BY DEF Approved, Runs
  <2>7. \A r \in RunIds : run'[r].sop = run[r].sop /\ run'[r].total = run[r].total
                          /\ run'[r].step = run[r].step /\ run'[r].results = run[r].results
    BY <2>4, <2>6
  <2>8. ASSUME NEW r \in active PROVE AtStep(r)'
    <3>1. CASE r \in TimedOut
      BY <1>0, <2>1, <2>4, <2>5, <2>6, <2>7, <3>1 DEF AtStep, Loaded
    <3>2. CASE r \notin TimedOut
      BY <1>0, <2>1, <2>4, <2>5, <2>7, <3>2 DEF AtStep, Loaded
    <3> QED BY <3>1, <3>2
  <2>9. ASSUME NEW r \in 1 .. counter PROVE Kept(r)'
    <3>1. Kept(r) /\ r \in RunIds
      BY <1>0 DEF Following
    <3> QED BY <2>1, <2>5, <2>7, <3>1 DEF Kept
  <2>10. \A r \in RunIds \ (1 .. counter) : run'[r].results = <<>> /\ told'[r] = "none"
    BY <1>0, <2>1, <2>4 DEF Following, OneHome
  <2> QED BY <2>1, <2>8, <2>9, <2>10 DEF Following
<1>7. ASSUME NEW r \in RunIds, CancelRun(r) PROVE Following'
  <2>1. r \in active /\ Finish(r, run[r], "cancelled") /\ UNCHANGED <<sops, counter, approvals, told>>
    BY <1>7 DEF CancelRun
  <2> QED BY <1>0, <1>2, <2>1 DEF Kept
<1>8. CASE Tick \/ UNCHANGED vars
  BY <1>8 DEF Tick, vars, Following, Kept, AtStep, Loaded
<1> QED
  BY <1>1, <1>4, <1>5, <1>6, <1>7, <1>8 DEF CallerNext, Report, Answer

(* Callers that do what the engine tells them carry a procedure out: its      *)
(* steps in order, each once, none that is gated without an approval          *)
(* (ProcedureFollowed).                                                       *)
THEOREM ProceduresFollowed == CallerSpec => []ProcedureFollowed
<1>1. [CallerNext]_vars => [Next]_vars
  BY DEF CallerNext, Next, ToolNext, Report, Answer
<1>2. CallerSpec => Spec
  BY <1>1, PTL DEF CallerSpec, Spec
<1>3. Init => Positions /\ Following
  BY DEF Init, Positions, AbortsOnlyShortened, Following, NoRun
<1>4. TypeOK /\ OneHome /\ Positions /\ [Next]_vars => Positions'
  BY PositionsStep
<1>5. TypeOK /\ OneHome /\ Positions /\ Following /\ [CallerNext]_vars => Following'
  BY FollowingStep
<1>6. TypeOK /\ Following => ProcedureFollowed
  <2> SUFFICES ASSUME TypeOK, Following PROVE ProcedureFollowed
    OBVIOUS
  <2>1. ASSUME NEW r \in RunIds PROVE Kept(r)
    <3>1. CASE r \in 1 .. counter
      BY <3>1 DEF Following
    <3>2. CASE run[r].results = <<>>
      BY <3>2 DEF Kept
    <3> QED BY <3>1, <3>2 DEF Following
  <2>2. GatesHold
    BY <2>1 DEF GatesHold, Kept
  <2>3. \A r \in 1 .. counter : r \in RunIds
    BY SopConstants DEF TypeOK, RunIds
  <2>4. ResultsInOrder
    BY <2>1, <2>3 DEF ResultsInOrder, Kept, Following, AtStep
  <2> QED BY <2>2, <2>4 DEF ProcedureFollowed
<1> QED
  BY <1>1, <1>2, <1>3, <1>4, <1>5, <1>6, TypeCorrect, RunsHaveOneHome, PTL DEF CallerSpec
=============================================================================

------------------------ MODULE CreateUpdateSyncProofs ------------------------
(* For any number of waiting and updating threads the channel is closed at   *)
(* most once and is never dropped unclosed.                                  *)
EXTENDS CreateUpdateSync, TLAPS

USE SyncAssumption

\* What the types and NoLateWait rest on: a thread at the select has minutes
\* left, and one that blocks has not yet let a minute pass after the close.
WaitInv ==
    \A e \in Ensurer :
        /\ ens[e].pc = "idle" => ens[e].minutes = 0
        /\ ens[e].pc \in {"select", "blocked"} => ens[e].minutes < MaxWait
        /\ ens[e].pc \in {"idle", "blocked"} => ens[e].late = 0
        /\ ens[e].late <= 1 /\ ens[e].late <= ens[e].minutes
        /\ ens[e].late > 0 => closes > 0

\* A step of a waiting thread preserves its bounds.
LEMMA EnsureStepKeeps ==
    ASSUME TypeOK, WaitInv, NEW e \in Ensurer, EnsureStep(e)
    PROVE  TypeOK' /\ WaitInv'
  <1> DEFINE Thread == [pc: {"idle", "select", "blocked", "done"},
                        minutes: 0 .. MaxWait, late: 0 .. MaxWait]
             Good(t) == /\ t.pc = "idle" => t.minutes = 0
                        /\ t.pc \in {"select", "blocked"} => t.minutes < MaxWait
                        /\ t.pc \in {"idle", "blocked"} => t.late = 0
                        /\ t.late <= 1 /\ t.late <= t.minutes
                        /\ t.late > 0 => closes > 0
  <1>1. ens \in [Ensurer -> Thread] /\ ens[e] \in Thread /\ Good(ens[e]) /\ closes \in Nat
    BY DEF TypeOK, WaitInv
  <1>2. PICK d \in Thread : ens' = [ens EXCEPT ![e] = d] /\ Good(d)
    <2>1. CASE ReadChan(e)
      <3>1. PICK pc \in {"select", "done"} : ens' = [ens EXCEPT ![e].pc = pc]
        BY <2>1 DEF ReadChan
      <3> DEFINE d == [ens[e] EXCEPT !.pc = pc]
      <3>2. ens[e].pc = "idle" /\ ens[e].minutes = 0 /\ ens[e].late = 0
        BY <1>1, <2>1 DEF ReadChan
      <3>3. d \in Thread /\ Good(d)
        BY <1>1, <3>1, <3>2
      <3>4. ens' = [ens EXCEPT ![e] = d]
        BY <1>1, <3>1
      <3> HIDE DEF d
      <3> QED
        BY <3>3, <3>4
    <2>2. CASE Select(e)
      <3> DEFINE d == [ens[e] EXCEPT !.pc = IF closes > 0 THEN "done" ELSE "blocked"]
      <3>1. d \in Thread /\ Good(d) /\ ens' = [ens EXCEPT ![e] = d]
        BY <1>1, <2>2 DEF Select
      <3> QED
        BY <3>1
    <2>3. CASE Woken(e)
      <3> DEFINE d == [ens[e] EXCEPT !.pc = "done"]
      <3>1. d \in Thread /\ Good(d) /\ ens' = [ens EXCEPT ![e] = d]
        BY <1>1, <2>3 DEF Woken
      <3> QED
        BY <3>1
    <2>4. CASE Minute(e)
      <3> DEFINE d == [ens[e] EXCEPT
                         !.minutes = @ + 1,
                         !.late = IF closes > 0 THEN @ + 1 ELSE @,
                         !.pc = IF ens[e].minutes + 1 = MaxWait THEN "done" ELSE "select"]
      <3>1. d \in Thread /\ Good(d)
        BY <1>1, <2>4 DEF Minute
      <3>2. ens' = [ens EXCEPT ![e] = d]
        BY <1>1, <2>4 DEF Minute
      <3> HIDE DEF d
      <3> QED
        BY <3>1, <3>2
    <2>5. CASE Retry(e)
      <3>1. Fresh \in Thread /\ Good(Fresh)
        BY DEF Fresh
      <3> QED
        BY <2>5, <3>1 DEF Retry
    <2> QED
      BY <2>1, <2>2, <2>3, <2>4, <2>5 DEF EnsureStep
  <1>3. UNCHANGED <<set, closes, mutex, upd>>
    BY DEF EnsureStep, ReadChan, Select, Woken, Minute, Retry
  <1>4. TypeOK'
    BY <1>1, <1>2, <1>3 DEF TypeOK
  <1>5. WaitInv'
    BY <1>1, <1>2, <1>3 DEF WaitInv
  <1> QED
    BY <1>4, <1>5

\* So does a step of an updating thread.
LEMMA UpdateStepKeeps ==
    ASSUME TypeOK, WaitInv, NEW u \in Updater, UpdateStep(u)
    PROVE  TypeOK' /\ WaitInv'
  <1>1. ens' = ens /\ closes' \in Nat /\ (closes > 0 => closes' > 0)
    BY DEF UpdateStep, TestChan, Lock, Check, Close, Clear, Unlock, TypeOK
  <1>2. TypeOK'
    BY <1>1 DEF UpdateStep, TestChan, Lock, Check, Close, Clear, Unlock, TypeOK, Holding
  <1>3. WaitInv'
    BY <1>1 DEF WaitInv
  <1> QED
    BY <1>2, <1>3

\* Mutual exclusion and the second look at the channel make SyncInv inductive.
LEMMA SyncInductive ==
    ASSUME TypeOK, SyncInv, [Next]_vars
    PROVE  SyncInv'
  <1>1. CASE UNCHANGED vars
    BY <1>1 DEF vars, SyncInv
  <1>2. ASSUME NEW e \in Ensurer, EnsureStep(e)
        PROVE  SyncInv'
    BY <1>2 DEF EnsureStep, ReadChan, Select, Woken, Minute, Retry, SyncInv
  <1>3. ASSUME NEW u \in Updater, UpdateStep(u)
        PROVE  SyncInv'
    <2> USE DEF TypeOK, SyncInv, Holding
    <2>1. CASE TestChan(u)
      BY <2>1 DEF TestChan
    <2>2. CASE Lock(u)
      BY <2>2 DEF Lock
    <2>3. CASE Check(u)
      BY <2>3 DEF Check
    <2>4. CASE Close(u)
      BY <2>4 DEF Close
    <2>5. CASE Clear(u)
      BY <2>5 DEF Clear
    <2>6. CASE Unlock(u)
      BY <2>6 DEF Unlock
    <2> QED
      BY <1>3, <2>1, <2>2, <2>3, <2>4, <2>5, <2>6 DEF UpdateStep
  <1> QED
    BY <1>1, <1>2, <1>3 DEF Next

\* The three invariants hold together in every reachable state.
LEMMA SyncSafe == Spec => [](TypeOK /\ WaitInv /\ SyncInv)
  <1>1. Init => TypeOK /\ WaitInv /\ SyncInv
    BY DEF Init, TypeOK, WaitInv, SyncInv, Fresh, Holding
  <1>2. TypeOK /\ WaitInv /\ [Next]_vars => TypeOK' /\ WaitInv'
    <2> SUFFICES ASSUME TypeOK, WaitInv, [Next]_vars
                 PROVE  TypeOK' /\ WaitInv'
      OBVIOUS
    <2>1. CASE UNCHANGED vars
      BY <2>1 DEF vars, TypeOK, WaitInv
    <2> QED
      BY <2>1, EnsureStepKeeps, UpdateStepKeeps DEF Next
  <1>3. TypeOK /\ SyncInv /\ [Next]_vars => SyncInv'
    BY SyncInductive
  <1> QED
    BY <1>1, <1>2, <1>3, PTL DEF Spec

\* Every thread, counter and the mutex stay in their types: in particular no
\* EnsureLoadBalancer waits longer than MaxWait minutes.
THEOREM SyncTypeCorrect == Spec => []TypeOK
  BY SyncSafe, PTL

\* However many services are updated at once, the channel is closed at most
\* once: UpdateLoadBalancer never panics the controller manager.
THEOREM SyncClosedOnce == Spec => []ClosedOnce
  <1>1. TypeOK /\ SyncInv => ClosedOnce
    BY DEF SyncInv, ClosedOnce, TypeOK
  <1> QED
    BY <1>1, SyncSafe, PTL

\* The variable is nil only after the close, so no waiting thread is forgotten.
THEOREM SyncNilMeansClosed == Spec => []NilMeansClosed
  <1>1. SyncInv => NilMeansClosed
    BY DEF SyncInv, NilMeansClosed
  <1> QED
    BY <1>1, SyncSafe, PTL

\* No thread lets more than one minute pass after the channel is closed.
THEOREM SyncNoLateWait == Spec => []NoLateWait
  <1>1. WaitInv => NoLateWait
    BY DEF WaitInv, NoLateWait
  <1> QED
    BY <1>1, SyncSafe, PTL

=============================================================================

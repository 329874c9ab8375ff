--------------------------- MODULE CloudTaskProofs ---------------------------
(* Proofs about CloudTask, for every interval, duration of the function and  *)
(* number of tasks.                                                          *)
EXTENDS CloudTask, WellFoundedInduction, TLAPS

USE TaskAssumption

\* The tasks of TypeOK.
Task == [pc: {"none", "select", "run", "sleep", "ended"}, ticker: 0 .. Interval,
         tick: BOOLEAN, closed: BOOLEAN, spent: 0 .. MaxRun + Interval,
         late: BOOLEAN, streak: Nat]

Half == Interval \div 2

\* The interval is twice maxTaskRunDuration.
LEMMA HalfType == Half \in Nat /\ Half >= 1 /\ Interval = 2 * Half
  BY DEF Half

\* A set of numbers that is not empty has a least one.
LEMMA LeastNat ==
    ASSUME NEW S \in SUBSET Nat, S # {}
    PROVE  \E x \in S : \A y \in S : x <= y
  <1>1. PICK x \in S : \A y \in S : ~(<<y, x>> \in OpToRel(<, Nat))
    BY NatLessThanWellFounded, WFMin
  <1>2. \A y \in S : ~(y < x)
    BY <1>1 DEF OpToRel
  <1> QED
    BY <1>2

\* The next identifier is one that no task has.
LEMMA NextIdUnused ==
    ASSUME Unused # {}
    PROVE  NextId \in Id /\ task[NextId].pc = "none"
  <1>1. Unused \in SUBSET Nat
    BY DEF Unused, Id
  <1>2. \E i \in Unused : \A j \in Unused : i <= j
    BY <1>1, LeastNat
  <1>3. NextId \in Unused
    BY <1>2 DEF NextId
  <1> QED
    BY <1>3 DEF Unused

\* What a task's own state says.  A stopped ticker has delivered its last
\* tick, so a closed task has none to run at.
Stopped(t) ==
    /\ t.pc = "none" => ~t.closed /\ ~t.late /\ t.ticker = 0 /\ t.streak = 0
    /\ t.closed => t.ticker = 0
    /\ t.ticker = 0 => ~t.tick
    /\ ~t.late

\* Why two runs in a row are followed by a pause.  A run short enough not to
\* be followed by a sleep takes at most half an interval: when a tick came
\* during the first one, the next tick is more than half an interval away at
\* its end, so none comes during a second one.
Paced(t) ==
    /\ t.streak <= 2
    /\ t.pc = "sleep" /\ t.spent > 0 => t.streak = 0
    /\ t.pc = "run" => t.streak >= 1
    /\ t.pc = "run" /\ t.streak = 1 /\ t.spent <= Half /\ t.tick
          => t.ticker + t.spent > Interval
    /\ t.pc = "select" /\ t.streak = 1 /\ t.tick => t.ticker > Half
    /\ t.pc = "run" /\ t.streak = 2 /\ t.spent <= Half
          => ~t.tick /\ (t.ticker = 0 \/ t.ticker + t.spent > Half)
    /\ t.pc = "select" /\ t.streak = 2 => ~t.tick

\* The inductive invariant.
TaskInv ==
    /\ TypeOK
    /\ OneTask
    /\ \A i \in Id : i = current => task[i].pc # "none"
    /\ \A i \in Id : Stopped(task[i]) /\ Paced(task[i])

\* One task becomes t, and the invariant is preserved when t is one that
\* satisfies it and is the task in CloudTasks or one closed.
LEMMA OneTaskChanges ==
    ASSUME TaskInv, NEW i \in Id, NEW t \in Task,
           task' = [task EXCEPT ![i] = t],
           current' \in 0 .. MaxStarts,
           \A j \in Id \ {i} : j = current => j = current' \/ task[j].closed,
           t.pc # "none" /\ ~t.closed => i = current',
           i = current' => t.pc # "none",
           current' # current => current' \in {0, i},
           Stopped(t), Paced(t)
    PROVE  TaskInv'
  <1>1. task \in [Id -> Task]
    BY DEF TaskInv, TypeOK, Task
  <1>2. task' \in [Id -> Task] /\ TypeOK'
    BY <1>1 DEF TypeOK, Task
  <1>3. \A j \in Id : task'[j] = IF j = i THEN t ELSE task[j]
    BY <1>1
  <1>4. OneTask'
    BY <1>3 DEF TaskInv, OneTask
  <1>5. \A j \in Id : Stopped(task'[j]) /\ Paced(task'[j])
    BY <1>3 DEF TaskInv
  <1>6. \A j \in Id : j = current' => task'[j].pc # "none"
    BY <1>3 DEF TaskInv, Id
  <1> QED
    BY <1>2, <1>4, <1>5, <1>6 DEF TaskInv

\* Initially there is no task.
LEMMA TaskInit == Init => TaskInv
  <1> SUFFICES ASSUME Init
               PROVE  TaskInv
    OBVIOUS
  <1>1. task = [i \in Id |-> NoTask] /\ current = 0
    BY DEF Init
  <1>2. NoTask \in Task /\ Stopped(NoTask) /\ Paced(NoTask)
    BY DEF NoTask, Task, Stopped, Paced
  <1>3. TypeOK
    BY <1>1, <1>2 DEF TypeOK, Task
  <1>4. OneTask /\ \A i \in Id : i # current
    BY <1>1 DEF OneTask, NoTask, Id
  <1> QED
    BY <1>1, <1>2, <1>3, <1>4 DEF TaskInv

\* A task as StartTask makes it, and as StopTask leaves it.
LEMMA StartRecord ==
    ASSUME NEW c \in Task, c.pc = "none", Stopped(c), Paced(c),
           NEW t, t = [c EXCEPT !.pc = "select", !.ticker = Interval]
    PROVE  t \in Task /\ Stopped(t) /\ Paced(t)
  <1>0. Interval \in 0 .. Interval
    OBVIOUS
  <1>1. t \in Task
    BY <1>0 DEF Task
  <1>2. /\ t.pc = "select" /\ t.ticker = Interval /\ t.tick = c.tick /\ t.closed = c.closed
        /\ t.late = c.late /\ t.streak = c.streak /\ t.spent = c.spent
    BY DEF Task
  <1>3. ~c.tick /\ ~c.closed /\ ~c.late /\ c.streak = 0
    BY DEF Stopped
  <1> QED
    BY <1>1, <1>2, <1>3 DEF Stopped, Paced

\* Stop leaves a task with a stopped ticker and no tick to run at.
LEMMA StopRecord ==
    ASSUME NEW c \in Task, c.pc # "none", Stopped(c), Paced(c),
           NEW t, t = [c EXCEPT !.ticker = 0, !.tick = FALSE, !.closed = TRUE]
    PROVE  t \in Task /\ Stopped(t) /\ Paced(t) /\ t.pc = c.pc /\ t.closed
  <1>1. 0 \in 0 .. Interval
    OBVIOUS
  <1>2. t \in Task
    BY <1>1 DEF Task
  <1>3. /\ t.pc = c.pc /\ t.ticker = 0 /\ ~t.tick /\ t.closed
        /\ t.late = c.late /\ t.streak = c.streak /\ t.spent = c.spent
    BY DEF Task
  <1> QED
    BY <1>2, <1>3 DEF Stopped, Paced

\* StartTask and StopTask preserve the invariant.
LEMMA StartStopKeeps ==
    ASSUME TaskInv, StartTask \/ StopTask
    PROVE  TaskInv'
  <1>1. task \in [Id -> Task] /\ current \in 0 .. MaxStarts
    BY DEF TaskInv, TypeOK, Task
  <1>2. CASE StartTask
    <2>1. PICK i \in Id : i = NextId /\ task[i].pc = "none"
      BY <1>2, NextIdUnused DEF StartTask
    <2>2. PICK c \in Task : c = task[i] /\ Stopped(c) /\ Paced(c)
      BY <1>1 DEF TaskInv
    <2>3. PICK t : t = [c EXCEPT !.pc = "select", !.ticker = Interval]
      OBVIOUS
    <2>4. task' = [task EXCEPT ![i] = t] /\ current' = i /\ current = 0
      BY <1>1, <1>2, <2>1, <2>2, <2>3 DEF StartTask
    <2>5. t \in Task /\ Stopped(t) /\ Paced(t) /\ t.pc = "select"
      BY <2>1, <2>2, <2>3, StartRecord DEF Task
    <2>6. i \in 0 .. MaxStarts /\ \A j \in Id : j # current
      BY <2>4 DEF Id
    <2> QED
      BY <2>4, <2>5, <2>6, OneTaskChanges
  <1>3. CASE StopTask
    <2>1. PICK i \in Id : i = current
      BY <1>1, <1>3 DEF StopTask, Id
    <2>2. PICK c \in Task : c = task[i] /\ Stopped(c) /\ Paced(c) /\ c.pc # "none"
      BY <1>1, <2>1 DEF TaskInv
    <2>3. PICK t : t = [c EXCEPT !.ticker = 0, !.tick = FALSE, !.closed = TRUE]
      OBVIOUS
    <2>4. task' = [task EXCEPT ![i] = t] /\ current' = 0
      BY <1>1, <1>3, <2>1, <2>2, <2>3 DEF StopTask
    <2>5. t \in Task /\ Stopped(t) /\ Paced(t) /\ t.closed
      BY <2>2, <2>3, StopRecord
    <2>6. 0 \in 0 .. MaxStarts /\ i # 0
      BY DEF Id
    <2> QED
      BY <2>1, <2>4, <2>5, <2>6, OneTaskChanges
  <1> QED
    BY <1>2, <1>3

\* A tick is taken.  After one run without a pause there is none that came
\* within half an interval of the next; after two there is none.
LEMMA RunRecord ==
    ASSUME NEW c \in Task, c.pc = "select", c.tick, Stopped(c), Paced(c),
           NEW t, t = [c EXCEPT !.pc = "run", !.tick = FALSE, !.spent = 0,
                                !.late = c.late \/ c.closed, !.streak = c.streak + 1]
    PROVE  t \in Task /\ Stopped(t) /\ Paced(t) /\ t.pc = "run" /\ t.closed = c.closed
  <1>1. 0 \in 0 .. MaxRun + Interval /\ c.streak + 1 \in Nat
    BY DEF Task
  <1>2. (c.late \/ c.closed) = FALSE
    BY DEF Stopped
  <1>3. t = [c EXCEPT !.pc = "run", !.tick = FALSE, !.spent = 0, !.late = FALSE,
                      !.streak = c.streak + 1]
    BY <1>2
  <1>4. t \in Task
    BY <1>1, <1>3 DEF Task
  <1>5. /\ t.pc = "run" /\ t.ticker = c.ticker /\ ~t.tick /\ t.closed = c.closed
        /\ ~t.late /\ t.streak = c.streak + 1 /\ t.spent = 0
    BY <1>3 DEF Task
  <1>6. c.streak \in Nat /\ c.ticker \in Nat
    BY DEF Task
  <1>7. c.streak <= 1 /\ (c.streak = 1 => c.ticker > Half)
    BY <1>6 DEF Paced
  <1> QED
    BY <1>4, <1>5, <1>6, <1>7, HalfType DEF Stopped, Paced

\* The function returns: within half an interval no sleep follows.
LEMMA EndRunRecord ==
    ASSUME NEW c \in Task, c.pc = "run", Stopped(c), Paced(c),
           NEW t, t = [c EXCEPT !.pc = AfterRun(c.spent), !.spent = 0]
    PROVE  t \in Task /\ Stopped(t) /\ Paced(t) /\ t.pc # "none" /\ t.closed = c.closed
  <1>1. 0 \in 0 .. MaxRun + Interval
    OBVIOUS
  <1>2. AfterRun(c.spent) = IF c.spent > Half THEN "sleep" ELSE "select"
    BY DEF AfterRun, Half
  <1>3. t \in Task
    BY <1>1, <1>2 DEF Task
  <1>4. /\ t.pc = IF c.spent > Half THEN "sleep" ELSE "select"
        /\ t.ticker = c.ticker /\ t.tick = c.tick /\ t.closed = c.closed
        /\ t.late = c.late /\ t.streak = c.streak /\ t.spent = 0
    BY <1>2 DEF Task
  <1>5. c.streak \in Nat /\ c.ticker \in Nat /\ c.spent \in Nat
    BY DEF Task
  <1> QED
    BY <1>3, <1>4, <1>5, HalfType DEF Stopped, Paced

\* A sleep ends, or the goroutine does.
LEMMA EndRecord ==
    ASSUME NEW c \in Task, Stopped(c), Paced(c), NEW t,
           \/ /\ c.pc = "sleep" /\ c.spent = Interval
              /\ t = [c EXCEPT !.pc = "select", !.spent = 0]
           \/ c.pc = "select" /\ t = [c EXCEPT !.pc = "ended"]
    PROVE  t \in Task /\ Stopped(t) /\ Paced(t) /\ t.pc # "none" /\ t.closed = c.closed
  <1>1. 0 \in 0 .. MaxRun + Interval
    OBVIOUS
  <1>2. t \in Task
    BY <1>1 DEF Task
  <1>3. /\ t.pc = "ended" \/ (t.pc = "select" /\ c.pc = "sleep" /\ c.spent = Interval)
        /\ t.ticker = c.ticker /\ t.tick = c.tick /\ t.closed = c.closed
        /\ t.late = c.late /\ t.streak = c.streak
    BY DEF Task
  <1> QED
    BY <1>2, <1>3 DEF Stopped, Paced

\* A step of a goroutine preserves the invariant.
LEMMA GoroutineKeeps ==
    ASSUME TaskInv, NEW i \in Id, Select(i) \/ EndRun(i) \/ EndSleep(i)
    PROVE  TaskInv'
  <1>1. task \in [Id -> Task] /\ current \in 0 .. MaxStarts /\ current' = current
    BY DEF TaskInv, TypeOK, Task, Select, EndRun, EndSleep
  <1>2. PICK c \in Task : c = task[i] /\ Stopped(c) /\ Paced(c)
    BY <1>1 DEF TaskInv
  <1>3. PICK t \in Task :
           /\ task' = [task EXCEPT ![i] = t]
           /\ Stopped(t) /\ Paced(t) /\ t.pc # "none" /\ t.closed = c.closed
           /\ c.pc # "none"
    <2>1. CASE Select(i) /\ c.closed /\ task' = [task EXCEPT ![i].pc = "ended"]
      <3>1. PICK t : t = [c EXCEPT !.pc = "ended"]
        OBVIOUS
      <3>2. c.pc = "select" /\ task' = [task EXCEPT ![i] = t]
        BY <1>1, <1>2, <2>1, <3>1 DEF Select
      <3> QED
        BY <1>2, <3>1, <3>2, EndRecord
    <2>2. CASE Select(i) /\ ~(c.closed /\ task' = [task EXCEPT ![i].pc = "ended"])
      <3>1. PICK t : t = [c EXCEPT !.pc = "run", !.tick = FALSE, !.spent = 0,
                                   !.late = c.late \/ c.closed, !.streak = c.streak + 1]
        OBVIOUS
      <3>2. c.pc = "select" /\ c.tick /\ task' = [task EXCEPT ![i] = t]
        BY <1>1, <1>2, <2>2, <3>1 DEF Select
      <3>3. t \in Task /\ Stopped(t) /\ Paced(t) /\ t.pc = "run" /\ t.closed = c.closed
        BY ONLY c \in Task, <1>2, <3>1, <3>2, RunRecord, Zenon
      <3> QED
        BY <3>2, <3>3
    <2>3. CASE EndRun(i)
      <3>1. PICK t : t = [c EXCEPT !.pc = AfterRun(c.spent), !.spent = 0]
        OBVIOUS
      <3>2. c.pc = "run" /\ task' = [task EXCEPT ![i] = t]
        BY <1>1, <1>2, <2>3, <3>1 DEF EndRun, AfterRun
      <3> QED
        BY <1>2, <3>1, <3>2, EndRunRecord
    <2>4. CASE EndSleep(i)
      <3>1. PICK t : t = [c EXCEPT !.pc = "select", !.spent = 0]
        OBVIOUS
      <3>2. c.pc = "sleep" /\ c.spent = Interval /\ task' = [task EXCEPT ![i] = t]
        BY <1>1, <1>2, <2>4, <3>1 DEF EndSleep
      <3> QED
        BY <1>2, <3>1, <3>2, EndRecord
    <2> QED
      BY <2>1, <2>2, <2>3, <2>4
  <1>4. t.pc # "none" /\ ~t.closed => i = current'
    BY <1>1, <1>2, <1>3 DEF TaskInv, OneTask
  <1>5. \A j \in Id \ {i} : j = current => j = current' \/ task[j].closed
    BY <1>1
  <1> QED
    BY <1>1, <1>3, <1>4, <1>5, OneTaskChanges

\* A unit of time passes for one task.
LEMMA TimeRecord ==
    ASSUME NEW c \in Task, Stopped(c), Paced(c),
           ~(c.pc = "select" /\ (c.closed \/ c.tick)),
           c.pc = "run" => c.spent < MaxRun,
           c.pc = "sleep" => c.spent < Interval,
           NEW t,
           t = [c EXCEPT
                  !.ticker = IF c.ticker > 1 THEN c.ticker - 1
                             ELSE IF c.ticker = 1 THEN Interval ELSE 0,
                  !.tick = c.tick \/ c.ticker = 1,
                  !.spent = IF c.pc \in {"run", "sleep"} THEN c.spent + 1 ELSE 0,
                  !.streak = IF c.pc = "run" THEN c.streak ELSE 0]
    PROVE  t \in Task /\ Stopped(t) /\ Paced(t) /\ t.pc = c.pc /\ t.closed = c.closed
  <1>1. /\ c.streak \in Nat /\ c.ticker \in 0 .. Interval /\ c.spent \in Nat
        /\ c.tick \in BOOLEAN
    BY DEF Task
  <1> DEFINE ticker == IF c.ticker > 1 THEN c.ticker - 1
                       ELSE IF c.ticker = 1 THEN Interval ELSE 0
             tick == c.tick \/ c.ticker = 1
             spent == IF c.pc \in {"run", "sleep"} THEN c.spent + 1 ELSE 0
             streak == IF c.pc = "run" THEN c.streak ELSE 0
  <1>2. ticker \in 0 .. Interval /\ streak \in Nat
    BY <1>1
  <1>3. spent \in 0 .. MaxRun + Interval
    BY <1>1
  <1>4. tick \in BOOLEAN
    OBVIOUS
  <1>5. t = [c EXCEPT !.ticker = ticker, !.tick = tick, !.spent = spent, !.streak = streak]
    OBVIOUS
  <1> HIDE DEF ticker, tick, spent, streak
  <1>6. t \in Task
    BY <1>2, <1>3, <1>4, <1>5 DEF Task
  <1>7. /\ t.pc = c.pc /\ t.ticker = ticker /\ t.tick = tick /\ t.closed = c.closed
        /\ t.late = c.late /\ t.streak = streak /\ t.spent = spent
    BY <1>5 DEF Task
  <1>8. Stopped(t)
    <2>1. (t.ticker = 0) = (c.ticker = 0) /\ (c.ticker = 0 => t.tick = c.tick)
      BY <1>1, <1>7 DEF ticker, tick
    <2>2. c.pc = "none" => ~t.tick /\ t.streak = 0
      BY <1>1, <1>7 DEF Stopped, tick, streak
    <2> QED
      BY <1>1, <1>7, <2>1, <2>2 DEF Stopped
  <1>9. Paced(t)
    <2>1. CASE c.pc = "run"
      BY <1>1, <1>7, <2>1, HalfType DEF Stopped, Paced, ticker, tick, spent, streak
    <2>2. CASE c.pc # "run"
      <3>1. t.streak = 0 /\ t.pc # "run"
        BY <1>7, <2>2 DEF streak
      <3> QED
        BY <3>1 DEF Paced
    <2> QED
      BY <2>1, <2>2
  <1> QED
    BY <1>6, <1>7, <1>8, <1>9

\* The passing of time preserves the invariant.
LEMMA TimeKeeps ==
    ASSUME TaskInv, Time
    PROVE  TaskInv'
  <1>1. task \in [Id -> Task] /\ current \in 0 .. MaxStarts /\ current' = current
    BY DEF TaskInv, TypeOK, Task, Time
  <1>2. \A i \in Id : /\ task'[i] \in Task /\ Stopped(task'[i]) /\ Paced(task'[i])
                      /\ task'[i].pc = task[i].pc /\ task'[i].closed = task[i].closed
    <2> SUFFICES ASSUME NEW i \in Id
                 PROVE  /\ task'[i] \in Task /\ Stopped(task'[i]) /\ Paced(task'[i])
                        /\ task'[i].pc = task[i].pc /\ task'[i].closed = task[i].closed
      OBVIOUS
    <2>1. PICK c \in Task : c = task[i] /\ Stopped(c) /\ Paced(c)
      BY <1>1 DEF TaskInv
    <2>2. PICK t : t = [c EXCEPT
                  !.ticker = IF c.ticker > 1 THEN c.ticker - 1
                             ELSE IF c.ticker = 1 THEN Interval ELSE 0,
                  !.tick = c.tick \/ c.ticker = 1,
                  !.spent = IF c.pc \in {"run", "sleep"} THEN c.spent + 1 ELSE 0,
                  !.streak = IF c.pc = "run" THEN c.streak ELSE 0]
      OBVIOUS
    <2>3. task'[i] = t
      BY <2>1, <2>2 DEF Time
    <2>4. /\ ~(c.pc = "select" /\ (c.closed \/ c.tick))
          /\ c.pc = "run" => c.spent < MaxRun
          /\ c.pc = "sleep" => c.spent < Interval
      BY <2>1 DEF Time, Ready
    <2>5. t \in Task /\ Stopped(t) /\ Paced(t) /\ t.pc = c.pc /\ t.closed = c.closed
      BY <2>1, <2>2, <2>4, TimeRecord
    <2> QED
      BY <2>1, <2>3, <2>5
  <1>3. task' = [i \in Id |-> task'[i]]
    BY DEF Time
  <1>4. TypeOK'
    BY <1>1, <1>2, <1>3 DEF TypeOK, Task
  <1> QED
    BY <1>1, <1>2, <1>4 DEF TaskInv, OneTask

\* Every step preserves the invariant.
LEMMA TaskStep == TaskInv /\ [Next]_vars => TaskInv'
  <1> SUFFICES ASSUME TaskInv, [Next]_vars
               PROVE  TaskInv'
    OBVIOUS
  <1>1. CASE UNCHANGED vars
    BY <1>1 DEF TaskInv, TypeOK, OneTask, vars
  <1> QED
    BY <1>1, StartStopKeeps, GoroutineKeeps, TimeKeeps DEF Next

\* The invariant holds in every reachable state.
LEMMA TaskInvariant == Spec => []TaskInv
  BY TaskInit, TaskStep, PTL DEF Spec

\* Type correctness, with the ticker within its interval and the time of a
\* run and of the sleep after it bounded.
THEOREM TaskTypeCorrect == Spec => []TypeOK
  <1>1. TaskInv => TypeOK
    BY DEF TaskInv
  <1> QED
    BY <1>1, TaskInvariant, PTL

\* StartTask and StopTask in any order leave one task at most that is not
\* stopped, and CloudTasks holds it.
THEOREM OneTaskAtMost == Spec => []OneTask
  <1>1. TaskInv => OneTask
    BY DEF TaskInv
  <1> QED
    BY <1>1, TaskInvariant, PTL

\* Once StopTask has returned the task function does not begin to run.
THEOREM StopIsFinal == Spec => []NoRunAfterStop
  <1>1. TaskInv => NoRunAfterStop
    BY DEF TaskInv, Stopped, NoRunAfterStop
  <1> QED
    BY <1>1, TaskInvariant, PTL

\* The task function runs at most twice without a pause, for every interval
\* and every duration of the function.
THEOREM TaskIsPaced == Spec => []NotConstantlyRunning
  <1>1. TaskInv => NotConstantlyRunning
    BY DEF TaskInv, Paced, NotConstantlyRunning
  <1> QED
    BY <1>1, TaskInvariant, PTL

=============================================================================

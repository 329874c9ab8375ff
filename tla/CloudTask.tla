------------------------------ MODULE CloudTask ------------------------------
(***************************************************************************)
(* The cloud tasks of ibm_task.go, for one task function (the monitor's):  *)
(* StartTask makes a task with a ticker and a goroutine that runs the      *)
(* function at the ticks, StopTask stops the ticker and closes the channel *)
(* the goroutine also selects on.  LoadBalancer() calls StartTask every    *)
(* time it is asked for the interface.                                     *)
(*                                                                         *)
(* Time is discrete.  A ticker keeps at most one tick; once stopped it     *)
(* delivers none (Go 1.23).                                                *)
(***************************************************************************)
EXTENDS Naturals

CONSTANTS
    Interval,   \* the interval, in units of time; half of it is a whole number
    MaxRun,     \* bound: duration of the task function
    MaxStarts   \* bound: tasks ever started

ASSUME TaskAssumption ==
    /\ Interval \in Nat \ {0} /\ Interval % 2 = 0
    /\ MaxRun \in Nat /\ MaxStarts \in Nat

Id == 1 .. MaxStarts

VARIABLES
    current,    \* the task in CloudTasks, 0 if there is none
    task        \* the tasks ever started, with their goroutines

vars == <<current, task>>

\* Type correctness.
TypeOK ==
    /\ current \in 0 .. MaxStarts
    /\ task \in [Id -> [pc: {"none", "select", "run", "sleep", "ended"},
                        ticker: 0 .. Interval,  \* time to the next tick, 0 = stopped
                        tick: BOOLEAN,          \* a tick is waiting
                        closed: BOOLEAN,        \* Stopper is closed
                        spent: 0 .. MaxRun + Interval,  \* in this run or sleep
                        late: BOOLEAN,          \* history: a run began after the stop
                        streak: Nat]]           \* history: runs without a pause

NoTask == [pc |-> "none", ticker |-> 0, tick |-> FALSE, closed |-> FALSE,
           spent |-> 0, late |-> FALSE, streak |-> 0]

Init == current = 0 /\ task = [i \in Id |-> NoTask]

Unused == {i \in Id : task[i].pc = "none"}
NextId == CHOOSE i \in Unused : \A j \in Unused : i <= j

\* Mutant: a second task for the function.
StartAnyway ==
    /\ Unused # {}
    /\ current' = NextId
    /\ task' = [task EXCEPT ![NextId].pc = "select", ![NextId].ticker = Interval]

\* Mutant: the ticker is made with another interval than the task's.
StartSlowTicker ==
    /\ current = 0 /\ Unused # {}
    /\ current' = NextId
    /\ task' = [task EXCEPT ![NextId].pc = "select", ![NextId].ticker = 2 * Interval]

\* A task that is found is left alone.
StartTask ==
    /\ current = 0 /\ Unused # {}
    /\ current' = NextId
    /\ task' = [task EXCEPT ![NextId].pc = "select", ![NextId].ticker = Interval]

\* Mutant: the ticker keeps ticking.
StopWithoutTicker ==
    /\ current # 0
    /\ task' = [task EXCEPT ![current].closed = TRUE]
    /\ current' = 0

\* Mutant: the channel is not closed.
StopWithoutClose ==
    /\ current # 0
    /\ task' = [task EXCEPT ![current].ticker = 0, ![current].tick = FALSE]
    /\ current' = 0

\* stop() returns at once: the channel it reads from is closed.
StopTask ==
    /\ current # 0
    /\ task' = [task EXCEPT ![current].ticker = 0, ![current].tick = FALSE,
                            ![current].closed = TRUE]
    /\ current' = 0

\* The select of run(): either case that is ready.
Select(i) ==
    /\ task[i].pc = "select"
    /\ \/ /\ task[i].closed
          /\ task' = [task EXCEPT ![i].pc = "ended"]
       \/ /\ task[i].tick
          /\ task' = [task EXCEPT ![i].pc = "run", ![i].tick = FALSE, ![i].spent = 0,
                                  ![i].late = @ \/ task[i].closed,
                                  ![i].streak = @ + 1]
    /\ UNCHANGED current

\* Mutant: no sleep after a long run.
AlwaysSelect(spent) == "select"

\* maxTaskRunDuration is half of the interval.
AfterRun(spent) == IF spent > Interval \div 2 THEN "sleep" ELSE "select"

\* The task function returns.
EndRun(i) ==
    /\ task[i].pc = "run"
    /\ task' = [task EXCEPT ![i].pc = AfterRun(task[i].spent), ![i].spent = 0]
    /\ UNCHANGED current

EndSleep(i) ==
    /\ task[i].pc = "sleep" /\ task[i].spent = Interval
    /\ task' = [task EXCEPT ![i].pc = "select", ![i].spent = 0]
    /\ UNCHANGED current

Ready(i) == task[i].pc = "select" /\ (task[i].closed \/ task[i].tick)

\* A unit of time passes for every ticker and goroutine; one that can go on
\* does so first.
Time ==
    /\ \A i \in Id :
          /\ ~Ready(i)
          /\ task[i].pc = "run" => task[i].spent < MaxRun
          /\ task[i].pc = "sleep" => task[i].spent < Interval
    /\ task' = [i \in Id |->
          [task[i] EXCEPT
              !.ticker = IF @ > 1 THEN @ - 1 ELSE IF @ = 1 THEN Interval ELSE 0,
              !.tick = @ \/ task[i].ticker = 1,
              !.spent = IF task[i].pc \in {"run", "sleep"} THEN @ + 1 ELSE 0,
              !.streak = IF task[i].pc = "run" THEN @ ELSE 0]]
    /\ UNCHANGED current

Next ==
    \/ StartTask \/ StopTask \/ Time
    \/ \E i \in Id : Select(i) \/ EndRun(i) \/ EndSleep(i)

Spec == Init /\ [][Next]_vars

\* Goroutines run, the task function returns, and time passes.
FairSpec ==
    /\ Spec
    /\ WF_vars(Time)
    /\ \A i \in Id : WF_vars(Select(i)) /\ WF_vars(EndRun(i)) /\ WF_vars(EndSleep(i))

-----------------------------------------------------------------------------
(* Properties *)

\* However often LoadBalancer() and StopTask are called, one task at most is
\* not stopped, and it is the one a later StopTask would find.
OneTask ==
    \A i \in Id : task[i].pc # "none" /\ ~task[i].closed => i = current

\* The function does not begin to run once StopTask has returned, although
\* the select takes a tick that is waiting as readily as the closed channel.
NoRunAfterStop == \A i \in Id : ~task[i].late

\* The comment in run(): the task isn't constantly running.  After a pause it
\* runs at most twice in a row, although ticks are kept for it while
\* it runs and sleeps.
NotConstantlyRunning == \A i \in Id : task[i].streak <= 2

\* The goroutine of a stopped task ends, also when it was in the function
\* or asleep when the channel was closed.
StoppedTaskEnds ==
    \A i \in Id : (task[i].pc # "none" /\ current # i) ~> task[i].pc = "ended"

=============================================================================

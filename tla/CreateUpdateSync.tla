--------------------------- MODULE CreateUpdateSync ---------------------------
(***************************************************************************)
(* The channel on which EnsureLoadBalancer waits for the cluster's first   *)
(* nodes (ibm_vpc_cloud.go).  VpcEnsureLoadBalancer called without nodes   *)
(* waits on CreateUpdateChan; the first VpcUpdateLoadBalancer called with  *)
(* nodes closes the channel and sets the variable to nil, under            *)
(* CreateUpdateMutex.  The services of the cluster share both variables.   *)
(*                                                                         *)
(* Outside the mutex the variable is read without synchronisation: such a  *)
(* read may still see the channel after it was set to nil.                 *)
(***************************************************************************)
EXTENDS Naturals

CONSTANTS
    Ensurer,   \* threads that call VpcEnsureLoadBalancer without nodes
    Updater,   \* threads that call VpcUpdateLoadBalancer with nodes
    NoOne,     \* holder of the free mutex
    MaxWait    \* maxWait: minutes an Ensurer waits

ASSUME SyncAssumption == NoOne \notin Updater /\ MaxWait \in Nat \ {0}

VARIABLES
    set,     \* CreateUpdateChan # nil
    closes,  \* how often the channel was closed; a second time panics
    mutex,   \* the holder of CreateUpdateMutex
    ens,     \* the Ensurers: pc, minutes waited, those begun after the close
    upd      \* the Updaters: pc

vars == <<set, closes, mutex, ens, upd>>

Holding == {"check", "close", "clear", "unlock"}

\* Type correctness.
TypeOK ==
    /\ set \in BOOLEAN
    /\ closes \in Nat
    /\ mutex \in Updater \cup {NoOne}
    /\ ens \in [Ensurer -> [pc: {"idle", "select", "blocked", "done"},
                            minutes: 0 .. MaxWait, late: 0 .. MaxWait]]
    /\ upd \in [Updater -> {"idle", "lock"} \cup Holding]

Fresh == [pc |-> "idle", minutes |-> 0, late |-> 0]

Init ==
    /\ set = TRUE
    /\ closes = 0
    /\ mutex = NoOne
    /\ ens = [e \in Ensurer |-> Fresh]
    /\ upd = [u \in Updater |-> "idle"]

-----------------------------------------------------------------------------
(* VpcEnsureLoadBalancer without nodes *)

\* syncChan := CreateUpdateChan; a nil channel means the error at once.
ReadChan(e) ==
    /\ ens[e].pc = "idle"
    /\ \E seen \in {set, TRUE} :
          ens' = [ens EXCEPT ![e].pc = IF seen THEN "select" ELSE "done"]
    /\ UNCHANGED <<set, closes, mutex, upd>>

\* Mutant: the thread sleeps a minute before it looks at the channel.
SleepFirst(e) ==
    /\ ens[e].pc = "select"
    /\ ens' = [ens EXCEPT ![e].pc = "blocked"]
    /\ UNCHANGED <<set, closes, mutex, upd>>

\* The select finds the channel closed, or starts a minute's timer and blocks.
Select(e) ==
    /\ ens[e].pc = "select"
    /\ ens' = [ens EXCEPT ![e].pc = IF closes > 0 THEN "done" ELSE "blocked"]
    /\ UNCHANGED <<set, closes, mutex, upd>>

Woken(e) ==
    /\ ens[e].pc = "blocked" /\ closes > 0
    /\ ens' = [ens EXCEPT ![e].pc = "done"]
    /\ UNCHANGED <<set, closes, mutex, upd>>

\* Mutant: one minute too many.
WaitOneMore(e) ==
    /\ ens[e].pc = "blocked"
    /\ ens' = [ens EXCEPT
          ![e].minutes = @ + 1,
          ![e].late = IF closes > 0 THEN @ + 1 ELSE @,
          ![e].pc = IF ens[e].minutes = MaxWait THEN "done" ELSE "select"]
    /\ UNCHANGED <<set, closes, mutex, upd>>

\* The timer fires; if the channel was closed too, the select picks either.
Minute(e) ==
    /\ ens[e].pc = "blocked"
    /\ ens' = [ens EXCEPT
          ![e].minutes = @ + 1,
          ![e].late = IF closes > 0 THEN @ + 1 ELSE @,
          ![e].pc = IF ens[e].minutes + 1 = MaxWait THEN "done" ELSE "select"]
    /\ UNCHANGED <<set, closes, mutex, upd>>

\* The error is returned and Kubernetes calls again.
Retry(e) ==
    /\ ens[e].pc = "done"
    /\ ens' = [ens EXCEPT ![e] = Fresh]
    /\ UNCHANGED <<set, closes, mutex, upd>>

-----------------------------------------------------------------------------
(* VpcUpdateLoadBalancer with nodes, up to InitCloudVpc *)

\* if CreateUpdateChan != nil: the way round the mutex is a stutter.
TestChan(u) ==
    /\ upd[u] = "idle"
    /\ upd' = [upd EXCEPT ![u] = "lock"]
    /\ UNCHANGED <<set, closes, mutex, ens>>

Lock(u) ==
    /\ upd[u] = "lock" /\ mutex = NoOne
    /\ mutex' = u
    /\ upd' = [upd EXCEPT ![u] = "check"]
    /\ UNCHANGED <<set, closes, ens>>

\* Mutant: the channel is not read again under the mutex.
CheckNothing(u) ==
    /\ upd[u] = "check"
    /\ upd' = [upd EXCEPT ![u] = "close"]
    /\ UNCHANGED <<set, closes, mutex, ens>>

\* Mutant: a thread that finds nil returns with the mutex locked.
CheckReturns(u) ==
    /\ upd[u] = "check"
    /\ upd' = [upd EXCEPT ![u] = IF set THEN "close" ELSE "idle"]
    /\ UNCHANGED <<set, closes, mutex, ens>>

\* Read again under the mutex: the chan may have been closed meanwhile.
Check(u) ==
    /\ upd[u] = "check"
    /\ upd' = [upd EXCEPT ![u] = IF set THEN "close" ELSE "unlock"]
    /\ UNCHANGED <<set, closes, mutex, ens>>

\* Mutant: the variable is set to nil and the channel left open.
CloseForgotten(u) ==
    /\ upd[u] = "close"
    /\ upd' = [upd EXCEPT ![u] = "clear"]
    /\ UNCHANGED <<set, closes, mutex, ens>>

Close(u) ==
    /\ upd[u] = "close"
    /\ closes' = closes + 1
    /\ upd' = [upd EXCEPT ![u] = "clear"]
    /\ UNCHANGED <<set, mutex, ens>>

Clear(u) ==
    /\ upd[u] = "clear"
    /\ set' = FALSE
    /\ upd' = [upd EXCEPT ![u] = "unlock"]
    /\ UNCHANGED <<closes, mutex, ens>>

Unlock(u) ==
    /\ upd[u] = "unlock"
    /\ mutex' = NoOne
    /\ upd' = [upd EXCEPT ![u] = "idle"]
    /\ UNCHANGED <<set, closes, ens>>

EnsureStep(e) == ReadChan(e) \/ Select(e) \/ Woken(e) \/ Minute(e) \/ Retry(e)

UpdateStep(u) ==
    TestChan(u) \/ Lock(u) \/ Check(u) \/ Close(u) \/ Clear(u) \/ Unlock(u)

Next == (\E e \in Ensurer : EnsureStep(e)) \/ (\E u \in Updater : UpdateStep(u))

Spec == Init /\ [][Next]_vars

\* Threads run; a Go mutex is starvation free, and a thread that no timer
\* wakes is woken by the close.  No call to the provider has to happen.
Fairness ==
    /\ \A e \in Ensurer : WF_vars(Select(e)) /\ WF_vars(Woken(e) \/ Minute(e))
    /\ \A u \in Updater :
          /\ SF_vars(Lock(u))
          /\ WF_vars(Check(u) \/ Close(u) \/ Clear(u) \/ Unlock(u))

FairSpec == Spec /\ Fairness

-----------------------------------------------------------------------------
(* Properties *)

\* The channel is closed at most once, however many services' node updates
\* arrive together: a second close would panic the whole controller manager.
ClosedOnce == closes <= 1

\* Nil tells that the channel was closed: nobody is left waiting on a channel
\* that nobody can reach any more.
NilMeansClosed == ~set => closes > 0

\* The mutual exclusion that ClosedOnce and NilMeansClosed rest on.
SyncInv ==
    /\ \A u \in Updater : upd[u] \in Holding <=> mutex = u
    /\ \A u \in Updater : upd[u] = "close" => set
    /\ \A u \in Updater : upd[u] = "clear" => set /\ closes = 1
    /\ set /\ (\A u \in Updater : upd[u] # "clear") => closes = 0
    /\ ~set => closes = 1

\* An EnsureLoadBalancer that waits when the channel is closed lets at most
\* one more minute pass: the wake up is never lost, not even when the channel
\* is closed between the read of the variable and the select.
NoLateWait == \A e \in Ensurer : ens[e].late <= 1

\* Every call comes out of this code: an EnsureLoadBalancer without nodes
\* returns its error, an UpdateLoadBalancer gets past the mutex.
CallsReturn ==
    /\ \A e \in Ensurer : ens[e].pc = "select" ~> ens[e].pc = "done"
    /\ \A u \in Updater : upd[u] = "lock" ~> upd[u] = "idle"

=============================================================================

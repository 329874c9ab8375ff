------------------------------ MODULE VpcPages ------------------------------
(***************************************************************************)
(* FindLoadBalancer over ListLoadBalancers: the load balancers of the      *)
(* account are read page after page, one API call each, while other        *)
(* clusters and calls create and delete load balancers.  ListSubnets reads *)
(* its pages with the same loop.                                           *)
(*                                                                         *)
(* The collection is external: ordered by identifier, and "start" names    *)
(* the first item of the page, as in the URL that ListSubnets quotes.      *)
(***************************************************************************)
EXTENDS Naturals, FiniteSetsExt

CONSTANTS
    Id,          \* identifiers of load balancers, in the collection's order
    Name,        \* names of load balancers
    PageSize,    \* items in a page
    MaxFailures  \* bound: requests that fail

ASSUME PageAssumption ==
    /\ IsFiniteSet(Id) /\ Id \subseteq Nat \ {0} /\ Name # {}
    /\ PageSize \in Nat \ {0} /\ MaxFailures \in Nat

VARIABLES
    lbs,       \* the load balancers in the VPC
    used,      \* identifiers given out so far
    find,      \* the call of FindLoadBalancer
    answers,   \* history: what a look at the whole VPC would have answered
               \* at each moment of the call
    failures   \* failed requests so far

vars == <<lbs, used, find, answers, failures>>

LoadBalancer == [id: Id, name: Name]

\* 0 stands for nil: no load balancer, no start, no next page.
Answer == Id \cup {0}

\* Type correctness; names are unique, and what is still to be read comes
\* after what was read.
TypeOK ==
    /\ lbs \subseteq LoadBalancer
    /\ used \subseteq Id
    /\ \A x, y \in lbs : x.id = y.id \/ x.name = y.name => x = y
    /\ find \in [pc: {"idle", "list", "done", "failed"}, nameID: Name, start: Answer,
                 list: SUBSET LoadBalancer, result: Answer]
    /\ find.start # 0 => \A x \in find.list : x.id < find.start
    /\ answers \subseteq Answer
    /\ failures \in 0 .. MaxFailures

NoCall ==
    [pc |-> "idle", nameID |-> CHOOSE n \in Name : TRUE, start |-> 0, list |-> {},
     result |-> 0]

Init ==
    /\ lbs = {} /\ used = {}
    /\ find = NoCall
    /\ answers = {}
    /\ failures = 0

-----------------------------------------------------------------------------
(* The collection (external) *)

From(items, start) == {x \in items : x.id >= start}

\* The PageSize first items from start.
Page(items, start) ==
    {x \in From(items, start) :
        Cardinality({y \in From(items, start) : y.id < x.id}) < PageSize}

\* Mutant: the next page starts with the last item of this one.
StartOfLast(items, start) ==
    IF From(items, start) = Page(items, start) THEN 0
    ELSE Max({x.id : x \in Page(items, start)})

\* list.Next: the first item after the page.
NextStart(items, start) ==
    LET rest == From(items, start) \ Page(items, start)
    IN  IF rest = {} THEN 0 ELSE Min({x.id : x \in rest})

-----------------------------------------------------------------------------
(* FindLoadBalancer *)

\* The first item of that name, in the order of the list.  (No identifier or
\* hostname, which the code compares too, is a load balancer name here.)
FirstMatch(items, nameID) ==
    LET ids == {x.id : x \in {y \in items : y.name = nameID}}
    IN  IF ids = {} THEN 0 ELSE Min(ids)

FindLoadBalancer ==
    /\ find.pc = "idle"
    /\ \E n \in Name :
          /\ find' = [NoCall EXCEPT !.pc = "list", !.nameID = n]
          /\ answers' = {FirstMatch(lbs, n)}
    /\ UNCHANGED <<lbs, used, failures>>

\* Mutant: list.Next is not followed.
ListFirstPage ==
    /\ find.pc = "list"
    /\ find' = [find EXCEPT !.pc = "done", !.list = Page(lbs, 0),
                            !.result = FirstMatch(Page(lbs, 0), find.nameID)]
    /\ UNCHANGED <<lbs, used, answers, failures>>

\* Mutant: start is not set from list.Next.
ListSamePage ==
    /\ find.pc = "list"
    /\ LET next == NextStart(lbs, find.start)
       IN  find' = [find EXCEPT
              !.list = @ \cup Page(lbs, find.start),
              !.pc = IF next = 0 THEN "done" ELSE "list",
              !.result = IF next = 0 THEN FirstMatch(Page(lbs, 0), find.nameID) ELSE @]
    /\ UNCHANGED <<lbs, used, answers, failures>>

\* One turn of the loop of ListLoadBalancers; after the last one the list is
\* searched.
ListLoadBalancers ==
    /\ find.pc = "list"
    /\ LET list == find.list \cup Page(lbs, find.start)
           next == NextStart(lbs, find.start)
       IN  find' = [find EXCEPT
              !.list = list, !.start = next,
              !.pc = IF next = 0 THEN "done" ELSE "list",
              !.result = IF next = 0 THEN FirstMatch(list, find.nameID) ELSE @]
    /\ UNCHANGED <<lbs, used, answers, failures>>

\* A request fails: the pages read so far come back with the error, and
\* FindLoadBalancer passes on the error alone.
ListFails ==
    /\ find.pc = "list" /\ failures < MaxFailures
    /\ find' = [find EXCEPT !.pc = "failed"]
    /\ failures' = failures + 1
    /\ UNCHANGED <<lbs, used, answers>>

Return ==
    /\ find.pc \in {"done", "failed"}
    /\ find' = NoCall
    /\ answers' = {}
    /\ UNCHANGED <<lbs, used, failures>>

-----------------------------------------------------------------------------
(* Other clusters and calls (external) *)

\* What a look at the VPC answers from now on.
Observe == answers' = IF find.pc = "list"
                      THEN answers \cup {FirstMatch(lbs', find.nameID)} ELSE answers

CreateLb ==
    /\ \E i \in Id \ used, n \in Name :
          /\ \A x \in lbs : x.name # n
          /\ lbs' = lbs \cup {[id |-> i, name |-> n]}
          /\ used' = used \cup {i}
    /\ Observe
    /\ UNCHANGED <<find, failures>>

DeleteLb ==
    /\ \E x \in lbs : lbs' = lbs \ {x}
    /\ Observe
    /\ UNCHANGED <<used, find, failures>>

Next ==
    \/ FindLoadBalancer \/ ListLoadBalancers \/ ListFails \/ Return
    \/ CreateLb \/ DeleteLb

Spec == Init /\ [][Next]_vars

\* The loop of ListLoadBalancers goes on.
FairSpec == Spec /\ WF_vars(ListLoadBalancers)

-----------------------------------------------------------------------------
(* Properties *)

\* FindLoadBalancer answers, error apart, what one look at the whole VPC at
\* some moment of the call would have answered, although its pages are of
\* different moments and an error may end it in the middle: a load balancer
\* that is there throughout is never reported as missing, which would make
\* EnsureLoadBalancer create it again and EnsureLoadBalancerDeleted succeed.
FindIsAtomic ==
    find.pc = "done" => find.result \in answers

\* The loop ends, although load balancers come and go while it runs.
FindReturns == find.pc = "list" ~> find.pc # "list"

=============================================================================

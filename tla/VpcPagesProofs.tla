---------------------------- MODULE VpcPagesProofs ----------------------------
(* Proofs about VpcPages, for every collection and page size.                *)
EXTENDS VpcPages, FiniteSetTheorems, TLAPS

USE PageAssumption

Find == [pc: {"idle", "list", "done", "failed"}, nameID: Name, start: Answer,
         list: SUBSET LoadBalancer, result: Answer]

Unique(items) == \A x, y \in items : x.id = y.id \/ x.name = y.name => x = y

Matches(items, nameID) == {x \in items : x.name = nameID}

\* The identifiers of what the VPC holds have been given out.
Given == IsFiniteSet(lbs) /\ \A x \in lbs : x.id \in used

\* What the VPC would answer now counts, and so does every item of that name
\* that was read: names are unique, so it was the answer when it was read.
Counted ==
    /\ FirstMatch(lbs, find.nameID) \in answers
    /\ \A x \in Matches(find.list, find.nameID) : x.id \in answers

\* While no item of that name was read, one is still to be read, or there was
\* a moment without one.
NotMissed ==
    \/ 0 \in answers
    \/ Matches(find.list, find.nameID) # {}
    \/ \E x \in Matches(lbs, find.nameID) : x.id >= find.start

\* The inductive invariant.
PagesInv ==
    /\ TypeOK /\ Given
    /\ find.pc = "list" => Counted /\ NotMissed /\ (find.start = 0 => find.list = {})
    /\ FindIsAtomic

\* A set of numbers that is not empty has a least one.
LEMMA LeastNat ==
    ASSUME NEW S \in SUBSET Nat, S # {}
    PROVE  Min(S) \in S /\ \A y \in S : Min(S) <= y
  <1>1. PICK x \in S : \A y \in S : ~(<<y, x>> \in OpToRel(<, Nat))
    BY NatLessThanWellFounded, WFMin
  <1>2. \A y \in S : ~(y < x)
    BY <1>1 DEF OpToRel
  <1>3. \A y \in S : x <= y
    BY <1>2
  <1> QED
    BY <1>3, Zenon DEF Min

\* Answers are identifiers or 0.
LEMMA AnswerType == Answer \subseteq Nat
  BY DEF Answer

\* The first match is 0 when there is none, and an item of that name otherwise.
LEMMA FirstMatchIs ==
    ASSUME NEW items \in SUBSET LoadBalancer, NEW nameID
    PROVE  /\ Matches(items, nameID) = {} => FirstMatch(items, nameID) = 0
           /\ Matches(items, nameID) # {} =>
                 \E x \in Matches(items, nameID) : FirstMatch(items, nameID) = x.id
           /\ FirstMatch(items, nameID) \in Answer
  <1> DEFINE ids == {x.id : x \in {y \in items : y.name = nameID}}
  <1>1. ids \in SUBSET Nat /\ ids \in SUBSET Id
    BY DEF LoadBalancer
  <1>2. FirstMatch(items, nameID) = IF ids = {} THEN 0 ELSE Min(ids)
    BY DEF FirstMatch
  <1>3. ids # {} => Min(ids) \in ids
    BY <1>1, LeastNat
  <1> QED
    BY <1>1, <1>2, <1>3 DEF Matches, Answer

\* In the VPC, where names are unique, it is the item of that name.
LEMMA FirstMatchUnique ==
    ASSUME NEW items \in SUBSET LoadBalancer, Unique(items),
           NEW nameID, NEW x \in Matches(items, nameID)
    PROVE  FirstMatch(items, nameID) = x.id
  BY FirstMatchIs DEF Unique, Matches

\* A page and the start of the next: everything from start on is in the page
\* or not before the next start, and the page comes before that one.
LEMMA PageIs ==
    ASSUME NEW items \in SUBSET LoadBalancer, IsFiniteSet(items), NEW start \in Answer,
           NEW next, next = NextStart(items, start)
    PROVE  /\ next \in Answer
           /\ Page(items, start) \in SUBSET items
           /\ \A x \in Page(items, start) : x.id >= start
           /\ next = 0 => From(items, start) = Page(items, start)
           /\ next # 0 => /\ next >= start
                          /\ \A x \in Page(items, start) : x.id < next
                          /\ \A x \in From(items, start) \ Page(items, start) : x.id >= next
  <1> DEFINE from == From(items, start)
             page == Page(items, start)
             rest == from \ page
             ids == {x.id : x \in rest}
             before(x) == {y \in from : y.id < x.id}
  <1>1. from \in SUBSET items /\ page \in SUBSET from /\ \A x \in from : x.id >= start
    BY DEF From, Page
  <1>2. \A x \in items : x.id \in Id /\ x.id \in Nat /\ x.id # 0
    BY DEF LoadBalancer
  <1>3. ids \in SUBSET Nat /\ ids \in SUBSET Id
    BY <1>1, <1>2
  <1>4. next = IF rest = {} THEN 0 ELSE Min(ids)
    BY DEF NextStart
  <1>5. start \in Nat
    BY DEF Answer
  <1>6. CASE rest = {}
    BY <1>1, <1>4, <1>6 DEF Answer
  <1>7. CASE rest # {}
    <2>1. ids # {}
      BY <1>7
    <2>2. next \in ids /\ \A i \in ids : next <= i
      <3> HIDE DEF ids
      <3> QED
        BY <1>3, <1>4, <1>7, <2>1, LeastNat
    <2>3. PICK r \in rest : next = r.id
      BY <2>2
    <2>4. ASSUME NEW x \in page
          PROVE  x.id < next
      <3> SUFFICES ASSUME ~(x.id < next)
                   PROVE  FALSE
        OBVIOUS
      <3>1. x \in from /\ r \in from /\ x.id \in Nat /\ r.id \in Nat /\ r.id <= x.id
        BY <1>1, <1>2, <2>3
      <3>2. before(r) \in SUBSET before(x)
        BY <1>1, <1>2, <3>1
      <3>3. before(x) \in SUBSET items
        BY <1>1
      <3>4. IsFiniteSet(before(x)) /\ Cardinality(before(x)) \in Nat
        BY <3>3, FS_Subset, FS_CardinalityType
      <3>5. IsFiniteSet(before(r)) /\ Cardinality(before(r)) <= Cardinality(before(x))
        BY <3>2, <3>4, FS_Subset
      <3>6. Cardinality(before(r)) \in Nat
        BY <3>5, FS_CardinalityType
      <3>7. Cardinality(before(x)) < PageSize
        BY DEF Page
      <3>8. ~(Cardinality(before(r)) < PageSize)
        BY <2>3 DEF Page
      <3> QED
        BY <3>4, <3>5, <3>6, <3>7, <3>8
    <2>5. \A x \in rest : x.id >= next
      BY <1>1, <1>2, <2>2
    <2>6. next \in Id /\ next # 0 /\ next >= start
      BY <1>1, <1>2, <2>3
    <2> QED
      BY <1>1, <2>4, <2>5, <2>6 DEF Answer
  <1> QED
    BY <1>6, <1>7

\* A call begins with nothing read.
LEMMA NoCallType ==
    /\ NoCall \in Find /\ NoCall.pc = "idle" /\ NoCall.start = 0 /\ NoCall.list = {}
    /\ \A n \in Name : [NoCall EXCEPT !.pc = "list", !.nameID = n] \in Find
  <1>1. (CHOOSE n \in Name : TRUE) \in Name /\ 0 \in Answer
    BY DEF Answer
  <1>2. NoCall \in Find
    BY <1>1 DEF NoCall, Find
  <1> QED
    BY <1>2 DEF NoCall, Find

\* Initially there are no load balancers and no call.
LEMMA PagesInit == Init => PagesInv
  <1> SUFFICES ASSUME Init
               PROVE  PagesInv
    OBVIOUS
  <1>1. 0 \in 0 .. MaxFailures
    OBVIOUS
  <1>2. find \in Find /\ find.pc = "idle" /\ find.start = 0
    BY NoCallType DEF Init
  <1>3. TypeOK
    BY <1>1, <1>2 DEF Init, TypeOK, Find
  <1>4. Given
    BY FS_EmptySet DEF Init, Given
  <1> QED
    BY <1>2, <1>3, <1>4 DEF PagesInv, FindIsAtomic

\* A call begins: the whole VPC is still to be read.
LEMMA FindKeeps ==
    ASSUME PagesInv, FindLoadBalancer
    PROVE  PagesInv'
  <1>1. TypeOK /\ Given /\ UNCHANGED <<lbs, used, failures>>
    BY DEF PagesInv, FindLoadBalancer
  <1>2. PICK n \in Name : /\ find' = [NoCall EXCEPT !.pc = "list", !.nameID = n]
                          /\ answers' = {FirstMatch(lbs, n)}
    BY DEF FindLoadBalancer
  <1>3. /\ find' \in Find /\ find'.pc = "list" /\ find'.nameID = n
        /\ find'.start = 0 /\ find'.list = {}
    BY <1>2, NoCallType DEF Find
  <1>4. lbs \in SUBSET LoadBalancer /\ \A x \in lbs : x.id \in Nat
    BY <1>1 DEF TypeOK, LoadBalancer
  <1>5. FirstMatch(lbs, n) \in Answer
    BY <1>4, FirstMatchIs
  <1>6. TypeOK'
    BY <1>1, <1>2, <1>3, <1>5 DEF TypeOK, Find
  <1>7. Counted'
    BY <1>1, <1>2, <1>3 DEF Counted, Matches
  <1>8. NotMissed'
    <2>1. CASE Matches(lbs, n) = {}
      BY <1>2, <1>4, <2>1, FirstMatchIs DEF NotMissed
    <2>2. CASE Matches(lbs, n) # {}
      <3>1. PICK x \in Matches(lbs, n) : x.id >= 0
        BY <1>4, <2>2 DEF Matches
      <3> QED
        BY <1>1, <1>3, <3>1 DEF NotMissed
    <2> QED
      BY <2>1, <2>2
  <1> QED
    BY <1>1, <1>3, <1>6, <1>7, <1>8 DEF PagesInv, Given, FindIsAtomic

\* A page is read.
LEMMA ListKeeps ==
    ASSUME PagesInv, ListLoadBalancers
    PROVE  PagesInv'
  <1>1. /\ TypeOK /\ Given /\ UNCHANGED <<lbs, used, answers, failures>>
        /\ Counted /\ NotMissed /\ (find.start = 0 => find.list = {})
    BY DEF PagesInv, ListLoadBalancers
  <1>2. PICK f \in Find : f = find /\ f.pc = "list"
    BY <1>1 DEF TypeOK, Find, ListLoadBalancers
  <1>3. /\ lbs \in SUBSET LoadBalancer /\ IsFiniteSet(lbs) /\ f.start \in Answer
        /\ f.nameID \in Name /\ f.list \in SUBSET LoadBalancer /\ f.result \in Answer
        /\ Unique(lbs)
    BY <1>1 DEF TypeOK, Find, Given, Unique
  <1>4. PICK page : page = Page(lbs, f.start)
    OBVIOUS
  <1>5. PICK next : next = NextStart(lbs, f.start)
    OBVIOUS
  <1>6. /\ next \in Answer /\ page \in SUBSET lbs
        /\ \A x \in page : x.id >= f.start
        /\ next = 0 => From(lbs, f.start) = page
        /\ next # 0 => /\ next >= f.start
                       /\ \A x \in page : x.id < next
                       /\ \A x \in From(lbs, f.start) \ page : x.id >= next
    BY <1>3, <1>4, <1>5, PageIs
  <1>7. PICK list \in SUBSET LoadBalancer : list = f.list \cup page
    BY <1>3, <1>6
  <1>8. PICK result \in Answer :
           result = IF next = 0 THEN FirstMatch(list, f.nameID) ELSE f.result
    BY <1>3, FirstMatchIs
  <1>9. PICK pc \in {"done", "list"} : pc = IF next = 0 THEN "done" ELSE "list"
    OBVIOUS
  <1>10. find' = [f EXCEPT !.list = list, !.start = next, !.pc = pc, !.result = result]
    BY <1>2, <1>4, <1>5, <1>7, <1>8, <1>9 DEF ListLoadBalancers
  <1>11. /\ find' \in Find /\ find'.list = list /\ find'.start = next /\ find'.pc = pc
         /\ find'.result = result /\ find'.nameID = f.nameID
    BY <1>6, <1>10 DEF Find
  <1>12. next # 0 => \A x \in list : x.id < next
    <2> SUFFICES ASSUME next # 0, NEW x \in f.list
                 PROVE  x.id < next
      BY <1>6, <1>7
    <2>1. f.start # 0 /\ x.id < f.start
      BY <1>1, <1>2 DEF TypeOK
    <2>2. x \in LoadBalancer
      BY <1>3
    <2>3. x.id \in Nat
      BY <2>2 DEF LoadBalancer
    <2>4. f.start \in Nat /\ next \in Nat
      BY <1>3, <1>6, AnswerType
    <2> QED
      BY <1>6, <2>1, <2>3, <2>4
  <1>13. TypeOK'
    BY <1>1, <1>11, <1>12 DEF TypeOK, Find
  <1>14. \A x \in Matches(list, f.nameID) : x.id \in answers
    <2> SUFFICES ASSUME NEW x \in page, x.name = f.nameID
                 PROVE  x.id \in answers
      BY <1>1, <1>2, <1>7 DEF Counted, Matches
    <2>1. x \in Matches(lbs, f.nameID)
      BY <1>6 DEF Matches
    <2>2. FirstMatch(lbs, f.nameID) = x.id
      BY <1>3, <2>1, FirstMatchUnique
    <2> QED
      BY <1>1, <1>2, <2>2 DEF Counted
  <1>15. \/ 0 \in answers
         \/ Matches(list, f.nameID) # {}
         \/ next # 0 /\ \E x \in Matches(lbs, f.nameID) : x.id >= next
    <2>1. CASE \E x \in Matches(lbs, f.nameID) : x.id >= f.start
      <3>1. PICK x \in lbs : x.name = f.nameID /\ x.id >= f.start
        BY <2>1 DEF Matches
      <3>2. x \in From(lbs, f.start)
        BY <3>1 DEF From
      <3> QED
        BY <1>6, <1>7, <3>1, <3>2 DEF Matches
    <2> QED
      BY <1>1, <1>2, <1>7, <2>1 DEF NotMissed, Matches
  <1>16. CASE next = 0
    <2>1. result = FirstMatch(list, f.nameID)
      BY <1>8, <1>16
    <2>2. result \in answers
      BY <1>14, <1>15, <1>16, <2>1, FirstMatchIs
    <2> QED
      BY <1>1, <1>9, <1>11, <1>13, <1>16, <2>2 DEF PagesInv, Given, FindIsAtomic
  <1>17. CASE next # 0
    <2>1. Counted' /\ NotMissed'
      BY <1>1, <1>2, <1>11, <1>14, <1>15 DEF Counted, NotMissed
    <2> QED
      BY <1>1, <1>9, <1>11, <1>13, <1>17, <2>1 DEF PagesInv, Given, FindIsAtomic
  <1> QED
    BY <1>16, <1>17

\* The call fails or returns.
LEMMA EndKeeps ==
    ASSUME PagesInv, ListFails \/ Return
    PROVE  PagesInv'
  <1>1. TypeOK /\ Given /\ UNCHANGED <<lbs, used>>
    BY DEF PagesInv, ListFails, Return
  <1>2. find \in Find
    BY <1>1 DEF TypeOK, Find
  <1>3. /\ find' \in Find /\ find'.pc \in {"idle", "failed"}
        /\ find'.start # 0 => find'.start = find.start /\ find'.list = find.list
    BY <1>2, NoCallType DEF ListFails, Return, Find
  <1>4. failures' \in 0 .. MaxFailures /\ answers' \subseteq Answer
    BY <1>1 DEF TypeOK, ListFails, Return
  <1>5. TypeOK'
    BY <1>1, <1>3, <1>4 DEF TypeOK, Find
  <1> QED
    BY <1>1, <1>3, <1>5 DEF PagesInv, Given, FindIsAtomic

\* Load balancers come and go.
LEMMA OthersKeep ==
    ASSUME PagesInv, CreateLb \/ DeleteLb
    PROVE  PagesInv'
  <1>1. TypeOK /\ Given /\ Observe /\ UNCHANGED <<find, failures>>
    BY DEF PagesInv, CreateLb, DeleteLb
  <1>2. /\ lbs' \in SUBSET LoadBalancer /\ Unique(lbs') /\ used' \subseteq Id
        /\ IsFiniteSet(lbs') /\ \A x \in lbs' : x.id \in used'
    <2>1. CASE CreateLb
      <3>1. PICK i \in Id \ used, n \in Name :
               /\ \A x \in lbs : x.name # n
               /\ lbs' = lbs \cup {[id |-> i, name |-> n]}
               /\ used' = used \cup {i}
        BY <2>1 DEF CreateLb
      <3>2. PICK new : new = [id |-> i, name |-> n]
        OBVIOUS
      <3>3. new \in LoadBalancer /\ new.id = i /\ new.name = n
        BY <3>2 DEF LoadBalancer
      <3>4. lbs' = lbs \cup {new}
        BY <3>1, <3>2
      <3>5. IsFiniteSet(lbs')
        BY <1>1, <3>4, FS_AddElement DEF Given
      <3>6. \A x \in lbs : x.id # i /\ x.name # n
        BY <1>1, <3>1 DEF Given
      <3>7. Unique(lbs')
        BY <1>1, <3>3, <3>4, <3>6 DEF TypeOK, Unique
      <3> QED
        BY <1>1, <3>1, <3>3, <3>4, <3>5, <3>7 DEF TypeOK, Given
    <2>2. CASE DeleteLb
      BY <1>1, <2>2, FS_RemoveElement DEF DeleteLb, TypeOK, Given, Unique
    <2> QED
      BY <2>1, <2>2
  <1>3. FirstMatch(lbs', find.nameID) \in Answer
    BY <1>2, FirstMatchIs
  <1>4. answers \subseteq answers' /\ answers' \subseteq Answer
    BY <1>1, <1>3 DEF Observe, TypeOK
  <1>5. TypeOK'
    BY <1>1, <1>2, <1>4 DEF TypeOK, Unique
  <1>6. ASSUME find.pc = "list"
        PROVE  Counted' /\ NotMissed' /\ (find'.start = 0 => find'.list = {})
    <2>1. /\ Counted /\ NotMissed /\ (find.start = 0 => find.list = {})
          /\ FirstMatch(lbs', find.nameID) \in answers'
      BY <1>1, <1>6 DEF PagesInv, Observe
    <2>2. Counted'
      BY <1>1, <1>4, <2>1 DEF Counted
    <2>3. NotMissed'
      <3>1. CASE Matches(lbs', find.nameID) = {}
        BY <1>2, <2>1, <3>1, FirstMatchIs DEF NotMissed
      <3>2. CASE Matches(lbs', find.nameID) # {} /\ lbs \subseteq lbs'
        BY <1>1, <1>4, <2>1, <3>2 DEF NotMissed, Matches
      <3>3. CASE Matches(lbs', find.nameID) # {} /\ lbs' \subseteq lbs
        <4>1. Matches(lbs', find.nameID) = Matches(lbs, find.nameID)
          BY <1>1, <3>3 DEF Matches, TypeOK
        <4> QED
          BY <1>1, <1>4, <2>1, <4>1 DEF NotMissed
      <3> QED
        BY <3>1, <3>2, <3>3 DEF CreateLb, DeleteLb
    <2> QED
      BY <1>1, <2>1, <2>2, <2>3
  <1> QED
    BY <1>1, <1>2, <1>4, <1>5, <1>6 DEF PagesInv, Given, FindIsAtomic

\* Every step preserves the invariant.
LEMMA PagesStep == PagesInv /\ [Next]_vars => PagesInv'
  <1> SUFFICES ASSUME PagesInv, [Next]_vars
               PROVE  PagesInv'
    OBVIOUS
  <1>1. CASE UNCHANGED vars
    BY <1>1 DEF PagesInv, TypeOK, Given, Counted, NotMissed, Matches, FindIsAtomic, vars
  <1> QED
    BY <1>1, FindKeeps, ListKeeps, EndKeeps, OthersKeep DEF Next

\* The invariant holds in every reachable state.
LEMMA PagesInvariant == Spec => []PagesInv
  BY PagesInit, PagesStep, PTL DEF Spec

\* Type correctness: what is still to be read comes after what was read.
THEOREM PagesTypeCorrect == Spec => []TypeOK
  <1>1. PagesInv => TypeOK
    BY DEF PagesInv
  <1> QED
    BY <1>1, PagesInvariant, PTL

\* FindLoadBalancer answers what one look at the whole VPC would have
\* answered at some moment of the call, for every number of load balancers and
\* every size of a page.
THEOREM FindAtomic == Spec => []FindIsAtomic
  <1>1. PagesInv => FindIsAtomic
    BY DEF PagesInv
  <1> QED
    BY <1>1, PagesInvariant, PTL

=============================================================================

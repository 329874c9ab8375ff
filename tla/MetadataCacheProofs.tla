------------------------- MODULE MetadataCacheProofs -------------------------
(* Proofs about MetadataCache, for every number of nodes, calls and          *)
(* incarnations, every time to live and every duration of a call.            *)
EXTENDS MetadataCache, TLAPS

USE CacheAssumption

Entry == [md: NodeMetadata, age: 0 .. Old]
Call == [pc: {"idle", "get", "condition", "drop", "vpc", "put", "done"},
         name: Name, apply: BOOLEAN, seen: NodeObject, md: NodeMetadata,
         age: 0 .. MaxFill]

\* The program counters of a call that HasRead.
Reading == {"condition", "drop", "vpc", "put"}

\* A node in the API server has been registered.
NodesCounted == \A n \in Name : node[n].present => node[n].inc >= 1

\* An entry is as old as the cache, or older by the time its call took.
AgesBounded ==
    cacheAge < TTL => \A n \in DOMAIN cache : cache[n].age <= cacheAge + MaxFill

\* What the cache holds is the metadata of some node.
EntriesFilled == \A n \in DOMAIN cache : cache[n].md.inc # 0

\* A call has read a node that was registered; unless it is excused or the
\* event is still to come, that one is there.  What it will put into
\* the cache is about that node or a later one.
CallOK(k) ==
    /\ k.pc = "done" => k.md.inc # 0
    /\ k.pc \in Reading =>
          /\ 1 <= k.seen.inc /\ k.seen.inc <= node[k.name].inc
          /\ k.name \notin excused /\ deleted[k.name] = "no" =>
                node[k.name].present /\ k.seen.inc = node[k.name].inc
    /\ k.pc \in {"vpc", "put"} =>
          /\ k.md.provider \in {0, k.seen.inc}
          /\ k.seen.inc <= k.md.inc /\ k.md.inc <= node[k.name].inc

CallsOK == \A c \in Caller : CallOK(call[c])

\* The inductive invariant.
CacheInv ==
    /\ TypeOK /\ NodesCounted /\ AgesBounded /\ EntriesFilled /\ CallsOK
    /\ CurrentUnlessRaced

\* TypeOK with the names of this module.
LEMMA TypeOKDef ==
    TypeOK <=> /\ node \in [Name -> NodeObject]
               /\ deleted \in [Name -> {"no", "node", "unknown"}]
               /\ DOMAIN cache \subseteq Name
               /\ cache \in [DOMAIN cache -> Entry]
               /\ cacheAge \in 0 .. TTL
               /\ call \in [Caller -> Call]
               /\ \A c \in Caller : call[c].pc = "done" => call[c].md.inc # 0
               /\ excused \subseteq Name
               /\ lost \in 0 .. MaxLost
  BY DEF TypeOK, Entry, Call

\* A node that was never registered is not there.
LEMMA NoNodeType == NoNode \in NodeObject /\ ~NoNode.present
  <1>1. 0 \in 0 .. MaxInc
    OBVIOUS
  <1> QED
    BY <1>1 DEF NoNode, NodeObject

\* A call at rest has read nothing.
LEMMA AtRestType == AtRest \in Call /\ AtRest.pc = "idle" /\ AtRest.seen = NoNode
                      /\ AtRest.md = NoMetadata
  <1>1. (CHOOSE n \in Name : TRUE) \in Name
    OBVIOUS
  <1>2. NoNode \in NodeObject /\ NoMetadata \in NodeMetadata /\ 0 \in 0 .. MaxFill
    BY DEF NoNode, NodeObject, NoMetadata, NodeMetadata
  <1> QED
    BY <1>1, <1>2 DEF AtRest, Call

\* Initially there are no nodes, and the cache is empty.
LEMMA CacheInit == Init => CacheInv
  <1> SUFFICES ASSUME Init
               PROVE  CacheInv
    OBVIOUS
  <1>1. NoNode \in NodeObject /\ ~NoNode.present
    BY DEF NoNode, NodeObject
  <1>2. node \in [Name -> NodeObject] /\ deleted \in [Name -> {"no", "node", "unknown"}]
    BY <1>1 DEF Init
  <1>3. DOMAIN cache = {} /\ cache \in [DOMAIN cache -> Entry]
    BY DEF Init
  <1>4. call \in [Caller -> Call] /\ \A c \in Caller : call[c].pc = "idle"
    BY AtRestType DEF Init
  <1>5. cacheAge \in 0 .. TTL /\ lost \in 0 .. MaxLost /\ excused = {}
    BY DEF Init
  <1>6. TypeOK
    BY <1>2, <1>3, <1>4, <1>5, TypeOKDef
  <1>7. NodesCounted
    BY <1>1 DEF Init, NodesCounted
  <1>8. AgesBounded /\ EntriesFilled /\ CurrentUnlessRaced
    BY <1>3 DEF AgesBounded, EntriesFilled, CurrentUnlessRaced, Usable
  <1>9. CallsOK
    BY <1>4 DEF CallsOK, CallOK, Reading
  <1> QED
    BY <1>6, <1>7, <1>8, <1>9 DEF CacheInv

\* The step changes no node but for its labels, taint and conditions.
SameNodes ==
    /\ node' \in [Name -> NodeObject]
    /\ \A n \in Name : node'[n].present = node[n].present /\ node'[n].inc = node[n].inc

\* What is left of the cache is as good as the cache, while what excuses it
\* stays.
CacheKept ==
    /\ DOMAIN cache' \subseteq Name /\ cache' \in [DOMAIN cache' -> Entry]
    /\ cacheAge' \in 0 .. TTL
    /\ AgesBounded' /\ EntriesFilled' /\ CurrentUnlessRaced'

\* A cache that only loses entries, or starts anew empty, stays right.
LEMMA CacheShrinks ==
    ASSUME CacheInv, SameNodes, UNCHANGED <<deleted, excused>>,
           NEW S \in SUBSET DOMAIN cache,
           cache' = [n \in S |-> cache[n]],
           cacheAge' = cacheAge \/ (S = {} /\ cacheAge' = 0)
    PROVE  CacheKept
  <1>1. TypeOK /\ AgesBounded /\ EntriesFilled /\ CurrentUnlessRaced
    BY DEF CacheInv
  <1>2. /\ DOMAIN cache \subseteq Name /\ cache \in [DOMAIN cache -> Entry]
        /\ cacheAge \in 0 .. TTL
    BY <1>1, TypeOKDef
  <1>3. DOMAIN cache' = S /\ \A n \in S : cache'[n] = cache[n]
    OBVIOUS
  <1>4. DOMAIN cache' \subseteq Name /\ cache' \in [DOMAIN cache' -> Entry]
    BY <1>2, <1>3
  <1>5. cacheAge' \in 0 .. TTL
    BY <1>2
  <1>6. AgesBounded'
    BY <1>1, <1>3 DEF AgesBounded
  <1>7. EntriesFilled'
    BY <1>1, <1>3 DEF EntriesFilled
  <1>8. CurrentUnlessRaced'
    BY <1>1, <1>3 DEF CurrentUnlessRaced, Usable, SameNodes
  <1> QED
    BY <1>4, <1>5, <1>6, <1>7, <1>8 DEF CacheKept

\* A cache that is left alone stays right.
LEMMA CacheSame ==
    ASSUME CacheInv, SameNodes, UNCHANGED <<deleted, excused, cache, cacheAge>>
    PROVE  CacheKept
  <1>1. cache' = [n \in DOMAIN cache |-> cache[n]]
    BY TypeOKDef DEF CacheInv
  <1> QED
    BY <1>1, CacheShrinks

\* A call becomes k.
LEMMA CallChanges ==
    ASSUME CacheInv, NEW c \in Caller, NEW k \in Call,
           call' = [call EXCEPT ![c] = k], CallOK(k),
           SameNodes, UNCHANGED <<deleted, excused, lost>>, CacheKept
    PROVE  CacheInv'
  <1>1. TypeOK /\ NodesCounted /\ CallsOK
    BY DEF CacheInv
  <1>2. call \in [Caller -> Call]
    BY <1>1, TypeOKDef
  <1>3. call' \in [Caller -> Call]
    BY <1>2
  <1>4. \A d \in Caller : call'[d] = IF d = c THEN k ELSE call[d]
    BY <1>2
  <1>5. \A d \in Caller : CallOK(call'[d])
    BY <1>1, <1>4 DEF CallsOK
  <1>6. CallsOK'
    <2> SUFFICES ASSUME NEW d \in Caller
                 PROVE  CallOK(call[d])'
      BY DEF CallsOK
    <2>1. call'[d].name \in Name
      BY <1>3 DEF Call
    <2> QED
      BY <1>5, <2>1 DEF CallOK, SameNodes
  <1>7. TypeOK'
    <2>1. \A d \in Caller : call'[d].pc = "done" => call'[d].md.inc # 0
      BY <1>5 DEF CallOK
    <2> QED
      BY <1>1, <1>3, <2>1 DEF SameNodes, CacheKept, TypeOK, Call, Entry
  <1>8. NodesCounted'
    BY <1>1 DEF NodesCounted, SameNodes
  <1> QED
    BY <1>6, <1>7, <1>8 DEF CacheInv, CacheKept

\* A call that begins or that ends with nothing.
LEMMA RestOK ==
    ASSUME NEW n \in Name, NEW apply \in BOOLEAN, NEW k,
           k = AtRest \/ k = [[AtRest EXCEPT !.name = n, !.apply = apply] EXCEPT !.pc = "get"]
    PROVE  k \in Call /\ CallOK(k)
  <1>1. k \in Call
    BY AtRestType DEF Call
  <1>2. k.pc \in {"idle", "get"}
    BY AtRestType DEF Call
  <1> QED
    BY <1>1, <1>2 DEF CallOK, Reading

\* A call that is answered from the cache.
LEMMA HitOK ==
    ASSUME NEW n \in Name, NEW apply \in BOOLEAN, NEW md \in NodeMetadata, md.inc # 0, NEW k,
           k = [[AtRest EXCEPT !.name = n, !.apply = apply] EXCEPT !.pc = "done", !.md = md]
    PROVE  k \in Call /\ CallOK(k)
  <1>1. k \in Call
    BY AtRestType DEF Call
  <1>2. k.pc = "done" /\ k.md = md
    BY AtRestType DEF Call
  <1> QED
    BY <1>1, <1>2 DEF CallOK, Reading

\* The look up preserves the invariant.
LEMMA LookupKeeps ==
    ASSUME CacheInv, NEW c \in Caller, NEW n \in Name, NEW apply \in BOOLEAN,
           getCachedNode(c, n, apply)
    PROVE  CacheInv'
  <1>1. TypeOK /\ EntriesFilled
    BY DEF CacheInv
  <1>2. /\ SameNodes /\ UNCHANGED <<deleted, excused, lost>>
        /\ DOMAIN cache \subseteq Name /\ cache \in [DOMAIN cache -> Entry]
    BY <1>1, TypeOKDef DEF getCachedNode, SameNodes
  <1>3. CacheKept
    <2>1. CASE cacheAge < TTL
      <3>1. cache' = cache /\ cacheAge' = cacheAge
        BY <2>1 DEF getCachedNode
      <3> QED
        BY <1>2, <3>1, CacheSame
    <2>2. CASE ~(cacheAge < TTL)
      <3>1. cache' = [m \in {} |-> cache[m]] /\ cacheAge' = 0
        BY <2>2 DEF getCachedNode, Expire
      <3>2. {} \in SUBSET DOMAIN cache
        OBVIOUS
      <3> QED
        BY <1>2, <3>1, <3>2, CacheShrinks
    <2> QED
      BY <2>1, <2>2
  <1>4. PICK k : /\ call' = [call EXCEPT ![c] = k]
                 /\ k = IF cacheAge < TTL /\ n \in DOMAIN cache
                        THEN [[AtRest EXCEPT !.name = n, !.apply = apply]
                                 EXCEPT !.pc = "done", !.md = cache[n].md]
                        ELSE [[AtRest EXCEPT !.name = n, !.apply = apply] EXCEPT !.pc = "get"]
    BY DEF getCachedNode
  <1>5. k \in Call /\ CallOK(k)
    <2>1. CASE cacheAge < TTL /\ n \in DOMAIN cache
      <3>1. PICK md \in NodeMetadata : md = cache[n].md /\ md.inc # 0
        BY <1>1, <1>2, <2>1 DEF EntriesFilled, Entry
      <3>2. k = [[AtRest EXCEPT !.name = n, !.apply = apply] EXCEPT !.pc = "done", !.md = md]
        BY <1>4, <2>1, <3>1
      <3> QED
        BY <3>1, <3>2, HitOK
    <2>2. CASE ~(cacheAge < TTL /\ n \in DOMAIN cache)
      BY <1>4, <2>2, RestOK
    <2> QED
      BY <2>1, <2>2
  <1> QED
    BY <1>2, <1>3, <1>4, <1>5, CallChanges

\* The node is read.
LEMMA GetNodeKeeps ==
    ASSUME CacheInv, NEW c \in Caller, GetNode(c)
    PROVE  CacheInv'
  <1>1. TypeOK /\ NodesCounted
    BY DEF CacheInv
  <1>2. /\ SameNodes /\ UNCHANGED <<deleted, excused, lost, cache, cacheAge>>
        /\ node \in [Name -> NodeObject] /\ call \in [Caller -> Call]
    BY <1>1, TypeOKDef DEF GetNode, SameNodes
  <1>3. CacheKept
    BY <1>2, CacheSame
  <1>4. PICK o \in Call : o = call[c]
    BY <1>2
  <1>5. PICK n \in Name : n = o.name
    BY DEF Call
  <1>6. PICK k8sNode \in NodeObject : k8sNode = node[n]
    BY <1>2
  <1>7. CASE ~k8sNode.present
    <2>1. call' = [call EXCEPT ![c] = AtRest]
      BY <1>4, <1>5, <1>6, <1>7 DEF GetNode
    <2> QED
      BY <1>2, <1>3, <1>5, <2>1, RestOK, CallChanges
  <1>8. CASE k8sNode.present
    <2>1. PICK pc \in {"condition", "drop"} :
             call' = [call EXCEPT ![c] = [o EXCEPT !.seen = k8sNode, !.age = 0, !.pc = pc]]
      BY <1>4, <1>5, <1>6, <1>8 DEF GetNode
    <2>2. PICK k : k = [o EXCEPT !.seen = k8sNode, !.age = 0, !.pc = pc]
      OBVIOUS
    <2>3. k \in Call /\ k.pc = pc /\ k.seen = k8sNode /\ k.name = n
      <3>1. 0 \in 0 .. MaxFill
        OBVIOUS
      <3> QED
        BY <1>5, <2>2, <3>1 DEF Call
    <2>4. k8sNode.inc \in Nat /\ k8sNode.inc >= 1
      BY <1>1, <1>6, <1>8 DEF NodesCounted, NodeObject
    <2>5. CallOK(k)
      BY <1>6, <1>8, <2>3, <2>4 DEF CallOK, Reading
    <2> QED
      BY <1>2, <1>3, <2>1, <2>2, <2>3, <2>5, CallChanges
  <1> QED
    BY <1>7, <1>8

\* A failed request, the condition, and the end of a call.
LEMMA PlainStepKeeps ==
    ASSUME CacheInv, NEW c \in Caller,
           RequestFails(c) \/ SetNodeCondition(c) \/ EndCall(c)
    PROVE  CacheInv'
  <1>1. TypeOK /\ CallsOK
    BY DEF CacheInv
  <1>2. /\ node \in [Name -> NodeObject] /\ call \in [Caller -> Call]
        /\ UNCHANGED <<deleted, excused, lost, cache, cacheAge>>
    BY <1>1, TypeOKDef DEF RequestFails, SetNodeCondition, EndCall
  <1>3. PICK o \in Call : o = call[c] /\ CallOK(o)
    BY <1>1, <1>2 DEF CallsOK
  <1>4. PICK n \in Name : n = o.name
    BY DEF Call
  <1>5. SameNodes
    <2>1. \/ node' = node
          \/ node' = [node EXCEPT ![n].condition = TRUE]
          \/ node' = [node EXCEPT ![n].taint = FALSE]
      BY <1>3, <1>4 DEF RequestFails, SetNodeCondition, EndCall
    <2>2. CASE node' = node
      BY <1>2, <2>2 DEF SameNodes
    <2>3. CASE node' = [node EXCEPT ![n].condition = TRUE]
      BY <1>2, <2>3 DEF SameNodes, NodeObject
    <2>4. CASE node' = [node EXCEPT ![n].taint = FALSE]
      BY <1>2, <2>4 DEF SameNodes, NodeObject
    <2> QED
      BY <2>1, <2>2, <2>3, <2>4
  <1>6. CacheKept
    BY <1>2, <1>5, CacheSame
  <1>7. CASE call' = [call EXCEPT ![c] = AtRest]
    BY <1>2, <1>4, <1>5, <1>6, <1>7, RestOK, CallChanges
  <1>8. CASE o.pc = "condition" /\ call' = [call EXCEPT ![c] = [o EXCEPT !.pc = "drop"]]
    <2>1. PICK k : k = [o EXCEPT !.pc = "drop"]
      OBVIOUS
    <2>2. k \in Call /\ k.pc = "drop" /\ k.seen = o.seen /\ k.name = o.name
      BY <2>1 DEF Call
    <2>3. CallOK(k)
      BY <1>3, <1>8, <2>2 DEF CallOK, Reading
    <2> QED
      BY <1>2, <1>5, <1>6, <1>8, <2>1, <2>2, <2>3, CallChanges
  <1> QED
    BY <1>2, <1>3, <1>7, <1>8 DEF RequestFails, SetNodeCondition, EndCall

\* The metadata that the node gives.
LEMMA DropKeeps ==
    ASSUME CacheInv, NEW c \in Caller, deleteCachedNode(c)
    PROVE  CacheInv'
  <1>1. TypeOK /\ CallsOK
    BY DEF CacheInv
  <1>2. /\ SameNodes /\ UNCHANGED <<deleted, excused, lost, cacheAge>>
        /\ node \in [Name -> NodeObject] /\ call \in [Caller -> Call]
        /\ cache \in [DOMAIN cache -> Entry]
    BY <1>1, TypeOKDef DEF deleteCachedNode, SameNodes
  <1>3. PICK o \in Call : o = call[c] /\ CallOK(o) /\ o.pc = "drop"
    BY <1>1, <1>2 DEF CallsOK, deleteCachedNode
  <1>4. CacheKept
    <2>1. \/ cache' = [n \in DOMAIN cache \ {o.name} |-> cache[n]]
          \/ cache' = [n \in DOMAIN cache |-> cache[n]]
      BY <1>2, <1>3 DEF deleteCachedNode, Forget, Restrict
    <2> QED
      BY <1>2, <2>1, CacheShrinks
  <1>5. PICK inc \in 1 .. MaxInc : inc = o.seen.inc /\ inc <= node[o.name].inc
    BY <1>3 DEF Call, NodeObject, CallOK, Reading
  <1>6. PICK provider \in {0, inc} : provider = ProviderID(o.seen)
    BY <1>5 DEF ProviderID
  <1>7. PICK md : md = [inc |-> inc, provider |-> provider]
    OBVIOUS
  <1>8. md \in NodeMetadata /\ md.inc = inc /\ md.provider = provider
    BY <1>7 DEF NodeMetadata
  <1>9. PICK seen : seen = [NoNode EXCEPT !.inc = inc]
    OBVIOUS
  <1>10. seen \in NodeObject /\ seen.inc = inc
    BY <1>9, NoNodeType DEF NodeObject
  <1>11. PICK pc \in {"put", "vpc"} : pc = IF o.seen.labels THEN "put" ELSE "vpc"
    OBVIOUS
  <1>12. PICK k : k = [o EXCEPT !.md = md, !.seen = seen, !.pc = pc]
    OBVIOUS
  <1>13. call' = [call EXCEPT ![c] = k]
    BY <1>2, <1>3, <1>5, <1>6, <1>7, <1>9, <1>11, <1>12 DEF deleteCachedNode
  <1>14. k \in Call /\ k.md = md /\ k.seen = seen /\ k.pc = pc /\ k.name = o.name
    BY <1>8, <1>10, <1>12 DEF Call
  <1>15. CallOK(k)
    BY <1>3, <1>5, <1>8, <1>10, <1>14 DEF CallOK, Reading
  <1> QED
    BY <1>2, <1>4, <1>13, <1>14, <1>15, CallChanges

\* What the VPC adds is about the node there is.
LEMMA PopulateKeeps ==
    ASSUME CacheInv, NEW c \in Caller, populateNodeMetadata(c)
    PROVE  CacheInv'
  <1>1. TypeOK /\ CallsOK
    BY DEF CacheInv
  <1>2. /\ SameNodes /\ UNCHANGED <<deleted, excused, lost, cache, cacheAge>>
        /\ node \in [Name -> NodeObject] /\ call \in [Caller -> Call]
    BY <1>1, TypeOKDef DEF populateNodeMetadata, SameNodes
  <1>3. CacheKept
    BY <1>2, CacheSame
  <1>4. PICK o \in Call : o = call[c] /\ CallOK(o) /\ o.pc = "vpc"
    BY <1>1, <1>2 DEF CallsOK, populateNodeMetadata
  <1>5. PICK n \in Name : n = o.name
    BY DEF Call
  <1>6. CASE ~node[n].present
    BY <1>2, <1>3, <1>4, <1>5, <1>6, RestOK, CallChanges DEF populateNodeMetadata
  <1>7. CASE node[n].present
    <2>1. PICK inc \in 0 .. MaxInc : inc = node[n].inc
      BY <1>2 DEF NodeObject
    <2>2. PICK k : k = [o EXCEPT !.md.inc = inc, !.pc = "put"]
      OBVIOUS
    <2>3. call' = [call EXCEPT ![c] = k]
      BY <1>2, <1>4, <1>5, <1>7, <2>1, <2>2 DEF populateNodeMetadata
    <2>4. /\ k \in Call /\ k.md.inc = inc /\ k.md.provider = o.md.provider
          /\ k.seen = o.seen /\ k.pc = "put" /\ k.name = n
      BY <1>5, <2>2 DEF Call, NodeMetadata
    <2>5. CallOK(k)
      BY <1>4, <1>5, <2>1, <2>4 DEF CallOK, Reading
    <2> QED
      BY <1>2, <1>3, <2>3, <2>4, <2>5, CallChanges
  <1> QED
    BY <1>6, <1>7

\* The metadata goes into the cache: unless the node is excused or its
\* deletion still to come, it is about the node there is.
LEMMA PutKeeps ==
    ASSUME CacheInv, NEW c \in Caller, putCachedNode(c)
    PROVE  CacheInv'
  <1>1. TypeOK /\ CallsOK /\ AgesBounded /\ EntriesFilled /\ CurrentUnlessRaced
    BY DEF CacheInv
  <1>2. /\ SameNodes /\ UNCHANGED <<deleted, excused, lost, cacheAge>>
        /\ node \in [Name -> NodeObject] /\ call \in [Caller -> Call]
        /\ DOMAIN cache \subseteq Name /\ cache \in [DOMAIN cache -> Entry]
        /\ cacheAge \in 0 .. TTL
    BY <1>1, TypeOKDef DEF putCachedNode, SameNodes
  <1>3. PICK o \in Call : o = call[c] /\ CallOK(o) /\ o.pc = "put"
    BY <1>1, <1>2 DEF CallsOK, putCachedNode
  <1>4. PICK m \in Name : m = o.name
    BY DEF Call
  <1>5. PICK e : e = [md |-> o.md, age |-> o.age]
    OBVIOUS
  <1>6. e \in Entry /\ e.md = o.md /\ e.age = o.age /\ o.age \in 0 .. MaxFill
    BY <1>5 DEF Entry, Call, Old
  <1>7. cache' = [n \in DOMAIN cache \cup {m} |-> IF n = m THEN e ELSE cache[n]]
    BY <1>3, <1>4, <1>5 DEF putCachedNode
  <1>8. /\ DOMAIN cache' = DOMAIN cache \cup {m}
        /\ cache'[m] = e
        /\ \A n \in DOMAIN cache : n # m => cache'[n] = cache[n]
    BY <1>7
  <1>9. /\ o.md.inc # 0
        /\ m \notin excused /\ deleted[m] = "no" =>
              /\ node[m].present /\ o.md.inc = node[m].inc
              /\ o.md.provider \in {0, node[m].inc}
    <2>1. o.md.inc \in Nat /\ o.seen.inc \in Nat /\ node[m].inc \in Nat
      BY <1>2 DEF Call, NodeMetadata, NodeObject
    <2> QED
      BY <1>3, <1>4, <2>1 DEF CallOK, Reading
  <1>10. CacheKept
    <2>1. DOMAIN cache' \subseteq Name /\ cache' \in [DOMAIN cache' -> Entry]
      BY <1>2, <1>6, <1>7, <1>8
    <2>2. AgesBounded'
      BY <1>1, <1>2, <1>6, <1>8 DEF AgesBounded
    <2>3. EntriesFilled'
      BY <1>1, <1>6, <1>8, <1>9 DEF EntriesFilled
    <2>4. CurrentUnlessRaced'
      BY <1>1, <1>2, <1>6, <1>8, <1>9 DEF CurrentUnlessRaced, Usable, SameNodes
    <2> QED
      BY <1>2, <2>1, <2>2, <2>3, <2>4 DEF CacheKept
  <1>11. PICK k : k = [o EXCEPT !.pc = "done", !.seen = NoNode, !.age = 0]
    OBVIOUS
  <1>12. call' = [call EXCEPT ![c] = k]
    BY <1>2, <1>3, <1>11 DEF putCachedNode
  <1>13. k \in Call /\ k.pc = "done" /\ k.md = o.md
    <2>1. 0 \in 0 .. MaxFill /\ NoNode \in NodeObject
      BY NoNodeType
    <2> QED
      BY <1>11, <2>1 DEF Call
  <1>14. CallOK(k)
    BY <1>9, <1>13 DEF CallOK, Reading
  <1> QED
    BY <1>2, <1>10, <1>12, <1>13, <1>14, CallChanges

\* A node becomes x: another one only when none was there, and none only when
\* an event is on its way.
LEMMA NodeChanges ==
    ASSUME CacheInv, NEW m \in Name, NEW x \in NodeObject,
           node' = [node EXCEPT ![m] = x],
           node[m].inc <= x.inc, x.present => x.inc >= 1,
           deleted' \in [Name -> {"no", "node", "unknown"}],
           \A n \in Name \ {m} : deleted'[n] = deleted[n],
           \/ /\ x.present = node[m].present /\ x.inc = node[m].inc
              /\ deleted' = deleted
           \/ deleted'[m] # "no"
           \/ ~node[m].present /\ deleted' = deleted,
           UNCHANGED <<cache, cacheAge, call, excused, lost>>
    PROVE  CacheInv'
  <1>1. /\ TypeOK /\ NodesCounted /\ AgesBounded /\ EntriesFilled /\ CallsOK
        /\ CurrentUnlessRaced
    BY DEF CacheInv
  <1>2. node \in [Name -> NodeObject] /\ call \in [Caller -> Call]
    BY <1>1, TypeOKDef
  <1>3. /\ node' \in [Name -> NodeObject]
        /\ \A n \in Name : node'[n] = IF n = m THEN x ELSE node[n]
    BY <1>2
  <1>4. TypeOK'
    BY <1>1, <1>3 DEF TypeOK
  <1>5. NodesCounted'
    BY <1>1, <1>3 DEF NodesCounted
  <1>6. AgesBounded' /\ EntriesFilled'
    BY <1>1 DEF AgesBounded, EntriesFilled
  <1>7. CurrentUnlessRaced'
    BY <1>1, <1>3 DEF CurrentUnlessRaced, Usable
  <1>8. CallsOK'
    <2> SUFFICES ASSUME NEW c \in Caller
                 PROVE  CallOK(call[c])'
      BY DEF CallsOK
    <2>1. PICK o \in Call : o = call[c] /\ o = call'[c] /\ CallOK(o)
      BY <1>1, <1>2 DEF CallsOK
    <2>2. CASE o.name # m
      <3>1. o.name \in Name /\ node'[o.name] = node[o.name] /\ deleted'[o.name] = deleted[o.name]
        BY <1>3, <2>2 DEF Call
      <3> QED
        BY <2>1, <3>1 DEF CallOK
    <2>3. CASE o.name = m
      <3>1. /\ node[m].inc \in Nat /\ x.inc \in Nat /\ o.seen.inc \in Nat /\ o.md.inc \in Nat
            /\ node'[m] = x
        BY <1>2, <1>3 DEF Call, NodeObject, NodeMetadata
      <3>2. /\ o.pc = "done" => o.md.inc # 0
            /\ o.pc \in Reading => 1 <= o.seen.inc /\ o.seen.inc <= x.inc
            /\ o.pc \in {"vpc", "put"} =>
                  /\ o.md.provider \in {0, o.seen.inc}
                  /\ o.seen.inc <= o.md.inc /\ o.md.inc <= x.inc
        BY <2>1, <2>3, <3>1 DEF CallOK
      <3>3. o.pc \in Reading /\ m \notin excused /\ deleted'[m] = "no" =>
                x.present /\ o.seen.inc = x.inc
        BY <2>1, <2>3, <3>1 DEF CallOK
      <3> QED
        BY <2>1, <2>3, <3>1, <3>2, <3>3 DEF CallOK
    <2> QED
      BY <2>2, <2>3
  <1> QED
    BY <1>4, <1>5, <1>6, <1>7, <1>8 DEF CacheInv

\* Registering, labelling and deleting a node preserve the invariant.
LEMMA NodeKeeps ==
    ASSUME CacheInv, NEW m \in Name, RegisterNode(m) \/ LabelNode(m) \/ DeleteNode(m)
    PROVE  CacheInv'
  <1>1. /\ node \in [Name -> NodeObject] /\ NodesCounted
        /\ deleted \in [Name -> {"no", "node", "unknown"}]
    BY TypeOKDef DEF CacheInv
  <1>2. PICK o \in NodeObject : o = node[m]
    BY <1>1
  <1>3. o.inc \in 0 .. MaxInc /\ (o.present => o.inc >= 1)
    BY <1>1, <1>2 DEF NodeObject, NodesCounted
  <1>4. CASE RegisterNode(m)
    <2>1. PICK l \in BOOLEAN :
             node' = [node EXCEPT ![m] = [present |-> TRUE, inc |-> o.inc + 1, labels |-> l,
                                          taint |-> TRUE, condition |-> FALSE]]
      BY <1>2, <1>4 DEF RegisterNode
    <2>2. PICK x : x = [present |-> TRUE, inc |-> o.inc + 1, labels |-> l,
                        taint |-> TRUE, condition |-> FALSE]
      OBVIOUS
    <2>3. o.inc + 1 \in 0 .. MaxInc /\ ~o.present
      BY <1>2, <1>3, <1>4 DEF RegisterNode
    <2>4. x \in NodeObject /\ x.present /\ x.inc = o.inc + 1
      BY <2>2, <2>3 DEF NodeObject
    <2>5. UNCHANGED <<deleted, cache, cacheAge, call, excused, lost>>
      BY <1>4 DEF RegisterNode
    <2>6. node[m].inc <= x.inc /\ x.inc >= 1
      BY <1>2, <1>3, <2>4
    <2> QED
      BY <1>1, <1>2, <2>1, <2>2, <2>3, <2>4, <2>5, <2>6, NodeChanges
  <1>5. CASE LabelNode(m)
    <2>1. PICK x : x = [o EXCEPT !.labels = TRUE]
      OBVIOUS
    <2>2. x \in NodeObject /\ x.present = o.present /\ x.inc = o.inc
      BY <2>1 DEF NodeObject
    <2>3. /\ node' = [node EXCEPT ![m] = x]
          /\ UNCHANGED <<deleted, cache, cacheAge, call, excused, lost>>
      BY <1>1, <1>2, <1>5, <2>1 DEF LabelNode
    <2>4. node[m].inc <= x.inc
      BY <1>2, <1>3, <2>2
    <2> QED
      BY <1>1, <1>2, <1>3, <2>2, <2>3, <2>4, NodeChanges
  <1>6. CASE DeleteNode(m)
    <2>1. PICK x : x = [o EXCEPT !.present = FALSE, !.taint = FALSE]
      OBVIOUS
    <2>2. x \in NodeObject /\ ~x.present /\ x.inc = o.inc
      BY <2>1 DEF NodeObject
    <2>3. /\ node' = [node EXCEPT ![m] = x] /\ deleted' = [deleted EXCEPT ![m] = "node"]
          /\ UNCHANGED <<cache, cacheAge, call, excused, lost>>
      BY <1>1, <1>2, <1>6, <2>1 DEF DeleteNode
    <2>4. node[m].inc <= x.inc
      BY <1>2, <1>3, <2>2
    <2>5. /\ deleted' \in [Name -> {"no", "node", "unknown"}] /\ deleted'[m] # "no"
          /\ \A n \in Name \ {m} : deleted'[n] = deleted[n]
      BY <1>1, <2>3
    <2> QED
      BY <2>2, <2>3, <2>4, <2>5, NodeChanges
  <1> QED
    BY <1>4, <1>5, <1>6

\* A lost or delivered event preserves the invariant: a call that holds an
\* old node is excused, and no other is left.
LEMMA EventKeeps ==
    ASSUME CacheInv, NEW m \in Name, LoseEvent(m) \/ handleNodeDelete(m)
    PROVE  CacheInv'
  <1>1. /\ TypeOK /\ NodesCounted /\ AgesBounded /\ EntriesFilled /\ CallsOK
        /\ CurrentUnlessRaced
    BY DEF CacheInv
  <1>2. /\ call \in [Caller -> Call] /\ deleted \in [Name -> {"no", "node", "unknown"}]
        /\ DOMAIN cache \subseteq Name /\ cache \in [DOMAIN cache -> Entry]
        /\ excused \subseteq Name /\ lost \in 0 .. MaxLost
    BY <1>1, TypeOKDef
  <1>3. UNCHANGED <<node, cacheAge, call>>
    BY DEF LoseEvent, handleNodeDelete
  <1>4. PICK d \in {"no", "node", "unknown"} : deleted' = [deleted EXCEPT ![m] = d]
    BY DEF LoseEvent, handleNodeDelete
  <1>5. deleted' \in [Name -> {"no", "node", "unknown"}] /\ deleted'[m] = d
          /\ \A n \in Name \ {m} : deleted'[n] = deleted[n]
    BY <1>2, <1>4
  <1>6. excused' = excused \cup {m} \/ excused' = excused \ {m} \/ excused' = excused
    BY DEF LoseEvent, handleNodeDelete
  <1>7. /\ DOMAIN cache' \subseteq DOMAIN cache /\ cache' \in [DOMAIN cache' -> Entry]
        /\ \A n \in DOMAIN cache' : cache'[n] = cache[n]
    BY <1>2 DEF LoseEvent, handleNodeDelete, Forget, Restrict
  <1>8. \/ m \in excused'
        \/ d # "no"
        \/ /\ m \notin DOMAIN cache'
           /\ \A c \in Caller : ~HoldsOldNode(c, m)
    BY <1>2, <1>5 DEF LoseEvent, handleNodeDelete, Forget, Restrict
  <1>9. lost' \in 0 .. MaxLost
    BY <1>2 DEF LoseEvent, handleNodeDelete
  <1>10. TypeOK'
    BY <1>1, <1>2, <1>3, <1>5, <1>6, <1>7, <1>9 DEF TypeOK, Entry
  <1>11. NodesCounted' /\ AgesBounded' /\ EntriesFilled'
    BY <1>1, <1>3, <1>7 DEF NodesCounted, AgesBounded, EntriesFilled
  <1>12. CurrentUnlessRaced'
    BY <1>1, <1>3, <1>5, <1>6, <1>7, <1>8 DEF CurrentUnlessRaced, Usable
  <1>13. CallsOK'
    <2> SUFFICES ASSUME NEW c \in Caller
                 PROVE  CallOK(call[c])'
      BY DEF CallsOK
    <2>1. PICK o \in Call : o = call[c] /\ o = call'[c] /\ CallOK(o)
      BY <1>1, <1>2, <1>3 DEF CallsOK
    <2>2. o.name \in Name
      BY DEF Call
    <2>3. CASE o.name # m
      BY <1>3, <1>5, <1>6, <2>1, <2>2, <2>3 DEF CallOK
    <2>4. CASE o.name = m
      <3>1. o.pc \in Reading /\ m \notin excused' /\ d = "no" =>
                node[m].present /\ o.seen.inc = node[m].inc
        BY <1>8, <2>1, <2>4 DEF HoldsOldNode, HasRead, Reading
      <3> QED
        BY <1>3, <1>5, <2>1, <2>4, <3>1 DEF CallOK
    <2> QED
      BY <2>3, <2>4
  <1> QED
    BY <1>10, <1>11, <1>12, <1>13 DEF CacheInv

\* The passing of time preserves the invariant.
LEMMA TickKeeps ==
    ASSUME CacheInv, Tick
    PROVE  CacheInv'
  <1>1. /\ TypeOK /\ NodesCounted /\ AgesBounded /\ EntriesFilled /\ CallsOK
        /\ CurrentUnlessRaced
    BY DEF CacheInv
  <1>2. /\ call \in [Caller -> Call] /\ cache \in [DOMAIN cache -> Entry]
        /\ cacheAge \in 0 .. TTL
    BY <1>1, TypeOKDef
  <1>3. UNCHANGED <<node, deleted, excused, lost>>
    BY DEF Tick
  <1>4. cacheAge' \in 0 .. TTL /\ (cacheAge' < TTL => cacheAge' = cacheAge + 1)
    BY <1>2 DEF Tick, Aged
  <1>5. \A n \in DOMAIN cache :
           /\ cache'[n] \in Entry /\ cache'[n].md = cache[n].md
           /\ cache'[n].age <= cache[n].age + 1
    <2> SUFFICES ASSUME NEW n \in DOMAIN cache
                 PROVE  /\ cache'[n] \in Entry /\ cache'[n].md = cache[n].md
                        /\ cache'[n].age <= cache[n].age + 1
      OBVIOUS
    <2>1. PICK e \in Entry : e = cache[n]
      BY <1>2
    <2>2. PICK age : age = Aged(e.age, Old)
      OBVIOUS
    <2>3. age \in 0 .. Old /\ age <= e.age + 1
      BY <2>2 DEF Aged, Old, Entry
    <2>4. cache'[n] = [e EXCEPT !.age = age]
      BY <2>1, <2>2 DEF Tick
    <2>5. [e EXCEPT !.age = age] \in Entry /\ [e EXCEPT !.age = age].md = e.md
            /\ [e EXCEPT !.age = age].age = age
      BY <2>3 DEF Entry
    <2> QED
      BY <2>1, <2>3, <2>4, <2>5
  <1>6. DOMAIN cache' = DOMAIN cache /\ cache' \in [DOMAIN cache' -> Entry]
    BY <1>5 DEF Tick
  <1>7. call' \in [Caller -> Call] /\ CallsOK'
    <2>1. \A c \in Caller : call'[c] \in Call /\ CallOK(call'[c])
      <3> SUFFICES ASSUME NEW c \in Caller
                   PROVE  call'[c] \in Call /\ CallOK(call'[c])
        OBVIOUS
      <3>1. PICK o \in Call : o = call[c] /\ CallOK(o)
        BY <1>1, <1>2 DEF CallsOK
      <3>2. CASE ~HasRead(c)
        BY <3>1, <3>2 DEF Tick
      <3>3. CASE HasRead(c)
        <4>1. o.age + 1 \in 0 .. MaxFill
          BY <3>1, <3>3 DEF Tick, Call
        <4>2. PICK k : k = [o EXCEPT !.age = o.age + 1]
          OBVIOUS
        <4>3. call'[c] = k
          BY <3>1, <3>3, <4>2 DEF Tick
        <4>4. k \in Call /\ k.pc = o.pc /\ k.seen = o.seen /\ k.md = o.md /\ k.name = o.name
          BY <4>1, <4>2 DEF Call
        <4>5. CallOK(k)
          BY <3>1, <4>4 DEF CallOK
        <4> QED
          BY <4>3, <4>4, <4>5
      <3> QED
        BY <3>2, <3>3
    <2>2. call' \in [Caller -> Call]
      BY <2>1 DEF Tick
    <2>3. CallsOK'
      BY <1>3, <2>1 DEF CallsOK, CallOK
    <2> QED
      BY <2>2, <2>3
  <1>8. TypeOK'
    <2>1. \A c \in Caller : call'[c].pc = "done" => call'[c].md.inc # 0
      BY <1>7 DEF CallsOK, CallOK
    <2> QED
      BY <1>1, <1>3, <1>4, <1>6, <1>7, <2>1 DEF TypeOK, Call, Entry
  <1>9. NodesCounted' /\ EntriesFilled'
    BY <1>1, <1>3, <1>5, <1>6 DEF NodesCounted, EntriesFilled
  <1>10. AgesBounded'
    <2> SUFFICES ASSUME cacheAge' < TTL, NEW n \in DOMAIN cache
                 PROVE  cache'[n].age <= cacheAge' + MaxFill
      BY <1>6 DEF AgesBounded
    <2>1. cacheAge < TTL /\ cacheAge' = cacheAge + 1
      BY <1>2, <1>4
    <2>2. cache[n].age <= cacheAge + MaxFill
      BY <1>1, <2>1 DEF AgesBounded
    <2>3. cache[n].age \in Nat /\ cache'[n].age \in Nat
      BY <1>2, <1>5 DEF Entry, Old
    <2> QED
      BY <1>2, <1>5, <2>1, <2>2, <2>3
  <1>11. CurrentUnlessRaced'
    BY <1>1, <1>2, <1>3, <1>4, <1>5, <1>6 DEF CurrentUnlessRaced, Usable
  <1> QED
    BY <1>7, <1>8, <1>9, <1>10, <1>11 DEF CacheInv

\* Every step preserves the invariant.
LEMMA CacheStep == CacheInv /\ [Next]_vars => CacheInv'
  <1> SUFFICES ASSUME CacheInv, [Next]_vars
               PROVE  CacheInv'
    OBVIOUS
  <1>1. CASE UNCHANGED vars
    BY <1>1 DEF CacheInv, TypeOK, NodesCounted, AgesBounded, EntriesFilled, CallsOK,
          CallOK, CurrentUnlessRaced, Usable, vars
  <1>2. CASE \E c \in Caller : Step(c) \/ RequestFails(c)
    BY <1>2, GetNodeKeeps, PlainStepKeeps, DropKeeps, PopulateKeeps, PutKeeps DEF Step
  <1>3. CASE \E c \in Caller, n \in Name : InstanceMetadata(c, n) \/ GetZoneByNodeName(c, n)
    BY <1>3, LookupKeeps DEF InstanceMetadata, GetZoneByNodeName
  <1>4. CASE \E n \in Name : \/ RegisterNode(n) \/ LabelNode(n) \/ DeleteNode(n)
                            \/ LoseEvent(n) \/ handleNodeDelete(n)
    BY <1>4, NodeKeeps, EventKeeps
  <1> QED
    BY <1>1, <1>2, <1>3, <1>4, TickKeeps DEF Next

\* The invariant holds in every reachable state.
LEMMA CacheInvariant == Spec => []CacheInv
  BY CacheInit, CacheStep, PTL DEF Spec

\* Type correctness: a call that returns without an error has the metadata of
\* some node.
THEOREM CacheTypeCorrect == Spec => []TypeOK
  <1>1. CacheInv => TypeOK
    BY DEF CacheInv
  <1> QED
    BY <1>1, CacheInvariant, PTL

\* The cache never answers with what was read longer ago than the time to
\* live and the duration of one call.
THEOREM CacheNotStale == Spec => []StalenessBounded
  <1>1. CacheInv => StalenessBounded
    <2> SUFFICES ASSUME CacheInv, NEW n \in Name, Usable(n)
                 PROVE  cache[n].age < Old
      BY DEF StalenessBounded
    <2>1. cacheAge \in 0 .. TTL /\ cache[n].age \in Nat
      BY TypeOKDef DEF CacheInv, Usable, Entry, Old
    <2>2. cache[n].age <= cacheAge + MaxFill /\ cacheAge < TTL
      BY DEF CacheInv, AgesBounded, Usable
    <2> QED
      BY <2>1, <2>2 DEF Old
  <1> QED
    BY <1>1, CacheInvariant, PTL

\* After the watch has delivered a deletion the cache does not answer for the
\* deleted node, but for the races and lost events that excused names.
THEOREM CacheCurrent == Spec => []CurrentUnlessRaced
  <1>1. CacheInv => CurrentUnlessRaced
    BY DEF CacheInv
  <1> QED
    BY <1>1, CacheInvariant, PTL

=============================================================================

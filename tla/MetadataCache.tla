---------------------------- MODULE MetadataCache ----------------------------
(***************************************************************************)
(* The node metadata service: GetNodeMetadata, its cache of node metadata  *)
(* and the node watch that removes deleted nodes from it.  The callers are *)
(* InstanceMetadata, for which a tainted node also gets the condition      *)
(* NetworkUnavailable, and GetZoneByNodeName.  The cache is locked in each *)
(* of its operations, but not from the look up to the result.              *)
(*                                                                         *)
(* A node that is deleted and registered again under its name is another   *)
(* incarnation, with another worker, addresses and provider id.  Time is   *)
(* counted as ages, a call's from its read of the node.                    *)
(***************************************************************************)
EXTENDS Naturals, Functions

CONSTANTS
    Name,       \* node names
    Caller,     \* threads that call GetNodeMetadata
    TTL,        \* cacheTTL
    MaxFill,    \* bound: time from the read of a node to its cache entry
    MaxInc,     \* bound: incarnations of a node
    MaxLost     \* bound: times the watch connection is lost

ASSUME CacheAssumption ==
    /\ Name # {}
    /\ TTL \in Nat \ {0} /\ MaxFill \in Nat \ {0}
    /\ MaxInc \in Nat /\ MaxLost \in Nat

VARIABLES
    node,       \* the Node objects in the API server
    deleted,    \* the watch: what the handler will get for a deleted node
    cache,      \* nodeMap, with the age of what an entry says
    cacheAge,   \* time since nodeCacheStart
    call,       \* the Callers
    excused,    \* history: nodes whose last delete event met a call that had
                \* read the deleted node, or was lost
    lost        \* losses of the watch connection so far

vars == <<node, deleted, cache, cacheAge, call, excused, lost>>

NodeObject == [present: BOOLEAN, inc: 0 .. MaxInc,
               labels: BOOLEAN,      \* all the labels of the provider are set
               taint: BOOLEAN,       \* uninitialised, without provider id
               condition: BOOLEAN]   \* has the condition NetworkUnavailable

\* inc: whose worker, addresses and zone; provider: whose provider id, 0 is "".
NodeMetadata == [inc: 0 .. MaxInc, provider: 0 .. MaxInc]

\* Ages beyond this one make no difference.
Old == TTL + MaxFill

\* Type correctness; a call that returns without an error has metadata.
TypeOK ==
    /\ node \in [Name -> NodeObject]
    /\ deleted \in [Name -> {"no", "node", "unknown"}]
    /\ DOMAIN cache \subseteq Name
    /\ cache \in [DOMAIN cache -> [md: NodeMetadata, age: 0 .. Old]]
    /\ cacheAge \in 0 .. TTL
    /\ call \in [Caller -> [pc: {"idle", "get", "condition", "drop", "vpc", "put", "done"},
                            name: Name, apply: BOOLEAN, seen: NodeObject,
                            md: NodeMetadata, age: 0 .. MaxFill]]
    /\ \A c \in Caller : call[c].pc = "done" => call[c].md.inc # 0
    /\ excused \subseteq Name
    /\ lost \in 0 .. MaxLost

NoNode == [present |-> FALSE, inc |-> 0, labels |-> FALSE, taint |-> FALSE,
           condition |-> FALSE]
NoMetadata == [inc |-> 0, provider |-> 0]
AtRest == [pc |-> "idle", name |-> CHOOSE n \in Name : TRUE, apply |-> FALSE,
           seen |-> NoNode, md |-> NoMetadata, age |-> 0]

Init ==
    /\ node = [n \in Name |-> NoNode]
    /\ deleted = [n \in Name |-> "no"]
    /\ cache = [n \in {} |-> NoMetadata] /\ cacheAge = 0
    /\ call = [c \in Caller |-> AtRest]
    /\ excused = {} /\ lost = 0

-----------------------------------------------------------------------------
(* GetNodeMetadata *)

Forget(map, n) == Restrict(map, DOMAIN map \ {n})

\* Mutant: only the clock starts again.
ExpireNone == cache

\* The whole cache expires at once.
Expire == [m \in {} |-> NoMetadata]

\* Mutant: whether the map has the node is not looked at.
getCachedNodeUnchecked(c, n, apply) ==
    /\ call[c].pc = "idle" /\ cacheAge < TTL
    /\ call' = [call EXCEPT ![c] =
          [AtRest EXCEPT !.name = n, !.apply = apply, !.pc = "done",
                         !.md = IF n \in DOMAIN cache THEN cache[n].md ELSE @]]
    /\ UNCHANGED <<node, deleted, cache, cacheAge, excused, lost>>

\* The look up that GetNodeMetadata begins with.
getCachedNode(c, n, apply) ==
    /\ call[c].pc = "idle"
    /\ LET fresh == cacheAge < TTL
           new == [AtRest EXCEPT !.name = n, !.apply = apply]
       IN
       /\ cache' = IF fresh THEN cache ELSE Expire
       /\ cacheAge' = IF fresh THEN cacheAge ELSE 0
       /\ call' = [call EXCEPT ![c] =
             IF fresh /\ n \in DOMAIN cache
             THEN [new EXCEPT !.pc = "done", !.md = cache[n].md]
             ELSE [new EXCEPT !.pc = "get"]]
    /\ UNCHANGED <<node, deleted, excused, lost>>

\* The two callers; set-network-unavailable is on, and the CNI is Calico.
InstanceMetadata(c, n) == getCachedNode(c, n, TRUE)
GetZoneByNodeName(c, n) == getCachedNode(c, n, FALSE)

\* A request to Kubernetes or the VPC fails, and the call with it.
RequestFails(c) ==
    /\ call[c].pc \in {"get", "condition", "vpc"}
    /\ call' = [call EXCEPT ![c] = AtRest]
    /\ UNCHANGED <<node, deleted, cache, cacheAge, excused, lost>>

\* The node is read; a missing one ends the call.
GetNode(c) ==
    LET n == call[c].name
        k8sNode == node[n]
    IN
    /\ call[c].pc = "get"
    /\ call' = [call EXCEPT ![c] =
          IF ~k8sNode.present THEN AtRest
          ELSE [@ EXCEPT !.seen = k8sNode, !.age = 0,
                         !.pc = IF call[c].apply /\ k8sNode.taint /\ ~k8sNode.condition
                                THEN "condition" ELSE "drop"]]
    /\ UNCHANGED <<node, deleted, cache, cacheAge, excused, lost>>

\* SetNodeCondition, retried on conflicts.
SetNodeCondition(c) ==
    LET n == call[c].name IN
    /\ call[c].pc = "condition"
    /\ node' = IF node[n].present THEN [node EXCEPT ![n].condition = TRUE] ELSE node
    /\ call' = [call EXCEPT ![c] = IF node[n].present
                                   THEN [@ EXCEPT !.pc = "drop"] ELSE AtRest]
    /\ UNCHANGED <<deleted, cache, cacheAge, excused, lost>>

ProviderID(k8sNode) == IF k8sNode.taint THEN 0 ELSE k8sNode.inc

\* A node with a provider id is removed from the cache first: the comparison
\* is with the metadata of the look up that failed.
deleteCachedNode(c) ==
    LET seen == call[c].seen IN
    /\ call[c].pc = "drop"
    /\ cache' = IF ProviderID(seen) # 0 THEN Forget(cache, call[c].name) ELSE cache
    /\ call' = [call EXCEPT
          ![c].md = [inc |-> seen.inc, provider |-> ProviderID(seen)],
          ![c].seen = [NoNode EXCEPT !.inc = seen.inc],   \* the rest is not used again
          ![c].pc = IF seen.labels THEN "put" ELSE "vpc"]
    /\ UNCHANGED <<node, deleted, cacheAge, excused, lost>>

\* Without labels the VPC is asked for the instance of that name.
populateNodeMetadata(c) ==
    LET n == call[c].name IN
    /\ call[c].pc = "vpc"
    /\ call' = [call EXCEPT ![c] = IF node[n].present
                                   THEN [@ EXCEPT !.md.inc = node[n].inc, !.pc = "put"]
                                   ELSE AtRest]
    /\ UNCHANGED <<node, deleted, cache, cacheAge, excused, lost>>

putCachedNode(c) ==
    /\ call[c].pc = "put"
    /\ cache' = [n \in DOMAIN cache \cup {call[c].name} |->
                    IF n = call[c].name THEN [md |-> call[c].md, age |-> call[c].age]
                    ELSE cache[n]]
    /\ call' = [call EXCEPT ![c].pc = "done", ![c].seen = NoNode, ![c].age = 0]
    /\ UNCHANGED <<node, deleted, cacheAge, excused, lost>>

\* The caller gets the metadata; after InstanceMetadata the node controller
\* takes the node for initialised.
EndCall(c) ==
    LET n == call[c].name IN
    /\ call[c].pc = "done"
    /\ node' = IF call[c].apply THEN [node EXCEPT ![n].taint = FALSE] ELSE node
    /\ call' = [call EXCEPT ![c] = AtRest]
    /\ UNCHANGED <<deleted, cache, cacheAge, excused, lost>>

-----------------------------------------------------------------------------
(* The nodes, the watch, and time *)

RegisterNode(n) ==
    /\ ~node[n].present /\ node[n].inc < MaxInc
    /\ \E l \in BOOLEAN :
          node' = [node EXCEPT ![n] = [present |-> TRUE, inc |-> @.inc + 1, labels |-> l,
                                       taint |-> TRUE, condition |-> FALSE]]
    /\ UNCHANGED <<deleted, cache, cacheAge, call, excused, lost>>

LabelNode(n) ==
    /\ node[n].present /\ ~node[n].labels
    /\ node' = [node EXCEPT ![n].labels = TRUE]
    /\ UNCHANGED <<deleted, cache, cacheAge, call, excused, lost>>

DeleteNode(n) ==
    /\ node[n].present
    /\ node' = [node EXCEPT ![n].present = FALSE, ![n].taint = FALSE]
    /\ deleted' = [deleted EXCEPT ![n] = "node"]
    /\ UNCHANGED <<cache, cacheAge, call, excused, lost>>

\* The connection is lost before the event came; the list made afterwards
\* shows that the node is missing, or one of that name again.
LoseEvent(n) ==
    /\ deleted[n] = "node" /\ lost < MaxLost
    /\ lost' = lost + 1
    /\ deleted' = [deleted EXCEPT ![n] = IF node[n].present THEN "no" ELSE "unknown"]
    /\ excused' = IF node[n].present THEN excused \cup {n} ELSE excused
    /\ UNCHANGED <<node, cache, cacheAge, call>>

\* The call has read its node and is on the way to the cache with it.
HasRead(c) == call[c].pc \in {"condition", "drop", "vpc", "put"}

\* A call has read the node of that name, but not the one there is now.
HoldsOldNode(c, n) ==
    /\ call[c].name = n /\ HasRead(c)
    /\ ~node[n].present \/ call[c].seen.inc # node[n].inc

\* Mutant: only a *v1.Node is handled.
handleKnownNodeDelete(n) ==
    /\ deleted[n] # "no"
    /\ cache' = IF deleted[n] = "node" THEN Forget(cache, n) ELSE cache
    /\ deleted' = [deleted EXCEPT ![n] = "no"]
    /\ excused' = IF \E c \in Caller : HoldsOldNode(c, n)
                  THEN excused \cup {n} ELSE excused \ {n}
    /\ UNCHANGED <<node, cacheAge, call, lost>>

\* The handler gets a node or a DeletedFinalStateUnknown.
handleNodeDelete(n) ==
    /\ deleted[n] # "no"
    /\ cache' = Forget(cache, n)
    /\ deleted' = [deleted EXCEPT ![n] = "no"]
    /\ excused' = IF \E c \in Caller : HoldsOldNode(c, n)
                  THEN excused \cup {n} ELSE excused \ {n}
    /\ UNCHANGED <<node, cacheAge, call, lost>>

Aged(age, cap) == IF age < cap THEN age + 1 ELSE cap

Tick ==
    /\ \A c \in Caller : HasRead(c) => call[c].age < MaxFill
    /\ cacheAge' = Aged(cacheAge, TTL)
    /\ cache' = [n \in DOMAIN cache |-> [cache[n] EXCEPT !.age = Aged(@, Old)]]
    /\ call' = [c \in Caller |-> IF HasRead(c) THEN [call[c] EXCEPT !.age = @ + 1]
                                 ELSE call[c]]
    /\ UNCHANGED <<node, deleted, excused, lost>>

Step(c) ==
    \/ GetNode(c) \/ SetNodeCondition(c) \/ deleteCachedNode(c)
    \/ populateNodeMetadata(c) \/ putCachedNode(c) \/ EndCall(c)

Next ==
    \/ \E c \in Caller : Step(c) \/ RequestFails(c)
    \/ \E c \in Caller, n \in Name : InstanceMetadata(c, n) \/ GetZoneByNodeName(c, n)
    \/ \E n \in Name : \/ RegisterNode(n) \/ LabelNode(n) \/ DeleteNode(n)
                       \/ LoseEvent(n) \/ handleNodeDelete(n)
    \/ Tick

Spec == Init /\ [][Next]_vars

\* Calls end, the watch delivers, and time passes.
FairSpec ==
    /\ Spec
    /\ \A c \in Caller : WF_vars(Step(c))
    /\ \A n \in Name : WF_vars(handleNodeDelete(n))
    /\ WF_vars(Tick)

-----------------------------------------------------------------------------
(* Properties *)

Usable(n) == cacheAge < TTL /\ n \in DOMAIN cache

\* What the cache answers with was read at most the time to live and the
\* duration of one call ago, although the cache starts anew while calls that
\* have read their node are still to put it in.
StalenessBounded == \A n \in Name : Usable(n) => cache[n].age < Old

\* Once the watch has delivered the deletion of a node, the cache does not
\* answer for it or for an earlier one of its name, unless a call under way
\* had read that one or the event was lost.
CurrentUnlessRaced ==
    \A n \in Name \ excused :
        Usable(n) /\ deleted[n] = "no"
            => /\ node[n].present
               /\ cache[n].md.inc = node[n].inc
               /\ cache[n].md.provider \in {0, node[n].inc}

\* When nodes stop changing, the cache is right about them in the end, also
\* after races and lost events.
CacheRecovers ==
    <>[](\A n \in Name : Usable(n) => node[n].present /\ cache[n].md.inc = node[n].inc)

\* The comment in GetNodeMetadata: metadata with another provider id than the
\* node's is removed from the cache.
ProviderIDMatches ==
    \A n \in Name :
        Usable(n) /\ deleted[n] = "no" /\ node[n].present /\ ~node[n].taint
            => cache[n].md.provider \in {0, node[n].inc}

\* The comments in GetNodeMetadata: a node that is being initialised has the
\* condition when InstanceMetadata has answered.
InitialisedWithCondition ==
    [][\A n \in Name :
          node[n].taint /\ node[n].present /\ node'[n].present /\ ~node'[n].taint
              => node[n].condition]_vars

=============================================================================

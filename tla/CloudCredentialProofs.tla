------------------------ MODULE CloudCredentialProofs ------------------------
(* Proofs about CloudCredential, for every number of calls and writes.       *)
EXTENDS CloudCredential, TLAPS

USE CredentialAssumption, NoneAssumption

\* Until SetInformers nothing is watched and no node metadata is asked for.
NotWatchedYet ==
    stage # "running" =>
        /\ ~watched /\ ~event /\ watcher = "wait" /\ vpcClient = None
        /\ \A r \in Reader : read[r].pc = "idle"

\* What a call has read is a credential, and what it uses is a key.
KeysRead ==
    /\ OnlyKeysUsed
    /\ \A c \in Caller : call[c].pc = "new" =>
          call[c].key \in Credential
    /\ \A r \in Reader : read[r].pc = "new" => read[r].key \in Credential

\* Every change of the file has been seen by the watcher.
AllSeen == watched /\ ~event /\ file.kind # "spaced"

\* From the reset on, the object and every initialisation under way have the
\* credential in the file, unless the reset met one that does not.
VpcCurrent ==
    AllSeen /\ watcher \notin {"read", "resetVpc"}
            /\ excused \cap {"cloudVpc", "startup", "unread"} = {}
        => /\ cloudVpc \in {None, file}
           /\ \A c \in Caller : call[c].pc = "new" => call[c].key = file

ClientCurrent ==
    AllSeen /\ watcher = "wait" /\ excused \cap {"vpcClient", "unread"} = {}
        => /\ vpcClient \in {None, file}
           /\ \A r \in Reader : read[r].pc = "new" => read[r].key = file

\* The inductive invariant.
CredentialInv ==
    TypeOK /\ NotWatchedYet /\ KeysRead /\ VpcCurrent /\ ClientCurrent

\* Initially nothing is made and nothing is watched.
LEMMA CredentialInit == Init => CredentialInv
  <1> SUFFICES ASSUME Init
               PROVE  CredentialInv
    OBVIOUS
  <1>1. file \in Credential
    BY DEF Init, Credential, Kind
  <1>2. AtRest \in [pc: {"idle"}, key: {None}]
    BY DEF AtRest
  <1>3. /\ call \in [Caller -> Thread({"idle", "config", "new", "use"})]
        /\ \A c \in Caller : call[c].pc = "idle"
    BY <1>2 DEF Init, Thread
  <1>4. /\ read \in [Reader -> Thread({"idle", "credential", "new", "use", "panic"})]
        /\ \A r \in Reader : read[r].pc = "idle"
    BY <1>2 DEF Init, Thread
  <1>5. TypeOK
    <2>1. failures \in 0 .. MaxFailures
      BY DEF Init
    <2>2. watched \in BOOLEAN /\ event \in BOOLEAN
      BY DEF Init
    <2> QED
      BY <1>1, <1>3, <1>4, <2>1, <2>2 DEF Init, TypeOK
  <1> QED
    BY <1>3, <1>4, <1>5 DEF Init, CredentialInv, NotWatchedYet, KeysRead, OnlyKeysUsed,
          VpcCurrent, ClientCurrent, AllSeen

\* What the file holds after a write.
LEMMA NewContentType ==
    ASSUME file \in Credential, NewContent
    PROVE  file' \in Credential
  BY DEF NewContent, Credential

\* A key that NewConfigVpc takes from the file.
LEMMA KeyType ==
    ASSUME file \in Credential
    PROVE  /\ APIKeySecret \in Credential
           /\ file.kind # "spaced" => APIKeySecret = file
  BY DEF APIKeySecret, Credential, Kind

\* The steps of the process and of the watcher preserve the types.
LEMMA WatchType ==
    ASSUME TypeOK, SetInformers \/ WriteFile \/ ReplaceFile \/ Watch
    PROVE  TypeOK'
  <1>1. CASE SetInformers
    <2>1. watched' \in BOOLEAN
      BY <1>1, Zenon DEF SetInformers, TypeOK
    <2>2. failures' \in 0 .. MaxFailures
      <3>1. failures' = failures \/ (failures < MaxFailures /\ failures' = failures + 1)
        BY <1>1, Zenon DEF SetInformers
      <3> QED
        BY <3>1 DEF TypeOK
    <2>3. excused' \subseteq {"cloudVpc", "vpcClient", "startup", "unread"}
      BY <1>1 DEF SetInformers
    <2> QED
      BY <1>1, <2>1, <2>2, <2>3 DEF SetInformers, TypeOK
  <1>2. CASE WriteFile
    BY <1>2, NewContentType DEF WriteFile, TypeOK
  <1>3. CASE ReplaceFile
    BY <1>3, NewContentType DEF ReplaceFile, TypeOK
  <1>4. CASE TakeEvent
    BY <1>4 DEF TakeEvent, TypeOK
  <1>5. CASE ReadFile
    BY <1>5 DEF ReadFile, TypeOK
  <1>6. CASE ReadFileFails
    BY <1>6 DEF ReadFileFails, TypeOK
  <1>7. CASE ResetCloudVpc
    BY <1>7 DEF ResetCloudVpc, Excuse, TypeOK
  <1>8. CASE ResetVpcClient
    BY <1>8 DEF ResetVpcClient, Excuse, TypeOK
  <1> QED
    BY <1>1, <1>2, <1>3, <1>4, <1>5, <1>6, <1>7, <1>8 DEF Watch

CallStep(c) ==
    \/ NewCloud(c) \/ GetCloudVpc(c) \/ NewConfigVpc(c) \/ NewCloudVpc(c)
    \/ InitFails(c) \/ EndCall(c)

ReadStep(r) ==
    TestVpcClient(r) \/ readCredential(r) \/ newVpcClient(r) \/ populateNodeMetadata(r)

\* The steps of InitCloudVpc preserve the types.
LEMMA CallType ==
    ASSUME CredentialInv, NEW c \in Caller, CallStep(c)
    PROVE  TypeOK'
  <1>1. TypeOK /\ KeysRead
    BY DEF CredentialInv
  <1> USE <1>1
  <1>2. CASE NewCloud(c)
    BY <1>2 DEF NewCloud, TypeOK, Thread
  <1>3. CASE GetCloudVpc(c)
    BY <1>3 DEF GetCloudVpc, TypeOK, Thread
  <1>4. CASE NewConfigVpc(c)
    <2>1. APIKeySecret \in Credential
      BY KeyType DEF TypeOK
    <2> QED
      BY <1>4, <2>1 DEF NewConfigVpc, TypeOK, Thread
  <1>5. CASE NewCloudVpc(c)
    BY <1>5 DEF NewCloudVpc, TypeOK, Thread, KeysRead
  <1>6. CASE InitFails(c)
    BY <1>6 DEF InitFails, AtRest, TypeOK, Thread
  <1>7. CASE EndCall(c)
    BY <1>7 DEF EndCall, AtRest, TypeOK, Thread
  <1> QED
    BY <1>2, <1>3, <1>4, <1>5, <1>6, <1>7 DEF CallStep

\* The steps of GetNodeMetadata preserve the types.
LEMMA ReadType ==
    ASSUME CredentialInv, NEW r \in Reader, ReadStep(r)
    PROVE  TypeOK'
  <1>1. TypeOK /\ KeysRead
    BY DEF CredentialInv
  <1> USE <1>1
  <1>2. CASE TestVpcClient(r)
    BY <1>2 DEF TestVpcClient, TypeOK, Thread
  <1>3. CASE readCredential(r)
    BY <1>3 DEF readCredential, TypeOK, Thread
  <1>4. CASE newVpcClient(r)
    BY <1>4 DEF newVpcClient, TypeOK, Thread, KeysRead, AtRest
  <1>5. CASE populateNodeMetadata(r)
    BY <1>5 DEF populateNodeMetadata, AtRest, TypeOK, Thread
  <1> QED
    BY <1>2, <1>3, <1>4, <1>5 DEF ReadStep

\* The steps of the process and of the watcher preserve the invariant.
LEMMA WatchKeeps ==
    ASSUME CredentialInv, SetInformers \/ WriteFile \/ ReplaceFile \/ Watch
    PROVE  CredentialInv'
  <1>1. TypeOK /\ NotWatchedYet /\ KeysRead /\ VpcCurrent /\ ClientCurrent
    BY DEF CredentialInv
  <1>2. TypeOK'
    BY <1>1, WatchType
  <1>3. call' = call /\ read' = read /\ (cloudVpc' = cloudVpc \/ cloudVpc' = None)
    BY DEF SetInformers, WriteFile, ReplaceFile, Watch, TakeEvent, ReadFile,
           ReadFileFails, ResetCloudVpc, ResetVpcClient
  <1>4. KeysRead'
    BY <1>1, <1>3 DEF KeysRead, OnlyKeysUsed
  <1>5. NotWatchedYet'
    BY <1>1, <1>3 DEF NotWatchedYet, SetInformers, WriteFile, ReplaceFile, Watch,
           TakeEvent, ReadFile, ReadFileFails, ResetCloudVpc, ResetVpcClient
  <1>6. CASE SetInformers
    <2>1. /\ vpcClient' = None
          /\ \A c \in Caller : call'[c].pc = "idle"
          /\ \A r \in Reader : read'[r].pc = "idle"
      BY <1>1, <1>3, <1>6 DEF SetInformers, NotWatchedYet
    <2>2. cloudVpc' \in {None, file'} \/ "startup" \in excused'
      BY <1>6 DEF SetInformers
    <2> QED
      BY <1>2, <1>4, <1>5, <2>1, <2>2 DEF CredentialInv, VpcCurrent, ClientCurrent
  <1>7. CASE WriteFile \/ ReplaceFile
    <2>1. ~AllSeen'
      BY <1>7 DEF WriteFile, ReplaceFile, AllSeen
    <2> QED
      BY <1>2, <1>4, <1>5, <2>1 DEF CredentialInv, VpcCurrent, ClientCurrent
  <1>8. CASE TakeEvent \/ ReadFile \/ ReadFileFails
    <2>1. \/ watcher' \in {"read", "resetVpc"}
          \/ ~AllSeen'
          \/ "unread" \in excused'
      BY <1>8 DEF TakeEvent, ReadFile, ReadFileFails, AllSeen
    <2> QED
      BY <1>2, <1>4, <1>5, <2>1 DEF CredentialInv, VpcCurrent, ClientCurrent
  <1>9. CASE ResetCloudVpc
    <2>1. cloudVpc' = None /\ file' = file /\ watcher' # "wait"
      BY <1>9 DEF ResetCloudVpc
    <2>2. \/ "cloudVpc" \in excused'
          \/ \A c \in Caller : call[c].pc = "new" => call[c].key = file
      BY <1>9 DEF ResetCloudVpc, Excuse
    <2> QED
      BY <1>2, <1>3, <1>4, <1>5, <2>1, <2>2 DEF CredentialInv, VpcCurrent, ClientCurrent
  <1>10. CASE ResetVpcClient
    <2>1. /\ vpcClient' = None /\ file' = file /\ cloudVpc' = cloudVpc
          /\ AllSeen' = AllSeen /\ watcher = "resetClient"
      BY <1>10 DEF ResetVpcClient, AllSeen
    <2>2. \/ "vpcClient" \in excused'
          \/ \A r \in Reader : read[r].pc = "new" => read[r].key = file
      BY <1>10 DEF ResetVpcClient, Excuse
    <2>3. /\ excused \cap {"cloudVpc", "startup", "unread"}
              = excused' \cap {"cloudVpc", "startup", "unread"}
          /\ watcher' = "wait"
      BY <1>10 DEF ResetVpcClient, Excuse
    <2>4. VpcCurrent'
      BY <1>1, <1>3, <2>1, <2>3 DEF VpcCurrent
    <2>5. ClientCurrent'
      BY <1>3, <2>1, <2>2 DEF ClientCurrent
    <2> QED
      BY <1>2, <1>4, <1>5, <2>4, <2>5 DEF CredentialInv
  <1> QED
    BY <1>6, <1>7, <1>8, <1>9, <1>10 DEF Watch

\* The steps of InitCloudVpc preserve the invariant.
LEMMA CallKeeps ==
    ASSUME CredentialInv, NEW c \in Caller, CallStep(c)
    PROVE  CredentialInv'
  <1>1. TypeOK /\ NotWatchedYet /\ KeysRead /\ VpcCurrent /\ ClientCurrent
    BY DEF CredentialInv
  <1>2. TypeOK'
    BY CallType
  <1>3. /\ UNCHANGED <<file, watched, event, watcher, vpcClient, read, excused>>
        /\ stage' # "running" <=> stage # "running"
        /\ AllSeen' = AllSeen
    BY DEF CallStep, NewCloud, GetCloudVpc, NewConfigVpc, NewCloudVpc, InitFails,
           EndCall, AllSeen
  <1>4. NotWatchedYet' /\ ClientCurrent'
    BY <1>1, <1>3 DEF NotWatchedYet, ClientCurrent
  <1>5. call' = [call EXCEPT ![c] = call'[c]] /\ call \in [Caller -> Thread({"idle", "config", "new", "use"})]
    BY <1>1 DEF TypeOK, CallStep, NewCloud, GetCloudVpc, NewConfigVpc, NewCloudVpc,
           InitFails, EndCall
  <1>6. \A d \in Caller \ {c} : call'[d] = call[d]
    BY <1>5
  <1>7. \/ call'[c].pc # "new" /\ cloudVpc' = cloudVpc
        \/ call'[c].pc = "new" /\ call'[c].key = APIKeySecret /\ cloudVpc' = cloudVpc
        \/ /\ call'[c].pc # "new"
           /\ call[c].pc = "new" /\ cloudVpc' = call[c].key
    <2>1. CASE NewCloudVpc(c)
      BY <1>1, <2>1 DEF TypeOK, Thread, NewCloudVpc
    <2>2. CASE NewConfigVpc(c)
      BY <1>1, <2>2 DEF TypeOK, Thread, NewConfigVpc
    <2>3. CASE NewCloud(c) \/ GetCloudVpc(c) \/ InitFails(c) \/ EndCall(c)
      BY <1>1, <2>3 DEF TypeOK, Thread, NewCloud, GetCloudVpc, InitFails, EndCall, AtRest
    <2> QED
      BY <2>1, <2>2, <2>3 DEF CallStep
  <1>8. /\ APIKeySecret \in Credential
        /\ file.kind # "spaced" => APIKeySecret = file
    BY <1>1, KeyType DEF TypeOK
  <1>9. KeysRead'
    <2>1. OnlyKeysUsed'
      <3>1. CASE NewCloudVpc(c)
        <4>1. cloudVpc' = call[c].key /\ call[c].key.kind = "key"
          BY <3>1 DEF NewCloudVpc, convertResourceGroupNameToID
        <4>2. call'[c].key = call[c].key
          BY <1>1, <3>1 DEF TypeOK, Thread, NewCloudVpc
        <4> QED
          BY <1>1, <1>6, <4>1, <4>2 DEF KeysRead, OnlyKeysUsed
      <3>2. CASE GetCloudVpc(c)
        <4>1. cloudVpc' = cloudVpc
          BY <3>2 DEF GetCloudVpc
        <4>2. call'[c].pc = "use" => cloudVpc # None /\ call'[c].key = cloudVpc
          BY <1>1, <3>2 DEF TypeOK, Thread, GetCloudVpc
        <4> QED
          BY <1>1, <1>6, <4>1, <4>2 DEF KeysRead, OnlyKeysUsed
      <3>3. CASE NewCloud(c) \/ NewConfigVpc(c) \/ InitFails(c) \/ EndCall(c)
        <4>1. cloudVpc' = cloudVpc /\ call'[c].pc # "use"
          BY <1>1, <3>3 DEF TypeOK, Thread, NewCloud, NewConfigVpc, InitFails, EndCall,
                AtRest
        <4> QED
          BY <1>1, <1>6, <4>1 DEF KeysRead, OnlyKeysUsed
      <3> QED
        BY <3>1, <3>2, <3>3 DEF CallStep
    <2> QED
      BY <1>1, <1>3, <1>6, <1>7, <1>8, <2>1 DEF KeysRead
  <1>10. VpcCurrent'
    BY <1>1, <1>3, <1>6, <1>7, <1>8 DEF VpcCurrent, AllSeen
  <1> QED
    BY <1>2, <1>4, <1>9, <1>10 DEF CredentialInv

\* The steps of GetNodeMetadata preserve the invariant.
LEMMA ReadKeeps ==
    ASSUME CredentialInv, NEW r \in Reader, ReadStep(r)
    PROVE  CredentialInv'
  <1>1. TypeOK /\ NotWatchedYet /\ KeysRead /\ VpcCurrent /\ ClientCurrent
    BY DEF CredentialInv
  <1>2. TypeOK'
    BY ReadType
  <1>3. /\ UNCHANGED <<stage, file, watched, event, watcher, cloudVpc, call, excused>>
        /\ AllSeen' = AllSeen
    BY DEF ReadStep, TestVpcClient, readCredential, newVpcClient, populateNodeMetadata,
           AllSeen
  <1>4. stage = "running"
    BY <1>1 DEF NotWatchedYet, ReadStep, TestVpcClient, readCredential, newVpcClient,
           populateNodeMetadata
  <1>5. /\ read' = [read EXCEPT ![r] = read'[r]]
        /\ read \in [Reader -> Thread({"idle", "credential", "new", "use", "panic"})]
    BY <1>1 DEF TypeOK, ReadStep, TestVpcClient, readCredential, newVpcClient,
           populateNodeMetadata
  <1>6. \A q \in Reader \ {r} : read'[q] = read[q]
    BY <1>5
  <1>7. \/ read'[r].pc # "new" /\ vpcClient' \in {vpcClient, None}
        \/ read'[r].pc = "new" /\ read'[r].key = file /\ vpcClient' = vpcClient
        \/ read'[r].pc # "new" /\ read[r].pc = "new" /\ vpcClient' = read[r].key
    BY <1>1 DEF TypeOK, Thread, ReadStep, TestVpcClient, readCredential, newVpcClient,
           populateNodeMetadata, AtRest
  <1>8. NotWatchedYet' /\ VpcCurrent'
    BY <1>1, <1>3, <1>4 DEF NotWatchedYet, VpcCurrent
  <1>9. KeysRead'
    BY <1>1, <1>3, <1>6, <1>7 DEF KeysRead, OnlyKeysUsed, TypeOK
  <1>10. ClientCurrent'
    BY <1>1, <1>3, <1>6, <1>7 DEF ClientCurrent
  <1> QED
    BY <1>2, <1>8, <1>9, <1>10 DEF CredentialInv

\* Every step preserves the invariant.
LEMMA CredentialStep == CredentialInv /\ [Next]_vars => CredentialInv'
  <1> SUFFICES ASSUME CredentialInv, [Next]_vars
               PROVE  CredentialInv'
    OBVIOUS
  <1>1. CASE UNCHANGED vars
    BY <1>1 DEF CredentialInv, TypeOK, NotWatchedYet, KeysRead, OnlyKeysUsed, VpcCurrent,
          ClientCurrent, AllSeen, vars
  <1> QED
    BY <1>1, WatchKeeps, CallKeeps, ReadKeeps DEF Next, CallStep, ReadStep

\* The invariant holds in every reachable state.
LEMMA CredentialInvariant == Spec => []CredentialInv
  BY CredentialInit, CredentialStep, PTL DEF Spec

\* Type correctness: a call that goes on with a VPC object has one, however
\* often the watcher sets persistentCloudVpc to nil meanwhile.
THEOREM CredentialTypeCorrect == Spec => []TypeOK
  <1>1. CredentialInv => TypeOK
    BY DEF CredentialInv
  <1> QED
    BY <1>1, CredentialInvariant, PTL

\* No call about a load balancer goes on with an object made from something
\* that is not a key, half a key included.
THEOREM KeysOnly == Spec => []OnlyKeysUsed
  <1>1. CredentialInv => OnlyKeysUsed
    BY DEF CredentialInv, KeysRead
  <1> QED
    BY <1>1, CredentialInvariant, PTL

\* When the watcher has nothing to do, both objects are gone or made with
\* the credential in the file, but for the races that excused names.
THEOREM ObjectsCurrent == Spec => []CurrentUnlessRaced
  <1>1. CredentialInv => CurrentUnlessRaced
    BY DEF CredentialInv, VpcCurrent, ClientCurrent, AllSeen, Quiet, CurrentUnlessRaced
  <1> QED
    BY <1>1, CredentialInvariant, PTL

=============================================================================

--------------------------- MODULE CloudCredential ---------------------------
(***************************************************************************)
(* The cloud credential file and the two objects made from it: the global  *)
(* persistentCloudVpc, which InitCloudVpc makes on demand for every call   *)
(* about a load balancer, and the vpcClient of the metadata service.  A    *)
(* goroutine watches the file and sets both to nil when it was written, so *)
(* that the next call makes them again.  No lock protects either variable. *)
(* NewCloud makes the first object when the process starts; the watch is   *)
(* set up by SetInformers, once this process is the leader.                *)
(***************************************************************************)
EXTENDS Naturals

CONSTANTS
    Caller,      \* threads that call InitCloudVpc
    Reader,      \* threads in GetNodeMetadata that need the VPC
    None,        \* nil
    MayReplace,  \* the file may be replaced by another one, not only written
    EndpointOverride, \* G2EndpointOverride is set
    MaxWrites,   \* bound: writes of the file
    MaxFailures  \* bound: times the watcher cannot read the file

ASSUME CredentialAssumption ==
    /\ MayReplace \in BOOLEAN /\ EndpointOverride \in BOOLEAN
    /\ MaxWrites \in Nat /\ MaxFailures \in Nat

\* What the file may hold: an API key, the first half of one (it is being
\* written), nothing (it is truncated), or text with a space in it.
Kind == {"key", "half", "empty", "spaced"}
Credential == [version: 0 .. MaxWrites, kind: Kind]

ASSUME NoneAssumption == None \notin Credential

VARIABLES
    stage,      \* of the process: started, made its Cloud, is the leader
    file,       \* what the file holds
    watched,    \* the watch is on the file in place
    event,      \* a Write event is waiting
    watcher,    \* the watching goroutine: its pc
    cloudVpc,   \* persistentCloudVpc: the credential it was made with, or nil
    vpcClient,  \* the metadata service's client: the same
    call,       \* the Callers: pc and the credential read
    read,       \* the Readers: the same
    excused,    \* history: objects an initialisation could set again since
                \* their last reset; "unread": the last event's read failed;
                \* "startup": the file changed before the watch began
    failures    \* failed reads so far

vars == <<stage, file, watched, event, watcher, cloudVpc, vpcClient, call, read,
          excused, failures>>

Thread(pcs) == [pc: pcs, key: Credential \cup {None}]

\* Type correctness; a call that uses a VPC object has one.
TypeOK ==
    /\ stage \in {"new", "init", "running"}
    /\ file \in Credential
    /\ watched \in BOOLEAN /\ event \in BOOLEAN
    /\ watcher \in {"wait", "read", "resetVpc", "resetClient"}
    /\ cloudVpc \in Credential \cup {None}
    /\ vpcClient \in Credential \cup {None}
    /\ call \in [Caller -> Thread({"idle", "config", "new", "use"})]
    /\ \A c \in Caller : call[c].pc = "use" => call[c].key # None
    /\ read \in [Reader -> Thread({"idle", "credential", "new", "use", "panic"})]
    /\ excused \subseteq {"cloudVpc", "vpcClient", "startup", "unread"}
    /\ failures \in 0 .. MaxFailures

AtRest == [pc |-> "idle", key |-> None]

Init ==
    /\ stage = "new"
    /\ file = [version |-> 0, kind |-> "key"]
    /\ watched = FALSE /\ event = FALSE /\ watcher = "wait"
    /\ cloudVpc = None /\ vpcClient = None
    /\ call = [c \in Caller |-> AtRest]
    /\ read = [r \in Reader |-> AtRest]
    /\ excused = {} /\ failures = 0

-----------------------------------------------------------------------------
(* The start of the process *)

\* NewCloud calls InitCloudVpc, whose failure it only logs.
NewCloud(c) ==
    /\ stage = "new"
    /\ stage' = "init"
    /\ call' = [call EXCEPT ![c] = [pc |-> "config", key |-> None]]
    /\ UNCHANGED <<file, watched, event, watcher, cloudVpc, vpcClient, read,
                   excused, failures>>

\* SetInformers starts the watch, or only logs that it cannot.
SetInformers ==
    /\ stage = "init" /\ \A c \in Caller : call[c].pc = "idle"
    /\ stage' = "running"
    /\ \/ watched' = TRUE /\ UNCHANGED failures
       \/ failures < MaxFailures /\ failures' = failures + 1 /\ UNCHANGED watched
    /\ excused' = IF cloudVpc \in {None, file} THEN {} ELSE {"startup"}
    /\ UNCHANGED <<file, event, watcher, cloudVpc, vpcClient, call, read>>

-----------------------------------------------------------------------------
(* The file and its watcher *)

NewContent ==
    /\ file.version < MaxWrites
    /\ \E k \in Kind :
          file' = [version |-> file.version + 1, kind |-> k]

\* The file is written in place; events of one file are merged.
WriteFile ==
    /\ NewContent
    /\ event' = (event \/ watched)
    /\ UNCHANGED <<stage, watched, watcher, cloudVpc, vpcClient, call, read, excused,
                   failures>>

\* Another file is moved to its place: no Write event, and the watch stays
\* with the old one.
ReplaceFile ==
    /\ MayReplace
    /\ NewContent
    /\ watched' = FALSE
    /\ UNCHANGED <<stage, event, watcher, cloudVpc, vpcClient, call, read, excused,
                   failures>>

TakeEvent ==
    /\ watcher = "wait" /\ event
    /\ event' = FALSE
    /\ watcher' = "read"
    /\ UNCHANGED <<stage, file, watched, cloudVpc, vpcClient, call, read, excused, failures>>

\* Text with a space in it is no credential: the objects stay.
ReadFile ==
    /\ watcher = "read"
    /\ watcher' = IF file.kind = "spaced" THEN "wait" ELSE "resetVpc"
    /\ excused' = excused \ {"unread"}
    /\ UNCHANGED <<stage, file, watched, event, cloudVpc, vpcClient, call, read, failures>>

ReadFileFails ==
    /\ watcher = "read" /\ failures < MaxFailures
    /\ failures' = failures + 1
    /\ watcher' = "wait"
    /\ excused' = excused \cup {"unread"}
    /\ UNCHANGED <<stage, file, watched, event, cloudVpc, vpcClient, call, read>>

Excuse(objects, object, threads) ==
    excused' = (excused \ objects) \cup
        IF \E t \in threads : t.pc = "new" /\ t.key # file THEN {object} ELSE {}

\* Mutant: only the metadata client is reset.
ResetNothing ==
    /\ watcher = "resetVpc"
    /\ watcher' = "resetClient"
    /\ Excuse({"cloudVpc", "startup"}, "cloudVpc", {call[c] : c \in Caller})
    /\ UNCHANGED <<stage, file, watched, event, cloudVpc, vpcClient, call, read, failures>>

ResetCloudVpc ==
    /\ watcher = "resetVpc"
    /\ cloudVpc' = None
    /\ watcher' = "resetClient"
    /\ Excuse({"cloudVpc", "startup"}, "cloudVpc", {call[c] : c \in Caller})
    /\ UNCHANGED <<stage, file, watched, event, vpcClient, call, read, failures>>

\* Mutant: the goroutine returns after the first reset.
ResetVpcClientAndReturn ==
    /\ watcher = "resetClient"
    /\ vpcClient' = None
    /\ watcher' = "returned"
    /\ Excuse({"vpcClient"}, "vpcClient", {read[r] : r \in Reader})
    /\ UNCHANGED <<stage, file, watched, event, cloudVpc, call, read, failures>>

\* The test for nil before the assignment makes no difference.
ResetVpcClient ==
    /\ watcher = "resetClient"
    /\ vpcClient' = None
    /\ watcher' = "wait"
    /\ Excuse({"vpcClient"}, "vpcClient", {read[r] : r \in Reader})
    /\ UNCHANGED <<stage, file, watched, event, cloudVpc, call, read, failures>>

-----------------------------------------------------------------------------
(* InitCloudVpc *)

\* Mutant: nil is not told from an object.
GetCloudVpcUnchecked(c) ==
    /\ stage = "running" /\ call[c].pc = "idle"
    /\ call' = [call EXCEPT ![c] = [pc |-> "use", key |-> cloudVpc]]
    /\ UNCHANGED <<stage, file, watched, event, watcher, cloudVpc, vpcClient, read, excused, failures>>

\* GetCloudVpc: the object there is, or a new one.
GetCloudVpc(c) ==
    /\ stage = "running" /\ call[c].pc = "idle"
    /\ call' = [call EXCEPT ![c] = IF cloudVpc # None
                                   THEN [pc |-> "use", key |-> cloudVpc]
                                   ELSE [pc |-> "config", key |-> None]]
    /\ UNCHANGED <<stage, file, watched, event, watcher, cloudVpc, vpcClient, read, excused, failures>>

\* A text with spaces in it counts as no key.
APIKeySecret == IF file.kind = "spaced" THEN [file EXCEPT !.kind = "empty"] ELSE file

\* NewConfigVpc reads the file.
NewConfigVpc(c) ==
    /\ call[c].pc = "config"
    /\ call' = [call EXCEPT ![c] = [pc |-> "new", key |-> APIKeySecret]]
    /\ UNCHANGED <<stage, file, watched, event, watcher, cloudVpc, vpcClient, read, excused, failures>>

\* validate: the other settings are there.
validate(key) == key.kind # "empty"

\* The name is always set, see validate.  The look up is the first request
\* made with the key, and IAM gives no token for a text that is none.
convertResourceGroupNameToID(key) == key.kind = "key"

\* Mutant: the object is kept before the resource group is looked up.
NewCloudVpcFirst(c) ==
    /\ call[c].pc = "new" /\ validate(call[c].key)
    /\ cloudVpc' = call[c].key
    /\ call' = [call EXCEPT ![c].pc = "use"]
    /\ UNCHANGED <<stage, file, watched, event, watcher, vpcClient, read, excused, failures>>

\* NewCloudVpc keeps the object for the calls to come.
NewCloudVpc(c) ==
    /\ call[c].pc = "new"
    /\ validate(call[c].key) /\ convertResourceGroupNameToID(call[c].key)
    /\ cloudVpc' = call[c].key
    /\ call' = [call EXCEPT ![c].pc = "use"]
    /\ UNCHANGED <<stage, file, watched, event, watcher, vpcClient, read, excused, failures>>

\* The file cannot be read, the key is refused, or the client or the look up
\* of the resource group fails.
InitFails(c) ==
    /\ call[c].pc \in {"config", "new"}
    /\ call' = [call EXCEPT ![c] = AtRest]
    /\ UNCHANGED <<stage, file, watched, event, watcher, cloudVpc, vpcClient, read,
                   excused, failures>>

\* The call is done with its object.
EndCall(c) ==
    /\ call[c].pc = "use"
    /\ call' = [call EXCEPT ![c] = AtRest]
    /\ UNCHANGED <<stage, file, watched, event, watcher, cloudVpc, vpcClient, read,
                   excused, failures>>

-----------------------------------------------------------------------------
(* GetNodeMetadata, for a node without labels *)

\* if ms.vpcClient == nil
TestVpcClient(r) ==
    /\ stage = "running" /\ read[r].pc = "idle"
    /\ read' = [read EXCEPT ![r].pc = IF vpcClient = None THEN "credential" ELSE "use"]
    /\ UNCHANGED <<stage, file, watched, event, watcher, cloudVpc, vpcClient, call, excused, failures>>

\* readCredential takes any text; it may fail.
readCredential(r) ==
    /\ read[r].pc = "credential"
    /\ read' = [read EXCEPT ![r] = [pc |-> "new", key |-> file]]
    /\ UNCHANGED <<stage, file, watched, event, watcher, cloudVpc, vpcClient, call, excused, failures>>

\* ms.vpcClient, err = newVpcClient(...): the SDK wants some text, and it is
\* sent to IAM only where the region has to be asked for the endpoint; any
\* error assigns nil as well.
newVpcClient(r) ==
    /\ \/ /\ read[r].pc = "new" /\ read[r].key.kind # "empty"
          /\ EndpointOverride \/ read[r].key.kind = "key"
          /\ vpcClient' = read[r].key
          /\ read' = [read EXCEPT ![r].pc = "use"]
       \/ /\ read[r].pc \in {"credential", "new"}
          /\ vpcClient' = None
          /\ read' = [read EXCEPT ![r] = AtRest]
    /\ UNCHANGED <<stage, file, watched, event, watcher, cloudVpc, call, excused, failures>>

\* ms.vpcClient.populateNodeMetadata reads the variable again.
populateNodeMetadata(r) ==
    /\ read[r].pc = "use"
    /\ read' = [read EXCEPT ![r] = IF vpcClient = None
                                   THEN [pc |-> "panic", key |-> None] ELSE AtRest]
    /\ UNCHANGED <<stage, file, watched, event, watcher, cloudVpc, vpcClient, call, excused, failures>>

Watch ==
    TakeEvent \/ ReadFile \/ ReadFileFails \/ ResetCloudVpc \/ ResetVpcClient

Next ==
    \/ SetInformers \/ WriteFile \/ ReplaceFile \/ Watch
    \/ \E c \in Caller :
          \/ NewCloud(c) \/ GetCloudVpc(c) \/ NewConfigVpc(c) \/ NewCloudVpc(c)
          \/ InitFails(c) \/ EndCall(c)
    \/ \E r \in Reader :
          \/ TestVpcClient(r) \/ readCredential(r) \/ newVpcClient(r)
          \/ populateNodeMetadata(r)

Spec == Init /\ [][Next]_vars

\* The watching goroutine runs for ever; nobody has to call or write.
FairSpec == Spec /\ WF_vars(Watch)

-----------------------------------------------------------------------------
(* Properties *)

\* No call about a load balancer goes on with a VPC object that was made from
\* something else than a key, be it its own or one that an earlier call or
\* NewCloud left in persistentCloudVpc, although the file is read while it is
\* being written and half a key passes every check of the text.  (vpcClient
\* is another matter, see ClientFromKey.)
OnlyKeysUsed ==
    /\ cloudVpc # None => cloudVpc.kind = "key"
    /\ \A c \in Caller : call[c].pc = "use" => call[c].key.kind = "key"

Quiet == ~event /\ watcher = "wait" /\ watched /\ file.kind # "spaced"

\* Once the watcher has nothing to do, either object is gone or made with the
\* credential in the file, unless its last reset met an initialisation with
\* an older one under way, or the file changed before the watch began and not
\* since.  A read that failed is made good by the next event.
CurrentUnlessRaced ==
    Quiet /\ "unread" \notin excused
          => /\ excused \cap {"cloudVpc", "startup"} # {} \/ cloudVpc \in {None, file}
             /\ "vpcClient" \in excused \/ vpcClient \in {None, file}

\* A credential that stays is in the end the one of both objects, but for the
\* same exceptions: no later change is needed to bring it about.
CredentialTakesEffect ==
    <>[](\/ ~watched \/ file.kind = "spaced" \/ "unread" \in excused
         \/ /\ cloudVpc \in {None, file} \/ excused \cap {"cloudVpc", "startup"} # {}
            /\ vpcClient \in {None, file} \/ "vpcClient" \in excused)

\* The comment on WatchCloudCredential: a changed credential resets the VPC
\* settings.  (Here for a change after the watch began.)
QuietMeansCurrent ==
    Quiet /\ failures = 0 /\ "startup" \notin excused => cloudVpc \in {None, file}

\* The same, for a change that no call under way hides from the reset.
NoMissedChange ==
    Quiet /\ failures = 0 /\ "cloudVpc" \notin excused => cloudVpc \in {None, file}

\* The same, for a credential file that is replaced.
ReplacedTakesEffect ==
    <>[](cloudVpc \in {None, file} \/ excused # {} \/ file.kind # "key"
           \/ stage # "running")

\* The client of the metadata service is made from a key, like the object
\* whose text NewConfigVpc checks.
ClientFromKey == vpcClient # None => vpcClient.kind = "key"

\* GetNodeMetadata uses the client it has made sure of.
NoNilClient == \A r \in Reader : read[r].pc # "panic"

=============================================================================

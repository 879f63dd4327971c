---------------------------- MODULE ManagementAPI ----------------------------
(***************************************************************************)
(* The GDC management API server as the provider driver sees it.  It is    *)
(* external to the repository: it is modelled from the requests that       *)
(* pkg/provider/core.go sends and from the replies it distinguishes.       *)
(*                                                                         *)
(* For a machine m the driver only ever touches one VirtualMachine object, *)
(* named m, and four dependants whose names are derived from m: two        *)
(* Secrets and two VirtualMachineDisks.  The namespace (spec.Project) is   *)
(* fixed.  What a dependant holds (a start-up script, the image a disk is  *)
(* made from) is an uninterpreted payload; its owner is the UID in its one *)
(* owner reference.                                                        *)
(***************************************************************************)
EXTENDS Integers, FiniteSets

CONSTANTS
  Machines,       \* names of Machine objects
  Payloads,       \* what a Secret or a disk can hold
  NoPayload,      \* stands for an object that does not exist
  Blank,          \* payload of a disk whose spec has no source
  Labels,         \* labels a VirtualMachine may carry
  Reported,       \* states, other than Running, that the server reports
  MaxDisruptions  \* bound: VM losses and failures the environment may cause

ASSUME PayloadAssumption == Blank \in Payloads /\ NoPayload \notin Payloads
ASSUME DisruptionAssumption == MaxDisruptions \in Nat

VARIABLES
  vm,           \* the VirtualMachine object of each machine
  res,          \* the dependants of each machine, by role
  born,         \* UID of the newest VirtualMachine ever stored for the machine
  disruptions   \* disruptions so far

apiVars == <<vm, res, born, disruptions>>

Secrets == {"init-script", "cainit-script"}
Disks == {"boot-disk", "disk"}
Role == Secrets \cup Disks

NoUID == 0

\* "PendingIP": an error state whose message says "pending IP from Subnet".
\* "Error": ErrorConfiguration, DiskError or CrashLoopBackoff with another
\* message.  "Pending": every other state that is not Running.
Status == {"Pending", "PendingIP", "Running", "Unschedulable", "Error"}

ASSUME StatusAssumption == Reported \subseteq Status

VM == [uid : Nat, terminating : BOOLEAN, state : Status,
       autoDelete : SUBSET Disks, labels : SUBSET Labels]
Resource == [body : Payloads \cup {NoPayload}, owner : Nat]

NoVM == [uid |-> NoUID, terminating |-> FALSE, state |-> "Pending",
         autoDelete |-> {}, labels |-> {}]
NoResource == [body |-> NoPayload, owner |-> NoUID]

HasVM(m) == vm[m].uid # NoUID
Exists(m, r) == res[m][r].body # NoPayload

APITypeOK ==
  /\ vm \in [Machines -> VM]
  /\ res \in [Machines -> [Role -> Resource]]
  /\ born \in [Machines -> Nat]
  /\ disruptions \in 0 .. MaxDisruptions

APIInit ==
  /\ vm = [m \in Machines |-> NoVM]
  /\ res = [m \in Machines |-> [r \in Role |-> NoResource]]
  /\ born = [m \in Machines |-> NoUID]
  /\ disruptions = 0

-----------------------------------------------------------------------------
(* Requests.  Each operator is the effect of a request on the store; the   *)
(* step of the driver that sends it decides which replies are possible.    *)

\* Create of a dependant: an existing object is left as it is (the server
\* answers AlreadyExists).
CreateResource(m, r, body, owner) ==
  res' = IF Exists(m, r) THEN res
         ELSE [res EXCEPT ![m][r] = [body |-> body, owner |-> owner]]

\* Update of a dependant that sets its owner reference.  The driver has one
\* reference per group, kind and name, so a newer UID replaces an older one.
UpdateOwner(m, r, owner) == res' = [res EXCEPT ![m][r].owner = owner]

\* Delete of a dependant; one that does not exist stays absent.
DeleteResource(m, r) == res' = [res EXCEPT ![m][r] = NoResource]

\* Create of the VirtualMachine, under a UID never used before.
CreateVM(m, autoDelete, labels) ==
  IF HasVM(m)
  THEN UNCHANGED <<vm, born>>
  ELSE /\ born' = [born EXCEPT ![m] = @ + 1]
       /\ vm' = [vm EXCEPT ![m] = [uid |-> born[m] + 1, terminating |-> FALSE,
                                   state |-> "Pending",
                                   autoDelete |-> autoDelete,
                                   labels |-> labels]]

\* Delete of the VirtualMachine by name: it terminates, finalizers run, and
\* the object goes away later (VMGone).
DeleteVM(m) ==
  vm' = IF HasVM(m) THEN [vm EXCEPT ![m].terminating = TRUE] ELSE vm

-----------------------------------------------------------------------------
(* What the server and its controllers do on their own.                    *)

\* A VM that does not run yet moves between the states that are reported
\* while it is brought up, the error states among them.
StatusChanges(m) ==
  /\ HasVM(m)
  /\ vm[m].state # "Running"
  /\ \E s \in Reported \ {"Running", vm[m].state} :
       vm' = [vm EXCEPT ![m].state = s]
  /\ UNCHANGED <<res, born, disruptions>>

\* The VM comes up.
VMRuns(m) ==
  /\ HasVM(m)
  /\ vm[m].state # "Running"
  /\ vm' = [vm EXCEPT ![m].state = "Running"]
  /\ UNCHANGED <<res, born, disruptions>>

\* A running VM breaks.
VMFails(m) ==
  /\ disruptions < MaxDisruptions
  /\ vm[m].state = "Running"
  /\ vm' = [vm EXCEPT ![m].state = "Error"]
  /\ disruptions' = disruptions + 1
  /\ UNCHANGED <<res, born>>

\* Somebody other than the driver deletes the VM.
VMDeletedByOthers(m) ==
  /\ disruptions < MaxDisruptions
  /\ HasVM(m) /\ ~vm[m].terminating
  /\ DeleteVM(m)
  /\ disruptions' = disruptions + 1
  /\ UNCHANGED <<res, born>>

\* A terminating VM goes away and takes its AutoDelete disks with it.
VMGone(m) ==
  /\ vm[m].terminating
  /\ vm' = [vm EXCEPT ![m] = NoVM]
  /\ res' = [res EXCEPT ![m] = [r \in Role |->
               IF r \in vm[m].autoDelete THEN NoResource ELSE res[m][r]]]
  /\ UNCHANGED <<born, disruptions>>

\* The garbage collector removes a dependant whose owner no longer exists.
Collect(m, r) ==
  /\ Exists(m, r)
  /\ res[m][r].owner \notin {NoUID, vm[m].uid}
  /\ DeleteResource(m, r)
  /\ UNCHANGED <<vm, born, disruptions>>

APINext(m) ==
  \/ StatusChanges(m) \/ VMRuns(m) \/ VMFails(m)
  \/ VMDeletedByOthers(m) \/ VMGone(m)
  \/ \E r \in Role : Collect(m, r)
=============================================================================

------------------------------- MODULE Presubmit -------------------------------
(***************************************************************************)
(* The integration test (integration/presubmit/machine-controller-manager) *)
(* on the user cluster that all of its runs share: every step registers    *)
(* its cleanup and then creates its object; the test waits for the         *)
(* machine; the cleanups run last in, first out.                           *)
(*                                                                         *)
(* All runs here are of one commit: they have one namespace, and the same  *)
(* names in it.  The machine controller manager that a run deploys, the    *)
(* garbage collector and the end of the process are external.              *)
(*                                                                         *)
(* Time is counted for each run, and passes in its waits only.             *)
(***************************************************************************)
EXTENDS Integers, SequencesExt

CONSTANTS
  Run,           \* the runs of the commit
  Provisioning, Verification, Cleanup, Global,  \* the timeouts of types.go
  GoTest,        \* the -timeout of go test
  MayCancel,     \* whether a run can be cancelled at any time
  MaxFaults      \* bound: API requests that fail

NoRun == "none"

ASSUME PresubmitAssumption ==
  /\ NoRun \notin Run
  /\ {Provisioning, Verification, Cleanup, Global, GoTest} \subseteq Nat \ {0}
  /\ MayCancel \in BOOLEAN /\ MaxFaults \in Nat

VARIABLES
  objects,      \* what is in the cluster; the VM is in the management API
  terminating,  \* of these, those with a deletion timestamp
  finalizers,   \* of these, those that have a finalizer
  creator,      \* the run that created the object last
  run,          \* the runs
  config,       \* the runs that have their gdcloud configuration
  late,         \* a Machine was made after a run had seen none left
  faults        \* requests failed so far

vars == <<objects, terminating, finalizers, creator, run, config, late, faults>>
cluster == <<objects, terminating, finalizers, creator>>

\* TestMCM, setupRBAC and triggerProvisioning, in order.
RBAC == {"sa", "shootCR", "shootCRB", "seedRole", "seedRB"}
Steps == <<"gdcloud", "crds", "namespace", "sa", "shootCR", "shootCRB", "seedRole",
           "seedRB", "secret", "mcm", "class", "md">>

\* verifyProvisioning and verifyGDCResources, in order.
Verified == <<"class", "md", "set", "machine", "vm">>

Created == ToSet(Steps) \ {"gdcloud", "crds"}
Object == Created \cup {"set", "machine", "vm"}
Namespaced == Object \ {"namespace", "shootCR", "shootCRB", "vm"}

\* The MachineDeployment makes a MachineSet, that a Machine, that a VM.
Parent == [set |-> "md", machine |-> "set", vm |-> "machine"]
Child == [md |-> "set", set |-> "machine", machine |-> "vm"]

PC == {"idle", "setup", "ready", "verify", "cleanup", "listed", "machines", "vms",
       "done", "killed"}

\* at: the place in Steps or Verified.  until, deadline: the ages at which the
\* wait, and its context, are over.  tracked: the VM was listed.  sawNone: "All
\* Machines deleted successfully".  gaveUp: "VM might be orphaned".  failed: t.Fatalf or t.Errorf.  kept: what a cleanup
\* could not delete.
RunState == [pc : PC, at : 1 .. Len(Steps), cleanups : Seq(ToSet(Steps)), age : Nat,
             until : Nat, deadline : Nat, tracked : BOOLEAN, sawNone : BOOLEAN,
             gaveUp : BOOLEAN, failed : BOOLEAN, kept : SUBSET Created]

\* A run never gets older than the timeout of go test, and no wait of the test
\* outlasts the context it is given.
TypeOK ==
  /\ objects \subseteq Object
  /\ terminating \subseteq objects /\ finalizers \subseteq objects
  /\ creator \in [Created -> Run \cup {NoRun}]
  /\ run \in [Run -> RunState]
  /\ \A r \in Run : /\ run[r].age <= GoTest
                    /\ run[r].pc \in {"ready", "verify"} => run[r].until <= run[r].deadline
  /\ config \subseteq Run
  /\ late \in BOOLEAN
  /\ faults \in 0 .. MaxFaults

Init ==
  /\ objects = {} /\ terminating = {} /\ finalizers = {}
  /\ creator = [x \in Created |-> NoRun]
  /\ run = [r \in Run |->
       [pc |-> "idle", at |-> 1, cleanups |-> <<>>, age |-> 0, until |-> 0,
        deadline |-> Global, tracked |-> FALSE, sawNone |-> FALSE, gaveUp |-> FALSE,
        failed |-> FALSE, kept |-> {}]]
  /\ config = {} /\ late = FALSE /\ faults = 0

Lesser(a, b) == IF a < b THEN a ELSE b

Over(r) == run[r].pc \in {"idle", "done", "killed"}

-----------------------------------------------------------------------------
(* Requests.                                                               *)

Fault == faults < MaxFaults /\ faults' = faults + 1

\* Whether the cluster takes a Create of r.
Creatable(r, x) ==
  /\ run[r].age < Global /\ x \notin objects
  /\ x \in Namespaced => "namespace" \in objects \ terminating

Store(r, x) ==
  /\ Creatable(r, x)
  /\ objects' = objects \cup {x}
  /\ finalizers' = finalizers \cup ({x} \cap {"namespace"})
  /\ creator' = [creator EXCEPT ![x] = r]
  /\ UNCHANGED terminating

\* X is deleted: at once, or when its finalizers are gone.
Delete(X) ==
  /\ objects' = objects \ (X \ finalizers)
  /\ terminating' = terminating \cup (X \cap finalizers)
  /\ UNCHANGED <<finalizers, creator>>

-----------------------------------------------------------------------------
(* The test.                                                               *)

Start(r) ==
  /\ run[r].pc = "idle"
  /\ run' = [run EXCEPT ![r].pc = "setup"]
  /\ UNCHANGED <<cluster, config, late, faults>>

\* Mutant: the cleanups run first in, first out.
FirstInFirstOut(cleanups, x) == Append(cleanups, x)

\* t.Cleanup.
Register(cleanups, x) == <<x>> \o cleanups

\* Mutant: a cleanup is registered when its object is there.
RegisteredAfter(r, x, ok) ==
  IF ok /\ x # "crds" THEN Register(run[r].cleanups, x) ELSE run[r].cleanups

\* The cleanups after step x: that of gdcloud is registered when it is
\* configured, the CRDs have none, the others are registered first.
Registered(r, x, ok) ==
  IF x = "crds" \/ (x = "gdcloud" /\ ~ok) THEN run[r].cleanups
                                        ELSE Register(run[r].cleanups, x)

\* Mutant: a wait is bounded by its timeout alone.
TimeoutAlone(age, deadline) == age + Provisioning

\* A wait of the test is bounded by its timeout and by its context.
WaitEnd(age, deadline) == Lesser(age + Provisioning, deadline)

\* The step x of r is over; what comes next.
StepOver(r, x, ok) ==
  LET last == run[r].at = Len(Steps)
      deadline == IF last THEN Lesser(run[r].deadline, run[r].age + Verification)
                          ELSE run[r].deadline
  IN run' = [run EXCEPT
       ![r].cleanups = Registered(r, x, ok),
       ![r].pc = IF ~ok THEN "cleanup" ELSE IF x = "mcm" THEN "ready"
                 ELSE IF last THEN "verify" ELSE "setup",
       ![r].at = IF last THEN 1 ELSE IF x = "mcm" \/ ~ok THEN @ ELSE @ + 1,
       ![r].failed = ~ok,
       ![r].deadline = deadline,
       ![r].until = WaitEnd(run[r].age, deadline)]

\* bootstrapTestEnv and installCRDs; what they leave is not of this module.
bootstrap(r) ==
  LET x == Steps[run[r].at] IN
  /\ run[r].pc = "setup" /\ x \in {"gdcloud", "crds"}
  /\ \/ StepOver(r, x, TRUE) /\ UNCHANGED faults
        /\ config' = config \cup ({r} \cap (IF x = "gdcloud" THEN Run ELSE {}))
     \/ StepOver(r, x, FALSE) /\ Fault /\ UNCHANGED config
  /\ UNCHANGED <<cluster, late>>

\* A step registers its cleanup and creates its object.  The answer of a
\* Create that was carried out can be lost.  What fails in a step before its
\* cleanup is registered (the deletion of the policy binding in "sa") is the third
\* case too: the cleanup of an object that was never made finds nothing.
create(r) ==
  LET x == Steps[run[r].at] IN
  /\ run[r].pc = "setup" /\ x \in Created
  /\ \/ Store(r, x) /\ StepOver(r, x, TRUE) /\ UNCHANGED faults
     \/ Store(r, x) /\ StepOver(r, x, FALSE) /\ Fault
     \/ UNCHANGED cluster /\ StepOver(r, x, FALSE)
        /\ IF Creatable(r, x) THEN Fault ELSE UNCHANGED faults
  /\ UNCHANGED <<config, late>>

Fails(r) == run' = [run EXCEPT ![r].pc = "cleanup", ![r].failed = TRUE]

\* deployMCM: the Deployment and its pods are ready, or the time is up, or there
\* is something wrong with the pods.  The minute for each pod, after the
\* Deployment is ready, is less than the unit and takes no time here.
mcmReady(r) ==
  /\ run[r].pc = "ready"
  /\ \/ "mcm" \in objects
        /\ run' = [run EXCEPT ![r].pc = "setup", ![r].at = @ + 1]
        /\ UNCHANGED faults
     \/ run[r].age >= run[r].until /\ Fails(r) /\ UNCHANGED faults
     \/ "mcm" \in objects /\ Fails(r) /\ Fault
  /\ UNCHANGED <<cluster, config, late>>

\* What verifyProvisioning waits for, after the MachineClass: a MachineDeployment
\* and a MachineSet with one replica, a pending Machine, a running VM; the
\* user data of the VM is read as well.
IsVerified(x) ==
  IF x \in {"md", "set"} THEN {x, "machine"} \subseteq objects ELSE x \in objects

verify(r) ==
  LET i == run[r].at IN
  /\ run[r].pc = "verify"
  /\ \/ /\ IsVerified(Verified[i])
        /\ run' = [run EXCEPT
             ![r].pc = IF i = Len(Verified) THEN "cleanup" ELSE @,
             ![r].at = IF i = Len(Verified) THEN 1 ELSE i + 1,
             ![r].until = WaitEnd(run[r].age, run[r].deadline)]
        /\ UNCHANGED faults
     \/ run[r].age >= run[r].until /\ Fails(r) /\ UNCHANGED faults
     \/ i = Len(Verified) /\ "vm" \in objects /\ Fails(r) /\ Fault
  /\ UNCHANGED <<cluster, config, late>>

-----------------------------------------------------------------------------
(* The cleanups.                                                           *)

Pending(r, x) == run[r].pc = "cleanup" /\ run[r].cleanups # <<>> /\ Head(run[r].cleanups) = x

\* A deletion is done, or it failed and was logged.
CleanupOver(r, kept) ==
  run' = [run EXCEPT ![r].cleanups = Tail(@), ![r].kept = @ \cup kept]

deleteObject(r) ==
  /\ \E x \in Created \ {"secret", "namespace", "md"} :
       /\ Pending(r, x)
       /\ \/ Delete({x} \cap objects) /\ CleanupOver(r, {}) /\ UNCHANGED faults
          \/ UNCHANGED cluster /\ CleanupOver(r, {x}) /\ Fault
  /\ UNCHANGED <<config, late>>

\* The finalizers of the Secret are taken away; what comes of that is ignored.
deleteSecret(r) ==
  /\ Pending(r, "secret")
  /\ \/ /\ objects' = objects \ {"secret"} /\ terminating' = terminating \ {"secret"}
        /\ finalizers' = finalizers \ {"secret"}
        /\ CleanupOver(r, {}) /\ UNCHANGED <<creator, faults>>
     \/ Delete({"secret"} \cap objects) /\ CleanupOver(r, {}) /\ Fault
     \/ UNCHANGED cluster /\ CleanupOver(r, {"secret"}) /\ Fault
  /\ UNCHANGED <<config, late>>

\* The namespace is deleted by its name, whoever created it.
deleteNamespace(r) ==
  /\ Pending(r, "namespace")
  /\ \/ Delete({"namespace"} \cap objects) /\ CleanupOver(r, {}) /\ UNCHANGED faults
     \/ UNCHANGED cluster /\ CleanupOver(r, {"namespace"}) /\ Fault
  /\ UNCHANGED <<config, late>>

\* The VMs of the test are listed; an error is logged.
listVMs(r) ==
  /\ Pending(r, "md")
  /\ \/ run' = [run EXCEPT ![r].pc = "listed", ![r].tracked = "vm" \in objects]
        /\ UNCHANGED faults
     \/ run' = [run EXCEPT ![r].pc = "listed"] /\ Fault
  /\ UNCHANGED <<cluster, config, late>>

\* DeleteAllOf; an error is logged.  One context bounds all that follows.
deleteMDs(r) ==
  /\ run[r].pc = "listed"
  /\ \/ Delete({"md"} \cap objects) /\ UNCHANGED faults
        /\ run' = [run EXCEPT ![r].pc = "machines", ![r].until = run[r].age + Cleanup]
     \/ UNCHANGED cluster /\ Fault
        /\ run' = [run EXCEPT ![r].pc = "machines", ![r].until = run[r].age + Cleanup,
                              ![r].kept = @ \cup {"md"}]
  /\ UNCHANGED <<config, late>>

\* Mutant: Machines that are being deleted do not count.
NoMachineStays == "machine" \notin objects \ terminating

\* The list of Machines is empty.
NoMachines == "machine" \notin objects

\* Mutant: it is logged that Machines are left.
Logs(r) == run' = [run EXCEPT ![r].pc = "vms", ![r].gaveUp = TRUE]

\* "FATAL: Machines failed to delete within timeout! VM might be orphaned."
GivesUp(r) == run' = [run EXCEPT ![r].pc = "vms", ![r].gaveUp = TRUE, ![r].failed = TRUE]

machinesGone(r) ==
  /\ run[r].pc = "machines"
  /\ \/ NoMachines /\ run' = [run EXCEPT ![r].pc = "vms", ![r].sawNone = TRUE]
     \/ run[r].age >= run[r].until /\ GivesUp(r)
  /\ UNCHANGED <<cluster, config, late, faults>>

\* waitForVMDeletion.
vmsGone(r) ==
  LET over == [run[r] EXCEPT !.pc = "cleanup", !.cleanups = Tail(@)] IN
  /\ run[r].pc = "vms"
  /\ \/ (run[r].tracked => "vm" \notin objects) /\ run' = [run EXCEPT ![r] = over]
     \/ /\ run[r].tracked /\ run[r].age >= run[r].until
        /\ run' = [run EXCEPT ![r] = [over EXCEPT !.failed = TRUE]]
  /\ UNCHANGED <<cluster, config, late, faults>>

\* The configuration goes; with it the credentials of the clients.
cleanupGDCloud(r) ==
  /\ Pending(r, "gdcloud")
  /\ CleanupOver(r, {})
  /\ config' = config \ {r}
  /\ UNCHANGED <<cluster, late, faults>>

testOver(r) ==
  /\ run[r].pc = "cleanup" /\ run[r].cleanups = <<>>
  /\ run' = [run EXCEPT ![r].pc = "done"]
  /\ UNCHANGED <<cluster, config, late, faults>>

-----------------------------------------------------------------------------
(* Around the test.                                                        *)

\* go test panics at its -timeout; a workflow can be cancelled before that.
Kill(r) ==
  /\ ~Over(r)
  /\ MayCancel \/ run[r].age >= GoTest
  /\ run' = [run EXCEPT ![r].pc = "killed"]
  /\ UNCHANGED <<cluster, config, late, faults>>

Tick(r) ==
  /\ run[r].pc \in {"ready", "verify", "machines", "vms"}
  /\ run[r].age < run[r].until /\ run[r].age < GoTest
  /\ run' = [run EXCEPT ![r].age = @ + 1]
  /\ UNCHANGED <<cluster, config, late, faults>>

MCMWorks == RBAC \cup {"namespace", "mcm"} \subseteq objects

\* The provider needs the class and the credentials for a VM.
Drives(x) == MCMWorks /\ (x = "vm" => {"class", "secret"} \subseteq objects)

\* The manager makes x; a Machine holds its class and its Secret.
Make(x) ==
  LET p == Parent[x] IN
  /\ Drives(x) /\ p \in objects \ terminating /\ x \notin objects
  /\ x \in Namespaced => "namespace" \notin terminating
  /\ objects' = objects \cup {x}
  /\ finalizers' = (finalizers \cup {p} \cup ({x} \cap Namespaced)
                      \cup (IF x = "machine" THEN {"class", "secret"} ELSE {})) \cap objects'
  /\ late' = (late \/ (x = "machine" /\ \E r \in Run : creator["md"] = r /\ run[r].sawNone))
  /\ UNCHANGED <<terminating, creator, run, config, faults>>

\* What belonged to x goes when x goes: the manager sees to it, or, when x is
\* gone, the garbage collector.
Cascade(x) ==
  LET p == Parent[x] IN
  /\ x \in objects \ terminating
  /\ \/ p \in terminating /\ Drives(x)
     \/ p \notin objects /\ x # "vm"
  /\ Delete({x})
  /\ UNCHANGED <<run, config, late, faults>>

\* The manager lets go of x.
Release(x) ==
  /\ MCMWorks /\ x \in finalizers
  /\ IF x \in DOMAIN Child THEN x \in terminating /\ Child[x] \notin objects
                           ELSE "machine" \notin objects
  /\ finalizers' = finalizers \ {x}
  /\ objects' = objects \ ({x} \cap terminating)
  /\ terminating' = terminating \ {x}
  /\ UNCHANGED <<creator, run, config, late, faults>>

\* The namespace empties, in any order, and goes.
Empties ==
  /\ "namespace" \in terminating
  /\ \E x \in Namespaced \cap (objects \ terminating) : Delete({x})
  /\ UNCHANGED <<run, config, late, faults>>

NamespaceGone ==
  /\ "namespace" \in terminating /\ Namespaced \cap objects = {}
  /\ objects' = objects \ {"namespace"}
  /\ terminating' = terminating \ {"namespace"}
  /\ finalizers' = finalizers \ {"namespace"}
  /\ UNCHANGED <<creator, run, config, late, faults>>

Next ==
  \/ \E r \in Run :
       \/ Start(r) \/ bootstrap(r) \/ create(r) \/ mcmReady(r) \/ verify(r)
       \/ deleteObject(r) \/ deleteSecret(r) \/ deleteNamespace(r) \/ listVMs(r)
       \/ deleteMDs(r) \/ machinesGone(r) \/ vmsGone(r) \/ cleanupGDCloud(r)
       \/ testOver(r) \/ Kill(r) \/ Tick(r)
  \/ \E x \in DOMAIN Parent : Make(x) \/ Cascade(x)
  \/ \E x \in {"md", "set", "machine", "class", "secret"} : Release(x)
  \/ Empties \/ NamespaceGone

Spec == Init /\ [][Next]_vars

-----------------------------------------------------------------------------
(* Properties.                                                             *)

Holds(r, x) == x \in ToSet(run[r].cleanups)

\* While the process lives, whatever a run has created and nobody has deleted
\* has a cleanup ahead of it, or is one that the run could not delete: that
\* holds for an object, too, whose Create seemed to fail.
NothingForgotten ==
  \A r \in Run, x \in Created :
    /\ run[r].pc # "killed" /\ creator[x] = r /\ x \in objects \ terminating
    => Holds(r, x) \/ x \in run[r].kept

\* The clients of the cluster take their credentials from the gdcloud
\* configuration: it is there until the last request of a cleanup.
CredentialsOutliveCleanups ==
  \A r \in Run : (\E x \in Created : Holds(r, x)) => r \in config

\* The cleanups take the controller from a Machine only after they gave up on
\* it, unless the Machine came when none was left (late).
ControllerStays ==
  \A r \in Run :
    run[r].pc # "killed" /\ creator["mcm"] = r /\ "machine" \in objects /\ ~MCMWorks
    => run[r].gaveUp \/ late

\* A run that passes leaves neither a Machine nor a VM.
PassLeavesNoMachine ==
  \A r \in Run : run[r].pc = "done" /\ ~run[r].failed => {"machine", "vm"} \cap objects = {}

\* "Set a global timeout for the test to prevent hanging CI jobs"
\* (main_test.go): a run that takes too long ends with its cleanups.
SlowRunCleansUp ==
  \A r \in Run : run[r].pc = "killed" => run[r].cleanups = <<>>
=============================================================================

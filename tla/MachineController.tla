-------------------------- MODULE MachineController --------------------------
(***************************************************************************)
(* The driver under its caller, the machine controller manager (external), *)
(* and over the management API.  The caller makes CreateMachine calls for a*)
(* machine until one succeeds and is recorded, and DeleteMachine calls from*)
(* the moment the Machine object is being deleted until one succeeds.  It  *)
(* may crash at any point: the calls vanish, the store stays.              *)
(*                                                                         *)
(* GetMachineStatus is unimplemented, so the caller never learns from the  *)
(* driver that a VM exists: an unrecorded success is followed by another   *)
(* CreateMachine.  InitializeMachine is unimplemented too and changes      *)
(* nothing.                                                                *)
(***************************************************************************)
EXTENDS Provider

CONSTANTS
  Serial,      \* no CreateMachine runs beside a DeleteMachine of the machine
  MaxCrashes   \* bound: crashes of the controller

ASSUME ControllerAssumption == Serial \in BOOLEAN /\ MaxCrashes \in Nat

VARIABLES
  machine,     \* what the caller wants of each machine
  crashes      \* crashes so far

vars == <<apiVars, providerVars, machine, crashes>>

Phase == {"wanted", "ready", "deleting", "gone"}

TypeOK ==
  /\ APITypeOK
  /\ ProviderTypeOK
  /\ machine \in [Machines -> Phase]
  /\ crashes \in 0 .. MaxCrashes

Init ==
  /\ APIInit
  /\ ProviderInit
  /\ machine = [m \in Machines |-> "wanted"]
  /\ crashes = 0

CreateIdle(m) == create[m].pc = "idle"
DeleteIdle(m) == delete[m].pc = "idle"

StartCreate(m) ==
  /\ machine[m] = "wanted"
  /\ CreateIdle(m) /\ create[m].result # "OK"
  /\ \E data \in UserData :
       create' = [create EXCEPT ![m] = [CreateReturned("None") EXCEPT
                    !.pc = "client", !.userData = data]]
  /\ UNCHANGED <<apiVars, class, delete, reported, faults, machine, crashes>>

RecordCreated(m) ==
  /\ machine[m] = "wanted"
  /\ CreateIdle(m) /\ create[m].result = "OK"
  /\ machine' = [machine EXCEPT ![m] = "ready"]
  /\ create' = [create EXCEPT ![m] = CreateReturned("None")]
  /\ UNCHANGED <<apiVars, class, delete, reported, faults, crashes>>

\* The Machine object is deleted, whatever call is under way.
RequestDeletion(m) ==
  /\ machine[m] \in {"wanted", "ready"}
  /\ machine' = [machine EXCEPT ![m] = "deleting"]
  /\ UNCHANGED <<apiVars, providerVars, crashes>>

StartDelete(m) ==
  /\ machine[m] = "deleting"
  /\ DeleteIdle(m) /\ delete[m].result # "OK"
  /\ Serial => CreateIdle(m)
  /\ delete' = [delete EXCEPT ![m] = [pc |-> "client", result |-> "None"]]
  /\ UNCHANGED <<apiVars, class, create, reported, faults, machine, crashes>>

RecordDeleted(m) ==
  /\ machine[m] = "deleting"
  /\ DeleteIdle(m) /\ delete[m].result = "OK"
  /\ machine' = [machine EXCEPT ![m] = "gone"]
  /\ delete' = [delete EXCEPT ![m] = DeleteReturned("None")]
  /\ UNCHANGED <<apiVars, class, create, reported, faults, crashes>>

\* The controller process dies: every call, and every result that was not
\* recorded, is forgotten.
Crash ==
  /\ crashes < MaxCrashes
  /\ crashes' = crashes + 1
  /\ create' = [m \in Machines |-> CreateReturned("None")]
  /\ delete' = [m \in Machines |-> DeleteReturned("None")]
  /\ UNCHANGED <<apiVars, class, reported, faults, machine>>

Driver(m) ==
  /\ CreateStep(m) \/ DeleteStep(m)
  /\ UNCHANGED <<machine, crashes>>

Environment(m) ==
  /\ APINext(m)
  /\ UNCHANGED <<providerVars, machine, crashes>>

MachineNext(m) ==
  \/ Driver(m) \/ Environment(m)
  \/ StartCreate(m) \/ RecordCreated(m) \/ RequestDeletion(m)
  \/ StartDelete(m) \/ RecordDeleted(m)

Next == Crash \/ \E m \in Machines : MachineNext(m)

Spec == Init /\ [][Next]_vars

-----------------------------------------------------------------------------
(* Fairness.  The caller retries: its work queue is never given up.  A     *)
(* running call takes its next step (every request is answered or fails).  *)
(* VMs come up, terminating VMs go away and the collector collects.        *)
(* Nobody has to delete a machine, and nothing has to go wrong.            *)
(*                                                                         *)
(* The first poll of a wait is sent at once and the wait is at least a     *)
(* second long: not every wait ends before a poll is answered.  Polls and  *)
(* the time-out being steps of one call, that takes strong fairness.       *)

CallerStep(m) ==
  \/ StartCreate(m) \/ RecordCreated(m) \/ StartDelete(m) \/ RecordDeleted(m)
RunningCreate(m) == CreateStep(m) /\ UNCHANGED <<machine, crashes>>
AnsweredPoll(m) == pollVM(m) /\ Answered /\ UNCHANGED <<machine, crashes>>
RunningDelete(m) == DeleteStep(m) /\ UNCHANGED <<machine, crashes>>
ServerStep(m, step) == step /\ UNCHANGED <<providerVars, machine, crashes>>

Fairness ==
  \A m \in Machines :
    /\ WF_vars(CallerStep(m))
    /\ WF_vars(RunningCreate(m))
    /\ SF_vars(AnsweredPoll(m))
    /\ WF_vars(RunningDelete(m))
    /\ WF_vars(ServerStep(m, VMRuns(m)))
    /\ WF_vars(ServerStep(m, VMGone(m)))
    /\ \A r \in Role : WF_vars(ServerStep(m, Collect(m, r)))

FairSpec == Spec /\ Fairness

-----------------------------------------------------------------------------
(* What the caller is promised (MachineLifecycle), and how far a call and a*)
(* VM have come in its terms.                                              *)

OwnsAll(m) ==
  \A r \in Owned(class[m]) : Exists(m, r) /\ res[m][r].owner = vm[m].uid

StageOf(m) ==
  IF ~HasVM(m) THEN "none" ELSE IF OwnsAll(m) THEN "complete" ELSE "partial"

\* The result of a CreateMachine is of no use once the machine is deleted.
CallOf(m) ==
  IF ~CreateIdle(m) THEN "creating"
  ELSE IF ~DeleteIdle(m) THEN "deleting"
  ELSE IF delete[m].result = "OK" THEN "deleted"
  ELSE IF create[m].result = "OK" /\ machine[m] = "wanted" THEN "created"
  ELSE "none"

callView == [m \in Machines |-> CallOf(m)]
stageView == [m \in Machines |-> StageOf(m)]
leavingView == [m \in Machines |-> vm[m].terminating]

Lifecycle == INSTANCE MachineLifecycle
  WITH call <- callView, stage <- stageView, leaving <- leavingView

-----------------------------------------------------------------------------
(* Safety.                                                                 *)

\* Once CreateMachine has reported success about a VM, and for as long as
\* that VM exists, every object made for it exists and names it as its owner:
\* whatever removes the VM later, the collector removes the rest.  Retries,
\* lost answers, crashes and the collector at work between createSecret or
\* createDisk and the owner references must not leave one out.
OwnershipComplete ==
  \A m \in Machines :
    reported[m] # NoUID /\ vm[m].uid = reported[m] =>
      \A r \in Owned(class[m]) : Exists(m, r) /\ res[m][r].owner = reported[m]

\* When calls of a machine overlap this still holds while the machine is
\* wanted: nothing that is done for a deletion, or to collect orphans, takes
\* anything from a machine that is not being deleted.
CompleteWhileWanted ==
  \A m \in Machines :
    /\ machine[m] \in {"wanted", "ready"}
    /\ reported[m] # NoUID /\ vm[m].uid = reported[m]
    => \A r \in Owned(class[m]) : Exists(m, r) /\ res[m][r].owner = reported[m]

\* A Machine object is only let go when its VM is on its way out: the branch
\* of DeleteMachine that does not delete the VM is never taken while there is
\* one, and no VM turns up after the last DeleteMachine.
GoneMeansReleased ==
  \A m \in Machines :
    machine[m] = "gone" => ~HasVM(m) \/ vm[m].terminating

\* When no VM was ever made for a deleted machine, DeleteMachine itself has
\* removed what interrupted CreateMachine calls left behind, data disks
\* excepted (see NothingLeftBehind).
LeftoversDeleted ==
  \A m \in Machines :
    machine[m] = "gone" /\ born[m] = NoUID =>
      \A r \in Role \ {"disk"} : ~Exists(m, r)

\* While the first VM of a machine exists its disks are the ones the class
\* asks for: CreateOrUpdate, which would make a blank disk of a bare name,
\* finds every disk until a VM has been lost.  For classes whose disks have
\* different names (see VMHasItsDisks).
FirstVMHasItsDisks ==
  \A m \in Machines : vm[m].uid = 1 => DisksAsSpecified(m)

\* The driver's requests, retries and conflicts, under failures, crashes and
\* the garbage collector, amount to the two atomic promises: CreateMachine ends
\* well only with a VM that takes its dependants along, DeleteMachine only with
\* none that would stay, and no step in between undoes either.
ImplementsLifecycle == Lifecycle!Spec

-----------------------------------------------------------------------------
(* What the repository says and the code does not do: each is refuted.     *)

\* "when gvm is not found, mcm will clean up all vm resources"
\* (core.go:396-397): nothing is left of a deleted machine that never had a
\* VM.  The branch deletes the boot disk and the Secrets, not the data disk.
NothingLeftBehind ==
  \A m \in Machines :
    machine[m] = "gone" /\ born[m] = NoUID => \A r \in Role : ~Exists(m, r)

\* The init-script Secret of a created machine holds the user data that was
\* injected into the successful call ("UserData mismatch!", node.go).  The
\* Secret an earlier attempt left behind is kept with the data of that one.
SecretHoldsUserData ==
  [][\A m \in Machines :
       create[m].pc # "idle" /\ create'[m].result = "OK" =>
         res[m]["init-script"].body = create[m].userData]_vars

\* "Image specifies the image that VM should use to boot", "Disks specifies
\* the disk attachments to the VM" (provider_spec.go): a VM reported as
\* created has the disks of its class.
VMHasItsDisks ==
  \A m \in Machines :
    reported[m] # NoUID /\ vm[m].uid = reported[m] => DisksAsSpecified(m)

-----------------------------------------------------------------------------
(* Liveness.                                                               *)

\* A machine nobody deletes gets its VM: once the faults are over, repeated
\* CreateMachine calls find their own half-done work and finish it.
CreateConverges ==
  \A m \in Machines :
    machine[m] = "wanted" /\ class[m].parses ~> machine[m] # "wanted"

\* Deletion ends.
DeleteConverges ==
  \A m \in Machines :
    machine[m] = "deleting" /\ class[m].parses ~> machine[m] = "gone"

\* Deleting a machine whose VM was reported removes everything: the VM that
\* DeleteMachine deletes takes its dependants with it.
DeleteReleasesAll ==
  \A m \in Machines :
    /\ machine[m] = "deleting" /\ class[m].parses
    /\ CreateIdle(m)
    /\ HasVM(m) /\ vm[m].uid = reported[m]
    ~> ~HasVM(m) /\ \A r \in Role : ~Exists(m, r)
=============================================================================

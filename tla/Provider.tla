------------------------------- MODULE Provider -------------------------------
(***************************************************************************)
(* The driver's CreateMachine and DeleteMachine (pkg/provider/core.go), one*)
(* step per request to the management API.  A step ends in one of three    *)
(* ways: the request is answered; it fails with no effect; it has its      *)
(* effect and the answer is lost.  The last two spend one of MaxFaults     *)
(* faults and end the call with an error code.                             *)
(*                                                                         *)
(* A class is what the driver reads of a MachineClass.  A MachineClass is  *)
(* not changed while machines use it, so class is fixed at Init; the user  *)
(* data comes with each call and may differ from one call to the next.     *)
(***************************************************************************)
EXTENDS ManagementAPI, Sequences

CONSTANTS
  Classes,          \* machine classes in use
  UserData,         \* user data an attempt may carry
  CAScript,         \* the script that installs the registry's CA
  EgressNATLabel,   \* the legacy label networkingv1.EnableEgressNATLabelKey
  FaultReasons,     \* error reasons the API may answer with
  ConflictRetries,  \* attempts of retry.RetryOnConflict (5 in DefaultRetry)
  MaxFaults         \* bound: failed requests and spurious conflicts

DiskSpec == [boot : BOOLEAN, autoDelete : BOOLEAN, image : Payloads]

ClassSpec == [parses : BOOLEAN, caInit : BOOLEAN, wait : BOOLEAN,
              disks : Seq(DiskSpec), labels : SUBSET Labels,
              enableEgress : {"unset", "true", "false"}]

ASSUME ClassAssumption == Classes \subseteq ClassSpec
ASSUME LabelAssumption == EgressNATLabel \in Labels
ASSUME ScriptAssumption == UserData \subseteq Payloads /\ CAScript \in Payloads
ASSUME BoundAssumption == ConflictRetries \in Nat \ {0} /\ MaxFaults \in Nat

VARIABLES
  class,     \* the MachineClass of each machine
  create,    \* the CreateMachine call of each machine
  delete,    \* the DeleteMachine call of each machine
  reported,  \* UID of the VM the last successful CreateMachine was about
  faults     \* faults so far

providerVars == <<class, create, delete, reported, faults>>

-----------------------------------------------------------------------------
(* Names, and what a class asks for.                                       *)

\* bootDiskName, or the name every other disk of the machine gets.
DiskRole(disk) == IF disk.boot THEN "boot-disk" ELSE "disk"

DiskRoles(c) == [i \in DOMAIN c.disks |-> DiskRole(c.disks[i])]

\* The disks the VirtualMachine is attached to with AutoDelete.
AutoDeleted(c) ==
  {DiskRole(c.disks[i]) : i \in {j \in DOMAIN c.disks : c.disks[j].autoDelete}}

\* The labels of the VirtualMachine: the legacy NAT label unless the class
\* says anything about egress.
VMLabels(c) ==
  c.labels \cup (IF c.enableEgress = "unset" THEN {EgressNATLabel} ELSE {})

\* Mutant: the CA Secret is forgotten.
OwnSeqWithoutCA(c) == <<"init-script">> \o DiskRoles(c)

\* The dependants that get an owner reference, in the order they get it.
OwnSeq(c) ==
  <<"init-script">> \o (IF c.caInit THEN <<"cainit-script">> ELSE <<>>)
                    \o DiskRoles(c)

Owned(c) == {OwnSeq(c)[i] : i \in DOMAIN OwnSeq(c)}

\* Every disk attachment of the class finds a disk made from its image.
DisksAsSpecified(m) ==
  \A i \in DOMAIN class[m].disks :
    LET disk == class[m].disks[i]
    IN  res[m][DiskRole(disk)].body = disk.image

Reason == {"Invalid", "AlreadyExists", "NotFound", "Forbidden",
           "Unauthorized", "Other"}

wrapError(reason) ==
  CASE reason = "Invalid"       -> "InvalidArgument"
    [] reason = "AlreadyExists" -> "AlreadyExists"
    [] reason = "NotFound"      -> "NotFound"
    [] reason = "Forbidden"     -> "PermissionDenied"
    [] reason = "Unauthorized"  -> "Unauthenticated"
    [] OTHER                    -> "Internal"

Code == {"None", "OK", "InvalidArgument", "AlreadyExists", "NotFound",
         "PermissionDenied", "Unauthenticated", "Internal",
         "ResourceExhausted", "DeadlineExceeded"}

\* AlreadyExists and NotFound are not faults: they follow from the store.
ASSUME ReasonAssumption ==
  FaultReasons \subseteq Reason \ {"AlreadyExists", "NotFound"}

-----------------------------------------------------------------------------
(* Calls.                                                                  *)

CreatePC == {"idle", "client", "cainit", "secret", "disk", "vm", "getvm",
             "read", "write", "poll"}
DeletePC == {"idle", "client", "get", "vm", "boot", "cainit", "secret"}

\* i: position in class.disks (pc = "disk") or OwnSeq (pc = "read", "write").
\* uid: the VM returned by createMachine.  read: what CreateOrUpdate read.
\* versioned: the Secrets whose in-memory object carries a resourceVersion.
CreateCall == [pc : CreatePC, i : Nat, uid : Nat,
               userData : UserData \cup {NoPayload}, read : Resource,
               versioned : SUBSET Secrets, tries : 0 .. ConflictRetries - 1,
               result : Code]
DeleteCall == [pc : DeletePC, result : Code]

CreateReturned(code) ==
  [pc |-> "idle", i |-> 0, uid |-> NoUID, userData |-> NoPayload,
   read |-> NoResource, versioned |-> {}, tries |-> 0, result |-> code]
DeleteReturned(code) == [pc |-> "idle", result |-> code]

ProviderTypeOK ==
  /\ class \in [Machines -> Classes]
  /\ create \in [Machines -> CreateCall]
  /\ delete \in [Machines -> DeleteCall]
  /\ reported \in [Machines -> Nat]
  /\ faults \in 0 .. MaxFaults

ProviderInit ==
  /\ class \in [Machines -> Classes]
  /\ create = [m \in Machines |-> CreateReturned("None")]
  /\ delete = [m \in Machines |-> DeleteReturned("None")]
  /\ reported = [m \in Machines |-> NoUID]
  /\ faults = 0

Fault == faults < MaxFaults /\ faults' = faults + 1
Answered == UNCHANGED faults

CreateFails(m, code) ==
  /\ create' = [create EXCEPT ![m] = CreateReturned(code)]
  /\ UNCHANGED reported

CreateSucceeds(m) ==
  /\ create' = [create EXCEPT ![m] = CreateReturned("OK")]
  /\ reported' = [reported EXCEPT ![m] = create[m].uid]

CreateContinues(m, call) ==
  /\ create' = [create EXCEPT ![m] = call]
  /\ UNCHANGED reported

DeleteReturns(m, code) == delete' = [delete EXCEPT ![m] = DeleteReturned(code)]

-----------------------------------------------------------------------------
(* CreateMachine.                                                          *)

\* The class is parsed and the client is made, which may fail on the Secret or
\* the CA data of the class.
CreatePrepares(m) ==
  LET c == create[m] IN
  /\ c.pc = "client"
  /\ \/ ~class[m].parses /\ CreateFails(m, "InvalidArgument") /\ Answered
     \/ class[m].parses /\ Fault /\ CreateFails(m, wrapError("Other"))
     \/ /\ class[m].parses /\ Answered
        /\ CreateContinues(m, [c EXCEPT !.pc =
             IF class[m].caInit THEN "cainit" ELSE "secret"])
  /\ UNCHANGED <<apiVars, class, delete>>

\* Mutant: AlreadyExists is an error.
OnlyStored(answer) == answer = "OK"

\* The answers to Create that every createX helper goes on with.
IgnoreAlreadyExists(answer) == answer \in {"OK", "AlreadyExists"}

\* The request of one createX helper.
Ensure(m, r, body, next) ==
  LET answer == IF Exists(m, r) THEN "AlreadyExists" ELSE "OK" IN
  /\ \/ /\ CreateResource(m, r, body, NoUID)
        /\ Answered
        /\ IF IgnoreAlreadyExists(answer)
           THEN CreateContinues(m, next)
           ELSE CreateFails(m, wrapError(answer))
     \/ /\ CreateResource(m, r, body, NoUID) \/ UNCHANGED res
        /\ Fault
        /\ \E reason \in FaultReasons : CreateFails(m, wrapError(reason))
  /\ UNCHANGED <<vm, born, disruptions, class, delete>>

\* The in-memory object takes the version the server assigned, unless the
\* object was there already.
NowVersioned(m, r) ==
  create[m].versioned \cup (IF Exists(m, r) THEN {} ELSE {r})

createCAInitScriptSecret(m) ==
  LET c == create[m] IN
  /\ c.pc = "cainit"
  /\ Ensure(m, "cainit-script", CAScript,
            [c EXCEPT !.pc = "secret",
                      !.versioned = NowVersioned(m, "cainit-script")])

createSecret(m) ==
  LET c == create[m] IN
  /\ c.pc = "secret"
  /\ Ensure(m, "init-script", c.userData,
            [c EXCEPT !.pc = IF class[m].disks = <<>> THEN "vm" ELSE "disk",
                      !.i = 1,
                      !.versioned = NowVersioned(m, "init-script")])

\* Mutant: the last of several disks is not created.
MoreDisksButLast(m) == create[m].i + 1 < Len(class[m].disks)

\* The loop over the disks of the class goes on.
MoreDisks(m) == create[m].i < Len(class[m].disks)

createDisk(m) ==
  LET c == create[m]
      disk == class[m].disks[c.i]
  IN /\ c.pc = "disk"
     /\ Ensure(m, DiskRole(disk), disk.image,
               IF MoreDisks(m) THEN [c EXCEPT !.i = @ + 1]
                               ELSE [c EXCEPT !.pc = "vm", !.i = 1])

\* createMachine: Create of the VM, with AlreadyExists tolerated ...
createVM(m) ==
  /\ create[m].pc = "vm"
  /\ \/ /\ CreateVM(m, AutoDeleted(class[m]), VMLabels(class[m]))
        /\ Answered
        /\ CreateContinues(m, [create[m] EXCEPT !.pc = "getvm"])
     \/ /\ CreateVM(m, AutoDeleted(class[m]), VMLabels(class[m])) \/ UNCHANGED <<vm, born>>
        /\ Fault
        /\ \E reason \in FaultReasons : CreateFails(m, wrapError(reason))
  /\ UNCHANGED <<res, disruptions, class, delete>>

\* ... and Get of whatever VM has that name.
getVM(m) ==
  /\ create[m].pc = "getvm"
  /\ \/ /\ HasVM(m) /\ Answered
        /\ CreateContinues(m, [create[m] EXCEPT !.pc = "read", !.i = 1,
                                                !.uid = vm[m].uid])
     \/ ~HasVM(m) /\ Answered /\ CreateFails(m, wrapError("NotFound"))
     \/ /\ Fault
        /\ \E reason \in FaultReasons : CreateFails(m, wrapError(reason))
  /\ UNCHANGED <<apiVars, class, delete>>

-----------------------------------------------------------------------------
(* The owner references: RetryOnConflict(CreateOrUpdate(SetOwnerReference))*)
(* for each dependant in turn.                                             *)

\* The dependant is done.  A class that does not wait ends the call here.
OwnNext(m) ==
  LET c == create[m]
      cleared == [c EXCEPT !.read = NoResource, !.tries = 0]
  IN IF c.i < Len(OwnSeq(class[m]))
     THEN CreateContinues(m, [cleared EXCEPT !.pc = "read", !.i = @ + 1])
     ELSE IF class[m].wait
     THEN CreateContinues(m, [cleared EXCEPT !.pc = "poll", !.i = 0])
     ELSE CreateSucceeds(m)

\* Mutant: an object that has an owner, whichever, needs no write.
HasSomeOwner(m, r) == Exists(m, r) /\ res[m][r].owner # NoUID

\* SetOwnerReference changes nothing in an object that names the VM already.
OwnerIsRight(m, r) == Exists(m, r) /\ res[m][r].owner = create[m].uid

\* Get.  An object whose reference is right already needs no write.
ownRead(m) ==
  LET c == create[m]
      r == OwnSeq(class[m])[c.i]
  IN /\ c.pc = "read"
     /\ \/ Answered /\ OwnerIsRight(m, r) /\ OwnNext(m)
        \/ /\ Answered /\ ~OwnerIsRight(m, r)
           /\ CreateContinues(m,
                [c EXCEPT !.pc = "write", !.read = res[m][r],
                          !.versioned = IF Exists(m, r)
                                        THEN @ \cup ({r} \cap Secrets) ELSE @])
        \/ Fault /\ CreateFails(m, "Internal")
     /\ UNCHANGED <<apiVars, class, delete>>

\* Mutant: one attempt too many.
RetryOnceMore(m) == create[m].tries < ConflictRetries

\* RetryOnConflict makes ConflictRetries attempts.
RetryLeft(m) == create[m].tries + 1 < ConflictRetries

\* Mutant: a conflict is taken for an owner reference that is set already.
ConflictIsDone(m) == OwnNext(m) /\ UNCHANGED res

\* The update was refused because the object changed since it was read.
Conflict(m) ==
  /\ IF RetryLeft(m)
     THEN CreateContinues(m, [create[m] EXCEPT !.pc = "read",
                                !.read = NoResource, !.tries = @ + 1])
     ELSE CreateFails(m, "Internal")
  /\ UNCHANGED res

\* The payload of an object that CreateOrUpdate creates because it found
\* none: the Secrets are the objects built earlier in the call, a disk is a
\* fresh object that has only a name.
Recreated(m, r) ==
  CASE r = "init-script"   -> create[m].userData
    [] r = "cainit-script" -> CAScript
    [] OTHER               -> Blank

\* Nothing was found: Create, which the server refuses for an object that
\* carries a resourceVersion or exists by now.
ownCreate(m) ==
  LET c == create[m]
      r == OwnSeq(class[m])[c.i]
      accepted == r \notin c.versioned /\ ~Exists(m, r)
      Stored == CreateResource(m, r, Recreated(m, r), c.uid)
  IN /\ c.pc = "write" /\ c.read = NoResource
     /\ \/ accepted /\ Answered /\ Stored /\ OwnNext(m)
        \/ ~accepted /\ Answered /\ UNCHANGED res /\ CreateFails(m, "Internal")
        \/ /\ Fault /\ CreateFails(m, "Internal")
           /\ UNCHANGED res \/ (accepted /\ Stored)
     /\ UNCHANGED <<vm, born, disruptions, class, delete>>

\* An object was found: Update, unless it changed or went away since.  The
\* fault that ends in Conflict is a writer outside this model.
ownUpdate(m) ==
  LET c == create[m]
      r == OwnSeq(class[m])[c.i]
      unchanged == res[m][r] = c.read
  IN /\ c.pc = "write" /\ c.read # NoResource
     /\ \/ unchanged /\ Answered /\ UpdateOwner(m, r, c.uid) /\ OwnNext(m)
        \/ ~unchanged /\ Exists(m, r) /\ Answered /\ Conflict(m)
        \/ /\ ~Exists(m, r) /\ Answered
           /\ UNCHANGED res /\ CreateFails(m, "Internal")
        \/ Exists(m, r) /\ Fault /\ Conflict(m)
        \/ /\ Fault /\ CreateFails(m, "Internal")
           /\ UNCHANGED res \/ (unchanged /\ UpdateOwner(m, r, c.uid))
     /\ UNCHANGED <<vm, born, disruptions, class, delete>>

-----------------------------------------------------------------------------
(* Waiting for the VM to run: PollUntilContextTimeout, whose condition is  *)
(* evaluated at once and then at intervals.  The timeout may cut off any of*)
(* the condition's requests, the first among them.                         *)

\* What the condition makes of the VM it reads; "None" is to wait on.  It reads
\* by name: a VM that took the place of the one the call owns ends the wait as
\* well.
PollResult(m) ==
  IF ~HasVM(m) THEN "None"
  ELSE CASE vm[m].state = "Running"       -> "OK"
         [] vm[m].state = "Unschedulable" -> "ResourceExhausted"
         [] vm[m].state = "Error"         -> "Internal"
         [] OTHER                         -> "None"

pollVM(m) ==
  /\ create[m].pc = "poll"
  /\ \/ Fault /\ CreateFails(m, "Internal")
     \/ /\ Answered
        /\ \/ PollResult(m) = "OK" /\ CreateSucceeds(m)
           \/ PollResult(m) = "None" /\ CreateContinues(m, create[m])
           \/ /\ PollResult(m) \notin {"OK", "None"}
              /\ CreateFails(m, PollResult(m))
  /\ UNCHANGED <<apiVars, class, delete>>

waitTimesOut(m) ==
  /\ create[m].pc = "poll"
  /\ CreateFails(m, "DeadlineExceeded")
  /\ UNCHANGED <<apiVars, class, delete, faults>>

CreateStep(m) ==
  \/ CreatePrepares(m) \/ createCAInitScriptSecret(m) \/ createSecret(m)
  \/ createDisk(m) \/ createVM(m) \/ getVM(m)
  \/ ownRead(m) \/ ownCreate(m) \/ ownUpdate(m)
  \/ pollVM(m) \/ waitTimesOut(m)

-----------------------------------------------------------------------------
(* DeleteMachine.                                                          *)

DeletePrepares(m) ==
  /\ delete[m].pc = "client"
  /\ \/ ~class[m].parses /\ Answered /\ DeleteReturns(m, "InvalidArgument")
     \/ class[m].parses /\ Fault /\ DeleteReturns(m, wrapError("Other"))
     \/ /\ class[m].parses /\ Answered
        /\ delete' = [delete EXCEPT ![m].pc = "get"]
  /\ UNCHANGED <<apiVars, class, create, reported>>

\* Mutant: an error is taken for a VM that does not exist.
deleteGetsNoVM(m) ==
  /\ delete[m].pc = "get"
  /\ \/ Answered /\ delete' = [delete EXCEPT ![m].pc =
                                 IF HasVM(m) THEN "vm" ELSE "boot"]
     \/ Fault /\ delete' = [delete EXCEPT ![m].pc = "boot"]
  /\ UNCHANGED <<apiVars, class, create, reported>>

\* Whether the VM exists decides which of the two branches runs.
deleteGetsVM(m) ==
  /\ delete[m].pc = "get"
  /\ \/ Answered /\ delete' = [delete EXCEPT ![m].pc =
                                 IF HasVM(m) THEN "vm" ELSE "boot"]
     \/ /\ Fault
        /\ \E reason \in FaultReasons : DeleteReturns(m, wrapError(reason))
  /\ UNCHANGED <<apiVars, class, create, reported>>

\* Mutant: NotFound is an error.
OnlyDeleted(answer) == answer = "OK"

\* The answers to Delete that DeleteMachine goes on with.
IgnoreNotFound(answer) == answer \in {"OK", "NotFound"}

DeleteAnswer(exists) == IF exists THEN "OK" ELSE "NotFound"

\* Found: only the VM is deleted, and nothing waits for it to go away.
deleteVM(m) ==
  LET answer == DeleteAnswer(HasVM(m)) IN
  /\ delete[m].pc = "vm"
  /\ \/ /\ DeleteVM(m) /\ Answered
        /\ DeleteReturns(m, IF IgnoreNotFound(answer)
                            THEN "OK" ELSE wrapError(answer))
     \/ /\ DeleteVM(m) \/ UNCHANGED vm
        /\ Fault
        /\ \E reason \in FaultReasons : DeleteReturns(m, wrapError(reason))
  /\ UNCHANGED <<res, born, disruptions, class, create, reported>>

\* Mutant: the CA Secret is skipped.
NextDeleteWithoutCA == [boot |-> "secret", cainit |-> "secret", secret |-> "idle"]

\* Not found: the boot disk and the two Secrets are deleted one by one.
NextDelete == [boot |-> "cainit", cainit |-> "secret", secret |-> "idle"]
DeletedRole == [boot |-> "boot-disk", cainit |-> "cainit-script",
                secret |-> "init-script"]

deleteLeftover(m) ==
  LET pc == delete[m].pc
      answer == DeleteAnswer(Exists(m, DeletedRole[pc]))
  IN /\ pc \in {"boot", "cainit", "secret"}
     /\ \/ /\ DeleteResource(m, DeletedRole[pc]) /\ Answered
           /\ IF ~IgnoreNotFound(answer)
              THEN DeleteReturns(m, wrapError(answer))
              ELSE IF NextDelete[pc] = "idle"
              THEN DeleteReturns(m, "OK")
              ELSE delete' = [delete EXCEPT ![m].pc = NextDelete[pc]]
        \/ /\ DeleteResource(m, DeletedRole[pc]) \/ UNCHANGED res
           /\ Fault
           /\ \E reason \in FaultReasons : DeleteReturns(m, wrapError(reason))
     /\ UNCHANGED <<vm, born, disruptions, class, create, reported>>

DeleteStep(m) ==
  \/ DeletePrepares(m) \/ deleteGetsVM(m) \/ deleteVM(m) \/ deleteLeftover(m)
=============================================================================

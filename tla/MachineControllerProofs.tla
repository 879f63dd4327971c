----------------------- MODULE MachineControllerProofs -----------------------
(***************************************************************************)
(* What holds of MachineController for every value of its constants.       *)
(***************************************************************************)
EXTENDS MachineController, SequenceTheorems, TLAPS

\* The disks of a class have roles.
LEMMA DiskRolesType ==
  ASSUME NEW c \in Classes
  PROVE  /\ c.disks \in Seq(DiskSpec)
         /\ DiskRoles(c) \in Seq(Role)
         /\ \A i \in 1 .. Len(c.disks) : c.disks[i] \in DiskSpec
<1>1. c.disks \in Seq(DiskSpec)
  BY ClassAssumption DEF ClassSpec
<1>2. DOMAIN c.disks = 1 .. Len(c.disks) /\ Len(c.disks) \in Nat
  BY <1>1
<1>3. \A i \in 1 .. Len(c.disks) : c.disks[i] \in DiskSpec
  BY <1>1
<1>4. DiskRoles(c) \in [1 .. Len(c.disks) -> Role]
  BY <1>2 DEF DiskRoles, DiskRole, Role, Disks
<1> QED
  BY <1>1, <1>2, <1>3, <1>4

\* CreateMachine owns at least one dependant, each with a role.
LEMMA OwnSeqType ==
  ASSUME NEW c \in Classes
  PROVE  OwnSeq(c) \in Seq(Role) /\ Len(OwnSeq(c)) \in Nat \ {0}
<1> DEFINE ca == IF c.caInit THEN <<"cainit-script">> ELSE <<>>
<1>0. "init-script" \in Role /\ "cainit-script" \in Role
  BY DEF Role, Secrets
<1>1. <<"init-script">> \in Seq(Role) /\ ca \in Seq(Role)
  BY <1>0
<1>2. DiskRoles(c) \in Seq(Role)
  BY DiskRolesType
<1> HIDE DEF ca
<1>3. /\ <<"init-script">> \o ca \in Seq(Role)
      /\ Len(<<"init-script">> \o ca) = 1 + Len(ca)
  BY <1>1, ConcatProperties
<1>4. /\ <<"init-script">> \o ca \o DiskRoles(c) \in Seq(Role)
      /\ Len(<<"init-script">> \o ca \o DiskRoles(c)) =
           1 + Len(ca) + Len(DiskRoles(c))
  BY <1>2, <1>3, ConcatProperties
<1>5. Len(ca) \in Nat /\ Len(DiskRoles(c)) \in Nat
  BY <1>1, <1>2, LenProperties
<1> QED
  BY <1>4, <1>5 DEF OwnSeq, ca

\* What a class asks of its VM has the right type.
LEMMA VMShapeType ==
  ASSUME NEW c \in Classes
  PROVE  AutoDeleted(c) \subseteq Disks /\ VMLabels(c) \subseteq Labels
BY ClassAssumption, LabelAssumption
   DEF ClassSpec, AutoDeleted, DiskRole, Disks, VMLabels

-----------------------------------------------------------------------------
(* Where a call stands fits the class of its machine.  Without it types are*)
(* not inductive: the roles and disks a step works on are looked up at i.  *)

CallOK(m) ==
  LET c == create[m] IN
  /\ c.pc # "idle" => c.userData \in UserData
  /\ c.pc = "disk" => c.i \in 1 .. Len(class[m].disks)
  /\ c.pc \in {"read", "write"} => c.i \in 1 .. Len(OwnSeq(class[m]))

TypeInv == TypeOK /\ \A m \in Machines : CallOK(m)

\* What a call may become.
NextCall(m, call) ==
  /\ call \in CreateCall
  /\ call.pc # "idle" => call.userData \in UserData
  /\ call.pc = "disk" => call.i \in 1 .. Len(class[m].disks)
  /\ call.pc \in {"read", "write"} => call.i \in 1 .. Len(OwnSeq(class[m]))

\* A call that returned is a call.
LEMMA ReturnedType ==
  ASSUME NEW m \in Machines, NEW code \in Code
  PROVE  NextCall(m, CreateReturned(code)) /\ DeleteReturned(code) \in DeleteCall
<1>1. NoResource \in Resource
  BY DEF NoResource, Resource, NoUID
<1>2. 0 \in 0 .. ConflictRetries - 1
  BY BoundAssumption
<1> QED
  BY <1>1, <1>2
  DEF NextCall, CreateReturned, CreateCall, CreatePC, DeleteReturned,
      DeleteCall, DeletePC, NoUID, Secrets

\* Replacing one machine's call keeps every call well-formed.
LEMMA SetCall ==
  ASSUME TypeInv, NEW m \in Machines, NEW call, NextCall(m, call),
         create' = [create EXCEPT ![m] = call], UNCHANGED class
  PROVE  create' \in [Machines -> CreateCall] /\ \A n \in Machines : CallOK(n)'
<1>1. create' \in [Machines -> CreateCall]
  BY DEF TypeInv, TypeOK, ProviderTypeOK, NextCall
<1>2. ASSUME NEW n \in Machines PROVE CallOK(n)'
  <2>1. CASE n = m
    BY <2>1 DEF TypeInv, TypeOK, ProviderTypeOK, NextCall, CallOK
  <2>2. CASE n # m
    BY <2>2 DEF TypeInv, TypeOK, ProviderTypeOK, CallOK
  <2> QED BY <2>1, <2>2
<1> QED BY <1>1, <1>2

\* wrapError returns codes.
LEMMA CodesType ==
  /\ \A reason \in Reason : wrapError(reason) \in Code
  /\ \A reason \in FaultReasons : wrapError(reason) \in Code
BY ReasonAssumption DEF Reason, wrapError, Code

\* A CreateMachine that goes on stays well typed.
LEMMA ContinuesType ==
  ASSUME TypeInv, NEW m \in Machines, NEW call, NextCall(m, call),
         CreateContinues(m, call), UNCHANGED class
  PROVE  /\ create' \in [Machines -> CreateCall]
         /\ \A n \in Machines : CallOK(n)'
         /\ reported' \in [Machines -> Nat]
BY SetCall DEF CreateContinues, TypeInv, TypeOK, ProviderTypeOK

\* A CreateMachine that fails stays well typed.
LEMMA FailsType ==
  ASSUME TypeInv, NEW m \in Machines, NEW code \in Code,
         CreateFails(m, code), UNCHANGED class
  PROVE  /\ create' \in [Machines -> CreateCall]
         /\ \A n \in Machines : CallOK(n)'
         /\ reported' \in [Machines -> Nat]
BY SetCall, ReturnedType DEF CreateFails, TypeInv, TypeOK, ProviderTypeOK

\* A CreateMachine that succeeds stays well typed.
LEMMA SucceedsType ==
  ASSUME TypeInv, NEW m \in Machines, CreateSucceeds(m), UNCHANGED class
  PROVE  /\ create' \in [Machines -> CreateCall]
         /\ \A n \in Machines : CallOK(n)'
         /\ reported' \in [Machines -> Nat]
<1>1. create[m].uid \in Nat
  BY DEF TypeInv, TypeOK, ProviderTypeOK, CreateCall
<1>2. "OK" \in Code
  BY DEF Code
<1> QED
  BY <1>1, <1>2, SetCall, ReturnedType
  DEF CreateSucceeds, TypeInv, TypeOK, ProviderTypeOK

-----------------------------------------------------------------------------
(* The store.                                                              *)

\* Everything but the calls.
StoreTypeOK ==
  /\ APITypeOK
  /\ class \in [Machines -> Classes]
  /\ delete \in [Machines -> DeleteCall]
  /\ faults \in 0 .. MaxFaults
  /\ machine \in [Machines -> Phase]
  /\ crashes \in 0 .. MaxCrashes

\* Creating a dependant keeps the store's type.
LEMMA CreateResourceType ==
  ASSUME APITypeOK, NEW m \in Machines, NEW r \in Role,
         NEW body \in Payloads, NEW owner \in Nat,
         CreateResource(m, r, body, owner)
  PROVE  res' \in [Machines -> [Role -> Resource]]
<1>1. [body |-> body, owner |-> owner] \in Resource
  BY DEF Resource
<1> QED BY <1>1 DEF CreateResource, APITypeOK

\* Setting an owner reference keeps the store's type.
LEMMA UpdateOwnerType ==
  ASSUME APITypeOK, NEW m \in Machines, NEW r \in Role, NEW owner \in Nat,
         UpdateOwner(m, r, owner)
  PROVE  res' \in [Machines -> [Role -> Resource]]
<1>1. res[m] \in [Role -> Resource]
  BY DEF APITypeOK
<1>2. [res[m][r] EXCEPT !.owner = owner] \in Resource
  BY <1>1 DEF Resource
<1>3. [res[m] EXCEPT ![r] = [res[m][r] EXCEPT !.owner = owner]]
        \in [Role -> Resource]
  BY <1>1, <1>2
<1>4. res' = [res EXCEPT ![m] =
                [res[m] EXCEPT ![r] = [res[m][r] EXCEPT !.owner = owner]]]
  BY DEF UpdateOwner
<1> QED BY <1>3, <1>4 DEF APITypeOK

\* Deleting a dependant keeps the store's type.
LEMMA DeleteResourceType ==
  ASSUME APITypeOK, NEW m \in Machines, NEW r \in Role, DeleteResource(m, r)
  PROVE  res' \in [Machines -> [Role -> Resource]]
<1>1. NoResource \in Resource
  BY DEF NoResource, Resource, NoUID
<1> QED BY <1>1 DEF DeleteResource, APITypeOK

\* Creating a VM keeps the store's type.
LEMMA CreateVMType ==
  ASSUME APITypeOK, NEW m \in Machines,
         NEW autoDelete \in SUBSET Disks, NEW labels \in SUBSET Labels,
         CreateVM(m, autoDelete, labels)
  PROVE  vm' \in [Machines -> VM] /\ born' \in [Machines -> Nat]
<1>1. [uid |-> born[m] + 1, terminating |-> FALSE, state |-> "Pending",
       autoDelete |-> autoDelete, labels |-> labels] \in VM
  BY DEF APITypeOK, VM, Status
<1>2. born[m] + 1 \in Nat
  BY DEF APITypeOK
<1> QED BY <1>1, <1>2 DEF CreateVM, APITypeOK

\* Deleting a VM keeps the store's type.
LEMMA DeleteVMType ==
  ASSUME APITypeOK, NEW m \in Machines, DeleteVM(m)
  PROVE  vm' \in [Machines -> VM]
<1>1. [vm[m] EXCEPT !.terminating = TRUE] \in VM
  BY DEF APITypeOK, VM
<1> QED BY <1>1 DEF DeleteVM, APITypeOK

\* Faults stay within their bound.
LEMMA FaultType ==
  ASSUME faults \in 0 .. MaxFaults, Fault \/ Answered
  PROVE  faults' \in 0 .. MaxFaults
BY BoundAssumption DEF Fault, Answered

\* What the server does on its own keeps the store's type.
LEMMA APIStepType ==
  ASSUME APITypeOK, NEW m \in Machines, APINext(m)
  PROVE  APITypeOK'
<1>0. ASSUME NEW s \in Status
      PROVE  [vm EXCEPT ![m].state = s] \in [Machines -> VM]
  <2>1. [vm[m] EXCEPT !.state = s] \in VM
    BY DEF APITypeOK, VM
  <2> QED BY <2>1 DEF APITypeOK
<1>a. "Running" \in Status /\ "Error" \in Status
  BY DEF Status
<1>1. CASE StatusChanges(m)
  BY <1>0, <1>1, StatusAssumption DEF StatusChanges, APITypeOK
<1>2. CASE VMRuns(m)
  BY <1>0, <1>2, <1>a DEF VMRuns, APITypeOK
<1>3. CASE VMFails(m)
  BY <1>0, <1>3, <1>a, DisruptionAssumption DEF VMFails, APITypeOK
<1>4. CASE VMDeletedByOthers(m)
  BY <1>4, DeleteVMType, DisruptionAssumption DEF VMDeletedByOthers, APITypeOK
<1>5. CASE VMGone(m)
  <2>1. NoVM \in VM
    BY DEF NoVM, VM, NoUID, Status
  <2>2. NoResource \in Resource
    BY DEF NoResource, Resource, NoUID
  <2>3. vm' \in [Machines -> VM]
    BY <1>5, <2>1 DEF VMGone, APITypeOK
  <2>4. res' \in [Machines -> [Role -> Resource]]
    BY <1>5, <2>2 DEF VMGone, APITypeOK
  <2> QED BY <1>5, <2>3, <2>4 DEF VMGone, APITypeOK
<1>6. ASSUME NEW r \in Role, Collect(m, r) PROVE APITypeOK'
  BY <1>6, DeleteResourceType DEF Collect, APITypeOK
<1> QED
  BY <1>1, <1>2, <1>3, <1>4, <1>5, <1>6 DEF APINext

-----------------------------------------------------------------------------
(* Types are preserved, action by action.                                  *)

\* What every step of a CreateMachine call establishes.
CreateTyped ==
  /\ APITypeOK'
  /\ create' \in [Machines -> CreateCall]
  /\ \A n \in Machines : CallOK(n)'
  /\ reported' \in [Machines -> Nat]
  /\ faults' \in 0 .. MaxFaults
  /\ UNCHANGED <<class, delete>>

\* A call that has failed, been continued or succeeded, over a typed store.
LEMMA CreateTypedRule ==
  ASSUME TypeInv, NEW m \in Machines, APITypeOK', Fault \/ Answered,
         UNCHANGED <<class, delete>>,
         \/ \E call : NextCall(m, call) /\ CreateContinues(m, call)
         \/ \E code \in Code : CreateFails(m, code)
         \/ CreateSucceeds(m)
  PROVE  CreateTyped
<1>1. faults' \in 0 .. MaxFaults
  BY FaultType DEF TypeInv, TypeOK, ProviderTypeOK
<1>2. UNCHANGED class
  OBVIOUS
<1>3. CASE \E call : NextCall(m, call) /\ CreateContinues(m, call)
  BY <1>1, <1>2, <1>3, ContinuesType DEF CreateTyped
<1>4. CASE \E code \in Code : CreateFails(m, code)
  BY <1>1, <1>2, <1>4, FailsType DEF CreateTyped
<1>5. CASE CreateSucceeds(m)
  BY <1>1, <1>2, <1>5, SucceedsType DEF CreateTyped
<1> QED BY <1>3, <1>4, <1>5

\* A Create that ignores AlreadyExists is a typed step.
LEMMA EnsureType ==
  ASSUME TypeInv, NEW m \in Machines, NEW r \in Role, NEW body \in Payloads,
         NEW next, NextCall(m, next), Ensure(m, r, body, next)
  PROVE  CreateTyped
<1>1. APITypeOK'
  <2>1. res' \in [Machines -> [Role -> Resource]]
    <3>1. NoUID \in Nat /\ APITypeOK
      BY DEF NoUID, TypeInv, TypeOK
    <3>2. CASE CreateResource(m, r, body, NoUID)
      BY <3>1, <3>2, CreateResourceType
    <3>3. CASE UNCHANGED res
      BY <3>1, <3>3 DEF APITypeOK
    <3> QED BY <3>2, <3>3 DEF Ensure
  <2> QED BY <2>1 DEF Ensure, TypeInv, TypeOK, APITypeOK
<1>2. wrapError("AlreadyExists") \in Code
  BY CodesType DEF Reason
<1>3. (\E code \in Code : CreateFails(m, code)) \/ CreateContinues(m, next)
  BY <1>2, CodesType DEF Ensure, IgnoreAlreadyExists
<1>4. (Fault \/ Answered) /\ UNCHANGED <<class, delete>>
  BY DEF Ensure
<1> QED BY <1>1, <1>3, <1>4, CreateTypedRule

\* The call of a machine, its class and the fields of both.
LEMMA CallTypes ==
  ASSUME TypeInv, NEW m \in Machines
  PROVE  /\ class[m] \in Classes
         /\ create[m] \in CreateCall
         /\ create[m].i \in Nat /\ create[m].uid \in Nat
         /\ create[m].read \in Resource
         /\ create[m].versioned \in SUBSET Secrets
         /\ create[m].tries \in 0 .. ConflictRetries - 1
         /\ create[m].userData \in UserData \cup {NoPayload}
         /\ create[m].pc # "idle" => create[m].userData \in UserData
         /\ vm[m] \in VM /\ res[m] \in [Role -> Resource]
BY DEF TypeInv, TypeOK, ProviderTypeOK, APITypeOK, CreateCall, CallOK

\* Updates of a call's fields that keep it well-formed.
LEMMA PCType ==
  ASSUME TypeInv, NEW m \in Machines, create[m].pc # "idle",
         NEW pc \in CreatePC \ {"idle", "disk", "read", "write"}
  PROVE  NextCall(m, [create[m] EXCEPT !.pc = pc])
BY CallTypes DEF NextCall, CreateCall, CreatePC

\* The loop over the disks stays within the class.
LEMMA DiskLoopType ==
  ASSUME TypeInv, NEW m \in Machines, create[m].pc = "disk"
  PROVE  LET c == create[m]
             disk == class[m].disks[c.i]
         IN /\ DiskRole(disk) \in Role /\ disk.image \in Payloads
            /\ NextCall(m, IF MoreDisks(m) THEN [c EXCEPT !.i = @ + 1]
                                           ELSE [c EXCEPT !.pc = "vm", !.i = 1])
<1> DEFINE c == create[m]
           disk == class[m].disks[c.i]
<1>1. class[m] \in Classes /\ c \in CreateCall /\ c.userData \in UserData
  BY CallTypes
<1>2. Len(class[m].disks) \in Nat /\ c.i \in 1 .. Len(class[m].disks)
  BY <1>1, DiskRolesType DEF TypeInv, CallOK
<1>3. disk \in DiskSpec
  BY <1>1, <1>2, DiskRolesType
<1>4. DiskRole(disk) \in Role /\ disk.image \in Payloads
  BY <1>3 DEF DiskRole, DiskSpec, Role, Disks
<1>5. CASE MoreDisks(m)
  <2>1. c.i + 1 \in 1 .. Len(class[m].disks) /\ c.i + 1 \in Nat
    BY <1>2, <1>5 DEF MoreDisks
  <2>2. NextCall(m, [c EXCEPT !.i = @ + 1])
    BY <1>1, <2>1 DEF NextCall, CreateCall
  <2> QED BY <1>4, <1>5, <2>2
<1>6. CASE ~MoreDisks(m)
  <2>1. NextCall(m, [c EXCEPT !.pc = "vm", !.i = 1])
    BY <1>1 DEF NextCall, CreateCall, CreatePC
  <2> QED BY <1>4, <1>6, <2>1
<1> QED BY <1>5, <1>6

\* createCAInitScriptSecret, createSecret and createDisk are typed steps.
LEMMA EnsureStepsType ==
  ASSUME TypeInv, NEW m \in Machines,
         createCAInitScriptSecret(m) \/ createSecret(m) \/ createDisk(m)
  PROVE  CreateTyped
<1> DEFINE c == create[m]
<1>1. c \in CreateCall /\ c.versioned \in SUBSET Secrets
  BY CallTypes
<1>2. NowVersioned(m, "cainit-script") \in SUBSET Secrets
  BY <1>1 DEF NowVersioned, Secrets
<1>3. NowVersioned(m, "init-script") \in SUBSET Secrets
  BY <1>1 DEF NowVersioned, Secrets
<1>4. CASE createCAInitScriptSecret(m)
  <2>1. NextCall(m, [c EXCEPT !.pc = "secret",
                              !.versioned = NowVersioned(m, "cainit-script")])
    BY <1>1, <1>2, <1>4, CallTypes
    DEF NextCall, CreateCall, CreatePC, createCAInitScriptSecret
  <2>2. "cainit-script" \in Role /\ CAScript \in Payloads
    BY ScriptAssumption DEF Role, Secrets
  <2> QED BY <1>4, <2>1, <2>2, EnsureType DEF createCAInitScriptSecret
<1>5. CASE createSecret(m)
  <2> DEFINE next == [c EXCEPT
                        !.pc = IF class[m].disks = <<>> THEN "vm" ELSE "disk",
                        !.i = 1,
                        !.versioned = NowVersioned(m, "init-script")]
  <2>1. c.userData \in UserData
    BY <1>5, CallTypes DEF createSecret
  <2>2. class[m].disks # <<>> => 1 \in 1 .. Len(class[m].disks)
    BY CallTypes, DiskRolesType, EmptySeq
  <2>3. NextCall(m, next)
    BY <1>1, <1>3, <2>1, <2>2 DEF NextCall, CreateCall, CreatePC
  <2>4. "init-script" \in Role /\ c.userData \in Payloads
    BY <2>1, ScriptAssumption DEF Role, Secrets
  <2> QED BY <1>5, <2>3, <2>4, EnsureType DEF createSecret
<1>6. CASE createDisk(m)
  BY <1>6, DiskLoopType, EnsureType DEF createDisk
<1> QED BY <1>4, <1>5, <1>6

\* Unmarshalling the class and getting a client is a typed step.
LEMMA CreatePreparesType ==
  ASSUME TypeInv, NEW m \in Machines, CreatePrepares(m)
  PROVE  CreateTyped
<1>1. APITypeOK' /\ (Fault \/ Answered) /\ UNCHANGED <<class, delete>>
  BY DEF CreatePrepares, apiVars, TypeInv, TypeOK, APITypeOK, VM, Resource
<1>2. "InvalidArgument" \in Code /\ wrapError("Other") \in Code
  BY CodesType DEF Code, Reason
<1>3. /\ NextCall(m, [create[m] EXCEPT !.pc = "cainit"])
      /\ NextCall(m, [create[m] EXCEPT !.pc = "secret"])
  BY PCType DEF CreatePrepares, CreatePC
<1>4. \/ \E call : NextCall(m, call) /\ CreateContinues(m, call)
      \/ \E code \in Code : CreateFails(m, code)
  BY <1>2, <1>3 DEF CreatePrepares
<1> QED BY <1>1, <1>4, CreateTypedRule

\* The two requests of createMachine are typed steps.
LEMMA VMStepsType ==
  ASSUME TypeInv, NEW m \in Machines, createVM(m) \/ getVM(m)
  PROVE  CreateTyped
<1>0. class[m] \in Classes /\ create[m] \in CreateCall /\ vm[m] \in VM
  BY CallTypes
<1>1. CASE createVM(m)
  <2>1. vm' \in [Machines -> VM] /\ born' \in [Machines -> Nat]
    BY <1>0, <1>1, VMShapeType, CreateVMType
    DEF createVM, TypeInv, TypeOK, APITypeOK
  <2>2. APITypeOK' /\ (Fault \/ Answered) /\ UNCHANGED <<class, delete>>
    BY <1>1, <2>1 DEF createVM, TypeInv, TypeOK, APITypeOK
  <2>3. NextCall(m, [create[m] EXCEPT !.pc = "getvm"])
    BY <1>1, PCType DEF createVM, CreatePC
  <2>4. \/ \E call : NextCall(m, call) /\ CreateContinues(m, call)
        \/ \E code \in Code : CreateFails(m, code)
    BY <1>1, <2>3, CodesType DEF createVM
  <2> QED BY <2>2, <2>4, CreateTypedRule
<1>2. CASE getVM(m)
  <2>1. APITypeOK' /\ (Fault \/ Answered) /\ UNCHANGED <<class, delete>>
    BY <1>2 DEF getVM, apiVars, TypeInv, TypeOK, APITypeOK
  <2>2. 1 \in 1 .. Len(OwnSeq(class[m]))
    BY <1>0, OwnSeqType
  <2>3. NextCall(m, [create[m] EXCEPT !.pc = "read", !.i = 1,
                                      !.uid = vm[m].uid])
    BY <1>0, <1>2, <2>2, CallTypes
    DEF NextCall, CreateCall, CreatePC, VM, getVM
  <2>4. wrapError("NotFound") \in Code
    BY CodesType DEF Reason
  <2>5. \/ \E call : NextCall(m, call) /\ CreateContinues(m, call)
        \/ \E code \in Code : CreateFails(m, code)
    BY <1>2, <2>3, <2>4, CodesType DEF getVM
  <2> QED BY <2>1, <2>5, CreateTypedRule
<1> QED BY <1>1, <1>2

\* The outcomes of the step that ends the work on one dependant.
LEMMA OwnNextType ==
  ASSUME TypeInv, NEW m \in Machines, create[m].pc \in {"read", "write"},
         OwnNext(m)
  PROVE  \/ \E call : NextCall(m, call) /\ CreateContinues(m, call)
         \/ CreateSucceeds(m)
<1> DEFINE c == create[m]
           last == Len(OwnSeq(class[m]))
           cleared == [c EXCEPT !.read = NoResource, !.tries = 0]
<1>1. class[m] \in Classes /\ c \in CreateCall /\ c.userData \in UserData
  BY CallTypes
<1>2. last \in Nat /\ c.i \in 1 .. last
  BY <1>1, OwnSeqType DEF TypeInv, CallOK
<1>3. NoResource \in Resource /\ 0 \in 0 .. ConflictRetries - 1
  BY BoundAssumption DEF NoResource, Resource, NoUID
<1>4. cleared \in CreateCall /\ cleared.userData \in UserData /\ cleared.i = c.i
  BY <1>1, <1>3 DEF CreateCall
<1> HIDE DEF cleared
<1>5. ASSUME c.i < last
      PROVE  NextCall(m, [cleared EXCEPT !.pc = "read", !.i = @ + 1])
  <2>1. c.i + 1 \in 1 .. last /\ c.i + 1 \in Nat
    BY <1>2, <1>5
  <2> QED BY <1>4, <2>1 DEF NextCall, CreateCall, CreatePC
<1>6. NextCall(m, [cleared EXCEPT !.pc = "poll", !.i = 0])
  BY <1>4 DEF NextCall, CreateCall, CreatePC
<1> QED BY <1>5, <1>6 DEF OwnNext, cleared

\* RetryOnConflict goes on or gives up, well typed.
LEMMA ConflictType ==
  ASSUME TypeInv, NEW m \in Machines, create[m].pc = "write", Conflict(m)
  PROVE  \/ \E call : NextCall(m, call) /\ CreateContinues(m, call)
         \/ \E code \in Code : CreateFails(m, code)
<1>1. create[m] \in CreateCall /\ create[m].tries \in 0 .. ConflictRetries - 1
  BY CallTypes
<1>2. NoResource \in Resource /\ "Internal" \in Code
  BY DEF NoResource, Resource, NoUID, Code
<1>3. ASSUME RetryLeft(m)
      PROVE  NextCall(m, [create[m] EXCEPT !.pc = "read", !.read = NoResource,
                                           !.tries = @ + 1])
  <2>1. create[m].tries + 1 \in 0 .. ConflictRetries - 1
    BY <1>1, <1>3, BoundAssumption DEF RetryLeft
  <2>2. create[m].i \in 1 .. Len(OwnSeq(class[m]))
    BY DEF TypeInv, CallOK
  <2> QED
    BY <1>1, <1>2, <2>1, <2>2, CallTypes DEF NextCall, CreateCall, CreatePC
<1> QED BY <1>2, <1>3 DEF Conflict

\* The dependant a call works on.
LEMMA OwnRole ==
  ASSUME TypeInv, NEW m \in Machines, create[m].pc \in {"read", "write"}
  PROVE  OwnSeq(class[m])[create[m].i] \in Role
<1>1. create[m].i \in 1 .. Len(OwnSeq(class[m]))
  BY DEF TypeInv, CallOK
<1> QED BY <1>1, CallTypes, OwnSeqType, ElementOfSeq

\* The Get of CreateOrUpdate is a typed step.
LEMMA OwnReadType ==
  ASSUME TypeInv, NEW m \in Machines, ownRead(m)
  PROVE  CreateTyped
<1> DEFINE c == create[m]
           r == OwnSeq(class[m])[c.i]
           reread == [c EXCEPT !.pc = "write", !.read = res[m][r],
                               !.versioned = IF Exists(m, r)
                                             THEN @ \cup ({r} \cap Secrets)
                                             ELSE @]
<1>0. c.pc = "read"
  BY DEF ownRead
<1>1. APITypeOK' /\ (Fault \/ Answered) /\ UNCHANGED <<class, delete>>
  BY DEF ownRead, apiVars, TypeInv, TypeOK, APITypeOK
<1>2. r \in Role /\ c.i \in 1 .. Len(OwnSeq(class[m]))
  BY <1>0, OwnRole DEF TypeInv, CallOK
<1>3. NextCall(m, reread)
  <2>1. res[m][r] \in Resource
    BY <1>2, CallTypes
  <2>2. (IF Exists(m, r) THEN c.versioned \cup ({r} \cap Secrets)
                         ELSE c.versioned) \in SUBSET Secrets
    BY CallTypes
  <2>3. reread \in CreateCall
    BY <2>1, <2>2, CallTypes DEF CreateCall, CreatePC
  <2>4. reread.userData \in UserData
    BY <1>0, CallTypes DEF CreateCall
  <2>5. reread.pc = "write" /\ reread.i = c.i
    BY CallTypes DEF CreateCall
  <2> HIDE DEF reread
  <2> QED BY <1>2, <2>3, <2>4, <2>5 DEF NextCall
<1>4. OwnNext(m) \/ CreateContinues(m, reread) \/ CreateFails(m, "Internal")
  BY DEF ownRead
<1>5. "Internal" \in Code
  BY DEF Code
<1> HIDE DEF reread
<1>6. \/ \E call : NextCall(m, call) /\ CreateContinues(m, call)
      \/ \E code \in Code : CreateFails(m, code)
      \/ CreateSucceeds(m)
  BY <1>0, <1>3, <1>4, <1>5, OwnNextType
<1> QED BY <1>1, <1>6, CreateTypedRule

\* What CreateOrUpdate would create is a payload.
LEMMA RecreatedType ==
  ASSUME TypeInv, NEW m \in Machines, NEW r, create[m].pc # "idle"
  PROVE  Recreated(m, r) \in Payloads
BY CallTypes, ScriptAssumption, PayloadAssumption DEF Recreated

\* The Create or Update of CreateOrUpdate is a typed step.
LEMMA OwnWriteType ==
  ASSUME TypeInv, NEW m \in Machines, ownCreate(m) \/ ownUpdate(m)
  PROVE  CreateTyped
<1> DEFINE c == create[m]
           r == OwnSeq(class[m])[c.i]
<1>1. c.pc = "write" /\ r \in Role /\ c.uid \in Nat
  BY OwnRole, CallTypes DEF ownCreate, ownUpdate
<1>2. /\ Fault \/ Answered
      /\ UNCHANGED <<vm, born, disruptions, class, delete>>
  BY DEF ownCreate, ownUpdate
<1>3. "Internal" \in Code
  BY DEF Code
<1>4. CASE ownCreate(m)
  <2>1. \/ CreateResource(m, r, Recreated(m, r), c.uid)
        \/ UNCHANGED res
    BY <1>4 DEF ownCreate
  <2>2. APITypeOK'
    BY <1>1, <1>2, <2>1, RecreatedType, CreateResourceType
    DEF TypeInv, TypeOK, APITypeOK
  <2>3. OwnNext(m) \/ CreateFails(m, "Internal")
    BY <1>4 DEF ownCreate
  <2> QED BY <1>1, <1>2, <1>3, <2>2, <2>3, OwnNextType, CreateTypedRule
<1>5. CASE ownUpdate(m)
  <2>1. UpdateOwner(m, r, c.uid) \/ UNCHANGED res
    BY <1>5 DEF ownUpdate, Conflict
  <2>2. APITypeOK'
    BY <1>1, <1>2, <2>1, UpdateOwnerType DEF TypeInv, TypeOK, APITypeOK
  <2>3. OwnNext(m) \/ Conflict(m) \/ CreateFails(m, "Internal")
    BY <1>5 DEF ownUpdate
  <2>4. \/ \E call : NextCall(m, call) /\ CreateContinues(m, call)
        \/ \E code \in Code : CreateFails(m, code)
        \/ CreateSucceeds(m)
    BY <1>1, <1>3, <2>3, OwnNextType, ConflictType
  <2> QED BY <1>2, <2>2, <2>4, CreateTypedRule
<1> QED BY <1>4, <1>5

\* The wait for the VM is made of typed steps.
LEMMA PollType ==
  ASSUME TypeInv, NEW m \in Machines, pollVM(m) \/ waitTimesOut(m)
  PROVE  CreateTyped
<1>1. APITypeOK' /\ (Fault \/ Answered) /\ UNCHANGED <<class, delete>>
  BY DEF pollVM, waitTimesOut, Answered, apiVars, TypeInv, TypeOK, APITypeOK
<1>2. {"Internal", "DeadlineExceeded", PollResult(m)} \subseteq Code
  BY DEF Code, PollResult
<1>3. NextCall(m, create[m])
  BY CallTypes DEF NextCall, TypeInv, CallOK
<1>4. \/ \E call : NextCall(m, call) /\ CreateContinues(m, call)
      \/ \E code \in Code : CreateFails(m, code)
      \/ CreateSucceeds(m)
  BY <1>2, <1>3 DEF pollVM, waitTimesOut
<1> QED BY <1>1, <1>4, CreateTypedRule

\* Every step of CreateMachine is typed.
LEMMA CreateStepType ==
  ASSUME TypeInv, NEW m \in Machines, CreateStep(m)
  PROVE  CreateTyped
BY CreatePreparesType, EnsureStepsType, VMStepsType, OwnReadType,
   OwnWriteType, PollType DEF CreateStep

\* Every step of DeleteMachine is typed.
LEMMA DeleteStepType ==
  ASSUME TypeInv, NEW m \in Machines, DeleteStep(m)
  PROVE  /\ APITypeOK'
         /\ delete' \in [Machines -> DeleteCall]
         /\ faults' \in 0 .. MaxFaults
         /\ UNCHANGED <<class, create, reported>>
<1> USE DEF TypeInv, TypeOK, ProviderTypeOK
<1>1. faults' \in 0 .. MaxFaults /\ UNCHANGED <<class, create, reported>>
  BY FaultType
  DEF DeleteStep, DeletePrepares, deleteGetsVM, deleteVM, deleteLeftover
<1>2. ASSUME NEW code \in Code, DeleteReturns(m, code)
      PROVE  delete' \in [Machines -> DeleteCall]
  BY <1>2, ReturnedType DEF DeleteReturns
<1>3. ASSUME NEW pc \in DeletePC, delete' = [delete EXCEPT ![m].pc = pc]
      PROVE  delete' \in [Machines -> DeleteCall]
  <2>1. [delete[m] EXCEPT !.pc = pc] \in DeleteCall
    BY DEF DeleteCall
  <2> QED BY <1>3, <2>1
<1>4. /\ "OK" \in Code /\ "InvalidArgument" \in Code
      /\ wrapError("OK") \in Code /\ wrapError("NotFound") \in Code
      /\ wrapError("Other") \in Code
  BY DEF Code, wrapError
<1>5. CASE DeletePrepares(m)
  BY <1>1, <1>2, <1>3, <1>4, <1>5, CodesType
  DEF DeletePrepares, DeletePC, apiVars, APITypeOK
<1>6. CASE deleteGetsVM(m)
  BY <1>1, <1>2, <1>3, <1>6, CodesType
  DEF deleteGetsVM, DeletePC, apiVars, APITypeOK
<1>7. CASE deleteVM(m)
  <2>1. vm' \in [Machines -> VM]
    BY <1>7, DeleteVMType DEF deleteVM, APITypeOK
  <2>2. delete' \in [Machines -> DeleteCall]
    BY <1>2, <1>4, <1>7, CodesType DEF deleteVM, DeleteAnswer
  <2> QED BY <1>1, <1>7, <2>1, <2>2 DEF deleteVM, APITypeOK
<1>8. CASE deleteLeftover(m)
  <2> DEFINE pc == delete[m].pc
  <2>1. pc \in {"boot", "cainit", "secret"}
    BY <1>8 DEF deleteLeftover
  <2>2. /\ DeletedRole[pc] \in Role
        /\ NextDelete[pc] \in DeletePC
    BY <2>1 DEF DeletedRole, NextDelete, DeletePC, Role, Secrets, Disks
  <2>3. res' \in [Machines -> [Role -> Resource]]
    <3>1. DeleteResource(m, DeletedRole[pc]) \/ UNCHANGED res
      BY <1>8 DEF deleteLeftover
    <3> QED BY <2>2, <3>1, DeleteResourceType DEF APITypeOK
  <2>4. delete' \in [Machines -> DeleteCall]
    BY <1>2, <1>3, <1>4, <1>8, <2>2, CodesType DEF deleteLeftover, DeleteAnswer
  <2> QED BY <1>1, <1>8, <2>3, <2>4 DEF deleteLeftover, APITypeOK
<1> QED BY <1>1, <1>5, <1>6, <1>7, <1>8 DEF DeleteStep

\* CallOK only reads the call of its machine and the class.
LEMMA CallOKKept ==
  ASSUME TypeInv, UNCHANGED <<create, class>>
  PROVE  \A n \in Machines : CallOK(n)'
BY DEF TypeInv, CallOK

\* The caller's steps keep the type invariant.
LEMMA CallerType ==
  ASSUME TypeInv, NEW m \in Machines,
         \/ StartCreate(m) \/ RecordCreated(m) \/ RequestDeletion(m)
         \/ StartDelete(m) \/ RecordDeleted(m)
  PROVE  TypeInv'
<1> USE DEF TypeOK, ProviderTypeOK
<1>0. "None" \in Code /\ "client" \in DeletePC
  BY DEF Code, DeletePC
<1>1. CASE StartCreate(m)
  <2>1. PICK data \in UserData :
          create' = [create EXCEPT ![m] = [CreateReturned("None") EXCEPT
                       !.pc = "client", !.userData = data]]
    BY <1>1 DEF StartCreate
  <2>2. CreateReturned("None") \in CreateCall
    BY <1>0, ReturnedType DEF NextCall
  <2>3. NextCall(m, [CreateReturned("None") EXCEPT !.pc = "client",
                                                   !.userData = data])
    BY <2>2 DEF NextCall, CreateCall, CreatePC
  <2>4. UNCHANGED class
    BY <1>1 DEF StartCreate
  <2>5. create' \in [Machines -> CreateCall] /\ \A n \in Machines : CallOK(n)'
    BY <2>1, <2>3, <2>4, SetCall
  <2> QED BY <1>1, <2>5 DEF StartCreate, TypeInv, APITypeOK, apiVars
<1>2. CASE RecordCreated(m)
  <2>1. create' = [create EXCEPT ![m] = CreateReturned("None")]
        /\ UNCHANGED class
    BY <1>2 DEF RecordCreated
  <2>2. create' \in [Machines -> CreateCall] /\ \A n \in Machines : CallOK(n)'
    BY <1>0, <2>1, SetCall, ReturnedType
  <2> QED
    BY <1>2, <2>2 DEF RecordCreated, TypeInv, APITypeOK, apiVars, Phase
<1>3. CASE RequestDeletion(m)
  BY <1>3, CallOKKept
  DEF RequestDeletion, TypeInv, APITypeOK, apiVars, providerVars, Phase
<1>4. CASE StartDelete(m)
  <2>1. [pc |-> "client", result |-> "None"] \in DeleteCall
    BY <1>0 DEF DeleteCall
  <2> QED
    BY <1>4, <2>1, CallOKKept DEF StartDelete, TypeInv, APITypeOK, apiVars
<1>5. CASE RecordDeleted(m)
  <2>1. DeleteReturned("None") \in DeleteCall
    BY <1>0, ReturnedType
  <2> QED
    BY <1>5, <2>1, CallOKKept
    DEF RecordDeleted, TypeInv, APITypeOK, apiVars, Phase
<1> QED BY <1>1, <1>2, <1>3, <1>4, <1>5

\* A crash keeps the type invariant.
LEMMA CrashType ==
  ASSUME TypeInv, Crash
  PROVE  TypeInv'
<1>1. "None" \in Code
  BY DEF Code
<1>2. ASSUME NEW n \in Machines
      PROVE  /\ CreateReturned("None") \in CreateCall
             /\ DeleteReturned("None") \in DeleteCall
  BY <1>1, ReturnedType DEF NextCall
<1>3. crashes' \in 0 .. MaxCrashes
  BY ControllerAssumption DEF Crash, TypeInv, TypeOK
<1>4. ASSUME NEW n \in Machines PROVE CallOK(n)'
  BY DEF Crash, CallOK, CreateReturned
<1> QED
  BY <1>2, <1>3, <1>4
  DEF Crash, TypeInv, TypeOK, ProviderTypeOK, APITypeOK, apiVars

\* The type invariant holds at the start.
LEMMA InitType == Init => TypeInv
<1> SUFFICES ASSUME Init PROVE TypeInv
  OBVIOUS
<1>1. "None" \in Code
  BY DEF Code
<1>2. NoVM \in VM /\ NoResource \in Resource
  BY DEF NoVM, VM, NoResource, Resource, NoUID, Status
<1>3. APITypeOK
  BY <1>2, DisruptionAssumption DEF Init, APIInit, APITypeOK, NoUID
<1>4. ASSUME NEW n \in Machines
      PROVE  /\ CreateReturned("None") \in CreateCall
             /\ DeleteReturned("None") \in DeleteCall
  BY <1>1, ReturnedType DEF NextCall
<1>5. ProviderTypeOK
  BY <1>4, BoundAssumption DEF Init, ProviderInit, ProviderTypeOK, NoUID
<1>6. ASSUME NEW n \in Machines PROVE CallOK(n)
  BY DEF Init, ProviderInit, CallOK, CreateReturned
<1> QED
  BY <1>3, <1>5, <1>6, ControllerAssumption DEF Init, TypeInv, TypeOK, Phase

\* Every step keeps the type invariant.
LEMMA NextType ==
  ASSUME TypeInv, [Next]_vars
  PROVE  TypeInv'
<1>1. CASE Crash
  BY <1>1, CrashType
<1>2. ASSUME NEW m \in Machines, Driver(m) PROVE TypeInv'
  <2>1. CASE CreateStep(m)
    BY <1>2, <2>1, CreateStepType
    DEF Driver, CreateTyped, TypeInv, TypeOK, ProviderTypeOK
  <2>2. CASE DeleteStep(m)
    BY <1>2, <2>2, DeleteStepType, CallOKKept
    DEF Driver, TypeInv, TypeOK, ProviderTypeOK
  <2> QED BY <1>2, <2>1, <2>2 DEF Driver
<1>3. ASSUME NEW m \in Machines, Environment(m) PROVE TypeInv'
  BY <1>3, APIStepType, CallOKKept
  DEF Environment, providerVars, TypeInv, TypeOK, ProviderTypeOK
<1>4. CASE UNCHANGED vars
  BY <1>4, CallOKKept
  DEF vars, apiVars, providerVars, TypeInv, TypeOK, APITypeOK, ProviderTypeOK
<1> QED BY <1>1, <1>2, <1>3, <1>4, CallerType DEF Next, MachineNext

\* Every variable keeps its type, and the position a CreateMachine call has
\* reached always designates a disk or a dependant of the machine's class.
THEOREM TypeCorrect == Spec => []TypeOK
<1>1. Spec => []TypeInv
  BY InitType, NextType, PTL DEF Spec
<1> QED BY <1>1, PTL DEF TypeInv

-----------------------------------------------------------------------------
(* Safety.  A step touches the state of one machine; the invariant is a    *)
(* conjunction over machines of facts about the state of each.             *)

\* Nothing of machine n changes.
Same(n) ==
  /\ vm'[n] = vm[n] /\ res'[n] = res[n] /\ born'[n] = born[n]
  /\ create'[n] = create[n] /\ delete'[n] = delete[n]
  /\ reported'[n] = reported[n] /\ machine'[n] = machine[n]
  /\ class' = class

\* The call has the VM it is about to own things for, or has owned them.
HoldsVM(m) == create[m].pc \in {"read", "write", "poll"}

\* Incarnations: a VM that exists is the newest, no report is ahead of it, and
\* a running call never holds an older one.
Uids(m) ==
  /\ vm[m].uid \in {NoUID, born[m]}
  /\ reported[m] <= born[m]
  /\ HoldsVM(m) => create[m].uid = born[m] /\ born[m] # NoUID

\* An absent object has no owner.
WellFormed(m) == \A r \in Role : ~Exists(m, r) => res[m][r] = NoResource

\* A step of one machine leaves the others alone.
LEMMA OthersKept ==
  ASSUME TypeInv, NEW m \in Machines, MachineNext(m),
         NEW n \in Machines, n # m
  PROVE  Same(n)
<1> USE DEF TypeInv, TypeOK, APITypeOK, ProviderTypeOK, Same
<1>1. CASE Driver(m)
  <2> USE DEF CreateFails, CreateContinues, CreateSucceeds, apiVars
  <2>1. CASE CreatePrepares(m) \/ getVM(m) \/ pollVM(m) \/ waitTimesOut(m)
    BY <1>1, <2>1 DEF Driver, CreatePrepares, getVM, pollVM, waitTimesOut
  <2>2. CASE createCAInitScriptSecret(m) \/ createSecret(m) \/ createDisk(m)
    BY <1>1, <2>2
    DEF Driver, createCAInitScriptSecret, createSecret, createDisk, Ensure,
        CreateResource
  <2>3. CASE createVM(m)
    BY <1>1, <2>3 DEF Driver, createVM, CreateVM
  <2>4. CASE ownRead(m) \/ ownCreate(m) \/ ownUpdate(m)
    BY <1>1, <2>4
    DEF Driver, ownRead, ownCreate, ownUpdate, OwnNext, Conflict,
        CreateResource, UpdateOwner
  <2>5. CASE DeleteStep(m)
    BY <1>1, <2>5
    DEF Driver, DeleteStep, DeletePrepares, deleteGetsVM, deleteVM,
        deleteLeftover, DeleteReturns, DeleteVM, DeleteResource
  <2> QED BY <1>1, <2>1, <2>2, <2>3, <2>4, <2>5 DEF Driver, CreateStep
<1>2. CASE Environment(m)
  BY <1>2
  DEF Environment, APINext, StatusChanges, VMRuns, VMFails, VMDeletedByOthers,
      VMGone, Collect, DeleteVM, DeleteResource, providerVars
<1>3. CASE \/ StartCreate(m) \/ RecordCreated(m) \/ RequestDeletion(m)
           \/ StartDelete(m) \/ RecordDeleted(m)
  BY <1>3
  DEF StartCreate, RecordCreated, RequestDeletion, StartDelete, RecordDeleted,
      apiVars, providerVars
<1> QED BY <1>1, <1>2, <1>3 DEF MachineNext

\* A step that fails the call.
Failed(m) ==
  /\ create'[m].pc = "idle" /\ create'[m].result # "OK"
  /\ reported'[m] = reported[m]

\* A step that takes the call on to one of pcs, with the VM it holds.
Goes(m, pcs) ==
  /\ create'[m].pc \in pcs
  /\ create'[m].result = create[m].result
  /\ create'[m].uid = create[m].uid
  /\ reported'[m] = reported[m]

Succeeds(m) ==
  /\ create'[m].pc = "idle" /\ create'[m].result = "OK"
  /\ reported'[m] = create[m].uid

\* A CreateMachine that fails has ended with an error.
LEMMA FailsOutcome ==
  ASSUME TypeInv, NEW m \in Machines, NEW code, code # "OK",
         CreateFails(m, code)
  PROVE  Failed(m)
BY DEF CreateFails, CreateReturned, Failed, TypeInv, TypeOK, ProviderTypeOK

\* wrapError never returns OK.
LEMMA ErrorsAreNotOK == \A reason : wrapError(reason) # "OK"
BY DEF wrapError

\* A CreateMachine that succeeds reports the VM it worked on.
LEMMA SucceedsOutcome ==
  ASSUME TypeInv, NEW m \in Machines, CreateSucceeds(m)
  PROVE  Succeeds(m)
BY DEF CreateSucceeds, CreateReturned, Succeeds, TypeInv, TypeOK, ProviderTypeOK

\* A CreateMachine that goes on reports nothing.
LEMMA ContinuesOutcome ==
  ASSUME TypeInv, NEW m \in Machines, NEW call, CreateContinues(m, call)
  PROVE  create'[m] = call /\ reported'[m] = reported[m]
BY DEF CreateContinues, TypeInv, TypeOK, ProviderTypeOK

\* The steps before the VM exists.
LEMMA EnsureOutcome ==
  ASSUME TypeInv, NEW m \in Machines,
         createCAInitScriptSecret(m) \/ createSecret(m) \/ createDisk(m)
  PROVE  /\ create[m].pc \in {"cainit", "secret", "disk"}
         /\ Failed(m) \/ Goes(m, {"secret", "disk", "vm"})
         /\ UNCHANGED <<vm, born, disruptions, class, delete>>
         /\ \/ UNCHANGED res
            \/ \E r \in Role : \E body \in Payloads :
                 CreateResource(m, r, body, NoUID)
<1> DEFINE c == create[m]
<1>1. c \in CreateCall
  BY CallTypes
<1>2. ASSUME NEW r \in Role, NEW body \in Payloads, NEW next,
             next.pc \in {"secret", "disk", "vm"},
             next.result = c.result, next.uid = c.uid, Ensure(m, r, body, next)
      PROVE  /\ Failed(m) \/ Goes(m, {"secret", "disk", "vm"})
             /\ UNCHANGED <<vm, born, disruptions, class, delete>>
             /\ UNCHANGED res \/ CreateResource(m, r, body, NoUID)
  <2>1. (\E reason : CreateFails(m, wrapError(reason))) \/ CreateContinues(m, next)
    BY <1>2 DEF Ensure
  <2>2. Failed(m) \/ Goes(m, {"secret", "disk", "vm"})
    BY <1>2, <2>1, FailsOutcome, ErrorsAreNotOK, ContinuesOutcome DEF Goes
  <2> QED BY <1>2, <2>2 DEF Ensure
<1>3. CASE createCAInitScriptSecret(m)
  <2> DEFINE next == [c EXCEPT !.pc = "secret",
                        !.versioned = NowVersioned(m, "cainit-script")]
  <2>1. next.pc = "secret" /\ next.result = c.result /\ next.uid = c.uid
    BY <1>1 DEF CreateCall
  <2>2. "cainit-script" \in Role /\ CAScript \in Payloads
    BY ScriptAssumption DEF Role, Secrets
  <2>3. c.pc = "cainit" /\ Ensure(m, "cainit-script", CAScript, next)
    BY <1>3 DEF createCAInitScriptSecret
  <2> HIDE DEF next
  <2> QED BY <1>2, <2>1, <2>2, <2>3
<1>4. CASE createSecret(m)
  <2> DEFINE pc == IF class[m].disks = <<>> THEN "vm" ELSE "disk"
             next == [c EXCEPT !.pc = pc, !.i = 1,
                        !.versioned = NowVersioned(m, "init-script")]
  <2>1. next.pc = pc /\ next.result = c.result /\ next.uid = c.uid
    BY <1>1 DEF CreateCall
  <2>2. c.pc = "secret" /\ Ensure(m, "init-script", c.userData, next)
    BY <1>4 DEF createSecret
  <2>3. "init-script" \in Role /\ c.userData \in Payloads
    BY <2>2, CallTypes, ScriptAssumption DEF Role, Secrets
  <2> HIDE DEF next
  <2> QED BY <1>2, <2>1, <2>2, <2>3
<1>5. CASE createDisk(m)
  <2> DEFINE disk == class[m].disks[c.i]
             next == IF MoreDisks(m) THEN [c EXCEPT !.i = @ + 1]
                                     ELSE [c EXCEPT !.pc = "vm", !.i = 1]
  <2>1. c.pc = "disk" /\ Ensure(m, DiskRole(disk), disk.image, next)
    BY <1>5 DEF createDisk
  <2>2. /\ next.pc \in {"disk", "vm"}
        /\ next.result = c.result /\ next.uid = c.uid
    BY <1>1, <2>1 DEF CreateCall
  <2>3. DiskRole(disk) \in Role /\ disk.image \in Payloads
    BY <2>1, DiskLoopType
  <2> HIDE DEF next
  <2> QED BY <1>2, <2>1, <2>2, <2>3
<1> QED BY <1>3, <1>4, <1>5

\* Getting a client touches nothing in the store.
LEMMA PreparesOutcome ==
  ASSUME TypeInv, NEW m \in Machines, CreatePrepares(m)
  PROVE  /\ create[m].pc = "client"
         /\ Failed(m) \/ Goes(m, {"cainit", "secret"})
         /\ UNCHANGED <<apiVars, class, delete>>
<1> DEFINE pc == IF class[m].caInit THEN "cainit" ELSE "secret"
<1>1. \/ \E code : code # "OK" /\ CreateFails(m, code)
      \/ CreateContinues(m, [create[m] EXCEPT !.pc = pc])
  BY ErrorsAreNotOK DEF CreatePrepares
<1>2. Failed(m) \/ Goes(m, {"cainit", "secret"})
  BY <1>1, FailsOutcome, ContinuesOutcome, CallTypes DEF Goes, CreateCall
<1> QED BY <1>2 DEF CreatePrepares

\* The Create of the VM stores a new one, or none.
LEMMA CreateVMOutcome ==
  ASSUME TypeInv, NEW m \in Machines, createVM(m)
  PROVE  /\ create[m].pc = "vm"
         /\ Failed(m) \/ Goes(m, {"getvm"})
         /\ UNCHANGED <<res, disruptions, class, delete>>
         /\ \/ UNCHANGED <<vm, born>>
            \/ /\ ~HasVM(m)
               /\ vm'[m].uid = born[m] + 1 /\ born'[m] = born[m] + 1
<1>1. \/ \E code : code # "OK" /\ CreateFails(m, code)
      \/ CreateContinues(m, [create[m] EXCEPT !.pc = "getvm"])
  BY ErrorsAreNotOK DEF createVM
<1>2. Failed(m) \/ Goes(m, {"getvm"})
  BY <1>1, FailsOutcome, ContinuesOutcome, CallTypes DEF Goes, CreateCall
<1>3. \/ UNCHANGED <<vm, born>>
      \/ ~HasVM(m) /\ vm'[m].uid = born[m] + 1 /\ born'[m] = born[m] + 1
  BY DEF createVM, CreateVM, TypeInv, TypeOK, APITypeOK, VM
<1> QED BY <1>2, <1>3 DEF createVM

\* getVM takes over the UID of the current VM.
LEMMA GetVMOutcome ==
  ASSUME TypeInv, NEW m \in Machines, getVM(m)
  PROVE  /\ create[m].pc = "getvm"
         /\ \/ Failed(m)
            \/ /\ HasVM(m)
               /\ create'[m].pc = "read" /\ create'[m].i = 1
               /\ create'[m].uid = vm[m].uid
               /\ create'[m].result = create[m].result
               /\ reported'[m] = reported[m]
         /\ UNCHANGED <<apiVars, class, delete>>
<1> DEFINE call == [create[m] EXCEPT !.pc = "read", !.i = 1, !.uid = vm[m].uid]
<1>1. \/ \E code : code # "OK" /\ CreateFails(m, code)
      \/ HasVM(m) /\ CreateContinues(m, call)
  BY ErrorsAreNotOK DEF getVM
<1>2. call.pc = "read" /\ call.i = 1 /\ call.uid = vm[m].uid
      /\ call.result = create[m].result
  BY CallTypes DEF CreateCall
<1> HIDE DEF call
<1> QED BY <1>1, <1>2, FailsOutcome, ContinuesOutcome DEF getVM

\* The role a call in "read" or "write" is at, and the number of them.
CurrentRole(m) == OwnSeq(class[m])[create[m].i]
Last(m) == Len(OwnSeq(class[m]))

\* The current dependant is done.
Advances(m) ==
  \/ /\ create[m].i < Last(m)
     /\ Goes(m, {"read"}) /\ create'[m].i = create[m].i + 1
  \/ create[m].i >= Last(m) /\ class[m].wait /\ Goes(m, {"poll"})
  \/ create[m].i >= Last(m) /\ ~class[m].wait /\ Succeeds(m)

\* An owned dependant lets the call advance to the next.
LEMMA OwnNextOutcome ==
  ASSUME TypeInv, NEW m \in Machines, create[m].pc \in {"read", "write"},
         OwnNext(m)
  PROVE  Advances(m)
<1> DEFINE c == create[m]
           cleared == [c EXCEPT !.read = NoResource, !.tries = 0]
<1>1. c.i \in Nat /\ Last(m) \in Nat
  BY CallTypes, OwnSeqType DEF Last
<1>2. DOMAIN cleared = DOMAIN c /\ DOMAIN c =
        {"pc", "i", "uid", "userData", "read", "versioned", "tries", "result"}
  BY CallTypes DEF CreateCall
<1>3. cleared.i = c.i /\ cleared.uid = c.uid /\ cleared.result = c.result
  BY <1>2
<1> HIDE DEF cleared
<1>4. CASE c.i < Last(m)
  <2> DEFINE call == [cleared EXCEPT !.pc = "read", !.i = @ + 1]
  <2>1. /\ call.pc = "read" /\ call.i = c.i + 1
        /\ call.uid = c.uid /\ call.result = c.result
    BY <1>2, <1>3
  <2>2. CreateContinues(m, call)
    BY <1>4 DEF OwnNext, Last, cleared
  <2> HIDE DEF call
  <2> QED BY <1>4, <2>1, <2>2, ContinuesOutcome DEF Advances, Goes
<1>5. CASE ~(c.i < Last(m)) /\ class[m].wait
  <2> DEFINE call == [cleared EXCEPT !.pc = "poll", !.i = 0]
  <2>1. call.pc = "poll" /\ call.uid = c.uid /\ call.result = c.result
    BY <1>2, <1>3
  <2>2. CreateContinues(m, call)
    BY <1>5 DEF OwnNext, Last, cleared
  <2> HIDE DEF call
  <2> QED BY <1>1, <1>5, <2>1, <2>2, ContinuesOutcome DEF Advances, Goes
<1>6. CASE ~(c.i < Last(m)) /\ ~class[m].wait
  <2>1. CreateSucceeds(m)
    BY <1>6 DEF OwnNext, Last
  <2> QED BY <1>1, <1>6, <2>1, SucceedsOutcome DEF Advances
<1> QED BY <1>4, <1>5, <1>6

\* The role is owned by the VM with this UID.
OwnedBy(m, r, uid) == Exists(m, r) /\ res[m][r].owner = uid

\* The Get ends the turn only for a dependant that is owned.
LEMMA OwnReadOutcome ==
  ASSUME TypeInv, NEW m \in Machines, ownRead(m)
  PROVE  /\ create[m].pc = "read"
         /\ \/ Failed(m)
            \/ OwnedBy(m, CurrentRole(m), create[m].uid) /\ Advances(m)
            \/ Goes(m, {"write"}) /\ create'[m].i = create[m].i
         /\ UNCHANGED <<apiVars, class, delete>>
<1> DEFINE c == create[m]
           r == OwnSeq(class[m])[c.i]
           call == [c EXCEPT !.pc = "write", !.read = res[m][r],
                             !.versioned = IF Exists(m, r)
                                           THEN @ \cup ({r} \cap Secrets)
                                           ELSE @]
<1>1. /\ c.pc = "read"
      /\ \/ CreateFails(m, "Internal")
         \/ OwnerIsRight(m, r) /\ OwnNext(m)
         \/ CreateContinues(m, call)
      /\ UNCHANGED <<apiVars, class, delete>>
  BY DEF ownRead
<1>2. /\ call.pc = "write" /\ call.i = c.i
      /\ call.uid = c.uid /\ call.result = c.result
  BY CallTypes DEF CreateCall
<1> HIDE DEF call
<1> QED
  BY <1>1, <1>2, FailsOutcome, OwnNextOutcome, ContinuesOutcome
  DEF OwnerIsRight, OwnedBy, CurrentRole, Goes

\* The current dependant, and nothing else, is stored with the held VM as its
\* owner.
Touches(m) ==
  \E x \in Resource :
    /\ x.body # NoPayload /\ x.owner = create[m].uid
    /\ res' = [res EXCEPT ![m][CurrentRole(m)] = x]

\* The write ends the turn only by owning the dependant.
LEMMA OwnWriteOutcome ==
  ASSUME TypeInv, NEW m \in Machines, WellFormed(m),
         ownCreate(m) \/ ownUpdate(m)
  PROVE  /\ create[m].pc = "write"
         /\ \/ Failed(m) /\ (UNCHANGED res \/ Touches(m))
            \/ /\ Goes(m, {"read"}) /\ create'[m].i = create[m].i
               /\ UNCHANGED res
            \/ Advances(m) /\ Touches(m)
         /\ UNCHANGED <<vm, born, disruptions, class, delete>>
<1> DEFINE c == create[m]
           r == OwnSeq(class[m])[c.i]
<1>1. c.pc = "write" /\ r \in Role /\ c.uid \in Nat /\ res[m][r] \in Resource
  BY OwnRole, CallTypes DEF ownCreate, ownUpdate
<1>2. CASE ownCreate(m)
  <2> DEFINE accepted == r \notin c.versioned /\ ~Exists(m, r)
             x == [body |-> Recreated(m, r), owner |-> c.uid]
  <2>1. x \in Resource /\ x.body # NoPayload /\ x.owner = c.uid
    BY <1>1, RecreatedType, PayloadAssumption DEF Resource
  <2>2. ASSUME accepted, CreateResource(m, r, Recreated(m, r), c.uid)
        PROVE  Touches(m)
    BY <2>1, <2>2 DEF Touches, CreateResource, CurrentRole
  <2>3. \/ accepted /\ CreateResource(m, r, Recreated(m, r), c.uid) /\ OwnNext(m)
        \/ UNCHANGED res /\ CreateFails(m, "Internal")
        \/ /\ CreateFails(m, "Internal")
           /\ accepted /\ CreateResource(m, r, Recreated(m, r), c.uid)
    BY <1>2 DEF ownCreate
  <2> QED
    BY <1>1, <1>2, <2>2, <2>3, FailsOutcome, OwnNextOutcome DEF ownCreate
<1>3. CASE ownUpdate(m)
  <2> DEFINE x == [res[m][r] EXCEPT !.owner = c.uid]
  <2>1. ASSUME res[m][r] = c.read, UpdateOwner(m, r, c.uid)
        PROVE  Touches(m)
    <3>1. res[m][r].body # NoPayload
      BY <1>1, <1>3, <2>1 DEF ownUpdate, WellFormed, Exists
    <3>2. x \in Resource /\ x.body # NoPayload /\ x.owner = c.uid
      BY <1>1, <3>1 DEF Resource
    <3>3. res' = [res EXCEPT ![m][r] = x]
      BY <2>1 DEF UpdateOwner
    <3> QED BY <3>2, <3>3 DEF Touches, CurrentRole
  <2>2. \/ res[m][r] = c.read /\ UpdateOwner(m, r, c.uid) /\ OwnNext(m)
        \/ UNCHANGED res /\ Conflict(m)
        \/ UNCHANGED res /\ CreateFails(m, "Internal")
        \/ /\ CreateFails(m, "Internal")
           /\ res[m][r] = c.read /\ UpdateOwner(m, r, c.uid)
    BY <1>3 DEF ownUpdate, Conflict
  <2>3. ASSUME Conflict(m)
        PROVE  Failed(m) \/ (Goes(m, {"read"}) /\ create'[m].i = c.i)
    <3> DEFINE call == [c EXCEPT !.pc = "read", !.read = NoResource,
                                 !.tries = @ + 1]
    <3>1. /\ call.pc = "read" /\ call.i = c.i
          /\ call.uid = c.uid /\ call.result = c.result
      BY CallTypes DEF CreateCall
    <3>2. CreateContinues(m, call) \/ CreateFails(m, "Internal")
      BY <2>3 DEF Conflict
    <3> HIDE DEF call
    <3> QED BY <3>1, <3>2, FailsOutcome, ContinuesOutcome DEF Goes
  <2> QED
    BY <1>1, <1>3, <2>1, <2>2, <2>3, FailsOutcome, OwnNextOutcome DEF ownUpdate
<1> QED BY <1>2, <1>3

\* The wait changes nothing but the call.
LEMMA PollOutcome ==
  ASSUME TypeInv, NEW m \in Machines, pollVM(m) \/ waitTimesOut(m)
  PROVE  /\ create[m].pc = "poll"
         /\ \/ Failed(m)
            \/ Goes(m, {"poll"})
            \/ Succeeds(m)
         /\ UNCHANGED <<apiVars, class, delete>>
<1>1. CASE waitTimesOut(m)
  BY <1>1, FailsOutcome DEF waitTimesOut
<1>2. CASE pollVM(m)
  <2>1. \/ \E code : code # "OK" /\ CreateFails(m, code)
        \/ CreateSucceeds(m)
        \/ CreateContinues(m, create[m])
    BY <1>2 DEF pollVM
  <2>2. Failed(m) \/ Goes(m, {"poll"}) \/ Succeeds(m)
    BY <1>2, <2>1, FailsOutcome, SucceedsOutcome, ContinuesOutcome
    DEF Goes, pollVM
  <2> QED BY <1>2, <2>2 DEF pollVM
<1> QED BY <1>1, <1>2

\* What the environment may do to a machine: the VM ends or keeps its UID, a
\* terminating VM stays so, and no dependant of a VM that stays is removed.
LEMMA EnvironmentOutcome ==
  ASSUME TypeInv, NEW m \in Machines, Environment(m)
  PROVE  /\ UNCHANGED <<class, create, delete, reported, machine, born>>
         /\ vm'[m].uid \in {vm[m].uid, NoUID}
         /\ vm[m].terminating => vm'[m].uid = NoUID \/ vm'[m].terminating
         /\ \A r \in Role :
              \/ res'[m][r] = res[m][r]
              \/ /\ res'[m][r] = NoResource
                 /\ \/ vm'[m].uid = NoUID
                    \/ res[m][r].owner \notin {NoUID, vm[m].uid}
<1> USE DEF TypeInv, TypeOK, APITypeOK
<1>0. vm[m] \in VM
  BY CallTypes
<1>1. UNCHANGED <<class, create, delete, reported, machine, born>>
  BY DEF Environment, providerVars, APINext, StatusChanges, VMRuns, VMFails,
         VMDeletedByOthers, VMGone, Collect
<1>2. CASE StatusChanges(m) \/ VMRuns(m) \/ VMFails(m) \/ VMDeletedByOthers(m)
  BY <1>0, <1>1, <1>2
  DEF StatusChanges, VMRuns, VMFails, VMDeletedByOthers, DeleteVM, VM
<1>3. CASE VMGone(m)
  BY <1>0, <1>1, <1>3 DEF VMGone, NoVM
<1>4. ASSUME NEW s \in Role, Collect(m, s)
      PROVE  /\ UNCHANGED vm
             /\ \A r \in Role :
                  \/ res'[m][r] = res[m][r]
                  \/ /\ res'[m][r] = NoResource
                     /\ res[m][r].owner \notin {NoUID, vm[m].uid}
  BY <1>4 DEF Collect, DeleteResource
<1> QED BY <1>1, <1>2, <1>3, <1>4 DEF Environment, APINext

\* What a step of DeleteMachine does.
LEMMA DeleteOutcome ==
  ASSUME TypeInv, NEW m \in Machines, DeleteStep(m)
  PROVE  /\ UNCHANGED <<class, create, reported, born>>
         /\ vm'[m].uid = vm[m].uid
         /\ vm[m].terminating => vm'[m].terminating
         /\ delete[m].pc # "idle"
         /\ delete[m].pc \notin {"boot", "cainit", "secret"} => UNCHANGED res
         /\ \A r \in Role : res'[m][r] \in {res[m][r], NoResource}
         /\ \/ delete'[m].pc = "idle" /\ delete'[m].result # "OK"
            \/ /\ delete[m].pc \in {"client", "get"}
               /\ \/ delete'[m].pc = "get"
                  \/ delete'[m].pc = "vm" /\ HasVM(m)
                  \/ delete'[m].pc = "boot" /\ ~HasVM(m)
               /\ delete'[m].result = delete[m].result
            \/ /\ delete[m].pc = "vm"
               /\ delete'[m].pc = "idle" /\ delete'[m].result = "OK"
               /\ HasVM(m) => vm'[m].terminating
            \/ /\ delete[m].pc = "boot" /\ delete'[m].pc = "cainit"
               /\ delete'[m].result = delete[m].result
               /\ ~Exists(m, "boot-disk")'
            \/ /\ delete[m].pc = "cainit" /\ delete'[m].pc = "secret"
               /\ delete'[m].result = delete[m].result
               /\ ~Exists(m, "cainit-script")'
            \/ /\ delete[m].pc = "secret"
               /\ delete'[m].pc = "idle" /\ delete'[m].result = "OK"
               /\ ~Exists(m, "init-script")'
<1> USE DEF TypeInv, TypeOK, APITypeOK, ProviderTypeOK
<1>0. vm[m] \in VM /\ delete[m] \in DeleteCall
  BY DEF VM
<1>1. ASSUME NEW code, DeleteReturns(m, code)
      PROVE  delete'[m].pc = "idle" /\ delete'[m].result = code
  BY <1>1 DEF DeleteReturns, DeleteReturned
<1>2. ASSUME NEW pc, delete' = [delete EXCEPT ![m].pc = pc]
      PROVE  delete'[m].pc = pc /\ delete'[m].result = delete[m].result
  BY <1>0, <1>2 DEF DeleteCall
<1>3. CASE DeletePrepares(m)
  <2>1. \/ \E code : code # "OK" /\ DeleteReturns(m, code)
        \/ delete' = [delete EXCEPT ![m].pc = "get"]
    BY <1>3, ErrorsAreNotOK DEF DeletePrepares
  <2> QED BY <1>1, <1>2, <1>3, <2>1 DEF DeletePrepares, apiVars
<1>4. CASE deleteGetsVM(m)
  <2>1. \/ \E code : code # "OK" /\ DeleteReturns(m, code)
        \/ HasVM(m) /\ delete' = [delete EXCEPT ![m].pc = "vm"]
        \/ ~HasVM(m) /\ delete' = [delete EXCEPT ![m].pc = "boot"]
    BY <1>4, ErrorsAreNotOK DEF deleteGetsVM
  <2>2. delete[m].pc = "get" /\ UNCHANGED <<apiVars, class, create, reported>>
    BY <1>4 DEF deleteGetsVM
  <2> QED BY <1>1, <1>2, <2>1, <2>2 DEF apiVars
<1>5. CASE deleteVM(m)
  <2>1. \/ \E code : code # "OK" /\ DeleteReturns(m, code)
        \/ DeleteVM(m) /\ DeleteReturns(m, "OK")
    <3>1. IgnoreNotFound(DeleteAnswer(HasVM(m)))
      BY DEF DeleteAnswer, IgnoreNotFound
    <3> QED BY <1>5, <3>1, ErrorsAreNotOK DEF deleteVM
  <2>2. DeleteVM(m) =>
          /\ vm'[m].uid = vm[m].uid
          /\ vm[m].terminating => vm'[m].terminating
          /\ HasVM(m) => vm'[m].terminating
    BY <1>0 DEF DeleteVM, VM
  <2>3. DeleteVM(m) \/ UNCHANGED vm
    BY <1>5 DEF deleteVM
  <2> QED BY <1>1, <1>5, <2>1, <2>2, <2>3 DEF deleteVM
<1>6. CASE deleteLeftover(m)
  <2> DEFINE pc == delete[m].pc
             role == DeletedRole[pc]
             next == NextDelete[pc]
  <2>1. pc \in {"boot", "cainit", "secret"}
    BY <1>6 DEF deleteLeftover
  <2>2. role \in Role
    BY <2>1 DEF DeletedRole, Role, Secrets, Disks
  <2>3. \/ \E code : code # "OK" /\ DeleteReturns(m, code)
        \/ DeleteResource(m, role) /\ next = "idle" /\ DeleteReturns(m, "OK")
        \/ /\ DeleteResource(m, role) /\ next # "idle"
           /\ delete' = [delete EXCEPT ![m].pc = next]
    BY <1>6, ErrorsAreNotOK DEF deleteLeftover, DeleteAnswer, IgnoreNotFound
  <2>4. DeleteResource(m, role) \/ UNCHANGED res
    BY <1>6 DEF deleteLeftover
  <2>5. DeleteResource(m, role) => res'[m][role] = NoResource
    BY <2>2 DEF DeleteResource
  <2>6. \A r \in Role : res'[m][r] \in {res[m][r], NoResource}
    BY <2>2, <2>4 DEF DeleteResource
  <2>7. \A r \in Role : res'[m][r] = NoResource => ~Exists(m, r)'
    BY DEF Exists, NoResource
  <2>8. /\ pc = "boot" => role = "boot-disk" /\ next = "cainit"
        /\ pc = "cainit" => role = "cainit-script" /\ next = "secret"
        /\ pc = "secret" => role = "init-script" /\ next = "idle"
    BY DEF DeletedRole, NextDelete
  <2>9. UNCHANGED <<vm, born, class, create, reported>>
    BY <1>6 DEF deleteLeftover
  <2> HIDE DEF role, next
  <2>10. CASE \E code : code # "OK" /\ DeleteReturns(m, code)
    BY <1>1, <2>1, <2>6, <2>9, <2>10
  <2>11. CASE DeleteResource(m, role) /\ next = "idle" /\ DeleteReturns(m, "OK")
    BY <1>1, <2>1, <2>2, <2>5, <2>6, <2>7, <2>8, <2>9, <2>11
  <2>12. CASE /\ DeleteResource(m, role) /\ next # "idle"
              /\ delete' = [delete EXCEPT ![m].pc = next]
    BY <1>2, <2>1, <2>2, <2>5, <2>6, <2>7, <2>8, <2>9, <2>12
  <2> QED BY <2>3, <2>10, <2>11, <2>12
<1> QED BY <1>3, <1>4, <1>5, <1>6 DEF DeleteStep

-----------------------------------------------------------------------------
(* The inductive invariant.                                                *)

\* Who may be running: nothing of a deletion while the machine is wanted, and
\* under Serial no creation while anything of a deletion is under way.
Turns(m) ==
  /\ machine[m] \in {"wanted", "ready"} =>
       delete[m].pc = "idle" /\ delete[m].result # "OK"
  /\ machine[m] = "ready" => create[m].pc = "idle"
  /\ machine[m] = "gone" => delete[m].pc = "idle"
  /\ Serial /\ (\/ machine[m] = "gone"
                \/ delete[m].pc # "idle" \/ delete[m].result = "OK")
       => create[m].pc = "idle"

Control(m) == Uids(m) /\ WellFormed(m) /\ Turns(m)

\* Owner references are safe from the machine's own DeleteMachine calls.
Protected(m) == Serial \/ machine[m] \in {"wanted", "ready"}

\* The first dependants, before position k, are owned by the VM that exists.
OwnedUpTo(m, k) ==
  \A j \in 1 .. Last(m) : j < k => OwnedBy(m, OwnSeq(class[m])[j], vm[m].uid)

\* A call that holds the VM that exists has owned what comes before its current
\* dependant; one that polls, and a VM that was reported, have everything owned.
Progress(m) ==
  HasVM(m) =>
    /\ create[m].pc \in {"read", "write"} /\ create[m].uid = vm[m].uid =>
         OwnedUpTo(m, create[m].i)
    /\ \/ create[m].pc = "poll" /\ create[m].uid = vm[m].uid
       \/ reported[m] = vm[m].uid
       => OwnedUpTo(m, Last(m) + 1)

Complete(m) == Protected(m) => Progress(m)

\* Under Serial, how far a deletion has come.
Deleted(m) == machine[m] = "gone" \/ delete[m].result = "OK"

DeletePath(m) ==
  Serial =>
    /\ delete[m].pc \in {"boot", "cainit", "secret"} => ~HasVM(m)
    /\ delete[m].pc = "vm" => born[m] # NoUID
    /\ Deleted(m) => ~HasVM(m) \/ vm[m].terminating
    /\ born[m] = NoUID =>
         /\ delete[m].pc \in {"cainit", "secret"} \/ Deleted(m) =>
              ~Exists(m, "boot-disk")
         /\ delete[m].pc = "secret" \/ Deleted(m) => ~Exists(m, "cainit-script")
         /\ Deleted(m) => ~Exists(m, "init-script")

MachineInv(m) == Control(m) /\ Complete(m) /\ DeletePath(m)

IInv == TypeInv /\ \A m \in Machines : MachineInv(m)

\* A machine whose part of the state is untouched keeps its invariant.
LEMMA SameKeeps ==
  ASSUME NEW n \in Machines, MachineInv(n), Same(n)
  PROVE  MachineInv(n)'
BY DEF Same, MachineInv, Control, Uids, HoldsVM, WellFormed,
       Turns, Complete, Progress, OwnedUpTo, Protected, Last, OwnedBy, DeletePath,
       Deleted, HasVM, Exists

\* The numbers of a machine.
LEMMA Numbers ==
  ASSUME TypeInv, NEW m \in Machines
  PROVE  /\ vm[m].uid \in Nat /\ born[m] \in Nat /\ reported[m] \in Nat
         /\ create[m].uid \in Nat /\ create[m].i \in Nat
         /\ Last(m) \in Nat
         /\ \A j \in 1 .. Last(m) : OwnSeq(class[m])[j] \in Role
<1>1. vm[m] \in VM /\ class[m] \in Classes
      /\ create[m].uid \in Nat /\ create[m].i \in Nat
  BY CallTypes
<1>2. OwnSeq(class[m]) \in Seq(Role) /\ Last(m) = Len(OwnSeq(class[m]))
  BY <1>1, OwnSeqType DEF Last
<1>3. Last(m) \in Nat /\ \A j \in 1 .. Last(m) : OwnSeq(class[m])[j] \in Role
  BY <1>2
<1> QED
  BY <1>1, <1>3 DEF TypeInv, TypeOK, APITypeOK, ProviderTypeOK, VM

-----------------------------------------------------------------------------
(* A step of CreateMachine keeps the invariant of its machine.             *)

\* Under Serial there is no creation beside a deletion.
LEMMA CreateTurns ==
  ASSUME NEW m \in Machines, Turns(m), create[m].pc # "idle",
         UNCHANGED <<delete, machine>>
  PROVE  Turns(m)' /\ DeletePath(m)'
BY DEF Turns, DeletePath, Deleted

\* What happens to the call when no VM appears or goes away.
Moves(m) ==
  \/ Failed(m)
  \/ Goes(m, CreatePC \ {"idle", "read", "write", "poll"})
  \/ /\ create'[m].pc = "read" /\ create'[m].i = 1
     /\ HasVM(m) /\ create'[m].uid = vm[m].uid
     /\ create'[m].result = create[m].result /\ reported'[m] = reported[m]
  \/ /\ create[m].pc \in {"read", "write"}
     /\ Goes(m, {"read", "write"}) /\ create'[m].i = create[m].i
  \/ /\ create[m].pc \in {"read", "write"}
     /\ Advances(m)
     /\ res'[m][CurrentRole(m)].body # NoPayload
     /\ res'[m][CurrentRole(m)].owner = create[m].uid
  \/ create[m].pc = "poll" /\ Goes(m, {"poll"})
  \/ create[m].pc = "poll" /\ Succeeds(m)

\* No dependant of the VM that exists is taken from it.
KeepsOwned(m) ==
  HasVM(m) =>
    \A r \in Role :
      OwnedBy(m, r, vm[m].uid) =>
        res'[m][r].body # NoPayload /\ res'[m][r].owner = vm[m].uid

\* A step of CreateMachine keeps the UIDs from the past.
LEMMA MovesControl ==
  ASSUME TypeInv, NEW m \in Machines, Uids(m),
         create[m].pc # "idle", Moves(m),
         vm'[m].uid = vm[m].uid, UNCHANGED born
  PROVE  Uids(m)'
<1>1. vm[m].uid \in Nat /\ born[m] \in Nat /\ reported[m] \in Nat
  BY Numbers
<1> USE DEF Uids, HoldsVM, HasVM, NoUID
<1>2. CASE Failed(m)
  BY <1>1, <1>2 DEF Failed
<1>3. CASE Goes(m, CreatePC \ {"idle", "read", "write", "poll"})
  BY <1>1, <1>3 DEF Goes
<1>4. CASE /\ create'[m].pc = "read" /\ create'[m].i = 1
           /\ HasVM(m) /\ create'[m].uid = vm[m].uid
           /\ create'[m].result = create[m].result
           /\ reported'[m] = reported[m]
  BY <1>1, <1>4
<1>5. CASE HoldsVM(m) /\ Goes(m, {"read", "write", "poll"})
  BY <1>1, <1>5 DEF Goes
<1>6. CASE HoldsVM(m) /\ Succeeds(m)
  BY <1>1, <1>6 DEF Succeeds
<1> QED
  BY <1>2, <1>3, <1>4, <1>5, <1>6 DEF Moves, Advances, Goes

\* A step of CreateMachine keeps the owned dependants owned.
LEMMA MovesProgress ==
  ASSUME TypeInv, NEW m \in Machines, Progress(m),
         create[m].pc # "idle", Moves(m), KeepsOwned(m),
         vm'[m].uid = vm[m].uid, UNCHANGED class
  PROVE  Progress(m)'
<1> DEFINE owned(j) == OwnedBy(m, OwnSeq(class[m])[j], vm[m].uid)
           ownedNext(j) == /\ res'[m][OwnSeq(class[m])[j]].body # NoPayload
                           /\ res'[m][OwnSeq(class[m])[j]].owner = vm[m].uid
<1>1. /\ vm[m].uid \in Nat /\ reported[m] \in Nat
      /\ create[m].i \in Nat /\ Last(m) \in Nat
      /\ \A j \in 1 .. Last(m) : OwnSeq(class[m])[j] \in Role
  BY Numbers
<1>2. HasVM(m) => \A j \in 1 .. Last(m) : owned(j) => ownedNext(j)
  BY <1>1 DEF KeepsOwned
<1>3. SUFFICES ASSUME HasVM(m)
               PROVE  /\ /\ create'[m].pc \in {"read", "write"}
                         /\ create'[m].uid = vm[m].uid
                         => \A j \in 1 .. Last(m) :
                              j < create'[m].i => ownedNext(j)
                      /\ \/ create'[m].pc = "poll" /\ create'[m].uid = vm[m].uid
                         \/ reported'[m] = vm[m].uid
                         => \A j \in 1 .. Last(m) : ownedNext(j)
  <2>1. Last(m)' = Last(m) /\ (HasVM(m)' <=> HasVM(m))
    BY DEF Last, HasVM
  <2> QED BY <1>1, <2>1 DEF Progress, OwnedUpTo, OwnedBy, Exists
<1>4. /\ create[m].pc \in {"read", "write"} /\ create[m].uid = vm[m].uid =>
           \A j \in 1 .. Last(m) : j < create[m].i => owned(j)
      /\ \/ create[m].pc = "poll" /\ create[m].uid = vm[m].uid
         \/ reported[m] = vm[m].uid
         => \A j \in 1 .. Last(m) : owned(j)
  BY <1>1, <1>3 DEF Progress, OwnedUpTo
<1> HIDE DEF owned
<1>5. reported[m] = vm[m].uid => \A j \in 1 .. Last(m) : ownedNext(j)
  BY <1>2, <1>3, <1>4
<1>6. CASE Failed(m)
  BY <1>5, <1>6 DEF Failed
<1>7. CASE Goes(m, CreatePC \ {"idle", "read", "write", "poll"})
  BY <1>5, <1>7 DEF Goes
<1>8. CASE /\ create'[m].pc = "read" /\ create'[m].i = 1
           /\ reported'[m] = reported[m]
  BY <1>1, <1>5, <1>8
<1>9. CASE /\ create[m].pc \in {"read", "write"}
           /\ Goes(m, {"read", "write"}) /\ create'[m].i = create[m].i
  BY <1>2, <1>3, <1>4, <1>5, <1>9 DEF Goes
<1>10. CASE /\ create[m].pc \in {"read", "write"}
            /\ Advances(m)
            /\ res'[m][CurrentRole(m)].body # NoPayload
            /\ res'[m][CurrentRole(m)].owner = create[m].uid
  <2>1. create[m].uid = vm[m].uid => ownedNext(create[m].i)
    BY <1>10 DEF CurrentRole
  <2>2. create[m].uid = vm[m].uid =>
          \A j \in 1 .. Last(m) : j <= create[m].i => ownedNext(j)
    BY <1>1, <1>2, <1>3, <1>4, <1>10, <2>1
  <2> HIDE DEF ownedNext
  <2>3. CASE /\ create[m].i < Last(m)
             /\ Goes(m, {"read"}) /\ create'[m].i = create[m].i + 1
    BY <1>1, <1>5, <2>2, <2>3 DEF Goes
  <2>4. CASE /\ create[m].i >= Last(m)
             /\ Goes(m, {"poll"}) \/ Succeeds(m)
    BY <1>1, <1>5, <2>2, <2>4 DEF Goes, Succeeds
  <2> QED BY <1>10, <2>3, <2>4 DEF Advances
<1>11. CASE /\ create[m].pc = "poll"
            /\ Goes(m, {"poll"}) \/ Succeeds(m)
  BY <1>2, <1>3, <1>4, <1>5, <1>11 DEF Goes, Succeeds
<1> QED
  BY <1>6, <1>7, <1>8, <1>9, <1>10, <1>11 DEF Moves

\* The store under a request of createX: nothing is taken away.
LEMMA CreateResourceKeeps ==
  ASSUME TypeInv, NEW m \in Machines, WellFormed(m),
         \/ UNCHANGED res
         \/ \E r \in Role : \E body \in Payloads :
              CreateResource(m, r, body, NoUID)
  PROVE  KeepsOwned(m) /\ WellFormed(m)'
<1>1. CASE UNCHANGED res
  BY <1>1 DEF KeepsOwned, OwnedBy, Exists, WellFormed
<1>2. ASSUME NEW r \in Role, NEW body \in Payloads,
             CreateResource(m, r, body, NoUID)
      PROVE  KeepsOwned(m) /\ WellFormed(m)'
  <2>1. \A s \in Role : s # r => res'[m][s] = res[m][s]
    BY <1>2 DEF CreateResource, TypeInv, TypeOK, APITypeOK
  <2>2. Exists(m, r) => res'[m][r] = res[m][r]
    BY <1>2 DEF CreateResource
  <2>3. ~Exists(m, r) => res'[m][r].body = body /\ body # NoPayload
    BY <1>2, PayloadAssumption DEF CreateResource, TypeInv, TypeOK, APITypeOK
  <2> QED
    BY <2>1, <2>2, <2>3 DEF KeepsOwned, OwnedBy, Exists, WellFormed
<1> QED BY <1>1, <1>2

\* Only a call that holds the VM that exists works on dependants of that VM.
NotAhead(m) ==
  HoldsVM(m) /\ HasVM(m) =>
    \A r \in Role : OwnedBy(m, r, vm[m].uid) => create[m].uid = vm[m].uid

\* A write of CreateOrUpdate takes no dependant from the current VM.
LEMMA TouchesKeeps ==
  ASSUME TypeInv, NEW m \in Machines, NotAhead(m), WellFormed(m),
         create[m].pc = "write", UNCHANGED res \/ Touches(m)
  PROVE  KeepsOwned(m) /\ WellFormed(m)'
<1>1. CASE UNCHANGED res
  BY <1>1 DEF KeepsOwned, OwnedBy, Exists, WellFormed
<1>2. CASE Touches(m)
  <2>1. PICK x \in Resource :
          /\ x.body # NoPayload /\ x.owner = create[m].uid
          /\ res' = [res EXCEPT ![m][CurrentRole(m)] = x]
    BY <1>2 DEF Touches
  <2>2. \A r \in Role :
          \/ res'[m][r] = res[m][r]
          \/ res'[m][r].body # NoPayload /\ res'[m][r].owner = create[m].uid
    BY <2>1 DEF TypeInv, TypeOK, APITypeOK
  <2>3. HasVM(m) =>
          \A r \in Role : OwnedBy(m, r, vm[m].uid) => vm[m].uid = create[m].uid
    BY DEF NotAhead, HoldsVM
  <2>4. KeepsOwned(m)
    BY <2>2, <2>3 DEF KeepsOwned, OwnedBy, Exists
  <2>5. WellFormed(m)'
    BY <2>2 DEF WellFormed, Exists
  <2> QED BY <2>4, <2>5
<1> QED BY <1>1, <1>2

\* Owner references: none is set but to the VM the call holds.
OwnersGrow(m) ==
  \A r \in Role :
    \/ res'[m][r].owner \in {res[m][r].owner, NoUID}
    \/ HoldsVM(m) /\ res'[m][r].owner = create[m].uid

\* A new VM is stored.
Stored(m) ==
  /\ ~HasVM(m) /\ vm'[m].uid = born[m] + 1 /\ born'[m] = born[m] + 1
  /\ Failed(m) \/ Goes(m, {"getvm"})

\* What a step of CreateMachine amounts to.
LEMMA CreateStepMoves ==
  ASSUME TypeInv, NEW m \in Machines, WellFormed(m), NotAhead(m), CreateStep(m)
  PROVE  /\ KeepsOwned(m) /\ WellFormed(m)' /\ OwnersGrow(m)
         /\ \/ Moves(m) /\ vm'[m].uid = vm[m].uid /\ UNCHANGED born
            \/ Stored(m)
<1>1. UNCHANGED res => KeepsOwned(m) /\ WellFormed(m)' /\ OwnersGrow(m)
  BY DEF KeepsOwned, OwnedBy, Exists, WellFormed, OwnersGrow
<1>2. CASE CreatePrepares(m)
  <2>1. Moves(m)
    BY <1>2, PreparesOutcome DEF Moves, Goes, CreatePC
  <2> QED BY <1>1, <1>2, <2>1, PreparesOutcome DEF apiVars
<1>3. CASE createCAInitScriptSecret(m) \/ createSecret(m) \/ createDisk(m)
  <2>1. Moves(m)
    BY <1>3, EnsureOutcome DEF Moves, Goes, CreatePC
  <2>2. OwnersGrow(m)
    <3>1. ASSUME NEW r \in Role, NEW body, CreateResource(m, r, body, NoUID)
          PROVE  \A s \in Role : res'[m][s].owner \in {res[m][s].owner, NoUID}
      BY <3>1 DEF CreateResource, TypeInv, TypeOK, APITypeOK
    <3> QED BY <1>1, <1>3, <3>1, EnsureOutcome DEF OwnersGrow
  <2> QED BY <1>3, <2>1, <2>2, EnsureOutcome, CreateResourceKeeps
<1>4. CASE createVM(m)
  <2>1. (Failed(m) \/ Goes(m, {"getvm"})) /\ UNCHANGED res
    BY <1>4, CreateVMOutcome
  <2>2. Moves(m)
    BY <2>1 DEF Moves, Goes, CreatePC
  <2> QED BY <1>1, <1>4, <2>1, <2>2, CreateVMOutcome DEF Stored
<1>5. CASE getVM(m)
  <2>1. Moves(m)
    BY <1>5, GetVMOutcome DEF Moves
  <2> QED BY <1>1, <1>5, <2>1, GetVMOutcome DEF apiVars
<1>6. CASE ownRead(m)
  <2>1. create[m].pc = "read" /\ UNCHANGED apiVars
    BY <1>6, OwnReadOutcome
  <2>2. Moves(m)
    <3>1. CASE OwnedBy(m, CurrentRole(m), create[m].uid) /\ Advances(m)
      BY <2>1, <3>1 DEF Moves, apiVars, OwnedBy, Exists
    <3>2. CASE Failed(m)
      BY <3>2 DEF Moves
    <3>3. CASE Goes(m, {"write"}) /\ create'[m].i = create[m].i
      BY <2>1, <3>3 DEF Moves, Goes
    <3> QED BY <1>6, <3>1, <3>2, <3>3, OwnReadOutcome
  <2> QED BY <1>1, <2>1, <2>2 DEF apiVars
<1>7. CASE ownCreate(m) \/ ownUpdate(m)
  <2>1. create[m].pc = "write" /\ UNCHANGED <<vm, born>>
    BY <1>7, OwnWriteOutcome
  <2>2. UNCHANGED res \/ Touches(m)
    BY <1>7, OwnWriteOutcome
  <2>3. Moves(m)
    <3>1. CASE Failed(m)
      BY <3>1 DEF Moves
    <3>2. CASE Goes(m, {"read"}) /\ create'[m].i = create[m].i
      BY <2>1, <3>2 DEF Moves, Goes
    <3>3. CASE Advances(m) /\ Touches(m)
      <4>1. CurrentRole(m) \in Role
        BY <2>1, OwnRole DEF CurrentRole
      <4>2. /\ res'[m][CurrentRole(m)].body # NoPayload
            /\ res'[m][CurrentRole(m)].owner = create[m].uid
        BY <3>3, <4>1 DEF Touches, TypeInv, TypeOK, APITypeOK
      <4> QED BY <2>1, <3>3, <4>2 DEF Moves
    <3> QED BY <1>7, <3>1, <3>2, <3>3, OwnWriteOutcome
  <2>4. OwnersGrow(m)
    <3>1. CASE Touches(m)
      <4>1. \A r \in Role : res'[m][r] = res[m][r] \/ res'[m][r].owner = create[m].uid
        BY <3>1 DEF Touches, TypeInv, TypeOK, APITypeOK
      <4> QED BY <2>1, <4>1 DEF OwnersGrow, HoldsVM
    <3> QED BY <1>1, <2>2, <3>1
  <2> QED BY <2>1, <2>2, <2>3, <2>4, TouchesKeeps
<1>8. CASE pollVM(m) \/ waitTimesOut(m)
  <2>1. Moves(m)
    BY <1>8, PollOutcome DEF Moves
  <2> QED BY <1>1, <1>8, <2>1, PollOutcome DEF apiVars
<1> QED
  BY <1>2, <1>3, <1>4, <1>5, <1>6, <1>7, <1>8 DEF CreateStep

\* What a step of CreateMachine leaves alone.
LEMMA CreateStepFrame ==
  ASSUME TypeInv, NEW m \in Machines, CreateStep(m)
  PROVE  UNCHANGED <<class, delete>> /\ create[m].pc # "idle"
BY PreparesOutcome, EnsureOutcome, CreateVMOutcome, GetVMOutcome
   DEF CreateStep, ownRead, ownCreate, ownUpdate, pollVM, waitTimesOut

\* A new VM has nothing owned for it yet.
LEMMA StoredProgress ==
  ASSUME TypeInv, NEW m \in Machines, reported[m] <= born[m], Stored(m)
  PROVE  Progress(m)'
<1>1. reported[m] \in Nat /\ born[m] \in Nat /\ reported'[m] = reported[m]
      /\ create'[m].pc \in {"idle", "getvm"}
  BY Numbers DEF Stored, Failed, Goes
<1>2. reported'[m] # vm'[m].uid
  BY <1>1 DEF Stored
<1> QED BY <1>1, <1>2 DEF Progress

\* CreateMachine keeps the invariant of its machine.
LEMMA CreateStepInv ==
  ASSUME TypeInv, NEW m \in Machines, MachineInv(m), CreateStep(m),
         UNCHANGED machine
  PROVE  MachineInv(m)'
<1> USE DEF MachineInv, Control
<1>1. UNCHANGED <<class, delete>> /\ create[m].pc # "idle"
  BY CreateStepFrame
<1>2. Turns(m)' /\ DeletePath(m)' /\ (Protected(m)' <=> Protected(m))
  BY <1>1, CreateTurns DEF Protected
<1>3. NotAhead(m)
  BY DEF NotAhead, Uids, HasVM
<1>4. WellFormed(m)' /\ KeepsOwned(m)
  BY <1>3, CreateStepMoves
<1>5. CASE Moves(m) /\ vm'[m].uid = vm[m].uid /\ UNCHANGED born
  BY <1>1, <1>2, <1>4, <1>5, MovesControl, MovesProgress DEF Complete
<1>6. CASE Stored(m)
  <2>1. /\ reported[m] <= born[m] /\ reported[m] \in Nat /\ born[m] \in Nat
        /\ create'[m].pc \in {"idle", "getvm"} /\ reported'[m] = reported[m]
        /\ create'[m].pc = "idle" \/ create'[m].result = create[m].result
    BY <1>6, Numbers DEF Uids, Stored, Failed, Goes
  <2>2. Uids(m)'
    BY <1>1, <1>6, <2>1 DEF Uids, HoldsVM, Stored
  <2>3. Complete(m)'
    BY <1>6, <2>1, StoredProgress DEF Complete
  <2> QED BY <1>2, <1>4, <2>2, <2>3
<1> QED BY <1>3, <1>5, <1>6, CreateStepMoves

-----------------------------------------------------------------------------
(* A step of DeleteMachine, of the environment or of the caller keeps it.  *)

\* DeleteMachine keeps the invariant of its machine.
LEMMA DeleteStepInv ==
  ASSUME TypeInv, NEW m \in Machines, MachineInv(m), DeleteStep(m),
         UNCHANGED machine
  PROVE  MachineInv(m)'
<1> USE DEF MachineInv, Control
<1>1. /\ UNCHANGED <<class, create, reported, born>>
      /\ vm'[m].uid = vm[m].uid
      /\ vm[m].terminating => vm'[m].terminating
      /\ delete[m].pc # "idle"
      /\ \A r \in Role : res'[m][r] \in {res[m][r], NoResource}
  BY DeleteOutcome
<1>2. Uids(m)'
  BY <1>1 DEF Uids, HoldsVM
<1>3. WellFormed(m)'
  BY <1>1 DEF WellFormed, Exists
<1>4. Turns(m)'
  BY <1>1 DEF Turns
<1>5. \A r \in Role : ~Exists(m, r) => ~Exists(m, r)'
  BY <1>1 DEF Exists, NoResource
<1>6. Complete(m)'
  <2>1. CASE ~Serial
    BY <1>1, <2>1 DEF Turns, Complete, Progress, Protected
  <2>2. CASE Serial /\ delete[m].pc \in {"boot", "cainit", "secret"}
    BY <1>1, <2>2 DEF DeletePath, Complete, Progress, HasVM
  <2>3. CASE delete[m].pc \notin {"boot", "cainit", "secret"}
    <3>1. UNCHANGED res
      BY <2>3, DeleteOutcome
    <3> QED
      BY <1>1, <3>1
      DEF Complete, Progress, OwnedUpTo, OwnedBy, Protected, HasVM, Exists, Last
  <2> QED BY <2>1, <2>2, <2>3
<1>7. DeletePath(m)'
  <2>1. HasVM(m)' <=> HasVM(m)
    BY <1>1 DEF HasVM
  <2>2. HasVM(m) => born[m] # NoUID
    BY DEF Uids, HasVM
  <2>3. machine[m] # "gone"
    BY <1>1 DEF Turns
  <2>4. {"boot-disk", "cainit-script", "init-script"} \subseteq Role
    BY DEF Role, Secrets, Disks
  <2>5. CASE delete'[m].pc = "idle" /\ delete'[m].result # "OK"
    BY <1>1, <2>3, <2>5 DEF DeletePath, Deleted
  <2>6. CASE /\ delete[m].pc \in {"client", "get"}
             /\ \/ delete'[m].pc = "get"
                \/ delete'[m].pc = "vm" /\ HasVM(m)
                \/ delete'[m].pc = "boot" /\ ~HasVM(m)
             /\ delete'[m].result = delete[m].result
    BY <1>1, <1>5, <2>1, <2>2, <2>4, <2>6 DEF DeletePath, Deleted
  <2>7. CASE /\ delete[m].pc = "vm"
             /\ delete'[m].pc = "idle" /\ delete'[m].result = "OK"
             /\ HasVM(m) => vm'[m].terminating
    BY <1>1, <2>1, <2>7 DEF DeletePath, Deleted
  <2>8. CASE /\ delete[m].pc = "boot" /\ delete'[m].pc = "cainit"
             /\ delete'[m].result = delete[m].result
             /\ ~Exists(m, "boot-disk")'
    BY <1>1, <1>5, <2>1, <2>4, <2>8 DEF DeletePath, Deleted
  <2>9. CASE /\ delete[m].pc = "cainit" /\ delete'[m].pc = "secret"
             /\ delete'[m].result = delete[m].result
             /\ ~Exists(m, "cainit-script")'
    BY <1>1, <1>5, <2>1, <2>4, <2>9 DEF DeletePath, Deleted
  <2>10. CASE /\ delete[m].pc = "secret"
              /\ delete'[m].pc = "idle" /\ delete'[m].result = "OK"
              /\ ~Exists(m, "init-script")'
    BY <1>1, <1>5, <2>1, <2>4, <2>10 DEF DeletePath, Deleted
  <2> QED BY <2>5, <2>6, <2>7, <2>8, <2>9, <2>10, DeleteOutcome
<1> QED BY <1>2, <1>3, <1>4, <1>6, <1>7

\* The server's own steps keep the invariant of the machine.
LEMMA EnvironmentInv ==
  ASSUME TypeInv, NEW m \in Machines, MachineInv(m), Environment(m)
  PROVE  MachineInv(m)'
<1> USE DEF MachineInv, Control
<1>1. /\ UNCHANGED <<class, create, delete, reported, machine, born>>
      /\ vm'[m].uid \in {vm[m].uid, NoUID}
      /\ vm[m].terminating => vm'[m].uid = NoUID \/ vm'[m].terminating
      /\ \A r \in Role :
           \/ res'[m][r] = res[m][r]
           \/ /\ res'[m][r] = NoResource
              /\ \/ vm'[m].uid = NoUID
                 \/ res[m][r].owner \notin {NoUID, vm[m].uid}
  BY EnvironmentOutcome
<1>2. Uids(m)' /\ Turns(m)'
  BY <1>1 DEF Uids, HoldsVM, Turns
<1>3. WellFormed(m)'
  BY <1>1 DEF WellFormed, Exists
<1>4. Complete(m)'
  <2>1. CASE vm'[m].uid = NoUID
    BY <2>1 DEF Complete, Progress, HasVM
  <2>2. CASE vm'[m].uid = vm[m].uid /\ vm[m].uid # NoUID
    <3>1. \A r \in Role : OwnedBy(m, r, vm[m].uid) =>
            res'[m][r].body # NoPayload /\ res'[m][r].owner = vm[m].uid
      BY <1>1, <2>2 DEF OwnedBy, Exists
    <3>2. \A j \in 1 .. Last(m) : OwnSeq(class[m])[j] \in Role
      BY Numbers
    <3> QED
      BY <1>1, <2>2, <3>1, <3>2
      DEF Complete, Progress, OwnedUpTo, OwnedBy, Protected, HasVM, Exists, Last
  <2> QED BY <1>1, <2>1, <2>2
<1>5. DeletePath(m)'
  <2>1. \A r \in Role : ~Exists(m, r) => ~Exists(m, r)'
    BY <1>1 DEF Exists, NoResource
  <2>2. ~HasVM(m) => ~HasVM(m)'
    BY <1>1 DEF HasVM
  <2>3. {"boot-disk", "cainit-script", "init-script"} \subseteq Role
    BY DEF Role, Secrets, Disks
  <2>4. vm[m].terminating => ~HasVM(m)' \/ vm'[m].terminating
    BY <1>1 DEF HasVM
  <2> QED BY <1>1, <2>1, <2>2, <2>3, <2>4 DEF DeletePath, Deleted
<1> QED BY <1>2, <1>3, <1>4, <1>5

\* The caller keeps the invariant of the machine.
LEMMA CallerInv ==
  ASSUME TypeInv, NEW m \in Machines, MachineInv(m),
         \/ StartCreate(m) \/ RecordCreated(m) \/ RequestDeletion(m)
         \/ StartDelete(m) \/ RecordDeleted(m)
  PROVE  MachineInv(m)'
<1> USE DEF MachineInv, Control
<1>0. UNCHANGED <<vm, res, born, class, reported>>
  BY DEF StartCreate, RecordCreated, RequestDeletion, StartDelete,
         RecordDeleted, apiVars, providerVars
<1>1. WellFormed(m)'
  BY <1>0 DEF WellFormed, Exists
<1>2. /\ delete[m] \in DeleteCall /\ machine[m] \in Phase
      /\ create[m] \in CreateCall
  BY DEF TypeInv, TypeOK, ProviderTypeOK
<1>3. CASE StartCreate(m)
  <2>1. /\ create'[m].pc = "client" /\ create'[m].result = "None"
        /\ machine[m] = "wanted" /\ UNCHANGED <<delete, machine>>
    <3>1. PICK data \in UserData :
            create' = [create EXCEPT ![m] = [CreateReturned("None") EXCEPT
                         !.pc = "client", !.userData = data]]
      BY <1>3 DEF StartCreate
    <3>2. create'[m] = [CreateReturned("None") EXCEPT
                          !.pc = "client", !.userData = data]
      BY <3>1 DEF TypeInv, TypeOK, ProviderTypeOK
    <3> QED BY <1>3, <3>2 DEF StartCreate, CreateReturned
  <2> QED
    BY <1>0, <1>1, <2>1
    DEF Uids, HoldsVM, Turns, Complete, Progress, OwnedUpTo, OwnedBy,
        Protected, HasVM, Exists, Last, DeletePath, Deleted
<1>4. CASE RecordCreated(m)
  <2>1. /\ create'[m].pc = "idle"
        /\ machine[m] = "wanted" /\ machine'[m] = "ready" /\ UNCHANGED delete
    BY <1>4 DEF RecordCreated, CreateReturned, TypeInv, TypeOK, ProviderTypeOK
  <2> QED
    BY <1>0, <1>1, <2>1
    DEF Uids, HoldsVM, Turns, Complete, Progress, OwnedUpTo, OwnedBy,
        Protected, HasVM, Exists, Last, DeletePath, Deleted
<1>5. CASE RequestDeletion(m)
  <2>1. /\ machine[m] \in {"wanted", "ready"} /\ machine'[m] = "deleting"
        /\ UNCHANGED <<create, delete>>
    BY <1>5 DEF RequestDeletion, providerVars, TypeInv, TypeOK
  <2> QED
    BY <1>0, <1>1, <2>1
    DEF Uids, HoldsVM, Turns, Complete, Progress, OwnedUpTo, OwnedBy,
        Protected, HasVM, Exists, Last, DeletePath, Deleted
<1>6. CASE StartDelete(m)
  <2>1. /\ machine[m] = "deleting" /\ delete[m].pc = "idle"
        /\ Serial => create[m].pc = "idle"
        /\ delete'[m].pc = "client" /\ delete'[m].result = "None"
        /\ UNCHANGED <<create, machine>>
    BY <1>6
    DEF StartDelete, CreateIdle, DeleteIdle, TypeInv, TypeOK, ProviderTypeOK
  <2> QED
    BY <1>0, <1>1, <2>1
    DEF Uids, HoldsVM, Turns, Complete, Progress, OwnedUpTo, OwnedBy,
        Protected, HasVM, Exists, Last, DeletePath, Deleted
<1>7. CASE RecordDeleted(m)
  <2>1. /\ machine[m] = "deleting" /\ machine'[m] = "gone"
        /\ delete[m].pc = "idle" /\ delete[m].result = "OK"
        /\ delete'[m].pc = "idle" /\ delete'[m].result = "None"
        /\ UNCHANGED create
    BY <1>7
    DEF RecordDeleted, DeleteIdle, DeleteReturned, TypeInv, TypeOK,
        ProviderTypeOK
  <2> QED
    BY <1>0, <1>1, <2>1
    DEF Uids, HoldsVM, Turns, Complete, Progress, OwnedUpTo, OwnedBy,
        Protected, HasVM, Exists, Last, DeletePath, Deleted
<1> QED BY <1>3, <1>4, <1>5, <1>6, <1>7

\* A crash keeps the invariant of each machine.
LEMMA CrashInv ==
  ASSUME TypeInv, NEW m \in Machines, MachineInv(m), Crash
  PROVE  MachineInv(m)'
<1>1. /\ create'[m].pc = "idle"
      /\ delete'[m].pc = "idle" /\ delete'[m].result = "None"
      /\ UNCHANGED <<vm, res, born, class, reported, machine>>
  BY DEF Crash, CreateReturned, DeleteReturned, apiVars
<1> QED
  BY <1>1
  DEF MachineInv, Control, Uids, HoldsVM, WellFormed, Turns,
      Complete, Progress, OwnedUpTo, OwnedBy, Protected, HasVM, Exists, Last,
      DeletePath, Deleted

\* The invariant holds at the start.
LEMMA InitInv == Init => IInv
<1> SUFFICES ASSUME Init PROVE IInv
  OBVIOUS
<1>1. ASSUME NEW m \in Machines PROVE MachineInv(m)
  <2>1. /\ vm[m] = NoVM /\ born[m] = NoUID /\ reported[m] = NoUID
        /\ res[m] = [r \in Role |-> NoResource]
        /\ create[m].pc = "idle" /\ machine[m] = "wanted"
        /\ delete[m].pc = "idle" /\ delete[m].result = "None"
    BY DEF Init, APIInit, ProviderInit, CreateReturned, DeleteReturned
  <2>2. vm[m].uid = NoUID /\ ~HasVM(m)
    BY <2>1 DEF NoVM, HasVM
  <2> QED
    BY <2>1, <2>2
    DEF MachineInv, Control, Uids, HoldsVM, WellFormed, Turns,
        Complete, Progress, Protected, DeletePath, Deleted, NoUID
<1> QED BY <1>1, InitType DEF IInv

\* Every step keeps the invariant.
LEMMA NextInv ==
  ASSUME IInv, [Next]_vars
  PROVE  IInv'
<1>1. TypeInv /\ TypeInv'
  BY NextType DEF IInv
<1>2. CASE Crash
  BY <1>1, <1>2, CrashInv DEF IInv
<1>3. ASSUME NEW m \in Machines, MachineNext(m), NEW n \in Machines
      PROVE  MachineInv(n)'
  <2>1. MachineInv(m) /\ MachineInv(n)
    BY DEF IInv
  <2>2. CASE n # m
    BY <1>1, <1>3, <2>1, <2>2, OthersKept, SameKeeps
  <2>3. CASE n = m
    <3>1. CASE Driver(m)
      BY <1>1, <2>1, <2>3, <3>1, CreateStepInv, DeleteStepInv DEF Driver
    <3>2. CASE Environment(m)
      BY <1>1, <2>1, <2>3, <3>2, EnvironmentInv
    <3> QED BY <1>1, <1>3, <2>1, <2>3, <3>1, <3>2, CallerInv DEF MachineNext
  <2> QED BY <2>2, <2>3
<1>4. ASSUME UNCHANGED vars, NEW n \in Machines PROVE MachineInv(n)'
  <2>1. MachineInv(n) /\ Same(n)
    BY <1>4 DEF IInv, Same, vars, apiVars, providerVars
  <2> QED BY <2>1, SameKeeps
<1> QED BY <1>1, <1>2, <1>3, <1>4 DEF IInv, Next

\* The invariant holds in every reachable state.
LEMMA Inductive == Spec => []IInv
BY InitInv, NextInv, PTL DEF Spec

-----------------------------------------------------------------------------
(* What follows.                                                           *)

\* A protected VM that was reported owns all that is to be owned.
LEMMA CompleteOwned ==
  ASSUME IInv, NEW m \in Machines, Protected(m),
         reported[m] # NoUID, vm[m].uid = reported[m]
  PROVE  \A r \in Owned(class[m]) : Exists(m, r) /\ res[m][r].owner = reported[m]
<1>1. HasVM(m) /\ Complete(m) /\ Last(m) \in Nat /\ class[m] \in Classes
  BY Numbers, CallTypes DEF IInv, MachineInv, HasVM
<1>2. \A j \in 1 .. Last(m) : OwnedBy(m, OwnSeq(class[m])[j], reported[m])
  BY <1>1 DEF Complete, Progress, OwnedUpTo
<1>3. DOMAIN OwnSeq(class[m]) = 1 .. Last(m)
  BY <1>1, OwnSeqType DEF Last
<1> QED BY <1>2, <1>3 DEF Owned, OwnedBy

\* Whatever overlaps, crashes or fails: while a machine is wanted, everything
\* that was made for the VM it was told about exists and is owned by that VM.
\* Nothing that runs for another call of the machine or for another machine,
\* and no collection, takes an object or a reference from it.
THEOREM CompleteUntilDeletion == Spec => []CompleteWhileWanted
<1>1. IInv => CompleteWhileWanted
  BY CompleteOwned DEF CompleteWhileWanted, Protected
<1> QED BY <1>1, Inductive, PTL

\* When no creation runs beside a deletion of the same machine, that stays so
\* until the VM itself is gone: DeleteMachine removes no dependant of a VM.
THEOREM CompleteUntilGone ==
  ASSUME Serial
  PROVE  Spec => []OwnershipComplete
<1>1. IInv => OwnershipComplete
  BY CompleteOwned DEF OwnershipComplete, Protected
<1> QED BY <1>1, Inductive, PTL

\* And then a Machine object is only let go when its VM is gone or on its way
\* out: a deletion that found a VM deleted it, one that found none is followed
\* by no VM.
THEOREM GoneReleases ==
  ASSUME Serial
  PROVE  Spec => []GoneMeansReleased
<1>1. IInv => GoneMeansReleased
  BY DEF IInv, MachineInv, DeletePath, Deleted, GoneMeansReleased
<1> QED BY <1>1, Inductive, PTL

\* And the leftovers of a machine that never got a VM are gone with it, data
\* disks excepted: a deletion passed the boot disk and both Secrets, and
\* nothing has made them again since.
THEOREM LeftoversGone ==
  ASSUME Serial
  PROVE  Spec => []LeftoversDeleted
<1>1. IInv => LeftoversDeleted
  <2>1. Role \ {"disk"} = {"boot-disk", "cainit-script", "init-script"}
    BY DEF Role, Secrets, Disks
  <2> QED
    BY <2>1 DEF IInv, MachineInv, DeletePath, Deleted, LeftoversDeleted
<1> QED BY <1>1, Inductive, PTL
=============================================================================

-------------------------- MODULE LateRequestsProofs --------------------------
(***************************************************************************)
(* What holds of LateRequests for every value of its constants: any number *)
(* of machines and of writes on their way, calls of a machine that overlap *)
(* (Serial or not), the safety controller at work.                         *)
(***************************************************************************)
EXTENDS LateRequests, MachineControllerProofs, FiniteSetTheorems

-----------------------------------------------------------------------------
(* Types.                                                                  *)

\* A write has what its kind needs.
Typed(write) ==
  /\ write \in Request
  /\ write.kind \in {"create", "update", "delete"} => write.r \in Role
  /\ write.kind = "create" => write.body \in Payloads

LateTypeInv ==
  /\ TypeInv
  /\ listed \subseteq Machines
  /\ \A write \in late : Typed(write)
  /\ IsFiniteSet(late) /\ Cardinality(late) <= MaxLate

\* The requests that a call makes writes of, and their fields.
LEMMA WriteType ==
  ASSUME NEW m \in Machines, NEW kind \in Kind
  PROVE  /\ Write(m, kind) \in Request
         /\ Write(m, kind).machine = m /\ Write(m, kind).kind = kind
         /\ Write(m, kind).owner = NoUID
<1>1. NoResource \in Resource /\ NoUID \in Nat
  BY DEF NoResource, Resource, NoUID
<1> QED BY <1>1 DEF Write, Request

LEMMA WriteOfType ==
  ASSUME NEW m \in Machines, NEW kind \in Kind, NEW r \in Role
  PROVE  LET write == WriteOf(m, kind, r)
         IN  /\ write \in Request
             /\ write.machine = m /\ write.kind = kind
             /\ write.r = r /\ write.owner = NoUID
<1> DEFINE x == Write(m, kind)
<1>1. x \in Request /\ x.machine = m /\ x.kind = kind /\ x.owner = NoUID
  BY WriteType
<1> HIDE DEF x
<1>2. /\ [x EXCEPT !.r = r] \in Request
      /\ [x EXCEPT !.r = r].machine = m /\ [x EXCEPT !.r = r].kind = kind
      /\ [x EXCEPT !.r = r].r = r /\ [x EXCEPT !.r = r].owner = NoUID
  BY <1>1 DEF Request
<1> QED BY <1>2 DEF WriteOf, x

\* What a running CreateMachine may have on its way: it names the VM the call
\* holds, if any, and an update carries what the call read.
LEMMA CreateWritesType ==
  ASSUME TypeInv, NEW m \in Machines, NEW write \in CreateWrites(m)
  PROVE  /\ Typed(write) /\ write.machine = m
         /\ write.kind \in {"createVM", "create", "update"}
         /\ create[m].pc # "idle"
         /\ write.owner = NoUID \/ (HoldsVM(m) /\ write.owner = create[m].uid)
         /\ write.kind = "update" =>
              /\ create[m].pc = "write" /\ create[m].read # NoResource
              /\ write.read = create[m].read /\ write.owner = create[m].uid
<1> DEFINE c == create[m]
<1>0. /\ "createVM" \in Kind /\ "create" \in Kind /\ "update" \in Kind
      /\ "cainit-script" \in Role /\ "init-script" \in Role
  BY DEF Kind, Role, Secrets
<1>1. ASSUME c.pc # "idle",
             NEW r \in Role, NEW body \in Payloads, write \in Created(m, r, body)
      PROVE  /\ Typed(write) /\ write.machine = m
             /\ write.kind = "create" /\ write.owner = NoUID
  <2> DEFINE x == WriteOf(m, "create", r)
  <2>1. x \in Request /\ x.machine = m /\ x.kind = "create"
        /\ x.r = r /\ x.owner = NoUID
    BY <1>0, WriteOfType
  <2>2. write = [x EXCEPT !.body = body]
    BY <1>1 DEF Created
  <2> HIDE DEF x
  <2>3. /\ write \in Request /\ write.machine = m /\ write.kind = "create"
        /\ write.r = r /\ write.owner = NoUID /\ write.body = body
    BY <2>1, <2>2 DEF Request
  <2> QED BY <2>3 DEF Typed
<1>2. CASE c.pc = "cainit"
  <2>1. write \in Created(m, "cainit-script", CAScript)
    BY <1>2 DEF CreateWrites
  <2> QED BY <1>0, <1>1, <1>2, <2>1, ScriptAssumption
<1>3. CASE c.pc = "secret"
  <2>1. write \in Created(m, "init-script", c.userData)
    BY <1>3 DEF CreateWrites
  <2>2. c.userData \in Payloads
    BY <1>3, CallTypes, ScriptAssumption
  <2> QED BY <1>0, <1>1, <1>3, <2>1, <2>2
<1>4. CASE c.pc = "disk"
  <2> DEFINE disk == class[m].disks[c.i]
  <2>1. write \in Created(m, DiskRole(disk), disk.image)
    BY <1>4 DEF CreateWrites
  <2>2. DiskRole(disk) \in Role /\ disk.image \in Payloads
    BY <1>4, DiskLoopType
  <2> HIDE DEF disk
  <2> QED BY <1>1, <1>4, <2>1, <2>2
<1>5. CASE c.pc = "vm"
  <2>1. write = Write(m, "createVM")
    BY <1>5 DEF CreateWrites
  <2> QED BY <1>0, <1>5, <2>1, WriteType DEF Typed
<1>6. CASE c.pc = "write"
  <2> DEFINE r == OwnSeq(class[m])[c.i]
  <2>1. r \in Role /\ c.uid \in Nat /\ c.read \in Resource
        /\ Recreated(m, r) \in Payloads /\ HoldsVM(m)
    BY <1>6, OwnRole, CallTypes, RecreatedType DEF HoldsVM
  <2>2. write \in Owning(m)
    BY <1>6 DEF CreateWrites
  <2>3. CASE c.read # NoResource
    <3> DEFINE x == WriteOf(m, "update", r)
    <3>1. x \in Request /\ x.machine = m /\ x.kind = "update" /\ x.r = r
      BY <1>0, <2>1, WriteOfType
    <3>2. write = [x EXCEPT !.owner = c.uid, !.read = c.read]
      BY <2>2, <2>3 DEF Owning
    <3> HIDE DEF x
    <3>3. /\ write \in Request /\ write.machine = m /\ write.kind = "update"
          /\ write.r = r /\ write.owner = c.uid /\ write.read = c.read
      BY <2>1, <3>1, <3>2 DEF Request
    <3> HIDE DEF r
    <3> QED BY <1>6, <2>1, <2>3, <3>3 DEF Typed
  <2>4. CASE c.read = NoResource
    <3> DEFINE x == WriteOf(m, "create", r)
    <3>1. x \in Request /\ x.machine = m /\ x.kind = "create" /\ x.r = r
      BY <1>0, <2>1, WriteOfType
    <3>2. write = [x EXCEPT !.body = Recreated(m, r), !.owner = c.uid]
      BY <2>2, <2>4 DEF Owning
    <3> HIDE DEF x
    <3>3. /\ write \in Request /\ write.machine = m /\ write.kind = "create"
          /\ write.r = r /\ write.owner = c.uid /\ write.body = Recreated(m, r)
      BY <2>1, <3>1, <3>2 DEF Request
    <3> HIDE DEF r
    <3> QED BY <1>6, <2>1, <2>4, <3>3 DEF Typed
  <2> QED BY <2>3, <2>4
<1>7. c.pc \in {"cainit", "secret", "disk", "vm", "write"}
  BY DEF CreateWrites
<1> QED BY <1>1, <1>2, <1>3, <1>4, <1>5, <1>6, <1>7

\* What a running DeleteMachine may have on its way.
LEMMA DeleteWritesType ==
  ASSUME TypeInv, NEW m \in Machines, NEW write \in DeleteWrites(m)
  PROVE  /\ Typed(write) /\ write.machine = m
         /\ write.kind \in {"deleteVM", "delete"}
         /\ delete[m].pc # "idle" /\ write.owner = NoUID
<1>0. "deleteVM" \in Kind /\ "delete" \in Kind
  BY DEF Kind
<1>1. CASE delete[m].pc = "vm"
  <2>1. write = Write(m, "deleteVM")
    BY <1>1 DEF DeleteWrites, DeletedRole
  <2> QED BY <1>0, <1>1, <2>1, WriteType DEF Typed
<1>2. CASE delete[m].pc \in {"boot", "cainit", "secret"}
  <2> DEFINE r == DeletedRole[delete[m].pc]
  <2>1. r \in Role
    BY <1>2 DEF DeletedRole, Role, Secrets, Disks
  <2>2. write = WriteOf(m, "delete", r)
    BY <1>2 DEF DeleteWrites, DeletedRole
  <2> HIDE DEF r
  <2> QED BY <1>0, <1>2, <2>1, <2>2, WriteOfType DEF Typed
<1>3. delete[m].pc \in {"vm", "boot", "cainit", "secret"}
  BY DEF DeleteWrites, DeletedRole
<1> QED BY <1>1, <1>2, <1>3
\* What a late write leaves alone.
LEMMA ArrivesFrame ==
  ASSUME TypeInv, NEW write \in late, Arrives(write)
  PROVE  /\ late' = late \ {write}
         /\ UNCHANGED <<disruptions, providerVars, machine, crashes, listed>>
BY DEF Arrives

\* A late write keeps the types.
LEMMA ArrivesType ==
  ASSUME TypeInv, NEW write \in late, Typed(write), Arrives(write)
  PROVE  TypeInv'
<1> DEFINE m == write.machine
<1>1. m \in Machines /\ write.owner \in Nat
  BY DEF Typed, Request
<1>2. APITypeOK /\ class[m] \in Classes
  BY <1>1, CallTypes DEF TypeInv, TypeOK
<1>3. /\ vm' \in [Machines -> VM] /\ born' \in [Machines -> Nat]
      /\ res' \in [Machines -> [Role -> Resource]]
  <2> USE DEF APITypeOK
  <2>1. CASE write.kind = "createVM"
    <3>1. CreateVM(m, AutoDeleted(class[m]), VMLabels(class[m])) /\ UNCHANGED res
      BY <2>1 DEF Arrives
    <3>2. AutoDeleted(class[m]) \in SUBSET Disks /\ VMLabels(class[m]) \in SUBSET Labels
      BY <1>2, VMShapeType
    <3> QED BY <1>1, <1>2, <3>1, <3>2, CreateVMType
  <2>2. CASE write.kind = "deleteVM"
    <3>1. DeleteVM(m) /\ UNCHANGED <<res, born>>
      BY <2>2 DEF Arrives
    <3> QED BY <1>1, <1>2, <3>1, DeleteVMType
  <2>3. CASE write.kind = "create"
    <3>1. CreateResource(m, write.r, write.body, write.owner) /\ UNCHANGED <<vm, born>>
      BY <2>3 DEF Arrives
    <3>2. write.r \in Role /\ write.body \in Payloads
      BY <2>3 DEF Typed
    <3> QED BY <1>1, <1>2, <3>1, <3>2, CreateResourceType
  <2>4. CASE write.kind = "update"
    <3>1. UpdateOwner(m, write.r, write.owner) \/ UNCHANGED res
      BY <2>4 DEF Arrives
    <3>2. write.r \in Role /\ UNCHANGED <<vm, born>>
      BY <2>4 DEF Typed, Arrives
    <3> QED BY <1>1, <1>2, <3>1, <3>2, UpdateOwnerType
  <2>5. CASE write.kind = "delete"
    <3>1. DeleteResource(m, write.r) /\ UNCHANGED <<vm, born>> /\ write.r \in Role
      BY <2>5 DEF Typed, Arrives
    <3> QED BY <1>1, <1>2, <3>1, DeleteResourceType
  <2> QED BY <2>1, <2>2, <2>3, <2>4, <2>5 DEF Arrives
<1> QED
  BY <1>2, <1>3, ArrivesFrame, CallOKKept
  DEF TypeInv, TypeOK, APITypeOK, ProviderTypeOK, providerVars

\* The writes on their way: one more, or one less.
LEMMA DelayedType ==
  ASSUME LateTypeInv, NEW writes, \A write \in writes : Typed(write), Delayed(writes)
  PROVE  /\ \A write \in late' : Typed(write)
         /\ IsFiniteSet(late)' /\ (Cardinality(late) <= MaxLate)'
<1>1. PICK write \in writes : late' = late \cup {write}
  BY DEF Delayed
<1>2. /\ IsFiniteSet(late) /\ Cardinality(late) \in Nat
      /\ Cardinality(late) < MaxLate /\ MaxLate \in Nat
  BY FS_CardinalityType, LateAssumption DEF LateTypeInv, Delayed
<1>3. /\ IsFiniteSet(late \cup {write})
      /\ Cardinality(late \cup {write}) \in {Cardinality(late), Cardinality(late) + 1}
  BY <1>2, FS_AddElement
<1> QED BY <1>1, <1>2, <1>3 DEF LateTypeInv

LEMMA ArrivedType ==
  ASSUME LateTypeInv, NEW write \in late, late' = late \ {write}
  PROVE  /\ \A other \in late' : Typed(other)
         /\ IsFiniteSet(late)' /\ (Cardinality(late) <= MaxLate)'
<1>1. /\ IsFiniteSet(late) /\ Cardinality(late) \in Nat
      /\ Cardinality(late) <= MaxLate /\ MaxLate \in Nat
  BY FS_CardinalityType, LateAssumption DEF LateTypeInv
<1>2. /\ IsFiniteSet(late \ {write})
      /\ Cardinality(late \ {write}) = Cardinality(late) - 1
  BY <1>1, FS_RemoveElement
<1> QED BY <1>1, <1>2 DEF LateTypeInv

\* The types of a step of the safety controller.
LEMMA ControllerType ==
  ASSUME TypeInv, listed \subseteq Machines, NEW m \in Machines,
         ListMachines(m) \/ SkipBacked(m) \/ StartOrphanDelete(m)
  PROVE  TypeInv' /\ listed' \subseteq Machines
<1>1. CASE ListMachines(m)
  <2>1. faults' \in 0 .. MaxFaults
    BY <1>1, FaultType DEF ListMachines, TypeInv, TypeOK, ProviderTypeOK
  <2>2. TypeInv'
    BY <1>1, <2>1, CallOKKept
    DEF ListMachines, apiVars, TypeInv, TypeOK, APITypeOK, ProviderTypeOK
  <2> QED BY <1>1, <2>2 DEF ListMachines, Listed
<1>2. CASE SkipBacked(m)
  BY <1>2, NextType DEF SkipBacked
<1>3. CASE StartOrphanDelete(m)
  <2>1. [pc |-> "client", result |-> "None"] \in DeleteCall
    BY DEF DeleteCall, DeletePC, Code
  <2> QED
    BY <1>3, <2>1, CallOKKept
    DEF StartOrphanDelete, apiVars, TypeInv, TypeOK, APITypeOK, ProviderTypeOK
<1> QED BY <1>1, <1>2, <1>3

\* A call that is lost has taken one of its steps.
LEMMA LostIsStep ==
  ASSUME NEW m \in Machines, CallLost(m)
  PROVE  MachineNext(m) /\ UNCHANGED listed
BY DEF CallLost, Driver, MachineNext

\* Every step keeps the types.
LEMMA LateNextType ==
  ASSUME LateTypeInv, [LateNext]_lateVars
  PROVE  LateTypeInv'
<1> USE DEF LateTypeInv
<1>1. ASSUME NEW m \in Machines, MachineNext(m) PROVE TypeInv'
  BY <1>1, NextType DEF Next
<1>2. CASE SafetyNext /\ UNCHANGED late
  <2>1. CASE Crash /\ listed' = {}
    BY <1>2, <2>1, CrashType
  <2>2. ASSUME NEW m \in Machines, MachineNext(m), UNCHANGED listed
        PROVE  LateTypeInv'
    BY <1>1, <1>2, <2>2
  <2>3. ASSUME NEW m \in Machines,
               ListMachines(m) \/ SkipBacked(m) \/ StartOrphanDelete(m)
        PROVE  LateTypeInv'
    BY <1>2, <2>3, ControllerType
  <2> QED BY <1>2, <2>1, <2>2, <2>3 DEF SafetyNext
<1>3. CASE DiesSending
  <2>1. \A m \in Machines : \A write \in CreateWrites(m) \cup DeleteWrites(m) : Typed(write)
    BY CreateWritesType, DeleteWritesType
  <2>2. \A write \in UNION {CreateWrites(m) \cup DeleteWrites(m) : m \in Machines} : Typed(write)
    BY <2>1
  <2> QED BY <1>3, <2>2, CrashType, DelayedType DEF DiesSending
<1>4. ASSUME NEW m \in Machines, CallLost(m) PROVE LateTypeInv'
  <2>1. \/ Delayed(CreateWrites(m)) \/ Delayed(DeleteWrites(m))
    BY <1>4 DEF CallLost
  <2>2. /\ \A write \in CreateWrites(m) : Typed(write)
        /\ \A write \in DeleteWrites(m) : Typed(write)
    BY CreateWritesType, DeleteWritesType
  <2> QED BY <1>1, <1>4, <2>1, <2>2, LostIsStep, DelayedType
<1>5. ASSUME NEW write \in late, Arrives(write) PROVE LateTypeInv'
  BY <1>5, ArrivesType, ArrivesFrame, ArrivedType
<1>6. CASE UNCHANGED lateVars
  BY <1>6, NextType DEF lateVars, safetyVars
<1> QED BY <1>2, <1>3, <1>4, <1>5, <1>6 DEF LateNext

\* The types hold at the start: a foreign VM is a VM.
LEMMA LateInitType == LateInit => LateTypeInv
<1> SUFFICES ASSUME LateInit PROVE LateTypeInv
  OBVIOUS
<1>1. ForeignVM \in VM /\ NoVM \in VM /\ NoResource \in Resource
  BY ForeignAssumption
  DEF ForeignVM, NoVM, VM, NoResource, Resource, NoUID, Status
<1>2. vm \in [Machines -> VM]
  BY <1>1 DEF LateInit, SafetyInit
<1>3. born \in [Machines -> Nat]
  BY <1>2 DEF LateInit, SafetyInit, VM
<1>4. APITypeOK
  BY <1>1, <1>2, <1>3, DisruptionAssumption DEF LateInit, SafetyInit, APITypeOK
<1>5. ASSUME NEW n \in Machines
      PROVE  /\ CreateReturned("None") \in CreateCall
             /\ DeleteReturned("None") \in DeleteCall
  BY <1>5, ReturnedType DEF NextCall, Code
<1>6. ProviderTypeOK
  BY <1>5, BoundAssumption DEF LateInit, SafetyInit, ProviderInit, ProviderTypeOK, NoUID
<1>7. ASSUME NEW n \in Machines PROVE CallOK(n)
  BY DEF LateInit, SafetyInit, ProviderInit, CallOK, CreateReturned
<1>8. TypeInv
  BY <1>4, <1>6, <1>7, ControllerAssumption
  DEF LateInit, SafetyInit, TypeInv, TypeOK, Phase
<1>9. listed \subseteq Machines /\ IsFiniteSet(late) /\ Cardinality(late) <= MaxLate
  BY FS_EmptySet, LateAssumption DEF LateInit, SafetyInit
<1> QED BY <1>8, <1>9 DEF LateTypeInv, LateInit

LEMMA LateTypes == LateSpec => []LateTypeInv
BY LateInitType, LateNextType, PTL DEF LateSpec

\* Types: what is on its way is a request that its kind allows, and never more
\* than the bound; everything else keeps its type although writes arrive when no
\* call is at work.
THEOREM LateTypeCorrect == LateSpec => []LateTypeOK
<1>1. LateTypeInv => LateTypeOK
  BY DEF LateTypeInv, LateTypeOK, TypeInv, Typed
<1> QED BY <1>1, LateTypes, PTL
-----------------------------------------------------------------------------
(* What was reported stays complete.  Without the order of calls that      *)
(* Serial gives, a call may hold a VM that is gone and was followed by     *)
(* another.  What protects the dependants of the newer one is that no call *)
(* and no write on its way names a VM newer than the one it was made for,  *)
(* and that an update replaces only an older owner.                        *)

Wanted(m) == machine[m] \in {"wanted", "ready"}

\* No owner reference of the machine, set or on its way, is to a VM after uid.
NoneNewer(m, uid) ==
  /\ \A r \in Role : res[m][r].owner <= uid
  /\ \A write \in late : write.machine = m => write.owner <= uid

\* The VM that exists is the newest; what a call holds may be an older one, but
\* then there is nothing yet of the newer.
Order(m) ==
  /\ vm[m].uid \in {NoUID, born[m]}
  /\ reported[m] <= born[m]
  /\ NoneNewer(m, born[m])
  /\ HoldsVM(m) => create[m].uid <= born[m] /\ NoneNewer(m, create[m].uid)

\* An update is based on an object that exists and has an older owner or none.
Supersedes(uid, read) == read.body # NoPayload /\ read.owner < uid

UpdatesSupersede(m) ==
  /\ create[m].pc = "write" /\ create[m].read # NoResource =>
       Supersedes(create[m].uid, create[m].read)
  /\ \A write \in late :
       write.machine = m /\ write.kind = "update" => Supersedes(write.owner, write.read)

\* Nothing of a deletion is at work, or on its way, while the machine is wanted.
NoDeletion(m) ==
  Wanted(m) =>
    /\ delete[m].pc = "idle"
    /\ \A write \in late : write.machine = m => write.kind # "delete"

LateMachineInv(m) ==
  /\ Order(m) /\ UpdatesSupersede(m) /\ WellFormed(m) /\ NoDeletion(m)
  /\ Wanted(m) => Progress(m)

LateInv == LateTypeInv /\ \A m \in Machines : LateMachineInv(m)

\* The numbers of a machine and its writes.
LEMMA LateNumbers ==
  ASSUME LateTypeInv, NEW m \in Machines
  PROVE  /\ vm[m].uid \in Nat /\ born[m] \in Nat /\ reported[m] \in Nat
         /\ create[m].uid \in Nat
         /\ \A r \in Role : res[m][r] \in Resource /\ res[m][r].owner \in Nat
         /\ \A write \in late : write.owner \in Nat /\ write.read \in Resource
                                /\ write.machine \in Machines
BY Numbers, CallTypes DEF LateTypeInv, Typed, Request, Resource

\* A machine none of whose state changes, and for which no write is added, keeps
\* its invariant.
LEMMA LateSame ==
  ASSUME NEW n \in Machines, LateMachineInv(n), Same(n),
         \A write \in late' : write.machine = n => write \in late
  PROVE  LateMachineInv(n)'
BY DEF Same, LateMachineInv, Order, NoneNewer, UpdatesSupersede, WellFormed,
       NoDeletion, Wanted, Progress, OwnedUpTo, OwnedBy, HoldsVM, HasVM, Exists, Last

\* Which writes of a machine may be on their way after a step.
NewWrites(m) ==
  \A write \in late' : write.machine = m =>
    \/ write \in late
    \/ write \in CreateWrites(m) /\ create'[m].pc = "idle"
    \/ write \in DeleteWrites(m)

\* The parts that speak of late writes, after a step of the machine that sets no
\* owner but the VM its call holds.
LEMMA WritesKept ==
  ASSUME LateTypeInv, NEW m \in Machines, LateMachineInv(m), NewWrites(m),
         born'[m] \in Nat, born[m] <= born'[m], OwnersGrow(m),
         create'[m].pc \in {"read", "write", "poll"} =>
           \/ HoldsVM(m) /\ create'[m].uid = create[m].uid
           \/ create'[m].uid = born[m],
         Wanted(m)' => Wanted(m)
  PROVE  /\ NoneNewer(m, born[m])'
         /\ HoldsVM(m)' => create'[m].uid <= born'[m] /\ NoneNewer(m, create[m].uid)'
         /\ \A write \in late' : write.machine = m /\ write.kind = "update" =>
              Supersedes(write.owner, write.read)
         /\ Wanted(m)' => \A write \in late' : write.machine = m => write.kind # "delete"
<1> USE DEF LateMachineInv, Order
<1>0. TypeInv
  BY DEF LateTypeInv
<1>1. /\ born[m] \in Nat /\ create[m].uid \in Nat
      /\ \A r \in Role : res[m][r].owner \in Nat
      /\ \A write \in late : write.owner \in Nat
  BY LateNumbers
<1>2. ASSUME NEW write \in late', write.machine = m
      PROVE  \/ write \in late
             \/ /\ write.owner = NoUID \/ (HoldsVM(m) /\ write.owner = create[m].uid)
                /\ create'[m].pc = "idle" \/ write.owner = NoUID
                /\ write.kind = "update" => Supersedes(write.owner, write.read)
                /\ Wanted(m) => write.kind # "delete"
  <2>1. CASE write \in CreateWrites(m) /\ create'[m].pc = "idle"
    <3>1. write.kind = "update" => Supersedes(write.owner, write.read)
      BY <1>0, <2>1, CreateWritesType DEF UpdatesSupersede
    <3> QED BY <1>0, <2>1, <3>1, CreateWritesType
  <2>2. CASE write \in DeleteWrites(m)
    BY <1>0, <2>2, DeleteWritesType DEF NoDeletion
  <2> QED BY <1>2, <2>1, <2>2 DEF NewWrites
<1>3. ASSUME NEW uid \in Nat, NoneNewer(m, uid), HoldsVM(m) => create[m].uid <= uid,
             NEW r \in Role
      PROVE  res'[m][r].owner <= uid
  BY <1>1, <1>3 DEF OwnersGrow, NoneNewer, NoUID
<1>4. ASSUME NEW uid \in Nat, NoneNewer(m, uid), HoldsVM(m) => create[m].uid <= uid,
             NEW write \in late', write.machine = m
      PROVE  write.owner <= uid
  BY <1>1, <1>2, <1>4 DEF NoneNewer, NoUID
<1>5. NoneNewer(m, born[m])'
  <2>1. \A r \in Role : res'[m][r].owner <= born[m] /\ res'[m][r].owner \in Nat
    BY <1>1, <1>3 DEF OwnersGrow, NoUID
  <2>2. \A write \in late' : write.machine = m =>
          write.owner <= born[m] /\ write.owner \in Nat
    BY <1>1, <1>2, <1>4 DEF NoUID
  <2> QED BY <1>1, <2>1, <2>2 DEF NoneNewer
<1>6. ASSUME HoldsVM(m)'
      PROVE  create'[m].uid <= born'[m] /\ NoneNewer(m, create[m].uid)'
  <2>1. create'[m].uid \in Nat /\ NoneNewer(m, create'[m].uid)
        /\ (HoldsVM(m) => create[m].uid <= create'[m].uid)
        /\ create'[m].uid <= born[m]
    BY <1>1, <1>6 DEF HoldsVM
  <2> QED BY <1>1, <1>3, <1>4, <2>1 DEF NoneNewer
<1>7. \A write \in late' : write.machine = m /\ write.kind = "update" =>
        Supersedes(write.owner, write.read)
  BY <1>2 DEF UpdatesSupersede
<1>8. Wanted(m)' => \A write \in late' : write.machine = m => write.kind # "delete"
  BY <1>2 DEF NoDeletion
<1> QED BY <1>5, <1>6, <1>7, <1>8

\* Only the Get of CreateOrUpdate leads to a write, with what it found, and only
\* if that is not owned already.
LEMMA BeforeWrite ==
  ASSUME TypeInv, NEW m \in Machines, WellFormed(m), CreateStep(m),
         create'[m].pc = "write"
  PROVE  /\ HoldsVM(m) /\ create'[m].uid = create[m].uid
         /\ \E r \in Role :
              /\ create'[m].read = res[m][r]
              /\ create'[m].read # NoResource =>
                   res[m][r].body # NoPayload /\ res[m][r].owner # create[m].uid
<1>1. ownRead(m)
  BY PreparesOutcome, EnsureOutcome, CreateVMOutcome, GetVMOutcome, OwnWriteOutcome,
     PollOutcome
  DEF CreateStep, Failed, Goes, Advances, Succeeds
<1> DEFINE c == create[m]
           r == OwnSeq(class[m])[c.i]
           call == [c EXCEPT !.pc = "write", !.read = res[m][r],
                             !.versioned = IF Exists(m, r)
                                           THEN @ \cup ({r} \cap Secrets)
                                           ELSE @]
<1>2. c.pc = "read" /\ r \in Role
  BY <1>1, OwnRole DEF ownRead
<1>3. \/ CreateFails(m, "Internal")
      \/ OwnNext(m)
      \/ ~OwnerIsRight(m, r) /\ CreateContinues(m, call)
  BY <1>1 DEF ownRead
<1>4. ~CreateFails(m, "Internal")
  BY FailsOutcome DEF Failed
<1>5. ~OwnNext(m)
  BY <1>2, OwnNextOutcome DEF Advances, Goes, Succeeds
<1>6. call.read = res[m][r] /\ call.uid = c.uid
  BY CallTypes DEF CreateCall
<1> HIDE DEF call
<1>7. create'[m].read = res[m][r] /\ create'[m].uid = c.uid /\ ~OwnerIsRight(m, r)
  BY <1>3, <1>4, <1>5, <1>6, ContinuesOutcome
<1>8. res[m][r] # NoResource => res[m][r].body # NoPayload
  BY <1>2 DEF WellFormed, Exists
<1> QED BY <1>2, <1>7, <1>8 DEF OwnerIsRight, HoldsVM, Exists
\* CreateMachine keeps the invariant of its machine, whichever VM it holds.
LEMMA LateCreateStep ==
  ASSUME LateTypeInv, NEW m \in Machines, LateMachineInv(m), CreateStep(m),
         UNCHANGED machine, LateTypeInv', NewWrites(m)
  PROVE  LateMachineInv(m)'
<1> USE DEF LateMachineInv
<1>0. TypeInv /\ UNCHANGED <<class, delete>> /\ create[m].pc # "idle"
  BY CreateStepFrame DEF LateTypeInv
<1>1. /\ vm[m].uid \in Nat /\ born[m] \in Nat /\ reported[m] \in Nat
      /\ create[m].uid \in Nat /\ born'[m] \in Nat
      /\ \A r \in Role : res[m][r].owner \in Nat
  <2>1. born'[m] \in Nat
    BY DEF LateTypeInv, TypeInv, TypeOK, APITypeOK
  <2> QED BY <2>1, LateNumbers
<1>2. NotAhead(m)
  BY <1>1 DEF Order, NoneNewer, NotAhead, OwnedBy, HasVM, NoUID
<1>3. /\ KeepsOwned(m) /\ WellFormed(m)' /\ OwnersGrow(m)
      /\ \/ Moves(m) /\ vm'[m].uid = vm[m].uid /\ UNCHANGED born
         \/ Stored(m)
  BY <1>0, <1>2, CreateStepMoves
<1>4. Wanted(m)' <=> Wanted(m)
  BY DEF Wanted
<1>5. /\ create'[m].pc \in {"read", "write", "poll"} =>
           \/ HoldsVM(m) /\ create'[m].uid = create[m].uid
           \/ create'[m].uid = born[m]
      /\ reported'[m] = reported[m] \/ (HoldsVM(m) /\ reported'[m] = create[m].uid)
  <2>1. CASE Failed(m)
    BY <2>1 DEF Failed
  <2>2. CASE Goes(m, CreatePC \ {"idle", "read", "write", "poll"})
    BY <2>2 DEF Goes
  <2>3. CASE /\ HasVM(m) /\ create'[m].uid = vm[m].uid
             /\ reported'[m] = reported[m]
    BY <2>3 DEF Order, HasVM
  <2>4. CASE HoldsVM(m) /\ Goes(m, {"read", "write", "poll"})
    BY <2>4 DEF Goes
  <2>5. CASE HoldsVM(m) /\ Succeeds(m)
    BY <2>5 DEF Succeeds
  <2>6. CASE Stored(m)
    BY <2>6 DEF Stored, Failed, Goes
  <2> QED
    BY <1>3, <2>1, <2>2, <2>3, <2>4, <2>5, <2>6 DEF Moves, Advances, Goes, HoldsVM
<1>6. /\ born[m] <= born'[m] /\ vm'[m].uid \in {NoUID, born'[m]}
  BY <1>1, <1>3 DEF Stored, Order
<1>7. /\ NoneNewer(m, born[m])'
      /\ HoldsVM(m)' => create'[m].uid <= born'[m] /\ NoneNewer(m, create[m].uid)'
      /\ \A write \in late' : write.machine = m /\ write.kind = "update" =>
           Supersedes(write.owner, write.read)
      /\ Wanted(m)' => \A write \in late' : write.machine = m => write.kind # "delete"
  BY <1>1, <1>3, <1>4, <1>5, <1>6, WritesKept
<1>8. Order(m)'
  <2>1. reported'[m] <= born'[m]
    BY <1>1, <1>5, <1>6 DEF Order
  <2> QED BY <1>6, <1>7, <2>1 DEF Order
<1>9. UpdatesSupersede(m)'
  <2>1. ASSUME create'[m].pc = "write", create'[m].read # NoResource
        PROVE  Supersedes(create'[m].uid, create'[m].read)
    <3>1. PICK r \in Role :
            /\ create'[m].read = res[m][r]
            /\ res[m][r].body # NoPayload /\ res[m][r].owner # create[m].uid
      BY <1>0, <2>1, BeforeWrite
    <3>2. HoldsVM(m) /\ create'[m].uid = create[m].uid
      BY <1>0, <2>1, BeforeWrite
    <3>3. res[m][r].owner <= create[m].uid
      BY <3>2 DEF Order, NoneNewer
    <3> QED BY <1>1, <3>1, <3>2, <3>3 DEF Supersedes
  <2> QED BY <1>7, <2>1 DEF UpdatesSupersede
<1>10. NoDeletion(m)'
  BY <1>0, <1>4, <1>7 DEF NoDeletion
<1>11. Wanted(m)' => Progress(m)'
  BY <1>0, <1>3, <1>4, MovesProgress, StoredProgress DEF Order
<1> QED BY <1>3, <1>8, <1>9, <1>10, <1>11

\* A step of others that leaves the call alone and takes nothing from a VM.
LEMMA LateStoreStep ==
  ASSUME LateTypeInv, NEW m \in Machines, LateMachineInv(m),
         UNCHANGED <<class, create, reported, machine>>,
         born[m] <= born'[m], born'[m] \in Nat, vm'[m].uid \in {NoUID, born'[m]},
         WellFormed(m)', NoneNewer(m, born[m])',
         HoldsVM(m) => NoneNewer(m, create[m].uid)',
         \A write \in late' : write.machine = m =>
           /\ write.kind = "update" => Supersedes(write.owner, write.read)
           /\ write.kind = "delete" => ~Wanted(m),
         Wanted(m) => delete'[m].pc = "idle",
         Wanted(m) /\ HasVM(m)' =>
           \/ vm'[m].uid = vm[m].uid /\ KeepsOwned(m)
           \/ born[m] < vm'[m].uid
  PROVE  LateMachineInv(m)'
<1> USE DEF LateMachineInv
<1>0. TypeInv
  BY DEF LateTypeInv
<1>1. /\ vm[m].uid \in Nat /\ born[m] \in Nat /\ reported[m] \in Nat
      /\ create[m].uid \in Nat
  BY LateNumbers
<1>2. Order(m)' /\ UpdatesSupersede(m)'
  BY <1>1 DEF Order, UpdatesSupersede, HoldsVM
<1>3. NoDeletion(m)'
  BY DEF NoDeletion, Wanted
<1>4. ASSUME Wanted(m), HasVM(m)' PROVE Progress(m)'
  <2>1. CASE vm'[m].uid = vm[m].uid /\ KeepsOwned(m)
    <3>1. \A j \in 1 .. Last(m) : OwnSeq(class[m])[j] \in Role
      BY <1>0, Numbers
    <3> QED
      BY <1>4, <2>1, <3>1
      DEF Progress, KeepsOwned, OwnedUpTo, OwnedBy, HasVM, Exists, Last
  <2>2. CASE born[m] < vm'[m].uid
    <3>1. reported'[m] # vm'[m].uid /\ (HoldsVM(m)' => create'[m].uid # vm'[m].uid)
      BY <1>1, <2>2 DEF Order, HoldsVM
    <3> QED BY <3>1 DEF Progress, HoldsVM
  <2> QED BY <1>4, <2>1, <2>2
<1> QED BY <1>2, <1>3, <1>4 DEF Wanted, Progress

\* DeleteMachine keeps the invariant of its machine, which is not wanted.
LEMMA LateDeleteStep ==
  ASSUME LateTypeInv, NEW m \in Machines, LateMachineInv(m), DeleteStep(m),
         UNCHANGED machine, NewWrites(m)
  PROVE  LateMachineInv(m)'
<1> USE DEF LateMachineInv
<1>0. TypeInv /\ born[m] \in Nat
  BY LateNumbers DEF LateTypeInv
<1>1. /\ UNCHANGED <<class, create, reported, born>> /\ vm'[m].uid = vm[m].uid
      /\ delete[m].pc # "idle"
      /\ \A r \in Role : res'[m][r] \in {res[m][r], NoResource}
  BY <1>0, DeleteOutcome
<1>2. ~Wanted(m) /\ ~Wanted(m)'
  BY <1>1 DEF NoDeletion, Wanted
<1>3. WellFormed(m)' /\ OwnersGrow(m)
  BY <1>1 DEF WellFormed, Exists, OwnersGrow, NoResource
<1>4. /\ NoneNewer(m, born[m])'
      /\ HoldsVM(m)' => NoneNewer(m, create[m].uid)'
      /\ \A write \in late' : write.machine = m /\ write.kind = "update" =>
           Supersedes(write.owner, write.read)
  <2>1. create'[m].pc \in {"read", "write", "poll"} =>
          HoldsVM(m) /\ create'[m].uid = create[m].uid
    BY <1>1 DEF HoldsVM
  <2> QED BY <1>0, <1>1, <1>2, <1>3, <2>1, WritesKept
<1> QED BY <1>0, <1>1, <1>2, <1>3, <1>4, LateStoreStep DEF Order, HoldsVM

\* The server's own steps keep the invariant of the machine.
LEMMA LateEnvironment ==
  ASSUME LateTypeInv, NEW m \in Machines, LateMachineInv(m), Environment(m),
         late' = late
  PROVE  LateMachineInv(m)'
<1> USE DEF LateMachineInv
<1>0. TypeInv /\ born[m] \in Nat
  BY LateNumbers DEF LateTypeInv
<1>1. /\ UNCHANGED <<class, create, delete, reported, machine, born>>
      /\ vm'[m].uid \in {vm[m].uid, NoUID}
      /\ \A r \in Role :
           \/ res'[m][r] = res[m][r]
           \/ /\ res'[m][r] = NoResource
              /\ \/ vm'[m].uid = NoUID
                 \/ res[m][r].owner \notin {NoUID, vm[m].uid}
  BY <1>0, EnvironmentOutcome
<1>2. WellFormed(m)' /\ OwnersGrow(m)
  BY <1>1 DEF WellFormed, Exists, OwnersGrow, NoResource
<1>3. NewWrites(m) /\ (Wanted(m)' <=> Wanted(m))
  BY <1>1 DEF NewWrites, Wanted
<1>4. /\ NoneNewer(m, born[m])'
      /\ HoldsVM(m)' => NoneNewer(m, create[m].uid)'
  <2>1. create'[m].pc \in {"read", "write", "poll"} =>
          HoldsVM(m) /\ create'[m].uid = create[m].uid
    BY <1>1 DEF HoldsVM
  <2> QED BY <1>0, <1>1, <1>2, <1>3, <2>1, WritesKept
<1>5. HasVM(m)' => vm'[m].uid = vm[m].uid /\ KeepsOwned(m)
  BY <1>1 DEF HasVM, KeepsOwned, OwnedBy, Exists
<1>6. /\ vm'[m].uid \in {NoUID, born'[m]} /\ born[m] <= born'[m] /\ born'[m] \in Nat
      /\ Wanted(m) => delete'[m].pc = "idle"
      /\ \A write \in late' : write.machine = m =>
           /\ write.kind = "update" => Supersedes(write.owner, write.read)
           /\ write.kind = "delete" => ~Wanted(m)
  BY <1>0, <1>1 DEF Order, NoDeletion, UpdatesSupersede
<1> QED BY <1>1, <1>2, <1>4, <1>5, <1>6, LateStoreStep DEF HoldsVM

\* A step that leaves the store alone, and the call or ends or begins it.
LEMMA LateQuietStep ==
  ASSUME LateTypeInv, NEW m \in Machines, LateMachineInv(m),
         UNCHANGED <<vm, res, born, reported, class>>,
         create'[m] = create[m] \/ create'[m].pc \in {"idle", "client"},
         Wanted(m)' => Wanted(m) /\ delete'[m].pc = "idle",
         NewWrites(m)
  PROVE  LateMachineInv(m)'
<1> USE DEF LateMachineInv
<1>0. born[m] \in Nat
  BY LateNumbers
<1>1. WellFormed(m)' /\ OwnersGrow(m)
  BY DEF WellFormed, Exists, OwnersGrow
<1>2. create'[m].pc \in {"read", "write", "poll"} =>
        HoldsVM(m) /\ create'[m].uid = create[m].uid /\ create'[m] = create[m]
  BY DEF HoldsVM
<1>3. /\ NoneNewer(m, born[m])'
      /\ HoldsVM(m)' => create'[m].uid <= born'[m] /\ NoneNewer(m, create[m].uid)'
      /\ \A write \in late' : write.machine = m /\ write.kind = "update" =>
           Supersedes(write.owner, write.read)
      /\ Wanted(m)' => \A write \in late' : write.machine = m => write.kind # "delete"
  BY <1>0, <1>1, <1>2, WritesKept
<1>4. Order(m)' /\ NoDeletion(m)'
  BY <1>3 DEF Order, NoDeletion
<1>5. UpdatesSupersede(m)'
  BY <1>2, <1>3 DEF UpdatesSupersede
<1>6. Progress(m) => Progress(m)'
  BY <1>2 DEF Progress, OwnedUpTo, OwnedBy, HasVM, Exists, Last
<1> QED BY <1>1, <1>4, <1>5, <1>6

\* The caller keeps the invariant of the machine: deletions begin only when it
\* is not wanted.
LEMMA LateCaller ==
  ASSUME LateTypeInv, NEW m \in Machines, LateMachineInv(m), late' = late,
         \/ StartCreate(m) \/ RecordCreated(m) \/ RequestDeletion(m)
         \/ StartDelete(m) \/ RecordDeleted(m)
  PROVE  LateMachineInv(m)'
<1>0. /\ UNCHANGED <<vm, res, born, class, reported>> /\ NewWrites(m)
      /\ Wanted(m) => delete[m].pc = "idle"
  BY DEF StartCreate, RecordCreated, RequestDeletion, StartDelete, RecordDeleted,
         apiVars, providerVars, NewWrites, LateMachineInv, NoDeletion
<1>1. /\ create \in [Machines -> CreateCall] /\ machine \in [Machines -> Phase]
  BY DEF LateTypeInv, TypeInv, TypeOK, ProviderTypeOK
<1>2. create'[m] = create[m] \/ create'[m].pc \in {"idle", "client"}
  <2>1. CASE StartCreate(m)
    <3>1. PICK data \in UserData :
            create' = [create EXCEPT ![m] = [CreateReturned("None") EXCEPT
                         !.pc = "client", !.userData = data]]
      BY <2>1 DEF StartCreate
    <3> QED BY <1>1, <3>1 DEF CreateReturned
  <2>2. CASE RecordCreated(m)
    BY <1>1, <2>2 DEF RecordCreated, CreateReturned
  <2> QED
    BY <2>1, <2>2 DEF RequestDeletion, StartDelete, RecordDeleted, providerVars
<1>3. Wanted(m)' => Wanted(m) /\ delete'[m].pc = "idle"
  <2>1. CASE StartCreate(m) \/ RecordCreated(m)
    BY <1>0, <2>1 DEF StartCreate, RecordCreated, Wanted
  <2>2. CASE RequestDeletion(m) \/ StartDelete(m) \/ RecordDeleted(m)
    BY <1>1, <2>2 DEF RequestDeletion, StartDelete, RecordDeleted, Wanted
  <2> QED BY <2>1, <2>2
<1> QED BY <1>0, <1>2, <1>3, LateQuietStep

\* So does the death of the process, whatever it was sending.
LEMMA LateCrash ==
  ASSUME LateTypeInv, NEW m \in Machines, LateMachineInv(m), Crash, NewWrites(m)
  PROVE  LateMachineInv(m)'
<1>1. /\ create'[m].pc = "idle" /\ delete'[m].pc = "idle"
      /\ UNCHANGED <<vm, res, born, class, reported, machine>>
  BY DEF Crash, CreateReturned, DeleteReturned, apiVars
<1> QED BY <1>1, LateQuietStep DEF Wanted

\* And the safety controller, for every machine.
LEMMA LateController ==
  ASSUME LateTypeInv, NEW m \in Machines, NEW n \in Machines, LateMachineInv(n),
         ListMachines(m) \/ SkipBacked(m) \/ StartOrphanDelete(m), late' = late
  PROVE  LateMachineInv(n)'
<1>0. delete \in [Machines -> DeleteCall]
  BY DEF LateTypeInv, TypeInv, TypeOK, ProviderTypeOK
<1>1. CASE ListMachines(m) \/ SkipBacked(m)
  <2>1. Same(n)
    BY <1>1 DEF ListMachines, SkipBacked, Same, vars, apiVars, providerVars
  <2> QED BY <2>1, LateSame
<1>2. CASE StartOrphanDelete(m)
  <2>1. /\ UNCHANGED <<vm, res, born, class, create, reported, machine>>
        /\ n # m => delete'[n] = delete[n]
        /\ machine[m] = "gone"
    BY <1>0, <1>2 DEF StartOrphanDelete, apiVars
  <2>2. CASE n # m
    <3>1. Same(n)
      BY <2>1, <2>2 DEF Same
    <3> QED BY <3>1, LateSame
  <2>3. CASE n = m
    <3>1. NewWrites(n) /\ ~Wanted(n)'
      BY <2>1, <2>3 DEF NewWrites, Wanted
    <3> QED BY <2>1, <3>1, LateQuietStep
  <2> QED BY <2>2, <2>3
<1> QED BY <1>1, <1>2

\* A write on its way is of a machine.
LEMMA LateWriter ==
  ASSUME LateTypeInv, NEW write \in late
  PROVE  write.machine \in Machines /\ write.owner \in Nat
BY DEF LateTypeInv, Typed, Request

\* What a late write does to the dependants of its machine: it sets only the
\* owner it carries, and takes nothing from the newest VM of a machine that is
\* wanted.
LEMMA ArrivesOutcome ==
  ASSUME LateTypeInv, NEW write \in late, LateMachineInv(write.machine), Arrives(write)
  PROVE  LET m == write.machine
         IN  /\ \A r \in Role : res'[m][r].owner \in {res[m][r].owner, write.owner, NoUID}
             /\ WellFormed(m)'
             /\ Wanted(m) => KeepsOwned(m)
<1> DEFINE m == write.machine
           r == write.r
<1> USE DEF LateMachineInv
<1>00. m \in Machines /\ write.owner \in Nat
  BY LateWriter
<1>0. /\ m \in Machines /\ write.owner \in Nat /\ WellFormed(m)
      /\ vm[m].uid \in Nat /\ born[m] \in Nat
      /\ res \in [Machines -> [Role -> Resource]]
  BY <1>00, LateNumbers DEF LateTypeInv, TypeInv, TypeOK, APITypeOK
<1>1. ASSUME UNCHANGED res
      PROVE  /\ \A x \in Role : res'[m][x].owner = res[m][x].owner
             /\ WellFormed(m)' /\ KeepsOwned(m)
  BY <1>0, <1>1 DEF WellFormed, Exists, KeepsOwned, OwnedBy
<1>2. CASE write.kind \in {"createVM", "deleteVM"}
  <2>1. UNCHANGED res
    BY <1>2 DEF Arrives
  <2> QED BY <1>1, <2>1
<1>3. CASE write.kind = "create"
  <2>1. /\ CreateResource(m, r, write.body, write.owner)
        /\ r \in Role /\ write.body \in Payloads
    BY <1>3 DEF Arrives, LateTypeInv, Typed
  <2>2. write.body # NoPayload
    BY <2>1, PayloadAssumption
  <2>3. CASE Exists(m, r)
    BY <1>1, <2>1, <2>3 DEF CreateResource
  <2>4. CASE ~Exists(m, r)
    <3>1. /\ res'[m][r] = [body |-> write.body, owner |-> write.owner]
          /\ \A x \in Role \ {r} : res'[m][x] = res[m][x]
      BY <1>0, <2>1, <2>4 DEF CreateResource
    <3>2. \A x \in Role : OwnedBy(m, x, vm[m].uid) => x # r
      BY <2>4 DEF OwnedBy
    <3>3. KeepsOwned(m)
      BY <3>1, <3>2 DEF KeepsOwned, OwnedBy, Exists
    <3> HIDE DEF m, r
    <3>4. WellFormed(m)'
      BY <1>0, <2>2, <3>1 DEF WellFormed, Exists
    <3> QED BY <3>1, <3>3, <3>4 DEF m, r
  <2> QED BY <2>3, <2>4
<1>4. CASE write.kind = "update"
  <2>1. /\ IF Current(write) THEN UpdateOwner(m, r, write.owner) ELSE UNCHANGED res
        /\ r \in Role /\ Supersedes(write.owner, write.read)
    BY <1>4 DEF Arrives, LateTypeInv, Typed, UpdatesSupersede
  <2>2. CASE ~Current(write)
    BY <1>1, <2>1, <2>2
  <2>3. CASE Current(write)
    <3>1. /\ res[m][r].body # NoPayload /\ res[m][r].owner < write.owner
      BY <2>1, <2>3 DEF Current, Supersedes
    <3>2. /\ res'[m][r].body = res[m][r].body /\ res'[m][r].owner = write.owner
          /\ \A x \in Role \ {r} : res'[m][x] = res[m][x]
      BY <1>0, <2>1, <2>3 DEF UpdateOwner, Resource
    <3>3. res[m][r].owner \in Nat /\ write.owner <= born[m]
      BY <1>0, <2>1, LateNumbers DEF Order, NoneNewer
    <3>4. HasVM(m) => vm[m].uid = born[m]
      BY DEF Order, HasVM
    <3>5. KeepsOwned(m)
      BY <1>0, <3>1, <3>2, <3>3, <3>4 DEF KeepsOwned, OwnedBy, Exists
    <3> HIDE DEF m, r
    <3>6. WellFormed(m)'
      BY <1>0, <3>1, <3>2 DEF WellFormed, Exists
    <3> QED BY <3>2, <3>5, <3>6 DEF m, r
  <2> QED BY <2>2, <2>3
<1>5. CASE write.kind = "delete"
  <2>1. DeleteResource(m, r) /\ r \in Role
    BY <1>5 DEF Arrives, LateTypeInv, Typed
  <2>2. /\ res'[m][r] = NoResource /\ \A x \in Role \ {r} : res'[m][x] = res[m][x]
    BY <1>0, <2>1 DEF DeleteResource
  <2>3. ~Wanted(m)
    BY <1>5 DEF NoDeletion
  <2> HIDE DEF m, r
  <2>4. WellFormed(m)'
    BY <1>0, <2>2 DEF WellFormed, Exists
  <2> QED BY <2>2, <2>3, <2>4 DEF NoResource, m, r
<1> QED BY <1>2, <1>3, <1>4, <1>5 DEF Arrives

\* What it does to the VM: it stays, or there was none and there is a new one.
LEMMA ArrivesVM ==
  ASSUME LateTypeInv, NEW write \in late, Arrives(write)
  PROVE  LET m == write.machine
         IN  \/ vm'[m].uid = vm[m].uid /\ born'[m] = born[m]
             \/ ~HasVM(m) /\ vm'[m].uid = born[m] + 1 /\ born'[m] = born[m] + 1
<1> DEFINE m == write.machine
<1>0. /\ m \in Machines /\ vm[m] \in VM
      /\ vm \in [Machines -> VM] /\ born \in [Machines -> Nat]
  BY LateWriter DEF LateTypeInv, TypeInv, TypeOK, APITypeOK
<1>1. CASE write.kind = "createVM"
  <2>1. CreateVM(m, AutoDeleted(class[m]), VMLabels(class[m]))
    BY <1>1 DEF Arrives
  <2> QED BY <1>0, <2>1 DEF CreateVM
<1>2. CASE write.kind = "deleteVM"
  <2>1. DeleteVM(m) /\ UNCHANGED born
    BY <1>2 DEF Arrives
  <2> QED BY <1>0, <2>1 DEF DeleteVM, VM
<1>3. CASE write.kind \in {"create", "update", "delete"}
  BY <1>3 DEF Arrives
<1> QED BY <1>1, <1>2, <1>3 DEF Arrives

\* It leaves the other machines alone.
LEMMA ArrivesOthers ==
  ASSUME LateTypeInv, NEW write \in late, Arrives(write),
         NEW n \in Machines, n # write.machine
  PROVE  Same(n)
<1> DEFINE m == write.machine
<1>0. /\ m \in Machines /\ UNCHANGED <<providerVars, machine>>
      /\ vm \in [Machines -> VM] /\ born \in [Machines -> Nat]
      /\ res \in [Machines -> [Role -> Resource]]
  BY LateWriter, ArrivesFrame DEF LateTypeInv, TypeInv, TypeOK, APITypeOK
<1>1. vm'[n] = vm[n] /\ born'[n] = born[n]
  <2>1. CASE write.kind = "createVM"
    <3>1. CreateVM(m, AutoDeleted(class[m]), VMLabels(class[m]))
      BY <2>1 DEF Arrives
    <3> QED BY <1>0, <3>1 DEF CreateVM
  <2>2. CASE write.kind = "deleteVM"
    BY <1>0, <2>2 DEF Arrives, DeleteVM
  <2>3. CASE write.kind \in {"create", "update", "delete"}
    BY <2>3 DEF Arrives
  <2> QED BY <2>1, <2>2, <2>3 DEF Arrives
<1>2. res'[n] = res[n]
  <2>1. CASE write.kind \in {"createVM", "deleteVM"}
    BY <2>1 DEF Arrives
  <2>2. CASE write.kind \in {"create", "update", "delete"}
    BY <1>0, <2>2 DEF Arrives, CreateResource, UpdateOwner, DeleteResource
  <2> QED BY <2>1, <2>2 DEF Arrives
<1> QED BY <1>0, <1>1, <1>2 DEF Same, providerVars

\* A write that arrives late keeps the invariant of every machine.
LEMMA LateArrives ==
  ASSUME LateTypeInv, NEW write \in late, Arrives(write),
         LateMachineInv(write.machine), NEW n \in Machines, LateMachineInv(n)
  PROVE  LateMachineInv(n)'
<1> DEFINE m == write.machine
<1>0. /\ late' = late \ {write} /\ UNCHANGED <<providerVars, machine>>
  BY ArrivesFrame DEF LateTypeInv
<1>1. CASE n # m
  BY <1>0, <1>1, ArrivesOthers, LateSame
<1>2. CASE n = m
  <2> USE DEF LateMachineInv
  <2>0. /\ m \in Machines /\ UNCHANGED <<class, create, delete, reported, machine>>
        /\ born[m] \in Nat /\ vm[m].uid \in Nat /\ create[m].uid \in Nat
        /\ write.owner \in Nat /\ \A r \in Role : res[m][r].owner \in Nat
    BY <1>0, LateNumbers DEF providerVars
  <2>1. /\ \A r \in Role : res'[m][r].owner \in {res[m][r].owner, write.owner, NoUID}
        /\ WellFormed(m)' /\ (Wanted(m) => KeepsOwned(m))
    BY <1>2, ArrivesOutcome
  <2>2. \/ vm'[m].uid = vm[m].uid /\ born'[m] = born[m]
        \/ ~HasVM(m) /\ vm'[m].uid = born[m] + 1 /\ born'[m] = born[m] + 1
    BY ArrivesVM
  <2>3. ASSUME NEW uid \in Nat, NoneNewer(m, uid)
        PROVE  /\ \A r \in Role : res'[m][r].owner <= uid
               /\ \A other \in late' : other.machine = m => other.owner <= uid
    BY <1>0, <2>0, <2>1, <2>3 DEF NoneNewer, NoUID
  <2> HIDE DEF m
  <2>4. NoneNewer(m, born[m])'
    <3>1. NoneNewer(m, born[m])
      BY <1>2 DEF Order
    <3>2. /\ \A r \in Role : res'[m][r].owner <= born[m] /\ res'[m][r].owner \in Nat
          /\ \A other \in late' : other.machine = m =>
               other.owner <= born[m] /\ other.owner \in Nat
      BY <1>0, <2>0, <2>1, <2>3, <3>1, LateNumbers DEF NoUID
    <3> QED BY <2>0, <2>2, <3>2 DEF NoneNewer
  <2>5. HoldsVM(m) => NoneNewer(m, create[m].uid)'
    BY <1>2, <2>0, <2>3 DEF Order, NoneNewer
  <2>6. /\ born[m] <= born'[m] /\ born'[m] \in Nat /\ vm'[m].uid \in {NoUID, born'[m]}
    BY <1>2, <2>0, <2>2 DEF Order
  <2>7. /\ \A other \in late' : other.machine = m =>
             /\ other.kind = "update" => Supersedes(other.owner, other.read)
             /\ other.kind = "delete" => ~Wanted(m)
        /\ Wanted(m) => delete'[m].pc = "idle"
    BY <1>0, <1>2, <2>0 DEF UpdatesSupersede, NoDeletion
  <2>8. Wanted(m) /\ HasVM(m)' =>
          \/ vm'[m].uid = vm[m].uid /\ KeepsOwned(m)
          \/ born[m] < vm'[m].uid
    BY <2>0, <2>1, <2>2
  <2>9. LateMachineInv(m)
    BY <1>2
  <2>10. LateMachineInv(m)'
    BY <2>0, <2>1, <2>4, <2>5, <2>6, <2>7, <2>8, <2>9, LateStoreStep
  <2> QED BY <1>2, <2>10
<1> QED BY <1>1, <1>2

\* A step of one machine keeps the invariant of every machine.
LEMMA LateMachineStep ==
  ASSUME LateTypeInv, LateTypeInv', NEW m \in Machines, MachineNext(m),
         NEW n \in Machines, LateMachineInv(n),
         late' = late \/ (Driver(m) /\ NewWrites(m)),
         \A write \in late' : write \in late \/ write.machine = m
  PROVE  LateMachineInv(n)'
<1>1. CASE n # m
  <2>1. Same(n)
    BY <1>1, OthersKept DEF LateTypeInv
  <2> QED BY <1>1, <2>1, LateSame
<1>2. CASE n = m
  <2>1. CASE Driver(m)
    <3>1. NewWrites(m)
      BY DEF NewWrites
    <3> QED BY <1>2, <2>1, <3>1, LateCreateStep, LateDeleteStep DEF Driver
  <2>2. CASE ~Driver(m)
    BY <1>2, <2>2, LateEnvironment, LateCaller DEF MachineNext
  <2> QED BY <2>1, <2>2
<1> QED BY <1>1, <1>2

\* The invariant holds at the start, where foreign VMs exist.
LEMMA LateInitInv == LateInit => LateInv
<1> SUFFICES ASSUME LateInit PROVE LateInv
  OBVIOUS
<1>1. ASSUME NEW m \in Machines PROVE LateMachineInv(m)
  <2>1. /\ res[m] = [r \in Role |-> NoResource] /\ reported[m] = NoUID
        /\ create[m].pc = "idle" /\ delete[m].pc = "idle" /\ late = {}
        /\ vm[m] \in {NoVM, ForeignVM} /\ born[m] = vm[m].uid
    BY DEF LateInit, SafetyInit, ProviderInit, CreateReturned, DeleteReturned
  <2>2. vm[m].uid \in {0, 1} /\ born[m] = vm[m].uid
    BY <2>1 DEF NoVM, ForeignVM, NoUID
  <2> HIDE DEF LateInit
  <2>3. Order(m) /\ UpdatesSupersede(m)
    BY <2>1, <2>2 DEF Order, NoneNewer, UpdatesSupersede, HoldsVM, NoResource, NoUID
  <2>4. WellFormed(m) /\ NoDeletion(m) /\ Progress(m)
    BY <2>1, <2>2 DEF WellFormed, NoDeletion, Progress, HasVM
  <2> QED BY <2>3, <2>4 DEF LateMachineInv
<1> QED BY <1>1, LateInitType DEF LateInv

\* Every step keeps it.
LEMMA LateNextInv ==
  ASSUME LateInv, [LateNext]_lateVars
  PROVE  LateInv'
<1>1. LateTypeInv /\ LateTypeInv'
  BY LateNextType DEF LateInv
<1> SUFFICES ASSUME NEW n \in Machines PROVE LateMachineInv(n)'
  BY <1>1 DEF LateInv
<1>2. \A m \in Machines : LateMachineInv(m)
  BY DEF LateInv
<1>3. CASE SafetyNext /\ late' = late
  <2>1. CASE Crash
    <3>1. NewWrites(n)
      BY <1>3 DEF NewWrites
    <3> QED BY <1>1, <1>2, <2>1, <3>1, LateCrash
  <2>2. ASSUME NEW m \in Machines, MachineNext(m)
        PROVE  LateMachineInv(n)'
    BY <1>1, <1>2, <1>3, <2>2, LateMachineStep
  <2>3. ASSUME NEW m \in Machines,
               ListMachines(m) \/ SkipBacked(m) \/ StartOrphanDelete(m)
        PROVE  LateMachineInv(n)'
    BY <1>1, <1>2, <1>3, <2>3, LateController
  <2> QED BY <1>3, <2>1, <2>2, <2>3 DEF SafetyNext
<1>4. CASE DiesSending
  <2>0. PICK m \in Machines : \E write \in CreateWrites(m) \cup DeleteWrites(m) :
          late' = late \cup {write}
    BY <1>4 DEF DiesSending, Delayed
  <2>1. PICK write \in CreateWrites(m) \cup DeleteWrites(m) : late' = late \cup {write}
    BY <2>0
  <2>2. write.machine = m
    BY <1>1, <2>1, CreateWritesType, DeleteWritesType DEF LateTypeInv
  <2>3. create'[n].pc = "idle"
    BY <1>4 DEF DiesSending, Crash, CreateReturned
  <2>4. NewWrites(n)
    BY <2>1, <2>2, <2>3 DEF NewWrites
  <2> QED BY <1>1, <1>2, <1>4, <2>4, LateCrash DEF DiesSending
<1>5. ASSUME NEW m \in Machines, CallLost(m)
      PROVE  LateMachineInv(n)'
  <2>1. MachineNext(m) /\ Driver(m)
    BY <1>5, LostIsStep DEF CallLost, Driver
  <2>2. PICK write \in CreateWrites(m) \cup DeleteWrites(m) :
          /\ late' = late \cup {write}
          /\ write \in CreateWrites(m) => create'[m].pc = "idle" \/ write \in DeleteWrites(m)
    BY <1>5 DEF CallLost, Delayed
  <2>3. write.machine = m
    BY <1>1, <2>2, CreateWritesType, DeleteWritesType DEF LateTypeInv
  <2>4. NewWrites(m)
    BY <2>2 DEF NewWrites
  <2> QED BY <1>1, <1>2, <2>1, <2>2, <2>3, <2>4, LateMachineStep
<1>6. ASSUME NEW write \in late, Arrives(write)
      PROVE  LateMachineInv(n)'
  BY <1>1, <1>2, <1>6, LateWriter, LateArrives
<1>7. CASE UNCHANGED lateVars
  <2>1. Same(n) /\ late' = late
    BY <1>7 DEF lateVars, safetyVars, vars, apiVars, providerVars, Same
  <2> QED BY <1>2, <2>1, LateSame
<1> QED BY <1>3, <1>4, <1>5, <1>6, <1>7 DEF LateNext

LEMMA LateInductive == LateSpec => []LateInv
BY LateInitInv, LateNextInv, PTL DEF LateSpec

\* Whatever is written late, by calls that failed or processes that died, by
\* creations and deletions that ran beside one another: while a machine is
\* wanted, everything that was made for the VM it was told about exists and is
\* owned by that VM.
THEOREM CompleteWithLateWrites == LateSpec => []CompleteWhileWanted
<1>1. ASSUME LateInv, NEW m \in Machines, Wanted(m),
             reported[m] # NoUID, vm[m].uid = reported[m]
      PROVE  \A r \in Owned(class[m]) : Exists(m, r) /\ res[m][r].owner = reported[m]
  <2>1. HasVM(m) /\ Progress(m) /\ Last(m) \in Nat /\ class[m] \in Classes
    BY <1>1, Numbers, CallTypes DEF LateInv, LateTypeInv, LateMachineInv, HasVM
  <2>2. \A j \in 1 .. Last(m) : OwnedBy(m, OwnSeq(class[m])[j], reported[m])
    BY <1>1, <2>1 DEF Progress, OwnedUpTo
  <2>3. DOMAIN OwnSeq(class[m]) = 1 .. Last(m)
    BY <2>1, OwnSeqType DEF Last
  <2> QED BY <2>2, <2>3 DEF Owned, OwnedBy
<1>2. LateInv => CompleteWhileWanted
  BY <1>1 DEF CompleteWhileWanted, Wanted
<1> QED BY <1>2, LateInductive, PTL

-----------------------------------------------------------------------------
(* The VMs of others.  No call runs for one, and none is on its way.       *)

NoneListable == \A c \in Classes : ~(c.labels \subseteq ForeignLabels)

Spared(m) ==
  /\ vm[m].uid = 1 /\ ~vm[m].terminating /\ vm[m].labels = ForeignLabels
  /\ machine[m] = "gone"
  /\ create[m].pc = "idle" /\ delete[m].pc = "idle"
  /\ m \notin listed
  /\ \A write \in late : write.machine # m

SparedInv ==
  LateTypeInv /\ (disruptions = 0 => \A m \in Foreign : Spared(m))

\* Disruptions are counted, and only the server is disrupted.
LEMMA DisruptionsCounted ==
  ASSUME LateTypeInv, [LateNext]_lateVars
  PROVE  disruptions' = 0 => disruptions = 0
<1>0. disruptions \in Nat
  BY DisruptionAssumption DEF LateTypeInv, TypeInv, TypeOK, APITypeOK
<1>1. ASSUME NEW m \in Machines, CreateStep(m) PROVE UNCHANGED disruptions
  BY <1>1
  DEF CreateStep, CreatePrepares, createCAInitScriptSecret, createSecret, createDisk,
      Ensure, createVM, getVM, ownRead, ownCreate, ownUpdate, pollVM, waitTimesOut,
      apiVars
<1>2. ASSUME NEW m \in Machines, DeleteStep(m) PROVE UNCHANGED disruptions
  BY <1>2
  DEF DeleteStep, DeletePrepares, deleteGetsVM, deleteVM, deleteLeftover, apiVars
<1>3. ASSUME NEW m \in Machines, APINext(m) PROVE disruptions' \in {disruptions, disruptions + 1}
  BY <1>3
  DEF APINext, StatusChanges, VMRuns, VMFails, VMDeletedByOthers, VMGone, Collect
<1>4. ASSUME NEW m \in Machines, MachineNext(m)
      PROVE  disruptions' = 0 => disruptions = 0
  <2>1. CASE Driver(m)
    BY <1>1, <1>2, <2>1 DEF Driver
  <2>2. CASE Environment(m)
    BY <1>0, <1>3, <2>2 DEF Environment
  <2>3. CASE \/ StartCreate(m) \/ RecordCreated(m) \/ RequestDeletion(m)
             \/ StartDelete(m) \/ RecordDeleted(m)
    BY <2>3
    DEF StartCreate, RecordCreated, RequestDeletion, StartDelete, RecordDeleted, apiVars
  <2> QED BY <1>4, <2>1, <2>2, <2>3 DEF MachineNext
<1>5. CASE SafetyNext
  BY <1>4, <1>5
  DEF SafetyNext, Crash, ListMachines, SkipBacked, StartOrphanDelete, vars, apiVars
<1>6. CASE DiesSending
  BY <1>6 DEF DiesSending, Crash, apiVars
<1>7. ASSUME NEW m \in Machines, CallLost(m) PROVE UNCHANGED disruptions
  BY <1>1, <1>2, <1>7 DEF CallLost
<1>8. ASSUME NEW write \in late, Arrives(write) PROVE UNCHANGED disruptions
  BY <1>8 DEF Arrives
<1>9. CASE UNCHANGED lateVars
  BY <1>9 DEF lateVars, safetyVars, vars, apiVars
<1> QED BY <1>5, <1>6, <1>7, <1>8, <1>9 DEF LateNext

\* Nothing of a spared machine is a step of a call or of the caller; what is left
\* are disruptions and a status report.
LEMMA SparedStep ==
  ASSUME LateTypeInv, NEW m \in Machines, Spared(m), MachineNext(m),
         disruptions' = disruptions
  PROVE  /\ UNCHANGED <<create, delete, machine>>
         /\ vm'[m].uid = 1 /\ ~vm'[m].terminating /\ vm'[m].labels = ForeignLabels
<1>0. vm \in [Machines -> VM] /\ disruptions \in Nat
  BY DisruptionAssumption DEF LateTypeInv, TypeInv, TypeOK, APITypeOK
<1>1. ~Driver(m)
  BY CreateStepFrame, DeleteOutcome DEF Driver, Spared, LateTypeInv
<1>2. Environment(m)
  BY <1>1
  DEF MachineNext, StartCreate, RecordCreated, RequestDeletion, StartDelete,
      RecordDeleted, Spared
<1>3. /\ vm'[m].uid = vm[m].uid /\ vm'[m].terminating = vm[m].terminating
      /\ vm'[m].labels = vm[m].labels
  <2>1. ~VMFails(m) /\ ~VMDeletedByOthers(m) /\ ~VMGone(m)
    BY <1>0 DEF VMFails, VMDeletedByOthers, VMGone, Spared
  <2>2. UNCHANGED vm \/ \E s \in Status : vm' = [vm EXCEPT ![m].state = s]
    <3>1. "Running" \in Status
      BY DEF Status
    <3> QED
      BY <1>2, <2>1, <3>1, StatusAssumption
      DEF Environment, APINext, StatusChanges, VMRuns, Collect
  <2> QED BY <1>0, <2>2 DEF VM
<1> QED BY <1>2, <1>3 DEF Environment, providerVars, Spared

\* Every step spares the VMs of others, unless somebody disturbs them.
LEMMA SparedNext ==
  ASSUME NoneListable, SparedInv, [LateNext]_lateVars
  PROVE  SparedInv'
<1>1. LateTypeInv /\ LateTypeInv'
  BY LateNextType DEF SparedInv
<1> SUFFICES ASSUME disruptions' = 0, NEW n \in Foreign PROVE Spared(n)'
  BY <1>1 DEF SparedInv
<1>2. disruptions = 0 /\ n \in Machines /\ Spared(n)
  BY <1>1, DisruptionsCounted, ForeignAssumption DEF SparedInv
<1>3. CreateWrites(n) = {} /\ DeleteWrites(n) = {}
  BY <1>1, <1>2, CreateWritesType, DeleteWritesType DEF LateTypeInv, Spared
<1>4. ASSUME NEW m \in Machines, NEW write \in CreateWrites(m) \cup DeleteWrites(m)
      PROVE  write.machine # n
  BY <1>1, <1>2, <1>3, <1>4, CreateWritesType, DeleteWritesType DEF LateTypeInv
<1>5. ASSUME NEW m \in Machines, MachineNext(m), UNCHANGED listed,
             \A write \in late' : write.machine # n
      PROVE  Spared(n)'
  <2>1. CASE n = m
    BY <1>1, <1>2, <1>5, <2>1, SparedStep DEF Spared
  <2>2. CASE n # m
    <3>1. Same(n)
      BY <1>1, <1>2, <1>5, <2>2, OthersKept DEF LateTypeInv
    <3> QED BY <1>2, <1>5, <3>1 DEF Same, Spared
  <2> QED BY <2>1, <2>2
<1>6. ASSUME Crash, listed' = {}, \A write \in late' : write.machine # n
      PROVE  Spared(n)'
  BY <1>2, <1>6 DEF Crash, CreateReturned, DeleteReturned, apiVars, Spared
<1>7. CASE SafetyNext /\ late' = late
  <2>0. \A write \in late' : write.machine # n
    BY <1>2, <1>7 DEF Spared
  <2>1. ASSUME NEW m \in Machines, ListMachines(m) PROVE Spared(n)'
    <3>1. class[m] \in Classes
      BY <1>1, CallTypes DEF LateTypeInv
    <3>2. n \notin Listed(class[m])
      BY <1>2, <3>1 DEF Listed, Spared, NoneListable
    <3>3. n \notin listed'
      BY <1>2, <2>1, <3>2 DEF ListMachines, Spared
    <3> QED BY <1>2, <2>0, <2>1, <3>3 DEF ListMachines, apiVars, Spared
  <2>2. ASSUME NEW m \in Machines, SkipBacked(m) PROVE Spared(n)'
    BY <1>2, <2>0, <2>2 DEF SkipBacked, vars, apiVars, providerVars, Spared
  <2>3. ASSUME NEW m \in Machines, StartOrphanDelete(m) PROVE Spared(n)'
    <3>1. m # n /\ delete \in [Machines -> DeleteCall]
      BY <1>1, <1>2, <2>3
      DEF StartOrphanDelete, Spared, LateTypeInv, TypeInv, TypeOK, ProviderTypeOK
    <3>2. delete'[n] = delete[n]
      BY <1>2, <2>3, <3>1 DEF StartOrphanDelete
    <3> QED BY <1>2, <2>0, <2>3, <3>2 DEF StartOrphanDelete, apiVars, Spared
  <2> QED BY <1>5, <1>6, <1>7, <2>0, <2>1, <2>2, <2>3 DEF SafetyNext
<1>8. CASE DiesSending
  <2>1. \A write \in late' : write.machine # n
    BY <1>2, <1>4, <1>8 DEF DiesSending, Delayed, Spared
  <2> QED BY <1>6, <1>8, <2>1 DEF DiesSending
<1>9. ASSUME NEW m \in Machines, CallLost(m) PROVE Spared(n)'
  <2>1. \A write \in late' : write.machine # n
    BY <1>2, <1>4, <1>9 DEF CallLost, Delayed, Spared
  <2> QED BY <1>5, <1>9, <2>1, LostIsStep
<1>10. ASSUME NEW write \in late, Arrives(write) PROVE Spared(n)'
  <2>1. Same(n)
    BY <1>1, <1>2, <1>10, ArrivesOthers DEF Spared
  <2>2. late' = late \ {write} /\ UNCHANGED listed
    BY <1>1, <1>10, ArrivesFrame DEF LateTypeInv
  <2> QED BY <1>2, <2>1, <2>2 DEF Same, Spared
<1>11. CASE UNCHANGED lateVars
  BY <1>2, <1>11 DEF lateVars, safetyVars, vars, apiVars, providerVars, Spared
<1> QED BY <1>7, <1>8, <1>9, <1>10, <1>11 DEF LateNext

\* The labels of the class keep the driver off the VMs of others: a VM that lacks
\* one of them in every class keeps its identity and is never asked to go, however
\* late the writes and however old the lists, unless somebody else deletes it.
THEOREM ForeignVMsSpared == LateSpec => []ForeignSpared
<1>1. LateInit => SparedInv
  BY LateInitType, ForeignAssumption
  DEF LateInit, SafetyInit, ProviderInit, CreateReturned, DeleteReturned, ForeignVM,
      SparedInv, Spared
<1>2. CASE NoneListable
  <2>1. SparedInv /\ [LateNext]_lateVars => SparedInv'
    BY <1>2, SparedNext
  <2>2. SparedInv => ForeignSpared
    BY DEF SparedInv, Spared, ForeignSpared
  <2> QED BY <1>1, <2>1, <2>2, PTL DEF LateSpec
<1>3. CASE ~NoneListable
  <2>1. ForeignSpared
    BY <1>3 DEF NoneListable, ForeignSpared
  <2> QED BY <2>1, PTL
<1> QED BY <1>2, <1>3
=============================================================================

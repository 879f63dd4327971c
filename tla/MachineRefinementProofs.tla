----------------------- MODULE MachineRefinementProofs -----------------------
(***************************************************************************)
(* MachineController implements MachineLifecycle, for every value of its   *)
(* constants, when the calls of a machine do not overlap; and the first VM *)
(* of a machine then has the disks its class asks for.                     *)
(***************************************************************************)
EXTENDS MachineControllerProofs

-----------------------------------------------------------------------------
(* Two facts the mapping needs beyond the inductive invariant: no dependant*)
(* names a VM that is yet to come, and there is nothing to say of a VM that*)
(* does not exist.                                                         *)

OwnersPast(m) == \A r \in Role : res[m][r].owner <= born[m]
Shape(m) == ~HasVM(m) => ~vm[m].terminating
Past(m) == OwnersPast(m) /\ Shape(m)

MInv == IInv /\ \A m \in Machines : Past(m)

\* What a step of CreateMachine may do to the VM and its dependants.
LEMMA CreateStepPast ==
  ASSUME TypeInv, NEW m \in Machines, MachineInv(m), Past(m), CreateStep(m)
  PROVE  Past(m)'
<1> USE DEF TypeInv, TypeOK, APITypeOK
<1>0. /\ born[m] \in Nat /\ vm[m].uid \in Nat
      /\ \A r \in Role : res[m][r].owner \in Nat
      /\ Uids(m) /\ WellFormed(m)
  BY Numbers DEF MachineInv, Control, Resource
<1>1. CASE CreatePrepares(m) \/ getVM(m) \/ ownRead(m) \/ pollVM(m)
           \/ waitTimesOut(m)
  <2>1. UNCHANGED apiVars
    BY <1>1, PreparesOutcome, GetVMOutcome, OwnReadOutcome, PollOutcome
  <2> QED BY <2>1 DEF Past, OwnersPast, Shape, HasVM, apiVars
<1>2. CASE createCAInitScriptSecret(m) \/ createSecret(m) \/ createDisk(m)
  <2>1. /\ UNCHANGED <<vm, born>>
        /\ \/ UNCHANGED res
           \/ \E r \in Role : \E body \in Payloads :
                CreateResource(m, r, body, NoUID)
    BY <1>2, EnsureOutcome
  <2>2. \A s \in Role : res'[m][s].owner \in {res[m][s].owner, NoUID}
    BY <2>1 DEF CreateResource
  <2> QED BY <1>0, <2>1, <2>2 DEF Past, OwnersPast, Shape, HasVM, NoUID
<1>3. CASE createVM(m)
  <2>1. UNCHANGED res
    BY <1>3, CreateVMOutcome
  <2>2. CASE UNCHANGED <<vm, born>>
    BY <2>1, <2>2 DEF Past, OwnersPast, Shape, HasVM
  <2>3. CASE vm'[m].uid = born[m] + 1 /\ born'[m] = born[m] + 1
    BY <1>0, <2>1, <2>3 DEF Past, OwnersPast, Shape, HasVM, NoUID
  <2> QED BY <1>3, <2>2, <2>3, CreateVMOutcome
<1>4. CASE ownCreate(m) \/ ownUpdate(m)
  <2>1. create[m].pc = "write" /\ UNCHANGED <<vm, born>>
        /\ (UNCHANGED res \/ Touches(m))
    BY <1>0, <1>4, OwnWriteOutcome
  <2>2. create[m].uid = born[m]
    BY <1>0, <2>1 DEF Uids, HoldsVM
  <2>3. \A s \in Role : res'[m][s].owner \in {res[m][s].owner, born[m]}
    BY <2>1, <2>2 DEF Touches
  <2> QED BY <1>0, <2>1, <2>3 DEF Past, OwnersPast, Shape, HasVM
<1> QED BY <1>1, <1>2, <1>3, <1>4 DEF CreateStep

\* DeleteMachine marks only a VM that exists, and ends there.
LEMMA DeleteStepVM ==
  ASSUME TypeInv, NEW m \in Machines, DeleteStep(m)
  PROVE  \/ UNCHANGED vm
         \/ /\ HasVM(m) /\ delete[m].pc = "vm" /\ delete'[m].pc = "idle"
            /\ vm'[m].terminating
BY CallTypes
   DEF DeleteStep, DeletePrepares, deleteGetsVM, deleteVM, deleteLeftover,
       DeleteVM, DeleteReturns, DeleteReturned, apiVars, TypeInv, TypeOK,
       APITypeOK, ProviderTypeOK, VM

\* A VM goes away only when it is terminating, and without a trace of itself.
LEMMA EnvironmentVM ==
  ASSUME TypeInv, NEW m \in Machines, Shape(m), Environment(m)
  PROVE  /\ vm'[m].uid = vm[m].uid \/ vm[m].terminating
         /\ vm'[m].uid = NoUID => ~HasVM(m) \/ ~vm'[m].terminating
         /\ vm'[m].terminating # vm[m].terminating => HasVM(m)
<1> USE DEF TypeInv, TypeOK, APITypeOK
<1>0. vm[m] \in VM
  BY CallTypes
<1>1. CASE StatusChanges(m) \/ VMRuns(m) \/ VMFails(m) \/ VMDeletedByOthers(m)
  BY <1>0, <1>1
  DEF StatusChanges, VMRuns, VMFails, VMDeletedByOthers, DeleteVM, VM, HasVM
<1>2. CASE VMGone(m)
  BY <1>0, <1>2 DEF VMGone, NoVM, HasVM, Shape
<1>3. ASSUME NEW r \in Role, Collect(m, r) PROVE UNCHANGED vm
  BY <1>3 DEF Collect
<1> QED BY <1>1, <1>2, <1>3 DEF Environment, APINext, HasVM

\* The rest of a machine's steps keep the two facts.
LEMMA OtherStepsPast ==
  ASSUME TypeInv, NEW m \in Machines, MachineInv(m), Past(m),
         \/ DeleteStep(m) \/ Environment(m) \/ StartCreate(m)
         \/ RecordCreated(m) \/ RequestDeletion(m) \/ StartDelete(m)
         \/ RecordDeleted(m)
  PROVE  Past(m)'
<1>0. born[m] \in Nat /\ \A r \in Role : res[m][r].owner \in Nat
  BY Numbers DEF TypeInv, TypeOK, APITypeOK, Resource
<1>1. CASE DeleteStep(m)
  <2>1. /\ UNCHANGED born /\ vm'[m].uid = vm[m].uid
        /\ \A r \in Role : res'[m][r] \in {res[m][r], NoResource}
    BY <1>1, DeleteOutcome
  <2>2. Shape(m)'
    BY <1>1, <2>1, DeleteStepVM DEF Past, Shape, HasVM
  <2> QED BY <1>0, <2>1, <2>2 DEF Past, OwnersPast, NoResource, NoUID
<1>2. CASE Environment(m)
  <2>1. /\ UNCHANGED born
        /\ \A r \in Role : res'[m][r] \in {res[m][r], NoResource}
    BY <1>2, EnvironmentOutcome
  <2>2. Shape(m)'
    BY <1>2, EnvironmentVM DEF Past, Shape, HasVM
  <2> QED BY <1>0, <2>1, <2>2 DEF Past, OwnersPast, NoResource, NoUID
<1>3. CASE \/ StartCreate(m) \/ RecordCreated(m) \/ RequestDeletion(m)
           \/ StartDelete(m) \/ RecordDeleted(m)
  <2>1. UNCHANGED <<vm, res, born>>
    BY <1>3 DEF StartCreate, RecordCreated, RequestDeletion, StartDelete,
                RecordDeleted, apiVars
  <2> QED BY <2>1 DEF Past, OwnersPast, Shape, HasVM
<1> QED BY <1>1, <1>2, <1>3

\* The strengthened invariant holds in every reachable state.
LEMMA InductivePast == Spec => []MInv
<1>1. Init => MInv
  <2>1. ASSUME Init, NEW m \in Machines PROVE Past(m)
    <3>1. vm[m] = NoVM /\ born[m] = 0 /\ \A r \in Role : res[m][r].owner = 0
      BY <2>1 DEF Init, APIInit, NoResource, NoUID
    <3> QED BY <3>1 DEF Past, OwnersPast, Shape, NoVM
  <2> QED BY <2>1, InitInv DEF MInv
<1>2. MInv /\ [Next]_vars => MInv'
  <2> SUFFICES ASSUME MInv, [Next]_vars PROVE MInv'
    OBVIOUS
  <2>1. TypeInv /\ IInv' /\ \A m \in Machines : MachineInv(m) /\ Past(m)
    BY NextInv DEF MInv, IInv
  <2>2. ASSUME UNCHANGED <<vm, res, born>>, NEW n \in Machines PROVE Past(n)'
    BY <2>1, <2>2 DEF Past, OwnersPast, Shape, HasVM
  <2>3. ASSUME NEW m \in Machines, MachineNext(m), NEW n \in Machines
        PROVE  Past(n)'
    <3>1. CASE n # m
      <4>1. Same(n)
        BY <2>1, <2>3, <3>1, OthersKept
      <4> QED BY <2>1, <4>1 DEF Same, Past, OwnersPast, Shape, HasVM
    <3>2. CASE n = m
      BY <2>1, <2>3, <3>2, CreateStepPast, OtherStepsPast
      DEF MachineNext, Driver
    <3> QED BY <3>1, <3>2
  <2> QED
    BY <2>1, <2>2, <2>3 DEF MInv, Next, Crash, vars, apiVars
<1> QED BY <1>1, <1>2, PTL DEF Spec

-----------------------------------------------------------------------------
(* The mapping, machine by machine.                                        *)

\* A machine none of whose state changes looks the same to the caller.
LEMMA SameViews ==
  ASSUME NEW n \in Machines, Same(n)
  PROVE  /\ CallOf(n)' = CallOf(n) /\ StageOf(n)' = StageOf(n)
         /\ vm'[n].terminating = vm[n].terminating /\ machine'[n] = machine[n]
BY DEF Same, CallOf, StageOf, OwnsAll, HasVM, Exists, CreateIdle, DeleteIdle

\* A step of one machine replaces its entries of the mapped functions.
LEMMA Lift ==
  ASSUME NEW m \in Machines, \A n \in Machines \ {m} : Same(n)
  PROVE  /\ callView' = [callView EXCEPT ![m] = CallOf(m)']
         /\ stageView' = [stageView EXCEPT ![m] = StageOf(m)']
         /\ leavingView' = [leavingView EXCEPT ![m] = vm'[m].terminating]
         /\ callView[m] = CallOf(m) /\ stageView[m] = StageOf(m)
         /\ leavingView[m] = vm[m].terminating
<1>1. \A n \in Machines \ {m} :
        /\ CallOf(n)' = CallOf(n) /\ StageOf(n)' = StageOf(n)
        /\ vm'[n].terminating = vm[n].terminating
  BY SameViews
<1> QED BY <1>1 DEF callView, stageView, leavingView

-----------------------------------------------------------------------------
(* CreateMachine.                                                          *)

\* The roles that are owned.
LEMMA OwnedRoles ==
  ASSUME TypeInv, NEW m \in Machines
  PROVE  /\ Owned(class[m]) = {OwnSeq(class[m])[j] : j \in 1 .. Last(m)}
         /\ Owned(class[m]) \subseteq Role
         /\ Owned(class[m]) # {}
<1>1. /\ OwnSeq(class[m]) \in Seq(Role) /\ Len(OwnSeq(class[m])) \in Nat \ {0}
  BY CallTypes, OwnSeqType
<1>2. DOMAIN OwnSeq(class[m]) = 1 .. Last(m) /\ 1 \in 1 .. Last(m)
  BY <1>1 DEF Last
<1> QED BY <1>1, <1>2, Numbers DEF Owned

\* How a step of CreateMachine leaves the call.
LEMMA CreateStepEnds ==
  ASSUME TypeInv, NEW m \in Machines, MachineInv(m), CreateStep(m)
  PROVE  \/ Failed(m)
         \/ HoldsVM(m) /\ Succeeds(m) /\ ~createVM(m)
         \/ create'[m].pc # "idle"
<1> USE DEF MachineInv, Control
<1>1. ASSUME NEW pcs, "idle" \notin pcs, Goes(m, pcs)
      PROVE  create'[m].pc # "idle"
  BY <1>1 DEF Goes
<1>2. CASE CreatePrepares(m)
  BY <1>1, <1>2, PreparesOutcome
<1>3. CASE createCAInitScriptSecret(m) \/ createSecret(m) \/ createDisk(m)
  BY <1>1, <1>3, EnsureOutcome
<1>4. CASE createVM(m)
  BY <1>1, <1>4, CreateVMOutcome
<1>5. CASE getVM(m)
  BY <1>5, GetVMOutcome
<1>6. ASSUME HoldsVM(m), Advances(m), ~createVM(m)
      PROVE  (HoldsVM(m) /\ Succeeds(m)) \/ create'[m].pc # "idle"
  BY <1>1, <1>6 DEF Advances
<1>7. HoldsVM(m) => ~createVM(m)
  BY CreateVMOutcome DEF HoldsVM
<1>8. CASE ownRead(m)
  BY <1>1, <1>6, <1>7, <1>8, OwnReadOutcome DEF HoldsVM
<1>9. CASE ownCreate(m) \/ ownUpdate(m)
  BY <1>1, <1>6, <1>7, <1>9, OwnWriteOutcome DEF HoldsVM
<1>10. CASE pollVM(m) \/ waitTimesOut(m)
  BY <1>1, <1>7, <1>10, PollOutcome DEF HoldsVM
<1> QED
  BY <1>2, <1>3, <1>4, <1>5, <1>8, <1>9, <1>10 DEF CreateStep

\* Only createVM changes the VM, and nothing takes a dependant from it.
LEMMA CreateStepKeeps ==
  ASSUME TypeInv, NEW m \in Machines, MachineInv(m), CreateStep(m)
  PROVE  KeepsOwned(m) /\ (createVM(m) \/ UNCHANGED <<vm, born>>)
<1> USE DEF MachineInv, Control
<1>1. UNCHANGED res => KeepsOwned(m)
  BY DEF KeepsOwned, OwnedBy, Exists
<1>2. CASE CreatePrepares(m) \/ getVM(m) \/ ownRead(m) \/ pollVM(m)
           \/ waitTimesOut(m)
  <2>1. UNCHANGED apiVars
    BY <1>2, PreparesOutcome, GetVMOutcome, OwnReadOutcome, PollOutcome
  <2> QED BY <1>1, <2>1 DEF apiVars
<1>3. CASE createCAInitScriptSecret(m) \/ createSecret(m) \/ createDisk(m)
  BY <1>3, EnsureOutcome, CreateResourceKeeps
<1>4. CASE createVM(m)
  BY <1>1, <1>4, CreateVMOutcome
<1>5. CASE ownCreate(m) \/ ownUpdate(m)
  <2>1. NotAhead(m)
    BY DEF NotAhead, Uids, HasVM
  <2> QED BY <1>5, <2>1, OwnWriteOutcome, TouchesKeeps
<1> QED BY <1>2, <1>3, <1>4, <1>5 DEF CreateStep

\* A VM that stays does not fall back.
LEMMA StageKept ==
  ASSUME TypeInv, NEW m \in Machines, KeepsOwned(m), UNCHANGED class,
         vm'[m].uid = vm[m].uid
  PROVE  \/ StageOf(m)' = StageOf(m)
         \/ StageOf(m) = "partial" /\ StageOf(m)' = "complete"
<1>1. HasVM(m) /\ OwnsAll(m) => OwnsAll(m)'
  BY OwnedRoles DEF KeepsOwned, OwnedBy, OwnsAll, Exists
<1> QED BY <1>1 DEF StageOf, HasVM

\* A CreateMachine that succeeds leaves no partial VM.
LEMMA SuccessIsSound ==
  ASSUME Serial, TypeInv, NEW m \in Machines, MachineInv(m), MachineInv(m)',
         HoldsVM(m), Succeeds(m), UNCHANGED <<vm, born, class>>
  PROVE  StageOf(m)' # "partial"
<1>1. HasVM(m)' => reported'[m] = vm'[m].uid
  BY DEF MachineInv, Control, Uids, HasVM, Succeeds
<1>2. HasVM(m)' => OwnedUpTo(m, Last(m) + 1)'
  BY <1>1 DEF MachineInv, Complete, Progress, Protected
<1>3. Last(m)' = Last(m) /\ Last(m) \in Nat
  BY Numbers DEF Last
<1>4. HasVM(m)' => \A j \in 1 .. Last(m) :
                     OwnedBy(m, OwnSeq(class[m])[j], vm[m].uid)'
  BY <1>2, <1>3 DEF OwnedUpTo
<1>5. Owned(class[m])' = {OwnSeq(class[m])[j] : j \in 1 .. Last(m)}
  <2>1. Owned(class[m])' = Owned(class[m])
    OBVIOUS
  <2> QED BY <2>1, OwnedRoles
<1>6. HasVM(m)' => OwnsAll(m)'
  BY <1>4, <1>5 DEF OwnsAll, OwnedBy
<1> QED BY <1>6 DEF StageOf

\* A step of CreateMachine is a step of the abstract call, or none.
LEMMA CreateSimulated ==
  ASSUME Serial, MInv, IInv', NEW m \in Machines, CreateStep(m),
         UNCHANGED machine, \A n \in Machines \ {m} : Same(n)
  PROVE  Lifecycle!MachineStep(m) \/ UNCHANGED Lifecycle!lifecycleVars
<1>0. TypeInv /\ MachineInv(m) /\ MachineInv(m)' /\ Past(m)
  BY DEF MInv, IInv
<1>1. /\ UNCHANGED <<class, delete>> /\ create[m].pc # "idle"
      /\ DeleteIdle(m) /\ delete[m].result # "OK"
  BY <1>0, CreateStepFrame DEF MachineInv, Control, Turns, DeleteIdle
<1>2. CallOf(m) = "creating"
  BY <1>1 DEF CallOf, CreateIdle
<1>3. /\ Failed(m) => CallOf(m)' = "none"
      /\ create'[m].pc # "idle" => CallOf(m)' = "creating"
      /\ Succeeds(m) => CallOf(m)' \in Lifecycle!CreateResults(m, TRUE)
  BY <1>1 DEF CallOf, CreateIdle, DeleteIdle, Failed, Succeeds,
              Lifecycle!CreateResults
<1>4. /\ callView' = [callView EXCEPT ![m] = CallOf(m)']
      /\ stageView' = [stageView EXCEPT ![m] = StageOf(m)']
      /\ leavingView' = [leavingView EXCEPT ![m] = vm'[m].terminating]
      /\ callView[m] = CallOf(m) /\ stageView[m] = StageOf(m)
      /\ leavingView[m] = vm[m].terminating
  BY Lift
<1>5. CASE createVM(m) /\ ~UNCHANGED <<vm, born>>
  <2>1. StageOf(m) = "none"
    BY <1>0, <1>5, CreateVMOutcome DEF StageOf
  <2>2. CallOf(m)' \in {"creating", "none"}
    BY <1>0, <1>3, <1>5, CreateStepEnds
  <2>3. StageOf(m)' = "partial"
    <3>1. /\ UNCHANGED res /\ vm'[m].uid = born[m] + 1 /\ born[m] \in Nat
          /\ \A r \in Role : res[m][r].owner \in Nat
      BY <1>0, <1>5, CreateVMOutcome, Numbers
      DEF TypeInv, TypeOK, APITypeOK, Resource
    <3>2. \A r \in Role : res[m][r].owner <= born[m]
      BY <1>0 DEF Past, OwnersPast
    <3>3. PICK r \in Role : r \in Owned(class[m])
      BY <1>0, OwnedRoles
    <3>4. ~OwnsAll(m)' /\ HasVM(m)'
      BY <1>1, <3>1, <3>2, <3>3 DEF OwnsAll, HasVM, NoUID
    <3> QED BY <3>4 DEF StageOf
  <2>4. vm'[m].terminating = FALSE /\ vm[m].terminating = FALSE
    <3>1. ~HasVM(m) /\ CreateVM(m, AutoDeleted(class[m]), VMLabels(class[m]))
      BY <1>0, <1>5, CreateVMOutcome DEF createVM
    <3>2. vm'[m].terminating = FALSE
      BY <1>0, <3>1 DEF CreateVM, TypeInv, TypeOK, APITypeOK
    <3>3. vm[m].terminating \in BOOLEAN
      BY <1>0, CallTypes DEF VM
    <3> QED BY <1>0, <3>1, <3>2, <3>3 DEF Past, Shape
  <2>5. Lifecycle!StoreVM(m)
    BY <1>2, <1>4, <2>1, <2>2, <2>3, <2>4 DEF Lifecycle!StoreVM, leavingView
  <2> QED BY <2>5 DEF Lifecycle!MachineStep
<1>6. CASE UNCHANGED <<vm, born>>
  <2>1. \/ StageOf(m)' = StageOf(m)
        \/ StageOf(m) = "partial" /\ StageOf(m)' = "complete"
    BY <1>0, <1>1, <1>6, CreateStepKeeps, StageKept
  <2>2. Succeeds(m) /\ HoldsVM(m) => StageOf(m)' # "partial"
    BY <1>0, <1>1, <1>6, SuccessIsSound
  <2>3. /\ CallOf(m)' \in {"creating"} \cup Lifecycle!CreateResults(m, TRUE)
        /\ \/ CallOf(m)' = "creating"
           \/ CallOf(m)' \in Lifecycle!CreateResults(m, StageOf(m)' # "partial")
    BY <1>0, <1>3, <2>2, CreateStepEnds DEF Lifecycle!CreateResults
  <2>4. leavingView' = leavingView
    BY <1>4, <1>6 DEF leavingView
  <2>5. CASE StageOf(m)' = StageOf(m)
    <3>1. stageView' = stageView
      BY <1>4, <2>5 DEF stageView
    <3>2. CASE CallOf(m)' = "creating"
      <4>1. callView' = callView
        BY <1>2, <1>4, <3>2 DEF callView
      <4> QED BY <2>4, <3>1, <4>1 DEF Lifecycle!lifecycleVars
    <3>3. CASE CallOf(m)' # "creating"
      <4>1. Lifecycle!CreateReturns(m)
        BY <1>2, <1>4, <2>3, <2>4, <2>5, <3>1, <3>3
        DEF Lifecycle!CreateReturns
      <4> QED BY <4>1 DEF Lifecycle!MachineStep
    <3> QED BY <3>2, <3>3
  <2>6. CASE StageOf(m) = "partial" /\ StageOf(m)' = "complete"
    <3>1. Lifecycle!OwnDependants(m)
      BY <1>2, <1>4, <2>3, <2>4, <2>6 DEF Lifecycle!OwnDependants
    <3> QED BY <3>1 DEF Lifecycle!MachineStep
  <2> QED BY <2>1, <2>5, <2>6
<1> QED BY <1>0, <1>5, <1>6, CreateStepKeeps

-----------------------------------------------------------------------------
(* Everything else.                                                        *)

\* Whether a VM terminates is a Boolean, now and after the step.
LEMMA NextTerminating ==
  ASSUME NEW m \in Machines, IInv'
  PROVE  vm'[m].terminating \in BOOLEAN
BY DEF IInv, TypeInv, TypeOK, APITypeOK, VM

\* A step of DeleteMachine is a step of the abstract call, or none: removing
\* what a machine without a VM left behind is not visible.
LEMMA DeleteSimulated ==
  ASSUME Serial, MInv, IInv', NEW m \in Machines, DeleteStep(m),
         UNCHANGED machine, \A n \in Machines \ {m} : Same(n)
  PROVE  Lifecycle!MachineStep(m) \/ UNCHANGED Lifecycle!lifecycleVars
<1>0. TypeInv /\ MachineInv(m) /\ MachineInv(m)' /\ Past(m)
  BY DEF MInv, IInv
<1>1. UNCHANGED <<class, create>> /\ vm'[m].uid = vm[m].uid
      /\ delete[m].pc # "idle"
  BY <1>0, DeleteOutcome
<1>2. create[m].pc = "idle" /\ machine[m] = "deleting"
  BY <1>0, <1>1 DEF MachineInv, Control, Turns, TypeInv, TypeOK, Phase
<1>3. CallOf(m) = "deleting"
  BY <1>1, <1>2 DEF CallOf, CreateIdle, DeleteIdle
<1>4. StageOf(m)' = StageOf(m)
  <2>1. CASE ~HasVM(m)
    BY <1>1, <2>1 DEF StageOf, HasVM
  <2>2. CASE HasVM(m)
    <3>1. UNCHANGED res
      BY <1>0, <2>2, DeleteOutcome DEF MachineInv, DeletePath
    <3> QED BY <1>1, <3>1 DEF StageOf, HasVM, OwnsAll, Exists
  <2> QED BY <2>1, <2>2
<1>5. /\ callView' = [callView EXCEPT ![m] = CallOf(m)']
      /\ stageView' = stageView
      /\ leavingView' = [leavingView EXCEPT ![m] = vm'[m].terminating]
      /\ callView[m] = CallOf(m) /\ stageView[m] = StageOf(m)
      /\ leavingView[m] = vm[m].terminating
  BY <1>4, Lift DEF stageView
<1>6. \/ CallOf(m)' = "deleting" /\ delete'[m].pc # "idle"
      \/ CallOf(m)' = "none"
      \/ CallOf(m)' = "deleted" /\ delete'[m].result = "OK"
  BY <1>1, <1>2 DEF CallOf, CreateIdle, DeleteIdle
<1>7. CASE UNCHANGED vm
  <2>1. leavingView' = leavingView
    BY <1>7 DEF leavingView
  <2>2. CASE CallOf(m)' = "deleting"
    <3>1. callView' = callView
      BY <1>3, <1>5, <2>2 DEF callView
    <3> QED BY <1>5, <2>1, <3>1 DEF Lifecycle!lifecycleVars
  <2>3. CASE CallOf(m)' # "deleting"
    <3>1. CallOf(m)' = "deleted" => ~HasVM(m) \/ vm[m].terminating
      BY <1>0, <1>6, <1>7 DEF MachineInv, DeletePath, Deleted, HasVM
    <3>2. CallOf(m)' = "deleted" => Lifecycle!Released(m)
      BY <1>5, <3>1 DEF Lifecycle!Released, StageOf
    <3>3. Lifecycle!DeleteReturns(m)
      BY <1>3, <1>5, <1>6, <2>1, <2>3, <3>2 DEF Lifecycle!DeleteReturns
    <3> QED BY <3>3 DEF Lifecycle!MachineStep
  <2> QED BY <2>2, <2>3
<1>8. CASE HasVM(m) /\ delete'[m].pc = "idle" /\ vm'[m].terminating
  <2>0. vm'[m].terminating = TRUE
    BY <1>8, NextTerminating DEF MInv
  <2>1. StageOf(m) # "none"
    BY <1>8 DEF StageOf
  <2>2. Lifecycle!DeleteVM(m)
    BY <1>3, <1>5, <1>6, <1>8, <2>0, <2>1 DEF Lifecycle!DeleteVM
  <2> QED BY <2>2 DEF Lifecycle!MachineStep
<1> QED BY <1>0, <1>7, <1>8, DeleteStepVM

\* What happens to the VM on its own is visible when it starts to go and when
\* it is gone.  The collector takes nothing from it.
LEMMA EnvironmentSimulated ==
  ASSUME MInv, IInv', NEW m \in Machines, Environment(m),
         UNCHANGED machine, \A n \in Machines \ {m} : Same(n)
  PROVE  Lifecycle!MachineStep(m) \/ UNCHANGED Lifecycle!lifecycleVars
<1>0. TypeInv /\ MachineInv(m) /\ Past(m)
  BY DEF MInv, IInv
<1>1. UNCHANGED <<class, create, delete>>
  BY <1>0, EnvironmentOutcome
<1>2. /\ callView' = callView
      /\ stageView' = [stageView EXCEPT ![m] = StageOf(m)']
      /\ leavingView' = [leavingView EXCEPT ![m] = vm'[m].terminating]
      /\ stageView[m] = StageOf(m) /\ leavingView[m] = vm[m].terminating
  <2>1. CallOf(m)' = CallOf(m)
    BY <1>1 DEF CallOf, CreateIdle, DeleteIdle
  <2> QED BY <2>1, Lift DEF callView
<1>3. CASE vm'[m].uid = vm[m].uid /\ HasVM(m)
  <2>1. StageOf(m)' = StageOf(m)
    <3>1. \A r \in Role :
            /\ Exists(m, r) /\ res[m][r].owner = vm[m].uid
            <=> Exists(m, r)' /\ res'[m][r].owner = vm[m].uid
      BY <1>0, <1>3, EnvironmentOutcome DEF Exists, HasVM, NoResource
    <3>2. OwnsAll(m)' <=> OwnsAll(m)
      BY <1>0, <1>1, <1>3, <3>1, OwnedRoles DEF OwnsAll
    <3> QED BY <1>3, <3>2 DEF StageOf, HasVM
  <2>2. stageView' = stageView
    BY <1>2, <2>1 DEF stageView
  <2>3. CASE vm'[m].terminating = vm[m].terminating
    <3>1. leavingView' = leavingView
      BY <1>2, <2>3 DEF leavingView
    <3> QED BY <1>2, <2>2, <3>1 DEF Lifecycle!lifecycleVars
  <2>4. CASE vm'[m].terminating # vm[m].terminating
    <3>0. vm[m].terminating \in BOOLEAN /\ vm'[m].terminating \in BOOLEAN
      BY <1>0, CallTypes, NextTerminating DEF VM
    <3>1. vm'[m].terminating = TRUE
      BY <1>0, <1>3, <2>4, <3>0, EnvironmentOutcome DEF HasVM
    <3>2. Lifecycle!DeletedByOthers(m)
      BY <1>2, <1>3, <2>2, <3>1 DEF Lifecycle!DeletedByOthers, StageOf
    <3> QED BY <3>2 DEF Lifecycle!MachineStep
  <2> QED BY <2>3, <2>4
<1>4. CASE vm'[m].uid # vm[m].uid
  <2>1. /\ vm'[m].uid = NoUID /\ HasVM(m)
        /\ vm[m].terminating /\ ~vm'[m].terminating
    BY <1>0, <1>4, EnvironmentOutcome, EnvironmentVM DEF HasVM, Past
  <2>2. StageOf(m)' = "none" /\ vm'[m].terminating = FALSE
    BY <2>1, NextTerminating DEF StageOf, HasVM, MInv
  <2>3. Lifecycle!VMGone(m)
    BY <1>2, <2>1, <2>2 DEF Lifecycle!VMGone
  <2> QED BY <2>3 DEF Lifecycle!MachineStep
<1>5. CASE vm'[m].uid = vm[m].uid /\ ~HasVM(m)
  <2>1. StageOf(m)' = StageOf(m) /\ vm'[m].terminating = vm[m].terminating
    BY <1>0, <1>5, EnvironmentVM DEF StageOf, HasVM, Past
  <2>2. stageView' = stageView /\ leavingView' = leavingView
    BY <1>2, <2>1 DEF stageView, leavingView
  <2> QED BY <1>2, <2>2 DEF Lifecycle!lifecycleVars
<1> QED BY <1>3, <1>4, <1>5

\* The caller's steps are the abstract caller's.
LEMMA CallerSimulated ==
  ASSUME Serial, MInv, IInv', NEW m \in Machines,
         \/ StartCreate(m) \/ RecordCreated(m) \/ RequestDeletion(m)
         \/ StartDelete(m) \/ RecordDeleted(m),
         \A n \in Machines \ {m} : Same(n)
  PROVE  Lifecycle!MachineStep(m)
<1>0. TypeInv /\ Turns(m) /\ UNCHANGED <<vm, res, class>>
  <2>1. UNCHANGED <<vm, res, class>>
    BY DEF StartCreate, RecordCreated, RequestDeletion, StartDelete,
           RecordDeleted, apiVars, providerVars
  <2> QED BY <2>1 DEF MInv, IInv, MachineInv, Control
<1>1. /\ callView' = [callView EXCEPT ![m] = CallOf(m)']
      /\ callView[m] = CallOf(m)
      /\ stageView' = stageView /\ leavingView' = leavingView
  <2>1. \A n \in Machines : StageOf(n)' = StageOf(n)
    BY <1>0 DEF StageOf, OwnsAll, HasVM, Exists
  <2>2. stageView' = stageView /\ leavingView' = leavingView
    BY <1>0, <2>1 DEF stageView, leavingView
  <2>3. /\ callView' = [callView EXCEPT ![m] = CallOf(m)']
        /\ callView[m] = CallOf(m)
    BY Lift
  <2> QED BY <2>2, <2>3
<1>2. CASE StartCreate(m)
  <2>1. /\ create'[m].pc = "client" /\ create[m].result # "OK"
        /\ create[m].pc = "idle" /\ machine[m] = "wanted"
        /\ UNCHANGED machine
    <3>1. PICK data \in UserData :
            create' = [create EXCEPT ![m] = [CreateReturned("None") EXCEPT
                         !.pc = "client", !.userData = data]]
      BY <1>2 DEF StartCreate
    <3>2. create'[m].pc = "client"
      BY <1>0, <3>1 DEF TypeInv, TypeOK, ProviderTypeOK, CreateReturned
    <3> QED BY <1>2, <3>2 DEF StartCreate, CreateIdle
  <2>2. CallOf(m) = "none" /\ CallOf(m)' = "creating"
    BY <1>0, <2>1 DEF CallOf, CreateIdle, DeleteIdle, Turns
  <2>3. Lifecycle!StartCreate(m)
    BY <1>1, <2>1, <2>2 DEF Lifecycle!StartCreate
  <2> QED BY <2>3 DEF Lifecycle!MachineStep
<1>3. CASE RecordCreated(m)
  <2>1. /\ create[m].pc = "idle" /\ create[m].result = "OK"
        /\ create'[m].pc = "idle" /\ create'[m].result = "None"
        /\ machine[m] = "wanted" /\ machine' = [machine EXCEPT ![m] = "ready"]
        /\ UNCHANGED delete
    BY <1>0, <1>3 DEF RecordCreated, CreateReturned, CreateIdle, TypeInv,
                      TypeOK, ProviderTypeOK
  <2>2. CallOf(m) = "created" /\ CallOf(m)' = "none"
    BY <1>0, <2>1 DEF CallOf, CreateIdle, DeleteIdle, Turns
  <2>3. Lifecycle!RecordCreated(m)
    BY <1>1, <2>1, <2>2 DEF Lifecycle!RecordCreated
  <2> QED BY <2>3 DEF Lifecycle!MachineStep
<1>4. CASE RequestDeletion(m)
  <2>1. /\ machine[m] \in {"wanted", "ready"}
        /\ machine' = [machine EXCEPT ![m] = "deleting"]
        /\ machine'[m] = "deleting"
        /\ UNCHANGED <<create, delete>>
    BY <1>0, <1>4 DEF RequestDeletion, providerVars, TypeInv, TypeOK
  <2>2. CallOf(m)' = IF CallOf(m) = "created" THEN "none" ELSE CallOf(m)
    BY <1>0, <2>1 DEF CallOf, CreateIdle, DeleteIdle, Turns
  <2>3. Lifecycle!RequestDeletion(m)
    BY <1>1, <2>1, <2>2 DEF Lifecycle!RequestDeletion
  <2> QED BY <2>3 DEF Lifecycle!MachineStep
<1>5. CASE StartDelete(m)
  <2>1. /\ machine[m] = "deleting" /\ delete[m].pc = "idle"
        /\ delete[m].result # "OK" /\ create[m].pc = "idle"
        /\ delete'[m].pc = "client"
        /\ UNCHANGED <<create, machine>>
    BY <1>0, <1>5 DEF StartDelete, CreateIdle, DeleteIdle, TypeInv, TypeOK,
                      ProviderTypeOK
  <2>2. CallOf(m) = "none" /\ CallOf(m)' = "deleting"
    BY <2>1 DEF CallOf, CreateIdle, DeleteIdle
  <2>3. Lifecycle!StartDelete(m)
    BY <1>1, <2>1, <2>2 DEF Lifecycle!StartDelete
  <2> QED BY <2>3 DEF Lifecycle!MachineStep
<1>6. CASE RecordDeleted(m)
  <2>1. /\ machine[m] = "deleting"
        /\ machine' = [machine EXCEPT ![m] = "gone"] /\ machine'[m] = "gone"
        /\ delete[m].pc = "idle" /\ delete[m].result = "OK"
        /\ delete'[m].pc = "idle" /\ delete'[m].result = "None"
        /\ UNCHANGED create
    BY <1>0, <1>6 DEF RecordDeleted, DeleteReturned, DeleteIdle, TypeInv,
                      TypeOK, ProviderTypeOK
  <2>2. CallOf(m) = "deleted" /\ CallOf(m)' = "none"
    BY <1>0, <2>1 DEF CallOf, CreateIdle, DeleteIdle, Turns
  <2>3. Lifecycle!RecordDeleted(m)
    BY <1>1, <2>1, <2>2 DEF Lifecycle!RecordDeleted
  <2> QED BY <2>3 DEF Lifecycle!MachineStep
<1> QED BY <1>2, <1>3, <1>4, <1>5, <1>6

\* A crash forgets every call.
LEMMA CrashSimulated ==
  ASSUME MInv, Crash
  PROVE  Lifecycle!Crash
<1>1. ASSUME NEW m \in Machines PROVE CallOf(m)' = "none"
  BY DEF Crash, CallOf, CreateIdle, DeleteIdle, CreateReturned, DeleteReturned
<1>2. stageView' = stageView /\ leavingView' = leavingView
  BY DEF Crash, apiVars, stageView, leavingView, StageOf, OwnsAll, HasVM, Exists
<1> QED BY <1>1, <1>2 DEF Lifecycle!Crash, Crash, callView

\* At the start nothing has been called and there is no VM.
LEMMA InitSimulated == Init => Lifecycle!Init
<1> SUFFICES ASSUME Init PROVE Lifecycle!Init
  OBVIOUS
<1>1. ASSUME NEW m \in Machines
      PROVE  /\ CallOf(m) = "none" /\ StageOf(m) = "none"
             /\ vm[m].terminating = FALSE
  BY DEF Init, APIInit, ProviderInit, CreateReturned, DeleteReturned, NoVM,
         CallOf, CreateIdle, DeleteIdle, StageOf, HasVM
<1> QED BY <1>1 DEF Lifecycle!Init, Init, callView, stageView, leavingView

\* When the calls of a machine do not overlap, the driver under its caller
\* implements the two atomic promises: whatever it takes in requests, retries
\* and conflicts, a CreateMachine ends well only with a VM that will take its
\* dependants along, a DeleteMachine only with no VM that would stay, only a
\* running CreateMachine stores a VM, and a complete VM stays complete.
THEOREM RefinesLifecycle ==
  ASSUME Serial
  PROVE  Spec => ImplementsLifecycle
<1>1. ASSUME MInv, MInv', [Next]_vars
      PROVE  [Lifecycle!Next]_(Lifecycle!lifecycleVars)
  <2>0. TypeInv /\ IInv'
    BY <1>1 DEF MInv, IInv
  <2>1. CASE Crash
    BY <1>1, <2>1, CrashSimulated DEF Lifecycle!Next
  <2>2. ASSUME NEW m \in Machines, MachineNext(m)
        PROVE  Lifecycle!MachineStep(m) \/ UNCHANGED Lifecycle!lifecycleVars
    <3>1. \A n \in Machines \ {m} : Same(n)
      BY <2>0, <2>2, OthersKept
    <3>2. CASE Driver(m)
      BY <1>1, <2>0, <3>1, <3>2, CreateSimulated, DeleteSimulated DEF Driver
    <3>3. CASE Environment(m)
      BY <1>1, <2>0, <3>1, <3>3, EnvironmentSimulated DEF Environment
    <3>4. CASE \/ StartCreate(m) \/ RecordCreated(m) \/ RequestDeletion(m)
               \/ StartDelete(m) \/ RecordDeleted(m)
      BY <1>1, <2>0, <3>1, <3>4, CallerSimulated
    <3> QED BY <2>2, <3>2, <3>3, <3>4 DEF MachineNext
  <2>3. CASE UNCHANGED vars
    <3>1. /\ UNCHANGED machine
          /\ callView' = callView /\ stageView' = stageView
          /\ leavingView' = leavingView
      BY <2>3 DEF vars, apiVars, providerVars, callView, stageView,
                  leavingView, CallOf, CreateIdle, DeleteIdle, StageOf,
                  OwnsAll, HasVM, Exists
    <3> QED BY <3>1 DEF Lifecycle!lifecycleVars
  <2> QED BY <1>1, <2>1, <2>2, <2>3 DEF Next, Lifecycle!Next
<1> QED
  BY <1>1, InitSimulated, InductivePast, PTL
  DEF Spec, ImplementsLifecycle, Lifecycle!Spec

Promises == INSTANCE MachineLifecycleProofs
  WITH call <- callView, stage <- stageView, leaving <- leavingView

\* And so what the caller recorded stays true of the VM.
THEOREM RecordsOfVMs ==
  ASSUME Serial
  PROVE  Spec => []Lifecycle!RecordsTrue
<1>1. Lifecycle!Spec => Promises!Spec
  <2>1. Lifecycle!Init => Promises!Init
    BY DEF Lifecycle!Init, Promises!Init
  <2>2. [Lifecycle!Next]_(Lifecycle!lifecycleVars)
        => [Promises!Next]_(Promises!lifecycleVars)
    BY Zenon
      DEF Lifecycle!Next, Lifecycle!Crash, Lifecycle!MachineStep,
          Lifecycle!StartCreate, Lifecycle!StoreVM,
          Lifecycle!OwnDependants, Lifecycle!CreateReturns,
          Lifecycle!CreateResults, Lifecycle!StartDelete,
          Lifecycle!DeleteVM, Lifecycle!DeleteReturns,
          Lifecycle!Released, Lifecycle!RecordCreated,
          Lifecycle!RequestDeletion, Lifecycle!RecordDeleted,
          Lifecycle!DeletedByOthers, Lifecycle!VMGone,
          Lifecycle!lifecycleVars, Promises!Next, Promises!Crash,
          Promises!MachineStep, Promises!StartCreate,
          Promises!StoreVM, Promises!OwnDependants,
          Promises!CreateReturns, Promises!CreateResults,
          Promises!StartDelete, Promises!DeleteVM,
          Promises!DeleteReturns, Promises!Released,
          Promises!RecordCreated, Promises!RequestDeletion,
          Promises!RecordDeleted, Promises!DeletedByOthers,
          Promises!VMGone, Promises!lifecycleVars
  <2> QED BY <2>1, <2>2, PTL DEF Lifecycle!Spec, Promises!Spec
<1>2. Promises!Spec => []Promises!RecordsTrue
  BY Promises!RecordsStayTrue
<1>3. Promises!RecordsTrue <=> Lifecycle!RecordsTrue
  BY DEF Promises!RecordsTrue, Lifecycle!RecordsTrue, Promises!Released, Lifecycle!Released
<1> QED BY <1>1, <1>2, <1>3, RefinesLifecycle, PTL DEF ImplementsLifecycle

-----------------------------------------------------------------------------
(* The disks of a first VM.  Until a VM was stored, a disk that exists was  *)
(* made by createDisk from the image of its class: CreateOrUpdate, which    *)
(* makes blank ones, needs a VM.  While the first VM exists no disk of the  *)
(* machine goes, so CreateOrUpdate finds them all.                          *)

\* Disks of one name are disks of one image.
OneImagePerName ==
  \A c \in Classes : \A i, j \in DOMAIN c.disks :
    DiskRole(c.disks[i]) = DiskRole(c.disks[j]) =>
      c.disks[i].image = c.disks[j].image

RoleAt(m, i) == DiskRole(class[m].disks[i])

\* The disk at position i of the class was made from its image.
Planned(m, i) == res[m][RoleAt(m, i)].body = class[m].disks[i].image

FirstDisks(m) ==
  /\ born[m] = 0 =>
       /\ \A i \in DOMAIN class[m].disks : Exists(m, RoleAt(m, i)) => Planned(m, i)
       /\ create[m].pc = "disk" =>
            \A i \in DOMAIN class[m].disks : i < create[m].i => Planned(m, i)
       /\ create[m].pc = "vm" => \A i \in DOMAIN class[m].disks : Planned(m, i)
  /\ vm[m].uid = 1 => \A i \in DOMAIN class[m].disks : Planned(m, i)

\* The disks of a machine have roles, other than those of the Secrets, and
\* images.
LEMMA DisksOf ==
  ASSUME TypeInv, NEW m \in Machines
  PROVE  /\ class[m] \in Classes
         /\ Len(class[m].disks) \in Nat
         /\ DOMAIN class[m].disks = 1 .. Len(class[m].disks)
         /\ \A i \in DOMAIN class[m].disks :
              /\ RoleAt(m, i) \in Role \ Secrets
              /\ class[m].disks[i].image \in Payloads \ {NoPayload}
<1>1. class[m] \in Classes
  BY CallTypes
<1>2. /\ class[m].disks \in Seq(DiskSpec)
      /\ \A i \in 1 .. Len(class[m].disks) : class[m].disks[i] \in DiskSpec
  BY <1>1, DiskRolesType
<1>3. /\ Len(class[m].disks) \in Nat
      /\ DOMAIN class[m].disks = 1 .. Len(class[m].disks)
  BY <1>2
<1> QED
  BY <1>1, <1>2, <1>3, PayloadAssumption
  DEF DiskSpec, RoleAt, DiskRole, Role, Disks, Secrets

\* The request of a createX helper leaves an object that exists alone, and
\* the call only goes on when there is one.
LEMMA EnsureBody ==
  ASSUME TypeInv, NEW m \in Machines, NEW r \in Role, NEW body \in Payloads,
         NEW next, Ensure(m, r, body, next)
  PROVE  /\ \A s \in Role : s # r \/ Exists(m, s) => res'[m][s] = res[m][s]
         /\ res'[m][r].body \in {res[m][r].body, body}
         /\ \/ create'[m].pc = "idle"
            \/ create'[m] = next /\ res'[m][r].body # NoPayload
<1>1. res[m] \in [Role -> Resource] /\ body # NoPayload
  BY CallTypes, PayloadAssumption
<1>2. CreateResource(m, r, body, NoUID) \/ UNCHANGED res
  BY DEF Ensure
<1>3. CreateResource(m, r, body, NoUID) => res'[m][r].body # NoPayload
  BY <1>1 DEF CreateResource, Exists, TypeInv, TypeOK, APITypeOK
<1>4. \/ \E reason : CreateFails(m, wrapError(reason))
      \/ CreateContinues(m, next) /\ CreateResource(m, r, body, NoUID)
  BY DEF Ensure
<1>5. \/ create'[m].pc = "idle"
      \/ create'[m] = next /\ res'[m][r].body # NoPayload
  BY <1>3, <1>4, FailsOutcome, ErrorsAreNotOK, ContinuesOutcome DEF Failed
<1> QED
  BY <1>1, <1>2, <1>5 DEF CreateResource, Exists, TypeInv, TypeOK, APITypeOK

\* CreateOrUpdate keeps what an object holds.
LEMMA OwnWriteBody ==
  ASSUME TypeInv, NEW m \in Machines, ownCreate(m) \/ ownUpdate(m)
  PROVE  \A s \in Role : Exists(m, s) => res'[m][s].body = res[m][s].body
<1> DEFINE r == OwnSeq(class[m])[create[m].i]
<1>1. r \in Role /\ res[m] \in [Role -> Resource]
  BY OwnRole, CallTypes DEF ownCreate, ownUpdate
<1>2. CASE ownCreate(m)
  <2>1. UNCHANGED res \/ CreateResource(m, r, Recreated(m, r), create[m].uid)
    BY <1>2 DEF ownCreate
  <2> QED BY <1>1, <2>1 DEF CreateResource, Exists, TypeInv, TypeOK, APITypeOK
<1>3. CASE ownUpdate(m)
  <2> DEFINE x == [res[m][r] EXCEPT !.owner = create[m].uid]
  <2>1. UNCHANGED res \/ res' = [res EXCEPT ![m][r] = x]
    BY <1>3 DEF ownUpdate, Conflict, UpdateOwner
  <2>2. x.body = res[m][r].body
    BY <1>1 DEF Resource
  <2> HIDE DEF r, x
  <2> QED BY <1>1, <2>1, <2>2 DEF TypeInv, TypeOK, APITypeOK
<1> QED BY <1>2, <1>3

\* A step that stores no VM and is not part of the disk loop keeps this, when
\* it makes no disk before the first VM and takes none from it.
LEMMA FirstDisksKept ==
  ASSUME TypeInv, NEW m \in Machines, FirstDisks(m),
         UNCHANGED <<class, born>>, vm'[m].uid \in {vm[m].uid, NoUID},
         \/ create'[m].pc \notin {"disk", "vm"}
         \/ create'[m] = create[m] /\ (born[m] = 0 => res'[m] = res[m]),
         born[m] = 0 =>
           \A r \in Role \ Secrets :
             Exists(m, r)' => res'[m][r].body = res[m][r].body,
         vm'[m].uid = 1 =>
           \A r \in Role \ Secrets :
             Exists(m, r) => res'[m][r].body = res[m][r].body
  PROVE  FirstDisks(m)'
<1>1. /\ \A i : RoleAt(m, i)' = RoleAt(m, i)
      /\ \A i \in DOMAIN class[m].disks :
           /\ RoleAt(m, i) \in Role \ Secrets
           /\ Planned(m, i) => Exists(m, RoleAt(m, i))
  BY DisksOf DEF RoleAt, Planned, Exists
<1>2. vm'[m].uid = 1 => \A i \in DOMAIN class[m].disks : Planned(m, i)'
  BY <1>1 DEF FirstDisks, Planned, NoUID
<1>3. born[m] = 0 =>
        \A i \in DOMAIN class[m].disks :
          Exists(m, RoleAt(m, i))' => Planned(m, i)'
  BY <1>1 DEF FirstDisks, Planned, Exists
<1>4. born[m] = 0 /\ create'[m].pc \in {"disk", "vm"} =>
        /\ create'[m] = create[m]
        /\ \A i : Planned(m, i)' = Planned(m, i)
  BY <1>1 DEF Planned
<1> QED BY <1>2, <1>3, <1>4 DEF FirstDisks

\* The disk loop: each disk it passes exists, and so is as planned.
LEMMA CreateDiskFirst ==
  ASSUME OneImagePerName, TypeInv, NEW m \in Machines, MachineInv(m),
         FirstDisks(m), createDisk(m)
  PROVE  FirstDisks(m)'
<1> DEFINE c == create[m]
           r == RoleAt(m, c.i)
           image == class[m].disks[c.i].image
           next == IF MoreDisks(m) THEN [c EXCEPT !.i = @ + 1]
                                   ELSE [c EXCEPT !.pc = "vm", !.i = 1]
<1>1. c.pc = "disk" /\ Ensure(m, r, image, next)
  BY DEF createDisk, RoleAt
<1>2. /\ c.i \in DOMAIN class[m].disks /\ c.i \in Nat /\ c \in CreateCall
      /\ r \in Role \ Secrets /\ image \in Payloads \ {NoPayload}
  BY <1>1, DisksOf, CallTypes DEF TypeInv, CallOK
<1>3. /\ \A s \in Role : s # r \/ Exists(m, s) => res'[m][s] = res[m][s]
      /\ res'[m][r].body \in {res[m][r].body, image}
      /\ \/ create'[m].pc = "idle"
         \/ create'[m] = next /\ res'[m][r].body # NoPayload
  <2> HIDE DEF r, image, next
  <2> QED BY <1>1, <1>2, EnsureBody
<1>4. UNCHANGED <<vm, born, class>>
  BY <1>1 DEF Ensure
<1>5. /\ \A i : RoleAt(m, i)' = RoleAt(m, i)
      /\ \A i \in DOMAIN class[m].disks :
           RoleAt(m, i) \in Role \ Secrets
           /\ (Planned(m, i) => Exists(m, RoleAt(m, i)))
  BY <1>4, DisksOf DEF RoleAt, Planned, Exists
<1>6. \A i \in DOMAIN class[m].disks : Planned(m, i) => Planned(m, i)'
  BY <1>3, <1>4, <1>5 DEF Planned
<1>7. ASSUME born[m] = 0, NEW i \in DOMAIN class[m].disks,
             Exists(m, RoleAt(m, i))'
      PROVE  Planned(m, i)'
  <2>1. CASE Exists(m, RoleAt(m, i))
    BY <1>6, <1>7, <2>1 DEF FirstDisks
  <2>2. CASE ~Exists(m, RoleAt(m, i))
    <3>1. RoleAt(m, i) = r
      BY <1>3, <1>5, <1>7, <2>2 DEF Exists
    <3>2. class[m].disks[i].image = image
      BY <1>2, <3>1, DisksOf DEF OneImagePerName, RoleAt
    <3>3. res'[m][r].body = image
      BY <1>3, <1>5, <1>7, <2>2, <3>1 DEF Exists
    <3> QED BY <1>4, <1>5, <3>1, <3>2, <3>3 DEF Planned
  <2> QED BY <2>1, <2>2
<1>8. ASSUME born[m] = 0, create'[m] = next,
             NEW i \in DOMAIN class[m].disks, i = c.i
      PROVE  Planned(m, i)'
  <2>1. next.pc # "idle"
    BY <1>1, <1>2 DEF CreateCall
  <2>2. res'[m][RoleAt(m, i)].body # NoPayload
    <3> HIDE DEF next
    <3> QED BY <1>3, <1>8, <2>1
  <2> QED BY <1>5, <1>7, <1>8, <2>2 DEF Exists
<1>9. /\ MoreDisks(m) => next.pc = "disk" /\ next.i = c.i + 1
      /\ ~MoreDisks(m) => next.pc = "vm" /\ c.i = Len(class[m].disks)
  BY <1>1, <1>2, DisksOf DEF MoreDisks, CreateCall
<1>10. ASSUME born[m] = 0, create'[m] = next
       PROVE  \A i \in DOMAIN class[m].disks : i < c.i + 1 => Planned(m, i)'
  <2>1. \A i \in DOMAIN class[m].disks : i < c.i => Planned(m, i)
    BY <1>1, <1>10 DEF FirstDisks
  <2>2. \A i \in DOMAIN class[m].disks : i < c.i + 1 => i < c.i \/ i = c.i
    BY <1>2, DisksOf
  <2> QED BY <1>6, <1>8, <1>10, <2>1, <2>2
<1>11. ASSUME born[m] = 0, create'[m].pc \in {"disk", "vm"}
       PROVE  /\ create'[m].pc = "disk" =>
                   \A i \in DOMAIN class[m].disks :
                     i < create'[m].i => Planned(m, i)'
              /\ create'[m].pc = "vm" =>
                   \A i \in DOMAIN class[m].disks : Planned(m, i)'
  <2>1. create'[m] = next
    BY <1>3, <1>11
  <2>2. c.i = Len(class[m].disks) =>
          \A i \in DOMAIN class[m].disks : i < c.i + 1
    BY DisksOf
  <2> HIDE DEF next
  <2> QED BY <1>9, <1>10, <1>11, <2>1, <2>2
<1>12. vm[m].uid = 1 => \A i \in DOMAIN class[m].disks : Planned(m, i)'
  BY <1>6 DEF FirstDisks
<1> QED BY <1>4, <1>7, <1>11, <1>12 DEF FirstDisks

\* The first VM is stored when the disk loop is over.
LEMMA CreateVMFirst ==
  ASSUME TypeInv, NEW m \in Machines, FirstDisks(m), createVM(m)
  PROVE  FirstDisks(m)'
<1>1. /\ create[m].pc = "vm" /\ create'[m].pc \in {"idle", "getvm"}
      /\ UNCHANGED <<res, class>>
      /\ \/ UNCHANGED <<vm, born>>
         \/ vm'[m].uid = born[m] + 1 /\ born'[m] = born[m] + 1
  BY CreateVMOutcome DEF Failed, Goes
<1>2. \A i : Planned(m, i)' = Planned(m, i) /\ RoleAt(m, i)' = RoleAt(m, i)
  BY <1>1 DEF Planned, RoleAt
<1>3. CASE UNCHANGED <<vm, born>>
  BY <1>1, <1>2, <1>3 DEF FirstDisks, Exists
<1>4. CASE vm'[m].uid = born[m] + 1 /\ born'[m] = born[m] + 1
  <2>1. born'[m] # 0 /\ (vm'[m].uid = 1 => born[m] = 0)
    BY <1>4, Numbers
  <2>2. vm'[m].uid = 1 => \A i \in DOMAIN class[m].disks : Planned(m, i)
    BY <1>1, <2>1 DEF FirstDisks
  <2> QED BY <1>1, <1>2, <2>1, <2>2 DEF FirstDisks
<1> QED BY <1>1, <1>3, <1>4

\* The rest of CreateMachine.
LEMMA CreateStepFirst ==
  ASSUME OneImagePerName, TypeInv, NEW m \in Machines, MachineInv(m),
         FirstDisks(m), CreateStep(m)
  PROVE  FirstDisks(m)'
<1> USE DEF MachineInv, Control
<1>0. UNCHANGED <<class, delete>> /\ create[m].pc # "idle"
  BY CreateStepFrame
<1>1. CASE CreatePrepares(m) \/ getVM(m) \/ ownRead(m) \/ pollVM(m)
           \/ waitTimesOut(m)
  <2>1. UNCHANGED apiVars /\ create'[m].pc \notin {"disk", "vm"}
    BY <1>1, PreparesOutcome, GetVMOutcome, OwnReadOutcome, PollOutcome
    DEF Failed, Goes, Advances, Succeeds
  <2> QED BY <1>0, <2>1, FirstDisksKept DEF apiVars
<1>2. CASE createCAInitScriptSecret(m)
  <2> DEFINE next == [create[m] EXCEPT !.pc = "secret",
                        !.versioned = NowVersioned(m, "cainit-script")]
  <2>1. Ensure(m, "cainit-script", CAScript, next) /\ UNCHANGED <<vm, born>>
    BY <1>2 DEF createCAInitScriptSecret, Ensure
  <2>2. "cainit-script" \in Secrets /\ Secrets \subseteq Role
        /\ CAScript \in Payloads /\ next.pc = "secret"
    BY ScriptAssumption, CallTypes DEF Role, Secrets, CreateCall
  <2>3. /\ \A s \in Role : s # "cainit-script" => res'[m][s] = res[m][s]
        /\ create'[m].pc = "idle" \/ create'[m] = next
    <3> HIDE DEF next
    <3> QED BY <2>1, <2>2, EnsureBody
  <2> QED BY <1>0, <2>1, <2>2, <2>3, FirstDisksKept
<1>3. CASE createSecret(m)
  <2> DEFINE pc == IF class[m].disks = <<>> THEN "vm" ELSE "disk"
             next == [create[m] EXCEPT !.pc = pc, !.i = 1,
                        !.versioned = NowVersioned(m, "init-script")]
  <2>1. Ensure(m, "init-script", create[m].userData, next)
        /\ UNCHANGED <<vm, born>>
    BY <1>3 DEF createSecret, Ensure
  <2>2. "init-script" \in Secrets /\ Secrets \subseteq Role
        /\ create[m].userData \in Payloads /\ next.pc = pc /\ next.i = 1
    BY <1>0, ScriptAssumption, CallTypes DEF Role, Secrets, CreateCall
  <2>3. /\ \A s \in Role : s # "init-script" => res'[m][s] = res[m][s]
        /\ create'[m].pc = "idle" \/ create'[m] = next
    <3> HIDE DEF next
    <3> QED BY <2>1, <2>2, EnsureBody
  <2>4. \A i \in DOMAIN class[m].disks :
          /\ RoleAt(m, i)' = RoleAt(m, i) /\ Planned(m, i)' = Planned(m, i)
          /\ Exists(m, RoleAt(m, i))' = Exists(m, RoleAt(m, i))
    BY <1>0, <2>2, <2>3, DisksOf DEF RoleAt, Planned, Exists
  <2>5. /\ create'[m].pc = "disk" => create'[m].i = 1
        /\ create'[m].pc = "vm" => DOMAIN class[m].disks = {}
    <3>1. class[m].disks = <<>> => DOMAIN class[m].disks = {}
      OBVIOUS
    <3> HIDE DEF next
    <3> QED BY <2>2, <2>3, <3>1
  <2>6. \A i \in DOMAIN class[m].disks : ~(i < 1)
    BY DisksOf
  <2> QED BY <1>0, <2>1, <2>4, <2>5, <2>6 DEF FirstDisks
<1>4. CASE ownCreate(m) \/ ownUpdate(m)
  <2>1. /\ UNCHANGED <<vm, born>> /\ create[m].pc = "write"
        /\ create'[m].pc \notin {"disk", "vm"}
    BY <1>4, OwnWriteOutcome DEF Failed, Goes, Advances, Succeeds
  <2>2. born[m] # 0
    BY <2>1 DEF Uids, HoldsVM, NoUID
  <2> QED BY <1>0, <1>4, <2>1, <2>2, OwnWriteBody, FirstDisksKept
<1> QED
  BY <1>1, <1>2, <1>3, <1>4, CreateDiskFirst, CreateVMFirst DEF CreateStep

\* DeleteMachine removes disks only when there is no VM and no call that
\* creates one.
LEMMA DeleteStepFirst ==
  ASSUME Serial, TypeInv, NEW m \in Machines, MachineInv(m), FirstDisks(m),
         DeleteStep(m)
  PROVE  FirstDisks(m)'
<1>1. /\ UNCHANGED <<class, create, born>> /\ vm'[m].uid = vm[m].uid
      /\ delete[m].pc # "idle"
      /\ \A r \in Role : res'[m][r] \in {res[m][r], NoResource}
  BY DeleteOutcome
<1>2. create[m].pc = "idle"
  BY <1>1 DEF MachineInv, Control, Turns, TypeInv, TypeOK, Phase
<1>3. HasVM(m) => UNCHANGED res
  BY DeleteOutcome DEF MachineInv, DeletePath
<1>4. \A r \in Role : Exists(m, r)' => res'[m][r] = res[m][r]
  BY <1>1 DEF Exists, NoResource
<1>5. vm'[m].uid = 1 => HasVM(m)
  BY <1>1 DEF HasVM, NoUID
<1> QED BY <1>1, <1>2, <1>3, <1>4, <1>5, FirstDisksKept

\* Nothing that happens on its own takes a disk before there was a VM, or
\* from the first one.
LEMMA EnvironmentFirst ==
  ASSUME TypeInv, NEW m \in Machines, MachineInv(m), Past(m), FirstDisks(m),
         Environment(m)
  PROVE  FirstDisks(m)'
<1>1. /\ UNCHANGED <<class, create, born>> /\ vm'[m].uid \in {vm[m].uid, NoUID}
      /\ \A r \in Role :
           \/ res'[m][r] = res[m][r]
           \/ vm'[m].uid = NoUID
           \/ res[m][r].owner \notin {NoUID, vm[m].uid}
  BY EnvironmentOutcome
<1>2. /\ born[m] \in Nat /\ vm[m].uid \in {NoUID, born[m]}
      /\ \A r \in Role : res[m][r].owner \in Nat /\ res[m][r].owner <= born[m]
  BY Numbers
  DEF MachineInv, Control, Uids, Past, OwnersPast, TypeInv, TypeOK, APITypeOK,
      Resource
<1>3. ASSUME born[m] = 0 PROVE res'[m] = res[m]
  <2>1. ~HasVM(m) /\ ~vm[m].terminating
    BY <1>2, <1>3 DEF HasVM, NoUID, Past, Shape
  <2>2. \A r \in Role : res[m][r].owner = NoUID
    BY <1>2, <1>3 DEF NoUID
  <2> QED
    BY <2>1, <2>2
    DEF Environment, APINext, StatusChanges, VMRuns, VMFails,
        VMDeletedByOthers, VMGone, Collect
<1>4. ASSUME vm'[m].uid = 1 PROVE \A r \in Role : res'[m][r] = res[m][r]
  <2>1. vm[m].uid = 1 /\ born[m] = 1
    BY <1>1, <1>2, <1>4 DEF NoUID
  <2>2. \A r \in Role : res[m][r].owner \in {NoUID, vm[m].uid}
    BY <1>2, <2>1 DEF NoUID
  <2> QED BY <1>1, <1>4, <2>2 DEF NoUID
<1> QED BY <1>1, <1>3, <1>4, FirstDisksKept

\* The caller touches neither the disks nor the VM.
LEMMA CallerFirst ==
  ASSUME TypeInv, NEW m \in Machines, FirstDisks(m),
         \/ StartCreate(m) \/ RecordCreated(m) \/ RequestDeletion(m)
         \/ StartDelete(m) \/ RecordDeleted(m)
  PROVE  FirstDisks(m)'
<1>1. UNCHANGED <<vm, res, born, class>>
  BY DEF StartCreate, RecordCreated, RequestDeletion, StartDelete,
         RecordDeleted, apiVars, providerVars
<1>2. create'[m].pc \notin {"disk", "vm"} \/ create'[m] = create[m]
  <2>1. CASE StartCreate(m)
    <3>1. PICK data \in UserData :
            create' = [create EXCEPT ![m] = [CreateReturned("None") EXCEPT
                         !.pc = "client", !.userData = data]]
      BY <2>1 DEF StartCreate
    <3>2. create'[m].pc = "client"
      BY <3>1 DEF TypeInv, TypeOK, ProviderTypeOK, CreateReturned
    <3> QED BY <3>2
  <2>2. CASE RecordCreated(m)
    BY <2>2
    DEF RecordCreated, CreateReturned, TypeInv, TypeOK, ProviderTypeOK
  <2>3. CASE RequestDeletion(m) \/ StartDelete(m) \/ RecordDeleted(m)
    BY <2>3 DEF RequestDeletion, StartDelete, RecordDeleted, providerVars
  <2> QED BY <2>1, <2>2, <2>3
<1> QED BY <1>1, <1>2, FirstDisksKept

\* When the calls of a machine do not overlap and disks of one name are disks
\* of one image, the first VM of a machine has the disks its class asks for as
\* long as it exists: no retry, crash or lost answer leads CreateOrUpdate to
\* make a blank one.
THEOREM FirstVMComplete ==
  ASSUME Serial, OneImagePerName
  PROVE  Spec => []FirstVMHasItsDisks
<1> DEFINE Inv == MInv /\ \A m \in Machines : FirstDisks(m)
<1>1. Init => \A m \in Machines : FirstDisks(m)
  <2> SUFFICES ASSUME Init, NEW m \in Machines PROVE FirstDisks(m)
    OBVIOUS
  <2>1. /\ vm[m].uid = 0 /\ create[m].pc = "idle"
        /\ \A r \in Role : ~Exists(m, r)
    BY DEF Init, APIInit, ProviderInit, CreateReturned, NoVM, NoResource, NoUID,
           Exists
  <2>2. TypeInv
    BY InitType
  <2> QED BY <2>1, <2>2, DisksOf DEF FirstDisks
<1>2. ASSUME Inv, MInv', [Next]_vars PROVE Inv'
  <2>1. TypeInv /\ \A m \in Machines : MachineInv(m) /\ Past(m) /\ FirstDisks(m)
    BY <1>2 DEF MInv, IInv
  <2>2. ASSUME NEW m \in Machines, MachineNext(m), NEW n \in Machines
        PROVE  FirstDisks(n)'
    <3>1. CASE n # m
      <4>1. Same(n)
        BY <2>1, <2>2, <3>1, OthersKept
      <4> QED BY <2>1, <4>1 DEF Same, FirstDisks, Planned, RoleAt, Exists
    <3>2. CASE n = m
      BY <2>1, <2>2, <3>2, CreateStepFirst, DeleteStepFirst, EnvironmentFirst,
         CallerFirst
      DEF MachineNext, Driver
    <3> QED BY <3>1, <3>2
  <2>3. ASSUME Crash, NEW n \in Machines PROVE FirstDisks(n)'
    <3>1. UNCHANGED <<vm, res, born, class>> /\ create'[n].pc = "idle"
      BY <2>3 DEF Crash, apiVars, CreateReturned
    <3> QED BY <2>1, <3>1, FirstDisksKept
  <2>4. ASSUME UNCHANGED vars, NEW n \in Machines PROVE FirstDisks(n)'
    BY <2>1, <2>4
    DEF vars, apiVars, providerVars, FirstDisks, Planned, RoleAt, Exists
  <2> QED BY <1>2, <2>2, <2>3, <2>4 DEF Next
<1>3. Inv => FirstVMHasItsDisks
  BY DEF FirstDisks, Planned, RoleAt, FirstVMHasItsDisks, DisksAsSpecified
<1> QED BY <1>1, <1>2, <1>3, InductivePast, PTL DEF Spec
=============================================================================

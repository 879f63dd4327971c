------------------------ MODULE MachineLifecycleProofs ------------------------
(***************************************************************************)
(* What follows from the promises of CreateMachine and DeleteMachine alone.*)
(***************************************************************************)
EXTENDS MachineLifecycle, TLAPS

\* A result stands for the state it was reported of until it is recorded, and
\* only a running CreateMachine could make it untrue.
ResultsTrue ==
  \A m \in Machines :
    /\ call[m] = "created" => machine[m] = "wanted" /\ stage[m] # "partial"
    /\ call[m] \in {"deleting", "deleted"} => machine[m] = "deleting"
    /\ call[m] = "deleted" => Released(m)
    /\ machine[m] \in {"ready", "gone"} => call[m] = "none"

Inv == TypeOK /\ ResultsTrue /\ RecordsTrue

\* A step keeps them.
LEMMA StepKeeps ==
  ASSUME Inv, NEW m \in Machines, MachineStep(m)
  PROVE  Inv'
<1> USE DEF Inv, TypeOK, ResultsTrue, RecordsTrue, Released, Stage, Call
<1>1. CASE StartCreate(m)
  BY <1>1 DEF StartCreate
<1>2. CASE StoreVM(m)
  BY <1>2 DEF StoreVM
<1>3. CASE OwnDependants(m)
  BY <1>3 DEF OwnDependants, CreateResults
<1>4. CASE CreateReturns(m)
  BY <1>4 DEF CreateReturns, CreateResults
<1>5. CASE StartDelete(m)
  BY <1>5 DEF StartDelete
<1>6. CASE DeleteVM(m)
  BY <1>6 DEF DeleteVM
<1>7. CASE DeleteReturns(m)
  BY <1>7 DEF DeleteReturns
<1>8. CASE RecordCreated(m)
  BY <1>8 DEF RecordCreated
<1>9. CASE RequestDeletion(m)
  BY <1>9 DEF RequestDeletion
<1>10. CASE RecordDeleted(m)
  BY <1>10 DEF RecordDeleted
<1>11. CASE DeletedByOthers(m)
  BY <1>11 DEF DeletedByOthers
<1>12. CASE VMGone(m)
  BY <1>12 DEF VMGone
<1> QED
  BY <1>1, <1>2, <1>3, <1>4, <1>5, <1>6, <1>7, <1>8, <1>9, <1>10, <1>11,
     <1>12 DEF MachineStep

\* What the caller has recorded stays true of the VM, whatever crashes and
\* whoever else deletes VMs: a machine recorded as created never has a partial
\* VM, a machine that was let go never has one that would stay.
THEOREM RecordsStayTrue == Spec => []RecordsTrue
<1>1. Init => Inv
  BY DEF Init, Inv, TypeOK, ResultsTrue, RecordsTrue, Stage, Call
<1>2. ASSUME Inv, [Next]_lifecycleVars PROVE Inv'
  <2>1. CASE Crash
    BY <1>2, <2>1
    DEF Crash, Inv, TypeOK, ResultsTrue, RecordsTrue, Released, Call
  <2>2. CASE UNCHANGED lifecycleVars
    BY <1>2, <2>2
    DEF lifecycleVars, Inv, TypeOK, ResultsTrue, RecordsTrue, Released
  <2> QED BY <1>2, <2>1, <2>2, StepKeeps DEF Next
<1> QED BY <1>1, <1>2, PTL DEF Spec, Inv
=============================================================================

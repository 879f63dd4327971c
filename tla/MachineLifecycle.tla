--------------------------- MODULE MachineLifecycle ---------------------------
(***************************************************************************)
(* What CreateMachine and DeleteMachine together promise their caller, with*)
(* the management API's objects reduced to one question: how far has the VM*)
(* of a machine come?  "partial" is a VM of which some dependant may be    *)
(* missing or may outlive it; "complete" is a VM that takes everything made*)
(* for it with it when it goes.                                            *)
(*                                                                         *)
(* The calls of a machine follow one another.  A call may fail at any time;*)
(* what it has done by then stays done.                                    *)
(***************************************************************************)
CONSTANT Machines

VARIABLES
  machine,  \* what the caller wants of each machine
  call,     \* the running call, or a result the caller has not recorded yet
  stage,    \* how far the VM of each machine has come
  leaving   \* that VM is being deleted

lifecycleVars == <<machine, call, stage, leaving>>

Stage == {"none", "partial", "complete"}
Call == {"none", "creating", "created", "deleting", "deleted"}

TypeOK ==
  /\ machine \in [Machines -> {"wanted", "ready", "deleting", "gone"}]
  /\ call \in [Machines -> Call]
  /\ stage \in [Machines -> Stage]
  /\ leaving \in [Machines -> BOOLEAN]

Init ==
  /\ machine = [m \in Machines |-> "wanted"]
  /\ call = [m \in Machines |-> "none"]
  /\ stage = [m \in Machines |-> "none"]
  /\ leaving = [m \in Machines |-> FALSE]

\* A DeleteMachine may succeed.
Released(m) == stage[m] = "none" \/ leaving[m]

\* What a CreateMachine that ends now may leave for the caller to record.  The
\* result is of no use to a caller that wants the machine deleted by now.
CreateResults(m, sound) ==
  {"none"} \cup (IF machine[m] = "wanted" /\ sound THEN {"created"} ELSE {})

-----------------------------------------------------------------------------
(* The calls.                                                              *)

StartCreate(m) ==
  /\ machine[m] = "wanted" /\ call[m] = "none"
  /\ call' = [call EXCEPT ![m] = "creating"]
  /\ UNCHANGED <<machine, stage, leaving>>

\* The VM is stored; a lost answer may end the call there.
StoreVM(m) ==
  /\ call[m] = "creating" /\ stage[m] = "none"
  /\ stage' = [stage EXCEPT ![m] = "partial"]
  /\ \E c \in {"creating", "none"} : call' = [call EXCEPT ![m] = c]
  /\ UNCHANGED <<machine, leaving>>

\* The last of its dependants is owned.  A VM that is complete stays so.
OwnDependants(m) ==
  /\ call[m] = "creating" /\ stage[m] = "partial"
  /\ stage' = [stage EXCEPT ![m] = "complete"]
  /\ \E c \in {"creating"} \cup CreateResults(m, TRUE) :
       call' = [call EXCEPT ![m] = c]
  /\ UNCHANGED <<machine, leaving>>

\* Success is never reported while the VM is partial.  It may be reported of a
\* VM that was complete and is gone.
CreateReturns(m) ==
  /\ call[m] = "creating"
  /\ \E c \in CreateResults(m, stage[m] # "partial") :
       call' = [call EXCEPT ![m] = c]
  /\ UNCHANGED <<machine, stage, leaving>>

StartDelete(m) ==
  /\ machine[m] = "deleting" /\ call[m] = "none"
  /\ call' = [call EXCEPT ![m] = "deleting"]
  /\ UNCHANGED <<machine, stage, leaving>>

DeleteVM(m) ==
  /\ call[m] = "deleting" /\ stage[m] # "none"
  /\ leaving' = [leaving EXCEPT ![m] = TRUE]
  /\ \E c \in {"deleted", "none"} : call' = [call EXCEPT ![m] = c]
  /\ UNCHANGED <<machine, stage>>

\* Success is never reported while there is a VM that would stay.
DeleteReturns(m) ==
  /\ call[m] = "deleting"
  /\ \E c \in {"none"} \cup (IF Released(m) THEN {"deleted"} ELSE {}) :
       call' = [call EXCEPT ![m] = c]
  /\ UNCHANGED <<machine, stage, leaving>>

-----------------------------------------------------------------------------
(* The caller and the environment.                                         *)

RecordCreated(m) ==
  /\ machine[m] = "wanted" /\ call[m] = "created"
  /\ machine' = [machine EXCEPT ![m] = "ready"]
  /\ call' = [call EXCEPT ![m] = "none"]
  /\ UNCHANGED <<stage, leaving>>

RequestDeletion(m) ==
  /\ machine[m] \in {"wanted", "ready"}
  /\ machine' = [machine EXCEPT ![m] = "deleting"]
  /\ call' = [call EXCEPT ![m] = IF @ = "created" THEN "none" ELSE @]
  /\ UNCHANGED <<stage, leaving>>

RecordDeleted(m) ==
  /\ machine[m] = "deleting" /\ call[m] = "deleted"
  /\ machine' = [machine EXCEPT ![m] = "gone"]
  /\ call' = [call EXCEPT ![m] = "none"]
  /\ UNCHANGED <<stage, leaving>>

\* The caller dies: calls and results that were not recorded are forgotten.
Crash ==
  /\ call' = [m \in Machines |-> "none"]
  /\ UNCHANGED <<machine, stage, leaving>>

DeletedByOthers(m) ==
  /\ stage[m] # "none"
  /\ leaving' = [leaving EXCEPT ![m] = TRUE]
  /\ UNCHANGED <<machine, call, stage>>

VMGone(m) ==
  /\ leaving[m]
  /\ stage' = [stage EXCEPT ![m] = "none"]
  /\ leaving' = [leaving EXCEPT ![m] = FALSE]
  /\ UNCHANGED <<machine, call>>

MachineStep(m) ==
  \/ StartCreate(m) \/ StoreVM(m) \/ OwnDependants(m) \/ CreateReturns(m)
  \/ StartDelete(m) \/ DeleteVM(m) \/ DeleteReturns(m)
  \/ RecordCreated(m) \/ RequestDeletion(m) \/ RecordDeleted(m)
  \/ DeletedByOthers(m) \/ VMGone(m)

Next == Crash \/ \E m \in Machines : MachineStep(m)

Spec == Init /\ [][Next]_lifecycleVars

-----------------------------------------------------------------------------
\* The caller's records are true of the VM: a machine recorded as created has
\* no partial VM, one that is let go has none that would stay.
RecordsTrue ==
  \A m \in Machines :
    /\ machine[m] = "ready" => stage[m] # "partial"
    /\ machine[m] = "gone" => Released(m)
=============================================================================

--------------------------- MODULE SafetyController ---------------------------
(***************************************************************************)
(* ListMachines and the caller's orphan collection.  When calls of one     *)
(* machine overlap (Serial = FALSE: creations and deletions are worked off *)
(* separate queues) a CreateMachine may store a VM after the last          *)
(* DeleteMachine of its machine.  The safety controller (external) lists   *)
(* the VMs of each class and has the driver delete every one that no       *)
(* Machine object backs.  What it works on is the list, which ages while   *)
(* it is worked off.                                                       *)
(*                                                                         *)
(* Foreign VMs are in the project too, made by someone else: nothing but   *)
(* their labels keeps ListMachines from returning them.                    *)
(***************************************************************************)
EXTENDS MachineController

CONSTANTS
  Foreign,        \* names of VMs that are not this controller's
  ForeignLabels   \* their labels

ASSUME ForeignAssumption ==
  Foreign \subseteq Machines /\ ForeignLabels \subseteq Labels

VARIABLE listed   \* VMs of the last list that are still to be looked at

safetyVars == <<vars, listed>>

ForeignVM == [uid |-> 1, terminating |-> FALSE, state |-> "Running",
              autoDelete |-> {}, labels |-> ForeignLabels]

SafetyInit ==
  /\ vm = [m \in Machines |-> IF m \in Foreign THEN ForeignVM ELSE NoVM]
  /\ res = [m \in Machines |-> [r \in Role |-> NoResource]]
  /\ born = [m \in Machines |-> vm[m].uid]
  /\ disruptions = 0
  /\ ProviderInit
  /\ machine = [m \in Machines |-> IF m \in Foreign THEN "gone" ELSE "wanted"]
  /\ crashes = 0
  /\ listed = {}

\* A list that ignores the labels of the class.
ListedWithoutLabels(c) == {m \in Machines : HasVM(m)}
\* A list that wants the class's labels to be all the labels of the VM.
ListedByEqualLabels(c) == {m \in Machines : HasVM(m) /\ c.labels = vm[m].labels}

\* The VMs ListMachines returns for a class: those of the project that carry
\* every label of the class, whoever made them.
Listed(c) == {m \in Machines : HasVM(m) /\ c.labels \subseteq vm[m].labels}

ListMachines(m) ==
  /\ m \notin Foreign
  /\ listed = {}
  /\ \/ class[m].parses /\ Answered /\ listed' = Listed(class[m])
     \/ class[m].parses /\ Fault /\ UNCHANGED listed
  /\ UNCHANGED <<apiVars, class, create, delete, reported, machine, crashes>>

\* A listed VM with a Machine object is left alone.
SkipBacked(m) ==
  /\ m \in listed
  /\ machine[m] # "gone"
  /\ listed' = listed \ {m}
  /\ UNCHANGED vars

\* One without is an orphan: DeleteMachine is called for it.
StartOrphanDelete(m) ==
  /\ m \in listed
  /\ machine[m] = "gone"
  /\ DeleteIdle(m)
  /\ delete' = [delete EXCEPT ![m] = [pc |-> "client", result |-> "None"]]
  /\ listed' = listed \ {m}
  /\ UNCHANGED <<apiVars, class, create, reported, faults, machine, crashes>>

SafetyNext ==
  \/ Crash /\ listed' = {}
  \/ \E m \in Machines :
       \/ MachineNext(m) /\ UNCHANGED listed
       \/ ListMachines(m) \/ SkipBacked(m) \/ StartOrphanDelete(m)

SafetySpec == SafetyInit /\ [][SafetyNext]_safetyVars

-----------------------------------------------------------------------------
\* Deletion ends although creations run beside it.
DeletionEnds ==
  \A m \in Machines \ Foreign : machine[m] = "deleting" ~> machine[m] = "gone"

\* No VM of a deleted machine stays for good, not even one that a late
\* CreateMachine stores after DeleteMachine found nothing.
OrphansCollected ==
  \A m \in Machines \ Foreign : machine[m] = "gone" ~> []~HasVM(m)

\* A VM of somebody else that lacks a label of every class is never deleted
\* by way of the driver.
ForeignSpared ==
  (\A c \in Classes : ~(c.labels \subseteq ForeignLabels)) /\ disruptions = 0
    => \A m \in Foreign : vm[m].uid = 1 /\ ~vm[m].terminating
=============================================================================

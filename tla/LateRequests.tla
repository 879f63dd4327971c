------------------------------ MODULE LateRequests ------------------------------
(***************************************************************************)
(* Writes that outlive their call.  A request whose answer the driver did  *)
(* not get (its context ended, its connection broke, its process died) may *)
(* still be on its way: the server carries it out later, when another call *)
(* of the machine, the safety controller, or nobody is at work on it.      *)
(*                                                                         *)
(* What makes a late write harmless has to be in the write itself: Create  *)
(* and Delete go by name alone, Update carries the version it was based on *)
(* (here: what was read).                                                  *)
(***************************************************************************)
EXTENDS SafetyController

CONSTANT MaxLate   \* bound: writes on their way at one time

ASSUME LateAssumption == MaxLate \in Nat

VARIABLE late   \* the writes on their way

lateVars == <<safetyVars, late>>

Kind == {"createVM", "create", "update", "deleteVM", "delete"}

\* body, owner: of an object to be created; owner of one to be updated, which
\* was read before.  Only those of the fields that the kind needs are set.
Request == [machine : Machines, kind : Kind, r : Role \cup {"none"},
            body : Payloads \cup {NoPayload}, owner : Nat, read : Resource]

Write(m, kind) ==
  [machine |-> m, kind |-> kind, r |-> "none", body |-> NoPayload,
   owner |-> NoUID, read |-> NoResource]
WriteOf(m, kind, r) == [Write(m, kind) EXCEPT !.r = r]

LateTypeOK ==
  /\ TypeOK
  /\ listed \subseteq Machines
  /\ late \subseteq Request /\ Cardinality(late) <= MaxLate

LateInit == SafetyInit /\ late = {}

-----------------------------------------------------------------------------
(* What a running call may have on its way.                                *)

Created(m, r, body) == {[WriteOf(m, "create", r) EXCEPT !.body = body]}

\* The write half of CreateOrUpdate; the server refuses to create an object
\* that carries a version.
Owning(m) ==
  LET c == create[m]
      r == OwnSeq(class[m])[c.i]
  IN IF c.read # NoResource
     THEN {[WriteOf(m, "update", r) EXCEPT !.owner = c.uid, !.read = c.read]}
     ELSE {[WriteOf(m, "create", r) EXCEPT !.body = Recreated(m, r), !.owner = c.uid] :
             x \in {r} \ c.versioned}

CreateWrites(m) ==
  LET c == create[m] IN
  CASE c.pc = "cainit" -> Created(m, "cainit-script", CAScript)
    [] c.pc = "secret" -> Created(m, "init-script", c.userData)
    [] c.pc = "disk"   -> Created(m, DiskRole(class[m].disks[c.i]), class[m].disks[c.i].image)
    [] c.pc = "vm"     -> {Write(m, "createVM")}
    [] c.pc = "write"  -> Owning(m)
    [] OTHER           -> {}

DeleteWrites(m) ==
  CASE delete[m].pc = "vm"               -> {Write(m, "deleteVM")}
    [] delete[m].pc \in DOMAIN DeletedRole -> {WriteOf(m, "delete", DeletedRole[delete[m].pc])}
    [] OTHER                             -> {}

Delayed(writes) ==
  /\ Cardinality(late) < MaxLate
  /\ \E write \in writes : late' = late \cup {write}

-----------------------------------------------------------------------------
\* A call fails over a write that has not reached the server yet.
CallLost(m) ==
  /\ \/ CreateStep(m) /\ create'[m].pc = "idle" /\ Delayed(CreateWrites(m))
     \/ DeleteStep(m) /\ delete'[m].pc = "idle" /\ Delayed(DeleteWrites(m))
  /\ faults' # faults
  /\ UNCHANGED <<apiVars, machine, crashes, listed>>

\* The process dies over one.
DiesSending ==
  /\ Crash /\ listed' = {}
  /\ Delayed(UNION {CreateWrites(m) \cup DeleteWrites(m) : m \in Machines})

\* Mutant: an update is carried out whatever the object is like by now.
Blindly(write) == Exists(write.machine, write.r)

\* The object is as it was when the update was based on it.
Current(write) == res[write.machine][write.r] = write.read

\* The server carries a late write out.
Arrives(write) ==
  LET m == write.machine IN
  /\ write \in late
  /\ \/ write.kind = "createVM" /\ CreateVM(m, AutoDeleted(class[m]), VMLabels(class[m]))
        /\ UNCHANGED res
     \/ write.kind = "deleteVM" /\ DeleteVM(m) /\ UNCHANGED <<res, born>>
     \/ write.kind = "create" /\ CreateResource(m, write.r, write.body, write.owner)
        /\ UNCHANGED <<vm, born>>
     \/ write.kind = "update" /\ UNCHANGED <<vm, born>>
        /\ IF Current(write) THEN UpdateOwner(m, write.r, write.owner) ELSE UNCHANGED res
     \/ write.kind = "delete" /\ DeleteResource(m, write.r) /\ UNCHANGED <<vm, born>>
  /\ late' = late \ {write}
  /\ UNCHANGED <<disruptions, providerVars, machine, crashes, listed>>

LateNext ==
  \/ SafetyNext /\ UNCHANGED late
  \/ DiesSending
  \/ \E m \in Machines : CallLost(m)
  \/ \E write \in late : Arrives(write)

LateSpec == LateInit /\ [][LateNext]_lateVars

\* The fairness of MachineController, and the safety controller runs
\* periodically.  A late write need not arrive.
OnTime(step) == step /\ UNCHANGED <<listed, late>>

FairLateSpec ==
  /\ LateSpec
  /\ \A m \in Machines \ Foreign :
       /\ WF_lateVars(OnTime(CallerStep(m)))
       /\ WF_lateVars(OnTime(RunningCreate(m)))
       /\ WF_lateVars(OnTime(RunningDelete(m)))
       /\ WF_lateVars(OnTime(ServerStep(m, VMRuns(m))))
       /\ WF_lateVars(OnTime(ServerStep(m, VMGone(m))))
       /\ WF_lateVars(ListMachines(m) /\ UNCHANGED late)
       /\ WF_lateVars(SkipBacked(m) /\ UNCHANGED late)
       /\ WF_lateVars(StartOrphanDelete(m) /\ UNCHANGED late)
=============================================================================

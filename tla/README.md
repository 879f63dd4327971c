# Verification of machine-controller-manager-provider-gdc

The repository is a driver of Gardener's machine controller manager (MCM): it
turns calls like "create machine m of class c" into requests to the management
API of a Google Distributed Cloud (GDC) organisation. This directory holds TLA+
models of the driver, the TLC configurations that check them on small instances,
and proofs, checked by TLAPS, of theorems about instances of every size.

Paths below are relative to the repository; `core.go` is `pkg/provider/core.go`
and `sts.go` is `gdc/pkg/auth/sts.go`.

## 1. Inventory

| Component | Source | State | Operations |
|---|---|---|---|
| Driver | `pkg/provider/core.go`, `provider.go` | none of its own: everything is in the management API | `CreateMachine`, `DeleteMachine`, `ListMachines`; the rest (`InitializeMachine`, `GetMachineStatus`, `GetVolumeIDs`, `GenerateMachineClassForMigration`) is `Unimplemented` |
| Class | `pkg/provider/apis/provider_spec.go` | the JSON of a MachineClass, parsed in every call | none |
| Session provider, GDC client | `pkg/spi/spi.go`, `gdc/pkg/client` | a client, with a cache of its own, per driver call | `Client`, and a token under every request |
| STS token source | `gdc/pkg/auth` | a cached token per client | `Token`, at each request |
| Management API server | external | VMs, Secrets, disks, owner references | create, get, update, delete; VM life cycle, garbage collection |
| MCM | external (`cmd/machine-controller/main.go` starts it) | Machine objects, work queues | calls the driver until it succeeds; collects orphans |
| Integration test | `integration/presubmit`, `integration/pkg` | what it created in a cluster that its runs share, and its list of cleanups | set-up steps, waits, cleanups |
| gdcloud wrapper, token helper | `integration/pkg/gdcloud`, `integration/pkg/gdc`, `integration/cmd/token-helper` | a configuration directory per user; `KUBECONFIG` per process; a kubeconfig per cluster and host | `NewTestingClient`, `GetUserClusterClient`, `Cleanup`; one printed token |
| Fakes, the rest of CI | `pkg/spi/fake`, `scripts` | none | not modelled |

How they interact: MCM calls the driver in a worker of its own per call. The
driver unmarshals the class, asks the session provider for a client, and sends
requests one after the other. Each request passes the token source of that
client first. There is no shared memory between calls: two calls, or two
attempts at one call, meet only in the objects of the management API. The
integration test deploys MCM and the driver in a user cluster, makes one
MachineDeployment, waits for its VM, and takes everything down again.

What is hard:

* *Partial failure.* `CreateMachine` makes up to two Secrets, n disks and a VM,
  then sets an owner reference on each dependant, then waits. It keeps no record;
  every error, lost answer or crash leaves a prefix, and the next call finds its
  way only by tolerating `AlreadyExists` and re-reading.
* *Ownership.* Nothing but the owner references removes the dependants of a VM.
  One that is missing leaks an object; one with the UID of a VM that is gone has
  a live object collected.
* *Interleaving.* A VM may be lost, replaced or broken between any two requests;
  creations and deletions of a machine are worked off separate queues and may
  overlap; MCM's orphan collection works on a list that ages.
* *Late writes.* A request whose answer the driver gave up on may reach the server when
  its call, its process or its machine is gone.
* *Time.* The wait for a VM ends by a deadline that races with the VM coming up;
  tokens expire during the wait; the exchange for a new one has retries and
  time-outs of its own, and does not look at the context of the wait.
* *Shared files.* Users of the gdcloud wrapper write one kubeconfig per cluster, under an
  environment that belongs to the process, without a lock.
* *Taking down.* The test's cleanups need what other cleanups remove (credentials, the
  controller, its permissions), and must run for whatever was created, also when the
  answer to its creation was lost.

What makes each component correct:

* *CreateMachine*: a reported VM owns all that was made for it, and has the disks and
  the user data that were asked for; if the class waits, a VM of its name was seen
  running; repeated calls converge.
* *DeleteMachine*: a machine is let go only when its VM is on its way out; nothing
  is left behind; repeated calls converge.
* *ListMachines*: orphans are found, machines that are wanted and VMs of others
  are left alone.
* *Token source*: tokens are valid when served, calls return in bounded time.
* *GDC client*: a request is refused only when the STS gave no new token, or when its answer
  and the request were slow; no call runs under the token of another; the wait overruns
  by a bounded time.
* *gdcloud wrapper*: users that share nothing get their own cluster under their own
  credentials; nobody gets another cluster; no directory is left behind.
* *Integration test*: its waits see what is there to be seen and end in time; nothing a
  run created is forgotten; no Machine loses its controller; a run that passes leaves
  no VM; runs leave each other alone.

`PROJECT.json` lists every hazard with its line and the properties aimed at it.

## 2. Modules

    ManagementAPI <- Provider <- MachineController <- SafetyController <- LateRequests
                                  |       |                                |
                   MCMachineController    |                        MCSafetyController
                                MachineControllerProofs <- MachineRefinementProofs
    LateRequests, MachineControllerProofs <- LateRequestsProofs
    MachineLifecycle   (abstract; instantiated by MachineController)
    MachineLifecycle <- MachineLifecycleProofs
    STSTokenSource <- GDCClient <- GDCClientProofs
    UserClusterClient <- UserClusterClientProofs
    WaitForCondition <- WaitForConditionProofs
    Presubmit <- PresubmitProofs

**ManagementAPI** (external) is the store. Per machine there is one VM object
`vm[m]` and four dependants `res[m][role]` (`init-script`, `cainit-script`,
`boot-disk`, `disk`), because the driver derives every name from the machine's. A
dependant is a payload and an owner UID. `born[m]` numbers the VMs ever stored, so a
VM made again differs from the one that was lost. Requests are operators
(`CreateResource`, `UpdateOwner`, `DeleteResource`, `CreateVM`, `DeleteVM`); what the
server does on its own is actions: status changes, a VM coming up or breaking,
deletion by others, a terminating VM going away with its AutoDelete disks, and
garbage collection.

**Provider** is `CreateMachine` and `DeleteMachine`, one action per request. `create[m].pc`
and `delete[m].pc` are the position in the function:

| Action | Code |
|---|---|
| `CreatePrepares`, `DeletePrepares` | unmarshalling the class, `SPI.Client` |
| `createCAInitScriptSecret`, `createSecret`, `createDisk` | the helpers of that name; `Ensure` is their Create that ignores `AlreadyExists` |
| `createVM`, `getVM` | the two requests of `createMachine` |
| `ownRead`, `ownCreate`, `ownUpdate` | `RetryOnConflict(CreateOrUpdate(SetOwnerReference))`: Get, then Create or Update or nothing |
| `pollVM`, `waitTimesOut` | `PollUntilContextTimeout` and its condition |
| `deleteGetsVM`, `deleteVM`, `deleteLeftover` | `DeleteMachine` and its two branches |

Each request can be answered, fail without effect, or have its effect and lose the
answer; the last two spend one of `MaxFaults` and return a code by `wrapError`. What
`CreateOrUpdate` read is kept in `create[m].read` and compared when it writes; whether
the Secret in memory carries a `resourceVersion` (it does after its own Create, and
then a later Create is refused) is kept in `versioned`; the number of attempts
on a conflict in `tries`.

**MachineController** adds the caller (external) and crashes: `machine[m]` goes from
*wanted* to *ready*, *deleting* and *gone*; calls are repeated until one succeeds. A
crash forgets all calls. `Serial` says whether a DeleteMachine of a machine waits for
its CreateMachine to return. It holds the properties.

**MachineLifecycle** is what the two calls promise their caller, without objects or
requests: the VM of a machine is `none`, `partial` (a dependant may be missing, or may
outlive it) or `complete`, and may be `leaving`; a call may fail at any time, but
CreateMachine never reports success over a partial VM, nor DeleteMachine over a VM
that would stay. `MachineController` states that it implements this
(`ImplementsLifecycle`) under the mapping

| Abstract | Concrete |
|---|---|
| `machine` | `machine` |
| `call` | `callView`: which call is running, or the result that the caller has yet to record |
| `stage` | `stageView`: `none` without a VM, `complete` when every dependant of the class exists and is owned by the VM, else `partial` |
| `leaving` | `leavingView`: the VM's deletion timestamp |

Requests that change none of these are stutters. The mapping needs calls of a machine
that follow one another: a CreateMachine beside a DeleteMachine stores a VM after the
DeleteMachine reported that there is none. What holds then is `CompleteWhileWanted`, and
that orphans are collected.

**SafetyController** adds `ListMachines` and orphan collection (external) with
`Serial = FALSE`, and VMs that somebody else made.

**LateRequests** adds writes that outlive their call. When a call fails over a write that
had no effect yet (`CallLost`), or the process dies over one (`DiesSending`), the write may
stay in `late`, and `Arrives` carries it out at any later time, or never. What makes it
harmless has to be in the write itself: Create and Delete go by name, Update carries the
`resourceVersion` it was based on, here what was read (`Current`). The Create of a
dependant that arrives after its machine is gone leaves an object that nobody collects:
nothing in the driver ever looks for one, and no property claims it.

**STSTokenSource** is one client's token source: the cache (client-go's, external),
the signing of the JWT, the exchange with its attempts, the time-out of each and
which failures are retried, in discrete time. The server counts a token's life from
when it issued it, the client from when it has read the answer. An answer with status 200 and
without the fields of a token is taken for one (`ReceiveEmpty`).

**GDCClient** puts it under its users, one after the other. `session` is a driver call (a client
from a Secret and a class, sound or not; then requests, each of which asks the cache
first; then, it may be, the wait with its deadline) or a run of the token helper. A call
starts with an empty cache. A request takes time between leaving with its token and the
look of the server at it: up to the deadline in the wait, any time outside it, for the
client sets no time-out (`client.go:60-65`). A refused request ends the call.

**UserClusterClient** is the gdcloud wrapper. `user[u].pc` is the position in `NewTestingClient`,
`GetUserClusterClient` and `injectHermeticEnvIntoKubeconfig`; the file of a cluster is read,
truncated and written in steps of their own. Of gdcloud (external) it assumes that
`get-credentials` writes the credentials of the cluster it is asked for to the file
`KUBECONFIG` names, and of the host that `RemoveAll` removes.

**WaitForCondition** is the wait the test is built from (`integration/pkg/kubernetes`): a
poll loop around watch sessions of bounded length. `wait.pc` is the position (about to
ask, asked, in a session, asleep); an object changes, and the network refuses,
delays, closes or silently drops. `steady` remembers since when the object is ready and
the network sound; the properties are relative to it.

**Presubmit** is the test (`integration/presubmit`). `run[r]` is one run: its position in the
steps of `TestMCM` or of `verifyProvisioning`, its stack of cleanups, its age in units of five
minutes, which passes in waits only. `create` is any of the steps that register a cleanup
and create an object; `deleteObject`, `deleteSecret`, `deleteNamespace`, `listVMs`,
`deleteMDs`, `machinesGone` and `vmsGone` are the cleanups, that of the MachineDeployment being
the last four. The cluster is the set of objects with their deletion
timestamps and finalizers; the controllers in it (external) make and unmake the chain
MachineDeployment, MachineSet, Machine, VM, as long as their Deployment, permissions and, for
a VM, class and Secret are there. A wait is taken to end at its time-out; by how much it may
not is what `WaitForCondition` is about. All runs are of one commit, hence of one
namespace; runs of different commits share no name but the CRDs.

The MC modules give constants for TLC; modules without one need none.

## 3. What TLC checks

Machines are independent in the store and in the driver, so one machine (and a
foreign VM) is enough for TLC; the proofs are for any set. `serial` has three classes:
`CAClass` (a registry CA, one disk, no wait), `DataClass` (boot and data disk, a
wait), and one that does not parse. The runs with overlapping calls have one class, with a
boot disk and no CA: what matters there is the order of the requests about
one Secret, one disk and the VM. The class of `overlap` waits for its VM, that of
`overlap_live` does not. `CompleteWithLateWrites` (section 4) covers every
class, and any number of late writes, faults and crashes together.

| Run | Question | Bounds |
|---|---|---|
| `serial` | `OwnershipComplete`, `GoneMeansReleased`, `LeftoversDeleted`, `FirstVMHasItsDisks`, `TypeOK`; the refinement `ImplementsLifecycle`; liveness `CreateConverges`, `DeleteConverges`, `DeleteReleasesAll` | 2 faults, 1 disruption, 1 crash |
| `overlap` | `CompleteWhileWanted`, `LateTypeOK` | overlapping calls, a class that waits, orphan collection, a late write, a VM lost or broken; a fault or a crash (the constraint `OneFailure`) |
| `overlap_live` | `ForeignSpared`, `DeletionEnds`, `OrphansCollected` | the same, without a wait, beside a foreign VM; nothing lost |
| `token` | `CacheNearlyValid`, `TokenInTime`, `RefusedOnlyIfLate`, `TokenOfThisCall`, `WaitEndsSoon`, `PrintedTokenLasts`, `ClientTypeOK` | 4 attempts of 30 s, 40 s of life, 10 s of leeway, a wait of 50 s, 3 minutes in all; requests of any duration |
| `credentials` | `IsolatedWhenApart`, `RightCluster`, `NoDirLeft`, `TypeOK` | 2 users, in every placement over 2 processes and 2 clusters; any kubeconfig an earlier run may have left |
| `wait` | `SeenWhenSteady`, `FailsOnlyUnready`, `OnlyRequestsOverrun`, `TypeOK` | 3 changes, 2 faults; sessions of 3 intervals, a time-out of 9, the caller's of 11 |
| `presubmit` | `NothingForgotten`, `CredentialsOutliveCleanups`, `ControllerStays`, `PassLeavesNoMachine`, `TypeOK` | one run, 2 faults, cancelled at any time or never; the repository's durations |

Two faults are the least that let one attempt lose an answer and its repetition fail
again, and that exhaust the retries on a conflict (`ConflictRetries = 2` in place of the
5 of `DefaultRetry`; the model branches only on whether an attempt is left). One
disruption replaces a VM once, at any moment of any call. One crash may fall
between any two requests. `FaultReasons` has one member: which code an error is
wrapped into changes nothing that follows; `Reported`, the VM statuses besides `Running`,
has one member where calls overlap, a failure in `overlap`. One late write at a time is enough to meet every later call,
the deletion and the orphan collection. Tokens that live 40 s stand for those of an hour: a
life is longer than the leeway and than one time-out, shorter than the four attempts
of an exchange and than the wait, and three minutes hold an exchange that uses all
its time and a call after it. Two users are the fewest that share, or do not share, a
process and a cluster. Beyond these bounds the proved properties hold anyway (section 4).
The models stop at *gone*, and at the end of the clock, and waits, tests and users end,
hence `CHECK_DEADLOCK FALSE` in all configurations but the tokens'; there a request can
always be refused and asked again.

Fairness, in `serial` and `overlap_live`: MCM's queue retries an item until it succeeds; a
running call takes its next step, for each request is answered or fails; VMs come
up, terminating VMs go away, the collector collects; the safety controller runs
periodically. This is weak fairness of steps that stay enabled until taken. Nothing
forces a deletion, a fault, a crash, or a late write to arrive.

One assumption is stronger. A wait may end by its deadline at any poll, the first
included, and a machine whose every wait did would be created again and again beside
a VM that runs. The code sends the first poll at once and waits a second at least, so
`serial` assumes that polls which can be answered again and again are answered again
and again (`SF` of `AnsweredPoll`). It says nothing of any single wait, and no
time-out is ruled out.

Each of the other runs shows that something the repository says does not hold:

| Run | Statement | What happens |
|---|---|---|
| `data_disk_leak` | `NothingLeftBehind`: "when gvm is not found, mcm will clean up all vm resources" (`core.go:396-397`) | the data disk of a machine that never got a VM stays |
| `stale_user_data` | `SecretHoldsUserData`: "UserData mismatch!" (`integration/presubmit/machine-controller-manager/node.go:167`) | a Secret of an earlier attempt keeps its user data |
| `blank_disk` | `VMHasItsDisks`: "Image specifies the image that VM should use to boot" (`provider_spec.go:63`) | `CreateOrUpdate` makes a disk that vanished a blank one |
| `stale_token` | `ServesOnlyValid`: a token is renewed when "expired or nearing the expiry time" (`sts.go:50-51`) | an answer that took longer than the leeway makes the cache serve an expired token |
| `slow_run` | `SlowRunCleansUp`: "Set a global timeout for the test to prevent hanging CI jobs" (`main_test.go:30`) | the test's 25 minutes are more than the 20 of `go test -timeout`; a slow run dies without its cleanups |

What remains true beside them is stated and checked: `LeftoversDeleted` (all but the
data disk), `FirstVMHasItsDisks` (until a VM is lost), `CacheNearlyValid` (by how much a
served token may have expired).

The models also contain, without a run of its own:

* the wait polls by name and compares no UID (`core.go:168-181`): a VM that was lost and stored
  again by a late Create during the wait is reported in place of the one that was owned, and
  owns nothing; `OwnershipComplete` and `CompleteWhileWanted` are about the owned one;
* an answer of the STS with status 200 and without the fields of a token becomes an empty
  token, which the server refuses and the token helper prints (`sts.go:181-190`);
* a request may be refused under a token that was good when it left, or hang, for the client
  sets no time-out (`client.go:60-65`), hence the terms of `RefusedOnlyIfLate`;
* the second data disk of a class has the name of the first and is never made
  (`core.go:291`);
* a disk without AutoDelete is owned by its VM and collected with it (`core.go:149`);
* a Watch request without an answer is bound to the context of `WaitForCondition`'s caller, not
  to the time-out (`kubernetes.go:143`), hence `OnlyRequestsOverrun`;
* the cleanup of the MachineDeployment takes an empty list of Machines for their deletion, also
  while the MachineSet has yet to make one (`mcm_resources.go:123`), hence the exception
  `late` in `ControllerStays`;
* a run of a commit deletes the namespace of an earlier one that it failed to create
  (`setup.go:143`); what survives that is proved for any number of runs;
* the cleanups wait for the Machines, not for their MachineSet and MachineDeployment, and
  ask for the deletion of the MachineClass just before that of its controller
  (`mcm_resources.go:218`): a run that passes may leave them with a finalizer that nobody
  is left to remove, and with them the namespace, terminating for good, although
  `setup.go:130-132` counts on "namespace deletion" for these objects; only the Secret's
  finalizers are taken away by the test itself (`setup.go:180`);
* the deletion of an object that was ready ends a wait with success, for the type of
  an event is not looked at (`kubernetes.go:156`);
* two users of one cluster on a host share its kubeconfig, so a client may run the gdcloud plugin
  under another user's directory, although "downstream tools (e.g. client-go) running the
  gdcloud auth plugin do so hermetically using the same temporary config directory"
  (`integration/pkg/gdc/client.go:71-75`); two that share a process may have the other's
  cluster in their file, through `KUBECONFIG` (`client.go:37`). `IsolatedWhenApart` and
  `RightCluster` say when neither happens.

## 4. What is proved

The theorems hold for any set of machines, any classes, user data and labels, and any
number of faults, disruptions, crashes and attempts. They assume what the named
`ASSUME`s of the modules say of the constants (TLC evaluates them in the runs): bounds
are naturals, at least one attempt, `Blank` is a payload and `NoPayload` is not, a
class is a record of the right shape, `NoRun` is no run. Theorems marked *serial* also assume `Serial`.

| Theorem | Property | |
|---|---|---|
| `TypeCorrect` (four modules) | `TypeOK` | of the driver, the waits, the wrapper and the test |
| `LateTypeCorrect`, `ClientTypeCorrect` | `LateTypeOK`, `ClientTypeOK` | |
| `CompleteUntilDeletion` | `CompleteWhileWanted` | calls may overlap |
| `CompleteWithLateWrites` | `CompleteWhileWanted` | the same with orphan collection and any number of late writes |
| `ForeignVMsSpared` | `ForeignSpared` | the same |
| `CompleteUntilGone` | `OwnershipComplete` | serial |
| `GoneReleases` | `GoneMeansReleased` | serial |
| `LeftoversGone` | `LeftoversDeleted` | serial |
| `FirstVMComplete` | `FirstVMHasItsDisks` | serial; disks of one name are disks of one image (`OneImagePerName`) |
| `RefinesLifecycle` | `ImplementsLifecycle` | serial |
| `RecordsStayTrue`, `RecordsOfVMs` | `RecordsTrue` of `MachineLifecycle`, and of the driver through the refinement | |
| `CacheServesNearlyValid` | `CacheNearlyValid` | |
| `TokenReturnsInTime` | `TokenInTime` | |
| `WaitsEnd` | `WaitEndsSoon` | |
| `TokensOfTheirCall` | `TokenOfThisCall` | |
| `PrintedTokensLast` | `PrintedTokenLasts` | |
| `RefusedOnlyLate` | `RefusedOnlyIfLate` | `Lifetime > Leeway` |
| `ApartIsIsolated` | `IsolatedWhenApart` | |
| `NeverWrongCluster` | `RightCluster` | |
| `DirsRemoved` | `NoDirLeft` | |
| `SeenInTime` | `SeenWhenSteady` | |
| `FailsRightly` | `FailsOnlyUnready` | |
| `RequestsOverrun` | `OnlyRequestsOverrun` | |
| `NothingIsForgotten` | `NothingForgotten` | any number of runs of one commit |
| `CredentialsStay` | `CredentialsOutliveCleanups` | any number of runs of one commit |
| `ControllerStaysForOne` | `ControllerStays` | one run of a commit |
| `PassLeavesNoMachineForOne` | `PassLeavesNoMachine` | one run of a commit |

*MachineControllerProofs.* None of the safety properties is inductive: that the reported
VM owns everything depends on what the call that reported it had done by
each of its positions. The invariant `IInv` is `TypeInv` and, for each machine, `MachineInv`,
which is the conjunction of

* `Control`: UIDs are never from the future; a call's index designates a
  dependant of its class; with serial calls, a DeleteMachine runs only in a
  deleted machine and beside no CreateMachine;
* `Complete`: of the VM a call works on, if it is still the current one, every dependant
  before the call's index exists and is owned by it, and all are once the call waits or
  the VM is reported. This survives the collector (the owner is the current VM), an
  Update (it sets the same owner), other faults and conflicts. Deletion is what could
  break it, and deletes dependants only when it saw no VM;
* `DeletePath`: with serial calls, a DeleteMachine in the branch for a missing VM
  still has none; if none was ever made, the roles it has passed are empty.

Each step of the model has its lemma; framing lemmas (`OthersKept`, `SameKeeps`) carry
over what a step of one machine leaves of the others. *WaitForConditionProofs* rests on
`Times`, how far each position may be from the deadline, and `Seen`: a session either
began before the object was steady, and then ends within its bound, or has a ready
object among its events, and then no time passes before it is looked at.

*MachineRefinementProofs* strengthens `IInv` by two facts that the mapping alone needs: no
dependant names a VM that is yet to be made (`OwnersPast`; or a new VM would be born
`complete`), and there is no deletion timestamp without a VM (`Shape`). Each step is then a
step of `MachineLifecycle` or a stutter: the last owner reference is `OwnDependants`, a request
that fails with the call is `CreateReturns` or `DeleteReturns`, the collector and changes of
status are stutters, for what the current VM owns is never collected. `FirstVMComplete` adds
`FirstDisks`: before the first VM every disk there is was made by `createDisk`, the disks the
loop has passed are there, and while that VM exists none goes; so `CreateOrUpdate`, which would
make a blank disk, finds each of them. *MachineLifecycleProofs*
proves `RecordsTrue` of the abstract specification in a page; `RecordsOfVMs` carries it over.

*LateRequestsProofs.* A late write is carried out in a state that its call knows nothing of,
so `Complete` alone is not inductive: an update that arrives late could hand a dependant to
another VM. For every machine, `LateInv` adds that no owner reference, set or on its way,
is to a VM newer than the one a running call holds (`Order`; of a VM that came
after it, nothing has been made yet); that an update, about to be sent or
on its way, is based on an object without an owner or with an older one than it sets
(`UpdatesSupersede`); and that no dependant of a wanted machine is being deleted, or has its deletion on
its way (`NoDeletion`). An update that is still current then never takes a dependant from
a newer VM, one that is not is refused, and a late Create meets the object that is there. `Complete`
is claimed of wanted machines only. `SparedInv` is about a foreign VM: no call is ever
made for its machine, so nothing on its way names it, and the lists of the safety
controller leave it out, for it lacks a label.

*GDCClientProofs* first prove of the token source `TimeInv`: a call's attempts and time-outs
bound how far the clock is from when the token was asked for (`Paced`), and what a token
promises the client exceeds what it promises the server by at most one time-out
(`CountsAgree`). Every step of the client but the first of a call
is a step of the token source or leaves it alone, so that carries over. Added are `InWait` (requests of a wait are
asked for before its deadline), `OwnToken` (no token the server accepts is older than the call) and
`Provenance` (what the last answer says of the cached token, and of the moment
the request left).

*UserClusterClientProofs*: a command writes the kubeconfig of a cluster that some user of its own
process set (`Environment`); the file of a user that is apart is therefore written by that
user only, and follows its steps (`OwnSteps`); without a shared process every file and
every memory holds its own cluster or nothing (`OwnClusters`).

*PresubmitProofs*: what a run owns (has created, and nobody has deleted) is on its stack of
cleanups or was kept (`Remembered`); the configuration's cleanup is at the bottom of the
stack, and there while anything is (`Stacked`); the position says what is on top
(`Placed`). A step of another run, or of the cluster, takes from what a run owns and
never adds to it (`Kept`), which is why the number of runs does not matter.

`ControllerStays` and `PassLeavesNoMachine` do not hold of two runs of a commit: TLC finds a
run that fails early and deletes the namespace under the other. They are theorems about
`Run = {r}`, from a second invariant, `SoloInv`, that follows the chain through
the cleanups:

* `ChainHeld`: what has something that belongs to it is held by a finalizer, so the
  chain breaks from its end only, and without a Machine there is no VM;
* `OnTop`, `Concluded`: the cleanup of the MachineDeployment is the first to run, and ends with
  no Machine seen or with giving up, which fails the run;
* `Served`: the controller, its permissions and the namespace stay until then;
* `Passing`: a Machine that was verified is still there to stay, or neither the
  MachineDeployment nor its MachineSet is, and no other will be made. Without this, that the run sees no
  Machine would say nothing about the time after.

Only model-checked: all liveness (`CreateConverges`, `DeleteConverges`, `DeleteReleasesAll`,
`DeletionEnds`, `OrphansCollected`; it needs ENABLED and fairness, which the prover does
not treat; the refinement is of safety). Every safety property of the passing runs is a
theorem. The runs that refute a statement need no proof.

## 5. What is not modelled

* Names across machines: the data disk of machine `x-boot` and the boot disk of
  machine `x` share the name `x-boot-disk`. Each machine has its own four names here, and a
  class at most one data disk worth the name.
* Data that no branch reads: sizes, machine types, subnets, access management,
  `Annotations` (which the driver never applies), messages and logs. `createDisk` names an
  image even when the class leaves it empty ("Empty image indicates a blank disk",
  `provider_spec.go:64`); an image is an opaque payload here.
* MachineClass updates while a machine uses the class.
* Cancelling of a driver call by MCM: the driver's context has no deadline but that of
  the wait.
* The client's own rate limits, and requests of one client in parallel: a driver call
  sends its requests one by one.
* Errors of client-go's token cache other than what its use shows: it falls back on the token
  it has when a rotation fails, valid or not (external).
* Of the integration test: that the deletion of the policy binding fails before the cleanup
  of the service account is registered (`setup.go:207-209`; here such a step has
  registered a cleanup that finds nothing), the minute for each pod of the controller
  (`setup.go:522-526`, less than the unit of time), the goroutine that keeps deleting the cluster's admission policy
  binding, runs of different commits, and the user data's content (`stale_user_data` is
  about that).
* Inside gdcloud and its plugin; the fake of the session provider, a test double
  without state; the rest of CI.

## 6. Plan

Done: the modules above, their runs and the theorems of section 4. What could follow, in
this order:

1. Names: dependants keyed by name, two machines whose names collide, and the
   properties of section 3 for machines whose names do not.
2. Proofs: that the driver with overlapping calls implements an abstract specification in
   which a machine may get a VM after its deletion (`MachineLifecycle` has none); for two runs
   of a commit, what is left of `ControllerStays` when none fails.
3. Liveness of the integration test: under which fairness of the manager the namespace
   goes, and with what the next run of a commit can count.

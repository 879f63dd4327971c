---------------------------- MODULE PresubmitProofs ----------------------------
(***************************************************************************)
(* Proofs about Presubmit: for any number of runs of one commit, that      *)
(* share every name in the cluster, and then for a run that is alone.      *)
(***************************************************************************)
EXTENDS Presubmit, TLAPS

-----------------------------------------------------------------------------
(* Sequences, and the steps of a run.                                      *)

\* The gdcloud configuration goes last.
Bottom(c) == \A i \in 1 .. Len(c) : c[i] = "gdcloud" <=> i = Len(c)

\* What a cleanup adds to the stack of cleanups.
LEMMA Pushed ==
  ASSUME NEW S, NEW c \in Seq(S), NEW x \in S
  PROVE  /\ <<x>> \o c \in Seq(S)
         /\ <<x>> \o c # <<>>
         /\ ToSet(<<x>> \o c) = {x} \cup ToSet(c)
<1> DEFINE d == <<x>> \o c
<1>1. d \in Seq(S) /\ Len(d) = Len(c) + 1 /\ d[1] = x
      /\ \A i \in 1 .. Len(c) : d[i + 1] = c[i]
  OBVIOUS
<1>2. DOMAIN d = 1 .. Len(d) /\ DOMAIN c = 1 .. Len(c)
  BY <1>1
<1>3. ToSet(d) \subseteq {x} \cup ToSet(c)
  <2>1. SUFFICES ASSUME NEW i \in 1 .. Len(d), i # 1 PROVE d[i] \in ToSet(c)
    BY <1>1, <1>2 DEF ToSet
  <2>2. i - 1 \in 1 .. Len(c) /\ d[(i - 1) + 1] = c[i - 1] /\ (i - 1) + 1 = i
    BY <1>1, <2>1
  <2> QED BY <1>2, <2>2 DEF ToSet
<1>4. {x} \cup ToSet(c) \subseteq ToSet(d)
  <2>1. 1 \in DOMAIN d
    BY <1>1, <1>2
  <2>2. ASSUME NEW i \in 1 .. Len(c) PROVE c[i] \in ToSet(d)
    <3>1. i + 1 \in DOMAIN d /\ d[i + 1] = c[i]
      BY <1>1, <1>2
    <3> QED BY <3>1 DEF ToSet
  <2> QED BY <1>1, <1>2, <2>1, <2>2 DEF ToSet
<1> QED BY <1>1, <1>3, <1>4

\* A cleanup that is pushed on a stack leaves its bottom where it is.
LEMMA PushedBottom ==
  ASSUME NEW S, NEW c \in Seq(S), NEW x \in S, Bottom(c),
         (x = "gdcloud") <=> (c = <<>>)
  PROVE  Bottom(<<x>> \o c)
<1> DEFINE d == <<x>> \o c
<1>1. d \in Seq(S) /\ Len(d) = Len(c) + 1 /\ d[1] = x
      /\ \A i \in 1 .. Len(c) : d[i + 1] = c[i]
  OBVIOUS
<1>2. c = <<>> <=> Len(c) = 0
  OBVIOUS
<1>3. ASSUME NEW i \in 1 .. Len(d), i # 1 PROVE d[i] = "gdcloud" <=> i = Len(d)
  <2>1. i - 1 \in 1 .. Len(c) /\ d[(i - 1) + 1] = c[i - 1] /\ (i - 1) + 1 = i
    BY <1>1, <1>3
  <2> QED BY <1>1, <2>1 DEF Bottom
<1> QED BY <1>1, <1>2, <1>3 DEF Bottom

LEMMA NoneLeft ==
  ASSUME NEW S, NEW c \in Seq(S)
  PROVE  c = <<>> <=> Len(c) = 0
OBVIOUS

\* What is left of a stack when its top is taken.
LEMMA Popped ==
  ASSUME NEW S, NEW c \in Seq(S), c # <<>>
  PROVE  /\ Tail(c) \in Seq(S) /\ Head(c) \in S
         /\ ToSet(c) = {Head(c)} \cup ToSet(Tail(c))
         /\ Bottom(c) => /\ Bottom(Tail(c))
                         /\ Head(c) = "gdcloud" <=> Tail(c) = <<>>
<1> DEFINE d == Tail(c)
<1>1. d \in Seq(S) /\ Len(c) = Len(d) + 1 /\ c[1] = Head(c) /\ Head(c) \in S
      /\ \A i \in 1 .. Len(d) : d[i] = c[i + 1]
  OBVIOUS
<1>2. DOMAIN d = 1 .. Len(d) /\ DOMAIN c = 1 .. Len(c)
  BY <1>1
<1>3. ToSet(c) \subseteq {Head(c)} \cup ToSet(d)
  <2>1. SUFFICES ASSUME NEW i \in 1 .. Len(c), i # 1 PROVE c[i] \in ToSet(d)
    BY <1>1, <1>2 DEF ToSet
  <2>2. i - 1 \in 1 .. Len(d) /\ d[i - 1] = c[(i - 1) + 1] /\ (i - 1) + 1 = i
    BY <1>1, <2>1
  <2> QED BY <1>2, <2>2 DEF ToSet
<1>4. {Head(c)} \cup ToSet(d) \subseteq ToSet(c)
  <2>1. 1 \in DOMAIN c
    BY <1>1, <1>2
  <2>2. ASSUME NEW i \in 1 .. Len(d) PROVE d[i] \in ToSet(c)
    <3>1. i + 1 \in DOMAIN c /\ d[i] = c[i + 1]
      BY <1>1, <1>2
    <3> QED BY <3>1 DEF ToSet
  <2> QED BY <1>1, <1>2, <2>1, <2>2 DEF ToSet
<1>5. ASSUME Bottom(c) PROVE Bottom(d) /\ (Head(c) = "gdcloud" <=> d = <<>>)
  <2>1. d = <<>> <=> Len(d) = 0
    BY <1>1, NoneLeft
  <2>2. c[1] = "gdcloud" <=> 1 = Len(c)
    <3>1. 1 \in 1 .. Len(c)
      BY <1>1
    <3> QED BY <1>5, <3>1 DEF Bottom
  <2>3. ASSUME NEW i \in 1 .. Len(d) PROVE d[i] = "gdcloud" <=> i = Len(d)
    <3>1. i + 1 \in 1 .. Len(c) /\ d[i] = c[i + 1] /\ (i + 1 = Len(c) <=> i = Len(d))
      BY <1>1
    <3> QED BY <1>5, <3>1 DEF Bottom
  <2>4. Len(d) = 0 <=> 1 = Len(c)
    BY <1>1
  <2>5. Bottom(d)
    BY <2>3 DEF Bottom
  <2> QED BY <1>1, <2>1, <2>2, <2>4, <2>5
<1> QED BY <1>1, <1>3, <1>4, <1>5

LEMMA EmptyStack == ToSet(<<>>) = {} /\ Bottom(<<>>) /\ \A S : <<>> \in Seq(S)
BY DEF ToSet, Bottom

LEMMA StepList ==
  /\ DOMAIN Steps = 1 .. 12 /\ Len(Steps) = 12
  /\ Steps[1] = "gdcloud" /\ Steps[2] = "crds" /\ Steps[3] = "namespace"
  /\ Steps[4] = "sa" /\ Steps[5] = "shootCR" /\ Steps[6] = "shootCRB"
  /\ Steps[7] = "seedRole" /\ Steps[8] = "seedRB" /\ Steps[9] = "secret"
  /\ Steps[10] = "mcm" /\ Steps[11] = "class" /\ Steps[12] = "md"
BY DEF Steps

\* The steps that matter to the argument.
LEMMA StepNames ==
  /\ Len(Steps) = 12
  /\ Steps[1] = "gdcloud"
  /\ \A i \in 1 .. 12 : Steps[i] \in ToSet(Steps)
  /\ \A i \in 2 .. 12 : Steps[i] # "gdcloud"
  /\ \A i \in 1 .. 12 : Steps[i] = "mcm" => i = 10
  /\ Len(Verified) = 5
<1>1. Len(Verified) = 5
  BY DEF Verified
<1> QED BY <1>1, StepList DEF ToSet

LEMMA StepSet ==
  /\ "gdcloud" \in ToSet(Steps) /\ "md" \in Created /\ "secret" \in Created
  /\ "namespace" \in Created
  /\ Created = ToSet(Steps) \ {"gdcloud", "crds"}
  /\ {"set", "machine", "vm"} \cap Created = {}
  /\ "md" \notin {"secret", "namespace", "gdcloud"}
<1>1. \A i \in 1 .. 12 : Steps[i] \notin {"set", "machine", "vm"}
  BY StepList
<1>2. /\ "gdcloud" \in ToSet(Steps) /\ "md" \in ToSet(Steps)
      /\ "secret" \in ToSet(Steps) /\ "namespace" \in ToSet(Steps)
  BY StepList DEF ToSet
<1>3. {"set", "machine", "vm"} \cap ToSet(Steps) = {}
  BY <1>1, StepList DEF ToSet
<1> QED BY <1>2, <1>3 DEF Created

-----------------------------------------------------------------------------
(* The inductive invariant.                                                *)

\* A run's configuration is there as long as it has cleanups, of which that of
\* the configuration is the last.
Stacked(r) ==
  /\ Bottom(run[r].cleanups)
  /\ run[r].cleanups # <<>> => r \in config

\* What the position of a run says of its cleanups: none before the first step,
\* at least that of gdcloud after it, and that of the MachineDeployment on top
\* while it is carried out.
Placed(r) ==
  /\ run[r].pc = "idle" => run[r].at = 1
  /\ run[r].pc \in {"idle", "setup"} /\ run[r].at = 1 => run[r].cleanups = <<>>
  /\ run[r].pc \in {"setup", "ready"} /\ run[r].at > 1 => run[r].cleanups # <<>>
  /\ run[r].pc = "ready" => run[r].at = 10
  /\ run[r].pc = "verify" => run[r].at <= 5
  /\ run[r].pc \in {"listed", "machines", "vms"} =>
       run[r].cleanups # <<>> /\ Head(run[r].cleanups) = "md"

\* What the run has created, and nobody has deleted yet.
Owned(r) == {x \in Created : creator[x] = r /\ x \in objects \ terminating}

\* A cleanup that is taken from the stack has deleted its object or kept it.
Remembered(r) ==
  /\ run[r].pc # "killed" =>
       \A x \in Owned(r) : x \in ToSet(run[r].cleanups) \/ x \in run[r].kept
  /\ run[r].pc \in {"machines", "vms"} /\ "md" \in Owned(r) => "md" \in run[r].kept

RunInv(r) == Stacked(r) /\ Placed(r) /\ Remembered(r)

\* An object that is being deleted has a finalizer.
TypeInv == TypeOK /\ terminating \subseteq finalizers

IInv == TypeInv /\ \A r \in Run : RunInv(r)

\* Most steps leave a run r as it is, and give it nothing.
Kept(r) ==
  /\ run'[r] = run[r]
  /\ r \in config' <=> r \in config
  /\ Owned(r)' \subseteq Owned(r)

LEMMA KeptKeeps ==
  ASSUME NEW r \in Run, RunInv(r), Kept(r)
  PROVE  RunInv(r)'
<1>1. Stacked(r)'
  BY DEF RunInv, Kept, Stacked, Bottom
<1>2. Placed(r)'
  BY DEF RunInv, Kept, Placed
<1>3. Remembered(r)'
  BY DEF RunInv, Kept, Remembered, ToSet
<1> QED BY <1>1, <1>2, <1>3 DEF RunInv

\* The Delete of a set of objects.
LEMMA Deleted ==
  ASSUME TypeInv, NEW X, X \subseteq objects, Delete(X)
  PROVE  /\ objects' \subseteq Object /\ terminating' \subseteq finalizers'
         /\ finalizers' \subseteq objects' /\ creator' = creator
         /\ \A r \in Run : Owned(r)' = Owned(r) \ X
BY DEF TypeInv, TypeOK, Delete, Owned

\* The cluster as it was.
LEMMA SameCluster ==
  ASSUME TypeInv, UNCHANGED cluster
  PROVE  /\ objects' \subseteq Object /\ terminating' \subseteq finalizers'
         /\ finalizers' \subseteq objects' /\ creator' = creator
         /\ \A r \in Run : Owned(r)' = Owned(r)
BY DEF TypeInv, TypeOK, cluster, Owned

\* An object that r creates.
LEMMA Stored ==
  ASSUME TypeInv, NEW r \in Run, NEW x \in Created, Store(r, x)
  PROVE  /\ objects' \subseteq Object /\ terminating' \subseteq finalizers'
         /\ finalizers' \subseteq objects'
         /\ creator' \in [Created -> Run \cup {NoRun}]
         /\ Owned(r)' \subseteq Owned(r) \cup {x}
         /\ \A q \in Run \ {r} : Owned(q)' \subseteq Owned(q)
<1>1. objects' = objects \cup {x} /\ terminating' = terminating
  BY DEF Store
<1>2. creator' = [creator EXCEPT ![x] = r] /\ creator \in [Created -> Run \cup {NoRun}]
  BY DEF Store, TypeInv, TypeOK
<1>3. finalizers' = finalizers \cup ({x} \cap {"namespace"})
  BY DEF Store
<1>4. objects' \subseteq Object /\ terminating' \subseteq finalizers' /\ finalizers' \subseteq objects'
  BY <1>1, <1>3 DEF TypeInv, TypeOK, Object
<1>5. creator' \in [Created -> Run \cup {NoRun}]
  BY <1>2
<1>6. \A y \in Created : y # x => creator'[y] = creator[y]
  BY <1>2
<1>7. creator'[x] = r
  BY <1>2
<1> QED BY <1>1, <1>4, <1>5, <1>6, <1>7 DEF Owned

-----------------------------------------------------------------------------
(* The steps of the run r: its record stays a record of a run, its own part*)
(* of the invariant holds, and the other runs are as they were.            *)

Effect(r) ==
  /\ TypeInv'
  /\ RunInv(r)'
  /\ \A q \in Run \ {r} : Kept(q)

\* The cluster part of the type invariant.
ClusterInv ==
  /\ objects \subseteq Object
  /\ terminating \subseteq finalizers /\ finalizers \subseteq objects
  /\ creator \in [Created -> Run \cup {NoRun}]

\* The part of a run.
RunType(r) ==
  /\ run[r] \in RunState
  /\ run[r].age <= GoTest
  /\ run[r].pc \in {"ready", "verify"} => run[r].until <= run[r].deadline

LEMMA TypeParts ==
  TypeInv <=> /\ ClusterInv
              /\ run \in [Run -> RunState] /\ \A r \in Run : RunType(r)
              /\ config \subseteq Run /\ late \in BOOLEAN /\ faults \in 0 .. MaxFaults
BY DEF TypeInv, TypeOK, ClusterInv, RunType

\* What is to be shown of a step of r that changes its record only.
LEMMA OneRun ==
  ASSUME TypeInv, NEW r \in Run, NEW q,
         run' = [run EXCEPT ![r] = q],
         q \in RunState, q.age <= GoTest,
         q.pc \in {"ready", "verify"} => q.until <= q.deadline,
         ClusterInv', config' \subseteq Run, late' \in BOOLEAN, faults' \in 0 .. MaxFaults,
         \A w \in Run \ {r} : (w \in config' <=> w \in config) /\ Owned(w)' \subseteq Owned(w),
         (run'[r] = q) => RunInv(r)'
  PROVE  Effect(r)
<1>1. run \in [Run -> RunState] /\ \A w \in Run : RunType(w)
  BY TypeParts
<1>2. run'[r] = q /\ \A w \in Run \ {r} : run'[w] = run[w]
  BY <1>1
<1>3. run' \in [Run -> RunState]
  BY <1>1
<1>4. \A w \in Run : RunType(w)'
  BY <1>1, <1>2 DEF RunType
<1>5. TypeInv'
  BY <1>3, <1>4, TypeParts DEF TypeInv, TypeOK, ClusterInv, RunType
<1> QED BY <1>2, <1>5 DEF Effect, Kept

\* A step that leaves the cluster and the cleanups of r alone.
LEMMA SameStack ==
  ASSUME IInv, NEW r \in Run, NEW q,
         run' = [run EXCEPT ![r] = q],
         q \in RunState, q.age <= GoTest,
         q.pc \in {"ready", "verify"} => q.until <= q.deadline,
         UNCHANGED <<cluster, config, late>>, faults' \in 0 .. MaxFaults,
         q.cleanups = run[r].cleanups, q.kept = run[r].kept,
         run[r].pc # "killed",
         q.pc \in {"machines", "vms"} => run[r].pc \in {"machines", "vms"},
         (run'[r] = q) => Placed(r)'
  PROVE  Effect(r)
<1>1. TypeInv /\ RunInv(r) /\ late' \in BOOLEAN /\ config' \subseteq Run /\ config' = config
  BY TypeParts DEF IInv
<1>2. ClusterInv' /\ \A w \in Run : Owned(w)' = Owned(w)
  BY <1>1, SameCluster, TypeParts DEF ClusterInv
<1>3. ASSUME run'[r] = q PROVE RunInv(r)'
  <2>1. Stacked(r)'
    BY <1>1, <1>3 DEF RunInv, Stacked, Bottom
  <2>2. Remembered(r)'
    BY <1>1, <1>2, <1>3 DEF RunInv, Remembered, ToSet
  <2> QED BY <1>3, <2>1, <2>2 DEF RunInv
<1> QED BY <1>1, <1>2, <1>3, OneRun

\* A step that takes the top from the cleanups of r.
LEMMA PopStep ==
  ASSUME IInv, NEW r \in Run, NEW q,
         run' = [run EXCEPT ![r] = q],
         q \in RunState, q.age <= GoTest, q.pc = "cleanup",
         run[r].pc # "killed", run[r].cleanups # <<>>,
         q.cleanups = Tail(run[r].cleanups), run[r].kept \subseteq q.kept,
         ClusterInv', late' \in BOOLEAN, faults' \in 0 .. MaxFaults,
         \A w \in Run : Owned(w)' \subseteq Owned(w),
         Head(run[r].cleanups) \in Owned(r)' => Head(run[r].cleanups) \in q.kept,
         config' \subseteq config,
         \A w \in config \ config' : w = r /\ Head(run[r].cleanups) = "gdcloud"
  PROVE  Effect(r)
<1>1. TypeInv /\ RunInv(r) /\ config \subseteq Run
  BY TypeParts DEF IInv
<1>2. run[r].cleanups \in Seq(ToSet(Steps))
  BY TypeParts, <1>1 DEF RunState
<1>3. ASSUME run'[r] = q PROVE RunInv(r)'
  <2>1. Bottom(run[r].cleanups) /\ r \in config
    BY <1>1 DEF RunInv, Stacked
  <2>2. /\ Bottom(q.cleanups)
        /\ ToSet(run[r].cleanups) = {Head(run[r].cleanups)} \cup ToSet(q.cleanups)
        /\ Head(run[r].cleanups) = "gdcloud" => q.cleanups = <<>>
    BY <1>2, <2>1, Popped
  <2>3. Stacked(r)'
    <3>1. Bottom(run[r].cleanups)'
      BY <1>3, <2>2 DEF Bottom
    <3> QED BY <1>3, <2>1, <2>2, <3>1 DEF Stacked
  <2>4. Placed(r)'
    BY <1>3 DEF Placed
  <2>5. Remembered(r)'
    <3>1. ToSet(run[r].cleanups)' = ToSet(q.cleanups)
      BY <1>3 DEF ToSet
    <3> QED BY <1>1, <1>3, <2>2, <3>1 DEF RunInv, Remembered
  <2> QED BY <2>3, <2>4, <2>5 DEF RunInv
<1> QED BY <1>1, <1>3, OneRun

\* A step of Steps is over, whether its object was made or not.
LEMMA OverStep ==
  ASSUME IInv, NEW r \in Run, NEW ok \in BOOLEAN, run[r].pc = "setup",
         StepOver(r, Steps[run[r].at], ok),
         ClusterInv', config' \subseteq Run, late' \in BOOLEAN, faults' \in 0 .. MaxFaults,
         \A w \in Run \ {r} : (w \in config' <=> w \in config) /\ Owned(w)' \subseteq Owned(w),
         Owned(r)' \subseteq Owned(r) \cup ({Steps[run[r].at]} \cap Created),
         r \in config => r \in config',
         Steps[run[r].at] = "gdcloud" /\ ok => r \in config'
  PROVE  Effect(r)
<1> DEFINE x == Steps[run[r].at]
           c == run[r].cleanups
           d == Registered(r, x, ok)
           last == run[r].at = Len(Steps)
           deadline == IF last THEN Lesser(run[r].deadline, run[r].age + Verification)
                               ELSE run[r].deadline
           until == WaitEnd(run[r].age, deadline)
           pc == IF ~ok THEN "cleanup" ELSE IF x = "mcm" THEN "ready"
                 ELSE IF last THEN "verify" ELSE "setup"
           at == IF last THEN 1 ELSE IF x = "mcm" \/ ~ok THEN run[r].at
                 ELSE run[r].at + 1
           q == [run[r] EXCEPT !.cleanups = d, !.pc = pc, !.at = at, !.failed = ~ok,
                               !.deadline = deadline, !.until = until]
<1>1. TypeInv /\ RunInv(r) /\ run \in [Run -> RunState] /\ RunType(r)
  BY TypeParts DEF IInv
<1>2. run[r] \in RunState /\ run[r].at \in 1 .. 12 /\ c \in Seq(ToSet(Steps))
      /\ run[r].deadline \in Nat /\ run[r].age \in Nat
  BY <1>1, StepNames DEF RunState
<1>3. x \in ToSet(Steps) /\ (x = "gdcloud" <=> run[r].at = 1) /\ (x = "mcm" => run[r].at = 10)
  BY <1>2, StepNames
<1>4. c = <<>> <=> run[r].at = 1
  BY <1>1, <1>2 DEF RunInv, Placed
<1>5. Bottom(c) /\ (c # <<>> => r \in config)
  BY <1>1 DEF RunInv, Stacked
<1>6. /\ d \in Seq(ToSet(Steps)) /\ Bottom(d)
      /\ ToSet(c) \subseteq ToSet(d)
      /\ x # "crds" /\ (x = "gdcloud" => ok) => x \in ToSet(d)
      /\ d # <<>> <=> (x = "gdcloud" => ok)
  <2>1. CASE x = "crds" \/ (x = "gdcloud" /\ ~ok)
    BY <1>2, <1>3, <1>4, <1>5, <2>1 DEF Registered
  <2>2. CASE ~(x = "crds" \/ (x = "gdcloud" /\ ~ok))
    <3>1. d = <<x>> \o c
      BY <2>2 DEF Registered, Register
    <3>2. d \in Seq(ToSet(Steps)) /\ d # <<>> /\ ToSet(d) = {x} \cup ToSet(c)
      BY <1>2, <1>3, <3>1, Pushed
    <3>3. Bottom(d)
      BY <1>2, <1>3, <1>4, <1>5, <3>1, PushedBottom
    <3> QED BY <2>2, <3>2, <3>3
  <2> QED BY <2>1, <2>2
<1>7. deadline \in Nat /\ until \in Nat /\ until <= deadline
  <2>1. Provisioning \in Nat /\ Verification \in Nat
    BY PresubmitAssumption
  <2>2. deadline \in Nat
    BY <1>2, <2>1 DEF Lesser
  <2> QED BY <1>2, <2>1, <2>2 DEF Lesser, WaitEnd
<1>8. run' = [run EXCEPT ![r] = q]
  BY <1>1 DEF StepOver
<1>9. /\ pc \in {"cleanup", "ready", "verify", "setup"}
      /\ pc = "setup" => ok /\ ~last /\ at = run[r].at + 1
      /\ pc = "ready" => ok /\ at = 10
      /\ pc = "verify" => at = 1
      /\ at \in 1 .. Len(Steps)
  <2>1. run[r].at \in 1 .. 12 /\ (x = "mcm" => run[r].at = 10) /\ Len(Steps) = 12
    BY <1>2, <1>3, StepNames
  <2>2. last <=> run[r].at = 12
    BY <2>1
  <2> HIDE DEF last, x
  <2>3. at \in 1 .. 12
    BY <2>1, <2>2
  <2>4. pc = "setup" => ok /\ ~last /\ x # "mcm"
    OBVIOUS
  <2>5. pc = "ready" => ok /\ x = "mcm"
    OBVIOUS
  <2>6. pc = "verify" => last
    OBVIOUS
  <2>7. pc \in {"cleanup", "ready", "verify", "setup"}
    OBVIOUS
  <2> QED BY <2>1, <2>2, <2>3, <2>4, <2>5, <2>6, <2>7
<1> HIDE DEF d, deadline, until, pc, at
<1>10. q \in RunState
  BY <1>2, <1>6, <1>7, <1>9 DEF RunState, PC
<1>11. /\ q.cleanups = d /\ q.kept = run[r].kept /\ q.pc = pc /\ q.at = at
       /\ q.until = until /\ q.deadline = deadline /\ q.age = run[r].age
  BY <1>2 DEF RunState
<1> HIDE DEF q
<1>12. ASSUME run'[r] = q PROVE RunInv(r)'
  <2>1. Stacked(r)'
    <3>1. Bottom(run[r].cleanups)'
      BY <1>6, <1>11, <1>12 DEF Bottom
    <3>2. d # <<>> => r \in config'
      BY <1>3, <1>4, <1>5, <1>6
    <3> QED BY <1>11, <1>12, <3>1, <3>2 DEF Stacked
  <2>2. Placed(r)'
    <3>1. /\ run'[r].pc = pc /\ run'[r].at = at /\ run'[r].cleanups = d
      BY <1>11, <1>12
    <3>2. pc \in {"setup", "ready"} => d # <<>>
      BY <1>6, <1>9
    <3>3. pc = "setup" => at > 1
      BY <1>2, <1>9
    <3>4. pc = "verify" => at <= 5
      BY <1>9
    <3>5. pc \notin {"idle", "listed", "machines", "vms"}
      BY <1>9
    <3> HIDE DEF pc, at, d
    <3> QED BY <1>9, <3>1, <3>2, <3>3, <3>4, <3>5 DEF Placed
  <2>3. Remembered(r)'
    <3>1. ToSet(run[r].cleanups)' = ToSet(d)
      BY <1>11, <1>12 DEF ToSet
    <3>2. {x} \cap Created \subseteq ToSet(d)
      BY <1>6 DEF Created
    <3>3. \A y \in Owned(r) : y \in ToSet(c) \/ y \in run[r].kept
      BY <1>1 DEF RunInv, Remembered
    <3> QED BY <1>6, <1>9, <1>11, <1>12, <3>1, <3>2, <3>3 DEF Remembered
  <2> QED BY <2>1, <2>2, <2>3 DEF RunInv
<1>13. q.age <= GoTest /\ (q.pc \in {"ready", "verify"} => q.until <= q.deadline)
  BY <1>1, <1>7, <1>11 DEF RunType
<1> QED BY <1>1, <1>8, <1>10, <1>12, <1>13, OneRun

-----------------------------------------------------------------------------
(* The steps.                                                              *)

\* What is known of the record of a run.
LEMMA Record ==
  ASSUME IInv, NEW r \in Run
  PROVE  /\ run \in [Run -> RunState] /\ run[r] \in RunState
         /\ run[r].at \in 1 .. 12 /\ run[r].age \in Nat /\ run[r].until \in Nat
         /\ run[r].deadline \in Nat
         /\ run[r].cleanups \in Seq(ToSet(Steps)) /\ run[r].kept \subseteq Created
         /\ RunType(r) /\ RunInv(r) /\ TypeInv
         /\ faults \in Nat /\ faults \in 0 .. MaxFaults
         /\ GoTest \in Nat /\ Provisioning \in Nat /\ Cleanup \in Nat /\ MaxFaults \in Nat
<1>1. /\ run \in [Run -> RunState] /\ RunType(r) /\ RunInv(r) /\ TypeInv
      /\ faults \in 0 .. MaxFaults
  BY TypeParts DEF IInv
<1>2. GoTest \in Nat /\ Provisioning \in Nat /\ Cleanup \in Nat /\ MaxFaults \in Nat
  BY PresubmitAssumption
<1>3. run[r] \in RunState
  BY <1>1
<1>4. /\ run[r].at \in 1 .. 12 /\ run[r].age \in Nat /\ run[r].until \in Nat
      /\ run[r].deadline \in Nat
      /\ run[r].cleanups \in Seq(ToSet(Steps)) /\ run[r].kept \subseteq Created
  BY <1>3, StepNames DEF RunState
<1> QED BY <1>1, <1>2, <1>3, <1>4

LEMMA Faulty ==
  ASSUME IInv, Fault \/ UNCHANGED faults
  PROVE  faults' \in 0 .. MaxFaults
<1>1. faults \in 0 .. MaxFaults /\ MaxFaults \in Nat
  BY TypeParts, PresubmitAssumption DEF IInv
<1> QED BY <1>1 DEF Fault

LEMMA StartStep ==
  ASSUME IInv, NEW r \in Run, Start(r)
  PROVE  Effect(r)
<1> DEFINE q == [run[r] EXCEPT !.pc = "setup"]
<1>1. run' = [run EXCEPT ![r] = q]
  BY Record DEF Start
<1>2. /\ q \in RunState /\ q.age <= GoTest /\ q.pc = "setup" /\ q.at = run[r].at
      /\ q.cleanups = run[r].cleanups /\ q.kept = run[r].kept
  BY Record DEF RunState, PC, RunType
<1>3. UNCHANGED <<cluster, config, late>> /\ faults' \in 0 .. MaxFaults /\ run[r].pc = "idle"
  BY Record, Faulty DEF Start
<1>4. ASSUME run'[r] = q PROVE Placed(r)'
  BY Record, <1>2, <1>3, <1>4 DEF RunInv, Placed
<1> HIDE DEF q
<1> QED BY <1>1, <1>2, <1>3, <1>4, SameStack

LEMMA KillStep ==
  ASSUME IInv, NEW r \in Run, Kill(r)
  PROVE  Effect(r)
<1> DEFINE q == [run[r] EXCEPT !.pc = "killed"]
<1>1. run' = [run EXCEPT ![r] = q]
  BY Record DEF Kill
<1>2. /\ q \in RunState /\ q.age <= GoTest /\ q.pc = "killed"
      /\ q.cleanups = run[r].cleanups /\ q.kept = run[r].kept
  BY Record DEF RunState, PC, RunType
<1>3. UNCHANGED <<cluster, config, late>> /\ faults' \in 0 .. MaxFaults /\ run[r].pc # "killed"
  BY Record, Faulty DEF Kill, Over
<1>4. ASSUME run'[r] = q PROVE Placed(r)'
  BY <1>2, <1>4 DEF Placed
<1> HIDE DEF q
<1> QED BY <1>1, <1>2, <1>3, <1>4, SameStack

LEMMA TickStep ==
  ASSUME IInv, NEW r \in Run, Tick(r)
  PROVE  Effect(r)
<1> DEFINE q == [run[r] EXCEPT !.age = @ + 1]
<1>1. run' = [run EXCEPT ![r] = q]
  BY Record DEF Tick
<1>2. /\ q \in RunState /\ q.age = run[r].age + 1 /\ q.pc = run[r].pc /\ q.at = run[r].at
      /\ q.until = run[r].until /\ q.deadline = run[r].deadline
      /\ q.cleanups = run[r].cleanups /\ q.kept = run[r].kept
  <2>1. run[r] \in RunState /\ run[r].age + 1 \in Nat
    BY Record
  <2> QED BY <2>1 DEF RunState
<1>3. UNCHANGED <<cluster, config, late>> /\ faults' \in 0 .. MaxFaults
      /\ run[r].pc \in {"ready", "verify", "machines", "vms"} /\ run[r].age < GoTest
  BY Record, Faulty DEF Tick
<1>4. q.age <= GoTest /\ (q.pc \in {"ready", "verify"} => q.until <= q.deadline)
  BY Record, <1>2, <1>3 DEF RunType
<1>5. ASSUME run'[r] = q PROVE Placed(r)'
  BY Record, <1>2, <1>3, <1>5 DEF RunInv, Placed
<1> HIDE DEF q
<1> QED BY <1>1, <1>2, <1>3, <1>4, <1>5, SameStack

LEMMA DoneStep ==
  ASSUME IInv, NEW r \in Run, testOver(r)
  PROVE  Effect(r)
<1> DEFINE q == [run[r] EXCEPT !.pc = "done"]
<1>1. run' = [run EXCEPT ![r] = q]
  BY Record DEF testOver
<1>2. /\ q \in RunState /\ q.age <= GoTest /\ q.pc = "done"
      /\ q.cleanups = run[r].cleanups /\ q.kept = run[r].kept
  BY Record DEF RunState, PC, RunType
<1>3. UNCHANGED <<cluster, config, late>> /\ faults' \in 0 .. MaxFaults /\ run[r].pc = "cleanup"
  BY Record, Faulty DEF testOver
<1>4. ASSUME run'[r] = q PROVE Placed(r)'
  BY <1>2, <1>4 DEF Placed
<1> HIDE DEF q
<1> QED BY <1>1, <1>2, <1>3, <1>4, SameStack

\* A run that goes to its cleanups, with a failure or without one.
LEMMA ToCleanup ==
  ASSUME IInv, NEW r \in Run, NEW q,
         run' = [run EXCEPT ![r] = q], q \in RunState,
         q.pc = "cleanup", q.age = run[r].age, q.cleanups = run[r].cleanups,
         q.kept = run[r].kept, run[r].pc # "killed",
         UNCHANGED <<cluster, config, late>>, faults' \in 0 .. MaxFaults
  PROVE  Effect(r)
<1>1. q.age <= GoTest
  BY Record DEF RunType
<1>2. ASSUME run'[r] = q PROVE Placed(r)'
  BY <1>2 DEF Placed
<1> QED BY <1>1, <1>2, SameStack

LEMMA FailsStep ==
  ASSUME IInv, NEW r \in Run, Fails(r), run[r].pc # "killed",
         UNCHANGED <<cluster, config, late>>, faults' \in 0 .. MaxFaults
  PROVE  Effect(r)
<1> DEFINE q == [run[r] EXCEPT !.pc = "cleanup", !.failed = TRUE]
<1>1. run' = [run EXCEPT ![r] = q]
  BY Record DEF Fails
<1>2. /\ q \in RunState /\ q.age = run[r].age /\ q.pc = "cleanup"
      /\ q.cleanups = run[r].cleanups /\ q.kept = run[r].kept
  BY Record DEF RunState, PC
<1> HIDE DEF q
<1> QED BY <1>1, <1>2, ToCleanup

LEMMA ReadyStep ==
  ASSUME IInv, NEW r \in Run, mcmReady(r)
  PROVE  Effect(r)
<1>1. UNCHANGED <<cluster, config, late>> /\ run[r].pc = "ready"
  BY DEF mcmReady
<1>2. faults' \in 0 .. MaxFaults
  BY Faulty DEF mcmReady
<1>3. CASE Fails(r)
  BY <1>1, <1>2, <1>3, FailsStep
<1>4. CASE run' = [run EXCEPT ![r].pc = "setup", ![r].at = @ + 1]
  <2> DEFINE q == [run[r] EXCEPT !.pc = "setup", !.at = @ + 1]
  <2>1. run' = [run EXCEPT ![r] = q]
    BY Record, <1>4
  <2>2. run[r].at = 10 /\ run[r].cleanups # <<>>
    BY <1>1, Record DEF RunInv, Placed
  <2>3. run[r].at + 1 \in 1 .. Len(Steps) /\ run[r].at + 1 = 11
    BY <2>2, StepNames
  <2>4. /\ q \in RunState /\ q.age = run[r].age /\ q.pc = "setup" /\ q.at = 11
        /\ q.cleanups = run[r].cleanups /\ q.kept = run[r].kept
    BY Record, <2>3 DEF RunState, PC
  <2> HIDE DEF q
  <2>5. q.age <= GoTest
    BY <2>4, Record DEF RunType
  <2>6. ASSUME run'[r] = q PROVE Placed(r)'
    BY <2>2, <2>4, <2>6 DEF Placed
  <2> QED BY <1>1, <1>2, <2>1, <2>4, <2>5, <2>6, SameStack
<1> QED BY <1>3, <1>4 DEF mcmReady

LEMMA VerifyStep ==
  ASSUME IInv, NEW r \in Run, verify(r)
  PROVE  Effect(r)
<1>1. UNCHANGED <<cluster, config, late>> /\ run[r].pc = "verify"
  BY DEF verify
<1>2. faults' \in 0 .. MaxFaults
  BY Faulty DEF verify
<1>3. CASE Fails(r)
  BY <1>1, <1>2, <1>3, FailsStep
<1> DEFINE i == run[r].at
           pc == IF i = Len(Verified) THEN "cleanup" ELSE run[r].pc
           at == IF i = Len(Verified) THEN 1 ELSE i + 1
           until == WaitEnd(run[r].age, run[r].deadline)
           q == [run[r] EXCEPT !.pc = pc, !.at = at, !.until = until]
<1>4. CASE run' = [run EXCEPT ![r].pc = IF i = Len(Verified) THEN "cleanup" ELSE @,
                              ![r].at = IF i = Len(Verified) THEN 1 ELSE i + 1,
                              ![r].until = until]
  <2>1. run' = [run EXCEPT ![r] = q]
    BY Record, <1>4
  <2>2. i \in 1 .. 5
    <3>1. run[r].at \in 1 .. 12 /\ Placed(r)
      BY Record DEF RunInv
    <3> QED BY <1>1, <3>1 DEF Placed
  <2>3. at \in 1 .. 5 /\ at \in 1 .. Len(Steps) /\ pc \in {"cleanup", "verify"}
    BY <1>1, <2>2, StepNames
  <2>4. until \in Nat /\ until <= run[r].deadline
    BY Record DEF Lesser, WaitEnd
  <2> HIDE DEF at, pc, until
  <2>5. /\ q \in RunState /\ q.age = run[r].age /\ q.pc = pc /\ q.at = at
        /\ q.until = until /\ q.deadline = run[r].deadline
        /\ q.cleanups = run[r].cleanups /\ q.kept = run[r].kept
    BY Record, <2>3, <2>4 DEF RunState, PC
  <2> HIDE DEF q
  <2>6. q.age <= GoTest /\ (q.pc \in {"ready", "verify"} => q.until <= q.deadline)
    BY <2>4, <2>5, Record DEF RunType
  <2>7. ASSUME run'[r] = q PROVE Placed(r)'
    BY <2>3, <2>5, <2>7 DEF Placed
  <2> QED BY <1>1, <1>2, <2>1, <2>3, <2>5, <2>6, <2>7, SameStack
<1> QED BY <1>3, <1>4 DEF verify

LEMMA ListStep ==
  ASSUME IInv, NEW r \in Run, listVMs(r)
  PROVE  Effect(r)
<1>1. UNCHANGED <<cluster, config, late>> /\ Pending(r, "md")
  BY DEF listVMs
<1>2. faults' \in 0 .. MaxFaults
  BY Faulty DEF listVMs
<1>3. PICK tracked \in BOOLEAN : run' = [run EXCEPT ![r].pc = "listed", ![r].tracked = tracked]
  <2>1. run[r].tracked \in BOOLEAN
    BY Record DEF RunState
  <2>2. CASE run' = [run EXCEPT ![r].pc = "listed"]
    <3>1. run' = [run EXCEPT ![r].pc = "listed", ![r].tracked = run[r].tracked]
      BY <2>2, Record DEF RunState
    <3> QED BY <2>1, <3>1
  <2>3. CASE run' = [run EXCEPT ![r].pc = "listed", ![r].tracked = "vm" \in objects]
    <3>1. ("vm" \in objects) \in BOOLEAN
      OBVIOUS
    <3> QED BY <2>3, <3>1, Zenon
  <2> QED BY <2>2, <2>3 DEF listVMs
<1> DEFINE q == [run[r] EXCEPT !.pc = "listed", !.tracked = tracked]
<1>4. run' = [run EXCEPT ![r] = q]
  BY Record, <1>3
<1>5. /\ q \in RunState /\ q.age = run[r].age /\ q.pc = "listed"
      /\ q.cleanups = run[r].cleanups /\ q.kept = run[r].kept
  BY Record DEF RunState, PC
<1> HIDE DEF q
<1>6. q.age <= GoTest
  BY <1>5, Record DEF RunType
<1>7. ASSUME run'[r] = q PROVE Placed(r)'
  BY <1>1, <1>5, <1>7 DEF Placed, Pending
<1> QED BY <1>1, <1>2, <1>4, <1>5, <1>6, <1>7, SameStack DEF Pending

LEMMA MachinesStep ==
  ASSUME IInv, NEW r \in Run, machinesGone(r)
  PROVE  Effect(r)
<1>1. UNCHANGED <<cluster, config, late>> /\ run[r].pc = "machines"
  BY DEF machinesGone
<1>2. faults' \in 0 .. MaxFaults
  BY Faulty DEF machinesGone
<1>3. run[r].cleanups # <<>> /\ Head(run[r].cleanups) = "md"
  BY <1>1, Record DEF RunInv, Placed
<1>4. PICK q \in RunState :
        /\ run' = [run EXCEPT ![r] = q]
        /\ q.age = run[r].age /\ q.pc = "vms"
        /\ q.cleanups = run[r].cleanups /\ q.kept = run[r].kept
  <2>1. CASE run' = [run EXCEPT ![r].pc = "vms", ![r].sawNone = TRUE]
    <3> DEFINE q == [run[r] EXCEPT !.pc = "vms", !.sawNone = TRUE]
    <3>1. run' = [run EXCEPT ![r] = q]
      BY Record, <2>1
    <3>2. /\ q \in RunState /\ q.age = run[r].age /\ q.pc = "vms"
          /\ q.cleanups = run[r].cleanups /\ q.kept = run[r].kept
      BY Record DEF RunState, PC
    <3> QED BY <3>1, <3>2
  <2>2. CASE GivesUp(r)
    <3> DEFINE q == [run[r] EXCEPT !.pc = "vms", !.gaveUp = TRUE, !.failed = TRUE]
    <3>1. run' = [run EXCEPT ![r] = q]
      BY Record, <2>2 DEF GivesUp
    <3>2. /\ q \in RunState /\ q.age = run[r].age /\ q.pc = "vms"
          /\ q.cleanups = run[r].cleanups /\ q.kept = run[r].kept
      BY Record DEF RunState, PC
    <3> QED BY <3>1, <3>2
  <2> QED BY <2>1, <2>2 DEF machinesGone
<1>5. q.age <= GoTest
  BY <1>4, Record DEF RunType
<1>6. ASSUME run'[r] = q PROVE Placed(r)'
  BY <1>3, <1>4, <1>6 DEF Placed
<1> QED BY <1>1, <1>2, <1>4, <1>5, <1>6, SameStack

LEMMA DeletedType ==
  ASSUME IInv, NEW X, X \subseteq objects, Delete(X)
  PROVE  /\ ClusterInv'
         /\ \A w \in Run : Owned(w)' = Owned(w) \ X
<1>1. TypeInv /\ creator \in [Created -> Run \cup {NoRun}]
  BY DEF IInv, TypeInv, TypeOK
<1> QED BY <1>1, Deleted DEF ClusterInv

LEMMA SameType ==
  ASSUME IInv, UNCHANGED cluster
  PROVE  /\ ClusterInv'
         /\ \A w \in Run : Owned(w)' = Owned(w)
<1>1. TypeInv /\ creator \in [Created -> Run \cup {NoRun}]
  BY DEF IInv, TypeInv, TypeOK
<1> QED BY <1>1, SameCluster DEF ClusterInv

\* The cleanup of one object.
LEMMA CleanupStep ==
  ASSUME IInv, NEW r \in Run, NEW x, NEW kept \in SUBSET Created,
         Pending(r, x), CleanupOver(r, kept),
         ClusterInv', UNCHANGED late, Fault \/ UNCHANGED faults,
         \A w \in Run : Owned(w)' \subseteq Owned(w),
         x \in Owned(r)' => x \in kept,
         config' \subseteq config,
         \A w \in config \ config' : w = r /\ x = "gdcloud"
  PROVE  Effect(r)
<1> DEFINE c == Tail(run[r].cleanups)
           q == [run[r] EXCEPT !.cleanups = c, !.kept = @ \cup kept]
<1>1. run[r].pc = "cleanup" /\ run[r].cleanups # <<>> /\ Head(run[r].cleanups) = x
  BY DEF Pending
<1>2. run' = [run EXCEPT ![r] = q]
  BY Record DEF CleanupOver
<1>3. c \in Seq(ToSet(Steps))
  BY <1>1, Record, Popped
<1>4. run[r].kept \cup kept \subseteq Created
  BY Record
<1> HIDE DEF c
<1>5. /\ q \in RunState /\ q.age = run[r].age /\ q.pc = "cleanup"
      /\ q.cleanups = c /\ q.kept = run[r].kept \cup kept
  BY <1>1, <1>3, <1>4, Record DEF RunState
<1> HIDE DEF q
<1> USE DEF c
<1>6. q.age <= GoTest
  BY <1>5, Record DEF RunType
<1>7. late' \in BOOLEAN /\ faults' \in 0 .. MaxFaults
  BY TypeParts, Faulty DEF IInv
<1> QED BY <1>1, <1>2, <1>5, <1>6, <1>7, PopStep

LEMMA DeleteObjectStep ==
  ASSUME IInv, NEW r \in Run, deleteObject(r)
  PROVE  Effect(r)
<1>1. PICK x \in Created \ {"secret", "namespace", "md"} :
        /\ Pending(r, x)
        /\ \/ Delete({x} \cap objects) /\ CleanupOver(r, {}) /\ UNCHANGED faults
           \/ UNCHANGED cluster /\ CleanupOver(r, {x}) /\ Fault
  BY DEF deleteObject
<1>2. UNCHANGED <<config, late>>
  BY DEF deleteObject
<1>3. CASE Delete({x} \cap objects) /\ CleanupOver(r, {}) /\ UNCHANGED faults
  <2>1. ClusterInv' /\ \A w \in Run : Owned(w)' = Owned(w) \ ({x} \cap objects)
    BY <1>3, DeletedType
  <2>2. x \notin Owned(r)'
    BY <2>1 DEF Owned
  <2> QED BY <1>1, <1>2, <1>3, <2>1, <2>2, CleanupStep
<1>4. CASE UNCHANGED cluster /\ CleanupOver(r, {x}) /\ Fault
  <2>1. ClusterInv' /\ \A w \in Run : Owned(w)' = Owned(w)
    BY <1>4, SameType
  <2>2. {x} \in SUBSET Created
    BY <1>1
  <2> QED BY <1>1, <1>2, <1>4, <2>1, <2>2, CleanupStep
<1> QED BY <1>1, <1>3, <1>4

LEMMA DeleteNamespaceStep ==
  ASSUME IInv, NEW r \in Run, deleteNamespace(r)
  PROVE  Effect(r)
<1>1. UNCHANGED <<config, late>> /\ Pending(r, "namespace")
  BY DEF deleteNamespace
<1>2. CASE Delete({"namespace"} \cap objects) /\ CleanupOver(r, {}) /\ UNCHANGED faults
  <2>1. ClusterInv' /\ \A w \in Run : Owned(w)' = Owned(w) \ ({"namespace"} \cap objects)
    BY <1>2, DeletedType
  <2>2. "namespace" \notin Owned(r)'
    BY <2>1 DEF Owned
  <2> QED BY <1>1, <1>2, <2>1, <2>2, CleanupStep
<1>3. CASE UNCHANGED cluster /\ CleanupOver(r, {"namespace"}) /\ Fault
  <2>1. ClusterInv' /\ \A w \in Run : Owned(w)' = Owned(w)
    BY <1>3, SameType
  <2>2. {"namespace"} \in SUBSET Created
    BY StepSet
  <2> QED BY <1>1, <1>3, <2>1, <2>2, CleanupStep
<1> QED BY <1>2, <1>3 DEF deleteNamespace

LEMMA DeleteSecretStep ==
  ASSUME IInv, NEW r \in Run, deleteSecret(r)
  PROVE  Effect(r)
<1>1. UNCHANGED <<config, late>> /\ Pending(r, "secret")
  BY DEF deleteSecret
<1>2. CASE /\ objects' = objects \ {"secret"} /\ terminating' = terminating \ {"secret"}
           /\ finalizers' = finalizers \ {"secret"}
           /\ CleanupOver(r, {}) /\ UNCHANGED <<creator, faults>>
  <2>1. TypeInv /\ creator \in [Created -> Run \cup {NoRun}]
    BY DEF IInv, TypeInv, TypeOK
  <2>2. ClusterInv' /\ \A w \in Run : Owned(w)' \subseteq Owned(w)
    BY <1>2, <2>1 DEF ClusterInv, TypeInv, TypeOK, Owned
  <2>3. "secret" \notin Owned(r)'
    BY <1>2 DEF Owned
  <2> QED BY <1>1, <1>2, <2>2, <2>3, CleanupStep
<1>3. CASE Delete({"secret"} \cap objects) /\ CleanupOver(r, {}) /\ Fault
  <2>1. ClusterInv' /\ \A w \in Run : Owned(w)' = Owned(w) \ ({"secret"} \cap objects)
    BY <1>3, DeletedType
  <2>2. "secret" \notin Owned(r)'
    BY <2>1 DEF Owned
  <2> QED BY <1>1, <1>3, <2>1, <2>2, CleanupStep
<1>4. CASE UNCHANGED cluster /\ CleanupOver(r, {"secret"}) /\ Fault
  <2>1. ClusterInv' /\ \A w \in Run : Owned(w)' = Owned(w)
    BY <1>4, SameType
  <2>2. {"secret"} \in SUBSET Created
    BY StepSet
  <2> QED BY <1>1, <1>4, <2>1, <2>2, CleanupStep
<1> QED BY <1>2, <1>3, <1>4 DEF deleteSecret

LEMMA GDCloudStep ==
  ASSUME IInv, NEW r \in Run, cleanupGDCloud(r)
  PROVE  Effect(r)
<1>1. Pending(r, "gdcloud") /\ CleanupOver(r, {}) /\ config' = config \ {r}
      /\ UNCHANGED <<cluster, late, faults>>
  BY DEF cleanupGDCloud
<1>2. ClusterInv' /\ \A w \in Run : Owned(w)' = Owned(w)
  BY <1>1, SameType
<1>3. "gdcloud" \notin Owned(r)'
  BY DEF Owned, Created
<1> QED BY <1>1, <1>2, <1>3, CleanupStep

\* The MachineDeployment is deleted, or is kept.
LEMMA DeleteMDsStep ==
  ASSUME IInv, NEW r \in Run, deleteMDs(r)
  PROVE  Effect(r)
<1>1. UNCHANGED <<config, late>> /\ run[r].pc = "listed"
  BY DEF deleteMDs
<1>2. faults' \in 0 .. MaxFaults /\ late' \in BOOLEAN /\ config' \subseteq Run
  <2>1. late \in BOOLEAN /\ config \subseteq Run
    BY TypeParts DEF IInv
  <2> QED BY <1>1, <2>1, Faulty DEF deleteMDs
<1>3. Placed(r) /\ Stacked(r) /\ Remembered(r)
  BY Record DEF RunInv
<1> DEFINE until == run[r].age + Cleanup
<1>4. PICK kept \in SUBSET Created :
        /\ run' = [run EXCEPT ![r].pc = "machines", ![r].until = until, ![r].kept = kept]
        /\ run[r].kept \subseteq kept
        /\ ClusterInv' /\ \A w \in Run : Owned(w)' \subseteq Owned(w)
        /\ "md" \in Owned(r)' => "md" \in kept
  <2>1. CASE Delete({"md"} \cap objects)
             /\ run' = [run EXCEPT ![r].pc = "machines", ![r].until = until]
    <3>1. ClusterInv' /\ \A w \in Run : Owned(w)' = Owned(w) \ ({"md"} \cap objects)
      BY <2>1, DeletedType
    <3>2. "md" \notin Owned(r)'
      BY <3>1 DEF Owned
    <3>3. run' = [run EXCEPT ![r].pc = "machines", ![r].until = until,
                             ![r].kept = run[r].kept]
      BY <2>1, Record DEF RunState
    <3>4. run[r].kept \in SUBSET Created
      BY Record
    <3> QED BY <3>1, <3>2, <3>3, <3>4
  <2>2. CASE UNCHANGED cluster
             /\ run' = [run EXCEPT ![r].pc = "machines", ![r].until = until,
                                   ![r].kept = @ \cup {"md"}]
    <3>1. ClusterInv' /\ \A w \in Run : Owned(w)' = Owned(w)
      BY <2>2, SameType
    <3>2. run[r].kept \cup {"md"} \in SUBSET Created
      BY Record, StepSet
    <3>3. run' = [run EXCEPT ![r].pc = "machines", ![r].until = until,
                             ![r].kept = run[r].kept \cup {"md"}]
      BY <2>2, Record
    <3> QED BY <3>1, <3>2, <3>3
  <2> QED BY <2>1, <2>2 DEF deleteMDs
<1> DEFINE q == [run[r] EXCEPT !.pc = "machines", !.until = until, !.kept = kept]
<1>5. run' = [run EXCEPT ![r] = q]
  BY <1>4, Record
<1>6. until \in Nat
  BY Record
<1> HIDE DEF until
<1>7. /\ q \in RunState /\ q.age = run[r].age /\ q.pc = "machines"
      /\ q.cleanups = run[r].cleanups /\ q.kept = kept
  BY <1>6, Record DEF RunState, PC
<1> HIDE DEF q
<1>8. q.age <= GoTest
  BY <1>7, Record DEF RunType
<1>9. ASSUME run'[r] = q PROVE RunInv(r)'
  <2>1. Stacked(r)'
    BY <1>1, <1>3, <1>7, <1>9 DEF Stacked, Bottom
  <2>2. Placed(r)'
    BY <1>1, <1>3, <1>7, <1>9 DEF Placed
  <2>3. Remembered(r)'
    BY <1>1, <1>3, <1>4, <1>7, <1>9 DEF Remembered, ToSet
  <2> QED BY <2>1, <2>2, <2>3 DEF RunInv
<1>10. TypeInv
  BY DEF IInv
<1> QED BY <1>1, <1>2, <1>4, <1>5, <1>7, <1>8, <1>9, <1>10, OneRun

\* The cleanup of the MachineDeployment is over.
LEMMA VMsStep ==
  ASSUME IInv, NEW r \in Run, vmsGone(r)
  PROVE  Effect(r)
<1>1. UNCHANGED <<cluster, config, late, faults>> /\ run[r].pc = "vms"
  BY DEF vmsGone
<1>2. faults' \in 0 .. MaxFaults /\ late' \in BOOLEAN
  BY <1>1, TypeParts DEF IInv
<1>3. run[r].cleanups # <<>> /\ Head(run[r].cleanups) = "md"
      /\ ("md" \in Owned(r) => "md" \in run[r].kept)
  BY <1>1, Record DEF RunInv, Placed, Remembered
<1>4. Tail(run[r].cleanups) \in Seq(ToSet(Steps))
  BY <1>3, Record, Popped
<1>5. PICK failed \in BOOLEAN :
        run' = [run EXCEPT ![r] = [run[r] EXCEPT !.pc = "cleanup", !.cleanups = Tail(@),
                                                 !.failed = failed]]
  <2> DEFINE over == [run[r] EXCEPT !.pc = "cleanup", !.cleanups = Tail(@)]
  <2>1. CASE run' = [run EXCEPT ![r] = over]
    <3>1. over = [run[r] EXCEPT !.pc = "cleanup", !.cleanups = Tail(@),
                                !.failed = run[r].failed]
      BY Record DEF RunState
    <3>2. run[r].failed \in BOOLEAN
      BY Record DEF RunState
    <3> QED BY <2>1, <3>1, <3>2
  <2>2. CASE run' = [run EXCEPT ![r] = [over EXCEPT !.failed = TRUE]]
    <3>1. [over EXCEPT !.failed = TRUE]
            = [run[r] EXCEPT !.pc = "cleanup", !.cleanups = Tail(@), !.failed = TRUE]
      BY Record DEF RunState
    <3> QED BY <2>2, <3>1
  <2> QED BY <2>1, <2>2 DEF vmsGone
<1> DEFINE c == Tail(run[r].cleanups)
           q == [run[r] EXCEPT !.pc = "cleanup", !.cleanups = c, !.failed = failed]
<1>6. run' = [run EXCEPT ![r] = q]
  BY <1>5
<1> HIDE DEF c
<1>7. /\ q \in RunState /\ q.age = run[r].age /\ q.pc = "cleanup"
      /\ q.cleanups = c /\ q.kept = run[r].kept
  BY <1>4, Record DEF RunState, PC, c
<1> HIDE DEF q
<1> USE DEF c
<1>8. q.age <= GoTest
  BY <1>7, Record DEF RunType
<1>9. ClusterInv' /\ \A w \in Run : Owned(w)' = Owned(w)
  BY <1>1, SameType
<1> QED BY <1>1, <1>2, <1>3, <1>6, <1>7, <1>8, <1>9, PopStep

LEMMA BootstrapStep ==
  ASSUME IInv, NEW r \in Run, bootstrap(r)
  PROVE  Effect(r)
<1> DEFINE x == Steps[run[r].at]
<1>1. UNCHANGED <<cluster, late>> /\ run[r].pc = "setup" /\ x \in {"gdcloud", "crds"}
  BY DEF bootstrap
<1>2. late' \in BOOLEAN /\ faults' \in 0 .. MaxFaults /\ config \subseteq Run
  <2>1. late \in BOOLEAN /\ config \subseteq Run
    BY TypeParts DEF IInv
  <2> QED BY <1>1, <2>1, Faulty DEF bootstrap
<1>3. ClusterInv' /\ \A w \in Run : Owned(w)' = Owned(w)
  BY <1>1, SameType
<1>4. CASE StepOver(r, x, TRUE)
           /\ config' = config \cup ({r} \cap (IF x = "gdcloud" THEN Run ELSE {}))
  <2>1. /\ config' \subseteq Run
        /\ \A w \in Run \ {r} : (w \in config' <=> w \in config)
        /\ r \in config => r \in config'
        /\ x = "gdcloud" => r \in config'
    BY <1>2, <1>4
  <2> QED BY <1>1, <1>2, <1>3, <1>4, <2>1, OverStep
<1>5. CASE StepOver(r, x, FALSE) /\ UNCHANGED config
  BY <1>1, <1>2, <1>3, <1>5, OverStep
<1> QED BY <1>4, <1>5 DEF bootstrap

LEMMA CreateStep ==
  ASSUME IInv, NEW r \in Run, create(r)
  PROVE  Effect(r)
<1> DEFINE x == Steps[run[r].at]
<1>1. UNCHANGED <<config, late>> /\ run[r].pc = "setup" /\ x \in Created
  BY DEF create
<1>2. late' \in BOOLEAN /\ faults' \in 0 .. MaxFaults /\ config' \subseteq Run
  <2>1. late \in BOOLEAN /\ config \subseteq Run
    BY TypeParts DEF IInv
  <2>2. Fault \/ UNCHANGED faults
    BY DEF create
  <2> QED BY <1>1, <2>1, <2>2, Faulty
<1>3. x # "gdcloud"
  BY <1>1, StepSet
<1>4. PICK ok \in BOOLEAN : StepOver(r, x, ok)
  BY DEF create
<1>5. CASE Store(r, x)
  <2>1. ClusterInv' /\ Owned(r)' \subseteq Owned(r) \cup {x}
        /\ \A w \in Run \ {r} : Owned(w)' \subseteq Owned(w)
    <3>1. TypeInv
      BY DEF IInv
    <3> QED BY <1>1, <1>5, <3>1, Stored DEF ClusterInv
  <2> QED BY <1>1, <1>2, <1>3, <1>4, <2>1, OverStep
<1>6. CASE UNCHANGED cluster
  <2>1. ClusterInv' /\ \A w \in Run : Owned(w)' = Owned(w)
    BY <1>6, SameType
  <2> QED BY <1>1, <1>2, <1>3, <1>4, <2>1, OverStep
<1> QED BY <1>5, <1>6 DEF create

-----------------------------------------------------------------------------
(* The steps of the cluster: they create nothing that a run creates.       *)

ClusterStep ==
  /\ ClusterInv'
  /\ UNCHANGED <<run, config, faults>> /\ late' \in BOOLEAN
  /\ \A r \in Run : Owned(r)' \subseteq Owned(r)

LEMMA ClusterStepKeeps ==
  ASSUME IInv, ClusterStep
  PROVE  IInv'
<1>1. \A r \in Run : Kept(r)
  BY DEF ClusterStep, Kept
<1>2. \A r \in Run : RunInv(r)'
  BY <1>1, KeptKeeps DEF IInv
<1>3. TypeInv'
  BY DEF IInv, TypeInv, TypeOK, ClusterStep, ClusterInv
<1> QED BY <1>2, <1>3 DEF IInv

LEMMA ClusterFacts ==
  ASSUME IInv
  PROVE  ClusterInv /\ late \in BOOLEAN
BY TypeParts DEF IInv

LEMMA MakeStep ==
  ASSUME IInv, NEW x \in DOMAIN Parent, Make(x)
  PROVE  ClusterStep
<1>1. x \in {"set", "machine", "vm"}
  BY DEF Parent
<1>2. x \notin Created /\ x \in Object
  BY <1>1, StepSet DEF Object
<1>3. objects' = objects \cup {x} /\ UNCHANGED <<terminating, creator, run, config, faults>>
  BY DEF Make
<1>4. late' \in BOOLEAN
  BY ClusterFacts DEF Make
<1>5. finalizers' \subseteq objects'
  BY DEF Make
<1>6. terminating \subseteq finalizers'
  <2> DEFINE others == {Parent[x]} \cup ({x} \cap Namespaced)
                         \cup (IF x = "machine" THEN {"class", "secret"} ELSE {})
  <2>1. finalizers' = (finalizers \cup others) \cap objects'
    BY DEF Make
  <2> HIDE DEF others
  <2> QED BY <1>3, <2>1, ClusterFacts DEF ClusterInv
<1>7. \A r \in Run : Owned(r)' \subseteq Owned(r)
  BY <1>2, <1>3 DEF Owned
<1>8. ClusterInv'
  BY <1>2, <1>3, <1>5, <1>6, ClusterFacts DEF ClusterInv
<1> QED BY <1>3, <1>4, <1>7, <1>8 DEF ClusterStep

LEMMA DeletedStep ==
  ASSUME IInv, NEW x \in objects, Delete({x}), UNCHANGED <<run, config, late, faults>>
  PROVE  ClusterStep
<1>1. ClusterInv' /\ \A w \in Run : Owned(w)' = Owned(w) \ {x}
  BY DeletedType
<1> QED BY <1>1, ClusterFacts DEF ClusterStep

LEMMA CascadeStep ==
  ASSUME IInv, NEW x, Cascade(x)
  PROVE  ClusterStep
BY DeletedStep DEF Cascade

LEMMA EmptiesStep ==
  ASSUME IInv, Empties
  PROVE  ClusterStep
BY DeletedStep DEF Empties

LEMMA ReleaseStep ==
  ASSUME IInv, NEW x, Release(x)
  PROVE  ClusterStep
BY ClusterFacts DEF Release, ClusterStep, ClusterInv, Owned

LEMMA NamespaceGoneStep ==
  ASSUME IInv, NamespaceGone
  PROVE  ClusterStep
BY ClusterFacts DEF NamespaceGone, ClusterStep, ClusterInv, Owned

-----------------------------------------------------------------------------
(* The invariant.                                                          *)

LEMMA InitIInv ==
  ASSUME Init
  PROVE  IInv
<1>1. MaxFaults \in Nat /\ Global \in Nat /\ GoTest \in Nat
  BY PresubmitAssumption
<1>2. TypeInv
  <2>1. run \in [Run -> RunState]
    <3> DEFINE q == [pc |-> "idle", at |-> 1, cleanups |-> <<>>, age |-> 0, until |-> 0,
                     deadline |-> Global, tracked |-> FALSE, sawNone |-> FALSE,
                     gaveUp |-> FALSE, failed |-> FALSE, kept |-> {}]
    <3>1. <<>> \in Seq(ToSet(Steps)) /\ 1 \in 1 .. Len(Steps)
      BY EmptyStack, StepNames
    <3>2. q \in RunState
      BY <1>1, <3>1 DEF RunState, PC
    <3>3. run = [r \in Run |-> q]
      BY DEF Init
    <3> HIDE DEF q
    <3> QED BY <3>2, <3>3
  <2>2. \A r \in Run : /\ run[r].age = 0 /\ run[r].pc = "idle"
    BY DEF Init
  <2>3. \A r \in Run : RunType(r)
    BY <1>1, <2>1, <2>2 DEF RunType
  <2>4. ClusterInv
    BY DEF Init, ClusterInv
  <2>5. config \subseteq Run /\ late \in BOOLEAN
    BY DEF Init
  <2>6. faults \in 0 .. MaxFaults
    <3>1. faults = 0
      BY DEF Init
    <3> QED BY <1>1, <3>1
  <2> QED BY <2>1, <2>3, <2>4, <2>5, <2>6, TypeParts
<1>3. ASSUME NEW r \in Run PROVE RunInv(r)
  <2>1. /\ run[r].pc = "idle" /\ run[r].at = 1 /\ run[r].cleanups = <<>>
        /\ objects = {}
    BY DEF Init
  <2> QED BY <2>1, EmptyStack DEF RunInv, Stacked, Placed, Remembered, Owned
<1> QED BY <1>2, <1>3 DEF IInv

LEMMA NextIInv ==
  ASSUME IInv, [Next]_vars
  PROVE  IInv'
<1>1. ASSUME NEW r \in Run, Effect(r) PROVE IInv'
  <2>1. \A q \in Run \ {r} : RunInv(q)'
    BY <1>1, KeptKeeps DEF IInv, Effect
  <2> QED BY <1>1, <2>1 DEF IInv, Effect
<1>2. ASSUME NEW r \in Run,
             \/ Start(r) \/ bootstrap(r) \/ create(r) \/ mcmReady(r) \/ verify(r)
             \/ deleteObject(r) \/ deleteSecret(r) \/ deleteNamespace(r) \/ listVMs(r)
             \/ deleteMDs(r) \/ machinesGone(r) \/ vmsGone(r) \/ cleanupGDCloud(r)
             \/ testOver(r) \/ Kill(r) \/ Tick(r)
      PROVE  IInv'
  <2>1. CASE Start(r)
    BY <1>1, <2>1, StartStep
  <2>2. CASE bootstrap(r)
    BY <1>1, <2>2, BootstrapStep
  <2>3. CASE create(r)
    BY <1>1, <2>3, CreateStep
  <2>4. CASE mcmReady(r)
    BY <1>1, <2>4, ReadyStep
  <2>5. CASE verify(r)
    BY <1>1, <2>5, VerifyStep
  <2>6. CASE deleteObject(r)
    BY <1>1, <2>6, DeleteObjectStep
  <2>7. CASE deleteSecret(r)
    BY <1>1, <2>7, DeleteSecretStep
  <2>8. CASE deleteNamespace(r)
    BY <1>1, <2>8, DeleteNamespaceStep
  <2>9. CASE listVMs(r)
    BY <1>1, <2>9, ListStep
  <2>10. CASE deleteMDs(r)
    BY <1>1, <2>10, DeleteMDsStep
  <2>11. CASE machinesGone(r)
    BY <1>1, <2>11, MachinesStep
  <2>12. CASE vmsGone(r)
    BY <1>1, <2>12, VMsStep
  <2>13. CASE cleanupGDCloud(r)
    BY <1>1, <2>13, GDCloudStep
  <2>14. CASE testOver(r)
    BY <1>1, <2>14, DoneStep
  <2>15. CASE Kill(r)
    BY <1>1, <2>15, KillStep
  <2>16. CASE Tick(r)
    BY <1>1, <2>16, TickStep
  <2> QED BY <1>2, <2>1, <2>2, <2>3, <2>4, <2>5, <2>6, <2>7, <2>8, <2>9, <2>10, <2>11,
             <2>12, <2>13, <2>14, <2>15, <2>16
<1>3. ASSUME NEW x \in DOMAIN Parent, Make(x) \/ Cascade(x) PROVE IInv'
  BY <1>3, MakeStep, CascadeStep, ClusterStepKeeps
<1>4. ASSUME NEW x, Release(x) PROVE IInv'
  BY <1>4, ReleaseStep, ClusterStepKeeps
<1>5. ASSUME Empties \/ NamespaceGone PROVE IInv'
  BY <1>5, EmptiesStep, NamespaceGoneStep, ClusterStepKeeps
<1>6. CASE UNCHANGED vars
  <2>1. ClusterStep
    BY <1>6, ClusterFacts DEF vars, ClusterStep, ClusterInv, Owned
  <2> QED BY <2>1, ClusterStepKeeps
<1> QED BY <1>2, <1>3, <1>4, <1>5, <1>6 DEF Next

LEMMA IInvHolds == Spec => []IInv
<1>1. Init => IInv
  BY InitIInv
<1>2. IInv /\ [Next]_vars => IInv'
  BY NextIInv
<1> QED BY <1>1, <1>2, PTL DEF Spec

-----------------------------------------------------------------------------
(* The theorems.                                                           *)

\* The records of the runs are what they should be; no run gets older than the
\* timeout of go test, and no wait of the test outlasts its context.
THEOREM TypeCorrect == Spec => []TypeOK
<1>1. IInv => TypeOK
  BY DEF IInv, TypeInv
<1> QED BY <1>1, IInvHolds, PTL

\* Whatever a living run has created, and nobody has deleted, has a cleanup
\* ahead or is one that the run could not delete, however many runs of the
\* commit share the namespace and delete each other's objects (setupRBAC,
\* triggerProvisioning and the cleanups of TestMCM).
THEOREM NothingIsForgotten == Spec => []NothingForgotten
<1>1. IInv => NothingForgotten
  BY DEF IInv, RunInv, Remembered, Owned, NothingForgotten, Holds
<1> QED BY <1>1, IInvHolds, PTL

\* The cleanup of the gdcloud configuration is the last one of its run
\* (bootstrapTestEnv), so every other finds the credentials of the clients.
THEOREM CredentialsStay == Spec => []CredentialsOutliveCleanups
<1>1. ASSUME IInv PROVE CredentialsOutliveCleanups
  <2>1. SUFFICES ASSUME NEW r \in Run, NEW x \in Created, Holds(r, x)
                 PROVE  r \in config
    BY DEF CredentialsOutliveCleanups
  <2>2. run[r].cleanups # <<>>
    BY <2>1, EmptyStack DEF Holds
  <2> QED BY <1>1, <2>2 DEF IInv, RunInv, Stacked
<1> QED BY <1>1, IInvHolds, PTL

-----------------------------------------------------------------------------
(* A run that has the cluster to itself.  Nothing of what follows holds of *)
(* two runs of one commit: the one that ends first deletes the namespace   *)
(* of the other.                                                           *)

\* What has something that belongs to it is held by a finalizer.
ChainHeld == \A x \in DOMAIN Parent : x \in objects => Parent[x] \in finalizers

\* No Machine will be made any more: neither the MachineDeployment nor its
\* MachineSet is there to stay.
Stopped == {"md", "set"} \cap (objects \ terminating) = {}

\* The cleanup of the MachineDeployment is on top, or is not there.
OnTop(r) ==
  /\ run[r].cleanups # <<>> => "md" \notin ToSet(Tail(run[r].cleanups))
  /\ run[r].pc \in {"idle", "setup", "ready"} => ~Holds(r, "md")

\* How the cleanup of the MachineDeployment ends.
Concluded(r) ==
  /\ "md" \in objects => creator["md"] = r
  /\ run[r].pc # "killed" /\ creator["md"] = r =>
       Holds(r, "md") \/ run[r].sawNone \/ run[r].gaveUp
  /\ run[r].pc = "vms" => run[r].sawNone \/ run[r].gaveUp
  /\ run[r].pc = "done" => run[r].cleanups = <<>>
  /\ run[r].gaveUp => run[r].failed
  /\ run[r].pc \in {"idle", "setup", "ready", "verify"} => ~run[r].sawNone /\ ~run[r].gaveUp

\* A Machine has its controller, and its namespace stays, until the run has seen
\* none left or has given up.
Served(r) ==
  /\ run[r].sawNone /\ "machine" \in objects => late
  /\ run[r].pc # "killed" /\ "machine" \in objects /\ ~run[r].gaveUp /\ ~late =>
       MCMWorks /\ "namespace" \notin terminating
  /\ run[r].pc # "killed" /\ "namespace" \in terminating =>
       /\ run[r].pc \in {"cleanup", "done"} /\ ~Holds(r, "md")
       /\ run[r].failed \/ run[r].sawNone

\* A run that has set up everything and not failed.
Passes(r) ==
  ~run[r].failed /\ run[r].pc \in {"verify", "cleanup", "listed", "machines", "vms", "done"}

\* It has verified the MachineDeployment, and with it the Machine.
Past(r) == Passes(r) /\ (run[r].pc = "verify" => run[r].at > 2)

\* A Machine it has seen goes only when no other will be made.
Passing(r) ==
  /\ Passes(r) => creator["md"] = r
  /\ "namespace" \notin terminating /\ {"set", "machine"} \cap terminating # {} => Stopped
  /\ Past(r) => "machine" \in objects \ terminating \/ Stopped
  /\ Past(r) /\ run[r].sawNone => "machine" \notin objects /\ Stopped

SoloInv(r) == ChainHeld /\ OnTop(r) /\ Concluded(r) /\ Served(r) /\ Passing(r)

LEMMA ChainNames ==
  /\ DOMAIN Parent = {"set", "machine", "vm"} /\ DOMAIN Child = {"md", "set", "machine"}
  /\ Parent["set"] = "md" /\ Parent["machine"] = "set" /\ Parent["vm"] = "machine"
  /\ Child["md"] = "set" /\ Child["set"] = "machine" /\ Child["machine"] = "vm"
BY DEF Parent, Child

\* Each link of the chain is there as long as the next one.
LEMMA Links ==
  ASSUME IInv, ChainHeld
  PROVE  /\ "vm" \in objects => "machine" \in objects \cap finalizers
         /\ "machine" \in objects => "set" \in objects \cap finalizers
         /\ "set" \in objects => "md" \in objects \cap finalizers
         /\ terminating \subseteq objects
BY ChainNames, ClusterFacts DEF ChainHeld, ClusterInv

\* A cleanup other than that of the MachineDeployment: there is no Machine, or
\* the run has given up on it, or it came late.
LEMMA OtherPending ==
  ASSUME IInv, NEW r \in Run, SoloInv(r), NEW x, Pending(r, x), x # "md"
  PROVE  /\ ~Holds(r, "md") /\ run[r].pc = "cleanup" /\ run[r].cleanups # <<>>
         /\ "machine" \in objects => run[r].gaveUp \/ late
<1>1. run[r].cleanups # <<>> /\ Head(run[r].cleanups) = x /\ run[r].pc = "cleanup"
  BY DEF Pending
<1>2. ~Holds(r, "md")
  <2>1. ToSet(run[r].cleanups) = {x} \cup ToSet(Tail(run[r].cleanups))
    BY <1>1, Record, Popped
  <2> QED BY <1>1, <2>1 DEF SoloInv, OnTop, Holds
<1>3. "machine" \in objects => creator["md"] = r
  BY Links DEF SoloInv, Concluded
<1> QED BY <1>1, <1>2, <1>3 DEF SoloInv, Concluded, Served

\* A step that leaves the cluster alone, and of the run what its cleanups found.
LEMMA SoloQuiet ==
  ASSUME IInv, NEW r \in Run, SoloInv(r), UNCHANGED <<cluster, late>>,
         run'[r].cleanups = run[r].cleanups, run'[r].sawNone = run[r].sawNone,
         run'[r].gaveUp = run[r].gaveUp, run[r].failed => run'[r].failed,
         run[r].pc # "killed", run'[r].pc = "vms" => run[r].pc = "vms",
         run'[r].pc = "done" => run[r].cleanups = <<>>,
         run'[r].pc \in {"idle", "setup", "ready"} => run[r].pc \in {"idle", "setup", "ready"},
         run'[r].pc = "verify" => run[r].pc = "verify",
         run[r].pc \in {"cleanup", "done"} =>
           run'[r].pc \in {"cleanup", "done", "killed"} \/ Holds(r, "md"),
         Past(r)' => \/ Past(r)
                     \/ run[r].pc = "verify" /\ ~run[r].failed /\ "machine" \in objects
  PROVE  SoloInv(r)'
<1> USE DEF SoloInv
<1>1. UNCHANGED <<objects, terminating, finalizers, creator, late>>
  BY DEF cluster
<1>2. Holds(r, "md")' <=> Holds(r, "md")
  BY DEF Holds, ToSet
<1>3. ChainHeld' /\ (Stopped' <=> Stopped) /\ (MCMWorks' <=> MCMWorks)
  BY <1>1 DEF ChainHeld, Stopped, MCMWorks
<1>4. OnTop(r)'
  BY <1>2 DEF OnTop, ToSet
<1>5. Concluded(r)'
  BY <1>1, <1>2 DEF Concluded
<1>6. Served(r)'
  BY <1>1, <1>2, <1>3 DEF Served
<1>7. Passing(r)'
  <2>1. Passes(r)' => Passes(r)
    <3>1. run'[r].pc \in {"cleanup", "listed", "machines", "vms", "done"} =>
            Past(r)' \/ run'[r].failed
      BY DEF Past, Passes
    <3>2. Past(r) => Passes(r)
      BY DEF Past
    <3> QED BY <3>1, <3>2 DEF Passes
  <2>2. run[r].pc = "verify" /\ "machine" \in objects =>
          "machine" \in objects \ terminating \/ Stopped
    BY DEF Served, Passing
  <2>3. run[r].pc = "verify" => ~run[r].sawNone
    BY DEF Concluded
  <2> QED BY <1>1, <1>3, <2>1, <2>2, <2>3 DEF Passing
<1> QED BY <1>3, <1>4, <1>5, <1>6, <1>7

LEMMA SoloStart ==
  ASSUME IInv, NEW r \in Run, SoloInv(r), Start(r)
  PROVE  SoloInv(r)'
<1>1. /\ run[r].pc = "idle" /\ run'[r].pc = "setup" /\ run'[r].failed = run[r].failed
      /\ run'[r].cleanups = run[r].cleanups /\ run'[r].sawNone = run[r].sawNone
      /\ run'[r].gaveUp = run[r].gaveUp /\ UNCHANGED <<cluster, late>>
  BY Record DEF Start, RunState
<1> QED BY <1>1, SoloQuiet DEF Past, Passes

LEMMA SoloFails ==
  ASSUME IInv, NEW r \in Run, SoloInv(r), Fails(r), UNCHANGED <<cluster, late>>,
         run[r].pc \in {"ready", "verify"}
  PROVE  SoloInv(r)'
<1>1. /\ run'[r].pc = "cleanup" /\ run'[r].failed
      /\ run'[r].cleanups = run[r].cleanups /\ run'[r].sawNone = run[r].sawNone
      /\ run'[r].gaveUp = run[r].gaveUp
  BY Record DEF Fails, RunState
<1> QED BY <1>1, SoloQuiet DEF Past, Passes

LEMMA SoloReady ==
  ASSUME IInv, NEW r \in Run, SoloInv(r), mcmReady(r)
  PROVE  SoloInv(r)'
<1>1. run[r].pc = "ready" /\ UNCHANGED <<cluster, late>>
  BY DEF mcmReady
<1>2. CASE run' = [run EXCEPT ![r].pc = "setup", ![r].at = @ + 1]
  <2>1. /\ run'[r].pc = "setup" /\ run'[r].failed = run[r].failed
        /\ run'[r].cleanups = run[r].cleanups /\ run'[r].sawNone = run[r].sawNone
        /\ run'[r].gaveUp = run[r].gaveUp
    BY <1>2, Record DEF RunState
  <2> QED BY <1>1, <2>1, SoloQuiet DEF Past, Passes
<1> QED BY <1>1, <1>2, SoloFails DEF mcmReady

LEMMA SoloVerify ==
  ASSUME IInv, NEW r \in Run, SoloInv(r), verify(r)
  PROVE  SoloInv(r)'
<1> DEFINE i == run[r].at
<1>1. run[r].pc = "verify" /\ UNCHANGED <<cluster, late>>
  BY DEF verify
<1>2. CASE /\ IsVerified(Verified[i])
           /\ run' = [run EXCEPT
                ![r].pc = IF i = Len(Verified) THEN "cleanup" ELSE @,
                ![r].at = IF i = Len(Verified) THEN 1 ELSE i + 1,
                ![r].until = WaitEnd(run[r].age, run[r].deadline)]
  <2>1. i \in 1 .. 5 /\ Len(Verified) = 5 /\ Verified[2] = "md"
    <3>1. run[r].at \in 1 .. 12 /\ Placed(r)
      BY Record DEF RunInv
    <3>2. Verified[2] = "md"
      BY DEF Verified
    <3> QED BY <1>1, <3>1, <3>2, StepNames DEF Placed
  <2>2. /\ run'[r].pc = IF i = 5 THEN "cleanup" ELSE "verify"
        /\ run'[r].at = IF i = 5 THEN 1 ELSE i + 1
        /\ run'[r].failed = run[r].failed
        /\ run'[r].cleanups = run[r].cleanups /\ run'[r].sawNone = run[r].sawNone
        /\ run'[r].gaveUp = run[r].gaveUp
    BY <1>1, <1>2, <2>1, Record DEF RunState
  <2>3. i = 2 => "machine" \in objects
    BY <1>2, <2>1 DEF IsVerified
  <2>4. Past(r)' => Past(r) \/ (~run[r].failed /\ "machine" \in objects)
    BY <1>1, <2>1, <2>2, <2>3 DEF Past, Passes
  <2> QED BY <1>1, <2>2, <2>4, SoloQuiet
<1> QED BY <1>1, <1>2, SoloFails DEF verify

LEMMA SoloList ==
  ASSUME IInv, NEW r \in Run, SoloInv(r), listVMs(r)
  PROVE  SoloInv(r)'
<1>1. /\ run'[r].pc = "listed" /\ run'[r].failed = run[r].failed
      /\ run'[r].cleanups = run[r].cleanups /\ run'[r].sawNone = run[r].sawNone
      /\ run'[r].gaveUp = run[r].gaveUp /\ UNCHANGED <<cluster, late>>
      /\ run[r].pc = "cleanup"
  BY Record DEF listVMs, RunState, Pending
<1>2. Holds(r, "md")
  <2>1. run[r].cleanups # <<>> /\ Head(run[r].cleanups) = "md"
    BY DEF listVMs, Pending
  <2> QED BY <2>1, Record, Popped DEF Holds
<1> QED BY <1>1, <1>2, SoloQuiet DEF Past, Passes

LEMMA SoloOver ==
  ASSUME IInv, NEW r \in Run, SoloInv(r), testOver(r) \/ Kill(r)
  PROVE  SoloInv(r)'
<1>1. /\ run'[r].failed = run[r].failed
      /\ run'[r].cleanups = run[r].cleanups /\ run'[r].sawNone = run[r].sawNone
      /\ run'[r].gaveUp = run[r].gaveUp /\ UNCHANGED <<cluster, late>>
  BY Record DEF testOver, Kill, RunState
<1>2. \/ run[r].pc = "cleanup" /\ run[r].cleanups = <<>> /\ run'[r].pc = "done"
      \/ run[r].pc # "killed" /\ run'[r].pc = "killed"
  BY Record DEF testOver, Kill, Over, RunState
<1> QED BY <1>1, <1>2, SoloQuiet DEF Past, Passes

LEMMA SoloTick ==
  ASSUME IInv, NEW r \in Run, SoloInv(r), Tick(r)
  PROVE  SoloInv(r)'
<1>1. /\ run'[r].failed = run[r].failed /\ run'[r].at = run[r].at
      /\ run'[r].cleanups = run[r].cleanups /\ run'[r].sawNone = run[r].sawNone
      /\ run'[r].gaveUp = run[r].gaveUp /\ UNCHANGED <<cluster, late>>
      /\ run'[r].pc = run[r].pc /\ run[r].pc \in {"ready", "verify", "machines", "vms"}
  BY Record DEF Tick, RunState
<1> QED BY <1>1, SoloQuiet DEF Past, Passes

\* The chain from the MachineDeployment to the VM is as it was.
Chain == {"md", "set", "machine", "vm"}

SameChain ==
  /\ creator' = creator
  /\ \A y \in Chain : /\ y \in objects' <=> y \in objects
                      /\ y \in terminating' <=> y \in terminating
                      /\ y \in finalizers' <=> y \in finalizers

LEMMA ChainKept ==
  ASSUME SameChain
  PROVE  (ChainHeld => ChainHeld') /\ (Stopped' <=> Stopped)
BY ChainNames DEF SameChain, Chain, ChainHeld, Stopped

\* A cleanup other than that of the MachineDeployment.
LEMMA SoloPop ==
  ASSUME IInv, NEW r \in Run, SoloInv(r), NEW x, NEW kept,
         Pending(r, x), x # "md", CleanupOver(r, kept), UNCHANGED late, SameChain,
         "namespace" \in terminating => "namespace" \in terminating',
         "namespace" \in terminating' => "namespace" \in terminating \/ x = "namespace"
  PROVE  SoloInv(r)'
<1> USE DEF SoloInv
<1>1. /\ ~Holds(r, "md") /\ run[r].pc = "cleanup" /\ run[r].cleanups # <<>>
      /\ "machine" \in objects => run[r].gaveUp \/ late
  BY OtherPending
<1>2. /\ run'[r].pc = "cleanup" /\ run'[r].cleanups = Tail(run[r].cleanups)
      /\ run'[r].sawNone = run[r].sawNone /\ run'[r].gaveUp = run[r].gaveUp
      /\ run'[r].failed = run[r].failed /\ late' = late
  BY <1>1, Record DEF CleanupOver, RunState
<1>3. /\ Tail(run[r].cleanups) \in Seq(ToSet(Steps))
      /\ "md" \notin ToSet(Tail(run[r].cleanups))
  <2>1. /\ Tail(run[r].cleanups) \in Seq(ToSet(Steps))
        /\ ToSet(run[r].cleanups)
             = {Head(run[r].cleanups)} \cup ToSet(Tail(run[r].cleanups))
    BY <1>1, Record, Popped
  <2> QED BY <1>1, <2>1 DEF Holds
<1>4. ~Holds(r, "md")'
  BY <1>2, <1>3 DEF Holds, ToSet
<1>5. OnTop(r)'
  <2>1. Tail(run[r].cleanups) # <<>> => "md" \notin ToSet(Tail(Tail(run[r].cleanups)))
    BY <1>3, Popped
  <2> QED BY <1>2, <2>1 DEF OnTop, ToSet
<1>6. creator' = creator /\ \A y \in Chain : y \in objects' <=> y \in objects
  BY DEF SameChain
<1>7. Concluded(r)'
  BY <1>1, <1>2, <1>6 DEF Concluded, Chain
<1>8. "namespace" \in terminating' => run[r].failed \/ run[r].sawNone
  <2>1. CASE "namespace" \in terminating
    BY <1>1, <2>1 DEF Served
  <2>2. CASE ~run[r].failed
    BY <1>1, <2>2 DEF Passing, Passes, Concluded
  <2> QED BY <1>1, <2>1, <2>2
<1>9. Served(r)'
  BY <1>1, <1>2, <1>4, <1>6, <1>8 DEF Served, Chain
<1>10. Passing(r)'
  BY <1>1, <1>2, ChainKept DEF Passing, Past, Passes, SameChain, Chain
<1> QED BY <1>5, <1>7, <1>9, <1>10, ChainKept

\* Other objects are deleted, or are not.
LEMMA DeletedOther ==
  ASSUME NEW x, x \notin Chain, Delete({x} \cap objects) \/ UNCHANGED cluster
  PROVE  /\ SameChain
         /\ "namespace" \in terminating => "namespace" \in terminating'
         /\ "namespace" \in terminating' => "namespace" \in terminating \/ x = "namespace"
BY DEF Delete, cluster, SameChain

LEMMA SoloDeleteObject ==
  ASSUME IInv, NEW r \in Run, SoloInv(r), deleteObject(r)
  PROVE  SoloInv(r)'
<1>1. PICK x \in Created \ {"secret", "namespace", "md"} :
        /\ Pending(r, x)
        /\ Delete({x} \cap objects) \/ UNCHANGED cluster
        /\ \E kept : CleanupOver(r, kept)
  BY DEF deleteObject
<1>2. PICK kept : CleanupOver(r, kept)
  BY <1>1
<1>3. x \notin Chain /\ x # "md" /\ UNCHANGED late
  BY StepSet DEF deleteObject, Chain
<1> QED BY <1>1, <1>2, <1>3, DeletedOther, SoloPop

LEMMA SoloDeleteNamespace ==
  ASSUME IInv, NEW r \in Run, SoloInv(r), deleteNamespace(r)
  PROVE  SoloInv(r)'
<1>1. /\ Pending(r, "namespace") /\ UNCHANGED late
      /\ Delete({"namespace"} \cap objects) \/ UNCHANGED cluster
      /\ \E kept : CleanupOver(r, kept)
  BY DEF deleteNamespace
<1>2. "namespace" \notin Chain
  BY DEF Chain
<1> QED BY <1>1, <1>2, DeletedOther, SoloPop

LEMMA SoloDeleteSecret ==
  ASSUME IInv, NEW r \in Run, SoloInv(r), deleteSecret(r)
  PROVE  SoloInv(r)'
<1>1. /\ Pending(r, "secret") /\ UNCHANGED late
      /\ \E kept : CleanupOver(r, kept)
  BY DEF deleteSecret
<1>2. "secret" \notin Chain
  BY DEF Chain
<1>3. CASE Delete({"secret"} \cap objects) \/ UNCHANGED cluster
  BY <1>1, <1>2, <1>3, DeletedOther, SoloPop
<1>4. CASE /\ objects' = objects \ {"secret"} /\ terminating' = terminating \ {"secret"}
           /\ finalizers' = finalizers \ {"secret"} /\ UNCHANGED creator
  <2>1. SameChain
    BY <1>2, <1>4 DEF SameChain, Chain
  <2> QED BY <1>1, <1>4, <2>1, SoloPop
<1> QED BY <1>3, <1>4 DEF deleteSecret

LEMMA SoloGDCloud ==
  ASSUME IInv, NEW r \in Run, SoloInv(r), cleanupGDCloud(r)
  PROVE  SoloInv(r)'
<1>1. /\ Pending(r, "gdcloud") /\ UNCHANGED <<cluster, late>> /\ CleanupOver(r, {})
  BY DEF cleanupGDCloud
<1>2. SameChain
  BY <1>1 DEF SameChain, cluster
<1>3. terminating' = terminating
  BY <1>1 DEF cluster
<1> QED BY <1>1, <1>2, <1>3, SoloPop

\* The MachineDeployment is the last step.
LEMMA LastStep ==
  /\ \A i \in 1 .. 12 : Steps[i] = "md" <=> i = 12
  /\ \A i \in 1 .. 12 : Steps[i] \notin {"set", "machine", "vm"}
BY StepList

\* Before its last step is over, nothing of the chain is there.
LEMMA SoloSetup ==
  ASSUME IInv, NEW r \in Run, SoloInv(r), run[r].pc = "setup"
  PROVE  /\ ~Holds(r, "md") /\ ~run[r].sawNone /\ ~run[r].gaveUp
         /\ creator["md"] # r /\ Chain \cap objects = {}
         /\ "namespace" \notin terminating /\ terminating \subseteq objects
<1>1. ~Holds(r, "md") /\ ~run[r].sawNone /\ ~run[r].gaveUp
  BY DEF SoloInv, OnTop, Concluded
<1>2. creator["md"] # r /\ "md" \notin objects
  BY <1>1 DEF SoloInv, Concluded
<1>3. Chain \cap objects = {} /\ terminating \subseteq objects
  BY <1>2, Links DEF SoloInv, Chain
<1>4. "namespace" \notin terminating
  BY DEF SoloInv, Served
<1> QED BY <1>1, <1>2, <1>3, <1>4

\* A step of Steps is over.
LEMMA SoloOverStep ==
  ASSUME IInv, NEW r \in Run, SoloInv(r), run[r].pc = "setup", NEW ok \in BOOLEAN,
         StepOver(r, Steps[run[r].at], ok), UNCHANGED late,
         \/ Store(r, Steps[run[r].at]) /\ Steps[run[r].at] \in Created
         \/ UNCHANGED cluster /\ (ok => Steps[run[r].at] # "md")
  PROVE  SoloInv(r)'
<1> DEFINE x == Steps[run[r].at]
           c == run[r].cleanups
           d == Registered(r, x, ok)
<1>1. /\ c \in Seq(ToSet(Steps)) /\ run[r].at \in 1 .. 12 /\ x \in ToSet(Steps)
      /\ x = "md" <=> run[r].at = 12
      /\ x \notin {"set", "machine", "vm"} /\ Len(Steps) = 12
  BY Record, StepNames, LastStep
<1>2. /\ run'[r].cleanups = d /\ run'[r].failed = ~ok
      /\ run'[r].pc = IF ~ok THEN "cleanup" ELSE IF x = "mcm" THEN "ready"
                      ELSE IF run[r].at = 12 THEN "verify" ELSE "setup"
      /\ run[r].at = 12 => run'[r].at = 1
      /\ run'[r].sawNone = run[r].sawNone /\ run'[r].gaveUp = run[r].gaveUp
  <2> DEFINE last == run[r].at = Len(Steps)
             deadline == IF last THEN Lesser(run[r].deadline, run[r].age + Verification)
                                 ELSE run[r].deadline
             until == WaitEnd(run[r].age, deadline)
             pc == IF ~ok THEN "cleanup" ELSE IF x = "mcm" THEN "ready"
                   ELSE IF last THEN "verify" ELSE "setup"
             at == IF last THEN 1 ELSE IF x = "mcm" \/ ~ok THEN run[r].at
                   ELSE run[r].at + 1
             q == [run[r] EXCEPT !.cleanups = d, !.pc = pc, !.at = at, !.failed = ~ok,
                                 !.deadline = deadline, !.until = until]
  <2>1. run'[r] = q
    BY Record DEF StepOver
  <2>2. (last <=> run[r].at = 12) /\ (last => at = 1)
    BY <1>1
  <2>3. pc = IF ~ok THEN "cleanup" ELSE IF x = "mcm" THEN "ready"
             ELSE IF run[r].at = 12 THEN "verify" ELSE "setup"
    BY <2>2
  <2> HIDE DEF d, last, deadline, until, pc, at
  <2>4. /\ q.cleanups = d /\ q.failed = ~ok /\ q.pc = pc /\ q.at = at
        /\ q.sawNone = run[r].sawNone /\ q.gaveUp = run[r].gaveUp
    BY Record DEF RunState
  <2> HIDE DEF q
  <2> QED BY <2>1, <2>2, <2>3, <2>4
<1>3. /\ ~Holds(r, "md") /\ ~run[r].sawNone /\ ~run[r].gaveUp
      /\ creator["md"] # r /\ Chain \cap objects = {}
      /\ "namespace" \notin terminating /\ terminating \subseteq objects
  BY SoloSetup
<1>4. /\ d # <<>> => "md" \notin ToSet(Tail(d))
      /\ x = "md" => "md" \in ToSet(d)
      /\ x # "md" => "md" \notin ToSet(d)
  <2>1. CASE d = c
    <3>1. c # <<>> => "md" \notin ToSet(Tail(c))
      BY <1>1, <1>3, Popped DEF Holds
    <3>2. x # "md"
      <4>1. ASSUME x = "md" PROVE FALSE
        <5>1. d = <<x>> \o c
          BY <4>1 DEF Registered, Register
        <5>2. ToSet(<<x>> \o c) = {x} \cup ToSet(c)
          BY <1>1, Pushed
        <5> QED BY <1>3, <2>1, <4>1, <5>1, <5>2 DEF Holds
      <4> QED BY <4>1
    <3> QED BY <1>3, <2>1, <3>1, <3>2 DEF Holds
  <2>2. CASE d = <<x>> \o c
    <3>1. ToSet(<<x>> \o c) = {x} \cup ToSet(c) /\ Tail(<<x>> \o c) = c
      <4>1. Tail(<<x>> \o c) = c
        BY <1>1
      <4> QED BY <1>1, <4>1, Pushed
    <3> HIDE DEF d, x, c
    <3> QED BY <1>3, <2>2, <3>1 DEF Holds, c
  <2> QED BY <2>1, <2>2 DEF Registered, Register
<1>5. /\ objects' \subseteq objects \cup {x} /\ terminating' = terminating
      /\ creator' = creator \/ (creator'["md"] = creator["md"] /\ x # "md")
           \/ (creator'["md"] = r /\ x = "md")
      /\ x = "md" /\ "md" \in objects' => creator'["md"] = r
      /\ x = "md" /\ ok => creator'["md"] = r
  <2>1. CASE Store(r, x) /\ x \in Created
    <3>1. creator \in [Created -> Run \cup {NoRun}]
      BY ClusterFacts DEF ClusterInv
    <3> QED BY <2>1, <3>1, StepSet DEF Store
  <2>2. CASE UNCHANGED cluster /\ (ok => x # "md")
    <3>1. "md" \notin objects
      BY <1>3 DEF Chain
    <3> QED BY <2>2, <3>1 DEF cluster
  <2> QED BY <2>1, <2>2
<1> HIDE DEF d, x, c
<1>6. {"set", "machine", "vm"} \cap objects' = {} /\ (x # "md" => "md" \notin objects')
  BY <1>1, <1>3, <1>5 DEF Chain
<1>7. Holds(r, "md")' <=> x = "md"
  BY <1>2, <1>4 DEF Holds, ToSet
<1>8. run'[r].pc \in {"setup", "ready", "verify", "cleanup"}
      /\ (run'[r].pc \in {"setup", "ready"} => x # "md")
      /\ (run'[r].pc = "verify" \/ ~run'[r].failed => ok)
      /\ (run'[r].pc = "verify" => x = "md" /\ run'[r].at = 1)
      /\ (run'[r].pc = "cleanup" => run'[r].failed)
  BY <1>1, <1>2
<1>9. ChainHeld'
  BY <1>6, ChainNames DEF ChainHeld
<1>10. OnTop(r)'
  BY <1>2, <1>4, <1>7, <1>8 DEF OnTop, ToSet
<1>11. Concluded(r)'
  BY <1>2, <1>3, <1>5, <1>6, <1>7, <1>8 DEF Concluded
<1>12. Served(r)'
  BY <1>2, <1>3, <1>5, <1>6 DEF Served
<1>13. Passing(r)'
  <2>1. {"set", "machine"} \cap terminating' = {}
    BY <1>3, <1>5 DEF Chain
  <2> QED BY <1>5, <1>8, <2>1 DEF Passing, Past, Passes
<1> QED BY <1>9, <1>10, <1>11, <1>12, <1>13 DEF SoloInv

LEMMA SoloBootstrap ==
  ASSUME IInv, NEW r \in Run, SoloInv(r), bootstrap(r)
  PROVE  SoloInv(r)'
<1> DEFINE x == Steps[run[r].at]
<1>1. /\ run[r].pc = "setup" /\ x # "md" /\ UNCHANGED <<cluster, late>>
      /\ \E ok \in BOOLEAN : StepOver(r, x, ok)
  BY DEF bootstrap
<1>2. PICK ok \in BOOLEAN : StepOver(r, x, ok)
  BY <1>1
<1> QED BY <1>1, <1>2, SoloOverStep

LEMMA SoloCreate ==
  ASSUME IInv, NEW r \in Run, SoloInv(r), create(r)
  PROVE  SoloInv(r)'
<1> DEFINE x == Steps[run[r].at]
<1>1. run[r].pc = "setup" /\ x \in Created /\ UNCHANGED late
  BY DEF create
<1>2. CASE Store(r, x)
  <2>1. PICK ok \in BOOLEAN : StepOver(r, x, ok)
    BY DEF create
  <2> QED BY <1>1, <1>2, <2>1, SoloOverStep
<1>3. CASE UNCHANGED cluster /\ StepOver(r, x, FALSE)
  BY <1>1, <1>3, SoloOverStep
<1> QED BY <1>2, <1>3 DEF create

LEMMA SoloDeleteMDs ==
  ASSUME IInv, NEW r \in Run, SoloInv(r), deleteMDs(r)
  PROVE  SoloInv(r)'
<1> USE DEF SoloInv
<1>1. /\ run[r].pc = "listed" /\ run'[r].pc = "machines" /\ UNCHANGED late
      /\ run'[r].cleanups = run[r].cleanups /\ run'[r].sawNone = run[r].sawNone
      /\ run'[r].gaveUp = run[r].gaveUp /\ run'[r].failed = run[r].failed
  BY Record DEF deleteMDs, RunState
<1>2. CASE UNCHANGED cluster
  BY <1>1, <1>2, SoloQuiet DEF Past, Passes
<1>3. CASE Delete({"md"} \cap objects)
  <2>1. /\ objects' \subseteq objects /\ objects \subseteq objects' \cup {"md"}
        /\ terminating \subseteq terminating' /\ terminating' \subseteq terminating \cup {"md"}
        /\ UNCHANGED <<finalizers, creator>>
    BY <1>3 DEF Delete
  <2>2. (Holds(r, "md")' <=> Holds(r, "md")) /\ ChainHeld'
    BY <1>1, <2>1 DEF Holds, ToSet, ChainHeld
  <2>3. OnTop(r)' /\ Concluded(r)'
    BY <1>1, <2>1, <2>2 DEF OnTop, Concluded, ToSet
  <2>4. MCMWorks => MCMWorks'
    BY <2>1 DEF MCMWorks, RBAC
  <2>5. Served(r)'
    BY <1>1, <2>1, <2>2, <2>4 DEF Served
  <2>6. (Stopped => Stopped') /\ (Past(r)' => Past(r)) /\ (Passes(r)' => Passes(r))
    BY <1>1, <2>1 DEF Stopped, Past, Passes
  <2>7. Passing(r)'
    BY <1>1, <2>1, <2>6 DEF Passing
  <2> QED BY <2>2, <2>3, <2>5, <2>7
<1> QED BY <1>2, <1>3 DEF deleteMDs

\* The run sees no Machine, or gives up.
LEMMA SoloMachines ==
  ASSUME IInv, NEW r \in Run, SoloInv(r), machinesGone(r)
  PROVE  SoloInv(r)'
<1> USE DEF SoloInv
<1>1. run[r].pc = "machines" /\ UNCHANGED <<objects, terminating, finalizers, creator, late>>
  BY DEF machinesGone, cluster
<1>2. /\ run'[r].pc = "vms" /\ run'[r].cleanups = run[r].cleanups
      /\ \/ /\ "machine" \notin objects /\ run'[r].sawNone
            /\ run'[r].gaveUp = run[r].gaveUp /\ run'[r].failed = run[r].failed
         \/ run'[r].sawNone = run[r].sawNone /\ run'[r].gaveUp /\ run'[r].failed
  <2>1. CASE NoMachines /\ run' = [run EXCEPT ![r].pc = "vms", ![r].sawNone = TRUE]
    BY <2>1, Record DEF NoMachines, RunState
  <2>2. CASE GivesUp(r)
    BY <2>2, Record DEF GivesUp, RunState
  <2> QED BY <2>1, <2>2 DEF machinesGone
<1>3. /\ Holds(r, "md")' <=> Holds(r, "md")
      /\ ChainHeld' /\ (Stopped' <=> Stopped) /\ (MCMWorks' <=> MCMWorks)
  BY <1>1, <1>2 DEF Holds, ToSet, ChainHeld, Stopped, MCMWorks
<1>4. OnTop(r)' /\ Concluded(r)'
  BY <1>1, <1>2, <1>3 DEF OnTop, Concluded, ToSet
<1>5. Served(r)'
  BY <1>1, <1>2, <1>3 DEF Served
<1>6. (Passes(r)' => Passes(r)) /\ (Past(r)' => Past(r) /\ Passes(r)')
  BY <1>1, <1>2 DEF Past, Passes
<1>7. Passing(r)'
  BY <1>1, <1>2, <1>3, <1>6 DEF Passing, Passes
<1> QED BY <1>3, <1>4, <1>5, <1>7

\* The cleanup of the MachineDeployment is over.
LEMMA SoloVMs ==
  ASSUME IInv, NEW r \in Run, SoloInv(r), vmsGone(r)
  PROVE  SoloInv(r)'
<1> USE DEF SoloInv
<1> DEFINE over == [run[r] EXCEPT !.pc = "cleanup", !.cleanups = Tail(@)]
<1>1. /\ run[r].pc = "vms" /\ run'[r].pc = "cleanup"
      /\ UNCHANGED <<objects, terminating, finalizers, creator, late>>
      /\ run'[r].cleanups = Tail(run[r].cleanups)
      /\ run'[r].sawNone = run[r].sawNone /\ run'[r].gaveUp = run[r].gaveUp
      /\ run[r].failed => run'[r].failed
  <2>1. run[r].pc = "vms" /\ UNCHANGED <<objects, terminating, finalizers, creator, late>>
    BY DEF vmsGone, cluster
  <2>2. CASE run' = [run EXCEPT ![r] = over]
    BY <2>1, <2>2, Record DEF RunState
  <2>3. CASE run' = [run EXCEPT ![r] = [over EXCEPT !.failed = TRUE]]
    BY <2>1, <2>3, Record DEF RunState
  <2> QED BY <2>2, <2>3 DEF vmsGone
<1> HIDE DEF over
<1>2. run[r].cleanups # <<>> /\ "md" \notin ToSet(Tail(run[r].cleanups))
  BY <1>1, Record DEF RunInv, Placed, OnTop
<1>3. ChainHeld' /\ (Stopped' <=> Stopped) /\ (MCMWorks' <=> MCMWorks)
  BY <1>1 DEF ChainHeld, Stopped, MCMWorks
<1>4. OnTop(r)'
  <2>1. /\ Tail(run[r].cleanups) \in Seq(ToSet(Steps))
        /\ Tail(run[r].cleanups) # <<>> => "md" \notin ToSet(Tail(Tail(run[r].cleanups)))
    <3>1. Tail(run[r].cleanups) \in Seq(ToSet(Steps))
      BY <1>2, Record, Popped
    <3> QED BY <1>2, <3>1, Popped
  <2> QED BY <1>1, <2>1 DEF OnTop, ToSet
<1>5. Concluded(r)'
  BY <1>1 DEF Concluded
<1>6. Served(r)'
  BY <1>1, <1>3 DEF Served
<1>7. Passing(r)'
  BY <1>1, <1>3 DEF Passing, Past, Passes
<1> QED BY <1>3, <1>4, <1>5, <1>6, <1>7

\* The namespace goes under a run that does not fail only when no Machine will
\* be made any more.
LEMMA NamespaceStops ==
  ASSUME NEW r \in Run, SoloInv(r), Past(r), "namespace" \in terminating
  PROVE  Stopped
BY DEF SoloInv, Served, Passing, Past, Passes

\* A step of the cluster that makes nothing.
LEMMA SoloShrinks ==
  ASSUME IInv, NEW r \in Run, SoloInv(r), UNCHANGED <<run, late, creator>>,
         objects' \subseteq objects, ChainHeld', Stopped => Stopped',
         "machine" \in objects' /\ MCMWorks /\ "namespace" \notin terminating => MCMWorks',
         "namespace" \in terminating' => "namespace" \in terminating,
         "namespace" \notin terminating' /\ {"set", "machine"} \cap terminating' # {}
           => Stopped',
         Past(r) => "machine" \in objects' \ terminating' \/ Stopped'
  PROVE  SoloInv(r)'
<1> USE DEF SoloInv
<1>1. OnTop(r)' /\ (Holds(r, "md")' <=> Holds(r, "md"))
  BY DEF OnTop, Holds, ToSet
<1>2. Concluded(r)'
  BY <1>1 DEF Concluded
<1>3. Served(r)'
  BY <1>1 DEF Served
<1>4. Passing(r)'
  BY DEF Passing, Past, Passes
<1> QED BY <1>1, <1>2, <1>3, <1>4

\* What the controller needs is not of the chain.
LEMMA Controllers ==
  /\ MCMWorks <=> RBAC \cup {"namespace", "mcm"} \subseteq objects
  /\ (RBAC \cup {"namespace", "mcm"}) \cap (Chain \cup {"class", "secret"}) = {}
  /\ {"md", "set", "machine"} \subseteq Namespaced /\ "namespace" \notin Namespaced
  /\ "vm" \notin Namespaced
<1>1. "namespace" \notin Namespaced /\ "vm" \notin Namespaced
  BY DEF Namespaced
<1>2. {"md", "set", "machine"} \subseteq Namespaced
  BY StepSet DEF Namespaced, Object
<1> QED BY <1>1, <1>2 DEF MCMWorks, RBAC, Chain

\* The garbage collector, or the controller, goes on with the deletion.
LEMMA SoloCascade ==
  ASSUME IInv, NEW r \in Run, SoloInv(r), NEW x \in DOMAIN Parent, Cascade(x)
  PROVE  SoloInv(r)'
<1> USE DEF SoloInv
<1>1. /\ x \in {"set", "machine", "vm"} /\ x \in objects \ terminating
      /\ Delete({x}) /\ UNCHANGED <<run, late, creator>>
  BY ChainNames DEF Cascade, Delete
<1>2. Parent[x] \in terminating
  <2>1. Parent[x] \in objects
    BY <1>1, ChainNames, Links
  <2> QED BY <1>1, <2>1 DEF Cascade
<1>3. /\ objects' \subseteq objects /\ objects \ {x} \subseteq objects'
      /\ terminating \subseteq terminating' /\ terminating' \subseteq terminating \cup {x}
      /\ x \notin objects' \ terminating' /\ finalizers' = finalizers
  BY <1>1 DEF Delete
<1>4. ChainHeld' /\ (Stopped => Stopped')
  BY <1>3 DEF ChainHeld, Stopped
<1>5. MCMWorks => MCMWorks'
  <2>1. x \notin RBAC \cup {"namespace", "mcm"}
    BY <1>1, Controllers DEF Chain
  <2> QED BY <1>3, <2>1 DEF MCMWorks
<1>6. x \in {"set", "machine"} /\ "namespace" \notin terminating => Stopped'
  <2>1. CASE x = "set"
    BY <1>2, <1>3, <2>1, ChainNames DEF Stopped
  <2>2. CASE x = "machine"
    BY <1>2, <1>4, <2>2, ChainNames DEF Passing
  <2> QED BY <2>1, <2>2
<1>7. x # "vm" /\ Past(r) => Stopped'
  BY <1>1, <1>4, <1>6, NamespaceStops
<1>8. {"set", "machine"} \cap terminating # {} /\ "namespace" \notin terminating => Stopped
  BY DEF Passing
<1>9. Past(r) => "machine" \in objects \ terminating \/ Stopped
  BY DEF Passing
<1> QED BY <1>1, <1>3, <1>4, <1>5, <1>6, <1>7, <1>8, <1>9, SoloShrinks

\* A finalizer goes, and with it what waited for that.
LEMMA SoloRelease ==
  ASSUME IInv, NEW r \in Run, SoloInv(r),
         NEW x \in {"md", "set", "machine", "class", "secret"}, Release(x)
  PROVE  SoloInv(r)'
<1> USE DEF SoloInv
<1>1. /\ UNCHANGED <<run, late, creator>> /\ finalizers' = finalizers \ {x}
      /\ objects' = objects \ ({x} \cap terminating) /\ terminating' = terminating \ {x}
      /\ MCMWorks
  BY DEF Release
<1>2. /\ x \in DOMAIN Child => x \in terminating /\ Child[x] \notin objects
      /\ x \notin DOMAIN Child => x \in {"class", "secret"}
  BY ChainNames DEF Release
<1>3. ChainHeld'
  BY <1>1, <1>2, ChainNames DEF ChainHeld
<1>4. Stopped => Stopped'
  BY <1>1, <1>2, ChainNames DEF Stopped
<1>5. MCMWorks'
  <2>1. x \notin RBAC \cup {"namespace", "mcm"}
    BY Controllers DEF Chain
  <2> QED BY <1>1, <2>1 DEF MCMWorks
<1>6. Past(r) => "machine" \in objects' \ terminating' \/ Stopped'
  BY <1>1, <1>4 DEF Passing
<1>7. "namespace" \notin terminating' /\ {"set", "machine"} \cap terminating' # {} => Stopped'
  BY <1>1, <1>4 DEF Passing
<1> QED BY <1>1, <1>3, <1>4, <1>5, <1>6, <1>7, SoloShrinks

\* The namespace empties, and goes.
LEMMA SoloNamespace ==
  ASSUME IInv, NEW r \in Run, SoloInv(r), Empties \/ NamespaceGone
  PROVE  SoloInv(r)'
<1> USE DEF SoloInv
<1>1. "namespace" \in terminating /\ UNCHANGED <<run, late, creator>>
  BY DEF Empties, NamespaceGone, Delete
<1>2. Past(r) => Stopped
  BY <1>1, NamespaceStops
<1>3. CASE Empties
  <2>1. PICK x \in Namespaced \cap (objects \ terminating) : Delete({x})
    BY <1>3 DEF Empties
  <2>2. /\ objects' \subseteq objects /\ finalizers' = finalizers
        /\ terminating \subseteq terminating' /\ terminating' \subseteq terminating \cup {x}
    BY <2>1 DEF Delete
  <2>3. ChainHeld' /\ (Stopped => Stopped')
    BY <2>2 DEF ChainHeld, Stopped
  <2>4. "namespace" \in terminating'
    BY <1>1, <2>2
  <2> QED BY <1>1, <1>2, <2>2, <2>3, <2>4, SoloShrinks
<1>4. CASE NamespaceGone
  <2>1. /\ Namespaced \cap objects = {} /\ objects' = objects \ {"namespace"}
        /\ terminating' = terminating \ {"namespace"}
    BY <1>4 DEF NamespaceGone
  <2>2. {"md", "set", "machine", "vm"} \cap objects' = {} /\ terminating' \subseteq objects'
    BY <2>1, Controllers, Links
  <2>3. ChainHeld' /\ Stopped' /\ {"set", "machine"} \cap terminating' = {}
    BY <2>2, ChainNames DEF ChainHeld, Stopped
  <2> QED BY <1>1, <2>1, <2>2, <2>3, SoloShrinks
<1> QED BY <1>3, <1>4

\* The manager makes a MachineSet, a Machine, a VM.
LEMMA SoloMake ==
  ASSUME IInv, NEW r \in Run, SoloInv(r), NEW x \in DOMAIN Parent, Make(x)
  PROVE  SoloInv(r)'
<1> USE DEF SoloInv
<1> DEFINE p == Parent[x]
<1>1. /\ x \in {"set", "machine", "vm"} /\ p \in objects \ terminating /\ x \notin objects
      /\ objects' = objects \cup {x} /\ UNCHANGED <<terminating, creator, run>>
      /\ MCMWorks /\ (x # "vm" => "namespace" \notin terminating)
  BY ChainNames, Controllers DEF Make, Drives
<1>2. terminating \subseteq objects /\ finalizers \subseteq objects
  BY ClusterFacts DEF ClusterInv
<1>3. finalizers \cup {p} \subseteq finalizers'
  <2> DEFINE others == ({x} \cap Namespaced)
                         \cup (IF x = "machine" THEN {"class", "secret"} ELSE {})
  <2>1. finalizers' = (finalizers \cup {p} \cup others) \cap objects'
    BY DEF Make
  <2> HIDE DEF others, p
  <2> QED BY <1>1, <1>2, <2>1
<1>4. ChainHeld'
  BY <1>1, <1>3 DEF ChainHeld
<1>5. x # "vm" => ~Stopped
  BY <1>1, ChainNames DEF Stopped
<1>6. (late => late') /\ (x = "machine" /\ run[r].sawNone => late') /\ (x # "machine" => late' = late)
  <2>1. x = "machine" => creator["md"] = r
    BY <1>1, ChainNames, Links DEF Concluded
  <2>2. late' = (late \/ (x = "machine" /\ \E q \in Run : creator["md"] = q /\ run[q].sawNone))
    BY DEF Make
  <2>3. late \in BOOLEAN
    BY ClusterFacts
  <2> QED BY <2>1, <2>2, <2>3
<1>7. OnTop(r)' /\ (Holds(r, "md")' <=> Holds(r, "md"))
  BY <1>1 DEF OnTop, Holds, ToSet
<1>8. Concluded(r)'
  BY <1>1, <1>7 DEF Concluded
<1>9. MCMWorks'
  BY <1>1 DEF MCMWorks
<1>10. Served(r)'
  BY <1>1, <1>5, <1>6, <1>7, <1>9 DEF Served
<1>11. Passing(r)'
  <2>1. (Past(r)' <=> Past(r)) /\ (Passes(r)' <=> Passes(r))
    BY <1>1 DEF Past, Passes
  <2>2. CASE x = "vm"
    BY <1>1, <2>1, <2>2 DEF Passing, Stopped
  <2>3. CASE x # "vm"
    <3>1. {"set", "machine"} \cap terminating = {} /\ ~(Past(r) /\ run[r].sawNone)
      BY <1>1, <1>5, <2>3 DEF Passing
    <3>2. Past(r) => "machine" \in objects' \ terminating'
      BY <1>1, <1>5, <2>3 DEF Passing
    <3> QED BY <1>1, <2>1, <3>1, <3>2 DEF Passing
  <2> QED BY <2>2, <2>3
<1> QED BY <1>4, <1>7, <1>8, <1>10, <1>11

LEMMA SoloInit ==
  ASSUME NEW r \in Run, Init
  PROVE  SoloInv(r)
<1>1. /\ run[r].pc = "idle" /\ run[r].cleanups = <<>> /\ ~run[r].sawNone /\ ~run[r].gaveUp
      /\ objects = {} /\ terminating = {} /\ creator["md"] = NoRun
  BY StepSet DEF Init
<1>2. ~Holds(r, "md")
  BY <1>1, EmptyStack DEF Holds
<1>3. creator["md"] # r
  BY <1>1, PresubmitAssumption
<1> QED BY <1>1, <1>2, <1>3 DEF SoloInv, ChainHeld, OnTop, Concluded, Served, Passing, Past,
                          Passes, Stopped

LEMMA SoloNext ==
  ASSUME IInv, NEW r \in Run, Run = {r}, SoloInv(r), [Next]_vars
  PROVE  SoloInv(r)'
<1>1. ASSUME \/ Start(r) \/ bootstrap(r) \/ create(r) \/ mcmReady(r) \/ verify(r)
             \/ deleteObject(r) \/ deleteSecret(r) \/ deleteNamespace(r) \/ listVMs(r)
             \/ deleteMDs(r) \/ machinesGone(r) \/ vmsGone(r) \/ cleanupGDCloud(r)
             \/ testOver(r) \/ Kill(r) \/ Tick(r)
      PROVE  SoloInv(r)'
  BY <1>1, SoloStart, SoloBootstrap, SoloCreate, SoloReady, SoloVerify, SoloDeleteObject,
     SoloDeleteSecret, SoloDeleteNamespace, SoloList, SoloDeleteMDs, SoloMachines, SoloVMs,
     SoloGDCloud, SoloOver, SoloTick
<1>2. ASSUME NEW x \in DOMAIN Parent, Make(x) \/ Cascade(x) PROVE SoloInv(r)'
  BY <1>2, SoloMake, SoloCascade
<1>3. ASSUME NEW x \in {"md", "set", "machine", "class", "secret"}, Release(x)
      PROVE  SoloInv(r)'
  BY <1>3, SoloRelease
<1>4. ASSUME Empties \/ NamespaceGone PROVE SoloInv(r)'
  BY <1>4, SoloNamespace
<1>5. CASE UNCHANGED vars
  BY <1>5 DEF vars, SoloInv, ChainHeld, OnTop, Concluded, Served, Passing, Past, Passes,
              Stopped, Holds, ToSet, MCMWorks
<1> QED BY <1>1, <1>2, <1>3, <1>4, <1>5 DEF Next

LEMMA SoloHolds ==
  ASSUME NEW r \in Run, Run = {r}
  PROVE  Spec => [](IInv /\ SoloInv(r))
<1>1. Init => IInv /\ SoloInv(r)
  BY InitIInv, SoloInit
<1>2. IInv /\ SoloInv(r) /\ [Next]_vars => (IInv /\ SoloInv(r))'
  BY NextIInv, SoloNext
<1> QED BY <1>1, <1>2, PTL DEF Spec

\* The cleanups of a run that has the cluster to itself take the machine
\* controller manager from a Machine only after the run gave up on it, unless
\* the Machine came when none was left (the order of the cleanups of
\* setupRBAC, deployMCM and triggerProvisioning, last in, first out).
THEOREM ControllerStaysForOne ==
  ASSUME NEW r \in Run, Run = {r}
  PROVE  Spec => []ControllerStays
<1>1. SoloInv(r) => ControllerStays
  BY DEF SoloInv, Served, ControllerStays
<1> QED BY <1>1, SoloHolds, PTL

\* A run that has the cluster to itself, and passes, leaves neither a Machine
\* nor a VM: it has seen the Machine that it waited for, and no other can be
\* made when that one is gone (verifyProvisioning and the cleanup of
\* triggerProvisioning).
THEOREM PassLeavesNoMachineForOne ==
  ASSUME NEW r \in Run, Run = {r}
  PROVE  Spec => []PassLeavesNoMachine
<1>1. ASSUME IInv, SoloInv(r) PROVE PassLeavesNoMachine
  <2>1. SUFFICES ASSUME run[r].pc = "done", ~run[r].failed
                 PROVE  {"machine", "vm"} \cap objects = {}
    BY DEF PassLeavesNoMachine
  <2>2. Past(r) /\ creator["md"] = r /\ ~run[r].gaveUp
    BY <1>1, <2>1 DEF SoloInv, Passing, Past, Passes, Concluded
  <2>3. ~Holds(r, "md")
    BY <1>1, <2>1, EmptyStack DEF SoloInv, Concluded, Holds
  <2>4. "machine" \notin objects
    BY <1>1, <2>1, <2>2, <2>3 DEF SoloInv, Concluded, Passing
  <2> QED BY <1>1, <2>4, Links DEF SoloInv
<1> QED BY <1>1, SoloHolds, PTL
================================================================================




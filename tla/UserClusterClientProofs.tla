------------------------ MODULE UserClusterClientProofs ------------------------
(***************************************************************************)
(* Proofs about UserClusterClient, for every number of users, processes and*)
(* clusters.                                                               *)
(*                                                                         *)
(* The argument: a command writes the kubeconfig of a cluster that some    *)
(* user of its own process asked for.  The file of a user that is apart is *)
(* therefore written by that user only, and follows its steps.             *)
(***************************************************************************)
EXTENDS UserClusterClient, TLAPS

\* Whose directory exists.
Dirs ==
  \A u \in User :
    /\ user[u].pc \in {"new", "done"} => u \notin configDirs
    /\ user[u].pc \notin {"new", "done", "killed"} => u \in configDirs

\* KUBECONFIG is what some user of the process has set it to.
SetBy(c, p) == \E w \in User : process[w] = p /\ c = cluster[w]

Environment ==
  /\ \A p \in Process : KUBECONFIG[p] # NoCluster => SetBy(KUBECONFIG[p], p)
  /\ \A u \in User :
       /\ user[u].pc = "exec" => KUBECONFIG[process[u]] # NoCluster
       /\ user[u].pc = "gdcloud" => SetBy(user[u].target, process[u])

Apart(u) == AloneInProcess(u) /\ AloneOnCluster(u)

\* How far the file and the memory of a user that is apart have come.
OwnSteps ==
  \A u \in User : Apart(u) =>
    /\ user[u].pc = "load" =>
         kubeconfig[cluster[u]] = Credentials(cluster[u], NoUser)
    /\ user[u].pc \in {"truncate", "write"} =>
         user[u].read = Credentials(cluster[u], NoUser)
    /\ user[u].pc = "build" => kubeconfig[cluster[u]] = Credentials(cluster[u], u)
    /\ user[u].pc = "using" => user[u].read = Credentials(cluster[u], u)

IInv == TypeOK /\ Dirs /\ Environment /\ OwnSteps

\* When nobody shares a process, no file and no memory holds the credentials
\* of another cluster.
OwnClusters ==
  (\A u \in User : AloneInProcess(u)) =>
    /\ \A c \in Cluster : kubeconfig[c].cluster \in {c, NoCluster}
    /\ \A u \in User : user[u].read.cluster \in {cluster[u], NoCluster}
    /\ \A u \in User : user[u].pc = "using" => user[u].read.cluster # NoCluster

-----------------------------------------------------------------------------
\* The kubeconfigs of the model are kubeconfigs.
LEMMA KubeconfigType ==
  /\ Absent \in Kubeconfig /\ Empty \in Kubeconfig
  /\ \A c \in Cluster, u \in User \cup {NoUser} : Credentials(c, u) \in Kubeconfig
BY DEF Absent, Empty, Credentials, Kubeconfig

\* What is written back is a kubeconfig.
LEMMA InjectedType ==
  ASSUME TypeOK, NEW u \in User
  PROVE  Injected(u) \in Kubeconfig
<1>1. user[u].read \in Kubeconfig
  BY DEF TypeOK, UserState
<1> QED
  BY <1>1 DEF Injected, Kubeconfig, Credentials

\* A user that goes on is still a user.
LEMMA GoesType ==
  ASSUME TypeOK, NEW u \in User, NEW from, NEW to \in PC, Goes(u, from, to)
  PROVE  user' \in [User -> UserState]
<1>1. \A r \in UserState : [r EXCEPT !.pc = to] \in UserState
  BY DEF UserState
<1> QED
  BY <1>1 DEF TypeOK, Goes

\* The other changes of a user.
LEMMA UserType ==
  ASSUME TypeOK, NEW u \in User
  PROVE  /\ Configure(u) => user' \in [User -> UserState]
         /\ Exec(u) => user' \in [User -> UserState]
         /\ LoadFromFile(u) \/ BuildConfig(u) => user' \in [User -> UserState]
<1>1. ASSUME NEW r \in UserState, r.commands \in 0 .. 2
      PROVE  [r EXCEPT !.commands = @ + 1] \in UserState
  <2>1. r.commands + 1 \in 0 .. 3
    BY <1>1
  <2> QED
    BY <2>1 DEF UserState
<1>2. ASSUME NEW c \in Cluster \cup {NoCluster}, NEW r \in UserState
      PROVE  [r EXCEPT !.pc = "gdcloud", !.target = c] \in UserState
  BY DEF UserState, PC
<1>3. \A f \in Kubeconfig, to \in PC, r \in UserState :
        [r EXCEPT !.pc = to, !.read = f] \in UserState
  BY DEF UserState
<1>4. user[u] \in UserState /\ user[u].commands \in 0 .. 3
  BY DEF TypeOK, UserState
<1>5. process[u] \in Process /\ KUBECONFIG[process[u]] \in Cluster \cup {NoCluster}
  BY DEF TypeOK
<1>6. kubeconfig[cluster[u]] \in Kubeconfig
  BY DEF TypeOK
<1>7. Configure(u) => user' \in [User -> UserState]
  <2>1. ASSUME Configure(u) PROVE user[u].commands \in 0 .. 2
    BY <2>1, <1>4 DEF Configure, CommandLeft
  <2>2. ASSUME Configure(u)
        PROVE  [user[u] EXCEPT !.commands = @ + 1] \in UserState
    BY <1>1, <1>4, <2>1, <2>2
  <2> QED
    BY <2>2 DEF Configure, TypeOK
<1>8. Exec(u) => user' \in [User -> UserState]
  <2>1. [user[u] EXCEPT !.pc = "gdcloud", !.target = KUBECONFIG[process[u]]] \in UserState
    BY <1>2, <1>4, <1>5
  <2> QED
    BY <2>1 DEF Exec, TypeOK
<1>9. LoadFromFile(u) \/ BuildConfig(u) => user' \in [User -> UserState]
  <2>1. /\ [user[u] EXCEPT !.pc = "truncate", !.read = kubeconfig[cluster[u]]] \in UserState
        /\ [user[u] EXCEPT !.pc = "using", !.read = kubeconfig[cluster[u]]] \in UserState
    BY <1>3, <1>4, <1>6 DEF PC
  <2> QED
    BY <2>1 DEF LoadFromFile, BuildConfig, kubeconfigPath, TypeOK
<1> QED
  BY <1>7, <1>8, <1>9

\* A step of a user or a process keeps the types.
LEMMA TypeStep == TypeOK /\ [Next]_vars => TypeOK'
<1> SUFFICES ASSUME TypeOK, [Next]_vars PROVE TypeOK'
  OBVIOUS
<1> USE DEF placement
<1>1. ASSUME NEW u \in User, MkdirTemp(u) PROVE TypeOK'
  <2>1. user' \in [User -> UserState]
    BY <1>1, GoesType DEF MkdirTemp, PC
  <2> QED
    BY <1>1, <2>1 DEF MkdirTemp, TypeOK
<1>2. ASSUME NEW u \in User, Configure(u) \/ Exec(u) PROVE TypeOK'
  <2>1. user' \in [User -> UserState]
    BY <1>2, UserType
  <2> QED
    BY <1>2, <2>1 DEF Configure, Exec, TypeOK
<1>3. ASSUME NEW u \in User, ConfigureFails(u) \/ Cleanup(u) PROVE TypeOK'
  <2>1. user' \in [User -> UserState]
    BY <1>3, GoesType DEF ConfigureFails, Cleanup, PC
  <2> QED
    BY <1>3, <2>1 DEF ConfigureFails, Cleanup, RemoveAll, TypeOK
<1>4. ASSUME NEW u \in User, Constructed(u) \/ Setenv(u) PROVE TypeOK'
  <2>1. user' \in [User -> UserState]
    BY <1>4, GoesType DEF Constructed, Setenv, PC
  <2> QED
    BY <1>4, <2>1 DEF Constructed, Setenv, kubeconfigPath, TypeOK
<1>5. ASSUME NEW u \in User, getCredentials(u) PROVE TypeOK'
  <2>1. Credentials(cluster[u], NoUser) \in Kubeconfig
    BY KubeconfigType DEF TypeOK
  <2>2. user' \in [User -> UserState]
    BY <1>5, GoesType DEF getCredentials, PC
  <2> QED
    BY <1>5, <2>1, <2>2 DEF getCredentials, TypeOK
<1>6. ASSUME NEW u \in User, LoadFromFile(u) \/ BuildConfig(u) PROVE TypeOK'
  <2>1. user' \in [User -> UserState]
    BY <1>6, UserType
  <2> QED
    BY <1>6, <2>1 DEF LoadFromFile, BuildConfig, TypeOK
<1>7. ASSUME NEW u \in User, Truncate(u) \/ WriteToFile(u) PROVE TypeOK'
  <2>1. user' \in [User -> UserState]
    BY <1>7, GoesType DEF Truncate, WriteToFile, PC
  <2> QED
    BY <1>7, <2>1, KubeconfigType, InjectedType
    DEF Truncate, WriteToFile, kubeconfigPath, TypeOK
<1>8. ASSUME NEW u \in User,
             getCredentialsFails(u) \/ injectFails(u) \/ BuildConfigFails(u)
      PROVE  TypeOK'
  <2> USE <1>8 DEF getCredentialsFails, injectFails, BuildConfigFails, Fails
  <2>1. user' \in [User -> UserState]
    BY GoesType DEF PC
  <2> QED
    BY <2>1 DEF TypeOK
<1>9. ASSUME NEW p \in Process, Kill(p) PROVE TypeOK'
  <2>1. \A r \in UserState : [r EXCEPT !.pc = "killed"] \in UserState
    BY DEF UserState, PC
  <2> QED
    BY <1>9, <2>1 DEF Kill, TypeOK
<1>10. CASE UNCHANGED vars
  BY <1>10 DEF vars, TypeOK
<1> QED
  BY <1>1, <1>2, <1>3, <1>4, <1>5, <1>6, <1>7, <1>8, <1>9, <1>10
  DEF Next, UserNext

\* Users start in the invariant.
LEMMA InitIInv == Init => IInv /\ OwnClusters
<1> SUFFICES ASSUME Init PROVE IInv /\ OwnClusters
  OBVIOUS
<1>1. TypeOK
  BY KubeconfigType DEF Init, TypeOK, UserState, PC
<1>2. Dirs /\ Environment /\ OwnSteps
  BY DEF Init, Dirs, Environment, OwnSteps
<1>3. OwnClusters
  BY DEF Init, OwnClusters, Absent
<1> QED
  BY <1>1, <1>2, <1>3 DEF IInv

\* A step keeps to whose directory exists.
LEMMA DirsStep == TypeOK /\ Dirs /\ [Next]_vars => Dirs'
<1> SUFFICES ASSUME TypeOK, Dirs, [Next]_vars PROVE Dirs'
  OBVIOUS
<1> USE DEF TypeOK, UserState, Dirs, Goes, placement
<1>1. ASSUME NEW u \in User, UserNext(u) PROVE Dirs'
  <2>1. CASE MkdirTemp(u)
    BY <2>1 DEF MkdirTemp
  <2>2. CASE ConfigureFails(u) \/ Cleanup(u)
    BY <2>2 DEF ConfigureFails, Cleanup, RemoveAll
  <2>3. CASE Configure(u) \/ Constructed(u) \/ Setenv(u) \/ Exec(u)
    BY <2>3 DEF Configure, Constructed, Setenv, Exec
  <2>4. CASE getCredentials(u) \/ LoadFromFile(u) \/ Truncate(u) \/ WriteToFile(u)
             \/ BuildConfig(u)
    BY <2>4 DEF getCredentials, LoadFromFile, Truncate, WriteToFile, BuildConfig
  <2>5. CASE getCredentialsFails(u) \/ injectFails(u) \/ BuildConfigFails(u)
    BY <2>5 DEF getCredentialsFails, injectFails, BuildConfigFails, Fails
  <2> QED
    BY <1>1, <2>1, <2>2, <2>3, <2>4, <2>5 DEF UserNext
<1>2. ASSUME NEW p \in Process, Kill(p) PROVE Dirs'
  BY <1>2 DEF Kill
<1>3. CASE UNCHANGED vars
  BY <1>3 DEF vars
<1> QED
  BY <1>1, <1>2, <1>3 DEF Next

\* A step keeps KUBECONFIG to what users of the process have set.
LEMMA EnvironmentStep == TypeOK /\ Environment /\ [Next]_vars => Environment'
<1> SUFFICES ASSUME TypeOK, Environment, [Next]_vars PROVE Environment'
  OBVIOUS
<1> USE DEF Environment, Goes, placement
<1>1. ASSUME NEW u \in User, Setenv(u) PROVE Environment'
  <2>1. cluster[u] # NoCluster /\ SetBy(cluster[u], process[u])'
    BY <1>1, NoneAssumption DEF TypeOK, SetBy, Setenv
  <2>2. \A c, p : SetBy(c, p) => SetBy(c, p)'
    BY <1>1 DEF Setenv, SetBy
  <2> QED
    BY <1>1, <2>1, <2>2 DEF Setenv, kubeconfigPath, TypeOK
<1>2. ASSUME NEW u \in User, Exec(u) PROVE Environment'
  <2>1. process[u] \in Process
    BY DEF TypeOK
  <2>2. SetBy(user'[u].target, process[u])
    BY <1>2, <2>1 DEF Exec, TypeOK, UserState
  <2>3. user'[u].pc = "gdcloud" /\ \A v \in User \ {u} : user'[v] = user[v]
    BY <1>2 DEF Exec, TypeOK, UserState
  <2>4. \A c, p : SetBy(c, p)' <=> SetBy(c, p)
    BY <1>2 DEF Exec, SetBy
  <2> QED
    BY <1>2, <2>2, <2>3, <2>4 DEF Exec
<1>3. ASSUME UNCHANGED <<placement, KUBECONFIG>>,
             \A v \in User : /\ user'[v].pc = user[v].pc \/ user'[v].pc \notin {"exec", "gdcloud"}
                             /\ user'[v].target = user[v].target
      PROVE  Environment'
  BY <1>3 DEF SetBy
<1>4. ASSUME NEW u \in User, UserNext(u), ~Setenv(u), ~Exec(u)
      PROVE  /\ UNCHANGED <<placement, KUBECONFIG>>
             /\ \A v \in User :
                  /\ user'[v].pc = user[v].pc \/ user'[v].pc \notin {"exec", "gdcloud"}
                  /\ user'[v].target = user[v].target
  <2> USE DEF TypeOK, UserState
  <2>1. CASE MkdirTemp(u) \/ ConfigureFails(u) \/ Constructed(u) \/ Cleanup(u)
    BY <2>1 DEF MkdirTemp, ConfigureFails, Constructed, Cleanup
  <2>2. CASE Configure(u) \/ LoadFromFile(u) \/ BuildConfig(u)
    BY <2>2 DEF Configure, LoadFromFile, BuildConfig
  <2>3. CASE getCredentials(u) \/ Truncate(u) \/ WriteToFile(u)
    BY <2>3 DEF getCredentials, Truncate, WriteToFile
  <2>4. CASE getCredentialsFails(u) \/ injectFails(u) \/ BuildConfigFails(u)
    BY <2>4 DEF getCredentialsFails, injectFails, BuildConfigFails, Fails
  <2> QED
    BY <1>4, <2>1, <2>2, <2>3, <2>4 DEF UserNext
<1>5. ASSUME NEW p \in Process, Kill(p) PROVE Environment'
  BY <1>3, <1>5 DEF Kill, TypeOK, UserState
<1>6. CASE UNCHANGED vars
  BY <1>6 DEF vars, SetBy
<1> QED
  BY <1>1, <1>2, <1>3, <1>4, <1>5, <1>6 DEF Next

\* A user that is apart is the only one that writes its file.
LEMMA OwnFile ==
  ASSUME TypeOK, Environment, NEW u \in User, Apart(u), NEW v \in User \ {u}
  PROVE  /\ cluster[v] # cluster[u]
         /\ user[v].pc = "gdcloud" => user[v].target # cluster[u]
BY DEF Apart, AloneInProcess, AloneOnCluster, Environment, SetBy, TypeOK

\* The command of a user that is apart writes its file.
LEMMA OwnTarget ==
  ASSUME TypeOK, Environment, NEW u \in User, Apart(u), user[u].pc = "gdcloud"
  PROVE  user[u].target = cluster[u]
BY DEF Apart, AloneInProcess, Environment, SetBy, TypeOK

\* What others do leaves the file and the memory of u alone.
LEMMA OthersSpare ==
  ASSUME TypeOK, Environment, NEW u \in User, Apart(u),
         NEW v \in User \ {u}, UserNext(v)
  PROVE  user'[u] = user[u] /\ kubeconfig'[cluster[u]] = kubeconfig[cluster[u]]
<1> USE DEF TypeOK, Goes
<1>1. CASE MkdirTemp(v) \/ Configure(v) \/ ConfigureFails(v) \/ Constructed(v)
           \/ Cleanup(v) \/ Setenv(v) \/ Exec(v)
  BY <1>1 DEF MkdirTemp, Configure, ConfigureFails, Constructed, Cleanup, Setenv, Exec
<1>2. CASE LoadFromFile(v) \/ BuildConfig(v)
  BY <1>2 DEF LoadFromFile, BuildConfig
<1>3. CASE getCredentials(v)
  BY <1>3, OwnFile DEF getCredentials
<1>4. CASE Truncate(v) \/ WriteToFile(v)
  BY <1>4, OwnFile DEF Truncate, WriteToFile, kubeconfigPath
<1>5. CASE getCredentialsFails(v) \/ injectFails(v) \/ BuildConfigFails(v)
  BY <1>5 DEF getCredentialsFails, injectFails, BuildConfigFails, Fails
<1> QED
  BY <1>1, <1>2, <1>3, <1>4, <1>5 DEF UserNext

\* Where u stands is what OwnSteps says of it.
OwnStep(u) ==
  /\ user[u].pc = "load" => kubeconfig[cluster[u]] = Credentials(cluster[u], NoUser)
  /\ user[u].pc \in {"truncate", "write"} =>
       user[u].read = Credentials(cluster[u], NoUser)
  /\ user[u].pc = "build" => kubeconfig[cluster[u]] = Credentials(cluster[u], u)
  /\ user[u].pc = "using" => user[u].read = Credentials(cluster[u], u)

\* The steps of u take it from one stage to the next.
LEMMA OwnStepKept ==
  ASSUME TypeOK, Environment, NEW u \in User, Apart(u), OwnStep(u), UserNext(u)
  PROVE  OwnStep(u)'
<1> USE DEF OwnStep, Goes, placement, kubeconfigPath
<1>1. CASE MkdirTemp(u) \/ Configure(u) \/ ConfigureFails(u) \/ Constructed(u)
           \/ Cleanup(u) \/ Setenv(u) \/ Exec(u)
  BY <1>1 DEF MkdirTemp, Configure, ConfigureFails, Constructed, Cleanup, Setenv, Exec,
              TypeOK, UserState
<1>2. CASE getCredentials(u)
  BY <1>2, OwnTarget DEF getCredentials, TypeOK, UserState
<1>3. CASE LoadFromFile(u) \/ BuildConfig(u)
  BY <1>3 DEF LoadFromFile, BuildConfig, TypeOK, UserState
<1>4. CASE Truncate(u)
  BY <1>4 DEF Truncate, TypeOK, UserState
<1>5. CASE WriteToFile(u)
  <2>1. user[u].read = Credentials(cluster[u], NoUser) /\ cluster[u] # NoCluster
    BY <1>5, NoneAssumption DEF WriteToFile, TypeOK
  <2>2. Injected(u) = Credentials(cluster[u], u)
    BY <2>1 DEF Injected, Credentials
  <2> QED
    BY <1>5, <2>2 DEF WriteToFile, TypeOK, UserState
<1>6. CASE getCredentialsFails(u) \/ injectFails(u) \/ BuildConfigFails(u)
  BY <1>6 DEF getCredentialsFails, injectFails, BuildConfigFails, Fails, TypeOK, UserState
<1> QED
  BY <1>1, <1>2, <1>3, <1>4, <1>5, <1>6 DEF UserNext

\* Nobody moves to another process or cluster.
LEMMA Placed == [Next]_vars => UNCHANGED placement
BY DEF Next, UserNext, vars, MkdirTemp, Configure, ConfigureFails, Constructed, Cleanup,
  Setenv, Exec, getCredentials, LoadFromFile, Truncate, WriteToFile, BuildConfig, Kill,
  getCredentialsFails, injectFails, BuildConfigFails, Fails

\* A step keeps the stages of the users that are apart.
LEMMA OwnStepsStep == IInv /\ [Next]_vars => OwnSteps'
<1> SUFFICES ASSUME IInv, [Next]_vars, NEW u \in User, Apart(u)' PROVE OwnStep(u)'
  BY DEF OwnSteps, OwnStep
<1>1. Apart(u) /\ UNCHANGED placement
  BY Placed DEF Apart, AloneInProcess, AloneOnCluster, placement
<1>2. TypeOK /\ Environment /\ OwnStep(u)
  BY <1>1 DEF IInv, OwnSteps, OwnStep
<1>3. CASE UserNext(u)
  BY <1>1, <1>2, <1>3, OwnStepKept
<1>4. ASSUME NEW v \in User \ {u}, UserNext(v) PROVE OwnStep(u)'
  BY <1>1, <1>2, <1>4, OthersSpare DEF OwnStep, placement
<1>5. ASSUME NEW p \in Process, Kill(p) PROVE OwnStep(u)'
  BY <1>2, <1>5 DEF OwnStep, Kill, placement, TypeOK, UserState
<1>6. CASE UNCHANGED vars
  BY <1>2, <1>6 DEF vars, OwnStep, placement
<1> QED
  BY <1>3, <1>4, <1>5, <1>6 DEF Next

\* What is written back is about the same cluster.
LEMMA InjectedCluster ==
  ASSUME TypeOK, NEW u \in User
  PROVE  Injected(u).cluster = user[u].read.cluster
<1>1. user[u].read \in Kubeconfig
  BY DEF TypeOK, UserState
<1> QED
  BY <1>1 DEF Injected, Kubeconfig, Credentials

\* With a process each, files and memories stay with their clusters.
LEMMA OwnClustersStep ==
  TypeOK /\ Environment /\ OwnClusters /\ [Next]_vars => OwnClusters'
<1> SUFFICES ASSUME TypeOK, Environment, OwnClusters, [Next]_vars,
                    (\A u \in User : AloneInProcess(u))'
             PROVE  OwnClusters'
  BY DEF OwnClusters
<1>1. UNCHANGED placement /\ \A u \in User : AloneInProcess(u)
  BY Placed DEF AloneInProcess, placement
<1> USE <1>1 DEF OwnClusters, Goes, placement, kubeconfigPath, TypeOK, UserState
<1>2. ASSUME NEW u \in User, UserNext(u) PROVE OwnClusters'
  <2>1. CASE MkdirTemp(u) \/ Configure(u) \/ ConfigureFails(u) \/ Constructed(u)
             \/ Cleanup(u) \/ Setenv(u) \/ Exec(u)
    <3>1. /\ UNCHANGED kubeconfig
          /\ \A v \in User : (user'[v].read = user[v].read /\ user'[v].pc # "using")
               \/ user'[v] = user[v]
      <4>1. CASE MkdirTemp(u) \/ ConfigureFails(u) \/ Constructed(u) \/ Cleanup(u)
                 \/ Setenv(u)
        BY <4>1 DEF MkdirTemp, ConfigureFails, Constructed, Cleanup, Setenv
      <4>2. CASE Configure(u) \/ Exec(u)
        BY <4>2 DEF Configure, Exec
      <4> QED
        BY <2>1, <4>1, <4>2
    <3> QED
      BY <3>1, Placed
  <2>2. CASE getCredentials(u)
    <3>1. user[u].target = cluster[u]
      BY <2>2 DEF getCredentials, Environment, SetBy, AloneInProcess
    <3>2. Credentials(cluster[u], NoUser).cluster = cluster[u]
      BY DEF Credentials
    <3> QED
      BY <2>2, <3>1, <3>2 DEF getCredentials
  <2>3. CASE LoadFromFile(u) \/ BuildConfig(u)
    <3>1. kubeconfig[cluster[u]].cluster \in {cluster[u], NoCluster}
      OBVIOUS
    <3>2. CASE LoadFromFile(u)
      BY <3>1, <3>2 DEF LoadFromFile
    <3>3. CASE BuildConfig(u)
      BY <3>1, <3>3 DEF BuildConfig
    <3> QED
      BY <2>3, <3>2, <3>3
  <2>4. CASE Truncate(u)
    <3>1. Empty.cluster = NoCluster
      BY DEF Empty, Absent
    <3> QED
      BY <2>4, <3>1 DEF Truncate
  <2>5. CASE WriteToFile(u)
    BY <2>5, InjectedCluster DEF WriteToFile
  <2>6. CASE getCredentialsFails(u) \/ injectFails(u) \/ BuildConfigFails(u)
    BY <2>6 DEF getCredentialsFails, injectFails, BuildConfigFails, Fails
  <2> QED
    BY <1>2, <2>1, <2>2, <2>3, <2>4, <2>5, <2>6 DEF UserNext
<1>3. ASSUME NEW p \in Process, Kill(p) PROVE OwnClusters'
  BY <1>3 DEF Kill
<1>4. CASE UNCHANGED vars
  BY <1>4 DEF vars
<1> QED
  BY <1>2, <1>3, <1>4 DEF Next

-----------------------------------------------------------------------------
\* The invariant is inductive.
LEMMA NextIInv == IInv /\ [Next]_vars => IInv'
BY TypeStep, DirsStep, EnvironmentStep, OwnStepsStep DEF IInv

\* The state of the users, files and environments is what TypeOK says.
THEOREM TypeCorrect == Spec => []TypeOK
<1>1. Init => TypeOK
  BY InitIInv DEF IInv
<1> QED
  BY <1>1, TypeStep, PTL DEF Spec

\* For any number of users: one that shares neither its process nor its
\* cluster is isolated.
THEOREM ApartIsIsolated == Spec => []IsolatedWhenApart
<1>1. Init => IInv
  BY InitIInv
<1>2. IInv => IsolatedWhenApart
  BY DEF IInv, Dirs, OwnSteps, Apart, IsolatedWhenApart
<1> QED
  BY <1>1, <1>2, NextIInv, PTL DEF Spec

\* For any number of users with a process each: no client is for another cluster
\* than its own, whoever writes the file.
THEOREM NeverWrongCluster == Spec => []RightCluster
<1>1. Init => IInv /\ OwnClusters
  BY InitIInv
<1>2. IInv /\ OwnClusters => RightCluster
  <2> SUFFICES ASSUME IInv, OwnClusters, \A u \in User : AloneInProcess(u),
                      NEW u \in User, user[u].pc = "using"
               PROVE  user[u].read.cluster = cluster[u]
    BY DEF RightCluster
  <2> QED
    BY DEF OwnClusters
<1>3. IInv /\ OwnClusters /\ [Next]_vars => (IInv /\ OwnClusters)'
  BY NextIInv, OwnClustersStep DEF IInv
<1> QED
  BY <1>1, <1>2, <1>3, PTL DEF Spec

\* For any number of users: no directory is left but by a kill.
THEOREM DirsRemoved == Spec => []NoDirLeft
<1>1. Init => TypeOK /\ Dirs
  BY InitIInv DEF IInv
<1>2. TypeOK /\ Dirs => NoDirLeft
  BY DEF Dirs, NoDirLeft
<1> QED
  BY <1>1, <1>2, TypeStep, DirsStep, PTL DEF Spec
=============================================================================

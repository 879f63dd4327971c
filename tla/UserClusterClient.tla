--------------------------- MODULE UserClusterClient ---------------------------
(***************************************************************************)
(* The clients of user clusters that the integration tests make with the   *)
(* gdcloud command (integration/pkg/gdcloud, integration/pkg/gdc): several *)
(* users on one host, each with a configuration directory of its own.      *)
(*                                                                         *)
(* Two things are not their own: the kubeconfig, whose path is made of the *)
(* name of the cluster only, and the environment of the process, where     *)
(* KUBECONFIG tells gdcloud which file to write.  The file is read, changed*)
(* and written back, and the writing truncates it first; none of this is   *)
(* locked.  A process may die at any point.                                *)
(*                                                                         *)
(* What gdcloud does is external: get-credentials writes the credentials of*)
(* its cluster to the file KUBECONFIG names, and a client asks the gdcloud *)
(* plugin, with the HOME of its kubeconfig, for a token on every request.  *)
(***************************************************************************)
EXTENDS Naturals

CONSTANTS
  User,       \* those who want a client, each for one cluster
  Process,    \* the processes they may run in
  Cluster,    \* the clusters; each has one kubeconfig path
  NoUser,     \* the HOME of whoever runs the tests, or of an earlier run
  NoCluster   \* nothing in the file; KUBECONFIG unset

ASSUME NoneAssumption == NoUser \notin User /\ NoCluster \notin Cluster

VARIABLES
  process, cluster,  \* of each user
  user,              \* how far each user is
  configDirs,        \* the users whose configuration directory exists
  KUBECONFIG,        \* of each process
  kubeconfig         \* the file of each cluster

placement == <<process, cluster>>
vars == <<placement, user, configDirs, KUBECONFIG, kubeconfig>>

Kubeconfig == [exists : BOOLEAN, cluster : Cluster \cup {NoCluster},
               home : User \cup {NoUser}]
Absent == [exists |-> FALSE, cluster |-> NoCluster, home |-> NoUser]
Empty == [Absent EXCEPT !.exists = TRUE]
Credentials(c, home) == [exists |-> TRUE, cluster |-> c, home |-> home]

PC == {"new", "config", "client", "exec", "gdcloud", "load", "truncate", "write",
       "build", "using", "failed", "done", "killed"}

\* commands: the gdcloud commands that configured the directory.  target: the
\* KUBECONFIG of the running command.  read: the kubeconfig in memory, at last
\* that of the client.
UserState == [pc : PC, commands : 0 .. 3, target : Cluster \cup {NoCluster},
              read : Kubeconfig]

TypeOK ==
  /\ process \in [User -> Process]
  /\ cluster \in [User -> Cluster]
  /\ user \in [User -> UserState]
  /\ configDirs \subseteq User
  /\ KUBECONFIG \in [Process -> Cluster \cup {NoCluster}]
  /\ kubeconfig \in [Cluster -> Kubeconfig]

\* An earlier run may have left a kubeconfig, or an empty one.
Init ==
  /\ process \in [User -> Process]
  /\ cluster \in [User -> Cluster]
  /\ user = [u \in User |-> [pc |-> "new", commands |-> 0, target |-> NoCluster,
                             read |-> Absent]]
  /\ configDirs = {}
  /\ KUBECONFIG = [p \in Process |-> NoCluster]
  /\ kubeconfig \in [Cluster -> {Absent, Empty}
                                \cup {Credentials(c, NoUser) : c \in Cluster}]
  /\ \A c \in Cluster : kubeconfig[c].cluster \in {c, NoCluster}

Goes(u, from, to) ==
  /\ user[u].pc = from
  /\ user' = [user EXCEPT ![u].pc = to]

\* GetUserClusterClient returns an error; the Cleanup of the client is to come.
Fails(u, from) ==
  /\ Goes(u, from, "failed")
  /\ UNCHANGED <<placement, configDirs, KUBECONFIG, kubeconfig>>

-----------------------------------------------------------------------------
(* NewTestingClient.                                                       *)

MkdirTemp(u) ==
  /\ \/ Goes(u, "new", "config") /\ configDirs' = configDirs \cup {u}
     \/ Goes(u, "new", "done") /\ UNCHANGED configDirs
  /\ UNCHANGED <<placement, KUBECONFIG, kubeconfig>>

\* Mutant: the deferred function looks at another err.
DirStays(u) == configDirs

\* os.RemoveAll, of Cleanup and of the deferred function.
RemoveAll(u) == configDirs \ {u}

\* Mutant: one command too many.
OneMoreCommand(u) == user[u].commands <= 3

\* Three commands configure the directory.
CommandLeft(u) == user[u].commands < 3

Configure(u) ==
  /\ user[u].pc = "config" /\ CommandLeft(u)
  /\ user' = [user EXCEPT ![u].commands = @ + 1]
  /\ UNCHANGED <<placement, configDirs, KUBECONFIG, kubeconfig>>

ConfigureFails(u) ==
  /\ CommandLeft(u)
  /\ Goes(u, "config", "done")
  /\ configDirs' = RemoveAll(u)
  /\ UNCHANGED <<placement, KUBECONFIG, kubeconfig>>

Constructed(u) ==
  /\ ~CommandLeft(u)
  /\ Goes(u, "config", "client")
  /\ UNCHANGED <<placement, configDirs, KUBECONFIG, kubeconfig>>

Cleanup(u) ==
  /\ Goes(u, "using", "done") \/ Goes(u, "failed", "done")
  /\ configDirs' = RemoveAll(u)
  /\ UNCHANGED <<placement, KUBECONFIG, kubeconfig>>

-----------------------------------------------------------------------------
(* GetUserClusterKubeconfig.                                               *)

\* Mutant: one path for all clusters.
OnePath(u) == CHOOSE c \in Cluster : TRUE

\* /tmp/<cluster>-kubeconfig
kubeconfigPath(u) == cluster[u]

Setenv(u) ==
  /\ Goes(u, "client", "exec")
  /\ KUBECONFIG' = [KUBECONFIG EXCEPT ![process[u]] = kubeconfigPath(u)]
  /\ UNCHANGED <<placement, configDirs, kubeconfig>>

\* Exec takes the environment as it is now.
Exec(u) ==
  /\ user[u].pc = "exec"
  /\ user' = [user EXCEPT ![u].pc = "gdcloud", ![u].target = KUBECONFIG[process[u]]]
  /\ UNCHANGED <<placement, configDirs, KUBECONFIG, kubeconfig>>

getCredentials(u) ==
  /\ Goes(u, "gdcloud", "load")
  /\ kubeconfig' = [kubeconfig EXCEPT ![user[u].target] = Credentials(cluster[u], NoUser)]
  /\ UNCHANGED <<placement, configDirs, KUBECONFIG>>

getCredentialsFails(u) == Fails(u, "exec") \/ Fails(u, "gdcloud")

-----------------------------------------------------------------------------
(* injectHermeticEnvIntoKubeconfig.                                        *)

LoadFromFile(u) ==
  LET file == kubeconfig[kubeconfigPath(u)] IN
  /\ user[u].pc = "load" /\ file.exists
  /\ user' = [user EXCEPT ![u].pc = "truncate", ![u].read = file]
  /\ UNCHANGED <<placement, configDirs, KUBECONFIG, kubeconfig>>

\* Mutant: what the file says is kept.
KeepsEnv(u) == user[u].read

\* Every authInfo gets the user's directory for its HOME; none in an empty file.
Injected(u) ==
  LET read == user[u].read
  IN  IF read.cluster = NoCluster THEN read ELSE Credentials(read.cluster, u)

\* WriteToFile: the file is truncated, and written.
Truncate(u) ==
  /\ Goes(u, "truncate", "write")
  /\ kubeconfig' = [kubeconfig EXCEPT ![kubeconfigPath(u)] = Empty]
  /\ UNCHANGED <<placement, configDirs, KUBECONFIG>>

WriteToFile(u) ==
  /\ Goes(u, "write", "build")
  /\ kubeconfig' = [kubeconfig EXCEPT ![kubeconfigPath(u)] = Injected(u)]
  /\ UNCHANGED <<placement, configDirs, KUBECONFIG>>

injectFails(u) == Fails(u, "load") \/ Fails(u, "truncate") \/ Fails(u, "write")

-----------------------------------------------------------------------------
(* GetUserClusterClient.                                                   *)

\* BuildConfigFromFlags reads the file again, and wants something in it.
BuildConfig(u) ==
  LET file == kubeconfig[kubeconfigPath(u)] IN
  /\ user[u].pc = "build" /\ file.cluster # NoCluster
  /\ user' = [user EXCEPT ![u].pc = "using", ![u].read = file]
  /\ UNCHANGED <<placement, configDirs, KUBECONFIG, kubeconfig>>

BuildConfigFails(u) == Fails(u, "build")

Kill(p) ==
  /\ user' = [u \in User |->
       IF process[u] = p /\ user[u].pc # "done" THEN [user[u] EXCEPT !.pc = "killed"]
                                                ELSE user[u]]
  /\ UNCHANGED <<placement, configDirs, KUBECONFIG, kubeconfig>>

UserNext(u) ==
  \/ MkdirTemp(u) \/ Configure(u) \/ ConfigureFails(u) \/ Constructed(u)
  \/ Setenv(u) \/ Exec(u) \/ getCredentials(u) \/ getCredentialsFails(u)
  \/ LoadFromFile(u) \/ Truncate(u) \/ WriteToFile(u) \/ injectFails(u)
  \/ BuildConfig(u) \/ BuildConfigFails(u) \/ Cleanup(u)

Next == (\E u \in User : UserNext(u)) \/ (\E p \in Process : Kill(p))

Spec == Init /\ [][Next]_vars

-----------------------------------------------------------------------------
(* Properties.                                                             *)

AloneInProcess(u) == \A v \in User \ {u} : process[v] # process[u]
AloneOnCluster(u) == \A v \in User \ {u} : cluster[v] # cluster[u]

\* A user that is alone in its process and, on its host, alone on its cluster
\* gets a client for its cluster whose credentials are in its own directory,
\* and that directory stays until its own Cleanup: whatever others do, and
\* whatever an earlier run left in the file.
IsolatedWhenApart ==
  \A u \in User :
    user[u].pc = "using" /\ AloneInProcess(u) /\ AloneOnCluster(u) =>
      user[u].read = Credentials(cluster[u], u) /\ u \in configDirs

\* When no two users share a process, no client is for another cluster than
\* the one it was asked for, even if many users write one file.
RightCluster ==
  (\A u \in User : AloneInProcess(u)) =>
    \A u \in User : user[u].pc = "using" => user[u].read.cluster = cluster[u]

\* A directory, with the service account in it, outlives only those whose
\* process was killed: not a NewTestingClient that failed half-way.
NoDirLeft ==
  \A u \in User : user[u].pc = "done" => u \notin configDirs
=============================================================================

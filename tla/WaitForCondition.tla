--------------------------- MODULE WaitForCondition ---------------------------
(***************************************************************************)
(* The wait that the integration test is built from                        *)
(* (integration/pkg/kubernetes/kubernetes.go): a poll loop around watch    *)
(* sessions, until an object satisfies a predicate or the time is up.      *)
(*                                                                         *)
(* One object is watched.  A session begins with an event for the object   *)
(* as it is and goes on with one for each change.  The network (external)  *)
(* may refuse a Watch request, leave it without an answer, close a session *)
(* or drop its connection without a word; each is one of MaxFaults.        *)
(*                                                                         *)
(* Time is discrete.  A step that is not held up by the network takes none.*)
(***************************************************************************)
EXTENDS Integers, Sequences

CONSTANTS
  PollInterval,  \* between two attempts at a session, at most
  Session,       \* the longest session
  Timeout,       \* the timeout argument
  Caller,        \* when the caller's own context ends
  MaxChanges,    \* bound: changes of the object
  MaxFaults      \* bound: faults of the network

ASSUME WaitAssumption ==
  /\ {PollInterval, Session, Timeout, Caller} \subseteq Nat \ {0}
  /\ {MaxChanges, MaxFaults} \subseteq Nat

VARIABLES
  now,      \* the clock; the wait begins at 0
  object,   \* the watched object
  changes,  \* changes so far
  wait,     \* where WaitForCondition stands
  events,   \* events of the session that were not looked at yet
  dropped,  \* the connection of the session is dead and nobody knows
  faults,   \* faults so far
  steady    \* since when the object is ready and the network sound

vars == <<now, object, changes, wait, events, dropped, faults, steady>>

Object == {"absent", "waiting", "ready"}

Unsteady == -1

\* until: when a session ends, or the loop wakes up, at the latest.
Wait == [pc : {"poll", "asked", "watch", "sleep", "ready", "timeout"},
         until : Nat]

\* Nothing here goes on for longer than the context of the caller.
TypeOK ==
  /\ now \in 0 .. Caller
  /\ object \in Object
  /\ changes \in 0 .. MaxChanges
  /\ wait \in Wait
  /\ events \in Seq(Object)
  /\ dropped \in BOOLEAN
  /\ faults \in 0 .. MaxFaults
  /\ steady \in 0 .. Caller \cup {Unsteady}

Running == wait.pc \notin {"ready", "timeout"}

isReady(o) == o = "ready"

Init ==
  /\ now = 0
  /\ object \in Object
  /\ changes = 0
  /\ wait = [pc |-> "poll", until |-> 0]
  /\ events = <<>>
  /\ dropped = FALSE
  /\ faults = 0
  /\ steady = IF isReady(object) THEN 0 ELSE Unsteady

\* The context of the loop ends with the timeout or with the caller's.
Deadline == IF Timeout < Caller THEN Timeout ELSE Caller

Goes(pc, until) == wait' = [pc |-> pc, until |-> until]

\* The network fails.  What was steady is so again at time t, when it is over.
Fault(t) ==
  /\ faults < MaxFaults
  /\ faults' = faults + 1
  /\ steady' = IF isReady(object) THEN t ELSE Unsteady

-----------------------------------------------------------------------------
\* Mutant: a session is bounded by the deadline alone.
UnboundedSession == Deadline
\* Mutant: a session is not bound to the context of the loop.
DetachedSession == now + Session

\* watchCtx.
SessionEnd == IF now + Session < Deadline THEN now + Session ELSE Deadline

\* Mutant: the error of the session is the result of the wait.
FailsWithSession == Goes("timeout", now)

\* The attempt is over without a result.  The error of the loop's context,
\* which is nil as long as that is alive, decides.
GiveUp ==
  IF now < Deadline THEN Goes("sleep", now + PollInterval)
                    ELSE Goes("timeout", now)

\* The loop calls its condition function, which sends a Watch request.  The
\* request is bound to the context of the caller, not to that of the loop.
startWatch ==
  /\ wait.pc = "poll"
  /\ Goes("asked", now)
  /\ UNCHANGED <<now, object, changes, events, dropped, faults, steady>>

\* The session begins with the object as it is.
WatchStarts ==
  /\ wait.pc = "asked" /\ now < Caller
  /\ Goes("watch", SessionEnd)
  /\ events' = IF object = "absent" THEN <<>> ELSE <<object>>
  /\ dropped' = FALSE
  /\ UNCHANGED <<now, object, changes, faults, steady>>

\* The request fails, with the network or with the caller's context.  It
\* counts as a transient error either way: the loop goes on.
WatchRefused ==
  /\ wait.pc = "asked"
  /\ IF now < Caller THEN Fault(now) ELSE UNCHANGED <<faults, steady>>
  /\ Goes("sleep", now + PollInterval)
  /\ UNCHANGED <<now, object, changes, events, dropped>>

\* UntilWithoutRetry looks at the next event.  The event of a deletion carries
\* the object as it was, and nothing looks at the type of an event.
Receive ==
  /\ wait.pc = "watch" /\ events # <<>>
  /\ IF isReady(Head(events)) THEN Goes("ready", now) ELSE UNCHANGED wait
  /\ events' = Tail(events)
  /\ UNCHANGED <<now, object, changes, dropped, faults, steady>>

\* watchCtx is over; an event that is there as well may lose against it.
SessionOver ==
  /\ wait.pc = "watch" /\ now >= wait.until
  /\ GiveUp
  /\ events' = <<>> /\ dropped' = FALSE
  /\ UNCHANGED <<now, object, changes, faults, steady>>

\* The channel is closed.
SessionCloses ==
  /\ wait.pc = "watch" /\ ~dropped
  /\ Fault(now)
  /\ GiveUp
  /\ events' = <<>>
  /\ UNCHANGED <<now, object, changes, dropped>>

\* The timer of the loop fires; a context that is over comes first.
WakeUp ==
  /\ wait.pc = "sleep"
  /\ IF now < Deadline THEN Goes("poll", now) ELSE Goes("timeout", now)
  /\ UNCHANGED <<now, object, changes, events, dropped, faults, steady>>

-----------------------------------------------------------------------------
(* The network and the object.                                             *)

\* The connection of a session dies, with what was on its way.
ConnectionDrops ==
  /\ wait.pc = "watch" /\ ~dropped
  /\ Fault(now)
  /\ events' = <<>> /\ dropped' = TRUE
  /\ UNCHANGED <<now, object, changes, wait>>

\* A Watch request stays without an answer for one more unit of time.  Nothing
\* ends it but the caller's context.
RequestHangs ==
  /\ wait.pc = "asked" /\ now < Caller
  /\ IF wait.until = now
     THEN Fault(now + 1)
     ELSE steady' = (IF isReady(object) THEN now + 1 ELSE Unsteady)
          /\ UNCHANGED faults
  /\ now' = now + 1
  /\ UNCHANGED <<object, changes, wait, events, dropped>>

\* The object is created, changes or is deleted.
Change ==
  /\ changes < MaxChanges /\ Running
  /\ \E o \in Object \ {object} :
       /\ object' = o
       /\ events' = IF wait.pc # "watch" \/ dropped THEN events
                    ELSE Append(events, IF o = "absent" THEN object ELSE o)
       /\ steady' = IF isReady(o) THEN now ELSE Unsteady
  /\ changes' = changes + 1
  /\ UNCHANGED <<now, wait, dropped, faults>>

\* Nothing to do at this moment: the session waits for an event, the loop for
\* its timer.
Idle ==
  \/ wait.pc = "watch" /\ events = <<>> /\ now < wait.until
  \/ wait.pc = "sleep" /\ now < wait.until /\ now < Deadline

Tick ==
  /\ Idle
  /\ now' = now + 1
  /\ UNCHANGED <<object, changes, wait, events, dropped, faults, steady>>

Next ==
  \/ startWatch \/ WatchStarts \/ WatchRefused \/ Receive \/ SessionOver
  \/ SessionCloses \/ WakeUp \/ ConnectionDrops \/ RequestHangs \/ Change \/ Tick

Spec == Init /\ [][Next]_vars

-----------------------------------------------------------------------------
(* Properties.                                                             *)

\* "Bound each watch session to 30s so idle TCP connections dropped silently
\* ... reconnect and emit fresh state": whatever the network did before, once
\* it is sound and the object is and stays ready, the wait has seen it within
\* one session and one interval, or is over.
SeenWhenSteady ==
  Running /\ steady # Unsteady => now <= steady + Session + PollInterval

\* No session and no pause between two of them outlasts the timeout or the
\* caller's context: past it, time passes in a Watch request alone.
OnlyRequestsOverrun ==
  [][now' > now /\ now >= Deadline => wait.pc = "asked"]_vars

\* Neither a session that ends nor a request that fails ends the wait: it
\* fails only if the object was not ready, or the network not sound, for one
\* session and one interval before the deadline.
FailsOnlyUnready ==
  wait.pc = "timeout" /\ steady # Unsteady =>
    Deadline <= steady + Session + PollInterval
=============================================================================

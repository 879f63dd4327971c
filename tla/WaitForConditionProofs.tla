------------------------ MODULE WaitForConditionProofs ------------------------
(***************************************************************************)
(* Proofs about WaitForCondition, for every interval, session length,      *)
(* timeout, number of changes and number of faults.                        *)
(*                                                                         *)
(* The argument: once the object is steady, a session either began before  *)
(* and ends within Session, or begins with an event that ends the wait.    *)
(***************************************************************************)
EXTENDS WaitForCondition, TLAPS

HasReady == \E i \in 1 .. Len(events) : isReady(events[i])

\* What is left of the caller's context, at each place.
Times ==
  /\ wait.pc = "poll" => now < Deadline
  /\ wait.pc = "asked" => wait.until <= now /\ (wait.until = now => now < Deadline)
  /\ wait.pc = "watch" => /\ wait.until <= now + Session
                          /\ wait.until <= Deadline
                          /\ now <= wait.until \/ Deadline <= now
  /\ wait.pc = "sleep" => /\ wait.until <= now + PollInterval
                          /\ now <= wait.until

\* When the wait will have seen a steady object, at each place.
Bound == steady + Session + PollInterval

Seen ==
  steady # Unsteady =>
    /\ isReady(object)
    /\ steady <= now
    /\ wait.pc \in {"poll", "asked", "watch"} => now <= Bound
    /\ wait.pc = "asked" /\ wait.until # now => steady = now
    /\ wait.pc = "watch" =>
         \/ wait.until <= steady + Session
         \/ HasReady /\ (now < wait.until \/ Deadline <= now)
    /\ wait.pc = "sleep" => wait.until <= Bound
    /\ wait.pc = "timeout" => Deadline <= Bound

IInv == TypeOK /\ Times /\ Seen

\* The constants are naturals, none of them zero.
LEMMA Constants ==
  /\ PollInterval \in Nat /\ PollInterval > 0
  /\ Session \in Nat /\ Session > 0
  /\ Timeout \in Nat /\ Timeout > 0
  /\ Caller \in Nat /\ Caller > 0
  /\ MaxChanges \in Nat /\ MaxFaults \in Nat
BY WaitAssumption

\* The wait's own context ends with the caller's at the latest.
LEMMA DeadlineType == Deadline \in Nat /\ 0 < Deadline /\ Deadline <= Caller
BY Constants DEF Deadline

\* A session ends within its bound and by the deadline.
LEMMA SessionEndType ==
  ASSUME now \in Nat
  PROVE  /\ SessionEnd \in Nat
         /\ SessionEnd <= now + Session
         /\ SessionEnd <= Deadline
         /\ now < SessionEnd \/ Deadline <= now
BY DeadlineType, Constants DEF SessionEnd

\* The wait starts in the invariant.
LEMMA InitIInv == Init => IInv
<1> SUFFICES ASSUME Init PROVE IInv
  OBVIOUS
<1> USE DeadlineType, Constants DEF Init
<1>1. TypeOK
  <2>1. now \in 0 .. Caller /\ changes \in 0 .. MaxChanges /\ faults \in 0 .. MaxFaults
    OBVIOUS
  <2>2. wait \in Wait /\ events \in Seq(Object)
    BY DEF Wait
  <2>3. steady \in 0 .. Caller \cup {Unsteady}
    OBVIOUS
  <2> QED
    BY <2>1, <2>2, <2>3 DEF TypeOK
<1>2. Times
  BY DEF Times
<1>3. Seen
  BY DEF Seen, Bound, Unsteady
<1> QED
  BY <1>1, <1>2, <1>3 DEF IInv

\* Every step of the wait, the network and the object keeps the invariant.
LEMMA NextIInv == IInv /\ [Next]_vars => IInv'
<1> SUFFICES ASSUME IInv, [Next]_vars PROVE IInv'
  OBVIOUS
<1> USE DeadlineType, Constants DEF IInv, TypeOK, Wait, Goes, Deadline
<1>1. CASE startWatch
  <2> USE <1>1 DEF startWatch
  <2>1. TypeOK'
    BY DEF Object, Unsteady
  <2>2. Times'
    BY DEF Times
  <2>3. Seen'
    BY DEF Times, Seen, Bound, Unsteady, HasReady, isReady
  <2> QED
    BY <2>1, <2>2, <2>3
<1>2. CASE WatchStarts
  <2> USE <1>2, SessionEndType DEF WatchStarts
  <2>1. TypeOK'
    <3>1. events' \in Seq(Object)
      <4>1. CASE object = "absent"
        BY <4>1
      <4>2. CASE object # "absent"
        BY <4>2
      <4> QED
        BY <4>1, <4>2
    <3>2. wait' \in Wait
      OBVIOUS
    <3>3. UNCHANGED <<now, object, changes, faults, steady>> /\ dropped' \in BOOLEAN
      OBVIOUS
    <3> HIDE <1>2 DEF WatchStarts
    <3> QED
      BY <3>1, <3>2, <3>3
  <2>2. Times'
    BY DEF Times
  <2>3. Seen'
    BY DEF Times, Seen, Bound, Unsteady, HasReady, isReady
  <2> QED
    BY <2>1, <2>2, <2>3
<1>3. CASE WatchRefused
  <2> USE <1>3 DEF WatchRefused, Fault
  <2>1. TypeOK'
    BY DEF Object, Unsteady
  <2>2. Times'
    BY DEF Times
  <2>3. Seen'
    BY DEF Times, Seen, Bound, Unsteady, HasReady, isReady
  <2> QED
    BY <2>1, <2>2, <2>3
<1>4. CASE Receive
  <2> USE <1>4 DEF Receive
  <2>1. TypeOK'
    <3>1. events' \in Seq(Object)
      OBVIOUS
    <3> QED
      BY <3>1
  <2>2. Times'
    BY DEF Times
  <2>3. Seen'
    <3>1. CASE isReady(Head(events))
      BY <3>1 DEF Seen, Times, Bound
    <3>2. CASE ~isReady(Head(events))
      <4>1. UNCHANGED <<now, object, wait, steady>>
        BY <3>2
      <4>2. HasReady => HasReady'
        <5> SUFFICES ASSUME NEW i \in 1 .. Len(events), isReady(events[i])
                     PROVE  HasReady'
          BY DEF HasReady
        <5>1. i # 1
          BY <3>2
        <5>2. i - 1 \in 1 .. Len(events') /\ events'[i - 1] = events[i]
          BY <5>1
        <5> QED
          BY <5>2 DEF HasReady, isReady
      <4> QED
        BY <4>1, <4>2 DEF Seen, Bound
    <3> QED
      BY <3>1, <3>2
  <2> QED
    BY <2>1, <2>2, <2>3
<1>5. CASE SessionOver
  <2> USE <1>5 DEF SessionOver, GiveUp
  <2>1. TypeOK'
    <3>1. wait' \in Wait
      OBVIOUS
    <3>2. events' \in Seq(Object) /\ dropped' \in BOOLEAN
      <4>1. events' = <<>> /\ dropped' = FALSE
        OBVIOUS
      <4>2. <<>> \in Seq(Object)
        OBVIOUS
      <4> QED
        BY <4>1, <4>2
    <3>3. UNCHANGED <<now, object, changes, faults, steady>>
      OBVIOUS
    <3> HIDE <1>5 DEF SessionOver
    <3> QED
      BY <3>1, <3>2, <3>3
  <2>2. Times'
    BY DEF Times
  <2>3. Seen'
    BY DEF Times, Seen, Bound, Unsteady, HasReady, isReady
  <2> QED
    BY <2>1, <2>2, <2>3
<1>6. CASE SessionCloses
  <2> USE <1>6 DEF SessionCloses, GiveUp, Fault
  <2>1. TypeOK'
    BY DEF Object, Unsteady
  <2>2. Times'
    BY DEF Times
  <2>3. Seen'
    BY DEF Times, Seen, Bound, Unsteady, HasReady, isReady
  <2> QED
    BY <2>1, <2>2, <2>3
<1>7. CASE WakeUp
  <2> USE <1>7 DEF WakeUp
  <2>1. TypeOK'
    BY DEF Object, Unsteady
  <2>2. Times'
    BY DEF Times
  <2>3. Seen'
    BY DEF Times, Seen, Bound, Unsteady, HasReady, isReady
  <2> QED
    BY <2>1, <2>2, <2>3
<1>8. CASE ConnectionDrops
  <2> USE <1>8 DEF ConnectionDrops, Fault
  <2>1. TypeOK'
    BY DEF Object, Unsteady
  <2>2. Times'
    BY DEF Times
  <2>3. Seen'
    BY DEF Times, Seen, Bound, Unsteady, HasReady, isReady
  <2> QED
    BY <2>1, <2>2, <2>3
<1>9. CASE RequestHangs
  <2> USE <1>9 DEF RequestHangs, Fault
  <2>1. TypeOK'
    BY DEF Object, Unsteady
  <2>2. Times'
    BY DEF Times
  <2>3. Seen'
    BY DEF Times, Seen, Bound, Unsteady, HasReady, isReady
  <2> QED
    BY <2>1, <2>2, <2>3
<1>10. CASE Change
  <2> USE <1>10 DEF Change, Running
  <2> PICK o \in Object \ {object} :
        /\ object' = o
        /\ events' = IF wait.pc # "watch" \/ dropped THEN events
                     ELSE Append(events, IF o = "absent" THEN object ELSE o)
        /\ steady' = IF isReady(o) THEN now ELSE Unsteady
    OBVIOUS
  <2>1. TypeOK'
    <3>1. events' \in Seq(Object)
      <4> DEFINE e == IF o = "absent" THEN object ELSE o
      <4>1. e \in Object
        OBVIOUS
      <4>2. Append(events, e) \in Seq(Object)
        BY <4>1
      <4> QED
        BY <4>2
    <3>2. changes' \in 0 .. MaxChanges
      OBVIOUS
    <3> QED
      BY <3>1, <3>2
  <2>2. Times'
    BY DEF Times
  <2>3. Seen'
    BY DEF Times, Seen, Bound, Unsteady, HasReady, isReady
  <2> QED
    BY <2>1, <2>2, <2>3
<1>11. CASE Tick
  <2> USE <1>11 DEF Tick, Idle
  <2>1. TypeOK'
    BY DEF Times
  <2>2. Times'
    BY DEF Times
  <2>3. Seen'
    BY DEF Times, Seen, Bound, Unsteady, HasReady, isReady
  <2> QED
    BY <2>1, <2>2, <2>3
<1>12. CASE UNCHANGED vars
  BY <1>12 DEF vars, Times, Seen, Bound, HasReady
<1> QED
  BY <1>1, <1>2, <1>3, <1>4, <1>5, <1>6, <1>7, <1>8, <1>9, <1>10, <1>11, <1>12 DEF Next

\* The clock and the wait stay within the context of the caller.
THEOREM TypeCorrect == Spec => []TypeOK
<1>1. IInv => TypeOK
  BY DEF IInv
<1> QED
  BY <1>1, InitIInv, NextIInv, PTL DEF Spec

\* A ready object is seen within one session and one interval once the network
\* is sound, for every interval, session length, timeout and number of faults.
THEOREM SeenInTime == Spec => []SeenWhenSteady
<1>1. IInv => SeenWhenSteady
  BY DeadlineType, Constants DEF IInv, TypeOK, Wait, Times, Seen, Bound, SeenWhenSteady, Running
<1> QED
  BY <1>1, InitIInv, NextIInv, PTL DEF Spec

\* A wait does not fail over an object that was ready long enough.
THEOREM FailsRightly == Spec => []FailsOnlyUnready
<1>1. IInv => FailsOnlyUnready
  BY DEF IInv, Seen, Bound, FailsOnlyUnready
<1> QED
  BY <1>1, InitIInv, NextIInv, PTL DEF Spec

\* Past the deadline only a Watch request takes time.
THEOREM RequestsOverrun == Spec => OnlyRequestsOverrun
<1>1. IInv /\ [Next]_vars => [now' > now /\ now >= Deadline => wait.pc = "asked"]_vars
  <2> SUFFICES ASSUME IInv, Next, now' > now, now >= Deadline PROVE wait.pc = "asked"
    OBVIOUS
  <2> USE DeadlineType, Constants DEF IInv, TypeOK
  <2>1. now' # now
    OBVIOUS
  <2>2. Tick \/ RequestHangs
    BY <2>1 DEF Next, startWatch, WatchStarts, WatchRefused, Receive, SessionOver,
                SessionCloses, WakeUp, ConnectionDrops, Change
  <2>3. ~Tick
    BY DEF Tick, Idle, Times, Wait
  <2> QED
    BY <2>2, <2>3 DEF RequestHangs
<1> QED
  BY <1>1, InitIInv, NextIInv, PTL DEF Spec, OnlyRequestsOverrun
=============================================================================

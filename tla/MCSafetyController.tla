-------------------------- MODULE MCSafetyController --------------------------
(***************************************************************************)
(* Constants for TLC.                                                      *)
(***************************************************************************)
EXTENDS LateRequests

CONSTANTS m1, f1, blank, ca, image, ud, nat, pool, other

MCPayloads == {blank, ca, image, ud}
MCLabels == {nat, pool, other}

\* A class without labels would list every VM of the project; this one has a
\* label of its own.
Hasty ==
  [parses |-> TRUE, caInit |-> FALSE, wait |-> FALSE,
   disks |-> <<[boot |-> TRUE, autoDelete |-> TRUE, image |-> image]>>,
   labels |-> {pool}, enableEgress |-> "unset"]
MCClasses == {Hasty}

\* The same, with a wait that a lost or replaced VM meets.
Waiting == [Hasty EXCEPT !.wait = TRUE]
WaitingClasses == {Waiting}

\* Bound: a request fails, or the process dies, not both in one behaviour.
OneFailure == faults + crashes <= 1
=============================================================================

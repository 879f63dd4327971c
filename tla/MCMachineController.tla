------------------------- MODULE MCMachineController -------------------------
(***************************************************************************)
(* Constants for TLC.                                                      *)
(***************************************************************************)
EXTENDS MachineController

CONSTANTS blank, ca, image, data, ud1, ud2, nat, pool

Boot == [boot |-> TRUE, autoDelete |-> TRUE, image |-> image]
Data == [boot |-> FALSE, autoDelete |-> TRUE, image |-> data]

Class(caInit, wait, disks) ==
  [parses |-> TRUE, caInit |-> caInit, wait |-> wait, disks |-> disks,
   labels |-> {pool}, enableEgress |-> "unset"]

MCPayloads == {blank, ca, image, data, ud1, ud2}
MCLabels == {nat, pool}
OneUserData == {ud1}
TwoUserData == {ud1, ud2}

\* A registry CA and a boot disk, no wait; two disks and a wait.
CAClass == Class(TRUE, FALSE, <<Boot>>)
DataClass == Class(FALSE, TRUE, <<Boot, Data>>)
MCClasses == {CAClass, DataClass}
UnparsedClass == [CAClass EXCEPT !.parses = FALSE]
AllClasses == MCClasses \cup {UnparsedClass}
=============================================================================

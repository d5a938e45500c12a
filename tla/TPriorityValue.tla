--------------------------- MODULE TPriorityValue ---------------------------
(***************************************************************************)
(* A value that remembers how it was given, so that the values of a root   *)
(* file give way to those of an input file, and those to the user's        *)
(* (include/TPriorityValue.h).  The specialisations for vectors and        *)
(* strings repeat these members word by word.                              *)
(***************************************************************************)
EXTENDS Naturals

kDefault == 0
kRootFile == 1
kInputFile == 2
kUser == 3
kForce == 4
EPriority == kDefault .. kForce

Prioritised(v, prio) == [value |-> v, priority |-> prio]

\* Faulty: an equal priority does not replace the value.
CopyAssignHigher(own, rhs) ==
    IF rhs.priority # kDefault /\ rhs.priority > own.priority THEN rhs ELSE own

\* operator=(const TPriorityValue&), which every setter of TChannel uses.
CopyAssign(own, rhs) ==
    IF rhs.priority # kDefault /\ rhs.priority >= own.priority THEN rhs ELSE own
=============================================================================

----------------------------- MODULE Allocator -----------------------------
(***************************************************************************)
(* What ObjectPool promises: alloc lends out an object that nobody has, or *)
(* nullptr when all are lent out; free takes back what is lent out and     *)
(* rejects everything else; once cleared, the pool gives and takes nothing.*)
(***************************************************************************)
CONSTANTS Objects, Foreign
VARIABLES out,    \* the objects lent out
          alive,  \* whether the objects still exist
          ret     \* what the last call returned

vars == <<out, alive, ret>>

Init == out = {} /\ alive = TRUE /\ ret = "none"

Alloc ==
  \/ \E o \in Objects \ out : alive /\ out' = out \cup {o} /\ ret' = "object"
  \/ (~alive \/ out = Objects) /\ ret' = "nullptr" /\ UNCHANGED out

Free(o) ==
  IF alive /\ o \in out THEN out' = out \ {o} /\ ret' = "true"
                        ELSE UNCHANGED out /\ ret' = "false"

Clear == alive' = FALSE /\ out' = {} /\ ret' = "none"
Reset == out' = {} /\ ret' = "none"

Next ==
  \/ (Alloc \/ Reset \/ \E o \in Objects \cup {Foreign} : Free(o)) /\ UNCHANGED alive
  \/ Clear

Spec == Init /\ [][Next]_vars
=============================================================================

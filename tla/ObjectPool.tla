----------------------------- MODULE ObjectPool -----------------------------
(***************************************************************************)
(* utils/ObjectPool.h: a fixed set of objects, a flag for each, and a      *)
(* stack of the free ones' indices.  Every call is one critical section    *)
(* (ThreadSafe = true, as the device handlers instantiate it).  Pointers   *)
(* are the indices they are found at, or Foreign.                          *)
(***************************************************************************)
EXTENDS Naturals

CONSTANTS PoolSize, Foreign

Index == 0 .. PoolSize - 1

ASSUME PoolAssumption == PoolSize \in Nat \ {0} /\ Foreign \notin Nat

VARIABLES
  used,        \* pool_[i].second
  deleted,     \* whether the objects have been deleted: pool_[i].first = nullptr
  free_stack,
  free_top,
  ret          \* what the last call returned

poolVars == <<used, deleted, free_stack, free_top, ret>>

\* Types: no index leaves the arrays.
PoolTypeOK ==
  /\ used \in [Index -> BOOLEAN] /\ deleted \in BOOLEAN
  /\ free_stack \in [Index -> Index] /\ free_top \in 0 .. PoolSize
  /\ ret \in {"none", "object", "nullptr", "true", "false"}

PoolInit ==
  /\ used = [i \in Index |-> FALSE] /\ deleted = FALSE
  /\ free_stack = [i \in Index |-> i] /\ free_top = PoolSize
  /\ ret = "none"

\* Variant: the flag is not set.
alloc_impl_Unmarked ==
  /\ free_top # 0
  /\ free_top' = free_top - 1
  /\ ret' = IF deleted THEN "nullptr" ELSE "object"
  /\ UNCHANGED <<used, deleted, free_stack>>

alloc_impl ==
  /\ free_top # 0
  /\ free_top' = free_top - 1
  /\ used' = [used EXCEPT ![free_stack[free_top - 1]] = TRUE]
  /\ ret' = IF deleted THEN "nullptr" ELSE "object"
  /\ UNCHANGED <<deleted, free_stack>>

alloc_Empty ==
  /\ free_top = 0 /\ ret' = "nullptr"
  /\ UNCHANGED <<used, deleted, free_stack, free_top>>

\* Whether free finds the pointer, and lent out.
Owned(o) == ~deleted /\ o \in Index /\ used[o]

free_impl(o) ==
  /\ Owned(o)
  /\ used' = [used EXCEPT ![o] = FALSE]
  /\ free_stack' = [free_stack EXCEPT ![free_top] = o]
  /\ free_top' = free_top + 1
  /\ ret' = "true"
  /\ UNCHANGED deleted

free_Rejected(o) ==
  /\ ~Owned(o) /\ ret' = "false"
  /\ UNCHANGED <<used, deleted, free_stack, free_top>>

clear_impl ==
  /\ deleted' = TRUE /\ used' = [i \in Index |-> FALSE] /\ free_top' = 0
  /\ ret' = "none" /\ UNCHANGED free_stack

\* Callers hold no object any more when they reset the pool.
reset_impl ==
  /\ used' = [i \in Index |-> FALSE]
  /\ free_stack' = [i \in Index |-> i] /\ free_top' = PoolSize
  /\ ret' = "none" /\ UNCHANGED deleted

PoolNext ==
  \/ alloc_impl \/ alloc_Empty \/ clear_impl \/ reset_impl
  \/ \E o \in Index \cup {Foreign} : free_impl(o) \/ free_Rejected(o)

PoolSpec == PoolInit /\ [][PoolNext]_poolVars

(***************************************************************************)
(* Properties.                                                             *)
(***************************************************************************)

Stack == 0 .. free_top - 1

\* The stack holds every object that is not lent out, once: whatever order the
\* calls come in, no object is lost and none can be lent out twice.
StackIsFree ==
  /\ \A k, l \in Stack : free_stack[k] = free_stack[l] => k = l
  /\ \A k \in Stack : ~used[free_stack[k]]
  /\ free_top # 0 \/ ~deleted =>
       \A i \in Index : ~used[i] => \E k \in Stack : free_stack[k] = i

\* The pool behaves as an allocator.
Abstract == INSTANCE Allocator WITH
  Objects <- Index,
  out     <- IF deleted THEN {} ELSE {i \in Index : used[i]},
  alive   <- ~deleted

ImplementsAllocator == Abstract!Spec
=============================================================================

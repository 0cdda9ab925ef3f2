------------------------------ MODULE ReentrantHeap ------------------------------
(***************************************************************************)
(* The heap as src/napr_heap.c offers it: without a mutex to one thread,   *)
(* as ftwin uses it, or, when napr_heap_make_r made it, to several that    *)
(* call napr_heap_insert_r and napr_heap_extract_r.  These lock the heap   *)
(* around the functions that Heap models, but unlock it only when those    *)
(* succeed.                                                                *)
(***************************************************************************)
EXTENDS Heap

CONSTANTS
  Threads,   \* the threads that share the heap
  Nobody     \* the mutex is free

\* No datum is one of the names for what a thread does.
ASSUME ReentrantHeapAssumption ==
  /\ Nobody \notin Threads
  /\ Data \cap {"out", "extract", "in"} = {}

VARIABLES
  mutex_set,  \* heap->mutex_set
  owner,      \* the thread that holds heap->mutex
  at          \* what each thread is doing: "out" of a call, before the lock of an
              \* "extract" call or of one that inserts a datum, or "in" the heap

sharedvars == <<vars, mutex_set, owner, at>>

SharedInit ==
  /\ Init
  /\ mutex_set \in BOOLEAN
  /\ owner = Nobody
  /\ at = [t \in Threads |-> "out"]

Goes(t, from, to) == at[t] = from /\ at' = [at EXCEPT ![t] = to]

--------------------------------------------------------------------------------
Plain ==
  /\ ~mutex_set
  /\ Next
  /\ UNCHANGED <<mutex_set, owner, at>>

Call(t) ==
  /\ mutex_set
  /\ \/ Goes(t, "out", "extract")
     \/ \E d \in Data \ (Contents \cup {at[u] : u \in Threads}) : Goes(t, "out", d)
  /\ UNCHANGED <<vars, mutex_set, owner>>

\* The mutex is not a recursive one: it blocks its owner like the others.
Lock(t) == owner = Nobody /\ owner' = t

LockFails(t) ==
  /\ at[t] \in Data \cup {"extract"}
  /\ Goes(t, at[t], "out")
  /\ UNCHANGED <<vars, mutex_set, owner>>

napr_heap_insert_r(t) ==
  /\ Lock(t)
  /\ \E d \in Data : Goes(t, d, "in") /\ (Insert(d) \/ InsertGrows(d))
  /\ UNCHANGED mutex_set

napr_heap_extract_r(t) ==
  /\ Lock(t)
  /\ Goes(t, "extract", "in")
  /\ Extract
  /\ UNCHANGED mutex_set

\* The call returns -1 or NULL, and the mutex stays locked.
ReturnsLocked(t) ==
  /\ Lock(t)
  /\ \/ (\E d \in Data : Goes(t, d, "out")) /\ InsertFails
     \/ Goes(t, "extract", "out") /\ ExtractNothing
  /\ UNCHANGED mutex_set

Work(t) ==
  /\ owner = t
  /\ at[t] = "in"
  /\ Rise \/ Sink
  /\ UNCHANGED <<mutex_set, owner, at>>

\* Mutant of Unlock: a call that succeeds keeps the mutex as well.
KeepLocked == UNCHANGED owner

Unlock == owner' = Nobody

Release(t) ==
  /\ owner = t
  /\ Goes(t, "in", "out")
  /\ InsertReturns \/ ExtractReturns
  /\ Unlock
  /\ UNCHANGED mutex_set

Enter(t) == napr_heap_insert_r(t) \/ napr_heap_extract_r(t) \/ ReturnsLocked(t)

Kept == owner # Nobody /\ at[owner] # "in"

\* Every thread waits for a mutex that nobody will unlock.
Hung ==
  /\ Kept
  /\ \A t \in Threads : at[t] # "out"
  /\ UNCHANGED sharedvars

--------------------------------------------------------------------------------
SharedNext ==
  \/ Plain
  \/ \E t \in Threads : Call(t) \/ LockFails(t) \/ Enter(t) \/ Work(t) \/ Release(t)
  \/ Hung

SharedSpec == SharedInit /\ [][SharedNext]_sharedvars

\* A thread in a call goes on, and one for which the mutex is free again and again
\* gets it; nobody need call.
SharedFairSpec ==
  /\ SharedSpec
  /\ \A t \in Threads : WF_sharedvars(Work(t) \/ Release(t)) /\ SF_sharedvars(Enter(t))

--------------------------------------------------------------------------------
\* A call of a reentrant function returns, unless an earlier one returned with the
\* mutex locked, and that leaves the heap without data: it was found empty, or its
\* array was lost.
CallsReturn ==
  \A t \in Threads : at[t] # "out" ~> at[t] = "out" \/ (Kept /\ Contents = {})
================================================================================

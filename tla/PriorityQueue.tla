----------------------------- MODULE PriorityQueue -----------------------------
(***************************************************************************)
(* What napr_heap.h promises of a heap: it "is able to return the highest  *)
(* element of its set", whatever was inserted and extracted before.  Every *)
(* call takes effect in one step.                                          *)
(***************************************************************************)
EXTENDS Integers

CONSTANTS
  Data,     \* the pointers that may be inserted
  Weight,   \* [Data -> Nat], what the comparison callback orders them by
  Null,     \* what extracting from an empty heap returns
  MayFail   \* whether an insertion may run out of memory

VARIABLES
  queue,    \* the data in the heap
  ret       \* what the last extraction returned

Init == queue = {} /\ ret = Null

Insert ==
  /\ \E d \in Data \ queue : queue' = queue \cup {d}
  /\ UNCHANGED ret

Highest(d) == d \in queue /\ \A e \in queue : Weight[e] <= Weight[d]

Extract ==
  /\ Highest(ret')
  /\ queue' = queue \ {ret'}

ExtractNothing ==
  /\ queue = {}
  /\ ret' = Null
  /\ UNCHANGED queue

\* When the memory is exhausted the heap forgets everything.
Lose ==
  /\ MayFail
  /\ queue' = {}
  /\ UNCHANGED ret

Next == Insert \/ Extract \/ ExtractNothing \/ Lose

Spec == Init /\ [][Next]_<<queue, ret>>
================================================================================

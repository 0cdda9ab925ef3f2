------------------------------ MODULE WorkBarrier ------------------------------
(***************************************************************************)
(* What src/napr_threadpool.h promises to the caller of a pool, without    *)
(* threads, locks or queues: data may be submitted, every submitted datum  *)
(* is processed once, in any order, and napr_threadpool_wait returns only  *)
(* when all of it has been processed.  Threadpool is shown to implement    *)
(* this module.                                                            *)
(***************************************************************************)
CONSTANT Items

VARIABLES
  submitted,   \* data handed to napr_threadpool_add so far
  finished,    \* data whose processing has ended
  waiting      \* a napr_threadpool_wait is in progress

vars == <<submitted, finished, waiting>>

TypeOK ==
  /\ submitted \subseteq Items
  /\ finished \subseteq submitted
  /\ waiting \in BOOLEAN

Init ==
  /\ submitted = {}
  /\ finished = {}
  /\ waiting = FALSE

Submit(x) ==
  /\ ~waiting
  /\ x \notin submitted
  /\ submitted' = submitted \cup {x}
  /\ UNCHANGED <<finished, waiting>>

Finish(x) ==
  /\ x \in submitted \ finished
  /\ finished' = finished \cup {x}
  /\ UNCHANGED <<submitted, waiting>>

BeginWait ==
  /\ ~waiting
  /\ waiting' = TRUE
  /\ UNCHANGED <<submitted, finished>>

EndWait ==
  /\ waiting
  /\ finished = submitted
  /\ waiting' = FALSE
  /\ UNCHANGED <<submitted, finished>>

Next ==
  \/ \E x \in Items : Submit(x) \/ Finish(x)
  \/ BeginWait
  \/ EndWait

Spec == Init /\ [][Next]_vars
================================================================================

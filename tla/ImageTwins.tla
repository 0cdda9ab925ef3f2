------------------------------- MODULE ImageTwins -------------------------------
(***************************************************************************)
(* The report of similar images, ft_conf_image_twin_report of              *)
(* src/ftwin.c, as the program that uses the thread pool: it hands every   *)
(* file of the heap to the pool, whose workers run compute_vector on it,   *)
(* waits, and then compares the vectors two by two.                        *)
(*                                                                         *)
(* Every step of the pool is the one of Threadpool, taken together with    *)
(* what the report or compute_vector does in it.  The heap is the set of   *)
(* its files; libpuzzle is whether it can read an image, and which images  *)
(* it finds alike.  The progress counter is left out, its mutex is not.    *)
(***************************************************************************)
EXTENDS Threadpool

CONSTANT Alike   \* the pairs of images at a distance below conf->threshold

Pairs == {{x, y} : x, y \in Items} \ {{x} : x \in Items}

ASSUME ImageTwinsAssumption ==
  /\ Alike \subseteq Pairs
  /\ Null \notin Items

VARIABLES
  rpc,       \* where ft_conf_image_twin_report is
  cv_mutex,  \* cv_ctx.mutex: "none", "made" or "destroyed"
  cv_owner,  \* the worker that holds it, or None
  vpc,       \* where each worker is in compute_vector
  cvec,      \* the vector of each file
  heap,      \* conf->heap
  file,      \* the file whose row is compared, or None
  rest,      \* the files its loop over the heap has still to come to
  compared,  \* history: the pairs whose distance was computed
  cnt_cmp,
  printed    \* the output: <<file, file_cmp>> for every pair printed

vector == <<cv_owner, vpc, cvec>>
search == <<heap, file, rest, compared, cnt_cmp, printed>>
report == <<rpc, cv_mutex, vector, search>>
allvars == <<vars, report>>

ReportTypeOK ==
  /\ TypeOK
  /\ rpc \in {"start", "init", "add", "wait", "destroy", "next", "row", "done", "failed", "terminated"}
  /\ cv_mutex \in {"none", "made", "destroyed"}
  /\ cv_owner \in Workers \cup {None}
  /\ vpc \in [Workers -> {"out", "fill", "lock", "locked"}]
  /\ cvec \in [Items -> {"none", "filling", "ok", "unreadable", "freed"}]
  /\ heap \subseteq Items
  /\ file \in Items \cup {None}
  /\ rest \subseteq heap
  /\ compared \subseteq Pairs
  /\ cnt_cmp \in Nat
  /\ printed \subseteq Items \X Items

ReportInit ==
  /\ Init
  /\ rpc = "start"
  /\ cv_mutex = "none"
  /\ cv_owner = None
  /\ vpc = [w \in Workers |-> "out"]
  /\ cvec = [x \in Items |-> "none"]
  /\ heap = Items
  /\ file = None
  /\ rest = {}
  /\ compared = {}
  /\ cnt_cmp = 0
  /\ printed = {}

--------------------------------------------------------------------------------
(* Up to the comparison *)

CreateMutex ==
  /\ rpc = "start"
  /\ \/ rpc' = "init" /\ cv_mutex' = "made"
     \/ rpc' = "failed" /\ UNCHANGED cv_mutex
  /\ UNCHANGED <<vars, vector, search>>

InitPool ==
  /\ rpc = "init"
  /\ \/ (\E w \in Workers : CreateThread(w)) /\ UNCHANGED rpc
     \/ InitReturns /\ rpc' = "add"
  /\ UNCHANGED <<cv_mutex, vector, search>>

InitPoolFails ==
  /\ rpc = "init"
  /\ CreateFails
  /\ rpc' = "failed"
  /\ UNCHANGED <<cv_mutex, vector, search>>

\* Mutant of AllAdded: the loop over the heap ends one file too early.
AllButOneAdded == Cardinality(added) + 1 >= Cardinality(Items)

AllAdded == added = Items

\* napr_heap_get_nth yields each file of the heap once.
AddImages ==
  /\ rpc = "add"
  /\ \/ AddLock /\ ~AllAdded
     \/ \E x \in Items : AddEnqueue(x)
     \/ AddSignal
  /\ UNCHANGED report

AddFails ==
  /\ rpc = "add"
  /\ ~AllAdded
  /\ CallerLockFails
  /\ rpc' = "failed"
  /\ UNCHANGED <<cv_mutex, vector, search>>

CallWait ==
  /\ rpc = "add"
  /\ AllAdded
  /\ WaitLock
  /\ rpc' = "wait"
  /\ UNCHANGED <<cv_mutex, vector, search>>

\* The status of napr_threadpool_wait is not looked at.
WaitIsRefused ==
  /\ rpc = "add"
  /\ AllAdded
  /\ CallerLockFails
  /\ rpc' = "destroy"
  /\ UNCHANGED <<cv_mutex, vector, search>>

Waits ==
  /\ rpc = "wait"
  /\ \/ (WaitBlocks \/ WaitSkips \/ WaitWakes) /\ UNCHANGED rpc
     \/ Collect /\ rpc' = "destroy"
  /\ UNCHANGED <<cv_mutex, vector, search>>

\* A mutex that is held cannot be destroyed: EBUSY.
DestroyMutex ==
  /\ rpc = "destroy"
  /\ IF cv_owner = None
     THEN rpc' = "next" /\ cv_mutex' = "destroyed"
     ELSE rpc' = "failed" /\ UNCHANGED cv_mutex
  /\ UNCHANGED <<vars, vector, search>>

--------------------------------------------------------------------------------
(* The comparison *)

\* Mutant of Others: the loop over the rest of the heap starts at its second file.
OthersButOne(f) == heap \ {f, CHOOSE g \in heap : heap = {f} \/ g # f}

Others(f) == heap \ {f}

\* Bit 0 of cvec_ok, which stays set when the vector is freed.
CvecOk(x) == cvec[x] \in {"ok", "freed"}

NextImage(f) ==
  /\ rpc = "next"
  /\ f \in heap
  /\ heap' = heap \ {f}
  /\ IF CvecOk(f)
     THEN file' = f /\ rest' = Others(f) /\ rpc' = "row"
     ELSE UNCHANGED <<file, rest, rpc>>
  /\ UNCHANGED <<vars, cv_mutex, vector, compared, cnt_cmp, printed>>

Compare(g) ==
  /\ rpc = "row"
  /\ g \in rest
  /\ CvecOk(g)
  /\ rest' = rest \ {g}
  /\ compared' = compared \cup {{file, g}}
  /\ cnt_cmp' = cnt_cmp + 1
  /\ printed' = printed \cup (IF {file, g} \in Alike THEN {<<file, g>>} ELSE {})
  /\ UNCHANGED <<vars, rpc, cv_mutex, vector, heap, file>>

SkipUnreadable(g) ==
  /\ rpc = "row"
  /\ g \in rest
  /\ ~CvecOk(g)
  /\ rest' = rest \ {g}
  /\ UNCHANGED <<vars, rpc, cv_mutex, vector, heap, file, compared, cnt_cmp, printed>>

EndRow ==
  /\ rpc = "row"
  /\ rest = {}
  /\ cvec' = [cvec EXCEPT ![file] = "freed"]
  /\ file' = None
  /\ rpc' = "next"
  /\ UNCHANGED <<vars, cv_mutex, cv_owner, vpc, heap, rest, compared, cnt_cmp, printed>>

EndReport ==
  /\ rpc = "next"
  /\ heap = {}
  /\ rpc' = "done"
  /\ UNCHANGED <<vars, cv_mutex, vector, search>>

\* main calls apr_terminate, which frees the pool with its mutex and its condition,
\* and returns: the workers are never told.
Terminate ==
  /\ rpc \in {"done", "failed"}
  /\ rpc' = "terminated"
  /\ UNCHANGED <<vars, cv_mutex, vector, search>>

--------------------------------------------------------------------------------
(* The workers, which run compute_vector outside the pool's mutex *)

At(w, from, to) == vpc[w] = from /\ vpc' = [vpc EXCEPT ![w] = to]

CallComputeVector(w) ==
  /\ WorkerTakes(w)
  /\ At(w, "out", "fill")
  /\ cvec' = [cvec EXCEPT ![data'[w]] = "filling"]
  /\ UNCHANGED cv_owner

FillVector(w) ==
  /\ At(w, "fill", "lock")
  /\ \E result \in {"ok", "unreadable"} : cvec' = [cvec EXCEPT ![data[w]] = result]
  /\ UNCHANGED <<vars, cv_owner>>

CountLock(w) ==
  /\ At(w, "lock", "locked")
  /\ cv_owner = None
  /\ cv_owner' = w
  /\ UNCHANGED <<vars, cvec>>

\* Mutant of Unlock: compute_vector keeps its mutex.
KeepLocked == UNCHANGED cv_owner

Unlock == cv_owner' = None

CountUnlock(w) ==
  /\ At(w, "locked", "out")
  /\ Unlock
  /\ WorkerProcesses(w)
  /\ UNCHANGED cvec

\* The pool ignores what compute_vector returns.
CountLockFails(w) ==
  /\ At(w, "lock", "out")
  /\ WorkerProcesses(w)
  /\ UNCHANGED <<cv_owner, cvec>>

InComputeVector(w) ==
  \/ CallComputeVector(w)
  \/ FillVector(w)
  \/ CountLock(w)
  \/ CountUnlock(w)

InLoop(w) == (WorkerLocks(w) \/ WorkerWaits(w) \/ WorkerWakes(w)) /\ UNCHANGED vector

WorkerRuns(w) ==
  /\ rpc # "terminated"
  /\ InComputeVector(w) \/ InLoop(w)
  /\ UNCHANGED <<rpc, cv_mutex, search>>

WorkerFails(w) ==
  /\ rpc # "terminated"
  /\ CountLockFails(w) \/ (WorkerLockFails(w) /\ UNCHANGED vector)
  /\ UNCHANGED <<rpc, cv_mutex, search>>

Interrupted(t) ==
  /\ rpc # "terminated"
  /\ SpuriousWakeup(t)
  /\ UNCHANGED report

--------------------------------------------------------------------------------
ReportStep ==
  \/ CreateMutex
  \/ InitPool
  \/ AddImages
  \/ CallWait
  \/ Waits
  \/ DestroyMutex
  \/ \E f \in Items : NextImage(f) \/ Compare(f) \/ SkipUnreadable(f)
  \/ EndRow
  \/ EndReport
  \/ Terminate

ReportEnded == rpc = "terminated" /\ UNCHANGED allvars

ReportNext ==
  \/ ReportStep
  \/ InitPoolFails
  \/ AddFails
  \/ WaitIsRefused
  \/ \E w \in Workers : WorkerRuns(w) \/ WorkerFails(w)
  \/ \E t \in Threads : Interrupted(t)
  \/ ReportEnded

ReportSpec == ReportInit /\ [][ReportNext]_allvars

\* Every thread that can run does; images are read in finite time.
ReportFairSpec ==
  /\ ReportSpec
  /\ WF_allvars(ReportStep)
  /\ \A w \in Workers : WF_allvars(WorkerRuns(w))

--------------------------------------------------------------------------------
(* Properties *)

Waited == cpc = "ready" /\ rpc \in {"destroy", "next", "row", "done", "terminated"}

\* Once napr_threadpool_wait has succeeded every vector is finished, and no worker
\* is in compute_vector, or will be again: not when its mutex is destroyed, not
\* when vectors are compared and freed, not when apr_terminate frees the pool.
\* (A wait that fails is not noticed, and then none of this holds.)
VectorsFinished ==
  Waited =>
    /\ \A x \in Items : cvec[x] \in {"ok", "unreadable", "freed"}
    /\ \A w \in Workers : vpc[w] = "out" /\ wpc[w] \in {"loop", "blocked"}
    /\ list = <<>>

Freed == {x \in Items : cvec[x] = "freed"}
Readable == {x \in Items : cvec[x] # "unreadable"}

\* The pairs of readable images that one of the rows until now had to compare.
DuePairs == {p \in Pairs : p \subseteq Readable /\ (p \cap Freed # {} \/ (file \in p /\ p \cap rest = {}))}

PairsOf(S) == {{p[1], p[2]} : p \in S}

PairsAreDue ==
  Waited /\ rpc \in {"next", "row", "done"} =>
    /\ compared = DuePairs
    /\ cnt_cmp = Cardinality(compared)
    /\ PairsOf(printed) = compared \cap Alike

NoFreedVectorAhead == Waited /\ rpc = "row" => (rest \cup {file}) \cap Freed = {}

\* After a successful wait each pair of readable images is compared exactly once,
\* whichever of the two leaves the heap first, no vector is read after it was
\* freed, although its file still says that it has one, and the pairs printed are
\* those alike.
EveryPairOnce == ReportTypeOK /\ PairsAreDue /\ NoFreedVectorAhead

\* The report comes to an end unless a call of APR has failed; with a dead worker
\* napr_threadpool_wait would block for ever.
ReportEnds == <>(rpc = "terminated" \/ faults > 0)
================================================================================

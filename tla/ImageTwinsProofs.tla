---------------------------- MODULE ImageTwinsProofs ----------------------------
(***************************************************************************)
(* The report of similar images takes only steps that Threadpool allows,   *)
(* so every theorem of ThreadpoolProofs holds of it; and with the barrier  *)
(* of the pool, no vector is read before it is finished, and every pair of *)
(* readable images is compared once, for any number of workers and images. *)
(***************************************************************************)
EXTENDS ImageTwins, ThreadpoolProofs

(* The inductive strengthening of VectorsFinished. *)

Finished == {x \in Items : cvec[x] \in {"ok", "unreadable", "freed"}}

\* What the caller is doing in the pool follows from where the report is.
CallerInReport ==
  /\ rpc = "start" => cpc = "create"
  /\ rpc = "init" => cpc = "create"
  /\ rpc = "add" => cpc \in {"ready", "adding", "signal"}
  /\ rpc = "wait" => cpc \in {"waiting", "blocked", "collect"} /\ added = Items
  /\ rpc = "destroy" => cpc \in {"ready", "failed"}

\* A worker is in compute_vector exactly while the pool has it in the callback, and
\* the vector of a datum is finished before the callback returns.
CallbackInPool ==
  /\ vpc \in [Workers -> {"out", "fill", "lock", "locked"}]
  /\ cvec \in [Items -> {"none", "filling", "ok", "unreadable", "freed"}]
  /\ \A w \in Workers : vpc[w] # "out" <=> wpc[w] = "process"
  /\ \A w \in Workers : vpc[w] \in {"lock", "locked"} => data[w] \in Finished
  /\ processed \subseteq Finished

\* After the wait the workers only sleep and look at an empty list.
RestsAfterWait ==
  cpc = "ready" /\ rpc \in {"destroy", "next", "row", "done", "failed", "terminated"} =>
    /\ list = <<>>
    /\ processed = Items
    /\ \A w \in Workers : wpc[w] \in {"loop", "blocked"}

ReportInv == CallerInReport /\ CallbackInPool /\ RestsAfterWait

--------------------------------------------------------------------------------
\* A step of the report is a step of the pool, or leaves the pool alone.
LEMMA ReportStepOfPool == [ReportNext]_allvars => [Next]_vars
<1> SUFFICES ASSUME ReportNext PROVE [Next]_vars
  BY DEF allvars
<1>1. CASE ReportStep
  <2>1. CASE InitPool \/ AddImages \/ CallWait \/ Waits
    BY <1>1, <2>1 DEF InitPool, AddImages, CallWait, Waits, Next, CallStep
  <2>2. CASE CreateMutex \/ DestroyMutex \/ EndRow \/ EndReport \/ Terminate
    BY <2>2 DEF CreateMutex, DestroyMutex, EndRow, EndReport, Terminate
  <2>3. ASSUME NEW f \in Items, NextImage(f) \/ Compare(f) \/ SkipUnreadable(f)
        PROVE  UNCHANGED vars
    BY <2>3 DEF NextImage, Compare, SkipUnreadable
  <2> QED
    BY <1>1, <2>1, <2>2, <2>3 DEF ReportStep
<1>2. CASE InitPoolFails \/ AddFails \/ WaitIsRefused
  BY <1>2 DEF InitPoolFails, AddFails, WaitIsRefused, Next
<1>3. ASSUME NEW w \in Workers, WorkerRuns(w)
      PROVE  [Next]_vars
  <2>1. CASE InComputeVector(w)
    BY <2>1 DEF InComputeVector, CallComputeVector, FillVector, CountLock, CountUnlock,
                Next, WorkerStep
  <2>2. CASE InLoop(w)
    BY <2>2 DEF InLoop, Next, WorkerStep
  <2> QED
    BY <1>3, <2>1, <2>2 DEF WorkerRuns
<1>4. ASSUME NEW w \in Workers, WorkerFails(w)
      PROVE  [Next]_vars
  BY <1>4 DEF WorkerFails, CountLockFails, Next, WorkerStep
<1>5. ASSUME NEW t \in Threads, Interrupted(t)
      PROVE  [Next]_vars
  BY <1>5 DEF Interrupted, Next
<1>6. CASE ReportEnded
  BY <1>6 DEF ReportEnded, allvars
<1> QED
  BY <1>1, <1>2, <1>3, <1>4, <1>5, <1>6 DEF ReportNext

\* ft_conf_image_twin_report uses the pool in an order of calls that the pool was
\* checked and proved for.
THEOREM ReportUsesPool == ReportSpec => Spec
<1>1. ReportInit => Init
  BY DEF ReportInit
<1> QED
  BY <1>1, ReportStepOfPool, PTL DEF ReportSpec, Spec

--------------------------------------------------------------------------------
(* One lemma for every part of ReportInv. *)

LEMMA ReportInvInit == ReportInit => ReportInv
BY DEF ReportInit, Init, ReportInv, CallerInReport, CallbackInPool, RestsAfterWait, Finished

LEMMA CallerInReportStep ==
  ASSUME ReportInv, [ReportNext]_allvars
  PROVE  CallerInReport'
<1> USE DEF ReportInv, CallerInReport
<1>1. CASE UNCHANGED <<rpc, cpc, added>>
  BY <1>1
<1>2. CASE ReportStep
  <2>1. CASE CreateMutex
    BY <2>1 DEF CreateMutex, vars
  <2>2. CASE InitPool
    BY <2>2 DEF InitPool, CreateThread, InitReturns
  <2>3. CASE AddImages
    BY <2>3 DEF AddImages, AddLock, AddEnqueue, AddSignal, report
  <2>4. CASE CallWait
    BY <2>4 DEF CallWait, WaitLock, AllAdded, history
  <2>5. CASE Waits
    BY <2>5 DEF Waits, WaitBlocks, WaitSkips, WaitWakes, Collect, history
  <2>6. CASE DestroyMutex
    BY <2>6 DEF DestroyMutex
  <2>7. ASSUME NEW f \in Items, NextImage(f) \/ Compare(f) \/ SkipUnreadable(f)
        PROVE  CallerInReport'
    BY <2>7 DEF NextImage, Compare, SkipUnreadable, vars, history
  <2>8. CASE EndRow \/ EndReport \/ Terminate
    BY <2>8 DEF EndRow, EndReport, Terminate
  <2> QED
    BY <1>2, <2>1, <2>2, <2>3, <2>4, <2>5, <2>6, <2>7, <2>8 DEF ReportStep
<1>3. CASE InitPoolFails \/ AddFails \/ WaitIsRefused
  BY <1>3 DEF InitPoolFails, AddFails, WaitIsRefused, CreateFails, CallerLockFails
<1>4. ASSUME NEW w \in Workers, WorkerRuns(w) \/ WorkerFails(w)
      PROVE  UNCHANGED <<rpc, cpc, added>>
  BY <1>4 DEF WorkerRuns, WorkerFails, InComputeVector, CallComputeVector, FillVector, CountLock,
              CountUnlock, CountLockFails, InLoop, WorkerLocks, WorkerTakes, WorkerProcesses,
              WorkerWaits, WorkerWakes, WorkerLockFails, vars, history
<1>5. ASSUME NEW t \in Threads, Interrupted(t)
      PROVE  UNCHANGED <<rpc, cpc, added>>
  BY <1>5 DEF Interrupted, SpuriousWakeup, report
<1>6. CASE ReportEnded \/ UNCHANGED allvars
  BY <1>6 DEF ReportEnded, allvars, report, vars, history
<1> QED
  BY <1>1, <1>2, <1>3, <1>4, <1>5, <1>6 DEF ReportNext

\* What is queued is neither processed nor in a callback.
LEMMA HeadIsFresh ==
  ASSUME ControlInv, EachDatumOnce, list # <<>>
  PROVE  /\ Head(list) \in Items
         /\ Head(list) \notin processed
         /\ \A w \in Workers : data[w] # Head(list)
<1>1. list \in Seq(Items) /\ Head(list) = list[1] /\ 1 \in DOMAIN list
  BY DEF ControlInv, TypeOK
<1>2. Head(list) \in Items /\ Head(list) \in Queued
  BY <1>1 DEF Queued
<1>3. Head(list) # None
  BY <1>2, ThreadpoolAssumption
<1> QED
  BY <1>2, <1>3 DEF EachDatumOnce, Held

LEMMA CallbackInPoolStep ==
  ASSUME ControlInv, EachDatumOnce, ReportInv, [ReportNext]_allvars
  PROVE  CallbackInPool'
<1> USE DEF ReportInv, CallbackInPool, Finished
<1>1. ASSUME UNCHANGED <<vpc, cvec, data, processed>>,
             \A w \in Workers : wpc'[w] = "process" <=> wpc[w] = "process"
      PROVE  CallbackInPool'
  BY <1>1
<1>2. CASE ReportStep
  <2>1. ASSUME NEW v \in Workers, InitPool, CreateThread(v)
        PROVE  CallbackInPool'
    BY <2>1, <1>1 DEF InitPool, CreateThread, vector, history, ControlInv, TypeOK
  <2>2. CASE InitPool /\ InitReturns
    BY <2>2, <1>1 DEF InitPool, InitReturns, vector, history
  <2>3. CASE AddImages
    BY <2>3, <1>1 DEF AddImages, AddLock, AddEnqueue, AddSignal, report, vector, history
  <2>4. CASE CallWait \/ Waits
    BY <2>4, <1>1 DEF CallWait, Waits, WaitLock, WaitBlocks, WaitSkips, WaitWakes, Collect, vector, history
  <2>5. CASE EndRow
    BY <2>5 DEF EndRow, vars, history
  <2>6. CASE CreateMutex \/ DestroyMutex \/ EndReport \/ Terminate
    BY <2>6, <1>1 DEF CreateMutex, DestroyMutex, EndReport, Terminate, vector, vars, history
  <2>7. ASSUME NEW f \in Items, NextImage(f) \/ Compare(f) \/ SkipUnreadable(f)
        PROVE  CallbackInPool'
    BY <2>7, <1>1 DEF NextImage, Compare, SkipUnreadable, vector, vars, history
  <2> QED
    BY <1>2, <2>1, <2>2, <2>3, <2>4, <2>5, <2>6, <2>7 DEF ReportStep, InitPool
<1>3. CASE InitPoolFails \/ AddFails \/ WaitIsRefused
  BY <1>3, <1>1 DEF InitPoolFails, AddFails, WaitIsRefused, CreateFails, CallerLockFails, vector
<1>4. ASSUME NEW w \in Workers, InComputeVector(w) \/ CountLockFails(w)
      PROVE  CallbackInPool'
  <2> USE DEF ControlInv, TypeOK, HoldersProcess
  <2>1. CASE CallComputeVector(w)
    <3>1. list # <<>>
      BY <2>1, ListSteps DEF CallComputeVector, WorkerTakes
    <3>2. data' = [data EXCEPT ![w] = Head(list)] /\ data'[w] = Head(list)
      BY <2>1 DEF CallComputeVector, WorkerTakes, napr_list_first
    <3> QED
      BY <2>1, <3>1, <3>2, HeadIsFresh DEF CallComputeVector, WorkerTakes, At, history
  <2>2. CASE FillVector(w)
    BY <2>2 DEF FillVector, At, vars, history
  <2>3. CASE CountLock(w)
    BY <2>3 DEF CountLock, At, vars, history
  <2>4. CASE CountUnlock(w) \/ CountLockFails(w)
    BY <2>4 DEF CountUnlock, CountLockFails, At, WorkerProcesses
  <2> QED
    BY <1>4, <2>1, <2>2, <2>3, <2>4 DEF InComputeVector
<1>5. ASSUME NEW w \in Workers, InLoop(w) \/ (WorkerLockFails(w) /\ UNCHANGED vector)
      PROVE  CallbackInPool'
  BY <1>5, <1>1 DEF InLoop, WorkerLocks, WorkerWaits, WorkerWakes, WorkerLockFails, vector, history,
                    ControlInv, TypeOK
<1>6. ASSUME NEW t \in Threads, Interrupted(t)
      PROVE  CallbackInPool'
  BY <1>6, <1>1 DEF Interrupted, SpuriousWakeup, report, vector
<1>7. CASE ReportEnded \/ UNCHANGED allvars
  BY <1>7, <1>1 DEF ReportEnded, allvars, report, vector, vars, history
<1> QED
  BY <1>2, <1>3, <1>4, <1>5, <1>6, <1>7 DEF ReportNext, WorkerRuns, WorkerFails

LEMMA RestsAfterWaitStep ==
  ASSUME Caller \notin SpuriousThreads, ControlInv, RoundInv, ReportInv, [ReportNext]_allvars
  PROVE  RestsAfterWait'
<1> USE DEF ReportInv, RestsAfterWait
<1>1. ASSUME UNCHANGED <<cpc, list, processed, wpc>>,
             rpc \in {"destroy", "next", "row", "done", "failed"} \/ rpc' = rpc
      PROVE  RestsAfterWait'
  BY <1>1
<1>2. ASSUME cpc' # "ready" \/ rpc' \in {"start", "init", "add", "wait"}
      PROVE  RestsAfterWait'
  BY <1>2
<1>3. CASE ReportStep
  <2>1. CASE CreateMutex
    BY <2>1, <1>2 DEF CreateMutex, CallerInReport, vars
  <2>2. CASE InitPool \/ AddImages \/ CallWait
    BY <2>2, <1>2 DEF InitPool, AddImages, CallWait, report
  <2>3. CASE Waits /\ ~ Collect
    BY <2>3, <1>2 DEF Waits
  <2>4. CASE Waits /\ Collect
    <3>1. Blocked = Workers /\ processed = added /\ added = Items
      BY <2>4, CollectMeansDone DEF Collect, Waits, RoundInv, CollectIsIdle, CallerInReport
    <3> QED
      BY <2>4, <3>1 DEF Collect, Blocked, napr_list_make
  <2>5. CASE DestroyMutex \/ EndRow \/ EndReport \/ Terminate
    BY <2>5, <1>1 DEF DestroyMutex, EndRow, EndReport, Terminate, vars, shared, history
  <2>6. ASSUME NEW f \in Items, NextImage(f) \/ Compare(f) \/ SkipUnreadable(f)
        PROVE  RestsAfterWait'
    BY <2>6, <1>1 DEF NextImage, Compare, SkipUnreadable, vars, shared, history
  <2> QED
    BY <1>3, <2>1, <2>2, <2>3, <2>4, <2>5, <2>6 DEF ReportStep
<1>4. CASE InitPoolFails \/ AddFails \/ WaitIsRefused
  BY <1>4, <1>2 DEF InitPoolFails, AddFails, WaitIsRefused, CreateFails, CallerLockFails
<1>5. ASSUME NEW w \in Workers, WorkerRuns(w) \/ WorkerFails(w)
      PROVE  RestsAfterWait'
  <2> USE DEF ControlInv, TypeOK
  <2>1. rpc' = rpc
    BY <1>5 DEF WorkerRuns, WorkerFails
  <2>2. CASE CallComputeVector(w)
    BY <2>1, <2>2, ListSteps DEF CallComputeVector, WorkerTakes
  <2>3. CASE FillVector(w) \/ CountLock(w)
    BY <2>1, <2>3, <1>1 DEF FillVector, CountLock, vars, shared, history
  <2>4. CASE CountUnlock(w) \/ CountLockFails(w)
    BY <2>1, <2>4 DEF CountUnlock, CountLockFails, WorkerProcesses
  <2>5. CASE WorkerLocks(w) \/ WorkerWaits(w) \/ WorkerWakes(w) \/ WorkerLockFails(w)
    BY <2>1, <2>5 DEF WorkerLocks, WorkerWaits, WorkerWakes, WorkerLockFails, shared, history
  <2> QED
    BY <1>5, <2>2, <2>3, <2>4, <2>5 DEF WorkerRuns, WorkerFails, InComputeVector, InLoop
<1>6. ASSUME NEW t \in Threads, Interrupted(t)
      PROVE  RestsAfterWait'
  BY <1>6, <1>1 DEF Interrupted, SpuriousWakeup, report, shared
<1>7. CASE ReportEnded \/ UNCHANGED allvars
  BY <1>7, <1>1 DEF ReportEnded, allvars, report, vars, shared, history
<1> QED
  BY <1>3, <1>4, <1>5, <1>6, <1>7 DEF ReportNext

--------------------------------------------------------------------------------
THEOREM ReportInvariant ==
  ASSUME Caller \notin SpuriousThreads
  PROVE  ReportSpec => []ReportInv
<1>1. ControlInv /\ RoundInv /\ ReportInv /\ [ReportNext]_allvars => ReportInv'
  BY CallerInReportStep, CallbackInPoolStep, RestsAfterWaitStep DEF ReportInv, RoundInv
<1>2. ReportSpec => [](ControlInv /\ RoundInv)
  BY ReportUsesPool, ControlInvariant, RoundInvariant, PTL
<1> QED
  BY <1>1, <1>2, ReportInvInit, PTL DEF ReportSpec

\* Once napr_threadpool_wait has succeeded, every vector is finished and no worker
\* is in compute_vector, or ever will be: not when its mutex is destroyed, not
\* when the vectors are compared and freed, not at apr_terminate.
THEOREM VectorsAreFinished ==
  ASSUME Caller \notin SpuriousThreads
  PROVE  ReportSpec => []VectorsFinished
<1>1. ReportInv => VectorsFinished
  BY DEF ReportInv, CallbackInPool, RestsAfterWait, VectorsFinished, Waited, Finished
<1> QED
  BY <1>1, ReportInvariant, PTL

--------------------------------------------------------------------------------
(* The comparison: the inductive strengthening of EveryPairOnce. *)

\* A row is open only in the inner loop,
\* and nothing of the comparison is done or freed before the wait is over.
RowIsOpen ==
  /\ rpc = "row" => file \in Items \ heap
  /\ rpc # "row" => file = None /\ rest = {}
  /\ rpc \in {"start", "init", "add", "wait", "destroy"} =>
       /\ heap = Items
       /\ compared = {} /\ cnt_cmp = 0 /\ printed = {}
       /\ \A x \in Items : cvec[x] # "freed"

\* Where a file is and what became of its vector go together.
VectorsFollowHeap ==
  Waited /\ rpc \in {"next", "row", "done"} =>
    /\ rpc = "row" => cvec[file] = "ok"
    /\ \A x \in heap : cvec[x] \in {"ok", "unreadable"}
    /\ \A x \in Items \ heap : x # file => cvec[x] \in {"unreadable", "freed"}

SearchInv == ReportTypeOK /\ RowIsOpen /\ VectorsFollowHeap /\ IsFiniteSet(compared) /\ PairsAreDue

--------------------------------------------------------------------------------
(* Steps are of three kinds: those of the comparison, those of the report      *)
(* around it, and those of the workers.                                       *)

Compares == EndRow \/ \E f \in Items : NextImage(f) \/ Compare(f) \/ SkipUnreadable(f)

Early == {"start", "init", "add", "wait", "destroy"}
Late == {"next", "row", "done"}

\* A step of the report that is not one of the comparison leaves the comparison
\* alone, and begins it only by DestroyMutex.
LEMMA AroundComparison ==
  ASSUME ReportNext, ~ Compares, ~ (\E w \in Workers : WorkerRuns(w) \/ WorkerFails(w))
  PROVE  /\ UNCHANGED <<search, vector>>
         /\ rpc' # "row" \/ UNCHANGED <<rpc, cpc>>
         /\ rpc # "row" \/ UNCHANGED <<rpc, cpc>>
         /\ rpc' \in Early => rpc \in Early
         /\ rpc' \in Late => cpc' = cpc /\ (rpc \in Late \/ rpc = "destroy")
<1> USE DEF Early, Late
<1>1. CASE CreateMutex \/ DestroyMutex \/ EndReport \/ Terminate
  BY <1>1 DEF CreateMutex, DestroyMutex, EndReport, Terminate, vars
<1>2. CASE InitPool \/ AddImages \/ CallWait \/ Waits
  BY <1>2 DEF InitPool, AddImages, CallWait, Waits, report
<1>3. CASE InitPoolFails \/ AddFails \/ WaitIsRefused
  BY <1>3 DEF InitPoolFails, AddFails, WaitIsRefused
<1>4. ASSUME NEW t \in Threads, Interrupted(t)
      PROVE  UNCHANGED <<rpc, cpc, search, vector>>
  BY <1>4 DEF Interrupted, SpuriousWakeup, report
<1>5. CASE ReportEnded
  BY <1>5 DEF ReportEnded, allvars, report, vars
<1> QED
  BY <1>1, <1>2, <1>3, <1>4, <1>5 DEF ReportNext, ReportStep, Compares

\* The workers leave the comparison alone too, and once the wait is over they leave
\* the vectors alone.
LEMMA WorkersBesideComparison ==
  ASSUME ControlInv, ReportInv, NEW w \in Workers, WorkerRuns(w) \/ WorkerFails(w)
  PROVE  /\ UNCHANGED <<search, rpc, cpc>>
         /\ \A x \in Items : cvec'[x] = "freed" => cvec[x] = "freed"
         /\ Waited => UNCHANGED cvec
<1> USE DEF ReportInv, CallbackInPool
<1>1. UNCHANGED <<search, rpc, cpc>>
  BY DEF WorkerRuns, WorkerFails, InComputeVector, CallComputeVector, FillVector, CountLock,
         CountUnlock, CountLockFails, InLoop, WorkerLocks, WorkerTakes, WorkerProcesses,
         WorkerWaits, WorkerWakes, WorkerLockFails, vars
<1>2. CASE CallComputeVector(w)
  <2>1. list # <<>>
    BY <1>2, ListSteps DEF CallComputeVector, WorkerTakes
  <2> QED
    BY <1>1, <1>2, <2>1 DEF CallComputeVector, RestsAfterWait, Waited
<1>3. CASE FillVector(w)
  <2>1. vpc[w] = "fill" /\ wpc[w] = "process"
    BY <1>3 DEF FillVector, At
  <2> QED
    BY <1>1, <1>3, <2>1 DEF FillVector, RestsAfterWait, Waited
<1>4. CASE CountLock(w) \/ CountUnlock(w) \/ CountLockFails(w)
  BY <1>1, <1>4 DEF CountLock, CountUnlock, CountLockFails
<1>5. CASE InLoop(w) \/ (WorkerLockFails(w) /\ UNCHANGED vector)
  BY <1>1, <1>5 DEF InLoop, vector
<1> QED
  BY <1>2, <1>3, <1>4, <1>5 DEF WorkerRuns, WorkerFails, InComputeVector

LEMMA RowIsOpenStep ==
  ASSUME ControlInv, ReportInv, ReportTypeOK, RowIsOpen, [ReportNext]_allvars
  PROVE  RowIsOpen'
<1> USE DEF RowIsOpen
<1>1. CASE UNCHANGED allvars
  BY <1>1 DEF allvars, report, search, vector
<1>2. CASE ReportNext /\ ~ Compares /\ ~ (\E w \in Workers : WorkerRuns(w) \/ WorkerFails(w))
  BY <1>2, AroundComparison DEF search, vector, Early
<1>3. ASSUME NEW w \in Workers, WorkerRuns(w) \/ WorkerFails(w)
      PROVE  RowIsOpen'
  BY <1>3, WorkersBesideComparison DEF search
<1>4. CASE Compares
  BY <1>4 DEF Compares, EndRow, NextImage, Compare, SkipUnreadable, Others
<1> QED
  BY <1>1, <1>2, <1>3, <1>4

\* The types of the report: what RowIsOpen says keeps rest within the heap, and a
\* file apart from the file whose row is compared.
LEMMA PairIsPair ==
  ASSUME NEW x \in Items, NEW y \in Items, x # y
  PROVE  {x, y} \in Pairs
BY DEF Pairs

LEMMA ReportTypeOKStep ==
  ASSUME ControlInv', CallbackInPool', ReportTypeOK, RowIsOpen, [ReportNext]_allvars
  PROVE  ReportTypeOK'
<1> USE DEF ReportTypeOK
<1>1. /\ TypeOK'
      /\ (vpc \in [Workers -> {"out", "fill", "lock", "locked"}])'
      /\ (cvec \in [Items -> {"none", "filling", "ok", "unreadable", "freed"}])'
  BY DEF ControlInv, CallbackInPool
<1> DEFINE Places == /\ rpc \in {"start", "init", "add", "wait", "destroy", "next", "row", "done", "failed", "terminated"}
                     /\ cv_mutex \in {"none", "made", "destroyed"}
                     /\ cv_owner \in Workers \cup {None}
           Search == /\ heap \subseteq Items /\ file \in Items \cup {None} /\ rest \subseteq heap
                     /\ compared \subseteq Pairs /\ cnt_cmp \in Nat /\ printed \subseteq Items \X Items
<1>2. Places'
  <2>1. CASE CreateMutex \/ DestroyMutex \/ EndRow \/ EndReport \/ Terminate \/ UNCHANGED allvars \/ ReportEnded
    BY <2>1 DEF CreateMutex, DestroyMutex, EndRow, EndReport, Terminate, ReportEnded, allvars, report, vector
  <2>2. CASE InitPool \/ AddImages \/ CallWait \/ Waits \/ InitPoolFails \/ AddFails \/ WaitIsRefused
    BY <2>2 DEF InitPool, AddImages, CallWait, Waits, InitPoolFails, AddFails, WaitIsRefused, report, vector
  <2>3. ASSUME NEW f \in Items, NextImage(f) \/ Compare(f) \/ SkipUnreadable(f)
        PROVE  Places'
    BY <2>3 DEF NextImage, Compare, SkipUnreadable, vector
  <2>4. ASSUME NEW w \in Workers, WorkerRuns(w) \/ WorkerFails(w)
        PROVE  Places'
    BY <2>4 DEF WorkerRuns, WorkerFails, InComputeVector, CallComputeVector, FillVector, CountLock,
                CountUnlock, Unlock, CountLockFails, InLoop, vector
  <2>5. ASSUME NEW t \in Threads, Interrupted(t)
        PROVE  Places'
    BY <2>5 DEF Interrupted, report, vector
  <2> QED
    BY <2>1, <2>2, <2>3, <2>4, <2>5 DEF ReportNext, ReportStep
<1>3. Search'
  <2>1. CASE UNCHANGED search
    BY <2>1 DEF search
  <2>2. CASE UNCHANGED allvars
    BY <2>1, <2>2 DEF allvars, report
  <2>3. ASSUME NEW w \in Workers, WorkerRuns(w) \/ WorkerFails(w)
        PROVE  UNCHANGED search
    BY <2>3 DEF WorkerRuns, WorkerFails
  <2>4. CASE EndRow
    BY <2>4 DEF EndRow
  <2>5. ASSUME NEW f \in Items, NextImage(f) \/ SkipUnreadable(f)
        PROVE  Search'
    BY <2>5 DEF NextImage, SkipUnreadable, Others, RowIsOpen
  <2>6. ASSUME NEW g \in Items, Compare(g)
        PROVE  Search'
    <3>1. file \in Items /\ file # g
      BY <2>6 DEF Compare, RowIsOpen
    <3>2. {file, g} \in Pairs
      BY <3>1, PairIsPair
    <3>3. compared' = compared \cup {{file, g}} /\ printed' \subseteq printed \cup {<<file, g>>}
      BY <2>6 DEF Compare
    <3>4. heap' = heap /\ file' = file /\ rest' \subseteq rest /\ cnt_cmp' = cnt_cmp + 1
      BY <2>6 DEF Compare
    <3>5. compared \subseteq Pairs /\ cnt_cmp \in Nat /\ rest \subseteq heap /\ heap \subseteq Items
          /\ printed \subseteq Items \X Items
      OBVIOUS
    <3> HIDE DEF ReportTypeOK, Pairs
    <3>6. compared' \subseteq Pairs
      BY <3>2, <3>3, <3>5
    <3>7. <<file, g>> \in Items \X Items
      BY <3>1
    <3>8. printed' \subseteq Items \X Items
      BY <3>3, <3>5, <3>7
    <3> QED
      BY <3>1, <3>4, <3>5, <3>6, <3>8
  <2>7. CASE Compares
    BY <2>4, <2>5, <2>6, <2>7 DEF Compares
  <2>8. CASE ReportNext /\ ~ Compares /\ ~ (\E w \in Workers : WorkerRuns(w) \/ WorkerFails(w))
    BY <2>1, <2>8, AroundComparison
  <2>9. CASE \E w \in Workers : WorkerRuns(w) \/ WorkerFails(w)
    BY <2>1, <2>3, <2>9
  <2> QED
    BY <2>2, <2>7, <2>8, <2>9
<1> QED
  BY <1>1, <1>2, <1>3

LEMMA VectorsFollowHeapStep ==
  ASSUME ControlInv, ReportInv, ReportTypeOK, RowIsOpen, VectorsFollowHeap, VectorsFinished',
         [ReportNext]_allvars
  PROVE  VectorsFollowHeap'
<1> USE DEF VectorsFollowHeap, Waited
<1>1. CASE UNCHANGED allvars
  BY <1>1 DEF allvars, report, search, vector, vars
<1>2. CASE ReportNext /\ ~ Compares /\ ~ (\E w \in Workers : WorkerRuns(w) \/ WorkerFails(w))
  <2>1. SUFFICES ASSUME Waited', rpc' \in Late
                 PROVE  VectorsFollowHeap'
    BY DEF Late
  <2>2. UNCHANGED <<search, vector, cpc>>
    BY <1>2, <2>1, AroundComparison
  <2>3. CASE rpc \in Late
    BY <1>2, <2>1, <2>2, <2>3, AroundComparison DEF Late, search, vector
  <2>4. CASE rpc = "destroy"
    <3>1. heap' = Items /\ \A x \in Items : cvec'[x] \in {"ok", "unreadable", "freed"} /\ cvec'[x] # "freed"
      BY <2>1, <2>2, <2>4 DEF VectorsFinished, RowIsOpen, search, vector
    <3>2. rpc' # "row"
      BY <1>2, <2>4, AroundComparison
    <3> QED
      BY <3>1, <3>2
  <2> QED
    BY <1>2, <2>1, <2>3, <2>4, AroundComparison
<1>3. ASSUME NEW w \in Workers, WorkerRuns(w) \/ WorkerFails(w)
      PROVE  VectorsFollowHeap'
  BY <1>3, WorkersBesideComparison DEF search
<1>4. CASE EndRow
  BY <1>4 DEF EndRow, RowIsOpen, ReportTypeOK, vars
<1>5. ASSUME NEW f \in Items, NextImage(f) \/ Compare(f) \/ SkipUnreadable(f)
      PROVE  VectorsFollowHeap'
  <2>1. CASE NextImage(f)
    BY <2>1, ThreadpoolAssumption DEF NextImage, CvecOk, RowIsOpen, ReportTypeOK, vars, vector
  <2>2. CASE Compare(f) \/ SkipUnreadable(f)
    BY <2>2 DEF Compare, SkipUnreadable, vars, vector
  <2> QED
    BY <1>5, <2>1, <2>2
<1> QED
  BY <1>1, <1>2, <1>3, <1>4, <1>5 DEF Compares

--------------------------------------------------------------------------------
(* The pairs that were compared are the pairs that were due.                  *)

LEMMA OnePairMore ==
  ASSUME NEW S, NEW q
  PROVE  PairsOf(S \cup {q}) = PairsOf(S) \cup {{q[1], q[2]}}
BY DEF PairsOf

\* A comparison adds the one pair that became due.
LEMMA ComparedStep ==
  ASSUME ReportTypeOK, ReportTypeOK', RowIsOpen, VectorsFollowHeap, IsFiniteSet(compared), PairsAreDue,
         Waited, NEW g \in Items, Compare(g)
  PROVE  IsFiniteSet(compared)' /\ PairsAreDue'
<1> USE DEF Compare, ReportTypeOK, RowIsOpen, VectorsFollowHeap
<1>1. /\ file \in Items /\ g \in heap /\ g # file /\ cvec[file] = "ok" /\ cvec[g] = "ok"
      /\ {file, g} \in Pairs
  <2>1. file \in Items /\ g \in heap /\ g # file /\ cvec[file] = "ok" /\ cvec[g] = "ok"
    BY DEF CvecOk
  <2> QED
    BY <2>1, PairIsPair
<1>2. compared = DuePairs /\ cnt_cmp = Cardinality(compared)
  BY DEF PairsAreDue
<1>3. UNCHANGED <<cvec, file, rpc>>
  BY DEF vector
<1>4. DuePairs' = DuePairs \cup {{file, g}}
  <2>1. UNCHANGED <<Freed, Readable>>
    BY <1>3 DEF Freed, Readable
  <2>2. \A p \in Pairs : file \in p /\ g \in p => p = {file, g}
    BY <1>1 DEF Pairs
  <2>3. {file, g} \subseteq Readable
    BY <1>1 DEF Readable
  <2>4. {file, g} \cap rest' = {}
    BY <1>1
  <2> QED
    BY <1>1, <1>3, <2>1, <2>2, <2>3, <2>4 DEF DuePairs
<1>5. {file, g} \notin DuePairs
  BY <1>1 DEF DuePairs, Freed
<1>6. IsFiniteSet(compared') /\ cnt_cmp' = Cardinality(compared')
  BY <1>2, <1>5, FS_AddElement
<1>7. PairsOf(printed') = compared' \cap Alike
  <2>1. PairsOf(printed) = compared \cap Alike
    BY DEF PairsAreDue
  <2>2. compared' = compared \cup {{file, g}}
    OBVIOUS
  <2> HIDE DEF ReportTypeOK, RowIsOpen, VectorsFollowHeap
  <2>3. CASE {file, g} \in Alike
    <3>1. printed' = printed \cup {<<file, g>>}
      BY <2>3
    <3> HIDE DEF Compare
    <3>2. PairsOf(printed') = PairsOf(printed) \cup {{file, g}}
      <4> DEFINE q == <<file, g>>
      <4>1. PairsOf(printed \cup {q}) = PairsOf(printed) \cup {{q[1], q[2]}}
        <5> HIDE DEF q
        <5> QED
          BY OnePairMore
      <4> QED
        BY <3>1, <4>1
    <3>3. (compared \cup {{file, g}}) \cap Alike = (compared \cap Alike) \cup {{file, g}}
      BY <2>3
    <3> QED
      BY <2>1, <2>2, <3>2, <3>3, Zenon
  <2>4. CASE {file, g} \notin Alike
    <3>1. printed' = printed
      BY <2>4
    <3> QED
      BY <2>1, <2>2, <2>4, <3>1
  <2> QED
    BY <2>3, <2>4
<1> QED
  BY <1>2, <1>4, <1>6, <1>7 DEF PairsAreDue, PairsOf

\* No other step makes a pair due, or compares one.
LEMMA PairsAreDueStep ==
  ASSUME ControlInv, ReportInv, ReportTypeOK, ReportTypeOK', RowIsOpen, VectorsFollowHeap,
         IsFiniteSet(compared), PairsAreDue, [ReportNext]_allvars
  PROVE  IsFiniteSet(compared)' /\ PairsAreDue'
<1> DEFINE Same == UNCHANGED <<compared, cnt_cmp, printed>>
<1>1. ASSUME Same, Waited /\ rpc \in Late, DuePairs' = DuePairs
      PROVE  IsFiniteSet(compared)' /\ PairsAreDue'
  BY <1>1 DEF PairsAreDue, Late, PairsOf
<1>2. ASSUME UNCHANGED <<search, cvec>>
      PROVE  Same /\ DuePairs' = DuePairs
  BY <1>2 DEF search, DuePairs, Readable, Freed
<1>3. ASSUME Same, ~(Waited /\ rpc \in Late)'
      PROVE  IsFiniteSet(compared)' /\ PairsAreDue'
  BY <1>3 DEF PairsAreDue, Late
<1>4. CASE UNCHANGED allvars
  <2>1. UNCHANGED <<search, cvec, rpc, cpc>>
    BY <1>4 DEF allvars, report, vector, vars
  <2> QED
    BY <2>1, <1>1, <1>2, <1>3 DEF Waited
<1>5. CASE ReportNext /\ ~ Compares /\ ~ (\E w \in Workers : WorkerRuns(w) \/ WorkerFails(w))
  <2>1. UNCHANGED <<search, cvec>>
    BY <1>5, AroundComparison DEF vector
  <2>2. SUFFICES ASSUME Waited', rpc' \in Late
                 PROVE  IsFiniteSet(compared)' /\ PairsAreDue'
    BY <2>1, <1>2, <1>3
  <2>3. cpc' = cpc /\ (rpc \in Late \/ rpc = "destroy")
    BY <1>5, <2>2, AroundComparison
  <2>4. Waited
    BY <2>2, <2>3 DEF Waited, Late
  <2>5. CASE rpc \in Late
    BY <2>1, <2>4, <2>5, <1>1, <1>2
  <2>6. CASE rpc = "destroy"
    <3>1. compared' = {} /\ cnt_cmp' = 0 /\ printed' = {}
      BY <2>1, <2>6 DEF search, RowIsOpen
    <3>2. Freed' = {} /\ file' = None
      BY <2>1, <2>6 DEF search, RowIsOpen, Freed
    <3>3. DuePairs' = {}
      BY <3>2, ThreadpoolAssumption DEF DuePairs, Pairs
    <3> QED
      BY <3>1, <3>3, FS_EmptySet DEF PairsAreDue, PairsOf
  <2> QED
    BY <2>3, <2>5, <2>6
<1>6. ASSUME NEW w \in Workers, WorkerRuns(w) \/ WorkerFails(w)
      PROVE  IsFiniteSet(compared)' /\ PairsAreDue'
  <2>1. UNCHANGED <<search, rpc, cpc>> /\ (Waited => UNCHANGED cvec)
    BY <1>6, WorkersBesideComparison
  <2> QED
    BY <2>1, <1>1, <1>2, <1>3 DEF Waited, search
<1>7. ASSUME Compares
      PROVE  Waited' <=> Waited
  BY <1>7 DEF Compares, EndRow, NextImage, Compare, SkipUnreadable, Waited, vars
<1>8. CASE EndRow
  <2>1. Same
    BY <1>8 DEF EndRow
  <2>2. SUFFICES ASSUME Waited PROVE DuePairs' = DuePairs
    BY <1>1, <1>3, <1>7, <1>8, <2>1 DEF EndRow, Late, Compares
  <2>3. file \in Items /\ cvec[file] = "ok" /\ rest = {} /\ rest' = {} /\ file' = None
    BY <1>8, <2>2 DEF EndRow, RowIsOpen, VectorsFollowHeap
  <2>4. Readable' = Readable /\ Freed' = Freed \cup {file}
    BY <1>8, <2>3 DEF EndRow, Readable, Freed, ReportTypeOK
  <2>5. \A p \in Pairs : None \notin p
    BY ThreadpoolAssumption DEF Pairs
  <2> QED
    BY <2>3, <2>4, <2>5 DEF DuePairs
<1>9. ASSUME NEW f \in Items, NextImage(f)
      PROVE  IsFiniteSet(compared)' /\ PairsAreDue'
  <2>1. Same /\ UNCHANGED cvec
    BY <1>9 DEF NextImage, vector
  <2>2. SUFFICES ASSUME Waited PROVE DuePairs' = DuePairs
    BY <1>1, <1>3, <1>7, <1>9, <2>1 DEF NextImage, Late, Compares
  <2>3. Readable' = Readable /\ Freed' = Freed
    BY <2>1 DEF Readable, Freed
  <2>4. file = None /\ \A p \in Pairs : None \notin p
    BY <1>9, ThreadpoolAssumption DEF NextImage, RowIsOpen, Pairs
  <2>5. CASE CvecOk(f)
    <3>1. file' = f /\ rest' = heap \ {f}
      BY <1>9, <2>5 DEF NextImage, Others
    <3>2. \A x \in Readable : x \in heap \/ x \in Freed
      BY <2>2, <2>4, <1>9, ThreadpoolAssumption DEF NextImage, VectorsFollowHeap, Readable, Freed
    <3>3. \A p \in Pairs : f \in p => \E x \in p : x # f
      BY DEF Pairs
    <3>4. \A p \in Pairs : p \subseteq Readable /\ f \in p /\ p \cap rest' = {} => p \cap Freed # {}
      BY <3>1, <3>2, <3>3
    <3> QED
      BY <3>1, <3>4, <2>3, <2>4 DEF DuePairs
  <2>6. CASE ~CvecOk(f)
    <3>1. file' = file /\ rest' = rest
      BY <1>9, <2>6 DEF NextImage
    <3> QED
      BY <3>1, <2>3 DEF DuePairs
  <2> QED
    BY <2>5, <2>6
<1>10. ASSUME NEW g \in Items, SkipUnreadable(g)
       PROVE  IsFiniteSet(compared)' /\ PairsAreDue'
  <2>1. Same /\ UNCHANGED <<cvec, file>> /\ rest' = rest \ {g}
    BY <1>10 DEF SkipUnreadable, vector
  <2>2. SUFFICES ASSUME Waited PROVE DuePairs' = DuePairs
    BY <1>1, <1>3, <1>7, <1>10, <2>1 DEF SkipUnreadable, Late, Compares
  <2>3. Readable' = Readable /\ Freed' = Freed
    BY <2>1 DEF Readable, Freed
  <2>4. g \notin Readable
    BY <1>10, <2>2 DEF SkipUnreadable, CvecOk, VectorsFollowHeap, Readable, ReportTypeOK
  <2> QED
    BY <2>1, <2>3, <2>4 DEF DuePairs
<1>11. ASSUME NEW g \in Items, Compare(g)
       PROVE  IsFiniteSet(compared)' /\ PairsAreDue'
  <2>1. CASE Waited
    BY <1>11, <2>1, ComparedStep
  <2>2. CASE ~ Waited
    <3>1. compared' = compared \cup {{file, g}}
      BY <1>11 DEF Compare
    <3>2. IsFiniteSet(compared')
      BY <3>1, FS_AddElement
    <3> QED
      BY <1>7, <1>11, <2>2, <3>2 DEF PairsAreDue, Compares
  <2> QED
    BY <2>1, <2>2
<1> QED
  BY <1>4, <1>5, <1>6, <1>8, <1>9, <1>10, <1>11 DEF Compares

--------------------------------------------------------------------------------
LEMMA SearchInvInit ==
  ASSUME ReportInit, ControlInv
  PROVE  SearchInv
<1>1. IsFiniteSet(compared) /\ compared = {}
  BY FS_EmptySet DEF ReportInit
<1>2. ReportTypeOK
  BY DEF ReportInit, ReportTypeOK, ControlInv
<1> QED
  BY <1>1, <1>2 DEF ReportInit, SearchInv, RowIsOpen, VectorsFollowHeap, PairsAreDue

\* The inductive invariant of the comparison.
THEOREM SearchInvariant ==
  ASSUME Caller \notin SpuriousThreads
  PROVE  ReportSpec => []SearchInv
<1>1. /\ ControlInv /\ ReportInv /\ SearchInv /\ [ReportNext]_allvars
      /\ ControlInv' /\ ReportInv'
      => SearchInv'
  <2> SUFFICES ASSUME ControlInv, ReportInv, SearchInv, [ReportNext]_allvars, ControlInv', ReportInv'
               PROVE  SearchInv'
    OBVIOUS
  <2> USE DEF SearchInv
  <2>1. ReportTypeOK'
    BY ReportTypeOKStep DEF ReportInv
  <2>2. VectorsFinished'
    BY DEF ReportInv, CallbackInPool, RestsAfterWait, VectorsFinished, Waited, Finished
  <2> QED
    BY <2>1, <2>2, RowIsOpenStep, VectorsFollowHeapStep, PairsAreDueStep
<1>2. ReportSpec => [](ControlInv /\ ReportInv)
  BY ReportUsesPool, ControlInvariant, ReportInvariant, PTL
<1> QED
  BY <1>1, <1>2, SearchInvInit, PTL DEF ReportSpec

\* After a successful wait each pair of readable images is compared exactly once,
\* in whatever order the heap yields them, no vector is read after it was freed, and
\* what is printed are the pairs alike.
THEOREM PairsComparedOnce ==
  ASSUME Caller \notin SpuriousThreads
  PROVE  ReportSpec => []EveryPairOnce
<1>1. SearchInv => NoFreedVectorAhead
  BY DEF SearchInv, NoFreedVectorAhead, ReportTypeOK, VectorsFollowHeap, Freed
<1>2. SearchInv => EveryPairOnce
  BY <1>1 DEF SearchInv, EveryPairOnce
<1> QED
  BY <1>2, SearchInvariant, PTL
================================================================================

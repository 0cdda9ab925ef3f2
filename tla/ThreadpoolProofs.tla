--------------------------- MODULE ThreadpoolProofs ----------------------------
(***************************************************************************)
(* Proofs about Threadpool, for any finite set of workers, any set of data *)
(* and any number of rounds, failed calls and spurious wakeups.  The       *)
(* invariant is proved in three layers, each of which uses the ones below. *)
(***************************************************************************)
EXTENDS Threadpool, FiniteSetTheorems, TLAPS

USE DEF napr_list_make, napr_list_first, napr_list_cdr

\* A datum enqueued is the last one of the list, the empty list included.
LEMMA EnqueuedIsLast ==
  ASSUME NEW S, NEW l \in Seq(S), NEW x \in S
  PROVE  napr_list_enqueue(l, x) = Append(l, x)
<1>1. CASE l = <<>>
  BY <1>1 DEF napr_list_enqueue, napr_list_size, napr_list_cons
<1>2. CASE l # <<>>
  BY <1>2 DEF napr_list_enqueue, napr_list_size
<1> QED
  BY <1>1, <1>2

\* Only the empty list has the size that the callers and the loop compare with.
LEMMA SizeIsZero ==
  ASSUME NEW S, NEW l \in Seq(S)
  PROVE  napr_list_size(l) # 0 <=> l # <<>>
BY DEF napr_list_size

\* What the actions do with the list, once its type is known.
LEMMA ListSteps ==
  ASSUME ControlInv
  PROVE  /\ DataReady <=> list # <<>> /\ ~ended
         /\ WorkRemains <=> list # <<>> \/ nb_waiting # nb_thread
         /\ \A x \in Items : AddEnqueue(x) => list' = Append(list, x)
<1>1. list \in Seq(Items)
  BY DEF ControlInv, TypeOK
<1>2. napr_list_size(list) # 0 <=> list # <<>>
  BY <1>1, SizeIsZero
<1>3. \A x \in Items : napr_list_enqueue(list, x) = Append(list, x)
  BY <1>1, EnqueuedIsLast
<1> QED
  BY <1>2, <1>3 DEF DataReady, WorkRemains, AddEnqueue

\* The sets of workers that are counted are finite, so their sizes are numbers.
LEMMA CountedSetsFinite ==
  /\ IsFiniteSet(Blocked) /\ Cardinality(Blocked) \in Nat
  /\ IsFiniteSet(Alerted) /\ Cardinality(Alerted) \in Nat
  /\ nb_thread \in Nat
<1>1. Blocked \subseteq Workers /\ Alerted \subseteq Workers
  BY DEF Blocked, Alerted
<1>2. IsFiniteSet(Workers)
  BY ThreadpoolAssumption
<1>3. IsFiniteSet(Blocked) /\ IsFiniteSet(Alerted)
  BY <1>1, <1>2, FS_Subset
<1> QED
  BY <1>2, <1>3, FS_CardinalityType DEF nb_thread

\* nb_waiting reaches nb_thread when every worker is blocked, and only then.
LEMMA AllBlockedIffCounted ==
  Cardinality(Blocked) = nb_thread <=> Blocked = Workers
<1>1. Blocked \subseteq Workers
  BY DEF Blocked
<1> QED
  BY <1>1, ThreadpoolAssumption, FS_Subset DEF nb_thread

--------------------------------------------------------------------------------
(* First layer: types, the mutex, the wait set and the counter.             *)

LEMMA ControlInvInit == Init => ControlInv
<1> SUFFICES ASSUME Init PROVE ControlInv
  OBVIOUS
<1>1. Blocked = {}
  BY DEF Init, Blocked
<1>2. WaitingCounted
  BY <1>1, FS_EmptySet DEF Init, WaitingCounted
<1>3. TypeOK
  <2>1. list \in Seq(Items)
    BY DEF Init
  <2>2. 0 \in 0..MaxSpurious /\ 0 \in 0..MaxFaults
    BY ThreadpoolAssumption
  <2> QED
    BY <2>1, <2>2 DEF Init, TypeOK, WorkerPc, CallerPc, Threads
<1> QED
  BY <1>2, <1>3, ThreadpoolAssumption
  DEF Init, ControlInv, OwnerIsInside, SleepersAreBlocked, HoldersProcess, RunWhileWaiting,
      AllCreated, Threads

\* The counter follows the set of blocked workers.
LEMMA WaitingCountedStep ==
  ASSUME ControlInv, [Next]_vars
  PROVE  WaitingCounted'
<1> USE DEF ControlInv, WaitingCounted
<1> DEFINE Same == UNCHANGED nb_waiting /\ Blocked' = Blocked
<1>1. Same => WaitingCounted'
  OBVIOUS
<1>2. CASE UNCHANGED vars
  <2>1. Same
    BY <1>2 DEF vars, shared, Blocked
  <2> QED
    BY <2>1, <1>1
<1>3. CASE CallStep \/ AddLock \/ WaitLock \/ CallerExits \/ CreateFails \/ CallerLockFails
           \/ (\E t \in Threads : SpuriousWakeup(t)) \/ Terminated
  <2>1. UNCHANGED nb_waiting
    BY <1>3 DEF CallStep, CreateThread, InitReturns, AddEnqueue, AddSignal, WaitBlocks,
       WaitSkips, WaitWakes, Collect, AddLock, WaitLock, CallerExits, CreateFails,
       CallerLockFails, SpuriousWakeup, Terminated, vars, shared
  <2>2. CASE \E w \in Workers : CreateThread(w)
    BY <2>1, <2>2, <1>1 DEF CreateThread, Blocked, TypeOK
  <2>3. CASE UNCHANGED wpc
    BY <2>1, <2>3, <1>1 DEF Blocked
  <2> QED
    BY <1>3, <2>2, <2>3 DEF CallStep, InitReturns, AddEnqueue, AddSignal, WaitBlocks,
       WaitSkips, WaitWakes, Collect, AddLock, WaitLock, CallerExits, CreateFails,
       CallerLockFails, SpuriousWakeup, Terminated, vars
<1>4. ASSUME NEW w \in Workers, WorkerLocks(w) \/ WorkerTakes(w) \/ WorkerDrops(w)
             \/ WorkerProcesses(w) \/ WorkerLockFails(w)
      PROVE  WaitingCounted'
  <2>1. UNCHANGED nb_waiting
    BY <1>4 DEF WorkerLocks, WorkerTakes, WorkerDrops, WorkerProcesses, WorkerLockFails, shared
  <2>2. Blocked' = Blocked
    BY <1>4 DEF WorkerLocks, WorkerTakes, WorkerDrops, WorkerProcesses, WorkerLockFails,
       Blocked, TypeOK
  <2> QED
    BY <2>1, <2>2, <1>1
<1>5. ASSUME NEW w \in Workers, WorkerWaits(w)
      PROVE  WaitingCounted'
  <2>1. Blocked' = Blocked \cup {w} /\ w \notin Blocked
    BY <1>5 DEF WorkerWaits, Blocked, TypeOK
  <2>2. Cardinality(Blocked') = Cardinality(Blocked) + 1
    BY <2>1, CountedSetsFinite, FS_AddElement
  <2> QED
    BY <1>5, <2>2 DEF WorkerWaits, CountWaiting
<1>6. ASSUME NEW w \in Workers, WorkerWakes(w)
      PROVE  WaitingCounted'
  <2>1. Blocked' = Blocked \ {w} /\ w \in Blocked
    BY <1>6 DEF WorkerWakes, Blocked, TypeOK
  <2>2. Cardinality(Blocked') = Cardinality(Blocked) - 1
    BY <2>1, CountedSetsFinite, FS_RemoveElement
  <2> QED
    BY <1>6, <2>2 DEF WorkerWakes
<1> QED
  BY <1>2, <1>3, <1>4, <1>5, <1>6 DEF Next, WorkerStep

LEMMA TypeOKStep ==
  ASSUME ControlInv, [Next]_vars
  PROVE  TypeOK'
<1> USE ThreadpoolAssumption DEF ControlInv, TypeOK, WorkerPc, CallerPc, Threads
<1>1. CASE UNCHANGED vars
  BY <1>1 DEF vars, shared, history
<1>2. CASE CallStep
  <2>1. ASSUME NEW x \in Items, AddEnqueue(x)
        PROVE  TypeOK'
    <3>1. Append(list, x) \in Seq(Items)
      OBVIOUS
    <3> QED
      BY <2>1, <3>1, ListSteps DEF AddEnqueue, ClearEnded
  <2>2. CASE AddSignal
    BY <2>2 DEF AddSignal, Signalled, shared, history
  <2>3. CASE Collect
    <3>1. <<>> \in Seq(Items)
      OBVIOUS
    <3> QED
      BY <2>3, <3>1 DEF Collect
  <2>4. CASE WaitBlocks \/ WaitSkips \/ WaitWakes
    BY <2>4 DEF WaitBlocks, WaitSkips, WaitWakes, shared, history
  <2>5. CASE (\E w \in Workers : CreateThread(w)) \/ InitReturns
    BY <2>5 DEF CreateThread, InitReturns, shared, history
  <2> QED
    BY <1>2, <2>1, <2>2, <2>3, <2>4, <2>5 DEF CallStep
<1>3. CASE AddLock \/ WaitLock \/ CallerExits \/ Terminated
  BY <1>3 DEF AddLock, WaitLock, CallerExits, Terminated, vars, shared, history
<1>4. CASE CreateFails \/ CallerLockFails \/ \E w \in Workers : WorkerLockFails(w)
  BY <1>4 DEF CreateFails, CallerLockFails, WorkerLockFails, Fault, shared
<1>5. ASSUME NEW w \in Workers, WorkerStep(w)
      PROVE  TypeOK'
  <2>1. CASE WorkerLocks(w)
    BY <2>1 DEF WorkerLocks, shared, history
  <2>2. CASE WorkerTakes(w)
    <3>1. Head(list) \in Items /\ Tail(list) \in Seq(Items)
      BY <2>2, ListSteps DEF WorkerTakes
    <3> QED
      BY <2>2, <3>1 DEF WorkerTakes, Dequeued, history
  <2>3. CASE WorkerDrops(w)
    <3>1. Head(list) \in Items /\ Tail(list) \in Seq(Items)
      BY <2>3, ListSteps DEF WorkerDrops
    <3> QED
      BY <2>3, <3>1 DEF WorkerDrops, Dequeued
  <2>4. CASE WorkerProcesses(w)
    <3>1. data[w] \in Items
      BY <2>4 DEF WorkerProcesses, HoldersProcess
    <3> QED
      BY <2>4, <3>1 DEF WorkerProcesses, shared
  <2>5. CASE WorkerWaits(w)
    BY <2>5 DEF WorkerWaits, CountWaiting, BroadcastDue, history
  <2>6. CASE WorkerWakes(w)
    <3>1. w \in Blocked
      BY <2>6 DEF WorkerWakes, Blocked
    <3>2. nb_waiting - 1 \in Nat
      BY <3>1, CountedSetsFinite, FS_EmptySet DEF WaitingCounted
    <3> QED
      BY <2>6, <3>2 DEF WorkerWakes, history
  <2> QED
    BY <1>5, <2>1, <2>2, <2>3, <2>4, <2>5, <2>6 DEF WorkerStep
<1>6. ASSUME NEW t \in Threads, SpuriousWakeup(t)
      PROVE  TypeOK'
  BY <1>6 DEF SpuriousWakeup, shared
<1> QED
  BY <1>1, <1>2, <1>3, <1>4, <1>5, <1>6 DEF Next

\* The mutex, the wait set and the positions of the threads stay in step.
LEMMA PositionsStep ==
  ASSUME ControlInv, [Next]_vars
  PROVE  (OwnerIsInside /\ SleepersAreBlocked /\ HoldersProcess /\ RunWhileWaiting /\ AllCreated)'
<1> DEFINE Positions == OwnerIsInside /\ SleepersAreBlocked /\ HoldersProcess
                        /\ RunWhileWaiting /\ AllCreated
<1> USE ThreadpoolAssumption
    DEF ControlInv, TypeOK, WorkerPc, CallerPc, Threads, OwnerIsInside, SleepersAreBlocked,
        HoldersProcess, RunWhileWaiting, AllCreated
<1>1. CASE UNCHANGED vars
  BY <1>1 DEF vars, shared, history
<1>2. CASE CallStep
  <2>1. ASSUME NEW x \in Items, AddEnqueue(x)
        PROVE  Positions'
    BY <2>1 DEF AddEnqueue, ClearEnded
  <2>2. CASE AddSignal
    BY <2>2 DEF AddSignal, Signalled, shared, history
  <2>3. CASE Collect
    BY <2>3 DEF Collect
  <2>4. CASE WaitBlocks
    BY <2>4 DEF WaitBlocks, history
  <2>5. CASE WaitSkips
    BY <2>5 DEF WaitSkips, shared, history
  <2>6. CASE WaitWakes
    BY <2>6 DEF WaitWakes, history
  <2>7. ASSUME NEW w \in Workers, CreateThread(w)
        PROVE  Positions'
    BY <2>7 DEF CreateThread, shared, history
  <2>8. CASE InitReturns
    BY <2>8 DEF InitReturns, shared, history
  <2> QED
    BY <1>2, <2>1, <2>2, <2>3, <2>4, <2>5, <2>6, <2>7, <2>8 DEF CallStep
<1>3. CASE AddLock \/ WaitLock \/ CallerExits \/ Terminated
  BY <1>3 DEF AddLock, WaitLock, CallerExits, Terminated, vars, shared, history
<1>4. CASE CreateFails \/ CallerLockFails
  BY <1>4 DEF CreateFails, CallerLockFails, Fault, shared
<1>5. ASSUME NEW w \in Workers, WorkerStep(w) \/ WorkerLockFails(w)
      PROVE  Positions'
  <2>1. CASE WorkerLocks(w)
    BY <2>1 DEF WorkerLocks, shared, history
  <2>2. CASE WorkerTakes(w)
    <3>1. Head(list) \in Items /\ Head(list) # None
      BY <2>2, ListSteps DEF WorkerTakes
    <3> QED
      BY <2>2, <3>1 DEF WorkerTakes, history
  <2>3. CASE WorkerDrops(w)
    BY <2>3 DEF WorkerDrops
  <2>4. CASE WorkerProcesses(w)
    BY <2>4 DEF WorkerProcesses, shared
  <2>5. CASE WorkerWaits(w)
    BY <2>5 DEF WorkerWaits, history
  <2>6. CASE WorkerWakes(w)
    BY <2>6 DEF WorkerWakes, history
  <2>7. CASE WorkerLockFails(w)
    BY <2>7 DEF WorkerLockFails, shared
  <2> QED
    BY <1>5, <2>1, <2>2, <2>3, <2>4, <2>5, <2>6, <2>7 DEF WorkerStep
<1>6. ASSUME NEW t \in Threads, SpuriousWakeup(t)
      PROVE  Positions'
  BY <1>6 DEF SpuriousWakeup, shared
<1> QED
  BY <1>1, <1>2, <1>3, <1>4, <1>5, <1>6 DEF Next

THEOREM ControlInvariant == Spec => []ControlInv
<1>1. ControlInv /\ [Next]_vars => ControlInv'
  BY TypeOKStep, WaitingCountedStep, PositionsStep DEF ControlInv
<1> QED
  BY <1>1, ControlInvInit, PTL DEF Spec

\* Every variable of the pool keeps its type; in particular nb_waiting, an
\* unsigned counter in the code, is never decremented below zero.
THEOREM TypeCorrect == Spec => []TypeOK
<1>1. ControlInv => TypeOK
  BY DEF ControlInv
<1> QED
  BY <1>1, ControlInvariant, PTL

--------------------------------------------------------------------------------
(* Second layer: no worker sleeps on work, and the caller will be woken.    *)

LEMMA WorkInvInit == Init => WorkInv
BY ThreadpoolAssumption
DEF Init, WorkInv, EndedIsIdle, WorkConserving, CallerWillBeWoken

LEMMA EndedIsIdleStep ==
  ASSUME ControlInv, EndedIsIdle, [Next]_vars
  PROVE  EndedIsIdle'
<1> USE DEF ControlInv, TypeOK, EndedIsIdle
<1>1. CASE UNCHANGED <<list, ended, wpc>>
  BY <1>1
<1>2. ASSUME NEW x \in Items, AddEnqueue(x)
      PROVE  EndedIsIdle'
  BY <1>2 DEF AddEnqueue, ClearEnded
<1>3. CASE Collect
  BY <1>3 DEF Collect
<1>4. ASSUME NEW w \in Workers, CreateThread(w)
      PROVE  EndedIsIdle'
  BY <1>4 DEF CreateThread, shared
<1>5. ASSUME NEW w \in Workers, WorkerStep(w) \/ WorkerLockFails(w)
      PROVE  EndedIsIdle'
  <2>1. CASE WorkerTakes(w) \/ WorkerDrops(w)
    BY <2>1 DEF WorkerTakes, WorkerDrops, DataReady
  <2>2. CASE WorkerLocks(w) \/ WorkerProcesses(w) \/ WorkerLockFails(w)
    BY <2>2 DEF WorkerLocks, WorkerProcesses, WorkerLockFails, shared
  <2>3. CASE WorkerWakes(w)
    BY <2>3 DEF WorkerWakes
  <2>4. CASE WorkerWaits(w)
    \* The last worker to wait ends the round: all the others are blocked.
    <3>1. CASE BroadcastDue
      <4>1. list = <<>>
        BY <2>4, <3>1, ListSteps DEF WorkerWaits, BroadcastDue
      <4>2. WaitingCounted'
        BY WaitingCountedStep
      <4>3. nb_waiting' = nb_thread
        BY <2>4, <3>1 DEF WorkerWaits, CountWaiting, BroadcastDue
      <4>4. Cardinality(Blocked') = nb_thread
        BY <4>2, <4>3 DEF WaitingCounted
      <4>5. Blocked' \subseteq Workers
        BY DEF Blocked
      <4>6. Blocked' = Workers
        BY <4>4, <4>5, ThreadpoolAssumption, FS_Subset DEF nb_thread
      <4> QED
        BY <4>1, <4>6, <2>4 DEF Blocked, WorkerWaits
    <3>2. CASE ~BroadcastDue
      BY <2>4, <3>2 DEF WorkerWaits
    <3> QED
      BY <3>1, <3>2
  <2> QED
    BY <1>5, <2>1, <2>2, <2>3, <2>4 DEF WorkerStep
<1> QED
  BY <1>1, <1>2, <1>3, <1>4, <1>5
  DEF Next, CallStep, InitReturns, AddSignal, WaitBlocks, WaitSkips, WaitWakes, AddLock, WaitLock,
      CallerExits, CreateFails, CallerLockFails, SpuriousWakeup, Terminated, vars, shared

\* The number of alerted workers follows the number of queued data.
LEMMA WorkConservingStep ==
  ASSUME ControlInv, EndedIsIdle, WorkConserving, [Next]_vars
  PROVE  WorkConserving'
<1> DEFINE A == Cardinality(Alerted)
           Coming == IF cpc = "signal" THEN 1 ELSE 0
<1> USE DEF ControlInv, TypeOK, WorkConserving, SleepersAreBlocked, OwnerIsInside
<1>1. A \in Nat /\ A' \in Nat
  BY CountedSetsFinite, TypeOKStep, ThreadpoolAssumption, FS_Subset, FS_CardinalityType DEF Alerted
<1>2. list \in Seq(Items) /\ Len(list) \in Nat
  OBVIOUS
<1>3. ASSUME Len(list') = 0
      PROVE  WorkConserving'
  BY <1>1, <1>3
<1>4. ASSUME Alerted' = Alerted, condq' \cap Workers = condq \cap Workers,
             Len(list') <= Len(list), cpc # "signal"
      PROVE  WorkConserving'
  BY <1>1, <1>2, <1>4, TypeOKStep
<1>5. CASE UNCHANGED <<condq, wpc, list>> /\ cpc # "signal"
  BY <1>4, <1>5 DEF Alerted
<1>6. CASE UNCHANGED <<condq, wpc, list, cpc>>
  <2>1. Alerted' = Alerted
    BY <1>6 DEF Alerted
  <2> QED
    BY <2>1, <1>6
<1>7. ASSUME NEW x \in Items, AddEnqueue(x)
      PROVE  WorkConserving'
  <2>1. Alerted' = Alerted /\ condq' = condq /\ cpc = "adding" /\ cpc' = "signal"
    BY <1>7 DEF AddEnqueue, Alerted
  <2>2. Len(list') = Len(list) + 1
    BY <1>7, ListSteps DEF ControlInv, TypeOK
  <2> QED
    BY <1>1, <1>2, <2>1, <2>2
<1>8. CASE AddSignal
  <2>1. CASE condq = {}
    BY <1>8, <2>1 DEF AddSignal, Signalled
  <2>2. ASSUME NEW t \in condq, condq' = condq \ {t}
        PROVE  WorkConserving'
    <3>1. t \in Workers /\ wpc[t] = "blocked"
      BY <1>8 DEF AddSignal, Threads
    <3>2. Alerted' = Alerted \cup {t} /\ t \notin Alerted
      BY <1>8, <2>2, <3>1 DEF AddSignal, Alerted
    <3>3. A' = A + 1
      BY <3>2, CountedSetsFinite, FS_AddElement
    <3>4. Len(list) <= A + 1
      BY <1>8, <3>1 DEF AddSignal
    <3> QED
      BY <1>1, <1>2, <1>8, <3>3, <3>4 DEF AddSignal, shared
  <2> QED
    BY <1>8, <2>1, <2>2 DEF AddSignal, Signalled
<1>9. CASE WaitBlocks
  BY <1>9, <1>4, ThreadpoolAssumption DEF WaitBlocks, Alerted
<1>10. CASE Collect
  BY <1>10, <1>3 DEF Collect
<1>11. ASSUME NEW w \in Workers, CreateThread(w)
       PROVE  WorkConserving'
  <2>1. Alerted' = Alerted
    BY <1>11 DEF CreateThread, Alerted
  <2> QED
    BY <1>11, <2>1, <1>4 DEF CreateThread, shared
<1>12. ASSUME NEW w \in Workers, WorkerStep(w) \/ WorkerLockFails(w)
       PROVE  WorkConserving'
  <2>1. CASE WorkerLocks(w)
    <3>1. Alerted' = Alerted \cup {w} /\ w \notin Alerted
      BY <2>1 DEF WorkerLocks, Alerted
    <3>2. A' = A + 1
      BY <3>1, CountedSetsFinite, FS_AddElement
    <3> QED
      BY <1>1, <1>2, <2>1, <3>2 DEF WorkerLocks, shared
  <2>2. CASE WorkerTakes(w)
    <3>1. Alerted' = Alerted \ {w} /\ w \in Alerted
      BY <2>2 DEF WorkerTakes, Alerted
    <3>2. A' = A - 1
      BY <3>1, CountedSetsFinite, FS_RemoveElement
    <3>3. Len(list') = Len(list) - 1
      BY <2>2, ListSteps DEF WorkerTakes, Dequeued, ControlInv, TypeOK
    <3> QED
      BY <1>1, <1>2, <2>2, <3>2, <3>3 DEF WorkerTakes
  <2>3. CASE WorkerDrops(w)
    <3>1. Alerted' = Alerted
      BY <2>3 DEF WorkerDrops, Alerted
    <3>2. Len(list') = Len(list) - 1
      BY <2>3, ListSteps DEF WorkerDrops, Dequeued, ControlInv, TypeOK
    <3> QED
      BY <1>1, <1>2, <2>3, <3>1, <3>2 DEF WorkerDrops
  <2>4. CASE WorkerProcesses(w) \/ WorkerLockFails(w)
    <3>1. Alerted' = Alerted
      BY <2>4 DEF WorkerProcesses, WorkerLockFails, Alerted
    <3> QED
      BY <2>4, <3>1 DEF WorkerProcesses, WorkerLockFails, shared
  <2>5. CASE WorkerWaits(w)
    \* A worker goes to sleep only when the list is empty.
    <3>1. list' = <<>>
      BY <2>5, ListSteps DEF WorkerWaits, EndedIsIdle
    <3> QED
      BY <3>1, <1>3
  <2>6. CASE WorkerWakes(w)
    <3>1. Alerted' = Alerted
      BY <2>6 DEF WorkerWakes, Alerted
    <3> QED
      BY <2>6, <3>1 DEF WorkerWakes
  <2> QED
    BY <1>12, <2>1, <2>2, <2>3, <2>4, <2>5, <2>6 DEF WorkerStep
<1>13. ASSUME NEW t \in Threads, SpuriousWakeup(t)
       PROVE  WorkConserving'
  <2>1. CASE t \in Workers
    <3>1. Alerted' = Alerted \cup {t} /\ t \notin Alerted
      BY <1>13, <2>1 DEF SpuriousWakeup, Alerted
    <3>2. A' = A + 1
      BY <3>1, CountedSetsFinite, FS_AddElement
    <3> QED
      BY <1>1, <1>2, <1>13, <3>2 DEF SpuriousWakeup, shared
  <2>2. CASE t = Caller
    BY <1>13, <2>2, <1>4, ThreadpoolAssumption DEF SpuriousWakeup, Alerted, shared
  <2> QED
    BY <2>1, <2>2 DEF Threads
<1> QED
  BY <1>5, <1>6, <1>7, <1>8, <1>9, <1>10, <1>11, <1>12, <1>13
  DEF Next, CallStep, InitReturns, WaitSkips, WaitWakes, AddLock, WaitLock,
      CallerExits, CreateFails, CallerLockFails, Terminated, vars, shared

LEMMA CallerWillBeWokenStep ==
  ASSUME ControlInv, WorkInv, [Next]_vars
  PROVE  CallerWillBeWoken'
<1> USE ThreadpoolAssumption
    DEF ControlInv, TypeOK, WorkInv, CallerWillBeWoken, SleepersAreBlocked, OwnerIsInside,
        RunWhileWaiting
<1>1. CASE UNCHANGED <<condq, run, ended>>
  BY <1>1
<1>2. ASSUME Caller \notin condq'
      PROVE  CallerWillBeWoken'
  BY <1>2
<1>3. CASE WaitBlocks
  <2>1. ~ended
    <3>1. ASSUME ended
          PROVE  FALSE
      <4>1. list = <<>> /\ Blocked = Workers
        BY <1>3, <3>1 DEF WaitBlocks, EndedIsIdle, Blocked
      <4>2. nb_waiting = nb_thread
        BY <4>1 DEF WaitingCounted, nb_thread
      <4> QED
        BY <1>3, <4>1, <4>2, ListSteps DEF WaitBlocks
    <3> QED
      BY <3>1
  <2>2. \E w \in Workers : w \notin condq
    <3>1. CASE list # <<>>
      <4>1. Len(list) \in Nat /\ Len(list) > 0
        BY <3>1
      <4>2. CASE condq \cap Workers = {}
        BY <4>2
      <4>3. CASE condq \cap Workers # {}
        <5>1. Cardinality(Alerted) > 0
          <6>1. Len(list) <= Cardinality(Alerted) + 0
            BY <1>3, <4>3 DEF WaitBlocks, WorkConserving
          <6> QED
            BY <4>1, <6>1, CountedSetsFinite
        <5>2. Alerted # {}
          <6>1. Alerted = {} => Cardinality(Alerted) = 0
            BY FS_EmptySet
          <6> QED
            BY <5>1, <6>1
        <5> QED
          BY <5>2 DEF Alerted
      <4> QED
        BY <4>2, <4>3
    <3>2. CASE nb_waiting # nb_thread
      <4>1. Blocked # Workers
        BY <3>2 DEF WaitingCounted, nb_thread
      <4> QED
        BY <4>1 DEF Blocked
    <3> QED
      BY <1>3, <3>1, <3>2, ListSteps DEF WaitBlocks
  <2> QED
    BY <1>3, <2>1, <2>2 DEF WaitBlocks
<1>4. ASSUME NEW w \in Workers, WorkerStep(w)
      PROVE  CallerWillBeWoken'
  <2>1. CASE WorkerLocks(w) \/ WorkerTakes(w) \/ WorkerDrops(w) \/ WorkerProcesses(w)
             \/ WorkerWakes(w)
    BY <2>1, <1>1 DEF WorkerLocks, WorkerTakes, WorkerDrops, WorkerProcesses, WorkerWakes, shared
  <2>2. CASE WorkerWaits(w)
    <3>1. CASE BroadcastDue
      BY <2>2, <3>1, <1>2 DEF WorkerWaits
    <3>2. CASE ~BroadcastDue /\ Caller \in condq
      \* Another worker is not blocked: it will look at the list later.
      <4>1. nb_waiting + 1 # nb_thread
        BY <3>2 DEF BroadcastDue
      <4>2. Cardinality(Blocked') # nb_thread
        BY <2>2, <4>1, WaitingCountedStep DEF WorkerWaits, CountWaiting, WaitingCounted
      <4>3. Blocked' # Workers
        BY <4>2 DEF nb_thread
      <4>4. PICK v \in Workers : wpc'[v] # "blocked"
        BY <4>3 DEF Blocked
      <4>5. v # w /\ v \notin condq
        BY <2>2, <4>4 DEF WorkerWaits
      <4> QED
        BY <2>2, <3>2, <4>5 DEF WorkerWaits
    <3>3. CASE ~BroadcastDue /\ Caller \notin condq
      BY <2>2, <3>3, <1>2 DEF WorkerWaits
    <3> QED
      BY <3>1, <3>2, <3>3
  <2> QED
    BY <1>4, <2>1, <2>2 DEF WorkerStep
<1>5. ASSUME NEW t \in Threads, SpuriousWakeup(t)
      PROVE  CallerWillBeWoken'
  BY <1>5 DEF SpuriousWakeup, shared
<1>6. ASSUME cpc # "blocked" /\ condq' \subseteq condq
      PROVE  CallerWillBeWoken'
  BY <1>6, <1>2
<1> QED
  BY <1>1, <1>2, <1>3, <1>4, <1>5, <1>6
  DEF Next, CallStep, CreateThread, InitReturns, AddEnqueue, AddSignal, Signalled, WaitSkips,
      WaitWakes, Collect, AddLock, WaitLock, CallerExits, CreateFails, CallerLockFails,
      WorkerLockFails, Terminated, vars, shared

THEOREM WorkInvariant == Spec => []WorkInv
<1>1. ControlInv /\ WorkInv /\ [Next]_vars => WorkInv'
  BY EndedIsIdleStep, WorkConservingStep, CallerWillBeWokenStep DEF WorkInv
<1> QED
  BY <1>1, WorkInvInit, ControlInvariant, PTL DEF Spec

\* No wakeup is lost: while a worker sleeps there is an alerted worker for every
\* queued datum, or the signal of napr_threadpool_add is still to come.  It holds
\* with any number of failed locks and spurious wakeups, of the caller too.
THEOREM NoLostWakeup == Spec => []WorkConserving
<1>1. WorkInv => WorkConserving
  BY DEF WorkInv
<1> QED
  BY <1>1, WorkInvariant, PTL

\* A caller that sleeps in napr_threadpool_wait finds `run' set and the round
\* open, and not every worker asleep.
THEOREM CallerIsWoken == Spec => []CallerWillBeWoken
<1>1. WorkInv => CallerWillBeWoken
  BY DEF WorkInv
<1> QED
  BY <1>1, WorkInvariant, PTL

\* Once a round has ended the pool is idle until the next add.
THEOREM EndedMeansIdle == Spec => []EndedIsIdle
<1>1. WorkInv => EndedIsIdle
  BY DEF WorkInv
<1> QED
  BY <1>1, WorkInvariant, PTL

--------------------------------------------------------------------------------
(* Third layer: what napr_threadpool_wait has waited for.  It rests on the  *)
(* caller not being woken spuriously.                                       *)

\* Removing the head of the list, which has no repetitions, removes that datum
\* from the queue.
LEMMA HeadLeavesQueue ==
  ASSUME list \in Seq(Items), list # <<>>, EachDatumOnce, list' = Tail(list)
  PROVE  /\ Queued' = Queued \ {Head(list)}
         /\ Head(list) \in Queued
         /\ \A i, j \in DOMAIN list' : list'[i] = list'[j] => i = j
<1>1. Len(list) \in Nat /\ Len(list) >= 1 /\ DOMAIN list = 1..Len(list) /\ Head(list) = list[1]
  OBVIOUS
<1>2. /\ DOMAIN list' = 1..(Len(list) - 1)
      /\ \A i \in 1..(Len(list) - 1) : list'[i] = list[i + 1]
  BY <1>1
<1>3. \A i, j \in 1..Len(list) : list[i] = list[j] => i = j
  BY <1>1 DEF EachDatumOnce
<1>4. ASSUME NEW i \in DOMAIN list'
      PROVE  list'[i] \in Queued \ {Head(list)}
  <2>1. i + 1 \in 1..Len(list) /\ list'[i] = list[i + 1] /\ i + 1 # 1 /\ 1 \in 1..Len(list)
    BY <1>1, <1>2
  <2>2. list[i + 1] # list[1]
    BY <1>3, <2>1
  <2> QED
    BY <1>1, <2>1, <2>2 DEF Queued
<1>5. ASSUME NEW k \in DOMAIN list, list[k] # Head(list)
      PROVE  list[k] \in Queued'
  <2>1. k - 1 \in DOMAIN list' /\ list'[k - 1] = list[k]
    BY <1>1, <1>2, <1>5
  <2> QED
    BY <2>1 DEF Queued
<1>6. \A i, j \in DOMAIN list' : list'[i] = list'[j] => i = j
  BY <1>1, <1>2, <1>3
<1>7. Head(list) \in Queued
  BY <1>1 DEF Queued
<1>8. Queued' = Queued \ {Head(list)}
  BY <1>4, <1>5 DEF Queued
<1> QED
  BY <1>6, <1>7, <1>8

LEMMA RoundInvInit == Init => RoundInv
BY DEF Init, RoundInv, WokenAfterEnd, CollectIsIdle, EachDatumOnce, Queued, Held

LEMMA WokenAfterEndStep ==
  ASSUME Caller \notin SpuriousThreads, ControlInv, RoundInv, [Next]_vars
  PROVE  WokenAfterEnd'
<1> USE ThreadpoolAssumption DEF ControlInv, TypeOK, RoundInv, WokenAfterEnd
<1>1. CASE UNCHANGED <<cpc, condq, ended>>
  BY <1>1
<1>2. ASSUME cpc' # "blocked" \/ Caller \in condq'
      PROVE  WokenAfterEnd'
  BY <1>2
<1>3. ASSUME NEW w \in Workers, WorkerStep(w) \/ WorkerLockFails(w)
      PROVE  WokenAfterEnd'
  <2>1. CASE WorkerWaits(w)
    BY <2>1 DEF WorkerWaits
  <2>2. CASE ~WorkerWaits(w)
    BY <1>3, <2>2, <1>1
    DEF WorkerStep, WorkerLocks, WorkerTakes, WorkerDrops, WorkerProcesses, WorkerWakes,
        WorkerLockFails, shared
  <2> QED
    BY <2>1, <2>2
<1>4. ASSUME NEW t \in Threads, SpuriousWakeup(t)
      PROVE  WokenAfterEnd'
  BY <1>4 DEF SpuriousWakeup, shared
<1> QED
  BY <1>1, <1>2, <1>3, <1>4
  DEF Next, CallStep, CreateThread, InitReturns, AddEnqueue, AddSignal, WaitBlocks, WaitSkips,
      WaitWakes, Collect, AddLock, WaitLock, CallerExits, CreateFails, CallerLockFails,
      Terminated, vars, shared

LEMMA CollectIsIdleStep ==
  ASSUME Caller \notin SpuriousThreads, ControlInv, WorkInv, RoundInv, [Next]_vars
  PROVE  CollectIsIdle'
<1> USE ThreadpoolAssumption
    DEF ControlInv, TypeOK, RoundInv, CollectIsIdle, OwnerIsInside, Blocked, Threads
<1>1. CASE UNCHANGED <<cpc, list, wpc>>
  BY <1>1
<1>2. ASSUME cpc' # "collect"
      PROVE  CollectIsIdle'
  BY <1>2
<1>3. CASE WaitSkips
  <2>1. list = <<>> /\ nb_waiting = nb_thread
    BY <1>3, ListSteps DEF WaitSkips
  <2>2. Blocked = Workers
    BY <2>1, AllBlockedIffCounted DEF WaitingCounted
  <2> QED
    BY <1>3, <2>1, <2>2 DEF WaitSkips, shared
<1>4. CASE WaitWakes
  <2>1. ended /\ \A w \in Workers : wpc[w] # "loop"
    BY <1>4 DEF WaitWakes, WokenAfterEnd
  <2>2. list = <<>> /\ Blocked = Workers
    BY <2>1 DEF WorkInv, EndedIsIdle
  <2> QED
    BY <1>4, <2>2 DEF WaitWakes
<1>5. ASSUME NEW w \in Workers, WorkerStep(w) \/ WorkerLockFails(w)
      PROVE  CollectIsIdle'
  \* No worker moves while the caller collects: none has the mutex or waits for it.
  <2>1. ASSUME cpc = "collect"
        PROVE  FALSE
    <3>1. owner = Caller /\ wpc[w] = "blocked"
      BY <2>1
    <3> QED
      BY <1>5, <3>1
      DEF WorkerStep, WorkerLocks, WorkerTakes, WorkerDrops, WorkerProcesses, WorkerWaits,
          WorkerWakes, WorkerLockFails
  <2> QED
    BY <1>5, <2>1
    DEF WorkerStep, WorkerLocks, WorkerTakes, WorkerDrops, WorkerProcesses, WorkerWaits,
        WorkerWakes, WorkerLockFails
<1> QED
  BY <1>1, <1>2, <1>3, <1>4, <1>5
  DEF Next, CallStep, CreateThread, InitReturns, AddEnqueue, AddSignal, WaitBlocks, Collect,
      AddLock, WaitLock, CallerExits, CreateFails, CallerLockFails, SpuriousWakeup, Terminated,
      vars, shared

LEMMA EachDatumOnceStep ==
  ASSUME ControlInv, RoundInv, [Next]_vars
  PROVE  EachDatumOnce'
<1> USE DEF ControlInv, TypeOK, RoundInv, HoldersProcess
<1>1. CASE UNCHANGED <<list, data, added, processed>>
  BY <1>1 DEF EachDatumOnce, Queued, Held
<1>2. ASSUME NEW x \in Items, AddEnqueue(x)
      PROVE  EachDatumOnce'
  <2>1. /\ x \notin added /\ added' = added \cup {x} /\ list' = Append(list, x)
        /\ UNCHANGED <<data, processed>>
    BY <1>2, ListSteps DEF AddEnqueue
  <2>2. /\ DOMAIN list' = 1..(Len(list) + 1) /\ DOMAIN list = 1..Len(list)
        /\ Len(list) \in Nat
        /\ \A i \in 1..Len(list) : list'[i] = list[i]
        /\ list'[Len(list) + 1] = x
    BY <2>1
  <2>3. Queued' = Queued \cup {x} /\ Held' = Held
    BY <2>1, <2>2 DEF Queued, Held
  <2>4. x \notin Queued
    BY <2>1 DEF EachDatumOnce
  <2>5. \A i, j \in DOMAIN list' : list'[i] = list'[j] => i = j
    BY <2>2, <2>4 DEF EachDatumOnce, Queued
  <2> QED
    BY <2>1, <2>3, <2>5 DEF EachDatumOnce
<1>3. CASE Collect
  BY <1>3, <1>1 DEF Collect, CollectIsIdle
<1>4. ASSUME NEW w \in Workers, WorkerTakes(w)
      PROVE  EachDatumOnce'
  <2> DEFINE h == Head(list)
  <2>1. list # <<>> /\ list' = Tail(list) /\ data' = [data EXCEPT ![w] = h]
        /\ data[w] = None /\ UNCHANGED <<added, processed>>
    BY <1>4, ListSteps DEF WorkerTakes, Dequeued, history
  <2>2. Queued' = Queued \ {h} /\ h \in Queued /\ h # None
        /\ \A i, j \in DOMAIN list' : list'[i] = list'[j] => i = j
    <3>1. h # None
      BY <2>1, ThreadpoolAssumption
    <3> QED
      BY <2>1, <3>1, HeadLeavesQueue
  <2>3. Held' = Held \cup {h}
    BY <2>1, <2>2 DEF Held
  <2>4. \A u, v \in Workers : data'[u] = data'[v] /\ data'[u] # None => u = v
    BY <2>1, <2>2 DEF EachDatumOnce, Held
  <2> QED
    BY <2>1, <2>2, <2>3, <2>4 DEF EachDatumOnce
<1>5. ASSUME NEW w \in Workers, WorkerDrops(w)
      PROVE  EachDatumOnce'
  <2>1. list # <<>> /\ list' = Tail(list) /\ processed' = processed \cup {Head(list)}
        /\ UNCHANGED <<added, data>>
    BY <1>5, ListSteps DEF WorkerDrops, Dequeued
  <2>2. Queued' = Queued \ {Head(list)} /\ Head(list) \in Queued
        /\ \A i, j \in DOMAIN list' : list'[i] = list'[j] => i = j
    BY <2>1, HeadLeavesQueue
  <2> QED
    BY <2>1, <2>2 DEF EachDatumOnce, Held
<1>6. ASSUME NEW w \in Workers, WorkerProcesses(w)
      PROVE  EachDatumOnce'
  <2>1. processed' = processed \cup {data[w]} /\ data' = [data EXCEPT ![w] = None]
        /\ data[w] # None /\ UNCHANGED <<added, list>>
    BY <1>6 DEF WorkerProcesses, shared
  <2>2. Held' = Held \ {data[w]} /\ data[w] \in Held
    BY <2>1 DEF Held, EachDatumOnce
  <2>3. \A u, v \in Workers : data'[u] = data'[v] /\ data'[u] # None => u = v
    BY <2>1 DEF EachDatumOnce
  <2> QED
    BY <2>1, <2>2, <2>3 DEF EachDatumOnce, Queued
<1> QED
  BY <1>1, <1>2, <1>3, <1>4, <1>5, <1>6
  DEF Next, CallStep, WorkerStep, CreateThread, InitReturns, AddSignal, WaitBlocks, WaitSkips,
      WaitWakes, AddLock, WaitLock, CallerExits, CreateFails, CallerLockFails, WorkerLocks,
      WorkerWaits, WorkerWakes, WorkerLockFails, SpuriousWakeup, Terminated, vars, shared, history

THEOREM RoundInvariant ==
  ASSUME Caller \notin SpuriousThreads
  PROVE  Spec => []RoundInv
<1>1. ControlInv /\ WorkInv /\ RoundInv /\ [Next]_vars => RoundInv'
  BY WokenAfterEndStep, CollectIsIdleStep, EachDatumOnceStep DEF RoundInv
<1> QED
  BY <1>1, RoundInvInit, ControlInvariant, WorkInvariant, PTL DEF Spec

\* Nothing is lost and nothing is processed twice, unless the caller can be
\* woken spuriously.
THEOREM DataConserved ==
  ASSUME Caller \notin SpuriousThreads
  PROVE  Spec => []EachDatumOnce
<1>1. RoundInv => EachDatumOnce
  BY DEF RoundInv
<1> QED
  BY <1>1, RoundInvariant, PTL

\* When napr_threadpool_wait gets past its condition wait no datum is queued or
\* in a callback.
LEMMA CollectMeansDone ==
  ASSUME ControlInv, RoundInv, list = <<>>, Blocked = Workers
  PROVE  processed = added
<1>1. Queued = {}
  BY DEF Queued
<1>2. \A w \in Workers : data[w] = None
  BY DEF ControlInv, HoldersProcess, Blocked
<1>3. Held = {}
  BY <1>2 DEF Held
<1> QED
  BY <1>1, <1>3 DEF RoundInv, EachDatumOnce

\* The promise of napr_threadpool_wait, for a caller that is not woken
\* spuriously; the run threadpool_spurious_caller shows that it needs that.
THEOREM WaitHasWaited ==
  ASSUME Caller \notin SpuriousThreads
  PROVE  Spec => []WaitIsBarrier
<1>1. ControlInv /\ RoundInv => WaitIsBarrier
  BY CollectMeansDone DEF RoundInv, CollectIsIdle, WaitIsBarrier
<1> QED
  BY <1>1, ControlInvariant, RoundInvariant, PTL

\* A round is only ended by the worker that goes to sleep last, with the caller
\* waiting and nothing left to process.
THEOREM RoundEndsWhenDone ==
  ASSUME Caller \notin SpuriousThreads
  PROVE  Spec => EndsOnlyWhenDone
<1> DEFINE Ends == ended' /\ ~ended
                     => processed = added /\ cpc = "blocked" /\ nb_waiting' = nb_thread
<1>1. ASSUME ControlInv, RoundInv, [Next]_vars, ended', ~ended
      PROVE  processed = added /\ cpc = "blocked" /\ nb_waiting' = nb_thread
  <2>1. PICK w \in Workers : WorkerWaits(w) /\ BroadcastDue
    BY <1>1
    DEF Next, CallStep, WorkerStep, CreateThread, InitReturns, AddEnqueue, ClearEnded, AddSignal,
        WaitBlocks, WaitSkips, WaitWakes, Collect, AddLock, WaitLock, CallerExits, CreateFails,
        CallerLockFails, WorkerLocks, WorkerTakes, WorkerDrops, WorkerProcesses, WorkerWaits,
        WorkerWakes, WorkerLockFails, SpuriousWakeup, Terminated, vars, shared, history
  <2>2. list = <<>> /\ run
    BY <1>1, <2>1, ListSteps DEF WorkerWaits, BroadcastDue
  <2>3. cpc = "blocked"
    BY <1>1, <2>2 DEF ControlInv, RunWhileWaiting
  <2>4. nb_waiting' = nb_thread
    BY <2>1 DEF WorkerWaits, CountWaiting, BroadcastDue
  <2>5. \A v \in Workers : data[v] = None
    <3>1. Cardinality(Blocked') = nb_thread
      BY <1>1, <2>4, WaitingCountedStep DEF WaitingCounted
    <3>2. Blocked' \subseteq Workers
      BY DEF Blocked
    <3>3. Blocked' = Workers
      BY <3>1, <3>2, ThreadpoolAssumption, FS_Subset DEF nb_thread
    <3>4. \A v \in Workers : wpc[v] \in {"blocked", "loop"}
      BY <1>1, <2>1, <3>3 DEF Blocked, WorkerWaits, ControlInv, TypeOK
    <3> QED
      BY <1>1, <3>4 DEF ControlInv, HoldersProcess
  <2>6. Queued = {} /\ Held = {}
    BY <2>2, <2>5 DEF Queued, Held
  <2> QED
    BY <1>1, <2>3, <2>4, <2>6 DEF RoundInv, EachDatumOnce
<1>2. ControlInv /\ RoundInv /\ [Next]_vars => [Ends]_vars
  BY <1>1
<1> QED
  BY <1>2, ControlInvariant, RoundInvariant, PTL DEF Spec, EndsOnlyWhenDone

\* The pool implements WorkBarrier: every step is a submission, the end of one
\* callback, the beginning or the end of a wait, or invisible to the caller.
THEOREM PoolImplementsBarrier ==
  ASSUME Caller \notin SpuriousThreads
  PROVE  Spec => ImplementsBarrier
<1> DEFINE Waiting == cpc \in {"waiting", "blocked", "collect"}
<1>1. Init => Barrier!Init
  BY DEF Init, Barrier!Init
<1>2. ASSUME ControlInv, RoundInv, [Next]_vars
      PROVE  [Barrier!Next]_(Barrier!vars)
  <2> USE <1>2 DEF Barrier!Next, Barrier!vars
  <2>1. CASE UNCHANGED <<added, processed>> /\ Waiting' = Waiting
    BY <2>1
  <2>2. ASSUME NEW x \in Items, AddEnqueue(x)
        PROVE  Barrier!Submit(x)
    BY <2>2 DEF AddEnqueue, Barrier!Submit
  <2>3. CASE WaitLock
    BY <2>3 DEF WaitLock, history, Barrier!BeginWait
  <2>4. CASE Collect
    <3>1. processed = added
      BY <2>4, CollectMeansDone DEF Collect, RoundInv, CollectIsIdle
    <3> QED
      BY <2>4, <3>1 DEF Collect, Barrier!EndWait
  <2>5. ASSUME NEW w \in Workers, WorkerDrops(w)
        PROVE  Barrier!Finish(Null) /\ Null \in Items
    <3>1. list # <<>> /\ list \in Seq(Items) /\ Head(list) = Null
      BY <2>5, ListSteps DEF WorkerDrops, ControlInv, TypeOK
    <3>2. Null \in Queued /\ Null \in Items
      BY <3>1 DEF Queued
    <3> QED
      BY <2>5, <3>2 DEF RoundInv, EachDatumOnce, WorkerDrops, Barrier!Finish
  <2>6. ASSUME NEW w \in Workers, WorkerProcesses(w)
        PROVE  Barrier!Finish(data[w]) /\ data[w] \in Items
    <3>1. data[w] \in Held /\ data[w] \in Items
      BY <2>6 DEF WorkerProcesses, ControlInv, TypeOK, HoldersProcess, Held
    <3> QED
      BY <2>6, <3>1 DEF RoundInv, EachDatumOnce, WorkerProcesses, Barrier!Finish
  <2> QED
    BY <2>1, <2>2, <2>3, <2>4, <2>5, <2>6
    DEF Next, CallStep, WorkerStep, CreateThread, InitReturns, AddSignal, WaitBlocks, WaitSkips,
        WaitWakes, AddLock, CallerExits, CreateFails, CallerLockFails, WorkerLocks, WorkerTakes,
        WorkerWaits, WorkerWakes, WorkerLockFails, SpuriousWakeup, Terminated, vars, history
<1> QED
  BY <1>1, <1>2, ControlInvariant, RoundInvariant, PTL
  DEF Spec, ImplementsBarrier, Barrier!Spec
================================================================================

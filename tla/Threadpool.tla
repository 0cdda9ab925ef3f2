------------------------------ MODULE Threadpool ------------------------------
(***************************************************************************)
(* The thread pool of src/napr_threadpool.c: worker threads that share one *)
(* list, one mutex and one condition variable with the single thread that  *)
(* creates the pool, adds data to it and waits for it (the caller; in      *)
(* ftwin, the thread that runs ft_conf_image_twin_report).                 *)
(*                                                                         *)
(* One action stands for the code between two points where another thread  *)
(* can intervene: acquiring the mutex, leaving it (by unlocking or inside  *)
(* apr_thread_cond_wait), the unlocked callback, and the signal that       *)
(* napr_threadpool_add sends after it has unlocked.                        *)
(***************************************************************************)
EXTENDS Naturals, Sequences, FiniteSets

CONSTANTS
  Workers,          \* the threads napr_threadpool_init creates
  Caller,           \* the thread that calls init, add and wait
  Items,            \* the data it may add, each at most once
  Null,             \* the NULL datum; in Items when the caller may add it
  None,             \* no owner of the mutex, no datum
  MaxRounds,        \* bound: calls to napr_threadpool_wait
  SpuriousThreads,  \* threads apr_thread_cond_wait may return to unasked
  MaxSpurious,      \* bound: spurious wakeups
  MaxFaults         \* bound: APR calls that return an error

Threads == Workers \cup {Caller}

ASSUME ThreadpoolAssumption ==
  /\ Workers # {}
  /\ IsFiniteSet(Workers)
  /\ Caller \notin Workers
  /\ None \notin Threads \cup Items
  /\ SpuriousThreads \subseteq Threads
  /\ MaxRounds \in Nat
  /\ MaxSpurious \in Nat
  /\ MaxFaults \in Nat

VARIABLES
  owner,       \* the thread that holds threadpool_mutex, or None
  condq,       \* the threads blocked on threadpool_update
  list,        \* threadpool->list, oldest datum first
  nb_waiting,
  run,
  ended,
  wpc,         \* where each worker is in napr_threadpool_loop
  data,        \* the datum a worker is running process_data on
  cpc,         \* where the caller is
  rounds,      \* how many calls of wait have returned
  added,       \* history: data enqueued so far
  processed,   \* history: data whose callback has returned
  spurious,    \* spurious wakeups so far
  faults       \* failed APR calls so far

shared == <<list, nb_waiting, run, ended>>
history == <<rounds, added, processed, spurious, faults>>
vars == <<owner, condq, shared, wpc, data, cpc, history>>

WorkerPc == {"absent",    \* not created yet
             "lock",      \* about to lock: at the start, or after the callback
             "loop",      \* at the top of while (1), holding the mutex
             "process",   \* in process_data, without the mutex
             "blocked",   \* in apr_thread_cond_wait
             "dead"}      \* returned NULL after a lock error

CallerPc == {"create",    \* in the creation loop of napr_threadpool_init
             "ready",     \* between two calls
             "adding",    \* in napr_threadpool_add, holding the mutex
             "signal",    \* in napr_threadpool_add, after the unlock
             "waiting",   \* in napr_threadpool_wait, holding the mutex
             "blocked",   \* in the apr_thread_cond_wait of that function
             "collect",   \* past it, holding the mutex again
             "exit",      \* makes no further call
             "failed"}    \* a call returned an error status

nb_thread == Cardinality(Workers)

\* The list of the file's first part, by its value: the head and tail pointers
\* and nb_cells agree with it at every unlock.
napr_list_make == <<>>
napr_list_size(l) == Len(l)
napr_list_first(l) == Head(l)
napr_list_cdr(l) == Tail(l)
napr_list_cons(l, x) == <<x>> \o l

\* The first datum is put in front, as there is no tail to put it behind.
napr_list_enqueue(l, x) ==
  IF napr_list_size(l) # 0 THEN Append(l, x) ELSE napr_list_cons(l, x)

TypeOK ==
  /\ owner \in Threads \cup {None}
  /\ condq \subseteq Threads
  /\ list \in Seq(Items)
  /\ nb_waiting \in Nat
  /\ run \in BOOLEAN
  /\ ended \in BOOLEAN
  /\ wpc \in [Workers -> WorkerPc]
  /\ data \in [Workers -> Items \cup {None}]
  /\ cpc \in CallerPc
  /\ rounds \in Nat
  /\ added \subseteq Items
  /\ processed \subseteq Items
  /\ spurious \in 0..MaxSpurious
  /\ faults \in 0..MaxFaults

Init ==
  /\ owner = None
  /\ condq = {}
  /\ list = napr_list_make
  /\ nb_waiting = 0
  /\ run = FALSE
  /\ ended = FALSE
  /\ wpc = [w \in Workers |-> "absent"]
  /\ data = [w \in Workers |-> None]
  /\ cpc = "create"
  /\ rounds = 0
  /\ added = {}
  /\ processed = {}
  /\ spurious = 0
  /\ faults = 0

--------------------------------------------------------------------------------
(* napr_threadpool_init: the threads start one by one and may run before    *)
(* the last one exists.                                                     *)

CreateThread(w) ==
  /\ cpc = "create"
  /\ wpc[w] = "absent"
  /\ wpc' = [wpc EXCEPT ![w] = "lock"]
  /\ UNCHANGED <<owner, condq, shared, data, cpc, history>>

InitReturns ==
  /\ cpc = "create"
  /\ \A w \in Workers : wpc[w] # "absent"
  /\ cpc' = "ready"
  /\ UNCHANGED <<owner, condq, shared, wpc, data, history>>

Fault ==
  /\ faults < MaxFaults
  /\ faults' = faults + 1

\* apr_thread_create fails: the threads already created keep running.
CreateFails ==
  /\ cpc = "create"
  /\ \E w \in Workers : wpc[w] = "absent"
  /\ Fault
  /\ cpc' = "failed"
  /\ UNCHANGED <<owner, condq, shared, wpc, data, rounds, added, processed, spurious>>

--------------------------------------------------------------------------------
(* napr_threadpool_add *)

AddLock ==
  /\ cpc = "ready"
  /\ added # Items
  /\ owner = None
  /\ owner' = Caller
  /\ cpc' = "adding"
  /\ UNCHANGED <<condq, shared, wpc, data, history>>

\* Mutant of ClearEnded: add does not start a new round.
KeepEnded == UNCHANGED ended

ClearEnded == ended' = FALSE

AddEnqueue(x) ==
  /\ cpc = "adding"
  /\ x \notin added
  /\ ClearEnded
  /\ list' = napr_list_enqueue(list, x)
  /\ added' = added \cup {x}
  /\ owner' = None
  /\ cpc' = "signal"
  /\ UNCHANGED <<condq, nb_waiting, run, wpc, data, rounds, processed, spurious, faults>>

\* Mutant of Signalled: add enqueues and signals nobody.
NobodySignalled == condq' = condq

\* apr_thread_cond_signal, outside the mutex: wakes one blocked thread, if any.
Signalled ==
  IF condq = {} THEN UNCHANGED condq
                ELSE \E t \in condq : condq' = condq \ {t}

AddSignal ==
  /\ cpc = "signal"
  /\ Signalled
  /\ cpc' = "ready"
  /\ UNCHANGED <<owner, shared, wpc, data, history>>

--------------------------------------------------------------------------------
(* napr_threadpool_wait *)

WaitLock ==
  /\ cpc = "ready"
  /\ rounds < MaxRounds
  /\ owner = None
  /\ owner' = Caller
  /\ cpc' = "waiting"
  /\ UNCHANGED <<condq, shared, wpc, data, history>>

\* Mutant of WorkRemains: wait looks at the queue alone.
QueueNotEmpty == list # <<>>

\* Whether wait has to block: something is queued, or a thread is not waiting.
WorkRemains == napr_list_size(list) # 0 \/ nb_waiting # nb_thread

WaitBlocks ==
  /\ cpc = "waiting"
  /\ WorkRemains
  /\ run' = TRUE
  /\ condq' = condq \cup {Caller}
  /\ owner' = None
  /\ cpc' = "blocked"
  /\ UNCHANGED <<list, nb_waiting, ended, wpc, data, history>>

WaitSkips ==
  /\ cpc = "waiting"
  /\ ~WorkRemains
  /\ cpc' = "collect"
  /\ UNCHANGED <<owner, condq, shared, wpc, data, history>>

\* apr_thread_cond_wait returns with the mutex: there is no loop around it.
WaitWakes ==
  /\ cpc = "blocked"
  /\ Caller \notin condq
  /\ owner = None
  /\ owner' = Caller
  /\ run' = FALSE
  /\ cpc' = "collect"
  /\ UNCHANGED <<condq, list, nb_waiting, ended, wpc, data, history>>

\* The list is deleted with its cells, a new one is made, and wait returns.
Collect ==
  /\ cpc = "collect"
  /\ list' = napr_list_make
  /\ owner' = None
  /\ rounds' = rounds + 1
  /\ cpc' = "ready"
  /\ UNCHANGED <<condq, nb_waiting, run, ended, wpc, data, added, processed, spurious, faults>>

\* apr_thread_mutex_lock fails in add or in wait, which return its status.
CallerLockFails ==
  /\ cpc = "ready"
  /\ Fault
  /\ cpc' = "failed"
  /\ UNCHANGED <<owner, condq, shared, wpc, data, rounds, added, processed, spurious>>

\* The caller is done with the pool; nothing stops the workers.
CallerExits ==
  /\ cpc = "ready"
  /\ cpc' = "exit"
  /\ UNCHANGED <<owner, condq, shared, wpc, data, history>>

--------------------------------------------------------------------------------
(* napr_threadpool_loop *)

WorkerLocks(w) ==
  /\ wpc[w] = "lock"
  /\ owner = None
  /\ owner' = w
  /\ wpc' = [wpc EXCEPT ![w] = "loop"]
  /\ UNCHANGED <<condq, shared, data, cpc, history>>

WorkerLockFails(w) ==
  /\ wpc[w] = "lock"
  /\ Fault
  /\ wpc' = [wpc EXCEPT ![w] = "dead"]
  /\ UNCHANGED <<owner, condq, shared, data, cpc, rounds, added, processed, spurious>>

\* Mutant of Dequeued: the cell read is not the one removed.
LastDequeued == SubSeq(list, 1, Len(list) - 1)

Dequeued == napr_list_cdr(list)

DataReady == napr_list_size(list) # 0 /\ ~ended

WorkerTakes(w) ==
  /\ wpc[w] = "loop"
  /\ DataReady
  /\ napr_list_first(list) # Null
  /\ data' = [data EXCEPT ![w] = napr_list_first(list)]
  /\ list' = Dequeued
  /\ owner' = None
  /\ wpc' = [wpc EXCEPT ![w] = "process"]
  /\ UNCHANGED <<condq, nb_waiting, run, ended, cpc, history>>

\* A NULL datum is dropped, and the loop goes on with the mutex held.
WorkerDrops(w) ==
  /\ wpc[w] = "loop"
  /\ DataReady
  /\ napr_list_first(list) = Null
  /\ list' = Dequeued
  /\ processed' = processed \cup {Null}
  /\ UNCHANGED <<owner, condq, nb_waiting, run, ended, wpc, data, cpc, rounds, added, spurious, faults>>

\* process_data returns; the mutex has still to be taken again.
WorkerProcesses(w) ==
  /\ wpc[w] = "process"
  /\ processed' = processed \cup {data[w]}
  /\ data' = [data EXCEPT ![w] = None]
  /\ wpc' = [wpc EXCEPT ![w] = "lock"]
  /\ UNCHANGED <<owner, condq, shared, cpc, rounds, added, spurious, faults>>

\* Mutants of BroadcastDue: the last worker announces the end again and again,
\* or even when the caller does not wait, or any worker that runs out of data
\* announces it.
BroadcastAgain == run /\ nb_waiting + 1 = nb_thread
BroadcastUnasked == nb_waiting + 1 = nb_thread
BroadcastAnyone == ~ended /\ run

\* The end of the round, tested after nb_waiting was incremented.
BroadcastDue == ~ended /\ run /\ nb_waiting + 1 = nb_thread

CountWaiting == nb_waiting' = nb_waiting + 1

WorkerWaits(w) ==
  /\ wpc[w] = "loop"
  /\ ~DataReady
  /\ CountWaiting
  /\ ended' = (ended \/ BroadcastDue)
  /\ condq' = (IF BroadcastDue THEN {} ELSE condq) \cup {w}
  /\ owner' = None
  /\ wpc' = [wpc EXCEPT ![w] = "blocked"]
  /\ UNCHANGED <<list, run, data, cpc, history>>

WorkerWakes(w) ==
  /\ wpc[w] = "blocked"
  /\ w \notin condq
  /\ owner = None
  /\ owner' = w
  /\ nb_waiting' = nb_waiting - 1
  /\ wpc' = [wpc EXCEPT ![w] = "loop"]
  /\ UNCHANGED <<condq, list, run, ended, data, cpc, history>>

--------------------------------------------------------------------------------
\* POSIX and APR let a condition wait return without a signal.
SpuriousWakeup(t) ==
  /\ t \in condq \cap SpuriousThreads
  /\ spurious < MaxSpurious
  /\ condq' = condq \ {t}
  /\ spurious' = spurious + 1
  /\ UNCHANGED <<owner, shared, wpc, data, cpc, rounds, added, processed, faults>>

\* The process is about to end: nobody will call the pool again and every
\* surviving worker sleeps.
Terminated ==
  /\ cpc \in {"exit", "failed"}
  /\ \A w \in Workers : w \in condq \/ wpc[w] \in {"dead", "absent"}
  /\ UNCHANGED vars

WorkerStep(w) ==
  \/ WorkerLocks(w)
  \/ WorkerTakes(w)
  \/ WorkerDrops(w)
  \/ WorkerProcesses(w)
  \/ WorkerWaits(w)
  \/ WorkerWakes(w)

\* The steps that finish a call the caller has begun.
CallStep ==
  \/ \E w \in Workers : CreateThread(w)
  \/ InitReturns
  \/ \E x \in Items : AddEnqueue(x)
  \/ AddSignal
  \/ WaitBlocks
  \/ WaitSkips
  \/ WaitWakes
  \/ Collect

Next ==
  \/ CallStep
  \/ AddLock
  \/ WaitLock
  \/ CallerExits
  \/ CreateFails
  \/ CallerLockFails
  \/ \E w \in Workers : WorkerStep(w) \/ WorkerLockFails(w)
  \/ \E t \in Threads : SpuriousWakeup(t)
  \/ Terminated

Spec == Init /\ [][Next]_vars

\* The scheduler runs every thread that can run, and callbacks return.  The
\* caller is free not to make another call.
FairSpec ==
  /\ Spec
  /\ WF_vars(CallStep)
  /\ \A w \in Workers : WF_vars(WorkerStep(w))

--------------------------------------------------------------------------------
(* Properties *)

Queued == {list[i] : i \in DOMAIN list}
Held == {data[w] : w \in {v \in Workers : data[v] # None}}

\* The workers that will look at the list before they sleep again, not counting
\* those that still have to take the mutex after a callback and may die there.
Alerted == {w \in Workers : wpc[w] = "loop" \/ (wpc[w] = "blocked" /\ w \notin condq)}

\* napr_threadpool_wait gets past its condition wait only when every datum added
\* so far has been processed and none is left in the list it then deletes.
WaitIsBarrier == cpc = "collect" => list = <<>> /\ processed = added

\* A datum is in one place at a time: processed, in the list (once), or with
\* exactly one worker; none is lost and none is processed twice.
EachDatumOnce ==
  /\ added = processed \cup Queued \cup Held
  /\ processed \cap (Queued \cup Held) = {}
  /\ Queued \cap Held = {}
  /\ \A i, j \in DOMAIN list : list[i] = list[j] => i = j
  /\ \A v, w \in Workers : data[v] = data[w] /\ data[v] # None => v = w

\* No worker sleeps on work: while one is asleep, there is for every queued
\* datum another one about to look at the list, or the signal is on its way.
\* It holds although napr_threadpool_add signals after it has unlocked, although
\* a signal may go to a worker that another one beats to the datum, and when
\* other workers have died.
WorkConserving ==
  condq \cap Workers # {} =>
    Len(list) <= Cardinality(Alerted) + (IF cpc = "signal" THEN 1 ELSE 0)

\* Once `ended' is set nothing is queued or in a callback until the next add, so
\* the test of `ended' in the loop never hides a datum from the workers.
EndedIsIdle == ended => list = <<>> /\ \A w \in Workers : wpc[w] \in {"loop", "blocked"}

\* A caller asleep in napr_threadpool_wait can still be woken: `run' is set,
\* the round is not ended, and unless a lock error has killed a worker some
\* worker is awake to end it.
CallerWillBeWoken ==
  Caller \in condq =>
    /\ run /\ ~ended
    /\ (\E w \in Workers : w \notin condq)

\* The round ends in one step only: the last worker to go to sleep, with no datum
\* left, while the caller waits.
EndsOnlyWhenDone ==
  [][ended' /\ ~ended => processed = added /\ cpc = "blocked" /\ nb_waiting' = nb_thread]_vars

\* Every call of napr_threadpool_wait returns.  The loop's comment says that
\* repeating the broadcast "may lead to an infinite loop": it would be a
\* counterexample to this.
WaitReturns == cpc = "blocked" ~> cpc = "ready"

\* Every datum is processed, whether or not the caller waits.
EveryDatumProcessed == \A x \in Items : x \in added ~> x \in processed

\* When the caller makes no further call, the workers all come to rest.
PoolComesToRest == (cpc = "exit") ~> [](Workers \subseteq condq)

\* The pool implements the promise of its header: a datum is submitted when it is
\* enqueued and finished when its callback has returned, and a wait lasts from
\* the lock of napr_threadpool_wait to its return.
Barrier == INSTANCE WorkBarrier WITH
  submitted <- added,
  finished <- processed,
  waiting <- cpc \in {"waiting", "blocked", "collect"}

ImplementsBarrier == Barrier!Spec

--------------------------------------------------------------------------------
(* Inductive strengthening of the properties above; ThreadpoolProofs proves  *)
(* it in three layers.                                                        *)

Blocked == {w \in Workers : wpc[w] = "blocked"}

\* The mutex is held by the thread whose position says so.
OwnerIsInside ==
  /\ \A w \in Workers : owner = w <=> wpc[w] = "loop"
  /\ owner = Caller <=> cpc \in {"adding", "waiting", "collect"}

SleepersAreBlocked ==
  /\ \A w \in Workers : w \in condq => wpc[w] = "blocked"
  /\ Caller \in condq => cpc = "blocked"

HoldersProcess == \A w \in Workers : data[w] # None <=> wpc[w] = "process"

\* nb_waiting counts a woken worker until it has the mutex again.
WaitingCounted == nb_waiting = Cardinality(Blocked)

RunWhileWaiting == run <=> cpc = "blocked"

AllCreated == cpc \notin {"create", "failed"} => \A w \in Workers : wpc[w] # "absent"

ControlInv ==
  /\ TypeOK
  /\ OwnerIsInside
  /\ SleepersAreBlocked
  /\ HoldersProcess
  /\ WaitingCounted
  /\ RunWhileWaiting
  /\ AllCreated

WorkInv == EndedIsIdle /\ WorkConserving /\ CallerWillBeWoken

\* The last layer needs Caller \notin SpuriousThreads: only the end of the round
\* wakes the caller.
WokenAfterEnd == cpc = "blocked" /\ Caller \notin condq => ended
CollectIsIdle == cpc = "collect" => list = <<>> /\ Blocked = Workers

RoundInv == WokenAfterEnd /\ CollectIsIdle /\ EachDatumOnce

\* The three layers together are the invariant that the proofs are made of.
PoolInv == ControlInv /\ WorkInv /\ RoundInv
================================================================================

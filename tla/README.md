# A TLA+ development of ftwin

ftwin finds duplicate files.  It walks through files and directories, puts every
file into a heap ordered by size, checksums the files that may have a twin,
compares those with equal checksums byte by byte and prints the groups of twins,
the biggest first.  With `-I` it compares images instead: a pool of threads
reduces every image to a vector and the vectors are compared two by two.

The C sources are in `src/src/`.  They are the reference: every definition here
is translated from them, and `PROJECT.json` names the lines it stands for.

1. [Inventory](#1-inventory)
2. [Plan](#2-plan)
3. [The modules and the code](#3-the-modules-and-the-code)
4. [The runs](#4-the-runs)
5. [Fairness](#5-fairness)
6. [What is proved](#6-what-is-proved)
7. [Findings and observations](#7-findings-and-observations)
8. [What is not modelled](#8-what-is-not-modelled)

## 1. Inventory

| component | source | state it keeps | operations | modules |
|---|---|---|---|---|
| thread pool | `napr_threadpool.c` 149-376 | `threadpool_mutex`, `threadpool_update` (a condition), `list`, `nb_waiting`, `run`, `ended` | `napr_threadpool_init`, `_add`, `_wait`, the worker loop | `Threadpool`, `WorkBarrier` |
| the pool's list | `napr_threadpool.c` 26-147 | a chain of cells with head, tail and count | `napr_list_make`, `_enqueue`, `_cons`, `_first`, `_cdr`, `_size`, `_delete` | `PoolList`, `Fifo`; by its value in `Threadpool` |
| directory walk | `ftwin.c` 196-483 | the recursion's `struct stats` chain, `conf->ig_files`, `conf->gids`, the expressions | `ft_conf_add_file`, `ft_hash_add_ignore_list` | `FileWalk` |
| twin finder | `ftwin.c` 411-452, 603-725, 871-1001 | `conf->heap`, `conf->sizes` with one array of checksums per size | end of `ft_conf_add_file`, `ft_conf_process_sizes`, `chksum_cmp`, `ft_conf_twin_report` | `TwinFinder`, `TwinGroups` |
| file comparison | `ft_file.c` | descriptors, mappings, the state of the hash, two buffers | `checksum_file`, `filecmp`, mapped or chunk by chunk | `FileCompare`; by contract in `TwinFinder` |
| heap | `napr_heap.c` | `tree`, `count`, `max`, `mutex`, `mutex_set` | `napr_heap_insert`, `_extract`, `_get_nth`, `_size`, `_insert_r`, `_extract_r` | `Heap`, `ReentrantHeap`, `PriorityQueue` |
| hash table | `napr_hash.c` | `table`, `filling_table`, `nel`, `size`, `mask` | `napr_hash_search`, `_set`, `_remove`, rebuild, iteration | `HashTable`, `Dictionary` |
| image twins | `ftwin.c` 725-870 | one vector per image, a mutex, the heap | `compute_vector`, `ft_conf_image_twin_report` | `ImageTwins` on `Threadpool` |
| archive extraction | `ftwin.c` 484-601 | temporary copies in `/tmp` | `copy_data`, `ft_untar_file` | success, failure and the copies, in `TwinFinder` |
| command line | `ftwin.c` 1002-1368 | `conf` | `main`, `usage`, `version`, `fill_gids_ht` | order of the phases and options of the walk |
| unused list | `napr_list.c` | | in no program of `Makefile.am` | none |
| hash functions | `checksum.c`, `lookup3.c` | | vendored | abstract values |

How they interact.  `main` is sequential: it calls `ft_conf_add_file` for every
argument, which fills the heap and the table of sizes; then either
`ft_conf_process_sizes` (it empties the heap, drops sizes that occur once and
fills the checksum arrays) and `ft_conf_twin_report` (it empties the heap again
and prints), or `ft_conf_image_twin_report`, which is the only user of the
thread pool.  The heap calls back `ft_file_cmp`, the hash table `get_key`, `cmp`
and `hash`, the pool `compute_vector`.  The file system is shared with the rest
of the world throughout.

What is hard, and what makes each component correct:

* **Thread pool.**  Workers and the caller share one condition variable, the
  signal of `_add` is sent after the unlock, `nb_waiting` still counts workers
  that were woken and have not run yet, `ended` outlives its round.  Correct
  means: no datum lost or processed twice, no worker asleep on work, a wait that
  returns when everything is processed and not before, no sleeper left behind.
* **Directory walk.**  Links make circles, names vanish between `readdir` and
  `stat`, and every option changes what is visited.  Correct means: it ends, it
  comes to every file the options ask for, to no other, and only a change of the
  file system, a refusal of the system or a broken archive makes it fail.
* **Twin finder.**  Files vanish between the three phases, reads fail, checksums collide,
  sizes are folded to 32 bits, `qsort` and the heap order equal elements at will,
  and slots become `NULL` as they are printed.  Correct means: only identical
  files are reported, all of them, once, the biggest first.
* **Heap.**  An array that moves when it grows, and order restored by two loops.
* **Hash table.**  A rebuild calls `napr_hash_set`, which may rebuild the copy;
  errors that callers ignore leave a full bucket behind.
* **File comparison.**  Another process changes a file between two system calls;
  each call may fail; the size that decides how much is read is the one that the
  walk saw.  Correct means: the checksum depends on the content alone, the verdict
  is right, nothing stays open.
* **Image twins.**  The report and the workers share vectors, a mutex that is a
  local of the report, and a pool whose errors the report does not look at.
  Correct means: vectors are read when they are finished, each pair once.
* **Temporary copies.**  Three places extract a member, each leaves by its own
  early return.  Correct means: no copy outlives its use.

## 2. Plan

The order is that of what can go wrong and of how little of it a test reaches.

| step | module | abstract specification | state |
|---|---|---|---|
| 1 | `Threadpool` | `WorkBarrier` | modelled, checked, safety proved |
| 2 | `TwinFinder` | `TwinGroups` | modelled, checked, safety and refinement proved |
| 3 | `Heap`, `ReentrantHeap` | `PriorityQueue` | modelled, checked, safety proved |
| 4 | `HashTable` | `Dictionary` | modelled, checked, refinement and safety proved |
| 5 | `FileWalk` | the closure `Reachable`, inside the module | modelled, checked, safety proved |
| 6 | `FileCompare` | `Chunks` and equality of contents, inside the module | modelled, checked, safety proved |
| 7 | `ImageTwins` on `Threadpool` | the pool's own specification | modelled, checked, composition and safety proved |
| 8 | `PoolList` | `Fifo` | modelled, proved |
| 9 | the temporary copies of archives | | modelled and checked in `TwinFinder` |
| 10 | composition of `FileWalk` and `TwinFinder` | `TwinGroups` | later |

`TwinFinder` composes the heap and the table by contract: the heap is a set from
which an element of maximal size is taken, the table a function.  `Heap` and
`HashTable` show that the code keeps these contracts.  Its checksums and verdicts
are those that `FileCompare` shows `ft_file.c` to give, failing reads included.  `ImageTwins` composes the
report with the pool step by step: it EXTENDS `Threadpool`, whose actions it calls.

All modules take their sets and bounds as CONSTANTS with a named ASSUME, have one
action per operation or loop iteration, and use no RECURSIVE operator.

## 3. The modules and the code

### Threadpool, WorkBarrier, MCThreadpool, ThreadpoolProofs

An action is the code between two points where another thread can intervene:
taking the mutex, giving it up (unlock, or inside `apr_thread_cond_wait`), the
callback that runs unlocked, and the signal of `napr_threadpool_add`, which comes
after its unlock.  `owner` is the mutex, `condq` the threads blocked on the
condition.  A thread that was signalled leaves `condq` and is `"blocked"` until it
has the mutex again, and only then decrements `nb_waiting`: that gap is where the
hazards are.  `wpc` and `cpc` are the positions of the workers and of the caller.

| code | actions |
|---|---|
| `napr_threadpool_init` | `CreateThread`, `InitReturns`, `CreateFails` |
| `napr_threadpool_add` | `AddLock`, `AddEnqueue`, `AddSignal`, `CallerLockFails` |
| `napr_threadpool_wait` | `WaitLock`, `WaitBlocks` or `WaitSkips`, `WaitWakes`, `Collect`, `CallerLockFails` |
| `napr_threadpool_loop` | `WorkerLocks`, `WorkerTakes`, `WorkerDrops` (a NULL datum), `WorkerProcesses`, `WorkerWaits`, `WorkerWakes`, `WorkerLockFails` |
| POSIX | `SpuriousWakeup` |

The list is a sequence, on which the `napr_list_` functions are operators of their
own; `PoolList` has its cells and pointers.  `added` and `processed` are history
variables.  A datum is added at most once, which is how ftwin uses the pool: one
image each.  Failures of unlock, signal, broadcast and wait on a valid mutex are
not modelled: the code then returns in the middle of a critical section, and
neither APR nor pthreads produces them in correct programs.

`WorkBarrier` has no threads: submit, finish, begin and end a wait.

### PoolList, Fifo, PoolListProofs

The list with its cells: `head`, `tail`, `nb_cells`, and `next` and `data` of every
cell that `apr_palloc` may hand out, uninitialised until then.  `Cons` and `Enqueue`
are the two cases of `napr_list_enqueue`, `TakeFirst` is what a worker does with the
list, `StartDelete`, `DropCell` and `Remake` are `napr_list_delete` and the
`napr_list_make` after it.  `order` is a history variable, the chain as it should be.
`Fifo` is the queue that `Threadpool` has for a list: a put appends, a take removes
the oldest, a deletion empties.

### TwinFinder, TwinGroups, MCTwinFinder, TwinFinderProofs

`heap`, `tmp_heap` and `sizes` are the heaps and the table of the code, an entry
being a record with the fields of `ft_fsize_t`; `key`, `i`, `j`, `old_size` and
`already_printed` are the locals of `ft_conf_twin_report`, with slots counted from
1; `status` is the local of `ft_conf_process_sizes` that survives from one file to
the next.  `content` is what the disk holds, `gone` what has vanished, `groups`
the output; the constant `Unreliable` has the files that open but of which any read
may fail, as `ftwin.c:942-947` expects of special files.

Memory that was never written is `Wild`: a comparison with it may come out either
way, a pointer to it may be NULL or not.  A slot printed is `Null`.
`NextSizeReadsNull`, `ReadUnwrittenRow` and `ReadMissingColumn` are where the code
would read through such a pointer.  `copies` are the members of archives that have
a temporary copy: made before a checksum or a comparison, removed after it, or left
where an early return skips the removal.

| code | actions |
|---|---|
| `ft_conf_add_file` 411-452 | `AddFile`, `AddFails`, `EndCollect` |
| `ft_conf_process_sizes` | `DropSingle`, `KeepUnread`, `UntarToChecksum`, `UntarToChecksumFails`, `Checksum`, `ChecksumFails`, `EndChecksum` |
| `ft_conf_twin_report`, outer loop | `NextSize`, `NextSizeReadsNull`, `SameSize`, `EndSize`, `EndReport` |
| `ft_conf_twin_report`, rows and pairs | `NextRow`, `UntarRow`, `UntarRowFails`, `UntarColumn`, `UntarColumnFails`, `PrintTwin`, `SkipDifferent`, `ReadUnwrittenRow`, `ReadMissingColumn` |
| the rest of the world | `Vanish` |

`checksum_file` and `filecmp` are their contracts, taken from `ft_file.c`: a size
of zero compares equal without opening anything, two files of different lengths
may compare either way, a missing file is an error, and so is a read that fails, but
for one: when the read that fails is the one of the second file, `big_filecmp` returns
the success of the first file's read and its result may still say "equal"
(`ft_file.c:214-226`), whatever the files hold.  A copy does not vanish with
its archive.  `ft_untar_file` may fail at any time.  `SortedForms` is every order that `qsort` with `chksum_cmp` may leave.

`TwinGroups` has no sizes table, heap or checksum: classes of identical files are
printed one after the other, the biggest first, each in full, and within a class
the prioritized files first.

### Heap, ReentrantHeap, PriorityQueue, MCHeap, HeapProofs

`tree`, `count` and `max` are the fields; `ipos` is the position of the datum that
moves.  One action is a call up to its loop (`Insert`, `InsertGrows`,
`Extract`, ...), one iteration (`Rise`, `Sink`), or the return.  A cell that was
never written is `Wild`.  When the reallocation fails the code forgets the array
but keeps `count` and `max` (`lost`, in `InsertFails`), and the next insertion
that gets its memory copies from NULL (`InsertCrashes`).

`ReentrantHeap` adds `mutex_set`.  Unset, one thread calls the functions of `Heap`
directly, as ftwin does (`Plain`).  Set, threads call `napr_heap_insert_r` and
`napr_heap_extract_r`: `Call`, then the mutex with the call up to its loop, `Work` for
an iteration, `Release` for the return.  The wrappers return without unlocking when
the function inside fails or the heap is empty (`ReturnsLocked`); from then on every
call blocks (`Kept`, `Hung`).

### FileCompare, MCFileCompare, FileCompareProofs

One call of `checksum_file` or `filecmp`, system call by system call, while another
process cuts, lengthens, overwrites or removes the files (`Change`).  The two calls
open, map and close alike, so these actions are shared.  A mapping of `size` bytes
can be touched up to the end of the file's last page, which is filled with zeroes;
beyond is SIGBUS (`Killed`).  The hash is the sequence of chunks it was given:
Jenkins' function is deterministic, and that is all that is used of it.

| code | actions |
|---|---|
| `checksum_file`, `filecmp`, the choice by `excess_size` | `Call`, `FilecmpEmpty` |
| the `apr_file_open` and `apr_mmap_create` of all | `SmallOpens`, `BigOpens`, `OpenFails`, `Maps`, `MapFails` |
| `checksum_small_file` | `Hash`, `Killed` |
| `small_filecmp` | `Memcmp`, `Killed` |
| `checksum_big_file` | `HashChunk`, `HashReadFails`, `ReachesEnd` |
| `big_filecmp` | `ReadFirst`, `ReadSecond`, `ReadSecondShort`, `FilecmpReadFails`, `ReachesEnd` |
| the closing calls | `Close` |

### ImageTwins, MCImageTwins, ImageTwinsProofs

Every action that touches the pool is the conjunction of an action of `Threadpool`
and of what the report or `compute_vector` does in it; the others leave the pool
unchanged.  `rpc` is the position in the report, `vpc` a worker's position in
`compute_vector`, `cvec` the state of each vector, `rest` what the inner loop has
still to come to.  libpuzzle is whether it can read an image (`FillVector`) and which
pairs it finds alike (`Alike`).  `CvecOk` is bit 0 of `cvec_ok`, which the code does not
clear when it frees a vector: that no comparison comes to a freed one is a part of
`EveryPairOnce` (`NoFreedVectorAhead`) and not of a guard.

| code | actions |
|---|---|
| `ft_conf_image_twin_report` up to the wait | `CreateMutex`, `InitPool`, `InitPoolFails`, `AddImages`, `AddFails`, `CallWait`, `WaitIsRefused`, `Waits`, `DestroyMutex` |
| its two loops | `NextImage`, `Compare`, `SkipUnreadable`, `EndRow`, `EndReport` |
| `compute_vector` | `CallComputeVector`, `FillVector`, `CountLock`, `CountUnlock`, `CountLockFails` |
| `main`, `apr_terminate` | `Terminate` |

### HashTable, Dictionary, MCHashTable, HashTableProofs

`tables` is a stack: the caller's table, and above it the copies that are being
filled.  `cursors` holds the loop indexes of each rebuild.  A call of
`napr_hash_set` stores its datum and, when the bucket is full, starts a rebuild
(`Grow`) that copies one element per `CopyElement`; the copy may have to grow in
turn; `Install` replaces all the fields of the table below it.  `GiveUp` is the
failure of an allocation, which unwinds all of the nested calls.  `Checked` are
the keys that are set only after a search found nothing; the ignore list sets a
name without looking at the answer, so equal names can pile up.

### FileWalk, MCFileWalk, FileWalkProofs

The recursion of `ft_conf_add_file` is `stack`, one frame per directory being
read, and `call`, the call about to begin; `archive` is the archive whose headers
are being read.  `readdir` returns names in any order (`todo` is a set).  What
permissions and expressions decide is data (`shut`, `Excluded`, `Ignored`,
`Small`).  `entry` is what the loop detection compares: the inode that `readdir`
gave, which for a link is the one of the link and not of its target.

What the system may refuse at any time, for want of a descriptor, by an access list or
on a bad disk, is in the constant `Refusing`: `apr_stat` (`MayFail`), `apr_dir_open`,
`apr_dir_read` and `apr_dir_close`, and all of libarchive, which may also fail in
the middle of an archive.  A directory that vanishes is not modelled: the walk then
fails to open or to read it, which is a refusal.

| code | actions |
|---|---|
| `main`, loop over the arguments | `NextArg`, `Finish` |
| `apr_stat` and the permissions | `StatFails`, `SkipBrokenLink`, `SkipShut`, `SkipLink` |
| directories | `OpenDirectory`, `OpenDirectoryFails`, `SkipName`, `VisitName`, `LeaveLoop`, `CloseDirectory`, `ReadDirectoryFails` |
| regular files | `AddFile`, `OpenArchive`, `OpenArchiveFails`, `AddMember`, `EndArchive`, `ArchiveFails` |
| the rest of the world | `Vanish` |

## 4. The runs

| run | bounds | what it shows |
|---|---|---|
| `threadpool_safety` | 3 workers, 4 data (one NULL), 3 waits, 2 failing calls, 2 spurious wakeups of workers | `WaitIsBarrier`, `EachDatumOnce`, `WorkConserving`, `EndedIsIdle`, `CallerWillBeWoken`, `EndsOnlyWhenDone` and the refinement of `WorkBarrier` |
| `threadpool_live` | 3 workers, 3 data, 2 waits, 1 spurious wakeup, no failure | `WaitReturns`, `EveryDatumProcessed`, `PoolComesToRest`, no deadlock |
| `threadpool_spurious_caller` | 2 workers, 2 data, the caller may be woken | finding: `WaitIsBarrier` is violated |
| `twins_quiet` | 5 files, 3 contents (one empty, two of one size), any of them prioritized, nothing vanishes | `ImplementsTwinGroups` |
| `twins_vanish` | 5 files, 4 contents (three of them read, one below the minimal size), checksums that all collide within a size, one file vanishes at any time, reads of another may fail | `NoFalseTwin`, `PrintedOnce`, `OnlyFilledSlotsRead`, `BiggerTwinsReported` |
| `twins_folded_sizes` | 3 files, sizes equal modulo the width of the key, two of the files in archives, of one of which reads may fail, one vanishes, any extraction fails | `SizesConsistent`, `CopiesRemoved`, `Terminates` |
| `twins_stale_status` | 5 files, 2 sizes, one vanishes | finding: `SurvivorsReported` is violated |
| `heap_order` | 6 data of 3 weights, an array of 2 that grows twice, one failing allocation; one thread without the mutex, or two with it | `HeapOrder`, `NthEnumerates`, `CallsReturn` and the refinement of `PriorityQueue` |
| `hash_table` | 6 data, buckets of 3, tables of 1 to 16 buckets, one failing allocation | `InTheirBuckets`, `RoomForNext`, `HarmOnlyByFault`, `IterationComplete`, `RebuildEnds` and the refinement of `Dictionary` |
| `file_walk` | the tree in `MCFileWalk`, all options, one file or link vanishes, a directory and an archive that may be shut, another of each that may be refused | `CollectsWhatIsDue`, `OnePathPerFile`, `LoopsCutShort`, `FailsOnlyByFault`, `WalkEnds` |
| `file_compare` | every content of up to 4 bytes, chunks and pages of 2, every size the walk may have seen, one change by another process, any call fails | `ChecksumOfContent`, `VerdictRight`, `ReleasedAtReturn`, `Ends` |
| `image_twins` | 3 images, 2 workers, 1 failing call, 1 spurious wakeup of a worker; alike is not transitive | `VectorsFinished`, `EveryPairOnce`, `ReportEnds` |

The type invariant of a module is a part of one of the invariants named here
(`SizesConsistent`, `InTheirBuckets`, `LoopsCutShort`, `ReleasedAtReturn`,
`EveryPairOnce`), and all of them are proved.

Why the bounds are enough.

* *Pool.*  Three workers are the least with one that takes a datum, one that
  another beats to it and one asleep.  Two rounds are the least in which `ended`
  of the first meets the data of the second; the third starts from a pool that
  served two.  Two failures kill two of the three workers.
* *Twins.*  Three identical files are the least with a row that starts at a printed
  slot, five the least with two groups of which one has three members, or two
  groups and a file between them.  The width of the key is scaled down from 2^32
  to `KeyRange`: only whether two sizes are equal modulo it matters.
  A file that vanishes and an unreliable one are the least that fail two checksums of
  one size, and three copies of a content with one of them unreliable the least that
  go on in a group after a false twin.
* *Heap.*  Six cells are three levels, so that a datum goes up and down past a cell
  with two children; 2, 4, 8 is two reallocations.  Two threads are the least that
  compete for the mutex.
* *Hash table.*  Keys that share a bucket for three sizes make a rebuild start in
  a rebuild; ffactor 3 instead of 8 keeps it small.
* *Walk.*  A link to a parent, a second way to a directory, a broken link and the
  three kinds of archives are the cases the code distinguishes; the loop is two
  directories long.  The directory that may be refused is an argument and the target of
  a link, so that a refusal comes with and without links to pass over.
* *File comparison.*  Two chunks are the least with a whole one and a part, or with
  an end that falls on a boundary; the one change falls between any two system calls,
  which is enough for a file to be too short, too long or different when it is read.
* *Images.*  Three images are the least with one that is neither first nor last
  of its row, and two workers the least that compete for the second mutex.

`threadpool_safety` and the violations of the pool do not report deadlocks
(`CHECK_DEADLOCK FALSE` in the former): when a lock error has killed a worker
`napr_threadpool_wait` really blocks for ever.  `threadpool_live`, without such
errors, checks that there is none.  `image_twins` does not either, for the same
reason: the report then never returns from its wait.

## 5. Fairness

* The pool: weak fairness of every worker's steps, and of the steps that finish a
  call once the caller has begun it.  The scheduler runs every thread that can
  run; the mutex is released after a few statements; callbacks are finite
  computations.  The caller owes nothing: it may never add, wait or exit.
  Nothing is assumed about which sleeper a signal wakes, nor about spurious
  wakeups.  Weak fairness of a worker that competes for the mutex suffices: the
  critical sections that disable its step are finite in number per round.
* `ImageTwins`: weak fairness of the report's own steps and of each worker's.  Here
  the caller does owe its calls: it is the report, a sequential program.
* `ReentrantHeap`: a thread inside the heap goes on (weak fairness), and a thread for
  which the mutex is free again and again gets it (strong fairness of `Enter`), which
  is what a mutex that does not starve its waiters gives.  Nobody has to call.
* The other specifications are sequential programs: weak fairness of the disjunction of
  the program's own steps.  The environment (`Vanish`, `Change`) is never fair.  In
  `HashTable` only a rebuild, the inside of a call, is fair: callers may stop.

## 6. What is proved

`ThreadpoolProofs` proves, for any finite set of workers, any data and any number
of rounds, failures and spurious wakeups:

* `TypeCorrect`, `NoLostWakeup` (`WorkConserving`), `CallerIsWoken`
  (`CallerWillBeWoken`), `EndedMeansIdle` (`EndedIsIdle`), without further
  assumptions;
* `DataConserved` (`EachDatumOnce`), `WaitHasWaited` (`WaitIsBarrier`),
  `RoundEndsWhenDone` (`EndsOnlyWhenDone`) and `PoolImplementsBarrier`
  (`ImplementsBarrier`), under the assumption that the caller is never woken
  spuriously (`Caller \notin SpuriousThreads`).  The run
  `threadpool_spurious_caller` shows that the assumption is needed.

None of these properties is inductive.  The invariant comes in three layers, each
using those below:

1. `ControlInv`: types; who holds the mutex (`OwnerIsInside`); a thread in `condq`
   is blocked; `nb_waiting` is the number of blocked workers, woken ones included
   (`WaitingCounted`); `run` is set exactly while the caller is blocked.
2. `WorkInv`: there are as many alerted workers as queued data unless all are
   awake, `ended` means that nobody works, a sleeping caller has a worker awake.
   These need each other: the last worker may sleep only because `ended` implies
   an empty list.
3. `RoundInv`: a caller woken from its wait finds `ended` set, so it finds nothing
   in the list and every worker blocked; that is why deleting the list loses
   nothing, and each datum is in one place.

Two small lemmas say what the list functions return: an enqueue appends also to
the empty list (where the code conses), and a size differs from zero exactly when the list is
not empty.

`HeapProofs` proves, for any data, weights, initial size and number of failing
allocations, `HeapInvariant` (`HeapInv`), `Ordered` (`HeapOrder`), `Enumerated`
(`NthEnumerates`) and `HeapIsPriorityQueue` (`ImplementsPriorityQueue`).
`HeapOrder` holds only between calls; `OrderedAround` says what holds inside the
loops: the only pair out of order is at the moving datum, and its parent is
in order with its children.  That the root is the highest datum follows from the order
of parents by taking the first cell of those that are higher than the root.

Of the reentrant functions it proves that every step of threads that use the wrappers is a
step of `Heap` or leaves the heap alone (`SharedIsHeap`), so that every theorem about
`Heap` holds of the shared one (`SharedHeapIsPriorityQueue`), and `MutualExclusion`:
two threads are never inside the heap together.  The invariant is that a thread in
the heap owns the mutex.

`PoolListProofs` proves, for any cells and data of which NULL is no cell
(`NullIsNoCell`), that head, tail and count always describe one chain of distinct
cells that ends in NULL (`ChainCorrect`), and that the list implements `Fifo`
(`ListIsQueue`).  A list that was emptied keeps a stale tail; that the next enqueue
does not follow it rests on the count being zero exactly when the head is NULL.
This module has no run: it is proved outright.

`ImageTwinsProofs` proves, for any workers, images and bounds, that the report uses
the pool as the pool allows (`ReportUsesPool`), so that the theorems of
`ThreadpoolProofs` carry over, and from them `VectorsAreFinished`
(`VectorsFinished`), under the same assumption on the caller.  Its invariant
`ReportInv` adds to the pool's: the caller's position in the pool follows from its
position in the report; a worker is in `compute_vector` exactly while the pool has it
in a callback, and a datum is processed only after its vector is finished; after the
wait the list is empty, all images are processed and the workers only sleep or look.

On top of it `PairsComparedOnce` (`EveryPairOnce`): `SearchInv` says that a row is
open only in the inner loop, that the compared pairs are those of the images that
have left the heap, and that their vectors are the freed ones (`VectorsFollowHeap`).

`TwinFinderProofs` has no assumption on the files for `SizesAlwaysConsistent`
(`SizesConsistent`) and `OnlyRowCopyLeft` (`CopiesRemoved`).  `SizesInv` needs
more than the counters: every file that is still to be handled has its entry
(`HeapsInTable`), and an entry still has a free slot for each of its files that waits
for its checksum (`CountsOK`).  `CopiesInv` ties a copy to the file or the pair at
hand; the copy of the first file of a pair is the only one that the end of a run may
leave, as `ftwin.c:914-919` does.  The next two assume `SizesApart`, that no two files have sizes with the same
low word, and `OnlyTwinsReported` (`NoFalseTwin`) also `OneEmptyContent`, that only
nothing has the size zero.  Without the former the code does report false twins
(section 7).  What `NoFalseTwin` excepts is no assumption but what the code does: a file
that was read second, and of which a read may fail, may stand in a group that it has
no content in common with.  `SlotsInv` says that the slots of an entry hold different files of its size,
`ReportInv` that only slots before row `i` may hold reported ones, which is why
`EachPrintedOnce` (`PrintedOnce`) holds, wherever `qsort` puts equal checksums.

That nothing is missing needs the same two assumptions and a longer argument.
`BiggerTwinsAlwaysReported` (`BiggerTwinsReported`) is about the sizes that are
`Quiet`: no file of that size or a bigger one has vanished or is unreliable.

1. `GivenInv`: an entry counts the files given of its size, and is dropped only for a
   file that is alone.
2. `FilledInv`: while checksums are computed, every file of a quiet size that has left
   the heap has a slot with its checksum, and as many slots are filled as files have
   left.  This is where the `status` that `ft_conf_process_sizes` forgets to assign
   matters: an error means that a file as big as all that are left is faulty.
3. `FullInv`: so all slots of a quiet size are full until the report comes to them.
4. `SettledInv` and `RowInv`: in a row, a file of the size is reported in full, or in
   a slot ahead, or in the group of the row; the twins of the row's first file are in the
   group or ahead of column `j`.  When a size ends nothing is ahead, so all its
   classes are settled.

When nothing vanishes and no read fails (`MaxGone = 0`, `Unreliable = {}`) all sizes are
quiet, and the same invariants
give `FtwinReportsTwinGroups` (`ImplementsTwinGroups`): each printed line is the one
`TwinGroups` expects next, which rests on `Grouped`, the order of `chksum_cmp`.
Checksums may collide in both theorems: the lines printed are right, and a run that
comes to its end has printed all.  That a run does not stop at a slot already emptied is
`FilledSlotsRead` (`OnlyFilledSlotsRead`), about every size that is quiet and whose
contents the checksums tell apart (`ToldApart`), whatever happens to smaller files.  `EmptiedInv` says that an emptied
slot keeps the checksum of a class that has no file in this row or ahead, so that no
comparison comes to it.

`HashTableProofs` proves, for any hash function, filling factor, data and failing
allocations, `DataInTheirBuckets` (`InTheirBuckets`), `AlwaysRoomForNext`
(`RoomForNext`) and the refinement of `Dictionary` (`TableIsDictionary`).  The
invariant `StackInv` is about the whole stack of nested rebuilds: each table is sound,
and each copy has exactly what the loops over the table below have come by
(`Copied`), so that a copy that is installed has everything.  `RoomInv` adds that a
copy always has room, since the rebuild inside it is over before the next element
comes.  `HarmNeedsFault` (`HarmOnlyByFault`) assumes `Separating(Sizes)`: among
the sizes that doubling the first one gives, the last that can be allocated has no
bucket for `Ffactor` of the data.  Without it the data collide at every size and the rebuilds end in an
allocation that fails, with no fault of the system (section 7, `-i`).

`IterationIsComplete` (`IterationComplete`) orders the positions that hold a datum as
the loops do and gives each its rank, the number of those before it.
`napr_hash_first` has rank 0 and `napr_hash_next` goes from each rank to the next
(`FirstIsRanked`, `NextIsRanked`); there are as many ranks as positions and as many
positions as data, so the iteration comes to all of them and then to NULL.  The
recursive function by which the property describes the iteration exists and is unique
(`RanksAreVisited`), by the least number at which two would differ.

`FileCompareProofs` proves, for any bytes, sizes of chunk and page, contents,
changes and failing calls, `NothingLeftOpen` (`ReleasedAtReturn`),
`ChecksumDependsOnContent` (`ChecksumOfContent`) and `ComparisonIsRight`
(`VerdictRight`).  The invariants say at each point of a call what is open and mapped
(`Held`), that both files are read in step (`InStep`), which chunks have been
hashed and that the next one begins where a chunk ends (`HashInv`), and how far the
files agree (`VerdictInv`).

`FileWalkProofs` proves, for any tree, options and changes, `NoThirdEntry`
(`LoopsCutShort`) and `OnlyFaultStops` (`FailsOnlyByFault`), and, if every entry
has one name (`OneName`: no hard links, no argument below another),
`EachFileOnOnePath` (`OnePathPerFile`).  `OneName` is needed: a file with two names
has two paths.  `LoopInv` says that the open directories, but perhaps for the last
one, were entered through different inodes; `PathInv` that whatever the walk is at,
its path leads there from an argument.  Where a chain of links ends is a recursive
function (`End`), about which the proof argues by the least link of the chain at
which a fact would fail (`HopsExist`, `HopsKeep`).

`EverythingDueCollected` (`CollectsWhatIsDue`) is about a walk that leaves
directories unread when it meets a loop.  That it misses nothing is not an invariant
of what it has read, so `AheadInv` looks at the ways to a file: along every way of
different entries from an argument to a regular file (`Way`) the walk has either
collected what is due of the file, or has still to go on from an argument, the call,
a name of an open directory or the open archive (`Ahead`).  A directory left because
of a loop has an entry that is on the stack already and so lies on no such way with
the directories further out.  Something that vanishes only takes ways away (`StatKept`,
`WayKept`).  A way leads to everything reachable, one new level of `Reachable`
with every entry (`WaysExist`), and `Reachable` is closed because it takes as many
steps as there are directories (`ReachableClosed`).  `SoundInv` says that meanwhile
the walk is only at what is reachable, as long as nothing has vanished, so that a walk
that fails does so at a file it should come to; `ShapeInv`
what the call, the outermost directory and an open archive are like.  `NullAssumption`
only says that the value for "no call" is not a call.

Only model-checked: everything temporal beyond safety (`WaitReturns`,
`EveryDatumProcessed`, `PoolComesToRest`, `CallsReturn`, `ReportEnds`, `Ends`,
`Terminates`, `RebuildEnds`, `WalkEnds`: liveness under fairness is out of the
prover's reach).

## 7. Findings and observations

Two runs show the code at odds with what the repository says of it; each is a
finding in `PROJECT.json` with the quoted line.

* `napr_threadpool_wait` calls `apr_thread_cond_wait` once, not in a loop: a
  spurious wakeup ends the wait with data queued or in a callback, and the list
  is deleted with them.
* `ft_conf_process_sizes` tests a `status` that is not assigned when a file is not
  checksummed: after one failed checksum the pairs of smaller size are dropped.

Noted on the way, without a run of their own.  The repository says otherwise where a
text is named:

* The rows of the report run over `nb_files` slots of which only `nb_checksumed`
  are filled (`ftwin.c:895`): after a failed checksum they read unwritten memory,
  although `CHANGES` (0.8.4, "don't crash" on files that cannot be read) says that such
  files do no harm.  The module has it as `ReadUnwrittenRow` and `ReadMissingColumn`;
  `OnlyFilledSlotsRead` holds only of sizes at which nothing fails.
* The report tests the file of row `i` for `NULL` and not the one of column `j`
  (`ftwin.c:890-935`): when `filecmp` fails on `i`, because its file has vanished,
  a later row reads a twin that is already printed.  `OnlyFilledSlotsRead` fails as
  soon as one of three identical files may vanish while they are reported, and also
  when two pairs of twins of one size share a checksum: the row of the second comes to
  the emptied slot of the first.  It is stated for the sizes at which neither happens.
* `apr_uint32_key_cmp` compares 32 bits of a 64-bit size: an empty file and one of
  2^32 bytes share an entry, and if the entry has the value zero they are reported as
  twins.  `NoFalseTwin` fails with `KeyRange = 2` and files of sizes 0 and 2;
  `twins_folded_sizes` claims consistency only.
* `napr_heap_insert_r` and `_extract_r` keep their mutex on failure and on an
  empty heap (`ReturnsLocked`); ftwin does not call them.
* `big_filecmp` returns early when a read fails or the second file is shorter: with
  no difference found so far it answers "equal" and leaves both descriptors open
  (`ft_file.c:217-226`), and when only the second read failed the status is the
  success of the first.  `VerdictRight` and `ReleasedAtReturn` say how far that goes.
  So `ftwin.c:956` prints two different files of one size as twins when the second
  cannot be read; `NoFalseTwin` excepts exactly that.  Nor does the comment
  above the test (`ftwin.c:942-947`) expect it: it speaks of pairs that are skipped.
* The result of `filecmp` is not initialised when nothing is compared.
* A comment in `ft_file.h:25` says that the checksums of small and of big files
  differ; `ChecksumOfContent` shows that they agree.
* `checksum_big_file` reads to the end of the file, whatever its size was.
* A file that loses a page while it is mapped kills ftwin (`Killed`).
* When the second file of a pair cannot be extracted the copy of the first stays in
  `/tmp`; `CopiesRemoved` says that no other does.
* An iteration of a hash table that removes its current element skips the one
  moved into its place, although `napr_hash.h:91` allows to delete the current entry;
  nothing does so.
* Eight equal names in `-i` make the table of ignored names rebuild without end
  until an allocation fails, and the next one overflows its bucket.
* `-f` without `-r` still enters directories that are reached through links, since
  `readdir` calls them links.
* With `-f` a file that two paths lead to is reported as a twin of itself
  (`OnePathPerFile` is stated for runs without `-f`).
* A file that has vanished, or that the system refuses to describe, open or read, ends
  the whole walk (`FailsOnlyByFault` says that little else does); under `-f` a link
  whose target has vanished or cannot be described is passed over as broken.
* `ftwin.c:814` does not look at what `napr_threadpool_wait` returns: after a
  refused wait the report compares vectors that workers are filling
  (`WaitIsRefused`); `VectorsFinished` is about waits that succeed.
* `apr_terminate` frees the pool's mutex and condition with workers blocked on them;
  nothing tells the workers to end.
* `ft_untar_file` extracts the first entry that has the name of the member.
* The option `-x` tests `conf.minsize` instead of `conf.excess_size`.

## 8. What is not modelled

* `libpuzzle` and `libarchive`, beyond what they answer: whether an image is read,
  which images are alike, which headers an archive has, whether a member is
  extracted.  The names of the temporary copies.
* The composition of the walk and the report: `TwinFinder` starts from any files in
  any order, which is more than the walk gives it.
* In the walk: expressions that depend on the directories of a name, inodes of
  several devices, the kernel's limit on links, failing allocations, directories that
  vanish or change their names otherwise than by losing files and links (a directory
  that cannot be opened or read any more is one that is refused).
* In the hash table: the failure of the first allocation of a bucket, which the
  code does not test, and `napr_hash_apply_function`, which no part of ftwin
  calls.
* In the heap: `napr_heap_destroy`, the display functions, the builds without APR,
  errors of `unlock` on a mutex that is held.
* `napr_list.c`, which no program contains; `checksum.c` and `lookup3.c`, which are
  vendored and appear as abstract values; `debug.h`, usage and version texts.
* The teardown by `apr_terminate` with workers still asleep on the condition.
* In `TwinFinder`: files that change instead of vanishing, and the errors of
  `apr_file_close` and `apr_mmap_delete`, which `FileCompare` has and which there only
  befall unreliable files, as a failing read.
* Endless equal keys in the hash table: the run has as many as fill a bucket once.

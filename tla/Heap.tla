---------------------------------- MODULE Heap ----------------------------------
(***************************************************************************)
(* The binary heap of src/napr_heap.c: an array that grows by doubling,    *)
(* with the loops that move a datum up after an insertion and down after   *)
(* an extraction.  One action is one iteration of a loop, so that what     *)
(* holds between two iterations can be stated.                             *)
(*                                                                         *)
(* A datum is a pointer; the comparison callback (ft_file_cmp) orders data *)
(* by a weight, the size of the file, and finds different data equal.      *)
(***************************************************************************)
EXTENDS Integers, FiniteSets

CONSTANTS
  Data,         \* the pointers that may be inserted, each once at a time
  Weight,       \* [Data -> Nat]
  InitialMax,   \* INITIAL_MAX, 256 in the code
  Null,         \* the NULL pointer
  Wild,         \* what uninitialised pool memory holds
  MaxFaults     \* bound: failed allocations

ASSUME HeapAssumption ==
  /\ Weight \in [Data -> Nat]
  /\ InitialMax \in Nat \ {0}
  /\ Null \notin Data
  /\ Wild \notin Data
  /\ MaxFaults \in Nat

VARIABLES
  tree,      \* heap->tree, from index 0
  lost,      \* heap->tree is NULL
  count,     \* heap->count
  max,       \* heap->max
  pc,        \* the loop that is running
  ipos,      \* the local ipos of that loop
  ret,       \* the local ret of the last extraction
  faults     \* failed allocations so far

vars == <<tree, lost, count, max, pc, ipos, ret, faults>>

Parent(position) == (position - 1) \div 2
Left(position) == 2 * position + 1
Right(position) == 2 * (position + 1)

TypeOK ==
  /\ tree \in [0..(max - 1) -> Data \cup {Null, Wild}]
  /\ lost \in BOOLEAN
  /\ count \in 0..max
  /\ max \in Nat \ {0}
  /\ pc \in {"idle", "up", "down", "crashed"}
  /\ ipos \in 0..(max - 1)
  /\ ret \in Data \cup {Null}
  /\ faults \in 0..MaxFaults

Init ==
  /\ tree = [n \in 0..(InitialMax - 1) |-> Null]
  /\ lost = FALSE
  /\ count = 0
  /\ max = InitialMax
  /\ pc = "idle"
  /\ ipos = 0
  /\ ret = Null
  /\ faults = 0

--------------------------------------------------------------------------------
(* The cells in use: while a datum moves up, the one it started in as well.  *)
used == IF pc = "up" THEN count + 1 ELSE count

Cells == 0..(used - 1)

Contents == IF lost THEN {} ELSE {tree[n] : n \in Cells}

\* cmp(a, b) < 0
Lower(a, b) == Weight[a] < Weight[b]

\* Mutant of Swapped: the datum overwritten is not kept aside.
Overwritten(m, n) == [tree EXCEPT ![m] = tree[n]]

Swapped(m, n) == [tree EXCEPT ![m] = tree[n], ![n] = tree[m]]

--------------------------------------------------------------------------------
(* napr_heap_insert *)

Full == max <= count

\* INITIAL_MAX is a power of two, so the loop finds 2 * max: the smallest power
\* of two above max.
new_max == 2 * max

\* The array after reallocation.  The memset stops one cell before the end.
Grown ==
  [n \in 0..(new_max - 1) |->
     IF n < count THEN tree[n] ELSE IF n < new_max - 1 THEN Null ELSE Wild]

Place(d, cells) ==
  /\ tree' = [cells EXCEPT ![count] = d]
  /\ ipos' = count
  /\ pc' = "up"

Insert(d) ==
  /\ pc = "idle"
  /\ d \notin Contents
  /\ ~Full
  /\ ~lost
  /\ Place(d, tree)
  /\ UNCHANGED <<lost, count, max, ret, faults>>

InsertGrows(d) ==
  /\ pc = "idle"
  /\ d \notin Contents
  /\ Full
  /\ ~lost
  /\ Place(d, Grown)
  /\ max' = new_max
  /\ UNCHANGED <<lost, count, ret, faults>>

\* The allocation fails: the array is forgotten, count and max are not.
InsertFails ==
  /\ pc = "idle"
  /\ Full
  /\ faults < MaxFaults
  /\ faults' = faults + 1
  /\ lost' = TRUE
  /\ UNCHANGED <<tree, count, max, pc, ipos, ret>>

\* After that an insertion that gets its memory copies from a NULL array.
InsertCrashes ==
  /\ pc = "idle"
  /\ Full
  /\ lost
  /\ pc' = "crashed"
  /\ UNCHANGED <<tree, lost, count, max, ipos, ret, faults>>

\* Mutant of MustRise: the comparison is made with the wrong cell.
MustRiseHalf == ipos > 0 /\ Lower(tree[ipos \div 2], tree[ipos])

MustRise == ipos > 0 /\ Lower(tree[Parent(ipos)], tree[ipos])

Rise ==
  /\ pc = "up"
  /\ MustRise
  /\ tree' = Swapped(Parent(ipos), ipos)
  /\ ipos' = Parent(ipos)
  /\ UNCHANGED <<lost, count, max, pc, ret, faults>>

InsertReturns ==
  /\ pc = "up"
  /\ ~MustRise
  /\ count' = count + 1
  /\ pc' = "idle"
  /\ UNCHANGED <<tree, lost, max, ipos, ret, faults>>

--------------------------------------------------------------------------------
(* napr_heap_extract *)

Extract ==
  /\ pc = "idle"
  /\ count # 0
  /\ ~lost
  /\ ret' = tree[0]
  /\ tree' = [tree EXCEPT ![0] = tree[count - 1], ![count - 1] = Null]
  /\ count' = count - 1
  /\ ipos' = 0
  /\ pc' = "down"
  /\ UNCHANGED <<lost, max, faults>>

ExtractNothing ==
  /\ pc = "idle"
  /\ count = 0 \/ lost
  /\ ret' = Null
  /\ UNCHANGED <<tree, lost, count, max, pc, ipos, faults>>

\* Mutant of mpos: the right child is not compared with the left one.
mposLeft ==
  IF Left(ipos) < count /\ Lower(tree[ipos], tree[Left(ipos)]) THEN Left(ipos)
  ELSE IF Right(ipos) < count /\ Lower(tree[ipos], tree[Right(ipos)]) THEN Right(ipos)
  ELSE ipos

\* The position of the highest of a datum and its children.
mpos ==
  LET higher == IF Left(ipos) < count /\ Lower(tree[ipos], tree[Left(ipos)]) THEN Left(ipos) ELSE ipos
  IN  IF Right(ipos) < count /\ Lower(tree[higher], tree[Right(ipos)]) THEN Right(ipos) ELSE higher

Sink ==
  /\ pc = "down"
  /\ mpos # ipos
  /\ tree' = Swapped(mpos, ipos)
  /\ ipos' = mpos
  /\ UNCHANGED <<lost, count, max, pc, ret, faults>>

ExtractReturns ==
  /\ pc = "down"
  /\ mpos = ipos
  /\ pc' = "idle"
  /\ UNCHANGED <<tree, lost, count, max, ipos, ret, faults>>

Crashed ==
  /\ pc = "crashed"
  /\ UNCHANGED vars

--------------------------------------------------------------------------------
Next ==
  \/ \E d \in Data : Insert(d) \/ InsertGrows(d)
  \/ InsertFails
  \/ InsertCrashes
  \/ Extract
  \/ ExtractNothing
  \/ Rise
  \/ InsertReturns
  \/ Sink
  \/ ExtractReturns
  \/ Crashed

Spec == Init /\ [][Next]_vars

--------------------------------------------------------------------------------
(* Properties *)

napr_heap_get_nth(n) == IF n < count /\ ~lost THEN tree[n] ELSE Null

\* Between two calls, napr_heap_get_nth enumerates the data of the heap: the
\* loops of ft_conf_image_twin_report see every image, and each once.
NthEnumerates ==
  pc = "idle" /\ ~lost =>
    /\ \A n \in 0..(count - 1) : napr_heap_get_nth(n) \in Data
    /\ \A m, n \in 0..(count - 1) : napr_heap_get_nth(m) = napr_heap_get_nth(n) => m = n

\* Between two calls no datum is higher than its parent.
HeapOrder ==
  pc = "idle" /\ ~lost =>
    \A n \in 1..(count - 1) : Weight[tree[n]] <= Weight[tree[Parent(n)]]

\* The heap is a priority queue: an insertion takes effect when it stores its
\* datum, an extraction when it takes the root.
Promise == INSTANCE PriorityQueue WITH queue <- Contents, MayFail <- MaxFaults > 0
ImplementsPriorityQueue == Promise!Spec

--------------------------------------------------------------------------------
(* Inductive strengthening; HeapProofs proves it. *)

CellsFilled == ~lost => \A n \in Cells : tree[n] \in Data

CellsDistinct == ~lost => \A m, n \in Cells : tree[m] = tree[n] => m = n

MovingCell ==
  /\ pc \in {"up", "down"} => ~lost
  /\ pc = "up" => count < max /\ ipos <= count
  /\ lost => count = max

\* While a datum moves, the only pair out of order is the one it makes with its
\* parent (on its way up) or with its children (on its way down), and its
\* parent and its children are in order with each other.
OrderedAround ==
  ~lost =>
    /\ \A n \in Cells \ {0} :
         (pc = "up" => n # ipos) /\ (pc = "down" => Parent(n) # ipos)
           => Weight[tree[n]] <= Weight[tree[Parent(n)]]
    /\ \A n \in Cells \ {0} :
         pc \in {"up", "down"} /\ ipos > 0 /\ Parent(n) = ipos
           => Weight[tree[n]] <= Weight[tree[Parent(ipos)]]

HeapInv == TypeOK /\ MovingCell /\ CellsFilled /\ CellsDistinct /\ OrderedAround
================================================================================

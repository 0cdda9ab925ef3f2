-------------------------------- MODULE PoolList --------------------------------
(***************************************************************************)
(* The list of the thread pool, the first part of src/napr_threadpool.c:   *)
(* a chain of cells with a pointer to its head, one to its tail, and a     *)
(* count of its cells.  The pool's mutex is held around every call.        *)
(*                                                                         *)
(* The three can disagree: taking the last cell leaves the tail where it   *)
(* is, size and emptiness are decided by the count, and the deletion       *)
(* follows the chain until it comes to NULL.                               *)
(***************************************************************************)
EXTENDS Naturals, Sequences

CONSTANTS
  Cells,  \* where apr_palloc may put a cell
  Items,
  Nil     \* the NULL pointer

\* NULL is the address of no cell: what the proofs assume.
NullIsNoCell == Nil \notin Cells

VARIABLES
  head, tail, nb_cells,   \* the fields of napr_list_t
  next, data,             \* those of each napr_cell_t
  used,                   \* the cells allocated from the list's pool
  deleting,               \* napr_list_delete is in its loop
  taken,                  \* what napr_list_get returned last
  order                   \* history: the cells of the list, in order

list == <<head, tail, nb_cells>>
cells == <<next, data, used>>
listvars == <<list, cells, deleting, taken, order>>

\* napr_list_make; memory holds anything.
Init ==
  /\ head = Nil /\ tail = Nil /\ nb_cells = 0
  /\ next \in [Cells -> Cells \cup {Nil}]
  /\ data \in [Cells -> Items]
  /\ used = {}
  /\ deleting = FALSE
  /\ taken \in Items
  /\ order = <<>>

--------------------------------------------------------------------------------
Allocate(c, x) ==
  /\ ~deleting
  /\ c \notin used
  /\ used' = used \cup {c}
  /\ data' = [data EXCEPT ![c] = x]
  /\ nb_cells' = nb_cells + 1
  /\ order' = Append(order, c)
  /\ UNCHANGED <<deleting, taken>>

\* napr_list_enqueue on an empty list calls napr_list_cons.
Cons(c, x) ==
  /\ nb_cells = 0
  /\ Allocate(c, x)
  /\ next' = [next EXCEPT ![c] = head]
  /\ head' = c
  /\ tail' = IF nb_cells' = 1 THEN c ELSE tail

Enqueue(c, x) ==
  /\ nb_cells # 0
  /\ Allocate(c, x)
  /\ next' = [next EXCEPT ![c] = Nil, ![tail] = c]
  /\ tail' = c
  /\ UNCHANGED head

\* napr_list_cdr
Cdr ==
  /\ head' = next[head]
  /\ nb_cells' = nb_cells - 1
  /\ order' = Tail(order)
  /\ UNCHANGED <<tail, cells>>

\* A worker looks at the size, then gets the first datum and drops its cell.
TakeFirst ==
  /\ ~deleting
  /\ nb_cells # 0
  /\ taken' = data[head]
  /\ Cdr
  /\ UNCHANGED deleting

StartDelete ==
  /\ ~deleting
  /\ deleting' = TRUE
  /\ UNCHANGED <<list, cells, taken, order>>

DropCell ==
  /\ deleting
  /\ head # Nil
  /\ Cdr
  /\ UNCHANGED <<deleting, taken>>

\* The pool is destroyed with its cells, and a new list made.
Remake ==
  /\ deleting
  /\ head = Nil
  /\ head' = Nil /\ tail' = Nil /\ nb_cells' = 0
  /\ used' = {}
  /\ deleting' = FALSE
  /\ UNCHANGED <<next, data, taken, order>>

Next ==
  \/ \E c \in Cells, x \in Items : Cons(c, x) \/ Enqueue(c, x)
  \/ TakeFirst
  \/ StartDelete
  \/ DropCell
  \/ Remake

Spec == Init /\ [][Next]_listvars

--------------------------------------------------------------------------------
(* Properties *)

TypeOK ==
  /\ head \in Cells \cup {Nil} /\ tail \in Cells \cup {Nil}
  /\ nb_cells \in Nat
  /\ next \in [Cells -> Cells \cup {Nil}]
  /\ data \in [Cells -> Items]
  /\ used \subseteq Cells
  /\ deleting \in BOOLEAN
  /\ taken \in Items
  /\ order \in Seq(Cells)

\* Head, tail and count agree on one chain of cells that ends in NULL: the count
\* never wraps below zero, an emptied list has no head although its tail is stale,
\* and no cell is in the chain twice.
Chain ==
  /\ nb_cells = Len(order)
  /\ head = IF order = <<>> THEN Nil ELSE order[1]
  /\ order # <<>> => tail = order[Len(order)]
  /\ \A n \in 1..Len(order) :
       /\ order[n] \in used
       /\ next[order[n]] = IF n = Len(order) THEN Nil ELSE order[n + 1]
  /\ \A m, n \in 1..Len(order) : order[m] = order[n] => m = n

ListInv == TypeOK /\ Chain

\* The cells are a queue of their data, which a deletion empties.
Value == IF deleting THEN <<>> ELSE [n \in 1..Len(order) |-> data[order[n]]]
Queue == INSTANCE Fifo WITH queue <- Value
ImplementsFifo == Queue!Spec
================================================================================

---------------------------------- MODULE Fifo ----------------------------------
(***************************************************************************)
(* What the thread pool expects of its list: a queue whose oldest datum is *)
(* taken first, and which can be emptied.  Threadpool uses the list by     *)
(* this value; PoolList implements it with cells.                          *)
(***************************************************************************)
EXTENDS Sequences

CONSTANT Items

VARIABLES
  queue,
  taken   \* the datum taken last

fifovars == <<queue, taken>>

Init == queue = <<>>

Put(x) == queue' = Append(queue, x) /\ UNCHANGED taken

Take ==
  /\ queue # <<>>
  /\ taken' = Head(queue)
  /\ queue' = Tail(queue)

Clear == queue' = <<>> /\ UNCHANGED taken

Next == Take \/ Clear \/ \E x \in Items : Put(x)

Spec == Init /\ [][Next]_fifovars
================================================================================

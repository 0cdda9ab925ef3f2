------------------------------- MODULE Dictionary ------------------------------
(***************************************************************************)
(* What napr_hash.h promises of a hash table: a search finds a datum with  *)
(* the key if and only if one was set and not removed since.  Every call   *)
(* takes effect in one step.                                               *)
(***************************************************************************)
CONSTANTS
  Data,   \* the pointers that may be set
  Keys,
  KeyOf,  \* [Data -> Keys], the callback get_key
  Null    \* what a search returns when there is no such datum

VARIABLES
  present,  \* the data in the table
  found     \* what the last search returned

Init == present = {} /\ found = Null

WithKey(key) == {d \in present : KeyOf[d] = key}

Search(key) ==
  /\ IF WithKey(key) = {} THEN found' = Null ELSE found' \in WithKey(key)
  /\ UNCHANGED present

Set(d) ==
  /\ d \notin present
  /\ present' = present \cup {d}
  /\ UNCHANGED found

\* What is removed is what the last search found.
Remove ==
  /\ found \in present
  /\ present' = present \ {found}
  /\ UNCHANGED found

Next ==
  \/ \E key \in Keys : Search(key)
  \/ \E d \in Data : Set(d)
  \/ Remove

Spec == Init /\ [][Next]_<<present, found>>
================================================================================

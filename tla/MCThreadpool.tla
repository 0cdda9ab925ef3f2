------------------------------ MODULE MCThreadpool -----------------------------
(***************************************************************************)
(* Threadpool on small sets of threads and data for TLC.                   *)
(***************************************************************************)
EXTENDS Threadpool, TLC

\* The workers are interchangeable, and so are the data that are not NULL.
PoolSymmetry == Permutations(Workers) \cup Permutations(Items \ {Null})
================================================================================

------------------------------ MODULE MCImageTwins ------------------------------
(***************************************************************************)
(* ImageTwins for TLC.  Being alike is not transitive: of three images, one *)
(* is like the two others.                                                 *)
(***************************************************************************)
EXTENDS ImageTwins

OneLikeAll == {p \in Pairs : (CHOOSE x \in Items : TRUE) \in p}
================================================================================

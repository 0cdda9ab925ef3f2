--------------------------------- MODULE MCHeap ---------------------------------
(* ReentrantHeap with few data, some of equal weight, and a small first array. *)
EXTENDS ReentrantHeap

CONSTANTS d1, d2, d3, d4, d5, d6

\* Two heavy data, two middle ones and two light ones.
ThreeWeights ==
  [d \in Data |-> IF d \in {d1, d2} THEN 3 ELSE IF d \in {d3, d4} THEN 2 ELSE 1]
================================================================================

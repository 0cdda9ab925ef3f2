------------------------------ MODULE MCTwinFinder -----------------------------
(***************************************************************************)
(* TwinFinder on a few files for TLC.  Contents are numbers whose first    *)
(* digit is the size, so that 21 and 22 are two contents of two bytes.     *)
(***************************************************************************)
EXTENDS TwinFinder, TLC

DigitSize == [c \in Contents |-> c \div 10]
PerfectHash == [c \in Contents |-> c]
CollidingHash == [c \in Contents |-> c \div 10]

\* The reliable files are interchangeable, where none is archived.
FileSymmetry == Permutations(Files \ Unreliable)
================================================================================

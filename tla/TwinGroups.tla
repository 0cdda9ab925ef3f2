------------------------------ MODULE TwinGroups -------------------------------
(***************************************************************************)
(* What ftwin promises, without heap, sizes or checksums: the files given  *)
(* to it are partitioned by content, each class of at least two files is   *)
(* printed as one group, one file after the other, the biggest files and   *)
(* within a group the prioritized ones first, and nothing else is printed. *)
(* TwinFinder implements this module as long as no file vanishes and no    *)
(* two sizes share a key of its table.                                     *)
(***************************************************************************)
EXTENDS Naturals, Sequences, FiniteSets

CONSTANTS Files, SizeOf

VARIABLES
  content,      \* what each file contains; never changes
  prioritized,  \* the files to be named first in their group; never changes
  given,        \* the files found on the command line and below
  groups,       \* the output: a sequence of sequences of files
  done          \* ftwin has ended with a success

vars == <<content, prioritized, given, groups, done>>

Members(g) == {g[n] : n \in DOMAIN g}
Reported == UNION {Members(groups[n]) : n \in DOMAIN groups}
Twins(f) == {g \in given : content[g] = content[f]}

\* Those of S that may be named next.
First(S) == IF S \cap prioritized = {} THEN S ELSE S \cap prioritized

Init ==
  /\ given = {}
  /\ groups = <<>>
  /\ done = FALSE

Give(f) ==
  /\ groups = <<>>
  /\ f \notin given
  /\ given' = given \cup {f}
  /\ UNCHANGED <<content, prioritized, groups, done>>

\* The class of f was not reported, and no smaller one was.
StartGroup(f, g) ==
  /\ ~done
  /\ f \in given
  /\ f \in First(Twins(f)) /\ g \in First(Twins(f) \ {f})
  /\ Twins(f) \cap Reported = {}
  /\ \A n \in DOMAIN groups : SizeOf[content[groups[n][1]]] >= SizeOf[content[f]]
  /\ groups' = Append(groups, <<f, g>>)
  /\ UNCHANGED <<content, prioritized, given, done>>

ExtendGroup(g) ==
  /\ ~done
  /\ groups # <<>>
  /\ g \in First(Twins(groups[Len(groups)][1]) \ Reported)
  /\ groups' = [groups EXCEPT ![Len(groups)] = Append(@, g)]
  /\ UNCHANGED <<content, prioritized, given, done>>

\* Nothing is left to report.
Finish ==
  /\ ~done
  /\ \A f \in given : Cardinality(Twins(f)) > 1 => Twins(f) \subseteq Reported
  /\ done' = TRUE
  /\ UNCHANGED <<content, prioritized, given, groups>>

Next ==
  \/ \E f \in Files : Give(f) \/ ExtendGroup(f) \/ \E g \in Files : StartGroup(f, g)
  \/ Finish

Spec == Init /\ [][Next]_vars
================================================================================

------------------------------- MODULE MCFileWalk ------------------------------
(***************************************************************************)
(* A small file system for TLC:                                            *)
(*   top/  sub/   back -> top    a link to a parent                        *)
(*                doc            a regular file                            *)
(*                self -> self   a link that cannot be resolved            *)
(*                note           a file that a regular expression excludes *)
(*         loop -> sub           a second way to sub                       *)
(*         core                  a file whose name is on the ignore list   *)
(* The command line names top, an archive, one that breaks off, and a file *)
(* that is no archive although it has the name of one.  The system may     *)
(* refuse top, to which a link leads as well, and the archive.             *)
(***************************************************************************)
EXTENDS FileWalk, TLC

CONSTANTS top, sub, back, doc, note, loop, self, tar, cut, bad, core

SmallTree ==
  top :> ("sub" :> sub @@ "loop" :> loop @@ "core" :> core)
  @@ sub :> ("back" :> back @@ "doc" :> doc @@ "self" :> self @@ "note" :> note)

LinkTargets == back :> top @@ loop :> sub @@ self :> self

ArchiveMembers == tar :> <<"file", "directory", "small", "file">> @@ cut :> <<"file", "error">> @@ bad :> <<"error">>

CommandLine == <<top, tar, cut, bad>>
================================================================================

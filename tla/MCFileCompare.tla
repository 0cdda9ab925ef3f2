----------------------------- MODULE MCFileCompare -----------------------------
(***************************************************************************)
(* FileCompare for TLC: chunks and pages of two bytes, so that a file has  *)
(* up to two chunks, the last of them whole or not.                        *)
(***************************************************************************)
EXTENDS FileCompare

Page == 2
================================================================================

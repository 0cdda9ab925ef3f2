-------------------------------- MODULE FileWalk --------------------------------
(***************************************************************************)
(* How ft_conf_add_file of src/ftwin.c walks through the files and         *)
(* directories of the command line: what it skips, how it follows symbolic *)
(* links without going round in circles, and which files it ends up with.  *)
(* The directories may change under it, and the system may refuse to look  *)
(* at some files, to open or to read them, when it is asked.               *)
(*                                                                         *)
(* The recursion is a stack of directories that are being read, of which   *)
(* readdir may return the names in any order, and a call about to begin.   *)
(* Whatever the permission bits, the owner and the groups say of a file is *)
(* in Readable and Searchable, whatever the regular expressions say of a   *)
(* full name in Excluded.                                                  *)
(***************************************************************************)
EXTENDS Integers, Sequences, FiniteSets, SequencesExt

CONSTANTS
  Args,       \* the inodes that the command line names, a sequence
  Directory,  \* [directories -> [names -> inodes]]
  Target,     \* [symbolic links -> inodes and Null]
  Regular,    \* the regular files
  Members,    \* [archives among them -> sequence of headers, see Headers]
  Ignored,    \* names of the ignore list (-i)
  Excluded,   \* names of what the regular expressions leave out (-e, -w)
  Small,      \* the files and members below the minimal size (-m)
  MayBeShut,  \* bound: inodes that the user may lack permissions on
  Refusing,   \* what the system may refuse, at any time: no descriptor left, an ACL, a bad disk
  Null,       \* no inode, no call, no archive
  MayVanish   \* bound: the files and links that may vanish, at most one of them

Dirs == DOMAIN Directory
Links == DOMAIN Target
Archives == DOMAIN Members
Inodes == Dirs \cup Links \cup Regular
Names == UNION {DOMAIN Directory[d] : d \in Dirs}

\* What archive_read_next_header returns for a member: the member, a directory,
\* or an error.
Headers == {"file", "small", "directory", "error"}

ASSUME FileWalkAssumption ==
  /\ \A d \in Dirs : \A name \in DOMAIN Directory[d] : Directory[d][name] \in Inodes
  /\ \A l \in Links : Target[l] \in Inodes \cup {Null}
  /\ Args \in Seq(Inodes)
  /\ Archives \subseteq Regular
  /\ \A a \in Archives : Members[a] \in Seq(Headers)
  /\ Dirs \cap Links = {} /\ Dirs \cap Regular = {} /\ Links \cap Regular = {}
  /\ Null \notin Inodes
  /\ IsFiniteSet(Inodes)
  /\ MayVanish \subseteq Links \cup Regular
  /\ Refusing \subseteq Dirs \cup Regular

VARIABLES
  follow, recurse, untar,  \* the options -f, -r and -t
  shut,     \* inodes the user may not read, and directories he may not search
  gone,     \* inodes that have vanished
  phase,    \* how main fares
  args,     \* the arguments that are left
  stack,    \* the directories being read, the innermost last
  call,     \* the call of ft_conf_add_file about to begin
  archive,  \* the archive whose headers are being read
  added     \* the files put into the heap: their inode, path and member

options == <<follow, recurse, untar, shut>>
vars == <<options, gone, phase, args, stack, call, archive, added>>

Frames == [dir : Dirs, entry : Inodes \cup {Null}, path : Seq(Names), todo : SUBSET Names]
Calls == [inode : Inodes, entry : Inodes \cup {Null}, path : Seq(Names)]
Readings == [inode : Archives, path : Seq(Names), n : Nat]
Files == [inode : Regular, path : Seq(Names), member : Nat]

\* Null is neither a call nor an archive being read.
ASSUME NullAssumption == Null \notin Calls \cup Readings

TypeOK ==
  /\ follow \in BOOLEAN
  /\ recurse \in BOOLEAN
  /\ untar \in BOOLEAN
  /\ shut \subseteq MayBeShut
  /\ gone \subseteq MayVanish
  /\ phase \in {"walk", "done", "failed"}
  /\ args \in Seq(Inodes)
  /\ stack \in Seq(Frames)
  /\ call \in Calls \cup {Null}
  /\ archive \in Readings \cup {Null}
  /\ added \subseteq Files

\* The options may be given in any combination.
AnyOptions == follow \in BOOLEAN /\ recurse \in BOOLEAN /\ untar \in BOOLEAN

Init ==
  /\ AnyOptions
  /\ shut \in SUBSET MayBeShut
  /\ gone = {}
  /\ phase = "walk"
  /\ args = Args
  /\ stack = <<>>
  /\ call = Null
  /\ archive = Null
  /\ added = {}

--------------------------------------------------------------------------------
\* Someone else removes a file or a link.
Vanish(inode) ==
  /\ phase = "walk"
  /\ gone = {}
  /\ gone' = {inode}
  /\ UNCHANGED <<options, phase, args, stack, call, archive, added>>

NextArg ==
  /\ phase = "walk"
  /\ stack = <<>> /\ call = Null /\ archive = Null
  /\ args # <<>>
  /\ call' = [inode |-> Head(args), entry |-> Null, path |-> <<>>]
  /\ args' = Tail(args)
  /\ UNCHANGED <<options, gone, phase, stack, archive, added>>

Finish ==
  /\ phase = "walk"
  /\ stack = <<>> /\ call = Null /\ archive = Null
  /\ args = <<>>
  /\ phase' = "done"
  /\ UNCHANGED <<options, gone, args, stack, call, archive, added>>

--------------------------------------------------------------------------------
(* A call: what apr_stat says of its file *)

\* Where a chain of links ends; Null when it is broken, or never ends.
End(inode) ==
  LET hop[n \in 0..Cardinality(Links)] ==
        IF n = 0 THEN inode
        ELSE IF hop[n - 1] \in Links \ gone THEN Target[hop[n - 1]]
        ELSE hop[n - 1]
      last == hop[Cardinality(Links)]
  IN  IF last \in Links \cup gone \cup {Null} THEN Null ELSE last

\* Mutant of Stat: links are always followed.
StatFollows(inode) == End(inode)

\* The file apr_stat describes, Null if it fails: without -f a link itself.
Stat(inode) ==
  IF follow THEN End(inode) ELSE IF inode \in gone THEN Null ELSE inode

Called == phase = "walk" /\ call # Null

Return == call' = Null /\ UNCHANGED <<options, gone, phase, args, stack, archive, added>>

\* Mutant of IsBrokenLink: what was a bug until 0.8.2.
NeverBroken == FALSE

\* apr_stat fails where there is no file, and may fail where it is refused.
MayFail(inode) == Stat(inode) \in Refusing \cup {Null}

\* apr_stat failed, and says on a second try that the file is a link.
IsBrokenLink == follow /\ call.inode \in Links \ gone

\* A file that vanished since its name was read ends the whole walk, and so does one
\* that apr_stat is refused.
StatFails ==
  /\ Called
  /\ MayFail(call.inode)
  /\ ~IsBrokenLink
  /\ phase' = "failed"
  /\ UNCHANGED <<options, gone, args, stack, call, archive, added>>

SkipBrokenLink ==
  /\ Called
  /\ MayFail(call.inode)
  /\ IsBrokenLink
  /\ Return

SkipShut ==
  /\ Called
  /\ Stat(call.inode) \in shut
  /\ Return

Open == Called /\ Stat(call.inode) \notin shut \cup {Null}

\* A link that is not followed is neither a directory nor a regular file.
SkipLink ==
  /\ Open
  /\ Stat(call.inode) \in Links
  /\ Return

OpenDirectory ==
  /\ Open
  /\ Stat(call.inode) \in Dirs
  /\ LET d == Stat(call.inode)
     IN  stack' = Append(stack, [dir |-> d, entry |-> call.entry, path |-> call.path,
                                 todo |-> DOMAIN Directory[d]])
  /\ call' = Null
  /\ UNCHANGED <<options, gone, phase, args, archive, added>>

\* apr_dir_open fails.
OpenDirectoryFails ==
  /\ Open
  /\ Stat(call.inode) \in Dirs \cap Refusing
  /\ phase' = "failed"
  /\ UNCHANGED <<options, gone, args, stack, call, archive, added>>

IsArchive(file) == untar /\ file \in Archives

AddFile ==
  /\ Open
  /\ Stat(call.inode) \in Regular
  /\ ~IsArchive(Stat(call.inode))
  /\ added' = IF Stat(call.inode) \in Small THEN added
              ELSE added \cup {[inode |-> Stat(call.inode), path |-> call.path, member |-> 0]}
  /\ call' = Null
  /\ UNCHANGED <<options, gone, phase, args, stack, archive>>

OpenArchive ==
  /\ Open
  /\ Stat(call.inode) \in Regular
  /\ IsArchive(Stat(call.inode))
  /\ archive' = [inode |-> Stat(call.inode), path |-> call.path, n |-> 1]
  /\ call' = Null
  /\ UNCHANGED <<options, gone, phase, args, stack, added>>

\* libarchive cannot be set up, or cannot open the file.
OpenArchiveFails ==
  /\ Open
  /\ Stat(call.inode) \in Refusing
  /\ IsArchive(Stat(call.inode))
  /\ phase' = "failed"
  /\ UNCHANGED <<options, gone, args, stack, call, archive, added>>

--------------------------------------------------------------------------------
(* The headers of an archive *)

Header == Members[archive.inode][archive.n]
HasHeader == phase = "walk" /\ archive # Null /\ archive.n <= Len(Members[archive.inode])

AddMember ==
  /\ HasHeader
  /\ Header # "error"
  /\ added' = IF Header # "file" THEN added
              ELSE added \cup {[inode |-> archive.inode, path |-> archive.path, member |-> archive.n]}
  /\ archive' = [archive EXCEPT !.n = @ + 1]
  /\ UNCHANGED <<options, gone, phase, args, stack, call>>

\* archive_read_next_header fails.
BadHeader == (HasHeader /\ Header = "error") \/ archive.inode \in Refusing

\* An error in the first header means that this is no archive.
EndArchive ==
  /\ phase = "walk"
  /\ archive # Null
  /\ ~HasHeader \/ (archive.n = 1 /\ BadHeader)
  /\ archive' = Null
  /\ UNCHANGED <<options, gone, phase, args, stack, call, added>>

ArchiveFails ==
  /\ phase = "walk"
  /\ archive # Null
  /\ archive.n > 1
  /\ BadHeader
  /\ phase' = "failed"
  /\ UNCHANGED <<options, gone, args, stack, call, archive, added>>

--------------------------------------------------------------------------------
(* The loop over the names of the innermost directory *)

frame == Last(stack)
Reading == phase = "walk" /\ stack # <<>> /\ call = Null /\ archive = Null

\* What the type that readdir gives, and the name, leave out.
Filtered(name) ==
  LET inode == Directory[frame.dir][name]
  IN  \/ name \in Ignored
      \/ inode \in Dirs /\ ~recurse
      \/ inode \notin Dirs /\ name \in Excluded

\* Mutants of Loop: only the parent is compared, or the directory with itself.
LoopAtParent ==
  /\ frame.entry # Null
  /\ Len(stack) > 1
  /\ stack[Len(stack) - 1].entry = frame.entry
LoopAtSelf == frame.entry # Null /\ \E n \in 1..Len(stack) : stack[n].entry = frame.entry

\* The entry that led to this directory led to another one further out.
Loop ==
  /\ frame.entry # Null
  /\ \E n \in 1..(Len(stack) - 1) : stack[n].entry = frame.entry

\* Mutant of Remaining: the same name is read again.
SameNames(name) == stack

Remaining(name) == [stack EXCEPT ![Len(stack)].todo = @ \ {name}]

\* readdir may know already that a file has vanished.
SkipName(name) ==
  /\ Reading
  /\ name \in frame.todo
  /\ Filtered(name) \/ Directory[frame.dir][name] \in gone
  /\ stack' = Remaining(name)
  /\ UNCHANGED <<options, gone, phase, args, call, archive, added>>

VisitName(name) ==
  /\ Reading
  /\ name \in frame.todo
  /\ ~Filtered(name)
  /\ ~Loop
  /\ stack' = Remaining(name)
  /\ LET inode == Directory[frame.dir][name]
     IN  call' = [inode |-> inode, entry |-> inode, path |-> Append(frame.path, name)]
  /\ UNCHANGED <<options, gone, phase, args, archive, added>>

\* The directory is left with its first name that is not filtered.
LeaveLoop ==
  /\ Reading
  /\ \E name \in frame.todo : ~Filtered(name)
  /\ Loop
  /\ stack' = Front(stack)
  /\ UNCHANGED <<options, gone, phase, args, call, archive, added>>

CloseDirectory ==
  /\ Reading
  /\ frame.todo = {}
  /\ stack' = Front(stack)
  /\ UNCHANGED <<options, gone, phase, args, call, archive, added>>

\* apr_dir_read or apr_dir_close fails.
ReadDirectoryFails ==
  /\ Reading
  /\ frame.dir \in Refusing
  /\ phase' = "failed"
  /\ UNCHANGED <<options, gone, args, stack, call, archive, added>>

Ended ==
  /\ phase # "walk"
  /\ UNCHANGED vars

--------------------------------------------------------------------------------
Walk ==
  \/ NextArg \/ Finish
  \/ StatFails \/ SkipBrokenLink \/ SkipShut \/ SkipLink
  \/ OpenDirectory \/ OpenDirectoryFails \/ AddFile \/ OpenArchive \/ OpenArchiveFails
  \/ AddMember \/ EndArchive \/ ArchiveFails
  \/ \E name \in Names : SkipName(name) \/ VisitName(name)
  \/ LeaveLoop \/ CloseDirectory \/ ReadDirectoryFails

Next ==
  \/ Walk
  \/ \E inode \in MayVanish : Vanish(inode)
  \/ Ended

Spec == Init /\ [][Next]_vars

\* A sequential program goes on until it ends.
FairSpec == Spec /\ WF_vars(Walk)

--------------------------------------------------------------------------------
(* Properties *)

\* The links and archives that the walk passes over when their target, or the first
\* header, is refused.
Unsure == {x \in Links \cup Archives : Stat(x) \in Refusing /\ (x \in Links \/ IsArchive(x))}

\* What the names of a directory lead to, as the options have it, where some inodes
\* are left out.
Leads(d, left) ==
  {Stat(Directory[d][name]) :
     name \in {n \in DOMAIN Directory[d] \ Ignored :
                /\ Directory[d][n] \notin left
                /\ IF Directory[d][n] \in Dirs THEN recurse ELSE n \notin Excluded}}

Permitted(inodes) == inodes \ (shut \cup {Null})

\* What the walk should come to: the closure of the arguments under Leads.
Reachable(left) ==
  LET reach[n \in 0..Cardinality(Dirs)] ==
        IF n = 0 THEN Permitted({Stat(Args[k]) : k \in {m \in DOMAIN Args : Args[m] \notin left}})
        ELSE reach[n - 1] \cup Permitted(UNION {Leads(d, left) : d \in reach[n - 1] \cap Dirs})
  IN  reach[Cardinality(Dirs)]

FileOf(f) == [inode |-> f.inode, member |-> f.member]
Collected == {FileOf(f) : f \in added}

\* The members of an archive that are files and big enough.
GoodMembers(a) == {n \in DOMAIN Members[a] : Members[a][n] = "file"}
IsReallyArchive(a) == untar /\ a \in Archives

\* What is due of a regular file.
DueOf(r) ==
  IF ~IsReallyArchive(r) THEN (IF r \in Small THEN {} ELSE {[inode |-> r, member |-> 0]})
  ELSE IF Members[r] # <<>> /\ Members[r][1] = "error" THEN {}
  ELSE {[inode |-> r, member |-> n] : n \in GoodMembers(r)}

Due(left) == UNION {DueOf(r) : r \in Reachable(left) \cap Regular}

\* The walk misses no file, but for what a refusal makes it pass over: a directory
\* that it leaves because of a loop is being read further out, and a file that
\* vanishes hides no other one.  And it comes to no other file, unless the tree
\* changes on the way.
CollectsWhatIsDue ==
  phase = "done" =>
    /\ Due(Unsure) \subseteq Collected
    /\ gone = {} => Collected \subseteq Due({})

\* Without -f the walk comes to a file on one path only, so that none is
\* reported as a twin of itself.
OnePathPerFile ==
  ~follow => \A f, g \in added : FileOf(f) = FileOf(g) => f = g

\* No directory is entered a third time on one path.
LoopsCutShort ==
  TypeOK /\ \A n \in DOMAIN stack :
    stack[n].entry # Null =>
      Cardinality({m \in DOMAIN stack : stack[m].entry = stack[n].entry}) <= 2

\* What the walk was at when it ended.
AtHand ==
  IF call # Null THEN Stat(call.inode) ELSE IF archive # Null THEN archive.inode ELSE frame.dir

BreaksOff(a) == IsArchive(a) /\ \E n \in DOMAIN Members[a] : n > 1 /\ Members[a][n] = "error"

\* Neither broken links nor loops stop the program (CHANGES, 0.8.2 and 0.8.3), nor does
\* anything that the options leave out: unless the tree changes, only the system does
\* when it refuses a file that the walk should come to, or such an archive that is
\* broken in the middle.
FailsOnlyByFault ==
  phase = "failed" /\ gone = {} =>
    /\ AtHand \in Refusing \/ BreaksOff(AtHand)
    /\ AtHand \in Reachable({}) \cup shut

\* The walk ends, whatever circles the links make.
WalkEnds == <>(phase # "walk")
================================================================================

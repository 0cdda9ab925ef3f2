------------------------------ MODULE FileCompare ------------------------------
(***************************************************************************)
(* One call of checksum_file or of filecmp (src/ft_file.c) on files that   *)
(* another process may change at any time.  Files smaller than             *)
(* excess_size are mapped into memory, the others, and those that cannot   *)
(* be mapped, are read chunk by chunk.                                     *)
(*                                                                         *)
(* An action is a system call with the code up to the next one.  The two   *)
(* calls open, map and close alike, one a single file and the other two.   *)
(* hash is kept as the sequence of chunks it was called with.              *)
(***************************************************************************)
EXTENDS Naturals, Sequences, FiniteSets

CONSTANTS
  Bytes,       \* the values of a byte
  Zero,        \* the byte that fills the last page of a mapping
  HugeLen,     \* HUGE_LEN, the size of a chunk
  PageLen,     \* the size of a page of memory
  ExcessSize,  \* conf->excess_size
  MaxLen,      \* bound: length of a file
  MaxChanges   \* bound: changes made by another process

ASSUME FileCompareAssumption ==
  /\ Zero \in Bytes
  /\ HugeLen \in Nat \ {0}
  /\ PageLen \in Nat \ {0}
  /\ ExcessSize \in Nat
  /\ MaxLen \in Nat
  /\ MaxChanges \in Nat

Names == 1..2   \* fname1 and fname2; checksum_file has the first only

VARIABLES
  disk,      \* what each file holds
  removed,   \* the files that have no name any more
  touched,   \* history: the files changed during the call
  changes,   \* how many changes were made
  call,      \* "checksum_file" or "filecmp"
  size,      \* its argument: the length that the walk has seen
  pc,
  fd,        \* the files that are open
  mm,        \* the files that are mapped
  off,       \* how far each file was read, or hashed
  chunk,     \* data_chunk1
  state,     \* the chunks hashed since the state was reset
  i,         \* the result of filecmp, which its caller has not initialised
  status,    \* what is returned
  unread     \* history: a read has failed

world == <<disk, removed, touched, changes>>
given == <<world, call, size>>
files == <<fd, mm>>
result == <<chunk, state, i>>
vars == <<given, pc, files, off, result, status, unread>>

Strings(n) == UNION {[1..l -> Bytes] : l \in 0..n}
Smaller(a, b) == IF a < b THEN a ELSE b

\* How many blocks of b bytes it takes to hold n.
Blocks(n, b) == (n + b - 1) \div b

TypeOK ==
  /\ disk \in [Names -> Strings(MaxLen)]
  /\ removed \subseteq Names /\ touched \subseteq Names
  /\ call \in {"checksum_file", "filecmp"}
  /\ size \in 0..MaxLen
  /\ pc \in {"called", "small_open", "map", "mapped", "big_open", "read", "read2", "close", "returned", "killed"}
  /\ fd \subseteq Names /\ mm \subseteq Names
  /\ off \in [Names -> 0..MaxLen]
  /\ chunk \in Strings(HugeLen)
  /\ state \in Seq(Strings(HugeLen))
  /\ i \in {0, 1}
  /\ status \in {"none", "ok", "error"}
  /\ unread \in BOOLEAN

\* The caller's memory holds anything where the state will be: no file hashes to
\* the one empty chunk.
Init ==
  /\ disk \in [Names -> Strings(MaxLen)]
  /\ removed = {} /\ touched = {} /\ changes = 0
  /\ \/ call = "checksum_file" /\ disk[2] = <<>> /\ i = 0
     \/ call = "filecmp" /\ i \in {0, 1}
  /\ size \in 0..MaxLen
  /\ pc = "called"
  /\ fd = {} /\ mm = {}
  /\ off = [f \in Names |-> 0]
  /\ chunk = <<>> /\ state = <<<<>>>>
  /\ status = "none"
  /\ unread = FALSE

InCall == pc \notin {"returned", "killed"}

--------------------------------------------------------------------------------
(* The file system *)

\* What another process may make of a file in one step: cut it, lengthen it by a
\* byte, or write over a byte.
Edits(s) ==
  {SubSeq(s, 1, n) : n \in 0..(Len(s) - 1)}
  \cup {Append(s, b) : b \in Bytes}
  \cup {[s EXCEPT ![n] = b] : n \in DOMAIN s, b \in Bytes}

\* It edits a file or removes its name.
Change(f) ==
  /\ InCall
  /\ changes < MaxChanges
  /\ changes' = changes + 1
  /\ touched' = touched \cup {f}
  /\ \/ removed' = removed \cup {f} /\ UNCHANGED disk
     \/ \E s \in Edits(disk[f]) \cap Strings(MaxLen) : disk' = [disk EXCEPT ![f] = s]
        /\ UNCHANGED removed
  /\ UNCHANGED <<call, size, pc, files, off, result, status, unread>>

\* The bytes of a mapping of `size' bytes that can be touched: past its end a file
\* is continued with zeroes to the end of the page, and beyond is SIGBUS.
Mapping(f) ==
  [p \in 1..Smaller(size, PageLen * Blocks(Len(disk[f]), PageLen)) |->
     IF p <= Len(disk[f]) THEN disk[f][p] ELSE Zero]

\* What apr_file_read returns when n bytes are asked for.
Read(f, n) == SubSeq(disk[f], off[f] + 1, Smaller(off[f] + n, Len(disk[f])))
AtEnd(f) == off[f] >= Len(disk[f])

--------------------------------------------------------------------------------
(* Opening and closing *)

Return(st) == pc' = "returned" /\ status' = st

Call ==
  /\ pc = "called"
  /\ call = "filecmp" => size > 0
  /\ pc' = IF size < ExcessSize THEN "small_open" ELSE "big_open"
  /\ UNCHANGED <<given, files, off, result, status, unread>>

\* Of two files that were empty neither is opened.
FilecmpEmpty ==
  /\ pc = "called"
  /\ call = "filecmp"
  /\ size = 0
  /\ i' = 0
  /\ Return("ok")
  /\ UNCHANGED <<given, files, off, chunk, state, unread>>

Files == IF call = "filecmp" THEN Names ELSE {1}
Opening == pc \in {"small_open", "big_open"}
NextName == Cardinality(fd) + 1   \* the file to open: the first, then the second
LastName == Cardinality(fd)       \* the one opened last

\* apr_file_open; a file with no name left cannot be opened.
Open ==
  /\ NextName \notin removed
  /\ fd' = fd \cup {NextName}
  /\ off' = [off EXCEPT ![NextName] = 0]

SmallOpens ==
  /\ pc = "small_open"
  /\ Open
  /\ pc' = "map"
  /\ UNCHANGED <<given, mm, result, status, unread>>

BigOpens ==
  /\ pc = "big_open"
  /\ Open
  /\ state' = <<>>
  /\ pc' = IF fd' = Files THEN "read" ELSE "big_open"
  /\ UNCHANGED <<given, mm, chunk, i, status, unread>>

\* Even a file that is there, for want of descriptors; what was open is released.
OpenFails ==
  /\ Opening
  /\ Return("error")
  /\ fd' = {} /\ mm' = {}
  /\ UNCHANGED <<given, off, result, unread>>

\* apr_mmap_create; nothing of length zero can be mapped.
Maps ==
  /\ pc = "map"
  /\ size > 0
  /\ mm' = mm \cup {LastName}
  /\ state' = <<>>
  /\ pc' = IF fd = Files THEN "mapped" ELSE "small_open"
  /\ UNCHANGED <<given, fd, off, chunk, i, status, unread>>

\* The files are opened again, to be read.
MapFails ==
  /\ pc = "map"
  /\ fd' = {} /\ mm' = {}
  /\ pc' = "big_open"
  /\ UNCHANGED <<given, off, result, status, unread>>

\* All succeeds, a mapping cannot be deleted, or a descriptor does not close
\* properly; the others are released then.
Close ==
  /\ pc = "close"
  /\ \/ Return("ok") /\ mm' = {}
     \/ Return("error") /\ (mm' = {} \/ \E f \in mm : mm' = {f})
  /\ fd' = {}
  /\ UNCHANGED <<given, off, result, unread>>

--------------------------------------------------------------------------------
(* Mapped files *)

\* Mutant of ChunkEnd: the last chunk is as long as the others.
WholeChunk == off[1] + HugeLen

ChunkEnd == Smaller(off[1] + HugeLen, size)

\* Mutant of MoreToHash: it goes on when nothing is left.
MoreOrNothing == off[1] + HugeLen <= size

MoreToHash == off[1] + HugeLen < size

Hash ==
  /\ pc = "mapped"
  /\ call = "checksum_file"
  /\ ChunkEnd <= Len(Mapping(1))
  /\ state' = Append(state, SubSeq(Mapping(1), off[1] + 1, ChunkEnd))
  /\ off' = [off EXCEPT ![1] = ChunkEnd]
  /\ pc' = IF MoreToHash THEN "mapped" ELSE "close"
  /\ UNCHANGED <<given, files, chunk, i, status, unread>>

\* memcmp reads both mappings up to their first difference.
Touchable == Smaller(Len(Mapping(1)), Len(Mapping(2)))
DifferMapped == \E p \in 1..Touchable : Mapping(1)[p] # Mapping(2)[p]

Memcmp ==
  /\ pc = "mapped"
  /\ call = "filecmp"
  /\ DifferMapped \/ Touchable = size
  /\ i' = IF DifferMapped THEN 1 ELSE 0
  /\ pc' = "close"
  /\ UNCHANGED <<given, files, off, chunk, state, status, unread>>

\* SIGBUS: a file has lost the page that is touched.
Killed ==
  /\ pc = "mapped"
  /\ IF call = "filecmp" THEN ~DifferMapped /\ Touchable < size ELSE ChunkEnd > Len(Mapping(1))
  /\ pc' = "killed"
  /\ UNCHANGED <<given, files, off, result, status, unread>>

--------------------------------------------------------------------------------
(* Files that are read *)

ReachesEnd ==
  /\ \/ pc = "read" /\ AtEnd(1)
     \/ pc = "read2" /\ AtEnd(2)
  /\ pc' = "close"
  /\ UNCHANGED <<given, files, off, result, status, unread>>

\* checksum_big_file: until the end of the file, wherever that is by now.
HashChunk ==
  /\ pc = "read"
  /\ call = "checksum_file"
  /\ ~AtEnd(1)
  /\ state' = Append(state, Read(1, HugeLen))
  /\ off' = [off EXCEPT ![1] = @ + Len(Read(1, HugeLen))]
  /\ UNCHANGED <<given, pc, files, chunk, i, status, unread>>

HashReadFails ==
  /\ pc = "read"
  /\ call = "checksum_file"
  /\ Return("error")
  /\ unread' = TRUE
  /\ fd' = {}
  /\ UNCHANGED <<given, mm, off, result>>

ReadFirst ==
  /\ pc = "read"
  /\ call = "filecmp"
  /\ ~AtEnd(1)
  /\ chunk' = Read(1, HugeLen)
  /\ off' = [off EXCEPT ![1] = @ + Len(chunk')]
  /\ pc' = "read2"
  /\ UNCHANGED <<given, files, state, i, status, unread>>

\* As many bytes as the first read returned.
chunk2 == Read(2, Len(chunk))

\* Mutant of KeepsOn: a difference does not end the loop.
KeepsOnAlways == TRUE

KeepsOn == chunk = chunk2

ReadSecond ==
  /\ pc = "read2"
  /\ Len(chunk2) = Len(chunk)
  /\ i' = IF chunk = chunk2 THEN 0 ELSE 1
  /\ off' = [off EXCEPT ![2] = @ + Len(chunk)]
  /\ pc' = IF KeepsOn THEN "read" ELSE "close"
  /\ UNCHANGED <<given, files, chunk, state, status, unread>>

\* Mutant of StopsUnread: the status is returned even after a difference.
StopsAlways(status1) == Return(status1)

\* The end of the loop when neither file came to its end: with a difference already
\* found the files are closed, without one the status of the first read is returned.
StopsUnread(status1) ==
  IF i = 0 THEN Return(status1) ELSE pc' = "close" /\ UNCHANGED status

\* Fewer bytes are not compared.
ReadSecondShort ==
  /\ pc = "read2"
  /\ Len(chunk2) \in 1..(Len(chunk) - 1)
  /\ off' = [off EXCEPT ![2] = @ + Len(chunk2)]
  /\ StopsUnread("ok")
  /\ UNCHANGED <<given, files, result, unread>>

\* When the second read fails status1 is still the success of the first one.
FilecmpReadFails ==
  /\ call = "filecmp"
  /\ \/ pc = "read" /\ StopsUnread("error")
     \/ pc = "read2" /\ StopsUnread("ok")
  /\ unread' = TRUE
  /\ UNCHANGED <<given, files, off, result>>

--------------------------------------------------------------------------------
Step ==
  \/ Call
  \/ FilecmpEmpty
  \/ SmallOpens
  \/ BigOpens
  \/ OpenFails
  \/ Maps
  \/ MapFails
  \/ Close
  \/ Hash
  \/ Memcmp
  \/ Killed
  \/ ReachesEnd
  \/ HashChunk
  \/ HashReadFails
  \/ ReadFirst
  \/ ReadSecond
  \/ ReadSecondShort
  \/ FilecmpReadFails

Ended == ~InCall /\ UNCHANGED vars

Next ==
  \/ Step
  \/ \E f \in Names : Change(f)
  \/ Ended

Spec == Init /\ [][Next]_vars

\* A call goes on; the other process need not do anything.
FairSpec == Spec /\ WF_vars(Step)

--------------------------------------------------------------------------------
(* Properties *)

Answered(c) == pc = "returned" /\ call = c /\ status = "ok"

\* What checksum_file hashes depends on the content alone: the same chunks whether
\* the file is mapped, read, or read because it could not be mapped.  (The comment
\* at ft_file.h:25 says that they differ.)
Chunks(s) ==
  [n \in 1..Blocks(Len(s), HugeLen) |->
     SubSeq(s, (n - 1) * HugeLen + 1, Smaller(n * HugeLen, Len(s)))]

ChecksumOfContent ==
  Answered("checksum_file") /\ 1 \notin touched /\ Len(disk[1]) = size => state = Chunks(disk[1])

\* filecmp is right about two files that still have the size the walk has seen.
\* Of files that were changed between the walk and the call it may say that they
\* are equal only if they agree up to the last whole chunk of the shorter one.
\* Reads that fail are left out: if the second file cannot be read on when the
\* first one could, big_filecmp returns the status of the first read, a success,
\* and i is still 0 (ft_file.c:214-226), whatever the files hold.  TwinFinder has
\* that answer, and NoFalseTwin states there what comes of it.
VerdictRight ==
  Answered("filecmp") /\ touched = {} /\ ~unread =>
    /\ (\A f \in Names : Len(disk[f]) = size) => (i = 0 <=> disk[1] = disk[2])
    /\ i = 0 => LET n == Smaller(Len(disk[1]), Len(disk[2])) \div HugeLen
                IN  \A p \in 1..Smaller(n * HugeLen, size) : disk[1][p] = disk[2][p]

\* No mapping or descriptor outlives a call, except both descriptors of a
\* comparison that found no difference and could not read on (the early return of
\* big_filecmp), and a mapping whose deletion failed.
ReleasedAtReturn ==
  TypeOK /\ (pc = "returned" =>
    /\ mm # {} => status = "error" /\ fd = {}
    /\ fd # {} => /\ call = "filecmp" /\ fd = Names /\ i = 0
                  /\ unread \/ touched # {} \/ Len(disk[1]) # Len(disk[2]))

\* A call ends, and the process survives it unless a file has lost bytes since the
\* walk while it was mapped.
Ends == <>(pc = "returned" \/ (pc = "killed" /\ \E f \in Names : Len(disk[f]) < size))
================================================================================

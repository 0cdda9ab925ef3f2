------------------------------ MODULE TwinFinder -------------------------------
(***************************************************************************)
(* How src/ftwin.c finds and reports duplicate files: files are put into a *)
(* heap ordered by size and counted per size (the end of                   *)
(* ft_conf_add_file), then those that may have a twin are checksummed      *)
(* (ft_conf_process_sizes), and at last the files of one size are sorted   *)
(* by checksum, compared two by two and printed (ft_conf_twin_report).     *)
(* The file system is not frozen meanwhile: files may vanish at any time,  *)
(* and of some files the reads may fail at any time although they open.    *)
(*                                                                         *)
(* A file's content is an abstract value with a size and a checksum.  The  *)
(* heap is the set of its files, from which any file of maximal size may   *)
(* be extracted; qsort may leave equal elements in any order.              *)
(***************************************************************************)
EXTENDS Integers, Sequences, FiniteSets

CONSTANTS
  Files,       \* the files the walk may come to; members of archives included
  Contents,    \* what a file can contain
  SizeOf,      \* [Contents -> Nat]
  HashOf,      \* [Contents -> checksums]: the bytes of it that memcmp looks at
  Unread,      \* the zeroed checksum of a file that is not read
  MinSize,     \* conf->minsize
  KeyRange,    \* 2^32 in the code: the size table compares the low words only
  Unreliable,  \* the files that open, but of which any read may fail: on a bad disk, in /proc
  Archived,    \* the files that are extracted from an archive (option -t)
  MayBePrioritized,  \* bound: the files the priority path may cover
  Null,        \* the NULL ft_file_t pointer
  Wild,        \* what uninitialised pool memory holds
  MaxGone      \* bound: files that vanish

ASSUME TwinFinderAssumption ==
  /\ SizeOf \in [Contents -> Nat]
  /\ Unread \notin {HashOf[c] : c \in Contents} \cup {Wild}
  /\ Wild \notin {HashOf[c] : c \in Contents}
  /\ Archived \subseteq Files
  /\ Unreliable \subseteq Files
  /\ MayBePrioritized \subseteq Files
  /\ Null \notin Files \cup {Wild} /\ Wild \notin Files
  /\ KeyRange \in Nat \ {0}
  /\ MinSize \in Nat
  /\ MaxGone \in Nat

VARIABLES
  content,      \* what each file contains
  prioritized,  \* the files below the priority path (option -p)
  gone,         \* the files that have vanished
  given,        \* history: the files that were referenced
  phase,        \* how far main has come, or how it ended
  heap,         \* conf->heap
  tmp_heap,     \* the heap of ft_conf_process_sizes
  sizes,        \* conf->sizes: the ft_fsize_t of each key
  status,       \* the local of ft_conf_process_sizes
  copies,       \* the members of archives that have a temporary copy in /tmp
  old_size, key, i, j, already_printed,   \* the locals of ft_conf_twin_report
  groups        \* the groups of twins printed so far

scan == <<old_size, key, i, j, already_printed>>
world == <<content, prioritized, gone>>
vars == <<world, given, phase, heap, tmp_heap, sizes, status, copies, scan, groups>>

Phases == {"collect", "checksum", "report", "done",
           "failed",          \* main returned an error
           "null_read",       \* a NULL ft_file_t was read
           "unwritten_read"}  \* a path was read through a pointer never set

None == -1   \* no size class is being reported

Size(f) == SizeOf[content[f]]
Key(s) == s % KeyRange
FileKey(f) == Key(Size(f))

Slots == [file : Files \cup {Null, Wild}, chk : {HashOf[c] : c \in Contents} \cup {Unread, Wild}]
WildSlot == [file |-> Wild, chk |-> Wild]

TypeOK ==
  /\ content \in [Files -> Contents]
  /\ prioritized \subseteq Files
  /\ gone \subseteq Files
  /\ given \subseteq Files
  /\ phase \in Phases
  /\ heap \subseteq Files
  /\ tmp_heap \subseteq Files
  /\ DOMAIN sizes \subseteq 0..(KeyRange - 1)
  /\ \A k \in DOMAIN sizes :
       sizes[k] \in [val : Nat, nb_files : Nat, nb_checksumed : Nat, chksum_array : Seq(Slots)]
  /\ status \in {"ok", "error"}
  /\ copies \subseteq Archived
  /\ old_size \in Nat \cup {-1}
  /\ key \in DOMAIN sizes \cup {None}
  /\ i \in Nat
  /\ j \in Nat
  /\ already_printed \in BOOLEAN
  /\ groups \in Seq(Seq(Files))

Init ==
  /\ content \in [Files -> Contents]
  /\ prioritized \in SUBSET MayBePrioritized
  /\ gone = {}
  /\ given = {}
  /\ phase = "collect"
  /\ heap = {}
  /\ tmp_heap = {}
  /\ sizes = [k \in {} |-> WildSlot]
  /\ status = "ok"
  /\ copies = {}
  /\ old_size = -1
  /\ key = None
  /\ i = 0
  /\ j = 0
  /\ already_printed = FALSE
  /\ groups = <<>>

--------------------------------------------------------------------------------
\* Someone else removes a file, or makes it unreadable.
Vanish(f) ==
  /\ phase \in {"collect", "checksum", "report"}
  /\ f \notin gone
  /\ Cardinality(gone) < MaxGone
  /\ gone' = gone \cup {f}
  /\ UNCHANGED <<content, prioritized, given, phase, heap, tmp_heap, sizes, status, copies, scan, groups>>

--------------------------------------------------------------------------------
(* ft_conf_add_file, for what is not a directory *)

\* Mutant of FsizeOf: a search that never finds the entry.
FsizeAlwaysNew(k, s) == [val |-> s, nb_files |-> 0, nb_checksumed |-> 0, chksum_array |-> <<>>]

\* The entry of a size, made when it is not in the table yet.
FsizeOf(k, s) ==
  IF k \in DOMAIN sizes
  THEN sizes[k]
  ELSE [val |-> s, nb_files |-> 0, nb_checksumed |-> 0, chksum_array |-> <<>>]

SetSize(k, fsize) == [x \in DOMAIN sizes \cup {k} |-> IF x = k THEN fsize ELSE sizes[x]]

AddFile(f) ==
  /\ phase = "collect"
  /\ f \notin given
  /\ f \notin gone
  /\ Size(f) >= MinSize
  /\ heap' = heap \cup {f}
  /\ given' = given \cup {f}
  /\ LET fsize == FsizeOf(FileKey(f), Size(f))
     IN  sizes' = SetSize(FileKey(f), [fsize EXCEPT !.nb_files = @ + 1])
  /\ UNCHANGED <<world, phase, tmp_heap, status, copies, scan, groups>>

\* apr_stat fails on a file that has vanished: the whole run ends.
AddFails(f) ==
  /\ phase = "collect"
  /\ f \notin given
  /\ f \in gone
  /\ phase' = "failed"
  /\ UNCHANGED <<world, given, heap, tmp_heap, sizes, status, copies, scan, groups>>

\* main goes on when it has at least one file.
EndCollect ==
  /\ phase = "collect"
  /\ phase' = IF heap = {} THEN "failed" ELSE "checksum"
  /\ UNCHANGED <<world, given, heap, tmp_heap, sizes, status, copies, scan, groups>>

--------------------------------------------------------------------------------
(* ft_conf_process_sizes *)

\* Mutant of Largest: the heap returns its files in any order.
AnyOfHeap(f) == f \in heap

\* napr_heap_extract may return f.
Largest(f) == f \in heap /\ \A g \in heap : Size(g) <= Size(f)

\* The file at hand is the largest one; what has a copy already is at hand.
Chosen(f) ==
  /\ phase = "checksum"
  /\ Largest(f)
  /\ copies \subseteq {f}

\* One file of a size means no twin.
DropSingle(f) ==
  /\ Chosen(f)
  /\ sizes[FileKey(f)].nb_files = 1
  /\ heap' = heap \ {f}
  /\ sizes' = [k \in DOMAIN sizes \ {FileKey(f)} |-> sizes[k]]
  /\ UNCHANGED <<world, given, phase, tmp_heap, status, copies, scan, groups>>

\* ft_untar_file makes a copy of a member if the archive is still there.
Untarred(f) ==
  /\ f \in Archived \ (copies \cup gone)
  /\ copies' = copies \cup {f}

\* It may always fail, on a bad header or without room for the copy, of which it
\* then leaves nothing; the run ends.
UntarFails(f) ==
  /\ f \in Archived \ copies
  /\ phase' = "failed"

\* There is a path to read the file from.
HasPath(f) == f \in Archived => f \in copies
Opened(f) == f \in copies \/ f \notin gone

NeedsChecksum(fsize) == fsize.nb_files # 2 /\ fsize.val # 0

\* chksum_array, allocated when the first file of its size comes.
Allocated(fsize) ==
  IF fsize.chksum_array = <<>> THEN [n \in 1..fsize.nb_files |-> WildSlot] ELSE fsize.chksum_array

\* Mutant of NextSlot: every file is put into the first slot.
SameSlot(n, st) == n

\* The number of slots in use after slot n + 1 was filled.
NextSlot(n, st) == IF st = "ok" THEN n + 1 ELSE n

\* The slot of the next checksum is filled, and kept if the status is a success.
FillSlot(f, chk, st) ==
  LET k == FileKey(f)
      fsize == sizes[k]
      n == fsize.nb_checksumed
  IN  /\ sizes' = [sizes EXCEPT ![k] =
           [fsize EXCEPT !.chksum_array = [Allocated(fsize) EXCEPT ![n + 1] = [file |-> f, chk |-> chk]],
                         !.nb_checksumed = NextSlot(n, st)]]
      /\ tmp_heap' = IF st = "ok" THEN tmp_heap \cup {f} ELSE tmp_heap
      /\ heap' = heap \ {f}

\* Of two files, or of empty ones, none is read; the status that decides is the
\* one of the last checksum computed.
KeepUnread(f) ==
  /\ Chosen(f)
  /\ sizes[FileKey(f)].nb_files > 1
  /\ ~NeedsChecksum(sizes[FileKey(f)])
  /\ FillSlot(f, Unread, status)
  /\ UNCHANGED <<world, given, phase, status, copies, scan, groups>>

ToChecksum(f) ==
  /\ Chosen(f)
  /\ sizes[FileKey(f)].nb_files > 1
  /\ NeedsChecksum(sizes[FileKey(f)])

UntarToChecksum(f) ==
  /\ ToChecksum(f)
  /\ Untarred(f)
  /\ UNCHANGED <<world, given, phase, heap, tmp_heap, sizes, status, scan, groups>>

UntarToChecksumFails(f) ==
  /\ ToChecksum(f)
  /\ UntarFails(f)
  /\ UNCHANGED <<world, given, heap, tmp_heap, sizes, status, copies, scan, groups>>

Checksum(f) ==
  /\ ToChecksum(f)
  /\ HasPath(f)
  /\ Opened(f)
  /\ status' = "ok"
  /\ FillSlot(f, HashOf[content[f]], "ok")
  /\ copies' = {}
  /\ UNCHANGED <<world, given, phase, scan, groups>>

\* The file cannot be opened or read: it is skipped, and its slot used again.
ChecksumFails(f) ==
  /\ ToChecksum(f)
  /\ HasPath(f)
  /\ ~Opened(f) \/ f \in Unreliable
  /\ status' = "error"
  /\ FillSlot(f, Wild, "error")
  /\ copies' = {}
  /\ UNCHANGED <<world, given, phase, scan, groups>>

EndChecksum ==
  /\ phase = "checksum"
  /\ heap = {}
  /\ heap' = tmp_heap
  /\ tmp_heap' = {}
  /\ phase' = "report"
  /\ UNCHANGED <<world, given, sizes, status, copies, scan, groups>>

--------------------------------------------------------------------------------
(* ft_conf_twin_report *)

array == sizes[key].chksum_array

\* Mutant of Sorted: the array is sorted by checksum alone.
ByChecksum(a, n) ==
  \A x, y, z \in 1..n : x < y /\ y < z /\ a[x].chk = a[z].chk => a[y].chk = a[x].chk

\* chksum_cmp on the slots of an array: equal checksums come together, and among
\* them the prioritized files come first.
Sorted(a, n) ==
  /\ \A x, y, z \in 1..n : x < y /\ y < z /\ a[x].chk = a[z].chk => a[y].chk = a[x].chk
  /\ \A x, y \in 1..n : x < y /\ a[x].chk = a[y].chk
                           => (a[y].file \in prioritized => a[x].file \in prioritized)

\* What qsort may make of the first n slots.
SortedForms(a, n) ==
  LET Orders == {p \in [1..n -> 1..n] : \A x, y \in 1..n : p[x] = p[y] => x = y}
      Ordered(p) == [x \in DOMAIN a |-> IF x <= n THEN a[p[x]] ELSE a[x]]
  IN  {b \in {Ordered(p) : p \in Orders} : Sorted(b, n)}

\* How many slots are sorted.
chksum_array_sz(fsize) ==
  IF fsize.nb_files < fsize.nb_checksumed THEN fsize.nb_files ELSE fsize.nb_checksumed

\* chksum_cmp reads the priority of both files when their checksums are equal.
SortReadsNull(a, n) ==
  \E x, y \in 1..n : x # y /\ a[x].chk = a[y].chk /\ a[x].file = Null

\* Mutant of Extracted: the file is looked at and stays in the heap.
Peeked(f) == heap

Extracted(f) == heap \ {f}

\* The next file of the heap has a size that was not reported yet.
NewSize(f) ==
  /\ phase = "report"
  /\ key = None
  /\ Largest(f)
  /\ Size(f) # old_size
  /\ heap' = Extracted(f)
  /\ old_size' = Size(f)

NextSize(f) ==
  LET k == FileKey(f)
      n == chksum_array_sz(sizes[k])
  IN  /\ NewSize(f)
      /\ ~SortReadsNull(sizes[k].chksum_array, n)
      /\ \E b \in SortedForms(sizes[k].chksum_array, n) :
           sizes' = [sizes EXCEPT ![k].chksum_array = b]
      /\ key' = k
      /\ i' = 1
      /\ j' = 2
      /\ already_printed' = FALSE
      /\ UNCHANGED <<world, given, phase, tmp_heap, status, copies, groups>>

\* An entry that two sizes share is sorted again after its twins were reported.
NextSizeReadsNull(f) ==
  LET fsize == sizes[FileKey(f)]
  IN  /\ NewSize(f)
      /\ SortReadsNull(fsize.chksum_array, chksum_array_sz(fsize))
      /\ phase' = "null_read"
      /\ UNCHANGED <<world, given, tmp_heap, sizes, status, copies, key, i, j, already_printed, groups>>

SameSize(f) ==
  /\ phase = "report"
  /\ key = None
  /\ Largest(f)
  /\ Size(f) = old_size
  /\ heap' = Extracted(f)
  /\ UNCHANGED <<world, given, phase, tmp_heap, sizes, status, copies, scan, groups>>

\* The pair of slots (i, j) is looked at: i has a file, as far as its pointer says.
InRow ==
  /\ phase = "report"
  /\ key # None
  /\ i <= sizes[key].nb_files
  /\ array[i].file # Null

\* The outcomes of memcmp on two checksums; one never written may hold anything.
ChecksumsMayMatch(a, b) == a.chk = b.chk \/ Wild \in {a.chk, b.chk}
ChecksumsMayDiffer(a, b) == a.chk # b.chk \/ Wild \in {a.chk, b.chk}

Matched == InRow /\ j <= sizes[key].nb_files /\ ChecksumsMayMatch(array[i], array[j])

\* Going on with the next i: the row is over, a checksum differs, or the file of
\* slot i is a twin already printed (or uninitialised memory that is zero).  Not
\* between the extraction of a pair and its comparison.
NextRow ==
  /\ phase = "report"
  /\ key # None
  /\ copies = {}
  /\ i <= sizes[key].nb_files
  /\ \/ array[i].file = Null
     \/ array[i].file = Wild /\ j = i + 1
     \/ j > sizes[key].nb_files
     \/ j <= sizes[key].nb_files /\ ChecksumsMayDiffer(array[i], array[j])
  /\ i' = i + 1
  /\ j' = i + 2
  /\ already_printed' = FALSE
  /\ UNCHANGED <<world, given, phase, heap, tmp_heap, sizes, status, copies, old_size, key, groups>>

EndSize ==
  /\ phase = "report"
  /\ key # None
  /\ i > sizes[key].nb_files
  /\ key' = None
  /\ UNCHANGED <<world, given, phase, heap, tmp_heap, sizes, status, copies, old_size, i, j, already_printed,
                 groups>>

\* The path of slot i is read although no file was ever put there.
ReadUnwrittenRow ==
  /\ Matched
  /\ array[i].file = Wild
  /\ phase' = "unwritten_read"
  /\ UNCHANGED <<world, given, heap, tmp_heap, sizes, status, copies, scan, groups>>

UntarRow ==
  /\ Matched
  /\ Untarred(array[i].file)
  /\ UNCHANGED <<world, given, phase, heap, tmp_heap, sizes, status, scan, groups>>

UntarRowFails ==
  /\ Matched
  /\ UntarFails(array[i].file)
  /\ UNCHANGED <<world, given, heap, tmp_heap, sizes, status, copies, scan, groups>>

\* Slot i has its path, and the one of slot j is needed.
RowHasPath == Matched /\ array[i].file # Wild /\ HasPath(array[i].file)

\* It is read although slot j is a twin already printed, or never had a file.
ReadMissingColumn ==
  /\ RowHasPath
  /\ array[j].file \in {Null, Wild}
  /\ phase' = IF array[j].file = Null THEN "null_read" ELSE "unwritten_read"
  /\ UNCHANGED <<world, given, heap, tmp_heap, sizes, status, copies, scan, groups>>

UntarColumn ==
  /\ RowHasPath
  /\ Untarred(array[j].file)
  /\ UNCHANGED <<world, given, phase, heap, tmp_heap, sizes, status, scan, groups>>

\* The copy of slot i is not removed.
UntarColumnFails ==
  /\ RowHasPath
  /\ UntarFails(array[j].file)
  /\ UNCHANGED <<world, given, heap, tmp_heap, sizes, status, copies, scan, groups>>

Comparable == RowHasPath /\ array[j].file \notin {Null, Wild} /\ HasPath(array[j].file)

\* Mutant of FilesMayMatch: equal checksums are taken for equal files.
ChecksumsTrusted(f, g) == TRUE

\* The outcomes of filecmp: with a size of zero it says equal without opening the
\* files; on files of different sizes it may compare a prefix only, or nothing and
\* leave its result as it was; and when a read of its second file fails it returns
\* the status of the first file's read, a success, with the result of the chunks
\* before or of the comparison before, which may be equal.
FilesMayMatch(f, g) ==
  \/ sizes[key].val = 0
  \/ /\ Opened(f) /\ Opened(g)
     /\ content[f] = content[g] \/ Size(f) # Size(g) \/ g \in Unreliable

FilesMayDiffer(f, g) ==
  /\ sizes[key].val # 0
  /\ \/ ~Opened(f) \/ ~Opened(g)
     \/ content[f] # content[g]
     \/ {f, g} \cap Unreliable # {}

\* Mutant of RemoveCopies: only the first copy is removed.
RemoveOneCopy == copies' = copies \ {array[i].file}

\* After the comparison, whatever it found.
RemoveCopies == copies' = {}

\* Mutant of Marked: the twin is not marked as printed.
Unmarked == sizes

\* The file of slot j is set to NULL.
Marked == [sizes EXCEPT ![key].chksum_array[j].file = Null]

\* Slot i starts a group, or the group it started goes on.
Printed(f, g) ==
  IF already_printed
  THEN [groups EXCEPT ![Len(groups)] = Append(@, g)]
  ELSE Append(groups, <<f, g>>)

PrintTwin ==
  /\ Comparable
  /\ FilesMayMatch(array[i].file, array[j].file)
  /\ groups' = Printed(array[i].file, array[j].file)
  /\ already_printed' = TRUE
  /\ sizes' = Marked
  /\ j' = j + 1
  /\ RemoveCopies
  /\ UNCHANGED <<world, given, phase, heap, tmp_heap, status, old_size, key, i>>

SkipDifferent ==
  /\ Comparable
  /\ FilesMayDiffer(array[i].file, array[j].file)
  /\ j' = j + 1
  /\ RemoveCopies
  /\ UNCHANGED <<world, given, phase, heap, tmp_heap, sizes, status, old_size, key, i, already_printed,
                 groups>>

EndReport ==
  /\ phase = "report"
  /\ key = None
  /\ heap = {}
  /\ phase' = "done"
  /\ UNCHANGED <<world, given, heap, tmp_heap, sizes, status, copies, scan, groups>>

Ended ==
  /\ phase \in {"done", "failed", "null_read", "unwritten_read"}
  /\ UNCHANGED vars

--------------------------------------------------------------------------------
Collect == EndCollect \/ \E f \in Files : AddFile(f) \/ AddFails(f)

ProcessSizes ==
  \/ \E f \in Files :
       \/ DropSingle(f)
       \/ KeepUnread(f)
       \/ UntarToChecksum(f)
       \/ UntarToChecksumFails(f)
       \/ Checksum(f)
       \/ ChecksumFails(f)
  \/ EndChecksum

TwinReport ==
  \/ \E f \in Files : NextSize(f) \/ NextSizeReadsNull(f) \/ SameSize(f)
  \/ NextRow
  \/ EndSize
  \/ ReadUnwrittenRow
  \/ UntarRow
  \/ UntarRowFails
  \/ ReadMissingColumn
  \/ UntarColumn
  \/ UntarColumnFails
  \/ PrintTwin
  \/ SkipDifferent
  \/ EndReport

Next ==
  \/ Collect
  \/ ProcessSizes
  \/ TwinReport
  \/ \E f \in Files : Vanish(f)
  \/ Ended

Spec == Init /\ [][Next]_vars

\* A sequential program goes on until it ends.
FairSpec == Spec /\ WF_vars(Collect \/ ProcessSizes \/ TwinReport)

--------------------------------------------------------------------------------
(* Properties *)

Members(g) == {g[n] : n \in DOMAIN g}
Reported == UNION {Members(groups[n]) : n \in DOMAIN groups}

\* The files that are not there to be read, or may refuse it.
Faulty == gone \cup Unreliable

\* ftwin reports only duplicates, whatever vanishes and whatever checksums collide,
\* up to the one way filecmp has to say equal of different files: what is not a
\* copy of the first file of its group is a file of which a read may fail, and
\* that was read second.
NoFalseTwin ==
  \A n \in DOMAIN groups : \A x \in DOMAIN groups[n] :
    content[groups[n][x]] = content[groups[n][1]] \/ (x > 1 /\ groups[n][x] \in Unreliable)

\* A file is printed at most once, and each group has at least two of them.
PrintedOnce ==
  /\ \A m, n \in DOMAIN groups : \A x \in DOMAIN groups[m], y \in DOMAIN groups[n] :
       groups[m][x] = groups[n][y] => m = n /\ x = y
  /\ \A n \in DOMAIN groups : Len(groups[n]) >= 2

\* The table, the heaps and the arrays agree: every file still to be handled has
\* its entry ("inconsistency error found" is never printed), an entry counts its
\* files, and its array is never filled beyond its end.
SizesConsistent ==
  /\ TypeOK
  /\ \A f \in heap \cup tmp_heap : FileKey(f) \in DOMAIN sizes
  /\ \A k \in DOMAIN sizes :
       LET fsize == sizes[k]
           Pending == {f \in heap : FileKey(f) = k}
       IN  /\ fsize.nb_checksumed <= fsize.nb_files
           /\ fsize.chksum_array # <<>> => Len(fsize.chksum_array) = fsize.nb_files
           /\ phase = "checksum" => Cardinality(Pending) + fsize.nb_checksumed <= fsize.nb_files
           /\ phase = "collect" => Cardinality(Pending) = fsize.nb_files

\* Nothing that was given and has at least this size may fail, and the checksums
\* tell its contents of this size apart.
Quiet(s) == \A f \in Faulty \cap given : Size(f) < s
ToldApart(s) ==
  \A f, g \in given : Size(f) = s /\ Size(g) = s /\ HashOf[content[f]] = HashOf[content[g]]
                      => content[f] = content[g]

\* The report looks only at slots that hold a file and its checksum: never at one
\* that no file was put into, and never again at a twin already printed, whose slot
\* is NULL from then on.  It goes wrong only at a size that some faulty file has or
\* exceeds, or at which checksums collide.
OnlyFilledSlotsRead ==
  Quiet(old_size) /\ ToldApart(old_size) =>
    /\ phase \notin {"null_read", "unwritten_read"}
    /\ InRow /\ j <= sizes[key].nb_files =>
         {array[i].file, array[j].file, array[i].chk, array[j].chk} \cap {Wild} = {}

\* A temporary copy lives only while its file is checksummed or its pair compared.
\* When the run ends none is left, but for the one of the first file of a pair when
\* the second could not be extracted or was read through a bad pointer.
CopiesRemoved ==
  /\ phase = "checksum" => copies \subseteq heap
  /\ phase \in {"collect", "done"} => copies = {}
  /\ phase \in {"report", "failed", "null_read", "unwritten_read"} /\ copies # {} =>
       /\ key # None
       /\ copies \subseteq {array[n].file : n \in {i, j} \cap DOMAIN array}
       /\ phase # "report" => copies = {array[i].file}

\* The classes of identical files among those given, with at least two members.
TwinClasses ==
  {C \in {{g \in given : content[g] = content[f]} : f \in given} : Cardinality(C) > 1}

ReportedInFull(C) == \E n \in DOMAIN groups : Members(groups[n]) = C

\* A file that vanishes or cannot be read disturbs the report of its own size and
\* of smaller ones only: twins bigger than every such file are reported in full.
BiggerTwinsReported ==
  phase = "done" =>
    \A C \in TwinClasses :
      (\A f \in Faulty \cap given, g \in C : Size(f) < Size(g)) => ReportedInFull(C)

\* What the comments in both loops say: a file that disappears is skipped, so the
\* others are reported as if it had never been there.  The code does not do it.
SurvivorsReported ==
  phase = "done" => \A C \in TwinClasses : C \cap Faulty = {} => ReportedInFull(C)

\* The program ends.
Terminates == <>(phase \in {"done", "failed", "null_read", "unwritten_read"})

\* The promise of the README: the twins and nothing but the twins.
Promise == INSTANCE TwinGroups WITH done <- phase = "done"
ImplementsTwinGroups == Promise!Spec
================================================================================

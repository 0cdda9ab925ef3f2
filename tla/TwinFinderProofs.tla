---------------------------- MODULE TwinFinderProofs ----------------------------
(***************************************************************************)
(* Proofs about TwinFinder, for any set of files and contents, any sizes,  *)
(* checksums, archives and priorities, and any files that vanish.  What    *)
(* holds whatever happens comes first: the table, the heaps and the arrays *)
(* of slots agree, and temporary copies are removed.  That only duplicates *)
(* are reported, and each once, is proved for sizes that do not share a    *)
(* key of the size table, which compares the low words of sizes only.      *)
(* So is that nothing is missing in the report: twins bigger than all that *)
(* vanished are there in full, and when nothing vanishes the report is the *)
(* one that TwinGroups promises and no unwritten slot is looked at.        *)
(***************************************************************************)
EXTENDS TwinFinder, FiniteSetTheorems, TLAPS

(* The inductive strengthening of SizesConsistent. *)

Entries == [val : Nat, nb_files : Nat, nb_checksumed : Nat, chksum_array : Seq(Slots)]

EntryOK(fsize) ==
  /\ fsize \in Entries
  /\ fsize.nb_checksumed <= fsize.nb_files
  /\ fsize.chksum_array # <<>> => Len(fsize.chksum_array) = fsize.nb_files
  /\ fsize.nb_checksumed >= 1 => fsize.chksum_array # <<>>

LocalsOK ==
  /\ content \in [Files -> Contents]
  /\ prioritized \subseteq Files
  /\ gone \subseteq Files
  /\ given \subseteq Files
  /\ phase \in Phases
  /\ status \in {"ok", "error"}
  /\ copies \subseteq Archived
  /\ old_size \in Nat \cup {-1}
  /\ i \in Nat
  /\ j \in Nat
  /\ already_printed \in BOOLEAN
  /\ groups \in Seq(Seq(Files))

TableOK ==
  /\ DOMAIN sizes \subseteq 0..(KeyRange - 1)
  /\ \A k \in DOMAIN sizes : EntryOK(sizes[k])
  /\ phase = "collect" => \A k \in DOMAIN sizes : sizes[k].nb_checksumed = 0 /\ sizes[k].chksum_array = <<>>

\* Every file still to be handled has its entry, and one that the report may come
\* to has had its slot filled.
HeapsInTable ==
  /\ heap \subseteq Files /\ IsFiniteSet(heap)
  /\ tmp_heap \subseteq Files /\ IsFiniteSet(tmp_heap)
  /\ \A f \in heap \cup tmp_heap : FileKey(f) \in DOMAIN sizes
  /\ \A f \in tmp_heap : sizes[FileKey(f)].nb_checksumed >= 1
  /\ phase = "report" => \A f \in heap : sizes[FileKey(f)].nb_checksumed >= 1
  /\ phase = "collect" => tmp_heap = {}
  /\ key \in DOMAIN sizes \cup {None}
  /\ phase \in {"collect", "checksum"} => key = None
  /\ key # None => sizes[key].chksum_array # <<>>

PendingIn(h, k) == {f \in h : FileKey(f) = k}
Pending(k) == PendingIn(heap, k)

CountsOK ==
  /\ phase = "checksum" => \A k \in DOMAIN sizes :
       Cardinality(Pending(k)) + sizes[k].nb_checksumed <= sizes[k].nb_files
  /\ phase = "collect" => \A k \in DOMAIN sizes : Cardinality(Pending(k)) = sizes[k].nb_files
  /\ phase = "collect" => heap \subseteq given

SizesInv == LocalsOK /\ TableOK /\ HeapsInTable /\ CountsOK

--------------------------------------------------------------------------------
(* The inductive strengthening of CopiesRemoved. *)

\* A copy made for a checksum belongs to a file whose entry asks for one, and a
\* copy of the second file of a pair is made after the first has its path.
CopiesInv ==
  /\ phase = "checksum" => \A f \in copies :
       f \in heap /\ sizes[FileKey(f)].nb_files > 1 /\ NeedsChecksum(sizes[FileKey(f)])
  /\ phase \in {"collect", "done"} => copies = {}
  /\ phase \in {"report", "failed", "null_read", "unwritten_read"} /\ copies # {} =>
       /\ key # None
       /\ i \in DOMAIN array /\ j \in DOMAIN array
       /\ array[i].file \in Files
       /\ copies \subseteq {array[i].file, array[j].file}
       /\ HasPath(array[i].file)
       /\ phase # "report" => copies = {array[i].file}

--------------------------------------------------------------------------------
(* The inductive strengthening of NoFalseTwin and PrintedOnce. *)

\* What the two promises rest on: no two sizes with the same low word are about,
\* and nothing but nothing has the size of zero.
SizesApart ==
  \A c, d \in Contents : Key(SizeOf[c]) = Key(SizeOf[d]) => SizeOf[c] = SizeOf[d]
OneEmptyContent ==
  \A c, d \in Contents : SizeOf[c] = 0 /\ SizeOf[d] = 0 => c = d

\* No two slots hold the same file.
SlotsDistinct(a) ==
  \A m, n \in DOMAIN a : a[m].file \in Files /\ a[m].file = a[n].file => m = n

\* The slots of an entry hold files of its key, each of them once, and none that is
\* still to be checksummed.
SlotsInv ==
  \A k \in DOMAIN sizes :
    /\ \E c \in Contents : sizes[k].val = SizeOf[c] /\ k = Key(SizeOf[c])
    /\ SlotsDistinct(sizes[k].chksum_array)
    /\ \A m \in DOMAIN sizes[k].chksum_array : sizes[k].chksum_array[m].file \in Files =>
         /\ FileKey(sizes[k].chksum_array[m].file) = k
         /\ phase = "checksum" => sizes[k].chksum_array[m].file \notin heap

IsReported(gs, f) == \E n \in DOMAIN gs : \E x \in DOMAIN gs[n] : gs[n][x] = f

\* What is reported is of a size the report has come to; in the array at hand only
\* the slots before i, and slot i when its group has begun, may hold such files.
ReportInv ==
  /\ phase \in {"collect", "checksum"} => groups = <<>> /\ old_size = -1
  /\ \A f \in Files : IsReported(groups, f) => Size(f) >= old_size /\ old_size # -1
  /\ phase = "report" /\ old_size # -1 => \A f \in heap : Size(f) <= old_size
  /\ phase = "report" /\ key # None =>
       /\ \E c \in Contents : old_size = SizeOf[c] /\ key = Key(SizeOf[c])
       /\ \A n \in DOMAIN array : array[n].file \in Files /\ IsReported(groups, array[n].file) =>
            n < i \/ (n = i /\ already_printed)
       /\ already_printed => groups # <<>> /\ i \in DOMAIN array /\ array[i].file = groups[Len(groups)][1]

--------------------------------------------------------------------------------
(* The operators. *)

LEMMA KeyIsLowWord ==
  ASSUME NEW s \in Nat
  PROVE  Key(s) \in 0..(KeyRange - 1) /\ Key(s) # None
BY TwinFinderAssumption DEF Key, None

LEMMA FileKeyOK ==
  ASSUME content \in [Files -> Contents], NEW f \in Files
  PROVE  /\ Size(f) \in Nat
         /\ FileKey(f) \in 0..(KeyRange - 1)
         /\ FileKey(f) # None
<1>1. Size(f) \in Nat
  BY TwinFinderAssumption DEF Size
<1> QED
  BY <1>1, KeyIsLowWord DEF FileKey

LEMMA EmptySeq ==
  ASSUME NEW S, NEW s \in Seq(S)
  PROVE  s = <<>> <=> Len(s) = 0
OBVIOUS

LEMMA OneReplaced ==
  ASSUME NEW S, NEW s \in Seq(S), NEW n, NEW e, n \in DOMAIN s => e \in S
  PROVE  [s EXCEPT ![n] = e] \in Seq(S) /\ Len([s EXCEPT ![n] = e]) = Len(s)
<1>1. DOMAIN s = 1..Len(s) /\ Len(s) \in Nat
  OBVIOUS
<1>2. [s EXCEPT ![n] = e] \in [1..Len(s) -> S]
  <2>1. \A x \in 1..Len(s) : [s EXCEPT ![n] = e][x] \in S
    BY <1>1
  <2> QED
    BY <1>1, <2>1
<1> QED
  BY <1>1, <1>2

\* An entry is made with no file and no array.
LEMMA FsizeOfOK ==
  ASSUME TableOK, NEW k, NEW s \in Nat
  PROVE  EntryOK(FsizeOf(k, s))
<1>1. ASSUME k \notin DOMAIN sizes
      PROVE  EntryOK(FsizeOf(k, s))
  <2>1. FsizeOf(k, s) = [val |-> s, nb_files |-> 0, nb_checksumed |-> 0, chksum_array |-> <<>>]
    BY <1>1 DEF FsizeOf
  <2>2. <<>> \in Seq(Slots)
    OBVIOUS
  <2> HIDE DEF Slots
  <2> QED
    BY <2>1, <2>2 DEF EntryOK, Entries
<1>2. ASSUME k \in DOMAIN sizes
      PROVE  EntryOK(FsizeOf(k, s))
  BY <1>2 DEF FsizeOf, TableOK
<1> QED
  BY <1>1, <1>2

LEMMA WildSlotOK == WildSlot \in Slots
BY DEF WildSlot, Slots

\* The array that the next checksum goes into has a slot for every file of its size.
LEMMA AllocatedOK ==
  ASSUME NEW e, EntryOK(e)
  PROVE  Allocated(e) \in Seq(Slots) /\ Len(Allocated(e)) = e.nb_files /\ DOMAIN Allocated(e) = 1..e.nb_files
<1>1. e.nb_files \in Nat /\ e.chksum_array \in Seq(Slots)
  BY DEF EntryOK, Entries
<1>2. CASE e.chksum_array = <<>>
  <2>1. Allocated(e) = [n \in 1..e.nb_files |-> WildSlot]
    BY <1>2 DEF Allocated
  <2> QED
    BY <1>1, <2>1, WildSlotOK
<1>3. CASE e.chksum_array # <<>>
  <2>1. Allocated(e) = e.chksum_array
    BY <1>3 DEF Allocated
  <2> QED
    BY <1>1, <1>3, <2>1 DEF EntryOK
<1> QED
  BY <1>2, <1>3

Filled(e, slot, st) ==
  [e EXCEPT !.chksum_array = [Allocated(e) EXCEPT ![e.nb_checksumed + 1] = slot],
            !.nb_checksumed = NextSlot(e.nb_checksumed, st)]

\* A slot is filled within the array as long as a file of the size is pending.
LEMMA FilledOK ==
  ASSUME NEW e, EntryOK(e), e.nb_checksumed < e.nb_files, NEW slot \in Slots, NEW st \in {"ok", "error"}
  PROVE  /\ EntryOK(Filled(e, slot, st))
         /\ Filled(e, slot, st).val = e.val
         /\ Filled(e, slot, st).nb_files = e.nb_files
         /\ Filled(e, slot, st).nb_checksumed = NextSlot(e.nb_checksumed, st)
         /\ DOMAIN Filled(e, slot, st).chksum_array = 1..e.nb_files
         /\ Filled(e, slot, st).chksum_array # <<>>
<1> DEFINE a == [Allocated(e) EXCEPT ![e.nb_checksumed + 1] = slot]
           n == NextSlot(e.nb_checksumed, st)
<1>1. e.val \in Nat /\ e.nb_files \in Nat /\ e.nb_checksumed \in Nat
  BY DEF EntryOK, Entries
<1>2. Allocated(e) \in Seq(Slots) /\ Len(Allocated(e)) = e.nb_files /\ DOMAIN Allocated(e) = 1..e.nb_files
  BY AllocatedOK
<1>3. a \in Seq(Slots) /\ Len(a) = e.nb_files /\ DOMAIN a = 1..e.nb_files
  BY <1>1, <1>2
<1>4. a # <<>>
  BY <1>1, <1>3, EmptySeq
<1>5. n \in Nat /\ n <= e.nb_files
  BY <1>1 DEF NextSlot
<1>6. e = [val |-> e.val, nb_files |-> e.nb_files, nb_checksumed |-> e.nb_checksumed,
           chksum_array |-> e.chksum_array]
  BY DEF EntryOK, Entries
<1> HIDE DEF a, n
<1>7. Filled(e, slot, st) = [e EXCEPT !.chksum_array = a, !.nb_checksumed = n]
  BY DEF Filled, a, n
<1>8. Filled(e, slot, st) = [val |-> e.val, nb_files |-> e.nb_files, nb_checksumed |-> n, chksum_array |-> a]
  BY <1>6, <1>7
<1>9. EntryOK(Filled(e, slot, st))
  BY <1>1, <1>3, <1>4, <1>5, <1>8 DEF EntryOK, Entries
<1> QED
  BY <1>3, <1>4, <1>8, <1>9 DEF a, n

LEMMA FilledArray ==
  ASSUME NEW e, EntryOK(e), NEW slot, NEW st
  PROVE  Filled(e, slot, st).chksum_array = [Allocated(e) EXCEPT ![e.nb_checksumed + 1] = slot]
<1> DEFINE a == [Allocated(e) EXCEPT ![e.nb_checksumed + 1] = slot]
           n == NextSlot(e.nb_checksumed, st)
<1>1. e = [val |-> e.val, nb_files |-> e.nb_files, nb_checksumed |-> e.nb_checksumed,
           chksum_array |-> e.chksum_array]
  BY DEF EntryOK, Entries
<1> HIDE DEF a, n
<1>2. Filled(e, slot, st) = [e EXCEPT !.chksum_array = a, !.nb_checksumed = n]
  BY DEF Filled, a, n
<1>3. Filled(e, slot, st).chksum_array = a
  BY <1>1, <1>2
<1> QED
  BY <1>3 DEF a

\* Sorting permutes the slots that it sorts.
LEMMA SortedFormsOK ==
  ASSUME NEW a \in Seq(Slots), NEW n \in 0..Len(a), NEW b \in SortedForms(a, n)
  PROVE  /\ b \in Seq(Slots) /\ Len(b) = Len(a) /\ DOMAIN b = DOMAIN a
         /\ \E p \in [DOMAIN a -> DOMAIN a] :
              /\ \A x, y \in DOMAIN a : p[x] = p[y] => x = y
              /\ \A x \in DOMAIN a : b[x] = a[p[x]]
         /\ Sorted(b, n)
<1>1. PICK q \in [1..n -> 1..n] :
        /\ \A x, y \in 1..n : q[x] = q[y] => x = y
        /\ b = [x \in DOMAIN a |-> IF x <= n THEN a[q[x]] ELSE a[x]]
        /\ Sorted(b, n)
  BY DEF SortedForms
<1> DEFINE p == [x \in DOMAIN a |-> IF x <= n THEN q[x] ELSE x]
<1>2. DOMAIN a = 1..Len(a) /\ Len(a) \in Nat
  OBVIOUS
<1>3. \A x \in DOMAIN a : p[x] \in DOMAIN a /\ (x <= n => p[x] = q[x] /\ p[x] <= n) /\ (~(x <= n) => p[x] = x)
  BY <1>2
<1>4. \A x, y \in DOMAIN a : p[x] = p[y] => x = y
  <2> SUFFICES ASSUME NEW x \in DOMAIN a, NEW y \in DOMAIN a, p[x] = p[y]
               PROVE  x = y
    OBVIOUS
  <2>1. (x <= n) <=> (y <= n)
    BY <1>3
  <2>2. CASE x <= n
    BY <1>1, <1>2, <1>3, <2>1, <2>2
  <2>3. CASE ~(x <= n)
    BY <1>3, <2>1, <2>3
  <2> QED
    BY <2>2, <2>3
<1>5. \A x \in DOMAIN a : b[x] = a[p[x]]
  BY <1>1, <1>3
<1>6. DOMAIN b = DOMAIN a /\ \A x \in DOMAIN a : b[x] \in Slots
  <2>1. \A x \in DOMAIN a : a[x] \in Slots
    BY <1>2
  <2>2. DOMAIN b = DOMAIN a
    BY <1>1
  <2> QED
    BY <1>3, <1>5, <2>1, <2>2
<1>7. b \in Seq(Slots) /\ Len(b) = Len(a)
  <2>1. b = [x \in 1..Len(a) |-> b[x]]
    BY <1>1, <1>2
  <2> QED
    BY <1>2, <1>6, <2>1
<1>8. p \in [DOMAIN a -> DOMAIN a]
  BY <1>3
<1> QED
  BY <1>1, <1>4, <1>5, <1>6, <1>7, <1>8

\* An array may be replaced by another of the same length.
LEMMA ArrayReplaced ==
  ASSUME NEW e, EntryOK(e), NEW a \in Seq(Slots), Len(a) = Len(e.chksum_array)
  PROVE  /\ EntryOK([e EXCEPT !.chksum_array = a])
         /\ [e EXCEPT !.chksum_array = a].chksum_array = a
         /\ [e EXCEPT !.chksum_array = a].val = e.val
         /\ [e EXCEPT !.chksum_array = a].nb_files = e.nb_files
         /\ [e EXCEPT !.chksum_array = a].nb_checksumed = e.nb_checksumed
<1>1. /\ e.val \in Nat /\ e.nb_files \in Nat /\ e.nb_checksumed \in Nat /\ e.chksum_array \in Seq(Slots)
      /\ e = [val |-> e.val, nb_files |-> e.nb_files, nb_checksumed |-> e.nb_checksumed,
              chksum_array |-> e.chksum_array]
  BY DEF EntryOK, Entries
<1>2. a = <<>> <=> e.chksum_array = <<>>
  BY <1>1, EmptySeq
<1>3. [e EXCEPT !.chksum_array = a] =
        [val |-> e.val, nb_files |-> e.nb_files, nb_checksumed |-> e.nb_checksumed, chksum_array |-> a]
  BY <1>1
<1> HIDE DEF Slots
<1> QED
  BY <1>1, <1>2, <1>3 DEF EntryOK, Entries

\* What FillSlot does to the table.
LEMMA FillSlotFills ==
  ASSUME NEW f, NEW chk, NEW st, FillSlot(f, chk, st)
  PROVE  sizes' = [sizes EXCEPT ![FileKey(f)] = Filled(sizes[FileKey(f)], [file |-> f, chk |-> chk], st)]
BY DEF FillSlot, Filled

\* A table whose entry of key k is replaced.
LEMMA EntryReplaced ==
  ASSUME NEW k \in DOMAIN sizes, NEW e, sizes' = [sizes EXCEPT ![k] = e]
  PROVE  /\ DOMAIN sizes' = DOMAIN sizes
         /\ sizes'[k] = e
         /\ \A l \in DOMAIN sizes : l # k => sizes'[l] = sizes[l]
OBVIOUS

\* What SetSize makes of the table.
LEMMA EntrySet ==
  ASSUME NEW k, NEW e, sizes' = SetSize(k, e)
  PROVE  /\ DOMAIN sizes' = DOMAIN sizes \cup {k}
         /\ sizes'[k] = e
         /\ \A l \in DOMAIN sizes : l # k => sizes'[l] = sizes[l]
BY DEF SetSize

\* The steps that leave the table of sizes alone and add nothing to the heap.
Bystander ==
  \/ \E f \in Files : \/ Vanish(f) \/ AddFails(f) \/ UntarToChecksum(f) \/ UntarToChecksumFails(f)
                      \/ NextSizeReadsNull(f) \/ SameSize(f)
  \/ EndCollect \/ NextRow \/ EndSize \/ ReadUnwrittenRow \/ UntarRow \/ UntarRowFails
  \/ ReadMissingColumn \/ UntarColumn \/ UntarColumnFails \/ SkipDifferent \/ EndReport

LEMMA BystanderStep ==
  ASSUME Bystander \/ UNCHANGED vars
  PROVE  /\ UNCHANGED <<content, given, sizes, tmp_heap, prioritized, groups>>
         /\ heap' = heap \/ (phase = "report" /\ heap' \subseteq heap)
         /\ phase' = phase \/ (phase = "collect" /\ phase' = "checksum") \/ phase' \notin {"collect", "checksum", "report"}
         /\ key' = key \/ (key' = None /\ phase = "report")
<1> USE DEF vars, world, scan
<1>1. CASE UNCHANGED vars
  BY <1>1
<1>2. ASSUME NEW f \in Files, Vanish(f) \/ AddFails(f) \/ UntarToChecksum(f) \/ UntarToChecksumFails(f)
      PROVE  /\ UNCHANGED <<content, given, sizes, tmp_heap, prioritized, groups, heap, key>>
             /\ phase' = phase \/ phase' = "failed"
  BY <1>2 DEF Vanish, AddFails, UntarToChecksum, UntarToChecksumFails, UntarFails
<1>3. ASSUME NEW f \in Files, NextSizeReadsNull(f) \/ SameSize(f)
      PROVE  /\ UNCHANGED <<content, given, sizes, tmp_heap, prioritized, groups, key>>
             /\ phase = "report" /\ phase' \in {"report", "null_read"} /\ heap' \subseteq heap
  BY <1>3 DEF NextSizeReadsNull, SameSize, NewSize, Extracted
<1>4. CASE EndCollect \/ EndReport
  BY <1>4 DEF EndCollect, EndReport
<1>5. CASE NextRow \/ EndSize \/ SkipDifferent \/ UntarRow \/ UntarColumn
  BY <1>5 DEF NextRow, EndSize, SkipDifferent, UntarRow, UntarColumn
<1>6. CASE ReadUnwrittenRow \/ UntarRowFails \/ ReadMissingColumn \/ UntarColumnFails
  BY <1>6 DEF ReadUnwrittenRow, UntarRowFails, ReadMissingColumn, UntarColumnFails, UntarFails
<1> QED
  BY <1>1, <1>2, <1>3, <1>4, <1>5, <1>6 DEF Bystander

\* Every other step is one of these.
LEMMA StepKinds ==
  ASSUME [Next]_vars
  PROVE  \/ Bystander \/ UNCHANGED vars
         \/ \E f \in Files : AddFile(f) \/ DropSingle(f) \/ KeepUnread(f) \/ Checksum(f) \/ ChecksumFails(f) \/ NextSize(f)
         \/ EndChecksum
         \/ PrintTwin
BY DEF Next, Collect, ProcessSizes, TwinReport, Ended, Bystander

--------------------------------------------------------------------------------
(* The table, the heaps and the arrays agree. *)

\* The array at hand is there, with a slot for each file of its size.
LEMMA ArrayAtHand ==
  ASSUME TableOK, HeapsInTable, key # None
  PROVE  /\ key \in DOMAIN sizes
         /\ array \in Seq(Slots) /\ DOMAIN array = 1..sizes[key].nb_files
         /\ sizes[key].nb_files \in Nat
         /\ \A n \in DOMAIN array : array[n].file \in Files \cup {Null, Wild}
<1>1. key \in DOMAIN sizes /\ EntryOK(sizes[key]) /\ array # <<>>
  BY DEF TableOK, HeapsInTable, array
<1>2. array \in Seq(Slots) /\ Len(array) = sizes[key].nb_files
  BY <1>1 DEF EntryOK, Entries, array
<1>3. \A n \in DOMAIN array : array[n] \in Slots
  BY <1>2
<1> QED
  BY <1>1, <1>2, <1>3 DEF Slots

\* i and j are slot numbers while a size is reported.
RowsOK == phase = "report" /\ key # None => i >= 1 /\ j > i

\* A pair that is compared is a pair of files in two slots of the array.
LEMMA ComparableIsPair ==
  ASSUME LocalsOK, TableOK, HeapsInTable, RowsOK, Comparable
  PROVE  /\ key # None /\ phase = "report"
         /\ i \in DOMAIN array /\ j \in DOMAIN array
         /\ array[i].file \in Files /\ array[j].file \in Files
<1>1. /\ key # None /\ phase = "report"
      /\ i <= sizes[key].nb_files /\ j <= sizes[key].nb_files
      /\ array[i].file \notin {Null, Wild} /\ array[j].file \notin {Null, Wild}
  BY DEF Comparable, RowHasPath, Matched, InRow
<1>2. i \in Nat /\ j \in Nat /\ i >= 1 /\ j >= 1
  BY <1>1 DEF LocalsOK, RowsOK
<1>3. i \in DOMAIN array /\ j \in DOMAIN array
  BY <1>1, <1>2, ArrayAtHand
<1> QED
  BY <1>1, <1>3, ArrayAtHand

LEMMA RowsOKStep ==
  ASSUME LocalsOK, HeapsInTable, RowsOK, [Next]_vars
  PROVE  RowsOK'
<1> USE DEF RowsOK, LocalsOK
<1>1. CASE UNCHANGED <<i, j>> /\ key' \in {key, None} /\ (phase' = "report" => phase = "report" \/ key' = None)
  BY <1>1
<1>2. CASE UNCHANGED vars
  BY <1>1, <1>2 DEF vars, scan
<1>3. ASSUME NEW f \in Files, Vanish(f) \/ AddFails(f) \/ UntarToChecksum(f) \/ UntarToChecksumFails(f)
                           \/ NextSizeReadsNull(f) \/ SameSize(f)
      PROVE  RowsOK'
  BY <1>1, <1>3 DEF Vanish, AddFails, UntarToChecksum, UntarToChecksumFails, UntarFails,
                    NextSizeReadsNull, SameSize, scan
<1>4. CASE EndCollect \/ EndReport \/ UntarRow \/ UntarColumn \/ EndSize \/ EndChecksum
  BY <1>1, <1>4 DEF EndCollect, EndReport, UntarRow, UntarColumn, EndSize, EndChecksum, HeapsInTable, scan
<1>5. CASE ReadUnwrittenRow \/ UntarRowFails \/ ReadMissingColumn \/ UntarColumnFails
  BY <1>5 DEF ReadUnwrittenRow, UntarRowFails, ReadMissingColumn, UntarColumnFails, UntarFails
<1>6. CASE NextRow \/ SkipDifferent \/ PrintTwin
  BY <1>6 DEF NextRow, SkipDifferent, PrintTwin, Comparable, RowHasPath, Matched, InRow
<1>7. ASSUME NEW f \in Files, AddFile(f) \/ DropSingle(f) \/ KeepUnread(f) \/ Checksum(f) \/ ChecksumFails(f)
      PROVE  RowsOK'
  BY <1>1, <1>7 DEF AddFile, DropSingle, KeepUnread, Checksum, ChecksumFails, Chosen, ToChecksum, scan
<1>8. ASSUME NEW f \in Files, NextSize(f)
      PROVE  RowsOK'
  BY <1>8 DEF NextSize
<1> QED
  BY <1>2, <1>3, <1>4, <1>5, <1>6, <1>7, <1>8, StepKinds DEF Bystander

LEMMA LocalsOKStep ==
  ASSUME LocalsOK, TableOK, HeapsInTable, RowsOK, [Next]_vars
  PROVE  LocalsOK'
<1> USE DEF LocalsOK, Phases
<1>1. CASE UNCHANGED vars
  BY <1>1 DEF vars, world, scan
<1>2. ASSUME NEW f \in Files, Vanish(f) \/ AddFails(f) \/ UntarToChecksum(f) \/ UntarToChecksumFails(f)
                           \/ SameSize(f)
      PROVE  LocalsOK'
  BY <1>2 DEF Vanish, AddFails, UntarToChecksum, UntarToChecksumFails, Untarred, UntarFails,
              SameSize, world, scan
<1>3. ASSUME NEW f \in Files, NextSizeReadsNull(f) \/ NextSize(f)
      PROVE  LocalsOK'
  <2>1. Size(f) \in Nat
    BY FileKeyOK
  <2>2. CASE NextSizeReadsNull(f)
    BY <2>1, <2>2 DEF NextSizeReadsNull, NewSize, world
  <2>3. CASE NextSize(f)
    BY <2>1, <2>3 DEF NextSize, NewSize, world
  <2> QED
    BY <1>3, <2>2, <2>3
<1>4. CASE EndCollect \/ EndReport \/ EndSize \/ EndChecksum
  BY <1>4 DEF EndCollect, EndReport, EndSize, EndChecksum, world, scan
<1>9. CASE UntarRow \/ UntarColumn
  BY <1>9 DEF UntarRow, UntarColumn, Untarred, world, scan
<1>5. CASE ReadUnwrittenRow \/ UntarRowFails \/ ReadMissingColumn \/ UntarColumnFails
  BY <1>5 DEF ReadUnwrittenRow, UntarRowFails, ReadMissingColumn, UntarColumnFails, UntarFails, world, scan
<1>6. CASE NextRow \/ SkipDifferent
  <2>1. CASE NextRow
    <3>1. /\ UNCHANGED <<world, given, phase, status, copies, old_size, groups>>
          /\ i' = i + 1 /\ j' = i + 2 /\ already_printed' = FALSE
      BY <2>1 DEF NextRow
    <3>2. i' \in Nat /\ j' \in Nat
      BY <3>1
    <3>4. already_printed' \in BOOLEAN
      BY <3>1
    <3>3. UNCHANGED <<content, prioritized, gone, given, phase, status, copies, old_size, groups>>
      BY <3>1 DEF world
    <3> QED
      BY <3>2, <3>3, <3>4
  <2>2. CASE SkipDifferent
    BY <2>2 DEF SkipDifferent, RemoveCopies, world
  <2> QED
    BY <1>6, <2>1, <2>2
<1>7. ASSUME NEW f \in Files, AddFile(f) \/ DropSingle(f) \/ KeepUnread(f) \/ Checksum(f) \/ ChecksumFails(f)
      PROVE  LocalsOK'
  BY <1>7 DEF AddFile, DropSingle, KeepUnread, Checksum, ChecksumFails, world, scan
<1>8. CASE PrintTwin
  <2>1. array[i].file \in Files /\ array[j].file \in Files
    BY <1>8, ComparableIsPair DEF PrintTwin
  <2>2. groups' \in Seq(Seq(Files))
    <3> DEFINE f == array[i].file
               g == array[j].file
    <3>1. groups' = Printed(f, g) /\ f \in Files /\ g \in Files
      BY <1>8, <2>1 DEF PrintTwin
    <3> HIDE DEF f, g
    <3>2. CASE already_printed
      <4>1. groups' = [groups EXCEPT ![Len(groups)] = Append(@, g)]
        BY <3>1, <3>2 DEF Printed
      <4>2. Len(groups) \in DOMAIN groups => Append(groups[Len(groups)], g) \in Seq(Files)
        BY <3>1
      <4> QED
        BY <4>1, <4>2, OneReplaced
    <3>3. CASE ~already_printed
      <4>1. <<f, g>> \in Seq(Files)
        BY <3>1
      <4> QED
        BY <3>1, <3>3, <4>1 DEF Printed
    <3> QED
      BY <3>2, <3>3
  <2> QED
    BY <1>8, <2>2 DEF PrintTwin, RemoveCopies, world
<1> QED
  BY <1>1, <1>2, <1>3, <1>4, <1>5, <1>6, <1>7, <1>8, <1>9, StepKinds DEF Bystander

\* What PrintTwin does to the table.
MarkedArray == [array EXCEPT ![j] = [file |-> Null, chk |-> array[j].chk]]

LEMMA MarkedReplaces ==
  ASSUME LocalsOK, TableOK, HeapsInTable, RowsOK, PrintTwin
  PROVE  /\ key \in DOMAIN sizes /\ j \in DOMAIN array
         /\ sizes' = [sizes EXCEPT ![key] = [sizes[key] EXCEPT !.chksum_array = MarkedArray]]
         /\ MarkedArray \in Seq(Slots) /\ Len(MarkedArray) = Len(array)
<1>1. key # None /\ j \in DOMAIN array
  BY ComparableIsPair DEF PrintTwin
<1>2. key \in DOMAIN sizes /\ array \in Seq(Slots) /\ sizes' = Marked
  BY <1>1, ArrayAtHand DEF PrintTwin
<1>3. array[j] \in Slots
  BY <1>1, <1>2
<1>4. [array[j] EXCEPT !.file = Null] = [file |-> Null, chk |-> array[j].chk]
  BY <1>3 DEF Slots
<1>5. [file |-> Null, chk |-> array[j].chk] \in Slots
  BY <1>3 DEF Slots
<1>6. MarkedArray \in Seq(Slots) /\ Len(MarkedArray) = Len(array)
  BY <1>1, <1>2, <1>5, OneReplaced DEF MarkedArray
<1>7. sizes' = [sizes EXCEPT ![key] = [sizes[key] EXCEPT !.chksum_array =
                   [sizes[key].chksum_array EXCEPT ![j] = [sizes[key].chksum_array[j] EXCEPT !.file = Null]]]]
  BY <1>2 DEF Marked
<1> QED
  BY <1>1, <1>2, <1>4, <1>6, <1>7 DEF MarkedArray, array

\* A pending file has room in the array of its size.
LEMMA PendingHasRoom ==
  ASSUME TableOK, HeapsInTable, CountsOK, phase = "checksum", NEW f \in heap
  PROVE  /\ FileKey(f) \in DOMAIN sizes
         /\ sizes[FileKey(f)].nb_checksumed < sizes[FileKey(f)].nb_files
         /\ sizes[FileKey(f)].nb_files = 1 => Pending(FileKey(f)) = {f} /\ sizes[FileKey(f)].nb_checksumed = 0
<1> DEFINE k == FileKey(f)
           c == Cardinality(Pending(k))
<1>1. k \in DOMAIN sizes /\ EntryOK(sizes[k])
  BY DEF TableOK, HeapsInTable
<1>2. sizes[k].nb_checksumed \in Nat /\ sizes[k].nb_files \in Nat
  BY <1>1 DEF EntryOK, Entries
<1>3. IsFiniteSet(Pending(k)) /\ f \in Pending(k)
  BY FS_Subset DEF HeapsInTable, Pending, PendingIn
<1>4. c \in Nat /\ c # 0 /\ (c = 1 => Pending(k) = {f})
  BY <1>3, FS_CardinalityType, FS_EmptySet, FS_Singleton
<1>5. c + sizes[k].nb_checksumed <= sizes[k].nb_files
  BY <1>1 DEF CountsOK
<1> HIDE DEF k, c
<1>6. sizes[k].nb_checksumed < sizes[k].nb_files /\ (sizes[k].nb_files = 1 => c = 1 /\ sizes[k].nb_checksumed = 0)
  BY <1>2, <1>4, <1>5
<1> QED
  BY <1>1, <1>4, <1>6 DEF k

LEMMA SlotOK ==
  ASSUME LocalsOK, NEW f \in Files, NEW chk \in {Unread, Wild, HashOf[content[f]]}
  PROVE  [file |-> f, chk |-> chk] \in Slots
<1>1. content[f] \in Contents
  BY DEF LocalsOK
<1> QED
  BY <1>1 DEF Slots

\* Each of the three ways a file leaves the heap of ft_conf_process_sizes.
Fills(f) == \E chk \in {Unread, Wild, HashOf[content[f]]}, st \in {"ok", "error"} :
              FillSlot(f, chk, st)

LEMMA HandledFills ==
  ASSUME LocalsOK, NEW f \in Files, KeepUnread(f) \/ Checksum(f) \/ ChecksumFails(f)
  PROVE  phase = "checksum" /\ phase' = phase /\ f \in heap /\ UNCHANGED <<key, content, groups>> /\ Fills(f)
BY DEF KeepUnread, Checksum, ChecksumFails, ToChecksum, Chosen, Largest, Fills, LocalsOK, scan, world

LEMMA TableOKStep ==
  ASSUME SizesInv, RowsOK, [Next]_vars
  PROVE  TableOK'
<1> USE DEF SizesInv
<1>1. CASE Bystander \/ UNCHANGED vars
  BY <1>1, BystanderStep DEF TableOK
<1>2. ASSUME NEW f \in Files, AddFile(f)
      PROVE  TableOK'
  <2> DEFINE k == FileKey(f)
             e == FsizeOf(k, Size(f))
             e2 == [e EXCEPT !.nb_files = @ + 1]
  <2>1. k \in 0..(KeyRange - 1) /\ Size(f) \in Nat
    BY FileKeyOK DEF LocalsOK
  <2>2. EntryOK(e) /\ e.nb_checksumed = 0 /\ e.chksum_array = <<>>
    BY <1>2, <2>1, FsizeOfOK DEF AddFile, FsizeOf, TableOK
  <2>3. sizes' = SetSize(k, e2) /\ phase = "collect"
    BY <1>2 DEF AddFile
  <2> HIDE DEF e, k
  <2>4. EntryOK(e2) /\ e2.nb_checksumed = 0 /\ e2.chksum_array = <<>>
    <3>1. e2 = [val |-> e.val, nb_files |-> e.nb_files + 1, nb_checksumed |-> 0, chksum_array |-> <<>>]
      BY <2>2 DEF EntryOK, Entries
    <3>2. e.val \in Nat /\ e.nb_files + 1 \in Nat /\ <<>> \in Seq(Slots)
      BY <2>2 DEF EntryOK, Entries
    <3> HIDE DEF Slots, e2
    <3> QED
      BY <3>1, <3>2 DEF EntryOK, Entries
  <2> HIDE DEF e2
  <2>5. /\ DOMAIN sizes' = DOMAIN sizes \cup {k} /\ sizes'[k] = e2
        /\ \A l \in DOMAIN sizes : l # k => sizes'[l] = sizes[l]
    BY <2>3, EntrySet
  <2> QED
    BY <2>1, <2>3, <2>4, <2>5 DEF TableOK
<1>3. ASSUME NEW f \in Files, DropSingle(f)
      PROVE  TableOK'
  BY <1>3 DEF DropSingle, TableOK, Chosen
<1>4. ASSUME NEW f \in Files, KeepUnread(f) \/ Checksum(f) \/ ChecksumFails(f)
      PROVE  TableOK'
  <2>1. phase = "checksum" /\ phase' = phase /\ f \in heap
    BY <1>4, HandledFills
  <2>2. PICK chk \in {Unread, Wild, HashOf[content[f]]}, st \in {"ok", "error"} : FillSlot(f, chk, st)
    BY <1>4, HandledFills DEF Fills
  <2> DEFINE k == FileKey(f)
             e == Filled(sizes[k], [file |-> f, chk |-> chk], st)
  <2>3. k \in DOMAIN sizes /\ EntryOK(e)
    BY <2>1, PendingHasRoom, SlotOK, FilledOK DEF TableOK
  <2>4. sizes' = [sizes EXCEPT ![k] = e]
    BY <2>2, FillSlotFills
  <2> HIDE DEF e, k
  <2> QED
    BY <2>1, <2>3, <2>4, EntryReplaced DEF TableOK
<1>5. ASSUME NEW f \in Files, NextSize(f)
      PROVE  TableOK'
  <2> DEFINE k == FileKey(f)
             a == sizes[k].chksum_array
             n == chksum_array_sz(sizes[k])
  <2>1. PICK b \in SortedForms(a, n) : sizes' = [sizes EXCEPT ![k] = [sizes[k] EXCEPT !.chksum_array = b]]
    BY <1>5 DEF NextSize
  <2>2. phase' = "report" /\ f \in heap /\ phase = "report"
    BY <1>5 DEF NextSize, NewSize, Largest
  <2>3. k \in DOMAIN sizes /\ EntryOK(sizes[k]) /\ a # <<>>
    BY <2>2 DEF TableOK, HeapsInTable, EntryOK
  <2>4. a \in Seq(Slots) /\ n \in 0..Len(a)
    BY <2>3 DEF EntryOK, Entries, chksum_array_sz
  <2>5. b \in Seq(Slots) /\ Len(b) = Len(a)
    BY <2>4, SortedFormsOK
  <2>6. EntryOK([sizes[k] EXCEPT !.chksum_array = b])
    BY <2>3, <2>5, ArrayReplaced
  <2> HIDE DEF k, a, n
  <2> QED
    BY <2>1, <2>2, <2>3, <2>6, EntryReplaced DEF TableOK
<1>6. CASE EndChecksum
  BY <1>6 DEF EndChecksum, TableOK
<1>7. CASE PrintTwin
  <2>1. /\ key \in DOMAIN sizes
        /\ sizes' = [sizes EXCEPT ![key] = [sizes[key] EXCEPT !.chksum_array = MarkedArray]]
        /\ MarkedArray \in Seq(Slots) /\ Len(MarkedArray) = Len(sizes[key].chksum_array)
    BY <1>7, MarkedReplaces DEF array
  <2>2. EntryOK([sizes[key] EXCEPT !.chksum_array = MarkedArray])
    BY <2>1, ArrayReplaced DEF TableOK
  <2>3. phase' = "report"
    BY <1>7 DEF PrintTwin, Comparable, RowHasPath, Matched, InRow
  <2> QED
    BY <2>1, <2>2, <2>3, EntryReplaced DEF TableOK
<1> QED
  BY <1>1, <1>2, <1>3, <1>4, <1>5, <1>6, <1>7, StepKinds

\* What the steps do to the entries that stay: checksums are only added, arrays only
\* made, but for the entry of a single file, which is dropped.
LEMMA EntriesGrow ==
  ASSUME SizesInv, RowsOK, [Next]_vars, NEW k \in DOMAIN sizes,
         ~ \E f \in Files : DropSingle(f) /\ k = FileKey(f)
  PROVE  /\ k \in DOMAIN sizes'
         /\ sizes[k].nb_checksumed >= 1 => sizes'[k].nb_checksumed >= 1
         /\ sizes[k].chksum_array # <<>> => sizes'[k].chksum_array # <<>>
         /\ phase # "collect" => sizes'[k].nb_files = sizes[k].nb_files /\ sizes'[k].val = sizes[k].val
         /\ phase = "report" => sizes'[k].nb_checksumed = sizes[k].nb_checksumed
<1> DEFINE G(e, e2) == /\ e.nb_checksumed >= 1 => e2.nb_checksumed >= 1
                       /\ e.chksum_array # <<>> => e2.chksum_array # <<>>
                       /\ phase # "collect" => e2.nb_files = e.nb_files /\ e2.val = e.val
                       /\ phase = "report" => e2.nb_checksumed = e.nb_checksumed
<1> SUFFICES k \in DOMAIN sizes' /\ G(sizes[k], sizes'[k])
  OBVIOUS
<1>0. EntryOK(sizes[k])
  BY DEF SizesInv, TableOK
<1>1. ASSUME NEW l \in DOMAIN sizes, NEW e, sizes' = [sizes EXCEPT ![l] = e], G(sizes[l], e)
      PROVE  k \in DOMAIN sizes' /\ G(sizes[k], sizes'[k])
  BY <1>1, EntryReplaced
<1>2. CASE Bystander \/ UNCHANGED vars \/ EndChecksum
  BY <1>2, BystanderStep DEF EndChecksum
<1>3. ASSUME NEW f \in Files, AddFile(f)
      PROVE  k \in DOMAIN sizes' /\ G(sizes[k], sizes'[k])
  <2> DEFINE l == FileKey(f)
             e == [FsizeOf(l, Size(f)) EXCEPT !.nb_files = @ + 1]
  <2>1. sizes' = SetSize(l, e) /\ phase = "collect"
    BY <1>3 DEF AddFile
  <2>2. CASE k = l
    <3>1. e = [sizes[k] EXCEPT !.nb_files = @ + 1]
      BY <2>2 DEF FsizeOf
    <3>2. e.nb_checksumed = sizes[k].nb_checksumed /\ e.chksum_array = sizes[k].chksum_array
      BY <1>0, <3>1 DEF EntryOK, Entries
    <3> HIDE DEF e, l
    <3>3. DOMAIN sizes' = DOMAIN sizes \cup {l} /\ sizes'[l] = e
      BY <2>1, EntrySet
    <3> QED
      BY <2>1, <2>2, <3>2, <3>3
  <2>3. CASE k # l
    <3> HIDE DEF e, l
    <3> QED
      BY <2>1, <2>3, EntrySet
  <2> QED
    BY <2>2, <2>3
<1>4. ASSUME NEW f \in Files, DropSingle(f)
      PROVE  k \in DOMAIN sizes' /\ G(sizes[k], sizes'[k])
  BY <1>4 DEF DropSingle
<1>5. ASSUME NEW f \in Files, KeepUnread(f) \/ Checksum(f) \/ ChecksumFails(f)
      PROVE  k \in DOMAIN sizes' /\ G(sizes[k], sizes'[k])
  <2>1. phase = "checksum" /\ f \in heap
    BY <1>5, HandledFills DEF SizesInv
  <2>2. PICK chk \in {Unread, Wild, HashOf[content[f]]}, st \in {"ok", "error"} : FillSlot(f, chk, st)
    BY <1>5, HandledFills DEF Fills, SizesInv
  <2> DEFINE l == FileKey(f)
             slot == [file |-> f, chk |-> chk]
             e == Filled(sizes[l], slot, st)
  <2>3. l \in DOMAIN sizes /\ EntryOK(sizes[l]) /\ sizes[l].nb_checksumed < sizes[l].nb_files
    BY <2>1, PendingHasRoom DEF TableOK, SizesInv
  <2>4. G(sizes[l], e)
    <3>1. sizes[l].nb_checksumed \in Nat
      BY <2>3 DEF EntryOK, Entries
    <3>2. sizes[l].nb_checksumed >= 1 => NextSlot(sizes[l].nb_checksumed, st) >= 1
      BY <3>1 DEF NextSlot
    <3>3. slot \in Slots
      BY SlotOK DEF SizesInv
    <3> HIDE DEF slot, l
    <3> DEFINE e1 == sizes[l]
    <3>4. /\ e.val = e1.val /\ e.nb_files = e1.nb_files /\ e.chksum_array # <<>>
          /\ e.nb_checksumed = NextSlot(e1.nb_checksumed, st)
      <4>1. EntryOK(e1) /\ e1.nb_checksumed < e1.nb_files /\ slot \in Slots /\ e = Filled(e1, slot, st)
        BY <2>3, <3>3
      <4> HIDE DEF e1, e
      <4>2. Filled(e1, slot, st).val = e1.val
        BY <4>1 DEF Filled, EntryOK, Entries
      <4>3. Filled(e1, slot, st).nb_files = e1.nb_files
        BY <4>1 DEF Filled, EntryOK, Entries
      <4>4. Filled(e1, slot, st).nb_checksumed = NextSlot(e1.nb_checksumed, st)
        BY <4>1, FilledOK
      <4>5. Filled(e1, slot, st).chksum_array # <<>>
        BY <4>1, FilledOK
      <4> QED
        BY <4>1, <4>2, <4>3, <4>4, <4>5
    <3> QED
      BY <2>1, <3>2, <3>4
  <2>5. sizes' = [sizes EXCEPT ![l] = e]
    BY <2>2, FillSlotFills
  <2> HIDE DEF l, e
  <2> QED
    BY <1>1, <2>3, <2>4, <2>5
<1>6. ASSUME NEW f \in Files, NextSize(f)
      PROVE  k \in DOMAIN sizes' /\ G(sizes[k], sizes'[k])
  <2> DEFINE l == FileKey(f)
             a == sizes[l].chksum_array
             n == chksum_array_sz(sizes[l])
  <2>1. PICK b \in SortedForms(a, n) : sizes' = [sizes EXCEPT ![l] = [sizes[l] EXCEPT !.chksum_array = b]]
    BY <1>6 DEF NextSize
  <2>2. f \in heap /\ phase = "report"
    BY <1>6 DEF NextSize, NewSize, Largest
  <2>3. l \in DOMAIN sizes /\ EntryOK(sizes[l]) /\ a # <<>>
    BY <2>2 DEF SizesInv, TableOK, HeapsInTable, EntryOK
  <2>4. a \in Seq(Slots) /\ n \in 0..Len(a)
    BY <2>3 DEF EntryOK, Entries, chksum_array_sz
  <2>5. b \in Seq(Slots) /\ Len(b) = Len(a) /\ b # <<>>
    BY <2>3, <2>4, SortedFormsOK, EmptySeq
  <2>6. G(sizes[l], [sizes[l] EXCEPT !.chksum_array = b])
    BY <2>3, <2>5, ArrayReplaced
  <2> HIDE DEF l, a, n
  <2> QED
    BY <1>1, <2>1, <2>3, <2>6
<1>7. CASE PrintTwin
  <2> DEFINE e == [sizes[key] EXCEPT !.chksum_array = MarkedArray]
  <2>1. /\ key \in DOMAIN sizes
        /\ sizes' = [sizes EXCEPT ![key] = e]
        /\ MarkedArray \in Seq(Slots) /\ Len(MarkedArray) = Len(sizes[key].chksum_array)
    BY <1>7, MarkedReplaces DEF array, SizesInv
  <2>2. EntryOK(sizes[key]) /\ sizes[key].chksum_array \in Seq(Slots)
    BY <2>1 DEF SizesInv, TableOK, EntryOK, Entries
  <2>3. MarkedArray = <<>> => sizes[key].chksum_array = <<>>
    BY <2>1, <2>2, EmptySeq
  <2>4. G(sizes[key], e)
    BY <2>1, <2>2, <2>3, ArrayReplaced
  <2> HIDE DEF e
  <2> QED
    BY <1>1, <2>1, <2>4
<1> QED
  BY <1>2, <1>3, <1>4, <1>5, <1>6, <1>7, StepKinds

\* What the entry of a file becomes when the file is handled.
LEMMA HandledEntry ==
  ASSUME SizesInv, NEW f \in Files,
         NEW chk \in {Unread, Wild, HashOf[content[f]]}, NEW st \in {"ok", "error"},
         phase = "checksum", f \in heap, FillSlot(f, chk, st),
         NEW k, k = FileKey(f)
  PROVE  /\ k \in DOMAIN sizes /\ DOMAIN sizes' = DOMAIN sizes
         /\ \A l \in DOMAIN sizes : l # k => sizes'[l] = sizes[l]
         /\ EntryOK(sizes[k]) /\ EntryOK(sizes'[k]) /\ sizes[k].nb_checksumed < sizes[k].nb_files
         /\ sizes'[k].val = sizes[k].val
         /\ sizes'[k].nb_files = sizes[k].nb_files
         /\ sizes'[k].nb_checksumed = NextSlot(sizes[k].nb_checksumed, st)
         /\ DOMAIN sizes'[k].chksum_array = 1..sizes[k].nb_files
         /\ DOMAIN Allocated(sizes[k]) = 1..sizes[k].nb_files
         /\ sizes'[k].chksum_array[sizes[k].nb_checksumed + 1].file = f
         /\ \A n \in 1..sizes[k].nb_files : n # sizes[k].nb_checksumed + 1 =>
              sizes'[k].chksum_array[n] = Allocated(sizes[k])[n]
         /\ heap' = heap \ {f}
         /\ tmp_heap' = IF st = "ok" THEN tmp_heap \cup {f} ELSE tmp_heap
<1> DEFINE slot == [file |-> f, chk |-> chk]
           e1 == sizes[k]
           e == Filled(e1, slot, st)
<1>1. k \in DOMAIN sizes /\ EntryOK(e1) /\ e1.nb_checksumed < e1.nb_files
  BY PendingHasRoom DEF TableOK, SizesInv
<1>2. slot \in Slots
  BY SlotOK DEF SizesInv
<1>3. sizes' = [sizes EXCEPT ![k] = e]
  BY FillSlotFills
<1>4. heap' = heap \ {f} /\ tmp_heap' = IF st = "ok" THEN tmp_heap \cup {f} ELSE tmp_heap
  BY DEF FillSlot
<1> HIDE DEF slot, e1
<1>5. e.val = e1.val /\ e.nb_files = e1.nb_files
  BY <1>1 DEF Filled, EntryOK, Entries
<1>6. EntryOK(e) /\ e.nb_checksumed = NextSlot(e1.nb_checksumed, st)
  BY <1>1, <1>2, FilledOK
<1>7. e.chksum_array = [Allocated(e1) EXCEPT ![e1.nb_checksumed + 1] = slot]
  BY <1>1, FilledArray
<1>8. DOMAIN Allocated(e1) = 1..e1.nb_files
  BY <1>1, AllocatedOK
<1>10. e1.nb_files \in Nat /\ e1.nb_checksumed \in Nat
  BY <1>1 DEF EntryOK, Entries
<1>11. /\ DOMAIN e.chksum_array = 1..e1.nb_files
       /\ e.chksum_array[e1.nb_checksumed + 1] = slot
       /\ \A n \in 1..e1.nb_files : n # e1.nb_checksumed + 1 => e.chksum_array[n] = Allocated(e1)[n]
  BY <1>1, <1>7, <1>8, <1>10
<1> HIDE DEF e
<1>9. DOMAIN sizes' = DOMAIN sizes /\ sizes'[k] = e /\ \A l \in DOMAIN sizes : l # k => sizes'[l] = sizes[l]
  BY <1>1, <1>3, EntryReplaced
<1> QED
  BY <1>1, <1>4, <1>5, <1>6, <1>8, <1>9, <1>11 DEF e1, slot

\* HeapsInTable of the next state, with the keys of this one: no step changes a file.
LEMMA HeapsFollow ==
  ASSUME content' = content,
         heap' \subseteq Files /\ IsFiniteSet(heap'),
         tmp_heap' \subseteq Files /\ IsFiniteSet(tmp_heap'),
         \A f \in heap' \cup tmp_heap' : FileKey(f) \in DOMAIN sizes',
         \A f \in tmp_heap' : sizes'[FileKey(f)].nb_checksumed >= 1,
         phase' = "report" => \A f \in heap' : sizes'[FileKey(f)].nb_checksumed >= 1,
         phase' = "collect" => tmp_heap' = {},
         key' \in DOMAIN sizes' \cup {None},
         phase' \in {"collect", "checksum"} => key' = None,
         key' # None => sizes'[key'].chksum_array # <<>>
  PROVE  HeapsInTable'
BY DEF HeapsInTable, FileKey, Size

LEMMA HeapsInTableStep ==
  ASSUME SizesInv, RowsOK, [Next]_vars
  PROVE  HeapsInTable'
<1> USE DEF SizesInv
<1>0. /\ heap \subseteq Files /\ IsFiniteSet(heap)
      /\ tmp_heap \subseteq Files /\ IsFiniteSet(tmp_heap)
      /\ \A f \in heap \cup tmp_heap : FileKey(f) \in DOMAIN sizes
      /\ \A f \in tmp_heap : sizes[FileKey(f)].nb_checksumed >= 1
      /\ phase = "report" => \A f \in heap : sizes[FileKey(f)].nb_checksumed >= 1
      /\ phase = "collect" => tmp_heap = {}
      /\ key \in DOMAIN sizes \cup {None}
      /\ phase \in {"collect", "checksum"} => key = None
      /\ key # None => sizes[key].chksum_array # <<>>
  BY DEF HeapsInTable
<1>1. CASE Bystander \/ UNCHANGED vars
  <2>1. /\ UNCHANGED <<content, sizes, tmp_heap>>
        /\ heap' = heap \/ (phase = "report" /\ heap' \subseteq heap)
        /\ phase' = phase \/ (phase = "collect" /\ phase' = "checksum") \/ phase' \notin {"collect", "checksum", "report"}
        /\ key' = key \/ (key' = None /\ phase = "report")
    BY <1>1, BystanderStep
  <2>2. heap' \subseteq heap /\ IsFiniteSet(heap')
    BY <1>0, <2>1, FS_Subset
  <2> HIDE DEF SizesInv
  <2> QED
    BY <1>0, <2>1, <2>2, HeapsFollow
<1>2. ASSUME NEW f \in Files, AddFile(f)
      PROVE  HeapsInTable'
  <2>1. /\ heap' = heap \cup {f} /\ tmp_heap' = tmp_heap /\ key' = key
        /\ phase = "collect" /\ phase' = phase /\ tmp_heap = {} /\ key = None
        /\ content' = content
    BY <1>0, <1>2 DEF AddFile, scan, world
  <2>2. IsFiniteSet(heap')
    BY <1>0, <2>1, FS_AddElement
  <2>3. DOMAIN sizes' = DOMAIN sizes \cup {FileKey(f)}
    BY <1>2, EntrySet DEF AddFile
  <2> HIDE DEF SizesInv
  <2> QED
    BY <1>0, <2>1, <2>2, <2>3, HeapsFollow
<1>3. ASSUME NEW f \in Files, DropSingle(f)
      PROVE  HeapsInTable'
  <2> DEFINE k == FileKey(f)
  <2>1. /\ heap' = heap \ {f} /\ tmp_heap' = tmp_heap /\ key' = key /\ content' = content
        /\ phase = "checksum" /\ phase' = phase /\ f \in heap
        /\ sizes[k].nb_files = 1 /\ sizes' = [l \in DOMAIN sizes \ {k} |-> sizes[l]]
    BY <1>3 DEF DropSingle, Chosen, Largest, scan, world
  <2>2. Pending(k) = {f} /\ sizes[k].nb_checksumed = 0
    BY <2>1, PendingHasRoom
  <2>3. \A g \in heap' \cup tmp_heap : FileKey(g) # k
    <3>1. \A g \in heap' : FileKey(g) # k
      BY <2>1, <2>2 DEF Pending, PendingIn
    <3>2. \A g \in tmp_heap : FileKey(g) # k
      <4> SUFFICES ASSUME NEW g \in tmp_heap, FileKey(g) = k
                   PROVE  FALSE
        OBVIOUS
      <4> QED
        BY <1>0, <2>2
    <3> QED
      BY <3>1, <3>2
  <2>5. IsFiniteSet(heap')
    BY <1>0, <2>1, FS_RemoveElement
  <2> HIDE DEF SizesInv, k
  <2> QED
    BY <1>0, <2>1, <2>2, <2>3, <2>5, HeapsFollow
<1>4. ASSUME NEW f \in Files, KeepUnread(f) \/ Checksum(f) \/ ChecksumFails(f)
      PROVE  HeapsInTable'
  <2>1. /\ phase = "checksum" /\ phase' = phase /\ f \in heap /\ UNCHANGED <<key, content>>
    BY <1>4, HandledFills
  <2>2. PICK chk \in {Unread, Wild, HashOf[content[f]]}, st \in {"ok", "error"} : FillSlot(f, chk, st)
    BY <1>4, HandledFills DEF Fills
  <2> DEFINE k == FileKey(f)
  <2>3. /\ k \in DOMAIN sizes /\ DOMAIN sizes' = DOMAIN sizes
        /\ \A l \in DOMAIN sizes : l # k => sizes'[l] = sizes[l]
        /\ EntryOK(sizes[k])
        /\ sizes'[k].nb_checksumed = NextSlot(sizes[k].nb_checksumed, st)
        /\ heap' = heap \ {f}
        /\ tmp_heap' = IF st = "ok" THEN tmp_heap \cup {f} ELSE tmp_heap
    <3>1. k = FileKey(f) /\ SizesInv
      OBVIOUS
    <3> HIDE DEF SizesInv, k
    <3> QED
      BY <2>1, <2>2, <3>1, HandledEntry
  <2>4. IsFiniteSet(heap') /\ IsFiniteSet(tmp_heap')
    BY <1>0, <2>3, FS_RemoveElement, FS_AddElement
  <2>5. sizes[k].nb_checksumed \in Nat
    BY <2>3 DEF EntryOK, Entries
  <2> HIDE DEF k
  <2>6. /\ \A l \in DOMAIN sizes : sizes[l].nb_checksumed >= 1 => sizes'[l].nb_checksumed >= 1
        /\ st = "ok" => sizes'[k].nb_checksumed >= 1
    BY <2>3, <2>5 DEF NextSlot
  <2> HIDE DEF SizesInv
  <2> USE DEF k
  <2> QED
    BY <1>0, <2>1, <2>2, <2>3, <2>4, <2>5, <2>6, HeapsFollow
<1>5. ASSUME NEW f \in Files, NextSize(f)
      PROVE  HeapsInTable'
  <2>1. /\ heap' = heap \ {f} /\ tmp_heap' = tmp_heap /\ key' = FileKey(f) /\ content' = content
        /\ phase = "report" /\ phase' = phase /\ f \in heap
    BY <1>5 DEF NextSize, NewSize, Largest, Extracted, world
  <2>2. ~ \E g \in Files : DropSingle(g)
    BY <2>1 DEF DropSingle, Chosen
  <2>3. \A k \in DOMAIN sizes : /\ k \in DOMAIN sizes'
                                /\ sizes[k].nb_checksumed >= 1 => sizes'[k].nb_checksumed >= 1
                                /\ sizes[k].chksum_array # <<>> => sizes'[k].chksum_array # <<>>
    BY <2>2, EntriesGrow
  <2>4. FileKey(f) \in DOMAIN sizes /\ sizes[FileKey(f)].chksum_array # <<>>
    BY <1>0, <2>1 DEF TableOK, EntryOK
  <2>5. IsFiniteSet(heap')
    BY <1>0, <2>1, FS_RemoveElement
  <2> HIDE DEF SizesInv
  <2> QED
    BY <1>0, <2>1, <2>2, <2>3, <2>4, <2>5, HeapsFollow
<1>6. CASE EndChecksum
  <2>1. /\ heap' = tmp_heap /\ tmp_heap' = {} /\ UNCHANGED <<sizes, content, key>>
        /\ phase = "checksum" /\ phase' = "report"
    BY <1>6 DEF EndChecksum, world, scan
  <2> HIDE DEF SizesInv
  <2> QED
    BY <1>0, <2>1, HeapsFollow, FS_EmptySet
<1>7. CASE PrintTwin
  <2>1. /\ UNCHANGED <<heap, tmp_heap, key, content, phase>> /\ phase = "report"
    BY <1>7 DEF PrintTwin, Comparable, RowHasPath, Matched, InRow, world
  <2>2. ~ \E g \in Files : DropSingle(g)
    BY <2>1 DEF DropSingle, Chosen
  <2>3. \A k \in DOMAIN sizes : /\ k \in DOMAIN sizes'
                                /\ sizes[k].nb_checksumed >= 1 => sizes'[k].nb_checksumed >= 1
                                /\ sizes[k].chksum_array # <<>> => sizes'[k].chksum_array # <<>>
    BY <2>2, EntriesGrow
  <2> HIDE DEF SizesInv
  <2> QED
    BY <1>0, <2>1, <2>3, HeapsFollow
<1> QED
  BY <1>1, <1>2, <1>3, <1>4, <1>5, <1>6, <1>7, StepKinds

\* A file that leaves the heap leaves the count of its key, one that enters it is counted.
LEMMA PendingCounts ==
  ASSUME IsFiniteSet(heap), NEW f, NEW k
  PROVE  /\ Cardinality(Pending(k)) \in Nat
         /\ f \in heap /\ FileKey(f) = k =>
              Cardinality(PendingIn(heap \ {f}, k)) = Cardinality(Pending(k)) - 1
         /\ f \notin heap /\ FileKey(f) = k =>
              Cardinality(PendingIn(heap \cup {f}, k)) = Cardinality(Pending(k)) + 1
         /\ FileKey(f) # k => /\ PendingIn(heap \ {f}, k) = Pending(k)
                              /\ PendingIn(heap \cup {f}, k) = Pending(k)
<1>1. Pending(k) \subseteq heap /\ IsFiniteSet(Pending(k))
  BY FS_Subset DEF Pending, PendingIn
<1>2. Cardinality(Pending(k)) \in Nat
  BY <1>1, FS_CardinalityType
<1>3. ASSUME f \in heap, FileKey(f) = k
      PROVE  Cardinality(PendingIn(heap \ {f}, k)) = Cardinality(Pending(k)) - 1
  <2>1. PendingIn(heap \ {f}, k) = Pending(k) \ {f} /\ f \in Pending(k)
    BY <1>3 DEF Pending, PendingIn
  <2> QED
    BY <1>1, <2>1, FS_RemoveElement
<1>4. ASSUME f \notin heap, FileKey(f) = k
      PROVE  Cardinality(PendingIn(heap \cup {f}, k)) = Cardinality(Pending(k)) + 1
  <2>1. PendingIn(heap \cup {f}, k) = Pending(k) \cup {f} /\ f \notin Pending(k)
    BY <1>4 DEF Pending, PendingIn
  <2> QED
    BY <1>1, <2>1, FS_AddElement
<1>5. ASSUME FileKey(f) # k
      PROVE  PendingIn(heap \ {f}, k) = Pending(k) /\ PendingIn(heap \cup {f}, k) = Pending(k)
  BY <1>5 DEF Pending, PendingIn
<1> QED
  BY <1>2, <1>3, <1>4, <1>5

\* CountsOK of the next state, with the keys of this one.
LEMMA CountsFollow ==
  ASSUME content' = content,
         phase' = "checksum" => \A k \in DOMAIN sizes' :
           Cardinality(PendingIn(heap', k)) + sizes'[k].nb_checksumed <= sizes'[k].nb_files,
         phase' = "collect" => \A k \in DOMAIN sizes' :
           Cardinality(PendingIn(heap', k)) = sizes'[k].nb_files,
         phase' = "collect" => heap' \subseteq given'
  PROVE  CountsOK'
BY DEF CountsOK, Pending, PendingIn, FileKey, Size

LEMMA CountsOKStep ==
  ASSUME SizesInv, RowsOK, [Next]_vars
  PROVE  CountsOK'
<1>0. /\ phase = "checksum" => \A k \in DOMAIN sizes :
            Cardinality(Pending(k)) + sizes[k].nb_checksumed <= sizes[k].nb_files
      /\ phase = "collect" => \A k \in DOMAIN sizes : Cardinality(Pending(k)) = sizes[k].nb_files
      /\ phase = "collect" => heap \subseteq given
      /\ phase = "collect" => \A k \in DOMAIN sizes : sizes[k].nb_checksumed = 0
      /\ \A k \in DOMAIN sizes : sizes[k].nb_files \in Nat /\ sizes[k].nb_checksumed \in Nat
      /\ heap \subseteq Files /\ IsFiniteSet(heap)
      /\ \A f \in heap : FileKey(f) \in DOMAIN sizes
  BY DEF SizesInv, CountsOK, TableOK, HeapsInTable, EntryOK, Entries
<1>1. CASE Bystander \/ UNCHANGED vars
  <2>1. /\ UNCHANGED <<content, given, sizes>>
        /\ heap' = heap \/ phase = "report"
        /\ phase' = phase \/ (phase = "collect" /\ phase' = "checksum") \/ phase' \notin {"collect", "checksum", "report"}
    BY <1>1, BystanderStep
  <2>2. heap' = heap => \A k : PendingIn(heap', k) = Pending(k)
    BY DEF Pending
  <2>3. \A k : Cardinality(Pending(k)) \in Nat
    BY <1>0, PendingCounts
  <2> QED
    BY <1>0, <2>1, <2>2, <2>3, CountsFollow
<1>2. ASSUME NEW f \in Files, AddFile(f)
      PROVE  CountsOK'
  <2> DEFINE l == FileKey(f)
             e == FsizeOf(l, Size(f))
             e2 == [e EXCEPT !.nb_files = @ + 1]
  <2>1. /\ heap' = heap \cup {f} /\ given' = given \cup {f} /\ content' = content
        /\ phase = "collect" /\ phase' = phase /\ f \notin heap
        /\ sizes' = SetSize(l, e2)
    BY <1>0, <1>2 DEF AddFile, world
  <2>2. EntryOK(e)
    BY FsizeOfOK, FileKeyOK DEF SizesInv, LocalsOK
  <2>3. e2.nb_files = e.nb_files + 1 /\ e.nb_files \in Nat
    <3> HIDE DEF e
    <3> QED
      BY <2>2 DEF EntryOK, Entries
  <2>4. e.nb_files = Cardinality(Pending(l))
    <3>1. CASE l \in DOMAIN sizes
      BY <1>0, <2>1, <3>1 DEF FsizeOf
    <3>2. CASE l \notin DOMAIN sizes
      <4>1. Pending(l) = {}
        BY <1>0, <3>2 DEF Pending, PendingIn
      <4>2. e.nb_files = 0
        BY <3>2 DEF FsizeOf
      <4> QED
        BY <4>1, <4>2, FS_EmptySet
    <3> QED
      BY <3>1, <3>2
  <2> HIDE DEF e2, e
  <2>5. Cardinality(PendingIn(heap', l)) = Cardinality(Pending(l)) + 1
    BY <1>0, <2>1, PendingCounts
  <2>6. \A k : k # l => PendingIn(heap', k) = Pending(k)
    BY <1>0, <2>1, PendingCounts
  <2> HIDE DEF l
  <2>7. DOMAIN sizes' = DOMAIN sizes \cup {l} /\ sizes'[l] = e2 /\ \A k \in DOMAIN sizes : k # l => sizes'[k] = sizes[k]
    BY <2>1, EntrySet
  <2>8. \A k \in DOMAIN sizes' : Cardinality(PendingIn(heap', k)) = sizes'[k].nb_files
    BY <1>0, <2>1, <2>3, <2>4, <2>5, <2>6, <2>7
  <2> QED
    BY <1>0, <2>1, <2>8, CountsFollow
<1>3. ASSUME NEW f \in Files, DropSingle(f)
      PROVE  CountsOK'
  <2> DEFINE l == FileKey(f)
  <2>1. /\ heap' = heap \ {f} /\ content' = content
        /\ phase = "checksum" /\ phase' = phase
        /\ sizes' = [k \in DOMAIN sizes \ {l} |-> sizes[k]]
    BY <1>3 DEF DropSingle, Chosen, Largest, world
  <2>2. \A k \in DOMAIN sizes' : k # l /\ sizes'[k] = sizes[k] /\ k \in DOMAIN sizes
    BY <2>1
  <2>3. \A k : k # l => PendingIn(heap', k) = Pending(k)
    BY <1>0, <2>1, PendingCounts
  <2> QED
    BY <1>0, <2>1, <2>2, <2>3, CountsFollow
<1>4. ASSUME NEW f \in Files, KeepUnread(f) \/ Checksum(f) \/ ChecksumFails(f)
      PROVE  CountsOK'
  <2>1. phase = "checksum" /\ phase' = phase /\ f \in heap /\ content' = content
    BY <1>4, HandledFills DEF SizesInv
  <2>2. PICK chk \in {Unread, Wild, HashOf[content[f]]}, st \in {"ok", "error"} : FillSlot(f, chk, st)
    BY <1>4, HandledFills DEF Fills, SizesInv
  <2> DEFINE l == FileKey(f)
  <2>3. l = FileKey(f)
    OBVIOUS
  <2> HIDE DEF l
  <2>4. /\ l \in DOMAIN sizes /\ DOMAIN sizes' = DOMAIN sizes
        /\ \A k \in DOMAIN sizes : k # l => sizes'[k] = sizes[k]
        /\ sizes'[l].nb_files = sizes[l].nb_files
        /\ sizes'[l].nb_checksumed = NextSlot(sizes[l].nb_checksumed, st)
        /\ heap' = heap \ {f}
    BY <2>1, <2>2, <2>3, HandledEntry
  <2>5. Cardinality(PendingIn(heap', l)) = Cardinality(Pending(l)) - 1 /\ Cardinality(Pending(l)) \in Nat
    BY <1>0, <2>1, <2>3, <2>4, PendingCounts
  <2>6. \A k : k # l => PendingIn(heap', k) = Pending(k)
    BY <1>0, <2>3, <2>4, PendingCounts
  <2>7. Cardinality(PendingIn(heap', l)) + sizes'[l].nb_checksumed <= sizes'[l].nb_files
    <3>1. sizes[l].nb_checksumed \in Nat /\ sizes[l].nb_files \in Nat
      BY <1>0, <2>4
    <3>2. sizes'[l].nb_checksumed <= sizes[l].nb_checksumed + 1 /\ sizes'[l].nb_checksumed \in Nat
      BY <2>4, <3>1 DEF NextSlot
    <3>3. Cardinality(Pending(l)) + sizes[l].nb_checksumed <= sizes[l].nb_files
      BY <1>0, <2>1, <2>4
    <3> QED
      BY <2>4, <2>5, <3>1, <3>2, <3>3
  <2>8. \A k \in DOMAIN sizes' :
          Cardinality(PendingIn(heap', k)) + sizes'[k].nb_checksumed <= sizes'[k].nb_files
    BY <1>0, <2>1, <2>4, <2>6, <2>7
  <2> QED
    BY <2>1, <2>8, CountsFollow
<1>5. CASE (\E f \in Files : NextSize(f)) \/ EndChecksum \/ PrintTwin
  <2>1. content' = content /\ phase' = "report"
    BY <1>5 DEF NextSize, NewSize, EndChecksum, PrintTwin, Comparable, RowHasPath, Matched, InRow, world
  <2> QED
    BY <2>1, CountsFollow
<1> QED
  BY <1>1, <1>2, <1>3, <1>4, <1>5, StepKinds

LEMMA SizesInvStep ==
  ASSUME SizesInv, RowsOK, [Next]_vars
  PROVE  SizesInv' /\ RowsOK'
<1>1. LocalsOK' /\ RowsOK'
  BY LocalsOKStep, RowsOKStep DEF SizesInv
<1>2. TableOK'
  BY TableOKStep
<1>3. HeapsInTable'
  BY HeapsInTableStep
<1>4. CountsOK'
  BY CountsOKStep
<1> QED
  BY <1>1, <1>2, <1>3, <1>4 DEF SizesInv

LEMMA SizesInvInit ==
  ASSUME Init
  PROVE  SizesInv /\ RowsOK
<1> USE DEF Init
<1>1. LocalsOK /\ RowsOK
  <2>1. content \in [Files -> Contents] /\ prioritized \subseteq Files /\ gone \subseteq Files /\ given \subseteq Files
    BY TwinFinderAssumption
  <2>2. already_printed \in BOOLEAN /\ phase \in Phases /\ status \in {"ok", "error"}
    BY DEF Phases
  <2>3. copies \subseteq Archived /\ old_size \in Nat \cup {-1} /\ i \in Nat /\ j \in Nat /\ phase # "report"
    OBVIOUS
  <2>4. groups \in Seq(Seq(Files))
    OBVIOUS
  <2> HIDE DEF Init
  <2> QED
    BY <2>1, <2>2, <2>3, <2>4 DEF LocalsOK, RowsOK
<1>2. DOMAIN sizes = {}
  OBVIOUS
<1>3. TableOK /\ CountsOK
  BY <1>2 DEF TableOK, CountsOK
<1>4. HeapsInTable
  BY FS_EmptySet DEF HeapsInTable
<1> QED
  BY <1>1, <1>3, <1>4 DEF SizesInv

\* Whatever vanishes, whatever the checksums and however sizes share keys, the table,
\* the heaps and the arrays agree.
THEOREM TableInvariant == Spec => [](SizesInv /\ RowsOK)
<1>1. Init => SizesInv /\ RowsOK
  BY SizesInvInit
<1>2. SizesInv /\ RowsOK /\ [Next]_vars => (SizesInv /\ RowsOK)'
  BY SizesInvStep
<1> QED
  BY <1>1, <1>2, PTL DEF Spec

\* Every file still to be handled has its entry in the size table, an entry counts its
\* files, and its array is never filled beyond its end (ft_conf_process_sizes writes
\* chksum_array[nb_checksumed] without a check).
THEOREM SizesAlwaysConsistent == Spec => []SizesConsistent
<1>1. SizesInv => SizesConsistent
  <2> SUFFICES ASSUME SizesInv
               PROVE  SizesConsistent
    OBVIOUS
  <2>1. TypeOK
    <3>1. LocalsOK /\ key \in DOMAIN sizes \cup {None} /\ heap \subseteq Files /\ tmp_heap \subseteq Files
      BY DEF SizesInv, HeapsInTable
    <3>2. DOMAIN sizes \subseteq 0..(KeyRange - 1) /\ \A k \in DOMAIN sizes : sizes[k] \in Entries
      BY DEF SizesInv, TableOK, EntryOK
    <3> HIDE DEF Slots
    <3> QED
      BY <3>1, <3>2 DEF TypeOK, LocalsOK, Entries
  <2>2. \A f \in heap \cup tmp_heap : FileKey(f) \in DOMAIN sizes
    BY DEF SizesInv, HeapsInTable
  <2>3. \A k \in DOMAIN sizes :
          /\ sizes[k].nb_checksumed <= sizes[k].nb_files
          /\ sizes[k].chksum_array # <<>> => Len(sizes[k].chksum_array) = sizes[k].nb_files
    BY DEF SizesInv, TableOK, EntryOK
  <2>4. \A k \in DOMAIN sizes :
          /\ phase = "checksum" => Cardinality(Pending(k)) + sizes[k].nb_checksumed <= sizes[k].nb_files
          /\ phase = "collect" => Cardinality(Pending(k)) = sizes[k].nb_files
    BY DEF SizesInv, CountsOK
  <2> QED
    BY <2>1, <2>2, <2>3, <2>4 DEF SizesConsistent, Pending, PendingIn
<1> QED
  BY <1>1, TableInvariant, PTL

--------------------------------------------------------------------------------
(* Temporary copies are removed. *)

\* The pair of slots at hand is a pair of slots of the array.
LEMMA MatchedPair ==
  ASSUME SizesInv, RowsOK, Matched
  PROVE  /\ phase = "report" /\ key # None
         /\ i \in DOMAIN array /\ j \in DOMAIN array
         /\ array[i].file \in Files \cup {Wild}
         /\ array[j].file \in Files \cup {Null, Wild}
<1>1. /\ key # None /\ phase = "report" /\ array[i].file # Null
      /\ i <= sizes[key].nb_files /\ j <= sizes[key].nb_files
  BY DEF Matched, InRow
<1>2. i \in Nat /\ j \in Nat /\ i >= 1 /\ j >= 1
  BY <1>1 DEF SizesInv, LocalsOK, RowsOK
<1>3. i \in DOMAIN array /\ j \in DOMAIN array
  BY <1>1, <1>2, ArrayAtHand DEF SizesInv
<1> QED
  BY <1>1, <1>3, ArrayAtHand DEF SizesInv

\* When a pair is at hand, the copies are those of its two files, the first one's first.
LEMMA CopiesOfPair ==
  ASSUME UNCHANGED <<sizes, key, i, j>>,
         phase' \in {"report", "failed", "null_read", "unwritten_read"},
         key # None, i \in DOMAIN array, j \in DOMAIN array,
         copies' # {} => /\ array[i].file \in Files
                         /\ copies' \subseteq {array[i].file, array[j].file}
                         /\ array[i].file \in Archived => array[i].file \in copies'
                         /\ phase' # "report" => copies' = {array[i].file}
  PROVE  CopiesInv'
BY DEF CopiesInv, HasPath, array

LEMMA CopiesInvStep ==
  ASSUME SizesInv, RowsOK, CopiesInv, [Next]_vars
  PROVE  CopiesInv'
<1>1. ASSUME copies' = {}
      PROVE  CopiesInv'
  BY <1>1 DEF CopiesInv
<1>2. CASE UNCHANGED vars
  BY <1>2 DEF vars, world, scan, CopiesInv, HasPath, array, FileKey, Size
<1>3. ASSUME NEW f \in Files, Vanish(f)
      PROVE  CopiesInv'
  BY <1>3 DEF Vanish, scan, CopiesInv, HasPath, array, FileKey, Size
<1>4. ASSUME copies = {}, copies' = copies
      PROVE  CopiesInv'
  BY <1>1, <1>4
<1>5. CASE EndCollect \/ EndReport \/ EndChecksum
            \/ \E f \in Files : AddFails(f) \/ AddFile(f) \/ NextSize(f) \/ NextSizeReadsNull(f) \/ SameSize(f)
  <2>1. copies' = copies /\ (phase = "collect" \/ (phase = "checksum" /\ heap = {}) \/ (phase = "report" /\ key = None))
    BY <1>5 DEF EndCollect, EndReport, EndChecksum, AddFails, AddFile, NextSize, NextSizeReadsNull, SameSize, NewSize
  <2>2. copies = {}
    BY <2>1 DEF CopiesInv
  <2> QED
    BY <1>4, <2>1, <2>2
<1>6. ASSUME NEW f \in Files, DropSingle(f) \/ KeepUnread(f) \/ UntarToChecksumFails(f)
      PROVE  CopiesInv'
  <2>1. copies' = copies /\ copies \subseteq {f} /\ phase = "checksum" /\ f \in heap
    BY <1>6 DEF DropSingle, KeepUnread, UntarToChecksumFails, ToChecksum, Chosen, Largest
  <2>2. f \notin copies
    <3>1. CASE DropSingle(f)
      BY <2>1, <3>1 DEF DropSingle, CopiesInv
    <3>2. CASE KeepUnread(f)
      BY <2>1, <3>2 DEF KeepUnread, CopiesInv
    <3>3. CASE UntarToChecksumFails(f)
      BY <3>3 DEF UntarToChecksumFails, UntarFails
    <3> QED
      BY <1>6, <3>1, <3>2, <3>3
  <2> QED
    BY <1>4, <2>1, <2>2
<1>7. ASSUME NEW f \in Files, UntarToChecksum(f)
      PROVE  CopiesInv'
  <2>1. /\ UNCHANGED <<content, heap, sizes>> /\ phase = "checksum" /\ phase' = phase /\ f \in heap
        /\ copies' = copies \cup {f} /\ sizes[FileKey(f)].nb_files > 1 /\ NeedsChecksum(sizes[FileKey(f)])
    BY <1>7 DEF UntarToChecksum, ToChecksum, Chosen, Largest, Untarred, world
  <2> QED
    BY <2>1 DEF CopiesInv, FileKey, Size
<1>8. CASE PrintTwin \/ SkipDifferent \/ \E f \in Files : Checksum(f) \/ ChecksumFails(f)
  BY <1>1, <1>8 DEF PrintTwin, SkipDifferent, Checksum, ChecksumFails, RemoveCopies
<1>9. CASE NextRow
  BY <1>4, <1>9 DEF NextRow
<1>10. CASE EndSize
  <2>1. copies' = copies /\ phase = "report" /\ key # None /\ i > sizes[key].nb_files
    BY <1>10 DEF EndSize
  <2>2. i \notin DOMAIN array
    BY <2>1, ArrayAtHand DEF SizesInv, LocalsOK
  <2>3. copies = {}
    BY <2>1, <2>2 DEF CopiesInv
  <2> QED
    BY <1>4, <2>1, <2>3
<1>11. CASE ReadUnwrittenRow \/ UntarRow \/ UntarRowFails
  <2>1. Matched /\ UNCHANGED <<sizes, key, i, j>>
    BY <1>11 DEF ReadUnwrittenRow, UntarRow, UntarRowFails, scan
  <2>2. copies = {}
    <3>1. array[i].file = Wild \/ array[i].file \in Archived \ copies
      BY <1>11 DEF ReadUnwrittenRow, UntarRow, UntarRowFails, Untarred, UntarFails
    <3> QED
      BY <2>1, <3>1, MatchedPair, TwinFinderAssumption DEF CopiesInv, HasPath
  <2>3. CASE UntarRow
    <3>1. copies' = {array[i].file} /\ array[i].file \in Files /\ phase' = phase
      BY <2>2, <2>3, TwinFinderAssumption DEF UntarRow, Untarred
    <3> QED
      BY <2>1, <3>1, MatchedPair, CopiesOfPair
  <2>4. CASE ReadUnwrittenRow \/ UntarRowFails
    BY <1>4, <2>2, <2>4 DEF ReadUnwrittenRow, UntarRowFails
  <2> QED
    BY <1>11, <2>3, <2>4
<1>12. CASE ReadMissingColumn \/ UntarColumn \/ UntarColumnFails
  <2>1. RowHasPath /\ UNCHANGED <<sizes, key, i, j>>
    BY <1>12 DEF ReadMissingColumn, UntarColumn, UntarColumnFails, scan
  <2>2. /\ phase = "report" /\ key # None /\ i \in DOMAIN array /\ j \in DOMAIN array
        /\ array[i].file \in Files /\ (array[i].file \in Archived => array[i].file \in copies)
    BY <2>1, MatchedPair DEF RowHasPath, HasPath
  <2>3. copies \subseteq {array[i].file, array[j].file} /\ copies \subseteq Archived
    BY <2>2 DEF CopiesInv, SizesInv, LocalsOK
  <2>4. CASE UntarColumn
    <3>1. copies' = copies \cup {array[j].file} /\ phase' = phase
      BY <2>4 DEF UntarColumn, Untarred
    <3> QED
      BY <2>1, <2>2, <2>3, <3>1, CopiesOfPair
  <2>5. CASE ReadMissingColumn \/ UntarColumnFails
    <3>1. /\ copies' = copies /\ phase' \in {"failed", "null_read", "unwritten_read"}
          /\ array[j].file \notin copies
      BY <2>3, <2>5, TwinFinderAssumption DEF ReadMissingColumn, UntarColumnFails, UntarFails
    <3> QED
      BY <2>1, <2>2, <2>3, <3>1, CopiesOfPair
  <2> QED
    BY <1>12, <2>4, <2>5
<1> QED
  BY <1>2, <1>3, <1>5, <1>6, <1>7, <1>8, <1>9, <1>10, <1>11, <1>12, StepKinds DEF Bystander

\* A copy that ft_untar_file makes of a member lives only while its file is checksummed or
\* its pair compared.  The only one that a run may leave in /tmp, and the code does leave it,
\* is that of the first file of a pair whose second could not be extracted, or was read
\* through a bad pointer.
THEOREM OnlyRowCopyLeft == Spec => []CopiesRemoved
<1>1. Init => CopiesInv
  BY DEF Init, CopiesInv
<1>2. SizesInv /\ RowsOK /\ CopiesInv /\ [Next]_vars => CopiesInv'
  BY CopiesInvStep
<1>3. CopiesInv => CopiesRemoved
  BY DEF CopiesInv, CopiesRemoved
<1> QED
  BY <1>1, <1>2, <1>3, TableInvariant, PTL DEF Spec

--------------------------------------------------------------------------------
(* Only duplicates are reported, and each once. *)

\* SlotsInv of the next state, with the keys of this one.
LEMMA SlotsFollow ==
  ASSUME content' = content,
         \A k \in DOMAIN sizes' :
           /\ \E c \in Contents : sizes'[k].val = SizeOf[c] /\ k = Key(SizeOf[c])
           /\ SlotsDistinct(sizes'[k].chksum_array)
           /\ \A m \in DOMAIN sizes'[k].chksum_array : sizes'[k].chksum_array[m].file \in Files =>
                /\ FileKey(sizes'[k].chksum_array[m].file) = k
                /\ phase' = "checksum" => sizes'[k].chksum_array[m].file \notin heap'
  PROVE  SlotsInv'
BY DEF SlotsInv, SlotsDistinct, FileKey, Size

\* What SlotsInv says of one entry.
SlotsOf(k, e) ==
  /\ \E c \in Contents : e.val = SizeOf[c] /\ k = Key(SizeOf[c])
  /\ SlotsDistinct(e.chksum_array)
  /\ \A m \in DOMAIN e.chksum_array : e.chksum_array[m].file \in Files => FileKey(e.chksum_array[m].file) = k

\* An entry is replaced, and its slots hold nothing of the heap.
LEMMA SlotsReplaced ==
  ASSUME SlotsInv, content' = content, NEW k \in DOMAIN sizes,
         DOMAIN sizes' = DOMAIN sizes, \A l \in DOMAIN sizes : l # k => sizes'[l] = sizes[l],
         SlotsOf(k, sizes'[k]), heap' \subseteq heap,
         phase' = "checksum" => phase = "checksum",
         phase' = "checksum" => \A m \in DOMAIN sizes'[k].chksum_array :
           sizes'[k].chksum_array[m].file \notin heap'
  PROVE  SlotsInv'
<1>1. ASSUME NEW l \in DOMAIN sizes'
      PROVE  /\ \E c \in Contents : sizes'[l].val = SizeOf[c] /\ l = Key(SizeOf[c])
             /\ SlotsDistinct(sizes'[l].chksum_array)
             /\ \A m \in DOMAIN sizes'[l].chksum_array : sizes'[l].chksum_array[m].file \in Files =>
                  /\ FileKey(sizes'[l].chksum_array[m].file) = l
                  /\ phase' = "checksum" => sizes'[l].chksum_array[m].file \notin heap'
  <2>1. CASE l = k
    BY <2>1 DEF SlotsOf
  <2>2. CASE l # k
    BY <1>1, <2>2 DEF SlotsInv
  <2> QED
    BY <2>1, <2>2
<1> QED
  BY <1>1, SlotsFollow

LEMMA SlotsInvStep ==
  ASSUME SizesInv, RowsOK, SlotsInv, [Next]_vars
  PROVE  SlotsInv'
<1>0. \A k \in DOMAIN sizes : SlotsOf(k, sizes[k])
  BY DEF SlotsInv, SlotsOf
<1>1. CASE Bystander \/ UNCHANGED vars
  <2>1. /\ content' = content /\ sizes' = sizes /\ heap' \subseteq heap
        /\ phase' = "checksum" => phase = "checksum" \/ phase = "collect"
    BY <1>1, BystanderStep
  <2>2. phase = "collect" => \A k \in DOMAIN sizes : sizes[k].chksum_array = <<>>
    BY DEF SizesInv, TableOK
  <2>3. ASSUME NEW k \in DOMAIN sizes', NEW m \in DOMAIN sizes'[k].chksum_array,
               sizes'[k].chksum_array[m].file \in Files, phase' = "checksum"
        PROVE  sizes'[k].chksum_array[m].file \notin heap'
    BY <2>1, <2>2, <2>3 DEF SlotsInv
  <2> QED
    BY <1>0, <2>1, <2>3, SlotsFollow DEF SlotsOf
<1>2. ASSUME NEW f \in Files, AddFile(f)
      PROVE  SlotsInv'
  <2> DEFINE l == FileKey(f)
             e == FsizeOf(l, Size(f))
             e2 == [e EXCEPT !.nb_files = @ + 1]
  <2>1. phase = "collect" /\ phase' = phase /\ content' = content /\ sizes' = SetSize(l, e2)
    BY <1>2 DEF AddFile, world
  <2>2. EntryOK(e) /\ e.chksum_array = <<>>
    BY <2>1, FsizeOfOK, FileKeyOK DEF SizesInv, LocalsOK, TableOK, FsizeOf
  <2>3. \E c \in Contents : e.val = SizeOf[c] /\ l = Key(SizeOf[c])
    <3>1. CASE l \in DOMAIN sizes
      BY <3>1 DEF SlotsInv, FsizeOf
    <3>2. CASE l \notin DOMAIN sizes
      <4>1. e.val = Size(f)
        BY <3>2 DEF FsizeOf
      <4> QED
        BY <4>1 DEF Size, FileKey, SizesInv, LocalsOK
    <3> QED
      BY <3>1, <3>2
  <2> HIDE DEF e
  <2>4. e2.val = e.val /\ e2.chksum_array = <<>>
    BY <2>2 DEF EntryOK, Entries
  <2> HIDE DEF e2, l
  <2>5. DOMAIN sizes' = DOMAIN sizes \cup {l} /\ sizes'[l] = e2 /\ \A k \in DOMAIN sizes : k # l => sizes'[k] = sizes[k]
    BY <2>1, EntrySet
  <2>6. \A k \in DOMAIN sizes : sizes[k].chksum_array = <<>>
    BY <2>1 DEF SizesInv, TableOK
  <2>7. \A k \in DOMAIN sizes' :
          /\ \E c \in Contents : sizes'[k].val = SizeOf[c] /\ k = Key(SizeOf[c])
          /\ sizes'[k].chksum_array = <<>>
    BY <2>3, <2>4, <2>5, <2>6 DEF SlotsInv
  <2>8. DOMAIN <<>> = {}
    OBVIOUS
  <2> QED
    BY <2>1, <2>7, <2>8, SlotsFollow DEF SlotsDistinct
<1>3. ASSUME NEW f \in Files, DropSingle(f)
      PROVE  SlotsInv'
  <2>1. /\ content' = content /\ heap' \subseteq heap /\ phase' = phase
        /\ DOMAIN sizes' \subseteq DOMAIN sizes /\ \A k \in DOMAIN sizes' : sizes'[k] = sizes[k]
    BY <1>3 DEF DropSingle, world
  <2> QED
    BY <2>1, SlotsFollow DEF SlotsInv
<1>4. ASSUME NEW f \in Files, KeepUnread(f) \/ Checksum(f) \/ ChecksumFails(f)
      PROVE  SlotsInv'
  <2>1. phase = "checksum" /\ phase' = phase /\ f \in heap /\ content' = content
    BY <1>4, HandledFills DEF SizesInv
  <2>2. PICK chk \in {Unread, Wild, HashOf[content[f]]}, st \in {"ok", "error"} : FillSlot(f, chk, st)
    BY <1>4, HandledFills DEF Fills, SizesInv
  <2> DEFINE k == FileKey(f)
             a == sizes[k].chksum_array
             b == sizes'[k].chksum_array
             x == sizes[k].nb_checksumed + 1
             al == Allocated(sizes[k])
  <2>3. k = FileKey(f)
    OBVIOUS
  <2> HIDE DEF k
  <2>4. /\ k \in DOMAIN sizes /\ DOMAIN sizes' = DOMAIN sizes
        /\ \A l \in DOMAIN sizes : l # k => sizes'[l] = sizes[l]
        /\ sizes'[k].val = sizes[k].val
        /\ DOMAIN b = 1..sizes[k].nb_files /\ DOMAIN al = 1..sizes[k].nb_files
        /\ b[x].file = f
        /\ \A n \in 1..sizes[k].nb_files : n # x => b[n] = al[n]
        /\ heap' = heap \ {f}
    BY <2>1, <2>2, <2>3, HandledEntry
  <2>5. \A n \in DOMAIN al : al[n].file \in Files => n \in DOMAIN a /\ a[n] = al[n]
    <3>1. CASE a = <<>>
      BY <2>4, <3>1, TwinFinderAssumption DEF Allocated, WildSlot
    <3>2. CASE a # <<>>
      BY <3>2 DEF Allocated
    <3> QED
      BY <3>1, <3>2
  <2>6. \A n \in DOMAIN a : a[n].file \in Files => FileKey(a[n].file) = k /\ a[n].file \notin heap
    BY <2>1, <2>4 DEF SlotsInv
  <2>7. SlotsDistinct(a) /\ \E c \in Contents : sizes[k].val = SizeOf[c] /\ k = Key(SizeOf[c])
    BY <2>4 DEF SlotsInv
  <2>8. \A n \in DOMAIN b : b[n].file \in Files =>
          (n = x /\ b[n].file = f) \/ (n # x /\ n \in DOMAIN a /\ b[n] = a[n] /\ a[n].file \notin heap)
    BY <2>4, <2>5, <2>6
  <2> HIDE DEF a, b, x, al
  <2>9. SlotsDistinct(b)
    BY <2>1, <2>7, <2>8 DEF SlotsDistinct
  <2>10. \A n \in DOMAIN b : b[n].file \in Files => FileKey(b[n].file) = k /\ b[n].file \notin heap'
    BY <2>3, <2>4, <2>6, <2>8
  <2>11. SlotsOf(k, sizes'[k])
    BY <2>4, <2>7, <2>9, <2>10 DEF SlotsOf, b
  <2>12. \A n \in DOMAIN sizes'[k].chksum_array : sizes'[k].chksum_array[n].file \notin heap'
    BY <2>4, <2>10 DEF b, SizesInv, HeapsInTable
  <2> QED
    BY <2>1, <2>4, <2>11, <2>12, SlotsReplaced
<1>5. ASSUME NEW f \in Files, NextSize(f)
      PROVE  SlotsInv'
  <2> DEFINE k == FileKey(f)
             a == sizes[k].chksum_array
             n == chksum_array_sz(sizes[k])
  <2>1. PICK b \in SortedForms(a, n) : sizes' = [sizes EXCEPT ![k] = [sizes[k] EXCEPT !.chksum_array = b]]
    BY <1>5 DEF NextSize
  <2>2. f \in heap /\ phase = "report" /\ phase' = phase /\ content' = content /\ heap' \subseteq heap
    BY <1>5 DEF NextSize, NewSize, Largest, Extracted, world
  <2>3. k \in DOMAIN sizes /\ EntryOK(sizes[k]) /\ a # <<>>
    BY <2>2 DEF SizesInv, TableOK, HeapsInTable, EntryOK
  <2>4. a \in Seq(Slots) /\ n \in 0..Len(a)
    BY <2>3 DEF EntryOK, Entries, chksum_array_sz
  <2>5. /\ b \in Seq(Slots) /\ Len(b) = Len(a) /\ DOMAIN b = DOMAIN a
        /\ \E p \in [DOMAIN a -> DOMAIN a] :
             /\ \A x, y \in DOMAIN a : p[x] = p[y] => x = y
             /\ \A x \in DOMAIN a : b[x] = a[p[x]]
    <3> HIDE DEF a, n
    <3>1. a \in Seq(Slots) /\ n \in 0..Len(a) /\ b \in SortedForms(a, n)
      BY <2>4
    <3> HIDE DEF Slots
    <3> QED
      BY <3>1, SortedFormsOK, ZenonT(30)
  <2>6. SlotsDistinct(a) /\ \A m \in DOMAIN a : a[m].file \in Files => FileKey(a[m].file) = k
    BY <1>0, <2>3 DEF SlotsOf
  <2>7. SlotsDistinct(b) /\ \A m \in DOMAIN b : b[m].file \in Files => FileKey(b[m].file) = k
    <3> HIDE DEF a, n, k
    <3>1. PICK p \in [DOMAIN a -> DOMAIN a] : /\ \A x, y \in DOMAIN a : p[x] = p[y] => x = y
                                             /\ \A x \in DOMAIN a : b[x] = a[p[x]]
      BY <2>5
    <3>2. SlotsDistinct(b)
      <4>1. ASSUME NEW x \in DOMAIN b, NEW y \in DOMAIN b, b[x].file \in Files, b[x].file = b[y].file
            PROVE  x = y
        <5>1. p[x] \in DOMAIN a /\ p[y] \in DOMAIN a /\ b[x] = a[p[x]] /\ b[y] = a[p[y]]
          BY <2>5, <3>1, <4>1
        <5>2. p[x] = p[y]
          BY <2>6, <4>1, <5>1 DEF SlotsDistinct
        <5> QED
          BY <2>5, <3>1, <5>2
      <4> QED
        BY <4>1 DEF SlotsDistinct
    <3> QED
      BY <2>5, <2>6, <3>1, <3>2
  <2> DEFINE e == [sizes[k] EXCEPT !.chksum_array = b]
  <2>8. e.chksum_array = b /\ e.val = sizes[k].val
    BY <2>3, <2>5, ArrayReplaced
  <2> HIDE DEF k, a, n, e
  <2>9. DOMAIN sizes' = DOMAIN sizes /\ sizes'[k] = e /\ \A l \in DOMAIN sizes : l # k => sizes'[l] = sizes[l]
    BY <2>1, <2>3, EntryReplaced DEF e
  <2>10. SlotsOf(k, sizes'[k])
    BY <1>0, <2>3, <2>7, <2>8, <2>9 DEF SlotsOf
  <2> QED
    BY <2>2, <2>3, <2>9, <2>10, SlotsReplaced
<1>6. CASE EndChecksum
  BY <1>0, <1>6, SlotsFollow DEF EndChecksum, world, SlotsOf
<1>7. CASE PrintTwin
  <2> DEFINE e == [sizes[key] EXCEPT !.chksum_array = MarkedArray]
  <2>1. /\ key \in DOMAIN sizes /\ j \in DOMAIN array
        /\ sizes' = [sizes EXCEPT ![key] = e]
        /\ MarkedArray \in Seq(Slots) /\ Len(MarkedArray) = Len(sizes[key].chksum_array)
    BY <1>7, MarkedReplaces DEF array, SizesInv
  <2>2. EntryOK(sizes[key])
    BY <2>1 DEF SizesInv, TableOK
  <2>3. e.chksum_array = MarkedArray /\ e.val = sizes[key].val
    BY <2>1, <2>2, ArrayReplaced
  <2>4. /\ DOMAIN MarkedArray = DOMAIN array
        /\ \A n \in DOMAIN array : MarkedArray[n] = array[n] \/ MarkedArray[n].file = Null
    BY DEF MarkedArray
  <2>5. SlotsDistinct(array) /\ \A m \in DOMAIN array : array[m].file \in Files => FileKey(array[m].file) = key
    BY <1>0, <2>1 DEF SlotsOf, array
  <2>6. SlotsDistinct(MarkedArray) /\ \A m \in DOMAIN MarkedArray : MarkedArray[m].file \in Files => FileKey(MarkedArray[m].file) = key
    BY <2>4, <2>5, TwinFinderAssumption DEF SlotsDistinct
  <2> HIDE DEF e
  <2>7. DOMAIN sizes' = DOMAIN sizes /\ sizes'[key] = e /\ \A l \in DOMAIN sizes : l # key => sizes'[l] = sizes[l]
    BY <2>1, EntryReplaced
  <2>8. SlotsOf(key, sizes'[key])
    BY <1>0, <2>1, <2>3, <2>6, <2>7 DEF SlotsOf
  <2>9. content' = content /\ heap' = heap /\ phase' = "report"
    BY <1>7 DEF PrintTwin, Comparable, RowHasPath, Matched, InRow, world
  <2> QED
    BY <2>1, <2>7, <2>8, <2>9, SlotsReplaced
<1> QED
  BY <1>1, <1>2, <1>3, <1>4, <1>5, <1>6, <1>7, StepKinds

\* The files in the slots of the array at hand are of the size that is reported.
LEMMA SlotsOfSize ==
  ASSUME SizesApart, SizesInv, SlotsInv, ReportInv, phase = "report", key # None,
         NEW n \in DOMAIN array, array[n].file \in Files
  PROVE  /\ Size(array[n].file) = old_size /\ old_size \in Nat
         /\ sizes[key].val = old_size
<1> DEFINE f == array[n].file
<1>1. key \in DOMAIN sizes
  BY ArrayAtHand DEF SizesInv
<1>2. FileKey(f) = key
  BY <1>1 DEF SlotsInv, array
<1>3. f \in Files /\ content[f] \in Contents
  BY DEF SizesInv, LocalsOK
<1>4. PICK c \in Contents : old_size = SizeOf[c] /\ key = Key(SizeOf[c])
  BY DEF ReportInv
<1>5. PICK d \in Contents : sizes[key].val = SizeOf[d] /\ key = Key(SizeOf[d])
  BY <1>1 DEF SlotsInv
<1> HIDE DEF f
<1>6. SizeOf[content[f]] = SizeOf[c] /\ SizeOf[d] = SizeOf[c]
  BY <1>2, <1>3, <1>4, <1>5 DEF SizesApart, FileKey, Size
<1>7. SizeOf[c] \in Nat
  BY TwinFinderAssumption
<1> QED
  BY <1>4, <1>5, <1>6, <1>7 DEF Size, f

GroupsTyped == groups \in Seq(Seq(Files))

\* What a twin's printing makes of the groups: the last one goes on, ...
LEMMA GroupGoesOn ==
  ASSUME GroupsTyped, NEW f \in Files, NEW g \in Files,
         already_printed, groups # <<>>, groups' = Printed(f, g), NEW L, L = Len(groups)
  PROVE  /\ L \in Nat /\ DOMAIN groups = 1..L /\ DOMAIN groups' = 1..L /\ L \in 1..L /\ Len(groups') = L
         /\ \A n \in 1..L : n # L => groups'[n] = groups[n]
         /\ groups[L] \in Seq(Files)
         /\ DOMAIN groups[L] = 1..Len(groups[L]) /\ Len(groups[L]) \in Nat
         /\ DOMAIN groups'[L] = 1..(Len(groups[L]) + 1) /\ Len(groups'[L]) = Len(groups[L]) + 1
         /\ \A x \in DOMAIN groups[L] : groups'[L][x] = groups[L][x]
         /\ groups'[L][Len(groups[L]) + 1] = g
<1> USE DEF GroupsTyped
<1>1. L \in Nat /\ DOMAIN groups = 1..L
  OBVIOUS
<1>2. groups' = [groups EXCEPT ![L] = Append(@, g)]
  BY DEF Printed
<1>3. L \in 1..L
  BY <1>1, EmptySeq
<1>4. DOMAIN groups' = 1..L /\ (\A n \in 1..L : n # L => groups'[n] = groups[n]) /\ groups'[L] = Append(groups[L], g)
  BY <1>1, <1>2, <1>3
<1>5. Len(groups') = L
  BY <1>1, <1>2
<1>6. groups[L] \in Seq(Files)
  BY <1>1, <1>3
<1> DEFINE s == groups[L]
<1>7. s \in Seq(Files) /\ groups'[L] = Append(s, g)
  BY <1>4, <1>6
<1> HIDE DEF s
<1>8. DOMAIN s = 1..Len(s) /\ Len(s) \in Nat
  BY <1>7
<1>9. /\ DOMAIN groups'[L] = 1..(Len(s) + 1) /\ Len(groups'[L]) = Len(s) + 1
      /\ \A x \in DOMAIN s : groups'[L][x] = s[x]
      /\ groups'[L][Len(s) + 1] = g
  BY <1>7, <1>8
<1> QED
  BY <1>1, <1>3, <1>4, <1>5, <1>7, <1>8, <1>9 DEF s

\* ... or a new one begins.
LEMMA GroupBegins ==
  ASSUME GroupsTyped, NEW f \in Files, NEW g \in Files,
         ~already_printed, groups' = Printed(f, g), NEW L, L = Len(groups)
  PROVE  /\ L \in Nat /\ DOMAIN groups = 1..L /\ DOMAIN groups' = 1..(L + 1) /\ Len(groups') = L + 1
         /\ \A n \in 1..L : groups'[n] = groups[n]
         /\ groups'[L + 1] = <<f, g>>
<1> USE DEF GroupsTyped
<1>1. L \in Nat /\ DOMAIN groups = 1..L
  OBVIOUS
<1>2. groups' = Append(groups, <<f, g>>)
  BY DEF Printed
<1>3. <<f, g>> \in Seq(Files)
  OBVIOUS
<1>4. DOMAIN groups' = 1..(L + 1) /\ (\A n \in 1..L : groups'[n] = groups[n]) /\ groups'[L + 1] = <<f, g>> /\ Len(groups') = L + 1
  BY <1>1, <1>2, <1>3
<1> QED
  BY <1>1, <1>4

\* It reports no more than the two files.
LEMMA PrintedReports ==
  ASSUME GroupsTyped, NEW f \in Files, NEW g \in Files,
         already_printed => groups # <<>>, groups' = Printed(f, g), NEW h, IsReported(groups', h)
  PROVE  IsReported(groups, h) \/ h = f \/ h = g
<1> DEFINE L == Len(groups)
<1>4. L = Len(groups)
  OBVIOUS
<1> HIDE DEF L
<1>0. PICK n \in DOMAIN groups' : \E x \in DOMAIN groups'[n] : groups'[n][x] = h
  BY DEF IsReported
<1>1. PICK x \in DOMAIN groups'[n] : groups'[n][x] = h
  BY <1>0
<1>2. CASE already_printed
  <2>1. /\ L \in Nat /\ DOMAIN groups = 1..L /\ DOMAIN groups' = 1..L /\ L \in 1..L
        /\ \A m \in 1..L : m # L => groups'[m] = groups[m]
        /\ DOMAIN groups[L] = 1..Len(groups[L]) /\ Len(groups[L]) \in Nat
        /\ DOMAIN groups'[L] = 1..(Len(groups[L]) + 1)
        /\ \A y \in DOMAIN groups[L] : groups'[L][y] = groups[L][y]
        /\ groups'[L][Len(groups[L]) + 1] = g
    <3>1. already_printed /\ groups # <<>>
      BY <1>2
    <3> QED
      BY <1>4, <3>1, GroupGoesOn
  <2>2. CASE n # L
    BY <1>1, <2>1, <2>2 DEF IsReported
  <2>3. CASE n = L /\ x # Len(groups[L]) + 1
    <3>1. x \in DOMAIN groups[L]
      BY <1>1, <2>1, <2>3
    <3> QED
      BY <1>1, <2>1, <2>3, <3>1 DEF IsReported
  <2>4. CASE n = L /\ x = Len(groups[L]) + 1
    BY <1>1, <2>1, <2>4
  <2> QED
    BY <2>2, <2>3, <2>4
<1>3. CASE ~already_printed
  <2>1. /\ L \in Nat /\ DOMAIN groups = 1..L /\ DOMAIN groups' = 1..(L + 1)
        /\ \A m \in 1..L : groups'[m] = groups[m]
        /\ groups'[L + 1] = <<f, g>>
    BY <1>3, <1>4, GroupBegins, SMTT(20)
  <2>2. CASE n # L + 1
    BY <1>1, <2>1, <2>2 DEF IsReported
  <2>3. CASE n = L + 1
    BY <1>1, <2>1, <2>3
  <2> QED
    BY <2>2, <2>3
<1> QED
  BY <1>2, <1>3

\* ReportInv of the next state, with the sizes of this one.
LEMMA ReportFollows ==
  ASSUME content' = content,
         phase' \in {"collect", "checksum"} => groups' = <<>> /\ old_size' = -1,
         \A f \in Files : IsReported(groups', f) => Size(f) >= old_size' /\ old_size' # -1,
         phase' = "report" /\ old_size' # -1 => \A f \in heap' : Size(f) <= old_size',
         phase' = "report" /\ key' # None =>
           /\ \E c \in Contents : old_size' = SizeOf[c] /\ key' = Key(SizeOf[c])
           /\ \A n \in DOMAIN array' : array'[n].file \in Files /\ IsReported(groups', array'[n].file) =>
                n < i' \/ (n = i' /\ already_printed')
           /\ already_printed' => groups' # <<>> /\ i' \in DOMAIN array' /\ array'[i'].file = groups'[Len(groups')][1]
  PROVE  ReportInv'
BY DEF ReportInv, IsReported, Size, array

\* Of the two files compared the second is in no group yet, and the first at most in the
\* one that it has begun.
LEMMA PairOfSize ==
  ASSUME SizesApart, SizesInv, RowsOK, SlotsInv, ReportInv, Comparable,
         NEW f, f = array[i].file, NEW g, g = array[j].file
  PROVE  /\ phase = "report" /\ key # None /\ i \in DOMAIN array /\ j \in DOMAIN array /\ i < j
         /\ f \in Files /\ g \in Files /\ f # g
         /\ Size(f) = old_size /\ Size(g) = old_size /\ sizes[key].val = old_size
         /\ ~IsReported(groups, g)
         /\ ~already_printed => ~IsReported(groups, f)
<1>1. /\ phase = "report" /\ key # None /\ i \in DOMAIN array /\ j \in DOMAIN array
      /\ f \in Files /\ g \in Files
  BY ComparableIsPair DEF SizesInv
<1>2. i < j /\ i \in Nat /\ j \in Nat
  BY <1>1 DEF RowsOK, SizesInv, LocalsOK
<1>3. f # g
  <2>1. key \in DOMAIN sizes
    BY <1>1, ArrayAtHand DEF SizesInv
  <2>2. SlotsDistinct(array)
    BY <2>1 DEF SlotsInv, array
  <2> QED
    BY <1>1, <1>2, <2>2 DEF SlotsDistinct
<1>4. Size(f) = old_size /\ Size(g) = old_size /\ sizes[key].val = old_size
  BY <1>1, SlotsOfSize
<1>5. /\ IsReported(groups, g) => j < i \/ (j = i /\ already_printed)
      /\ IsReported(groups, f) => i < i \/ (i = i /\ already_printed)
  BY <1>1 DEF ReportInv
<1> QED
  BY <1>1, <1>2, <1>3, <1>4, <1>5

LEMMA ReportInvStep ==
  ASSUME SizesApart, SizesInv, RowsOK, SlotsInv, ReportInv, PrintedOnce, [Next]_vars
  PROVE  ReportInv'
<1>0. /\ phase \in {"collect", "checksum"} => groups = <<>> /\ old_size = -1
      /\ \A f \in Files : IsReported(groups, f) => Size(f) >= old_size /\ old_size # -1
      /\ phase = "report" /\ old_size # -1 => \A f \in heap : Size(f) <= old_size
      /\ phase = "report" /\ key # None =>
           /\ \E c \in Contents : old_size = SizeOf[c] /\ key = Key(SizeOf[c])
           /\ \A n \in DOMAIN array : array[n].file \in Files /\ IsReported(groups, array[n].file) =>
                n < i \/ (n = i /\ already_printed)
           /\ already_printed => groups # <<>> /\ i \in DOMAIN array /\ array[i].file = groups[Len(groups)][1]
      /\ phase \in {"collect", "checksum"} => key = None
      /\ i \in Nat /\ j \in Nat /\ (old_size \in Nat \/ old_size = -1)
      /\ heap \subseteq Files
  BY DEF ReportInv, SizesInv, HeapsInTable, LocalsOK
<1>1. ASSUME UNCHANGED <<content, sizes, key, old_size, groups, i, already_printed>>, heap' \subseteq heap,
             phase' = phase \/ phase' \notin {"collect", "checksum", "report"}
      PROVE  ReportInv'
  <2>1. array' = array
    BY <1>1 DEF array
  <2> QED
    BY <1>0, <1>1, <2>1, ReportFollows
<1>2. ASSUME UNCHANGED <<content, old_size, groups>>, phase \in {"collect", "checksum"}, key' = key
      PROVE  ReportInv'
  <2>1. \A f : ~IsReported(groups', f)
    BY <1>0, <1>2 DEF IsReported
  <2> QED
    BY <1>0, <1>2, <2>1, ReportFollows
<1>3. CASE UNCHANGED vars
  BY <1>1, <1>3 DEF vars, world, scan
<1>4. ASSUME NEW f \in Files, Vanish(f)
      PROVE  ReportInv'
  BY <1>1, <1>4 DEF Vanish, scan
<1>5. CASE \/ EndCollect \/ EndChecksum
           \/ \E f \in Files : \/ AddFile(f) \/ AddFails(f) \/ DropSingle(f) \/ KeepUnread(f) \/ UntarToChecksum(f)
                               \/ UntarToChecksumFails(f) \/ Checksum(f) \/ ChecksumFails(f)
  BY <1>2, <1>5 DEF EndCollect, EndChecksum, AddFile, AddFails, DropSingle, KeepUnread, UntarToChecksum,
                    UntarToChecksumFails, Checksum, ChecksumFails, ToChecksum, Chosen, scan, world
<1>6. CASE \/ ReadUnwrittenRow \/ UntarRow \/ UntarRowFails \/ ReadMissingColumn \/ UntarColumn
           \/ UntarColumnFails \/ EndReport \/ SkipDifferent
           \/ \E f \in Files : SameSize(f)
  BY <1>1, <1>6 DEF ReadUnwrittenRow, UntarRow, UntarRowFails, ReadMissingColumn, UntarColumn, UntarColumnFails,
                    UntarFails, EndReport, SkipDifferent, SameSize, Extracted, scan, world
<1>7. CASE EndSize
  <2>1. UNCHANGED <<content, sizes, old_size, groups, heap, phase>> /\ key' = None /\ phase = "report"
    BY <1>7 DEF EndSize, world
  <2> QED
    BY <1>0, <2>1, ReportFollows
<1>8. CASE NextRow
  <2>1. /\ UNCHANGED <<content, sizes, old_size, groups, heap, phase, key>> /\ phase = "report" /\ key # None
        /\ i' = i + 1 /\ ~already_printed'
    BY <1>8 DEF NextRow, world
  <2>2. array' = array
    BY <2>1 DEF array
  <2>3. DOMAIN array \subseteq Nat
    BY <2>1, ArrayAtHand DEF SizesInv
  <2>4. \A n \in DOMAIN array : array[n].file \in Files /\ IsReported(groups, array[n].file) => n < i'
    BY <1>0, <2>1, <2>3
  <2> QED
    BY <1>0, <2>1, <2>2, <2>4, ReportFollows
<1>9. ASSUME NEW f \in Files, NewSize(f), content' = content
      PROVE  /\ \A g \in Files : IsReported(groups, g) => Size(g) > old_size'
             /\ old_size' # -1 /\ old_size' = SizeOf[content[f]] /\ content[f] \in Contents
             /\ phase = "report" /\ \A g \in heap' : Size(g) <= old_size'
             /\ f \in heap
  <2>1. /\ phase = "report" /\ f \in heap /\ \A g \in heap : Size(g) <= Size(f)
        /\ Size(f) # old_size /\ old_size' = Size(f) /\ heap' \subseteq heap
    BY <1>9 DEF NewSize, Largest, Extracted
  <2>2. \A g \in Files : Size(g) \in Nat
    BY FileKeyOK DEF SizesInv, LocalsOK
  <2>3. old_size # -1 => Size(f) < old_size
    BY <1>0, <2>1, <2>2
  <2>4. content[f] \in Contents
    BY DEF SizesInv, LocalsOK
  <2> QED
    BY <1>0, <2>1, <2>2, <2>3, <2>4 DEF Size
<1>10. ASSUME NEW f \in Files, NextSizeReadsNull(f)
       PROVE  ReportInv'
  <2>1. NewSize(f) /\ UNCHANGED <<content, groups>> /\ phase' = "null_read"
    BY <1>10 DEF NextSizeReadsNull, world
  <2>2. \A g \in Files : IsReported(groups, g) => Size(g) >= old_size' /\ old_size' # -1
    <3>1. \A g \in Files : Size(g) \in Nat
      BY FileKeyOK DEF SizesInv, LocalsOK
    <3>2. old_size' = Size(f)
      BY <2>1 DEF NewSize
    <3> QED
      BY <1>9, <2>1, <3>1, <3>2
  <2> QED
    BY <2>1, <2>2, ReportFollows
<1>11. ASSUME NEW f \in Files, NextSize(f)
       PROVE  ReportInv'
  <2>1. NewSize(f) /\ UNCHANGED <<content, groups, phase>> /\ key' = FileKey(f) /\ ~already_printed'
    BY <1>11 DEF NextSize, world
  <2>2. /\ \A g \in Files : IsReported(groups, g) => Size(g) > old_size'
        /\ old_size' # -1 /\ old_size' = SizeOf[content[f]] /\ content[f] \in Contents
        /\ phase = "report" /\ \A g \in heap' : Size(g) <= old_size'
    BY <1>9, <2>1
  <2>3. \A g \in Files : Size(g) \in Nat
    BY FileKeyOK DEF SizesInv, LocalsOK
  <2>4. old_size' \in Nat /\ key' = Key(SizeOf[content[f]])
    BY <2>1, <2>2, TwinFinderAssumption DEF FileKey, Size
  <2>5. key' # None
    BY <2>2, <2>4, KeyIsLowWord
  <2>6. SlotsInv' /\ HeapsInTable'
    BY SlotsInvStep, SizesInvStep DEF SizesInv
  <2>7. key' \in DOMAIN sizes'
    BY <2>5, <2>6 DEF HeapsInTable
  <2>8. \A n \in DOMAIN array' : array'[n].file \in Files => FileKey(array'[n].file) = key'
    BY <2>1, <2>6, <2>7 DEF SlotsInv, array, FileKey, Size
  <2>9. \A n \in DOMAIN array' : array'[n].file \in Files => ~IsReported(groups', array'[n].file)
    <3> SUFFICES ASSUME NEW n \in DOMAIN array', array'[n].file \in Files
                 PROVE  ~IsReported(groups, array'[n].file)
      BY <2>1
    <3> DEFINE g == array'[n].file
    <3>1. Key(SizeOf[content[g]]) = Key(SizeOf[content[f]]) /\ g \in Files /\ content[g] \in Contents
      BY <2>4, <2>8 DEF FileKey, Size, SizesInv, LocalsOK
    <3> HIDE DEF g
    <3>2. Size(g) = old_size'
      BY <2>2, <3>1 DEF SizesApart, Size
    <3>3. ~IsReported(groups, g)
      BY <2>2, <2>4, <3>1, <3>2
    <3> QED
      BY <3>3 DEF g
  <2>10. \A g \in Files : IsReported(groups', g) => Size(g) >= old_size' /\ old_size' # -1
    BY <2>1, <2>2, <2>3, <2>4
  <2> QED
    BY <2>1, <2>2, <2>4, <2>9, <2>10, ReportFollows
<1>12. CASE PrintTwin
  <2> DEFINE f == array[i].file
             g == array[j].file
  <2>1. /\ groups' = Printed(f, g) /\ already_printed'
        /\ UNCHANGED <<content, phase, heap, old_size, key, i>>
    BY <1>12 DEF PrintTwin, world
  <2>2. /\ phase = "report" /\ key # None /\ i \in DOMAIN array /\ j \in DOMAIN array /\ i < j
        /\ f \in Files /\ g \in Files /\ f # g
        /\ Size(f) = old_size /\ Size(g) = old_size
    BY <1>12, PairOfSize DEF PrintTwin
  <2>3. old_size \in Nat
    BY <2>2, FileKeyOK DEF SizesInv, LocalsOK
  <2>4. array' = MarkedArray /\ SlotsDistinct(array) /\ DOMAIN array \subseteq Nat
    <3>1. /\ key \in DOMAIN sizes /\ MarkedArray \in Seq(Slots) /\ Len(MarkedArray) = Len(array)
          /\ sizes' = [sizes EXCEPT ![key] = [sizes[key] EXCEPT !.chksum_array = MarkedArray]]
      BY <1>12, MarkedReplaces DEF SizesInv
    <3>2. EntryOK(sizes[key])
      BY <3>1 DEF SizesInv, TableOK
    <3>3. [sizes[key] EXCEPT !.chksum_array = MarkedArray].chksum_array = MarkedArray
      BY <3>1, <3>2, ArrayReplaced DEF array
    <3>4. sizes'[key] = [sizes[key] EXCEPT !.chksum_array = MarkedArray]
      BY <3>1
    <3>5. array' = MarkedArray
      BY <2>1, <3>3, <3>4 DEF array
    <3> QED
      BY <2>2, <3>1, <3>5, ArrayAtHand DEF SlotsInv, array, SizesInv
  <2>5. GroupsTyped /\ (already_printed => groups # <<>>)
    BY <1>0, <2>2 DEF SizesInv, LocalsOK, GroupsTyped
  <2>6. /\ DOMAIN array' = DOMAIN array /\ array'[j].file = Null
        /\ \A n \in DOMAIN array : n # j => array'[n] = array[n]
    BY <2>2, <2>4 DEF MarkedArray
  <2>7. \A h : IsReported(groups', h) => IsReported(groups, h) \/ h = f \/ h = g
    <3> HIDE DEF f, g
    <3> QED
      BY <2>1, <2>2, <2>5, PrintedReports
  <2>8. \A h \in Files : IsReported(groups', h) => Size(h) >= old_size /\ old_size # -1
    BY <1>0, <2>2, <2>3, <2>7
  <2>9. \A n \in DOMAIN array' : array'[n].file \in Files /\ IsReported(groups', array'[n].file) => n <= i
    <3> SUFFICES ASSUME NEW n \in DOMAIN array', array'[n].file \in Files, IsReported(groups', array'[n].file)
                 PROVE  n <= i
      OBVIOUS
    <3>1. n # j /\ array'[n] = array[n] /\ n \in DOMAIN array /\ n \in Nat
      BY <2>4, <2>6, TwinFinderAssumption
    <3>2. CASE IsReported(groups, array[n].file)
      BY <1>0, <2>2, <3>1, <3>2
    <3>3. CASE array[n].file = f
      BY <1>0, <2>2, <2>4, <3>1, <3>3 DEF SlotsDistinct
    <3>4. CASE array[n].file = g
      BY <2>2, <2>4, <3>1, <3>4 DEF SlotsDistinct
    <3> QED
      BY <2>7, <3>1, <3>2, <3>3, <3>4
  <2>10. groups' # <<>> /\ groups'[Len(groups')][1] = f
    <3> DEFINE L == Len(groups)
    <3>1. L = Len(groups)
      OBVIOUS
    <3>4. groups'= <<>> => Len(groups') = 0
      OBVIOUS
    <3> HIDE DEF L, f, g
    <3>2. CASE already_printed
      <4>1. /\ L \in 1..L /\ L \in Nat /\ Len(groups') = L /\ DOMAIN groups = 1..L
            /\ DOMAIN groups[L] = 1..Len(groups[L])
            /\ \A x \in DOMAIN groups[L] : groups'[L][x] = groups[L][x]
        BY <2>1, <2>2, <2>5, <3>1, <3>2, GroupGoesOn
      <4>2. Len(groups[L]) >= 2
        BY <4>1 DEF PrintedOnce
      <4>3. groups[L][1] = f
        BY <1>0, <2>2, <3>1, <3>2 DEF f
      <4> QED
        BY <3>4, <4>1, <4>2, <4>3
    <3>3. CASE ~already_printed
      <4>1. L \in Nat /\ Len(groups') = L + 1 /\ groups'[L + 1] = <<f, g>>
        BY <2>1, <2>2, <2>5, <3>1, <3>3, GroupBegins
      <4> QED
        BY <3>4, <4>1
    <3> QED
      BY <3>2, <3>3
  <2>11. i' \in DOMAIN array' /\ array'[i'].file = f
    BY <2>1, <2>2, <2>6
  <2>12. \A n \in DOMAIN array' : array'[n].file \in Files /\ IsReported(groups', array'[n].file) =>
           n < i' \/ (n = i' /\ already_printed')
    BY <1>0, <2>1, <2>4, <2>6, <2>9
  <2> HIDE DEF f, g
  <2> QED
    BY <1>0, <2>1, <2>2, <2>8, <2>10, <2>11, <2>12, ReportFollows
<1> QED
  BY <1>3, <1>4, <1>5, <1>6, <1>7, <1>8, <1>10, <1>11, <1>12, StepKinds DEF Bystander

LEMMA GroupsChange ==
  ASSUME [Next]_vars
  PROVE  content' = content /\ (groups' = groups \/ PrintTwin)
<1>1. CASE Bystander \/ UNCHANGED vars
  BY <1>1, BystanderStep
<1>2. ASSUME NEW f \in Files,
             AddFile(f) \/ DropSingle(f) \/ KeepUnread(f) \/ Checksum(f) \/ ChecksumFails(f) \/ NextSize(f)
      PROVE  content' = content /\ groups' = groups
  BY <1>2 DEF AddFile, DropSingle, KeepUnread, Checksum, ChecksumFails, NextSize, world
<1>3. CASE EndChecksum
  BY <1>3 DEF EndChecksum, world
<1>4. CASE PrintTwin
  BY <1>4 DEF PrintTwin, world
<1> QED
  BY <1>1, <1>2, <1>3, <1>4, StepKinds

\* No file is in two places of the groups.
PrintedApart(gs) ==
  \A m, n \in DOMAIN gs : \A x \in DOMAIN gs[m], y \in DOMAIN gs[n] : gs[m][x] = gs[n][y] => m = n /\ x = y

LEMMA PrintedOnceStep ==
  ASSUME SizesApart, SizesInv, RowsOK, SlotsInv, ReportInv, PrintedOnce, [Next]_vars
  PROVE  PrintedOnce'
<1>0. PrintedApart(groups) /\ \A n \in DOMAIN groups : Len(groups[n]) >= 2
  BY DEF PrintedOnce, PrintedApart
<1> SUFFICES PrintedApart(groups') /\ \A n \in DOMAIN groups' : Len(groups'[n]) >= 2
  BY DEF PrintedOnce, PrintedApart
<1>1. CASE groups' = groups
  BY <1>0, <1>1
<1>2. CASE PrintTwin
  <2>0. PICK f \in Files, g \in Files : f = array[i].file /\ g = array[j].file
    BY <1>2, PairOfSize DEF PrintTwin
  <2> DEFINE L == Len(groups)
  <2>1. /\ groups' = Printed(f, g) /\ f \in Files /\ g \in Files /\ f # g
        /\ ~IsReported(groups, g) /\ (~already_printed => ~IsReported(groups, f))
        /\ GroupsTyped /\ (already_printed => groups # <<>>) /\ L = Len(groups)
    BY <1>2, <2>0, PairOfSize DEF PrintTwin, ReportInv, SizesInv, LocalsOK, GroupsTyped
  <2> HIDE DEF L
  <2>2. ASSUME already_printed
        PROVE  PrintedApart(groups') /\ \A n \in DOMAIN groups' : Len(groups'[n]) >= 2
    <3>1. /\ L \in Nat /\ DOMAIN groups = 1..L /\ DOMAIN groups' = 1..L /\ L \in 1..L
          /\ \A n \in 1..L : n # L => groups'[n] = groups[n]
          /\ DOMAIN groups[L] = 1..Len(groups[L]) /\ Len(groups[L]) \in Nat
          /\ DOMAIN groups'[L] = 1..(Len(groups[L]) + 1) /\ Len(groups'[L]) = Len(groups[L]) + 1
          /\ \A x \in DOMAIN groups[L] : groups'[L][x] = groups[L][x]
          /\ groups'[L][Len(groups[L]) + 1] = g
      BY <2>1, <2>2, GroupGoesOn
    <3> DEFINE new(n, x) == n = L /\ x = Len(groups[L]) + 1
    <3>2. ASSUME NEW n \in DOMAIN groups', NEW x \in DOMAIN groups'[n]
          PROVE  \/ new(n, x) /\ groups'[n][x] = g
                 \/ /\ ~new(n, x) /\ n \in DOMAIN groups /\ x \in DOMAIN groups[n]
                    /\ groups'[n][x] = groups[n][x] /\ groups[n][x] # g
      <4>1. CASE new(n, x)
        BY <3>1, <4>1
      <4>2. CASE n = L /\ x # Len(groups[L]) + 1
        <5>1. x \in DOMAIN groups[L]
          BY <3>1, <3>2, <4>2
        <5> QED
          BY <2>1, <3>1, <4>2, <5>1 DEF IsReported
      <4>3. CASE n # L
        BY <2>1, <3>1, <3>2, <4>3 DEF IsReported
      <4> QED
        BY <4>1, <4>2, <4>3
    <3> HIDE DEF new
    <3>3. PrintedApart(groups')
      <4>1. ASSUME NEW m \in DOMAIN groups', NEW n \in DOMAIN groups',
                   NEW x \in DOMAIN groups'[m], NEW y \in DOMAIN groups'[n], groups'[m][x] = groups'[n][y]
            PROVE  m = n /\ x = y
        <5>1. CASE new(m, x) /\ new(n, y)
          BY <5>1 DEF new
        <5>2. CASE ~new(m, x) /\ ~new(n, y)
          BY <1>0, <3>2, <4>1, <5>2 DEF PrintedApart
        <5>3. CASE ~(new(m, x) <=> new(n, y))
          BY <3>2, <4>1, <5>3
        <5> QED
          BY <5>1, <5>2, <5>3
      <4> QED
        BY <4>1 DEF PrintedApart
    <3>4. \A n \in DOMAIN groups' : Len(groups'[n]) >= 2
      BY <1>0, <3>1
    <3> QED
      BY <3>3, <3>4
  <2>3. ASSUME ~already_printed
        PROVE  PrintedApart(groups') /\ \A n \in DOMAIN groups' : Len(groups'[n]) >= 2
    <3>1. /\ L \in Nat /\ DOMAIN groups = 1..L /\ DOMAIN groups' = 1..(L + 1) /\ Len(groups') = L + 1
          /\ \A n \in 1..L : groups'[n] = groups[n]
          /\ DOMAIN groups'[L + 1] = 1..2 /\ Len(groups'[L + 1]) = 2 /\ groups'[L + 1][1] = f /\ groups'[L + 1][2] = g
      <4>1. L \in Nat /\ DOMAIN groups = 1..L /\ Len(groups') = L + 1
        BY <2>1, <2>3, GroupBegins
      <4>2. DOMAIN groups' = 1..(L + 1) /\ \A n \in 1..L : groups'[n] = groups[n]
        BY <2>1, <2>3, GroupBegins
      <4>3. groups'[L + 1] = <<f, g>>
        BY <2>1, <2>3, GroupBegins
      <4> QED
        BY <4>1, <4>2, <4>3
    <3>2. ASSUME NEW n \in DOMAIN groups', NEW x \in DOMAIN groups'[n]
          PROVE  \/ n = L + 1 /\ x = 1 /\ groups'[n][x] = f
                 \/ n = L + 1 /\ x = 2 /\ groups'[n][x] = g
                 \/ /\ n # L + 1 /\ n \in DOMAIN groups /\ x \in DOMAIN groups[n]
                    /\ groups'[n][x] = groups[n][x] /\ groups[n][x] \notin {f, g}
      <4>1. CASE n = L + 1
        BY <3>1, <3>2, <4>1
      <4>2. CASE n # L + 1
        BY <2>1, <2>3, <3>1, <3>2, <4>2 DEF IsReported
      <4> QED
        BY <4>1, <4>2
    <3>3. PrintedApart(groups')
      <4>1. ASSUME NEW m \in DOMAIN groups', NEW n \in DOMAIN groups',
                   NEW x \in DOMAIN groups'[m], NEW y \in DOMAIN groups'[n], groups'[m][x] = groups'[n][y]
            PROVE  m = n /\ x = y
        <5>1. CASE m = L + 1 \/ n = L + 1
          BY <2>1, <3>2, <4>1, <5>1
        <5>2. CASE m # L + 1 /\ n # L + 1
          BY <1>0, <3>2, <4>1, <5>2 DEF PrintedApart
        <5> QED
          BY <5>1, <5>2
      <4> QED
        BY <4>1 DEF PrintedApart
    <3>4. \A n \in DOMAIN groups' : Len(groups'[n]) >= 2
      BY <1>0, <3>1
    <3> QED
      BY <3>3, <3>4
  <2> QED
    BY <2>2, <2>3
<1> QED
  BY <1>1, <1>2, GroupsChange

\* A file of a group has the content of the first one, or its read may have failed.
CopyOfFirst(g, x) == content[g[x]] = content[g[1]] \/ (x > 1 /\ g[x] \in Unreliable)
CopiesOfFirst(gs) == \A n \in DOMAIN gs : \A x \in DOMAIN gs[n] : CopyOfFirst(gs[n], x)

LEMMA NoFalseTwinStep ==
  ASSUME SizesApart, OneEmptyContent, SizesInv, RowsOK, SlotsInv, ReportInv, PrintedOnce, NoFalseTwin, [Next]_vars
  PROVE  NoFalseTwin'
<1>0. CopiesOfFirst(groups)
  BY DEF NoFalseTwin, CopiesOfFirst, CopyOfFirst
<1> SUFFICES CopiesOfFirst(groups')
  BY GroupsChange DEF NoFalseTwin, CopiesOfFirst, CopyOfFirst
<1>1. CASE groups' = groups
  BY <1>0, <1>1
<1>2. CASE PrintTwin
  <2>0. PICK f \in Files, g \in Files : f = array[i].file /\ g = array[j].file
    BY <1>2, PairOfSize DEF PrintTwin
  <2> DEFINE L == Len(groups)
  <2>1. /\ groups' = Printed(f, g) /\ f \in Files /\ g \in Files
        /\ GroupsTyped /\ (already_printed => groups # <<>>) /\ L = Len(groups)
        /\ Size(f) = old_size /\ Size(g) = old_size /\ sizes[key].val = old_size
        /\ FilesMayMatch(f, g)
    BY <1>2, <2>0, PairOfSize DEF PrintTwin, ReportInv, SizesInv, LocalsOK, GroupsTyped
  <2>2. already_printed => f = groups[L][1]
    BY <1>2, <2>0, PairOfSize DEF PrintTwin, ReportInv
  <2> HIDE DEF L
  <2>3. content[g] = content[f] \/ g \in Unreliable
    <3>1. content[f] \in Contents /\ content[g] \in Contents
      BY <2>1 DEF SizesInv, LocalsOK
    <3>2. CASE sizes[key].val = 0
      BY <2>1, <3>1, <3>2 DEF Size, OneEmptyContent
    <3>3. CASE sizes[key].val # 0
      BY <2>1, <3>3 DEF FilesMayMatch
    <3> QED
      BY <3>2, <3>3
  <2>4. ASSUME already_printed
        PROVE  CopiesOfFirst(groups')
    <3>1. /\ L \in Nat /\ DOMAIN groups = 1..L /\ DOMAIN groups' = 1..L /\ L \in 1..L
          /\ \A n \in 1..L : n # L => groups'[n] = groups[n]
          /\ DOMAIN groups[L] = 1..Len(groups[L]) /\ Len(groups[L]) \in Nat
          /\ DOMAIN groups'[L] = 1..(Len(groups[L]) + 1)
          /\ \A x \in DOMAIN groups[L] : groups'[L][x] = groups[L][x]
          /\ groups'[L][Len(groups[L]) + 1] = g
      BY <2>1, <2>4, GroupGoesOn
    <3>2. Len(groups[L]) >= 2
      BY <3>1 DEF PrintedOnce
    <3>3. 1 \in DOMAIN groups[L] /\ groups'[L][1] = f
      BY <2>2, <2>4, <3>1, <3>2
    <3>4. ASSUME NEW x \in DOMAIN groups'[L]
          PROVE  CopyOfFirst(groups'[L], x)
      <4>1. CASE x \in DOMAIN groups[L]
        <5>1. CopyOfFirst(groups[L], x)
          BY <1>0, <3>1, <4>1 DEF CopiesOfFirst
        <5> QED
          BY <2>2, <2>4, <3>1, <3>3, <4>1, <5>1 DEF CopyOfFirst
      <4>2. CASE x = Len(groups[L]) + 1
        BY <2>3, <3>1, <3>2, <3>3, <4>2 DEF CopyOfFirst
      <4> QED
        BY <3>1, <4>1, <4>2
    <3>5. ASSUME NEW n \in 1..L, n # L, NEW x \in DOMAIN groups'[n]
          PROVE  CopyOfFirst(groups'[n], x)
      <4>1. groups'[n] = groups[n] /\ n \in DOMAIN groups
        BY <3>1, <3>5
      <4> QED
        BY <1>0, <3>5, <4>1 DEF CopiesOfFirst
    <3> QED
      BY <3>1, <3>4, <3>5 DEF CopiesOfFirst
  <2>5. ASSUME ~already_printed
        PROVE  CopiesOfFirst(groups')
    <3>1. /\ L \in Nat /\ DOMAIN groups = 1..L /\ DOMAIN groups' = 1..(L + 1) /\ Len(groups') = L + 1
          /\ \A n \in 1..L : groups'[n] = groups[n]
          /\ DOMAIN groups'[L + 1] = 1..2 /\ Len(groups'[L + 1]) = 2 /\ groups'[L + 1][1] = f /\ groups'[L + 1][2] = g
      <4>1. L \in Nat /\ DOMAIN groups = 1..L /\ Len(groups') = L + 1
        BY <2>1, <2>5, GroupBegins
      <4>2. DOMAIN groups' = 1..(L + 1) /\ \A n \in 1..L : groups'[n] = groups[n]
        BY <2>1, <2>5, GroupBegins
      <4>3. groups'[L + 1] = <<f, g>>
        BY <2>1, <2>5, GroupBegins
      <4> QED
        BY <4>1, <4>2, <4>3
    <3>2. \A x \in DOMAIN groups'[L + 1] : CopyOfFirst(groups'[L + 1], x)
      BY <2>3, <3>1 DEF CopyOfFirst
    <3> QED
      BY <1>0, <3>1, <3>2 DEF CopiesOfFirst
  <2> QED
    BY <2>4, <2>5
<1> QED
  BY <1>1, <1>2, GroupsChange

LEMMA GroupsInit ==
  ASSUME Init
  PROVE  SlotsInv /\ ReportInv /\ PrintedOnce /\ NoFalseTwin
<1>1. DOMAIN sizes = {} /\ groups = <<>> /\ phase = "collect" /\ old_size = -1
  BY DEF Init
<1>2. DOMAIN groups = {}
  BY <1>1
<1> QED
  BY <1>1, <1>2 DEF SlotsInv, ReportInv, IsReported, PrintedOnce, NoFalseTwin

\* While no two sizes share a key of the size table, ftwin prints a file at most once, in a
\* group with at least one other, whatever vanishes and whatever checksums collide.
THEOREM EachPrintedOnce ==
  ASSUME SizesApart
  PROVE  Spec => []PrintedOnce
<1>1. Init => SlotsInv /\ ReportInv /\ PrintedOnce
  BY GroupsInit
<1>2. SizesInv /\ RowsOK /\ SlotsInv /\ ReportInv /\ PrintedOnce /\ [Next]_vars => (SlotsInv /\ ReportInv /\ PrintedOnce)'
  BY SlotsInvStep, ReportInvStep, PrintedOnceStep
<1> QED
  BY <1>1, <1>2, TableInvariant, PTL DEF Spec

\* While no two sizes share a key, and only the empty file has the size of zero, ftwin
\* prints only duplicates, whatever vanishes and whatever checksums collide, with one
\* exception: a file of which a read may fail can be printed as a twin of the first file of
\* its group without having its content.
THEOREM OnlyTwinsReported ==
  ASSUME SizesApart, OneEmptyContent
  PROVE  Spec => []NoFalseTwin
<1> DEFINE GI == SlotsInv /\ ReportInv /\ PrintedOnce /\ NoFalseTwin
<1>1. Init => GI
  BY GroupsInit
<1>2. SizesInv /\ RowsOK /\ GI /\ [Next]_vars => GI'
  BY SlotsInvStep, ReportInvStep, PrintedOnceStep, NoFalseTwinStep
<1>3. GI => NoFalseTwin
  OBVIOUS
<1> HIDE DEF GI
<1> QED
  BY <1>1, <1>2, <1>3, TableInvariant, PTL DEF Spec

--------------------------------------------------------------------------------
(* The inductive strengthening of BiggerTwinsReported. *)

OfKey(k) == {f \in given : FileKey(f) = k}
Class(f) == {g \in given : content[g] = content[f]}

\* What is given is counted, and an entry is dropped only for a single file.
GivenInv ==
  /\ IsFiniteSet(given)
  /\ heap \subseteq given /\ tmp_heap \subseteq given
  /\ phase = "collect" => heap = given
  /\ \A k \in DOMAIN sizes : sizes[k].nb_files = Cardinality(OfKey(k))
  /\ \A f \in given : FileKey(f) \notin DOMAIN sizes =>
       phase # "collect" /\ OfKey(FileKey(f)) = {f}

Chk(k, f) == IF NeedsChecksum(sizes[k]) THEN HashOf[content[f]] ELSE Unread

\* The slot holds a file of the key with its checksum.
Right(k, slot) == slot.file \in OfKey(k) /\ slot.chk = Chk(k, slot.file)

\* Each file of the key that has left the heap has the slot it is due.
FilledInv ==
  /\ phase = "collect" => status = "ok"
  /\ phase = "checksum" /\ status = "error" =>
       \E g \in Faulty \cap given : \A f \in heap : Size(f) <= Size(g)
  /\ phase = "checksum" => \A k \in DOMAIN sizes : Quiet(sizes[k].val) =>
       LET fsize == sizes[k]
       IN  /\ Cardinality(Pending(k)) + fsize.nb_checksumed = fsize.nb_files
           /\ \A n \in 1..fsize.nb_checksumed : Right(k, fsize.chksum_array[n])
           /\ \A f \in OfKey(k) \ heap :
                f \in tmp_heap /\ \E n \in 1..fsize.nb_checksumed : fsize.chksum_array[n].file = f

\* The report has come to the size of f.
ComeTo(f) == old_size # -1 /\ Size(f) >= old_size

\* The slots are full, until the report comes to them.
FullInv ==
  phase = "report" =>
    /\ \A k \in DOMAIN sizes : Quiet(sizes[k].val) =>
         LET fsize == sizes[k]
         IN  /\ fsize.nb_checksumed = fsize.nb_files
             /\ \A n \in DOMAIN fsize.chksum_array : fsize.chksum_array[n].file # Null => Right(k, fsize.chksum_array[n])
             /\ old_size = -1 \/ fsize.val < old_size =>
                  /\ \A n \in DOMAIN fsize.chksum_array : fsize.chksum_array[n].file # Null
                  /\ \A f \in OfKey(k) : f \in heap /\ \E n \in DOMAIN fsize.chksum_array : fsize.chksum_array[n].file = f

Settled(f) == Class(f) = {f} \/ ReportedInFull(Class(f))

\* Equal checksums are next to each other, with the prioritized files first.
Grouped ==
  /\ \A x, y, z \in DOMAIN array : x < y /\ y < z /\ array[x].chk = array[z].chk => array[y].chk = array[x].chk
  /\ \A x, y \in DOMAIN array : x < y /\ array[x].chk = array[y].chk /\ array[x].file # Null =>
        (array[y].file \in prioritized => array[x].file \in prioritized)

\* Where the twins of the file at hand are.
LastGroup == IF already_printed THEN Members(groups[Len(groups)]) ELSE {array[i].file}
Ahead(n, f) == \E m \in DOMAIN array : m >= n /\ array[m].file = f

\* The row of slot i, if no file of the size at hand has vanished: what is not
\* settled yet is in a slot ahead or in the group of this row, which has all the twins
\* of its first file that are not ahead of j.
RowInv ==
  /\ Grouped
  /\ \A f \in OfKey(key) :
       \/ Settled(f)
       \/ Ahead(i, f)
       \/ i \in DOMAIN array /\ array[i].file # Null /\ f \in LastGroup
  /\ i \in DOMAIN array /\ array[i].file # Null =>
       /\ LastGroup \subseteq Class(array[i].file)
       /\ \A f \in Class(array[i].file) : f \in LastGroup \/ Ahead(j, f)

\* Files of the sizes that the report has dealt with are alone or reported with all
\* their twins.
SettledInv ==
  /\ phase = "report" => \A f \in given :
       Quiet(Size(f)) /\ ComeTo(f) /\ (key = None \/ Size(f) # old_size) => Settled(f)
  /\ phase = "report" /\ key # None /\ Quiet(old_size) => RowInv
  /\ phase = "done" => \A f \in given : Quiet(Size(f)) => Settled(f)

--------------------------------------------------------------------------------
(* What is given. *)

LEMMA QuietBefore ==
  ASSUME SizesInv, RowsOK, [Next]_vars, NEW s, \A g \in Faulty' \cap given' : Size(g)' < s
  PROVE  Quiet(s)
<1>1. content' = content
  BY GroupsChange
<1>2. gone \subseteq gone' /\ given \subseteq given'
  <2>1. CASE UNCHANGED <<gone, given>>
    BY <2>1
  <2>2. CASE UNCHANGED vars
    BY <2>2 DEF vars, world
  <2>3. ASSUME NEW f \in Files, \/ AddFails(f) \/ UntarToChecksum(f) \/ UntarToChecksumFails(f)
                                \/ NextSizeReadsNull(f) \/ SameSize(f) \/ DropSingle(f) \/ KeepUnread(f)
                                \/ Checksum(f) \/ ChecksumFails(f) \/ NextSize(f)
        PROVE  UNCHANGED <<gone, given>>
    BY <2>3 DEF AddFails, UntarToChecksum, UntarToChecksumFails, NextSizeReadsNull, SameSize,
                DropSingle, KeepUnread, Checksum, ChecksumFails, NextSize, world
  <2>4. CASE EndCollect \/ NextRow \/ EndSize \/ ReadUnwrittenRow \/ UntarRow \/ UntarRowFails
    BY <2>1, <2>4 DEF EndCollect, NextRow, EndSize, ReadUnwrittenRow, UntarRow, UntarRowFails, world
  <2>5. CASE ReadMissingColumn \/ UntarColumn \/ UntarColumnFails \/ SkipDifferent \/ EndReport \/ EndChecksum \/ PrintTwin
    BY <2>1, <2>5 DEF ReadMissingColumn, UntarColumn, UntarColumnFails, SkipDifferent, EndReport, EndChecksum,
                      PrintTwin, world
  <2>6. ASSUME NEW f \in Files, AddFile(f) \/ Vanish(f)
        PROVE  gone \subseteq gone' /\ given \subseteq given'
    BY <2>6 DEF AddFile, Vanish, world
  <2> QED
    BY <2>1, <2>2, <2>3, <2>4, <2>5, <2>6, StepKinds DEF Bystander
<1> QED
  BY <1>1, <1>2 DEF Quiet, Faulty, Size

\* Except when a file is added, what is given stays as it is, and so does the number
\* of files of every entry that stays.
LEMMA GivenStays ==
  ASSUME SizesInv, RowsOK, [Next]_vars, ~ \E f \in Files : AddFile(f)
  PROVE  /\ given' = given /\ content' = content /\ prioritized' = prioritized
         /\ DOMAIN sizes' \subseteq DOMAIN sizes
         /\ \A k \in DOMAIN sizes' : sizes'[k].nb_files = sizes[k].nb_files /\ sizes'[k].val = sizes[k].val
<1>1. CASE Bystander \/ UNCHANGED vars
  BY <1>1, BystanderStep
<1>2. ASSUME NEW f \in Files, DropSingle(f)
      PROVE  /\ given' = given /\ content' = content /\ prioritized' = prioritized
             /\ sizes' = [k \in DOMAIN sizes \ {FileKey(f)} |-> sizes[k]]
  BY <1>2 DEF DropSingle, world
<1>3. ASSUME NEW f \in Files, KeepUnread(f) \/ Checksum(f) \/ ChecksumFails(f)
      PROVE  /\ given' = given /\ content' = content /\ prioritized' = prioritized
             /\ phase = "checksum" /\ DOMAIN sizes' = DOMAIN sizes
  BY <1>3 DEF KeepUnread, Checksum, ChecksumFails, ToChecksum, Chosen, FillSlot, world
<1>4. ASSUME NEW f \in Files, NextSize(f)
      PROVE  /\ given' = given /\ content' = content /\ prioritized' = prioritized
             /\ phase = "report" /\ DOMAIN sizes' = DOMAIN sizes
  BY <1>4 DEF NextSize, NewSize, world
<1>5. CASE EndChecksum
  BY <1>5 DEF EndChecksum, world
<1>6. CASE PrintTwin
  <2>1. /\ given' = given /\ content' = content /\ prioritized' = prioritized
        /\ phase = "report" /\ DOMAIN sizes' = DOMAIN sizes
    BY <1>6 DEF PrintTwin, Marked, Comparable, RowHasPath, Matched, InRow, world
  <2> QED
    BY <1>6, <2>1, EntriesGrow DEF DropSingle, Chosen
<1>7. ASSUME NEW f \in Files, KeepUnread(f) \/ Checksum(f) \/ ChecksumFails(f) \/ NextSize(f), NEW k \in DOMAIN sizes'
      PROVE  sizes'[k].nb_files = sizes[k].nb_files /\ sizes'[k].val = sizes[k].val
  <2>1. k \in DOMAIN sizes /\ phase # "collect"
    BY <1>3, <1>4, <1>7
  <2>2. ~ \E g \in Files : DropSingle(g) /\ k = FileKey(g)
    <3>1. ASSUME NEW g \in Files, DropSingle(g)
          PROVE  k # FileKey(g)
      <4>1. DOMAIN sizes' = DOMAIN sizes \ {FileKey(g)}
        BY <3>1 DEF DropSingle
      <4> QED
        BY <1>7, <4>1
    <3> QED
      BY <3>1
  <2> QED
    BY <2>1, <2>2, EntriesGrow
<1> QED
  BY <1>1, <1>2, <1>3, <1>4, <1>5, <1>6, <1>7, StepKinds

LEMMA OfKeyFinite ==
  ASSUME IsFiniteSet(given), NEW k
  PROVE  IsFiniteSet(OfKey(k)) /\ Cardinality(OfKey(k)) \in Nat
<1>1. OfKey(k) \in SUBSET given
  BY DEF OfKey
<1> QED
  BY <1>1, FS_Subset, FS_CardinalityType

LEMMA GivenInvStep ==
  ASSUME SizesInv, RowsOK, GivenInv, [Next]_vars
  PROVE  GivenInv'
<1>0. /\ IsFiniteSet(given) /\ heap \subseteq given /\ tmp_heap \subseteq given
      /\ phase = "collect" => heap = given
      /\ \A k \in DOMAIN sizes : sizes[k].nb_files = Cardinality(OfKey(k))
      /\ \A f \in given : FileKey(f) \notin DOMAIN sizes =>
           phase # "collect" /\ OfKey(FileKey(f)) = {f}
  BY DEF GivenInv
<1>1. ASSUME NEW f \in Files, AddFile(f)
      PROVE  GivenInv'
  <2> DEFINE l == FileKey(f)
             e == FsizeOf(l, Size(f))
             e2 == [e EXCEPT !.nb_files = @ + 1]
  <2>1. /\ heap' = heap \cup {f} /\ given' = given \cup {f} /\ content' = content /\ tmp_heap' = tmp_heap
        /\ phase = "collect" /\ phase' = phase /\ f \notin given
        /\ sizes' = SetSize(l, e2)
    BY <1>1 DEF AddFile, world
  <2>2. EntryOK(e)
    BY FsizeOfOK, FileKeyOK DEF SizesInv, LocalsOK
  <2>3. e2.nb_files = e.nb_files + 1 /\ e.nb_files \in Nat
    <3> HIDE DEF e
    <3> QED
      BY <2>2 DEF EntryOK, Entries
  <2>4. e.nb_files = Cardinality(OfKey(l))
    <3>1. CASE l \in DOMAIN sizes
      BY <1>0, <3>1 DEF FsizeOf
    <3>2. CASE l \notin DOMAIN sizes
      <4>1. OfKey(l) = {}
        BY <1>0, <2>1, <3>2 DEF OfKey
      <4>2. e.nb_files = 0
        BY <3>2 DEF FsizeOf
      <4> QED
        BY <4>1, <4>2, FS_EmptySet
    <3> QED
      BY <3>1, <3>2
  <2>5. OfKey(l)' = OfKey(l) \cup {f} /\ f \notin OfKey(l)
    BY <2>1 DEF OfKey, FileKey, Size
  <2>6. \A k : k # l => {g \in given' : FileKey(g)' = k} = OfKey(k)
    BY <2>1 DEF OfKey, FileKey, Size
  <2>7. Cardinality(OfKey(l)') = e2.nb_files
    <3>1. IsFiniteSet(OfKey(l))
      BY <1>0, OfKeyFinite
    <3>2. Cardinality(OfKey(l)') = Cardinality(OfKey(l)) + 1
      BY <2>5, <3>1, FS_AddElement
    <3> HIDE DEF e, e2
    <3> QED
      BY <2>3, <2>4, <3>2
  <2> HIDE DEF e, e2
  <2>8. DOMAIN sizes' = DOMAIN sizes \cup {l} /\ sizes'[l] = e2 /\ \A k \in DOMAIN sizes : k # l => sizes'[k] = sizes[k]
    BY <2>1, EntrySet
  <2>9. \A k \in DOMAIN sizes' : sizes'[k].nb_files = Cardinality({g \in given' : FileKey(g)' = k})
    <3>1. l' = l
      BY <2>1 DEF FileKey, Size
    <3>2. {g \in given' : FileKey(g)' = l} = OfKey(l)'
      BY <3>1 DEF OfKey
    <3> QED
      BY <1>0, <2>6, <2>7, <2>8, <3>2
  <2>10. \A g \in given' : FileKey(g)' \in DOMAIN sizes'
    BY <1>0, <2>1, <2>8 DEF FileKey, Size
  <2>11. IsFiniteSet(given')
    BY <1>0, <2>1, FS_AddElement
  <2> QED
    BY <1>0, <2>1, <2>9, <2>10, <2>11 DEF GivenInv, OfKey
<1>2. ASSUME ~ \E f \in Files : AddFile(f)
      PROVE  GivenInv'
  <2>1. /\ given' = given /\ content' = content
        /\ DOMAIN sizes' \subseteq DOMAIN sizes
        /\ \A k \in DOMAIN sizes' : sizes'[k].nb_files = sizes[k].nb_files
    BY <1>2, GivenStays
  <2>2. \A k : OfKey(k)' = OfKey(k)
    BY <2>1 DEF OfKey, FileKey, Size
  <2>3. \A f : FileKey(f)' = FileKey(f)
    BY <2>1 DEF FileKey, Size
  <2>4. /\ heap' \subseteq given /\ tmp_heap' \subseteq given
        /\ phase' = "collect" => phase = "collect" /\ heap' = heap
    <3>1. CASE Bystander \/ UNCHANGED vars
      BY <1>0, <3>1, BystanderStep
    <3>2. ASSUME NEW f \in Files, DropSingle(f) \/ KeepUnread(f) \/ Checksum(f) \/ ChecksumFails(f)
          PROVE  heap' \subseteq heap /\ tmp_heap' \subseteq tmp_heap \cup {f} /\ f \in heap /\ phase' = "checksum"
      BY <3>2 DEF DropSingle, KeepUnread, Checksum, ChecksumFails, ToChecksum, Chosen, Largest, FillSlot
    <3>3. ASSUME NEW f \in Files, NextSize(f)
          PROVE  heap' \subseteq heap /\ tmp_heap' = tmp_heap /\ phase' = "report"
      BY <3>3 DEF NextSize, NewSize, Extracted
    <3>4. CASE EndChecksum
      BY <1>0, <3>4 DEF EndChecksum
    <3>5. CASE PrintTwin
      BY <1>0, <3>5 DEF PrintTwin, Comparable, RowHasPath, Matched, InRow
    <3> QED
      BY <1>0, <1>2, <3>1, <3>2, <3>3, <3>4, <3>5, StepKinds
  <2>5. ASSUME NEW f \in given, FileKey(f) \notin DOMAIN sizes'
        PROVE  phase' # "collect" /\ OfKey(FileKey(f)) = {f}
    <3>1. CASE FileKey(f) \notin DOMAIN sizes
      BY <1>0, <2>4, <3>1
    <3>2. CASE FileKey(f) \in DOMAIN sizes
      <4>1. PICK g \in Files : DropSingle(g) /\ FileKey(f) = FileKey(g)
        BY <2>5, <3>2, EntriesGrow
      <4>2. sizes[FileKey(g)].nb_files = 1 /\ phase' # "collect"
        BY <4>1 DEF DropSingle, Chosen
      <4>3. Cardinality(OfKey(FileKey(f))) = 1 /\ IsFiniteSet(OfKey(FileKey(f)))
        BY <1>0, <3>2, <4>1, <4>2, OfKeyFinite
      <4>4. f \in OfKey(FileKey(f))
        BY DEF OfKey
      <4> QED
        BY <4>2, <4>3, <4>4, FS_Singleton
    <3> QED
      BY <3>1, <3>2
  <2> QED
    BY <1>0, <2>1, <2>2, <2>3, <2>4, <2>5 DEF GivenInv
<1> QED
  BY <1>1, <1>2

--------------------------------------------------------------------------------
(* The slots are filled. *)

\* The size that an entry was made for is that of its files.
LEMMA SizeOfEntry ==
  ASSUME SizesApart, SizesInv, SlotsInv, NEW f \in Files, FileKey(f) \in DOMAIN sizes
  PROVE  sizes[FileKey(f)].val = Size(f)
<1>1. PICK c \in Contents : sizes[FileKey(f)].val = SizeOf[c] /\ FileKey(f) = Key(SizeOf[c])
  BY DEF SlotsInv
<1>2. content[f] \in Contents
  BY DEF SizesInv, LocalsOK
<1> QED
  BY <1>1, <1>2 DEF SizesApart, FileKey, Size

LEMMA FilledFollow ==
  ASSUME SizesInv, RowsOK, [Next]_vars, content' = content, given' = given,
         DOMAIN sizes' \subseteq DOMAIN sizes,
         \A k \in DOMAIN sizes' : sizes'[k].nb_files = sizes[k].nb_files /\ sizes'[k].val = sizes[k].val,
         phase' # "collect",
         phase' = "checksum" /\ status' = "error" =>
           \E g \in Faulty' \cap given : \A f \in heap' : Size(f) <= Size(g),
         phase' = "checksum" => \A k \in DOMAIN sizes' : Quiet(sizes[k].val) =>
           /\ Cardinality(PendingIn(heap', k)) + sizes'[k].nb_checksumed = sizes[k].nb_files
           /\ \A n \in 1..sizes'[k].nb_checksumed : Right(k, sizes'[k].chksum_array[n])
           /\ \A f \in OfKey(k) \ heap' :
                f \in tmp_heap' /\ \E n \in 1..sizes'[k].nb_checksumed : sizes'[k].chksum_array[n].file = f
  PROVE  FilledInv'
<1>1. \A f : Size(f)' = Size(f) /\ FileKey(f)' = FileKey(f)
  BY DEF Size, FileKey
<1>2. \A k \in DOMAIN sizes' : Quiet(sizes[k].val)' => Quiet(sizes[k].val)
  <2> SUFFICES ASSUME NEW k \in DOMAIN sizes', \A g \in Faulty' \cap given' : Size(g)' < sizes'[k].val
               PROVE  Quiet(sizes[k].val)
    BY DEF Quiet
  <2> QED
    BY QuietBefore
<1>3. \A k : OfKey(k)' = OfKey(k) /\ Pending(k)' = PendingIn(heap', k)
  BY DEF OfKey, Pending, PendingIn, FileKey, Size
<1>4. \A k \in DOMAIN sizes' : \A f : Chk(k, f)' = Chk(k, f)
  BY DEF Chk, NeedsChecksum
<1>5. \A k \in DOMAIN sizes' : \A slot : Right(k, slot)' <=> Right(k, slot)
  BY <1>3, <1>4 DEF Right
<1>6. \A k \in DOMAIN sizes' : \A n : Right(k, sizes'[k].chksum_array[n]) => Right(k, sizes[k].chksum_array[n])'
  BY <1>5
<1> QED
  BY <1>1, <1>2, <1>3, <1>6 DEF FilledInv

\* What becomes of the entry when a file gets its slot.
LEMMA SlotFilled ==
  ASSUME SizesInv, phase = "checksum", NEW f \in Files, f \in heap,
         NEW chk \in {Unread, Wild, HashOf[content[f]]}, FillSlot(f, chk, "ok")
  PROVE  LET l == FileKey(f)
             n == sizes[l].nb_checksumed
         IN  /\ n \in Nat /\ sizes'[l].nb_checksumed = n + 1
             /\ sizes'[l].chksum_array[n + 1] = [file |-> f, chk |-> chk]
             /\ \A m \in 1..n : sizes'[l].chksum_array[m] = sizes[l].chksum_array[m]
<1> DEFINE l == FileKey(f)
           n == sizes[l].nb_checksumed
<1>0. l = FileKey(f) /\ n = sizes[l].nb_checksumed
  OBVIOUS
<1>1. l \in DOMAIN sizes /\ EntryOK(sizes[l]) /\ sizes[l].nb_checksumed < sizes[l].nb_files
  BY PendingHasRoom DEF SizesInv, TableOK
<1> DEFINE e == sizes[l]
           slot == [file |-> f, chk |-> chk]
<1>2. sizes' = [sizes EXCEPT ![l] = Filled(e, slot, "ok")]
  BY FillSlotFills
<1>3. slot \in Slots
  BY SlotOK DEF SizesInv
<1> HIDE DEF slot
<1>4. sizes'[l] = Filled(e, slot, "ok")
  BY <1>1, <1>2
<1>5. /\ sizes'[l].nb_checksumed = NextSlot(n, "ok")
      /\ sizes'[l].chksum_array = [Allocated(e) EXCEPT ![n + 1] = slot]
  <2>1. sizes'[l].nb_checksumed = NextSlot(n, "ok")
    BY <1>1, <1>3, <1>4, FilledOK
  <2>2. sizes'[l].chksum_array = [Allocated(e) EXCEPT ![n + 1] = slot]
    BY <1>1, <1>4, FilledArray
  <2> QED
    BY <2>1, <2>2
<1>6. n \in Nat /\ e.nb_files \in Nat /\ n + 1 \in 1..e.nb_files
  BY <1>1 DEF EntryOK, Entries
<1>7. DOMAIN Allocated(e) = 1..e.nb_files
  BY <1>1, AllocatedOK
<1>8. n >= 1 => Allocated(e) = e.chksum_array
  BY <1>1 DEF EntryOK, Allocated
<1>9. sizes'[l].chksum_array[n + 1] = slot
  BY <1>5, <1>6, <1>7
<1>10. \A m \in 1..n : sizes'[l].chksum_array[m] = e.chksum_array[m]
  <2> SUFFICES ASSUME NEW m \in 1..n
               PROVE  sizes'[l].chksum_array[m] = e.chksum_array[m]
    OBVIOUS
  <2>1. n >= 1 /\ m # n + 1 /\ m \in 1..e.nb_files
    BY <1>6
  <2> QED
    BY <1>5, <1>7, <1>8, <2>1
<1> QED
  BY <1>5, <1>6, <1>9, <1>10 DEF NextSlot, slot

LEMMA FilledInvStep ==
  ASSUME SizesApart, SizesInv, RowsOK, SlotsInv, GivenInv, FilledInv, [Next]_vars
  PROVE  FilledInv'
<1>0. /\ phase = "collect" => status = "ok"
      /\ phase = "checksum" /\ status = "error" =>
           \E g \in Faulty \cap given : \A f \in heap : Size(f) <= Size(g)
      /\ phase = "checksum" => \A k \in DOMAIN sizes : Quiet(sizes[k].val) =>
           /\ Cardinality(Pending(k)) + sizes[k].nb_checksumed = sizes[k].nb_files
           /\ \A n \in 1..sizes[k].nb_checksumed : Right(k, sizes[k].chksum_array[n])
           /\ \A f \in OfKey(k) \ heap :
                f \in tmp_heap /\ \E n \in 1..sizes[k].nb_checksumed : sizes[k].chksum_array[n].file = f
  BY DEF FilledInv
<1>1. ASSUME phase' \notin {"collect", "checksum"}
      PROVE  FilledInv'
  BY <1>1 DEF FilledInv
<1>2. ASSUME phase' = "collect", UNCHANGED <<status, phase>>
      PROVE  FilledInv'
  BY <1>0, <1>2 DEF FilledInv
<1>3. ASSUME phase' = "checksum", phase = phase', UNCHANGED <<given, content, sizes, heap, tmp_heap, status>>, gone \subseteq gone'
      PROVE  FilledInv'
  <2>1. \A k : PendingIn(heap', k) = Pending(k)
    BY <1>3 DEF Pending
  <2> QED
    BY <1>0, <1>3, <2>1, FilledFollow DEF Faulty
<1>4. CASE UNCHANGED vars
  <2>1. UNCHANGED <<phase, given, content, sizes, heap, tmp_heap, status, gone>>
    BY <1>4 DEF vars, world
  <2> QED
    BY <1>1, <1>2, <1>3, <2>1
<1>5. ASSUME NEW f \in Files, Vanish(f) \/ AddFails(f) \/ UntarToChecksum(f) \/ UntarToChecksumFails(f)
                              \/ NextSizeReadsNull(f) \/ SameSize(f)
      PROVE  FilledInv'
  <2>1. \/ UNCHANGED <<phase, given, content, sizes, heap, tmp_heap, status>> /\ gone \subseteq gone'
        \/ phase' \notin {"collect", "checksum"}
    BY <1>5 DEF Vanish, AddFails, UntarToChecksum, UntarToChecksumFails, UntarFails, NextSizeReadsNull,
                SameSize, NewSize, world
  <2> QED
    BY <1>1, <1>2, <1>3, <2>1
<1>6. CASE NextRow \/ EndSize \/ ReadUnwrittenRow \/ UntarRow \/ UntarRowFails \/ ReadMissingColumn
           \/ UntarColumn \/ UntarColumnFails \/ SkipDifferent \/ EndReport
           \/ EndChecksum \/ PrintTwin \/ \E f \in Files : NextSize(f)
  <2>1. phase' \notin {"collect", "checksum"}
    BY <1>6 DEF NextRow, EndSize, ReadUnwrittenRow, UntarRow, UntarRowFails, ReadMissingColumn, UntarColumn,
                UntarColumnFails, SkipDifferent, EndReport, EndChecksum, PrintTwin, NextSize, NewSize,
                Comparable, RowHasPath, Matched, InRow, UntarFails
  <2> QED
    BY <1>1, <2>1
<1>7. ASSUME NEW f \in Files, AddFile(f)
      PROVE  FilledInv'
  BY <1>2, <1>7 DEF AddFile
<1>8. CASE EndCollect
  <2>1. /\ UNCHANGED <<given, content, sizes, heap, tmp_heap, status>> /\ phase = "collect" /\ status = "ok"
        /\ phase' \in {"failed", "checksum"}
    BY <1>0, <1>8 DEF EndCollect, world
  <2>2. /\ heap = given
        /\ \A k \in DOMAIN sizes : Cardinality(Pending(k)) = sizes[k].nb_files /\ sizes[k].nb_checksumed = 0
                                   /\ sizes[k].nb_files \in Nat
    BY <2>1 DEF GivenInv, SizesInv, CountsOK, TableOK, EntryOK, Entries
  <2>3. \A k : PendingIn(heap', k) = Pending(k) /\ OfKey(k) \ heap' = {}
    BY <2>1, <2>2 DEF Pending, OfKey
  <2>4. \A k \in DOMAIN sizes' :
           /\ Cardinality(PendingIn(heap', k)) + sizes'[k].nb_checksumed = sizes[k].nb_files
           /\ \A n \in 1..sizes'[k].nb_checksumed : Right(k, sizes'[k].chksum_array[n])
    BY <2>1, <2>2, <2>3
  <2> QED
    BY <2>1, <2>3, <2>4, FilledFollow
<1>9. ASSUME NEW f \in Files, DropSingle(f)
      PROVE  FilledInv'
  <2> DEFINE l == FileKey(f)
  <2>1. /\ heap' = heap \ {f} /\ content' = content /\ given' = given /\ status' = status /\ tmp_heap' = tmp_heap
        /\ phase = "checksum" /\ phase' = phase /\ gone' = gone
        /\ sizes' = [k \in DOMAIN sizes \ {l} |-> sizes[k]]
    BY <1>9 DEF DropSingle, Chosen, Largest, world
  <2>2. \A k \in DOMAIN sizes' : k # l /\ sizes'[k] = sizes[k] /\ k \in DOMAIN sizes
    BY <2>1
  <2>3. \A k : k # l => PendingIn(heap', k) = Pending(k) /\ OfKey(k) \ heap' = OfKey(k) \ heap
    BY <2>1, PendingCounts DEF OfKey, SizesInv, HeapsInTable
  <2>4. Faulty' = Faulty
    BY <2>1 DEF Faulty
  <2>5. status' = "error" => \E g \in Faulty' \cap given : \A h \in heap' : Size(h) <= Size(g)
    BY <1>0, <2>1, <2>4
  <2> HIDE DEF l
  <2>6. ASSUME NEW k \in DOMAIN sizes', Quiet(sizes[k].val)
        PROVE  /\ Cardinality(PendingIn(heap', k)) + sizes'[k].nb_checksumed = sizes[k].nb_files
               /\ \A n \in 1..sizes'[k].nb_checksumed : Right(k, sizes'[k].chksum_array[n])
               /\ \A g \in OfKey(k) \ heap' :
                    g \in tmp_heap' /\ \E n \in 1..sizes'[k].nb_checksumed : sizes'[k].chksum_array[n].file = g
    <3>1. /\ Cardinality(Pending(k)) + sizes[k].nb_checksumed = sizes[k].nb_files
          /\ \A n \in 1..sizes[k].nb_checksumed : Right(k, sizes[k].chksum_array[n])
          /\ \A g \in OfKey(k) \ heap :
               g \in tmp_heap /\ \E n \in 1..sizes[k].nb_checksumed : sizes[k].chksum_array[n].file = g
      BY <1>0, <2>1, <2>2, <2>6
    <3>2. sizes'[k] = sizes[k] /\ PendingIn(heap', k) = Pending(k) /\ OfKey(k) \ heap' = OfKey(k) \ heap
      BY <2>2, <2>3
    <3>3. tmp_heap' = tmp_heap
      BY <2>1
    <3> QED
      BY <3>1, <3>2, <3>3
  <2>7. /\ content' = content /\ given' = given /\ DOMAIN sizes' \subseteq DOMAIN sizes /\ phase' # "collect"
        /\ \A k \in DOMAIN sizes' : sizes'[k].nb_files = sizes[k].nb_files /\ sizes'[k].val = sizes[k].val
    BY <2>1, <2>2
  <2> QED
    BY <2>5, <2>6, <2>7, FilledFollow
<1>10. ASSUME NEW f \in Files, KeepUnread(f) \/ Checksum(f) \/ ChecksumFails(f)
       PROVE  FilledInv'
  <2> DEFINE l == FileKey(f)
  <2>1. /\ phase = "checksum" /\ phase' = phase /\ f \in heap /\ content' = content /\ given' = given /\ gone' = gone
        /\ \A g \in heap : Size(g) <= Size(f)
    BY <1>10 DEF KeepUnread, Checksum, ChecksumFails, ToChecksum, Chosen, Largest, world
  <2>2. PICK chk \in {Unread, Wild, HashOf[content[f]]}, st \in {"ok", "error"} :
          /\ FillSlot(f, chk, st)
          /\ st = "ok" => chk = Chk(l, f)
          /\ st = "error" => (status = "error" \/ f \in Faulty) /\ st = status'
          /\ status' = "error" => st = "error"
    <3>1. CASE KeepUnread(f)
      <4>1. Chk(l, f) = Unread /\ status \in {"ok", "error"}
        BY <3>1 DEF KeepUnread, Chk, SizesInv, LocalsOK
      <4>2. FillSlot(f, Unread, status) /\ status' = status
        BY <3>1 DEF KeepUnread
      <4> QED
        BY <4>1, <4>2
    <3>2. CASE Checksum(f)
      <4>1. Chk(l, f) = HashOf[content[f]]
        BY <3>2 DEF Checksum, ToChecksum, Chk
      <4>2. FillSlot(f, HashOf[content[f]], "ok") /\ status' = "ok"
        BY <3>2 DEF Checksum
      <4> QED
        BY <4>1, <4>2
    <3>3. CASE ChecksumFails(f)
      <4>1. FillSlot(f, Wild, "error") /\ status' = "error" /\ f \in Faulty
        BY <3>3 DEF ChecksumFails, Opened, Faulty
      <4> QED
        BY <4>1
    <3> QED
      BY <1>10, <3>1, <3>2, <3>3
  <2>3. l = FileKey(f)
    OBVIOUS
  <2> HIDE DEF l
  <2>4. /\ l \in DOMAIN sizes /\ DOMAIN sizes' = DOMAIN sizes
        /\ \A k \in DOMAIN sizes : k # l => sizes'[k] = sizes[k]
        /\ sizes'[l].nb_files = sizes[l].nb_files /\ sizes'[l].val = sizes[l].val
        /\ heap' = heap \ {f} /\ tmp_heap' = (IF st = "ok" THEN tmp_heap \cup {f} ELSE tmp_heap)
    BY <2>1, <2>2, <2>3, HandledEntry
  <2>5. heap \subseteq given /\ heap \subseteq Files /\ IsFiniteSet(heap)
    BY DEF GivenInv, SizesInv, HeapsInTable
  <2>6. st = "error" => \E g \in Faulty \cap given : \A h \in heap : Size(h) <= Size(g)
    BY <1>0, <2>1, <2>2, <2>5
  <2>7. ASSUME st = "error", Quiet(sizes[l].val)
        PROVE  FALSE
    <3>1. PICK g \in Faulty \cap given : Size(f) <= Size(g)
      BY <2>1, <2>6, <2>7
    <3>2. sizes[l].val = Size(f) /\ Size(g) < Size(f)
      BY <2>3, <2>4, <2>7, SizeOfEntry DEF Quiet
    <3>3. Size(f) \in Nat /\ Size(g) \in Nat
      BY FileKeyOK DEF SizesInv, LocalsOK
    <3> QED
      BY <3>1, <3>2, <3>3
  <2>8. \A k : k # l => PendingIn(heap', k) = Pending(k) /\ OfKey(k) \ heap' = OfKey(k) \ heap
    BY <2>3, <2>4, <2>5, PendingCounts DEF OfKey
  <2>9. Cardinality(PendingIn(heap', l)) = Cardinality(Pending(l)) - 1 /\ Cardinality(Pending(l)) \in Nat
    BY <2>1, <2>3, <2>4, <2>5, PendingCounts
  <2>10. ASSUME Quiet(sizes[l].val)
         PROVE  /\ Cardinality(PendingIn(heap', l)) + sizes'[l].nb_checksumed = sizes[l].nb_files
                /\ \A n \in 1..sizes'[l].nb_checksumed : Right(l, sizes'[l].chksum_array[n])
                /\ \A g \in OfKey(l) \ heap' :
                     g \in tmp_heap' /\ \E n \in 1..sizes'[l].nb_checksumed : sizes'[l].chksum_array[n].file = g
    <3> DEFINE n == sizes[l].nb_checksumed
    <3>1. st = "ok" /\ chk = Chk(l, f)
      BY <2>2, <2>7, <2>10
    <3>2. n = sizes[l].nb_checksumed
      OBVIOUS
    <3> HIDE DEF n
    <3>3. /\ n \in Nat /\ sizes'[l].nb_checksumed = n + 1
          /\ sizes'[l].chksum_array[n + 1] = [file |-> f, chk |-> chk]
          /\ \A m \in 1..n : sizes'[l].chksum_array[m] = sizes[l].chksum_array[m]
      <4>1. FillSlot(f, chk, "ok")
        BY <2>2, <3>1
      <4>2. phase = "checksum" /\ f \in heap
        BY <2>1
      <4> QED
        <5>1. f \in Files /\ chk \in {Unread, Wild, HashOf[content[f]]}
          OBVIOUS
        <5>2. f \in heap /\ phase = "checksum" /\ SizesInv
          BY <4>2
        <5> QED
          BY <2>3, <3>2, <4>1, <5>1, <5>2, SlotFilled
    <3>4. /\ Cardinality(Pending(l)) + n = sizes[l].nb_files
          /\ \A m \in 1..n : Right(l, sizes[l].chksum_array[m])
          /\ \A g \in OfKey(l) \ heap :
               g \in tmp_heap /\ \E m \in 1..n : sizes[l].chksum_array[m].file = g
      BY <1>0, <2>1, <2>4, <2>10, <3>2
    <3>5. Cardinality(PendingIn(heap', l)) + (n + 1) = sizes[l].nb_files
      BY <2>9, <3>3, <3>4
    <3>6. Right(l, [file |-> f, chk |-> chk])
      BY <2>1, <2>3, <2>5, <3>1 DEF Right, OfKey
    <3>7. \A m \in 1..(n + 1) : Right(l, sizes'[l].chksum_array[m])
      <4>1. \A m \in 1..(n + 1) : m = n + 1 \/ m \in 1..n
        BY <3>3
      <4> QED
        BY <3>3, <3>4, <3>6, <4>1
    <3>8. ASSUME NEW g \in OfKey(l) \ heap'
          PROVE  g \in tmp_heap' /\ \E m \in 1..(n + 1) : sizes'[l].chksum_array[m].file = g
      <4>1. 1..n \subseteq 1..(n + 1) /\ n + 1 \in 1..(n + 1)
        BY <3>3
      <4>2. CASE g = f
        BY <2>4, <3>1, <3>3, <4>1, <4>2
      <4>3. CASE g # f
        BY <2>4, <3>1, <3>3, <3>4, <3>8, <4>1, <4>3
      <4> QED
        BY <4>2, <4>3
    <3> QED
      BY <3>3, <3>5, <3>7, <3>8
  <2>11. status' = "error" => \E g \in Faulty' \cap given : \A h \in heap' : Size(h) <= Size(g)
    BY <2>1, <2>2, <2>4, <2>6 DEF Faulty
  <2> QED
    <3>1. /\ DOMAIN sizes' \subseteq DOMAIN sizes
          /\ \A k \in DOMAIN sizes' : sizes'[k].nb_files = sizes[k].nb_files /\ sizes'[k].val = sizes[k].val
      BY <2>4
    <3>2. \A k \in DOMAIN sizes' : Quiet(sizes[k].val) =>
             /\ Cardinality(PendingIn(heap', k)) + sizes'[k].nb_checksumed = sizes[k].nb_files
             /\ \A n \in 1..sizes'[k].nb_checksumed : Right(k, sizes'[k].chksum_array[n])
             /\ \A g \in OfKey(k) \ heap' :
                  g \in tmp_heap' /\ \E n \in 1..sizes'[k].nb_checksumed : sizes'[k].chksum_array[n].file = g
      <4> SUFFICES ASSUME NEW k \in DOMAIN sizes', Quiet(sizes[k].val)
                   PROVE  /\ Cardinality(PendingIn(heap', k)) + sizes'[k].nb_checksumed = sizes[k].nb_files
                          /\ \A n \in 1..sizes'[k].nb_checksumed : Right(k, sizes'[k].chksum_array[n])
                          /\ \A g \in OfKey(k) \ heap' :
                               g \in tmp_heap' /\ \E n \in 1..sizes'[k].nb_checksumed : sizes'[k].chksum_array[n].file = g
        OBVIOUS
      <4>1. CASE k = l
        BY <2>10, <4>1
      <4>2. CASE k # l
        <5>1. sizes'[k] = sizes[k] /\ k \in DOMAIN sizes
          BY <2>4, <4>2
        <5>2. tmp_heap \subseteq tmp_heap'
          BY <2>4
        <5> QED
          BY <1>0, <2>1, <2>8, <4>2, <5>1, <5>2
      <4> QED
        BY <4>1, <4>2
    <3> QED
      BY <2>1, <2>11, <3>1, <3>2, FilledFollow
<1> QED
  BY <1>4, <1>5, <1>6, <1>7, <1>8, <1>9, <1>10, StepKinds DEF Bystander

--------------------------------------------------------------------------------
(* The slots stay full until the report comes to them. *)

\* What the sorting makes of an entry.
LEMMA SortStep ==
  ASSUME SizesInv, NEW f \in Files, NextSize(f)
  PROVE  LET k == FileKey(f)
             a == sizes[k].chksum_array
             b == sizes'[k].chksum_array
         IN  /\ k \in DOMAIN sizes /\ DOMAIN sizes' = DOMAIN sizes
             /\ \A l \in DOMAIN sizes : l # k => sizes'[l] = sizes[l]
             /\ sizes'[k].nb_checksumed = sizes[k].nb_checksumed
             /\ DOMAIN a = 1..sizes[k].nb_files /\ DOMAIN b = DOMAIN a
             /\ \A x \in DOMAIN b : \E y \in DOMAIN a : b[x] = a[y]
             /\ \A y \in DOMAIN a : \E x \in DOMAIN b : b[x] = a[y]
             /\ Sorted(b, chksum_array_sz(sizes[k]))
<1> DEFINE k == FileKey(f)
           a == sizes[k].chksum_array
           n == chksum_array_sz(sizes[k])
<1>1. PICK b \in SortedForms(a, n) : sizes' = [sizes EXCEPT ![k] = [sizes[k] EXCEPT !.chksum_array = b]]
  BY DEF NextSize
<1>2. f \in heap /\ phase = "report"
  BY DEF NextSize, NewSize, Largest
<1>3. k \in DOMAIN sizes /\ EntryOK(sizes[k]) /\ a # <<>>
  BY <1>2 DEF SizesInv, TableOK, HeapsInTable, EntryOK
<1>4. a \in Seq(Slots) /\ n \in 0..Len(a) /\ Len(a) = sizes[k].nb_files
  BY <1>3 DEF EntryOK, Entries, chksum_array_sz
<1>5. /\ b \in Seq(Slots) /\ Len(b) = Len(a) /\ DOMAIN b = DOMAIN a
      /\ \E p \in [DOMAIN a -> DOMAIN a] :
           /\ \A x, y \in DOMAIN a : p[x] = p[y] => x = y
           /\ \A x \in DOMAIN a : b[x] = a[p[x]]
      /\ Sorted(b, n)
  <2> HIDE DEF a, n
  <2>1. a \in Seq(Slots) /\ n \in 0..Len(a) /\ b \in SortedForms(a, n)
    BY <1>4
  <2> HIDE DEF Slots
  <2> QED
    BY <2>1, SortedFormsOK
<1> DEFINE e == [sizes[k] EXCEPT !.chksum_array = b]
<1>6. e.chksum_array = b /\ e.nb_checksumed = sizes[k].nb_checksumed
  BY <1>3, <1>5, ArrayReplaced
<1>7. DOMAIN a = 1..sizes[k].nb_files
  BY <1>4
<1> HIDE DEF k, a, n, e
<1>8. DOMAIN sizes' = DOMAIN sizes /\ sizes'[k] = e /\ \A l \in DOMAIN sizes : l # k => sizes'[l] = sizes[l]
  BY <1>1, <1>3, EntryReplaced DEF e
<1>9. PICK p \in [DOMAIN a -> DOMAIN a] :
        /\ \A x, y \in DOMAIN a : p[x] = p[y] => x = y
        /\ \A x \in DOMAIN a : b[x] = a[p[x]]
  BY <1>5
<1>10. \A y \in DOMAIN a : \E x \in DOMAIN a : p[x] = y
  <2>1. p \in Injection(DOMAIN a, DOMAIN a)
    BY <1>9 DEF Injection, IsInjective
  <2>2. IsFiniteSet(DOMAIN a)
    <3>1. sizes[k].nb_files \in Nat
      BY <1>3 DEF EntryOK, Entries
    <3> QED
      BY <1>7, <3>1, FS_Interval
  <2>3. p \in Surjection(DOMAIN a, DOMAIN a)
    BY <2>1, <2>2, FS_Injection
  <2> QED
    BY <2>3 DEF Surjection
<1>11. \A y \in DOMAIN a : \E x \in DOMAIN b : b[x] = a[y]
  BY <1>5, <1>9, <1>10
<1>12. \A x \in DOMAIN b : \E y \in DOMAIN a : b[x] = a[y]
  BY <1>5, <1>9
<1>13. b = sizes'[k].chksum_array
  BY <1>6, <1>8
<1>14. sizes'[k].nb_checksumed = sizes[k].nb_checksumed
  BY <1>6, <1>8
<1> QED
  BY <1>3, <1>5, <1>7, <1>8, <1>11, <1>12, <1>13, <1>14 DEF k, a, n

\* What the printing of a twin makes of the table.
LEMMA MarkStep ==
  ASSUME LocalsOK, TableOK, HeapsInTable, RowsOK, PrintTwin
  PROVE  /\ key \in DOMAIN sizes /\ DOMAIN sizes' = DOMAIN sizes
         /\ \A l \in DOMAIN sizes : l # key => sizes'[l] = sizes[l]
         /\ sizes'[key].nb_checksumed = sizes[key].nb_checksumed
         /\ j \in DOMAIN array /\ DOMAIN array' = DOMAIN array /\ key' = key
         /\ array' = sizes'[key].chksum_array
         /\ array'[j] = [file |-> Null, chk |-> array[j].chk]
         /\ \A n \in DOMAIN array : n # j => array'[n] = array[n]
<1>1. /\ key \in DOMAIN sizes /\ MarkedArray \in Seq(Slots) /\ Len(MarkedArray) = Len(array)
      /\ j \in DOMAIN array
      /\ sizes' = [sizes EXCEPT ![key] = [sizes[key] EXCEPT !.chksum_array = MarkedArray]]
  BY MarkedReplaces
<1>2. EntryOK(sizes[key])
  BY <1>1 DEF TableOK
<1> DEFINE e == [sizes[key] EXCEPT !.chksum_array = MarkedArray]
<1>3. e.chksum_array = MarkedArray /\ e.nb_checksumed = sizes[key].nb_checksumed
  BY <1>1, <1>2, ArrayReplaced DEF array
<1> HIDE DEF e
<1>4. DOMAIN sizes' = DOMAIN sizes /\ sizes'[key] = e /\ \A l \in DOMAIN sizes : l # key => sizes'[l] = sizes[l]
  BY <1>1, EntryReplaced DEF e
<1>5. key' = key
  BY DEF PrintTwin
<1>6. array' = MarkedArray /\ array' = sizes'[key].chksum_array
  BY <1>3, <1>4, <1>5 DEF array
<1>7. /\ DOMAIN MarkedArray = DOMAIN array
      /\ MarkedArray[j] = [file |-> Null, chk |-> array[j].chk]
      /\ \A n \in DOMAIN array : n # j => MarkedArray[n] = array[n]
  BY <1>1 DEF MarkedArray
<1> QED
  BY <1>1, <1>3, <1>4, <1>5, <1>6, <1>7

LEMMA FullFollow ==
  ASSUME SizesInv, RowsOK, [Next]_vars, content' = content, given' = given,
         DOMAIN sizes' \subseteq DOMAIN sizes,
         \A k \in DOMAIN sizes' : sizes'[k].nb_files = sizes[k].nb_files /\ sizes'[k].val = sizes[k].val,
         phase' = "report" => \A k \in DOMAIN sizes' : Quiet(sizes[k].val) =>
           /\ sizes'[k].nb_checksumed = sizes[k].nb_files
           /\ \A n \in DOMAIN sizes'[k].chksum_array :
                sizes'[k].chksum_array[n].file # Null => Right(k, sizes'[k].chksum_array[n])
           /\ old_size' = -1 \/ sizes[k].val < old_size' =>
                /\ \A n \in DOMAIN sizes'[k].chksum_array : sizes'[k].chksum_array[n].file # Null
                /\ \A f \in OfKey(k) :
                     f \in heap' /\ \E n \in DOMAIN sizes'[k].chksum_array : sizes'[k].chksum_array[n].file = f
  PROVE  FullInv'
<1>1. \A k \in DOMAIN sizes' : Quiet(sizes[k].val)' => Quiet(sizes[k].val)
  <2> SUFFICES ASSUME NEW k \in DOMAIN sizes', \A g \in Faulty' \cap given' : Size(g)' < sizes'[k].val
               PROVE  Quiet(sizes[k].val)
    BY DEF Quiet
  <2> QED
    BY QuietBefore
<1>2. \A k : OfKey(k)' = OfKey(k)
  BY DEF OfKey, FileKey, Size
<1>3. \A k \in DOMAIN sizes' : \A f : Chk(k, f)' = Chk(k, f)
  BY DEF Chk, NeedsChecksum
<1>4. \A k \in DOMAIN sizes' : \A slot : Right(k, slot)' <=> Right(k, slot)
  BY <1>2, <1>3 DEF Right
<1>5. \A k \in DOMAIN sizes' : \A n : Right(k, sizes'[k].chksum_array[n]) => Right(k, sizes[k].chksum_array[n])'
  BY <1>4
<1> QED
  BY <1>1, <1>2, <1>5 DEF FullInv

LEMMA FullInvStep ==
  ASSUME SizesApart, SizesInv, RowsOK, SlotsInv, ReportInv, GivenInv, FilledInv, FullInv, [Next]_vars
  PROVE  FullInv'
<1>0. phase = "report" => \A k \in DOMAIN sizes : Quiet(sizes[k].val) =>
        /\ sizes[k].nb_checksumed = sizes[k].nb_files
        /\ \A n \in DOMAIN sizes[k].chksum_array :
             sizes[k].chksum_array[n].file # Null => Right(k, sizes[k].chksum_array[n])
        /\ old_size = -1 \/ sizes[k].val < old_size =>
             /\ \A n \in DOMAIN sizes[k].chksum_array : sizes[k].chksum_array[n].file # Null
             /\ \A f \in OfKey(k) :
                  f \in heap /\ \E n \in DOMAIN sizes[k].chksum_array : sizes[k].chksum_array[n].file = f
  BY DEF FullInv
<1>a. /\ given \subseteq Files
      /\ \A f \in given : Size(f) \in Nat /\ (FileKey(f) \in DOMAIN sizes => sizes[FileKey(f)].val = Size(f))
      /\ \A k \in DOMAIN sizes : sizes[k].val \in Nat
      /\ old_size \in Nat \cup {-1}
      /\ heap \subseteq given
  BY SizeOfEntry, FileKeyOK DEF SizesInv, LocalsOK, TableOK, EntryOK, Entries, GivenInv
<1>1. ASSUME phase' # "report"
      PROVE  FullInv'
  BY <1>1 DEF FullInv
<1>2. ASSUME phase = "report", UNCHANGED <<given, content, sizes, heap, old_size>>
      PROVE  FullInv'
  BY <1>0, <1>2, FullFollow
<1>3. CASE UNCHANGED vars
  <2>1. UNCHANGED <<phase, given, content, sizes, heap, old_size>>
    BY <1>3 DEF vars, world, scan
  <2> QED
    BY <1>1, <1>2, <2>1
<1>4. ASSUME NEW f \in Files, \/ Vanish(f) \/ AddFails(f) \/ UntarToChecksum(f) \/ UntarToChecksumFails(f)
                              \/ NextSizeReadsNull(f) \/ AddFile(f) \/ DropSingle(f)
                              \/ KeepUnread(f) \/ Checksum(f) \/ ChecksumFails(f)
      PROVE  FullInv'
  <2>1. \/ UNCHANGED <<phase, given, content, sizes, heap, old_size>>
        \/ phase' # "report"
    BY <1>4 DEF Vanish, AddFails, UntarToChecksum, UntarToChecksumFails, UntarFails, NextSizeReadsNull,
                AddFile, DropSingle, KeepUnread, Checksum, ChecksumFails, ToChecksum, Chosen, world, scan
  <2> QED
    BY <1>1, <1>2, <2>1
<1>5. CASE EndCollect \/ NextRow \/ EndSize \/ ReadUnwrittenRow \/ UntarRow \/ UntarRowFails \/ ReadMissingColumn
           \/ UntarColumn \/ UntarColumnFails \/ SkipDifferent \/ EndReport
  <2>1. \/ UNCHANGED <<phase, given, content, sizes, heap, old_size>> /\ phase = "report"
        \/ phase' # "report"
    BY <1>5 DEF EndCollect, NextRow, EndSize, ReadUnwrittenRow, UntarRow, UntarRowFails, ReadMissingColumn,
                UntarColumn, UntarColumnFails, SkipDifferent, EndReport, UntarFails,
                Comparable, RowHasPath, Matched, InRow, world, scan
  <2> QED
    BY <1>1, <1>2, <2>1
<1>6. ASSUME NEW f \in Files, SameSize(f)
      PROVE  FullInv'
  <2>1. /\ UNCHANGED <<phase, given, content, sizes, old_size>> /\ phase = "report" /\ Size(f) = old_size
        /\ heap' = heap \ {f}
    BY <1>6 DEF SameSize, Extracted, world, scan
  <2>2. ASSUME NEW k \in DOMAIN sizes, old_size = -1 \/ sizes[k].val < old_size
        PROVE  f \notin OfKey(k)
    BY <1>a, <2>1, <2>2 DEF OfKey
  <2> QED
    BY <1>0, <2>1, <2>2, FullFollow
<1>7. CASE EndChecksum
  <2>1. /\ UNCHANGED <<given, content, sizes, old_size>> /\ phase = "checksum" /\ heap = {} /\ heap' = tmp_heap
    BY <1>7 DEF EndChecksum, world, scan
  <2> SUFFICES ASSUME NEW k \in DOMAIN sizes, Quiet(sizes[k].val)
               PROVE  /\ sizes[k].nb_checksumed = sizes[k].nb_files
                      /\ \A n \in DOMAIN sizes[k].chksum_array :
                           Right(k, sizes[k].chksum_array[n]) /\ sizes[k].chksum_array[n].file # Null
                      /\ \A f \in OfKey(k) :
                           f \in tmp_heap /\ \E n \in DOMAIN sizes[k].chksum_array : sizes[k].chksum_array[n].file = f
    BY <2>1, FullFollow
  <2>2. /\ Cardinality(Pending(k)) + sizes[k].nb_checksumed = sizes[k].nb_files
        /\ \A n \in 1..sizes[k].nb_checksumed : Right(k, sizes[k].chksum_array[n])
        /\ \A f \in OfKey(k) :
             f \in tmp_heap /\ \E n \in 1..sizes[k].nb_checksumed : sizes[k].chksum_array[n].file = f
    BY <2>1 DEF FilledInv
  <2>3. Cardinality(Pending(k)) = 0
    <3>1. Pending(k) = {}
      BY <2>1 DEF Pending, PendingIn
    <3> QED
      BY <3>1, FS_EmptySet
  <2>4. EntryOK(sizes[k])
    BY DEF SizesInv, TableOK
  <2>5. sizes[k].nb_checksumed = sizes[k].nb_files
    BY <2>2, <2>3, <2>4 DEF EntryOK, Entries
  <2>6. DOMAIN sizes[k].chksum_array = {} \/ DOMAIN sizes[k].chksum_array = 1..sizes[k].nb_files
    BY <2>4 DEF EntryOK, Entries
  <2>7. \A n \in 1..sizes[k].nb_checksumed : n \in DOMAIN sizes[k].chksum_array
    <3> SUFFICES ASSUME NEW n \in 1..sizes[k].nb_checksumed
                 PROVE  n \in DOMAIN sizes[k].chksum_array
      OBVIOUS
    <3>1. sizes[k].nb_checksumed >= 1
      BY <2>4 DEF EntryOK, Entries
    <3>2. Len(sizes[k].chksum_array) = sizes[k].nb_files /\ sizes[k].chksum_array \in Seq(Slots)
      BY <2>4, <3>1 DEF EntryOK, Entries
    <3> QED
      BY <2>5, <3>2
  <2>8. \A n \in DOMAIN sizes[k].chksum_array : Right(k, sizes[k].chksum_array[n])
    BY <2>2, <2>5, <2>6
  <2>9. \A n \in DOMAIN sizes[k].chksum_array : sizes[k].chksum_array[n].file # Null
    BY <1>a, <2>8, TwinFinderAssumption DEF Right, OfKey
  <2> QED
    BY <2>2, <2>5, <2>7, <2>8, <2>9
<1>8. ASSUME NEW f \in Files, NextSize(f)
      PROVE  FullInv'
  <2> DEFINE l == FileKey(f)
             a == sizes[l].chksum_array
             b == sizes'[l].chksum_array
  <2>1. /\ UNCHANGED <<phase, given, content>> /\ phase = "report"
        /\ f \in heap /\ heap' = heap \ {f} /\ old_size' = Size(f) /\ Size(f) # old_size
        /\ \A g \in heap : Size(g) <= Size(f)
    BY <1>8 DEF NextSize, NewSize, Extracted, Largest, world
  <2>2. /\ l \in DOMAIN sizes /\ DOMAIN sizes' = DOMAIN sizes
        /\ \A k \in DOMAIN sizes : k # l => sizes'[k] = sizes[k]
        /\ sizes'[l].nb_checksumed = sizes[l].nb_checksumed
        /\ DOMAIN b = DOMAIN a
        /\ \A x \in DOMAIN b : \E y \in DOMAIN a : b[x] = a[y]
    BY <1>8, SortStep
  <2>3. sizes[l].val = Size(f) /\ Size(f) \in Nat
    BY <1>a, <2>1, <2>2
  <2>4. old_size = -1 \/ Size(f) < old_size
    <3>1. old_size # -1 => Size(f) <= old_size
      BY <2>1 DEF ReportInv
    <3> QED
      BY <1>a, <2>1, <2>3, <3>1
  <2>5. /\ DOMAIN sizes' \subseteq DOMAIN sizes
        /\ \A k \in DOMAIN sizes' : sizes'[k].nb_files = sizes[k].nb_files /\ sizes'[k].val = sizes[k].val
    <3>1. ~ \E g \in Files : AddFile(g)
      BY <2>1 DEF AddFile
    <3> QED
      BY <3>1, GivenStays
  <2>6. ASSUME NEW k \in DOMAIN sizes', Quiet(sizes[k].val)
        PROVE  /\ sizes'[k].nb_checksumed = sizes[k].nb_files
               /\ \A n \in DOMAIN sizes'[k].chksum_array :
                    sizes'[k].chksum_array[n].file # Null => Right(k, sizes'[k].chksum_array[n])
               /\ old_size' = -1 \/ sizes[k].val < old_size' =>
                    /\ \A n \in DOMAIN sizes'[k].chksum_array : sizes'[k].chksum_array[n].file # Null
                    /\ \A g \in OfKey(k) :
                         g \in heap' /\ \E n \in DOMAIN sizes'[k].chksum_array : sizes'[k].chksum_array[n].file = g
    <3>1. CASE k = l
      <4>1. ~(old_size' = -1 \/ sizes[k].val < old_size')
        BY <2>1, <2>3, <3>1
      <4> HIDE DEF l
      <4>2. /\ sizes[l].nb_checksumed = sizes[l].nb_files
            /\ \A y \in DOMAIN a : a[y].file # Null => Right(l, a[y])
        BY <1>0, <2>1, <2>2, <2>6, <3>1
      <4> HIDE DEF a, b
      <4>3. \A x \in DOMAIN b : b[x].file # Null => Right(l, b[x])
        BY <2>2, <4>2
      <4> QED
        BY <2>2, <3>1, <4>1, <4>2, <4>3 DEF b
    <3>2. CASE k # l
      <4> HIDE DEF l
      <4>1. sizes'[k] = sizes[k] /\ k \in DOMAIN sizes
        BY <2>2, <2>6, <3>2
      <4>2. f \notin OfKey(k)
        BY <3>2 DEF OfKey, l
      <4>3. sizes[k].val < Size(f) /\ old_size # -1 => sizes[k].val < old_size
        BY <1>a, <2>3, <2>4, <4>1
      <4>4. /\ sizes[k].nb_checksumed = sizes[k].nb_files
            /\ \A n \in DOMAIN sizes[k].chksum_array :
                 sizes[k].chksum_array[n].file # Null => Right(k, sizes[k].chksum_array[n])
            /\ sizes[k].val < Size(f) =>
                 /\ \A n \in DOMAIN sizes[k].chksum_array : sizes[k].chksum_array[n].file # Null
                 /\ \A g \in OfKey(k) :
                      g \in heap /\ \E n \in DOMAIN sizes[k].chksum_array : sizes[k].chksum_array[n].file = g
        BY <1>0, <2>1, <2>6, <4>1, <4>3
      <4>5. old_size' = Size(f) /\ old_size' # -1
        BY <2>1, <2>3
      <4> QED
        BY <2>1, <4>1, <4>2, <4>4, <4>5
    <3> QED
      BY <3>1, <3>2
  <2> QED
    BY <2>1, <2>5, <2>6, FullFollow
<1>9. CASE PrintTwin
  <2>1. /\ UNCHANGED <<phase, given, content, heap, old_size>> /\ phase = "report" /\ key # None
    BY <1>9 DEF PrintTwin, Comparable, RowHasPath, Matched, InRow, world
  <2>2. /\ key \in DOMAIN sizes /\ DOMAIN sizes' = DOMAIN sizes
        /\ \A l \in DOMAIN sizes : l # key => sizes'[l] = sizes[l]
        /\ sizes'[key].nb_checksumed = sizes[key].nb_checksumed
        /\ j \in DOMAIN array /\ DOMAIN array' = DOMAIN array
        /\ array' = sizes'[key].chksum_array
        /\ array'[j] = [file |-> Null, chk |-> array[j].chk]
        /\ \A n \in DOMAIN array : n # j => array'[n] = array[n]
    BY <1>9, MarkStep DEF SizesInv
  <2>3. \A k \in DOMAIN sizes' : sizes'[k].nb_files = sizes[k].nb_files /\ sizes'[k].val = sizes[k].val
    <3>1. ~ \E g \in Files : AddFile(g)
      BY <2>1 DEF AddFile
    <3> QED
      BY <3>1, GivenStays
  <2>4. sizes[key].val = old_size /\ old_size \in Nat
    <3>1. j \in DOMAIN array /\ array[j].file \in Files
      BY <1>9, ComparableIsPair DEF PrintTwin, SizesInv
    <3> QED
      BY <2>1, <3>1, SlotsOfSize
  <2>5. ASSUME Quiet(sizes[key].val)
        PROVE  /\ sizes'[key].nb_checksumed = sizes[key].nb_files
               /\ \A n \in DOMAIN array' : array'[n].file # Null => Right(key, array'[n])
    <3>1. /\ sizes[key].nb_checksumed = sizes[key].nb_files
          /\ \A n \in DOMAIN array : array[n].file # Null => Right(key, array[n])
      BY <1>0, <2>1, <2>2, <2>5 DEF array
    <3> QED
      BY <2>2, <3>1
  <2>6. ~(old_size' = -1 \/ sizes[key].val < old_size')
    BY <2>1, <2>4
  <2>7. ASSUME NEW k \in DOMAIN sizes', Quiet(sizes[k].val)
        PROVE  /\ sizes'[k].nb_checksumed = sizes[k].nb_files
               /\ \A n \in DOMAIN sizes'[k].chksum_array :
                    sizes'[k].chksum_array[n].file # Null => Right(k, sizes'[k].chksum_array[n])
               /\ old_size' = -1 \/ sizes[k].val < old_size' =>
                    /\ \A n \in DOMAIN sizes'[k].chksum_array : sizes'[k].chksum_array[n].file # Null
                    /\ \A g \in OfKey(k) :
                         g \in heap' /\ \E n \in DOMAIN sizes'[k].chksum_array : sizes'[k].chksum_array[n].file = g
    <3>1. CASE k = key
      BY <2>2, <2>5, <2>6, <2>7, <3>1
    <3>2. CASE k # key
      <4>1. sizes'[k] = sizes[k] /\ k \in DOMAIN sizes
        BY <2>2, <2>7, <3>2
      <4> QED
        BY <1>0, <2>1, <2>7, <4>1
    <3> QED
      BY <3>1, <3>2
  <2> QED
    BY <2>1, <2>2, <2>3, <2>7, FullFollow
<1> QED
  BY <1>3, <1>4, <1>5, <1>6, <1>7, <1>8, <1>9, StepKinds DEF Bystander

--------------------------------------------------------------------------------
(* What is reported in full stays so, and the last group grows. *)

LEMMA SettledFollow ==
  ASSUME SizesInv, RowsOK, [Next]_vars, content' = content, given' = given,
         phase' = "report" => \A f \in given :
           Quiet(Size(f)) /\ old_size' # -1 /\ Size(f) >= old_size' /\ (key' = None \/ Size(f) # old_size')
             => Settled(f)',
         phase' = "report" /\ key' # None /\ Quiet(old_size') => RowInv',
         phase' = "done" => \A f \in given : Quiet(Size(f)) => Settled(f)'
  PROVE  SettledInv'
<1>1. \A f : Size(f)' = Size(f)
  BY DEF Size
<1>2. ASSUME NEW f \in given, \A g \in Faulty' \cap given' : Size(g)' < Size(f)
      PROVE  Quiet(Size(f))
  BY <1>2, QuietBefore
<1>3. ASSUME \A g \in Faulty' \cap given' : Size(g)' < old_size'
      PROVE  Quiet(old_size')
  BY <1>3, QuietBefore
<1>4. \A f \in given : Quiet(Size(f))' => Quiet(Size(f))
  BY <1>1, <1>2 DEF Quiet
<1>5. Quiet(old_size)' => Quiet(old_size')
  BY <1>3 DEF Quiet
<1> QED
  BY <1>1, <1>4, <1>5 DEF SettledInv, ComeTo

\* The two files of a pair that is printed have one content, if the second can be read.
LEMMA TwinPrinted ==
  ASSUME SizesApart, OneEmptyContent, SizesInv, RowsOK, SlotsInv, ReportInv, PrintTwin,
         NEW f, f = array[i].file, NEW g, g = array[j].file, g \notin Unreliable
  PROVE  content[f] = content[g]
<1>1. /\ f \in Files /\ g \in Files
      /\ Size(f) = old_size /\ Size(g) = old_size /\ sizes[key].val = old_size
      /\ FilesMayMatch(f, g)
  BY PairOfSize DEF PrintTwin
<1>2. content[f] \in Contents /\ content[g] \in Contents
  BY <1>1 DEF SizesInv, LocalsOK
<1>3. CASE sizes[key].val = 0
  BY <1>1, <1>2, <1>3 DEF Size, OneEmptyContent
<1>4. CASE sizes[key].val # 0
  BY <1>1, <1>4 DEF FilesMayMatch
<1> QED
  BY <1>3, <1>4

\* The printed twin joins the group of the row, and the other groups stay.
LEMMA LastGroupGrows ==
  ASSUME SizesApart, SizesInv, RowsOK, SlotsInv, ReportInv, PrintedOnce, PrintTwin
  PROVE  /\ LastGroup' = LastGroup \cup {array[j].file}
         /\ already_printed => array[i].file \in LastGroup
         /\ \A n \in DOMAIN groups : ~(already_printed /\ n = Len(groups)) =>
              n \in DOMAIN groups' /\ groups'[n] = groups[n]
<1>0. PICK f \in Files, g \in Files : f = array[i].file /\ g = array[j].file
  BY PairOfSize DEF PrintTwin
<1> DEFINE L == Len(groups)
<1>1. /\ groups' = Printed(f, g) /\ already_printed' = TRUE
      /\ GroupsTyped /\ (already_printed => groups # <<>>) /\ L = Len(groups)
      /\ already_printed => f = groups[L][1]
  BY <1>0, PairOfSize DEF PrintTwin, ReportInv, SizesInv, LocalsOK, GroupsTyped
<1>a. LastGroup' = Members(groups'[Len(groups')])
  BY <1>1 DEF LastGroup, Members
<1> HIDE DEF L
<1>2. CASE already_printed
  <2>1. /\ L \in Nat /\ DOMAIN groups = 1..L /\ DOMAIN groups' = 1..L /\ L \in 1..L /\ Len(groups') = L
        /\ \A n \in 1..L : n # L => groups'[n] = groups[n]
        /\ DOMAIN groups[L] = 1..Len(groups[L]) /\ Len(groups[L]) \in Nat
        /\ DOMAIN groups'[L] = 1..(Len(groups[L]) + 1)
        /\ \A x \in DOMAIN groups[L] : groups'[L][x] = groups[L][x]
        /\ groups'[L][Len(groups[L]) + 1] = g
    BY <1>1, <1>2, GroupGoesOn
  <2>2. LastGroup = Members(groups[L])
    BY <1>1, <1>2 DEF LastGroup, Members
  <2>3. Members(groups'[L]) = Members(groups[L]) \cup {g}
    <3> DEFINE s == groups[L]
               t == groups'[L]
               m == Len(s)
    <3>1. /\ m \in Nat /\ DOMAIN s = 1..m /\ DOMAIN t = 1..(m + 1)
          /\ (\A x \in 1..m : t[x] = s[x]) /\ t[m + 1] = g
      BY <2>1
    <3> HIDE DEF s, t, m
    <3>2. Members(t) = Members(s) \cup {g}
      <4>1. \A x \in 1..(m + 1) : x \in 1..m \/ x = m + 1
        BY <3>1
      <4>2. 1..m \subseteq 1..(m + 1) /\ m + 1 \in 1..(m + 1)
        BY <3>1
      <4> QED
        BY <3>1, <4>1, <4>2 DEF Members
    <3> QED
      BY <3>2 DEF s, t
  <2>4. f \in Members(groups[L])
    <3>1. Len(groups[L]) >= 2
      BY <2>1 DEF PrintedOnce
    <3> QED
      BY <1>1, <1>2, <2>1, <3>1 DEF Members
  <2> QED
    BY <1>0, <1>1, <1>2, <1>a, <2>1, <2>2, <2>3, <2>4
<1>3. CASE ~already_printed
  <2>1. /\ L \in Nat /\ DOMAIN groups = 1..L /\ DOMAIN groups' = 1..(L + 1) /\ Len(groups') = L + 1
        /\ \A n \in 1..L : groups'[n] = groups[n]
        /\ groups'[L + 1] = <<f, g>>
    BY <1>1, <1>3, GroupBegins
  <2>2. LastGroup = {f}
    BY <1>0, <1>3 DEF LastGroup
  <2>3. Members(<<f, g>>) = {f, g}
    BY DEF Members
  <2> QED
    BY <1>0, <1>a, <1>3, <2>1, <2>2, <2>3
<1> QED
  BY <1>2, <1>3

\* A file that is settled stays settled, unless files of its size have vanished.
LEMMA SettledStays ==
  ASSUME SizesApart, OneEmptyContent, SizesInv, RowsOK, SlotsInv, ReportInv, PrintedOnce, FullInv, PrintTwin,
         NEW f \in given, Settled(f), Size(f) # old_size \/ Quiet(old_size)
  PROVE  Settled(f)'
<1>0. PICK p \in Files, g \in Files : p = array[i].file /\ g = array[j].file
  BY PairOfSize DEF PrintTwin
<1>1. /\ phase = "report" /\ key # None /\ j \in DOMAIN array
      /\ Size(p) = old_size /\ ~IsReported(groups, g) /\ sizes[key].val = old_size
  BY <1>0, PairOfSize DEF PrintTwin
<1>2. given' = given /\ content' = content
  BY DEF PrintTwin, world
<1>3. Class(f)' = Class(f)
  BY <1>2 DEF Class
<1>4. CASE Class(f) = {f}
  BY <1>3, <1>4 DEF Settled
<1>5. CASE ReportedInFull(Class(f))
  <2>1. PICK n \in DOMAIN groups : Members(groups[n]) = Class(f)
    BY <1>5 DEF ReportedInFull
  <2>2. CASE already_printed /\ n = Len(groups)
    <3>1. LastGroup = Class(f) /\ p \in Class(f)
      BY <1>0, <2>1, <2>2, LastGroupGrows DEF LastGroup
    <3>2. content[p] = content[f] /\ Size(f) = old_size
      BY <1>1, <3>1 DEF Class, Size
    <3>3. Right(key, array[j])
      <4>1. key \in DOMAIN sizes
        BY <1>1, ArrayAtHand DEF SizesInv
      <4>2. array[j].file # Null
        BY <1>0, TwinFinderAssumption
      <4> QED
        BY <1>1, <3>2, <4>1, <4>2 DEF FullInv, array
    <3>4. g \in Class(f)
      <4>1. g \in given /\ Size(g) = old_size
        BY <1>0, <3>3, PairOfSize DEF Right, OfKey, PrintTwin
      <4>2. ~(Size(g) < old_size)
        BY <4>1, TwinFinderAssumption DEF Size, SizesInv, LocalsOK
      <4>3. g \notin Unreliable
        BY <3>2, <4>1, <4>2 DEF Quiet, Faulty
      <4> QED
        BY <1>0, <3>2, <4>1, <4>3, TwinPrinted DEF Class
    <3>5. g \in Members(groups[n])
      BY <2>1, <3>4
    <3> QED
      BY <1>1, <3>5 DEF IsReported, Members
  <2>3. CASE ~(already_printed /\ n = Len(groups))
    <3>1. n \in DOMAIN groups' /\ groups'[n] = groups[n]
      BY <2>3, LastGroupGrows
    <3>2. Members(groups'[n]) = Class(f)
      BY <2>1, <3>1
    <3> QED
      BY <1>3, <3>1, <3>2 DEF Settled, ReportedInFull, Members
  <2> QED
    BY <2>2, <2>3
<1> QED
  BY <1>4, <1>5 DEF Settled

\* A file of a quiet size that the report has not come to is alone, if its entry was
\* dropped, or still in the heap.
LEMMA NotComeTo ==
  ASSUME SizesApart, SizesInv, SlotsInv, GivenInv, FullInv, phase = "report",
         NEW f \in given, Quiet(Size(f)), old_size = -1 \/ Size(f) < old_size
  PROVE  Class(f) = {f} \/ (f \in heap /\ FileKey(f) \in DOMAIN sizes)
<1>1. f \in Files
  BY DEF SizesInv, LocalsOK
<1>2. CASE FileKey(f) \in DOMAIN sizes
  <2>1. sizes[FileKey(f)].val = Size(f)
    BY <1>1, <1>2, SizeOfEntry
  <2>2. f \in OfKey(FileKey(f))
    BY DEF OfKey
  <2> QED
    BY <1>2, <2>1, <2>2 DEF FullInv
<1>3. CASE FileKey(f) \notin DOMAIN sizes
  <2>1. OfKey(FileKey(f)) = {f}
    BY <1>3 DEF GivenInv
  <2>2. Class(f) \subseteq OfKey(FileKey(f)) /\ f \in Class(f)
    BY DEF Class, OfKey, FileKey, Size
  <2> QED
    BY <2>1, <2>2
<1> QED
  BY <1>2, <1>3

\* What slots hold while the files of the size at hand are quiet.
LEMMA QuietSlots ==
  ASSUME SizesApart, SizesInv, SlotsInv, ReportInv, GivenInv, FullInv, phase = "report", key # None, Quiet(old_size)
  PROVE  /\ key \in DOMAIN sizes /\ sizes[key].val = old_size
         /\ DOMAIN array = 1..sizes[key].nb_files /\ sizes[key].nb_files \in Nat
         /\ \A n \in DOMAIN array : array[n].file # Null =>
              /\ array[n].file \in given /\ FileKey(array[n].file) = key /\ Size(array[n].file) = old_size
              /\ array[n].chk = Chk(key, array[n].file) /\ array[n].chk # Wild
         /\ given \subseteq Files /\ old_size \in Nat
         /\ \A f \in given : FileKey(f) = key <=> Size(f) = old_size
<1>1. /\ key \in DOMAIN sizes /\ DOMAIN array = 1..sizes[key].nb_files /\ sizes[key].nb_files \in Nat
      /\ given \subseteq Files
  BY ArrayAtHand DEF SizesInv, LocalsOK
<1>2. PICK c \in Contents : old_size = SizeOf[c] /\ key = Key(SizeOf[c])
  BY DEF ReportInv
<1>3. PICK d \in Contents : sizes[key].val = SizeOf[d] /\ key = Key(SizeOf[d])
  BY <1>1 DEF SlotsInv
<1>4. sizes[key].val = old_size /\ old_size \in Nat
  BY <1>2, <1>3, TwinFinderAssumption DEF SizesApart
<1>5. \A f \in given : content[f] \in Contents
  BY <1>1 DEF SizesInv, LocalsOK
<1>6. \A f \in given : FileKey(f) = key <=> Size(f) = old_size
  BY <1>2, <1>5 DEF SizesApart, FileKey, Size
<1>7. ASSUME NEW n \in DOMAIN array, array[n].file # Null
      PROVE  /\ array[n].file \in given /\ FileKey(array[n].file) = key /\ Size(array[n].file) = old_size
             /\ array[n].chk = Chk(key, array[n].file) /\ array[n].chk # Wild
  <2>1. Right(key, array[n])
    BY <1>1, <1>4, <1>7 DEF FullInv, array
  <2>2. array[n].file \in given /\ FileKey(array[n].file) = key /\ array[n].chk = Chk(key, array[n].file)
    BY <2>1 DEF Right, OfKey
  <2>3. Chk(key, array[n].file) # Wild
    BY <1>5, <2>2, TwinFinderAssumption DEF Chk
  <2> QED
    BY <1>6, <2>2, <2>3
<1> QED
  BY <1>1, <1>4, <1>6, <1>7

\* At such a size a twin that is printed is one.
LEMMA QuietTwin ==
  ASSUME SizesApart, OneEmptyContent, SizesInv, RowsOK, SlotsInv, ReportInv, GivenInv, FullInv, PrintTwin,
         Quiet(old_size), NEW p, p = array[i].file, NEW q, q = array[j].file
  PROVE  content[p] = content[q]
<1>1. phase = "report" /\ key # None /\ j \in DOMAIN array /\ q \in Files
  BY PairOfSize DEF PrintTwin
<1>2. q # Null
  BY <1>1, TwinFinderAssumption
<1>3. q \in given /\ Size(q) = old_size /\ old_size \in Nat
  BY <1>1, <1>2, QuietSlots
<1>4. ~(Size(q) < old_size)
  BY <1>3
<1>5. q \notin Unreliable
  BY <1>3, <1>4 DEF Quiet, Faulty
<1> QED
  BY <1>5, TwinPrinted

\* When a row ends no twin of its first file is ahead: they are all in the group.
LEMMA RowEnds ==
  ASSUME SizesApart, SizesInv, RowsOK, SlotsInv, ReportInv, GivenInv, FullInv, NextRow,
         Quiet(old_size), RowInv, array[i].file # Null
  PROVE  i \in DOMAIN array /\ Settled(array[i].file) /\ Class(array[i].file) = LastGroup
<1>1. /\ phase = "report" /\ key # None /\ i <= sizes[key].nb_files
      /\ \/ array[i].file = Wild
         \/ j > sizes[key].nb_files
         \/ j <= sizes[key].nb_files /\ (array[i].chk # array[j].chk \/ Wild \in {array[i].chk, array[j].chk})
  BY DEF NextRow, ChecksumsMayDiffer
<1>2. /\ key \in DOMAIN sizes /\ sizes[key].val = old_size
      /\ DOMAIN array = 1..sizes[key].nb_files /\ sizes[key].nb_files \in Nat
      /\ \A n \in DOMAIN array : array[n].file # Null =>
           /\ array[n].file \in given /\ FileKey(array[n].file) = key
           /\ array[n].chk = Chk(key, array[n].file) /\ array[n].chk # Wild
      /\ given \subseteq Files
  BY <1>1, QuietSlots
<1>3. i >= 1 /\ j > i /\ i \in Nat /\ j \in Nat
  BY <1>1 DEF RowsOK, SizesInv, LocalsOK
<1>4. i \in DOMAIN array
  BY <1>1, <1>2, <1>3
<1>5. PICK f \in given : f = array[i].file /\ FileKey(f) = key /\ array[i].chk = Chk(key, f) /\ array[i].chk # Wild
  BY <1>2, <1>4
<1>6. f \in Files /\ f # Wild /\ f # Null
  BY <1>2, TwinFinderAssumption
<1>7. LastGroup \subseteq Class(f) /\ \A g \in Class(f) : g \in LastGroup \/ Ahead(j, g)
  BY <1>4, <1>5 DEF RowInv
<1>8. ASSUME NEW g \in Class(f)
      PROVE  ~Ahead(j, g)
  <2> SUFFICES ASSUME NEW m \in DOMAIN array, m >= j, array[m].file = g
               PROVE  FALSE
    BY DEF Ahead
  <2>1. g \in given /\ content[g] = content[f] /\ g # Null
    BY <1>2, TwinFinderAssumption DEF Class
  <2>2. array[m].chk = Chk(key, g)
    BY <1>2, <2>1
  <2>3. array[m].chk = array[i].chk
    BY <1>5, <2>1, <2>2 DEF Chk
  <2>4. j \in DOMAIN array /\ m \in Nat
    BY <1>2, <1>3
  <2>5. array[j].chk = array[i].chk
    <3>1. CASE m = j
      BY <2>3, <3>1
    <3>2. CASE m # j
      BY <1>3, <1>4, <2>3, <2>4, <3>2 DEF RowInv, Grouped
    <3> QED
      BY <3>1, <3>2
  <2> QED
    BY <1>1, <1>2, <1>3, <1>5, <1>6, <2>4, <2>5
<1>9. Class(f) = LastGroup
  BY <1>7, <1>8
<1>10. Settled(f)
  <2>1. CASE already_printed
    <3>1. groups # <<>> /\ groups \in Seq(Seq(Files))
      BY <1>1, <2>1 DEF ReportInv, SizesInv, LocalsOK
    <3>2. Len(groups) \in DOMAIN groups
      BY <3>1, EmptySeq
    <3> QED
      BY <1>9, <2>1, <3>2 DEF LastGroup, Settled, ReportedInFull
  <2>2. CASE ~already_printed
    BY <1>5, <1>9, <2>2 DEF LastGroup, Settled
  <2> QED
    BY <2>1, <2>2
<1> QED
  BY <1>4, <1>5, <1>9, <1>10

LEMMA SettledNextRow ==
  ASSUME SizesApart, SizesInv, RowsOK, SlotsInv, ReportInv, GivenInv, FullInv, SettledInv, [Next]_vars,
         NextRow, ReportInv'
  PROVE  SettledInv'
<1>1. /\ UNCHANGED <<content, given, gone, prioritized, phase, sizes, groups, old_size, key>>
      /\ phase = "report" /\ key # None /\ i <= sizes[key].nb_files
      /\ i' = i + 1 /\ j' = i + 2 /\ already_printed' = FALSE
  BY DEF NextRow, world
<1>2. ASSUME Quiet(old_size)
      PROVE  RowInv'
  <2>1. RowInv
    BY <1>1, <1>2 DEF SettledInv
  <2>2. /\ key \in DOMAIN sizes /\ sizes[key].val = old_size
        /\ DOMAIN array = 1..sizes[key].nb_files /\ sizes[key].nb_files \in Nat
        /\ \A n \in DOMAIN array : array[n].file # Null =>
             array[n].file \in given /\ FileKey(array[n].file) = key
        /\ given \subseteq Files
    BY <1>1, <1>2, QuietSlots
  <2>3. i >= 1 /\ i \in Nat
    BY <1>1 DEF RowsOK, SizesInv, LocalsOK
  <2>4. /\ array' = array /\ OfKey(key)' = OfKey(key) /\ \A f : Class(f)' = Class(f)
        /\ \A f : Settled(f)' <=> Settled(f)
    <3>1. array' = array /\ OfKey(key)' = OfKey(key) /\ \A f : Class(f)' = Class(f)
      BY <1>1 DEF array, OfKey, FileKey, Size, Class
    <3> QED
      BY <1>1, <3>1 DEF Settled, ReportedInFull, Members
  <2>5. Grouped'
    BY <1>1, <2>1, <2>4 DEF RowInv, Grouped
  <2>6. ASSUME NEW f \in OfKey(key)
        PROVE  Settled(f) \/ \E m \in DOMAIN array : m >= i + 1 /\ array[m].file = f
    <3>1. f \in given /\ f # Null
      BY <2>2, TwinFinderAssumption DEF OfKey
    <3>2. CASE Ahead(i, f)
      <4>1. PICK m \in DOMAIN array : m >= i /\ array[m].file = f
        BY <3>2 DEF Ahead
      <4>2. CASE m = i
        BY <1>2, <2>1, <3>1, <4>1, <4>2, RowEnds
      <4>3. CASE m # i
        BY <2>2, <2>3, <4>1, <4>3
      <4> QED
        BY <4>2, <4>3
    <3>3. CASE i \in DOMAIN array /\ array[i].file # Null /\ f \in LastGroup
      <4>1. f \in Class(array[i].file)
        BY <1>2, <2>1, <3>3, RowEnds
      <4>2. Class(f) = Class(array[i].file) /\ Settled(array[i].file)
        BY <1>2, <2>1, <3>3, <4>1, RowEnds DEF Class
      <4>3. CASE Class(array[i].file) = {array[i].file}
        BY <4>1, <4>2, <4>3 DEF Settled
      <4>4. CASE ReportedInFull(Class(array[i].file))
        BY <4>2, <4>4 DEF Settled
      <4> QED
        BY <4>2, <4>3, <4>4 DEF Settled
    <3> QED
      BY <2>1, <3>2, <3>3 DEF RowInv
  <2>7. ASSUME i + 1 \in DOMAIN array, array[i + 1].file # Null
        PROVE  /\ array[i + 1].file \in Class(array[i + 1].file)
               /\ \A f \in Class(array[i + 1].file) :
                    f = array[i + 1].file \/ \E m \in DOMAIN array : m >= i + 2 /\ array[m].file = f
    <3> DEFINE p == array[i + 1].file
    <3>1. p \in given /\ FileKey(p) = key /\ p \in Files
      BY <2>2, <2>7
    <3>2. ~IsReported(groups, p)
      <4>1. IsReported(groups', p) => i + 1 < i'
        BY <1>1, <2>4, <2>7, <3>1 DEF ReportInv, IsReported
      <4> QED
        BY <1>1, <2>3, <4>1
    <3> HIDE DEF p
    <3>3. ASSUME NEW f \in Class(p)
          PROVE  f = p \/ \E m \in DOMAIN array : m >= i + 2 /\ array[m].file = f
      <4>1. f \in OfKey(key) /\ Class(f) = Class(p) /\ p \in Class(p)
        BY <3>1, <3>3 DEF Class, OfKey, FileKey, Size
      <4>2. ~ReportedInFull(Class(f))
        BY <3>2, <4>1 DEF ReportedInFull, IsReported, Members
      <4>3. CASE Class(f) = {f}
        BY <4>1, <4>3
      <4>4. CASE \E m \in DOMAIN array : m >= i + 1 /\ array[m].file = f
        <5>1. PICK m \in DOMAIN array : m >= i + 1 /\ array[m].file = f
          BY <4>4
        <5>2. m = i + 1 \/ m >= i + 2
          BY <2>2, <2>3, <5>1
        <5> QED
          BY <5>1, <5>2 DEF p
      <4> QED
        BY <2>6, <4>1, <4>2, <4>3, <4>4 DEF Settled
    <3> QED
      BY <3>1, <3>3 DEF Class, p
  <2>8. \A f \in OfKey(key)' : Settled(f)' \/ Ahead(i, f)'
    BY <1>1, <2>4, <2>6 DEF Ahead
  <2>9. i' \in DOMAIN array' /\ array'[i'].file # Null =>
          /\ LastGroup' \subseteq Class(array[i].file)'
          /\ \A f \in Class(array[i].file)' : f \in LastGroup' \/ Ahead(j, f)'
    <3>1. LastGroup' = {array[i + 1].file} /\ array'[i'] = array[i + 1]
      BY <1>1, <2>4 DEF LastGroup
    <3>2. Class(array[i].file)' = Class(array[i + 1].file)
      BY <1>1, <3>1 DEF Class
    <3> QED
      BY <1>1, <2>4, <2>7, <3>1, <3>2 DEF Ahead
  <2> QED
    BY <2>5, <2>8, <2>9 DEF RowInv
<1>3. ASSUME NEW f \in given, Quiet(Size(f)), old_size # -1, Size(f) >= old_size, Size(f) # old_size
      PROVE  Settled(f)'
  <2>1. Settled(f)
    BY <1>1, <1>3 DEF SettledInv, ComeTo
  <2>2. Class(f)' = Class(f)
    BY <1>1 DEF Class
  <2> QED
    BY <1>1, <2>1, <2>2 DEF Settled, ReportedInFull, Members
<1> QED
  BY <1>1, <1>2, <1>3, SettledFollow

\* The first row of a size: all its files are ahead.
LEMMA SettledNextSize ==
  ASSUME SizesApart, SizesInv, RowsOK, SlotsInv, ReportInv, GivenInv, FullInv, SettledInv, [Next]_vars,
         NEW e \in Files, NextSize(e)
  PROVE  SettledInv'
<1> DEFINE l == FileKey(e)
           a == sizes[l].chksum_array
           b == sizes'[l].chksum_array
<1>1. /\ UNCHANGED <<content, given, gone, prioritized, phase, groups>>
      /\ phase = "report" /\ key = None /\ e \in heap /\ \A g \in heap : Size(g) <= Size(e)
      /\ old_size' = Size(e) /\ Size(e) # old_size /\ key' = l /\ i' = 1 /\ j' = 2 /\ already_printed' = FALSE
  BY DEF NextSize, NewSize, Largest, world
<1>2. /\ l \in DOMAIN sizes /\ sizes'[l].nb_checksumed = sizes[l].nb_checksumed
      /\ DOMAIN a = 1..sizes[l].nb_files /\ DOMAIN b = DOMAIN a
      /\ \A x \in DOMAIN b : \E y \in DOMAIN a : b[x] = a[y]
      /\ \A y \in DOMAIN a : \E x \in DOMAIN b : b[x] = a[y]
      /\ Sorted(b, chksum_array_sz(sizes[l]))
  BY SortStep
<1>3. sizes[l].val = Size(e) /\ Size(e) \in Nat /\ given \subseteq Files
  BY <1>2, SizeOfEntry, FileKeyOK DEF SizesInv, LocalsOK
<1>4. old_size = -1 \/ Size(e) < old_size
  <2>1. old_size # -1 => Size(e) <= old_size
    BY <1>1 DEF ReportInv
  <2>2. old_size \in Nat \cup {-1}
    BY DEF SizesInv, LocalsOK
  <2> QED
    BY <1>1, <1>3, <2>1, <2>2
<1>5. array' = b
  BY <1>1 DEF array
<1>6. \A f : Class(f)' = Class(f)
  BY <1>1 DEF Class
<1>7. sizes[l].nb_files \in Nat
  BY <1>2 DEF SizesInv, TableOK, EntryOK, Entries
<1>8. ASSUME Quiet(Size(e))
      PROVE  RowInv'
  <2>1. /\ sizes[l].nb_checksumed = sizes[l].nb_files
        /\ \A n \in DOMAIN a : Right(l, a[n]) /\ a[n].file # Null
        /\ \A f \in OfKey(l) : \E n \in DOMAIN a : a[n].file = f
    BY <1>1, <1>2, <1>3, <1>4, <1>8 DEF FullInv
  <2>2. chksum_array_sz(sizes[l]) = sizes[l].nb_files
    BY <1>7, <2>1 DEF chksum_array_sz
  <2>a. OfKey(key)' = OfKey(l)
    BY <1>1 DEF OfKey, FileKey, Size
  <2>b. \A f \in given : Class(f) \subseteq OfKey(FileKey(f)) /\ f \in Class(f)
    BY DEF Class, OfKey, FileKey, Size
  <2> HIDE DEF a, b, l
  <2>3. Sorted(b, sizes[l].nb_files) /\ DOMAIN b = 1..sizes[l].nb_files
    BY <1>2, <2>2
  <2>4. Grouped'
    BY <1>1, <1>5, <2>3 DEF Sorted, Grouped
  <2>5. \A x \in DOMAIN b : b[x].file \in OfKey(l) /\ b[x].file # Null
    BY <1>2, <2>1 DEF Right
  <2>6. ASSUME NEW f \in OfKey(l)
        PROVE  \E m \in DOMAIN b : m >= 1 /\ b[m].file = f
    <3>1. PICK n \in DOMAIN a : a[n].file = f
      BY <2>1
    <3>2. PICK m \in DOMAIN b : b[m] = a[n]
      BY <1>2
    <3>3. m >= 1
      BY <1>7, <2>3
    <3> QED
      BY <3>1, <3>2, <3>3
  <2>7. \A f \in OfKey(l) : Ahead(i, f)'
    BY <1>1, <1>5, <2>6 DEF Ahead
  <2>8. ASSUME 1 \in DOMAIN b
        PROVE  /\ b[1].file \in Class(b[1].file)
               /\ \A f \in Class(b[1].file) : f = b[1].file \/ \E m \in DOMAIN b : m >= 2 /\ b[m].file = f
    <3>1. b[1].file \in given /\ FileKey(b[1].file) = l
      BY <2>5, <2>8 DEF OfKey
    <3>2. ASSUME NEW f \in Class(b[1].file)
          PROVE  f = b[1].file \/ \E m \in DOMAIN b : m >= 2 /\ b[m].file = f
      <4>1. f \in OfKey(l)
        BY <2>b, <3>1, <3>2
      <4>2. PICK m \in DOMAIN b : m >= 1 /\ b[m].file = f
        BY <2>6, <4>1
      <4>3. m = 1 \/ m >= 2
        BY <1>7, <2>3, <4>2
      <4> QED
        BY <4>2, <4>3
    <3> QED
      BY <2>b, <3>1, <3>2
  <2>9. i' \in DOMAIN array' /\ array'[i'].file # Null =>
          /\ LastGroup' \subseteq Class(array[i].file)'
          /\ \A f \in Class(array[i].file)' : f \in LastGroup' \/ Ahead(j, f)'
    <3>1. LastGroup' = {b[1].file} /\ array'[i'] = b[1]
      BY <1>1, <1>5 DEF LastGroup
    <3>2. Class(array[i].file)' = Class(b[1].file)
      BY <1>1, <3>1 DEF Class
    <3> QED
      BY <1>1, <1>5, <2>8, <3>1, <3>2 DEF Ahead
  <2> QED
    BY <2>4, <2>7, <2>9, <2>a DEF RowInv
<1>9. ASSUME NEW f \in given, Quiet(Size(f)), Size(f) >= Size(e), Size(f) # Size(e)
      PROVE  Settled(f)'
  <2>1. Settled(f)
    <3>1. CASE ComeTo(f)
      BY <1>1, <1>9, <3>1 DEF SettledInv
    <3>2. CASE ~ComeTo(f)
      <4>1. f \in Files /\ Size(f) \in Nat /\ old_size \in Nat \cup {-1}
        BY <1>3, FileKeyOK DEF SizesInv, LocalsOK
      <4>2. old_size = -1 \/ Size(f) < old_size
        BY <3>2, <4>1 DEF ComeTo
      <4>3. f \notin heap
        <5>1. ~(Size(f) <= Size(e))
          BY <1>3, <1>9, <4>1
        <5> QED
          BY <1>1, <5>1
      <4> QED
        BY <1>1, <1>9, <4>2, <4>3, NotComeTo DEF Settled
    <3> QED
      BY <3>1, <3>2
  <2> QED
    BY <1>1, <1>6, <2>1 DEF Settled, ReportedInFull, Members
<1> HIDE DEF l, a, b
<1>10. phase' = "report" /\ key' # None /\ Quiet(old_size') => RowInv'
  BY <1>1, <1>8
<1>11. phase' = "report" => \A f \in given :
         Quiet(Size(f)) /\ old_size' # -1 /\ Size(f) >= old_size' /\ (key' = None \/ Size(f) # old_size')
           => Settled(f)'
  <2>1. key' # None
    BY <1>1, <1>3, KeyIsLowWord DEF l, FileKey
  <2> QED
    BY <1>1, <1>9, <2>1
<1> QED
  BY <1>1, <1>10, <1>11, SettledFollow

\* A printed twin leaves its slot for the group of the row.
LEMMA SettledPrintTwin ==
  ASSUME SizesApart, OneEmptyContent, SizesInv, RowsOK, SlotsInv, ReportInv, PrintedOnce, GivenInv, FullInv,
         SettledInv, [Next]_vars, PrintTwin
  PROVE  SettledInv'
<1>0. PICK p \in Files, q \in Files : p = array[i].file /\ q = array[j].file
  BY PairOfSize DEF PrintTwin
<1>1. /\ UNCHANGED <<content, given, gone, prioritized, phase, old_size, key, i>>
      /\ phase = "report" /\ key # None /\ i \in DOMAIN array /\ j \in DOMAIN array /\ i < j
      /\ j' = j + 1
  BY <1>0, PairOfSize DEF PrintTwin, world
<1>2. /\ DOMAIN array' = DOMAIN array
      /\ array'[j] = [file |-> Null, chk |-> array[j].chk]
      /\ \A n \in DOMAIN array : n # j => array'[n] = array[n]
  BY MarkStep DEF SizesInv
<1>3. LastGroup' = LastGroup \cup {q}
  BY <1>0, LastGroupGrows
<1>4. Quiet(old_size) => content[p] = content[q]
  BY <1>0, QuietTwin
<1>5. \A f : Class(f)' = Class(f)
  BY <1>1 DEF Class
<1>6. i \in Nat /\ j \in Nat /\ i # j /\ p # Null /\ q # Null
  BY <1>1, TwinFinderAssumption DEF SizesInv, LocalsOK
<1>7. ASSUME Quiet(old_size)
      PROVE  RowInv'
  <2>1. RowInv
    BY <1>1, <1>7 DEF SettledInv
  <2>2. /\ given \subseteq Files /\ q \in given
        /\ \A f \in given : FileKey(f) = key <=> Size(f) = old_size
        /\ DOMAIN array \subseteq Nat
    BY <1>0, <1>1, <1>6, <1>7, QuietSlots
  <2>3. OfKey(key)' = OfKey(key)
    BY <1>1 DEF OfKey, FileKey, Size
  <2>4. Grouped'
    <3>1. \A n \in DOMAIN array : array'[n].chk = array[n].chk
      BY <1>2
    <3>2. \A n \in DOMAIN array : array'[n].file = Null \/ array'[n].file = array[n].file
      BY <1>2
    <3>3. Null \notin prioritized
      BY TwinFinderAssumption DEF SizesInv, LocalsOK
    <3>4. Grouped
      BY <2>1 DEF RowInv
    <3> QED
      BY <1>1, <1>2, <3>1, <3>2, <3>3, <3>4 DEF Grouped
  <2>5. ASSUME NEW f \in OfKey(key)
        PROVE  Settled(f)' \/ Ahead(i, f)' \/ f \in LastGroup'
    <3>1. f \in given /\ Size(f) = old_size /\ f # Null
      BY <2>2, TwinFinderAssumption DEF OfKey
    <3>2. CASE Settled(f)
      BY <1>7, <3>1, <3>2, SettledStays
    <3>3. CASE Ahead(i, f)
      <4>1. PICK m \in DOMAIN array : m >= i /\ array[m].file = f
        BY <3>3 DEF Ahead
      <4>2. CASE m = j
        BY <1>0, <1>3, <4>1, <4>2
      <4>3. CASE m # j
        BY <1>1, <1>2, <4>1, <4>3 DEF Ahead
      <4> QED
        BY <4>2, <4>3
    <3>4. CASE f \in LastGroup
      BY <1>3, <3>4
    <3> QED
      BY <2>1, <3>2, <3>3, <3>4 DEF RowInv
  <2>6. array'[i'] = array[i] /\ Class(array[i].file)' = Class(p)
    <3>1. array'[i'] = array[i]
      BY <1>1, <1>2, <1>6
    <3> QED
      BY <1>0, <1>1, <3>1 DEF Class
  <2>7. LastGroup' \subseteq Class(p)
    <3>1. LastGroup \subseteq Class(p)
      BY <1>0, <1>1, <1>6, <2>1 DEF RowInv
    <3>2. q \in Class(p)
      BY <1>4, <1>7, <2>2 DEF Class
    <3> QED
      BY <1>3, <3>1, <3>2
  <2>8. ASSUME NEW f \in Class(p)
        PROVE  f \in LastGroup' \/ Ahead(j, f)'
    <3>1. f # Null
      BY <2>2, TwinFinderAssumption DEF Class
    <3>2. f \in LastGroup \/ Ahead(j, f)
      BY <1>0, <1>1, <1>6, <2>1, <2>8 DEF RowInv
    <3>3. CASE Ahead(j, f)
      <4>1. PICK m \in DOMAIN array : m >= j /\ array[m].file = f
        BY <3>3 DEF Ahead
      <4>2. CASE m = j
        BY <1>0, <1>3, <4>1, <4>2
      <4>3. CASE m # j
        <5>1. m >= j' /\ array'[m].file = f
          BY <1>1, <1>2, <1>6, <2>2, <4>1, <4>3
        <5> QED
          BY <1>2, <5>1 DEF Ahead
      <4> QED
        BY <4>2, <4>3
    <3> QED
      BY <1>3, <3>2, <3>3
  <2> QED
    BY <1>1, <1>2, <1>0, <1>6, <2>3, <2>4, <2>5, <2>6, <2>7, <2>8 DEF RowInv
<1>8. ASSUME NEW f \in given, Quiet(Size(f)), old_size # -1, Size(f) >= old_size, Size(f) # old_size
      PROVE  Settled(f)'
  <2>1. Settled(f)
    BY <1>1, <1>8 DEF SettledInv, ComeTo
  <2> QED
    BY <1>8, <2>1, SettledStays
<1> QED
  BY <1>1, <1>7, <1>8, SettledFollow

\* A file that is passed over is no twin of the file of the row.
LEMMA SettledSkip ==
  ASSUME SizesApart, SizesInv, RowsOK, SlotsInv, ReportInv, GivenInv, FullInv, SettledInv, [Next]_vars, SkipDifferent
  PROVE  SettledInv'
<1>0. PICK p \in Files, q \in Files : p = array[i].file /\ q = array[j].file
  BY PairOfSize DEF SkipDifferent
<1>1. /\ UNCHANGED <<content, given, gone, prioritized, phase, sizes, groups, old_size, key, i, already_printed>>
      /\ phase = "report" /\ key # None /\ i \in DOMAIN array /\ j \in DOMAIN array /\ i < j
      /\ j' = j + 1
      /\ sizes[key].val = old_size /\ Size(p) = old_size /\ Size(q) = old_size
      /\ FilesMayDiffer(p, q)
  BY <1>0, PairOfSize DEF SkipDifferent, world
<1>2. /\ array' = array /\ OfKey(key)' = OfKey(key) /\ \A f : Class(f)' = Class(f)
      /\ \A f : Settled(f)' <=> Settled(f)
      /\ LastGroup' = LastGroup
  <2>1. array' = array /\ OfKey(key)' = OfKey(key) /\ \A f : Class(f)' = Class(f)
    BY <1>1 DEF array, OfKey, FileKey, Size, Class
  <2> QED
    BY <1>1, <2>1 DEF Settled, ReportedInFull, Members, LastGroup
<1>3. ASSUME Quiet(old_size)
      PROVE  RowInv'
  <2>1. RowInv
    BY <1>1, <1>3 DEF SettledInv
  <2>2. /\ DOMAIN array \subseteq Nat /\ p \in given /\ q \in given /\ old_size \in Nat
    <3>1. p # Null /\ q # Null
      BY TwinFinderAssumption
    <3> QED
      BY <1>0, <1>1, <1>3, <3>1, QuietSlots
  <2>3. p \notin Faulty /\ q \notin Faulty
    <3>1. ~(old_size < old_size)
      BY <2>2
    <3> QED
      BY <1>1, <1>3, <2>2, <3>1 DEF Quiet
  <2>4. q \notin Class(p)
    BY <1>1, <2>3 DEF FilesMayDiffer, Opened, Faulty, Class
  <2>5. Grouped'
    BY <1>1, <1>2, <2>1 DEF RowInv, Grouped
  <2>6. \A f \in OfKey(key)' :
          \/ Settled(f)' \/ Ahead(i, f)'
          \/ i' \in DOMAIN array' /\ array'[i'].file # Null /\ f \in LastGroup'
    BY <1>1, <1>2, <2>1 DEF RowInv, Ahead
  <2>7. p # Null
    BY TwinFinderAssumption
  <2>8. LastGroup \subseteq Class(p) /\ \A f \in Class(p) : f \in LastGroup \/ Ahead(j, f)
    BY <1>0, <1>1, <2>1, <2>7 DEF RowInv
  <2>9. ASSUME NEW f \in Class(p), Ahead(j, f)
        PROVE  Ahead(j, f)'
    <3>1. PICK m \in DOMAIN array : m >= j /\ array[m].file = f
      BY <2>9 DEF Ahead
    <3>2. m # j
      BY <1>0, <2>4, <3>1
    <3>3. m >= j'
      BY <1>1, <2>2, <3>1, <3>2
    <3> QED
      BY <1>2, <3>1, <3>3 DEF Ahead
  <2>10. Class(array[i].file)' = Class(p)
    BY <1>0, <1>1, <1>2 DEF Class
  <2> QED
    BY <1>2, <2>5, <2>6, <2>8, <2>9, <2>10 DEF RowInv
<1>4. ASSUME NEW f \in given, Quiet(Size(f)), old_size # -1, Size(f) >= old_size, Size(f) # old_size
      PROVE  Settled(f)'
  BY <1>1, <1>2, <1>4 DEF SettledInv, ComeTo
<1> QED
  BY <1>1, <1>3, <1>4, SettledFollow

\* At the end of a size nothing is ahead.
LEMMA SettledEndSize ==
  ASSUME SizesApart, SizesInv, RowsOK, SlotsInv, ReportInv, GivenInv, FullInv, SettledInv, [Next]_vars, EndSize
  PROVE  SettledInv'
<1>1. /\ UNCHANGED <<content, given, phase, groups, old_size>>
      /\ phase = "report" /\ key # None /\ i > sizes[key].nb_files /\ key' = None
  BY DEF EndSize, world
<1>2. \A f : Settled(f)' <=> Settled(f)
  <2>1. \A f : Class(f)' = Class(f)
    BY <1>1 DEF Class
  <2> QED
    BY <1>1, <2>1 DEF Settled, ReportedInFull, Members
<1>3. ASSUME NEW f \in given, Quiet(Size(f)), Size(f) = old_size
      PROVE  Settled(f)
  <2>1. RowInv
    BY <1>1, <1>3 DEF SettledInv
  <2>2. /\ DOMAIN array = 1..sizes[key].nb_files /\ sizes[key].nb_files \in Nat
        /\ f \in OfKey(key)
    BY <1>1, <1>3, QuietSlots DEF OfKey
  <2>3. i \in Nat
    BY DEF SizesInv, LocalsOK
  <2>4. i \notin DOMAIN array /\ \A m \in DOMAIN array : ~(m >= i)
    BY <1>1, <2>2, <2>3
  <2> QED
    BY <2>1, <2>2, <2>4 DEF RowInv, Ahead
<1>4. ASSUME NEW f \in given, Quiet(Size(f)), old_size # -1, Size(f) >= old_size, Size(f) # old_size
      PROVE  Settled(f)
  BY <1>1, <1>4 DEF SettledInv, ComeTo
<1> QED
  BY <1>1, <1>2, <1>3, <1>4, SettledFollow

\* At the end of the report the heap is empty.
LEMMA SettledEndReport ==
  ASSUME SizesApart, SizesInv, RowsOK, SlotsInv, ReportInv, GivenInv, FullInv, SettledInv, [Next]_vars, EndReport
  PROVE  SettledInv'
<1>1. /\ UNCHANGED <<content, given, groups>>
      /\ phase = "report" /\ phase' = "done" /\ key = None /\ heap = {}
  BY DEF EndReport, world
<1>2. ASSUME NEW f \in given, Quiet(Size(f))
      PROVE  Settled(f)
  <2>1. CASE ComeTo(f)
    BY <1>1, <1>2, <2>1 DEF SettledInv
  <2>2. CASE ~ComeTo(f)
    <3>1. f \in Files /\ Size(f) \in Nat /\ old_size \in Nat \cup {-1}
      BY FileKeyOK DEF SizesInv, LocalsOK
    <3>2. old_size = -1 \/ Size(f) < old_size
      BY <2>2, <3>1 DEF ComeTo
    <3> QED
      BY <1>1, <1>2, <3>2, NotComeTo DEF Settled
  <2> QED
    BY <2>1, <2>2
<1>3. \A f : Settled(f)' <=> Settled(f)
  <2>1. \A f : Class(f)' = Class(f)
    BY <1>1 DEF Class
  <2> QED
    BY <1>1, <2>1 DEF Settled, ReportedInFull, Members
<1> QED
  BY <1>1, <1>2, <1>3, SettledFollow

LEMMA SettledInvStep ==
  ASSUME SizesApart, OneEmptyContent, SizesInv, RowsOK, SlotsInv, ReportInv, PrintedOnce, GivenInv, FullInv,
         SettledInv, [Next]_vars, ReportInv'
  PROVE  SettledInv'
<1>1. ASSUME UNCHANGED <<content, given, prioritized, phase, sizes, groups, old_size, key, i, j, already_printed>>
      PROVE  SettledInv'
  <2>1. array' = array /\ LastGroup' = LastGroup /\ OfKey(key)' = OfKey(key) /\ \A f : Class(f)' = Class(f)
    BY <1>1 DEF array, LastGroup, Members, OfKey, FileKey, Size, Class
  <2>2. \A f : Settled(f)' <=> Settled(f)
    BY <1>1, <2>1 DEF Settled, ReportedInFull, Members
  <2>3. RowInv => RowInv'
    <3>1. Grouped' <=> Grouped
      BY <1>1, <2>1 DEF Grouped
    <3>2. \A f : (Ahead(i, f)' <=> Ahead(i, f)) /\ (Ahead(j, f)' <=> Ahead(j, f))
      BY <1>1, <2>1 DEF Ahead
    <3>3. Class(array[i].file)' = Class(array[i].file)
      BY <1>1, <2>1 DEF Class
    <3> QED
      BY <1>1, <2>1, <2>2, <3>1, <3>2, <3>3 DEF RowInv
  <2>4. phase = "report" /\ key # None /\ Quiet(old_size) => RowInv
    BY DEF SettledInv
  <2>5. phase = "report" => \A f \in given :
          Quiet(Size(f)) /\ old_size # -1 /\ Size(f) >= old_size /\ (key = None \/ Size(f) # old_size) => Settled(f)
    BY DEF SettledInv, ComeTo
  <2>6. phase = "done" => \A f \in given : Quiet(Size(f)) => Settled(f)
    BY DEF SettledInv
  <2> QED
    BY <1>1, <2>2, <2>3, <2>4, <2>5, <2>6, SettledFollow
<1>2. ASSUME phase' \notin {"report", "done"}
      PROVE  SettledInv'
  BY <1>2 DEF SettledInv
<1>3. CASE UNCHANGED vars
  BY <1>1, <1>3 DEF vars, world, scan
<1>4. ASSUME NEW f \in Files, Vanish(f) \/ UntarToChecksum(f) \/ SameSize(f)
      PROVE  SettledInv'
  BY <1>1, <1>4 DEF Vanish, UntarToChecksum, SameSize, world, scan
<1>5. ASSUME NEW f \in Files, \/ AddFails(f) \/ UntarToChecksumFails(f) \/ NextSizeReadsNull(f)
                              \/ AddFile(f) \/ DropSingle(f) \/ KeepUnread(f) \/ Checksum(f) \/ ChecksumFails(f)
      PROVE  SettledInv'
  BY <1>2, <1>5 DEF AddFails, UntarToChecksumFails, UntarFails, NextSizeReadsNull, AddFile, DropSingle, KeepUnread,
                    Checksum, ChecksumFails, ToChecksum, Chosen
<1>6. CASE UntarRow \/ UntarColumn
  BY <1>1, <1>6 DEF UntarRow, UntarColumn, world, scan
<1>7. CASE EndCollect \/ ReadUnwrittenRow \/ UntarRowFails \/ ReadMissingColumn \/ UntarColumnFails
  BY <1>2, <1>7 DEF EndCollect, ReadUnwrittenRow, UntarRowFails, ReadMissingColumn, UntarColumnFails, UntarFails
<1>8. CASE EndChecksum
  <2>1. /\ UNCHANGED <<content, given, groups, old_size, key>> /\ phase = "checksum" /\ phase' = "report"
    BY <1>8 DEF EndChecksum, world, scan
  <2>2. old_size = -1 /\ key = None
    BY <2>1 DEF ReportInv, SizesInv, HeapsInTable
  <2> QED
    BY <2>1, <2>2, SettledFollow
<1> QED
  BY <1>3, <1>4, <1>5, <1>6, <1>7, <1>8, StepKinds, SettledNextRow, SettledNextSize, SettledPrintTwin, SettledSkip,
     SettledEndSize, SettledEndReport DEF Bystander

LEMMA NotAlone ==
  ASSUME NEW f, NEW C, Cardinality(C) > 1
  PROVE  C # {f}
<1>1. Cardinality({f}) = 1
  BY FS_Singleton
<1>2. ~(1 > 1)
  OBVIOUS
<1> QED
  BY <1>1, <1>2

\* The whole invariant.
LEMMA FullInvariant ==
  ASSUME SizesApart, OneEmptyContent
  PROVE  Spec => [](SlotsInv /\ ReportInv /\ PrintedOnce /\ GivenInv /\ FilledInv /\ FullInv /\ SettledInv)
<1> DEFINE GI == SlotsInv /\ ReportInv /\ PrintedOnce
           FI == GivenInv /\ FilledInv /\ FullInv /\ SettledInv
<1>1. Init => GI /\ FI
  <2> SUFFICES ASSUME Init
               PROVE  GI /\ FI
    OBVIOUS
  <2>1. phase = "collect" /\ given = {} /\ heap = {} /\ tmp_heap = {} /\ DOMAIN sizes = {} /\ status = "ok"
    BY DEF Init
  <2>2. IsFiniteSet(given)
    BY <2>1, FS_EmptySet
  <2> QED
    BY <2>1, <2>2, GroupsInit DEF GivenInv, FilledInv, FullInv, SettledInv
<1>2. SizesInv /\ RowsOK /\ GI /\ FI /\ [Next]_vars => (GI /\ FI)'
  <2> SUFFICES ASSUME SizesInv, RowsOK, GI, FI, [Next]_vars
               PROVE  (GI /\ FI)'
    OBVIOUS
  <2>1. SlotsInv' /\ ReportInv' /\ PrintedOnce'
    BY SlotsInvStep, ReportInvStep, PrintedOnceStep
  <2>2. GivenInv' /\ FilledInv' /\ FullInv'
    BY GivenInvStep, FilledInvStep, FullInvStep
  <2>3. SettledInv'
    BY <2>1, SettledInvStep
  <2> QED
    BY <2>1, <2>2, <2>3
<1>3. GI /\ FI => SlotsInv /\ ReportInv /\ PrintedOnce /\ GivenInv /\ FilledInv /\ FullInv /\ SettledInv
  OBVIOUS
<1> HIDE DEF GI, FI
<1> QED
  BY <1>1, <1>2, <1>3, TableInvariant, PTL DEF Spec

\* While no two sizes share a key, and only the empty file has the size of zero, twins that
\* are bigger than every file that has vanished or may not be read are reported in full, whatever the archives,
\* the priorities and the checksums that collide.
THEOREM BiggerTwinsAlwaysReported ==
  ASSUME SizesApart, OneEmptyContent
  PROVE  Spec => []BiggerTwinsReported
<1>1. SettledInv => BiggerTwinsReported
  <2> SUFFICES ASSUME SettledInv, phase = "done", NEW f \in given, Cardinality(Class(f)) > 1,
                      \A h \in Faulty \cap given, g \in Class(f) : Size(h) < Size(g)
               PROVE  ReportedInFull(Class(f))
    BY DEF BiggerTwinsReported, TwinClasses, Class
  <2>1. f \in Class(f)
    BY DEF Class
  <2>2. Settled(f)
    BY <2>1 DEF SettledInv, Quiet
  <2>3. Class(f) # {f}
    BY NotAlone
  <2> QED
    BY <2>2, <2>3 DEF Settled
<1> QED
  BY <1>1, FullInvariant, PTL

--------------------------------------------------------------------------------
(* TwinFinder keeps the promise of TwinGroups while every file can be read. *)

\* Without a bound for them no file vanishes.
LEMMA NothingVanishes ==
  ASSUME MaxGone = 0
  PROVE  Spec => [](gone = {})
<1>1. Init => gone = {}
  BY DEF Init
<1>2. gone = {} /\ [Next]_vars => (gone = {})'
  <2> SUFFICES ASSUME gone = {}, [Next]_vars
               PROVE  gone' = {}
    OBVIOUS
  <2>1. ASSUME NEW f \in Files, Vanish(f)
        PROVE  FALSE
    <3>1. Cardinality(gone) = 0
      BY FS_EmptySet
    <3>2. ~(0 < 0)
      OBVIOUS
    <3> QED
      BY <2>1, <3>1, <3>2 DEF Vanish
  <2>2. CASE UNCHANGED vars
    BY <2>2 DEF vars, world
  <2>3. ASSUME NEW f \in Files, \/ AddFails(f) \/ UntarToChecksum(f) \/ UntarToChecksumFails(f)
                                \/ NextSizeReadsNull(f) \/ SameSize(f) \/ DropSingle(f) \/ KeepUnread(f)
                                \/ Checksum(f) \/ ChecksumFails(f) \/ NextSize(f) \/ AddFile(f)
        PROVE  gone' = gone
    BY <2>3 DEF AddFails, UntarToChecksum, UntarToChecksumFails, NextSizeReadsNull, SameSize,
                DropSingle, KeepUnread, Checksum, ChecksumFails, NextSize, AddFile, world
  <2>4. CASE EndCollect \/ NextRow \/ EndSize \/ ReadUnwrittenRow \/ UntarRow \/ UntarRowFails
    BY <2>4 DEF EndCollect, NextRow, EndSize, ReadUnwrittenRow, UntarRow, UntarRowFails, world
  <2>5. CASE ReadMissingColumn \/ UntarColumn \/ UntarColumnFails \/ SkipDifferent \/ EndReport \/ EndChecksum \/ PrintTwin
    BY <2>5 DEF ReadMissingColumn, UntarColumn, UntarColumnFails, SkipDifferent, EndReport, EndChecksum,
                PrintTwin, world
  <2> QED
    BY <2>1, <2>2, <2>3, <2>4, <2>5, StepKinds DEF Bystander
<1> QED
  BY <1>1, <1>2, PTL DEF Spec

\* The twins of a pair that are not in the group yet have slots from j on, where the
\* prioritized ones come first.
LEMMA TwinsAhead ==
  ASSUME SizesApart, OneEmptyContent, SizesInv, RowsOK, SlotsInv, ReportInv, PrintedOnce, GivenInv, FullInv,
         SettledInv, Quiet(old_size), PrintTwin, NEW p, p = array[i].file, NEW q, q = array[j].file
  PROVE  /\ p \in given /\ q \in Class(p)
         /\ LastGroup \subseteq Class(p)
         /\ \A f \in Class(p) : f \in LastGroup \/ Ahead(j, f)
         /\ \A f \in Class(p) : Ahead(j, f) =>
              /\ ~IsReported(groups, f)
              /\ f \in prioritized => p \in prioritized /\ q \in prioritized
<1>1. /\ phase = "report" /\ key # None /\ i \in DOMAIN array /\ j \in DOMAIN array /\ i < j
      /\ p \in Files /\ q \in Files
  BY PairOfSize DEF PrintTwin
<1>2. p # Null /\ q # Null
  BY <1>1, TwinFinderAssumption
<1>3. /\ \A n \in DOMAIN array : array[n].file # Null => array[n].file \in given /\ array[n].chk = Chk(key, array[n].file)
      /\ DOMAIN array \subseteq Nat /\ given \subseteq Files
  BY <1>1, QuietSlots
<1>4. RowInv
  BY <1>1 DEF SettledInv
<1>5. p \in given /\ q \in Class(p)
  BY <1>1, <1>2, <1>3, QuietTwin DEF Class
<1>6. LastGroup \subseteq Class(p) /\ \A f \in Class(p) : f \in LastGroup \/ Ahead(j, f)
  BY <1>1, <1>2, <1>4 DEF RowInv
<1>7. ASSUME NEW f \in Class(p), Ahead(j, f)
      PROVE  /\ ~IsReported(groups, f)
             /\ f \in prioritized => p \in prioritized /\ q \in prioritized
  <2>1. PICK m \in DOMAIN array : m >= j /\ array[m].file = f
    BY <1>7 DEF Ahead
  <2>2. f \in given /\ content[f] = content[p] /\ f \in Files /\ f # Null
    BY <1>3, TwinFinderAssumption DEF Class
  <2>3. i < m /\ ~(m < i) /\ m # i /\ (m = j \/ j < m)
    BY <1>1, <1>3, <2>1
  <2>4. ~IsReported(groups, f)
    BY <1>1, <2>1, <2>2, <2>3 DEF ReportInv
  <2>5. array[i].chk = array[m].chk /\ array[j].chk = array[m].chk
    BY <1>1, <1>2, <1>3, <1>5, <2>1, <2>2 DEF Chk, Class
  <2>6. f \in prioritized => p \in prioritized /\ q \in prioritized
    BY <1>1, <1>2, <1>4, <2>1, <2>3, <2>5 DEF RowInv, Grouped
  <2> QED
    BY <2>4, <2>6
<1> QED
  BY <1>5, <1>6, <1>7

\* Printing a twin starts a group of the promise, or extends it.
LEMMA PrintTwinIsPromised ==
  ASSUME SizesApart, OneEmptyContent, SizesInv, RowsOK, SlotsInv, ReportInv, PrintedOnce, GivenInv, FullInv,
         SettledInv, Quiet(old_size), PrintTwin
  PROVE  Promise!Next
<1>0. PICK p \in Files, q \in Files : p = array[i].file /\ q = array[j].file
  BY PairOfSize DEF PrintTwin
<1>1. /\ phase = "report" /\ phase' = phase /\ UNCHANGED <<content, prioritized, given>>
      /\ p # q /\ Size(p) = old_size
      /\ ~IsReported(groups, q) /\ (~already_printed => ~IsReported(groups, p))
      /\ groups' = Printed(p, q)
  BY <1>0, PairOfSize DEF PrintTwin, world
<1>2. /\ p \in given /\ q \in Class(p)
      /\ \A f \in Class(p) : f \in LastGroup \/ Ahead(j, f)
      /\ \A f \in Class(p) : Ahead(j, f) =>
           /\ ~IsReported(groups, f)
           /\ f \in prioritized => p \in prioritized /\ q \in prioritized
  BY <1>0, TwinsAhead
<1>3. Promise!Twins(p) = Class(p)
  BY DEF Promise!Twins, Class
<1>4. \A f : f \in Promise!Reported <=> IsReported(groups, f)
  BY DEF Promise!Reported, Promise!Members, IsReported
<1>5. (phase = "done") = FALSE /\ (phase' = "done") = (phase = "done")
  BY <1>1
<1>6. CASE already_printed
  <2>1. groups # <<>> /\ p = groups[Len(groups)][1]
    BY <1>0, <1>1, <1>6, PairOfSize DEF PrintTwin, ReportInv
  <2>2. groups' = [groups EXCEPT ![Len(groups)] = Append(@, q)]
    BY <1>1, <1>6 DEF Printed
  <2>3. \A f \in LastGroup : IsReported(groups, f)
    <3>1. groups \in Seq(Seq(Files))
      BY DEF SizesInv, LocalsOK
    <3>2. Len(groups) \in DOMAIN groups
      BY <2>1, <3>1, EmptySeq
    <3> QED
      BY <1>6, <3>2 DEF LastGroup, Members, IsReported
  <2>4. q \in Promise!First(Class(p) \ Promise!Reported)
    BY <1>1, <1>2, <1>4, <2>3 DEF Promise!First
  <2>5. Promise!ExtendGroup(q)
    BY <1>1, <1>3, <1>5, <2>1, <2>2, <2>4 DEF Promise!ExtendGroup
  <2> QED
    BY <2>5 DEF Promise!Next
<1>7. CASE ~already_printed
  <2>1. LastGroup = {p}
    BY <1>0, <1>7 DEF LastGroup
  <2>2. p \in Class(p)
    BY <1>2 DEF Class
  <2>3. p \in Promise!First(Class(p)) /\ q \in Promise!First(Class(p) \ {p})
    BY <1>1, <1>2, <2>1, <2>2 DEF Promise!First
  <2>4. Class(p) \cap Promise!Reported = {}
    BY <1>1, <1>2, <1>4, <1>7, <2>1
  <2>5. \A n \in DOMAIN groups : SizeOf[content[groups[n][1]]] >= SizeOf[content[p]]
    <3> SUFFICES ASSUME NEW n \in DOMAIN groups
                 PROVE  Size(groups[n][1]) >= old_size
      BY <1>1 DEF Size
    <3>1. groups[n] \in Seq(Files) /\ Len(groups[n]) >= 2
      BY DEF SizesInv, LocalsOK, PrintedOnce
    <3>2. 1 \in DOMAIN groups[n] /\ groups[n][1] \in Files
      BY <3>1
    <3> QED
      BY <3>2 DEF ReportInv, IsReported
  <2>6. groups' = Append(groups, <<p, q>>)
    BY <1>1, <1>7 DEF Printed
  <2>7. Promise!StartGroup(p, q)
    BY <1>1, <1>2, <1>3, <1>5, <2>3, <2>4, <2>5, <2>6 DEF Promise!StartGroup
  <2> QED
    BY <2>7 DEF Promise!Next
<1> QED
  BY <1>6, <1>7

\* Every step is one of the promise, or invisible to it.
LEMMA StepIsPromised ==
  ASSUME SizesApart, OneEmptyContent, SizesInv, RowsOK, SlotsInv, ReportInv, PrintedOnce, GivenInv, FilledInv,
         FullInv, SettledInv, Unreliable = {}, gone = {}, [Next]_vars
  PROVE  [Promise!Next]_<<content, prioritized, given, groups, phase = "done">>
<1> DEFINE Same == /\ UNCHANGED <<content, prioritized, given, groups>>
                   /\ (phase' = "done") = (phase = "done")
<1>1. CASE PrintTwin
  <2>1. Quiet(old_size)
    BY DEF Quiet, Faulty
  <2> QED
    BY <1>1, <2>1, PrintTwinIsPromised
<1>2. ASSUME NEW f \in Files, AddFile(f)
      PROVE  Promise!Next
  <2>1. /\ phase = "collect" /\ phase' = phase /\ f \notin given /\ given' = given \cup {f}
        /\ UNCHANGED <<content, prioritized, groups>>
    BY <1>2 DEF AddFile, world
  <2>2. groups = <<>>
    BY <2>1 DEF ReportInv
  <2>3. (phase' = "done") = (phase = "done")
    BY <2>1
  <2>4. Promise!Give(f)
    BY <2>1, <2>2, <2>3 DEF Promise!Give
  <2> QED
    BY <2>4 DEF Promise!Next
<1>3. CASE EndReport
  <2>1. /\ UNCHANGED <<content, prioritized, given, groups>>
        /\ phase = "report" /\ phase' = "done"
    BY <1>3 DEF EndReport, world
  <2>2. SettledInv'
    BY <1>3, SettledEndReport
  <2>3. ASSUME NEW f \in given, Cardinality(Promise!Twins(f)) > 1
        PROVE  Promise!Twins(f) \subseteq Promise!Reported
    <3>1. Promise!Twins(f) = Class(f) /\ Class(f)' = Class(f)
      BY <2>1 DEF Promise!Twins, Class
    <3>2. Settled(f)
      <4>1. gone' = {}
        BY <1>3 DEF EndReport, world
      <4>2. Quiet(Size(f))'
        BY <4>1 DEF Quiet, Faulty
      <4>3. Settled(f)'
        BY <2>1, <2>2, <4>2 DEF SettledInv
      <4> QED
        BY <2>1, <3>1, <4>3 DEF Settled, ReportedInFull, Members
    <3>3. Class(f) # {f}
      BY <2>3, <3>1, NotAlone
    <3>4. PICK n \in DOMAIN groups : Members(groups[n]) = Class(f)
      BY <3>2, <3>3 DEF Settled, ReportedInFull
    <3>5. Members(groups[n]) \subseteq Promise!Reported
      BY DEF Members, Promise!Reported, Promise!Members
    <3> QED
      BY <3>1, <3>4, <3>5
  <2>4. (phase = "done") = FALSE /\ (phase' = "done") = TRUE
    BY <2>1
  <2>5. \A S : Promise!Cardinality(S) = Cardinality(S)
    BY DEF Promise!Cardinality, Cardinality
  <2>6. Promise!Finish
    BY <2>1, <2>3, <2>4, <2>5 DEF Promise!Finish
  <2> QED
    BY <2>6 DEF Promise!Next
<1>4. CASE UNCHANGED vars
  BY <1>4 DEF vars, world
<1>5. ASSUME NEW f \in Files, \/ Vanish(f) \/ AddFails(f) \/ UntarToChecksum(f) \/ UntarToChecksumFails(f)
                              \/ NextSizeReadsNull(f) \/ SameSize(f) \/ DropSingle(f) \/ KeepUnread(f)
                              \/ Checksum(f) \/ ChecksumFails(f) \/ NextSize(f)
      PROVE  Same
  <2>1. UNCHANGED <<content, prioritized, given, groups>>
    BY <1>5 DEF Vanish, AddFails, UntarToChecksum, UntarToChecksumFails, NextSizeReadsNull, SameSize,
                DropSingle, KeepUnread, Checksum, ChecksumFails, NextSize, world
  <2>2. phase # "done" /\ phase' # "done"
    BY <1>5 DEF Vanish, AddFails, UntarToChecksum, UntarToChecksumFails, UntarFails, NextSizeReadsNull, SameSize,
                DropSingle, KeepUnread, Checksum, ChecksumFails, ToChecksum, Chosen, NextSize, NewSize
  <2> QED
    BY <2>1, <2>2
<1>6. CASE EndCollect \/ NextRow \/ EndSize \/ ReadUnwrittenRow \/ UntarRow \/ UntarRowFails \/ ReadMissingColumn
           \/ UntarColumn \/ UntarColumnFails \/ SkipDifferent \/ EndChecksum
  <2>1. UNCHANGED <<content, prioritized, given, groups>>
    BY <1>6 DEF EndCollect, NextRow, EndSize, ReadUnwrittenRow, UntarRow, UntarRowFails, ReadMissingColumn,
                UntarColumn, UntarColumnFails, SkipDifferent, EndChecksum, world
  <2>2. phase # "done" /\ phase' # "done"
    BY <1>6 DEF EndCollect, NextRow, EndSize, ReadUnwrittenRow, UntarRow, UntarRowFails, ReadMissingColumn,
                UntarColumn, UntarColumnFails, UntarFails, SkipDifferent, EndChecksum,
                Comparable, RowHasPath, Matched, InRow
  <2> QED
    BY <2>1, <2>2
<1> QED
  BY <1>1, <1>2, <1>3, <1>4, <1>5, <1>6, StepKinds DEF Bystander

\* While no file vanishes, every file can be read, no two sizes share a key and only the
\* empty file has the size of zero, ftwin with its heaps, table and slots prints what TwinGroups promises: the
\* classes of identical files, bigger ones first, prioritized files first, whatever
\* checksums collide.
THEOREM FtwinReportsTwinGroups ==
  ASSUME MaxGone = 0, Unreliable = {}, SizesApart, OneEmptyContent
  PROVE  Spec => ImplementsTwinGroups
<1> DEFINE AllInv == SlotsInv /\ ReportInv /\ PrintedOnce /\ GivenInv /\ FilledInv /\ FullInv /\ SettledInv
<1>1. Init => Promise!Init
  BY DEF Init, Promise!Init
<1>2. SizesInv /\ RowsOK /\ AllInv /\ gone = {} /\ [Next]_vars
        => [Promise!Next]_<<content, prioritized, given, groups, phase = "done">>
  BY StepIsPromised
<1>3. Spec => []AllInv
  BY FullInvariant
<1> HIDE DEF AllInv
<1> QED
  BY <1>1, <1>2, <1>3, TableInvariant, NothingVanishes, PTL DEF Spec, ImplementsTwinGroups, Promise!Spec, Promise!vars

--------------------------------------------------------------------------------
(* The inductive strengthening of OnlyFilledSlotsRead. *)

\* A slot that was emptied keeps the checksum of the twin it held.  If that was in an
\* earlier row the twin's class has no file in this row or ahead, else it is the class of
\* this row.  Nothing was emptied before the first row.
EmptiedInv ==
  phase = "report" /\ key # None /\ Quiet(old_size) =>
    \A n \in DOMAIN array : n > i /\ array[n].file = Null =>
      /\ n >= j => i >= 2
      /\ \E h \in OfKey(key) :
           /\ array[n].chk = Chk(key, h)
           /\ \/ \A m \in DOMAIN array : m >= i => array[m].file \notin Class(h)
              \/ n < j /\ array[i].file # Null /\ h \in Class(array[i].file)

LEMMA EmptiedFollow ==
  ASSUME SizesInv, RowsOK, [Next]_vars, content' = content, given' = given,
         phase' = "report" /\ key' # None =>
           key' \in DOMAIN sizes /\ sizes'[key'].nb_files = sizes[key'].nb_files /\ sizes'[key'].val = sizes[key'].val,
         phase' = "report" /\ key' # None /\ Quiet(old_size') =>
           \A n \in DOMAIN array' : n > i' /\ array'[n].file = Null =>
             /\ n >= j' => i' >= 2
             /\ \E h \in OfKey(key') :
                  /\ array'[n].chk = Chk(key', h)
                  /\ \/ \A m \in DOMAIN array' : m >= i' => array'[m].file \notin Class(h)
                     \/ n < j' /\ array'[i'].file # Null /\ h \in Class(array'[i'].file)
  PROVE  EmptiedInv'
<1>1. ASSUME \A g \in Faulty' \cap given' : Size(g)' < old_size'
      PROVE  Quiet(old_size')
  BY <1>1, QuietBefore
<1>2. Quiet(old_size)' => Quiet(old_size')
  BY <1>1 DEF Quiet
<1>3. OfKey(key)' = OfKey(key')
  BY DEF OfKey, FileKey, Size
<1>4. phase' = "report" /\ key' # None => \A h : Chk(key, h)' = Chk(key', h)
  BY DEF Chk, NeedsChecksum
<1>5. \A h : Class(h)' = Class(h)
  BY DEF Class
<1>6. Class(array[i].file)' = Class(array'[i'].file)
  BY DEF Class
<1> QED
  BY <1>2, <1>3, <1>4, <1>5, <1>6 DEF EmptiedInv

LEMMA EmptiedNextRow ==
  ASSUME SizesApart, SizesInv, RowsOK, SlotsInv, ReportInv, GivenInv, FullInv, SettledInv, EmptiedInv, [Next]_vars,
         NextRow, ReportInv'
  PROVE  EmptiedInv'
<1>1. /\ UNCHANGED <<content, given, phase, sizes, groups, old_size, key>>
      /\ phase = "report" /\ key # None /\ i <= sizes[key].nb_files
      /\ i' = i + 1 /\ j' = i + 2 /\ already_printed' = FALSE
  BY DEF NextRow, world
<1>2. array' = array /\ i \in Nat /\ j \in Nat /\ i >= 1 /\ j > i /\ key \in DOMAIN sizes
  BY <1>1, ArrayAtHand DEF array, SizesInv, LocalsOK, RowsOK
<1>3. ASSUME Quiet(old_size), NEW n \in DOMAIN array, n > i + 1, array[n].file = Null
      PROVE  \E h \in OfKey(key) :
               /\ array[n].chk = Chk(key, h)
               /\ \A m \in DOMAIN array : m >= i + 1 => array[m].file \notin Class(h)
  <2>1. /\ DOMAIN array \subseteq Nat /\ given \subseteq Files
        /\ SlotsDistinct(array)
    BY <1>1, <1>2, <1>3, QuietSlots DEF SlotsInv, array
  <2>2. PICK h \in OfKey(key) :
          /\ array[n].chk = Chk(key, h)
          /\ \/ \A m \in DOMAIN array : m >= i => array[m].file \notin Class(h)
             \/ n < j /\ array[i].file # Null /\ h \in Class(array[i].file)
    <3>1. n > i
      BY <1>2, <1>3, <2>1
    <3> QED
      BY <1>1, <1>3, <3>1 DEF EmptiedInv
  <2>3. CASE \A m \in DOMAIN array : m >= i => array[m].file \notin Class(h)
    <3>1. \A m \in DOMAIN array : m >= i + 1 => m >= i
      BY <1>2, <2>1
    <3> QED
      BY <2>2, <2>3, <3>1
  <2>4. CASE array[i].file # Null /\ h \in Class(array[i].file)
    <3>1. RowInv
      BY <1>1, <1>3 DEF SettledInv
    <3>2. i \in DOMAIN array /\ Class(array[i].file) = LastGroup
      BY <1>3, <2>4, <3>1, RowEnds
    <3>3. Class(h) = LastGroup
      BY <2>4, <3>2 DEF Class
    <3>4. ASSUME NEW m \in DOMAIN array, m >= i + 1, array[m].file \in Class(h)
          PROVE  FALSE
      <4>1. array[m].file \in Files /\ m # i /\ ~(m < i + 1)
        BY <1>2, <2>1, <3>4 DEF Class
      <4>2. CASE already_printed
        <5>1. groups # <<>> /\ groups \in Seq(Seq(Files))
          BY <1>1, <4>2 DEF ReportInv, SizesInv, LocalsOK
        <5>2. Len(groups) \in DOMAIN groups
          BY <5>1, EmptySeq
        <5>3. IsReported(groups, array[m].file)
          BY <3>3, <3>4, <4>2, <5>2 DEF LastGroup, Members, IsReported
        <5>4. IsReported(groups', array'[m].file) => m < i'
          BY <1>1, <1>2, <3>4, <4>1 DEF ReportInv, IsReported
        <5> QED
          BY <1>1, <1>2, <4>1, <5>3, <5>4
      <4>3. CASE ~already_printed
        <5>1. array[m].file = array[i].file
          BY <3>3, <3>4, <4>3 DEF LastGroup
        <5> QED
          BY <2>1, <3>2, <4>1, <5>1 DEF SlotsDistinct
      <4> QED
        BY <4>2, <4>3
    <3> QED
      BY <2>2, <3>4
  <2> QED
    BY <2>2, <2>3, <2>4
<1>4. i + 1 >= 2
  BY <1>2
<1> QED
  BY <1>1, <1>2, <1>3, <1>4, EmptiedFollow

LEMMA EmptiedPrintTwin ==
  ASSUME SizesApart, OneEmptyContent, SizesInv, RowsOK, SlotsInv, ReportInv, GivenInv, FullInv, EmptiedInv,
         [Next]_vars, PrintTwin
  PROVE  EmptiedInv'
<1>0. PICK p \in Files, q \in Files : p = array[i].file /\ q = array[j].file
  BY PairOfSize DEF PrintTwin
<1>1. /\ UNCHANGED <<content, given, phase, old_size, key, i>>
      /\ phase = "report" /\ key # None /\ i \in DOMAIN array /\ j \in DOMAIN array /\ i < j
      /\ j' = j + 1
  BY <1>0, PairOfSize DEF PrintTwin, world
<1>2. /\ key \in DOMAIN sizes /\ DOMAIN array' = DOMAIN array
      /\ array'[j] = [file |-> Null, chk |-> array[j].chk]
      /\ \A n \in DOMAIN array : n # j => array'[n] = array[n]
  BY MarkStep DEF SizesInv
<1>3. i \in Nat /\ j \in Nat /\ i # j /\ p # Null /\ q # Null
  BY <1>1, TwinFinderAssumption DEF SizesInv, LocalsOK
<1>4. Quiet(old_size) => content[p] = content[q]
  BY <1>0, QuietTwin
<1>5. sizes'[key].nb_files = sizes[key].nb_files /\ sizes'[key].val = sizes[key].val
  <2>1. ~ \E g \in Files : AddFile(g)
    BY <1>1 DEF AddFile
  <2>2. key \in DOMAIN sizes'
    BY MarkStep DEF SizesInv
  <2> QED
    BY <2>1, <2>2, GivenStays
<1>6. ASSUME Quiet(old_size), NEW n \in DOMAIN array, n > i, array'[n].file = Null
      PROVE  /\ n >= j + 1 => i >= 2
             /\ \E h \in OfKey(key) :
                  /\ array'[n].chk = Chk(key, h)
                  /\ \/ \A m \in DOMAIN array : m >= i => array'[m].file \notin Class(h)
                     \/ n < j + 1 /\ array'[i].file # Null /\ h \in Class(array'[i].file)
  <2>1. /\ DOMAIN array \subseteq Nat /\ given \subseteq Files
        /\ q \in given /\ FileKey(q) = key /\ array[j].chk = Chk(key, q)
    BY <1>0, <1>1, <1>3, <1>6, QuietSlots
  <2>2. array'[i].file = p
    BY <1>0, <1>1, <1>2, <1>3
  <2>3. CASE n = j
    <3>1. q \in OfKey(key) /\ q \in Class(p)
      BY <1>4, <1>6, <2>1 DEF OfKey, Class
    <3>2. n < j + 1 /\ ~(n >= j + 1)
      BY <1>3, <2>3
    <3>3. array'[n].chk = Chk(key, q)
      BY <1>2, <2>1, <2>3
    <3> QED
      BY <1>3, <2>2, <3>1, <3>2, <3>3
  <2>4. CASE n # j
    <3>1. array'[n] = array[n]
      BY <1>2, <2>4
    <3>2. PICK h \in OfKey(key) :
            /\ n >= j => i >= 2
            /\ array[n].chk = Chk(key, h)
            /\ \/ \A m \in DOMAIN array : m >= i => array[m].file \notin Class(h)
               \/ n < j /\ array[i].file # Null /\ h \in Class(array[i].file)
      BY <1>1, <1>6, <3>1 DEF EmptiedInv
    <3>3. Null \notin Class(h)
      BY <2>1, TwinFinderAssumption DEF Class
    <3>4. (\A m \in DOMAIN array : m >= i => array[m].file \notin Class(h))
            => \A m \in DOMAIN array : m >= i => array'[m].file \notin Class(h)
      BY <1>2, <3>3
    <3>5. (n >= j + 1 => n >= j) /\ (n < j => n < j + 1)
      BY <1>3, <2>1
    <3> QED
      BY <1>0, <2>2, <3>1, <3>2, <3>4, <3>5
  <2> QED
    BY <2>3, <2>4
<1> QED
  BY <1>1, <1>2, <1>5, <1>6, EmptiedFollow

LEMMA EmptiedInvStep ==
  ASSUME SizesApart, OneEmptyContent, SizesInv, RowsOK, SlotsInv, ReportInv, GivenInv, FullInv, SettledInv,
         EmptiedInv, [Next]_vars, ReportInv'
  PROVE  EmptiedInv'
<1>1. ASSUME UNCHANGED <<content, given, phase, sizes, old_size, key, i>>, j' = j \/ (j' = j + 1 /\ phase = "report" /\ key # None)
      PROVE  EmptiedInv'
  <2>1. array' = array
    BY <1>1 DEF array
  <2>2. j \in Nat /\ i \in Nat /\ (key # None => key \in DOMAIN sizes)
    BY DEF SizesInv, LocalsOK, HeapsInTable
  <2>3. ASSUME phase = "report", key # None
        PROVE  \A n \in DOMAIN array : n \in Nat
    BY <2>3, ArrayAtHand DEF SizesInv
  <2>4. phase = "report" /\ key # None => \A n \in DOMAIN array : (n >= j' => n >= j) /\ (n < j => n < j')
    BY <1>1, <2>2, <2>3
  <2>5. phase = "report" /\ key # None /\ Quiet(old_size) =>
          \A n \in DOMAIN array : n > i /\ array[n].file = Null =>
            /\ n >= j' => i >= 2
            /\ \E h \in OfKey(key) :
                 /\ array[n].chk = Chk(key, h)
                 /\ \/ \A m \in DOMAIN array : m >= i => array[m].file \notin Class(h)
                    \/ n < j' /\ array[i].file # Null /\ h \in Class(array[i].file)
    BY <2>4 DEF EmptiedInv
  <2> QED
    BY <1>1, <2>1, <2>2, <2>5, EmptiedFollow
<1>2. ASSUME phase' # "report" \/ key' = None
      PROVE  EmptiedInv'
  BY <1>2 DEF EmptiedInv
<1>3. CASE UNCHANGED vars
  BY <1>1, <1>3 DEF vars, world, scan
<1>4. ASSUME NEW f \in Files, Vanish(f) \/ UntarToChecksum(f) \/ SameSize(f)
      PROVE  EmptiedInv'
  BY <1>1, <1>4 DEF Vanish, UntarToChecksum, SameSize, world, scan
<1>5. ASSUME NEW f \in Files, \/ AddFails(f) \/ UntarToChecksumFails(f) \/ NextSizeReadsNull(f)
                              \/ AddFile(f) \/ DropSingle(f) \/ KeepUnread(f) \/ Checksum(f) \/ ChecksumFails(f)
      PROVE  EmptiedInv'
  BY <1>2, <1>5 DEF AddFails, UntarToChecksumFails, UntarFails, NextSizeReadsNull, AddFile, DropSingle, KeepUnread,
                    Checksum, ChecksumFails, ToChecksum, Chosen
<1>6. CASE UntarRow \/ UntarColumn
  BY <1>1, <1>6 DEF UntarRow, UntarColumn, world, scan
<1>7. CASE EndCollect \/ ReadUnwrittenRow \/ UntarRowFails \/ ReadMissingColumn \/ UntarColumnFails \/ EndReport \/ EndSize
  BY <1>2, <1>7 DEF EndCollect, ReadUnwrittenRow, UntarRowFails, ReadMissingColumn, UntarColumnFails, UntarFails,
                    EndReport, EndSize
<1>8. CASE EndChecksum
  <2>1. key' = key /\ phase = "checksum"
    BY <1>8 DEF EndChecksum, scan
  <2> QED
    BY <1>2, <2>1 DEF SizesInv, HeapsInTable
<1>9. CASE SkipDifferent
  <2>1. phase = "report" /\ key # None
    BY <1>9 DEF SkipDifferent, Comparable, RowHasPath, Matched, InRow
  <2> QED
    BY <1>1, <1>9, <2>1 DEF SkipDifferent, world
<1>10. ASSUME NEW e \in Files, NextSize(e)
       PROVE  EmptiedInv'
  <2> DEFINE l == FileKey(e)
  <2>1. /\ UNCHANGED <<content, given, phase>>
        /\ phase = "report" /\ e \in heap /\ old_size' = Size(e) /\ Size(e) # old_size /\ key' = l
    BY <1>10 DEF NextSize, NewSize, Largest, world
  <2>2. /\ l \in DOMAIN sizes
        /\ DOMAIN sizes'[l].chksum_array = DOMAIN sizes[l].chksum_array
        /\ \A x \in DOMAIN sizes'[l].chksum_array : \E y \in DOMAIN sizes[l].chksum_array :
             sizes'[l].chksum_array[x] = sizes[l].chksum_array[y]
    BY <1>10, SortStep
  <2>3. array' = sizes'[l].chksum_array
    BY <2>1 DEF array
  <2>4. sizes'[l].nb_files = sizes[l].nb_files /\ sizes'[l].val = sizes[l].val
    <3>1. ~ \E g \in Files : AddFile(g)
      BY <2>1 DEF AddFile
    <3>2. l \in DOMAIN sizes'
      BY <1>10, SortStep
    <3> QED
      BY <3>1, <3>2, GivenStays
  <2>5. Quiet(Size(e)) => \A n \in DOMAIN sizes[l].chksum_array : sizes[l].chksum_array[n].file # Null
    <3>1. sizes[l].val = Size(e) /\ Size(e) \in Nat
      BY <2>2, SizeOfEntry, FileKeyOK DEF SizesInv, LocalsOK
    <3>2. old_size = -1 \/ Size(e) < old_size
      <4>1. old_size # -1 => Size(e) <= old_size
        BY <2>1 DEF ReportInv
      <4>2. old_size \in Nat \cup {-1}
        BY DEF SizesInv, LocalsOK
      <4> QED
        BY <2>1, <3>1, <4>1, <4>2
    <3> QED
      BY <2>1, <2>2, <3>1, <3>2 DEF FullInv
  <2> HIDE DEF l
  <2>6. Quiet(old_size') => \A n \in DOMAIN array' : array'[n].file # Null
    BY <2>1, <2>2, <2>3, <2>5
  <2> QED
    BY <2>1, <2>2, <2>4, <2>6, EmptiedFollow
<1> QED
  BY <1>3, <1>4, <1>5, <1>6, <1>7, <1>8, <1>9, <1>10, StepKinds, EmptiedNextRow, EmptiedPrintTwin DEF Bystander

\* In a pair of slots the first has its file, and the second is empty only if its checksum
\* is another one.
LEMMA PairIsFilled ==
  ASSUME SizesApart, OneEmptyContent, SizesInv, RowsOK, SlotsInv, ReportInv, GivenInv, FullInv,
         EmptiedInv, Quiet(old_size), ToldApart(old_size), InRow, j <= sizes[key].nb_files
  PROVE  /\ i \in DOMAIN array /\ j \in DOMAIN array
         /\ array[i].file \in given /\ array[i].file # Wild /\ array[i].chk # Wild
         /\ array[j].file # Wild /\ array[j].chk # Wild
         /\ array[j].file = Null => array[i].chk # array[j].chk
<1>1. /\ phase = "report" /\ key # None /\ i <= sizes[key].nb_files /\ array[i].file # Null
  BY DEF InRow
<1>2. /\ key \in DOMAIN sizes /\ sizes[key].val = old_size
      /\ DOMAIN array = 1..sizes[key].nb_files /\ sizes[key].nb_files \in Nat
      /\ \A n \in DOMAIN array : array[n].file # Null =>
           /\ array[n].file \in given /\ FileKey(array[n].file) = key /\ Size(array[n].file) = old_size
           /\ array[n].chk = Chk(key, array[n].file) /\ array[n].chk # Wild
      /\ given \subseteq Files
      /\ \A f \in given : FileKey(f) = key <=> Size(f) = old_size
  BY <1>1, QuietSlots
<1>3. i \in Nat /\ j \in Nat /\ i >= 1 /\ j > i
  BY <1>1 DEF RowsOK, SizesInv, LocalsOK
<1>4. i \in DOMAIN array /\ j \in DOMAIN array
  BY <1>1, <1>2, <1>3
<1>5. Wild \notin given /\ \A f \in given : content[f] \in Contents
  BY <1>2, TwinFinderAssumption DEF SizesInv, LocalsOK
<1>6. ASSUME array[j].file = Null
      PROVE  array[j].chk # Wild /\ array[i].chk # array[j].chk
  <2> DEFINE f == array[i].file
  <2>1. f \in given /\ FileKey(f) = key /\ Size(f) = old_size /\ array[i].chk = Chk(key, f)
    BY <1>1, <1>2, <1>4
  <2>2. PICK h \in OfKey(key) :
          /\ i >= 2
          /\ array[j].chk = Chk(key, h)
          /\ \A m \in DOMAIN array : m >= i => array[m].file \notin Class(h)
    <3>1. j >= j /\ ~(j < j) /\ j > i
      BY <1>3
    <3> QED
      BY <1>1, <1>4, <1>6, <3>1 DEF EmptiedInv
  <2>3. h \in given /\ Size(h) = old_size
    BY <1>2, <2>2 DEF OfKey
  <2>4. Chk(key, h) # Wild
    BY <1>5, <2>3, TwinFinderAssumption DEF Chk
  <2>5. content[f] # content[h]
    <3>1. f \notin Class(h)
      BY <1>3, <1>4, <2>2
    <3> QED
      BY <2>1, <3>1 DEF Class
  <2> HIDE DEF f
  <2>6. content[f] \in Contents /\ content[h] \in Contents
    BY <1>5, <2>1, <2>3
  <2>7. old_size # 0
    BY <2>1, <2>3, <2>5, <2>6 DEF Size, OneEmptyContent
  <2>8. NeedsChecksum(sizes[key])
    <3>1. sizes[key].nb_files # 2
      BY <1>2, <1>3, <1>4, <2>2
    <3> QED
      BY <1>2, <2>7, <3>1 DEF NeedsChecksum
  <2>9. HashOf[content[f]] # HashOf[content[h]]
    BY <2>1, <2>3, <2>5 DEF ToldApart
  <2> QED
    BY <2>1, <2>2, <2>4, <2>8, <2>9 DEF Chk
<1>7. ASSUME array[j].file # Null
      PROVE  array[j].chk # Wild /\ array[j].file # Wild
  BY <1>2, <1>4, <1>5, <1>7
<1>8. Null # Wild
  BY TwinFinderAssumption
<1> QED
  BY <1>1, <1>2, <1>4, <1>5, <1>6, <1>7, <1>8

Harmed == phase \in {"null_read", "unwritten_read"}

\* The report has come to a slot without a file or without a checksum only at a size that a
\* fault or a collision of checksums has reached.
SoundReads == Harmed => ~(Quiet(old_size) /\ ToldApart(old_size))

LEMMA SoundReadsStep ==
  ASSUME SizesApart, OneEmptyContent, SizesInv, RowsOK, SlotsInv, ReportInv, GivenInv, FullInv,
         EmptiedInv, SoundReads, [Next]_vars
  PROVE  SoundReads'
<1>1. CASE UNCHANGED vars
  BY <1>1 DEF vars, scan, world, SoundReads, Harmed, Quiet, ToldApart, Faulty, Size
<1>2. ASSUME NEW f \in Files, \/ Vanish(f) \/ UntarToChecksum(f) \/ SameSize(f) \/ AddFails(f)
                              \/ UntarToChecksumFails(f) \/ AddFile(f) \/ DropSingle(f)
                              \/ KeepUnread(f) \/ Checksum(f) \/ ChecksumFails(f) \/ NextSize(f)
      PROVE  ~Harmed'
  BY <1>2 DEF Vanish, UntarToChecksum, SameSize, AddFails, UntarToChecksumFails, UntarFails, AddFile, DropSingle,
              KeepUnread, Checksum, ChecksumFails, ToChecksum, Chosen, NextSize, NewSize, Harmed
<1>3. ASSUME \/ UntarRow \/ UntarColumn \/ EndCollect \/ UntarRowFails \/ UntarColumnFails \/ EndReport \/ EndSize
             \/ EndChecksum \/ NextRow \/ PrintTwin \/ SkipDifferent
      PROVE  ~Harmed'
  BY <1>3 DEF UntarRow, UntarColumn, EndCollect, UntarRowFails, UntarColumnFails, UntarFails, EndReport, EndSize,
              EndChecksum, NextRow, PrintTwin, SkipDifferent, Comparable, RowHasPath, Matched, InRow, Harmed
<1>4. ASSUME Matched, Quiet(old_size), ToldApart(old_size)
      PROVE  /\ array[i].file # Wild /\ array[j].file \notin {Null, Wild}
  <2>1. InRow /\ j <= sizes[key].nb_files /\ ChecksumsMayMatch(array[i], array[j])
    BY <1>4 DEF Matched
  <2>2. /\ array[i].file # Wild /\ array[i].chk # Wild
        /\ array[j].file # Wild /\ array[j].chk # Wild
        /\ array[j].file = Null => array[i].chk # array[j].chk
    BY <1>4, <2>1, PairIsFilled
  <2> QED
    BY <2>1, <2>2 DEF ChecksumsMayMatch
<1>5. CASE ReadUnwrittenRow \/ ReadMissingColumn
  <2>1. Matched /\ (array[i].file = Wild \/ array[j].file \in {Null, Wild})
    BY <1>5 DEF ReadUnwrittenRow, ReadMissingColumn, RowHasPath
  <2>2. UNCHANGED <<content, gone, given, old_size>>
    BY <1>5 DEF ReadUnwrittenRow, ReadMissingColumn, world, scan
  <2>3. (Quiet(old_size) /\ ToldApart(old_size))' => Quiet(old_size) /\ ToldApart(old_size)
    BY <2>2 DEF Quiet, ToldApart, Faulty, Size
  <2> QED
    BY <1>4, <2>1, <2>3 DEF SoundReads
<1>6. ASSUME NEW f \in Files, NextSizeReadsNull(f), Quiet(old_size)'
      PROVE  FALSE
  <2> DEFINE a == sizes[FileKey(f)].chksum_array
             n == chksum_array_sz(sizes[FileKey(f)])
  <2>1. /\ phase = "report" /\ f \in heap /\ Size(f) # old_size /\ SortReadsNull(a, n)
    BY <1>6 DEF NextSizeReadsNull, NewSize, Largest
  <2>2. FileKey(f) \in DOMAIN sizes /\ sizes[FileKey(f)].val = Size(f) /\ Size(f) \in Nat
    BY <2>1, SizeOfEntry, FileKeyOK DEF SizesInv, LocalsOK, HeapsInTable
  <2>3. old_size = -1 \/ Size(f) < old_size
    <3>1. old_size # -1 => Size(f) <= old_size
      BY <2>1 DEF ReportInv
    <3>2. old_size \in Nat \cup {-1}
      BY DEF SizesInv, LocalsOK
    <3> QED
      BY <2>1, <2>2, <3>1, <3>2
  <2>4. \A x \in DOMAIN a : a[x].file # Null
    <3>1. old_size' = Size(f) /\ UNCHANGED <<content, gone, given>>
      BY <1>6 DEF NextSizeReadsNull, NewSize, world
    <3>2. Quiet(Size(f))
      BY <1>6, <3>1 DEF Quiet, Faulty, Size
    <3> QED
      BY <2>1, <2>2, <2>3, <3>2 DEF FullInv
  <2>5. 1..n \subseteq DOMAIN a
    <3>1. EntryOK(sizes[FileKey(f)]) /\ a # <<>>
      BY <2>1, <2>2 DEF SizesInv, TableOK, HeapsInTable, EntryOK
    <3>2. a \in Seq(Slots) /\ Len(a) = sizes[FileKey(f)].nb_files /\ n \in Nat /\ n <= sizes[FileKey(f)].nb_files
      BY <3>1 DEF EntryOK, Entries, chksum_array_sz
    <3> QED
      BY <3>2
  <2> QED
    BY <2>1, <2>4, <2>5 DEF SortReadsNull
<1> QED
  BY <1>1, <1>2, <1>3, <1>5, <1>6, StepKinds DEF Bystander, SoundReads

\* While no two sizes share a key and only the empty file has the size of zero, the report
\* reads a slot that has no file or no checksum only at a size that a vanished or unreadable
\* file has or exceeds, or at which checksums collide, whatever the archives, priorities and
\* qsort do.
THEOREM FilledSlotsRead ==
  ASSUME SizesApart, OneEmptyContent
  PROVE  Spec => []OnlyFilledSlotsRead
<1> DEFINE AllInv == SlotsInv /\ ReportInv /\ PrintedOnce /\ GivenInv /\ FilledInv /\ FullInv /\ SettledInv
           More == EmptiedInv /\ SoundReads
<1>1. Spec => []AllInv
  BY FullInvariant
<1>2. Init => More
  BY DEF Init, EmptiedInv, SoundReads, Harmed
<1>3. SizesInv /\ RowsOK /\ AllInv /\ AllInv' /\ More /\ [Next]_vars => More'
  BY EmptiedInvStep, SoundReadsStep
<1>4. SizesInv /\ RowsOK /\ AllInv /\ More => OnlyFilledSlotsRead
  BY PairIsFilled DEF OnlyFilledSlotsRead, SoundReads, Harmed
<1> HIDE DEF AllInv, More
<1> QED
  BY <1>1, <1>2, <1>3, <1>4, TableInvariant, PTL DEF Spec
================================================================================

--------------------------- MODULE FileCompareProofs ---------------------------
(***************************************************************************)
(* Proofs about FileCompare, for any bytes, sizes of chunks and pages,     *)
(* contents and changes of the files: what a call holds when it returns,   *)
(* that a checksum depends on the content alone, and that a comparison is  *)
(* right.                                                                  *)
(***************************************************************************)
EXTENDS FileCompare, FiniteSetTheorems, TLAPS

(* The inductive strengthening of ReleasedAtReturn. *)

\* What is open and mapped at each point of a call.
Held ==
  /\ pc = "called" => fd = {} /\ mm = {}
  /\ pc = "small_open" => (fd = {} \/ (fd = {1} /\ call = "filecmp")) /\ mm = fd
  /\ pc = "map" => \/ fd = {1} /\ mm = {}
                   \/ fd = Names /\ mm = {1} /\ call = "filecmp"
  /\ pc = "big_open" => (fd = {} \/ (fd = {1} /\ call = "filecmp")) /\ mm = {}
  /\ pc = "mapped" => fd = Files /\ mm = Files
  /\ pc \in {"read", "read2"} => fd = Files /\ mm = {}
  /\ pc = "read2" => call = "filecmp"
  /\ pc = "close" => fd = Files /\ (mm = Files \/ mm = {})

\* The two files are read in step from their start, and no further than they reach.
InStep ==
  /\ pc = "big_open" /\ fd = {1} => off[1] = 0
  /\ pc = "read" /\ call = "filecmp" => off[1] = off[2]
  /\ pc = "read2" => /\ off[1] = off[2] + Len(chunk)
                     /\ Len(chunk) \in 1..HugeLen
  /\ pc \in {"read", "read2"} /\ 1 \notin touched => off[1] <= Len(disk[1])

HeldInv == ReleasedAtReturn /\ Held /\ InStep

--------------------------------------------------------------------------------
(* The inductive strengthening of ChecksumOfContent. *)

\* The state when n bytes of s have been hashed.
ChunksUpTo(s, n, hashed) ==
  /\ n <= Len(s)
  /\ Len(hashed) = Blocks(n, HugeLen)
  /\ \A k \in 1..Len(hashed) :
       hashed[k] = SubSeq(s, (k - 1) * HugeLen + 1, Smaller(k * HugeLen, n))

\* The next chunk begins where a chunk ends.
AtBoundary(s, n) == (\E k \in Nat : n = k * HugeLen) \/ n = Len(s)

HashInv ==
  call = "checksum_file" /\ 1 \notin touched =>
    /\ pc = "map" => off[1] = 0
    /\ pc = "read" => ChunksUpTo(disk[1], off[1], state) /\ AtBoundary(disk[1], off[1])
    /\ pc = "mapped" /\ Len(disk[1]) = size =>
         /\ ChunksUpTo(disk[1], off[1], state)
         /\ off[1] < size
         /\ \E k \in Nat : off[1] = k * HugeLen
    /\ pc = "close" /\ Len(disk[1]) = size => state = Chunks(disk[1])
    /\ ChecksumOfContent

--------------------------------------------------------------------------------
(* The inductive strengthening of VerdictRight. *)

Agree(n) ==
  /\ n <= Len(disk[1]) /\ n <= Len(disk[2])
  /\ \A p \in 1..n : disk[1][p] = disk[2][p]

Verdict ==
  /\ (\A f \in Names : Len(disk[f]) = size) => (i = 0 <=> disk[1] = disk[2])
  /\ i = 0 => LET n == Smaller(Len(disk[1]), Len(disk[2])) \div HugeLen
              IN  \A p \in 1..Smaller(n * HugeLen, size) : disk[1][p] = disk[2][p]

VerdictInv ==
  call = "filecmp" /\ touched = {} /\ ~unread =>
    /\ pc \notin {"called", "returned", "killed"} => size > 0
    /\ pc = "read" => /\ Agree(off[1])
                      /\ off[1] > 0 => i = 0
                      /\ AtBoundary(disk[1], off[1])
    /\ pc = "read2" => /\ Agree(off[2])
                       /\ off[2] > 0 => i = 0
                       /\ \E k \in Nat : off[2] = k * HugeLen
                       /\ chunk = SubSeq(disk[1], off[2] + 1, off[1])
                       /\ Len(chunk) = HugeLen \/ off[1] = Len(disk[1])
    /\ pc = "close" \/ (pc = "returned" /\ status = "ok") => Verdict

--------------------------------------------------------------------------------
(* Arithmetic of chunks *)

LEMMA ProductMonotone ==
  ASSUME NEW m \in Nat, NEW n \in Nat, NEW b \in Nat, m <= n
  PROVE  m * b <= n * b /\ m * b \in Nat /\ (n + 1) * b = n * b + b
<1>1. (n - m) * b >= 0 /\ (n - m) * b = n * b - m * b
  <2>1. n - m \in Nat
    OBVIOUS
  <2> QED
    BY <2>1
<1> QED
  BY <1>1

LEMMA QuotientIs ==
  ASSUME NEW a \in Nat, NEW b \in Nat \ {0}, NEW q \in Nat, q * b <= a, a < q * b + b
  PROVE  a \div b = q
<1> DEFINE d == a \div b
<1>1. d \in Nat /\ d * b <= a /\ a < d * b + b
  OBVIOUS
<1> HIDE DEF d
<1>2. ~(d < q)
  <2> SUFFICES ASSUME d < q PROVE FALSE
    OBVIOUS
  <2>1. d + 1 <= q /\ d + 1 \in Nat
    BY <1>1
  <2>2. (d + 1) * b <= q * b /\ (d + 1) * b = d * b + b
    BY <1>1, <2>1, ProductMonotone
  <2>3. d * b \in Nat /\ q * b \in Nat
    BY <1>1
  <2> QED
    BY <1>1, <2>2, <2>3
<1>3. ~(q < d)
  <2> SUFFICES ASSUME q < d PROVE FALSE
    OBVIOUS
  <2>1. q + 1 <= d /\ q + 1 \in Nat
    BY <1>1
  <2>2. (q + 1) * b <= d * b /\ (q + 1) * b = q * b + b
    BY <1>1, <2>1, ProductMonotone
  <2>3. d * b \in Nat /\ q * b \in Nat
    BY <1>1
  <2> QED
    BY <1>1, <2>2, <2>3
<1>4. d = q
  BY <1>1, <1>2, <1>3
<1> QED
  BY <1>4 DEF d

\* The number of blocks is the least one that has room.
LEMMA BlocksIs ==
  ASSUME NEW n \in Nat, NEW b \in Nat \ {0}, NEW q \in Nat, n <= q * b, q * b < n + b
  PROVE  Blocks(n, b) = q
<1>1. q * b \in Nat
  OBVIOUS
<1>2. n + b - 1 \in Nat /\ q * b <= n + b - 1 /\ n + b - 1 < q * b + b
  BY <1>1
<1> QED
  BY <1>2, QuotientIs DEF Blocks

LEMMA BlocksReach ==
  ASSUME NEW n \in Nat, NEW b \in Nat \ {0}
  PROVE  /\ Blocks(n, b) \in Nat
         /\ n <= Blocks(n, b) * b
         /\ Blocks(n, b) * b < n + b
<1> DEFINE a == n + b - 1
<1>1. a \in Nat
  OBVIOUS
<1> HIDE DEF a
<1>2. (a \div b) \in Nat /\ (a \div b) * b <= a /\ a < (a \div b) * b + b
  BY <1>1
<1> DEFINE q == a \div b
<1> HIDE DEF q
<1>3. q \in Nat /\ q * b \in Nat /\ q * b <= a /\ a < q * b + b
  BY <1>2 DEF q
<1>4. n <= q * b /\ q * b < n + b
  BY <1>3 DEF a
<1> QED
  BY <1>3, <1>4 DEF Blocks, a, q

LEMMA SmallerIs ==
  ASSUME NEW a \in Int, NEW b \in Int
  PROVE  /\ Smaller(a, b) \in {a, b}
         /\ Smaller(a, b) <= a /\ Smaller(a, b) <= b
         /\ a <= b => Smaller(a, b) = a
         /\ b <= a => Smaller(a, b) = b
BY DEF Smaller

--------------------------------------------------------------------------------
(* Strings *)

LEMMA StringsAre ==
  ASSUME NEW n \in Nat, NEW s
  PROVE  s \in Strings(n) <=> s \in Seq(Bytes) /\ Len(s) <= n
<1>1. ASSUME s \in Strings(n)
      PROVE  s \in Seq(Bytes) /\ Len(s) <= n
  <2>1. PICK l \in 0..n : s \in [1..l -> Bytes]
    BY <1>1 DEF Strings
  <2> QED
    BY <2>1
<1>2. ASSUME s \in Seq(Bytes), Len(s) <= n
      PROVE  s \in Strings(n)
  <2>1. Len(s) \in 0..n /\ s \in [1..Len(s) -> Bytes]
    BY <1>2
  <2> QED
    BY <2>1 DEF Strings
<1> QED
  BY <1>1, <1>2

LEMMA PartShape ==
  ASSUME NEW S, NEW s \in Seq(S), NEW a \in Nat \ {0}, NEW b \in Nat, b <= Len(s)
  PROVE  /\ SubSeq(s, a, b) \in Seq(S)
         /\ Len(SubSeq(s, a, b)) = IF a <= b THEN b - a + 1 ELSE 0
         /\ \A k \in 1..(b - a + 1) : SubSeq(s, a, b)[k] = s[a + k - 1]
OBVIOUS

LEMMA DiskShape ==
  ASSUME TypeOK, NEW f \in Names
  PROVE  /\ disk[f] \in Seq(Bytes)
         /\ Len(disk[f]) \in 0..MaxLen
         /\ off[f] \in 0..MaxLen
<1>1. disk[f] \in Strings(MaxLen) /\ off[f] \in 0..MaxLen /\ MaxLen \in Nat
  BY FileCompareAssumption DEF TypeOK
<1> QED
  BY <1>1, StringsAre

LEMMA ReadShape ==
  ASSUME TypeOK, NEW f \in Names, NEW n \in Nat
  PROVE  /\ Read(f, n) \in Seq(Bytes)
         /\ Len(Read(f, n)) \in 0..n
         /\ ~AtEnd(f) => Len(Read(f, n)) = Smaller(off[f] + n, Len(disk[f])) - off[f]
         /\ AtEnd(f) => Len(Read(f, n)) = 0
<1> DEFINE last == Smaller(off[f] + n, Len(disk[f]))
<1>1. disk[f] \in Seq(Bytes) /\ Len(disk[f]) \in Nat /\ off[f] \in Nat
  BY DiskShape
<1>2. last \in Nat /\ last <= Len(disk[f]) /\ last <= off[f] + n
      /\ (off[f] < Len(disk[f]) => off[f] <= last) /\ (off[f] >= Len(disk[f]) => last <= off[f])
  BY <1>1 DEF Smaller
<1> HIDE DEF last
<1>3. /\ SubSeq(disk[f], off[f] + 1, last) \in Seq(Bytes)
      /\ Len(SubSeq(disk[f], off[f] + 1, last)) = IF off[f] + 1 <= last THEN last - (off[f] + 1) + 1 ELSE 0
  <2>1. off[f] + 1 \in Nat \ {0}
    BY <1>1
  <2> QED
    BY <1>1, <1>2, <2>1, PartShape
<1>4. Read(f, n) = SubSeq(disk[f], off[f] + 1, last)
  BY DEF Read, last
<1>5. Len(Read(f, n)) \in 0..n
  BY <1>1, <1>2, <1>3, <1>4, SMTT(20)
<1>6. ~AtEnd(f) => Len(Read(f, n)) = last - off[f]
  BY <1>1, <1>2, <1>3, <1>4 DEF AtEnd
<1>7. AtEnd(f) => Len(Read(f, n)) = 0
  BY <1>1, <1>2, <1>3, <1>4 DEF AtEnd
<1> QED
  BY <1>3, <1>4, <1>5, <1>6, <1>7 DEF last

LEMMA MappingShape ==
  ASSUME TypeOK, NEW f \in Names
  PROVE  /\ Mapping(f) \in Seq(Bytes)
         /\ Len(Mapping(f)) \in 0..size
         /\ \A p \in 1..Len(Mapping(f)) : p <= Len(disk[f]) => Mapping(f)[p] = disk[f][p]
         /\ Len(disk[f]) >= size => Len(Mapping(f)) = size
<1> DEFINE pages == PageLen * Blocks(Len(disk[f]), PageLen)
           top == Smaller(size, pages)
<1>1. disk[f] \in Seq(Bytes) /\ Len(disk[f]) \in Nat /\ size \in Nat /\ PageLen \in Nat \ {0} /\ Zero \in Bytes
  BY DiskShape, FileCompareAssumption DEF TypeOK
<1>2. pages \in Nat /\ Len(disk[f]) <= pages
  <2> DEFINE q == Blocks(Len(disk[f]), PageLen)
  <2>1. q \in Nat /\ Len(disk[f]) <= q * PageLen
    BY <1>1, BlocksReach
  <2> HIDE DEF q
  <2>2. q * PageLen = PageLen * q /\ PageLen * q \in Nat
    BY <1>1, <2>1
  <2> QED
    BY <2>1, <2>2 DEF q
<1> HIDE DEF pages
<1>3. top \in Nat /\ top <= size /\ (Len(disk[f]) >= size => top = size)
  BY <1>1, <1>2 DEF Smaller
<1> HIDE DEF top
<1>4. Mapping(f) = [p \in 1..top |-> IF p <= Len(disk[f]) THEN disk[f][p] ELSE Zero]
  BY DEF Mapping, top, pages
<1>5. Mapping(f) \in [1..top -> Bytes]
  <2>1. \A p \in 1..top : p <= Len(disk[f]) => disk[f][p] \in Bytes
    BY <1>1, <1>3
  <2> QED
    BY <1>1, <1>4, <2>1
<1>6. Mapping(f) \in Seq(Bytes) /\ Len(Mapping(f)) = top
  BY <1>3, <1>5
<1> QED
  BY <1>3, <1>4, <1>6

--------------------------------------------------------------------------------
(* Types *)

LEMMA FileNames == Names = {1, 2} /\ 1 \in Names /\ 2 \in Names /\ Files \subseteq Names
BY DEF Names, Files

LEMMA NameCounts == Cardinality({}) = 0 /\ Cardinality({1}) = 1 /\ Cardinality({1, 2}) = 2
<1>1. Cardinality({}) = 0 /\ IsFiniteSet({1}) /\ Cardinality({1}) = 1
  BY FS_EmptySet, FS_Singleton
<1>2. Cardinality({1} \cup {2}) = 2
  <2>1. 2 \notin {1}
    OBVIOUS
  <2> QED
    BY <1>1, <2>1, FS_AddElement
<1>3. {1, 2} = {1} \cup {2}
  OBVIOUS
<1> QED
  BY <1>1, <1>2, <1>3

\* Another process changes files, and a call does not.
LEMMA ChangeKeepsType ==
  ASSUME TypeOK, NEW f \in Names, Change(f)
  PROVE  TypeOK'
<1>1. /\ disk \in [Names -> Strings(MaxLen)] /\ removed \subseteq Names /\ touched \subseteq Names
      /\ disk' = disk \/ \E s \in Strings(MaxLen) : disk' = [disk EXCEPT ![f] = s]
      /\ removed' = removed \/ removed' = removed \cup {f}
      /\ touched' = touched \cup {f}
  BY DEF TypeOK, Change
<1>2. disk' \in [Names -> Strings(MaxLen)] /\ removed' \subseteq Names /\ touched' \subseteq Names
  BY <1>1
<1> QED
  BY <1>2 DEF TypeOK, Change, files, result

LEMMA TypeStep ==
  ASSUME TypeOK, Held, InStep, Step
  PROVE  TypeOK'
<1>0. /\ disk \in [Names -> Strings(MaxLen)]
      /\ removed \subseteq Names /\ touched \subseteq Names
      /\ call \in {"checksum_file", "filecmp"}
      /\ size \in 0..MaxLen
      /\ pc \in {"called", "small_open", "map", "mapped", "big_open", "read", "read2", "close", "returned", "killed"}
      /\ fd \subseteq Names /\ mm \subseteq Names
      /\ off \in [Names -> 0..MaxLen]
      /\ chunk \in Strings(HugeLen)
      /\ state \in Seq(Strings(HugeLen))
      /\ i \in {0, 1}
      /\ status \in {"none", "ok", "error"}
      /\ unread \in BOOLEAN
  BY DEF TypeOK
<1>1. HugeLen \in Nat \ {0} /\ MaxLen \in Nat /\ 1 \in Names /\ 2 \in Names /\ Files \subseteq Names
  BY FileCompareAssumption, FileNames
<1>2. given' = given
  BY DEF Step, Call, FilecmpEmpty, SmallOpens, BigOpens, OpenFails, Maps, MapFails, Close, Hash, Memcmp,
         Killed, ReachesEnd, HashChunk, HashReadFails, ReadFirst, ReadSecond, ReadSecondShort, FilecmpReadFails
<1>3. disk' = disk /\ removed' = removed /\ touched' = touched /\ call' = call /\ size' = size
  BY <1>2 DEF given, world
<1> DEFINE Rest ==
       /\ pc' \in {"called", "small_open", "map", "mapped", "big_open", "read", "read2", "close", "returned", "killed"}
       /\ fd' \subseteq Names /\ mm' \subseteq Names
       /\ off' \in [Names -> 0..MaxLen]
       /\ chunk' \in Strings(HugeLen)
       /\ state' \in Seq(Strings(HugeLen))
       /\ i' \in {0, 1}
       /\ status' \in {"none", "ok", "error"}
       /\ unread' \in BOOLEAN
<1> SUFFICES Rest
  BY <1>0, <1>3 DEF TypeOK
<1>4. CASE Call
  BY <1>0, <1>4 DEF Call, files, result
<1>5. CASE FilecmpEmpty
  BY <1>0, <1>5 DEF FilecmpEmpty, Return, files
<1>6. ASSUME pc \in {"small_open", "big_open"}, Open
      PROVE  fd' \subseteq Names /\ off' \in [Names -> 0..MaxLen]
  <2>1. fd = {} \/ fd = {1}
    BY <1>6 DEF Held
  <2>2. NextName \in Names
    BY <2>1, NameCounts DEF NextName, Names
  <2>3. fd' = fd \cup {NextName} /\ off' = [off EXCEPT ![NextName] = 0]
    BY <1>6 DEF Open
  <2> QED
    BY <1>0, <1>1, <2>2, <2>3
<1>7. CASE SmallOpens
  BY <1>0, <1>6, <1>7 DEF SmallOpens, result
<1>8. CASE BigOpens
  BY <1>0, <1>6, <1>8 DEF BigOpens
<1>9. CASE OpenFails
  BY <1>0, <1>9 DEF OpenFails, Return, result
<1>10. CASE Maps
  <2>1. LastName \in Names
    <3>1. fd = {1} \/ fd = {1, 2}
      BY <1>10 DEF Maps, Held, Names
    <3> QED
      BY <3>1, NameCounts DEF LastName, Names
  <2> QED
    BY <1>0, <1>10, <2>1 DEF Maps
<1>11. CASE MapFails
  BY <1>0, <1>11 DEF MapFails, result
<1>12. CASE Close
  BY <1>0, <1>12 DEF Close, Return, result
<1>13. CASE Hash
  <2>1. ChunkEnd \in 0..MaxLen /\ ChunkEnd <= off[1] + HugeLen
    BY <1>0, <1>1 DEF ChunkEnd, Smaller
  <2>2. SubSeq(Mapping(1), off[1] + 1, ChunkEnd) \in Strings(HugeLen)
    <3>1. Mapping(1) \in Seq(Bytes) /\ Len(Mapping(1)) \in Nat
      BY <1>1, MappingShape, <1>0
    <3>2. off[1] \in Nat /\ off[1] + 1 \in Nat \ {0} /\ ChunkEnd \in Nat /\ ChunkEnd <= Len(Mapping(1))
      BY <1>0, <1>1, <1>13, <2>1 DEF Hash
    <3> DEFINE part == SubSeq(Mapping(1), off[1] + 1, ChunkEnd)
    <3>3. part \in Seq(Bytes) /\ Len(part) = IF off[1] + 1 <= ChunkEnd THEN ChunkEnd - (off[1] + 1) + 1 ELSE 0
      BY <3>1, <3>2, PartShape
    <3> HIDE DEF part
    <3>4. Len(part) <= HugeLen
      BY <1>1, <2>1, <3>2, <3>3
    <3> QED
      BY <1>1, <3>3, <3>4, StringsAre DEF part
  <2>3. /\ state' = Append(state, SubSeq(Mapping(1), off[1] + 1, ChunkEnd))
        /\ off' = [off EXCEPT ![1] = ChunkEnd]
        /\ pc' \in {"mapped", "close"}
        /\ fd' = fd /\ mm' = mm /\ chunk' = chunk /\ i' = i /\ status' = status /\ unread' = unread
    BY <1>13 DEF Hash, files
  <2> DEFINE part == SubSeq(Mapping(1), off[1] + 1, ChunkEnd)
             last == ChunkEnd
  <2> HIDE DEF part, last
  <2>4. state' \in Seq(Strings(HugeLen)) /\ off' \in [Names -> 0..MaxLen]
    <3>1. state' = Append(state, part) /\ part \in Strings(HugeLen) /\ off' = [off EXCEPT ![1] = last] /\ last \in 0..MaxLen
      BY <2>1, <2>2, <2>3 DEF part, last
    <3> QED
      BY <1>0, <1>1, <3>1
  <2> QED
    BY <1>0, <2>3, <2>4
<1>14. CASE Memcmp
  BY <1>0, <1>14 DEF Memcmp, files
<1>15. CASE Killed
  BY <1>0, <1>15 DEF Killed, files, result
<1>16. CASE ReachesEnd
  BY <1>0, <1>16 DEF ReachesEnd, files, result
<1>17. ASSUME NEW f \in Names, ~AtEnd(f), NEW n \in Nat
       PROVE  off[f] + Len(Read(f, n)) \in 0..MaxLen
  <2>1. disk[f] \in Seq(Bytes) /\ Len(disk[f]) \in 0..MaxLen /\ off[f] \in 0..MaxLen
    BY DiskShape
  <2>2. /\ Len(Read(f, n)) = Smaller(off[f] + n, Len(disk[f])) - off[f]
        /\ Len(Read(f, n)) \in 0..n
    BY <1>17, ReadShape
  <2>3. Smaller(off[f] + n, Len(disk[f])) <= Len(disk[f]) /\ Smaller(off[f] + n, Len(disk[f])) \in Nat
    BY <2>1 DEF Smaller
  <2> QED
    BY <1>1, <2>1, <2>2, <2>3
<1>18. \A f \in Names : Read(f, HugeLen) \in Strings(HugeLen)
  BY <1>1, ReadShape, StringsAre
<1>19. CASE HashChunk
  <2> DEFINE part == Read(1, HugeLen)
  <2>1. /\ state' = Append(state, part)
        /\ off' = [off EXCEPT ![1] = off[1] + Len(part)]
        /\ off[1] + Len(part) \in 0..MaxLen
        /\ part \in Strings(HugeLen)
        /\ pc' = pc /\ fd' = fd /\ mm' = mm /\ chunk' = chunk /\ i' = i /\ status' = status /\ unread' = unread
    BY <1>1, <1>17, <1>18, <1>19 DEF HashChunk, files
  <2> HIDE DEF part
  <2>2. state' \in Seq(Strings(HugeLen)) /\ off' \in [Names -> 0..MaxLen]
    BY <1>0, <1>1, <2>1
  <2> QED
    BY <1>0, <2>1, <2>2
<1>20. CASE HashReadFails
  BY <1>0, <1>20 DEF HashReadFails, Return, result
<1>21. CASE ReadFirst
  <2> DEFINE part == Read(1, HugeLen)
  <2>1. /\ chunk' = part
        /\ off' = [off EXCEPT ![1] = off[1] + Len(part)]
        /\ off[1] + Len(part) \in 0..MaxLen
        /\ part \in Strings(HugeLen)
        /\ pc' = "read2" /\ fd' = fd /\ mm' = mm /\ state' = state /\ i' = i /\ status' = status /\ unread' = unread
    BY <1>1, <1>17, <1>18, <1>21 DEF ReadFirst, files
  <2> HIDE DEF part
  <2>2. off' \in [Names -> 0..MaxLen]
    BY <1>0, <1>1, <2>1
  <2> QED
    BY <1>0, <2>1, <2>2
<1>22. ASSUME pc = "read2", Len(chunk2) > 0
       PROVE  off[2] + Len(chunk2) \in 0..MaxLen
  <2>1. Len(chunk) \in Nat
    BY <1>0, <1>1, StringsAre
  <2>2. ~AtEnd(2)
    BY <1>1, <1>22, <2>1, ReadShape DEF chunk2
  <2> QED
    BY <1>1, <1>17, <2>1, <2>2 DEF chunk2
<1>23. CASE ReadSecond
  <2>1. off[2] + Len(chunk) \in 0..MaxLen
    <3>1. pc = "read2" /\ Len(chunk2) = Len(chunk) /\ Len(chunk) > 0
      BY <1>1, <1>23 DEF ReadSecond, InStep
    <3> QED
      BY <1>22, <3>1
  <2>2. /\ off' = [off EXCEPT ![2] = off[2] + Len(chunk)]
        /\ i' \in {0, 1} /\ pc' \in {"read", "close"}
        /\ fd' = fd /\ mm' = mm /\ chunk' = chunk /\ state' = state /\ status' = status /\ unread' = unread
    BY <1>23 DEF ReadSecond, files
  <2>3. off' \in [Names -> 0..MaxLen]
    BY <1>0, <1>1, <2>1, <2>2
  <2> QED
    BY <1>0, <2>2, <2>3
<1>24. CASE ReadSecondShort
  <2>1. off[2] + Len(chunk2) \in 0..MaxLen
    <3>1. pc = "read2" /\ Len(chunk2) > 0
      BY <1>24 DEF ReadSecondShort
    <3> QED
      BY <1>22, <3>1
  <2>2. /\ off' = [off EXCEPT ![2] = off[2] + Len(chunk2)]
        /\ pc' \in {"returned", "close"} /\ status' \in {status, "ok"}
        /\ fd' = fd /\ mm' = mm /\ chunk' = chunk /\ state' = state /\ i' = i /\ unread' = unread
    BY <1>24 DEF ReadSecondShort, StopsUnread, Return, files, result
  <2>3. off' \in [Names -> 0..MaxLen]
    BY <1>0, <1>1, <2>1, <2>2
  <2> QED
    BY <1>0, <2>2, <2>3
<1>25. CASE FilecmpReadFails
  BY <1>0, <1>25 DEF FilecmpReadFails, StopsUnread, Return, files, result
<1> QED
  BY <1>4, <1>5, <1>7, <1>8, <1>9, <1>10, <1>11, <1>12, <1>13, <1>14, <1>15, <1>16, <1>19, <1>20, <1>21,
     <1>23, <1>24, <1>25 DEF Step

--------------------------------------------------------------------------------
(* What is held *)

LEMMA NoStepHasEnded ==
  ASSUME Step
  PROVE  pc \in {"called", "small_open", "map", "mapped", "big_open", "read", "read2", "close"}
BY DEF Step, Call, FilecmpEmpty, SmallOpens, BigOpens, OpenFails, Opening, Maps, MapFails, Close, Hash, Memcmp,
       Killed, ReachesEnd, HashChunk, HashReadFails, ReadFirst, ReadSecond, ReadSecondShort, FilecmpReadFails

LEMMA OpensNext ==
  ASSUME Held, Opening
  PROVE  \/ fd = {} /\ NextName = 1
         \/ fd = {1} /\ NextName = 2 /\ call = "filecmp"
<1>1. fd = {} \/ (fd = {1} /\ call = "filecmp")
  BY DEF Held, Opening
<1> QED
  BY <1>1, NameCounts DEF NextName

LEMMA HeldStep ==
  ASSUME TypeOK, Held, Step
  PROVE  Held'
<1>0. call \in {"checksum_file", "filecmp"} /\ call' = call
  BY DEF TypeOK, Step, Call, FilecmpEmpty, SmallOpens, BigOpens, OpenFails, Maps, MapFails, Close, Hash, Memcmp,
         Killed, ReachesEnd, HashChunk, HashReadFails, ReadFirst, ReadSecond, ReadSecondShort, FilecmpReadFails, given
<1>1. Files' = Files /\ Files = IF call = "filecmp" THEN {1, 2} ELSE {1}
  BY <1>0 DEF Files, Names
<1>2. ASSUME pc \in {"small_open", "big_open"}
      PROVE  \/ fd = {} /\ NextName = 1
             \/ fd = {1} /\ NextName = 2 /\ call = "filecmp"
  BY <1>2, OpensNext DEF Opening
<1>3. CASE Call
  BY <1>3 DEF Call, Held, files
<1>4. CASE FilecmpEmpty
  BY <1>4 DEF FilecmpEmpty, Return, Held
<1>5. CASE SmallOpens
  <2>1. /\ pc = "small_open" /\ pc' = "map" /\ mm' = mm /\ mm = fd
        /\ fd' = fd \cup {NextName}
    BY <1>5 DEF SmallOpens, Open, Held
  <2>2. \/ fd = {} /\ fd' = {1} /\ mm' = {}
        \/ fd = {1} /\ fd' = {1, 2} /\ mm' = {1} /\ call = "filecmp"
    BY <1>2, <2>1
  <2> QED
    BY <1>0, <2>1, <2>2 DEF Held, Names
<1>6. CASE BigOpens
  <2>1. /\ pc = "big_open" /\ mm' = mm /\ mm = {}
        /\ fd' = fd \cup {NextName}
        /\ pc' = IF fd' = Files THEN "read" ELSE "big_open"
    BY <1>6 DEF BigOpens, Open, Held
  <2>2. \/ fd = {} /\ fd' = {1}
        \/ fd = {1} /\ fd' = {1, 2} /\ call = "filecmp"
    BY <1>2, <2>1
  <2>3. CASE fd' = Files
    BY <1>1, <2>1, <2>3 DEF Held
  <2>4. CASE fd' # Files
    <3>1. fd' = {1} /\ call = "filecmp"
      BY <1>1, <1>0, <2>2, <2>4
    <3> QED
      BY <1>0, <2>1, <2>4, <3>1 DEF Held
  <2> QED
    BY <2>3, <2>4
<1>7. CASE OpenFails
  BY <1>7 DEF OpenFails, Return, Held
<1>8. CASE Maps
  <2>1. /\ pc = "map" /\ mm' = mm \cup {LastName} /\ fd' = fd
        /\ pc' = IF fd = Files THEN "mapped" ELSE "small_open"
        /\ \/ fd = {1} /\ mm = {}
           \/ fd = {1, 2} /\ mm = {1} /\ call = "filecmp"
    BY <1>8 DEF Maps, Held, Names
  <2>2. \/ fd' = {1} /\ mm' = {1} /\ fd = {1}
        \/ fd' = {1, 2} /\ mm' = {1, 2} /\ call = "filecmp" /\ fd = {1, 2}
    BY <2>1, NameCounts DEF LastName
  <2>3. CASE fd = Files
    BY <1>1, <2>1, <2>2, <2>3 DEF Held
  <2>4. CASE fd # Files
    <3>1. fd' = {1} /\ mm' = {1} /\ call = "filecmp"
      BY <1>1, <1>0, <2>2, <2>4
    <3> QED
      BY <1>0, <2>1, <2>4, <3>1 DEF Held
  <2> QED
    BY <2>3, <2>4
<1>9. CASE MapFails
  BY <1>9 DEF MapFails, Held
<1>10. CASE Close
  BY <1>10 DEF Close, Return, Held
<1>11. CASE Hash
  BY <1>1, <1>11 DEF Hash, Held, files
<1>12. CASE Memcmp
  BY <1>1, <1>12 DEF Memcmp, Held, files
<1>13. CASE Killed
  BY <1>13 DEF Killed, Held
<1>14. CASE ReachesEnd
  BY <1>1, <1>14 DEF ReachesEnd, Held, files
<1>15. CASE HashChunk
  BY <1>1, <1>15 DEF HashChunk, Held, files
<1>16. CASE HashReadFails
  BY <1>16 DEF HashReadFails, Return, Held
<1>17. CASE ReadFirst
  BY <1>0, <1>1, <1>17 DEF ReadFirst, Held, files
<1>18. CASE ReadSecond
  BY <1>0, <1>1, <1>18 DEF ReadSecond, Held, files
<1>19. CASE ReadSecondShort
  BY <1>1, <1>19 DEF ReadSecondShort, StopsUnread, Return, Held, files
<1>20. CASE FilecmpReadFails
  BY <1>1, <1>20 DEF FilecmpReadFails, StopsUnread, Return, Held, files
<1> QED
  BY <1>3, <1>4, <1>5, <1>6, <1>7, <1>8, <1>9, <1>10, <1>11, <1>12, <1>13, <1>14, <1>15, <1>16, <1>17, <1>18,
     <1>19, <1>20 DEF Step

\* The next two: a read goes as far as its chunk.
LEMMA FirstRead ==
  ASSUME TypeOK, ~AtEnd(1), NEW part, part = Read(1, HugeLen),
         off' = [off EXCEPT ![1] = @ + Len(part)]
  PROVE  /\ off'[1] = off[1] + Len(part) /\ off'[2] = off[2]
         /\ Len(part) \in 1..HugeLen
         /\ off'[1] = Smaller(off[1] + HugeLen, Len(disk[1]))
<1>0. /\ off \in [Names -> 0..MaxLen] /\ 1 \in Names /\ 2 \in Names /\ HugeLen \in Nat \ {0}
      /\ off[1] \in Nat /\ Len(disk[1]) \in Nat
  BY DiskShape, FileNames, FileCompareAssumption DEF TypeOK
<1>1. Len(part) \in 0..HugeLen /\ Len(part) = Smaller(off[1] + HugeLen, Len(disk[1])) - off[1]
  BY <1>0, ReadShape
<1>2. off[1] < Len(disk[1])
  BY <1>0 DEF AtEnd
<1>3. off[1] < Smaller(off[1] + HugeLen, Len(disk[1])) /\ Smaller(off[1] + HugeLen, Len(disk[1])) \in Nat
  BY <1>0, <1>2 DEF Smaller
<1>4. off'[1] = off[1] + Len(part) /\ off'[2] = off[2]
  BY <1>0
<1> QED
  BY <1>0, <1>1, <1>3, <1>4

LEMMA InStepStep ==
  ASSUME TypeOK, Held, InStep, Step
  PROVE  InStep'
<1>0. /\ off \in [Names -> 0..MaxLen] /\ disk[1] \in Seq(Bytes) /\ Len(disk[1]) \in Nat
      /\ off[1] \in Nat /\ off[2] \in Nat /\ Len(chunk) \in Nat
      /\ 1 \in Names /\ 2 \in Names /\ HugeLen \in Nat \ {0}
  BY DiskShape, StringsAre, FileNames, FileCompareAssumption DEF TypeOK
<1>1. call' = call /\ disk' = disk /\ touched' = touched
  BY DEF Step, Call, FilecmpEmpty, SmallOpens, BigOpens, OpenFails, Maps, MapFails, Close, Hash, Memcmp, Killed,
         ReachesEnd, HashChunk, HashReadFails, ReadFirst, ReadSecond, ReadSecondShort, FilecmpReadFails, given, world
<1>2. ASSUME pc' \notin {"read", "read2", "big_open"}
      PROVE  InStep'
  BY <1>2 DEF InStep
<1>3. ASSUME pc' = "big_open", fd' = {}
      PROVE  InStep'
  BY <1>3 DEF InStep
<1>4. CASE Call
  <2>1. fd' = {} /\ pc' \in {"small_open", "big_open"}
    BY <1>4 DEF Call, Held, files
  <2> QED
    BY <1>2, <1>3, <2>1
<1>5. CASE FilecmpEmpty
  BY <1>2, <1>5 DEF FilecmpEmpty, Return
<1>6. CASE SmallOpens
  BY <1>2, <1>6 DEF SmallOpens
<1>7. CASE BigOpens
  <2>1. /\ off' = [off EXCEPT ![NextName] = 0]
        /\ pc' \in {"read", "big_open"}
        /\ pc' = "read" => fd' = Files
        /\ fd' = fd \cup {NextName}
        /\ \/ fd = {} /\ NextName = 1
           \/ fd = {1} /\ NextName = 2 /\ call = "filecmp"
    BY <1>7, OpensNext DEF BigOpens, Open, Opening
  <2>2. CASE fd = {}
    <3>1. NextName = 1
      BY <2>1, <2>2
    <3>2. pc' = "read" => call # "filecmp"
      BY <2>1, <2>2, <3>1 DEF Files, Names
    <3>3. off'[1] = 0
      BY <1>0, <2>1, <3>1
    <3> QED
      BY <1>0, <1>1, <2>1, <3>2, <3>3 DEF InStep
  <2>3. CASE fd = {1}
    <3>1. off'[2] = 0 /\ off'[1] = off[1]
      BY <1>0, <2>1, <2>3
    <3>2. off[1] = 0
      BY <1>7, <2>3 DEF BigOpens, InStep
    <3> QED
      BY <1>0, <1>1, <2>1, <3>1, <3>2 DEF InStep
  <2> QED
    BY <2>1, <2>2, <2>3
<1>8. CASE OpenFails
  BY <1>2, <1>8 DEF OpenFails, Return
<1>9. CASE Maps
  BY <1>2, <1>9 DEF Maps
<1>10. CASE MapFails
  BY <1>3, <1>10 DEF MapFails
<1>11. CASE Close
  BY <1>2, <1>11 DEF Close, Return
<1>12. CASE Hash
  BY <1>2, <1>12 DEF Hash
<1>13. CASE Memcmp
  BY <1>2, <1>13 DEF Memcmp
<1>14. CASE Killed
  BY <1>2, <1>14 DEF Killed
<1>15. CASE ReachesEnd
  BY <1>2, <1>15 DEF ReachesEnd
<1>16. CASE HashChunk
  <2>1. /\ off' = [off EXCEPT ![1] = @ + Len(Read(1, HugeLen))]
        /\ ~AtEnd(1) /\ pc' = "read" /\ call = "checksum_file"
    BY <1>16 DEF HashChunk
  <2>2. off'[1] = Smaller(off[1] + HugeLen, Len(disk[1]))
    BY <2>1, FirstRead
  <2>3. off'[1] <= Len(disk[1])
    BY <1>0, <2>2, SmallerIs
  <2> QED
    BY <1>1, <2>1, <2>3 DEF InStep
<1>17. CASE HashReadFails
  BY <1>2, <1>17 DEF HashReadFails, Return
<1>18. CASE ReadFirst
  <2>1. /\ off' = [off EXCEPT ![1] = @ + Len(chunk')]
        /\ chunk' = Read(1, HugeLen)
        /\ ~AtEnd(1) /\ pc = "read" /\ pc' = "read2" /\ call = "filecmp"
    BY <1>18 DEF ReadFirst
  <2>2. /\ off'[1] = Smaller(off[1] + HugeLen, Len(disk[1]))
        /\ off'[1] = off[1] + Len(chunk') /\ off'[2] = off[2] /\ Len(chunk') \in 1..HugeLen
    BY <2>1, FirstRead
  <2>3. off'[1] <= Len(disk[1])
    BY <1>0, <2>2, SmallerIs
  <2>4. off[1] = off[2]
    BY <2>1 DEF InStep
  <2> QED
    BY <1>1, <2>1, <2>2, <2>3, <2>4 DEF InStep
<1>19. CASE ReadSecond
  <2>1. /\ off' = [off EXCEPT ![2] = off[2] + Len(chunk)] /\ pc = "read2" /\ pc' \in {"read", "close"}
    BY <1>19 DEF ReadSecond
  <2>2. off'[1] = off[1] /\ off'[2] = off[2] + Len(chunk)
    BY <1>0, <2>1
  <2> QED
    BY <1>1, <2>1, <2>2 DEF InStep
<1>20. CASE ReadSecondShort
  BY <1>2, <1>20 DEF ReadSecondShort, StopsUnread, Return
<1>21. CASE FilecmpReadFails
  BY <1>2, <1>21 DEF FilecmpReadFails, StopsUnread, Return
<1> QED
  BY <1>4, <1>5, <1>6, <1>7, <1>8, <1>9, <1>10, <1>11, <1>12, <1>13, <1>14, <1>15, <1>16, <1>17, <1>18,
     <1>19, <1>20, <1>21 DEF Step

\* The next three: what a call has released when it returns.
Released ==
  pc = "returned" =>
    /\ mm # {} => status = "error" /\ fd = {}
    /\ fd # {} => /\ call = "filecmp" /\ fd = Names /\ i = 0
                  /\ unread \/ touched # {} \/ Len(disk[1]) # Len(disk[2])

LEMMA ShortRead ==
  ASSUME TypeOK, Held, InStep, pc = "read2", Len(chunk2) \in 1..(Len(chunk) - 1)
  PROVE  Len(disk[2]) < off[1]
<1>1. off[1] \in Nat /\ off[2] \in Nat /\ Len(disk[2]) \in Nat /\ Len(chunk) \in Nat /\ 2 \in Names
  BY DiskShape, StringsAre, FileNames, FileCompareAssumption DEF TypeOK
<1>2. off[1] = off[2] + Len(chunk)
  BY DEF InStep
<1>3. ~AtEnd(2)
  BY <1>1, ReadShape DEF chunk2
<1>4. Len(chunk2) = Smaller(off[2] + Len(chunk), Len(disk[2])) - off[2]
  BY <1>1, <1>3, ReadShape DEF chunk2
<1> QED
  BY <1>1, <1>2, <1>4 DEF Smaller

LEMMA ReleasedStep ==
  ASSUME TypeOK, Held, InStep, Step
  PROVE  Released'
<1>0. /\ call' = call /\ disk' = disk /\ touched' = touched
      /\ call = "filecmp" => Files = Names
  BY DEF Step, Call, FilecmpEmpty, SmallOpens, BigOpens, OpenFails, Maps, MapFails, Close, Hash, Memcmp, Killed,
         ReachesEnd, HashChunk, HashReadFails, ReadFirst, ReadSecond, ReadSecondShort, FilecmpReadFails, given, world,
         Files
<1> SUFFICES ASSUME pc' = "returned"
             PROVE  Released'
  BY DEF Released
<1>1. FilecmpEmpty \/ OpenFails \/ Close \/ HashReadFails \/ ReadSecondShort \/ FilecmpReadFails
  BY DEF Step, Call, SmallOpens, BigOpens, Maps, MapFails, Hash, Memcmp, Killed, ReachesEnd, HashChunk, ReadFirst,
         ReadSecond
<1>2. CASE FilecmpEmpty
  BY <1>2 DEF FilecmpEmpty, Held, files, Released
<1>3. CASE OpenFails
  BY <1>3 DEF OpenFails, Released
<1>4. CASE Close
  BY <1>4 DEF Close, Return, Released
<1>5. CASE HashReadFails
  BY <1>5 DEF HashReadFails, Held, Released
<1>6. CASE ReadSecondShort
  <2>1. /\ pc = "read2" /\ Len(chunk2) \in 1..(Len(chunk) - 1)
        /\ i = 0 /\ i' = i /\ fd' = fd /\ mm' = mm
    BY <1>6 DEF ReadSecondShort, StopsUnread, files, result
  <2>2. fd = Names /\ mm = {} /\ call = "filecmp"
    BY <1>0, <2>1 DEF Held
  <2>3. touched = {} => Len(disk[1]) # Len(disk[2])
    <3>1. /\ touched = {} => off[1] <= Len(disk[1])
          /\ Len(disk[2]) < off[1]
          /\ off[1] \in Nat /\ Len(disk[1]) \in Nat /\ Len(disk[2]) \in Nat
      BY <2>1, ShortRead, DiskShape, FileNames DEF InStep
    <3> QED
      BY <3>1
  <2> QED
    BY <1>0, <2>1, <2>2, <2>3 DEF Released
<1>7. CASE FilecmpReadFails
  <2>1. /\ pc \in {"read", "read2"} /\ call = "filecmp"
        /\ i = 0 /\ i' = i /\ fd' = fd /\ mm' = mm /\ unread' = TRUE
    BY <1>7 DEF FilecmpReadFails, StopsUnread, files, result
  <2>2. fd = Names /\ mm = {}
    BY <1>0, <2>1 DEF Held
  <2> QED
    BY <1>0, <2>1, <2>2 DEF Released
<1> QED
  BY <1>1, <1>2, <1>3, <1>4, <1>5, <1>6, <1>7

LEMMA HeldInvIs == HeldInv <=> TypeOK /\ Released /\ Held /\ InStep
BY DEF HeldInv, ReleasedAtReturn, Released

LEMMA HeldInit ==
  ASSUME Init
  PROVE  HeldInv
<1>0. 1 \in Names /\ 2 \in Names /\ HugeLen \in Nat /\ MaxLen \in Nat
  BY FileCompareAssumption DEF Names
<1>1. <<>> \in Strings(HugeLen)
  <2>1. <<>> \in Seq(Bytes) /\ Len(<<>>) <= HugeLen
    BY <1>0
  <2> QED
    BY <1>0, <2>1, StringsAre
<1>2. <<<<>>>> \in Seq(Strings(HugeLen))
  BY <1>1
<1>3. off \in [Names -> 0..MaxLen]
  BY <1>0 DEF Init
<1>4. TypeOK
  BY <1>1, <1>2, <1>3 DEF Init, TypeOK
<1> QED
  BY <1>4, HeldInvIs DEF Init, Held, InStep, Released

LEMMA HeldNext ==
  ASSUME HeldInv, [Next]_vars
  PROVE  HeldInv'
<1>0. TypeOK /\ Released /\ Held /\ InStep
  BY HeldInvIs
<1>1. CASE Step
  <2>1. TypeOK' /\ Released' /\ Held' /\ InStep'
    BY <1>0, <1>1, TypeStep, ReleasedStep, HeldStep, InStepStep
  <2> QED
    BY <2>1 DEF HeldInv, ReleasedAtReturn, Released
<1>2. ASSUME NEW f \in Names, Change(f)
      PROVE  HeldInv'
  <2>1. /\ InCall /\ touched' = touched \cup {f}
        /\ disk \in [Names -> Strings(MaxLen)]
        /\ disk' = disk \/ \E s \in Strings(MaxLen) : disk' = [disk EXCEPT ![f] = s]
        /\ call' = call /\ pc' = pc /\ fd' = fd /\ mm' = mm /\ off' = off /\ chunk' = chunk /\ status' = status
    BY <1>0, <1>2 DEF Change, TypeOK, files, result
  <2>2. TypeOK'
    BY <1>0, <1>2, ChangeKeepsType
  <2>3. Released'
    BY <2>1 DEF Released, InCall
  <2>4. Held'
    BY <1>0, <2>1 DEF Held, Files
  <2>5. 1 \notin touched' => 1 \notin touched /\ disk'[1] = disk[1]
    BY <2>1, FileNames
  <2>6. InStep'
    BY <1>0, <2>1, <2>5 DEF InStep
  <2> QED
    BY <2>2, <2>3, <2>4, <2>6 DEF HeldInv, ReleasedAtReturn, Released
<1>3. CASE UNCHANGED vars
  <2>1. TypeOK' /\ Released' /\ Held' /\ InStep'
    BY <1>0, <1>3 DEF vars, given, world, files, result, TypeOK, Released, Held, InStep, Files
  <2> QED
    BY <2>1 DEF HeldInv, ReleasedAtReturn, Released
<1> QED
  BY <1>1, <1>2, <1>3 DEF Next, Ended

THEOREM HeldInvariant == Spec => []HeldInv
<1>1. Init => HeldInv
  BY HeldInit
<1>2. HeldInv /\ [Next]_vars => HeldInv'
  BY HeldNext
<1> QED
  BY <1>1, <1>2, PTL DEF Spec

\* However the files are changed and whatever fails, a call that returns has closed and
\* unmapped all it opened, but for the early return of big_filecmp that finds no
\* difference and cannot read on, and for a mapping that cannot be deleted.
THEOREM NothingLeftOpen == Spec => []ReleasedAtReturn
<1>1. HeldInv => ReleasedAtReturn
  BY DEF HeldInv
<1> QED
  BY <1>1, HeldInvariant, PTL

--------------------------------------------------------------------------------
(* What is hashed *)

LEMMA NothingHashed ==
  ASSUME NEW s \in Seq(Bytes)
  PROVE  /\ ChunksUpTo(s, 0, <<>>)
         /\ AtBoundary(s, 0)
         /\ \E k \in Nat : 0 = k * HugeLen
<1>1. HugeLen \in Nat \ {0} /\ 0 * HugeLen = 0 /\ Len(s) \in Nat
  BY FileCompareAssumption
<1>2. Blocks(0, HugeLen) = 0
  BY <1>1, BlocksIs
<1>3. \E k \in Nat : 0 = k * HugeLen
  BY <1>1
<1> QED
  BY <1>1, <1>2, <1>3 DEF ChunksUpTo, AtBoundary

LEMMA Appended ==
  ASSUME NEW S, NEW q \in Seq(S), NEW x \in S
  PROVE  /\ Len(Append(q, x)) = Len(q) + 1
         /\ Append(q, x)[Len(q) + 1] = x
         /\ \A j \in 1..Len(q) : Append(q, x)[j] = q[j]
OBVIOUS

\* The chunk between two places.
Piece(s, n, m) == SubSeq(s, n + 1, m)

\* The next chunk is as long as a chunk, or goes to the end.
LEMMA OneMoreChunk ==
  ASSUME NEW s \in Seq(Bytes), NEW S, NEW hashed \in Seq(S), NEW part \in S, NEW k \in Nat, NEW n \in Nat, NEW m \in Nat,
         n = k * HugeLen, n < Len(s), ChunksUpTo(s, n, hashed),
         m = Smaller(n + HugeLen, Len(s)),
         part = Piece(s, n, m)
  PROVE  ChunksUpTo(s, m, Append(hashed, part)) /\ AtBoundary(s, m)
<1>0. HugeLen \in Nat \ {0} /\ Len(s) \in Nat
  BY FileCompareAssumption
<1> DEFINE next == (k + 1) * HugeLen
<1>1. next = n + HugeLen /\ next \in Nat
  BY <1>0, ProductMonotone
<1> HIDE DEF next
<1>2. n < m /\ m <= Len(s) /\ m <= next /\ (m = next \/ m = Len(s)) /\ Smaller(next, m) = m
  BY <1>0, <1>1 DEF Smaller
<1>3. Blocks(n, HugeLen) = k
  BY <1>0, BlocksIs
<1>4. Blocks(m, HugeLen) = k + 1
  <2>1. m <= (k + 1) * HugeLen /\ (k + 1) * HugeLen < m + HugeLen /\ k + 1 \in Nat
    BY <1>0, <1>1, <1>2 DEF next
  <2> QED
    BY <1>0, <2>1, BlocksIs
<1> DEFINE more == Append(hashed, part)
<1>5. Len(hashed) = k /\ Len(more) = k + 1 /\ more[k + 1] = part /\ \A j \in 1..k : more[j] = hashed[j]
  <2>1. Len(hashed) = k
    BY <1>3 DEF ChunksUpTo
  <2>2. /\ Len(more) = Len(hashed) + 1 /\ more[Len(hashed) + 1] = part
        /\ \A j \in 1..Len(hashed) : more[j] = hashed[j]
    BY Appended
  <2> QED
    BY <2>1, <2>2
<1> HIDE DEF more
<1>6. ASSUME NEW j \in 1..(k + 1)
      PROVE  more[j] = SubSeq(s, (j - 1) * HugeLen + 1, Smaller(j * HugeLen, m))
  <2>1. CASE j = k + 1
    <3>1. (j - 1) * HugeLen + 1 = n + 1 /\ j * HugeLen = next
      BY <2>1 DEF next
    <3> QED
      BY <1>2, <1>5, <2>1, <3>1 DEF Piece
  <2>2. CASE j \in 1..k
    <3>1. j * HugeLen <= n /\ j * HugeLen \in Nat
      BY <1>0, <2>2, ProductMonotone
    <3>2. Smaller(j * HugeLen, m) = Smaller(j * HugeLen, n)
      BY <1>2, <3>1 DEF Smaller
    <3>3. hashed[j] = SubSeq(s, (j - 1) * HugeLen + 1, Smaller(j * HugeLen, n))
      BY <1>5, <2>2 DEF ChunksUpTo
    <3> QED
      BY <1>5, <2>2, <3>2, <3>3
  <2> QED
    BY <2>1, <2>2
<1>7. ChunksUpTo(s, m, more)
  BY <1>2, <1>4, <1>5, <1>6 DEF ChunksUpTo
<1>8. AtBoundary(s, m)
  <2>1. k + 1 \in Nat
    OBVIOUS
  <2> QED
    BY <1>2, <2>1 DEF AtBoundary, next
<1> QED
  BY <1>7, <1>8 DEF more

LEMMA AllHashed ==
  ASSUME NEW s \in Seq(Bytes), NEW S, NEW hashed \in Seq(S), ChunksUpTo(s, Len(s), hashed)
  PROVE  hashed = Chunks(s)
<1> DEFINE n == Blocks(Len(s), HugeLen)
<1>0. HugeLen \in Nat \ {0} /\ Len(s) \in Nat
  BY FileCompareAssumption
<1>1. n \in Nat
  BY <1>0, BlocksReach
<1>2. Len(hashed) = n /\ hashed = [k \in 1..n |-> hashed[k]]
  BY <1>1 DEF ChunksUpTo
<1>3. \A k \in 1..n : hashed[k] = SubSeq(s, (k - 1) * HugeLen + 1, Smaller(k * HugeLen, Len(s)))
  BY <1>2 DEF ChunksUpTo
<1>4. Chunks(s) = [k \in 1..n |-> SubSeq(s, (k - 1) * HugeLen + 1, Smaller(k * HugeLen, Len(s)))]
  BY DEF Chunks
<1> HIDE DEF n
<1> QED
  BY <1>2, <1>3, <1>4

\* A mapping shows what the file holds when the file has its size.
LEMMA MappingIsFile ==
  ASSUME TypeOK, NEW f \in Names, Len(disk[f]) = size
  PROVE  Mapping(f) = disk[f]
<1>1. /\ disk[f] \in Seq(Bytes) /\ Mapping(f) \in Seq(Bytes) /\ size \in Nat
      /\ Len(Mapping(f)) = size
      /\ \A p \in 1..size : Mapping(f)[p] = disk[f][p]
  BY DiskShape, MappingShape DEF TypeOK
<1> QED
  BY <1>1

LEMMA HashStep ==
  ASSUME TypeOK, Held, InStep, HashInv, Step
  PROVE  HashInv'
<1>0. /\ disk[1] \in Seq(Bytes) /\ Len(disk[1]) \in Nat /\ off[1] \in Nat /\ size \in Nat
      /\ off \in [Names -> 0..MaxLen] /\ 1 \in Names
      /\ state \in Seq(Strings(HugeLen)) /\ HugeLen \in Nat \ {0}
  BY DiskShape, FileNames, FileCompareAssumption DEF TypeOK
<1>1. call' = call /\ disk' = disk /\ touched' = touched /\ size' = size
  BY DEF Step, Call, FilecmpEmpty, SmallOpens, BigOpens, OpenFails, Maps, MapFails, Close, Hash, Memcmp, Killed,
         ReachesEnd, HashChunk, HashReadFails, ReadFirst, ReadSecond, ReadSecondShort, FilecmpReadFails, given, world
<1> SUFFICES ASSUME call = "checksum_file", 1 \notin touched
             PROVE  HashInv'
  BY <1>1 DEF HashInv
<1>2. Files = {1} /\ Files' = {1}
  BY <1>1 DEF Files
<1>3. ASSUME pc' \notin {"map", "read", "mapped", "close"}, pc' = "returned" => status' = "error"
      PROVE  HashInv'
  BY <1>3 DEF HashInv, ChecksumOfContent, Answered
<1>4. CASE Call
  BY <1>3, <1>4 DEF Call
<1>5. CASE FilecmpEmpty
  BY <1>5 DEF FilecmpEmpty
<1>6. CASE SmallOpens
  <2>1. pc' = "map" /\ off'[1] = 0
    BY <1>0, <1>6, OpensNext DEF SmallOpens, Open, Opening
  <2> QED
    BY <2>1 DEF HashInv, ChecksumOfContent, Answered
<1>7. CASE BigOpens
  <2>1. pc' \in {"read", "big_open"} /\ off'[1] = 0 /\ state' = <<>>
    BY <1>0, <1>7, OpensNext DEF BigOpens, Open, Opening
  <2> QED
    BY <1>0, <1>1, <2>1, NothingHashed DEF HashInv, ChecksumOfContent, Answered
<1>8. CASE OpenFails
  BY <1>3, <1>8 DEF OpenFails, Return
<1>9. CASE Maps
  <2>1. pc' \in {"mapped", "small_open"} /\ off'[1] = 0 /\ state' = <<>> /\ size > 0
    BY <1>9 DEF Maps, HashInv
  <2> QED
    BY <1>0, <1>1, <2>1, NothingHashed DEF HashInv, ChecksumOfContent, Answered
<1>10. CASE MapFails
  BY <1>3, <1>10 DEF MapFails
<1>11. CASE Close
  <2>1. pc = "close" /\ pc' = "returned" /\ state' = state
    BY <1>11 DEF Close, Return, result
  <2>2. Len(disk[1]) = size => state = Chunks(disk[1])
    BY <2>1 DEF HashInv
  <2>3. Chunks(disk[1])' = Chunks(disk[1])
    BY <1>1 DEF Chunks
  <2> QED
    BY <1>1, <2>1, <2>2, <2>3 DEF HashInv, ChecksumOfContent, Answered
<1>12. CASE Hash
  <2> DEFINE part == SubSeq(Mapping(1), off[1] + 1, ChunkEnd)
             last == ChunkEnd
  <2>1. /\ pc = "mapped" /\ state' = Append(state, part) /\ off' = [off EXCEPT ![1] = last]
        /\ pc' = IF MoreToHash THEN "mapped" ELSE "close"
    BY <1>12 DEF Hash
  <2> HIDE DEF part, last
  <2>2. off'[1] = last
    BY <1>0, <2>1
  <2>3. CASE Len(disk[1]) # size
    BY <1>1, <2>1, <2>3 DEF HashInv, ChecksumOfContent, Answered
  <2>4. CASE Len(disk[1]) = size
    <3>1. /\ ChunksUpTo(disk[1], off[1], state) /\ off[1] < size
          /\ \E k \in Nat : off[1] = k * HugeLen
      BY <2>1, <2>4 DEF HashInv
    <3>2. PICK k \in Nat : off[1] = k * HugeLen
      BY <3>1
    <3>3. last = Smaller(off[1] + HugeLen, Len(disk[1])) /\ last \in Nat /\ last <= size
      BY <1>0, <2>4 DEF last, ChunkEnd, Smaller
    <3>4. part = SubSeq(disk[1], off[1] + 1, last)
      BY <1>0, <2>4, MappingIsFile DEF part, last
    <3>5. part \in Seq(Bytes)
      BY <1>0, <2>4, <3>3, <3>4, PartShape
    <3>6. state \in Seq(Strings(HugeLen) \cup {part}) /\ part \in Strings(HugeLen) \cup {part}
      BY <1>0
    <3>7. ChunksUpTo(disk[1], last, Append(state, part))
      <4>1. off[1] < Len(disk[1])
        BY <2>4, <3>1
      <4> QED
        BY <1>0, <3>1, <3>2, <3>3, <3>4, <3>6, <4>1, OneMoreChunk DEF Piece
    <3>8. Append(state, part) \in Seq(Strings(HugeLen) \cup {part})
      BY <3>6
    <3>9. CASE MoreToHash
      <4>1. off[1] + HugeLen < size
        BY <3>9 DEF MoreToHash
      <4>2. last = off[1] + HugeLen
        BY <1>0, <2>4, <3>3, <4>1, SmallerIs
      <4>3. last = (k + 1) * HugeLen /\ k + 1 \in Nat
        BY <1>0, <3>2, <4>2, ProductMonotone
      <4> DEFINE more == k + 1
      <4> HIDE DEF more
      <4>4. last = more * HugeLen /\ more \in Nat
        BY <4>3 DEF more
      <4>5. \E j \in Nat : last = j * HugeLen
        BY <4>4
      <4> QED
        BY <1>1, <2>1, <2>2, <3>7, <3>9, <4>1, <4>2, <4>5 DEF HashInv, ChecksumOfContent, Answered
    <3>10. CASE ~MoreToHash
      <4>1. last = Len(disk[1])
        BY <1>0, <2>4, <3>3, <3>10 DEF MoreToHash, Smaller
      <4>2. Append(state, part) = Chunks(disk[1])
        BY <1>0, <3>7, <3>8, <4>1, AllHashed
      <4>3. Chunks(disk[1])' = Chunks(disk[1])
        BY <1>1 DEF Chunks
      <4> QED
        BY <1>1, <2>1, <3>10, <4>2, <4>3 DEF HashInv, ChecksumOfContent, Answered
    <3> QED
      BY <3>9, <3>10
  <2> QED
    BY <2>3, <2>4
<1>13. CASE Memcmp
  BY <1>13 DEF Memcmp
<1>14. CASE Killed
  BY <1>3, <1>14 DEF Killed
<1>15. CASE ReachesEnd
  <2>1. pc = "read" /\ AtEnd(1) /\ pc' = "close" /\ state' = state
    BY <1>15 DEF ReachesEnd, Held, result
  <2>2. ChunksUpTo(disk[1], off[1], state)
    BY <2>1 DEF HashInv
  <2>3. off[1] = Len(disk[1])
    BY <1>0, <2>1, <2>2 DEF AtEnd, ChunksUpTo
  <2>4. state = Chunks(disk[1])
    BY <1>0, <2>2, <2>3, AllHashed
  <2>5. Chunks(disk[1])' = Chunks(disk[1])
    BY <1>1 DEF Chunks
  <2> QED
    BY <1>1, <2>1, <2>4, <2>5 DEF HashInv, ChecksumOfContent, Answered
<1>16. CASE HashChunk
  <2> DEFINE part == Read(1, HugeLen)
             last == Smaller(off[1] + HugeLen, Len(disk[1]))
  <2>1. /\ pc = "read" /\ pc' = "read" /\ ~AtEnd(1) /\ state' = Append(state, part)
        /\ off' = [off EXCEPT ![1] = @ + Len(part)]
        /\ part = SubSeq(disk[1], off[1] + 1, last)
    BY <1>16 DEF HashChunk, Read
  <2>2. off'[1] = last
    BY <2>1, FirstRead
  <2>3. /\ ChunksUpTo(disk[1], off[1], state) /\ AtBoundary(disk[1], off[1]) /\ off[1] < Len(disk[1])
    BY <1>0, <2>1 DEF HashInv, AtEnd
  <2>4. PICK k \in Nat : off[1] = k * HugeLen
    BY <1>0, <2>3 DEF AtBoundary
  <2>5. last \in Nat /\ last = Smaller(off[1] + HugeLen, Len(disk[1]))
    BY <1>0 DEF Smaller
  <2> HIDE DEF part, last
  <2> DEFINE S == Strings(HugeLen) \cup {part}
  <2>6. state \in Seq(S) /\ part \in S
    BY <1>0
  <2> HIDE DEF S
  <2>7. ChunksUpTo(disk[1], last, Append(state, part)) /\ AtBoundary(disk[1], last)
    <3> DEFINE s == disk[1]
               n == off[1]
    <3>1. /\ s \in Seq(Bytes) /\ n \in Nat /\ n = k * HugeLen /\ n < Len(s)
          /\ ChunksUpTo(s, n, state) /\ last = Smaller(n + HugeLen, Len(s))
          /\ part = Piece(s, n, last)
      BY <1>0, <2>1, <2>3, <2>4, <2>5 DEF Piece
    <3> HIDE DEF s, n
    <3>2. ChunksUpTo(s, last, Append(state, part)) /\ AtBoundary(s, last)
      BY <2>5, <2>6, <3>1, OneMoreChunk
    <3> QED
      BY <3>2 DEF s
  <2> QED
    BY <1>1, <2>1, <2>2, <2>7 DEF HashInv, ChecksumOfContent, Answered
<1>17. CASE HashReadFails
  BY <1>3, <1>17 DEF HashReadFails, Return
<1>18. CASE ReadFirst
  BY <1>18 DEF ReadFirst
<1>19. CASE ReadSecond
  BY <1>19 DEF ReadSecond, Held
<1>20. CASE ReadSecondShort
  BY <1>20 DEF ReadSecondShort, Held
<1>21. CASE FilecmpReadFails
  BY <1>21 DEF FilecmpReadFails
<1> QED
  BY <1>4, <1>5, <1>6, <1>7, <1>8, <1>9, <1>10, <1>11, <1>12, <1>13, <1>14, <1>15, <1>16, <1>17, <1>18,
     <1>19, <1>20, <1>21 DEF Step

THEOREM HashInvariant == Spec => []HashInv
<1>1. Init => HashInv
  BY DEF Init, HashInv, ChecksumOfContent, Answered
<1>2. HeldInv /\ HashInv /\ [Next]_vars => HashInv'
  <2> SUFFICES ASSUME HeldInv, HashInv, [Next]_vars
               PROVE  HashInv'
    OBVIOUS
  <2>0. TypeOK /\ Held /\ InStep
    BY HeldInvIs
  <2>1. CASE Step
    BY <2>0, <2>1, HashStep
  <2>2. ASSUME NEW f \in Names, Change(f)
        PROVE  HashInv'
    <3>1. /\ touched' = touched \cup {f}
          /\ disk \in [Names -> Strings(MaxLen)]
          /\ disk' = disk \/ \E s \in Strings(MaxLen) : disk' = [disk EXCEPT ![f] = s]
          /\ call' = call /\ pc' = pc /\ off' = off /\ state' = state /\ status' = status /\ size' = size
      BY <2>0, <2>2 DEF Change, TypeOK, files, result
    <3>2. 1 \notin touched' => 1 \notin touched /\ disk'[1] = disk[1]
      BY <3>1, FileNames
    <3> QED
      BY <3>1, <3>2 DEF HashInv, ChunksUpTo, AtBoundary, Chunks, ChecksumOfContent, Answered
  <2>3. CASE UNCHANGED vars
    BY <2>3 DEF vars, given, world, files, result, HashInv, ChunksUpTo, AtBoundary, Chunks, ChecksumOfContent, Answered
  <2> QED
    BY <2>1, <2>2, <2>3 DEF Next, Ended
<1> QED
  BY <1>1, <1>2, HeldInvariant, PTL DEF Spec

\* What checksum_file hashes is the content in chunks of HUGE_LEN, whether the file is
\* mapped, read, or read because it could not be mapped: the checksums of ft_process_files
\* compare contents, whatever way each file was read.
THEOREM ChecksumDependsOnContent == Spec => []ChecksumOfContent
<1>1. ASSUME HeldInv, HashInv
      PROVE  ChecksumOfContent
  BY <1>1 DEF HashInv, ChecksumOfContent, Answered
<1> QED
  BY <1>1, HeldInvariant, HashInvariant, PTL

--------------------------------------------------------------------------------
(* What is compared *)

\* The part of the verdict that is about whole chunks.
WholeChunks == (Smaller(Len(disk[1]), Len(disk[2])) \div HugeLen) * HugeLen

LEMMA WholeChunksFit ==
  ASSUME TypeOK
  PROVE  /\ WholeChunks \in Nat /\ WholeChunks <= Len(disk[1]) /\ WholeChunks <= Len(disk[2])
         /\ \A k \in Nat :
              /\ k * HugeLen <= Smaller(Len(disk[1]), Len(disk[2]))
              /\ Smaller(Len(disk[1]), Len(disk[2])) < k * HugeLen + HugeLen
              => WholeChunks = k * HugeLen
<1> DEFINE m == Smaller(Len(disk[1]), Len(disk[2]))
<1>0. HugeLen \in Nat \ {0} /\ Len(disk[1]) \in Nat /\ Len(disk[2]) \in Nat
  BY DiskShape, FileNames, FileCompareAssumption
<1>1. m \in Nat /\ m <= Len(disk[1]) /\ m <= Len(disk[2])
  BY <1>0 DEF Smaller
<1>2. WholeChunks = (m \div HugeLen) * HugeLen
  BY DEF WholeChunks
<1> HIDE DEF m
<1>3. (m \div HugeLen) * HugeLen \in Nat /\ (m \div HugeLen) * HugeLen <= m
  BY <1>0, <1>1
<1>4. \A k \in Nat : k * HugeLen <= m /\ m < k * HugeLen + HugeLen => (m \div HugeLen) = k
  BY <1>0, <1>1, QuotientIs
<1>5. \A k \in Nat : k * HugeLen <= m /\ m < k * HugeLen + HugeLen => WholeChunks = k * HugeLen
  BY <1>2, <1>4
<1>6. WholeChunks \in Nat /\ WholeChunks <= Len(disk[1]) /\ WholeChunks <= Len(disk[2])
  <2> DEFINE w == (m \div HugeLen) * HugeLen
  <2>1. w \in Nat /\ w <= m /\ WholeChunks = w
    BY <1>2, <1>3
  <2> HIDE DEF w
  <2> QED
    BY <1>0, <1>1, <2>1
<1> QED
  BY <1>5, <1>6 DEF m

\* Files that agree up to the last whole chunk of the shorter one.
LEMMA VerdictFrom ==
  ASSUME TypeOK, disk' = disk, size' = size, NEW n \in Nat,
         i' = 0 => WholeChunks <= n \/ size <= n,
         i' = 0 => \A p \in 1..n : p <= WholeChunks /\ p <= size => disk[1][p] = disk[2][p],
         (\A f \in Names : Len(disk[f]) = size) => (i' = 0 <=> disk[1] = disk[2])
  PROVE  Verdict'
<1>0. WholeChunks \in Nat /\ size \in Nat
  BY WholeChunksFit DEF TypeOK
<1>1. ASSUME i' = 0, NEW p \in 1..Smaller(WholeChunks, size)
      PROVE  disk[1][p] = disk[2][p]
  <2>1. p \in Nat /\ 1 <= p /\ p <= WholeChunks /\ p <= size
    BY <1>0, <1>1 DEF Smaller
  <2>2. p \in 1..n
    BY <1>0, <1>1, <2>1
  <2> QED
    BY <1>1, <2>1, <2>2
<1>2. i' = 0 => \A p \in 1..Smaller((Smaller(Len(disk'[1]), Len(disk'[2])) \div HugeLen) * HugeLen, size') :
                  disk'[1][p] = disk'[2][p]
  BY <1>1 DEF WholeChunks
<1>3. (\A f \in Names : Len(disk'[f]) = size') => (i' = 0 <=> disk'[1] = disk'[2])
  OBVIOUS
<1> QED
  BY <1>2, <1>3 DEF Verdict

\* The mappings are equal as far as memcmp can tell.
LEMMA MappedVerdict ==
  ASSUME TypeOK, disk' = disk, size' = size, i' = IF DifferMapped THEN 1 ELSE 0, DifferMapped \/ Touchable = size
  PROVE  Verdict'
<1>0. /\ size \in Nat /\ WholeChunks \in Nat /\ WholeChunks <= Len(disk[1]) /\ WholeChunks <= Len(disk[2])
      /\ disk[1] \in Seq(Bytes) /\ disk[2] \in Seq(Bytes) /\ Len(disk[1]) \in Nat /\ Len(disk[2]) \in Nat
  BY WholeChunksFit, DiskShape, FileNames DEF TypeOK
<1>1. /\ Mapping(1) \in Seq(Bytes) /\ Len(Mapping(1)) \in 0..size
      /\ Mapping(2) \in Seq(Bytes) /\ Len(Mapping(2)) \in 0..size
      /\ \A p \in 1..Len(Mapping(1)) : p <= Len(disk[1]) => Mapping(1)[p] = disk[1][p]
      /\ \A p \in 1..Len(Mapping(2)) : p <= Len(disk[2]) => Mapping(2)[p] = disk[2][p]
  BY MappingShape, FileNames
<1>2. (\A f \in Names : Len(disk[f]) = size) => (i' = 0 <=> disk[1] = disk[2])
  <2> SUFFICES ASSUME \A f \in Names : Len(disk[f]) = size
               PROVE  i' = 0 <=> disk[1] = disk[2]
    OBVIOUS
  <2>1. Len(disk[1]) = size /\ Len(disk[2]) = size /\ Mapping(1) = disk[1] /\ Mapping(2) = disk[2]
    BY FileNames, MappingIsFile
  <2>2. DifferMapped <=> \E p \in 1..size : disk[1][p] # disk[2][p]
    BY <1>0, <2>1 DEF DifferMapped, Touchable, Smaller
  <2>3. disk[1] = disk[2] <=> \A p \in 1..size : disk[1][p] = disk[2][p]
    BY <1>0, <2>1
  <2> QED
    BY <2>2, <2>3
<1>3. i' = 0 => \A p \in 1..size : p <= WholeChunks => disk[1][p] = disk[2][p]
  <2> SUFFICES ASSUME ~DifferMapped, NEW p \in 1..size, p <= WholeChunks
               PROVE  disk[1][p] = disk[2][p]
    OBVIOUS
  <2>1. Touchable = size /\ Len(Mapping(1)) = size /\ Len(Mapping(2)) = size
    BY <1>0, <1>1 DEF Touchable, Smaller
  <2>2. Mapping(1)[p] = Mapping(2)[p]
    BY <2>1 DEF DifferMapped
  <2>3. p <= Len(disk[1]) /\ p <= Len(disk[2])
    BY <1>0
  <2> QED
    BY <1>1, <2>1, <2>2, <2>3
<1> QED
  BY <1>0, <1>2, <1>3, VerdictFrom

\* The two chunks compared, when as many bytes could be read of the second file.
LEMMA SecondRead ==
  ASSUME TypeOK, InStep, pc = "read2", Len(chunk2) = Len(chunk)
  PROVE  /\ chunk2 = SubSeq(disk[2], off[2] + 1, off[1])
         /\ off[1] <= Len(disk[2])
<1>0. Len(disk[2]) \in Nat /\ off[1] \in Nat /\ off[2] \in Nat /\ Len(chunk) \in Nat /\ 2 \in Names
  BY DiskShape, StringsAre, FileNames, FileCompareAssumption DEF TypeOK
<1>1. off[1] = off[2] + Len(chunk) /\ Len(chunk) > 0
  BY <1>0, FileCompareAssumption DEF InStep
<1>2. ~AtEnd(2)
  BY <1>0, <1>1, ReadShape DEF chunk2
<1>3. Len(chunk2) = Smaller(off[2] + Len(chunk), Len(disk[2])) - off[2]
  BY <1>0, <1>2, ReadShape DEF chunk2
<1>4. Smaller(off[1], Len(disk[2])) = off[1] /\ off[1] <= Len(disk[2])
  <2> DEFINE l == Len(chunk)
             t == Len(disk[2])
  <2>1. /\ l \in Nat /\ t \in Nat /\ off[1] = off[2] + l /\ l = Smaller(off[2] + l, t) - off[2]
    BY <1>0, <1>1, <1>3
  <2> HIDE DEF l, t
  <2>2. Smaller(off[1], t) = off[1] /\ off[1] <= t
    BY <1>0, <2>1 DEF Smaller
  <2> QED
    BY <2>2 DEF t
<1> QED
  BY <1>1, <1>4 DEF chunk2, Read

LEMMA EqualParts ==
  ASSUME NEW s \in Seq(Bytes), NEW t \in Seq(Bytes), NEW a \in Nat, NEW b \in Nat, b <= Len(s), b <= Len(t),
         SubSeq(s, a + 1, b) = SubSeq(t, a + 1, b), NEW p \in (a + 1)..b
  PROVE  s[p] = t[p]
<1>1. a + 1 \in Nat \ {0}
  OBVIOUS
<1>2. /\ \A k \in 1..(b - (a + 1) + 1) : SubSeq(s, a + 1, b)[k] = s[a + 1 + k - 1]
      /\ \A k \in 1..(b - (a + 1) + 1) : SubSeq(t, a + 1, b)[k] = t[a + 1 + k - 1]
  BY <1>1, PartShape
<1> DEFINE q == p - a
<1>3. q \in 1..(b - (a + 1) + 1) /\ a + 1 + q - 1 = p
  OBVIOUS
<1> HIDE DEF q
<1> QED
  BY <1>2, <1>3

LEMMA AgreeFurther ==
  ASSUME TypeOK, InStep, pc = "read2", Len(chunk2) = Len(chunk), chunk = chunk2,
         chunk = SubSeq(disk[1], off[2] + 1, off[1]), off[1] <= Len(disk[1]), Agree(off[2])
  PROVE  Agree(off[1])
<1>0. /\ disk[1] \in Seq(Bytes) /\ disk[2] \in Seq(Bytes)
      /\ off[1] \in Nat /\ off[2] \in Nat
  BY DiskShape, FileNames
<1>1. off[1] <= Len(disk[2]) /\ SubSeq(disk[1], off[2] + 1, off[1]) = SubSeq(disk[2], off[2] + 1, off[1])
  BY SecondRead
<1>2. \A p \in (off[2] + 1)..off[1] : disk[1][p] = disk[2][p]
  BY <1>0, <1>1, EqualParts
<1>3. \A p \in 1..off[2] : disk[1][p] = disk[2][p]
  BY DEF Agree
<1>4. \A p \in 1..off[1] : p \in 1..off[2] \/ p \in (off[2] + 1)..off[1]
  BY <1>0
<1>5. \A p \in 1..off[1] : disk[1][p] = disk[2][p]
  BY <1>2, <1>3, <1>4
<1> QED
  BY <1>1, <1>5 DEF Agree

LEMMA VerdictStep ==
  ASSUME TypeOK, Held, InStep, InStep', VerdictInv, Step
  PROVE  VerdictInv'
<1>0. /\ disk[1] \in Seq(Bytes) /\ Len(disk[1]) \in Nat /\ disk[2] \in Seq(Bytes) /\ Len(disk[2]) \in Nat
      /\ off[1] \in Nat /\ off[2] \in Nat /\ size \in Nat /\ i \in {0, 1} /\ status \in {"none", "ok", "error"}
      /\ off \in [Names -> 0..MaxLen] /\ 1 \in Names /\ 2 \in Names /\ Len(chunk) \in Nat
      /\ HugeLen \in Nat \ {0}
      /\ WholeChunks \in Nat /\ WholeChunks <= Len(disk[1]) /\ WholeChunks <= Len(disk[2])
  BY DiskShape, StringsAre, WholeChunksFit, FileNames, FileCompareAssumption, SMTT(20) DEF TypeOK
<1>1. /\ call' = call /\ disk' = disk /\ touched' = touched /\ size' = size
      /\ \A n : Agree(n)' <=> Agree(n)
  BY DEF Step, Call, FilecmpEmpty, SmallOpens, BigOpens, OpenFails, Maps, MapFails, Close, Hash, Memcmp, Killed,
         ReachesEnd, HashChunk, HashReadFails, ReadFirst, ReadSecond, ReadSecondShort, FilecmpReadFails, given, world,
         Agree
<1>2. unread' = unread \/ unread' = TRUE
  BY DEF Step, Call, FilecmpEmpty, SmallOpens, BigOpens, OpenFails, Maps, MapFails, Close, Hash, Memcmp, Killed,
         ReachesEnd, HashChunk, HashReadFails, ReadFirst, ReadSecond, ReadSecondShort, FilecmpReadFails
<1> SUFFICES ASSUME call = "filecmp", touched = {}, ~unread, ~unread'
             PROVE  VerdictInv'
  BY <1>1, <1>2 DEF VerdictInv
<1>3. pc \notin {"called", "returned", "killed"} => size > 0
  BY DEF VerdictInv
<1>4. ASSUME pc' \notin {"read", "read2", "close"}, pc' = "returned" => status' # "ok",
             pc' \notin {"called", "returned", "killed"} => size > 0
      PROVE  VerdictInv'
  BY <1>1, <1>4 DEF VerdictInv
<1>5. ASSUME pc' \in {"close", "returned"}, Verdict', size > 0
      PROVE  VerdictInv'
  BY <1>1, <1>5 DEF VerdictInv
<1>6. CASE Call
  BY <1>4, <1>6 DEF Call
<1>7. CASE FilecmpEmpty
  <2>1. pc' = "returned" /\ i' = 0 /\ size = 0
    BY <1>7 DEF FilecmpEmpty, Return
  <2>2. (\A f \in Names : Len(disk[f]) = size) => disk[1] = disk[2]
    BY <1>0, <2>1
  <2>3. Verdict'
    <3>1. size <= 0 /\ 0 \in Nat /\ \A p \in 1..0 : FALSE
      BY <2>1
    <3> QED
      BY <1>1, <2>1, <2>2, <3>1, VerdictFrom
  <2> QED
    BY <1>1, <2>1, <2>3 DEF VerdictInv
<1>8. CASE SmallOpens
  BY <1>3, <1>4, <1>8 DEF SmallOpens
<1>9. CASE BigOpens
  <2>1. pc = "big_open" /\ pc' \in {"read", "big_open"}
    BY <1>9 DEF BigOpens
  <2>2. CASE pc' = "big_open"
    BY <1>3, <1>4, <2>1, <2>2
  <2>3. CASE pc' = "read"
    <3>1. off' = [off EXCEPT ![NextName] = 0] /\ fd' = fd \cup {NextName} /\ fd' = Files
      BY <1>9, <2>3 DEF BigOpens, Open
    <3>2. fd = {1}
      <4>1. fd = {} \/ fd = {1}
        BY <1>9 DEF BigOpens, Held
      <4>2. fd # {}
        BY <3>1, NameCounts DEF NextName, Files, Names
      <4> QED
        BY <4>1, <4>2
    <3>3. NextName = 2 /\ off'[2] = 0
      BY <1>0, <3>1, <3>2, NameCounts DEF NextName
    <3>4. off'[1] = 0
      BY <1>1, <2>3, <3>3 DEF InStep
    <3>5. Agree(0) /\ AtBoundary(disk[1], 0)
      BY <1>0, NothingHashed DEF Agree
    <3>6. AtBoundary(disk[1], off[1])'
      BY <1>1, <3>4, <3>5 DEF AtBoundary
    <3>7. Agree(off[1])'
      BY <1>1, <3>4, <3>5 DEF Agree
    <3>8. size > 0
      BY <1>3, <2>1
    <3> QED
      BY <1>1, <2>3, <3>4, <3>6, <3>7, <3>8 DEF VerdictInv
  <2> QED
    BY <2>1, <2>2, <2>3
<1>10. CASE OpenFails
  BY <1>4, <1>10 DEF OpenFails, Return
<1>11. CASE Maps
  BY <1>3, <1>4, <1>11 DEF Maps
<1>12. CASE MapFails
  BY <1>3, <1>4, <1>12 DEF MapFails
<1>13. CASE Close
  <2>1. pc = "close" /\ pc' = "returned" /\ i' = i
    BY <1>13 DEF Close, Return, result
  <2>2. Verdict
    BY <2>1 DEF VerdictInv
  <2>3. Verdict'
    BY <1>1, <2>1, <2>2 DEF Verdict
  <2> QED
    BY <1>3, <1>5, <2>1, <2>3
<1>14. CASE Hash
  BY <1>14 DEF Hash
<1>15. CASE Memcmp
  <2>1. pc' = "close" /\ Verdict' /\ pc = "mapped"
    BY <1>1, <1>15, MappedVerdict DEF Memcmp
  <2> QED
    BY <1>3, <1>5, <2>1
<1>16. CASE Killed
  BY <1>4, <1>16 DEF Killed
<1>17. CASE ReachesEnd
  <2>0. pc' = "close" /\ i' = i /\ size > 0 /\ pc \in {"read", "read2"}
    BY <1>3, <1>17 DEF ReachesEnd, result
  <2>1. CASE pc = "read" /\ AtEnd(1)
    <3>1. Agree(off[1]) /\ (off[1] > 0 => i = 0)
      BY <2>1 DEF VerdictInv
    <3>2. off[1] = Len(disk[1]) /\ off[1] <= Len(disk[2])
      BY <1>0, <2>1, <3>1 DEF AtEnd, Agree
    <3>3. (\A f \in Names : Len(disk[f]) = size) => (i' = 0 <=> disk[1] = disk[2])
      <4> SUFFICES ASSUME \A f \in Names : Len(disk[f]) = size
                   PROVE  i' = 0 <=> disk[1] = disk[2]
        OBVIOUS
      <4>1. i' = 0 /\ Len(disk[1]) = Len(disk[2])
        BY <1>0, <2>0, <3>1, <3>2
      <4>2. \A p \in 1..Len(disk[1]) : disk[1][p] = disk[2][p]
        BY <3>1, <3>2 DEF Agree
      <4>3. disk[1] \in Seq(Bytes) /\ disk[2] \in Seq(Bytes)
        BY <1>0
      <4>4. disk[1] = disk[2]
        BY <4>1, <4>2, <4>3
      <4> QED
        BY <4>1, <4>4
    <3>4. WholeChunks <= off[1] /\ \A p \in 1..off[1] : disk[1][p] = disk[2][p]
      BY <1>0, <3>1, <3>2 DEF Agree
    <3>5. Verdict'
      BY <1>0, <1>1, <3>3, <3>4, VerdictFrom
    <3> QED
      BY <1>5, <2>0, <3>5
  <2>2. CASE pc = "read2" /\ AtEnd(2)
    <3>1. Agree(off[2])
      BY <2>2 DEF VerdictInv
    <3>2. off[2] = Len(disk[2])
      BY <1>0, <2>2, <3>1 DEF AtEnd, Agree
    <3>3. off[2] < off[1] /\ off[1] <= Len(disk[1])
      BY <1>0, <2>2 DEF InStep
    <3>4. ~(\A f \in Names : Len(disk[f]) = size)
      BY <1>0, <3>2, <3>3
    <3>5. WholeChunks <= off[2] /\ \A p \in 1..off[2] : disk[1][p] = disk[2][p]
      BY <1>0, <3>1, <3>2 DEF Agree
    <3>6. Verdict'
      BY <1>0, <1>1, <3>4, <3>5, VerdictFrom
    <3> QED
      BY <1>5, <2>0, <3>6
  <2> QED
    BY <1>17, <2>1, <2>2 DEF ReachesEnd
<1>18. CASE HashChunk
  BY <1>18 DEF HashChunk
<1>19. CASE HashReadFails
  BY <1>19 DEF HashReadFails
<1>20. CASE ReadFirst
  <2>1. /\ pc = "read" /\ pc' = "read2" /\ ~AtEnd(1) /\ i' = i
        /\ chunk' = Read(1, HugeLen)
        /\ off' = [off EXCEPT ![1] = @ + Len(chunk')]
    BY <1>20 DEF ReadFirst
  <2>2. /\ off'[1] = off[1] + Len(chunk') /\ off'[2] = off[2]
        /\ off'[1] = Smaller(off[1] + HugeLen, Len(disk[1]))
    BY <2>1, FirstRead
  <2>3. off[1] = off[2] /\ size > 0
    BY <1>3, <2>1 DEF InStep
  <2>4. Agree(off[2]) /\ (off[2] > 0 => i = 0) /\ AtBoundary(disk[1], off[2])
    BY <2>1, <2>3 DEF VerdictInv
  <2>5. \E k \in Nat : off[2] = k * HugeLen
    BY <1>0, <2>1, <2>3, <2>4 DEF AtBoundary, AtEnd
  <2>6. chunk' = SubSeq(disk[1], off'[2] + 1, off'[1])
    BY <2>1, <2>2, <2>3 DEF Read
  <2>7. Len(chunk') = HugeLen \/ off'[1] = Len(disk[1])
    <3>1. Len(chunk') \in Nat
      BY <2>1, <1>0, ReadShape
    <3> QED
      BY <1>0, <2>2, <3>1 DEF Smaller
  <2>8. Agree(off[2])'
    BY <1>1, <2>2, <2>4 DEF Agree
  <2> QED
    BY <1>1, <2>1, <2>2, <2>3, <2>4, <2>5, <2>6, <2>7, <2>8 DEF VerdictInv
<1>21. CASE ReadSecond
  <2>1. /\ pc = "read2" /\ Len(chunk2) = Len(chunk)
        /\ i' = IF chunk = chunk2 THEN 0 ELSE 1
        /\ off' = [off EXCEPT ![2] = @ + Len(chunk)]
        /\ pc' = IF chunk = chunk2 THEN "read" ELSE "close"
    BY <1>21 DEF ReadSecond, KeepsOn
  <2>2. /\ Agree(off[2]) /\ size > 0
        /\ \E k \in Nat : off[2] = k * HugeLen
        /\ chunk = SubSeq(disk[1], off[2] + 1, off[1])
        /\ Len(chunk) = HugeLen \/ off[1] = Len(disk[1])
    BY <1>3, <2>1 DEF VerdictInv
  <2>3. off[1] = off[2] + Len(chunk) /\ off[1] <= Len(disk[1])
    BY <2>1 DEF InStep
  <2>4. chunk2 = SubSeq(disk[2], off[2] + 1, off[1]) /\ (chunk = chunk2 => Agree(off[1]))
    BY <2>1, <2>2, <2>3, SecondRead, AgreeFurther
  <2>5. CASE chunk = chunk2
    <3>1. pc' = "read" /\ i' = 0 /\ off'[1] = off[1]
      BY <1>0, <2>1, <2>5
    <3>2. AtBoundary(disk[1], off[1])
      <4>1. CASE off[1] = Len(disk[1])
        BY <4>1 DEF AtBoundary
      <4>2. CASE Len(chunk) = HugeLen
        <5>1. PICK k \in Nat : off[2] = k * HugeLen
          BY <2>2
        <5>2. k + 1 \in Nat /\ off[1] = (k + 1) * HugeLen
          BY <1>0, <2>3, <4>2, <5>1, ProductMonotone
        <5> DEFINE more == k + 1
        <5>3. more \in Nat /\ off[1] = more * HugeLen
          BY <5>2
        <5> HIDE DEF more
        <5> QED
          BY <5>3 DEF AtBoundary
      <4> QED
        BY <2>2, <4>1, <4>2
    <3>3. AtBoundary(disk[1], off[1])'
      BY <1>1, <3>1, <3>2 DEF AtBoundary
    <3>4. Agree(off[1])'
      BY <1>1, <2>4, <2>5, <3>1 DEF Agree
    <3> QED
      BY <1>1, <2>2, <3>1, <3>3, <3>4 DEF VerdictInv
  <2>6. CASE chunk # chunk2
    <3>1. pc' = "close" /\ i' = 1
      BY <2>1, <2>6
    <3>2. disk[1] # disk[2]
      BY <2>2, <2>4, <2>6
    <3>3. Verdict'
      BY <1>0, <1>1, <3>1, <3>2, VerdictFrom
    <3> QED
      BY <1>5, <2>2, <3>1, <3>3
  <2> QED
    BY <2>5, <2>6
<1>22. CASE ReadSecondShort
  <2>1. pc = "read2" /\ Len(chunk2) \in 1..(Len(chunk) - 1) /\ i' = i /\ pc' \in {"returned", "close"}
    BY <1>22 DEF ReadSecondShort, StopsUnread, Return, result
  <2>2. Agree(off[2]) /\ size > 0 /\ \E k \in Nat : off[2] = k * HugeLen
    BY <1>3, <2>1 DEF VerdictInv
  <2>3. /\ Len(disk[2]) < off[1] /\ off[1] <= Len(disk[1])
        /\ off[1] = off[2] + Len(chunk) /\ Len(chunk) <= HugeLen
    BY <1>0, <2>1, ShortRead DEF InStep
  <2>4. PICK k \in Nat : off[2] = k * HugeLen
    BY <2>2
  <2>5. Smaller(Len(disk[1]), Len(disk[2])) = Len(disk[2]) /\ off[2] <= Len(disk[2]) /\ Len(disk[2]) < off[2] + HugeLen
    BY <1>0, <2>2, <2>3 DEF Smaller, Agree
  <2>6. WholeChunks = off[2]
    BY <2>4, <2>5, WholeChunksFit
  <2>7. ~(\A f \in Names : Len(disk[f]) = size)
    BY <1>0, <2>3
  <2>8. Verdict'
    <3>1. WholeChunks <= off[2] /\ \A p \in 1..off[2] : disk[1][p] = disk[2][p]
      BY <1>0, <2>2, <2>6 DEF Agree
    <3> QED
      BY <1>0, <1>1, <2>7, <3>1, VerdictFrom
  <2> QED
    BY <1>5, <2>1, <2>2, <2>8
<1>23. CASE FilecmpReadFails
  BY <1>23 DEF FilecmpReadFails
<1> QED
  BY <1>6, <1>7, <1>8, <1>9, <1>10, <1>11, <1>12, <1>13, <1>14, <1>15, <1>16, <1>17, <1>18, <1>19, <1>20,
     <1>21, <1>22, <1>23 DEF Step

THEOREM VerdictInvariant == Spec => []VerdictInv
<1>1. Init => VerdictInv
  BY DEF Init, VerdictInv
<1>2. HeldInv /\ HeldInv' /\ VerdictInv /\ [Next]_vars => VerdictInv'
  <2> SUFFICES ASSUME HeldInv, HeldInv', VerdictInv, [Next]_vars
               PROVE  VerdictInv'
    OBVIOUS
  <2>0. TypeOK /\ Held /\ InStep /\ InStep'
    BY DEF HeldInv, ReleasedAtReturn
  <2>1. CASE Step
    BY <2>0, <2>1, VerdictStep
  <2>2. ASSUME NEW f \in Names, Change(f)
        PROVE  VerdictInv'
    <3>1. touched' # {}
      BY <2>2 DEF Change
    <3> QED
      BY <3>1 DEF VerdictInv
  <2>3. CASE UNCHANGED vars
    BY <2>3 DEF vars, given, world, files, result, VerdictInv, Agree, AtBoundary, Verdict
  <2> QED
    BY <2>1, <2>2, <2>3 DEF Next, Ended
<1> QED
  BY <1>1, <1>2, HeldInvariant, PTL DEF Spec

\* filecmp, mapped or read, says that two files of the walk's size are equal if and only
\* if they are; of files that had other sizes when it was called it says so only if they
\* agree up to the last whole chunk of the shorter one.
THEOREM ComparisonIsRight == Spec => []VerdictRight
<1>1. ASSUME VerdictInv
      PROVE  VerdictRight
  BY <1>1 DEF VerdictInv, VerdictRight, Answered, Verdict
<1> QED
  BY <1>1, VerdictInvariant, PTL
================================================================================

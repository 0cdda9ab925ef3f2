---------------------------- MODULE HashTableProofs ----------------------------
(***************************************************************************)
(* Proofs about HashTable, for any data, keys, hash function and filling   *)
(* factor, however many copies of copies a rebuild makes and whichever     *)
(* allocations fail: every datum stays where a search looks for it, no     *)
(* bucket overflows unless the error of a call was ignored, an iteration   *)
(* comes to every datum, and the table is a dictionary.                    *)
(***************************************************************************)
EXTENDS HashTable, FiniteSetTheorems, WellFoundedInduction, TLAPS

Tables == UNION {[size : {s}, nel : Nat, bucket : [0..(s - 1) -> Seq(Data)]] : s \in Nat \ {0}}
Cursors == [i : Nat, j : Nat \ {0}]

\* A table with each datum once, in the bucket where its hash belongs.
Sound(t) ==
  /\ t \in Tables
  /\ \A b \in DOMAIN t.bucket : \A n \in DOMAIN t.bucket[b] :
       BucketOf(t, KeyOf[t.bucket[b][n]]) = b
  /\ \A b \in DOMAIN t.bucket : \A m, n \in DOMAIN t.bucket[b] :
       t.bucket[b][m] = t.bucket[b][n] => m = n
  /\ IsFiniteSet(Contents(t)) /\ t.nel = Cardinality(Contents(t))

\* The copy u of a table t has what the loops have come by at the cursor c.
Passed(c, b, n) == b < c.i \/ (b = c.i /\ n < c.j)
Copied(t, c, u) ==
  /\ c.i <= t.size
  /\ \A b \in DOMAIN t.bucket : \A n \in DOMAIN t.bucket[b] :
       t.bucket[b][n] \in Contents(u) <=> Passed(c, b, n)
  /\ Contents(u) \subseteq Contents(t)

StackOK(ts, cs) ==
  /\ ts \in Seq(Tables)
  /\ cs \in Seq(Cursors)
  /\ Len(ts) = Len(cs) + 1
  /\ \A k \in DOMAIN ts : Sound(ts[k])
  /\ \A k \in DOMAIN cs : Copied(ts[k], cs[k], ts[k + 1])

\* The keys that are looked for first are in the caller's table once.
KeysOnce(present) ==
  \A d, e \in present : KeyOf[d] = KeyOf[e] /\ KeyOf[d] \in Checked => d = e

\* The inductive invariant of InTheirBuckets and of the refinement.
StackInv ==
  /\ StackOK(tables, cursors)
  /\ KeysOnce(Contents(table))
  /\ found \in Data \cup {Null}
  /\ failed \in BOOLEAN
  /\ crashed \in BOOLEAN
  /\ faults \in 0..MaxFaults

RoomIn(t) == \A b \in DOMAIN t.bucket : Len(t.bucket[b]) < Ffactor

\* The inductive invariant of RoomForNext: a copy has room at all times, even
\* after a failure, and the caller's table as long as there was none.
RoomInv ==
  /\ top > 1 \/ ~failed => RoomIn(filled)
  /\ crashed => failed

--------------------------------------------------------------------------------
(* Tables *)

LEMMA EmptySeq ==
  ASSUME NEW S, NEW s \in Seq(S)
  PROVE  s = <<>> <=> Len(s) = 0
OBVIOUS

LEMMA LeastElement ==
  ASSUME NEW S, S \subseteq Nat, S # {}
  PROVE  \E n \in S : \A m \in S : n <= m
<1>1. PICK n \in S : \A m \in S : <<m, n>> \notin OpToRel(<, Nat)
  BY WFMin, NatLessThanWellFounded, Zenon
<1>2. \A m, k \in Nat : m < k => <<m, k>> \in OpToRel(<, Nat)
  BY DEF OpToRel
<1>3. \A m \in S : ~(m < n)
  BY <1>1, <1>2, Zenon
<1> QED
  BY <1>3

LEMMA TableShape ==
  ASSUME NEW t \in Tables
  PROVE  /\ t = [size |-> t.size, nel |-> t.nel, bucket |-> t.bucket]
         /\ t.size \in Nat \ {0}
         /\ t.nel \in Nat
         /\ t.bucket \in [0..(t.size - 1) -> Seq(Data)]
         /\ DOMAIN t.bucket = 0..(t.size - 1)
BY DEF Tables

LEMMA MakesTable ==
  ASSUME NEW s \in Nat \ {0}, NEW n \in Nat, NEW b \in [0..(s - 1) -> Seq(Data)]
  PROVE  [size |-> s, nel |-> n, bucket |-> b] \in Tables
BY DEF Tables

LEMMA TablesAreTables ==
  ASSUME NEW t \in Tables
  PROVE  IsTable(t)
<1>1. DOMAIN t = {"size", "nel", "bucket"}
  BY DEF Tables
<1> QED
  BY <1>1, TableShape DEF IsTable

LEMMA InContents ==
  ASSUME NEW t, NEW d
  PROVE  d \in Contents(t) <=>
           \E b \in DOMAIN t.bucket : \E n \in DOMAIN t.bucket[b] : t.bucket[b][n] = d
BY DEF Contents

LEMMA BucketInTable ==
  ASSUME NEW t \in Tables, NEW d \in Data
  PROVE  BucketOf(t, KeyOf[d]) \in DOMAIN t.bucket
<1>1. Hash[KeyOf[d]] \in Nat
  BY HashTableAssumption
<1>2. t.size \in Nat \ {0} /\ DOMAIN t.bucket = 0..(t.size - 1)
  BY TableShape
<1>3. \A m \in Nat : \A n \in Nat \ {0} : m % n \in 0..(n - 1)
  OBVIOUS
<1> QED
  BY <1>1, <1>2, <1>3 DEF BucketOf

LEMMA BucketShape ==
  ASSUME NEW t \in Tables, NEW b \in DOMAIN t.bucket
  PROVE  /\ t.bucket[b] \in Seq(Data)
         /\ DOMAIN t.bucket[b] = 1..Len(t.bucket[b])
         /\ Len(t.bucket[b]) \in Nat
         /\ \A n \in DOMAIN t.bucket[b] : t.bucket[b][n] \in Data /\ t.bucket[b][n] \in Contents(t)
<1>1. t.bucket[b] \in Seq(Data)
  BY TableShape
<1> QED
  BY <1>1, InContents

LEMMA ContentsAreData ==
  ASSUME NEW t \in Tables
  PROVE  Contents(t) \subseteq Data
BY InContents, BucketShape

\* A new table is empty.
LEMMA MakeIsSound ==
  ASSUME NEW s \in Nat \ {0}
  PROVE  /\ Sound(Make(s))
         /\ Contents(Make(s)) = {}
         /\ RoomIn(Make(s))
         /\ Make(s).size = s
<1>1. /\ Make(s) \in Tables /\ Make(s).size = s /\ Make(s).nel = 0
      /\ DOMAIN Make(s).bucket = 0..(s - 1)
      /\ \A b \in 0..(s - 1) : Make(s).bucket[b] = <<>>
  <2>1. [b \in 0..(s - 1) |-> <<>>] \in [0..(s - 1) -> Seq(Data)]
    OBVIOUS
  <2> QED
    BY <2>1, MakesTable DEF Make
<1>2. Contents(Make(s)) = {}
  BY <1>1 DEF Contents
<1>3. RoomIn(Make(s))
  BY <1>1, HashTableAssumption DEF RoomIn
<1> QED
  BY <1>1, <1>2, <1>3, FS_EmptySet DEF Sound

\* What napr_hash_set makes of a table: one bucket is longer by one.
LEMMA StoredShape ==
  ASSUME NEW t \in Tables, NEW d \in Data
  PROVE  LET u == Stored(t, d)
             B == BucketOf(t, KeyOf[d])
         IN  /\ u \in Tables
             /\ u.size = t.size
             /\ u.nel = t.nel + 1
             /\ DOMAIN u.bucket = DOMAIN t.bucket
             /\ u.bucket[B] = Append(t.bucket[B], d)
             /\ \A b \in DOMAIN t.bucket : b # B => u.bucket[b] = t.bucket[b]
<1> DEFINE u == Stored(t, d)
           B == BucketOf(t, KeyOf[d])
           buckets == [t.bucket EXCEPT ![B] = Append(@, d)]
<1>1. B \in 0..(t.size - 1)
  BY BucketInTable, TableShape
<1>2. buckets \in [0..(t.size - 1) -> Seq(Data)]
  BY <1>1, TableShape
<1>3. u = [size |-> t.size, nel |-> t.nel + 1, bucket |-> buckets]
  <2>1. PICK s \in Nat \ {0} : t \in [size : {s}, nel : Nat, bucket : [0..(s - 1) -> Seq(Data)]]
    BY DEF Tables
  <2>2. u = [t EXCEPT !.bucket = buckets, !.nel = t.nel + 1]
    BY <2>1 DEF Stored
  <2> QED
    BY <2>1, <2>2
<1>4. u \in Tables
  <2>1. t.nel + 1 \in Nat /\ t.size \in Nat \ {0}
    BY TableShape
  <2> HIDE DEF u, buckets
  <2> QED
    BY <1>2, <1>3, <2>1, MakesTable
<1>5. /\ u.size = t.size /\ u.nel = t.nel + 1
      /\ DOMAIN u.bucket = DOMAIN t.bucket
      /\ u.bucket[B] = Append(t.bucket[B], d)
      /\ \A b \in DOMAIN t.bucket : b # B => u.bucket[b] = t.bucket[b]
  BY <1>1, <1>3, TableShape
<1> QED
  BY <1>4, <1>5

LEMMA AppendShape ==
  ASSUME NEW S, NEW s \in Seq(S), NEW e \in S
  PROVE  /\ DOMAIN Append(s, e) = 1..(Len(s) + 1)
         /\ DOMAIN s = 1..Len(s)
         /\ Len(Append(s, e)) = Len(s) + 1
         /\ Append(s, e)[Len(s) + 1] = e
         /\ \A n \in 1..Len(s) : Append(s, e)[n] = s[n]
         /\ Len(s) \in Nat
OBVIOUS

LEMMA StoredContents ==
  ASSUME NEW t \in Tables, NEW d \in Data
  PROVE  Contents(Stored(t, d)) = Contents(t) \cup {d}
<1> DEFINE u == Stored(t, d)
           B == BucketOf(t, KeyOf[d])
<1>0. B \in DOMAIN t.bucket /\ t.bucket[B] \in Seq(Data)
  BY BucketInTable, BucketShape
<1>1. /\ DOMAIN u.bucket = DOMAIN t.bucket
      /\ u.bucket[B] = Append(t.bucket[B], d)
      /\ \A b \in DOMAIN t.bucket : b # B => u.bucket[b] = t.bucket[b]
  BY StoredShape
<1>2. /\ DOMAIN u.bucket[B] = 1..(Len(t.bucket[B]) + 1)
      /\ DOMAIN t.bucket[B] = 1..Len(t.bucket[B])
      /\ u.bucket[B][Len(t.bucket[B]) + 1] = d
      /\ \A n \in 1..Len(t.bucket[B]) : u.bucket[B][n] = t.bucket[B][n]
      /\ Len(t.bucket[B]) \in Nat
  BY <1>0, <1>1, AppendShape
<1> HIDE DEF u, B
<1>3. ASSUME NEW e \in Contents(u)
      PROVE  e \in Contents(t) \cup {d}
  <2>1. PICK b \in DOMAIN u.bucket : \E n \in DOMAIN u.bucket[b] : u.bucket[b][n] = e
    BY <1>3, InContents
  <2>2. PICK n \in DOMAIN u.bucket[b] : u.bucket[b][n] = e
    BY <2>1
  <2>3. CASE b # B
    <3>1. b \in DOMAIN t.bucket /\ n \in DOMAIN t.bucket[b] /\ t.bucket[b][n] = e
      BY <1>1, <2>2, <2>3
    <3> QED
      BY <3>1, InContents
  <2>4. CASE b = B /\ n = Len(t.bucket[B]) + 1
    BY <1>2, <2>2, <2>4
  <2>5. CASE b = B /\ n # Len(t.bucket[B]) + 1
    <3>1. n \in DOMAIN u.bucket[B] /\ u.bucket[B][n] = e
      BY <2>2, <2>5
    <3>2. n \in DOMAIN t.bucket[B]
      BY <1>2, <2>5, <3>1
    <3>3. t.bucket[B][n] = e
      BY <1>2, <3>1, <3>2
    <3> QED
      BY <1>0, <3>2, <3>3, InContents
  <2> QED
    BY <2>3, <2>4, <2>5
<1>4. d \in Contents(u)
  <2>1. Len(t.bucket[B]) + 1 \in DOMAIN u.bucket[B]
    BY <1>2
  <2> QED
    BY <1>0, <1>1, <1>2, <2>1, InContents
<1>5. ASSUME NEW e \in Contents(t)
      PROVE  e \in Contents(u)
  <2>1. PICK b \in DOMAIN t.bucket : \E n \in DOMAIN t.bucket[b] : t.bucket[b][n] = e
    BY <1>5, InContents
  <2>2. PICK n \in DOMAIN t.bucket[b] : t.bucket[b][n] = e
    BY <2>1
  <2>3. b \in DOMAIN u.bucket /\ n \in DOMAIN u.bucket[b] /\ u.bucket[b][n] = e
    BY <1>1, <1>2, <2>2
  <2> QED
    BY <2>3, InContents
<1> QED
  BY <1>3, <1>4, <1>5 DEF u

LEMMA StoredIsSound ==
  ASSUME NEW t, Sound(t), NEW d \in Data, d \notin Contents(t)
  PROVE  Sound(Stored(t, d))
<1> DEFINE u == Stored(t, d)
           B == BucketOf(t, KeyOf[d])
<1>0. /\ t \in Tables
      /\ IsFiniteSet(Contents(t)) /\ t.nel = Cardinality(Contents(t))
      /\ \A b \in DOMAIN t.bucket : \A n \in DOMAIN t.bucket[b] :
           BucketOf(t, KeyOf[t.bucket[b][n]]) = b
      /\ \A b \in DOMAIN t.bucket : \A m, n \in DOMAIN t.bucket[b] :
           t.bucket[b][m] = t.bucket[b][n] => m = n
  BY DEF Sound
<1>1. /\ u \in Tables
      /\ u.size = t.size
      /\ u.nel = t.nel + 1
      /\ DOMAIN u.bucket = DOMAIN t.bucket
      /\ u.bucket[B] = Append(t.bucket[B], d)
      /\ \A b \in DOMAIN t.bucket : b # B => u.bucket[b] = t.bucket[b]
  BY <1>0, StoredShape
<1>2. B \in DOMAIN t.bucket /\ t.bucket[B] \in Seq(Data)
  BY <1>0, BucketInTable, BucketShape
<1>3. /\ DOMAIN u.bucket[B] = 1..(Len(t.bucket[B]) + 1)
      /\ DOMAIN t.bucket[B] = 1..Len(t.bucket[B])
      /\ u.bucket[B][Len(t.bucket[B]) + 1] = d
      /\ \A n \in 1..Len(t.bucket[B]) : u.bucket[B][n] = t.bucket[B][n]
      /\ Len(t.bucket[B]) \in Nat
  BY <1>1, <1>2, AppendShape
<1>4. \A k : BucketOf(u, k) = BucketOf(t, k)
  BY <1>1 DEF BucketOf
<1>5. \A n \in 1..Len(t.bucket[B]) : t.bucket[B][n] # d
  BY <1>2, <1>3, InContents
<1>6. Contents(u) = Contents(t) \cup {d}
  BY <1>0, StoredContents
<1>7. B = BucketOf(t, KeyOf[d])
  OBVIOUS
<1> HIDE DEF u, B
<1>8. ASSUME NEW b \in DOMAIN u.bucket, NEW n \in DOMAIN u.bucket[b]
      PROVE  BucketOf(u, KeyOf[u.bucket[b][n]]) = b
  <2>1. CASE b # B
    <3>1. u.bucket[b][n] = t.bucket[b][n] /\ n \in DOMAIN t.bucket[b] /\ b \in DOMAIN t.bucket
      BY <1>1, <2>1
    <3> QED
      BY <1>0, <1>4, <3>1
  <2>2. CASE b = B /\ n = Len(t.bucket[B]) + 1
    BY <1>3, <1>4, <1>7, <2>2
  <2>3. CASE b = B /\ n # Len(t.bucket[B]) + 1
    <3>1. u.bucket[b][n] = t.bucket[b][n] /\ n \in DOMAIN t.bucket[b] /\ b \in DOMAIN t.bucket
      BY <1>2, <1>3, <2>3
    <3> QED
      BY <1>0, <1>4, <3>1
  <2> QED
    BY <2>1, <2>2, <2>3
<1>9. ASSUME NEW b \in DOMAIN u.bucket, NEW m \in DOMAIN u.bucket[b], NEW n \in DOMAIN u.bucket[b],
             u.bucket[b][m] = u.bucket[b][n]
      PROVE  m = n
  <2>1. CASE b # B
    BY <1>0, <1>1, <1>9, <2>1
  <2>2. CASE b = B
    <3>1. m \in 1..(Len(t.bucket[B]) + 1) /\ n \in 1..(Len(t.bucket[B]) + 1)
      BY <1>3, <2>2
    <3>2. CASE m \in 1..Len(t.bucket[B]) /\ n \in 1..Len(t.bucket[B])
      BY <1>0, <1>2, <1>3, <1>9, <2>2, <3>2
    <3>3. CASE m = Len(t.bucket[B]) + 1 /\ n \in 1..Len(t.bucket[B])
      BY <1>3, <1>5, <1>9, <2>2, <3>3
    <3>4. CASE n = Len(t.bucket[B]) + 1 /\ m \in 1..Len(t.bucket[B])
      BY <1>3, <1>5, <1>9, <2>2, <3>4
    <3> QED
      BY <1>3, <3>1, <3>2, <3>3, <3>4
  <2> QED
    BY <2>1, <2>2
<1>10. IsFiniteSet(Contents(u)) /\ u.nel = Cardinality(Contents(u))
  BY <1>0, <1>1, <1>6, FS_AddElement
<1> QED
  BY <1>1, <1>8, <1>9, <1>10 DEF Sound, u

--------------------------------------------------------------------------------
(* Searches *)

\* A bucket that holds a key has a first position with it.
LEMMA FirstMatchIsMatch ==
  ASSUME NEW s \in Seq(Data), NEW k, Holds(s, k)
  PROVE  FirstMatch(s, k) \in DOMAIN s /\ KeyOf[s[FirstMatch(s, k)]] = k
<1> DEFINE Match == {n \in DOMAIN s : KeyOf[s[n]] = k}
<1>1. Match \subseteq Nat /\ Match # {}
  BY DEF Holds
<1>2. PICK n \in Match : \A m \in Match : n <= m
  BY <1>1, LeastElement, Zenon
<1>3. n \in DOMAIN s /\ KeyOf[s[n]] = k /\ \A m \in 1..(n - 1) : KeyOf[s[m]] # k
  <2>1. n \in 1..Len(s) /\ Len(s) \in Nat /\ DOMAIN s = 1..Len(s)
    OBVIOUS
  <2>2. ASSUME NEW m \in 1..(n - 1), KeyOf[s[m]] = k
        PROVE  FALSE
    <3>1. m \in Match /\ ~(n <= m)
      BY <2>1, <2>2
    <3> QED
      BY <1>2, <3>1
  <2> QED
    BY <2>2
<1>4. FirstMatch(s, k) \in DOMAIN s /\ KeyOf[s[FirstMatch(s, k)]] = k
  BY <1>3 DEF FirstMatch
<1> QED
  BY <1>4

\* A search finds a datum with the key if there is one, and nothing otherwise.
LEMMA SearchFinds ==
  ASSUME Sound(table), NEW k \in Keys
  PROVE  IF \E d \in Contents(table) : KeyOf[d] = k
         THEN napr_hash_search(k) \in {d \in Contents(table) : KeyOf[d] = k}
         ELSE napr_hash_search(k) = Null
<1> DEFINE B == BucketOf(table, k)
<1>1. table \in Tables
  BY DEF Sound
<1>2. B \in DOMAIN table.bucket
  <2>1. Hash[k] \in Nat
    BY HashTableAssumption
  <2>2. table.size \in Nat \ {0} /\ DOMAIN table.bucket = 0..(table.size - 1)
    BY <1>1, TableShape
  <2>3. \A m \in Nat : \A n \in Nat \ {0} : m % n \in 0..(n - 1)
    OBVIOUS
  <2> QED
    BY <2>1, <2>2, <2>3 DEF BucketOf
<1>3. /\ table.bucket[B] \in Seq(Data)
      /\ \A n \in DOMAIN table.bucket[B] : table.bucket[B][n] \in Contents(table)
  BY <1>1, <1>2, BucketShape
<1>4. ASSUME NEW d \in Contents(table), KeyOf[d] = k
      PROVE  Holds(table.bucket[B], k)
  <2>1. PICK b \in DOMAIN table.bucket : \E n \in DOMAIN table.bucket[b] : table.bucket[b][n] = d
    BY InContents
  <2>2. PICK n \in DOMAIN table.bucket[b] : table.bucket[b][n] = d
    BY <2>1
  <2>3. b = B
    BY <1>4, <2>2 DEF Sound
  <2> QED
    BY <1>4, <2>2, <2>3 DEF Holds
<1> HIDE DEF B
<1>5. CASE Holds(table.bucket[B], k)
  <2>1. /\ FirstMatch(table.bucket[B], k) \in DOMAIN table.bucket[B]
        /\ KeyOf[table.bucket[B][FirstMatch(table.bucket[B], k)]] = k
    BY <1>3, <1>5, FirstMatchIsMatch
  <2>2. napr_hash_search(k) = table.bucket[B][FirstMatch(table.bucket[B], k)]
    BY <1>5 DEF napr_hash_search, B
  <2> HIDE DEF table
  <2> QED
    BY <1>3, <2>1, <2>2
<1>6. CASE ~Holds(table.bucket[B], k)
  <2>1. napr_hash_search(k) = Null
    BY <1>6 DEF napr_hash_search, B
  <2> QED
    BY <1>4, <1>6, <2>1
<1> QED
  BY <1>5, <1>6

--------------------------------------------------------------------------------
(* Removal *)

LEMMA WithoutShape ==
  ASSUME NEW S, NEW s \in Seq(S), NEW p \in DOMAIN s
  PROVE  /\ Without(s, p) \in Seq(S)
         /\ DOMAIN Without(s, p) = 1..(Len(s) - 1)
         /\ Len(Without(s, p)) = Len(s) - 1
         /\ \A n \in 1..(Len(s) - 1) : Without(s, p)[n] = IF n = p THEN s[Len(s)] ELSE s[n]
         /\ DOMAIN s = 1..Len(s)
         /\ Len(s) \in Nat \ {0}
<1> DEFINE r == [s EXCEPT ![p] = s[Len(s)]]
<1>1. DOMAIN s = 1..Len(s) /\ Len(s) \in Nat \ {0}
  OBVIOUS
<1>2. r \in Seq(S) /\ Len(r) = Len(s) /\ \A n \in 1..Len(s) : r[n] = IF n = p THEN s[Len(s)] ELSE s[n]
  BY <1>1
<1> HIDE DEF r
<1>3. /\ SubSeq(r, 1, Len(s) - 1) \in Seq(S)
      /\ Len(SubSeq(r, 1, Len(s) - 1)) = Len(s) - 1
      /\ \A n \in 1..(Len(s) - 1) : SubSeq(r, 1, Len(s) - 1)[n] = r[n]
  BY <1>1, <1>2
<1>4. Without(s, p) = SubSeq(r, 1, Len(s) - 1)
  BY DEF Without, r
<1> QED
  BY <1>1, <1>2, <1>3, <1>4

\* The table of Remove.
Removed(t, d) ==
  [t EXCEPT !.bucket[BucketOf(t, KeyOf[d])] = Without(@, FirstMatch(@, KeyOf[d])), !.nel = @ - 1]

LEMMA RemovedShape ==
  ASSUME NEW t \in Tables, NEW d \in Data, t.nel > 0,
         Holds(t.bucket[BucketOf(t, KeyOf[d])], KeyOf[d])
  PROVE  LET u == Removed(t, d)
             B == BucketOf(t, KeyOf[d])
         IN  /\ u \in Tables
             /\ u.size = t.size
             /\ u.nel = t.nel - 1
             /\ DOMAIN u.bucket = DOMAIN t.bucket
             /\ u.bucket[B] = Without(t.bucket[B], FirstMatch(t.bucket[B], KeyOf[d]))
             /\ \A b \in DOMAIN t.bucket : b # B => u.bucket[b] = t.bucket[b]
<1> DEFINE u == Removed(t, d)
           B == BucketOf(t, KeyOf[d])
           shorter == Without(t.bucket[B], FirstMatch(t.bucket[B], KeyOf[d]))
           buckets == [t.bucket EXCEPT ![B] = shorter]
<1>1. B \in 0..(t.size - 1) /\ t.bucket[B] \in Seq(Data)
  BY BucketInTable, TableShape
<1>2. shorter \in Seq(Data)
  <2>1. FirstMatch(t.bucket[B], KeyOf[d]) \in DOMAIN t.bucket[B]
    BY <1>1, FirstMatchIsMatch
  <2> HIDE DEF B
  <2> QED
    BY <1>1, <2>1, WithoutShape
<1>3. u = [size |-> t.size, nel |-> t.nel - 1, bucket |-> buckets]
  <2>1. PICK s \in Nat \ {0} : t \in [size : {s}, nel : Nat, bucket : [0..(s - 1) -> Seq(Data)]]
    BY DEF Tables
  <2>2. u = [t EXCEPT !.bucket = buckets, !.nel = t.nel - 1]
    BY <2>1 DEF Removed
  <2> QED
    BY <2>1, <2>2
<1> HIDE DEF shorter
<1>4. buckets \in [0..(t.size - 1) -> Seq(Data)]
  BY <1>1, <1>2, TableShape
<1>5. t.nel - 1 \in Nat /\ t.size \in Nat \ {0}
  BY TableShape
<1>6. u \in Tables
  <2> HIDE DEF u, buckets
  <2> QED
    BY <1>3, <1>4, <1>5, MakesTable
<1>7. /\ u.size = t.size /\ u.nel = t.nel - 1
      /\ DOMAIN u.bucket = DOMAIN t.bucket
      /\ u.bucket[B] = shorter
      /\ \A b \in DOMAIN t.bucket : b # B => u.bucket[b] = t.bucket[b]
  BY <1>1, <1>3, TableShape
<1> QED
  BY <1>6, <1>7 DEF shorter

\* Removing a datum that alone has its key takes that datum and nothing else.
LEMMA RemovedIsSound ==
  ASSUME NEW t, Sound(t), NEW d \in Contents(t),
         \A e \in Contents(t) : KeyOf[e] = KeyOf[d] => e = d
  PROVE  /\ Sound(Removed(t, d))
         /\ Contents(Removed(t, d)) = Contents(t) \ {d}
         /\ RoomIn(t) => RoomIn(Removed(t, d))
         /\ Removed(t, d).size = t.size
<1> DEFINE u == Removed(t, d)
           B == BucketOf(t, KeyOf[d])
           s == t.bucket[B]
           p == FirstMatch(s, KeyOf[d])
<1>0. /\ t \in Tables
      /\ IsFiniteSet(Contents(t)) /\ t.nel = Cardinality(Contents(t))
      /\ \A b \in DOMAIN t.bucket : \A n \in DOMAIN t.bucket[b] :
           BucketOf(t, KeyOf[t.bucket[b][n]]) = b
      /\ \A b \in DOMAIN t.bucket : \A m, n \in DOMAIN t.bucket[b] :
           t.bucket[b][m] = t.bucket[b][n] => m = n
  BY DEF Sound
<1>1. d \in Data
  BY <1>0, ContentsAreData
<1>2. B \in DOMAIN t.bucket /\ s \in Seq(Data) /\ \A n \in DOMAIN s : s[n] \in Contents(t)
  BY <1>0, <1>1, BucketInTable, BucketShape
<1>3. Holds(s, KeyOf[d])
  <2>1. PICK b \in DOMAIN t.bucket : \E n \in DOMAIN t.bucket[b] : t.bucket[b][n] = d
    BY InContents
  <2>2. PICK n \in DOMAIN t.bucket[b] : t.bucket[b][n] = d
    BY <2>1
  <2>3. b = B
    BY <1>0, <2>2
  <2> QED
    BY <2>2, <2>3 DEF Holds
<1>4. p \in DOMAIN s /\ s[p] = d
  <2>1. p \in DOMAIN s /\ KeyOf[s[p]] = KeyOf[d]
    BY <1>2, <1>3, FirstMatchIsMatch
  <2> QED
    BY <1>2, <2>1
<1>5. t.nel > 0 /\ t.nel \in Nat
  <2>1. t.nel \in Nat /\ t.nel # 0
    BY <1>0, TableShape, FS_EmptySet
  <2> QED
    BY <2>1
<1>6. /\ u \in Tables
      /\ u.size = t.size
      /\ u.nel = t.nel - 1
      /\ DOMAIN u.bucket = DOMAIN t.bucket
      /\ u.bucket[B] = Without(s, p)
      /\ \A b \in DOMAIN t.bucket : b # B => u.bucket[b] = t.bucket[b]
  BY <1>0, <1>1, <1>3, <1>5, RemovedShape
<1>7. \A k : BucketOf(u, k) = BucketOf(t, k)
  BY <1>6 DEF BucketOf
<1>8. s = t.bucket[B] /\ B = BucketOf(t, KeyOf[d])
  OBVIOUS
<1> HIDE DEF u, B, p, s
<1>9. /\ DOMAIN u.bucket[B] = 1..(Len(s) - 1)
      /\ Len(u.bucket[B]) = Len(s) - 1
      /\ \A n \in 1..(Len(s) - 1) : u.bucket[B][n] = IF n = p THEN s[Len(s)] ELSE s[n]
      /\ DOMAIN s = 1..Len(s)
      /\ Len(s) \in Nat \ {0}
  BY <1>2, <1>4, <1>6, WithoutShape
\* Each position of the shorter bucket holds what another one of the old bucket held.
<1>10. ASSUME NEW n \in DOMAIN u.bucket[B]
       PROVE  /\ (IF n = p THEN Len(s) ELSE n) \in DOMAIN s
              /\ (IF n = p THEN Len(s) ELSE n) # p
              /\ u.bucket[B][n] = s[IF n = p THEN Len(s) ELSE n]
  <2>1. n \in 1..(Len(s) - 1) /\ Len(s) \in Nat \ {0} /\ DOMAIN s = 1..Len(s)
    BY <1>9
  <2>2. n \in DOMAIN s /\ Len(s) \in DOMAIN s /\ n # Len(s)
    BY <2>1
  <2>3. u.bucket[B][n] = IF n = p THEN s[Len(s)] ELSE s[n]
    BY <1>9, <2>1
  <2>4. CASE n = p
    BY <2>2, <2>3, <2>4
  <2>5. CASE n # p
    BY <2>2, <2>3, <2>5
  <2> QED
    BY <2>4, <2>5
<1>11. ASSUME NEW b \in DOMAIN u.bucket, NEW n \in DOMAIN u.bucket[b]
       PROVE  /\ BucketOf(u, KeyOf[u.bucket[b][n]]) = b
              /\ u.bucket[b][n] \in Contents(t) \ {d}
  <2>1. CASE b # B
    <3>1. u.bucket[b][n] = t.bucket[b][n] /\ n \in DOMAIN t.bucket[b] /\ b \in DOMAIN t.bucket
      BY <1>6, <2>1
    <3>2. BucketOf(t, KeyOf[t.bucket[b][n]]) = b /\ t.bucket[b][n] \in Contents(t)
      BY <1>0, <3>1, InContents
    <3> QED
      BY <1>7, <1>8, <2>1, <3>1, <3>2
  <2>2. CASE b = B
    <3>1. PICK m \in DOMAIN s : m # p /\ u.bucket[b][n] = s[m]
      BY <1>10, <2>2
    <3>2. s[m] # d
      BY <1>0, <1>2, <1>4, <1>8, <3>1
    <3> QED
      BY <1>0, <1>2, <1>7, <1>8, <2>2, <3>1, <3>2
  <2> QED
    BY <2>1, <2>2
<1>12. ASSUME NEW b \in DOMAIN u.bucket, NEW m \in DOMAIN u.bucket[b], NEW n \in DOMAIN u.bucket[b],
              u.bucket[b][m] = u.bucket[b][n]
       PROVE  m = n
  <2>1. CASE b # B
    BY <1>0, <1>6, <1>12, <2>1
  <2>2. CASE b = B
    <3>1. (IF m = p THEN Len(s) ELSE m) = (IF n = p THEN Len(s) ELSE n)
      BY <1>0, <1>2, <1>8, <1>10, <1>12, <2>2
    <3>2. m # Len(s) /\ n # Len(s)
      <4>1. m \in DOMAIN u.bucket[B] /\ n \in DOMAIN u.bucket[B]
        BY <2>2
      <4>2. m \in 1..(Len(s) - 1) /\ n \in 1..(Len(s) - 1)
        BY <1>9, <4>1
      <4>3. Len(s) \in Nat
        BY <1>9
      <4> QED
        BY <4>2, <4>3
    <3> QED
      BY <3>1, <3>2
  <2> QED
    BY <2>1, <2>2
<1>13. ASSUME NEW e \in Contents(t), e # d
       PROVE  e \in Contents(u)
  <2>1. PICK b \in DOMAIN t.bucket : \E n \in DOMAIN t.bucket[b] : t.bucket[b][n] = e
    BY InContents
  <2>2. PICK n \in DOMAIN t.bucket[b] : t.bucket[b][n] = e
    BY <2>1
  <2>3. CASE b # B
    <3>1. b \in DOMAIN u.bucket /\ n \in DOMAIN u.bucket[b] /\ u.bucket[b][n] = e
      BY <1>6, <2>2, <2>3
    <3> QED
      BY <3>1, InContents
  <2>4. CASE b = B /\ n # Len(s)
    <3>1. n \in DOMAIN s /\ s[n] = e
      BY <1>8, <2>2, <2>4
    <3>2. n # p
      BY <1>4, <1>13, <3>1
    <3>3. n \in 1..(Len(s) - 1)
      <4>1. DOMAIN s = 1..Len(s) /\ Len(s) \in Nat \ {0}
        BY <1>9
      <4> QED
        BY <2>4, <3>1, <4>1
    <3>4. n \in DOMAIN u.bucket[B] /\ u.bucket[B][n] = e
      BY <1>9, <3>1, <3>2, <3>3
    <3> QED
      BY <1>2, <1>6, <3>4, InContents
  <2>5. CASE b = B /\ n = Len(s)
    <3>1. s[Len(s)] = e
      BY <1>8, <2>2, <2>5
    <3>2. p # Len(s)
      BY <1>4, <1>13, <3>1
    <3>3. p \in 1..(Len(s) - 1)
      <4>1. DOMAIN s = 1..Len(s) /\ Len(s) \in Nat \ {0}
        BY <1>9
      <4> QED
        BY <1>4, <3>2, <4>1
    <3>4. p \in DOMAIN u.bucket[B] /\ u.bucket[B][p] = e
      BY <1>9, <3>1, <3>3
    <3> QED
      BY <1>2, <1>6, <3>4, InContents
  <2> QED
    BY <2>3, <2>4, <2>5
<1>14. Contents(u) = Contents(t) \ {d}
  <2>1. ASSUME NEW e \in Contents(u)
        PROVE  e \in Contents(t) \ {d}
    BY <1>11, InContents
  <2> QED
    BY <1>13, <2>1
<1>15. IsFiniteSet(Contents(u)) /\ u.nel = Cardinality(Contents(u))
  BY <1>0, <1>6, <1>14, FS_RemoveElement
<1>16. ASSUME RoomIn(t)
       PROVE  RoomIn(u)
  <2>1. \A b \in DOMAIN t.bucket : Len(t.bucket[b]) < Ffactor
    BY <1>16 DEF RoomIn
  <2>a. Ffactor \in Nat \ {0}
    BY HashTableAssumption
  <2>2. \A b \in DOMAIN u.bucket : Len(u.bucket[b]) < Ffactor
    BY <1>2, <1>6, <1>8, <1>9, <2>1, <2>a
  <2> QED
    BY <2>2 DEF RoomIn
<1>17. Sound(u)
  BY <1>6, <1>11, <1>12, <1>15 DEF Sound
<1> QED
  BY <1>6, <1>14, <1>16, <1>17 DEF u

--------------------------------------------------------------------------------
(* The stack of tables *)

LEMMA SoundIsTable == ASSUME NEW t, Sound(t) PROVE t \in Tables
BY DEF Sound

\* Only the contents of a copy matter to what has been copied.
LEMMA CopiedFollows ==
  ASSUME NEW t, NEW c, NEW u, NEW v, Copied(t, c, u), Contents(v) = Contents(u)
  PROVE  Copied(t, c, v)
BY DEF Copied

LEMMA StackShape ==
  ASSUME NEW ts, NEW cs, StackOK(ts, cs)
  PROVE  /\ Len(cs) \in Nat
         /\ Len(ts) = Len(cs) + 1
         /\ DOMAIN ts = 1..Len(ts)
         /\ DOMAIN cs = 1..Len(cs)
         /\ \A k \in 1..Len(ts) : ts[k] \in Tables /\ Sound(ts[k])
         /\ \A k \in 1..Len(cs) : cs[k] \in Cursors /\ Copied(ts[k], cs[k], ts[k + 1])
<1>1. /\ ts \in Seq(Tables) /\ cs \in Seq(Cursors) /\ Len(ts) = Len(cs) + 1
      /\ \A k \in DOMAIN ts : Sound(ts[k])
      /\ \A k \in DOMAIN cs : Copied(ts[k], cs[k], ts[k + 1])
  BY DEF StackOK
<1>2. Len(cs) \in Nat /\ DOMAIN ts = 1..Len(ts) /\ DOMAIN cs = 1..Len(cs)
  BY <1>1
<1>3. \A k \in 1..Len(cs) : cs[k] \in Cursors
  BY <1>1, <1>2
<1> QED
  BY <1>1, <1>2, <1>3, SoundIsTable

\* A stack of one table.
LEMMA SingleTable ==
  ASSUME NEW t, Sound(t)
  PROVE  StackOK(<<t>>, <<>>)
<1>1. t \in Tables
  BY SoundIsTable
<1>2. <<t>> \in Seq(Tables) /\ Len(<<t>>) = 1 /\ DOMAIN <<t>> = 1..1 /\ <<t>>[1] = t
  BY <1>1
<1>3. <<>> \in Seq(Cursors) /\ Len(<<>>) = 0 /\ DOMAIN <<>> = {}
  OBVIOUS
<1> QED
  BY <1>2, <1>3 DEF StackOK

\* The table that is being filled becomes u, and the loops go on to ds with it.
Replaced(ts, u) == [ts EXCEPT ![Len(ts)] = u]
Advanced(ts, cs, ds, u) ==
  /\ ds \in Seq(Cursors)
  /\ Len(ds) = Len(cs)
  /\ \A k \in 1..(Len(cs) - 1) : ds[k] = cs[k]
  /\ Len(cs) > 0 => Copied(ts[Len(cs)], ds[Len(cs)], u)

LEMMA TopReplaced ==
  ASSUME NEW ts, NEW cs, StackOK(ts, cs), NEW u, Sound(u),
         NEW ds, Advanced(ts, cs, ds, u),
         NEW us, us = Replaced(ts, u)
  PROVE  /\ StackOK(us, ds)
         /\ Len(us) = Len(ts)
         /\ us[Len(us)] = u
         /\ \A k \in 1..(Len(ts) - 1) : us[k] = ts[k]
<1>0. /\ Len(cs) \in Nat
      /\ Len(ts) = Len(cs) + 1
      /\ DOMAIN ts = 1..Len(ts)
      /\ \A k \in 1..Len(ts) : Sound(ts[k])
      /\ \A k \in 1..Len(cs) : Copied(ts[k], cs[k], ts[k + 1])
      /\ ts \in Seq(Tables)
      /\ ds \in Seq(Cursors) /\ Len(ds) = Len(cs)
      /\ \A k \in 1..(Len(cs) - 1) : ds[k] = cs[k]
      /\ Len(cs) > 0 => Copied(ts[Len(cs)], ds[Len(cs)], u)
  BY StackShape DEF StackOK, Advanced
<1>1. u \in Tables
  BY SoundIsTable
<1>2. /\ us \in Seq(Tables) /\ Len(us) = Len(ts) /\ DOMAIN us = 1..Len(ts)
      /\ us[Len(ts)] = u
      /\ \A k \in 1..(Len(ts) - 1) : us[k] = ts[k]
  BY <1>0, <1>1 DEF Replaced
<1>3. ASSUME NEW k \in 1..Len(ts)
      PROVE  Sound(us[k])
  <2>1. k = Len(ts) \/ k \in 1..(Len(ts) - 1)
    BY <1>0
  <2> QED
    BY <1>0, <1>2, <2>1
<1>4. ASSUME NEW k \in 1..Len(cs)
      PROVE  Copied(us[k], ds[k], us[k + 1])
  <2>1. CASE k = Len(cs)
    <3>1. us[k] = ts[k] /\ us[k + 1] = u
      BY <1>0, <1>2, <2>1
    <3> QED
      BY <1>0, <2>1, <3>1
  <2>2. CASE k # Len(cs)
    <3>1. us[k] = ts[k] /\ us[k + 1] = ts[k + 1] /\ ds[k] = cs[k]
      BY <1>0, <1>2, <2>2
    <3> QED
      BY <1>0, <3>1
  <2> QED
    BY <2>1, <2>2
<1>5. DOMAIN ds = 1..Len(cs)
  BY <1>0
<1> QED
  BY <1>0, <1>2, <1>3, <1>4, <1>5 DEF StackOK

\* A table of which nothing has been copied yet gets its copy.
LEMMA TablePushed ==
  ASSUME NEW ts, NEW cs, StackOK(ts, cs), NEW u, Sound(u),
         NEW c \in Cursors, Copied(ts[Len(ts)], c, u),
         NEW us, us = Append(ts, u), NEW ds, ds = Append(cs, c)
  PROVE  StackOK(us, ds)
<1>0. /\ Len(cs) \in Nat
      /\ Len(ts) = Len(cs) + 1
      /\ \A k \in 1..Len(ts) : Sound(ts[k])
      /\ \A k \in 1..Len(cs) : Copied(ts[k], cs[k], ts[k + 1])
      /\ ts \in Seq(Tables)
      /\ cs \in Seq(Cursors)
  BY StackShape DEF StackOK
<1>1. u \in Tables
  BY SoundIsTable
<1>2. /\ us \in Seq(Tables) /\ Len(us) = Len(ts) + 1 /\ DOMAIN us = 1..(Len(ts) + 1)
      /\ us[Len(ts) + 1] = u
      /\ \A k \in 1..Len(ts) : us[k] = ts[k]
  BY <1>0, <1>1
<1>3. /\ ds \in Seq(Cursors) /\ Len(ds) = Len(cs) + 1 /\ DOMAIN ds = 1..(Len(cs) + 1)
      /\ ds[Len(cs) + 1] = c
      /\ \A k \in 1..Len(cs) : ds[k] = cs[k]
  BY <1>0
<1>4. ASSUME NEW k \in 1..(Len(ts) + 1)
      PROVE  Sound(us[k])
  <2>1. k = Len(ts) + 1 \/ k \in 1..Len(ts)
    BY <1>0
  <2> QED
    BY <1>0, <1>2, <2>1
<1>5. ASSUME NEW k \in 1..(Len(cs) + 1)
      PROVE  Copied(us[k], ds[k], us[k + 1])
  <2>1. CASE k = Len(cs) + 1
    <3>1. us[k] = ts[Len(ts)] /\ us[k + 1] = u /\ ds[k] = c
      BY <1>0, <1>2, <1>3, <2>1
    <3> QED
      BY <3>1
  <2>2. CASE k # Len(cs) + 1
    <3>1. k \in 1..Len(cs) /\ us[k] = ts[k] /\ us[k + 1] = ts[k + 1] /\ ds[k] = cs[k]
      BY <1>0, <1>2, <1>3, <2>2
    <3> QED
      BY <1>0, <3>1
  <2> QED
    BY <2>1, <2>2
<1>6. Len(us) = Len(ds) + 1
  BY <1>0, <1>2, <1>3
<1> QED
  BY <1>2, <1>3, <1>4, <1>5, <1>6 DEF StackOK

LEMMA PrefixShape ==
  ASSUME NEW S, NEW s \in Seq(S), NEW n \in 0..Len(s)
  PROVE  /\ SubSeq(s, 1, n) \in Seq(S)
         /\ Len(SubSeq(s, 1, n)) = n
         /\ DOMAIN SubSeq(s, 1, n) = 1..n
         /\ \A k \in 1..n : SubSeq(s, 1, n)[k] = s[k]
OBVIOUS

\* The copy takes the place of the table it was made from.
Popped(ts) == Append(SubSeq(ts, 1, Len(ts) - 2), ts[Len(ts)])

LEMMA TablePopped ==
  ASSUME NEW ts, NEW cs, StackOK(ts, cs), Len(ts) > 1,
         Contents(ts[Len(ts)]) = Contents(ts[Len(ts) - 1]),
         NEW us, us = Popped(ts), NEW ds, ds = SubSeq(cs, 1, Len(cs) - 1)
  PROVE  /\ StackOK(us, ds)
         /\ Len(us) = Len(ts) - 1
         /\ us[Len(us)] = ts[Len(ts)]
         /\ Contents(us[1]) = Contents(ts[1])
<1>0. /\ Len(cs) \in Nat
      /\ Len(ts) = Len(cs) + 1
      /\ \A k \in 1..Len(ts) : Sound(ts[k]) /\ ts[k] \in Tables
      /\ \A k \in 1..Len(cs) : Copied(ts[k], cs[k], ts[k + 1])
      /\ ts \in Seq(Tables)
      /\ cs \in Seq(Cursors)
  BY StackShape DEF StackOK
<1> DEFINE n == Len(cs)
           lower == SubSeq(ts, 1, Len(ts) - 2)
           u == ts[Len(ts)]
<1>1. n \in Nat \ {0} /\ Len(ts) = n + 1 /\ u \in Tables
  BY <1>0
<1>2. lower \in Seq(Tables) /\ Len(lower) = n - 1 /\ \A k \in 1..(n - 1) : lower[k] = ts[k]
  <2>1. Len(ts) - 2 = n - 1 /\ n - 1 \in 0..Len(ts)
    BY <1>1
  <2> QED
    BY <1>0, <2>1, PrefixShape
<1>3. /\ us \in Seq(Tables) /\ Len(us) = n /\ DOMAIN us = 1..n
      /\ us[n] = u
      /\ \A k \in 1..(n - 1) : us[k] = ts[k]
  <2> HIDE DEF n, lower, u
  <2>1. us = Append(lower, u)
    BY DEF lower, u, Popped
  <2> QED
    BY <1>1, <1>2, <2>1
<1>4. /\ ds \in Seq(Cursors) /\ Len(ds) = n - 1 /\ DOMAIN ds = 1..(n - 1)
      /\ \A k \in 1..(n - 1) : ds[k] = cs[k]
  <2>1. n - 1 \in 0..Len(cs)
    BY <1>1
  <2>2. ds = SubSeq(cs, 1, n - 1) /\ cs \in Seq(Cursors)
    BY <1>0
  <2> HIDE DEF n
  <2> QED
    BY <2>1, <2>2, PrefixShape
<1>5. ASSUME NEW k \in 1..n
      PROVE  Sound(us[k])
  <2>1. k = n \/ k \in 1..(n - 1)
    BY <1>1
  <2>2. k \in 1..Len(ts) /\ Len(ts) \in 1..Len(ts)
    BY <1>1
  <2> QED
    BY <1>0, <1>3, <2>1, <2>2
<1>6. ASSUME NEW k \in 1..(n - 1)
      PROVE  Copied(us[k], ds[k], us[k + 1])
  <2>1. us[k] = ts[k] /\ ds[k] = cs[k] /\ Copied(ts[k], cs[k], ts[k + 1])
    BY <1>0, <1>1, <1>3, <1>4
  <2>2. CASE k = n - 1
    <3>1. us[k + 1] = u /\ ts[k + 1] = ts[Len(ts) - 1]
      BY <1>1, <1>3, <2>2
    <3> QED
      BY <2>1, <3>1, CopiedFollows
  <2>3. CASE k # n - 1
    <3>1. k + 1 \in 1..(n - 1)
      BY <1>1, <2>3
    <3>2. us[k + 1] = ts[k + 1]
      BY <1>3, <3>1
    <3> QED
      BY <2>1, <3>2
  <2> QED
    BY <2>2, <2>3
<1>7. Contents(us[1]) = Contents(ts[1])
  <2>1. CASE n = 1
    <3>1. us[1] = u /\ ts[1] = ts[Len(ts) - 1]
      BY <1>1, <1>3, <2>1
    <3> QED
      BY <3>1
  <2>2. CASE n # 1
    BY <1>1, <1>3, <2>2
  <2> QED
    BY <2>1, <2>2
<1>8. n = Len(ts) - 1 /\ Len(us) = Len(ds) + 1
  BY <1>1, <1>3, <1>4
<1> HIDE DEF lower
<1>9. StackOK(us, ds)
  BY <1>3, <1>4, <1>5, <1>6, <1>8 DEF StackOK
<1> QED
  BY <1>3, <1>7, <1>8, <1>9

--------------------------------------------------------------------------------
(* The loops of napr_hash_rebuild *)

LEMMA CopyStarts ==
  ASSUME NEW t \in Tables, NEW s \in Nat \ {0}
  PROVE  /\ Copied(t, [i |-> 0, j |-> 1], Make(s))
         /\ [i |-> 0, j |-> 1] \in Cursors
<1>1. Contents(Make(s)) = {}
  BY MakeIsSound
<1>2. 0 <= t.size
  BY TableShape
<1>3. ASSUME NEW b \in DOMAIN t.bucket, NEW n \in DOMAIN t.bucket[b]
      PROVE  ~Passed([i |-> 0, j |-> 1], b, n)
  <2>1. b \in Nat /\ n \in Nat /\ n >= 1
    BY TableShape, BucketShape
  <2> QED
    BY <2>1 DEF Passed
<1> QED
  BY <1>1, <1>2, <1>3 DEF Copied, Cursors

\* In a table a datum has one position.
LEMMA OnePosition ==
  ASSUME NEW t, Sound(t),
         NEW b \in DOMAIN t.bucket, NEW m \in DOMAIN t.bucket[b],
         NEW c \in DOMAIN t.bucket, NEW n \in DOMAIN t.bucket[c],
         t.bucket[b][m] = t.bucket[c][n]
  PROVE  b = c /\ m = n
<1>1. b = c
  BY DEF Sound
<1>2. m = n
  BY <1>1 DEF Sound
<1> QED
  BY <1>1, <1>2

LEMMA ElementCopied ==
  ASSUME NEW t, Sound(t), NEW c \in Cursors, NEW u, Sound(u), Copied(t, c, u),
         c.i < t.size, c.j <= Len(t.bucket[c.i]),
         NEW d, d = t.bucket[c.i][c.j],
         NEW e \in Cursors, e.i = c.i, e.j = c.j + 1
  PROVE  d \in Data /\ d \notin Contents(u) /\ Copied(t, e, Stored(u, d))
<1>0. t \in Tables /\ u \in Tables
  BY SoundIsTable
<1>1. c.i \in Nat /\ c.j \in Nat \ {0}
  BY DEF Cursors
<1>2. c.i \in DOMAIN t.bucket
  BY <1>0, <1>1, TableShape
<1>3. c.j \in DOMAIN t.bucket[c.i]
  BY <1>0, <1>1, <1>2, BucketShape
<1>4. d \in Data /\ d \in Contents(t)
  BY <1>0, <1>2, <1>3, BucketShape
<1>5. ~Passed(c, c.i, c.j)
  BY <1>1 DEF Passed
<1>6. d \notin Contents(u)
  BY <1>2, <1>3, <1>5 DEF Copied
<1>7. Contents(Stored(u, d)) = Contents(u) \cup {d}
  BY <1>0, <1>4, StoredContents
<1>8. ASSUME NEW b \in DOMAIN t.bucket, NEW n \in DOMAIN t.bucket[b]
      PROVE  t.bucket[b][n] \in Contents(Stored(u, d)) <=> Passed(e, b, n)
  <2>1. b \in Nat /\ n \in Nat
    BY <1>0, TableShape, BucketShape
  <2>2. t.bucket[b][n] \in Contents(u) <=> Passed(c, b, n)
    BY DEF Copied
  <2>3. t.bucket[b][n] = d <=> b = c.i /\ n = c.j
    BY <1>2, <1>3, OnePosition
  <2>4. Passed(e, b, n) <=> Passed(c, b, n) \/ (b = c.i /\ n = c.j)
    BY <1>1, <2>1 DEF Passed
  <2> QED
    BY <1>7, <2>2, <2>3, <2>4
<1>9. e.i <= t.size /\ Contents(Stored(u, d)) \subseteq Contents(t)
  BY <1>4, <1>7 DEF Copied
<1> QED
  BY <1>4, <1>6, <1>8, <1>9 DEF Copied

LEMMA BucketCopied ==
  ASSUME NEW t, Sound(t), NEW c \in Cursors, NEW u, Copied(t, c, u),
         c.i < t.size, c.j > Len(t.bucket[c.i])
  PROVE  /\ Copied(t, [i |-> c.i + 1, j |-> 1], u)
         /\ [i |-> c.i + 1, j |-> 1] \in Cursors
<1>0. t \in Tables
  BY SoundIsTable
<1>1. c.i \in Nat /\ c.j \in Nat \ {0} /\ t.size \in Nat
  BY <1>0, TableShape DEF Cursors
<1> DEFINE e == [i |-> c.i + 1, j |-> 1]
<1>2. e \in Cursors /\ e.i = c.i + 1 /\ e.j = 1
  BY <1>1 DEF Cursors
<1> HIDE DEF e
<1>3. ASSUME NEW b \in DOMAIN t.bucket, NEW n \in DOMAIN t.bucket[b]
      PROVE  Passed(e, b, n) <=> Passed(c, b, n)
  <2>1. b \in Nat /\ n \in Nat /\ n >= 1 /\ Len(t.bucket[b]) \in Nat /\ n <= Len(t.bucket[b])
    BY <1>0, TableShape, BucketShape
  <2> QED
    BY <1>1, <1>2, <2>1 DEF Passed
<1>4. e.i <= t.size
  BY <1>1, <1>2
<1>5. Copied(t, e, u)
  BY <1>3, <1>4 DEF Copied
<1> QED
  BY <1>2, <1>5 DEF e

LEMMA CopyCompletes ==
  ASSUME NEW t, Sound(t), NEW c \in Cursors, NEW u, Copied(t, c, u), c.i = t.size
  PROVE  Contents(u) = Contents(t)
<1>0. t \in Tables
  BY SoundIsTable
<1>1. ASSUME NEW d \in Contents(t)
      PROVE  d \in Contents(u)
  <2>1. PICK b \in DOMAIN t.bucket : \E n \in DOMAIN t.bucket[b] : t.bucket[b][n] = d
    BY InContents
  <2>2. PICK n \in DOMAIN t.bucket[b] : t.bucket[b][n] = d
    BY <2>1
  <2>3. b < c.i
    BY <1>0, TableShape
  <2> QED
    BY <2>2, <2>3 DEF Copied, Passed
<1> QED
  BY <1>1 DEF Copied

--------------------------------------------------------------------------------
(* The actions *)

LEMMA RoomStored ==
  ASSUME NEW t \in Tables, NEW d \in Data, RoomIn(t), ~Crowded(Stored(t, d), d)
  PROVE  RoomIn(Stored(t, d))
<1> DEFINE u == Stored(t, d)
           B == BucketOf(t, KeyOf[d])
<1>1. /\ u \in Tables
      /\ u.size = t.size
      /\ DOMAIN u.bucket = DOMAIN t.bucket
      /\ \A b \in DOMAIN t.bucket : b # B => u.bucket[b] = t.bucket[b]
  BY StoredShape
<1>2. B \in DOMAIN t.bucket /\ BucketOf(u, KeyOf[d]) = B
  BY <1>1, BucketInTable DEF BucketOf
<1>3. ~(Ffactor <= Len(u.bucket[B]))
  BY <1>2 DEF Crowded
<1>4. Len(u.bucket[B]) \in Nat
  BY <1>1, <1>2, BucketShape
<1> HIDE DEF u, B
<1>5. Len(u.bucket[B]) < Ffactor
  BY <1>3, <1>4, HashTableAssumption
<1> QED
  BY <1>1, <1>5 DEF RoomIn, u

\* The datum d is stored in the table at the top, the loops go on to positions.
Stores(d, positions) == Keep(d, positions) \/ Grow(d, positions) \/ GiveUp(d)

LEMMA StoreStep ==
  ASSUME StackInv, RoomInv,
         NEW d \in Data, d \notin Contents(filled),
         NEW positions, Advanced(tables, cursors, positions, Stored(filled, d)),
         Stores(d, positions)
  PROVE  /\ StackOK(tables', cursors')
         /\ Contents(tables'[1]) = IF top = 1 THEN Contents(table) \cup {d} ELSE Contents(table)
         /\ found' = found
         /\ failed' \in BOOLEAN
         /\ crashed' = crashed
         /\ faults' \in 0..MaxFaults
         /\ RoomInv'
<1> DEFINE u == Stored(filled, d)
           ts == Update(u)
<1>0. /\ StackOK(tables, cursors)
      /\ failed \in BOOLEAN /\ faults \in 0..MaxFaults /\ MaxFaults \in Nat
      /\ crashed => failed
  BY HashTableAssumption DEF StackInv, RoomInv
<1>1. /\ Len(cursors) \in Nat
      /\ top = Len(cursors) + 1
      /\ filled = tables[top]
      /\ Sound(filled) /\ filled \in Tables
  <2>1. /\ Len(cursors) \in Nat
        /\ Len(tables) = Len(cursors) + 1
        /\ \A k \in 1..Len(tables) : tables[k] \in Tables /\ Sound(tables[k])
    BY <1>0, StackShape
  <2> QED
    BY <2>1 DEF top, filled
<1>2. Sound(u) /\ u \in Tables /\ Contents(u) = Contents(filled) \cup {d}
  BY <1>1, StoredIsSound, StoredContents, SoundIsTable
<1>3. /\ StackOK(ts, positions)
      /\ Len(ts) = top
      /\ ts[top] = u
      /\ \A k \in 1..(top - 1) : ts[k] = tables[k]
  <2> HIDE DEF u
  <2>1. ts = Replaced(tables, u) /\ Advanced(tables, cursors, positions, u)
    BY DEF Update, top, Replaced, u
  <2> HIDE DEF ts
  <2>2. /\ StackOK(ts, positions)
        /\ Len(ts) = Len(tables)
        /\ ts[Len(ts)] = u
        /\ \A k \in 1..(Len(tables) - 1) : ts[k] = tables[k]
    BY <1>0, <1>2, <2>1, TopReplaced
  <2> QED
    BY <2>2 DEF top
<1> HIDE DEF ts, u
<1>4. Contents(ts[1]) = IF top = 1 THEN Contents(table) \cup {d} ELSE Contents(table)
  <2>1. CASE top = 1
    <3>1. ts[1] = u /\ table = filled
      BY <1>3, <2>1 DEF table, filled
    <3> QED
      BY <1>2, <2>1, <3>1
  <2>2. CASE top # 1
    <3>1. ts[1] = table
      BY <1>1, <1>3, <2>2 DEF table
    <3> QED
      BY <2>2, <3>1
  <2> QED
    BY <2>1, <2>2
<1>5. CASE Keep(d, positions)
  <2>1. /\ ~Crowded(u, d) /\ tables' = ts /\ cursors' = positions
        /\ found' = found /\ failed' = failed /\ crashed' = crashed /\ faults' = faults
    BY <1>5 DEF Keep, ts, u
  <2>2. top > 1 \/ ~failed => RoomIn(u)
    BY <1>1, <2>1, RoomStored DEF u, RoomInv
  <2>3. RoomInv'
    <3>1. filled' = u /\ top' = top
      BY <1>3, <2>1 DEF filled, top
    <3> QED
      BY <1>0, <2>1, <2>2, <3>1 DEF RoomInv
  <2> QED
    BY <1>0, <1>3, <1>4, <2>1, <2>3
<1>6. CASE Grow(d, positions)
  <2> DEFINE copy == Make(2 * filled.size)
             start == [i |-> 0, j |-> 1]
  <2>1. /\ tables' = Append(ts, copy) /\ cursors' = Append(positions, start)
        /\ found' = found /\ failed' = failed /\ crashed' = crashed /\ faults' = faults
    BY <1>6 DEF Grow, ts, u
  <2>2. 2 * filled.size \in Nat \ {0}
    <3>1. filled.size \in Nat \ {0}
      BY <1>1, TableShape
    <3> QED
      BY <3>1
  <2>3. Sound(copy) /\ RoomIn(copy) /\ Copied(u, start, copy) /\ start \in Cursors
    BY <1>2, <2>2, MakeIsSound, CopyStarts
  <2> HIDE DEF copy, start
  <2>4. StackOK(tables', cursors')
    <3>1. Copied(ts[Len(ts)], start, copy)
      BY <1>3, <2>3
    <3> QED
      BY <1>3, <2>1, <2>3, <3>1, TablePushed
  <2>5. ts \in Seq(Tables) /\ copy \in Tables
    BY <1>3, <2>3, SoundIsTable DEF StackOK
  <2>6. tables'[1] = ts[1] /\ tables'[Len(tables')] = copy
    BY <1>1, <1>3, <2>1, <2>5
  <2>7. RoomInv'
    <3>1. filled' = copy
      BY <2>6 DEF filled, top
    <3> QED
      BY <1>0, <2>1, <2>3, <3>1 DEF RoomInv
  <2> QED
    BY <1>0, <1>4, <2>1, <2>4, <2>6, <2>7
<1>7. CASE GiveUp(d)
  <2>1. /\ tables' = <<ts[1]>> /\ cursors' = <<>>
        /\ found' = found /\ failed' = TRUE /\ crashed' = crashed
    BY <1>7 DEF GiveUp, ts, u
  <2>2. faults' \in 0..MaxFaults
    BY <1>0, <1>7 DEF GiveUp
  <2>3. Sound(ts[1])
    <3>1. 1 \in 1..Len(ts)
      BY <1>1, <1>3
    <3> QED
      BY <1>3, <3>1, StackShape
  <2>4. StackOK(tables', cursors')
    BY <2>1, <2>3, SingleTable
  <2>5. tables'[1] = ts[1]
    BY <2>1
  <2>6. RoomInv'
    <3>1. top' = 1
      BY <2>1 DEF top
    <3> QED
      BY <2>1, <3>1 DEF RoomInv
  <2> QED
    BY <1>4, <2>1, <2>2, <2>4, <2>5, <2>6
<1> QED
  BY <1>5, <1>6, <1>7 DEF Stores

\* What every step keeps, and what it is for a user of the dictionary.
Invs == StackInv /\ RoomInv

LEMMA InvShape ==
  ASSUME Invs
  PROVE  /\ Len(cursors) \in Nat
         /\ top = Len(cursors) + 1
         /\ table \in Tables /\ Sound(table)
         /\ filled \in Tables /\ Sound(filled)
         /\ top > 1 => /\ source \in Tables /\ Sound(source)
                       /\ cursor \in Cursors
                       /\ Copied(source, cursor, filled)
                       /\ source = tables[Len(cursors)]
                       /\ Len(cursors) > 0
<1>1. /\ Len(cursors) \in Nat
      /\ Len(tables) = Len(cursors) + 1
      /\ \A k \in 1..Len(tables) : tables[k] \in Tables /\ Sound(tables[k])
      /\ \A k \in 1..Len(cursors) : cursors[k] \in Cursors /\ Copied(tables[k], cursors[k], tables[k + 1])
  BY StackShape DEF Invs, StackInv
<1>2. table \in Tables /\ Sound(table) /\ filled \in Tables /\ Sound(filled)
  BY <1>1 DEF table, filled, top
<1>3. ASSUME top > 1
      PROVE  /\ source \in Tables /\ Sound(source)
             /\ cursor \in Cursors
             /\ Copied(source, cursor, filled)
             /\ source = tables[Len(cursors)]
             /\ Len(cursors) > 0
  <2>1. Len(cursors) > 0 /\ Len(cursors) \in 1..Len(cursors) /\ Len(cursors) \in 1..Len(tables) /\ Len(cursors) + 1 = Len(tables)
    BY <1>1, <1>3 DEF top
  <2> QED
    BY <1>1, <2>1 DEF source, cursor, filled, top
<1> QED
  BY <1>1, <1>2, <1>3 DEF top

LEMMA SearchStep ==
  ASSUME Invs, NEW k \in Keys, Search(k)
  PROVE  Invs' /\ Promise!Search(k)
<1>1. /\ found' = napr_hash_search(k)
      /\ tables' = tables /\ cursors' = cursors /\ failed' = failed /\ crashed' = crashed /\ faults' = faults
  BY DEF Search
<1>2. Sound(table) /\ Contents(table) \subseteq Data
  BY InvShape, ContentsAreData
<1>3. IF \E d \in Contents(table) : KeyOf[d] = k
      THEN found' \in {d \in Contents(table) : KeyOf[d] = k}
      ELSE found' = Null
  BY <1>1, <1>2, SearchFinds
<1>4. found' \in Data \cup {Null}
  BY <1>2, <1>3
<1>5. table' = table /\ filled' = filled /\ top' = top
  BY <1>1 DEF table, filled, top
<1>6. Promise!Search(k)
  <2>1. Promise!WithKey(k) = {d \in Contents(table) : KeyOf[d] = k}
    BY DEF Promise!WithKey
  <2>2. Promise!WithKey(k) = {} <=> ~ \E d \in Contents(table) : KeyOf[d] = k
    BY <2>1
  <2>3. IF Promise!WithKey(k) = {} THEN found' = Null ELSE found' \in Promise!WithKey(k)
    BY <1>3, <2>1, <2>2
  <2> QED
    BY <1>5, <2>3 DEF Promise!Search
<1>7. StackInv'
  <2>1. StackOK(tables, cursors)' /\ KeysOnce(Contents(table))'
    BY <1>1, <1>5 DEF Invs, StackInv
  <2> QED
    BY <1>1, <1>4, <2>1 DEF Invs, StackInv
<1>8. RoomInv'
  BY <1>1, <1>5 DEF Invs, RoomInv
<1> QED
  BY <1>6, <1>7, <1>8 DEF Invs

LEMMA CallableIsNew ==
  ASSUME Invs, NEW d \in Data, Callable(d)
  PROVE  /\ top = 1 /\ filled = table /\ Len(cursors) = 0
         /\ d \notin Contents(table)
         /\ KeysOnce(Contents(table) \cup {d})
<1>1. top = 1 /\ filled = table /\ Len(cursors) = 0 /\ d \notin Contents(table)
  BY InvShape DEF Callable, Idle, filled, table
<1>2. /\ KeysOnce(Contents(table))
      /\ KeyOf[d] \in Keys
      /\ Sound(table) /\ Contents(table) \subseteq Data
  BY InvShape, ContentsAreData, HashTableAssumption DEF Invs, StackInv
<1>3. ASSUME KeyOf[d] \in Checked
      PROVE  \A e \in Contents(table) : KeyOf[e] # KeyOf[d]
  <2>1. napr_hash_search(KeyOf[d]) = Null
    BY <1>3 DEF Callable
  <2>2. Null \notin Contents(table)
    BY <1>2, HashTableAssumption
  <2>3. IF \E e \in Contents(table) : KeyOf[e] = KeyOf[d]
        THEN napr_hash_search(KeyOf[d]) \in {e \in Contents(table) : KeyOf[e] = KeyOf[d]}
        ELSE napr_hash_search(KeyOf[d]) = Null
    BY <1>2, SearchFinds
  <2> QED
    BY <2>1, <2>2, <2>3
<1>4. KeysOnce(Contents(table) \cup {d})
  BY <1>2, <1>3 DEF KeysOnce
<1> QED
  BY <1>1, <1>4

LEMMA SetStep ==
  ASSUME Invs, NEW d \in Data, Set(d)
  PROVE  Invs' /\ Promise!Set(d)
<1>1. Callable(d) /\ Stores(d, cursors)
  BY DEF Set, Stores
<1>2. /\ top = 1 /\ filled = table /\ Len(cursors) = 0
      /\ d \notin Contents(table)
      /\ KeysOnce(Contents(table) \cup {d})
  BY <1>1, CallableIsNew
<1>3. Advanced(tables, cursors, cursors, Stored(filled, d))
  BY <1>2 DEF Advanced, Invs, StackInv, StackOK
<1>4. /\ StackOK(tables', cursors')
      /\ Contents(tables'[1]) = IF top = 1 THEN Contents(table) \cup {d} ELSE Contents(table)
      /\ found' = found
      /\ failed' \in BOOLEAN
      /\ crashed' = crashed
      /\ faults' \in 0..MaxFaults
      /\ RoomInv'
  BY <1>1, <1>2, <1>3, StoreStep DEF Invs
<1>5. Contents(table)' = Contents(table) \cup {d}
  BY <1>2, <1>4 DEF table
<1>6. KeysOnce(Contents(table))'
  BY <1>2, <1>5 DEF KeysOnce
<1>7. StackInv'
  BY <1>4, <1>6 DEF Invs, StackInv
<1>8. Promise!Set(d)
  BY <1>2, <1>4, <1>5 DEF Promise!Set
<1> QED
  BY <1>4, <1>7, <1>8 DEF Invs

LEMMA OverflowStep ==
  ASSUME Invs, NEW d \in Data, SetOverflows(d)
  PROVE  Invs' /\ Contents(table)' = Contents(table) /\ found' = found
<1>1. /\ crashed' = TRUE
      /\ tables' = tables /\ cursors' = cursors /\ found' = found /\ failed' = failed /\ faults' = faults
      /\ Callable(d) /\ ~HasRoom(table, d)
  BY DEF SetOverflows
<1>2. top = 1 /\ filled = table
  BY <1>1, CallableIsNew
<1>3. failed = TRUE
  <2>1. failed \in BOOLEAN
    BY DEF Invs, StackInv
  <2>2. ASSUME ~failed
        PROVE  FALSE
    <3>1. RoomIn(table)
      BY <1>2, <2>2 DEF Invs, RoomInv
    <3>2. BucketOf(table, KeyOf[d]) \in DOMAIN table.bucket
      BY InvShape, BucketInTable
    <3> QED
      BY <1>1, <3>1, <3>2 DEF RoomIn, HasRoom
  <2> QED
    BY <2>1, <2>2
<1>4. table' = table /\ filled' = filled /\ top' = top
  BY <1>1 DEF table, filled, top
<1>5. StackInv'
  <2>1. StackOK(tables, cursors)' /\ KeysOnce(Contents(table))'
    BY <1>1, <1>4 DEF Invs, StackInv
  <2> QED
    BY <1>1, <2>1 DEF Invs, StackInv
<1>6. RoomInv'
  BY <1>1, <1>3, <1>4 DEF Invs, RoomInv
<1> QED
  BY <1>1, <1>4, <1>5, <1>6 DEF Invs

\* A loop that goes on by itself leaves the other loops where they are.
LEMMA CursorMoved ==
  ASSUME NEW ts, NEW cs, StackOK(ts, cs), Len(cs) > 0, NEW u,
         NEW e \in Cursors, Copied(ts[Len(cs)], e, u),
         NEW ds, ds = [cs EXCEPT ![Len(cs)] = e]
  PROVE  Advanced(ts, cs, ds, u)
<1>1. cs \in Seq(Cursors) /\ Len(cs) \in Nat \ {0}
  BY DEF StackOK
<1>2. /\ ds \in Seq(Cursors) /\ Len(ds) = Len(cs) /\ ds[Len(cs)] = e
      /\ \A k \in 1..(Len(cs) - 1) : ds[k] = cs[k]
  BY <1>1
<1> QED
  BY <1>2 DEF Advanced

\* What a step of a rebuild is to the caller.
Invisible == Contents(table)' = Contents(table) /\ found' = found

LEMMA InvisibleFollows ==
  ASSUME Invs, StackOK(tables', cursors'), Contents(tables'[1]) = Contents(table),
         found' = found, failed' \in BOOLEAN, crashed' = crashed, faults' \in 0..MaxFaults,
         RoomInv'
  PROVE  Invs' /\ Invisible
<1>1. Contents(table)' = Contents(table)
  BY DEF table
<1>2. KeysOnce(Contents(table))'
  BY <1>1 DEF Invs, StackInv, KeysOnce
<1> QED
  BY <1>1, <1>2 DEF Invs, StackInv, Invisible

LEMMA CopyElementStep ==
  ASSUME Invs, CopyElement
  PROVE  Invs' /\ Invisible
<1> DEFINE d == source.bucket[cursor.i][cursor.j]
           e == [cursor EXCEPT !.j = @ + 1]
<1>1. top > 1 /\ cursor.i < source.size /\ cursor.j <= Len(source.bucket[cursor.i])
  BY DEF CopyElement
<1>2. Stores(d, NextElement)
  BY DEF CopyElement, Stores
<1>3. /\ Len(cursors) \in Nat
      /\ Sound(filled)
      /\ Sound(source)
      /\ cursor \in Cursors
      /\ Copied(source, cursor, filled)
      /\ source = tables[Len(cursors)]
      /\ Len(cursors) > 0
  BY <1>1, InvShape
<1>4. e \in Cursors /\ e.i = cursor.i /\ e.j = cursor.j + 1
  BY <1>3 DEF Cursors
<1>5. NextElement = [cursors EXCEPT ![Len(cursors)] = e]
  BY <1>3 DEF NextElement, cursor
<1> DEFINE positions == NextElement
<1> HIDE DEF d, e, positions
<1>6. d \in Data /\ d \notin Contents(filled) /\ Copied(source, e, Stored(filled, d))
  BY <1>1, <1>3, <1>4, ElementCopied DEF d
<1>7. StackOK(tables, cursors) /\ Len(cursors) > 0
  BY <1>1, <1>3 DEF Invs, StackInv
<1>8. Advanced(tables, cursors, NextElement, Stored(filled, d))
  <2>1. Copied(tables[Len(cursors)], e, Stored(filled, d))
    BY <1>3, <1>6
  <2> QED
    BY <1>4, <1>5, <1>7, <2>1, CursorMoved
<1>9. /\ StackOK(tables', cursors')
      /\ Contents(tables'[1]) = IF top = 1 THEN Contents(table) \cup {d} ELSE Contents(table)
      /\ found' = found
      /\ failed' \in BOOLEAN
      /\ crashed' = crashed
      /\ faults' \in 0..MaxFaults
      /\ RoomInv'
  BY <1>2, <1>6, <1>8, StoreStep DEF Invs
<1>10. Contents(tables'[1]) = Contents(table)
  BY <1>1, <1>9
<1> QED
  BY <1>9, <1>10, InvisibleFollows

LEMMA NextBucketStep ==
  ASSUME Invs, NextBucket
  PROVE  Invs' /\ Invisible
<1>1. /\ top > 1 /\ cursor.i < source.size /\ cursor.j > Len(source.bucket[cursor.i])
      /\ cursors' = [cursors EXCEPT ![Len(cursors)] = FollowingBucket]
      /\ tables' = tables /\ found' = found /\ failed' = failed /\ crashed' = crashed /\ faults' = faults
  BY DEF NextBucket
<1>2. /\ Len(cursors) \in Nat
      /\ Sound(filled)
      /\ Sound(source)
      /\ cursor \in Cursors
      /\ Copied(source, cursor, filled)
      /\ source = tables[Len(cursors)]
      /\ Len(cursors) > 0
  BY <1>1, InvShape
<1>3. Copied(source, FollowingBucket, filled) /\ FollowingBucket \in Cursors
  BY <1>1, <1>2, BucketCopied DEF FollowingBucket
<1>4. StackOK(tables, cursors) /\ Len(cursors) > 0
  BY <1>1, <1>2 DEF Invs, StackInv
<1>5. Advanced(tables, cursors, cursors', filled)
  <2>1. Copied(tables[Len(cursors)], FollowingBucket, filled)
    BY <1>2, <1>3
  <2> HIDE DEF FollowingBucket
  <2> QED
    BY <1>1, <1>3, <1>4, <2>1, CursorMoved
<1>6. tables = Replaced(tables, filled)
  BY <1>4 DEF StackOK, Replaced, filled, top
<1>7. StackOK(tables', cursors')
  BY <1>1, <1>2, <1>4, <1>5, <1>6, TopReplaced
<1>8. Contents(tables'[1]) = Contents(table)
  BY <1>1 DEF table
<1>9. RoomInv'
  <2>1. top' = top /\ filled' = filled
    BY <1>1 DEF top, filled
  <2> QED
    BY <1>1, <2>1 DEF RoomInv, Invs
<1> QED
  BY <1>1, <1>7, <1>8, <1>9, InvisibleFollows DEF Invs, StackInv

LEMMA InstallStep ==
  ASSUME Invs, Install
  PROVE  Invs' /\ Invisible
<1>1. /\ top > 1 /\ cursor.i = source.size
      /\ tables' = Append(SubSeq(tables, 1, top - 2), filled)
      /\ cursors' = SubSeq(cursors, 1, Len(cursors) - 1)
      /\ found' = found /\ failed' = failed /\ crashed' = crashed /\ faults' = faults
  BY DEF Install, Installed
<1>2. /\ Sound(source)
      /\ cursor \in Cursors
      /\ Copied(source, cursor, filled)
  BY <1>1, InvShape
<1>3. Contents(filled) = Contents(source)
  BY <1>1, <1>2, CopyCompletes
<1>4. /\ StackOK(tables', cursors')
      /\ Len(tables') = Len(tables) - 1
      /\ tables'[Len(tables')] = tables[Len(tables)]
      /\ Contents(tables'[1]) = Contents(tables[1])
  <2>1. StackOK(tables, cursors) /\ Len(tables) > 1
    BY <1>1 DEF Invs, StackInv, top
  <2>2. Contents(tables[Len(tables)]) = Contents(tables[Len(tables) - 1])
    BY <1>3 DEF filled, source, top
  <2>3. tables' = Popped(tables)
    BY <1>1 DEF filled, top, Popped
  <2>4. cursors' = SubSeq(cursors, 1, Len(cursors) - 1)
    BY <1>1
  <2> QED
    BY <2>1, <2>2, <2>3, <2>4, TablePopped
<1>5. RoomInv'
  <2>1. filled' = filled
    BY <1>4 DEF filled, top
  <2>2. RoomIn(filled)
    BY <1>1 DEF Invs, RoomInv
  <2> QED
    BY <1>1, <2>1, <2>2 DEF Invs, RoomInv
<1> QED
  BY <1>1, <1>4, <1>5, InvisibleFollows DEF Invs, StackInv, table

LEMMA RemoveStep ==
  ASSUME Invs, Remove
  PROVE  Invs' /\ Promise!Remove
<1>1. /\ top = 1
      /\ found \in Contents(table)
      /\ KeyOf[found] \in Checked
      /\ tables' = <<Removed(table, found)>>
      /\ cursors' = cursors /\ found' = found /\ failed' = failed /\ crashed' = crashed /\ faults' = faults
  BY DEF Remove, Idle, Removed
<1>2. Sound(table) /\ filled = table /\ KeysOnce(Contents(table)) /\ cursors = <<>>
  BY <1>1, InvShape DEF Invs, StackInv, filled, table, StackOK
<1>3. \A e \in Contents(table) : KeyOf[e] = KeyOf[found] => e = found
  BY <1>1, <1>2 DEF KeysOnce
<1>4. /\ Sound(Removed(table, found))
      /\ Contents(Removed(table, found)) = Contents(table) \ {found}
      /\ RoomIn(table) => RoomIn(Removed(table, found))
  BY <1>1, <1>2, <1>3, RemovedIsSound
<1>5. table' = Removed(table, found) /\ filled' = Removed(table, found) /\ top' = 1
  BY <1>1 DEF table, filled, top
<1>6. StackOK(tables', cursors')
  BY <1>1, <1>2, <1>4, SingleTable
<1>7. KeysOnce(Contents(table))'
  BY <1>2, <1>4, <1>5 DEF KeysOnce
<1>8. StackInv'
  BY <1>1, <1>6, <1>7 DEF Invs, StackInv
<1>9. RoomInv'
  BY <1>1, <1>2, <1>4, <1>5 DEF Invs, RoomInv
<1>10. Promise!Remove
  BY <1>1, <1>4, <1>5 DEF Promise!Remove
<1> QED
  BY <1>8, <1>9, <1>10 DEF Invs

LEMMA InvsInit ==
  ASSUME Init
  PROVE  Invs /\ Promise!Init
<1>1. /\ tables = <<Make(FirstSize)>> /\ cursors = <<>>
      /\ found = Null /\ failed = FALSE /\ crashed = FALSE /\ faults = 0
  BY DEF Init
<1>2. Sound(Make(FirstSize)) /\ Contents(Make(FirstSize)) = {} /\ RoomIn(Make(FirstSize))
  BY MakeIsSound, HashTableAssumption
<1>3. table = Make(FirstSize) /\ filled = Make(FirstSize)
  BY <1>1 DEF table, filled, top
<1>4. StackInv
  <2>1. StackOK(tables, cursors)
    BY <1>1, <1>2, SingleTable
  <2>2. KeysOnce(Contents(table))
    BY <1>2, <1>3 DEF KeysOnce
  <2>3. faults \in 0..MaxFaults
    BY <1>1, HashTableAssumption
  <2> QED
    BY <1>1, <2>1, <2>2, <2>3 DEF StackInv
<1>5. RoomInv
  BY <1>1, <1>2, <1>3 DEF RoomInv
<1>6. Promise!Init
  BY <1>1, <1>2, <1>3 DEF Promise!Init
<1> QED
  BY <1>4, <1>5, <1>6 DEF Invs

LEMMA InvsStep ==
  ASSUME Invs, [Next]_vars
  PROVE  Invs' /\ [Promise!Next]_<<Contents(table), found>>
<1>1. ASSUME NEW k \in Keys, Search(k)
      PROVE  Invs' /\ Promise!Next
  BY <1>1, SearchStep DEF Promise!Next
<1>2. ASSUME NEW d \in Data, Set(d)
      PROVE  Invs' /\ Promise!Next
  BY <1>2, SetStep DEF Promise!Next
<1>3. ASSUME NEW d \in Data, SetOverflows(d)
      PROVE  Invs' /\ Invisible
  BY <1>3, OverflowStep DEF Invisible
<1>4. CASE Remove
  BY <1>4, RemoveStep DEF Promise!Next
<1>5. CASE Rebuild
  <2>1. Invs' /\ Invisible
    BY <1>5, CopyElementStep, NextBucketStep, InstallStep DEF Rebuild
  <2> QED
    BY <2>1 DEF Invisible
<1>6. CASE UNCHANGED vars
  <2>1. /\ tables' = tables /\ cursors' = cursors /\ found' = found
        /\ failed' = failed /\ crashed' = crashed /\ faults' = faults
    BY <1>6 DEF vars
  <2>2. table' = table /\ filled' = filled /\ top' = top
    BY <2>1 DEF table, filled, top
  <2>3. StackInv'
    BY <2>1, <2>2 DEF Invs, StackInv
  <2>4. RoomInv'
    BY <2>1, <2>2 DEF Invs, RoomInv
  <2> QED
    BY <2>1, <2>2, <2>3, <2>4 DEF Invs
<1>7. Crashed => UNCHANGED vars
  BY DEF Crashed
<1>8. Invisible => UNCHANGED <<Contents(table), found>>
  BY DEF Invisible
<1>9. CASE Next
  <2>1. \/ \E k \in Keys : Search(k)
        \/ \E d \in Data : Set(d) \/ SetOverflows(d)
        \/ Remove \/ Rebuild \/ Crashed
    BY <1>9 DEF Next
  <2> QED
    BY <2>1, <1>1, <1>2, <1>3, <1>4, <1>5, <1>6, <1>7, <1>8
<1> QED
  BY <1>6, <1>9

THEOREM TableInvariant == Spec => []Invs
<1>1. Init => Invs
  BY InvsInit
<1>2. Invs /\ [Next]_vars => Invs'
  BY InvsStep
<1> QED
  BY <1>1, <1>2, PTL DEF Spec

LEMMA InvsGiveBuckets ==
  ASSUME Invs
  PROVE  InTheirBuckets
<1>1. /\ StackOK(tables, cursors)
      /\ found \in Data \cup {Null} /\ failed \in BOOLEAN /\ crashed \in BOOLEAN /\ faults \in 0..MaxFaults
  BY DEF Invs, StackInv
<1>2. \A k \in DOMAIN tables : Sound(tables[k]) /\ IsTable(tables[k])
  BY <1>1, SoundIsTable, TablesAreTables DEF StackOK
<1>3. TypeOK
  BY <1>1, <1>2 DEF TypeOK, StackOK, Cursors
<1>4. \A k \in DOMAIN tables :
        /\ \A b \in DOMAIN tables[k].bucket : \A n \in DOMAIN tables[k].bucket[b] :
             BucketOf(tables[k], KeyOf[tables[k].bucket[b][n]]) = b
        /\ tables[k].nel = Cardinality(Contents(tables[k]))
  BY <1>2 DEF Sound
<1> QED
  BY <1>3, <1>4 DEF InTheirBuckets

LEMMA InvsGiveRoom ==
  ASSUME Invs
  PROVE  RoomForNext
BY DEF Invs, RoomInv, RoomForNext, RoomIn, Idle, filled, table

(* Whatever is set and removed, however the hashes collide and whichever    *)
(* allocations fail, each datum is where a search looks for it in every     *)
(* table, the copies under construction included, and nel counts the data.  *)
THEOREM DataInTheirBuckets == Spec => []InTheirBuckets
<1>1. Invs => InTheirBuckets
  BY InvsGiveBuckets
<1> QED
  BY <1>1, TableInvariant, PTL

(* No bucket is full when a call returns, unless an error was returned: the *)
(* test after each append comes early enough for the next one.              *)
THEOREM AlwaysRoomForNext == Spec => []RoomForNext
<1>1. Invs => RoomForNext
  BY InvsGiveRoom
<1> QED
  BY <1>1, TableInvariant, PTL

(* The table with its buckets, its rebuilds that may nest, and its failures *)
(* is a dictionary: a search returns a datum with the key exactly when one  *)
(* is present, and a rebuild, complete or given up, changes nothing.        *)
THEOREM TableIsDictionary == Spec => ImplementsDictionary
<1>1. Init => Promise!Init
  BY InvsInit
<1>2. Invs /\ [Next]_vars => [Promise!Next]_<<Contents(table), found>>
  BY InvsStep
<1> QED
  BY <1>1, <1>2, TableInvariant, PTL DEF Spec, ImplementsDictionary, Promise!Spec

--------------------------------------------------------------------------------
(* Memory *)

\* Ffactor different data whose hashes share a bucket of a table of size s.
Collide(s) ==
  \E data \in [1..Ffactor -> Data] :
    /\ \A m, n \in 1..Ffactor : data[m] = data[n] => m = n
    /\ \A m, n \in 1..Ffactor : Hash[KeyOf[data[m]]] % s = Hash[KeyOf[data[n]]] % s

\* The sizes are closed under doubling, and a table of the last one that can be
\* allocated keeps the data apart.
Separating(Sizes) ==
  /\ Sizes \subseteq Nat
  /\ FirstSize \in Sizes
  /\ \A s \in Sizes : 2 * s \in Sizes
  /\ \A s \in Sizes : 2 * s > MaxSize => ~Collide(s)

FailInv(Sizes) ==
  /\ failed => faults > 0
  /\ \A k \in DOMAIN tables : tables[k].size \in Sizes

\* A bucket that has filled up makes its data collide.
LEMMA CrowdedCollides ==
  ASSUME NEW t, Sound(t), NEW d \in Data, d \notin Contents(t), Crowded(Stored(t, d), d)
  PROVE  Collide(t.size)
<1> DEFINE u == Stored(t, d)
           B == BucketOf(t, KeyOf[d])
           data == [n \in 1..Ffactor |-> u.bucket[B][n]]
<1>1. Sound(u) /\ u \in Tables /\ u.size = t.size /\ DOMAIN u.bucket = DOMAIN t.bucket
  BY StoredIsSound, SoundIsTable, StoredShape
<1>2. B \in DOMAIN u.bucket /\ Ffactor <= Len(u.bucket[B])
  BY <1>1, SoundIsTable, BucketInTable DEF Crowded, BucketOf
<1>3. /\ DOMAIN u.bucket[B] = 1..Len(u.bucket[B])
      /\ Len(u.bucket[B]) \in Nat
      /\ \A n \in DOMAIN u.bucket[B] : u.bucket[B][n] \in Data
  BY <1>1, <1>2, BucketShape
<1> HIDE DEF u, B
<1>4. 1..Ffactor \subseteq DOMAIN u.bucket[B]
  BY <1>2, <1>3, HashTableAssumption
<1>5. data \in [1..Ffactor -> Data]
  BY <1>3, <1>4
<1>6. \A m, n \in 1..Ffactor : data[m] = data[n] => m = n
  BY <1>1, <1>2, <1>4 DEF Sound
<1>7. \A n \in 1..Ffactor : Hash[KeyOf[data[n]]] % t.size = B
  BY <1>1, <1>2, <1>4 DEF Sound, BucketOf
<1> HIDE DEF data
<1> QED
  BY <1>5, <1>6, <1>7 DEF Collide

\* What Set and CopyElement store is not in the table they store it in.
LEMMA StoresNewDatum ==
  ASSUME Invs
  PROVE  /\ \A d \in Data : Set(d) => d \notin Contents(filled) /\ Stores(d, cursors)
         /\ CopyElement => \E d \in Data : d \notin Contents(filled) /\ Stores(d, NextElement)
<1>1. ASSUME NEW d \in Data, Set(d)
      PROVE  d \notin Contents(filled) /\ Stores(d, cursors)
  BY <1>1, CallableIsNew DEF Set, Stores
<1>2. ASSUME CopyElement
      PROVE  \E d \in Data : d \notin Contents(filled) /\ Stores(d, NextElement)
  <2> DEFINE d == source.bucket[cursor.i][cursor.j]
             e == [cursor EXCEPT !.j = @ + 1]
  <2>1. /\ top > 1 /\ cursor.i < source.size /\ cursor.j <= Len(source.bucket[cursor.i])
        /\ Stores(d, NextElement)
    BY <1>2 DEF CopyElement, Stores
  <2>2. Sound(filled) /\ Sound(source) /\ cursor \in Cursors /\ Copied(source, cursor, filled)
    BY <2>1, InvShape
  <2>3. e \in Cursors /\ e.i = cursor.i /\ e.j = cursor.j + 1
    BY <2>2 DEF Cursors
  <2> HIDE DEF d, e
  <2>4. d \in Data /\ d \notin Contents(filled)
    BY <2>1, <2>2, <2>3, ElementCopied DEF d
  <2> QED
    BY <2>1, <2>4
<1> QED
  BY <1>1, <1>2

LEMMA FailInvStores ==
  ASSUME NEW Sizes, Separating(Sizes), Invs, FailInv(Sizes),
         NEW d \in Data, d \notin Contents(filled), NEW positions, Stores(d, positions)
  PROVE  FailInv(Sizes)'
<1> DEFINE u == Stored(filled, d)
           ts == Update(u)
<1>0. /\ Sound(filled) /\ filled \in Tables /\ tables \in Seq(Tables) /\ Len(tables) > 0
      /\ filled.size \in Sizes /\ faults \in Nat
  <2>1. Len(tables) > 0 /\ tables \in Seq(Tables) /\ Sound(filled) /\ filled \in Tables /\ faults \in Nat
    BY InvShape, HashTableAssumption DEF Invs, StackInv, StackOK, top
  <2>2. Len(tables) \in DOMAIN tables
    BY <2>1
  <2> QED
    BY <2>1, <2>2 DEF FailInv, filled, top
<1>1. u \in Tables /\ u.size = filled.size
  BY <1>0, StoredShape
<1> HIDE DEF u
<1>2. /\ ts \in Seq(Tables) /\ Len(ts) = Len(tables) /\ DOMAIN ts = DOMAIN tables
      /\ \A k \in DOMAIN ts : ts[k] = IF k = Len(tables) THEN u ELSE tables[k]
  BY <1>0, <1>1 DEF Update, top
<1>3. \A k \in DOMAIN ts : ts[k].size \in Sizes
  BY <1>0, <1>1, <1>2 DEF FailInv
<1> HIDE DEF ts
<1>4. CASE Keep(d, positions)
  <2>1. tables' = ts /\ failed' = failed /\ faults' = faults
    BY <1>4 DEF Keep, ts, u
  <2> QED
    BY <1>3, <2>1 DEF FailInv
<1>5. CASE Grow(d, positions)
  <2> DEFINE copy == Make(2 * filled.size)
  <2>1. tables' = Append(ts, copy) /\ failed' = failed /\ faults' = faults
    BY <1>5 DEF Grow, ts, u
  <2>2. 2 * filled.size \in Nat \ {0}
    <3>1. filled.size \in Nat \ {0}
      BY <1>0, TableShape
    <3> QED
      BY <3>1
  <2>3. copy.size \in Sizes /\ copy \in Tables
    BY <1>0, <2>2, MakeIsSound, SoundIsTable DEF Separating
  <2> HIDE DEF copy
  <2>4. \A k \in DOMAIN tables' : (k \in DOMAIN ts /\ tables'[k] = ts[k]) \/ tables'[k] = copy
    BY <1>2, <2>1, <2>3
  <2>5. \A k \in DOMAIN tables' : tables'[k].size \in Sizes
    BY <1>3, <2>3, <2>4
  <2> QED
    BY <2>1, <2>5 DEF FailInv
<1>6. CASE GiveUp(d)
  <2>1. /\ tables' = <<ts[1]>> /\ failed' = TRUE
        /\ Crowded(u, d)
        /\ IF 2 * filled.size > MaxSize THEN faults' = faults ELSE faults' = faults + 1
    BY <1>6 DEF GiveUp, ts, u
  <2>2. ~(2 * filled.size > MaxSize)
    BY <1>0, <2>1, CrowdedCollides DEF Separating, u
  <2>3. faults' > 0
    BY <1>0, <2>1, <2>2
  <2>4. 1 \in DOMAIN ts
    BY <1>0, <1>2
  <2>5. \A k \in DOMAIN tables' : tables'[k].size \in Sizes
    BY <1>3, <2>1, <2>4
  <2> QED
    BY <2>3, <2>5 DEF FailInv
<1> QED
  BY <1>4, <1>5, <1>6 DEF Stores

LEMMA FailInvStep ==
  ASSUME NEW Sizes, Separating(Sizes), Invs, FailInv(Sizes), [Next]_vars
  PROVE  FailInv(Sizes)'
<1>1. ASSUME NEW d \in Data, Set(d)
      PROVE  FailInv(Sizes)'
  BY <1>1, StoresNewDatum, FailInvStores
<1>2. CASE CopyElement
  BY <1>2, StoresNewDatum, FailInvStores
<1>3. CASE Install
  <2>1. /\ tables' = Append(SubSeq(tables, 1, top - 2), filled)
        /\ failed' = failed /\ faults' = faults /\ top > 1
    BY <1>3 DEF Install, Installed
  <2>2. tables \in Seq(Tables) /\ top = Len(tables) /\ filled = tables[top]
    BY DEF Invs, StackInv, StackOK, top, filled
  <2> DEFINE lower == SubSeq(tables, 1, top - 2)
  <2>3. lower \in Seq(Tables) /\ Len(lower) = top - 2 /\ \A k \in 1..(top - 2) : lower[k] = tables[k]
    <3>1. top - 2 \in 0..Len(tables)
      BY <2>1, <2>2
    <3> QED
      BY <2>2, <3>1, PrefixShape
  <2>4. filled \in Tables /\ top \in Nat
    BY InvShape, <2>2
  <2> HIDE DEF lower
  <2>5. \A k \in DOMAIN tables' : \E m \in DOMAIN tables : tables'[k] = tables[m]
    <3>1. tables' = Append(lower, filled)
      BY <2>1 DEF lower
    <3>2. ASSUME NEW k \in DOMAIN tables'
          PROVE  \E m \in DOMAIN tables : tables'[k] = tables[m]
      <4>1. k \in 1..(top - 1)
        BY <2>1, <2>3, <2>4, <3>1
      <4>2. CASE k = top - 1
        <5>1. tables'[k] = filled
          BY <2>1, <2>3, <2>4, <3>1, <4>2
        <5>2. top \in DOMAIN tables
          BY <2>1, <2>2, <2>4
        <5> QED
          BY <2>2, <5>1, <5>2
      <4>3. CASE k # top - 1
        <5>1. k \in 1..(top - 2)
          BY <2>4, <4>1, <4>3
        <5>2. tables'[k] = lower[k]
          BY <2>3, <2>4, <3>1, <5>1
        <5>3. k \in DOMAIN tables
          BY <2>2, <2>4, <5>1
        <5> QED
          BY <2>3, <5>1, <5>2, <5>3
      <4> QED
        BY <4>2, <4>3
    <3> QED
      BY <3>2
  <2> QED
    BY <2>1, <2>5 DEF FailInv
<1>4. CASE Remove
  <2>1. tables' = <<Removed(table, found)>> /\ failed' = failed /\ faults' = faults
    BY <1>4 DEF Remove, Removed
  <2>2. Removed(table, found).size = table.size
    <3>1. Sound(table) /\ found \in Contents(table) /\ KeyOf[found] \in Checked /\ KeysOnce(Contents(table))
      BY <1>4, InvShape DEF Remove, Invs, StackInv
    <3>2. \A e \in Contents(table) : KeyOf[e] = KeyOf[found] => e = found
      BY <3>1 DEF KeysOnce
    <3> QED
      BY <3>1, <3>2, RemovedIsSound
  <2>3. table.size \in Sizes
    <3>1. Len(tables) > 0 /\ tables \in Seq(Tables)
      BY InvShape DEF Invs, StackInv, StackOK, top
    <3>2. 1 \in DOMAIN tables
      BY <3>1
    <3> QED
      BY <3>2 DEF FailInv, table
  <2> QED
    BY <2>1, <2>2, <2>3 DEF FailInv
<1>5. ASSUME tables' = tables, failed' = failed, faults' = faults
      PROVE  FailInv(Sizes)'
  BY <1>5 DEF FailInv
<1>6. ASSUME \/ \E k \in Keys : Search(k)
             \/ \E d \in Data : SetOverflows(d)
             \/ NextBucket \/ Crashed \/ UNCHANGED vars
      PROVE  FailInv(Sizes)'
  <2>1. tables' = tables /\ failed' = failed /\ faults' = faults
    BY <1>6 DEF Search, SetOverflows, NextBucket, Crashed, vars
  <2> QED
    BY <1>5, <2>1
<1> QED
  BY <1>1, <1>2, <1>3, <1>4, <1>6 DEF Next, Rebuild

(* A bucket is written past its end only after an error that its caller     *)
(* ignored, and as long as a table that can still be allocated keeps the    *)
(* data apart, only a failing allocation causes one: however many copies of *)
(* copies it takes, the rebuilds end in a table with room.                  *)
THEOREM HarmNeedsFault ==
  ASSUME NEW Sizes, Separating(Sizes)
  PROVE  Spec => []HarmOnlyByFault
<1>1. Init => FailInv(Sizes)
  <2> SUFFICES ASSUME Init PROVE FailInv(Sizes)
    OBVIOUS
  <2>1. tables = <<Make(FirstSize)>> /\ failed = FALSE
    BY DEF Init
  <2>2. Make(FirstSize).size = FirstSize
    BY DEF Make
  <2> QED
    BY <2>1, <2>2 DEF FailInv, Separating
<1>2. Invs /\ FailInv(Sizes) /\ [Next]_vars => FailInv(Sizes)'
  BY FailInvStep
<1>3. Invs /\ FailInv(Sizes) => HarmOnlyByFault
  BY DEF Invs, RoomInv, FailInv, HarmOnlyByFault
<1> QED
  BY <1>1, <1>2, <1>3, TableInvariant, PTL DEF Spec

--------------------------------------------------------------------------------
(* The iteration *)

\* The positions of the table that hold a datum, in the order of the iteration.
Positions ==
  {p \in [bucket : DOMAIN table.bucket, element : Nat] : p.element < Len(table.bucket[p.bucket])}
Earlier(p, q) == p.bucket < q.bucket \/ (p.bucket = q.bucket /\ p.element < q.element)
Before(p) == {q \in Positions : Earlier(q, p)}
Rank(p) == Cardinality(Before(p))

LEMMA PositionShape ==
  ASSUME Sound(table), NEW p \in Positions
  PROVE  /\ p = [bucket |-> p.bucket, element |-> p.element]
         /\ p.bucket \in 0..(table.size - 1) /\ p.bucket \in Nat /\ p.element \in Nat
         /\ p.element + 1 \in DOMAIN table.bucket[p.bucket]
         /\ p # Null
<1>1. table \in Tables
  BY DEF Sound
<1>2. DOMAIN table.bucket = 0..(table.size - 1) /\ table.size \in Nat \ {0}
  BY <1>1, TableShape
<1>3. p \in [bucket : DOMAIN table.bucket, element : Nat] /\ p.element < Len(table.bucket[p.bucket])
  BY DEF Positions
<1>4. /\ p = [bucket |-> p.bucket, element |-> p.element]
      /\ p.bucket \in DOMAIN table.bucket /\ p.element \in Nat
  BY <1>3
<1>5. DOMAIN table.bucket[p.bucket] = 1..Len(table.bucket[p.bucket]) /\ Len(table.bucket[p.bucket]) \in Nat
  BY <1>1, <1>4, BucketShape
<1>6. p.element + 1 \in DOMAIN table.bucket[p.bucket]
  BY <1>3, <1>4, <1>5
<1>7. p.bucket \in 0..(table.size - 1) /\ p.bucket \in Nat
  BY <1>2, <1>4
<1>8. p \in [bucket : Nat, element : Nat]
  BY <1>4, <1>7
<1> QED
  BY <1>4, <1>6, <1>7, <1>8, HashTableAssumption

LEMMA PositionMade ==
  ASSUME Sound(table), NEW b \in 0..(table.size - 1), NEW e \in Nat, e < Len(table.bucket[b])
  PROVE  [bucket |-> b, element |-> e] \in Positions
<1>1. b \in DOMAIN table.bucket
  BY TableShape DEF Sound
<1> QED
  BY <1>1 DEF Positions

\* There are as many positions as data, each with another datum.
LEMMA PositionsHoldData ==
  ASSUME Sound(table)
  PROVE  /\ IsFiniteSet(Positions) /\ Cardinality(Positions) = table.nel
         /\ {napr_hash_this(p) : p \in Positions} = Contents(table)
<1> DEFINE f == [p \in Positions |-> napr_hash_this(p)]
<1>1. table \in Tables /\ DOMAIN table.bucket = 0..(table.size - 1)
  BY TableShape DEF Sound
<1>2. ASSUME NEW p \in Positions
      PROVE  napr_hash_this(p) \in Contents(table)
  <2>1. p.bucket \in DOMAIN table.bucket /\ p.element + 1 \in DOMAIN table.bucket[p.bucket]
    BY <1>1, PositionShape
  <2> QED
    BY <2>1, InContents DEF napr_hash_this
<1>3. ASSUME NEW p \in Positions, NEW q \in Positions, napr_hash_this(p) = napr_hash_this(q)
      PROVE  p = q
  <2>1. /\ p = [bucket |-> p.bucket, element |-> p.element] /\ q = [bucket |-> q.bucket, element |-> q.element]
        /\ p.bucket \in DOMAIN table.bucket /\ p.element + 1 \in DOMAIN table.bucket[p.bucket]
        /\ q.bucket \in DOMAIN table.bucket /\ q.element + 1 \in DOMAIN table.bucket[q.bucket]
        /\ p.element \in Nat /\ q.element \in Nat
    BY <1>1, PositionShape
  <2>2. p.bucket = q.bucket
    <3>1. /\ BucketOf(table, KeyOf[napr_hash_this(p)]) = p.bucket
          /\ BucketOf(table, KeyOf[napr_hash_this(q)]) = q.bucket
      BY <2>1 DEF Sound, napr_hash_this
    <3> QED
      BY <1>3, <3>1
  <2>3. p.element + 1 = q.element + 1
    BY <1>3, <2>1, <2>2 DEF Sound, napr_hash_this
  <2> QED
    BY <2>1, <2>2, <2>3
<1>4. ASSUME NEW d \in Contents(table)
      PROVE  \E p \in Positions : napr_hash_this(p) = d
  <2>1. PICK b \in DOMAIN table.bucket : \E n \in DOMAIN table.bucket[b] : table.bucket[b][n] = d
    BY <1>4, InContents
  <2>2. PICK n \in DOMAIN table.bucket[b] : table.bucket[b][n] = d
    BY <2>1
  <2>3. DOMAIN table.bucket[b] = 1..Len(table.bucket[b]) /\ Len(table.bucket[b]) \in Nat
    BY <1>1, BucketShape
  <2> DEFINE p == [bucket |-> b, element |-> n - 1]
  <2>4. n - 1 \in Nat /\ n - 1 < Len(table.bucket[b]) /\ n - 1 + 1 = n
    BY <2>3
  <2>5. p \in Positions
    BY <1>1, <2>4, PositionMade
  <2>6. napr_hash_this(p) = d
    BY <2>2, <2>4 DEF napr_hash_this
  <2> QED
    BY <2>5, <2>6
<1>5. f \in Injection(Positions, Contents(table)) /\ f \in Surjection(Positions, Contents(table))
  BY <1>2, <1>3, <1>4 DEF Injection, IsInjective, Surjection
<1>6. IsFiniteSet(Contents(table)) /\ Cardinality(Contents(table)) = table.nel
  BY DEF Sound
<1> HIDE DEF f
<1>7. IsFiniteSet(Positions)
  BY <1>5, <1>6, FS_Injection
<1>8. Cardinality(Positions) = Cardinality(Contents(table))
  BY <1>5, <1>6, FS_Injection
<1> QED
  BY <1>2, <1>4, <1>6, <1>7, <1>8

\* One of two positions is earlier.
LEMMA EarlierIsOrder ==
  ASSUME Sound(table), NEW p \in Positions, NEW q \in Positions
  PROVE  /\ p = q \/ Earlier(p, q) \/ Earlier(q, p)
         /\ ~Earlier(p, p)
         /\ Earlier(p, q) => ~Earlier(q, p) /\ \A r \in Positions : Earlier(r, p) => Earlier(r, q)
<1>1. \A r \in Positions : r = [bucket |-> r.bucket, element |-> r.element] /\ r.bucket \in Nat /\ r.element \in Nat
  BY PositionShape
<1>2. p.bucket = q.bucket /\ p.element = q.element => p = q
  BY <1>1
<1> QED
  BY <1>1, <1>2 DEF Earlier

\* Ranks differ, and every number below the count of positions is one.
LEMMA RanksCount ==
  ASSUME Sound(table)
  PROVE  /\ \A p \in Positions : Rank(p) \in 0..(table.nel - 1)
         /\ \A p, q \in Positions : Rank(p) = Rank(q) => p = q
         /\ \A n \in 0..(table.nel - 1) : \E p \in Positions : Rank(p) = n
<1> DEFINE N == table.nel
           f == [p \in Positions |-> Rank(p)]
<1>1. IsFiniteSet(Positions) /\ Cardinality(Positions) = N /\ N \in Nat
  BY PositionsHoldData, FS_CardinalityType
<1>2. \A p \in Positions : Before(p) \in SUBSET Positions /\ IsFiniteSet(Before(p)) /\ Rank(p) \in Nat
  <2> SUFFICES ASSUME NEW p \in Positions
               PROVE  Before(p) \in SUBSET Positions /\ IsFiniteSet(Before(p)) /\ Rank(p) \in Nat
    OBVIOUS
  <2>1. Before(p) \in SUBSET Positions
    BY DEF Before
  <2>2. IsFiniteSet(Before(p))
    BY <1>1, <2>1, FS_Subset
  <2> QED
    BY <2>1, <2>2, FS_CardinalityType DEF Rank
<1>3. ASSUME NEW p \in Positions, NEW S, S \in SUBSET Positions, IsFiniteSet(S), Before(p) \in SUBSET S, p \in S
      PROVE  Rank(p) < Cardinality(S) /\ Cardinality(S) \in Nat
  <2>1. p \notin Before(p)
    BY EarlierIsOrder DEF Before
  <2>2. Rank(p) <= Cardinality(S) /\ Cardinality(S) # Rank(p)
    BY <1>3, <2>1, FS_Subset DEF Rank
  <2>3. Cardinality(S) \in Nat
    BY <1>3, FS_CardinalityType
  <2> QED
    BY <1>2, <2>2, <2>3
<1>4. \A p \in Positions : Rank(p) \in 0..(N - 1)
  <2> SUFFICES ASSUME NEW p \in Positions
               PROVE  Rank(p) \in 0..(N - 1)
    OBVIOUS
  <2>1. Rank(p) < N
    BY <1>1, <1>2, <1>3
  <2> QED
    BY <1>1, <1>2, <2>1
<1>5. ASSUME NEW p \in Positions, NEW q \in Positions, Earlier(p, q)
      PROVE  Rank(p) # Rank(q)
  <2>1. p \in Before(q) /\ Before(p) \in SUBSET Before(q)
    BY <1>5, EarlierIsOrder DEF Before
  <2>2. Rank(p) < Rank(q)
    BY <1>2, <1>3, <2>1 DEF Rank
  <2> QED
    BY <1>2, <2>2
<1>6. \A p, q \in Positions : Rank(p) = Rank(q) => p = q
  BY <1>5, EarlierIsOrder
<1> HIDE DEF N
<1>7. \A n \in 0..(N - 1) : \E p \in Positions : Rank(p) = n
  <2>1. f \in Injection(Positions, 0..(N - 1))
    BY <1>4, <1>6 DEF Injection, IsInjective
  <2>2. IsFiniteSet(0..(N - 1)) /\ Cardinality(0..(N - 1)) = N
    <3>1. 0 \in Int /\ N - 1 \in Int
      BY <1>1
    <3>2. Cardinality(0..(N - 1)) = IF 0 > N - 1 THEN 0 ELSE (N - 1) - 0 + 1
      BY <3>1, FS_Interval
    <3>3. IsFiniteSet(0..(N - 1))
      BY <3>1, FS_Interval
    <3> QED
      BY <1>1, <3>2, <3>3
  <2> HIDE DEF f
  <2>3. f \in Surjection(Positions, 0..(N - 1))
    BY <1>1, <2>1, <2>2, FS_Injection
  <2> QED
    BY <2>3 DEF Surjection, f
<1> QED
  BY <1>4, <1>6, <1>7 DEF N

\* napr_hash_next returns the first position after h, or NULL after the last one.
LEMMA NextIsFollowing ==
  ASSUME Sound(table), NEW h \in [bucket : 0..(table.size - 1), element : Nat]
  PROVE  LET Later == {q \in Positions : Earlier(h, q)}
         IN  \/ Later = {} /\ napr_hash_next(h) = Null
             \/ napr_hash_next(h) \in Later /\ \A q \in Later : ~Earlier(q, napr_hash_next(h))
<1> DEFINE Later == {q \in Positions : Earlier(h, q)}
           LaterBuckets == {b \in (h.bucket + 1)..(table.size - 1) : table.bucket[b] # <<>>}
           B == h.bucket
           E == h.element
<1>1. table \in Tables /\ DOMAIN table.bucket = 0..(table.size - 1) /\ table.size \in Nat \ {0}
  BY TableShape DEF Sound
<1>2. B \in 0..(table.size - 1) /\ B \in Nat /\ E \in Nat
  BY <1>1
<1>3. \A b \in 0..(table.size - 1) : table.bucket[b] \in Seq(Data) /\ Len(table.bucket[b]) \in Nat
  BY <1>1, BucketShape
<1>4. \A q \in Positions : /\ q.bucket \in 0..(table.size - 1) /\ q.bucket \in Nat /\ q.element \in Nat
                           /\ q.element < Len(table.bucket[q.bucket])
  BY PositionShape DEF Positions
<1>5. CASE E < Len(table.bucket[B]) - 1
  <2> DEFINE p == [bucket |-> B, element |-> E + 1]
  <2>1. napr_hash_next(h) = p
    BY <1>5 DEF napr_hash_next
  <2>2. p \in Positions
    BY <1>2, <1>3, <1>5, PositionMade
  <2>3. Earlier(h, p)
    BY <1>2 DEF Earlier
  <2>4. ASSUME NEW q \in Later
        PROVE  ~Earlier(q, p)
    <3>1. /\ q.bucket \in Nat /\ q.element \in Nat
          /\ B < q.bucket \/ (B = q.bucket /\ E < q.element)
      BY <1>4 DEF Earlier
    <3>2. p.bucket = B /\ p.element = E + 1
      OBVIOUS
    <3> QED
      BY <1>2, <3>1, <3>2 DEF Earlier
  <2> QED
    BY <2>1, <2>2, <2>3, <2>4
<1>6. ASSUME ~(E < Len(table.bucket[B]) - 1), NEW q \in Later
      PROVE  q.bucket \in LaterBuckets /\ B < q.bucket
  <2>1. q \in Positions /\ (B < q.bucket \/ (B = q.bucket /\ E < q.element))
    BY DEF Earlier
  <2>2. B < q.bucket
    BY <1>2, <1>3, <1>4, <1>6, <2>1
  <2>3. table.bucket[q.bucket] # <<>>
    <3>1. Len(table.bucket[q.bucket]) # 0
      BY <1>3, <1>4, <2>1
    <3> QED
      BY <1>3, <1>4, <2>1, <3>1, EmptySeq
  <2> QED
    BY <1>1, <1>2, <1>4, <2>1, <2>2, <2>3
<1>7. CASE ~(E < Len(table.bucket[B]) - 1) /\ LaterBuckets = {}
  <2>1. napr_hash_next(h) = Null
    BY <1>7 DEF napr_hash_next
  <2> QED
    BY <1>6, <1>7, <2>1
<1>8. CASE ~(E < Len(table.bucket[B]) - 1) /\ LaterBuckets # {}
  <2> DEFINE m == CHOOSE b \in LaterBuckets : \A c \in LaterBuckets : b <= c
             p == [bucket |-> m, element |-> 0]
  <2>1. napr_hash_next(h) = p
    BY <1>8 DEF napr_hash_next
  <2>2. m \in LaterBuckets /\ \A c \in LaterBuckets : m <= c
    <3>1. LaterBuckets \subseteq Nat
      BY <1>1, <1>2
    <3>2. \E b \in LaterBuckets : \A c \in LaterBuckets : b <= c
      <4> HIDE DEF LaterBuckets
      <4> QED
        BY <1>8, <3>1, LeastElement
    <3> HIDE DEF LaterBuckets
    <3> QED
      BY <3>2
  <2> HIDE DEF m
  <2>3. m \in 0..(table.size - 1) /\ m \in Nat /\ B < m /\ table.bucket[m] # <<>>
    BY <1>1, <1>2, <2>2
  <2>4. 0 < Len(table.bucket[m])
    <3>1. Len(table.bucket[m]) # 0
      BY <1>3, <2>3, EmptySeq
    <3> QED
      BY <1>3, <2>3, <3>1
  <2>5. p \in Positions
    BY <2>3, <2>4, PositionMade
  <2>6. Earlier(h, p)
    BY <2>3 DEF Earlier
  <2>7. ASSUME NEW q \in Later
        PROVE  ~Earlier(q, p)
    <3>1. m <= q.bucket /\ q.bucket \in Nat /\ q.element \in Nat
      BY <1>4, <1>6, <1>8, <2>2
    <3> QED
      BY <2>3, <3>1 DEF Earlier
  <2> QED
    BY <2>1, <2>5, <2>6, <2>7
<1> QED
  BY <1>5, <1>7, <1>8

\* napr_hash_first returns the earliest position, or NULL when the table is empty.
LEMMA FirstIsEarliest ==
  ASSUME Sound(table)
  PROVE  \/ Positions = {} /\ napr_hash_first = Null
         \/ napr_hash_first \in Positions /\ \A q \in Positions : ~Earlier(q, napr_hash_first)
<1> DEFINE start == [bucket |-> 0, element |-> 0]
<1>1. table \in Tables /\ DOMAIN table.bucket = 0..(table.size - 1) /\ table.size \in Nat \ {0}
  BY TableShape DEF Sound
<1>2. \A q \in Positions : q.bucket \in 0..(table.size - 1) /\ q.bucket \in Nat /\ q.element \in Nat
                           /\ q.element < Len(table.bucket[q.bucket])
  BY PositionShape DEF Positions
<1>3. 0 \in 0..(table.size - 1) /\ 0 \in DOMAIN table.bucket
  BY <1>1
<1>4. table.bucket[0] \in Seq(Data) /\ Len(table.bucket[0]) \in Nat
  BY <1>1, <1>3, BucketShape
<1>5. CASE table.bucket[0] # <<>>
  <2>1. napr_hash_first = start
    BY <1>5 DEF napr_hash_first
  <2>2. 0 < Len(table.bucket[0])
    <3>1. Len(table.bucket[0]) # 0
      BY <1>4, <1>5, EmptySeq
    <3> QED
      BY <1>4, <3>1
  <2>3. start \in Positions
    BY <1>3, <2>2, PositionMade
  <2>4. \A q \in Positions : ~Earlier(q, start)
    BY <1>2 DEF Earlier
  <2> QED
    BY <2>1, <2>3, <2>4
<1>6. CASE table.bucket[0] = <<>>
  <2>1. napr_hash_first = napr_hash_next(start)
    BY <1>6 DEF napr_hash_first
  <2>2. start \in [bucket : 0..(table.size - 1), element : Nat]
    BY <1>3
  <2>3. {q \in Positions : Earlier(start, q)} = Positions
    <3> SUFFICES ASSUME NEW q \in Positions
                 PROVE  Earlier(start, q)
      OBVIOUS
    <3>1. q.bucket # 0
      <4>1. Len(table.bucket[0]) = 0
        BY <1>6
      <4> QED
        BY <1>2, <4>1
    <3> QED
      BY <1>2, <3>1 DEF Earlier
  <2> HIDE DEF start
  <2> QED
    BY <2>1, <2>2, <2>3, NextIsFollowing
<1> QED
  BY <1>5, <1>6

\* The position that rank n has, and NULL after the last one.
Ranked ==
  [n \in 0..table.nel |-> IF n < table.nel THEN CHOOSE p \in Positions : Rank(p) = n ELSE Null]

\* The steps of IterationComplete: v is what its recursive function visits.
Visits(v) ==
  v = [n \in 0..table.nel |->
         IF n = 0 THEN napr_hash_first
         ELSE IF v[n - 1] = Null THEN Null
         ELSE napr_hash_next(v[n - 1])]

\* Every rank has its position.
LEMMA RankedShape ==
  ASSUME Sound(table)
  PROVE  /\ table.nel \in Nat
         /\ Ranked = [n \in 0..table.nel |-> Ranked[n]]
         /\ \A n \in 0..(table.nel - 1) : Ranked[n] \in Positions /\ Rank(Ranked[n]) = n /\ Ranked[n] # Null
         /\ Ranked[table.nel] = Null
<1>1. table.nel \in Nat
  BY TableShape DEF Sound
<1>2. Ranked[table.nel] = Null
  BY <1>1 DEF Ranked
<1>3. ASSUME NEW n \in 0..(table.nel - 1)
      PROVE  Ranked[n] \in Positions /\ Rank(Ranked[n]) = n /\ Ranked[n] # Null
  <2>1. n \in 0..table.nel /\ n < table.nel
    BY <1>1
  <2>2. Ranked[n] = CHOOSE p \in Positions : Rank(p) = n
    BY <2>1 DEF Ranked
  <2>3. \E p \in Positions : Rank(p) = n
    BY <1>3, RanksCount
  <2>4. Ranked[n] \in Positions /\ Rank(Ranked[n]) = n
    BY <2>2, <2>3
  <2> QED
    BY <2>4, PositionShape
<1>4. Ranked = [n \in 0..table.nel |-> Ranked[n]]
  BY DEF Ranked
<1> QED
  BY <1>1, <1>2, <1>3, <1>4

\* The earliest position has rank 0.
LEMMA FirstIsRanked ==
  ASSUME Sound(table)
  PROVE  napr_hash_first = Ranked[0]
<1>1. table.nel \in Nat /\ IsFiniteSet(Positions) /\ Cardinality(Positions) = table.nel
  BY RankedShape, PositionsHoldData
<1>2. CASE Positions = {}
  <2>1. table.nel = 0
    BY <1>1, <1>2, FS_EmptySet
  <2> QED
    BY <1>2, <2>1, FirstIsEarliest, RankedShape
<1>3. CASE Positions # {}
  <2> DEFINE f == napr_hash_first
  <2>1. f \in Positions /\ \A q \in Positions : ~Earlier(q, f)
    BY <1>3, FirstIsEarliest
  <2> HIDE DEF f
  <2>2. Before(f) = {}
    BY <2>1 DEF Before
  <2>3. Rank(f) = 0
    BY <2>2, FS_EmptySet DEF Rank
  <2>4. 0 \in 0..(table.nel - 1)
    BY <1>1, <2>1, <2>3, RanksCount
  <2>5. Ranked[0] \in Positions /\ Rank(Ranked[0]) = 0
    BY <2>4, RankedShape
  <2> QED
    BY <2>1, <2>3, <2>5, RanksCount DEF f
<1> QED
  BY <1>2, <1>3

\* The position after the one of rank n - 1 has rank n.
LEMMA NextIsRanked ==
  ASSUME Sound(table), NEW n \in 1..table.nel
  PROVE  napr_hash_next(Ranked[n - 1]) = Ranked[n]
<1> DEFINE h == Ranked[n - 1]
           s == napr_hash_next(h)
           S == Before(h) \cup {h}
<1>1. table.nel \in Nat /\ IsFiniteSet(Positions) /\ Cardinality(Positions) = table.nel
  BY RankedShape, PositionsHoldData
<1>2. n - 1 \in 0..(table.nel - 1) /\ n \in Nat
  BY <1>1
<1>3. h \in Positions /\ Rank(h) = n - 1
  BY <1>2, RankedShape
<1>4. h \in [bucket : 0..(table.size - 1), element : Nat]
  <2>1. h = [bucket |-> h.bucket, element |-> h.element] /\ h.bucket \in 0..(table.size - 1) /\ h.element \in Nat
    BY <1>3, PositionShape
  <2> HIDE DEF h
  <2> QED
    BY <2>1
<1> HIDE DEF h
<1>5. S \in SUBSET Positions /\ IsFiniteSet(S) /\ Cardinality(S) = n
  <2>1. Before(h) \in SUBSET Positions /\ h \notin Before(h)
    BY <1>3, EarlierIsOrder DEF Before
  <2>2. IsFiniteSet(Before(h))
    BY <1>1, <2>1, FS_Subset
  <2>3. IsFiniteSet(S) /\ Cardinality(S) = Cardinality(Before(h)) + 1
    BY <2>1, <2>2, FS_AddElement
  <2> QED
    BY <1>2, <1>3, <2>1, <2>3 DEF Rank
<1>6. \/ {q \in Positions : Earlier(h, q)} = {} /\ s = Null
      \/ s \in {q \in Positions : Earlier(h, q)} /\ \A q \in {q \in Positions : Earlier(h, q)} : ~Earlier(q, s)
  BY <1>4, NextIsFollowing
<1> HIDE DEF s
<1>7. CASE {q \in Positions : Earlier(h, q)} = {} /\ s = Null
  <2>1. S = Positions
    BY <1>3, <1>5, <1>7, EarlierIsOrder DEF Before
  <2>2. n = table.nel
    BY <1>1, <1>5, <2>1
  <2> QED
    BY <1>7, <2>2, RankedShape DEF s, h
<1>8. CASE s \in Positions /\ Earlier(h, s) /\ \A q \in Positions : Earlier(h, q) => ~Earlier(q, s)
  <2>1. Before(s) = S
    <3>1. ASSUME NEW q \in Positions, Earlier(q, s)
          PROVE  q \in S
      <4>1. q = h \/ Earlier(q, h) \/ Earlier(h, q)
        BY <1>3, EarlierIsOrder
      <4> QED
        BY <1>8, <3>1, <4>1 DEF Before
    <3>2. ASSUME NEW q \in S
          PROVE  q \in Positions /\ Earlier(q, s)
      <4>1. \A r \in Positions : Earlier(r, h) => Earlier(r, s)
        BY <1>3, <1>8, EarlierIsOrder
      <4> QED
        BY <1>3, <1>8, <3>2, <4>1 DEF Before
    <3> HIDE DEF S
    <3> QED
      BY <3>1, <3>2 DEF Before
  <2>2. Rank(s) = n
    BY <1>5, <2>1 DEF Rank
  <2>3. n \in 0..(table.nel - 1)
    BY <1>8, <2>2, RanksCount
  <2>4. Ranked[n] \in Positions /\ Rank(Ranked[n]) = n
    BY <2>3, RankedShape
  <2> QED
    BY <1>8, <2>2, <2>4, RanksCount DEF s, h
<1> QED
  BY <1>6, <1>7, <1>8

\* The iteration visits the positions by rank: the recursive function exists, and
\* there is no other.
LEMMA RanksAreVisited ==
  ASSUME Sound(table)
  PROVE  Visits(Ranked) /\ \A v : Visits(v) => v = Ranked
<1> DEFINE N == table.nel
<1>1. N \in Nat /\ Ranked = [n \in 0..N |-> Ranked[n]]
  BY RankedShape
<1>2. Ranked[0] = napr_hash_first
  BY FirstIsRanked
<1>3. ASSUME NEW n \in 1..N
      PROVE  Ranked[n] = IF Ranked[n - 1] = Null THEN Null ELSE napr_hash_next(Ranked[n - 1])
  <2>1. n - 1 \in 0..(N - 1)
    BY <1>1
  <2>2. Ranked[n - 1] # Null
    BY <2>1, RankedShape
  <2> QED
    BY <1>3, <2>2, NextIsRanked
<1>4. ASSUME NEW n \in 0..N
      PROVE  Ranked[n] = IF n = 0 THEN napr_hash_first
                         ELSE IF Ranked[n - 1] = Null THEN Null
                         ELSE napr_hash_next(Ranked[n - 1])
  <2>1. n = 0 \/ n \in 1..N
    BY <1>1
  <2>2. CASE n = 0
    BY <1>2, <2>2
  <2>3. CASE n \in 1..N
    <3>1. n # 0
      BY <1>1, <2>3
    <3> QED
      BY <1>3, <2>3, <3>1
  <2> QED
    BY <2>1, <2>2, <2>3
<1>5. Visits(Ranked)
  BY <1>1, <1>4 DEF Visits
<1>6. ASSUME NEW v, Visits(v)
      PROVE  v = Ranked
  <2> DEFINE Wrong == {n \in 0..N : v[n] # Ranked[n]}
  <2>1. DOMAIN v = 0..N /\ v = [n \in 0..N |-> v[n]]
    BY <1>6 DEF Visits
  <2>2. \A n \in 0..N : v[n] = IF n = 0 THEN napr_hash_first
                               ELSE IF v[n - 1] = Null THEN Null
                               ELSE napr_hash_next(v[n - 1])
    BY <1>6 DEF Visits
  <2>3. Wrong = {}
    <3> SUFFICES ASSUME Wrong # {} PROVE FALSE
      OBVIOUS
    <3>1. Wrong \subseteq Nat
      BY <1>1
    <3>2. PICK m \in Wrong : \A c \in Wrong : m <= c
      <4> HIDE DEF Wrong
      <4> QED
        BY <3>1, LeastElement
    <3>3. m \in 0..N /\ v[m] # Ranked[m]
      OBVIOUS
    <3>4. m # 0
      BY <1>4, <2>2, <3>3
    <3>5. m - 1 \in 0..N /\ ~(m <= m - 1)
      BY <1>1, <3>3, <3>4
    <3>6. m - 1 \notin Wrong
      BY <3>2, <3>5
    <3>7. v[m - 1] = Ranked[m - 1]
      BY <3>5, <3>6
    <3> QED
      BY <1>4, <2>2, <3>3, <3>4, <3>7
  <2>4. \A n \in 0..N : v[n] = Ranked[n]
    BY <2>3
  <2> QED
    BY <1>1, <2>1, <2>4
<1> QED
  BY <1>5, <1>6

\* The positions visited are those of the ranks, which are as many as the data.
LEMMA InvsGiveIteration == ASSUME Invs PROVE IterationComplete
<1> SUFFICES ASSUME Idle PROVE IterationComplete
  BY DEF IterationComplete
<1> DEFINE visit == CHOOSE v : Visits(v)
           N == table.nel
           Reached == {n \in 0..N : visit[n] # Null}
<1>1. Sound(table)
  <2>1. StackOK(tables, cursors)
    BY DEF Invs, StackInv
  <2>2. Len(tables) \in Nat /\ Len(cursors) \in Nat /\ DOMAIN tables = 1..Len(tables)
    BY <2>1 DEF StackOK
  <2>3. 1 \in DOMAIN tables
    BY <2>1, <2>2 DEF StackOK
  <2> QED
    BY <2>1, <2>3 DEF StackOK, table
<1>2. visit = Ranked
  BY <1>1, RanksAreVisited
<1>3. /\ N \in Nat /\ Ranked[N] = Null
      /\ \A n \in 0..(N - 1) : Ranked[n] \in Positions /\ Rank(Ranked[n]) = n /\ Ranked[n] # Null
  BY <1>1, RankedShape
<1> HIDE DEF visit
<1>4. Reached = 0..(N - 1)
  BY <1>2, <1>3
<1>5. Cardinality(Reached) = N
  <2>1. 0 \in Int /\ N - 1 \in Int
    BY <1>3
  <2>2. Cardinality(0..(N - 1)) = IF 0 > N - 1 THEN 0 ELSE (N - 1) - 0 + 1
    BY <2>1, FS_Interval
  <2>3. Cardinality(0..(N - 1)) = N
    BY <1>3, <2>2
  <2> HIDE DEF Reached
  <2> QED
    BY <1>4, <2>3
<1>6. {napr_hash_this(visit[n]) : n \in Reached} = Contents(table)
  <2>1. {napr_hash_this(p) : p \in Positions} = Contents(table)
    BY <1>1, PositionsHoldData
  <2>2. \A p \in Positions : Rank(p) \in 0..(N - 1)
    BY <1>1, RanksCount
  <2>3. \A p \in Positions : p = Ranked[Rank(p)]
    BY <1>1, <1>3, <2>2, RanksCount
  <2>4. \A p \in Positions : Rank(p) \in Reached /\ napr_hash_this(visit[Rank(p)]) = napr_hash_this(p)
    BY <1>2, <1>4, <2>2, <2>3
  <2>5. \A n \in Reached : visit[n] \in Positions
    BY <1>2, <1>3, <1>4
  <2> HIDE DEF Reached
  <2> QED
    BY <2>1, <2>4, <2>5
<1>7. visit[N] = Null
  BY <1>2, <1>3
<1> QED
  BY <1>5, <1>6, <1>7 DEF IterationComplete, visit, Visits

\* IterationComplete: between two calls, an iteration with napr_hash_first and
\* napr_hash_next comes to every datum once and then to NULL.
THEOREM IterationIsComplete == Spec => []IterationComplete
<1>1. Spec => []Invs
  BY TableInvariant
<1>2. Invs => IterationComplete
  BY InvsGiveIteration
<1> QED
  BY <1>1, <1>2, PTL
================================================================================

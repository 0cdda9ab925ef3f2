-------------------------------- MODULE HashTable -------------------------------
(***************************************************************************)
(* The hash table of src/napr_hash.c: buckets of at most ffactor data that *)
(* all share one mask.  A bucket that has filled up makes the table copy   *)
(* itself into one of twice the size, by the same napr_hash_set, so that   *)
(* the copy may have to be copied in turn before it is complete.           *)
(*                                                                         *)
(* One action is one call, or one iteration of the loops of                *)
(* napr_hash_rebuild: the tables that exist meanwhile are a stack whose    *)
(* first one is the caller's.                                              *)
(***************************************************************************)
EXTENDS Integers, Sequences, FiniteSets

CONSTANTS
  Data,       \* the pointers that may be set, each once at a time
  Keys,
  KeyOf,      \* [Data -> Keys], the callback get_key
  Hash,       \* [Keys -> Nat], the callback hash
  Ffactor,    \* hash->ffactor, 8 in ftwin
  FirstSize,  \* the number of buckets of a new table
  MaxSize,    \* a table of more buckets than that cannot be allocated
  Checked,    \* the keys whose data are set only after a search did not find any
  Null,       \* the NULL pointer
  MaxFaults   \* bound: other allocations that fail

ASSUME HashTableAssumption ==
  /\ KeyOf \in [Data -> Keys]
  /\ Hash \in [Keys -> Nat]
  /\ Ffactor \in Nat \ {0}
  /\ FirstSize \in Nat \ {0}
  /\ MaxSize \in Nat
  /\ Checked \subseteq Keys
  /\ Null \notin Data
  /\ Null \notin [bucket : Nat, element : Nat]  \* a position is not NULL
  /\ MaxFaults \in Nat

VARIABLES
  tables,   \* the table and, while it is rebuilt, the copies not complete yet
  cursors,  \* for each table that is being copied, the locals i and j
  found,    \* what the last search returned
  failed,   \* history: a call of napr_hash_set has returned an error
  crashed,  \* a bucket was written past its end
  faults    \* failed allocations so far

vars == <<tables, cursors, found, failed, crashed, faults>>

IsTable(t) ==
  /\ DOMAIN t = {"size", "nel", "bucket"}
  /\ t.size \in Nat \ {0}
  /\ t.nel \in Nat
  /\ t.bucket \in [0..(t.size - 1) -> Seq(Data)]

TypeOK ==
  /\ Len(tables) = Len(cursors) + 1
  /\ \A k \in DOMAIN tables : IsTable(tables[k])
  /\ cursors \in Seq([i : Nat, j : Nat \ {0}])
  /\ found \in Data \cup {Null}
  /\ failed \in BOOLEAN
  /\ crashed \in BOOLEAN
  /\ faults \in 0..MaxFaults

\* napr_hash_make
Make(size) == [size |-> size, nel |-> 0, bucket |-> [b \in 0..(size - 1) |-> <<>>]]

Init ==
  /\ tables = <<Make(FirstSize)>>
  /\ cursors = <<>>
  /\ found = Null
  /\ failed = FALSE
  /\ crashed = FALSE
  /\ faults = 0

--------------------------------------------------------------------------------
\* The caller's table, and the one that is being filled.
table == tables[1]
top == Len(tables)
filled == tables[top]

Contents(t) == UNION {{t.bucket[b][n] : n \in DOMAIN t.bucket[b]} : b \in DOMAIN t.bucket}

\* key_hash & hash->mask: a size is a power of two.
BucketOf(t, key) == Hash[key] % t.size

\* The first position of a bucket that holds the key.
FirstMatch(bucket, key) ==
  CHOOSE n \in DOMAIN bucket :
    KeyOf[bucket[n]] = key /\ \A m \in 1..(n - 1) : KeyOf[bucket[m]] # key

Holds(bucket, key) == \E n \in DOMAIN bucket : KeyOf[bucket[n]] = key

napr_hash_search(key) ==
  LET bucket == table.bucket[BucketOf(table, key)]
  IN  IF Holds(bucket, key) THEN bucket[FirstMatch(bucket, key)] ELSE Null

\* No call is being executed.
Idle == top = 1 /\ ~crashed

Search(key) ==
  /\ Idle
  /\ found' = napr_hash_search(key)
  /\ UNCHANGED <<tables, cursors, failed, crashed, faults>>

--------------------------------------------------------------------------------
(* napr_hash_set *)

\* The table with the datum at the end of its bucket.
Stored(t, d) ==
  [t EXCEPT !.bucket[BucketOf(t, KeyOf[d])] = Append(@, d), !.nel = @ + 1]

\* Mutant of Crowded: the bucket is allowed one datum more than it has room for.
CrowdedTooLate(t, d) == Ffactor < Len(t.bucket[BucketOf(t, KeyOf[d])])

\* Another mutant of Crowded: a bucket counts as full with one datum less.
CrowdedTooSoon(t, d) == Ffactor - 1 <= Len(t.bucket[BucketOf(t, KeyOf[d])])

Crowded(t, d) == Ffactor <= Len(t.bucket[BucketOf(t, KeyOf[d])])

\* The table that is being filled becomes t.
Update(t) == [tables EXCEPT ![top] = t]

Keep(d, positions) ==
  /\ ~Crowded(Stored(filled, d), d)
  /\ tables' = Update(Stored(filled, d))
  /\ cursors' = positions
  /\ UNCHANGED <<found, failed, crashed, faults>>

\* The bucket has filled up: napr_hash_rebuild starts to copy the table.
Grow(d, positions) ==
  /\ Crowded(Stored(filled, d), d)
  /\ 2 * filled.size <= MaxSize
  /\ tables' = Append(Update(Stored(filled, d)), Make(2 * filled.size))
  /\ cursors' = Append(positions, [i |-> 0, j |-> 1])
  /\ UNCHANGED <<found, failed, crashed, faults>>

\* There is no memory for the copy: every call in progress returns the error, and
\* the copies are forgotten.
GiveUp(d) ==
  /\ Crowded(Stored(filled, d), d)
  /\ IF 2 * filled.size > MaxSize THEN UNCHANGED faults
                                  ELSE faults < MaxFaults /\ faults' = faults + 1
  /\ tables' = <<Update(Stored(filled, d))[1]>>
  /\ cursors' = <<>>
  /\ failed' = TRUE
  /\ UNCHANGED <<found, crashed>>

HasRoom(t, d) == Len(t.bucket[BucketOf(t, KeyOf[d])]) < Ffactor

\* Callers search first, and ft_hash_add_ignore_list ignores the answer.
Callable(d) ==
  /\ Idle
  /\ d \notin Contents(table)
  /\ KeyOf[d] \in Checked => napr_hash_search(KeyOf[d]) = Null

Set(d) ==
  /\ Callable(d)
  /\ HasRoom(table, d)
  /\ Keep(d, cursors) \/ Grow(d, cursors) \/ GiveUp(d)

\* The error of an earlier call was ignored and its bucket is still full.
SetOverflows(d) ==
  /\ Callable(d)
  /\ ~HasRoom(table, d)
  /\ crashed' = TRUE
  /\ UNCHANGED <<tables, cursors, found, failed, faults>>

--------------------------------------------------------------------------------
(* napr_hash_rebuild *)

source == tables[top - 1]
cursor == cursors[Len(cursors)]

\* Mutant of NextElement: a datum is left out.
SkippedElement == [cursors EXCEPT ![Len(cursors)].j = @ + 2]

NextElement == [cursors EXCEPT ![Len(cursors)].j = @ + 1]

CopyElement ==
  /\ top > 1
  /\ cursor.i < source.size
  /\ cursor.j <= Len(source.bucket[cursor.i])
  /\ LET d == source.bucket[cursor.i][cursor.j]
     IN  Keep(d, NextElement) \/ Grow(d, NextElement) \/ GiveUp(d)

\* Mutant of FollowingBucket: the loop stays where it is.
SameBucket == [i |-> cursor.i, j |-> 1]

FollowingBucket == [i |-> cursor.i + 1, j |-> 1]

NextBucket ==
  /\ top > 1
  /\ cursor.i < source.size
  /\ cursor.j > Len(source.bucket[cursor.i])
  /\ cursors' = [cursors EXCEPT ![Len(cursors)] = FollowingBucket]
  /\ UNCHANGED <<tables, found, failed, crashed, faults>>

\* Mutant of Installed: the data of the copy are counted twice.
InstalledOldCount(t, copy) == [copy EXCEPT !.nel = @ + t.nel]

\* The fields of the copy, all of them.
Installed(t, copy) == copy

Install ==
  /\ top > 1
  /\ cursor.i = source.size
  /\ tables' = Append(SubSeq(tables, 1, top - 2), Installed(source, filled))
  /\ cursors' = SubSeq(cursors, 1, Len(cursors) - 1)
  /\ UNCHANGED <<found, failed, crashed, faults>>

--------------------------------------------------------------------------------
(* napr_hash_remove *)

\* The last element takes the place of element n.
Without(bucket, n) == SubSeq([bucket EXCEPT ![n] = bucket[Len(bucket)]], 1, Len(bucket) - 1)

\* The only caller, ft_conf_process_sizes, removes what its search found.
Remove ==
  /\ Idle
  /\ found \in Contents(table)
  /\ KeyOf[found] \in Checked
  /\ LET b == BucketOf(table, KeyOf[found])
     IN  tables' = <<[table EXCEPT !.bucket[b] = Without(@, FirstMatch(@, KeyOf[found])), !.nel = @ - 1]>>
  /\ UNCHANGED <<cursors, found, failed, crashed, faults>>

--------------------------------------------------------------------------------
(* Iteration: a position, or Null after the last one. *)

\* Mutant of napr_hash_next: the last element of a bucket is passed over.
NextTooShort(h) ==
  LET Later == {b \in (h.bucket + 1)..(table.size - 1) : table.bucket[b] # <<>>}
  IN  IF h.element < Len(table.bucket[h.bucket]) - 2 THEN [h EXCEPT !.element = @ + 1]
      ELSE IF Later = {} THEN Null
      ELSE [bucket |-> CHOOSE b \in Later : \A c \in Later : b <= c, element |-> 0]

\* The next element of the bucket, or the first one of the next bucket with any.
napr_hash_next(h) ==
  LET Later == {b \in (h.bucket + 1)..(table.size - 1) : table.bucket[b] # <<>>}
  IN  IF h.element < Len(table.bucket[h.bucket]) - 1 THEN [h EXCEPT !.element = @ + 1]
      ELSE IF Later = {} THEN Null
      ELSE [bucket |-> CHOOSE b \in Later : \A c \in Later : b <= c, element |-> 0]

napr_hash_first ==
  LET start == [bucket |-> 0, element |-> 0]
  IN  IF table.bucket[0] # <<>> THEN start ELSE napr_hash_next(start)

napr_hash_this(h) == table.bucket[h.bucket][h.element + 1]

Crashed ==
  /\ crashed
  /\ UNCHANGED vars

--------------------------------------------------------------------------------
Rebuild == CopyElement \/ NextBucket \/ Install

Next ==
  \/ \E key \in Keys : Search(key)
  \/ \E d \in Data : Set(d) \/ SetOverflows(d)
  \/ Remove
  \/ Rebuild
  \/ Crashed

Spec == Init /\ [][Next]_vars

\* A call that rebuilds the table runs until it returns.
FairSpec == Spec /\ WF_vars(Rebuild)

--------------------------------------------------------------------------------
(* Properties *)

\* Every datum is in the bucket of every table that its hash selects, where a
\* search looks for it, and each table counts its data and keeps its shape.
InTheirBuckets ==
  TypeOK /\ \A k \in DOMAIN tables :
    LET t == tables[k]
    IN  /\ \A b \in DOMAIN t.bucket : \A n \in DOMAIN t.bucket[b] :
             BucketOf(t, KeyOf[t.bucket[b][n]]) = b
        /\ t.nel = Cardinality(Contents(t))

\* When a call returns, a next datum has room in any bucket, as long as every
\* rebuild had its memory.
RoomForNext == Idle /\ ~failed => \A b \in DOMAIN table.bucket : Len(table.bucket[b]) < Ffactor

\* A bucket is written past its end only after a napr_hash_set whose error was
\* ignored, as all of its callers do; and such an error needs a failing
\* allocation: data of equal hash, if fewer than ffactor, never exhaust the
\* memory by themselves, as a table of MaxSize buckets separates all others.
HarmOnlyByFault ==
  /\ crashed => failed
  /\ failed => faults > 0

\* Between two calls an iteration comes to every datum once and then ends.
IterationComplete ==
  Idle =>
    LET visit[n \in 0..table.nel] ==
          IF n = 0 THEN napr_hash_first
          ELSE IF visit[n - 1] = Null THEN Null
          ELSE napr_hash_next(visit[n - 1])
        Reached == {n \in 0..table.nel : visit[n] # Null}
    IN  /\ visit[table.nel] = Null
        /\ {napr_hash_this(visit[n]) : n \in Reached} = Contents(table)
        /\ Cardinality(Reached) = table.nel

\* A call that rebuilds the table returns.
RebuildEnds == top > 1 ~> top = 1

\* The table is a dictionary: what a rebuild does in between is invisible.
Promise == INSTANCE Dictionary WITH present <- Contents(table)
ImplementsDictionary == Promise!Spec
================================================================================

----------------------------- MODULE FileWalkProofs -----------------------------
(***************************************************************************)
(* Proofs about FileWalk, for any tree of directories, links, files and    *)
(* archives, any options, and any change and any refusal while the walk is *)
(* under way: it goes round no circle, stops early only by a fault, and    *)
(* collects everything that is due, though it leaves directories where it  *)
(* meets a loop.                                                           *)
(***************************************************************************)
EXTENDS FileWalk, FiniteSetTheorems, WellFoundedInduction, TLAPS

(* The inductive strengthening of LoopsCutShort. *)

\* The first n directories being read were entered through different names.
Apart(n) ==
  \A j, k \in 1..n : stack[j].entry = stack[k].entry /\ stack[j].entry # Null => j = k

\* Only the innermost directory may have been entered through a name of another
\* one, and then it is left without visiting anything.
LoopInv ==
  /\ TypeOK
  /\ \A n \in DOMAIN stack : stack[n].todo \subseteq DOMAIN Directory[stack[n].dir]
  /\ Apart(Len(stack) - 1)
  /\ call # Null => Apart(Len(stack))

\* Archives are read with -t only.
UntarInv == archive # Null => untar

(* The inductive strengthening of OnePathPerFile. *)

\* The directories q through which a path leads from an argument to an inode.
Trail(q, path, inode) ==
  /\ q \in Seq(Inodes)
  /\ path \in Seq(Names)
  /\ Len(q) = Len(path) + 1
  /\ \E k \in DOMAIN Args : q[1] = Args[k]
  /\ q[Len(q)] = inode
  /\ \A k \in 1..Len(path) :
       /\ q[k] \in Dirs
       /\ path[k] \in DOMAIN Directory[q[k]]
       /\ q[k + 1] = Directory[q[k]][path[k]]

LeadsTo(path, inode) == \E q : Trail(q, path, inode)

\* The arguments that are left are arguments.
ArgsInv == \A k \in DOMAIN args : \E m \in DOMAIN Args : args[k] = Args[m]

\* Whatever the walk is at, its path leads there.
PathInv ==
  ~follow =>
    /\ call # Null => LeadsTo(call.path, call.inode)
    /\ \A n \in DOMAIN stack : LeadsTo(stack[n].path, stack[n].dir)
    /\ archive # Null => LeadsTo(archive.path, archive.inode)
    /\ \A f \in added : LeadsTo(f.path, f.inode)

--------------------------------------------------------------------------------
(* The inductive strengthening of CollectsWhatIsDue. *)

\* The names of a directory that are not filtered.
Kept(d, name) ==
  /\ name \in DOMAIN Directory[d] \ Ignored
  /\ IF Directory[d][name] \in Dirs THEN recurse ELSE name \notin Excluded

\* n different entries w that lead from an argument to the inode r, none of which a
\* refusal makes the walk pass over.
Way(w, n, r) ==
  /\ w \in [1..n -> Inodes]
  /\ \A j, k \in 1..n : w[j] = w[k] => j = k
  /\ \E k \in DOMAIN Args : w[1] = Args[k]
  /\ \A k \in 1..n : Stat(w[k]) \notin shut \cup {Null} /\ w[k] \notin Unsure
  /\ \A k \in 1..(n - 1) :
       /\ Stat(w[k]) \in Dirs
       /\ \E name : Kept(Stat(w[k]), name) /\ Directory[Stat(w[k])][name] = w[k + 1]
  /\ Stat(w[n]) = r

\* The first m directories being read were entered by the way.
Along(w, m) == \A k \in 2..m : stack[k].entry = w[k]

\* The walk has still to go on along the way: from an argument, the call about to begin,
\* or the m-th directory being read.
FromArg(w) == \E k \in DOMAIN args : args[k] = w[1]
FromCall(w, n) == call # Null /\ Len(stack) < n /\ call.inode = w[Len(stack) + 1] /\ Along(w, Len(stack))
FromFrame(w, n, m) ==
  /\ m < n /\ Along(w, m)
  /\ \E name \in stack[m].todo : Kept(stack[m].dir, name) /\ Directory[stack[m].dir][name] = w[m + 1]
Ahead(w, n) ==
  \/ FromArg(w)
  \/ FromCall(w, n)
  \/ \E m \in DOMAIN stack : FromFrame(w, n, m)
  \/ archive # Null /\ archive.inode = Stat(w[n])

\* Nothing is missed: along every way to a file the walk has been, or has still to go.
AheadInv ==
  \A n \in Nat \ {0} : \A r \in Regular, w \in [1..n -> Inodes] :
    Way(w, n, r) => Ahead(w, n) \/ DueOf(r) \subseteq Collected

\* What a call, a directory and an archive being read are like.
ShapeInv ==
  /\ call # Null => /\ archive = Null
                    /\ call.entry = IF stack = <<>> THEN Null ELSE call.inode
  /\ stack # <<>> => stack[1].entry = Null
  /\ archive # Null =>
       /\ archive.n >= 1
       /\ archive.n > 1 => Members[archive.inode][1] # "error"
       /\ \A m \in GoodMembers(archive.inode) :
            m < archive.n => [inode |-> archive.inode, member |-> m] \in Collected
  /\ phase = "done" => args = <<>> /\ stack = <<>> /\ call = Null /\ archive = Null

\* Nothing else is collected: the walk is only where it should come to.
SoundInv ==
  gone = {} =>
    /\ call # Null => Stat(call.inode) \in Reachable({}) \cup shut \cup {Null}
    /\ \A m \in DOMAIN stack : stack[m].dir \in Reachable({})
    /\ archive # Null => archive.inode \in Reachable({})
    /\ Collected \subseteq Due({})

--------------------------------------------------------------------------------
(* Where links end *)

\* A nonempty set of natural numbers has a least element.
LEMMA LeastElement ==
  ASSUME NEW T, T \subseteq Nat, T # {}
  PROVE  \E x \in T : \A y \in T : x <= y
<1>1. PICK x \in T : \A y \in T : ~ (<<y, x>> \in OpToRel(<, Nat))
  BY NatLessThanWellFounded, WFMin, Zenon
<1>2. ASSUME NEW y \in T
      PROVE  x <= y
  <2>1. x \in Nat /\ y \in Nat
    OBVIOUS
  <2>2. ~(y < x)
    BY <1>1, <2>1 DEF OpToRel
  <2> QED
    BY <2>1, <2>2
<1> QED
  BY <1>2

\* The steps of End: g is where its recursive function comes to.
Hop(x) == IF x \in Links \ gone THEN Target[x] ELSE x
Hops(g, x, n) == g = [k \in 0..n |-> IF k = 0 THEN x ELSE Hop(g[k - 1])]

\* The function exists: a least n for which there is none is neither zero nor one
\* more than another.
LEMMA HopsExist ==
  ASSUME NEW x, NEW n \in Nat
  PROVE  \E g : Hops(g, x, n)
<1> DEFINE T == {m \in Nat : ~ \E g : Hops(g, x, m)}
<1> SUFFICES ASSUME T # {} PROVE FALSE
  OBVIOUS
<1>1. PICK m \in T : \A y \in T : m <= y
  BY LeastElement
<1>2. CASE m = 0
  <2>1. Hops([k \in 0..0 |-> x], x, 0)
    BY DEF Hops
  <2> QED
    BY <1>2, <2>1
<1>3. CASE m # 0
  <2>1. m - 1 \in Nat /\ m - 1 \notin T
    BY <1>1, <1>3
  <2>2. PICK g : Hops(g, x, m - 1)
    BY <2>1
  <2> DEFINE f == [k \in 0..m |-> IF k = m THEN Hop(g[m - 1]) ELSE g[k]]
  <2>3. \A k \in 0..(m - 1) : g[k] = IF k = 0 THEN x ELSE Hop(g[k - 1])
    BY <2>1, <2>2 DEF Hops
  <2>4. ASSUME NEW k \in 0..m
        PROVE  f[k] = IF k = 0 THEN x ELSE Hop(f[k - 1])
    <3>1. CASE k = m
      BY <1>3, <3>1, <2>1
    <3>2. CASE k # m
      BY <2>3, <3>2
    <3> QED
      BY <3>1, <3>2
  <2>5. f = [k \in 0..m |-> f[k]]
    OBVIOUS
  <2> HIDE DEF f
  <2>6. Hops(f, x, m)
    BY <2>4, <2>5 DEF Hops
  <2> QED
    BY <2>6
<1> QED
  BY <1>2, <1>3

\* How far End goes.
Far == Cardinality(Links)

LEMMA FarIs == Far \in Nat
<1>1. IsFiniteSet(Links)
  BY FileWalkAssumption, FS_Subset DEF Inodes
<1> QED
  BY <1>1, FS_CardinalityType DEF Far

LEMMA EndIs ==
  ASSUME NEW x
  PROVE  \E g : /\ Hops(g, x, Far)
                /\ End(x) = IF g[Far] \in Links \cup gone \cup {Null} THEN Null ELSE g[Far]
<1> DEFINE h == CHOOSE g : Hops(g, x, Far)
<1>1. Hops(h, x, Far)
  BY FarIs, HopsExist
<1>2. End(x) = IF h[Far] \in Links \cup gone \cup {Null} THEN Null ELSE h[Far]
  BY DEF End, Hops, Hop, Far
<1> QED
  BY <1>1, <1>2

\* What every step keeps holds at the end.
LEMMA HopsKeep ==
  ASSUME NEW g, NEW x, NEW n \in Nat, Hops(g, x, n), NEW S, x \in S, \A y \in S : Hop(y) \in S
  PROVE  \A k \in 0..n : g[k] \in S
<1> DEFINE T == {k \in 0..n : g[k] \notin S}
<1> SUFFICES ASSUME T # {} PROVE FALSE
  OBVIOUS
<1>0. T \subseteq Nat
  OBVIOUS
<1> HIDE DEF T
<1>1. PICK m \in T : \A y \in T : m <= y
  BY <1>0, LeastElement
<1> USE DEF T
<1>2. \A k \in 0..n : g[k] = IF k = 0 THEN x ELSE Hop(g[k - 1])
  BY DEF Hops
<1>3. m \in 0..n /\ g[m] \notin S /\ m # 0
  BY <1>1, <1>2
<1>4. m - 1 \in 0..n /\ m - 1 \notin T
  BY <1>1, <1>3
<1>5. g[m - 1] \in S
  BY <1>4
<1> QED
  BY <1>2, <1>3, <1>5

LEMMA EndType ==
  ASSUME NEW x \in Inodes
  PROVE  End(x) \in (Inodes \ (Links \cup gone)) \cup {Null}
<1>1. PICK g : /\ Hops(g, x, Far)
               /\ End(x) = IF g[Far] \in Links \cup gone \cup {Null} THEN Null ELSE g[Far]
  BY EndIs
<1>2. \A y \in Inodes \cup {Null} : Hop(y) \in Inodes \cup {Null}
  BY FileWalkAssumption DEF Hop, Inodes
<1>3. Far \in 0..Far /\ Far \in Nat
  BY FarIs
<1>4. g[Far] \in Inodes \cup {Null}
  BY <1>1, <1>2, <1>3, HopsKeep
<1> QED
  BY <1>1, <1>4

\* What is no link ends where it is.
LEMMA EndOfFile ==
  ASSUME NEW x \in Inodes \ Links
  PROVE  End(x) = IF x \in gone THEN Null ELSE x
<1>1. PICK g : /\ Hops(g, x, Far)
               /\ End(x) = IF g[Far] \in Links \cup gone \cup {Null} THEN Null ELSE g[Far]
  BY EndIs
<1>2. \A y \in {x} : Hop(y) \in {x}
  BY DEF Hop
<1>3. Far \in 0..Far /\ Far \in Nat
  BY FarIs
<1>4. g[Far] \in {x}
  BY <1>1, <1>2, <1>3, HopsKeep
<1> QED
  BY <1>1, <1>4, FileWalkAssumption

\* What is no link is what apr_stat describes.
LEMMA StatOfRegular ==
  ASSUME NEW x \in Inodes \ Links, Stat(x) # Null
  PROVE  Stat(x) = x
BY EndOfFile DEF Stat

\* What has vanished ends nowhere.
LEMMA StatOfGone ==
  ASSUME NEW x \in gone
  PROVE  Stat(x) = Null
<1>1. PICK g : /\ Hops(g, x, Far)
               /\ End(x) = IF g[Far] \in Links \cup gone \cup {Null} THEN Null ELSE g[Far]
  BY EndIs
<1>2. \A y \in {x} : Hop(y) \in {x}
  BY DEF Hop
<1>3. Far \in 0..Far /\ Far \in Nat
  BY FarIs
<1>4. g[Far] \in {x}
  BY <1>1, <1>2, <1>3, HopsKeep
<1> QED
  BY <1>1, <1>4 DEF Stat

LEMMA StatType ==
  ASSUME NEW x \in Inodes
  PROVE  Stat(x) \in Inodes \cup {Null}
BY EndType DEF Stat

--------------------------------------------------------------------------------
(* The directories being read *)

LEMMA PrefixShape ==
  ASSUME NEW S, NEW s \in Seq(S), NEW n \in 0..Len(s)
  PROVE  /\ SubSeq(s, 1, n) \in Seq(S)
         /\ Len(SubSeq(s, 1, n)) = n
         /\ DOMAIN SubSeq(s, 1, n) = 1..n
         /\ \A k \in 1..n : SubSeq(s, 1, n)[k] = s[k]
OBVIOUS

LEMMA FrontShape ==
  ASSUME NEW S, NEW s \in Seq(S), s # <<>>
  PROVE  /\ Front(s) \in Seq(S)
         /\ Len(Front(s)) = Len(s) - 1
         /\ DOMAIN Front(s) = 1..(Len(s) - 1)
         /\ \A n \in 1..(Len(s) - 1) : Front(s)[n] = s[n]
<1>1. Len(s) \in Nat \ {0} /\ Len(s) - 1 \in 0..Len(s)
  OBVIOUS
<1> QED
  BY <1>1, PrefixShape DEF Front

LEMMA FrameShape ==
  ASSUME LoopInv, Reading
  PROVE  /\ stack \in Seq(Frames) /\ Len(stack) \in Nat \ {0} /\ Len(stack) \in DOMAIN stack
         /\ frame = stack[Len(stack)]
         /\ frame \in Frames
         /\ frame.dir \in Dirs
         /\ frame.todo \subseteq DOMAIN Directory[frame.dir]
         /\ frame.path \in Seq(Names)
         /\ DOMAIN Directory[frame.dir] \subseteq Names
<1>1. stack \in Seq(Frames) /\ stack # <<>>
  BY DEF LoopInv, TypeOK, Reading
<1>2. Len(stack) \in Nat \ {0} /\ Len(stack) \in DOMAIN stack
  BY <1>1
<1>3. frame = stack[Len(stack)]
  BY DEF frame, Last
<1>4. frame \in Frames
  BY <1>1, <1>2, <1>3
<1>5. frame.dir \in Dirs /\ frame.path \in Seq(Names)
  BY <1>4 DEF Frames
<1>6. frame.todo \subseteq DOMAIN Directory[frame.dir]
  BY <1>2, <1>3 DEF LoopInv
<1>7. DOMAIN Directory[frame.dir] \subseteq Names
  BY <1>5 DEF Names
<1> QED
  BY <1>1, <1>2, <1>3, <1>4, <1>5, <1>6, <1>7

\* Reading a name leaves the directories where they are.
LEMMA RemainingShape ==
  ASSUME LoopInv, Reading, NEW name, NEW left, left = Remaining(name)
  PROVE  /\ left \in Seq(Frames) /\ Len(left) = Len(stack) /\ DOMAIN left = DOMAIN stack
         /\ \A n \in DOMAIN stack : /\ left[n].dir = stack[n].dir
                                    /\ left[n].entry = stack[n].entry
                                    /\ left[n].path = stack[n].path
                                    /\ left[n].todo \subseteq stack[n].todo
<1> DEFINE top == Len(stack)
           rest == [stack[top] EXCEPT !.todo = @ \ {name}]
<1>1. stack \in Seq(Frames) /\ top \in Nat \ {0} /\ top \in 1..Len(stack) /\ stack[top] \in Frames
  BY FrameShape
<1>2. /\ rest \in Frames /\ rest.dir = stack[top].dir /\ rest.entry = stack[top].entry
      /\ rest.path = stack[top].path /\ rest.todo \subseteq stack[top].todo
  BY <1>1 DEF Frames
<1>3. left = [stack EXCEPT ![top] = rest]
  BY DEF Remaining
<1> HIDE DEF rest, top
<1>4. left \in Seq(Frames) /\ Len(left) = Len(stack) /\ DOMAIN left = DOMAIN stack
  BY <1>1, <1>2, <1>3
<1>5. \A n \in DOMAIN stack : left[n] = IF n = top THEN rest ELSE stack[n]
  BY <1>1, <1>3
<1> QED
  BY <1>2, <1>4, <1>5

\* Nothing but these has a stack of its own.
LEMMA Stacks ==
  ASSUME Next
  PROVE  \/ stack' = stack /\ (call' = call \/ call' = Null \/ stack = <<>>)
         \/ OpenDirectory \/ (\E name \in Names : SkipName(name) \/ VisitName(name)) \/ LeaveLoop \/ CloseDirectory
BY DEF Next, Walk, NextArg, Finish, StatFails, SkipBrokenLink, SkipShut, SkipLink, AddFile, OpenArchive, AddMember,
       EndArchive, ArchiveFails, OpenDirectoryFails, OpenArchiveFails, ReadDirectoryFails, Vanish, Ended, Return, vars

LEMMA EmptyApart == ASSUME stack = <<>> PROVE Apart(Len(stack)) /\ Apart(Len(stack) - 1)
BY DEF Apart

\* A name that is visited is not that of a directory further out.
LEMMA VisitedApart ==
  ASSUME LoopInv, Reading, ~Loop
  PROVE  Apart(Len(stack))
<1> DEFINE top == Len(stack)
<1>1. top \in Nat \ {0} /\ frame = stack[top]
  BY FrameShape
<1>2. Apart(top - 1)
  BY DEF LoopInv
<1>3. frame.entry # Null => \A n \in 1..(top - 1) : stack[n].entry # frame.entry
  BY DEF Loop
<1> HIDE DEF top
<1> SUFFICES ASSUME NEW j \in 1..top, NEW k \in 1..top, stack[j].entry = stack[k].entry, stack[j].entry # Null
             PROVE  j = k
  BY DEF Apart, top
<1>4. CASE j \in 1..(top - 1) /\ k \in 1..(top - 1)
  BY <1>2, <1>4 DEF Apart
<1>5. CASE j = top \/ k = top
  BY <1>1, <1>3, <1>5
<1> QED
  BY <1>1, <1>4, <1>5

--------------------------------------------------------------------------------
(* Types and loops *)

\* The directory that is opened.
LEMMA OpenedShape ==
  ASSUME LoopInv, OpenDirectory
  PROVE  \E opened \in Frames :
           /\ stack' = Append(stack, opened)
           /\ opened.dir = Stat(call.inode) /\ opened.path = call.path /\ opened.entry = call.entry
           /\ opened.todo = DOMAIN Directory[opened.dir]
           /\ call # Null
<1> DEFINE opened == [dir |-> Stat(call.inode), entry |-> call.entry, path |-> call.path,
                      todo |-> DOMAIN Directory[Stat(call.inode)]]
<1>1. /\ stack' = Append(stack, opened) /\ Stat(call.inode) \in Dirs /\ call # Null
  BY DEF OpenDirectory, Open, Called
<1>2. call.entry \in Inodes \cup {Null} /\ call.path \in Seq(Names)
  BY <1>1 DEF LoopInv, TypeOK, Calls
<1>3. DOMAIN Directory[Stat(call.inode)] \subseteq Names
  BY <1>1 DEF Names
<1>4. opened \in Frames
  BY <1>1, <1>2, <1>3 DEF Frames
<1> QED
  BY <1>1, <1>4

LEMMA VisitShape ==
  ASSUME LoopInv, NEW name \in Names, VisitName(name)
  PROVE  /\ name \in DOMAIN Directory[frame.dir] /\ frame.dir \in Dirs /\ Directory[frame.dir][name] \in Inodes
         /\ call' = [inode |-> Directory[frame.dir][name], entry |-> Directory[frame.dir][name],
                     path |-> Append(frame.path, name)]
         /\ call' \in Calls
<1>1. Reading /\ name \in frame.todo
  BY DEF VisitName
<1>2. /\ name \in DOMAIN Directory[frame.dir] /\ frame.dir \in Dirs /\ frame.path \in Seq(Names)
  BY <1>1, FrameShape
<1>3. Directory[frame.dir][name] \in Inodes
  BY <1>2, FileWalkAssumption
<1>4. call' = [inode |-> Directory[frame.dir][name], entry |-> Directory[frame.dir][name],
               path |-> Append(frame.path, name)]
  BY DEF VisitName
<1>5. Append(frame.path, name) \in Seq(Names)
  BY <1>2
<1> QED
  BY <1>2, <1>3, <1>4, <1>5 DEF Calls

LEMMA TypeStep ==
  ASSUME LoopInv, Next
  PROVE  TypeOK'
<1>0. /\ follow \in BOOLEAN /\ recurse \in BOOLEAN /\ untar \in BOOLEAN /\ shut \subseteq MayBeShut
      /\ gone \subseteq MayVanish /\ phase \in {"walk", "done", "failed"}
      /\ args \in Seq(Inodes) /\ stack \in Seq(Frames) /\ call \in Calls \cup {Null}
      /\ archive \in Readings \cup {Null} /\ added \subseteq Files
  BY DEF LoopInv, TypeOK
<1>1. options' = options
  BY DEF Next, Walk, NextArg, Finish, StatFails, SkipBrokenLink, SkipShut, SkipLink, OpenDirectory, AddFile,
         OpenArchive, AddMember, EndArchive, ArchiveFails, SkipName, VisitName, LeaveLoop, CloseDirectory,
         OpenDirectoryFails, OpenArchiveFails, ReadDirectoryFails,
         Vanish, Ended, Return, vars
<1> DEFINE Rest ==
      /\ gone' \subseteq MayVanish /\ phase' \in {"walk", "done", "failed"}
      /\ args' \in Seq(Inodes) /\ stack' \in Seq(Frames) /\ call' \in Calls \cup {Null}
      /\ archive' \in Readings \cup {Null} /\ added' \subseteq Files
<1> SUFFICES Rest
  BY <1>0, <1>1 DEF options, TypeOK
<1>2. ASSUME NEW inode \in MayVanish, Vanish(inode)
      PROVE  Rest
  BY <1>0, <1>2 DEF Vanish
<1>3. CASE NextArg
  <2>1. Head(args) \in Inodes /\ Tail(args) \in Seq(Inodes)
    BY <1>0, <1>3 DEF NextArg
  <2>2. <<>> \in Seq(Names)
    OBVIOUS
  <2> QED
    BY <1>0, <1>3, <2>1, <2>2 DEF NextArg, Calls
<1>4. CASE Finish \/ StatFails \/ ArchiveFails \/ OpenDirectoryFails \/ OpenArchiveFails \/ ReadDirectoryFails
  BY <1>0, <1>4 DEF Finish, StatFails, ArchiveFails, OpenDirectoryFails, OpenArchiveFails, ReadDirectoryFails
<1>5. CASE SkipBrokenLink \/ SkipShut \/ SkipLink
  BY <1>0, <1>5 DEF SkipBrokenLink, SkipShut, SkipLink, Return
<1>6. CASE OpenDirectory
  <2>1. stack' \in Seq(Frames)
    BY <1>0, <1>6, OpenedShape
  <2> QED
    BY <1>0, <1>6, <2>1 DEF OpenDirectory
<1>7. CASE AddFile
  <2>1. call.path \in Seq(Names) /\ Stat(call.inode) \in Regular
    BY <1>0, <1>7 DEF AddFile, Open, Called, Calls
  <2>2. [inode |-> Stat(call.inode), path |-> call.path, member |-> 0] \in Files
    BY <2>1 DEF Files
  <2> QED
    BY <1>0, <1>7, <2>2 DEF AddFile
<1>8. CASE OpenArchive
  <2>1. call.path \in Seq(Names) /\ Stat(call.inode) \in Archives
    BY <1>0, <1>8 DEF OpenArchive, IsArchive, Open, Called, Calls
  <2>2. [inode |-> Stat(call.inode), path |-> call.path, n |-> 1] \in Readings
    BY <2>1 DEF Readings
  <2> QED
    BY <1>0, <1>8, <2>2 DEF OpenArchive
<1>9. CASE AddMember
  <2>1. archive \in Readings
    BY <1>0, <1>9 DEF AddMember, HasHeader
  <2>2. [archive EXCEPT !.n = @ + 1] \in Readings
    BY <2>1 DEF Readings
  <2>3. [inode |-> archive.inode, path |-> archive.path, member |-> archive.n] \in Files
    BY <2>1, FileWalkAssumption DEF Readings, Files
  <2> QED
    BY <1>0, <1>9, <2>2, <2>3 DEF AddMember
<1>10. CASE EndArchive
  BY <1>0, <1>10 DEF EndArchive
<1>11. ASSUME NEW name \in Names, SkipName(name)
       PROVE  Rest
  <2>1. stack' \in Seq(Frames)
    BY <1>11, RemainingShape DEF SkipName
  <2> QED
    BY <1>0, <1>11, <2>1 DEF SkipName
<1>12. ASSUME NEW name \in Names, VisitName(name)
       PROVE  Rest
  <2>1. stack' \in Seq(Frames)
    BY <1>12, RemainingShape DEF VisitName
  <2>2. call' \in Calls
    BY <1>12, VisitShape
  <2> QED
    BY <1>0, <1>12, <2>1, <2>2 DEF VisitName
<1>13. CASE LeaveLoop \/ CloseDirectory
  <2>1. stack' = Front(stack) /\ stack # <<>>
    BY <1>13 DEF LeaveLoop, CloseDirectory, Reading
  <2>2. stack' \in Seq(Frames)
    BY <1>0, <2>1, FrontShape
  <2> QED
    BY <1>0, <1>13, <2>2 DEF LeaveLoop, CloseDirectory
<1>14. CASE Ended
  BY <1>0, <1>14 DEF Ended, vars
<1> QED
  BY <1>2, <1>3, <1>4, <1>5, <1>6, <1>7, <1>8, <1>9, <1>10, <1>11, <1>12, <1>13, <1>14 DEF Next, Walk

LEMMA LoopStep ==
  ASSUME LoopInv, Next
  PROVE  LoopInv'
<1>0. TypeOK'
  BY TypeStep
<1>1. /\ stack \in Seq(Frames) /\ Len(stack) \in Nat
      /\ \A n \in DOMAIN stack : stack[n].todo \subseteq DOMAIN Directory[stack[n].dir]
      /\ Apart(Len(stack) - 1)
      /\ call # Null => Apart(Len(stack))
  BY DEF LoopInv, TypeOK
<1>2. CASE stack' = stack /\ (call' = call \/ call' = Null \/ stack = <<>>)
  BY <1>0, <1>1, <1>2, EmptyApart DEF LoopInv, Apart
<1>3. CASE OpenDirectory
  <2>1. PICK opened \in Frames :
           /\ stack' = Append(stack, opened)
           /\ opened.todo = DOMAIN Directory[opened.dir]
           /\ call # Null
    BY <1>3, OpenedShape
  <2>2. call' = Null
    BY <1>3 DEF OpenDirectory
  <2>3. /\ Len(stack') = Len(stack) + 1 /\ DOMAIN stack' = 1..(Len(stack) + 1)
        /\ \A n \in 1..Len(stack) : stack'[n] = stack[n]
        /\ stack'[Len(stack) + 1] = opened
    BY <1>1, <2>1
  <2>4. \A n \in DOMAIN stack' : stack'[n].todo \subseteq DOMAIN Directory[stack'[n].dir]
    <3>1. \A n \in DOMAIN stack' : n \in DOMAIN stack \/ n = Len(stack) + 1
      BY <1>1, <2>3
    <3> QED
      BY <1>1, <2>1, <2>3, <3>1
  <2>5. Apart(Len(stack) - 1)'
    <3>1. Len(stack') - 1 = Len(stack)
      BY <1>1, <2>3
    <3>2. \A j, k \in 1..Len(stack) : stack'[j].entry = stack'[k].entry /\ stack'[j].entry # Null => j = k
      BY <1>1, <2>1, <2>3 DEF Apart
    <3> QED
      BY <3>1, <3>2 DEF Apart
  <2> QED
    BY <1>0, <2>2, <2>4, <2>5 DEF LoopInv
<1>4. ASSUME NEW name \in Names, SkipName(name) \/ VisitName(name)
      PROVE  LoopInv'
  <2>1. Reading /\ stack' = Remaining(name)
    BY <1>4 DEF SkipName, VisitName
  <2>2. /\ Len(stack') = Len(stack) /\ DOMAIN stack' = DOMAIN stack
        /\ \A n \in DOMAIN stack : /\ stack'[n].dir = stack[n].dir
                                   /\ stack'[n].entry = stack[n].entry
                                   /\ stack'[n].todo \subseteq stack[n].todo
    BY <2>1, RemainingShape
  <2>3. \A n \in DOMAIN stack' : stack'[n].todo \subseteq DOMAIN Directory[stack'[n].dir]
    BY <1>1, <2>2
  <2>4. \A n \in 1..Len(stack) : n \in DOMAIN stack
    BY <1>1
  <2>5. ASSUME NEW m \in Int, m <= Len(stack), Apart(m)
        PROVE  \A j, k \in 1..m : stack'[j].entry = stack'[k].entry /\ stack'[j].entry # Null => j = k
    <3>1. \A j \in 1..m : j \in DOMAIN stack
      BY <1>1, <2>4, <2>5
    <3> QED
      BY <2>2, <2>5, <3>1, SMTT(30) DEF Apart
  <2>6. Apart(Len(stack) - 1)'
    BY <1>1, <2>2, <2>5, SMTT(30) DEF Apart
  <2>7. call' # Null => Apart(Len(stack))'
    <3>1. CASE SkipName(name)
      BY <3>1, <2>1 DEF SkipName, Reading
    <3>2. CASE VisitName(name)
      <4>1. Apart(Len(stack))
        BY <2>1, <3>2, VisitedApart DEF VisitName
      <4> QED
        BY <1>1, <2>2, <2>5, <4>1 DEF Apart
    <3> QED
      BY <1>4, <3>1, <3>2
  <2> QED
    BY <1>0, <2>3, <2>6, <2>7 DEF LoopInv
<1>5. CASE LeaveLoop \/ CloseDirectory
  <2>1. stack' = Front(stack) /\ stack # <<>> /\ call' = Null
    BY <1>5 DEF LeaveLoop, CloseDirectory, Reading
  <2>2. /\ Len(stack') = Len(stack) - 1 /\ DOMAIN stack' = 1..(Len(stack) - 1)
        /\ \A n \in 1..(Len(stack) - 1) : stack'[n] = stack[n]
        /\ Len(stack) > 0
    BY <1>1, <2>1, FrontShape
  <2>3. \A n \in DOMAIN stack' : n \in DOMAIN stack
    BY <1>1, <2>2
  <2>4. Apart(Len(stack) - 1)'
    <3>1. \A j \in 1..(Len(stack') - 1) : j \in 1..(Len(stack) - 1)
      BY <1>1, <2>2
    <3> QED
      BY <1>1, <2>2, <3>1 DEF Apart
  <2> QED
    BY <1>0, <1>1, <2>1, <2>2, <2>3, <2>4 DEF LoopInv
<1> QED
  BY <1>2, <1>3, <1>4, <1>5, Stacks

LEMMA PairSize ==
  ASSUME NEW a, NEW b, NEW S, S \subseteq {a} \cup {b}
  PROVE  Cardinality(S) <= 2
<1>1. IsFiniteSet({a}) /\ Cardinality({a}) = 1
  BY FS_Singleton
<1> DEFINE T == {a} \cup {b}
<1>2. IsFiniteSet(T) /\ Cardinality(T) = IF b \in {a} THEN Cardinality({a}) ELSE Cardinality({a}) + 1
  BY <1>1, FS_AddElement
<1>3. Cardinality(T) \in {1, 2}
  BY <1>1, <1>2
<1>4. IsFiniteSet(S) /\ Cardinality(S) \in Nat /\ Cardinality(S) <= Cardinality(T)
  BY <1>2, FS_Subset, FS_CardinalityType
<1> DEFINE c == Cardinality(S)
           d == Cardinality(T)
<1>5. c \in Nat /\ c <= d /\ d \in {1, 2}
  BY <1>3, <1>4
<1> HIDE DEF c, d
<1>6. c <= 2
  BY <1>5
<1> QED
  BY <1>6 DEF c

THEOREM LoopInvariant == Spec => []LoopInv
<1>1. Init => LoopInv
  BY FileWalkAssumption DEF Init, AnyOptions, LoopInv, TypeOK, Apart
<1>2. LoopInv /\ [Next]_vars => LoopInv'
  <2>1. ASSUME LoopInv, UNCHANGED vars PROVE LoopInv'
    BY <2>1 DEF vars, options, LoopInv, TypeOK, Apart
  <2> QED
    BY <2>1, LoopStep
<1> QED
  BY <1>1, <1>2, PTL DEF Spec

\* No directory is entered a third time on one path, whatever circles the links make:
\* the names through which the directories being read were entered differ, but for the
\* innermost one.
THEOREM NoThirdEntry == Spec => []LoopsCutShort
<1>1. ASSUME LoopInv
      PROVE  LoopsCutShort
  <2>1. stack \in Seq(Frames) /\ Len(stack) \in Nat /\ DOMAIN stack = 1..Len(stack)
    BY <1>1 DEF LoopInv, TypeOK
  <2>2. ASSUME NEW n \in DOMAIN stack, stack[n].entry # Null
        PROVE  Cardinality({m \in DOMAIN stack : stack[m].entry = stack[n].entry}) <= 2
    <3> DEFINE S == {m \in DOMAIN stack : stack[m].entry = stack[n].entry}
               top == Len(stack)
    <3>1. \A j, k \in S : j # top /\ k # top => j = k
      <4>1. Apart(top - 1)
        BY <1>1 DEF LoopInv
      <4>2. \A j \in S : j # top => j \in 1..(top - 1)
        BY <2>1
      <4> QED
        BY <2>2, <4>1, <4>2 DEF Apart
    <3> HIDE DEF S
    <3>2. \E x : S \subseteq {x} \cup {top}
      BY <3>1
    <3>3. PICK x : S \subseteq {x} \cup {top}
      BY <3>2
    <3>4. Cardinality(S) <= 2
      BY <3>3, PairSize
    <3> QED
      BY <3>4 DEF S
  <2> QED
    BY <1>1, <2>2 DEF LoopInv, LoopsCutShort
<1> QED
  BY <1>1, LoopInvariant, PTL

--------------------------------------------------------------------------------
(* Paths *)

\* Every entry has one name, and what the command line names has none: there are no
\* hard links among the files, and no argument is below another one.
OneName ==
  /\ \A d, e \in Dirs : \A m \in DOMAIN Directory[d], n \in DOMAIN Directory[e] :
       Directory[d][m] = Directory[e][n] => d = e /\ m = n
  /\ \A d \in Dirs : \A n \in DOMAIN Directory[d] : \A k \in DOMAIN Args : Directory[d][n] # Args[k]

LEMMA ArgumentPath ==
  ASSUME NEW inode \in Inodes, NEW k \in DOMAIN Args, Args[k] = inode
  PROVE  LeadsTo(<<>>, inode)
<1>1. Trail(<<inode>>, <<>>, inode)
  BY DEF Trail
<1> QED
  BY <1>1 DEF LeadsTo

LEMMA LongerPath ==
  ASSUME NEW path, NEW d \in Dirs, LeadsTo(path, d), NEW name \in DOMAIN Directory[d]
  PROVE  LeadsTo(Append(path, name), Directory[d][name])
<1> DEFINE child == Directory[d][name]
<1>1. PICK q : Trail(q, path, d)
  BY DEF LeadsTo
<1>2. /\ q \in Seq(Inodes) /\ path \in Seq(Names) /\ Len(q) = Len(path) + 1 /\ q[Len(q)] = d
      /\ \E k \in DOMAIN Args : q[1] = Args[k]
      /\ \A k \in 1..Len(path) :
           q[k] \in Dirs /\ path[k] \in DOMAIN Directory[q[k]] /\ q[k + 1] = Directory[q[k]][path[k]]
  BY <1>1 DEF Trail
<1>3. child \in Inodes /\ name \in Names
  BY FileWalkAssumption DEF Names
<1> DEFINE r == Append(q, child)
           more == Append(path, name)
<1> HIDE DEF child
<1>4. /\ r \in Seq(Inodes) /\ Len(r) = Len(q) + 1 /\ r[Len(q) + 1] = child
      /\ \A k \in 1..Len(q) : r[k] = q[k]
  BY <1>2, <1>3
<1>5. /\ more \in Seq(Names) /\ Len(more) = Len(path) + 1 /\ more[Len(path) + 1] = name
      /\ \A k \in 1..Len(path) : more[k] = path[k]
  BY <1>2, <1>3
<1> HIDE DEF r, more
<1>6. Len(path) \in Nat /\ Len(q) \in Nat
  BY <1>2
<1>7. ASSUME NEW k \in 1..Len(more)
      PROVE  r[k] \in Dirs /\ more[k] \in DOMAIN Directory[r[k]] /\ r[k + 1] = Directory[r[k]][more[k]]
  <2>1. CASE k = Len(path) + 1
    <3>1. r[k] = d /\ more[k] = name /\ r[k + 1] = child
      BY <1>2, <1>4, <1>5, <1>6, <2>1
    <3> QED
      BY <3>1 DEF child
  <2>2. CASE k \in 1..Len(path)
    <3>1. k \in 1..Len(q) /\ k + 1 \in 1..Len(q)
      BY <1>2, <1>6, <2>2
    <3>2. r[k] = q[k] /\ more[k] = path[k] /\ r[k + 1] = q[k + 1]
      BY <1>4, <1>5, <2>2, <3>1
    <3> QED
      BY <1>2, <2>2, <3>2
  <2> QED
    BY <1>5, <1>6, <2>1, <2>2
<1>8. r[1] = q[1] /\ Len(r) = Len(more) + 1 /\ r[Len(r)] = child
  BY <1>2, <1>4, <1>5, <1>6
<1>9. Trail(r, more, child)
  BY <1>2, <1>4, <1>5, <1>7, <1>8 DEF Trail
<1> QED
  BY <1>9 DEF LeadsTo, child, more

\* From their end two trails to an inode are the same as long as both last.
LEMMA SameEnds ==
  ASSUME OneName, NEW inode, NEW p, NEW q, NEW s, NEW r, Trail(q, p, inode), Trail(r, s, inode)
  PROVE  \A j \in Nat : j <= Len(p) /\ j <= Len(s) =>
           /\ q[Len(p) + 1 - j] = r[Len(s) + 1 - j]
           /\ j > 0 => p[Len(p) + 1 - j] = s[Len(s) + 1 - j]
<1> DEFINE l == Len(p)
           m == Len(s)
           Same(j) == /\ q[l + 1 - j] = r[m + 1 - j]
                      /\ j > 0 => p[l + 1 - j] = s[m + 1 - j]
           T == {j \in Nat : j <= l /\ j <= m /\ ~Same(j)}
<1>1. /\ l \in Nat /\ m \in Nat /\ q[l + 1] = inode /\ r[m + 1] = inode
      /\ \A k \in 1..l : q[k] \in Dirs /\ p[k] \in DOMAIN Directory[q[k]] /\ q[k + 1] = Directory[q[k]][p[k]]
      /\ \A k \in 1..m : r[k] \in Dirs /\ s[k] \in DOMAIN Directory[r[k]] /\ r[k + 1] = Directory[r[k]][s[k]]
  BY DEF Trail
<1> HIDE DEF l, m
<1>2. T = {}
  <2> SUFFICES ASSUME T # {} PROVE FALSE
    OBVIOUS
  <2>1. T \subseteq Nat
    OBVIOUS
  <2>2. PICK j \in T : \A i \in T : j <= i
    BY <2>1, LeastElement
  <2>3. j \in Nat /\ j <= l /\ j <= m /\ ~Same(j)
    BY <2>2
  <2>4. j # 0
    BY <1>1, <2>3
  <2> DEFINE a == l + 1 - j
             b == m + 1 - j
  <2>5. a \in 1..l /\ b \in 1..m /\ a + 1 = l + 1 - (j - 1) /\ b + 1 = m + 1 - (j - 1)
    BY <1>1, <2>3, <2>4, SMTT(30)
  <2>6. j - 1 \in Nat /\ j - 1 <= l /\ j - 1 <= m /\ j - 1 \notin T
    BY <1>1, <2>2, <2>3, <2>4, SMTT(30)
  <2>7. q[l + 1 - (j - 1)] = r[m + 1 - (j - 1)]
    BY <2>6
  <2>8. q[a + 1] = r[b + 1]
    BY <2>5, <2>7
  <2> HIDE DEF a, b
  <2>9. Directory[q[a]][p[a]] = Directory[r[b]][s[b]]
    BY <1>1, <2>5, <2>8
  <2>10. q[a] = r[b] /\ p[a] = s[b]
    BY <1>1, <2>5, <2>9 DEF OneName
  <2> QED
    BY <2>3, <2>10 DEF a, b
<1>3. \A j \in Nat : j <= l /\ j <= m => Same(j)
  BY <1>2
<1> QED
  BY <1>3 DEF l, m

LEMMA NoLonger ==
  ASSUME OneName, NEW inode, NEW p, NEW q, NEW s, NEW r, Trail(q, p, inode), Trail(r, s, inode)
  PROVE  Len(s) <= Len(p)
<1> DEFINE l == Len(p)
           m == Len(s)
<1>1. /\ l \in Nat /\ m \in Nat
      /\ \E k \in DOMAIN Args : q[1] = Args[k]
      /\ \A k \in 1..m : r[k] \in Dirs /\ s[k] \in DOMAIN Directory[r[k]] /\ r[k + 1] = Directory[r[k]][s[k]]
  BY DEF Trail
<1>2. l <= m => q[l + 1 - l] = r[m + 1 - l]
  BY <1>1, SameEnds
<1> HIDE DEF l, m
<1> SUFFICES ASSUME l < m PROVE FALSE
  BY <1>1 DEF l, m
<1> DEFINE k == m - l
<1>3. k \in 1..m /\ l + 1 - l = 1 /\ m + 1 - l = k + 1
  BY <1>1
<1> HIDE DEF k
<1>4. q[1] = r[k + 1]
  BY <1>1, <1>2, <1>3
<1>5. q[1] = Directory[r[k]][s[k]] /\ r[k] \in Dirs /\ s[k] \in DOMAIN Directory[r[k]]
  BY <1>1, <1>3, <1>4
<1>6. PICK i \in DOMAIN Args : q[1] = Args[i]
  BY <1>1
<1>7. Directory[r[k]][s[k]] # Args[i]
  <2>1. \A d \in Dirs : \A n \in DOMAIN Directory[d] : Directory[d][n] # Args[i]
    BY DEF OneName
  <2> QED
    BY <1>5, <2>1, Zenon
<1> QED
  BY <1>5, <1>6, <1>7

\* One path leads to an inode.
LEMMA OnePath ==
  ASSUME OneName, NEW inode, NEW p, NEW s, LeadsTo(p, inode), LeadsTo(s, inode)
  PROVE  p = s
<1>1. PICK q : Trail(q, p, inode)
  BY DEF LeadsTo
<1>2. PICK r : Trail(r, s, inode)
  BY DEF LeadsTo
<1>3. p \in Seq(Names) /\ s \in Seq(Names)
  BY <1>1, <1>2 DEF Trail
<1>4. Len(p) = Len(s) /\ Len(p) \in Nat
  <2>1. Len(s) <= Len(p) /\ Len(p) <= Len(s)
    BY <1>1, <1>2, NoLonger
  <2> QED
    BY <1>3, <2>1
<1>5. ASSUME NEW k \in 1..Len(p)
      PROVE  p[k] = s[k]
  <2> DEFINE j == Len(p) + 1 - k
  <2>1. j \in Nat /\ j <= Len(p) /\ j <= Len(s) /\ j > 0 /\ Len(p) + 1 - j = k /\ Len(s) + 1 - j = k
    BY <1>4
  <2> HIDE DEF j
  <2>2. p[Len(p) + 1 - j] = s[Len(s) + 1 - j]
    BY <1>1, <1>2, <2>1, SameEnds
  <2> QED
    BY <2>1, <2>2
<1> QED
  BY <1>3, <1>4, <1>5

\* A directory or a file that is opened is what the call names.
LEMMA OpenedIsNamed ==
  ASSUME LoopInv, ~follow, Open
  PROVE  Stat(call.inode) = call.inode /\ call # Null
BY DEF Open, Called, Stat

LEMMA ArgsStep ==
  ASSUME LoopInv, ArgsInv, Next
  PROVE  ArgsInv'
<1>1. CASE args' = args
  BY <1>1 DEF ArgsInv
<1>2. CASE args # <<>> /\ args' = Tail(args)
  <2>1. args \in Seq(Inodes) /\ Len(args) \in Nat
    BY DEF LoopInv, TypeOK
  <2>2. \A k \in DOMAIN args' : k + 1 \in DOMAIN args /\ args'[k] = args[k + 1]
    BY <1>2, <2>1
  <2> QED
    BY <2>2 DEF ArgsInv
<1> QED
  BY <1>1, <1>2 DEF Next, Walk, NextArg, Finish, StatFails, SkipBrokenLink, SkipShut, SkipLink, OpenDirectory, AddFile,
     OpenArchive, AddMember, EndArchive, ArchiveFails, SkipName, VisitName, LeaveLoop, CloseDirectory,
     OpenDirectoryFails, OpenArchiveFails, ReadDirectoryFails,
         Vanish, Ended,
     Return, vars

LEMMA PathStep ==
  ASSUME LoopInv, ArgsInv, PathInv, Next
  PROVE  PathInv'
<1>0. /\ follow' = follow
      /\ call \in Calls \cup {Null} /\ archive \in Readings \cup {Null} /\ stack \in Seq(Frames)
      /\ args \in Seq(Inodes)
  BY DEF LoopInv, TypeOK, Next, Walk, NextArg, Finish, StatFails, SkipBrokenLink, SkipShut, SkipLink, OpenDirectory,
         AddFile, OpenArchive, AddMember, EndArchive, ArchiveFails, SkipName, VisitName, LeaveLoop, CloseDirectory,
         OpenDirectoryFails, OpenArchiveFails, ReadDirectoryFails,
         Vanish, Ended, Return, vars, options
<1> SUFFICES ASSUME ~follow
             PROVE  PathInv'
  BY <1>0 DEF PathInv
<1>1. /\ call # Null => LeadsTo(call.path, call.inode)
      /\ \A n \in DOMAIN stack : LeadsTo(stack[n].path, stack[n].dir)
      /\ archive # Null => LeadsTo(archive.path, archive.inode)
      /\ \A f \in added : LeadsTo(f.path, f.inode)
  BY DEF PathInv
<1>2. ASSUME call' = call \/ call' = Null, stack' = stack, archive' = archive \/ archive' = Null, added' = added
      PROVE  PathInv'
  BY <1>0, <1>1, <1>2 DEF PathInv
<1>3. CASE NextArg
  <2>1. /\ call' = [inode |-> Head(args), entry |-> Null, path |-> <<>>]
        /\ stack' = stack /\ archive' = archive /\ added' = added
    BY <1>3 DEF NextArg
  <2>2. LeadsTo(<<>>, Head(args))
    <3>1. 1 \in DOMAIN args /\ Head(args) = args[1] /\ Head(args) \in Inodes
      BY <1>0, <1>3 DEF NextArg
    <3>2. PICK m \in DOMAIN Args : args[1] = Args[m]
      BY <3>1 DEF ArgsInv
    <3> QED
      BY <3>1, <3>2, ArgumentPath
  <2> QED
    BY <1>0, <1>1, <2>1, <2>2 DEF PathInv
<1>4. CASE OpenDirectory
  <2>1. PICK opened \in Frames :
           /\ stack' = Append(stack, opened)
           /\ opened.dir = Stat(call.inode) /\ opened.path = call.path
    BY <1>4, OpenedShape
  <2>2. call # Null /\ Stat(call.inode) = call.inode /\ call' = Null /\ archive' = archive /\ added' = added
    BY <1>4, OpenedIsNamed DEF OpenDirectory
  <2>3. LeadsTo(opened.path, opened.dir)
    BY <1>1, <2>1, <2>2
  <2>4. \A n \in DOMAIN stack' : stack'[n] = opened \/ (n \in DOMAIN stack /\ stack'[n] = stack[n])
    BY <1>0, <2>1
  <2> QED
    BY <1>0, <1>1, <2>2, <2>3, <2>4 DEF PathInv
<1>5. CASE AddFile
  <2>1. /\ call # Null /\ Stat(call.inode) = call.inode
        /\ call' = Null /\ archive' = archive /\ stack' = stack
        /\ added' \subseteq added \cup {[inode |-> call.inode, path |-> call.path, member |-> 0]}
    BY <1>5, OpenedIsNamed DEF AddFile
  <2> QED
    BY <1>0, <1>1, <2>1 DEF PathInv
<1>6. CASE OpenArchive
  <2>1. /\ call # Null /\ Stat(call.inode) = call.inode
        /\ call' = Null /\ stack' = stack /\ added' = added
        /\ archive' = [inode |-> call.inode, path |-> call.path, n |-> 1]
    BY <1>6, OpenedIsNamed DEF OpenArchive
  <2> QED
    BY <1>0, <1>1, <2>1 DEF PathInv
<1>7. CASE AddMember
  <2>1. archive \in Readings
    BY <1>0, <1>7 DEF AddMember, HasHeader
  <2>2. /\ archive # Null /\ archive'.path = archive.path /\ archive'.inode = archive.inode
        /\ added' \subseteq added \cup {[inode |-> archive.inode, path |-> archive.path, member |-> archive.n]}
        /\ call' = call /\ stack' = stack
    BY <1>7, <2>1 DEF AddMember, HasHeader, Readings
  <2> QED
    BY <1>0, <1>1, <2>2 DEF PathInv
<1>8. ASSUME NEW name \in Names, SkipName(name) \/ VisitName(name)
      PROVE  PathInv'
  <2>1. Reading /\ stack' = Remaining(name) /\ archive' = archive /\ added' = added
    BY <1>8 DEF SkipName, VisitName
  <2>2. /\ DOMAIN stack' = DOMAIN stack
        /\ \A n \in DOMAIN stack : stack'[n].dir = stack[n].dir /\ stack'[n].path = stack[n].path
    BY <2>1, RemainingShape
  <2>3. \A n \in DOMAIN stack' : LeadsTo(stack'[n].path, stack'[n].dir)
    BY <1>1, <2>2
  <2>4. call' # Null => LeadsTo(call'.path, call'.inode)
    <3>1. CASE SkipName(name)
      BY <2>1, <3>1 DEF SkipName, Reading
    <3>2. CASE VisitName(name)
      <4>1. /\ name \in DOMAIN Directory[frame.dir] /\ frame.dir \in Dirs
            /\ call'.inode = Directory[frame.dir][name]
            /\ call'.path = Append(frame.path, name)
        BY <3>2, VisitShape
      <4>2. LeadsTo(frame.path, frame.dir)
        BY <1>1, <2>1, FrameShape
      <4> QED
        BY <4>1, <4>2, LongerPath
    <3> QED
      BY <1>8, <3>1, <3>2
  <2> QED
    BY <1>0, <1>1, <2>1, <2>3, <2>4 DEF PathInv
<1>9. CASE LeaveLoop \/ CloseDirectory
  <2>1. stack' = Front(stack) /\ stack # <<>> /\ call' = call /\ archive' = archive /\ added' = added
    BY <1>9 DEF LeaveLoop, CloseDirectory, Reading
  <2>2. \A n \in DOMAIN stack' : n \in DOMAIN stack /\ stack'[n] = stack[n]
    <3>1. DOMAIN stack' = 1..(Len(stack) - 1) /\ \A n \in 1..(Len(stack) - 1) : stack'[n] = stack[n]
      BY <1>0, <2>1, FrontShape
    <3> QED
      BY <1>0, <3>1
  <2> QED
    BY <1>0, <1>1, <2>1, <2>2 DEF PathInv
<1>10. CASE \/ Finish \/ StatFails \/ SkipBrokenLink \/ SkipShut \/ SkipLink \/ EndArchive \/ ArchiveFails
            \/ OpenDirectoryFails \/ OpenArchiveFails \/ ReadDirectoryFails \/ Ended
  BY <1>2, <1>10 DEF Finish, StatFails, SkipBrokenLink, SkipShut, SkipLink, EndArchive, ArchiveFails,
                     OpenDirectoryFails, OpenArchiveFails, ReadDirectoryFails, Ended, Return, vars
<1>11. ASSUME NEW inode \in MayVanish, Vanish(inode)
       PROVE  PathInv'
  BY <1>2, <1>11 DEF Vanish
<1> QED
  BY <1>3, <1>4, <1>5, <1>6, <1>7, <1>8, <1>9, <1>10, <1>11 DEF Next, Walk

THEOREM PathInvariant == Spec => [](ArgsInv /\ PathInv)
<1>1. Init => ArgsInv /\ PathInv
  BY DEF Init, ArgsInv, PathInv
<1>2. LoopInv /\ ArgsInv /\ PathInv /\ [Next]_vars => ArgsInv' /\ PathInv'
  <2>1. ASSUME ArgsInv, PathInv, UNCHANGED vars PROVE ArgsInv' /\ PathInv'
    BY <2>1 DEF vars, options, ArgsInv, PathInv
  <2> QED
    BY <2>1, ArgsStep, PathStep
<1> QED
  BY <1>1, <1>2, LoopInvariant, PTL DEF Spec

\* Without -f the walk comes to a file on one path only, so that it is not reported as a
\* twin of itself: as long as every file has one name, and no argument is below another.
THEOREM EachFileOnOnePath ==
  ASSUME OneName
  PROVE  Spec => []OnePathPerFile
<1>1. ASSUME LoopInv, PathInv
      PROVE  OnePathPerFile
  <2> SUFFICES ASSUME ~follow, NEW f \in added, NEW g \in added, FileOf(f) = FileOf(g)
               PROVE  f = g
    BY DEF OnePathPerFile
  <2>1. f.inode = g.inode /\ f.member = g.member
    BY DEF FileOf
  <2>2. f.path = g.path
    BY <1>1, <2>1, OnePath DEF PathInv
  <2>3. f \in Files /\ g \in Files
    BY <1>1 DEF LoopInv, TypeOK
  <2> QED
    BY <2>1, <2>2, <2>3 DEF Files
<1> QED
  BY <1>1, LoopInvariant, PathInvariant, PTL

--------------------------------------------------------------------------------
(* What should be collected *)

LEMMA EndsExist ==
  \A x : \E g : /\ Hops(g, x, Far)
                /\ End(x) = IF g[Far] \in Links \cup gone \cup {Null} THEN Null ELSE g[Far]
BY EndIs

LEMMA EndsExistNext ==
  (\A x : \E g : /\ Hops(g, x, Far)
                 /\ End(x) = IF g[Far] \in Links \cup gone \cup {Null} THEN Null ELSE g[Far])'
BY EndsExist, PTL

\* What vanishes breaks chains of links, and leads none elsewhere.
LEMMA EndKept ==
  ASSUME gone \subseteq gone', NEW x, End(x)' # Null
  PROVE  End(x) = End(x)'
<1>1. PICK g : /\ Hops(g, x, Far)
               /\ End(x) = IF g[Far] \in Links \cup gone \cup {Null} THEN Null ELSE g[Far]
  BY EndsExist
<1>2. PICK h : /\ h = [k \in 0..Far |-> IF k = 0 THEN x
                                        ELSE IF h[k - 1] \in Links \ gone' THEN Target[h[k - 1]] ELSE h[k - 1]]
               /\ End(x)' = IF h[Far] \in Links \cup gone' \cup {Null} THEN Null ELSE h[Far]
  <2>1. \E h : /\ h = [k \in 0..Far |-> IF k = 0 THEN x
                                        ELSE IF h[k - 1] \in Links \ gone' THEN Target[h[k - 1]] ELSE h[k - 1]]
               /\ End(x)' = IF h[Far] \in Links \cup gone' \cup {Null} THEN Null ELSE h[Far]
    BY EndsExistNext DEF Hops, Hop, Far, Links
  <2> QED
    BY <2>1
<1>3. \A k \in 0..Far : g[k] = IF k = 0 THEN x
                               ELSE IF g[k - 1] \in Links \ gone THEN Target[g[k - 1]] ELSE g[k - 1]
  BY <1>1 DEF Hops, Hop
<1>4. \A k \in 0..Far : h[k] = IF k = 0 THEN x
                               ELSE IF h[k - 1] \in Links \ gone' THEN Target[h[k - 1]] ELSE h[k - 1]
  BY <1>2
<1>5. h[Far] \notin Links \cup gone' \cup {Null} /\ End(x)' = h[Far]
  BY <1>2
<1>6. Far \in Nat
  BY FarIs
<1> HIDE DEF Far
\* A chain that comes to a link that has vanished ends there.
<1>7. ASSUME NEW k \in 0..Far, h[k] \in Links \cap gone'
      PROVE  FALSE
  <2> DEFINE T == {m \in k..Far : h[m] \notin Links \cap gone'}
  <2>1. T \subseteq Nat /\ Far \in T
    BY <1>5, <1>6
  <2>2. PICK m \in T : \A y \in T : m <= y
    <3> HIDE DEF T
    <3> QED
      BY <2>1, LeastElement
  <2>3. m \in k..Far /\ m # k /\ h[m] \notin Links \cap gone'
    BY <1>7
  <2>4. m - 1 \in k..Far /\ m \in 0..Far /\ m # 0 /\ ~(m <= m - 1)
    BY <1>6, <2>3
  <2>5. h[m - 1] \in Links \cap gone'
    BY <2>2, <2>4
  <2>6. h[m] = h[m - 1]
    BY <1>4, <2>4, <2>5
  <2> QED
    BY <2>3, <2>5, <2>6
<1>8. ASSUME NEW k \in 0..Far
      PROVE  g[k] = h[k]
  <2> DEFINE T == {m \in 0..Far : g[m] # h[m]}
  <2> SUFFICES ASSUME T # {} PROVE FALSE
    OBVIOUS
  <2>1. T \subseteq Nat
    BY <1>6
  <2>2. PICK m \in T : \A y \in T : m <= y
    <3> HIDE DEF T
    <3> QED
      BY <2>1, LeastElement
  <2>3. m \in 0..Far /\ g[m] # h[m] /\ m # 0
    BY <1>3, <1>4
  <2>4. m - 1 \in 0..Far /\ ~(m <= m - 1)
    BY <1>6, <2>3
  <2>5. g[m - 1] = h[m - 1]
    BY <2>2, <2>4
  <2>6. h[m - 1] \notin Links \cap gone'
    BY <1>7, <2>4
  <2>7. h[m - 1] \in Links \ gone' <=> h[m - 1] \in Links \ gone
    BY <2>6
  <2> QED
    BY <1>3, <1>4, <2>3, <2>5, <2>7
<1> QED
  BY <1>1, <1>5, <1>6, <1>8

\* What apr_stat describes after something has vanished it has described before.
LEMMA StatKept ==
  ASSUME gone \subseteq gone', follow' = follow, NEW x, Stat(x)' # Null
  PROVE  Stat(x) = Stat(x)'
<1>1. CASE follow
  BY <1>1, EndKept DEF Stat
<1>2. CASE ~follow
  BY <1>2 DEF Stat
<1> QED
  BY <1>1, <1>2

\* The steps of Reachable: g is what its recursive function comes to.
FromArgs(left) == Permitted({Stat(Args[k]) : k \in {m \in DOMAIN Args : Args[m] \notin left}})
Onward(S, left) == S \cup Permitted(UNION {Leads(d, left) : d \in S \cap Dirs})
Reaches(g, n, left) == g = [k \in 0..n |-> IF k = 0 THEN FromArgs(left) ELSE Onward(g[k - 1], left)]

LEMMA ReachesExist ==
  ASSUME NEW n \in Nat, NEW left
  PROVE  \E g : Reaches(g, n, left)
<1> DEFINE T == {m \in Nat : ~ \E g : Reaches(g, m, left)}
<1> SUFFICES ASSUME T # {} PROVE FALSE
  OBVIOUS
<1>1. PICK m \in T : \A y \in T : m <= y
  BY LeastElement
<1>2. CASE m = 0
  <2>1. Reaches([k \in 0..0 |-> FromArgs(left)], 0, left)
    BY DEF Reaches
  <2> QED
    BY <1>2, <2>1
<1>3. CASE m # 0
  <2>1. m - 1 \in Nat /\ m - 1 \notin T
    BY <1>1, <1>3
  <2>2. PICK g : Reaches(g, m - 1, left)
    BY <2>1
  <2> DEFINE f == [k \in 0..m |-> IF k = m THEN Onward(g[m - 1], left) ELSE g[k]]
  <2>3. \A k \in 0..(m - 1) : g[k] = IF k = 0 THEN FromArgs(left) ELSE Onward(g[k - 1], left)
    BY <2>1, <2>2 DEF Reaches
  <2>4. ASSUME NEW k \in 0..m
        PROVE  f[k] = IF k = 0 THEN FromArgs(left) ELSE Onward(f[k - 1], left)
    <3>1. CASE k = m
      BY <1>3, <3>1, <2>1
    <3>2. CASE k # m
      BY <2>3, <3>2
    <3> QED
      BY <3>1, <3>2
  <2>5. f = [k \in 0..m |-> f[k]]
    OBVIOUS
  <2> HIDE DEF f
  <2>6. Reaches(f, m, left)
    BY <2>4, <2>5 DEF Reaches
  <2> QED
    BY <2>6
<1> QED
  BY <1>2, <1>3

\* How far Reachable goes.
Deep == Cardinality(Dirs)

LEMMA DeepIs == Deep \in Nat /\ IsFiniteSet(Dirs)
<1>1. IsFiniteSet(Dirs)
  BY FileWalkAssumption, FS_Subset DEF Inodes
<1> QED
  BY <1>1, FS_CardinalityType DEF Deep

LEMMA ReachableIs ==
  ASSUME NEW left
  PROVE  \E g : /\ \A k \in 0..Deep : g[k] = IF k = 0 THEN FromArgs(left) ELSE Onward(g[k - 1], left)
                /\ Reachable(left) = g[Deep]
<1> DEFINE h == CHOOSE g : Reaches(g, Deep, left)
<1>1. Reaches(h, Deep, left)
  BY DeepIs, ReachesExist
<1>2. Reachable(left) = h[Deep]
  BY DEF Reachable, Reaches, Deep, FromArgs, Onward
<1>3. \A k \in 0..Deep : h[k] = IF k = 0 THEN FromArgs(left) ELSE Onward(h[k - 1], left)
  <2> HIDE DEF h
  <2> QED
    BY <1>1 DEF Reaches
<1> QED
  BY <1>2, <1>3

LEMMA OnwardGrows ==
  ASSUME NEW S, NEW left
  PROVE  /\ S \subseteq Onward(S, left)
         /\ \A d \in S \cap Dirs : Permitted(Leads(d, left)) \subseteq Onward(S, left)
         /\ S \cap Dirs = {} => Onward(S, left) = S
         /\ \A T : S \cap Dirs = T \cap Dirs /\ Onward(S, left) \subseteq T => Onward(T, left) = T
<1>1. \A d \in S \cap Dirs : Permitted(Leads(d, left)) \subseteq Onward(S, left)
  BY DEF Onward, Permitted
<1>2. S \cap Dirs = {} => Onward(S, left) = S
  BY DEF Onward, Permitted
<1>3. ASSUME NEW T, S \cap Dirs = T \cap Dirs, Onward(S, left) \subseteq T
      PROVE  Onward(T, left) = T
  BY <1>3 DEF Onward
<1> QED
  BY <1>1, <1>2, <1>3 DEF Onward

\* There are as many steps as directories, so that the last one comes to nothing new.
LEMMA ReachableClosed ==
  ASSUME NEW left
  PROVE  FromArgs(left) \subseteq Reachable(left) /\ Onward(Reachable(left), left) = Reachable(left)
<1>1. PICK g : /\ \A k \in 0..Deep : g[k] = IF k = 0 THEN FromArgs(left) ELSE Onward(g[k - 1], left)
               /\ Reachable(left) = g[Deep]
  BY ReachableIs
<1>2. Deep \in Nat /\ IsFiniteSet(Dirs) /\ Deep = Cardinality(Dirs)
  BY DeepIs DEF Deep
<1>3. \A S : IsFiniteSet(S \cap Dirs) /\ Cardinality(S \cap Dirs) \in Nat /\ Cardinality(S \cap Dirs) <= Deep
  BY <1>2, FS_Subset, FS_CardinalityType
<1> HIDE DEF Deep
<1> DEFINE Full(k) == Onward(g[k], left) = g[k] \/ Cardinality(g[k] \cap Dirs) >= k + 1
<1>4. ASSUME NEW m \in 0..Deep, m # 0, Full(m - 1)
      PROVE  Full(m)
  <2>1. g[m] = Onward(g[m - 1], left)
    BY <1>1, <1>4
  <2>2. CASE Onward(g[m - 1], left) = g[m - 1]
    BY <2>1, <2>2
  <2>3. CASE Cardinality(g[m - 1] \cap Dirs) >= m
    <3> DEFINE C == g[m - 1] \cap Dirs
               D == g[m] \cap Dirs
    <3>1. C \subseteq D /\ IsFiniteSet(C) /\ IsFiniteSet(D) /\ Cardinality(C) \in Nat /\ Cardinality(D) \in Nat
      BY <1>3, <2>1, OnwardGrows
    <3>2. CASE C = D
      BY <2>1, <3>2, OnwardGrows
    <3>3. CASE C # D
      <4>1. Cardinality(C) <= Cardinality(D) /\ Cardinality(C) # Cardinality(D)
        <5> HIDE DEF C, D
        <5> QED
          BY <3>1, <3>3, FS_Subset
      <4>2. Cardinality(D) >= m + 1
        BY <1>2, <2>3, <3>1, <4>1
      <4> QED
        BY <4>2
    <3> QED
      BY <3>2, <3>3
  <2>4. m - 1 + 1 = m
    BY <1>2
  <2> QED
    BY <1>4, <2>2, <2>3, <2>4
<1>5. Full(0)
  <2>1. CASE g[0] \cap Dirs = {}
    BY <2>1, OnwardGrows
  <2>2. CASE g[0] \cap Dirs # {}
    <3>1. Cardinality(g[0] \cap Dirs) # 0
      BY <1>3, <2>2, FS_EmptySet
    <3> QED
      BY <1>3, <3>1
  <2> QED
    BY <2>1, <2>2
<1>6. \A k \in 0..Deep : Full(k) /\ FromArgs(left) \subseteq g[k]
  <2> DEFINE T == {k \in 0..Deep : ~(Full(k) /\ FromArgs(left) \subseteq g[k])}
  <2> SUFFICES ASSUME T # {} PROVE FALSE
    OBVIOUS
  <2>1. T \subseteq Nat
    BY <1>2
  <2>2. PICK m \in T : \A y \in T : m <= y
    <3> HIDE DEF T
    <3> QED
      BY <2>1, LeastElement
  <2> HIDE DEF Full
  <2>3. m \in 0..Deep /\ ~(Full(m) /\ FromArgs(left) \subseteq g[m])
    OBVIOUS
  <2>4. m # 0
    BY <1>1, <1>5, <2>3
  <2>5. m - 1 \in 0..Deep /\ ~(m <= m - 1)
    BY <1>2, <2>3, <2>4
  <2>6. Full(m - 1) /\ FromArgs(left) \subseteq g[m - 1]
    BY <2>2, <2>5
  <2>7. g[m] = Onward(g[m - 1], left)
    BY <1>1, <2>3, <2>4
  <2> QED
    BY <1>4, <2>3, <2>4, <2>6, <2>7, OnwardGrows
<1>7. Deep \in 0..Deep
  BY <1>2
<1>8. Full(Deep) /\ FromArgs(left) \subseteq g[Deep]
  BY <1>6, <1>7
<1>9. ~(Cardinality(g[Deep] \cap Dirs) >= Deep + 1)
  <2> PICK c : c = Cardinality(g[Deep] \cap Dirs)
    OBVIOUS
  <2>1. c \in Nat /\ c <= Deep
    BY <1>3
  <2> QED
    BY <1>2, <2>1
<1> QED
  BY <1>1, <1>8, <1>9

\* The least step of Reachable that comes to x is the k-th.
Level(g, k, x) == x \in g[k] /\ \A m \in 0..(k - 1) : x \notin g[m]

\* A way that comes to a new level with every entry.
Leveled(g, w, k, r, left) ==
  /\ w \in [1..(k + 1) -> Inodes]
  /\ \E m \in DOMAIN Args : w[1] = Args[m]
  /\ \A m \in 1..(k + 1) :
       Stat(w[m]) \notin shut \cup {Null} /\ w[m] \notin left /\ Level(g, m - 1, Stat(w[m]))
  /\ \A m \in 1..k :
       /\ Stat(w[m]) \in Dirs
       /\ \E name : Kept(Stat(w[m]), name) /\ Directory[Stat(w[m])][name] = w[m + 1]
  /\ Stat(w[k + 1]) = r

LEMMA LongerWay ==
  ASSUME NEW left, NEW g, NEW k \in Nat, NEW w, NEW d \in Dirs, Leveled(g, w, k, d, left), NEW name, Kept(d, name),
         Directory[d][name] \notin left,
         NEW r, Stat(Directory[d][name]) = r, r \notin shut \cup {Null}, Level(g, k + 1, r)
  PROVE  \E v : Leveled(g, v, k + 1, r, left)
<1> DEFINE x == Directory[d][name]
           v == [m \in 1..(k + 2) |-> IF m = k + 2 THEN x ELSE w[m]]
<1>1. x \in Inodes
  BY FileWalkAssumption DEF Kept
<1>2. /\ w \in [1..(k + 1) -> Inodes]
      /\ \E m \in DOMAIN Args : w[1] = Args[m]
      /\ \A m \in 1..(k + 1) :
           Stat(w[m]) \notin shut \cup {Null} /\ w[m] \notin left /\ Level(g, m - 1, Stat(w[m]))
      /\ \A m \in 1..k :
           /\ Stat(w[m]) \in Dirs
           /\ \E n : Kept(Stat(w[m]), n) /\ Directory[Stat(w[m])][n] = w[m + 1]
      /\ Stat(w[k + 1]) = d
  BY DEF Leveled
<1>3. \A m \in 1..(k + 1) : m \in 1..(k + 2) /\ v[m] = w[m]
  OBVIOUS
<1>4. v[k + 2] = x
  OBVIOUS
<1>5. v \in [1..(k + 2) -> Inodes]
  BY <1>1, <1>2
<1> HIDE DEF v, x
<1>6. \E m \in DOMAIN Args : v[1] = Args[m]
  BY <1>2, <1>3
<1>7. ASSUME NEW m \in 1..(k + 2)
      PROVE  Stat(v[m]) \notin shut \cup {Null} /\ v[m] \notin left /\ Level(g, m - 1, Stat(v[m]))
  <2>1. CASE m = k + 2
    <3>1. m - 1 = k + 1 /\ v[m] = x
      BY <1>4, <2>1
    <3> QED
      BY <3>1 DEF x
  <2>2. CASE m # k + 2
    <3>1. m \in 1..(k + 1)
      BY <2>2
    <3> QED
      BY <1>2, <1>3, <3>1
  <2> QED
    BY <2>1, <2>2
<1>8. ASSUME NEW m \in 1..(k + 1)
      PROVE  /\ Stat(v[m]) \in Dirs
             /\ \E n : Kept(Stat(v[m]), n) /\ Directory[Stat(v[m])][n] = v[m + 1]
  <2>1. CASE m = k + 1
    <3>1. v[m] = w[k + 1] /\ v[m + 1] = x
      BY <1>3, <1>4, <2>1
    <3> QED
      BY <1>2, <3>1 DEF x
  <2>2. CASE m # k + 1
    <3>1. m \in 1..k /\ m + 1 \in 1..(k + 1)
      BY <2>2
    <3>2. v[m] = w[m] /\ v[m + 1] = w[m + 1]
      BY <1>3, <3>1
    <3> QED
      BY <1>2, <3>1, <3>2
  <2> QED
    BY <2>1, <2>2
<1>9. Stat(v[k + 2]) = r
  BY <1>4 DEF x
<1>10. k + 1 + 1 = k + 2
  OBVIOUS
<1>11. Leveled(g, v, k + 1, r, left)
  BY <1>5, <1>6, <1>7, <1>8, <1>9, <1>10 DEF Leveled
<1> QED
  BY <1>11

\* A way leads to everything that is reachable but for what a refusal hides.
LEMMA WaysExist ==
  ASSUME NEW r \in Reachable(Unsure)
  PROVE  \E n \in Nat \ {0} : \E w : Way(w, n, r)
<1> DEFINE left == Unsure
<1> HIDE DEF left
<1>1. PICK g : /\ \A k \in 0..Deep : g[k] = IF k = 0 THEN FromArgs(left) ELSE Onward(g[k - 1], left)
               /\ Reachable(left) = g[Deep]
  BY ReachableIs
<1>2. Deep \in Nat
  BY DeepIs
<1> HIDE DEF Deep
<1>3. \A k \in 0..Deep : \A x : Level(g, k, x) => \E w : Leveled(g, w, k, x, left)
  <2> DEFINE P(k) == \A x : Level(g, k, x) => \E w : Leveled(g, w, k, x, left)
             T == {k \in 0..Deep : ~P(k)}
  <2> SUFFICES ASSUME T # {} PROVE FALSE
    OBVIOUS
  <2>1. T \subseteq Nat
    BY <1>2
  <2>2. PICK m \in T : \A y \in T : m <= y
    <3> HIDE DEF T
    <3> QED
      BY <2>1, LeastElement
  <2>3. m \in 0..Deep /\ ~P(m)
    OBVIOUS
  <2>4. PICK x : Level(g, m, x) /\ ~ \E w : Leveled(g, w, m, x, left)
    BY <2>3
  <2>5. CASE m = 0
    <3>1. x \in FromArgs(left)
      BY <1>1, <2>3, <2>4, <2>5 DEF Level
    <3>2. PICK k \in DOMAIN Args : x = Stat(Args[k]) /\ Args[k] \notin left /\ x \notin shut \cup {Null}
      BY <3>1 DEF FromArgs, Permitted
    <3>3. Args[k] \in Inodes
      BY FileWalkAssumption
    <3> DEFINE w == [n \in 1..1 |-> Args[k]]
    <3>4. w \in [1..(0 + 1) -> Inodes] /\ w[1] = Args[k]
      BY <3>3
    <3> HIDE DEF w
    <3>5. \A n \in 1..(0 + 1) : n = 1 /\ n - 1 = 0
      OBVIOUS
    <3>6. Leveled(g, w, 0, x, left)
      BY <2>4, <2>5, <3>2, <3>4, <3>5 DEF Leveled
    <3> QED
      BY <2>4, <2>5, <3>6
  <2>6. CASE m # 0
    <3>1. m - 1 \in 0..Deep /\ m - 1 \in Nat /\ m - 1 + 1 = m /\ ~(m <= m - 1)
      BY <1>2, <2>3, <2>6
    <3>2. P(m - 1)
      BY <2>2, <3>1
    <3>3. x \in Onward(g[m - 1], left) /\ x \notin g[m - 1]
      <4>1. m - 1 \in 0..(m - 1)
        BY <3>1
      <4> QED
        BY <1>1, <2>3, <2>4, <2>6, <4>1 DEF Level
    <3>4. PICK d \in g[m - 1] \cap Dirs : x \in Leads(d, left) /\ x \notin shut \cup {Null}
      BY <3>3 DEF Onward, Permitted
    <3>5. Level(g, m - 1, d)
      <4> SUFFICES ASSUME NEW j \in 0..(m - 1 - 1), d \in g[j]
                   PROVE  FALSE
        BY <3>4 DEF Level
      <4>1. j + 1 \in 0..Deep /\ j + 1 \in 0..(m - 1) /\ j + 1 # 0 /\ j + 1 - 1 = j
        BY <1>2, <2>3
      <4>2. x \in Onward(g[j], left)
        BY <3>4, OnwardGrows DEF Permitted
      <4>3. g[j + 1] = Onward(g[j], left)
        BY <1>1, <4>1
      <4> QED
        BY <2>4, <4>1, <4>2, <4>3 DEF Level
    <3>6. PICK w : Leveled(g, w, m - 1, d, left)
      BY <3>2, <3>5
    <3>7. PICK name : Kept(d, name) /\ Directory[d][name] \notin left /\ x = Stat(Directory[d][name])
      BY <3>4 DEF Leads, Kept
    <3>8. \E v : Leveled(g, v, m - 1 + 1, x, left)
      BY <2>4, <3>1, <3>4, <3>6, <3>7, LongerWay
    <3> QED
      BY <2>4, <3>1, <3>8
  <2> QED
    BY <2>5, <2>6
<1>4. PICK k \in 0..Deep : Level(g, k, r)
  <2> DEFINE T == {k \in 0..Deep : r \in g[k]}
  <2>1. T \subseteq Nat /\ Deep \in T
    BY <1>1, <1>2 DEF left
  <2>2. PICK m \in T : \A y \in T : m <= y
    <3> HIDE DEF T
    <3> QED
      BY <2>1, LeastElement
  <2>3. Level(g, m, r)
    <3> SUFFICES ASSUME NEW j \in 0..(m - 1), r \in g[j]
                 PROVE  FALSE
      BY DEF Level
    <3>1. j \in 0..Deep /\ ~(m <= j)
      BY <1>2
    <3> QED
      BY <2>2, <3>1
  <2> QED
    BY <2>3
<1>5. PICK w : Leveled(g, w, k, r, left)
  BY <1>3, <1>4
<1>6. k \in Nat /\ k + 1 \in Nat \ {0} /\ k + 1 - 1 = k
  BY <1>2
<1>7. ASSUME NEW i \in 1..(k + 1), NEW j \in 1..(k + 1), w[i] = w[j], i < j
      PROVE  FALSE
  <2>1. Level(g, i - 1, Stat(w[i])) /\ Level(g, j - 1, Stat(w[j]))
    BY <1>5 DEF Leveled
  <2>2. i - 1 \in 0..(j - 1 - 1)
    BY <1>6, <1>7
  <2> QED
    BY <1>7, <2>1, <2>2 DEF Level
<1>8. \A i, j \in 1..(k + 1) : w[i] = w[j] => i = j
  <2> SUFFICES ASSUME NEW i \in 1..(k + 1), NEW j \in 1..(k + 1), w[i] = w[j], i # j
               PROVE  FALSE
    OBVIOUS
  <2>1. i < j \/ j < i
    BY <1>6
  <2> QED
    BY <1>7, <2>1
<1>9. Way(w, k + 1, r)
  BY <1>5, <1>6, <1>8, SMTT(30) DEF Way, Leveled, left
<1> QED
  BY <1>6, <1>9

--------------------------------------------------------------------------------
(* Everything due is collected *)

LEMMA CollectedGrows ==
  ASSUME Next
  PROVE  options' = options /\ gone \subseteq gone' /\ added \subseteq added' /\ Collected \subseteq Collected'
<1>1. options' = options /\ gone \subseteq gone' /\ added \subseteq added'
  BY DEF Next, Walk, NextArg, Finish, StatFails, SkipBrokenLink, SkipShut, SkipLink, OpenDirectory, AddFile,
         OpenArchive, AddMember, EndArchive, ArchiveFails, SkipName, VisitName, LeaveLoop, CloseDirectory,
         OpenDirectoryFails, OpenArchiveFails, ReadDirectoryFails,
         Vanish, Ended, Return, vars
<1> QED
  BY <1>1 DEF Collected, FileOf

LEMMA UntarStep ==
  ASSUME UntarInv, Next
  PROVE  UntarInv'
<1>1. untar' = untar
  BY CollectedGrows DEF options
<1>2. CASE OpenArchive
  BY <1>1, <1>2 DEF OpenArchive, IsArchive, UntarInv
<1>3. CASE AddMember
  BY <1>1, <1>3 DEF AddMember, HasHeader, UntarInv
<1>4. CASE archive' = archive \/ archive' = Null
  BY <1>1, <1>4 DEF UntarInv
<1> QED
  BY <1>2, <1>3, <1>4
  DEF Next, Walk, NextArg, Finish, StatFails, SkipBrokenLink, SkipShut, SkipLink, OpenDirectory, AddFile,
      EndArchive, ArchiveFails, SkipName, VisitName, LeaveLoop, CloseDirectory,
      OpenDirectoryFails, OpenArchiveFails, ReadDirectoryFails, Vanish, Ended, Return, vars

LEMMA ShapeStep ==
  ASSUME LoopInv, ShapeInv, Next
  PROVE  ShapeInv'
<1>0. /\ call \in Calls \cup {Null} /\ archive \in Readings \cup {Null} /\ stack \in Seq(Frames)
  BY DEF LoopInv, TypeOK
<1>1. /\ call # Null => archive = Null /\ call.entry = IF stack = <<>> THEN Null ELSE call.inode
      /\ stack # <<>> => stack[1].entry = Null
      /\ archive # Null =>
           /\ archive.n >= 1
           /\ archive.n > 1 => Members[archive.inode][1] # "error"
           /\ \A m \in GoodMembers(archive.inode) :
                m < archive.n => [inode |-> archive.inode, member |-> m] \in Collected
      /\ phase = "done" => args = <<>> /\ stack = <<>> /\ call = Null /\ archive = Null
  BY DEF ShapeInv
<1>2. Collected \subseteq Collected'
  BY CollectedGrows
<1>3. CASE NextArg
  <2>1. /\ call' = [inode |-> Head(args), entry |-> Null, path |-> <<>>]
        /\ stack' = <<>> /\ archive' = Null /\ phase' = "walk"
    BY <1>3 DEF NextArg
  <2> QED
    BY <2>1 DEF ShapeInv
<1>4. CASE Finish
  BY <1>1, <1>4 DEF Finish, ShapeInv
<1>5. CASE \/ StatFails \/ ArchiveFails \/ OpenDirectoryFails \/ OpenArchiveFails \/ ReadDirectoryFails \/ Ended
           \/ \E inode \in MayVanish : Vanish(inode)
  <2>1. /\ call' = call /\ archive' = archive /\ stack' = stack /\ Collected' = Collected
        /\ args' = args /\ (phase' = "failed" \/ phase' = phase)
    BY <1>5 DEF StatFails, ArchiveFails, OpenDirectoryFails, OpenArchiveFails, ReadDirectoryFails, Ended, Vanish,
                vars, Collected
  <2> QED
    BY <1>1, <2>1 DEF ShapeInv
<1>6. CASE SkipBrokenLink \/ SkipShut \/ SkipLink \/ AddFile
  <2>1. call' = Null /\ archive' = archive /\ stack' = stack /\ phase' = phase /\ phase = "walk"
    BY <1>6 DEF SkipBrokenLink, SkipShut, SkipLink, AddFile, Return, Open, Called
  <2> QED
    BY <1>1, <1>2, <2>1 DEF ShapeInv
<1>7. CASE OpenDirectory
  <2>1. PICK opened \in Frames :
           stack' = Append(stack, opened) /\ opened.entry = call.entry /\ call # Null
    BY <1>7, OpenedShape
  <2>2. call' = Null /\ archive' = archive /\ phase' = "walk"
    BY <1>7 DEF OpenDirectory, Open, Called
  <2>3. stack'[1] = IF stack = <<>> THEN opened ELSE stack[1]
    BY <1>0, <2>1
  <2>4. stack'[1].entry = Null
    BY <1>1, <2>1, <2>3
  <2> QED
    BY <1>1, <2>1, <2>2, <2>4 DEF ShapeInv
<1>8. CASE OpenArchive
  <2>1. /\ archive' = [inode |-> Stat(call.inode), path |-> call.path, n |-> 1]
        /\ call' = Null /\ stack' = stack /\ phase' = "walk"
    BY <1>8 DEF OpenArchive, Open, Called
  <2>2. Stat(call.inode) \in Archives
    BY <1>8 DEF OpenArchive, IsArchive
  <2>3. \A m \in GoodMembers(Stat(call.inode)) : m >= 1
    BY <2>2, FileWalkAssumption DEF GoodMembers
  <2>4. archive'.n = 1 /\ archive'.inode = Stat(call.inode)
    BY <2>1
  <2>5. \A m \in GoodMembers(archive'.inode) : ~(m < archive'.n)
    <3>1. \A m \in GoodMembers(Stat(call.inode)) : m \in Nat
      BY <2>2, FileWalkAssumption DEF GoodMembers
    <3> QED
      BY <2>3, <2>4, <3>1
  <2> QED
    BY <1>1, <2>1, <2>4, <2>5 DEF ShapeInv
<1>9. CASE AddMember
  <2>1. /\ archive # Null /\ archive.n <= Len(Members[archive.inode])
        /\ Header # "error"
        /\ archive' = [archive EXCEPT !.n = @ + 1]
        /\ call' = call /\ stack' = stack /\ phase' = "walk"
    BY <1>9 DEF AddMember, HasHeader
  <2>2. archive \in Readings /\ archive.n \in Nat /\ archive.inode \in Archives
    BY <1>0, <2>1 DEF Readings
  <2>3. archive'.n = archive.n + 1 /\ archive'.inode = archive.inode
    BY <2>1, <2>2 DEF Readings
  <2>4. Members[archive.inode][1] # "error"
    BY <1>1, <2>1, <2>2 DEF Header
  <2>5. ASSUME NEW m \in GoodMembers(archive.inode), m < archive.n + 1
        PROVE  [inode |-> archive.inode, member |-> m] \in Collected'
    <3>1. m \in Nat /\ Members[archive.inode][m] = "file"
      BY <2>2, FileWalkAssumption DEF GoodMembers
    <3>2. CASE m < archive.n
      BY <1>1, <1>2, <2>1, <3>2
    <3>3. CASE m = archive.n
      <4> DEFINE f == [inode |-> archive.inode, path |-> archive.path, member |-> archive.n]
      <4>1. Header = "file"
        BY <3>1, <3>3 DEF Header
      <4>2. f \in added'
        BY <1>9, <4>1 DEF AddMember
      <4>3. FileOf(f) = [inode |-> archive.inode, member |-> m]
        BY <3>3 DEF FileOf
      <4> HIDE DEF f
      <4> QED
        BY <4>2, <4>3 DEF Collected
    <3> QED
      BY <2>2, <2>5, <3>1, <3>2, <3>3
  <2>6. call' = Null /\ archive'.n >= 1
    BY <1>1, <2>1, <2>2, <2>3
  <2> QED
    BY <1>1, <2>1, <2>3, <2>4, <2>5, <2>6 DEF ShapeInv
<1>10. CASE EndArchive
  BY <1>1, <1>10 DEF EndArchive, ShapeInv
<1>11. ASSUME NEW name \in Names, SkipName(name) \/ VisitName(name)
       PROVE  ShapeInv'
  <2>1. Reading /\ stack' = Remaining(name) /\ archive' = archive /\ phase' = phase
    BY <1>11 DEF SkipName, VisitName
  <2>2. Len(stack) \in Nat \ {0} /\ 1 \in DOMAIN stack
    BY <1>0, <2>1 DEF Reading
  <2>3. /\ stack' \in Seq(Frames) /\ Len(stack') = Len(stack)
        /\ stack'[1].entry = stack[1].entry
    BY <2>1, <2>2, RemainingShape
  <2>4. stack' # <<>> /\ stack # <<>>
    BY <2>2, <2>3
  <2>5. call' # Null => call'.entry = call'.inode
    BY <1>11, <2>1, VisitShape DEF SkipName, Reading
  <2> QED
    BY <1>1, <2>1, <2>3, <2>4, <2>5 DEF ShapeInv, Reading
<1>12. CASE LeaveLoop \/ CloseDirectory
  <2>1. stack' = Front(stack) /\ stack # <<>> /\ call' = Null /\ archive' = Null /\ phase' = "walk"
    BY <1>12 DEF LeaveLoop, CloseDirectory, Reading
  <2>2. stack' # <<>> => stack'[1] = stack[1]
    <3>1. /\ stack' \in Seq(Frames) /\ Len(stack') = Len(stack) - 1
          /\ \A n \in 1..(Len(stack) - 1) : stack'[n] = stack[n]
      BY <1>0, <2>1, FrontShape
    <3>2. stack' # <<>> => 1 \in 1..(Len(stack) - 1)
      BY <1>0, <3>1
    <3> QED
      BY <3>1, <3>2
  <2> QED
    BY <1>1, <2>1, <2>2 DEF ShapeInv
<1> QED
  BY <1>3, <1>4, <1>5, <1>6, <1>7, <1>8, <1>9, <1>10, <1>11, <1>12 DEF Next, Walk

\* A way that is left when something vanishes was one before.
LEMMA WayKept ==
  ASSUME options' = options, gone \subseteq gone', NEW n \in Nat \ {0}, NEW r, NEW w, Way(w, n, r)'
  PROVE  Way(w, n, r) /\ \A k \in 1..n : Stat(w[k])' = Stat(w[k])
<1>1. follow' = follow /\ recurse' = recurse /\ shut' = shut
  BY DEF options
<1>2. /\ w \in [1..n -> Inodes]
      /\ \A j, k \in 1..n : w[j] = w[k] => j = k
      /\ \E k \in DOMAIN Args : w[1] = Args[k]
      /\ \A k \in 1..n : Stat(w[k])' \notin shut \cup {Null} /\ w[k] \notin Unsure'
      /\ \A k \in 1..(n - 1) :
           /\ Stat(w[k])' \in Dirs
           /\ \E name : Kept(Stat(w[k])', name) /\ Directory[Stat(w[k])'][name] = w[k + 1]
      /\ Stat(w[n])' = r
  BY <1>1 DEF Way, Kept, Dirs, Inodes, Links
<1>3. \A k \in 1..n : Stat(w[k])' = Stat(w[k])
  BY <1>1, <1>2, StatKept
<1>4. \A k \in 1..(n - 1) : k \in 1..n
  OBVIOUS
<1>5. n \in 1..n
  OBVIOUS
<1>6. \A k \in 1..n : w[k] \notin Unsure
  <2>1. untar' = untar /\ Links' = Links /\ Archives' = Archives
    BY DEF options, Links, Archives
  <2>2. \A x : x \in Unsure' <=> /\ x \in Links \cup Archives /\ Stat(x)' \in Refusing
                               /\ (x \in Links \/ IsArchive(x))
    BY <2>1 DEF Unsure, IsArchive
  <2> QED
    BY <1>2, <1>3, <2>2 DEF Unsure
<1> QED
  BY <1>2, <1>3, <1>4, <1>5, <1>6, SMTT(30) DEF Way

\* A directory that stays as it is, but for names that lead elsewhere, is still to go on from.
LEMMA FrameAhead ==
  ASSUME LoopInv, recurse' = recurse, NEW n \in Nat \ {0}, NEW w, NEW m \in DOMAIN stack, FromFrame(w, n, m),
         m \in DOMAIN stack', \A k \in 1..m : stack'[k].entry = stack[k].entry, stack'[m].dir = stack[m].dir,
         \A name \in stack[m].todo :
           Kept(stack[m].dir, name) /\ Directory[stack[m].dir][name] = w[m + 1] => name \in stack'[m].todo
  PROVE  FromFrame(w, n, m)'
<1>1. m < n /\ Along(w, m)
  BY DEF FromFrame
<1>2. PICK name \in stack[m].todo : Kept(stack[m].dir, name) /\ Directory[stack[m].dir][name] = w[m + 1]
  BY DEF FromFrame
<1>3. Kept(stack[m].dir, name)'
  BY <1>2 DEF Kept, Dirs
<1>4. \A k \in 2..m : stack'[k].entry = w[k]
  BY <1>1 DEF Along
<1>5. name \in stack'[m].todo
  BY <1>2
<1>6. Directory[stack'[m].dir][name] = w[m + 1]
  BY <1>2
<1> QED
  BY <1>1, <1>3, <1>4, <1>5, <1>6 DEF FromFrame, Along

\* Reading a name takes it from the innermost directory only.
LEMMA RemainingTodo ==
  ASSUME LoopInv, Reading, NEW name, NEW m \in DOMAIN stack
  PROVE  /\ m # Len(stack) => Remaining(name)[m] = stack[m]
         /\ Remaining(name)[m].todo = IF m = Len(stack) THEN stack[m].todo \ {name} ELSE stack[m].todo
<1> DEFINE top == Len(stack)
           rest == [stack[top] EXCEPT !.todo = @ \ {name}]
<1>1. stack \in Seq(Frames) /\ top \in Nat \ {0} /\ top \in 1..Len(stack) /\ stack[top] \in Frames
  BY FrameShape
<1>2. rest.todo = stack[top].todo \ {name}
  BY <1>1 DEF Frames
<1>3. Remaining(name) = [stack EXCEPT ![top] = rest]
  BY DEF Remaining
<1> HIDE DEF rest
<1>4. Remaining(name)[m] = IF m = top THEN rest ELSE stack[m]
  BY <1>1, <1>3
<1> QED
  BY <1>2, <1>4

\* No step leaves a way to a file before that file is collected.
LEMMA AheadKept ==
  ASSUME LoopInv, UntarInv, ShapeInv, Next, NEW n \in Nat \ {0}, NEW r \in Regular, NEW w, Way(w, n, r)',
         Ahead(w, n)
  PROVE  Ahead(w, n)' \/ (DueOf(r) \subseteq Collected)'
<1>1. /\ call \in Calls \cup {Null} /\ archive \in Readings \cup {Null} /\ stack \in Seq(Frames)
      /\ args \in Seq(Inodes)
  BY DEF LoopInv, TypeOK
<1>2. recurse' = recurse /\ untar' = untar /\ Collected \subseteq Collected'
  BY CollectedGrows DEF options
<1>3. Way(w, n, r) /\ \A k \in 1..n : Stat(w[k])' = Stat(w[k])
  BY CollectedGrows, WayKept
<1>4. /\ \A j, k \in 1..n : w[j] = w[k] => j = k
      /\ \A k \in 1..n : w[k] \in Inodes /\ Stat(w[k]) \notin shut \cup {Null} /\ w[k] \notin Unsure
      /\ \A k \in 1..(n - 1) :
           /\ Stat(w[k]) \in Dirs
           /\ \E name : Kept(Stat(w[k]), name) /\ Directory[Stat(w[k])][name] = w[k + 1]
      /\ Stat(w[n]) = r
  BY <1>3 DEF Way
<1>5. n \in 1..n /\ Stat(w[n])' = r
  BY <1>3, <1>4
<1>6. /\ call # Null => archive = Null /\ call.entry = IF stack = <<>> THEN Null ELSE call.inode
      /\ stack # <<>> => stack[1].entry = Null
  BY DEF ShapeInv
<1>7. (DueOf(r) \subseteq Collected)' <=> DueOf(r) \subseteq Collected'
  BY <1>2 DEF DueOf, IsReallyArchive, Archives, GoodMembers
<1>8. ASSUME args' = args \/ ~FromArg(w), stack' = stack, call' = call \/ ~FromCall(w, n),
             archive # Null /\ archive.inode = r => archive' # Null /\ archive'.inode = r
      PROVE  Ahead(w, n)'
  <2>1. FromArg(w) => FromArg(w)'
    BY <1>8 DEF FromArg
  <2>2. FromCall(w, n) => FromCall(w, n)'
    BY <1>8 DEF FromCall, Along
  <2>3. \A m \in DOMAIN stack : FromFrame(w, n, m) => FromFrame(w, n, m)'
    BY <1>2, <1>8 DEF FromFrame, Along, Kept, Dirs
  <2> QED
    BY <1>4, <1>5, <1>8, <2>1, <2>2, <2>3 DEF Ahead
<1>9. CASE NextArg
  <2>1. /\ stack = <<>> /\ call = Null /\ archive = Null /\ args # <<>> /\ stack' = stack
        /\ call' = [inode |-> Head(args), entry |-> Null, path |-> <<>>] /\ args' = Tail(args)
    BY <1>9 DEF NextArg
  <2>2. PICK k \in DOMAIN args : args[k] = w[1]
    BY <2>1 DEF Ahead, FromCall, FromArg
  <2>3. CASE k = 1
    <3>1. call'.inode = w[1] /\ call' # Null
      <4>1. call' \in Calls
        <5>1. Head(args) \in Inodes /\ <<>> \in Seq(Names)
          BY <1>1, <2>1
        <5> QED
          BY <2>1, <5>1 DEF Calls
      <4>2. call' # Null
        BY <2>1, <4>1, NullAssumption
      <4> QED
        BY <2>1, <2>2, <2>3, <4>2
    <3>2. Len(stack') = 0
      BY <2>1
    <3>3. FromCall(w, n)'
      BY <3>1, <3>2 DEF FromCall, Along
    <3> QED
      BY <3>3 DEF Ahead
  <2>4. CASE k # 1
    <3>1. k - 1 \in DOMAIN args' /\ args'[k - 1] = w[1]
      BY <1>1, <2>1, <2>2, <2>4
    <3> QED
      BY <3>1 DEF Ahead, FromArg
  <2> QED
    BY <2>3, <2>4
<1>10. CASE \/ Finish \/ StatFails \/ ArchiveFails \/ OpenDirectoryFails \/ OpenArchiveFails \/ ReadDirectoryFails
            \/ Ended \/ \E inode \in MayVanish : Vanish(inode)
  <2>1. args' = args /\ stack' = stack /\ call' = call /\ archive' = archive
    BY <1>10 DEF Finish, StatFails, ArchiveFails, OpenDirectoryFails, OpenArchiveFails, ReadDirectoryFails, Ended,
                 Vanish, vars
  <2> QED
    BY <1>8, <2>1
<1>11. CASE SkipBrokenLink \/ SkipShut \/ SkipLink \/ AddFile \/ OpenArchive \/ OpenDirectory
  <2>1. Called /\ args' = args /\ call' = Null
    BY <1>11 DEF SkipBrokenLink, SkipShut, SkipLink, AddFile, OpenArchive, OpenDirectory, Open, Return
  <2>2. archive = Null
    BY <1>6, <2>1 DEF Called
  <2>3. CASE ~FromCall(w, n)
    <3>1. CASE OpenDirectory
      <4>1. PICK opened \in Frames : stack' = Append(stack, opened)
        BY <3>1, OpenedShape
      <4>2. \A m \in DOMAIN stack : m \in DOMAIN stack' /\ stack'[m] = stack[m]
        BY <1>1, <4>1
      <4>3. ASSUME NEW m \in DOMAIN stack, FromFrame(w, n, m)
            PROVE  m \in DOMAIN stack' /\ FromFrame(w, n, m)'
        <5>1. \A k \in 1..m : k \in DOMAIN stack
          BY <1>1
        <5>2. /\ m \in DOMAIN stack' /\ stack'[m].dir = stack[m].dir /\ stack'[m].todo = stack[m].todo
              /\ \A k \in 1..m : stack'[k].entry = stack[k].entry
          BY <4>2, <5>1
        <5> QED
          BY <1>2, <4>3, <5>2, FrameAhead
      <4>4. FromArg(w) => FromArg(w)'
        BY <2>1 DEF FromArg
      <4> QED
        BY <2>2, <2>3, <4>3, <4>4 DEF Ahead
    <3>2. CASE ~OpenDirectory
      <4>1. stack' = stack
        BY <1>11, <3>2 DEF SkipBrokenLink, SkipShut, SkipLink, AddFile, OpenArchive, Return
      <4> QED
        BY <1>8, <2>1, <2>2, <2>3, <4>1
    <3> QED
      BY <3>1, <3>2
  <2>4. CASE FromCall(w, n)
    <3> PICK m \in Nat : m = Len(stack) + 1
      BY <1>1
    <3>1. m \in 1..n /\ call.inode = w[m] /\ Along(w, m - 1)
      BY <1>1, <2>4 DEF FromCall
    <3>2. Stat(call.inode) = Stat(w[m]) /\ Stat(w[m]) \notin shut \cup {Null} /\ call.inode \notin Unsure
      BY <1>4, <3>1
    <3>3. ~SkipBrokenLink /\ ~SkipShut
      BY <3>2 DEF SkipBrokenLink, SkipShut, MayFail, IsBrokenLink, Unsure
    <3>4. CASE m = n
      <4>1. Stat(call.inode) = r /\ r \notin Dirs \cup Links
        BY <1>4, <3>1, <3>4, FileWalkAssumption
      <4>2. ~SkipLink /\ ~OpenDirectory
        BY <4>1 DEF SkipLink, OpenDirectory
      <4>3. CASE AddFile
        <5>1. ~IsReallyArchive(r)
          BY <4>1, <4>3 DEF AddFile, IsArchive, IsReallyArchive
        <5>2. r \notin Small => [inode |-> r, path |-> call.path, member |-> 0] \in added'
          BY <4>1, <4>3 DEF AddFile
        <5>3. r \notin Small => [inode |-> r, member |-> 0] \in Collected'
          <6> DEFINE f == [inode |-> r, path |-> call.path, member |-> 0]
          <6>1. FileOf(f) = [inode |-> r, member |-> 0]
            BY DEF FileOf
          <6> HIDE DEF f
          <6>2. r \notin Small => f \in added'
            BY <5>2 DEF f
          <6> QED
            BY <6>1, <6>2 DEF Collected
        <5>4. DueOf(r) \subseteq Collected'
          BY <5>1, <5>3 DEF DueOf
        <5> QED
          BY <1>7, <5>4
      <4>4. CASE OpenArchive
        <5>1. archive' = [inode |-> r, path |-> call.path, n |-> 1] /\ r \in Archives
          BY <4>1, <4>4 DEF OpenArchive, IsArchive
        <5>2. call.path \in Seq(Names)
          BY <1>1, <2>1 DEF Called, Calls
        <5>3. archive' \in Readings /\ archive'.inode = r
          BY <5>1, <5>2 DEF Readings
        <5>4. archive' # Null
          BY <5>3, NullAssumption
        <5> QED
          BY <1>5, <5>3, <5>4 DEF Ahead
      <4> QED
        BY <1>11, <3>3, <4>2, <4>3, <4>4
    <3>5. CASE m # n
      <4>1. m \in 1..(n - 1)
        BY <3>1, <3>5
      <4>2. Stat(call.inode) \in Dirs /\ Stat(call.inode) \notin Links \cup Regular
        BY <1>4, <3>2, <4>1, FileWalkAssumption
      <4>3. OpenDirectory
        BY <1>11, <3>3, <4>2 DEF SkipLink, AddFile, OpenArchive
      <4>4. PICK opened \in Frames :
              /\ stack' = Append(stack, opened)
              /\ opened.dir = Stat(call.inode) /\ opened.entry = call.entry
              /\ opened.todo = DOMAIN Directory[opened.dir]
        BY <4>3, OpenedShape
      <4>5. /\ m \in DOMAIN stack' /\ stack'[m] = opened
            /\ \A k \in 1..(m - 1) : stack'[k] = stack[k]
        BY <1>1, <4>4
      <4>6. ASSUME NEW k \in 2..m
            PROVE  stack'[k].entry = w[k]
        <5>1. CASE k = m
          <6>1. stack # <<>>
            BY <1>1, <5>1
          <6> QED
            BY <1>6, <2>1, <3>1, <4>4, <4>5, <5>1, <6>1 DEF Called
        <5>2. CASE k # m
          <6>1. k \in 2..(m - 1) /\ k \in 1..(m - 1)
            BY <3>1, <5>2
          <6> QED
            BY <3>1, <4>5, <6>1 DEF Along
        <5> QED
          BY <5>1, <5>2
      <4>7. PICK name : Kept(Stat(w[m]), name) /\ Directory[Stat(w[m])][name] = w[m + 1]
        BY <1>4, <4>1
      <4>8. stack'[m].dir = Stat(w[m]) /\ name \in stack'[m].todo
        BY <3>2, <4>4, <4>5, <4>7 DEF Kept
      <4>9. FromFrame(w, n, m)'
        BY <1>2, <3>1, <4>1, <4>6, <4>7, <4>8 DEF FromFrame, Along, Kept, Dirs
      <4> QED
        BY <4>5, <4>9 DEF Ahead
    <3> QED
      BY <3>4, <3>5
  <2> QED
    BY <2>3, <2>4
<1>12. CASE AddMember
  <2>1. archive # Null /\ archive' = [archive EXCEPT !.n = @ + 1] /\ args' = args /\ stack' = stack /\ call' = call
    BY <1>12 DEF AddMember, HasHeader
  <2>2. archive \in Readings
    BY <1>1, <2>1
  <2>3. archive' \in Readings /\ archive'.inode = archive.inode
    BY <2>1, <2>2 DEF Readings
  <2>4. archive' # Null
    BY <2>3, NullAssumption
  <2> QED
    BY <1>8, <2>1, <2>3, <2>4
<1>13. CASE EndArchive
  <2>1. /\ archive # Null /\ phase = "walk" /\ (~HasHeader \/ (archive.n = 1 /\ BadHeader))
        /\ args' = args /\ stack' = stack /\ call' = call /\ Collected' = Collected
    BY <1>13 DEF EndArchive, Collected
  <2>2. CASE archive.inode # r
    BY <1>8, <2>1, <2>2
  <2>3. CASE archive.inode = r
    <3>1. r \in Archives /\ archive.n \in Nat /\ Members[r] \in Seq(Headers)
      BY <1>1, <2>1, <2>3, FileWalkAssumption DEF Readings
    <3>2. IsReallyArchive(r)
      BY <2>1, <3>1 DEF UntarInv, IsReallyArchive
    <3>3. \A m \in GoodMembers(r) : m < archive.n => [inode |-> r, member |-> m] \in Collected
      BY <2>1, <2>3 DEF ShapeInv
    <3>4. CASE ~HasHeader
      <4>1. ~(archive.n <= Len(Members[r]))
        BY <2>1, <2>3, <3>4 DEF HasHeader
      <4>2. \A m \in GoodMembers(r) : m < archive.n
        BY <3>1, <4>1 DEF GoodMembers
      <4>3. DueOf(r) \subseteq Collected
        BY <3>2, <3>3, <4>2 DEF DueOf
      <4> QED
        BY <1>7, <2>1, <4>3
    <3>5. r \notin Refusing
      <4>1. PICK x \in Links \cup Archives : x = w[n] \/ x = r
        BY <3>1
      <4> QED
        BY <1>4, <1>5, <3>1, <3>2, StatOfRegular DEF Unsure, IsArchive, IsReallyArchive
    <3>6. CASE HasHeader /\ archive.n = 1 /\ Header = "error"
      <4>1. Members[r] # <<>> /\ Members[r][1] = "error"
        BY <2>3, <3>1, <3>6 DEF HasHeader, Header
      <4>2. DueOf(r) = {}
        BY <3>2, <4>1 DEF DueOf
      <4> QED
        BY <1>7, <4>2
    <3> QED
      BY <2>1, <2>3, <3>4, <3>5, <3>6 DEF BadHeader
  <2> QED
    BY <2>2, <2>3
<1>14. ASSUME NEW name \in Names, SkipName(name) \/ VisitName(name)
       PROVE  Ahead(w, n)'
  <2>1. Reading /\ stack' = Remaining(name) /\ args' = args /\ call = Null /\ archive = Null
    BY <1>14 DEF SkipName, VisitName, Reading
  <2>2. FromArg(w) => FromArg(w)'
    BY <2>1 DEF FromArg
  <2>3. ASSUME NEW m \in DOMAIN stack, FromFrame(w, n, m)
        PROVE  Ahead(w, n)'
    <3>1. /\ DOMAIN stack' = DOMAIN stack /\ Len(stack') = Len(stack)
          /\ \A k \in DOMAIN stack : stack'[k].entry = stack[k].entry /\ stack'[k].dir = stack[k].dir
      BY <2>1, RemainingShape
    <3>2. \A k \in 1..m : k \in DOMAIN stack
      BY <1>1
    <3>3. stack'[m].todo = IF m = Len(stack) THEN stack[m].todo \ {name} ELSE stack[m].todo
      BY <2>1, RemainingTodo
    <3>4. CASE m # Len(stack) \/ Directory[stack[m].dir][name] # w[m + 1] \/ ~Kept(stack[m].dir, name)
      <4>1. \A x \in stack[m].todo :
              Kept(stack[m].dir, x) /\ Directory[stack[m].dir][x] = w[m + 1] => x \in stack'[m].todo
        BY <3>3, <3>4
      <4>2. FromFrame(w, n, m)'
        BY <1>2, <2>3, <3>1, <3>2, <4>1, FrameAhead
      <4> QED
        BY <3>1, <4>2 DEF Ahead
    <3>5. CASE m = Len(stack) /\ Directory[stack[m].dir][name] = w[m + 1] /\ Kept(stack[m].dir, name)
      <4>1. frame = stack[m]
        BY <2>1, <3>5, FrameShape
      <4>2. ~SkipName(name)
        <5>1. m + 1 \in 1..n
          BY <1>1, <2>3 DEF FromFrame
        <5>2. w[m + 1] \notin gone
          BY <1>4, <5>1, StatOfGone
        <5> QED
          BY <3>5, <4>1, <5>2 DEF SkipName, Filtered, Kept
      <4>3. call' \in Calls /\ call'.inode = w[m + 1]
        BY <1>14, <3>5, <4>1, <4>2, VisitShape
      <4>4. call' # Null
        BY <4>3, NullAssumption
      <4>5. m < n /\ \A k \in 2..m : stack'[k].entry = w[k]
        <5>1. \A k \in 2..m : k \in 1..m
          OBVIOUS
        <5> QED
          BY <2>3, <3>1, <3>2, <5>1 DEF FromFrame, Along
      <4>6. Len(stack') = m
        BY <3>1, <3>5
      <4>7. FromCall(w, n)'
        BY <4>3, <4>4, <4>5, <4>6 DEF FromCall, Along
      <4> QED
        BY <4>7 DEF Ahead
    <3> QED
      BY <3>4, <3>5
  <2> QED
    BY <2>1, <2>2, <2>3 DEF Ahead, FromCall
<1>15. CASE LeaveLoop \/ CloseDirectory
  <2>1. Reading /\ stack' = Front(stack) /\ stack # <<>> /\ args' = args /\ call = Null /\ archive = Null
    BY <1>15 DEF LeaveLoop, CloseDirectory, Reading
  <2>2. FromArg(w) => FromArg(w)'
    BY <2>1 DEF FromArg
  <2>3. /\ Len(stack) \in Nat \ {0} /\ DOMAIN stack' = 1..(Len(stack) - 1)
        /\ \A k \in 1..(Len(stack) - 1) : stack'[k] = stack[k]
    BY <1>1, <2>1, FrontShape
  <2>4. frame = stack[Len(stack)]
    BY <2>1, FrameShape
  <2>5. ASSUME NEW m \in DOMAIN stack, FromFrame(w, n, m)
        PROVE  m \in DOMAIN stack' /\ FromFrame(w, n, m)'
    <3>1. m \in 1..Len(stack) /\ m < n /\ Along(w, m)
      BY <1>1, <2>5 DEF FromFrame
    <3>2. CASE m # Len(stack)
      <4>1. m \in DOMAIN stack' /\ \A k \in 1..m : stack'[k] = stack[k]
        BY <2>3, <3>1, <3>2
      <4>2. m \in 1..m
        BY <3>1
      <4>3. FromFrame(w, n, m)'
        BY <1>2, <2>5, <4>1, <4>2, FrameAhead
      <4> QED
        BY <4>1, <4>3
    <3>3. CASE m = Len(stack)
      <4>1. ~CloseDirectory
        BY <2>4, <2>5, <3>3 DEF CloseDirectory, FromFrame
      <4>2. frame.entry # Null
        BY <1>15, <4>1 DEF LeaveLoop, Loop
      <4>3. PICK j \in 1..(Len(stack) - 1) : stack[j].entry = frame.entry
        BY <1>15, <4>1 DEF LeaveLoop, Loop
      <4>4. j # 1
        BY <1>6, <2>1, <4>2, <4>3
      <4>5. j \in 2..m /\ m \in 2..m /\ j # m /\ j \in 1..n /\ m \in 1..n
        BY <2>3, <3>1, <3>3, <4>3, <4>4
      <4>6. w[j] = w[m]
        BY <2>4, <3>1, <3>3, <4>3, <4>5 DEF Along
      <4> QED
        BY <1>4, <4>5, <4>6
    <3> QED
      BY <3>2, <3>3
  <2> QED
    BY <2>1, <2>2, <2>5 DEF Ahead, FromCall
<1> QED
  BY <1>9, <1>10, <1>11, <1>12, <1>13, <1>14, <1>15 DEF Next, Walk

\* Where nothing has vanished, the walk should come to the same files as before.
LEMMA SameReach ==
  ASSUME options' = options, gone' = gone
  PROVE  (\A x : Stat(x)' = Stat(x)) /\ Reachable({})' = Reachable({})
<1>1. follow' = follow /\ recurse' = recurse /\ shut' = shut
  BY DEF options
<1>2. \A x : End(x)' = End(x)
  BY DEF End, Links
<1>3. \A x : Stat(x)' = Stat(x)
  BY <1>1, <1>2 DEF Stat
<1>4. Reachable({})' = Reachable({})
  BY <1>1 DEF Reachable, Permitted, Leads, Stat, End, Links, Dirs
<1> QED
  BY <1>3, <1>4

\* What is due is due of a regular file that should be come to.
LEMMA DueIs ==
  ASSUME NEW left
  PROVE  /\ \A r \in Reachable(left) \cap Regular : DueOf(r) \subseteq Due(left)
         /\ \A x \in Due(left) : \E r \in Reachable(left) \cap Regular : x \in DueOf(r)
BY DEF Due, DueOf

\* The arguments, and what the names of a directory lead to, are reachable unless shut.
LEMMA ReachableNext ==
  /\ \A k \in DOMAIN Args : Stat(Args[k]) \in Reachable({}) \cup shut \cup {Null}
  /\ \A d \in Reachable({}) \cap Dirs : \A name :
       Kept(d, name) => Stat(Directory[d][name]) \in Reachable({}) \cup shut \cup {Null}
<1>1. FromArgs({}) \subseteq Reachable({})
  BY ReachableClosed
<1>2. \A d \in Reachable({}) \cap Dirs : Permitted(Leads(d, {})) \subseteq Reachable({})
  BY ReachableClosed, OnwardGrows
<1>3. \A k \in DOMAIN Args : Stat(Args[k]) \in Reachable({}) \cup shut \cup {Null}
  BY <1>1 DEF FromArgs, Permitted
<1>4. \A d, name : Kept(d, name) => Stat(Directory[d][name]) \in Leads(d, {})
  BY DEF Kept, Leads
<1>5. \A d \in Reachable({}) \cap Dirs : \A name :
        Kept(d, name) => Stat(Directory[d][name]) \in Reachable({}) \cup shut \cup {Null}
  BY <1>2, <1>4 DEF Permitted
<1> QED
  BY <1>3, <1>5

LEMMA SoundStep ==
  ASSUME LoopInv, UntarInv, ShapeInv, ArgsInv, SoundInv, Next
  PROVE  SoundInv'
<1> SUFFICES ASSUME gone' = {} PROVE SoundInv'
  BY DEF SoundInv
<1>1. /\ call \in Calls \cup {Null} /\ archive \in Readings \cup {Null} /\ stack \in Seq(Frames)
      /\ args \in Seq(Inodes) /\ added \subseteq Files
  BY DEF LoopInv, TypeOK
<1>2. options' = options /\ shut' = shut /\ untar' = untar
  BY CollectedGrows DEF options
<1>3. gone = {}
  BY CollectedGrows
<1>4. (\A x : Stat(x)' = Stat(x)) /\ Reachable({})' = Reachable({})
  BY <1>2, <1>3, SameReach
<1>5. Due({})' = Due({})
  BY <1>2, <1>4 DEF Due, DueOf, IsReallyArchive, Archives, GoodMembers
<1>6. /\ call # Null => Stat(call.inode) \in Reachable({}) \cup shut \cup {Null}
      /\ \A m \in DOMAIN stack : stack[m].dir \in Reachable({})
      /\ archive # Null => archive.inode \in Reachable({})
      /\ Collected \subseteq Due({})
  BY <1>3 DEF SoundInv
<1> DEFINE Rest ==
      /\ call' # Null => Stat(call'.inode) \in Reachable({}) \cup shut \cup {Null}
      /\ \A m \in DOMAIN stack' : stack'[m].dir \in Reachable({})
      /\ archive' # Null => archive'.inode \in Reachable({})
      /\ Collected' \subseteq Due({})
<1> SUFFICES Rest
  <2>1. call' # Null => Stat(call.inode)' = Stat(call'.inode)
    BY <1>2, <1>3 DEF Stat, End, Links, options
  <2> QED
    BY <1>2, <1>4, <1>5, <2>1 DEF SoundInv
<1>7. ASSUME added' = added
      PROVE  Collected' \subseteq Due({})
  BY <1>6, <1>7 DEF Collected
<1>8. CASE NextArg
  <2>1. args # <<>> /\ Head(args) = args[1] /\ 1 \in DOMAIN args
    BY <1>1, <1>8 DEF NextArg
  <2>2. PICK m \in DOMAIN Args : Head(args) = Args[m]
    BY <2>1 DEF ArgsInv
  <2>3. call'.inode = Head(args) /\ stack' = stack /\ archive' = archive /\ added' = added
    BY <1>8 DEF NextArg
  <2> QED
    BY <1>6, <1>7, <2>2, <2>3, ReachableNext
<1>9. CASE \/ Finish \/ StatFails \/ ArchiveFails \/ OpenDirectoryFails \/ OpenArchiveFails \/ ReadDirectoryFails
           \/ Ended \/ EndArchive \/ SkipBrokenLink \/ SkipShut \/ SkipLink
           \/ \E inode \in MayVanish : Vanish(inode)
  <2>1. /\ call' = call \/ call' = Null
        /\ stack' = stack /\ added' = added
        /\ archive' = archive \/ archive' = Null
    BY <1>9 DEF Finish, StatFails, ArchiveFails, OpenDirectoryFails, OpenArchiveFails, ReadDirectoryFails, Ended,
                EndArchive, SkipBrokenLink, SkipShut, SkipLink, Vanish, Return, vars
  <2> QED
    BY <1>6, <1>7, <2>1
<1>10. CASE OpenDirectory
  <2>1. PICK opened \in Frames : stack' = Append(stack, opened) /\ opened.dir = Stat(call.inode) /\ call # Null
    BY <1>10, OpenedShape
  <2>2. opened.dir \in Reachable({})
    BY <1>6, <1>10, <2>1 DEF OpenDirectory, Open
  <2>3. \A m \in DOMAIN stack' : stack'[m].dir \in Reachable({})
    <3>1. \A m \in DOMAIN stack' : stack'[m] = opened \/ (m \in DOMAIN stack /\ stack'[m] = stack[m])
      BY <1>1, <2>1
    <3> QED
      BY <1>6, <2>2, <3>1
  <2>4. call' = Null /\ archive' = archive /\ added' = added
    BY <1>10 DEF OpenDirectory
  <2> QED
    BY <1>6, <1>7, <2>3, <2>4
<1>11. CASE AddFile
  <2> DEFINE r == Stat(call.inode)
             f == [inode |-> r, path |-> call.path, member |-> 0]
  <2>1. r \in Reachable({}) \cap Regular /\ ~IsReallyArchive(r)
    BY <1>6, <1>11 DEF AddFile, Open, Called, IsArchive, IsReallyArchive
  <2>2. added' = IF r \in Small THEN added ELSE added \cup {f}
    BY <1>11 DEF AddFile
  <2>3. FileOf(f) = [inode |-> r, member |-> 0]
    BY DEF FileOf
  <2> HIDE DEF f, r
  <2>4. r \notin Small => FileOf(f) \in Due({})
    BY <2>1, <2>3, DueIs DEF DueOf
  <2>5. Collected' \subseteq Due({})
    BY <1>6, <2>2, <2>4 DEF Collected
  <2>6. call' = Null /\ stack' = stack /\ archive' = archive
    BY <1>11 DEF AddFile
  <2> QED
    BY <1>6, <2>5, <2>6
<1>12. CASE OpenArchive
  <2>1. archive'.inode = Stat(call.inode) /\ call' = Null /\ stack' = stack /\ added' = added
    BY <1>12 DEF OpenArchive
  <2>2. Stat(call.inode) \in Reachable({})
    BY <1>6, <1>12 DEF OpenArchive, Open, Called
  <2> QED
    BY <1>6, <1>7, <2>1, <2>2
<1>13. CASE AddMember
  <2> DEFINE f == [inode |-> archive.inode, path |-> archive.path, member |-> archive.n]
  <2>1. /\ archive # Null /\ archive.n <= Len(Members[archive.inode]) /\ Header # "error"
        /\ archive' = [archive EXCEPT !.n = @ + 1] /\ call' = call /\ stack' = stack
        /\ added' = IF Header # "file" THEN added ELSE added \cup {f}
    BY <1>13 DEF AddMember, HasHeader
  <2>2. FileOf(f) = [inode |-> archive.inode, member |-> archive.n]
    BY DEF FileOf
  <2> HIDE DEF f
  <2>3. /\ archive.inode \in Archives /\ archive.n \in Nat /\ archive'.inode = archive.inode
        /\ Members[archive.inode] \in Seq(Headers) /\ archive.inode \in Reachable({}) \cap Regular
    BY <1>1, <1>6, <2>1, FileWalkAssumption DEF Readings
  <2>4. IsReallyArchive(archive.inode)
    BY <2>1, <2>3 DEF UntarInv, IsReallyArchive
  <2>5. archive.n >= 1 /\ (archive.n > 1 => Members[archive.inode][1] # "error")
    BY <2>1 DEF ShapeInv
  <2>6. Members[archive.inode][1] # "error"
    BY <2>1, <2>3, <2>5 DEF Header
  <2>7. Header = "file" => archive.n \in GoodMembers(archive.inode)
    BY <2>1, <2>3, <2>5 DEF Header, GoodMembers
  <2>8. Header = "file" => FileOf(f) \in DueOf(archive.inode)
    BY <2>2, <2>4, <2>6, <2>7 DEF DueOf
  <2>9. Collected' \subseteq Due({})
    BY <1>6, <2>1, <2>3, <2>8, DueIs DEF Collected
  <2> QED
    BY <1>6, <2>1, <2>3, <2>9
<1>14. ASSUME NEW name \in Names, SkipName(name) \/ VisitName(name)
       PROVE  Rest
  <2>1. Reading /\ stack' = Remaining(name) /\ archive' = archive /\ added' = added
    BY <1>14 DEF SkipName, VisitName
  <2>2. \A m \in DOMAIN stack' : stack'[m].dir \in Reachable({})
    BY <1>6, <2>1, RemainingShape
  <2>3. CASE SkipName(name)
    BY <1>6, <1>7, <2>1, <2>2, <2>3 DEF SkipName
  <2>4. CASE VisitName(name)
    <3>1. frame.dir \in Reachable({}) \cap Dirs
      BY <1>6, <2>1, FrameShape
    <3>2. Kept(frame.dir, name)
      BY <2>4, VisitShape DEF VisitName, Filtered, Kept
    <3>3. call'.inode = Directory[frame.dir][name]
      BY <2>4, VisitShape
    <3>4. Stat(call'.inode) \in Reachable({}) \cup shut \cup {Null}
      BY <3>1, <3>2, <3>3, ReachableNext
    <3> QED
      BY <1>6, <1>7, <2>1, <2>2, <3>4
  <2> QED
    BY <1>14, <2>3, <2>4
<1>15. CASE LeaveLoop \/ CloseDirectory
  <2>1. Reading /\ stack' = Front(stack) /\ stack # <<>> /\ call' = Null /\ archive' = Null /\ added' = added
    BY <1>15 DEF LeaveLoop, CloseDirectory, Reading
  <2>2. \A m \in DOMAIN stack' : m \in DOMAIN stack /\ stack'[m] = stack[m]
    BY <1>1, <2>1, FrontShape
  <2> QED
    BY <1>6, <1>7, <2>1, <2>2
<1> QED
  BY <1>8, <1>9, <1>10, <1>11, <1>12, <1>13, <1>14, <1>15 DEF Next, Walk

LEMMA AheadStep ==
  ASSUME LoopInv, UntarInv, ShapeInv, AheadInv, [Next]_vars
  PROVE  AheadInv'
<1>1. options' = options /\ gone \subseteq gone' /\ Collected \subseteq Collected'
  BY CollectedGrows DEF vars, Collected
<1>2. \A r : DueOf(r)' = DueOf(r)
  BY <1>1 DEF options, DueOf, IsReallyArchive, Archives, GoodMembers
<1>3. ASSUME NEW n \in Nat \ {0}, NEW r \in Regular, NEW w \in [1..n -> Inodes], Way(w, n, r)'
      PROVE  Ahead(w, n)' \/ (DueOf(r) \subseteq Collected)'
  <2>1. Way(w, n, r)
    BY <1>1, <1>3, WayKept
  <2>2. CASE DueOf(r) \subseteq Collected
    BY <1>1, <1>2, <2>2
  <2>3. CASE Next /\ Ahead(w, n)
    BY <1>3, <2>3, AheadKept
  <2>4. CASE UNCHANGED vars /\ Ahead(w, n)
    BY <2>4 DEF vars, options, Ahead, FromArg, FromCall, FromFrame, Along, Kept, Dirs, Stat, End, Links
  <2> QED
    BY <2>1, <2>2, <2>3, <2>4 DEF AheadInv
<1> QED
  BY <1>3 DEF AheadInv, Inodes, Dirs, Links

\* The walk that has ended is ahead of nothing, and has come to nothing else.
LEMMA CollectsAtTheEnd ==
  ASSUME ShapeInv, AheadInv, SoundInv
  PROVE  CollectsWhatIsDue
<1> SUFFICES ASSUME phase = "done"
             PROVE  Due(Unsure) \subseteq Collected /\ (gone = {} => Collected \subseteq Due({}))
  BY DEF CollectsWhatIsDue
<1>1. args = <<>> /\ stack = <<>> /\ call = Null /\ archive = Null
  BY DEF ShapeInv
<1>2. \A w, n : ~Ahead(w, n)
  BY <1>1 DEF Ahead, FromArg, FromCall
<1>3. ASSUME NEW r \in Reachable(Unsure) \cap Regular
      PROVE  DueOf(r) \subseteq Collected
  <2>1. PICK n \in Nat \ {0} : \E w : Way(w, n, r)
    BY WaysExist
  <2>2. PICK w : Way(w, n, r)
    BY <2>1
  <2>3. w \in [1..n -> Inodes]
    BY <2>2 DEF Way
  <2> QED
    BY <1>2, <2>2, <2>3 DEF AheadInv
<1>4. Due(Unsure) \subseteq Collected
  BY <1>3, DueIs
<1> QED
  BY <1>4 DEF SoundInv


THEOREM WalkInvariant == Spec => [](UntarInv /\ ShapeInv /\ AheadInv /\ SoundInv)
<1> DEFINE Inv == UntarInv /\ ShapeInv /\ AheadInv /\ SoundInv
<1>1. Init => Inv
  <2> SUFFICES ASSUME Init PROVE Inv
    OBVIOUS
  <2>1. UntarInv /\ ShapeInv
    BY DEF Init, UntarInv, ShapeInv
  <2>2. AheadInv
    BY DEF Init, AheadInv, Ahead, FromArg, Way
  <2>3. Collected = {}
    BY DEF Init, Collected
  <2>4. SoundInv
    BY <2>3 DEF Init, SoundInv
  <2> QED
    BY <2>1, <2>2, <2>4
<1>2. LoopInv /\ ArgsInv /\ Inv /\ [Next]_vars => Inv'
  <2> SUFFICES ASSUME LoopInv, ArgsInv, Inv, [Next]_vars PROVE Inv'
    OBVIOUS
  <2>1. AheadInv'
    BY AheadStep
  <2>2. CASE Next
    BY <2>1, <2>2, UntarStep, ShapeStep, SoundStep
  <2>3. CASE UNCHANGED vars
    <3>1. UntarInv' /\ ShapeInv'
      BY <2>3 DEF vars, options, UntarInv, ShapeInv, Collected
    <3>2. SoundInv'
      BY <2>3, SameReach DEF vars, options, SoundInv, Due, DueOf, IsReallyArchive, Archives, GoodMembers, Collected
    <3> QED
      BY <2>1, <3>1, <3>2
  <2> QED
    BY <2>2, <2>3
<1> QED
  BY <1>1, <1>2, LoopInvariant, PathInvariant, PTL DEF Spec

\* A walk that ends has collected all that is due, whatever links make circles of the tree
\* and in whatever order the directories give their names: neither a loop that it leaves
\* nor a file that vanishes hides another file, only a link or an archive does for which
\* a refusal makes the walk pass it over; and, when nothing vanishes, it has collected
\* nothing else (ft_conf_add_file).
THEOREM EverythingDueCollected == Spec => []CollectsWhatIsDue
BY WalkInvariant, CollectsAtTheEnd, PTL

--------------------------------------------------------------------------------
(* What ends the walk early *)

\* What the walk is at stays what it is.
LEMMA AtHandKept ==
  ASSUME UNCHANGED <<options, gone, stack, call, archive>>
  PROVE  /\ AtHand' = AtHand
         /\ (AtHand \in Refusing \/ BreaksOff(AtHand))' <=> AtHand \in Refusing \/ BreaksOff(AtHand)
         /\ (AtHand \in Reachable({}) \cup shut)' <=> AtHand \in Reachable({}) \cup shut
<1>1. untar' = untar /\ shut' = shut /\ Archives' = Archives
  BY DEF options, Archives
<1>2. (\A x : Stat(x)' = Stat(x)) /\ Reachable({})' = Reachable({})
  BY SameReach
<1>3. AtHand' = IF call # Null THEN Stat(call.inode)' ELSE IF archive # Null THEN archive.inode ELSE frame.dir
  BY DEF AtHand, frame
<1>4. AtHand' = AtHand
  <2>1. Stat(call.inode)' = Stat(call.inode)
    BY DEF Stat, End, Links, options
  <2> QED
    BY <1>3, <2>1 DEF AtHand
<1> QED
  BY <1>1, <1>2, <1>4 DEF BreaksOff, IsArchive

LEMMA FaultStep ==
  ASSUME LoopInv, ShapeInv, UntarInv, SoundInv, FailsOnlyByFault, Next
  PROVE  FailsOnlyByFault'
<1> DEFINE Fault == /\ AtHand \in Refusing \/ BreaksOff(AtHand)
                    /\ AtHand \in Reachable({}) \cup shut
<1> SUFFICES ASSUME phase' = "failed", gone' = {}
             PROVE  UNCHANGED <<options, gone, stack, call, archive>> /\ Fault
  BY AtHandKept DEF FailsOnlyByFault
<1>0. gone = {}
  BY CollectedGrows
<1>1. /\ call \in Calls \cup {Null} /\ archive \in Readings \cup {Null}
      /\ call # Null => /\ archive = Null /\ call.inode \in Inodes
                        /\ Stat(call.inode) \in Reachable({}) \cup shut \cup {Null}
      /\ archive # Null => /\ untar /\ archive.inode \in Reachable({})
                           /\ archive.inode \in Archives /\ archive.n \in Nat
      /\ \A n \in DOMAIN stack : stack[n].dir \in Reachable({})
  BY <1>0 DEF LoopInv, TypeOK, ShapeInv, UntarInv, SoundInv, Calls, Readings
<1>2. CASE Ended
  BY <1>0, <1>2 DEF Ended, vars, FailsOnlyByFault
<1>3. CASE StatFails
  <2>1. /\ call # Null /\ Stat(call.inode) \in Refusing \cup {Null} /\ ~IsBrokenLink
        /\ UNCHANGED <<options, gone, stack, call, archive>>
    BY <1>3 DEF StatFails, Called, MayFail
  <2>2. Stat(call.inode) # Null
    <3>1. CASE follow
      <4>1. call.inode \in Inodes \ Links
        BY <1>0, <1>1, <2>1, <3>1 DEF IsBrokenLink
      <4> QED
        BY <1>0, <3>1, <4>1, EndOfFile, FileWalkAssumption DEF Stat
    <3>2. CASE ~follow
      BY <1>0, <1>1, <2>1, <3>2, FileWalkAssumption DEF Stat
    <3> QED
      BY <3>1, <3>2
  <2>3. AtHand = Stat(call.inode)
    BY <2>1 DEF AtHand
  <2> QED
    BY <1>1, <2>1, <2>2, <2>3
<1>4. CASE OpenDirectoryFails \/ OpenArchiveFails
  <2>1. /\ call # Null /\ Stat(call.inode) \in Refusing /\ Stat(call.inode) # Null
        /\ UNCHANGED <<options, gone, stack, call, archive>>
    BY <1>4 DEF OpenDirectoryFails, OpenArchiveFails, Open, Called
  <2>2. AtHand = Stat(call.inode)
    BY <2>1 DEF AtHand
  <2> QED
    BY <1>1, <2>1, <2>2
<1>5. CASE ArchiveFails
  <2>1. /\ archive # Null /\ archive.n > 1 /\ BadHeader
        /\ UNCHANGED <<options, gone, stack, call, archive>>
    BY <1>5 DEF ArchiveFails
  <2>2. AtHand = archive.inode
    BY <1>1, <2>1 DEF AtHand
  <2>3. archive.inode \in Refusing \/ BreaksOff(archive.inode)
    <3> SUFFICES ASSUME HasHeader, Header = "error" PROVE BreaksOff(archive.inode)
      BY <2>1 DEF BadHeader
    <3>1. archive.n \in DOMAIN Members[archive.inode] /\ Members[archive.inode][archive.n] = "error"
      BY <1>1, <2>1, FileWalkAssumption DEF HasHeader, Header
    <3> QED
      BY <1>1, <2>1, <3>1 DEF BreaksOff, IsArchive
  <2> QED
    BY <1>1, <2>1, <2>2, <2>3
<1>6. CASE ReadDirectoryFails
  <2>1. Reading /\ frame.dir \in Refusing /\ UNCHANGED <<options, gone, stack, call, archive>>
    BY <1>6 DEF ReadDirectoryFails
  <2>2. AtHand = frame.dir
    BY <2>1 DEF AtHand, Reading
  <2>3. frame.dir \in Reachable({})
    BY <1>1, <2>1, FrameShape
  <2> QED
    BY <2>1, <2>2, <2>3
<1>7. \/ Ended \/ StatFails \/ OpenDirectoryFails \/ OpenArchiveFails \/ ArchiveFails \/ ReadDirectoryFails
      \/ phase = "walk" /\ (phase' = phase \/ phase' = "done")
  BY DEF Next, Walk, NextArg, Finish, SkipBrokenLink, SkipShut, SkipLink, OpenDirectory, AddFile, OpenArchive,
         AddMember, EndArchive, SkipName, VisitName, LeaveLoop, CloseDirectory, Vanish, Return, Open, Called,
         HasHeader, Reading
<1> QED
  BY <1>2, <1>3, <1>4, <1>5, <1>6, <1>7

\* Neither a broken link nor a circle of links stops the program, nor anything that the
\* options leave out: unless the tree changes, the walk ends early only at a file that it
\* should come to, when the system refuses to describe, open or read it, or when it is an
\* archive that is broken in the middle.
THEOREM OnlyFaultStops == Spec => []FailsOnlyByFault
<1>1. Init => FailsOnlyByFault
  BY DEF Init, FailsOnlyByFault
<1>2. /\ LoopInv /\ UntarInv /\ ShapeInv /\ AheadInv /\ SoundInv /\ FailsOnlyByFault
      /\ [Next]_vars
      => FailsOnlyByFault'
  <2>1. ASSUME FailsOnlyByFault, UNCHANGED vars PROVE FailsOnlyByFault'
    BY <2>1, AtHandKept DEF vars, FailsOnlyByFault
  <2> QED
    BY <2>1, FaultStep
<1> QED
  BY <1>1, <1>2, LoopInvariant, WalkInvariant, PTL DEF Spec
================================================================================

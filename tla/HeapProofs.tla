------------------------------- MODULE HeapProofs -------------------------------
(***************************************************************************)
(* Proofs about Heap, for any data, any weights and any size of the first  *)
(* array: the loops preserve HeapInv, so that the heap is ordered between  *)
(* two calls, and extraction returns a datum of the highest weight.        *)
(* What Heap guarantees to one thread it guarantees to any number of       *)
(* threads that go through the reentrant functions of ReentrantHeap:       *)
(* their steps are steps of Heap, and never of two calls at a time.        *)
(***************************************************************************)
EXTENDS ReentrantHeap, WellFoundedInduction, TLAPS

\* Where a position stands between its parent and its children.
LEMMA Positions ==
  ASSUME NEW n \in Nat
  PROVE  /\ Left(n) \in Nat \ {0} /\ Right(n) \in Nat \ {0}
         /\ Left(n) > n /\ Right(n) = Left(n) + 1
         /\ Parent(Left(n)) = n /\ Parent(Right(n)) = n
         /\ n > 0 => Parent(n) \in Nat /\ Parent(n) < n
         /\ n > 0 => n = Left(Parent(n)) \/ n = Right(Parent(n))
BY DEF Left, Right, Parent

\* The same for the positions up to a bound: the parent of each but the first is
\* one of them, and comes before it.
LEMMA ParentInRange ==
  ASSUME NEW a \in Int
  PROVE  \A n \in (0..a) \ {0} : /\ Parent(n) \in 0..a
                                 /\ Parent(n) < n
                                 /\ n \in {Left(Parent(n)), Right(Parent(n))}
<1> TAKE n \in (0..a) \ {0}
<1>1. n \in Nat /\ n > 0 /\ n <= a
  OBVIOUS
<1> QED
  BY <1>1, Positions

\* A nonempty set of natural numbers has a least element.
LEMMA LeastElement ==
  ASSUME NEW T, T \subseteq Nat, T # {}
  PROVE  \E x \in T : \A y \in T : x <= y
<1>1. PICK x \in T : \A y \in T : ~ (<<y, x>> \in OpToRel(<, Nat))
  BY NatLessThanWellFounded, WFMin
<1>2. ASSUME NEW y \in T
      PROVE  x <= y
  <2>1. x \in Nat /\ y \in Nat
    OBVIOUS
  <2>2. ~ (<<y, x>> \in OpToRel(<, Nat))
    BY <1>1
  <2>3. ~ (y < x)
    BY <2>1, <2>2, Zenon DEF OpToRel
  <2> QED
    BY <2>1, <2>3
<1> QED
  BY <1>2

\* What mpos finds: a child that is higher than the datum and than its sibling, or
\* the datum itself when it has no higher child.
LEMMA HighestChild ==
  ASSUME TypeOK, CellsFilled, ~lost, pc = "down"
  PROVE  /\ mpos \in {ipos, Left(ipos), Right(ipos)}
         /\ mpos # ipos =>
              /\ mpos < count /\ ipos < count /\ mpos \in Nat
              /\ Weight[tree[ipos]] < Weight[tree[mpos]]
         /\ \A n \in {Left(ipos), Right(ipos)} :
              n < count => Weight[tree[n]] <= Weight[tree[mpos]]
<1> USE HeapAssumption DEF TypeOK
<1>1. \A n \in 0..(count - 1) : Weight[tree[n]] \in Nat
  BY DEF CellsFilled, Cells, used
<1>2. /\ ipos \in Nat /\ count \in Nat /\ Left(ipos) \in Nat /\ Right(ipos) = Left(ipos) + 1
      /\ Left(ipos) > ipos
  <2>1. ipos \in Nat /\ count \in Nat
    OBVIOUS
  <2> HIDE DEF TypeOK
  <2> QED
    BY <2>1, Positions
<1>3. Left(ipos) < count => Weight[tree[Left(ipos)]] \in Nat /\ Weight[tree[ipos]] \in Nat
  BY <1>1, <1>2
<1>4. Right(ipos) < count => Weight[tree[Right(ipos)]] \in Nat /\ Left(ipos) < count
  BY <1>1, <1>2
<1> DEFINE l == Left(ipos)
           r == Right(ipos)
           h == IF l < count /\ Weight[tree[ipos]] < Weight[tree[l]] THEN l ELSE ipos
<1>5. mpos = IF r < count /\ Weight[tree[h]] < Weight[tree[r]] THEN r ELSE h
  BY DEF mpos, Lower
<1> HIDE HeapAssumption
<1> HIDE DEF l, r, TypeOK
<1>6. /\ l < count => Weight[tree[l]] \in Nat /\ Weight[tree[ipos]] \in Nat
      /\ r < count => Weight[tree[r]] \in Nat /\ l < count
      /\ ipos \in Nat /\ count \in Nat /\ l \in Nat /\ r = l + 1 /\ l > ipos
  BY <1>2, <1>3, <1>4 DEF l, r
<1>7. /\ h \in {ipos, l}
      /\ h # ipos => h < count /\ Weight[tree[ipos]] < Weight[tree[h]]
      /\ l < count => Weight[tree[l]] <= Weight[tree[h]] /\ Weight[tree[ipos]] <= Weight[tree[h]]
                      /\ Weight[tree[h]] \in Nat
  BY <1>6
<1> HIDE DEF h
<1>8. /\ mpos \in {ipos, l, r}
      /\ mpos # ipos =>
           /\ mpos < count /\ ipos < count /\ mpos \in Nat
           /\ Weight[tree[ipos]] < Weight[tree[mpos]]
      /\ \A n \in {l, r} : n < count => Weight[tree[n]] <= Weight[tree[mpos]]
  <2>1. CASE mpos = h
    BY <1>5, <1>6, <1>7, <2>1
  <2>2. CASE mpos # h
    BY <1>5, <1>6, <1>7, <2>2
  <2> QED
    BY <2>1, <2>2
<1> QED
  BY <1>8 DEF l, r

LEMMA TypeStep ==
  ASSUME TypeOK, MovingCell, CellsFilled, [Next]_vars
  PROVE  TypeOK'
<1> USE HeapAssumption DEF TypeOK
<1>1. ASSUME NEW d \in Data, Insert(d)
      PROVE  TypeOK'
  BY <1>1 DEF Insert, Place, Full
<1>2. ASSUME NEW d \in Data, InsertGrows(d)
      PROVE  TypeOK'
  <2>1. max' = 2 * max /\ max' \in Nat \ {0} /\ count' \in 0..max' /\ ipos' \in 0..(max' - 1)
    BY <1>2 DEF InsertGrows, Place, Full, new_max
  <2>2. Grown \in [0..(max' - 1) -> Data \cup {Null, Wild}]
    BY <2>1 DEF Grown, new_max
  <2> QED
    BY <1>2, <2>1, <2>2 DEF InsertGrows, Place
<1>3. CASE InsertFails
  BY <1>3 DEF InsertFails
<1>4. CASE InsertCrashes
  BY <1>4 DEF InsertCrashes
<1>5. CASE Rise
  <2>1. Parent(ipos) \in 0..(max - 1)
    BY <1>5, Positions DEF Rise, MustRise
  <2> QED
    BY <1>5, <2>1 DEF Rise, Swapped
<1>6. CASE InsertReturns
  BY <1>6 DEF InsertReturns, MovingCell
<1>7. CASE Extract
  BY <1>7 DEF Extract, CellsFilled, Cells, used
<1>8. CASE ExtractNothing
  BY <1>8 DEF ExtractNothing
<1>9. CASE Sink
  <2>1. mpos \in 0..(max - 1)
    BY <1>9, HighestChild DEF Sink, MovingCell
  <2> QED
    BY <1>9, <2>1 DEF Sink, Swapped
<1>10. CASE ExtractReturns
  BY <1>10 DEF ExtractReturns
<1>11. CASE UNCHANGED vars
  BY <1>11 DEF vars
<1> QED
  BY <1>1, <1>2, <1>3, <1>4, <1>5, <1>6, <1>7, <1>8, <1>9, <1>10, <1>11 DEF Next, Crashed

LEMMA MovingCellStep ==
  ASSUME TypeOK, MovingCell, [Next]_vars
  PROVE  MovingCell'
<1> USE DEF TypeOK, MovingCell
<1>1. ASSUME NEW d \in Data, Insert(d) \/ InsertGrows(d)
      PROVE  MovingCell'
  BY <1>1 DEF Insert, InsertGrows, Place, Full, new_max
<1>2. CASE Rise
  BY <1>2, Positions DEF Rise, MustRise
<1>3. CASE InsertReturns
  BY <1>3 DEF InsertReturns
<1>4. CASE InsertFails \/ InsertCrashes
  BY <1>4 DEF InsertFails, InsertCrashes, Full
<1>5. CASE Extract \/ ExtractNothing \/ Sink \/ ExtractReturns \/ UNCHANGED vars
  BY <1>5 DEF Extract, ExtractNothing, Sink, ExtractReturns, vars
<1> QED
  BY <1>1, <1>2, <1>3, <1>4, <1>5 DEF Next, Crashed

\* Exchanging two cells keeps the data, each in one cell.
LEMMA SwapKeepsCells ==
  ASSUME TypeOK, CellsFilled, CellsDistinct, ~lost,
         NEW m \in Cells, NEW n \in Cells, Cells \subseteq 0..(max - 1),
         tree' = Swapped(m, n), Cells' = Cells, UNCHANGED lost
  PROVE  CellsFilled' /\ CellsDistinct' /\ Contents' = Contents
<1>1. \A k \in Cells : tree'[k] = IF k = m THEN tree[n] ELSE IF k = n THEN tree[m] ELSE tree[k]
  BY DEF TypeOK, Swapped
<1>2. CellsFilled'
  BY <1>1 DEF CellsFilled
<1>3. CellsDistinct'
  BY <1>1 DEF CellsDistinct
<1>4. {tree'[k] : k \in Cells} = {tree[k] : k \in Cells}
  BY <1>1
<1> QED
  BY <1>2, <1>3, <1>4 DEF Contents

\* The cells in use after each step, as numbers.
LEMMA CellsAre ==
  ASSUME TypeOK, MovingCell
  PROVE  /\ Cells \subseteq 0..(max - 1)
         /\ pc = "up" => Cells = 0..count
         /\ pc # "up" => Cells = 0..(count - 1)
BY DEF TypeOK, MovingCell, Cells, used

LEMMA CellsStep ==
  ASSUME TypeOK, MovingCell, CellsFilled, CellsDistinct, TypeOK', MovingCell', [Next]_vars
  PROVE  CellsFilled' /\ CellsDistinct'
<1> USE HeapAssumption DEF TypeOK, MovingCell, CellsFilled, CellsDistinct
<1>1. ASSUME NEW d \in Data, Insert(d) \/ InsertGrows(d)
      PROVE  CellsFilled' /\ CellsDistinct'
  <2>1. Cells = 0..(count - 1) /\ Cells' = 0..count /\ ~lost /\ ~lost'
    BY <1>1 DEF Insert, InsertGrows, Place, Cells, used
  <2>2. /\ \A n \in Cells : tree'[n] = tree[n]
        /\ tree'[count] = d
    <3>1. CASE Insert(d)
      BY <2>1, <3>1 DEF Insert, Place, Full
    <3>2. CASE InsertGrows(d)
      <4>1. \A n \in Cells : n # count /\ n < count /\ n \in 0..(new_max - 1)
        BY <2>1 DEF new_max
      <4>2. tree' = [Grown EXCEPT ![count] = d] /\ count \in 0..(new_max - 1)
        BY <3>2 DEF InsertGrows, Place, new_max
      <4> QED
        BY <4>1, <4>2 DEF Grown
    <3> QED
      BY <1>1, <3>1, <3>2
  <2>3. \A n \in Cells : tree[n] # d
    BY <1>1, <2>1 DEF Insert, InsertGrows, Contents
  <2>4. \A n \in Cells' : n = count \/ n \in Cells
    BY <2>1
  <2> HIDE DEF TypeOK, MovingCell
  <2>5. CellsFilled'
    BY <2>1, <2>2, <2>4
  <2>6. CellsDistinct'
    BY <2>1, <2>2, <2>3, <2>4
  <2> QED
    BY <2>5, <2>6
<1>2. CASE Rise
  <2>1. Cells = 0..count /\ Cells' = Cells /\ ipos \in Cells /\ Parent(ipos) \in Cells /\ ~lost
        /\ Cells \subseteq 0..(max - 1)
    BY <1>2, Positions DEF Rise, MustRise, Cells, used
  <2> QED
    BY <1>2, <2>1, SwapKeepsCells DEF Rise
<1>3. CASE Sink
  <2>1. Cells = 0..(count - 1) /\ Cells' = Cells /\ ipos \in Cells /\ mpos \in Cells /\ ~lost
        /\ Cells \subseteq 0..(max - 1)
    BY <1>3, HighestChild DEF Sink, Cells, used
  <2> QED
    BY <1>3, <2>1, SwapKeepsCells DEF Sink
<1>4. CASE Extract
  <2>1. Cells = 0..(count - 1) /\ Cells' = 0..(count - 2) /\ ~lost /\ count > 0
    BY <1>4 DEF Extract, Cells, used
  <2>2. \A n \in Cells' : tree'[n] = IF n = 0 THEN tree[count - 1] ELSE tree[n]
    BY <1>4, <2>1 DEF Extract
  <2>3. count - 1 \in Cells /\ \A n \in Cells' : n \in Cells /\ n # count - 1
    BY <2>1
  <2>4. ~lost'
    BY <1>4 DEF Extract
  <2> HIDE DEF TypeOK, MovingCell
  <2>5. CellsFilled'
    BY <2>1, <2>2, <2>3, <2>4
  <2>6. CellsDistinct'
    BY <2>1, <2>2, <2>3, <2>4
  <2> QED
    BY <2>5, <2>6
<1>5. CASE InsertReturns
  <2>1. Cells' = Cells /\ UNCHANGED <<tree, lost>>
    BY <1>5 DEF InsertReturns, Cells, used
  <2> QED
    BY <2>1
<1>6. CASE InsertFails
  BY <1>6 DEF InsertFails
<1>7. CASE InsertCrashes \/ ExtractNothing \/ ExtractReturns \/ UNCHANGED vars
  BY <1>7 DEF InsertCrashes, ExtractNothing, ExtractReturns, vars, Cells, used
<1> QED
  BY <1>1, <1>2, <1>3, <1>4, <1>5, <1>6, <1>7 DEF Next, Crashed

\* The weight of a cell in use is a number.
LEMMA Weights ==
  ASSUME CellsFilled, ~lost
  PROVE  \A n \in Cells : Weight[tree[n]] \in Nat
BY HeapAssumption DEF CellsFilled

LEMMA OrderedAfterRise ==
  ASSUME TypeOK, MovingCell, CellsFilled, OrderedAround, Rise
  PROVE  OrderedAround'
<1> DEFINE p == Parent(ipos)
<1> DEFINE W(n) == Weight[tree[n]]
<1>1. /\ pc = "up" /\ pc' = "up" /\ ~lost /\ ~lost' /\ ipos > 0 /\ ipos' = p
      /\ Cells = 0..count /\ Cells' = Cells /\ ipos \in Cells /\ p \in Cells /\ p < ipos
      /\ Cells \subseteq 0..(max - 1) /\ count \in Nat
  <2>1. /\ pc = "up" /\ pc' = "up" /\ ~lost /\ ~lost' /\ ipos > 0 /\ ipos' = p
        /\ Cells = 0..count /\ Cells' = Cells /\ count \in Nat /\ ipos \in 0..count
        /\ Cells \subseteq 0..(max - 1)
    BY CellsAre DEF Rise, MustRise, MovingCell, TypeOK, Cells, used
  <2>2. p \in 0..count /\ p < ipos
    BY <2>1, ParentInRange
  <2> QED
    BY <2>1, <2>2
<1>2. /\ tree' = Swapped(p, ipos)
      /\ \A n \in Cells : tree'[n] = IF n = p THEN tree[ipos] ELSE IF n = ipos THEN tree[p] ELSE tree[n]
  BY <1>1 DEF Rise, Swapped, TypeOK
<1>3. \A n \in Cells : W(n) \in Nat
  BY <1>1, Weights
<1>4. W(p) < W(ipos)
  BY DEF Rise, MustRise, Lower
<1>5. \A n \in Cells \ {0} : n # ipos => W(n) <= W(Parent(n))
  BY <1>1 DEF OrderedAround
<1>6. \A n \in Cells \ {0} : Parent(n) = ipos => W(n) <= W(p)
  BY <1>1 DEF OrderedAround
<1>7. \A n \in Cells \ {0} : Parent(n) \in Cells /\ Parent(n) < n
  BY <1>1, ParentInRange
<1> HIDE DEF p, W
<1>8. ASSUME NEW n \in Cells \ {0}, n # p
      PROVE  Weight[tree'[n]] <= Weight[tree'[Parent(n)]]
  <2>1. Parent(n) \in Cells /\ Parent(n) < n
    BY <1>7
  <2>2. CASE n = ipos
    BY <1>1, <1>2, <1>3, <1>4, <2>2 DEF p, W
  <2>3. CASE n # ipos /\ Parent(n) = ipos
    BY <1>1, <1>2, <1>3, <1>6, <1>8, <2>3 DEF W
  <2>4. CASE n # ipos /\ Parent(n) = p
    <3>1. W(n) <= W(p)
      BY <1>5, <2>4
    <3> QED
      BY <1>1, <1>2, <1>3, <1>4, <1>8, <2>4, <3>1 DEF W
  <2>5. CASE n # ipos /\ Parent(n) # ipos /\ Parent(n) # p
    BY <1>2, <1>5, <1>8, <2>1, <2>5 DEF W
  <2> QED
    BY <2>2, <2>3, <2>4, <2>5
<1>9. ASSUME NEW n \in Cells \ {0}, p > 0, Parent(n) = p
      PROVE  Weight[tree'[n]] <= Weight[tree'[Parent(p)]]
  <2>1. Parent(p) \in Cells /\ Parent(p) < p /\ p # ipos /\ n # p
    BY <1>1, <1>7, <1>9
  <2>2. tree'[Parent(p)] = tree[Parent(p)] /\ W(p) <= W(Parent(p))
    BY <1>1, <1>2, <1>5, <1>9, <2>1
  <2>3. tree'[n] = IF n = ipos THEN tree[p] ELSE tree[n]
    BY <1>2, <2>1
  <2>4. n # ipos => W(n) <= W(p)
    BY <1>5, <1>9
  <2> QED
    BY <1>1, <1>3, <2>1, <2>2, <2>3, <2>4 DEF W
<1> QED
  BY <1>1, <1>8, <1>9 DEF OrderedAround

LEMMA OrderedAfterSink ==
  ASSUME TypeOK, MovingCell, CellsFilled, OrderedAround, Sink
  PROVE  OrderedAround'
<1> DEFINE m == mpos
<1> DEFINE W(n) == Weight[tree[n]]
<1>1. /\ pc = "down" /\ pc' = "down" /\ ~lost /\ ~lost' /\ ipos' = m /\ m # ipos
      /\ Cells = 0..(count - 1) /\ Cells' = Cells /\ count \in Nat /\ ipos \in Nat
      /\ Cells \subseteq 0..(max - 1)
  BY CellsAre DEF Sink, MovingCell, TypeOK, Cells, used
<1>2. /\ ipos \in Cells /\ m \in Cells /\ Parent(m) = ipos /\ ipos < m
      /\ W(ipos) < W(m)
      /\ \A n \in Cells \ {0} : Parent(n) = ipos => W(n) <= W(m)
  <2>1. /\ m \in {Left(ipos), Right(ipos)} /\ m < count /\ ipos < count /\ m \in Nat
        /\ W(ipos) < W(m)
        /\ \A n \in {Left(ipos), Right(ipos)} : n < count => W(n) <= W(m)
    BY <1>1, HighestChild
  <2>2. /\ Parent(Left(ipos)) = ipos /\ Parent(Right(ipos)) = ipos
        /\ Left(ipos) \in Nat /\ Left(ipos) > ipos /\ Right(ipos) = Left(ipos) + 1
    BY <1>1, Positions
  <2>3. \A n \in Cells \ {0} : Parent(n) = ipos => n \in {Left(ipos), Right(ipos)} /\ n < count
    BY <1>1, ParentInRange
  <2> QED
    BY <1>1, <2>1, <2>2, <2>3
<1>3. \A n \in Cells : tree'[n] = IF n = m THEN tree[ipos] ELSE IF n = ipos THEN tree[m] ELSE tree[n]
  BY <1>1, <1>2 DEF Sink, Swapped, TypeOK
<1>4. \A n \in Cells : W(n) \in Nat
  BY <1>1, Weights
<1>5. \A n \in Cells \ {0} : Parent(n) # ipos => W(n) <= W(Parent(n))
  BY <1>1 DEF OrderedAround
<1>6. ipos > 0 => \A n \in Cells \ {0} : Parent(n) = ipos => W(n) <= W(Parent(ipos))
  BY <1>1 DEF OrderedAround
<1>7. \A n \in Cells \ {0} : Parent(n) \in Cells /\ Parent(n) < n
  BY <1>1, ParentInRange
<1> HIDE DEF m, W
<1>8. ASSUME NEW n \in Cells \ {0}, Parent(n) # m
      PROVE  Weight[tree'[n]] <= Weight[tree'[Parent(n)]]
  <2>1. Parent(n) \in Cells /\ Parent(n) < n
    BY <1>7
  <2>2. CASE n = m
    BY <1>1, <1>2, <1>3, <1>4, <2>2 DEF W
  <2>3. CASE n = ipos
    <3>1. W(m) <= W(Parent(ipos)) /\ Parent(ipos) # m /\ Parent(ipos) # ipos
      BY <1>1, <1>2, <1>6, <1>7, <2>3
    <3>2. tree'[ipos] = tree[m] /\ tree'[Parent(ipos)] = tree[Parent(ipos)]
      BY <1>2, <1>3, <1>7, <2>1, <2>3, <3>1
    <3>3. Weight[tree'[ipos]] <= Weight[tree'[Parent(ipos)]]
      BY <3>1, <3>2 DEF W
    <3> QED
      BY <2>3, <3>3
  <2>4. CASE n # m /\ Parent(n) = ipos
    <3>1. W(n) <= W(m)
      BY <1>2, <2>4
    <3>2. n # ipos
      BY <1>1, <2>1, <2>4
    <3> QED
      BY <1>1, <1>2, <1>3, <2>4, <3>1, <3>2 DEF W
  <2>5. CASE n # m /\ n # ipos /\ Parent(n) # ipos
    BY <1>3, <1>5, <1>8, <2>1, <2>5 DEF W
  <2> QED
    BY <2>2, <2>3, <2>4, <2>5
<1>9. ASSUME NEW n \in Cells \ {0}, Parent(n) = m
      PROVE  Weight[tree'[n]] <= Weight[tree'[Parent(m)]]
  <2>1. n # m /\ n # ipos /\ W(n) <= W(m)
    BY <1>1, <1>2, <1>5, <1>7, <1>9
  <2> QED
    BY <1>2, <1>3, <2>1 DEF W
<1> QED
  BY <1>1, <1>8, <1>9 DEF OrderedAround, m

LEMMA OrderedStep ==
  ASSUME TypeOK, MovingCell, CellsFilled, OrderedAround, TypeOK', MovingCell', [Next]_vars
  PROVE  OrderedAround'
<1>1. ASSUME NEW d \in Data, Insert(d) \/ InsertGrows(d)
      PROVE  OrderedAround'
  <2>1. /\ Cells = 0..(count - 1) /\ Cells' = 0..count /\ ~lost /\ count \in Nat
        /\ pc = "idle" /\ pc' = "up" /\ ipos' = count
    BY <1>1 DEF Insert, InsertGrows, Place, Cells, used, TypeOK
  <2>2. \A n \in Cells : tree'[n] = tree[n]
    <3>1. CASE Insert(d)
      BY <2>1, <3>1 DEF Insert, Place, Full, TypeOK
    <3>2. CASE InsertGrows(d)
      <4>1. \A n \in Cells : n # count /\ n < count /\ n \in 0..(new_max - 1)
        BY <2>1 DEF new_max, TypeOK
      <4>2. tree' = [Grown EXCEPT ![count] = d] /\ count \in 0..(new_max - 1)
        BY <3>2 DEF InsertGrows, Place, new_max, TypeOK
      <4> QED
        BY <4>1, <4>2 DEF Grown
    <3> QED
      BY <1>1, <3>1, <3>2
  <2>3. \A n \in Cells \ {0} : Weight[tree[n]] <= Weight[tree[Parent(n)]]
    BY <2>1 DEF OrderedAround
  <2>4. \A n \in Cells' \ {0} : /\ Parent(n) \in Cells
                                /\ Parent(n) # count
                                /\ n # count => n \in Cells \ {0}
    BY <2>1, ParentInRange
  <2> QED
    BY <2>1, <2>2, <2>3, <2>4 DEF OrderedAround
<1>2. CASE InsertReturns
  <2>1. /\ Cells = 0..count /\ Cells' = Cells /\ UNCHANGED <<tree, lost>> /\ ~lost
        /\ pc = "up" /\ pc' = "idle" /\ ipos \in Nat /\ count \in Nat /\ ipos \in Cells
    BY <1>2 DEF InsertReturns, Cells, used, TypeOK, MovingCell
  <2>2. \A n \in Cells : Weight[tree[n]] \in Nat
    BY <2>1, Weights
  <2>3. ipos > 0 => Weight[tree[ipos]] <= Weight[tree[Parent(ipos)]]
    <3>1. ipos > 0 => Parent(ipos) \in Cells
      BY <2>1, ParentInRange
    <3> QED
      BY <1>2, <2>1, <2>2, <3>1 DEF InsertReturns, MustRise, Lower
  <2> QED
    BY <2>1, <2>3 DEF OrderedAround
<1>3. CASE Extract
  <2>1. /\ Cells = 0..(count - 1) /\ Cells' = 0..(count - 2) /\ ~lost /\ count \in Nat /\ count > 0
        /\ pc = "idle" /\ pc' = "down" /\ ipos' = 0
    BY <1>3 DEF Extract, Cells, used, TypeOK
  <2>2. \A n \in Cells' \ {0} : tree'[n] = tree[n]
    BY <1>3, <2>1 DEF Extract, TypeOK
  <2>3. \A n \in Cells' \ {0} : Parent(n) \in Cells' /\ n \in Cells \ {0}
    BY <2>1, ParentInRange
  <2>4. \A n \in Cells \ {0} : Weight[tree[n]] <= Weight[tree[Parent(n)]]
    BY <2>1 DEF OrderedAround
  <2> QED
    BY <2>1, <2>2, <2>3, <2>4 DEF OrderedAround
<1>4. CASE ExtractReturns
  <2>1. /\ Cells = 0..(count - 1) /\ Cells' = Cells /\ UNCHANGED <<tree, lost>> /\ ~lost
        /\ pc = "down" /\ pc' = "idle" /\ ipos \in Nat /\ count \in Nat /\ mpos = ipos
    BY <1>4 DEF ExtractReturns, Cells, used, TypeOK, MovingCell
  <2>2. \A n \in {Left(ipos), Right(ipos)} : n < count => Weight[tree[n]] <= Weight[tree[ipos]]
    BY <2>1, HighestChild
  <2>3. \A n \in Cells \ {0} : Parent(n) = ipos => n \in {Left(ipos), Right(ipos)} /\ n < count
    BY <2>1, ParentInRange
  <2> QED
    BY <2>1, <2>2, <2>3 DEF OrderedAround
<1>5. CASE InsertFails
  BY <1>5 DEF InsertFails, OrderedAround
<1>6. CASE InsertCrashes \/ ExtractNothing \/ UNCHANGED vars
  BY <1>6 DEF InsertCrashes, ExtractNothing, vars, OrderedAround, Cells, used
<1> QED
  BY <1>1, <1>2, <1>3, <1>4, <1>5, <1>6, OrderedAfterRise, OrderedAfterSink DEF Next, Crashed

LEMMA HeapInvInit == Init => HeapInv
<1> SUFFICES ASSUME Init
             PROVE  HeapInv
  OBVIOUS
<1>1. TypeOK /\ MovingCell
  <2>1. tree \in [0..(max - 1) -> Data \cup {Null, Wild}]
    BY DEF Init
  <2>2. max \in Nat \ {0} /\ count \in 0..max /\ ipos \in 0..(max - 1) /\ faults \in 0..MaxFaults
    BY HeapAssumption DEF Init
  <2>3. lost = FALSE /\ pc = "idle" /\ ret = Null
    BY DEF Init
  <2> QED
    BY <2>1, <2>2, <2>3 DEF TypeOK, MovingCell
<1>2. Cells = {}
  BY DEF Init, Cells, used
<1>3. CellsFilled /\ CellsDistinct /\ OrderedAround
  BY <1>2 DEF CellsFilled, CellsDistinct, OrderedAround
<1> QED
  BY <1>1, <1>3 DEF HeapInv

LEMMA HeapInvStep == HeapInv /\ [Next]_vars => HeapInv'
<1> SUFFICES ASSUME HeapInv, [Next]_vars
             PROVE  HeapInv'
  OBVIOUS
<1> USE DEF HeapInv
<1>1. TypeOK'
  BY TypeStep
<1>2. MovingCell'
  BY MovingCellStep
<1>3. CellsFilled' /\ CellsDistinct'
  BY <1>1, <1>2, CellsStep
<1>4. OrderedAround'
  BY <1>1, <1>2, OrderedStep
<1> QED
  BY <1>1, <1>2, <1>3, <1>4

\* The array is never written or read beyond its end, every cell in use holds a
\* datum, each datum is in one cell, and only the moving datum is out of order.
THEOREM HeapInvariant == Spec => []HeapInv
<1>1. Init => HeapInv
  BY HeapInvInit
<1>2. HeapInv /\ [Next]_vars => HeapInv'
  BY HeapInvStep
<1> QED
  BY <1>1, <1>2, PTL DEF Spec

\* Between two calls no datum is higher than its parent, so that what
\* napr_heap_extract takes from the root is the highest.
THEOREM Ordered == Spec => []HeapOrder
<1>1. HeapInv => HeapOrder
  <2> SUFFICES ASSUME HeapInv, pc = "idle", ~lost
               PROVE  \A n \in 1..(count - 1) : Weight[tree[n]] <= Weight[tree[Parent(n)]]
    BY DEF HeapOrder
  <2>1. Cells = 0..(count - 1) /\ count \in Nat
    BY CellsAre DEF HeapInv, TypeOK
  <2>2. \A n \in 1..(count - 1) : n \in Cells \ {0}
    BY <2>1
  <2> QED
    BY <2>2 DEF HeapInv, OrderedAround
<1> QED
  BY <1>1, HeapInvariant, PTL

\* napr_heap_get_nth enumerates the data of the heap, each once.
THEOREM Enumerated == Spec => []NthEnumerates
<1>1. HeapInv => NthEnumerates
  <2> SUFFICES ASSUME HeapInv, pc = "idle", ~lost
               PROVE  NthEnumerates
    BY DEF NthEnumerates
  <2>1. Cells = 0..(count - 1) /\ count \in Nat
    BY CellsAre DEF HeapInv, TypeOK
  <2>2. \A n \in Cells : napr_heap_get_nth(n) = tree[n]
    BY <2>1 DEF napr_heap_get_nth
  <2> QED
    BY <2>1, <2>2 DEF HeapInv, CellsFilled, CellsDistinct, NthEnumerates
<1> QED
  BY <1>1, HeapInvariant, PTL

--------------------------------------------------------------------------------
(* The heap as a priority queue. *)

\* When no datum is higher than its parent, none is higher than the root.  The
\* first position that held a higher one would have a parent as high, before it.
LEMMA RootIsHighest ==
  ASSUME HeapInv, pc = "idle", ~lost
  PROVE  \A n \in Cells : Weight[tree[n]] <= Weight[tree[0]]
<1> DEFINE Higher == {n \in Cells : ~ (Weight[tree[n]] <= Weight[tree[0]])}
<1>1. Cells = 0..(count - 1) /\ count \in Nat
  BY CellsAre DEF HeapInv, TypeOK
<1>2. \A n \in Cells : Weight[tree[n]] \in Nat
  BY Weights DEF HeapInv
<1>3. ASSUME Higher # {}
      PROVE  FALSE
  <2>1. Higher \subseteq Nat
    BY <1>1
  <2>2. PICK n \in Higher : \A k \in Higher : n <= k
    BY <1>3, <2>1, LeastElement
  <2>3. n \in Cells /\ 0 \in Cells /\ n # 0
    BY <1>1, <1>2, <2>2
  <2>4. Parent(n) \in Cells /\ Parent(n) < n
    BY <1>1, <2>3, ParentInRange
  <2>5. Weight[tree[n]] <= Weight[tree[Parent(n)]]
    BY <2>3 DEF HeapInv, OrderedAround
  <2>6. Parent(n) \in Higher
    BY <1>2, <2>2, <2>3, <2>4, <2>5
  <2> QED
    BY <1>1, <2>2, <2>3, <2>4, <2>6
<1> QED
  BY <1>3

LEMMA PriorityQueueInit == Init => Promise!Init
BY HeapAssumption DEF Init, Promise!Init, Contents, Cells, used

LEMMA PriorityQueueStep ==
  ASSUME HeapInv, HeapInv', [Next]_vars
  PROVE  [Promise!Next]_<<Contents, ret>>
<1> USE DEF HeapInv
<1>1. ASSUME NEW d \in Data, Insert(d) \/ InsertGrows(d)
      PROVE  Promise!Insert
  <2>1. /\ Cells = 0..(count - 1) /\ Cells' = 0..count /\ ~lost /\ ~lost' /\ count \in Nat
        /\ d \notin Contents /\ ret' = ret
    BY <1>1 DEF Insert, InsertGrows, Place, Cells, used, TypeOK
  <2>2. /\ \A n \in Cells : tree'[n] = tree[n]
        /\ tree'[count] = d
    <3>1. CASE Insert(d)
      BY <2>1, <3>1 DEF Insert, Place, Full, TypeOK
    <3>2. CASE InsertGrows(d)
      <4>1. \A n \in Cells : n # count /\ n < count /\ n \in 0..(new_max - 1)
        BY <2>1 DEF new_max, TypeOK
      <4>2. tree' = [Grown EXCEPT ![count] = d] /\ count \in 0..(new_max - 1)
        BY <3>2 DEF InsertGrows, Place, new_max, TypeOK
      <4> QED
        BY <4>1, <4>2 DEF Grown
    <3> QED
      BY <1>1, <3>1, <3>2
  <2>3. Cells' = Cells \cup {count}
    BY <2>1
  <2>4. Contents' = Contents \cup {d}
    BY <2>1, <2>2, <2>3 DEF Contents
  <2> QED
    BY <2>1, <2>4 DEF Promise!Insert
<1>2. CASE Extract
  <2>1. /\ Cells = 0..(count - 1) /\ Cells' = 0..(count - 2) /\ ~lost /\ ~lost' /\ count \in Nat
        /\ count > 0 /\ pc = "idle" /\ ret' = tree[0] /\ 0 \in Cells
    BY <1>2 DEF Extract, Cells, used, TypeOK
  <2>2. \A n \in Cells' : tree'[n] = IF n = 0 THEN tree[count - 1] ELSE tree[n]
    BY <1>2, <2>1 DEF Extract, TypeOK
  <2>3. Contents = {tree[n] : n \in Cells} /\ Contents' = {tree'[n] : n \in Cells'}
    BY <2>1 DEF Contents
  <2>4. \A e \in Contents : Weight[e] <= Weight[tree[0]]
    BY <2>1, <2>3, RootIsHighest
  <2>5. ASSUME NEW n \in Cells'
        PROVE  tree'[n] \in Contents \ {tree[0]}
    <3>1. /\ n = 0 => count - 1 \in Cells /\ count - 1 # 0
          /\ n # 0 => n \in Cells
      BY <2>1
    <3> QED
      BY <2>1, <2>2, <2>3, <3>1 DEF CellsDistinct
  <2>6. ASSUME NEW n \in Cells, tree[n] # tree[0]
        PROVE  tree[n] \in Contents'
    <3>1. CASE n = count - 1
      <4>1. 0 \in Cells' /\ tree'[0] = tree[n]
        BY <2>1, <2>2, <2>6, <3>1
      <4> QED
        BY <2>3, <4>1
    <3>2. CASE n # count - 1
      <4>1. n \in Cells' /\ tree'[n] = tree[n]
        BY <2>1, <2>2, <2>6, <3>2
      <4> QED
        BY <2>3, <4>1
    <3> QED
      BY <3>1, <3>2
  <2>7. Contents' = Contents \ {ret'}
    BY <2>1, <2>3, <2>5, <2>6
  <2> QED
    BY <2>1, <2>3, <2>4, <2>7 DEF Promise!Next, Promise!Extract, Promise!Highest
<1>3. CASE ExtractNothing
  <2>1. Contents = {} /\ Contents' = {} /\ ret' = Null
    BY <1>3 DEF ExtractNothing, Contents, Cells, used
  <2> QED
    BY <2>1 DEF Promise!Next, Promise!ExtractNothing
<1>4. CASE InsertFails
  <2>1. Contents' = {} /\ ret' = ret /\ MaxFaults > 0
    BY <1>4, HeapAssumption DEF InsertFails, Contents, TypeOK
  <2> QED
    BY <2>1 DEF Promise!Next, Promise!Lose
<1>5. CASE Rise
  <2>1. /\ Cells = 0..count /\ Cells' = Cells /\ ipos \in Cells /\ ~lost /\ UNCHANGED <<lost, ret>>
        /\ count \in Nat /\ Cells \subseteq 0..(max - 1) /\ ipos > 0
    BY <1>5, CellsAre DEF Rise, MustRise, MovingCell, TypeOK, Cells, used
  <2>2. Parent(ipos) \in Cells
    BY <2>1, ParentInRange
  <2> QED
    BY <1>5, <2>1, <2>2, SwapKeepsCells DEF Rise
<1>6. CASE Sink
  <2>1. /\ Cells = 0..(count - 1) /\ Cells' = Cells /\ ~lost /\ UNCHANGED <<lost, ret>>
        /\ count \in Nat /\ Cells \subseteq 0..(max - 1) /\ pc = "down" /\ ipos \in Nat
    BY <1>6, CellsAre DEF Sink, MovingCell, TypeOK, Cells, used
  <2>2. ipos \in Cells /\ mpos \in Cells
    BY <1>6, <2>1, HighestChild DEF Sink
  <2> QED
    BY <1>6, <2>1, <2>2, SwapKeepsCells DEF Sink
<1>7. CASE InsertReturns \/ InsertCrashes \/ ExtractReturns \/ UNCHANGED vars
  BY <1>7 DEF InsertReturns, InsertCrashes, ExtractReturns, vars, Contents, Cells, used
<1> QED
  BY <1>1, <1>2, <1>3, <1>4, <1>5, <1>6, <1>7 DEF Next, Crashed, Promise!Next

\* The heap implements a priority queue: nothing is lost, and each extraction
\* returns a datum of the highest weight, whatever the order of insertion.
THEOREM HeapIsPriorityQueue == Spec => ImplementsPriorityQueue
<1>1. Init => Promise!Init
  BY PriorityQueueInit
<1>2. HeapInv /\ HeapInv' /\ [Next]_vars => [Promise!Next]_<<Contents, ret>>
  BY PriorityQueueStep
<1> QED
  BY <1>1, <1>2, HeapInvariant, PTL DEF Spec, ImplementsPriorityQueue, Promise!Spec

--------------------------------------------------------------------------------
(* The reentrant functions *)

\* A thread in napr_heap_insert or napr_heap_extract holds the mutex, and one of
\* them is running only while such a thread is.
Exclusive ==
  /\ owner \in Threads \cup {Nobody}
  /\ at \in [Threads -> Data \cup {"out", "extract", "in"}]
  /\ \A t \in Threads : at[t] = "in" => owner = t
  /\ mutex_set /\ pc \in {"up", "down"} => \E t \in Threads : at[t] = "in"

\* Every step of the threads is a step of the heap, or none.
LEMMA SharedStep == [SharedNext]_sharedvars => [Next]_vars
<1> SUFFICES ASSUME SharedNext PROVE [Next]_vars
  BY DEF sharedvars
<1>1. CASE Plain
  BY <1>1 DEF Plain
<1>2. ASSUME NEW t \in Threads, Call(t) \/ LockFails(t)
      PROVE  UNCHANGED vars
  BY <1>2 DEF Call, LockFails
<1>3. ASSUME NEW t \in Threads, Enter(t)
      PROVE  Next
  BY <1>3 DEF Enter, napr_heap_insert_r, napr_heap_extract_r, ReturnsLocked, Next
<1>4. ASSUME NEW t \in Threads, Work(t) \/ Release(t)
      PROVE  Next
  BY <1>4 DEF Work, Release, Next
<1>5. CASE Hung
  BY <1>5 DEF Hung, sharedvars
<1> QED
  BY <1>1, <1>2, <1>3, <1>4, <1>5 DEF SharedNext

\* The heap that threads share behaves as the heap of one thread does.
THEOREM SharedIsHeap == SharedSpec => Spec
<1>1. SharedInit => Init
  BY DEF SharedInit
<1> QED
  BY <1>1, SharedStep, PTL DEF SharedSpec, Spec

\* No datum is lost or handed out twice, and each extraction returns a datum of the
\* highest weight, whichever threads insert and extract.
THEOREM SharedHeapIsPriorityQueue == SharedSpec => ImplementsPriorityQueue
BY SharedIsHeap, HeapIsPriorityQueue

\* Between two calls of any threads the heap is in order.
THEOREM SharedOrdered == SharedSpec => []HeapOrder
BY SharedIsHeap, Ordered

\* A step of a thread keeps the others out.
LEMMA ExclusiveStep == Exclusive /\ [SharedNext]_sharedvars => Exclusive'
<1> SUFFICES ASSUME Exclusive, [SharedNext]_sharedvars PROVE Exclusive'
  OBVIOUS
<1> USE ReentrantHeapAssumption
<1>1. CASE Plain
  BY <1>1 DEF Plain, Exclusive
<1>2. ASSUME NEW t \in Threads, Call(t) \/ LockFails(t)
      PROVE  Exclusive'
  BY <1>2 DEF Call, LockFails, Goes, Exclusive, vars
<1>3. ASSUME NEW t \in Threads, napr_heap_insert_r(t) \/ napr_heap_extract_r(t)
      PROVE  Exclusive'
  BY <1>3 DEF napr_heap_insert_r, napr_heap_extract_r, Lock, Goes, Exclusive
<1>4. ASSUME NEW t \in Threads, ReturnsLocked(t)
      PROVE  Exclusive'
  BY <1>4 DEF ReturnsLocked, Lock, Goes, InsertFails, ExtractNothing, Exclusive
<1>5. ASSUME NEW t \in Threads, Work(t)
      PROVE  Exclusive'
  BY <1>5 DEF Work, Rise, Sink, Exclusive
<1>6. ASSUME NEW t \in Threads, Release(t)
      PROVE  Exclusive'
  BY <1>6 DEF Release, Unlock, Goes, InsertReturns, ExtractReturns, Exclusive
<1>7. CASE Hung \/ UNCHANGED sharedvars
  BY <1>7 DEF Hung, sharedvars, vars, Exclusive
<1> QED
  BY <1>1, <1>2, <1>3, <1>4, <1>5, <1>6, <1>7 DEF SharedNext, Enter

\* Two threads are never inside the heap together.
THEOREM MutualExclusion == SharedSpec => [](\A t, u \in Threads : at[t] = "in" /\ at[u] = "in" => t = u)
<1>1. SharedInit => Exclusive
  BY DEF SharedInit, Init, Exclusive
<1>2. Exclusive => \A t, u \in Threads : at[t] = "in" /\ at[u] = "in" => t = u
  BY DEF Exclusive
<1> QED
  BY <1>1, <1>2, ExclusiveStep, PTL DEF SharedSpec
================================================================================

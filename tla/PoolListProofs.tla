----------------------------- MODULE PoolListProofs -----------------------------
(***************************************************************************)
(* The list of the thread pool is a queue: head, tail and count always     *)
(* describe one chain, and every call does to the chain's data what the    *)
(* pool expects of it.                                                     *)
(***************************************************************************)
EXTENDS PoolList, TLAPS

(* A chain without cells has none to count. *)
LEMMA EmptyChain ==
  ASSUME NEW s \in Seq(Cells)
  PROVE  s = <<>> <=> Len(s) = 0
OBVIOUS

(* Initially the list is empty. *)
LEMMA InitChain == Init => ListInv
<1> SUFFICES ASSUME Init PROVE ListInv
  OBVIOUS
<1>1. order = <<>> /\ Len(order) = 0 /\ order \in Seq(Cells) /\ 1..Len(order) = {}
  BY DEF Init
<1> QED BY <1>1 DEF Init, ListInv, TypeOK, Chain

(* A cell put at the end, or into an empty list, extends the chain. *)
LEMMA PutChain ==
  ASSUME ListInv, NEW c \in Cells, NEW x \in Items, Cons(c, x) \/ Enqueue(c, x)
  PROVE  /\ ListInv'
         /\ order' = Append(order, c) /\ ~deleting /\ ~deleting' /\ taken' = taken
         /\ c \notin used /\ data' = [data EXCEPT ![c] = x]
<1> USE DEF ListInv, TypeOK, Chain, Allocate
<1>1. order' = Append(order, c) /\ ~deleting /\ ~deleting' /\ taken' = taken
      /\ c \notin used /\ data' = [data EXCEPT ![c] = x] /\ nb_cells' = nb_cells + 1
      /\ used' = used \cup {c}
  BY DEF Cons, Enqueue
<1>2. /\ Len(order') = Len(order) + 1 /\ order' \in Seq(Cells)
      /\ \A n \in 1..Len(order) : order'[n] = order[n]
      /\ order'[Len(order) + 1] = c
  BY <1>1
<1>3. TypeOK'
  BY <1>1, <1>2, SMTT(20) DEF Cons, Enqueue
<1>4. \A n \in 1..Len(order) : order[n] # c /\ order[n] \in Cells
  BY <1>1
<1>5. nb_cells' = Len(order') /\ order' # <<>>
  BY <1>1, <1>2
<1>6. \A m, n \in 1..Len(order') : order'[m] = order'[n] => m = n
  BY <1>2, <1>4
<1>7. /\ head' = order'[1] /\ tail' = order'[Len(order')]
      /\ \A n \in 1..Len(order') :
           next'[order'[n]] = IF n = Len(order') THEN Nil ELSE order'[n + 1]
  <2>1. CASE Cons(c, x)
    <3>1. Len(order) = 0 /\ nb_cells = 0
      BY <2>1 DEF Cons
    <3>2. head = Nil
      BY <3>1, EmptyChain
    <3>3. head' = c /\ tail' = c /\ next' = [next EXCEPT ![c] = head]
      BY <2>1, <1>1, <3>1 DEF Cons
    <3>4. next'[c] = Nil
      BY <3>2, <3>3
    <3> HIDE DEF ListInv, TypeOK, Chain, Allocate
    <3>5. Len(order') = 1
      BY <1>2, <3>1
    <3>6. order'[1] = c
      BY <1>2, <3>1
    <3>7. \A n \in 1..Len(order') : n = 1
      BY <3>5
    <3> QED BY <3>3, <3>4, <3>5, <3>6, <3>7, <1>1, <3>1
  <2>2. CASE Enqueue(c, x)
    <3>1. Len(order) # 0 /\ order # <<>> /\ tail = order[Len(order)] /\ tail # c
      BY <2>2, <1>4 DEF Enqueue
    <3>2. head' = head /\ tail' = c /\ head = order[1]
      BY <2>2, <3>1 DEF Enqueue
    <3>3. next' = [next EXCEPT ![c] = Nil, ![tail] = c]
      BY <2>2 DEF Enqueue
    <3>4. next'[c] = Nil /\ next'[tail] = c
      BY <3>1, <3>3
    <3>5. \A n \in 1..(Len(order) - 1) : next'[order[n]] = order[n + 1]
      <4> SUFFICES ASSUME NEW n \in 1..(Len(order) - 1) PROVE next'[order[n]] = order[n + 1]
        OBVIOUS
      <4>1. order[n] # tail /\ order[n] # c /\ order[n] \in Cells
        BY <1>4, <3>1
      <4>2. next[order[n]] = order[n + 1]
        OBVIOUS
      <4> QED BY <3>3, <4>1, <4>2
    <3>6. \A n \in 1..Len(order) : next'[order'[n]] = order'[n + 1]
      <4> SUFFICES ASSUME NEW n \in 1..Len(order) PROVE next'[order'[n]] = order'[n + 1]
        OBVIOUS
      <4>1. CASE n = Len(order)
        BY <4>1, <1>2, <3>1, <3>4
      <4>2. CASE n # Len(order)
        BY <4>2, <1>2, <3>5
      <4> QED BY <4>1, <4>2
    <3> QED BY <1>2, <3>1, <3>2, <3>4, <3>6
  <2> QED BY <2>1, <2>2
<1>8. \A n \in 1..Len(order') : order'[n] \in used'
  BY <1>1, <1>2
<1> QED BY <1>1, <1>3, <1>5, <1>6, <1>7, <1>8

(* Taking the first cell leaves the rest of the chain. *)
LEMMA CdrChain ==
  ASSUME ListInv, order # <<>>, Cdr, UNCHANGED deleting, taken' \in Items
  PROVE  ListInv' /\ order' = Tail(order) /\ data' = data
<1> USE DEF ListInv, TypeOK, Chain, Cdr, list, cells
<1>1. Len(order) \in Nat \ {0} /\ order' = Tail(order) /\ order' \in Seq(Cells)
      /\ Len(order') = Len(order) - 1
      /\ \A n \in 1..Len(order') : order'[n] = order[n + 1]
  OBVIOUS
<1>2. head = order[1] /\ head' = next[head] /\ head \in Cells
  BY <1>1
<1>3. head' = IF order' = <<>> THEN Nil ELSE order'[1]
  <2>1. CASE Len(order) = 1
    BY <1>1, <1>2, <2>1, EmptyChain
  <2>2. CASE Len(order) # 1
    <3>1. Len(order) - 1 >= 1
      <4> HIDE DEF ListInv, TypeOK, Chain, Cdr, list, cells
      <4> QED BY <1>1, <2>2
    <3> order' # <<>>
      <4> HIDE DEF ListInv, TypeOK, Chain, Cdr, list, cells
      <4>1. Len(order') # 0
        BY <1>1, <3>1
      <4> QED BY <1>1, <4>1, EmptyChain
    <3>2. order'[1] = order[2]
      <4> HIDE DEF ListInv, TypeOK, Chain, Cdr, list, cells
      <4>1. 1 \in 1..Len(order')
        BY <1>1, <3>1
      <4> QED BY <1>1, <4>1
    <3>3. 1 \in 1..Len(order) /\ 1 # Len(order)
      BY <1>1, <2>2
    <3>4. next[order[1]] = order[2]
      BY <3>3
    <3> QED BY <1>2, <3>2, <3>4
  <2> QED BY <2>1, <2>2
<1>4. TypeOK'
  BY <1>1, <1>2
<1>5. order' # <<>> => tail' = order'[Len(order')]
  BY <1>1
<1>6. \A n \in 1..Len(order') :
        /\ order'[n] \in used'
        /\ next'[order'[n]] = IF n = Len(order') THEN Nil ELSE order'[n + 1]
  BY <1>1
<1>7. \A m, n \in 1..Len(order') : order'[m] = order'[n] => m = n
  BY <1>1
<1>8. nb_cells' = Len(order')
  BY <1>1
<1> QED BY <1>1, <1>3, <1>4, <1>5, <1>6, <1>7, <1>8

(* Head, tail, count and chain agree after every call, so that no call follows a
   NULL or stale pointer and the count never wraps. *)
THEOREM ChainCorrect ==
  ASSUME NullIsNoCell
  PROVE  Spec => []ListInv
<1>1. ListInv /\ [Next]_listvars => ListInv'
  <2> SUFFICES ASSUME ListInv, [Next]_listvars PROVE ListInv'
    OBVIOUS
  <2>1. CASE \E c \in Cells, x \in Items : Cons(c, x) \/ Enqueue(c, x)
    BY <2>1, PutChain
  <2>2. CASE TakeFirst
    <3>1. order # <<>> /\ head = order[1] /\ head \in Cells
      BY <2>2 DEF TakeFirst, ListInv, TypeOK, Chain
    <3>2. taken' \in Items
      BY <2>2, <3>1 DEF TakeFirst, ListInv, TypeOK
    <3> QED BY <2>2, <3>1, <3>2, CdrChain DEF TakeFirst
  <2>3. CASE StartDelete
    BY <2>3 DEF StartDelete, ListInv, TypeOK, Chain, list, cells
  <2>4. CASE DropCell
    <3>1. order # <<>>
      BY <2>4 DEF DropCell, ListInv, Chain
    <3>2. taken' \in Items
      BY <2>4 DEF DropCell, ListInv, TypeOK
    <3> QED BY <2>4, <3>1, <3>2, CdrChain DEF DropCell
  <2>5. CASE Remake
    <3>1. order = <<>>
      BY <2>5 DEF Remake, ListInv, TypeOK, Chain, NullIsNoCell
    <3>2. order' = <<>> /\ Len(order') = 0 /\ 1..Len(order') = {}
      BY <2>5, <3>1 DEF Remake
    <3> QED BY <2>5, <3>2 DEF Remake, ListInv, TypeOK, Chain
  <2>6. CASE UNCHANGED listvars
    BY <2>6 DEF listvars, list, cells, ListInv, TypeOK, Chain
  <2> QED BY <2>1, <2>2, <2>3, <2>4, <2>5, <2>6 DEF Next
<1> QED BY <1>1, InitChain, PTL DEF Spec

(* The list with its cells is the queue that the pool takes it for. *)
THEOREM ListIsQueue ==
  ASSUME NullIsNoCell
  PROVE  Spec => ImplementsFifo
<1>1. Init => Queue!Init
  BY DEF Init, Queue!Init, Value
<1>2. ListInv /\ [Next]_listvars => [Queue!Next]_<<Value, taken>>
  <2> SUFFICES ASSUME ListInv, [Next]_listvars PROVE [Queue!Next]_<<Value, taken>>
    OBVIOUS
  <2> USE DEF Queue!Next
  <2>1. ASSUME NEW c \in Cells, NEW x \in Items, Cons(c, x) \/ Enqueue(c, x)
        PROVE  Queue!Put(x)
    <3>1. /\ order' = Append(order, c) /\ ~deleting /\ ~deleting' /\ taken' = taken
          /\ c \notin used /\ data' = [data EXCEPT ![c] = x]
      BY <2>1, PutChain
    <3>2. order \in Seq(Cells) /\ data \in [Cells -> Items]
          /\ \A n \in 1..Len(order) : order[n] \in Cells /\ order[n] # c
      BY <3>1 DEF ListInv, TypeOK, Chain
    <3>3. Value = [n \in 1..Len(order) |-> data[order[n]]]
          /\ Value' = [n \in 1..(Len(order) + 1) |-> data'[order'[n]]]
      BY <3>1, <3>2 DEF Value
    <3>4. \A n \in 1..Len(order) : data'[order'[n]] = data[order[n]]
      BY <3>1, <3>2
    <3>5. data'[order'[Len(order) + 1]] = x
      BY <3>1, <3>2
    <3>6. Value' = Append(Value, x)
      BY <3>2, <3>3, <3>4, <3>5
    <3> QED BY <3>1, <3>6 DEF Queue!Put
  <2>2. CASE TakeFirst
    <3>1. order # <<>> /\ head = order[1] /\ head \in Cells
      BY <2>2 DEF TakeFirst, ListInv, TypeOK, Chain
    <3>2. ~deleting /\ ~deleting' /\ taken' = data[head]
      BY <2>2 DEF TakeFirst
    <3>3. taken' \in Items
      BY <3>1, <3>2 DEF ListInv, TypeOK
    <3>4. order' = Tail(order) /\ data' = data
      BY <2>2, <3>1, <3>3, CdrChain DEF TakeFirst
    <3>5. order \in Seq(Cells) /\ Len(order) # 0
      BY <3>1 DEF ListInv, TypeOK
    <3>6. Value = [n \in 1..Len(order) |-> data[order[n]]]
          /\ Value' = [n \in 1..(Len(order) - 1) |-> data[order[n + 1]]]
      BY <3>2, <3>4, <3>5 DEF Value
    <3>7. Value # <<>> /\ taken' = Head(Value) /\ Value' = Tail(Value)
      BY <3>1, <3>2, <3>5, <3>6
    <3> QED BY <3>7 DEF Queue!Take
  <2>3. CASE StartDelete
    <3>1. Value' = <<>> /\ taken' = taken
      BY <2>3 DEF StartDelete, Value
    <3> QED BY <3>1 DEF Queue!Clear
  <2>4. CASE DropCell
    BY <2>4 DEF DropCell, Value
  <2>5. CASE Remake
    <3>1. order = <<>> /\ order' = <<>>
      BY <2>5 DEF Remake, ListInv, TypeOK, Chain, NullIsNoCell
    <3>2. Value = <<>> /\ Value' = <<>> /\ taken' = taken
      BY <2>5, <3>1 DEF Remake, Value
    <3> QED BY <3>2
  <2>6. CASE UNCHANGED listvars
    BY <2>6 DEF listvars, list, cells, Value
  <2> QED BY <2>1, <2>2, <2>3, <2>4, <2>5, <2>6 DEF Next
<1> QED BY <1>1, <1>2, ChainCorrect, PTL DEF Spec, ImplementsFifo, Queue!Spec, Queue!fifovars
================================================================================

--------------------------- MODULE FloodingProofs ---------------------------
(***************************************************************************)
(* The queue: for every size and every kind of item, the array of Queue.c  *)
(* holds exactly the queued items and implements a bounded FIFO queue.     *)
(*                                                                         *)
(* Flooding on it, for every network, every size of the queue and any      *)
(* number of commands: a flood runs no router twice, it reaches exactly    *)
(* the routers connected to its generator unless the queue refuses one,    *)
(* and leaves them current.                                                *)
(***************************************************************************)
EXTENDS Flooding, SequenceTheorems, TLAPS

\* The invariant of the queue.
QueueInv == QueueType /\ SlotsExact

-----------------------------------------------------------------------------
(* Places in the array.                                                    *)

\* At numbers the slots without gap or repetition, from front downwards.
LEMMA AtSlots ==
  ASSUME QueueType
  PROVE  /\ \A i \in Slot : At(i) \in Slot
         /\ \A i, j \in Slot : At(i) = At(j) => i = j
         /\ \A s \in Slot : \E i \in Slot : At(i) = s
         /\ At(0) = front
<1>1. QSize \in Nat \ {0} /\ front \in Slot
  BY QueueConstants DEF QueueType
<1>2. \A i \in Slot : At(i) \in Slot
  BY <1>1 DEF At, Slot
<1>3. \A i, j \in Slot : At(i) = At(j) => i = j
  BY <1>1 DEF At, Slot
<1>4. ASSUME NEW s \in Slot
      PROVE  \E i \in Slot : At(i) = s
  <2>1. CASE s <= front
    <3>1. front - s \in Slot /\ At(front - s) = s
      BY <1>1, <2>1 DEF At, Slot
    <3>2. QED
      BY <3>1
  <2>2. CASE ~(s <= front)
    <3>1. QSize + front - s \in Slot /\ At(QSize + front - s) = s
      BY <1>1, <2>2 DEF At, Slot
    <3>2. QED
      BY <3>1
  <2>3. QED
    BY <2>1, <2>2
<1>5. At(0) = front
  BY <1>1 DEF At, Slot
<1>6. QED
  BY <1>2, <1>3, <1>4, <1>5

\* The slot before that of an item is the slot of the next one.
LEMMA AtNext ==
  ASSUME QueueType, NEW i \in Slot, i + 1 \in Slot
  PROVE  Before(At(i)) = At(i + 1)
BY QueueConstants DEF QueueType, At, Slot, Before

LEMMA BeforeSlot ==
  ASSUME NEW i \in Slot
  PROVE  Before(i) \in Slot
BY QueueConstants DEF Before, Slot

-----------------------------------------------------------------------------
(* The steps.                                                              *)

\* A stored item takes the first free slot.
LEMMA StoreStep ==
  ASSUME QueueInv, NEW x \in Item, Store(x)
  PROVE  /\ count < QSize /\ count \in Slot
         /\ rear' = At(count)
         /\ elem' = [elem EXCEPT ![At(count)] = x]
         /\ \A i : At(i)' = At(i)
         /\ QueueInv'
<1>1. QSize \in Nat \ {0} /\ x # NoItem /\ QueueType /\ SlotsExact
  BY QueueConstants DEF QueueInv
<1>2. count < QSize /\ count \in Slot
  BY <1>1 DEF QueueType, Slot, Store
<1>3. rear' = At(count)
  <2>1. CASE count = 0
    BY <1>1, <2>1 DEF SlotsExact, Store
  <2>2. CASE count # 0
    <3>1. count - 1 \in Slot /\ (count - 1) + 1 = count
      BY <1>2, <2>2, <1>1 DEF Slot
    <3>2. Before(At(count - 1)) = At(count)
      BY <1>1, <1>2, <3>1, AtNext
    <3>3. QED
      BY <1>1, <2>2, <3>2 DEF SlotsExact, Store
  <2>3. QED
    BY <2>1, <2>2
<1>4. elem' = [elem EXCEPT ![At(count)] = x] /\ front' = front /\ count' = count + 1
  BY <1>3 DEF Store
<1>5. \A i : At(i)' = At(i)
  BY <1>4 DEF At
<1>6. \A i \in Slot : At(i) \in Slot /\ (At(i) = At(count) => i = count)
  BY <1>1, <1>2, AtSlots
<1>7. QueueType'
  BY <1>1, <1>2, <1>3, <1>4, <1>6 DEF QueueType, Slot
<1>8. SlotsExact'
  <2>1. (rear = At(IF count = 0 THEN 0 ELSE count - 1))'
    <3>1. count' # 0 /\ count' - 1 = count
      BY <1>2, <1>4 DEF Slot
    <3>2. QED
      BY <1>3, <1>5, <3>1
  <2>2. ASSUME NEW i \in Slot
        PROVE  elem'[At(i)'] = NoItem <=> i >= count'
    <3>1. elem[At(i)] = NoItem <=> i >= count
      BY <1>1 DEF SlotsExact, Slot
    <3>2. elem'[At(i)'] = IF i = count THEN x ELSE elem[At(i)]
      BY <1>1, <1>4, <1>5, <1>6 DEF QueueType
    <3>3. QED
      BY <1>1, <1>2, <1>4, <3>1, <3>2 DEF Slot
  <2>3. QED
    BY <2>1, <2>2 DEF SlotsExact, Slot
<1>9. QED
  BY <1>2, <1>3, <1>4, <1>5, <1>7, <1>8 DEF QueueInv

\* The item taken is the oldest; the others move up by one place.
LEMMA TakeStep ==
  ASSUME QueueInv, Take
  PROVE  /\ ret' = elem[At(0)]
         /\ count' = count - 1 /\ count \in 1..QSize
         /\ \A i \in 0..(count - 2) : elem'[At(i)'] = elem[At(i + 1)]
         /\ QueueInv'
<1>1. QSize \in Nat \ {0} /\ QueueType /\ SlotsExact
  BY QueueConstants DEF QueueInv
<1>2. count \in 1..QSize /\ count' = count - 1 /\ rear' = rear /\ 0 \in Slot /\ count - 1 \in Slot
  BY <1>1 DEF QueueType, Take, Slot
<1>3. ret' = elem[At(0)] /\ elem' = [elem EXCEPT ![At(0)] = NoItem]
  BY <1>1, AtSlots DEF Take
<1>4. rear = At(count - 1) /\ (front = rear <=> count = 1)
  <2>1. rear = At(count - 1)
    BY <1>1, <1>2 DEF SlotsExact
  <2>2. QED
    BY <1>1, <1>2, <2>1, AtSlots
<1>5. front' = IF count = 1 THEN front ELSE At(1)
  <2>1. CASE count = 1
    BY <1>4, <2>1 DEF Take
  <2>2. CASE count # 1
    <3>1. 1 \in Slot /\ 0 + 1 = 1
      BY <1>1, <1>2, <2>2 DEF Slot
    <3>2. Before(At(0)) = At(1)
      BY <1>1, <1>2, <3>1, AtNext
    <3>3. QED
      BY <1>1, <1>4, <2>2, <3>2, AtSlots DEF Take
  <2>3. QED
    BY <2>1, <2>2
<1>6. QueueType'
  <2>1. count # 1 => 1 \in Slot
    BY <1>1, <1>2 DEF Slot
  <2>2. front \in Slot /\ (count # 1 => At(1) \in Slot) /\ At(0) \in Slot
    BY <1>1, <1>2, <2>1, AtSlots DEF QueueType
  <2>3. elem' \in [Slot -> Item \cup {NoItem}] /\ front' \in Slot /\ rear' \in Slot
    BY <1>1, <1>2, <1>3, <1>5, <2>2 DEF QueueType
  <2>4. count' \in 0..QSize
    BY <1>1, <1>2
  <2>5. QED
    BY <2>3, <2>4 DEF QueueType
<1>7. CASE count = 1
  <2>1. \A i : At(i)' = At(i)
    BY <1>5, <1>7 DEF At
  <2>2. (rear = At(IF count = 0 THEN 0 ELSE count - 1))'
    BY <1>2, <1>4, <1>7, <2>1
  <2>3. ASSUME NEW i \in Slot
        PROVE  elem'[At(i)'] = NoItem <=> i >= count'
    <3>1. elem[At(i)] = NoItem <=> i >= 1
      BY <1>1, <1>7 DEF SlotsExact, Slot
    <3>2. At(i) \in Slot
      BY <1>1, AtSlots
    <3>3. elem'[At(i)] = IF At(i) = At(0) THEN NoItem ELSE elem[At(i)]
      BY <1>1, <1>3, <3>2 DEF QueueType
    <3>4. i = 0 => At(i) = At(0)
      OBVIOUS
    <3>5. QED
      BY <1>1, <1>2, <1>7, <2>1, <3>1, <3>3, <3>4 DEF Slot
  <2>4. SlotsExact'
    BY <2>2, <2>3 DEF SlotsExact, Slot
  <2>5. QED
    BY <1>2, <1>3, <1>6, <1>7, <2>4 DEF QueueInv
<1>8. CASE count # 1
  <2>1. front' = At(1) /\ 1 \in Slot
    BY <1>1, <1>2, <1>5, <1>8 DEF Slot
  <2>2. ASSUME NEW i \in Slot
        PROVE  At(i)' = IF i = QSize - 1 THEN At(0) ELSE At(i + 1)
    BY <1>1, <2>1, <2>2 DEF At, Slot, QueueType
  <2>3. ASSUME NEW i \in Slot
        PROVE  elem'[At(i)] = IF i = 0 THEN NoItem ELSE elem[At(i)]
    <3>1. At(i) \in Slot /\ 0 \in Slot /\ (At(i) = At(0) <=> i = 0)
      BY <1>1, <1>2, AtSlots
    <3>2. QED
      BY <1>1, <1>3, <3>1 DEF QueueType
  <2>4. ASSUME NEW i \in Slot, i # QSize - 1
        PROVE  elem'[At(i)'] = elem[At(i + 1)]
    <3>1. i + 1 \in Slot /\ i + 1 # 0
      BY <1>1, <2>4 DEF Slot
    <3>2. QED
      BY <2>2, <2>3, <2>4, <3>1
  <2>5. (rear = At(IF count = 0 THEN 0 ELSE count - 1))'
    <3>1. front \in Slot /\ front' = At(1) /\ rear' = At(count - 1)
      BY <1>1, <1>2, <1>4, <2>1 DEF QueueType
    <3>2. count' = count - 1 /\ count \in 2..QSize
      BY <1>1, <1>2, <1>8
    <3>3. QED
      BY <1>1, <3>1, <3>2 DEF At, Slot
  <2>6. ASSUME NEW i \in Slot
        PROVE  elem'[At(i)'] = NoItem <=> i >= count'
    <3>1. CASE i = QSize - 1
      <4>1. elem'[At(i)'] = NoItem
        BY <1>2, <2>2, <2>3, <3>1
      <4>2. QED
        BY <1>1, <1>2, <3>1, <4>1
    <3>2. CASE i # QSize - 1
      <4>1. i + 1 \in Slot
        BY <1>1, <3>2 DEF Slot
      <4>2. elem[At(i + 1)] = NoItem <=> i + 1 >= count
        BY <1>1, <4>1 DEF SlotsExact, Slot
      <4>3. QED
        BY <1>1, <1>2, <2>4, <3>2, <4>2 DEF Slot
    <3>3. QED
      BY <3>1, <3>2
  <2>7. SlotsExact'
    BY <2>5, <2>6 DEF SlotsExact, Slot
  <2>8. \A i \in 0..(count - 2) : i \in Slot /\ i # QSize - 1
    BY <1>1, <1>2 DEF Slot
  <2>9. QED
    BY <1>2, <1>3, <1>6, <2>4, <2>7, <2>8 DEF QueueInv
<1>9. QED
  BY <1>7, <1>8

\* The slots of an empty queue are all free, wherever its indices start.
LEMMA EmptyQueue ==
  ASSUME QueueInv, count = 0
  PROVE  \A s \in Slot : elem[s] = NoItem
<1>1. QueueType /\ SlotsExact /\ QSize \in Nat
  BY QueueConstants DEF QueueInv
<1>2. \A i \in Slot : elem[At(i)] = NoItem
  BY <1>1 DEF SlotsExact, Slot
<1>3. QED
  BY <1>1, <1>2, AtSlots

\* An array of free slots with both indices in the last one is an empty queue.
LEMMA FreshQueue ==
  ASSUME elem = [i \in Slot |-> NoItem], front = QSize - 1, rear = QSize - 1, count = 0
  PROVE  QueueInv
<1>1. QSize \in Nat \ {0}
  BY QueueConstants
<1>2. QueueType
  BY <1>1 DEF QueueType, Slot
<1>3. At(0) = front /\ \A i \in Slot : At(i) \in Slot
  BY <1>2, AtSlots
<1>4. SlotsExact
  BY <1>1, <1>3 DEF SlotsExact, Slot
<1>5. QED
  BY <1>2, <1>4 DEF QueueInv

LEMMA ReuseStep ==
  ASSUME QueueInv, Reuse
  PROVE  QueueInv'
<1>1. QueueType
  BY DEF QueueInv
<1>2. elem' = [i \in Slot |-> NoItem]
  BY <1>1, EmptyQueue DEF Reuse, QueueType
<1>3. front' = QSize - 1 /\ rear' = QSize - 1 /\ count' = 0
  BY DEF Reuse
<1>4. QSize \in Nat \ {0}
  BY QueueConstants
<1>5. QueueType'
  BY <1>2, <1>3, <1>4 DEF QueueType, Slot
<1>6. SlotsExact'
  <2>1. \A i \in Slot : At(i)' \in Slot
    BY <1>3, <1>4 DEF At, Slot
  <2>2. (rear = At(IF count = 0 THEN 0 ELSE count - 1))'
    BY <1>3, <1>4 DEF At
  <2>3. \A i \in 0..(QSize - 1) : elem'[At(i)'] = NoItem <=> i >= count'
    BY <1>2, <1>3, <1>4, <2>1 DEF Slot
  <2>4. QED
    BY <2>2, <2>3 DEF SlotsExact
<1>7. QED
  BY <1>5, <1>6 DEF QueueInv

LEMMA QueueStep ==
  QueueInv /\ [QueueNext]_queueVars => QueueInv'
<1> SUFFICES ASSUME QueueInv, [QueueNext]_queueVars
             PROVE  QueueInv'
  OBVIOUS
<1>1. CASE UNCHANGED <<elem, front, rear, count>>
  BY <1>1 DEF QueueInv, QueueType, SlotsExact, At
<1>2. ASSUME NEW x \in Item, Store(x)
      PROVE  QueueInv'
  BY <1>2, StoreStep
<1>3. CASE Take
  BY <1>3, TakeStep
<1>4. CASE Reuse
  BY <1>4, ReuseStep
<1>5. QED
  BY <1>1, <1>2, <1>3, <1>4 DEF QueueNext, Enqueue, Refuse, TakeNothing, queueVars

\* Whatever the size, and however often the indices have wrapped around, the
\* items are in the slots from front to rear and nowhere else.
THEOREM SlotsAlwaysExact == QueueSpec => []SlotsExact
<1>1. QueueInit => QueueInv
  BY FreshQueue DEF QueueInit
<1>2. QueueInv => SlotsExact
  BY DEF QueueInv
<1>3. QED
  BY <1>1, <1>2, QueueStep, PTL DEF QueueSpec

-----------------------------------------------------------------------------
(* The queue is a FIFO.                                                    *)

ItemsFacts ==
  /\ Items \in Seq(Item) /\ Len(Items) = count
  /\ \A i \in 1..count : Items[i] = elem[At(i - 1)]

LEMMA ItemsType ==
  QueueInv => ItemsFacts
<1> SUFFICES ASSUME QueueInv
             PROVE  ItemsFacts
  OBVIOUS
<1>1. QueueType /\ SlotsExact /\ QSize \in Nat /\ count \in Nat
  BY QueueConstants DEF QueueInv, QueueType
<1>2. ASSUME NEW i \in 1..count
      PROVE  elem[At(i - 1)] \in Item
  <2>1. i - 1 \in Slot /\ ~(i - 1 >= count)
    BY <1>1 DEF Slot, QueueType
  <2>2. At(i - 1) \in Slot /\ elem[At(i - 1)] # NoItem
    BY <1>1, <2>1, AtSlots DEF SlotsExact, Slot
  <2>3. QED
    BY <1>1, <2>2 DEF QueueType
<1>3. QED
  BY <1>1, <1>2 DEF Items, ItemsFacts

LEMMA ItemsNext ==
  QueueInv' => ItemsFacts'
BY ItemsType, PTL

LEMMA FifoStore ==
  ASSUME QueueInv, NEW x \in Item, Store(x)
  PROVE  Fifo!Store(x)
<1>1. /\ count < QSize /\ elem' = [elem EXCEPT ![At(count)] = x] /\ QueueInv'
      /\ \A i : At(i)' = At(i)
  BY StoreStep
<1>2. count \in Nat /\ count' = count + 1 /\ ret' = "stored" /\ QueueType
  BY QueueConstants DEF Store, QueueInv, QueueType
<1>3. Items' = [i \in 1..(count + 1) |-> elem'[At(i - 1)]]
  BY <1>1, <1>2 DEF Items
<1>4. ASSUME NEW i \in 1..(count + 1)
      PROVE  elem'[At(i - 1)] = IF i = count + 1 THEN x ELSE elem[At(i - 1)]
  <2>1. i - 1 \in Slot /\ count \in Slot
    BY <1>1, <1>2, QueueConstants DEF Slot
  <2>2. At(i - 1) \in Slot /\ (At(i - 1) = At(count) <=> i - 1 = count)
    BY <1>2, <2>1, AtSlots
  <2>3. QED
    BY <1>1, <1>2, <2>2 DEF QueueType
<1>5. Items' = Append(Items, x)
  <2>1. Items \in Seq(Item) /\ Len(Items) = count
    BY ItemsType DEF ItemsFacts
  <2>2. Items' \in Seq(Item) /\ Len(Items') = count + 1
    BY <1>1, <1>2, ItemsNext DEF ItemsFacts
  <2>3. /\ Append(Items, x) \in Seq(Item) /\ Len(Append(Items, x)) = count + 1
        /\ \A i \in 1..count : Append(Items, x)[i] = elem[At(i - 1)]
        /\ Append(Items, x)[count + 1] = x
    BY <1>1, AppendProperties, ItemsType DEF ItemsFacts
  <2>4. \A i \in 1..(count + 1) : Items'[i] = Append(Items, x)[i]
    BY <1>3, <1>4, <1>2, <2>3
  <2>5. QED
    BY <2>2, <2>3, <2>4, SeqEqual
<1>6. Len(Items) < QSize
  BY <1>1, ItemsType DEF ItemsFacts
<1>7. QED
  BY <1>2, <1>5, <1>6 DEF Fifo!Store

LEMMA FifoTake ==
  ASSUME QueueInv, Take
  PROVE  Fifo!Take
<1>1. /\ count \in Nat \ {0} /\ count' = count - 1 /\ ret' = elem[At(0)] /\ QueueInv'
      /\ \A i \in 0..(count - 2) : elem'[At(i)'] = elem[At(i + 1)]
  BY TakeStep, QueueConstants
<1>2. Items \in Seq(Item) /\ Len(Items) = count /\ Items[1] = elem[At(0)] /\ Items # <<>>
  BY <1>1, ItemsType DEF ItemsFacts
<1>3. Items' = [i \in 1..(count - 1) |-> elem'[At(i - 1)']]
  BY <1>1 DEF Items
<1>4. Items' = Tail(Items)
  <2>1. ASSUME NEW i \in 1..(count - 1)
        PROVE  elem'[At(i - 1)'] = Items[i + 1]
    <3>1. i - 1 \in 0..(count - 2) /\ (i - 1) + 1 = i /\ i + 1 \in 1..count /\ (i + 1) - 1 = i
      BY <1>1
    <3>2. Items[i + 1] = elem[At((i + 1) - 1)]
      BY <3>1, ItemsType DEF ItemsFacts
    <3>3. elem'[At(i - 1)'] = elem[At((i - 1) + 1)]
      BY <1>1, <3>1
    <3>4. QED
      BY <3>1, <3>2, <3>3
  <2>2. Items' \in Seq(Item) /\ Len(Items') = count - 1
    BY <1>1, ItemsNext DEF ItemsFacts
  <2>3. /\ Tail(Items) \in Seq(Item) /\ Len(Tail(Items)) = count - 1
        /\ \A i \in 1..(count - 1) : Tail(Items)[i] = Items[i + 1]
    BY <1>2, HeadTailProperties
  <2>4. \A i \in 1..(count - 1) : Items'[i] = Tail(Items)[i]
    BY <1>3, <2>1, <2>3
  <2>5. QED
    BY <2>2, <2>3, <2>4, SeqEqual
<1>5. QED
  BY <1>1, <1>2, <1>4 DEF Fifo!Take

LEMMA FifoStep ==
  QueueInv /\ [QueueNext]_queueVars => [Fifo!Next]_<<Items, ret>>
<1> SUFFICES ASSUME QueueInv, [QueueNext]_queueVars
             PROVE  [Fifo!Next]_<<Items, ret>>
  OBVIOUS
<1>1. CASE UNCHANGED queueVars
  BY <1>1 DEF queueVars, Items, At
<1>2. ASSUME NEW x \in Item, Refuse(x)
      PROVE  Fifo!Refuse(x)
  <2>1. Items' = Items
    BY <1>2 DEF Refuse, Items, At
  <2>2. QED
    BY <1>2, <2>1, ItemsType DEF Refuse, Fifo!Refuse, ItemsFacts
<1>3. CASE TakeNothing
  <2>1. Items' = Items /\ Items = <<>>
    BY <1>3, ItemsType DEF TakeNothing, Items, At, ItemsFacts
  <2>2. QED
    BY <1>3, <2>1 DEF TakeNothing, Fifo!TakeNothing, Fifo!Next
<1>4. CASE Reuse
  <2>1. count' = 0 /\ count = 0 /\ ret' = ret
    BY <1>4 DEF Reuse
  <2>2. Items = <<>> /\ Items' = <<>>
    BY <2>1 DEF Items
  <2>3. QED
    BY <2>1, <2>2
<1>5. QED
  BY <1>1, <1>2, <1>3, <1>4, FifoStore, FifoTake DEF QueueNext, Enqueue, Fifo!Next

\* Whatever the size, the circular array is a first-in first-out queue that
\* refuses an item exactly when it holds QSize: the abstract BoundedQueue.
THEOREM ArrayIsFifo == QueueSpec => ImplementsFifo
<1>1. QueueInit => QueueInv
  BY FreshQueue DEF QueueInit
<1>2. QueueInit => Fifo!Init
  BY DEF QueueInit, Fifo!Init, Items
<1>3. QED
  BY <1>1, <1>2, QueueStep, FifoStep, PTL DEF QueueSpec, ImplementsFifo, Fifo!Spec

-----------------------------------------------------------------------------
(* The inductive invariant of a flood.                                     *)

Queued == {elem[s] : s \in Slot} \ {NoItem}

\* Versions grow by one with each command.
VersionInv == net + cmds <= MaxCmds + 1 /\ pre + cmds <= MaxCmds + 1

\* Outside a walk the queue is as initQ makes it.
FreshInv == pc # "walk" => count = 0 /\ front = QSize - 1 /\ rear = QSize - 1

\* Neighbours are visited in a walk only.
PairsInv == pc # "walk" => pairs = {}

\* The bits of the walk are the routers fn_ptr was called for.
ToldInv ==
  /\ ToldOnce
  /\ pc = "self" => \A n \in Node : told[n] = 0
  /\ pc = "begin" => \A n \in Node : told[n] = IF n = gen THEN 1 ELSE 0
  /\ pc = "walk" => \A n \in Node : told[n] = IF n \in bit THEN 1 ELSE 0

\* Only routers connected to the generator are met.
ReachInv ==
  pc = "walk" =>
    /\ gen \in bit /\ bit \subseteq Reach(gen)
    /\ Queued \subseteq bit
    /\ \A p \in pairs : \E r \in bit : p \in PhysicalNbrs(r)

\* A router with its bit set is queued, was refused, or has no neighbour that is
\* neither told nor still to be visited.
WalkInv ==
  pc = "walk" =>
    \A r \in bit : \/ r \in Queued \/ r \in dropped
                   \/ \A p \in PhysicalNbrs(r) : p \in pairs \/ Nbr(p) \in bit

\* A router that was told has computed what it computes from this advertisement.
CurrentInv ==
  pc \in {"begin", "walk"} =>
    \A r \in Router \ overload : told[r] = 1 => known[r] = Run(r)

\* Routers that agree before an advertisement will agree after it.
AgreeInv ==
  missed = {} => \A r, s \in Router \ overload :
    IF pc = "idle" THEN known[r] = known[s] ELSE Run(r) = Run(s)

FloodInv ==
  /\ TypeOK /\ QueueInv
  /\ VersionInv /\ FreshInv /\ PairsInv /\ ToldInv /\ ReachInv /\ WalkInv
  /\ CurrentInv /\ AgreeInv

-----------------------------------------------------------------------------
(* Neighbours and reach.                                                   *)

LEMMA NbrType ==
  ASSUME NEW r \in Router, NEW p \in PhysicalNbrs(r)
  PROVE  p \in Edge \X Edge /\ Nbr(p) \in Router
<1>1. CASE \E e \in UpEdges(r) : Dst[e] \notin Pseudo /\ p = <<e, e>>
  BY <1>1, FloodConstants DEF UpEdges, Nbr, Router
<1>2. CASE \E e \in UpEdges(r) : \E f \in UpEdges(Dst[e]) : Dst[e] \in Pseudo /\ p = <<e, f>>
  BY <1>2, FloodConstants DEF UpEdges, Nbr, Router
<1>3. QED
  BY <1>1, <1>2 DEF PhysicalNbrs

\* While no interface changes, neither do neighbours and reach.
LEMMA NbrsStable ==
  ASSUME status' = status
  PROVE  /\ \A n : PhysicalNbrs(n)' = PhysicalNbrs(n)
         /\ \A n : Reach(n)' = Reach(n)
<1>1. \A n : UpEdges(n)' = UpEdges(n)
  BY DEF UpEdges
<1>2. \A n : PhysicalNbrs(n)' = PhysicalNbrs(n)
  BY <1>1 DEF PhysicalNbrs
<1>3. \A n : Reach(n)' = Reach(n)
  BY <1>2 DEF Reach, Nbr
<1>4. QED
  BY <1>2, <1>3

LEMMA ReachSelf ==
  ASSUME NEW r \in Node
  PROVE  r \in Reach(r)
BY DEF Reach

LEMMA ReachClosed ==
  ASSUME NEW r, NEW n \in Reach(r), NEW p \in PhysicalNbrs(n), Nbr(p) \in Node
  PROVE  Nbr(p) \in Reach(r)
BY DEF Reach

LEMMA ReachLeast ==
  ASSUME NEW S \in SUBSET Node, NEW r \in S,
         \A n \in S : \A p \in PhysicalNbrs(n) : Nbr(p) \in S
  PROVE  Reach(r) \subseteq S
BY DEF Reach

-----------------------------------------------------------------------------
(* What the queue holds.                                                   *)

LEMMA StoreQueued ==
  ASSUME QueueInv, NEW x \in Item, Store(x)
  PROVE  Queued' = Queued \cup {x}
<1>1. elem' = [elem EXCEPT ![At(count)] = x] /\ count \in Slot
  BY StoreStep
<1>2. QueueType /\ At(count) \in Slot /\ elem[At(count)] = NoItem /\ x # NoItem
  BY <1>1, AtSlots, QueueConstants DEF QueueInv, SlotsExact, Slot
<1>3. elem \in [Slot -> Item \cup {NoItem}]
  BY <1>2 DEF QueueType
<1>4. QED
  BY <1>1, <1>2, <1>3 DEF Queued

LEMMA TakeQueued ==
  ASSUME QueueInv, Take
  PROVE  ret' \in Queued /\ Queued' \subseteq Queued /\ Queued \ {ret'} \subseteq Queued'
<1>1. QueueType /\ front \in Slot /\ elem \in [Slot -> Item \cup {NoItem}]
  BY DEF QueueInv, QueueType
<1>2. ret' = elem[front] /\ elem' = [elem EXCEPT ![front] = NoItem]
  BY DEF Take
<1>3. elem[front] # NoItem
  <2>1. 0 \in Slot /\ ~(0 >= count) /\ At(0) = front
    BY <1>1, AtSlots, QueueConstants DEF QueueType, Slot, Take
  <2>2. QED
    BY <2>1 DEF QueueInv, SlotsExact, Slot
<1>4. QED
  BY <1>1, <1>2, <1>3 DEF Queued

LEMMA NoneQueued ==
  ASSUME QueueInv, count = 0
  PROVE  Queued = {}
BY EmptyQueue DEF Queued

-----------------------------------------------------------------------------
(* Telling a router.                                                       *)

LEMMA TellType ==
  ASSUME TypeOK, NEW r \in Node, Tell(r), UNCHANGED <<netVars, floodVars>>
  PROVE  /\ known' \in [Node -> Known] /\ told' \in [Node -> 0..2]
         /\ known'[r] = Run(r)
         /\ \A n \in Node : Run(n)' = Run(n)
         /\ \A n \in Node \ {r} : known'[n] = known[n] /\ told'[n] = told[n]
         /\ told[r] = 0 => told'[r] = 1
<1>1. /\ known \in [Node -> Known] /\ told \in [Node -> 0..2]
      /\ net \in Version \ {0} /\ pre \in Version \ {0}
  BY DEF TypeOK
<1>2. known' = [known EXCEPT ![r] = Run(r)]
      /\ told' = [told EXCEPT ![r] = IF told[r] = 2 THEN 2 ELSE told[r] + 1]
  BY DEF Tell
<1>3. Run(r) \in Known
  BY <1>1 DEF Run, Known
<1>4. known'[r] = Run(r) /\ \A n \in Node \ {r} : known'[n] = known[n]
  BY <1>1, <1>2
<1>5. Run(r)' = Run(r)
  BY <1>1, <1>4 DEF Run, Known, netVars, floodVars, Version
<1>6. \A n \in Node \ {r} : Run(n)' = Run(n)
  BY <1>4 DEF Run, netVars, floodVars
<1>7. QED
  BY <1>1, <1>2, <1>3, <1>4, <1>5, <1>6

-----------------------------------------------------------------------------
(* The steps of a flood.                                                   *)

LEMMA TellSelfStep ==
  ASSUME FloodInv, TellSelf
  PROVE  FloodInv' /\ [QueueNext]_queueVars
<1>1. /\ pc = "self" /\ pc' = "begin" /\ Tell(gen) /\ gen \in Router /\ gen \in Node
      /\ UNCHANGED <<netVars, floodVars, bit, pairs, dropped, missed, cmds>>
      /\ TypeOK /\ QueueInv
  BY DEF TellSelf, FloodInv, TypeOK, Router
<1>2. /\ known' \in [Node -> Known] /\ told' \in [Node -> 0..2]
      /\ known'[gen] = Run(gen)
      /\ \A n \in Node : Run(n)' = Run(n)
      /\ \A n \in Node \ {gen} : known'[n] = known[n] /\ told'[n] = told[n]
      /\ told[gen] = 0 => told'[gen] = 1
  BY <1>1, TellType
<1>3. Reuse
  <2>1. elem = [i \in Slot |-> NoItem]
    BY <1>1, EmptyQueue DEF FloodInv, FreshInv, QueueInv, QueueType
  <2>2. QED
    BY <1>1, <2>1 DEF FloodInv, FreshInv, TellSelf, NewQueue, Reuse
<1>4. QueueInv'
  BY <1>1, <1>3, ReuseStep
<1>5. TypeOK'
  BY <1>1, <1>2, <1>4 DEF TypeOK, QueueInv, netVars, floodVars
<1>6. VersionInv' /\ FreshInv'
  BY <1>1, <1>3 DEF FloodInv, VersionInv, FreshInv, netVars, Reuse
<1>7. PairsInv'
  BY <1>1 DEF FloodInv, PairsInv
<1>8. \A n \in Node : told'[n] = IF n = gen THEN 1 ELSE 0
  BY <1>1, <1>2 DEF FloodInv, ToldInv
<1>9. ToldInv'
  BY <1>1, <1>8 DEF ToldInv, ToldOnce, floodVars
<1>10. ReachInv' /\ WalkInv'
  BY <1>1 DEF ReachInv, WalkInv
<1>11. CurrentInv'
  <2>1. ASSUME NEW r \in Router, told'[r] = 1
        PROVE  known'[r] = Run(r)'
    BY <1>2, <1>8, <2>1 DEF Router
  <2>2. QED
    BY <2>1 DEF CurrentInv
<1>12. AgreeInv'
  BY <1>1, <1>2 DEF FloodInv, AgreeInv, Router, netVars
<1>13. QED
  BY <1>3, <1>4, <1>5, <1>6, <1>7, <1>9, <1>10, <1>11, <1>12 DEF FloodInv, QueueNext

\* An enqueue leaves the queue's invariant and adds at most the router.
LEMMA EnqueueStep ==
  ASSUME QueueInv, NEW x \in Item, Enqueue(x)
  PROVE  /\ QueueInv' /\ QueueNext
         /\ \/ ret' = "refused" /\ Queued' = Queued
            \/ ret' = "stored" /\ Queued' = Queued \cup {x}
         /\ count = 0 => ret' = "stored"
<1>1. CASE Refuse(x)
  <2>1. QueueInv' /\ Queued' = Queued /\ count # 0
    BY <1>1, QueueConstants DEF Refuse, QueueInv, QueueType, SlotsExact, At, Queued
  <2>2. QED
    BY <1>1, <2>1 DEF Refuse, Enqueue, QueueNext
<1>2. CASE Store(x)
  <2>1. QueueInv' /\ Queued' = Queued \cup {x} /\ ret' = "stored"
    BY <1>2, StoreStep, StoreQueued DEF Store
  <2>2. QED
    BY <1>2, <2>1 DEF Enqueue, QueueNext
<1>3. QED
  BY <1>1, <1>2 DEF Enqueue

LEMMA BeginStep ==
  ASSUME FloodInv, Begin
  PROVE  FloodInv' /\ [QueueNext]_queueVars
<1>1. /\ pc = "begin" /\ pc' = "walk" /\ bit' = {gen} /\ dropped' = {} /\ Enqueue(gen)
      /\ UNCHANGED <<netVars, known, floodVars, pairs, told, missed, cmds>>
      /\ TypeOK /\ QueueInv /\ gen \in Router /\ gen \in Item /\ count = 0
  BY DEF Begin, FloodInv, FreshInv, TypeOK, Router, Node
<1>2. QueueInv' /\ QueueNext /\ Queued' = {gen}
  <2>1. Queued = {}
    BY <1>1, NoneQueued
  <2>2. QED
    BY <1>1, <2>1, EnqueueStep
<1>3. TypeOK'
  BY <1>1, <1>2 DEF TypeOK, QueueInv, netVars, floodVars
<1>4. VersionInv' /\ FreshInv' /\ ToldInv'
  BY <1>1 DEF FloodInv, VersionInv, FreshInv, ToldInv, ToldOnce, netVars, floodVars
<1>5. ReachInv'
  <2>1. pairs = {}
    BY <1>1 DEF FloodInv, PairsInv
  <2>2. gen \in Reach(gen) /\ (\A n : Reach(n)' = Reach(n))
    BY <1>1, ReachSelf, NbrsStable DEF netVars, Node
  <2>3. QED
    BY <1>1, <1>2, <2>1, <2>2 DEF ReachInv, floodVars
<1>6. WalkInv'
  BY <1>1, <1>2 DEF WalkInv
<1>7. CurrentInv' /\ AgreeInv'
  BY <1>1 DEF FloodInv, CurrentInv, AgreeInv, Run, netVars, floodVars
<1>8. PairsInv'
  BY <1>1 DEF PairsInv
<1>9. QED
  BY <1>1, <1>2, <1>3, <1>4, <1>5, <1>6, <1>7, <1>8 DEF FloodInv

LEMMA NextRouterStep ==
  ASSUME FloodInv, NextRouter
  PROVE  FloodInv' /\ [QueueNext]_queueVars
<1>1. /\ pc = "walk" /\ pairs = {} /\ Take /\ pairs' = PhysicalNbrs(ret')
      /\ UNCHANGED <<netVars, known, pc, floodVars, bit, told, dropped, missed, cmds>>
      /\ TypeOK /\ QueueInv
  BY DEF NextRouter, FloodInv
<1>2. ret' \in Queued /\ Queued' \subseteq Queued /\ Queued \ {ret'} \subseteq Queued'
  BY <1>1, TakeQueued
<1>3. ret' \in bit /\ ret' \in Router
  BY <1>1, <1>2 DEF FloodInv, ReachInv, TypeOK
<1>4. QueueInv' /\ QueueNext
  BY <1>1, TakeStep DEF QueueNext
<1>5. \A n : PhysicalNbrs(n)' = PhysicalNbrs(n) /\ Reach(n)' = Reach(n)
  BY <1>1, NbrsStable DEF netVars
<1>6. TypeOK'
  <2>1. pairs' \subseteq Edge \X Edge
    BY <1>1, <1>3, NbrType
  <2>2. QED
    BY <1>1, <1>4, <2>1 DEF TypeOK, QueueInv, netVars, floodVars
<1>7. VersionInv' /\ FreshInv' /\ ToldInv' /\ PairsInv'
  BY <1>1 DEF FloodInv, VersionInv, FreshInv, ToldInv, ToldOnce, PairsInv, netVars, floodVars
<1>8. ReachInv'
  BY <1>1, <1>2, <1>3, <1>5 DEF FloodInv, ReachInv, floodVars
<1>9. WalkInv'
  <2>1. ASSUME NEW r \in bit
        PROVE  \/ r \in Queued' \/ r \in dropped
               \/ \A p \in PhysicalNbrs(r) : p \in pairs' \/ Nbr(p) \in bit
    BY <1>1, <1>2 DEF FloodInv, WalkInv
  <2>2. QED
    BY <1>1, <1>5, <2>1 DEF WalkInv, Nbr
<1>10. CurrentInv' /\ AgreeInv'
  BY <1>1 DEF FloodInv, CurrentInv, AgreeInv, Run, netVars, floodVars
<1>11. QED
  BY <1>4, <1>6, <1>7, <1>8, <1>9, <1>10 DEF FloodInv

LEMMA SkipStep ==
  ASSUME FloodInv, NEW p \in pairs, SkipNeighbour(p)
  PROVE  FloodInv' /\ [QueueNext]_queueVars
<1>1. /\ pc = "walk" /\ Nbr(p) \in bit /\ pairs' = pairs \ {p}
      /\ UNCHANGED <<queueVars, netVars, known, pc, floodVars, bit, told, dropped,
                     missed, cmds>>
      /\ TypeOK /\ QueueInv
  BY DEF SkipNeighbour, FloodInv
<1>2. /\ \A n : PhysicalNbrs(n)' = PhysicalNbrs(n) /\ Reach(n)' = Reach(n)
      /\ Queued' = Queued
  BY <1>1, NbrsStable DEF netVars, queueVars, Queued
<1>3. QueueInv' /\ TypeOK'
  BY <1>1, QueueStep DEF TypeOK, QueueInv, netVars, floodVars
<1>4. VersionInv' /\ FreshInv' /\ ToldInv' /\ PairsInv'
  BY <1>1 DEF FloodInv, VersionInv, FreshInv, ToldInv, ToldOnce, PairsInv, netVars,
     floodVars
<1>5. ReachInv'
  BY <1>1, <1>2 DEF FloodInv, ReachInv, floodVars
<1>6. WalkInv'
  BY <1>1, <1>2 DEF FloodInv, WalkInv, Nbr
<1>7. CurrentInv' /\ AgreeInv'
  BY <1>1 DEF FloodInv, CurrentInv, AgreeInv, Run, netVars, floodVars
<1>8. QED
  BY <1>1, <1>3, <1>4, <1>5, <1>6, <1>7 DEF FloodInv

LEMMA TellNeighbourStep ==
  ASSUME FloodInv, NEW p \in pairs, TellNeighbour(p)
  PROVE  FloodInv' /\ [QueueNext]_queueVars
<1> DEFINE n == Nbr(p)
<1>1. /\ pc = "walk" /\ n \notin bit /\ Tell(n) /\ bit' = bit \cup {n} /\ Enqueue(n)
      /\ dropped' = dropped \cup {m \in {n} : ret' = "refused"}
      /\ pairs' = pairs \ {p}
      /\ UNCHANGED <<netVars, pc, floodVars, missed, cmds>>
      /\ TypeOK /\ QueueInv
  BY DEF TellNeighbour, FloodInv
<1>2. PICK r \in bit : p \in PhysicalNbrs(r)
  BY <1>1 DEF FloodInv, ReachInv
<1>3. n \in Router /\ n \in Node /\ n \in Item /\ r \in Node
  BY <1>1, <1>2, NbrType DEF TypeOK, Router, Node
<1>4. /\ \A m : PhysicalNbrs(m)' = PhysicalNbrs(m) /\ Reach(m)' = Reach(m)
  BY <1>1, NbrsStable DEF netVars
<1>5. /\ QueueInv' /\ QueueNext
      /\ \/ ret' = "refused" /\ Queued' = Queued
         \/ ret' = "stored" /\ Queued' = Queued \cup {n}
  BY <1>1, <1>3, EnqueueStep
<1>6. /\ known' \in [Node -> Known] /\ told' \in [Node -> 0..2]
      /\ known'[n] = Run(n)
      /\ \A m \in Node : Run(m)' = Run(m)
      /\ \A m \in Node \ {n} : known'[m] = known[m] /\ told'[m] = told[m]
      /\ told[n] = 0 => told'[n] = 1
  BY <1>1, <1>3, TellType
<1>7. TypeOK'
  BY <1>1, <1>3, <1>5, <1>6 DEF TypeOK, QueueInv, netVars, floodVars
<1>8. VersionInv' /\ FreshInv' /\ PairsInv'
  BY <1>1 DEF FloodInv, VersionInv, FreshInv, PairsInv, netVars
<1>9. ToldInv'
  <2>1. \A m \in Node : told'[m] = IF m \in bit' THEN 1 ELSE 0
    BY <1>1, <1>6 DEF FloodInv, ToldInv
  <2>2. QED
    BY <1>1, <2>1 DEF ToldInv, ToldOnce
<1>10. ReachInv'
  <2>1. n \in Reach(gen)
    BY <1>1, <1>2, <1>3, ReachClosed DEF FloodInv, ReachInv
  <2>2. QED
    BY <1>1, <1>4, <1>5, <2>1 DEF FloodInv, ReachInv, floodVars
<1>11. WalkInv'
  <2>1. n \in Queued' \/ n \in dropped'
    BY <1>1, <1>5
  <2>2. ASSUME NEW m \in bit
        PROVE  \/ m \in Queued' \/ m \in dropped'
               \/ \A q \in PhysicalNbrs(m) : q \in pairs' \/ Nbr(q) \in bit'
    BY <1>1, <1>5 DEF FloodInv, WalkInv
  <2>3. QED
    BY <1>1, <1>4, <2>1, <2>2 DEF WalkInv, Nbr
<1>12. CurrentInv'
  <2>1. ASSUME NEW m \in Router \ overload, told'[m] = 1
        PROVE  known'[m] = Run(m)'
    BY <1>1, <1>6, <2>1 DEF FloodInv, CurrentInv, Router
  <2>2. QED
    BY <1>1, <2>1 DEF CurrentInv, netVars
<1>13. AgreeInv'
  BY <1>1, <1>6 DEF FloodInv, AgreeInv, Router, netVars
<1>14. QED
  BY <1>5, <1>7, <1>8, <1>9, <1>10, <1>11, <1>12, <1>13 DEF FloodInv

\* At the end of a walk no router is queued: the bits are closed.
LEMMA WalkOverTold ==
  ASSUME FloodInv, WalkOver
  PROVE  WholeLevelTold /\ ToldAreCurrent
<1>1. /\ pc = "walk" /\ pairs = {} /\ TypeOK /\ Queued = {}
      /\ gen \in bit /\ bit \subseteq Reach(gen)
  BY NoneQueued DEF WalkOver, FloodInv, ReachInv
<1>2. ASSUME dropped = {}
      PROVE  bit = Reach(gen)
  <2>1. \A r \in bit : \A p \in PhysicalNbrs(r) : Nbr(p) \in bit
    BY <1>1, <1>2 DEF FloodInv, WalkInv
  <2>2. bit \in SUBSET Node
    BY <1>1 DEF TypeOK, Router
  <2>3. QED
    BY <1>1, <2>1, <2>2, ReachLeast
<1>3. ASSUME NEW r \in bit \ overload
      PROVE  known[r].pre = pre /\ (kind = "full" => known[r].net = net)
  <2>1. r \in Router \ overload /\ r \in Node
    BY <1>1 DEF TypeOK, Router
  <2>2. told[r] = 1
    BY <1>1, <2>1 DEF FloodInv, ToldInv
  <2>3. known[r] = Run(r) /\ known[r] \in Known
    BY <1>1, <2>1, <2>2 DEF FloodInv, CurrentInv, TypeOK
  <2>4. QED
    BY <2>1, <2>3 DEF Run, Known
<1>4. QED
  BY <1>2, <1>3 DEF WholeLevelTold, ToldAreCurrent

LEMMA EndFloodStep ==
  ASSUME FloodInv, EndFlood
  PROVE  FloodInv' /\ [QueueNext]_queueVars
<1>1. /\ pc = "walk" /\ pairs = {} /\ Reuse /\ missed' = missed \cup (Router \ bit)
      /\ pc' = "idle"
      /\ UNCHANGED <<netVars, known, floodVars, bit, pairs, told, dropped, cmds>>
      /\ TypeOK /\ QueueInv
  BY DEF EndFlood, WalkOver, FloodInv
<1>2. QueueInv' /\ QueueNext
  BY <1>1, ReuseStep DEF QueueNext
<1>3. TypeOK'
  BY <1>1, <1>2 DEF TypeOK, QueueInv, netVars, floodVars
<1>4. VersionInv' /\ FreshInv' /\ ToldInv' /\ PairsInv'
  BY <1>1 DEF FloodInv, VersionInv, FreshInv, ToldInv, ToldOnce, PairsInv, Reuse,
     netVars, floodVars
<1>5. ReachInv' /\ WalkInv' /\ CurrentInv'
  BY <1>1 DEF ReachInv, WalkInv, CurrentInv
<1>6. AgreeInv'
  <2>1. ASSUME missed' = {}, NEW r \in Router \ overload
        PROVE  known[r] = Run(r)
    <3>1. r \in bit /\ r \in Node
      BY <1>1, <2>1 DEF Router
    <3>2. told[r] = 1
      BY <1>1, <3>1 DEF FloodInv, ToldInv
    <3>3. QED
      BY <1>1, <3>2 DEF FloodInv, CurrentInv
  <2>2. QED
    BY <1>1, <2>1 DEF FloodInv, AgreeInv, netVars
<1>7. QED
  BY <1>2, <1>3, <1>4, <1>5, <1>6 DEF FloodInv

-----------------------------------------------------------------------------
(* Commands.                                                               *)

\* A command spends one of the numbers left for versions.
LEMMA VersionStep ==
  ASSUME NEW n \in Nat \ {0}, NEW c \in 0..MaxCmds, c > 0, n + c <= MaxCmds + 1,
         NEW m \in {n, n + 1}
  PROVE  /\ m + (c - 1) <= MaxCmds + 1
         /\ m \in Version \ {0} /\ c - 1 \in 0..MaxCmds
BY FloodConstants DEF Version

\* What every command does to the part that belongs to a flood.
LEMMA CommandKeeps ==
  ASSUME FloodInv, Command, pc' \in {"idle", "self"},
         told' = told \/ told' = [n \in Node |-> 0],
         pc' = "self" => told' = [n \in Node |-> 0],
         status' \in [Edge -> BOOLEAN], overload' \subseteq Router,
         net' \in {net, net + 1}, pre' \in {pre, pre + 1},
         gen' \in Router, kind' \in {"full", "partial"}
  PROVE  /\ TypeOK' /\ QueueInv' /\ VersionInv' /\ FreshInv' /\ PairsInv' /\ ToldInv'
         /\ ReachInv' /\ WalkInv' /\ CurrentInv'
<1>1. /\ pc = "idle" /\ cmds > 0 /\ cmds' = cmds - 1
      /\ UNCHANGED <<queueVars, known, bit, pairs, dropped, missed>>
      /\ TypeOK /\ QueueInv /\ cmds \in 0..MaxCmds
  BY DEF Command, FloodInv, TypeOK
<1>2. QueueInv'
  BY <1>1, QueueStep
<1>3. net \in Nat /\ pre \in Nat /\ net # 0 /\ pre # 0 /\ MaxCmds \in Nat
  BY <1>1, FloodConstants DEF TypeOK, Version
<1>4. net + cmds <= MaxCmds + 1 /\ pre + cmds <= MaxCmds + 1
  BY DEF FloodInv, VersionInv
<1>5. /\ net' + cmds' <= MaxCmds + 1 /\ pre' + cmds' <= MaxCmds + 1
      /\ net' \in Version \ {0} /\ pre' \in Version \ {0} /\ cmds' \in 0..MaxCmds
  BY <1>1, <1>3, <1>4, VersionStep
<1>6. told' \in [Node -> 0..2]
  BY <1>1 DEF TypeOK
<1>7. TypeOK' /\ VersionInv'
  BY <1>1, <1>2, <1>5, <1>6 DEF TypeOK, VersionInv, QueueInv
<1>8. FreshInv' /\ PairsInv'
  BY <1>1 DEF FloodInv, FreshInv, PairsInv, queueVars
<1>9. ToldInv'
  BY <1>1 DEF FloodInv, ToldInv, ToldOnce
<1>10. ReachInv' /\ WalkInv' /\ CurrentInv'
  BY DEF ReachInv, WalkInv, CurrentInv
<1>11. QED
  BY <1>2, <1>7, <1>8, <1>9, <1>10

\* A full advertisement makes routers agree that may run.
LEMMA FullStep ==
  ASSUME FloodInv, NEW r \in Router, ChangeTopology, GenerateLsp(r, "full"),
         status' \in [Edge -> BOOLEAN], overload' \subseteq Router
  PROVE  FloodInv'
<1>1. AgreeInv'
  BY DEF GenerateLsp, AgreeInv, Run
<1>2. QED
  BY <1>1, CommandKeeps DEF GenerateLsp, ChangeTopology, FloodInv

LEMMA CommandsStep ==
  ASSUME FloodInv, Commands
  PROVE  FloodInv' /\ [QueueNext]_queueVars
<1>1. status \in [Edge -> BOOLEAN] /\ overload \subseteq Router /\ pc = "idle" /\ TypeOK
  BY DEF FloodInv, TypeOK, Commands, SetMetric, ChangePrefix, SetOverload, AddLsp,
     SetStatus, GenerateLsp, Command
<1>2. ASSUME NEW r \in Router, SetMetric(r)
      PROVE  FloodInv'
  BY <1>1, <1>2, FullStep DEF SetMetric
<1>3. ASSUME NEW r \in Router, NEW on \in BOOLEAN, SetOverload(r, on)
      PROVE  FloodInv'
  <2>1. overload' \subseteq Router
    BY <1>1, <1>3 DEF SetOverload
  <2>2. QED
    BY <1>1, <1>3, <2>1, FullStep DEF SetOverload
<1>4. ASSUME NEW e \in Lsp, AddLsp(e)
      PROVE  FloodInv'
  <2>1. Src[e] \in Router /\ status' \in [Edge -> BOOLEAN]
    BY <1>1, <1>4, FloodConstants DEF AddLsp
  <2>2. QED
    BY <1>1, <1>4, <2>1, FullStep DEF AddLsp
<1>5. ASSUME NEW r \in Router, ChangePrefix(r)
      PROVE  FloodInv'
  <2>1. AgreeInv'
    BY <1>1, <1>5 DEF FloodInv, AgreeInv, ChangePrefix, GenerateLsp, Command, Run
  <2>2. QED
    BY <1>1, <1>5, <2>1, CommandKeeps DEF ChangePrefix, GenerateLsp, FloodInv
<1>6. ASSUME NEW e \in Edge \ Lsp, NEW up \in BOOLEAN, SetStatus(e, up)
      PROVE  FloodInv'
  <2>1. status' \in [Edge -> BOOLEAN] /\ gen' \in Router /\ kind' \in {"full", "partial"}
    BY <1>1, <1>6 DEF SetStatus, TypeOK
  <2>2. AgreeInv'
    BY <1>1, <1>6 DEF FloodInv, AgreeInv, SetStatus, Command
  <2>3. QED
    BY <1>1, <1>6, <2>1, <2>2, CommandKeeps DEF SetStatus, ChangeTopology, FloodInv
<1>7. UNCHANGED queueVars
  BY DEF Commands, SetMetric, ChangePrefix, SetOverload, AddLsp, SetStatus,
     GenerateLsp, Command
<1>8. QED
  BY <1>2, <1>3, <1>4, <1>5, <1>6, <1>7 DEF Commands

-----------------------------------------------------------------------------
(* The theorems.                                                           *)

LEMMA FloodInit ==
  Init => FloodInv
<1> SUFFICES ASSUME Init
             PROVE  FloodInv
  OBVIOUS
<1>1. QueueInv /\ pc = "idle" /\ pairs = {}
  BY FreshQueue DEF Init, QueueInit
<1>2. gen \in Router
  BY FloodConstants DEF Init
<1>3. TypeOK /\ VersionInv
  BY <1>1, <1>2, FloodConstants DEF Init, TypeOK, VersionInv, QueueInv, Version, Known
<1>4. FreshInv /\ PairsInv /\ ToldInv /\ AgreeInv
  BY <1>1 DEF Init, QueueInit, FreshInv, PairsInv, ToldInv, ToldOnce, AgreeInv, Router
<1>5. ReachInv /\ WalkInv /\ CurrentInv
  BY <1>1 DEF ReachInv, WalkInv, CurrentInv
<1>6. QED
  BY <1>1, <1>3, <1>4, <1>5 DEF FloodInv

LEMMA FloodStep ==
  FloodInv /\ [Next]_floodingVars => FloodInv' /\ [QueueNext]_queueVars
<1> SUFFICES ASSUME FloodInv, [Next]_floodingVars
             PROVE  FloodInv' /\ [QueueNext]_queueVars
  OBVIOUS
<1>1. CASE Commands
  BY <1>1, CommandsStep
<1>2. CASE Flood
  BY <1>2, TellSelfStep, BeginStep, NextRouterStep, SkipStep, TellNeighbourStep,
     EndFloodStep DEF Flood
<1>3. CASE UNCHANGED floodingVars
  <2>1. QueueInv' /\ Queued' = Queued
    BY <1>3, QueueStep DEF FloodInv, floodingVars, queueVars, Queued
  <2>2. \A n : PhysicalNbrs(n)' = PhysicalNbrs(n) /\ Reach(n)' = Reach(n)
    BY <1>3, NbrsStable DEF floodingVars, netVars
  <2>3. ReachInv' /\ WalkInv'
    BY <1>3, <2>1, <2>2 DEF FloodInv, ReachInv, WalkInv, Nbr, floodingVars, floodVars
  <2>4. TypeOK'
    BY <1>3, <2>1 DEF FloodInv, TypeOK, QueueInv, floodingVars, netVars, floodVars
  <2>5. /\ VersionInv' /\ FreshInv' /\ PairsInv' /\ ToldInv'
        /\ CurrentInv' /\ AgreeInv'
    BY <1>3 DEF FloodInv, VersionInv, FreshInv, PairsInv, ToldInv, ToldOnce,
       CurrentInv, AgreeInv, Run, floodingVars, queueVars, netVars, floodVars
  <2>6. QED
    BY <1>3, <2>1, <2>3, <2>4, <2>5 DEF FloodInv, floodingVars
<1>4. QED
  BY <1>1, <1>2, <1>3 DEF Next

LEMMA FloodInvariance == Spec => []FloodInv /\ [][QueueNext]_queueVars
BY FloodInit, FloodStep, PTL DEF Spec

\* On every network: the variables have their types; in particular no pseudonode
\* is ever told, for which a run would fault.
THEOREM FloodTypes == Spec => []TypeOK
<1>1. FloodInv => TypeOK
  BY DEF FloodInv
<1>2. QED
  BY <1>1, FloodInvariance, PTL

\* On every network a flood runs no router twice.
THEOREM RunsOnce == Spec => []ToldOnce
<1>1. FloodInv => ToldOnce
  BY DEF FloodInv, ToldInv
<1>2. QED
  BY <1>1, FloodInvariance, PTL

\* On every network, with one-way links, LANs and LSPs, a flood in which the
\* queue refuses no router reaches exactly the routers connected to its generator.
THEOREM ReachesTheLevel == Spec => []WholeLevelTold
<1>1. FloodInv => WholeLevelTold
  BY WalkOverTold DEF WholeLevelTold
<1>2. QED
  BY <1>1, FloodInvariance, PTL

\* On every network a flood whose queue refuses no router runs every connected
\* router exactly once.
THEOREM TellsExactly == Spec => []ToldExactly
BY RunsOnce, ReachesTheLevel, PTL DEF ToldExactly

\* On every network the routers a flood told are current when it ends.
THEOREM LeavesCurrent == Spec => []ToldAreCurrent
<1>1. FloodInv => ToldAreCurrent
  BY WalkOverTold DEF ToldAreCurrent
<1>2. QED
  BY <1>1, FloodInvariance, PTL

\* On every network, after any sequence of commands whose floods told every
\* router, the routers that are not overloaded agree.
THEOREM RoutersAgree == Spec => []Synchronised
<1>1. FloodInv => Synchronised
  BY DEF FloodInv, AgreeInv, Synchronised
<1>2. QED
  BY <1>1, FloodInvariance, PTL

\* Flooding uses the queue as its specification allows (it reuses an empty one),
\* so that to a flood the array is a FIFO queue.
THEOREM FloodUsesFifo == Spec => QueueSpec /\ ImplementsFifo
<1>1. Init => QueueInit
  BY DEF Init
<1>2. QED
  BY <1>1, FloodInvariance, ArrayIsFifo, PTL DEF Spec, QueueSpec
=============================================================================

--------------------------- MODULE CircularQueue ----------------------------
(***************************************************************************)
(* Queue.c: a queue in a circular array.  Items enter at rear and leave at *)
(* front; both indices run downwards and wrap.  With one item or none,     *)
(* front and rear are the same index.                                      *)
(***************************************************************************)
EXTENDS Naturals, Sequences, FiniteSets

CONSTANTS
  Item,    \* what the callers queue: pointers to nodes
  QSize,   \* Q_DEFAULT_SIZE
  NoItem   \* NULL

ASSUME QueueConstants == QSize \in Nat \ {0} /\ NoItem \notin Item

VARIABLES
  elem,    \* q->elem
  front, rear, count,
  ret      \* what the last call of enqueue or deque returned

queueVars == <<elem, front, rear, count, ret>>

Slot == 0..(QSize - 1)

-----------------------------------------------------------------------------
\* initQ
QueueInit ==
  /\ elem = [i \in Slot |-> NoItem]
  /\ front = QSize - 1 /\ rear = QSize - 1
  /\ count = 0
  /\ ret = NoItem

\* initQ of a further queue
NewQueue ==
  /\ elem' = [i \in Slot |-> NoItem]
  /\ front' = QSize - 1 /\ rear' = QSize - 1
  /\ count' = 0
  /\ UNCHANGED ret

\* Mutant of Before: the index wraps to the size of the array.
BeforeOff(i) == IF i = 0 THEN QSize ELSE i - 1

Before(i) == IF i = 0 THEN QSize - 1 ELSE i - 1

\* enqueue of a full queue
Refuse(x) ==
  /\ count = QSize
  /\ ret' = "refused"
  /\ UNCHANGED <<elem, front, rear, count>>

\* Mutant of Store: the empty queue is no special case.
StoreMoves(x) ==
  /\ count # QSize
  /\ rear' = Before(rear)
  /\ elem' = [elem EXCEPT ![rear'] = x]
  /\ count' = count + 1
  /\ ret' = "stored"
  /\ UNCHANGED front

\* enqueue: the first item takes the place of rear itself
Store(x) ==
  /\ count # QSize
  /\ rear' = IF count = 0 THEN rear ELSE Before(rear)
  /\ elem' = [elem EXCEPT ![rear'] = x]
  /\ count' = count + 1
  /\ ret' = "stored"
  /\ UNCHANGED front

Enqueue(x) == Refuse(x) \/ Store(x)

\* deque of an empty queue
TakeNothing ==
  /\ count = 0
  /\ ret' = NoItem
  /\ UNCHANGED <<elem, front, rear, count>>

\* deque: the last item leaves front where it is
Take ==
  /\ count # 0
  /\ ret' = elem[front]
  /\ elem' = [elem EXCEPT ![front] = NoItem]
  /\ front' = IF front = rear THEN front ELSE Before(front)
  /\ count' = count - 1
  /\ UNCHANGED rear

\* reuse_q, which the caller asserts to be empty
Reuse ==
  /\ count = 0
  /\ front' = QSize - 1 /\ rear' = QSize - 1
  /\ UNCHANGED <<elem, count, ret>>

QueueNext ==
  \/ \E x \in Item : Enqueue(x)
  \/ TakeNothing \/ Take
  \/ Reuse

QueueSpec == QueueInit /\ [][QueueNext]_queueVars

-----------------------------------------------------------------------------
(* Properties.                                                             *)

\* The place of the item that i others are ahead of.
At(i) == IF i <= front THEN front - i ELSE QSize + front - i

QueueType ==
  /\ elem \in [Slot -> Item \cup {NoItem}]
  /\ front \in Slot /\ rear \in Slot
  /\ count \in 0..QSize

\* The count and the two indices agree, and the items are exactly in the slots
\* from front to rear: no item is lost, kept, or overwritten.
SlotsExact ==
  /\ rear = At(IF count = 0 THEN 0 ELSE count - 1)
  /\ \A i \in 0..(QSize - 1) : elem[At(i)] = NoItem <=> i >= count

\* The queued items, oldest first.
Items == [i \in 1..count |-> elem[At(i - 1)]]

\* The array implements a first-in first-out queue of bounded length.
Fifo == INSTANCE BoundedQueue WITH queue <- Items
ImplementsFifo == Fifo!Spec
=============================================================================

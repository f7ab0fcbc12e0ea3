---------------------------- MODULE BoundedQueue ----------------------------
(***************************************************************************)
(* What the users of Queue.h rely on: a first-in first-out queue of at     *)
(* most QSize items that refuses an item when it is full and returns NULL  *)
(* when it is empty.                                                       *)
(***************************************************************************)
EXTENDS Naturals, Sequences

CONSTANTS Item, QSize, NoItem

VARIABLES
  queue,  \* the items, oldest first
  ret     \* what the last call returned

Init == queue = <<>> /\ ret = NoItem

Refuse(x) ==
  /\ Len(queue) = QSize
  /\ ret' = "refused"
  /\ UNCHANGED queue

Store(x) ==
  /\ Len(queue) < QSize
  /\ queue' = Append(queue, x)
  /\ ret' = "stored"

TakeNothing ==
  /\ queue = <<>>
  /\ ret' = NoItem
  /\ UNCHANGED queue

Take ==
  /\ queue # <<>>
  /\ ret' = Head(queue)
  /\ queue' = Tail(queue)

Next ==
  \/ \E x \in Item : Refuse(x) \/ Store(x)
  \/ TakeNothing
  \/ Take

Spec == Init /\ [][Next]_<<queue, ret>>
=============================================================================

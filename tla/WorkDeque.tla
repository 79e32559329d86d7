----------------------------- MODULE WorkDeque -----------------------------
(***************************************************************************)
(* What a worker's task queue promises (common/thedeque.h): a double-ended *)
(* queue whose single owner pushes and pops at the top, whose thieves take *)
(* from the bottom, and which hands every task out exactly once.           *)
(***************************************************************************)
EXTENDS Integers, Sequences

CONSTANT Task

VARIABLES items,   \* the tasks in the queue, bottom first
          given    \* the tasks handed out, to the owner or to a thief

vars == <<items, given>>

Init == items = <<>> /\ given = {}

Push(x) == items' = Append(items, x) /\ UNCHANGED given

TakeTop ==
  /\ items # <<>>
  /\ items[Len(items)] \notin given
  /\ given' = given \union {items[Len(items)]}
  /\ items' = SubSeq(items, 1, Len(items) - 1)

TakeBottom ==
  /\ items # <<>>
  /\ Head(items) \notin given
  /\ given' = given \union {Head(items)}
  /\ items' = Tail(items)

Next == (\E x \in Task : Push(x)) \/ TakeTop \/ TakeBottom

Spec == Init /\ [][Next]_vars
=============================================================================

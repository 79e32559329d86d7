------------------------------ MODULE THEDeque ------------------------------
(***************************************************************************)
(* The work-stealing deque of common/thedeque.h, one action per access to  *)
(* the shared words _h, _t, _array and _lock.  One owner thread runs       *)
(* push_top and pop_top, any number of thieves run pop_bottom.             *)
(*                                                                         *)
(* Memory is sequentially consistent here.  On x86 the only reordering is  *)
(* a store delayed past a later load; the two places where that matters,   *)
(* `_t--; if(_h > _t)' and `_h++; if(_h > _t)', have an mfence between the *)
(* store and the load, and every lock() is an xchg.                        *)
(***************************************************************************)
EXTENDS Integers, Sequences

CONSTANTS Task,      \* the task pointers that are pushed, each once
          Thief,     \* the stealing threads
          Owner,     \* the thread that owns the deque
          None,      \* no lock holder / a slot never written
          InitSize   \* the length of the first array, 1000 in the code

ASSUME DequeAssumption ==
  /\ Owner \notin Thief
  /\ None \notin Thief \union {Owner}
  /\ None \notin Task
  /\ InitSize \in Nat /\ InitSize >= 2

VARIABLES h, t, size, array, lock,
          pc,       \* where each thread is inside its current call
          arg,      \* push_top's argument
          pushed,   \* tasks given to push_top so far
          given     \* tasks returned by pop_top or pop_bottom so far

vars == <<h, t, size, array, lock, pc, arg, pushed, given>>

Proc == Thief \union {Owner}

OwnerPC == {"idle", "push_head", "push_lock", "push_clear", "push_zero",
            "push_write", "push_bump", "grow_lock", "grow",
            "pop_dec", "pop_cmp", "pop_undo", "pop_lock", "pop_retry"}
ThiefPC == {"idle", "trylock", "inc", "cmp", "undo", "take"}

Init ==
  /\ h = 0 /\ t = 0 /\ size = InitSize
  /\ array = [i \in 0..InitSize-1 |-> None]
  /\ lock = None
  /\ pc = [p \in Proc |-> "idle"]
  /\ arg = None
  /\ pushed = {} /\ given = {}

\* Faulty: answers "empty" while one task is left.
EmptyTooEarly == h + 1 >= t


Empty == h >= t

Goto(p, from, to) == pc[p] = from /\ pc' = [pc EXCEPT ![p] = to]

Acquire(p) == lock = None /\ lock' = p

-----------------------------------------------------------------------------
\* push_top, by the owner

\* if(empty() && _h>0): the first read
PushEmpty(x) ==
  /\ x \in Task \ pushed
  /\ Goto(Owner, "idle", IF Empty THEN "push_head" ELSE "push_write")
  /\ arg' = x
  /\ pushed' = pushed \union {x}
  /\ UNCHANGED <<h, t, size, array, lock, given>>

\* ... and the second
PushHead ==
  /\ Goto(Owner, "push_head", IF h > 0 THEN "push_lock" ELSE "push_write")
  /\ UNCHANGED <<h, t, size, array, lock, arg, pushed, given>>

PushLock ==
  /\ Goto(Owner, "push_lock", "push_clear")
  /\ Acquire(Owner)
  /\ UNCHANGED <<h, t, size, array, arg, pushed, given>>

\* if(empty()) _t=_h=0: _h is stored first
PushClear ==
  /\ Goto(Owner, "push_clear", IF Empty THEN "push_zero" ELSE "push_write")
  /\ h' = IF Empty THEN 0 ELSE h
  /\ lock' = IF Empty THEN lock ELSE None
  /\ UNCHANGED <<t, size, array, arg, pushed, given>>

PushZero ==
  /\ Goto(Owner, "push_zero", "push_write")
  /\ t' = 0
  /\ lock' = None
  /\ UNCHANGED <<h, size, array, arg, pushed, given>>

PushWrite ==
  /\ Goto(Owner, "push_write", "push_bump")
  /\ array' = [array EXCEPT ![t] = arg]
  /\ UNCHANGED <<h, t, size, lock, arg, pushed, given>>

\* Faulty: grows when the array is already overrun.
PushBumpLate ==
  /\ Goto(Owner, "push_bump", IF t + 1 > size THEN "grow_lock" ELSE "idle")
  /\ t' = t + 1
  /\ UNCHANGED <<h, size, array, lock, arg, pushed, given>>


PushBump ==
  /\ Goto(Owner, "push_bump", IF t + 1 >= size - 1 THEN "grow_lock" ELSE "idle")
  /\ t' = t + 1
  /\ UNCHANGED <<h, size, array, lock, arg, pushed, given>>

GrowLock ==
  /\ Goto(Owner, "grow_lock", "grow")
  /\ Acquire(Owner)
  /\ UNCHANGED <<h, t, size, array, arg, pushed, given>>

\* realloc keeps the old slots and leaves the new ones uninitialised
Grow ==
  /\ Goto(Owner, "grow", "idle")
  /\ size' = 3 * size
  /\ array' = [i \in 0..size'-1 |-> IF i < size THEN array[i] ELSE None]
  /\ lock' = None
  /\ UNCHANGED <<h, t, arg, pushed, given>>

-----------------------------------------------------------------------------
\* pop_top, by the owner

\* Faulty: pop_top without its empty() test.
PopUnchecked ==
  /\ Goto(Owner, "idle", "pop_dec")
  /\ UNCHANGED <<h, t, size, array, lock, arg, pushed, given>>


PopEmpty ==
  /\ Goto(Owner, "idle", IF Empty THEN "idle" ELSE "pop_dec")
  /\ UNCHANGED <<h, t, size, array, lock, arg, pushed, given>>

PopDec ==
  /\ Goto(Owner, "pop_dec", "pop_cmp")
  /\ t' = t - 1
  /\ UNCHANGED <<h, size, array, lock, arg, pushed, given>>

\* No conflict: return _array[_t]
PopTake ==
  /\ h <= t
  /\ Goto(Owner, "pop_cmp", "idle")
  /\ given' = given \union {array[t]}
  /\ UNCHANGED <<h, t, size, array, lock, arg, pushed>>

PopConflict ==
  /\ h > t
  /\ Goto(Owner, "pop_cmp", "pop_undo")
  /\ UNCHANGED <<h, t, size, array, lock, arg, pushed, given>>

PopUndo ==
  /\ Goto(Owner, "pop_undo", "pop_lock")
  /\ t' = t + 1
  /\ UNCHANGED <<h, size, array, lock, arg, pushed, given>>

PopLock ==
  /\ Goto(Owner, "pop_lock", "pop_retry")
  /\ Acquire(Owner)
  /\ UNCHANGED <<h, t, size, array, arg, pushed, given>>

\* Faulty: the early return keeps the lock.
PopRetryKeepsLock ==
  /\ Empty
  /\ Goto(Owner, "pop_retry", "idle")
  /\ UNCHANGED <<h, t, size, array, lock, arg, pushed, given>>


\* Under the lock: NULL, or _t-- and return _array[_t]
PopRetryEmpty ==
  /\ Empty
  /\ Goto(Owner, "pop_retry", "idle")
  /\ lock' = None
  /\ UNCHANGED <<h, t, size, array, arg, pushed, given>>

PopRetryTake ==
  /\ ~Empty
  /\ Goto(Owner, "pop_retry", "idle")
  /\ t' = t - 1
  /\ given' = given \union {array[t - 1]}
  /\ lock' = None
  /\ UNCHANGED <<h, size, array, arg, pushed>>

-----------------------------------------------------------------------------
\* pop_bottom, by a thief

StealEmpty(p) ==
  /\ Goto(p, "idle", IF Empty THEN "idle" ELSE "trylock")
  /\ UNCHANGED <<h, t, size, array, lock, arg, pushed, given>>

StealTrylock(p) ==
  /\ Goto(p, "trylock", IF lock = None THEN "inc" ELSE "idle")
  /\ lock' = IF lock = None THEN p ELSE lock
  /\ UNCHANGED <<h, t, size, array, arg, pushed, given>>

StealInc(p) ==
  /\ Goto(p, "inc", "cmp")
  /\ h' = h + 1
  /\ UNCHANGED <<t, size, array, lock, arg, pushed, given>>

\* Faulty: the thief takes the slot without comparing _h with _t again.
StealCompareNever(p) ==
  /\ Goto(p, "cmp", "take")
  /\ UNCHANGED <<h, t, size, array, lock, arg, pushed, given>>


StealCompare(p) ==
  /\ Goto(p, "cmp", IF h > t THEN "undo" ELSE "take")
  /\ UNCHANGED <<h, t, size, array, lock, arg, pushed, given>>

\* Faulty: the thief backs out without restoring _h.
StealUndoForgets(p) ==
  /\ Goto(p, "undo", "idle")
  /\ lock' = None
  /\ UNCHANGED <<h, t, size, array, arg, pushed, given>>


StealUndo(p) ==
  /\ Goto(p, "undo", "idle")
  /\ h' = h - 1
  /\ lock' = None
  /\ UNCHANGED <<t, size, array, arg, pushed, given>>

StealTake(p) ==
  /\ Goto(p, "take", "idle")
  /\ given' = given \union {array[h - 1]}
  /\ lock' = None
  /\ UNCHANGED <<h, t, size, array, arg, pushed>>

-----------------------------------------------------------------------------
\* A call in progress continues; a new call may start.
OwnerContinues ==
  \/ PushHead \/ PushLock \/ PushClear \/ PushZero \/ PushWrite \/ PushBump
  \/ GrowLock \/ Grow
  \/ PopDec \/ PopTake \/ PopConflict \/ PopUndo \/ PopLock
  \/ PopRetryEmpty \/ PopRetryTake

ThiefContinues(p) ==
  \/ StealTrylock(p) \/ StealInc(p) \/ StealCompare(p)
  \/ StealUndo(p) \/ StealTake(p)

OwnerCalls == PopEmpty \/ \E x \in Task : PushEmpty(x)

Next ==
  \/ OwnerCalls \/ OwnerContinues
  \/ \E p \in Thief : StealEmpty(p) \/ ThiefContinues(p)

Spec == Init /\ [][Next]_vars

\* A thread that is inside a call is scheduled again.  Nobody is obliged to
\* start one, and the spin lock is not fair: WF, not SF, on the lock steps.
FairSpec ==
  Spec /\ WF_vars(OwnerContinues) /\ \A p \in Thief : WF_vars(ThiefContinues(p))

-----------------------------------------------------------------------------
\* Properties

\* Every word of the deque keeps its type.
TypeOK ==
  /\ h \in Nat /\ t \in Nat /\ size \in Nat
  /\ array \in [0..size-1 -> Task \union {None}]
  /\ lock \in Proc \union {None}
  /\ pc \in [Proc -> OwnerPC \union ThiefPC]
  /\ pc[Owner] \in OwnerPC
  /\ \A p \in Thief : pc[p] \in ThiefPC
  /\ arg \in Task \union {None}
  /\ pushed \subseteq Task
  /\ given \subseteq Task

\* The slots that hold undelivered tasks.  A thief that has incremented _h
\* has not yet taken its slot, an owner that has decremented _t neither;
\* between `_h=0' and `_t=0' no slot counts.
Stealing == \E p \in Thief : pc[p] \in {"cmp", "undo", "take"}
Bottom == IF Stealing THEN h - 1 ELSE h
Top == IF pc[Owner] \in {"pop_cmp", "pop_undo"} THEN t + 1
       ELSE IF pc[Owner] = "push_zero" THEN 0
       ELSE t
Window == Bottom..Top-1
Live == {array[i] : i \in Window}

\* pop_top and pop_bottom together hand each pushed task out exactly once,
\* the owner the newest and a thief the oldest: the deque implements
\* WorkDeque (comment "Implementation of the Cilk THE protocol").
Abs == INSTANCE WorkDeque
         WITH items <- [i \in 1..(Top - Bottom) |-> array[Bottom + i - 1]]
ImplementsWorkDeque == Abs!Spec

\* No task is lost or duplicated: one that push_top accepted is in the
\* window, was handed out, or is push_top's argument on its way in, and
\* never two of these; no slot of the window is an uninitialised one.
Arriving == IF pc[Owner] \in {"push_head", "push_lock", "push_clear",
                              "push_zero", "push_write", "push_bump"}
            THEN {arg} ELSE {}
ExactlyOnce ==
  /\ pushed = Live \union given \union Arriving
  /\ Live \intersect given = {}
  /\ Arriving \intersect (Live \union given) = {}
  /\ \A i, j \in Window : array[i] = array[j] => i = j

\* push_top's store and both kinds of read stay inside the allocation, also
\* while the other side has moved _h or _t past it (the `_size - 1' test).
InBounds ==
  /\ pc[Owner] = "push_write" => t \in 0..size-1
  /\ pc[Owner] = "pop_cmp" => t \in 0..size-1
  /\ \A p \in Thief : pc[p] = "take" => h - 1 \in 0..size-1

\* Where pop_top answers NULL, at most one task is left, and then a thief is
\* inside pop_bottom with the lock: it takes that task, or it is about to
\* undo an increment made before the task was pushed ("undo").  In the
\* latter case the owner misses a task of its own deque, which stays there.
NullOnlyWhenDrained ==
  pc[Owner] \in {"idle", "pop_retry"} /\ Empty =>
    \/ Top <= Bottom
    \/ /\ Top = Bottom + 1
       /\ \E p \in Thief : lock = p /\ pc[p] \in {"cmp", "undo", "take"}

\* However the thieves are scheduled, a call of the owner returns: they
\* cannot keep the unfair spin lock from it, as each needs a task to retry.
OwnerReturns == pc[Owner] # "idle" ~> pc[Owner] = "idle"
=============================================================================

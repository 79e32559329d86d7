---------------------------- MODULE WorkerQueues ----------------------------
(***************************************************************************)
(* The three task queues of a WorkerThread (runtime/workerthread.h): the   *)
(* on-deck slot only its owner sees, the THEDeque, and the LockingDeque    *)
(* other threads inject work into.                                         *)
(*                                                                         *)
(* The deque is the one of WorkDeque, which THEDeque implements; the two   *)
(* ways in which THEDeque may answer NULL although a task is there are     *)
(* kept: a thief may always fail to get the lock, and an owner may miss    *)
(* the last task while a thief is in its critical section.                 *)
(***************************************************************************)
EXTENDS Integers, Sequences, SequencesExt

CONSTANTS Task, Worker, None

VARIABLES ondeck,   \* WorkerThread::_ondeck
          deque,    \* WorkerThread::_deque, bottom first
          inject    \* WorkerThread::_injectQueue, bottom first

queues == <<ondeck, deque, inject>>

QueuesInit ==
  /\ ondeck = [w \in Worker |-> None]
  /\ deque = [w \in Worker |-> <<>>]
  /\ inject = [w \in Worker |-> <<>>]

QueuesTypeOK ==
  /\ ondeck \in [Worker -> Task \union {None}]
  /\ deque \in [Worker -> Seq(Task)] /\ inject \in [Worker -> Seq(Task)]

Queued == ({ondeck[w] : w \in Worker} \ {None})
          \union UNION {ToSet(deque[w]) \union ToSet(inject[w]) : w \in Worker}

\* WorkerThread::pushLocal, by w
PushLocal(w, t) ==
  /\ IF ondeck[w] = None
     THEN ondeck' = [ondeck EXCEPT ![w] = t] /\ UNCHANGED deque
     ELSE deque' = [deque EXCEPT ![w] = Append(@, t)] /\ UNCHANGED ondeck
  /\ UNCHANGED inject

\* WorkerThread::workCount; the on-deck slot "is excluded purposefully (it
\* cant be stolen)"
WorkCount(w) == Len(deque[w]) + Len(inject[w])

\* WorkerThread::inject, by any thread: push_bottom
Inject(v, t) ==
  /\ inject' = [inject EXCEPT ![v] = <<t>> \o @]
  /\ UNCHANGED <<ondeck, deque>>

\* THEDeque::pop_top by w may answer NULL although one task is there
\* (THEDeque!NullOnlyWhenDrained): miss says that it does.
MayMiss(w) == Len(deque[w]) = 1
PopTopEmpty(w, miss) == deque[w] = <<>> \/ miss

\* WorkerThread::popLocal, by w, returning t
PopLocal(w, t, miss) ==
  \/ /\ t = ondeck[w] /\ t # None
     /\ ondeck' = [ondeck EXCEPT ![w] = None]
     /\ UNCHANGED <<deque, inject>>
  \/ /\ ondeck[w] = None
     /\ ~PopTopEmpty(w, miss) /\ t = Last(deque[w])
     /\ deque' = [deque EXCEPT ![w] = Front(@)]
     /\ UNCHANGED <<ondeck, inject>>
  \/ /\ ondeck[w] = None
     /\ PopTopEmpty(w, miss)
     /\ inject[w] # <<>> /\ t = Last(inject[w])
     /\ inject' = [inject EXCEPT ![w] = Front(@)]
     /\ UNCHANGED <<ondeck, deque>>

\* ... and returning NULL
PopLocalNull(w, miss) == ondeck[w] = None /\ PopTopEmpty(w, miss) /\ inject[w] = <<>>

\* WorkerThread::steal from v, returning t.  The deque's turn comes when the
\* inject queue is empty or its trylock fails.
Steal(v, t) ==
  \/ /\ inject[v] # <<>> /\ t = Head(inject[v])
     /\ inject' = [inject EXCEPT ![v] = Tail(@)]
     /\ UNCHANGED <<ondeck, deque>>
  \/ /\ deque[v] # <<>> /\ t = Head(deque[v])
     /\ deque' = [deque EXCEPT ![v] = Tail(@)]
     /\ UNCHANGED <<ondeck, inject>>
=============================================================================

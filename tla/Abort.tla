------------------------------- MODULE Abort -------------------------------
(***************************************************************************)
(* How a trial is given up (DynamicScheduler::abort and shutdown, class    *)
(* AbortTask in runtime/workerthread.cpp).  An AbortTask spreads by being  *)
(* stolen: whoever runs it cancels the tasks it finds and lets copies of   *)
(* the AbortTask itself be stolen, until every worker runs it; a barrier   *)
(* follows, after which every worker unwinds by an exception, the main     *)
(* thread out of the trial and the others back to their main loop.         *)
(*                                                                         *)
(* An ordinary task is pushed by a body, popped or stolen, and run or      *)
(* cancelled; module DynamicTask has the rest of its life.  A steal from a *)
(* deque may be slow: the thief has seen a task and holds the lock while   *)
(* the owner goes on, which is when pop_top can miss a task (THEDeque).    *)
(***************************************************************************)
EXTENDS WorkerQueues, FiniteSets

CONSTANTS Main,        \* theMainWorkerThread
          Work,        \* ordinary tasks, each spawned at most once
          Aborts,      \* the AbortTasks that may be created
          Low, Copies, \* the 5 and the 15 of AbortTask::run
          SlowThieves, \* whether a steal may be slow
          GpuInjects   \* whether a thread that is no worker injects tasks

ASSUME AbortAssumption ==
  /\ Main \in Worker /\ IsFiniteSet(Worker) /\ None \notin Worker
  /\ Task = Work \union Aborts /\ Work \intersect Aborts = {} /\ None \notin Task
  /\ Low \in Nat \ {0} /\ Copies \in Nat \ {0, 1, 2}
  /\ SlowThieves \in BOOLEAN /\ GpuInjects \in BOOLEAN

VARIABLES pc,          \* what each worker is doing
          at,          \* the AbortTask it is running
          lost,        \* it waits in abort() for another thread's AbortTask
          left,        \* copies it has still to push
          numLive,     \* AbortTask::_numLive
          numAborting, \* AbortTask::_numAborting
          exiting,     \* the AbortTasks made by shutdown()
          lock,        \* holder of the static lock of abort()
          thief,       \* per deque, the slow thief that has its lock
          blind,       \* per deque, whether that thief hides the only task
          raised,      \* per deque, whether _h > 0
          born,        \* the trial that spawned a task; 0: not yet spawned
          trial,       \* trials started by the main thread
          cancelled,   \* tasks that cancel() was called on
          failed,      \* JASSERT(t==this) failed
          stray        \* a task has escaped an abort

control == <<pc, at, lost, left>>
counters == <<numLive, numAborting, exiting, lock>>
slow == <<thief, blind, raised>>
history == <<born, trial, cancelled, failed, stray>>
vars == <<queues, control, counters, slow, history>>

\* The stages of AbortTask::run; the last ones are past the barrier.
Entered == {"cancelOwn", "test", "push", "rob", "drain"}
Leaving == {"unlock", "unwind"}
PCs == {"between", "work", "busy", "giveUp", "enter", "barrier", "exited"}
       \union Entered \union Leaving

\* What the counters of an AbortTask start from: every worker takes part.
\* Faulty: without the one that makes it.
TheOthers == Cardinality(Worker) - 1
TotalWorkers == Cardinality(Worker)

Init ==
  /\ QueuesInit
  /\ pc = [w \in Worker |-> IF w = Main THEN "between" ELSE "work"]
  /\ at = [w \in Worker |-> None]
  /\ lost = [w \in Worker |-> FALSE]
  /\ left = [w \in Worker |-> 0]
  /\ numLive = [a \in Aborts |-> TotalWorkers]
  /\ numAborting = [a \in Aborts |-> TotalWorkers]
  /\ exiting = {}
  /\ lock = None
  /\ thief = [w \in Worker |-> None]
  /\ blind = [w \in Worker |-> FALSE]
  /\ raised = [w \in Worker |-> FALSE]
  /\ born = [t \in Work |-> 0]
  /\ trial = 0
  /\ cancelled = {}
  /\ failed = FALSE
  /\ stray = FALSE

\* w is not inside a slow steal
Goto(w, from, to) ==
  /\ pc[w] = from /\ \A v \in Worker : thief[v] # w
  /\ pc' = [pc EXCEPT ![w] = to]

Unused == {a \in Aborts : \A w \in Worker : at[w] # a /\ numLive[a] = TotalWorkers}

-----------------------------------------------------------------------------
\* The queues, with slow thieves

\* push_top that finds the deque empty and _h > 0 waits for the lock and
\* resets _h.  One that read _h before the thief raised it does not wait; if
\* the thief compares before the push is done, it goes on to its undo.
Give(w, t) ==
  /\ PushLocal(w, t)
  /\ IF ondeck[w] = None \/ (deque[w] # <<>> /\ ~blind[w])
     THEN UNCHANGED slow
     ELSE IF raised[w] \/ blind[w]
     THEN thief[w] = None /\ raised' = [raised EXCEPT ![w] = FALSE] /\ UNCHANGED <<thief, blind>>
     ELSE /\ \E b \in {FALSE, thief[w] # None} : blind' = [blind EXCEPT ![w] = b]
          /\ UNCHANGED <<thief, raised>>

Pop(w, t) == PopLocal(w, t, blind[w]) /\ UNCHANGED slow
PopNull(w) == PopLocalNull(w, blind[w]) /\ UNCHANGED <<queues, slow>>

Raise(v) == raised' = [raised EXCEPT ![v] = @ \/ (SlowThieves /\ deque'[v] # deque[v])]

Rob(w, v, t) ==
  /\ v # w /\ thief[v] = None
  /\ Steal(v, t)
  /\ Raise(v) /\ UNCHANGED <<thief, blind>>

\* pop_bottom by w: not empty, lock taken
SlowStealBegins(w, v) ==
  /\ SlowThieves
  /\ v # w /\ thief[v] = None /\ deque[v] # <<>>
  /\ \/ Goto(w, "work", "work") /\ PopLocalNull(w, blind[w])
     \/ Goto(w, "rob", "rob")
  /\ thief' = [thief EXCEPT ![v] = w]
  /\ UNCHANGED <<queues, at, lost, left, counters, blind, raised, history>>

-----------------------------------------------------------------------------
\* Trials and task bodies

\* computeWrapperSubproc() calls compute() again
StartTrial ==
  /\ Goto(Main, "between", "busy")
  /\ trial < Cardinality(Aborts)
  /\ trial' = trial + 1
  /\ UNCHANGED <<queues, at, lost, left, counters, slow, born, cancelled, failed, stray>>

Spawn(w, t) ==
  /\ Goto(w, "busy", "busy")
  /\ born[t] = 0
  /\ born' = [born EXCEPT ![t] = trial]
  /\ Give(w, t)
  /\ UNCHANGED <<at, lost, left, counters, trial, cancelled, failed, stray>>

\* The body ends, or waits for a task and runs others meanwhile.
Finish(w) ==
  /\ Goto(w, "busy", "work")
  /\ UNCHANGED <<queues, at, lost, left, counters, slow, history>>

\* The main thread's wait ends: all tasks of the trial are complete.
TrialEnds ==
  /\ Goto(Main, "work", "between")
  /\ \A w \in Worker : pc[w] = "work" /\ ~lost[w]
  /\ Queued = {}
  /\ UNCHANGED <<queues, at, lost, left, counters, slow, history>>

\* A trial was given up; what it had on the GPU goes on.
GivenUp == \E a \in Aborts \ exiting : numAborting[a] = 0

\* A GPU task completed and a task that depends on it is ready.  It escapes an
\* abort when that runs, or when the trial is over.  The GPU's thread is joined
\* before shutdown().
GpuCompletes(v, t) ==
  /\ GpuInjects
  /\ pc[Main] # "exited" /\ at[Main] \notin exiting
  /\ born[t] = 0
  /\ \E b \in 1..trial :
       LET late == b # trial \/ pc[Main] = "between"
       IN  /\ late => GivenUp
           /\ born' = [born EXCEPT ![t] = b]
           /\ stray' = (stray \/ late \/ \E w \in Worker : at[w] # None)
  /\ Inject(v, t)
  /\ UNCHANGED <<control, counters, slow, trial, cancelled, failed>>

\* w, in popAndRunOneTask, got t.
Run(w, t) ==
  /\ IF t \in Aborts
     THEN Goto(w, "work", "enter") /\ at' = [at EXCEPT ![w] = t]
     ELSE Goto(w, "work", "busy") /\ UNCHANGED at
  /\ UNCHANGED <<lost, left, counters, history>>

PopAndRun(w, t) == Pop(w, t) /\ Run(w, t)
StealAndRun(w, t) == PopLocalNull(w, blind[w]) /\ (\E v \in Worker : Rob(w, v, t)) /\ Run(w, t)

\* The thief's steal ends: in a task, or in the undo of pop_bottom.
SlowStealEnds(w, v) ==
  /\ thief[v] = w
  /\ thief' = [thief EXCEPT ![v] = None]
  /\ blind' = [blind EXCEPT ![v] = FALSE]
  /\ IF blind[v] \/ deque[v] = <<>>
     THEN UNCHANGED <<queues, pc, at, raised, cancelled>>
     ELSE LET t == Head(deque[v]) IN
          /\ deque' = [deque EXCEPT ![v] = Tail(@)]
          /\ Raise(v)
          /\ UNCHANGED <<ondeck, inject>>
          /\ IF pc[w] = "work"
             THEN /\ pc' = [pc EXCEPT ![w] = IF t \in Aborts THEN "enter" ELSE "busy"]
                  /\ at' = IF t \in Aborts THEN [at EXCEPT ![w] = t] ELSE at
                  /\ UNCHANGED cancelled
             ELSE /\ cancelled' = IF t = at[w] THEN cancelled ELSE cancelled \union {t}
                  /\ UNCHANGED <<pc, at>>
  /\ UNCHANGED <<lost, left, counters, born, trial, failed, stray>>

-----------------------------------------------------------------------------
\* abort() and shutdown()

\* abort() by the body w runs, the static lock is free.  Faulty: not tested.
NoLockTest == TRUE
LockIsFree == lock = None

AbortWins(w) ==
  /\ Goto(w, "busy", "enter")
  /\ LockIsFree
  /\ lock' = w
  /\ \E a \in Unused : at' = [at EXCEPT ![w] = a]
  /\ UNCHANGED <<queues, lost, left, numLive, numAborting, exiting, slow, history>>

\* another thread beat us to the abort()
AbortLoses(w) ==
  /\ Goto(w, "busy", "giveUp")
  /\ ~LockIsFree
  /\ lost' = [lost EXCEPT ![w] = TRUE]
  /\ UNCHANGED <<queues, at, left, counters, slow, history>>

\* while((t=self->popLocal())!=NULL) t->cancel(), in abort() and in run()
CancelOwn(w, t) ==
  /\ Goto(w, "giveUp", "giveUp") \/ Goto(w, "cancelOwn", "cancelOwn")
  /\ Pop(w, t)
  /\ cancelled' = cancelled \union {t}
  /\ UNCHANGED <<at, lost, left, counters, born, trial, failed, stray>>

\* Faulty: ends with tasks left.
NotAllCancelled(w) == UNCHANGED <<queues, slow>>
AllCancelled(w) == PopNull(w)

\* for(;;) popAndRunOneTask().  Faulty: waits without running tasks.
StaysThere == "giveUp"
LooksAgain == "work"

\* A thief may hide the last task from popLocal.
CancelOwnEnds(w) ==
  /\ Goto(w, "giveUp", LooksAgain) \/ Goto(w, "cancelOwn", "test")
  /\ AllCancelled(w)
  /\ stray' = (stray \/ (pc[w] = "cancelOwn" /\ blind[w]))
  /\ UNCHANGED <<at, lost, left, counters, born, trial, cancelled, failed>>

\* shutdown(), by the main thread between trials
Shutdown ==
  /\ Goto(Main, "between", "enter")
  /\ \E a \in Unused : at' = [at EXCEPT ![Main] = a] /\ exiting' = exiting \union {a}
  /\ UNCHANGED <<queues, lost, left, numLive, numAborting, lock, slow, history>>

-----------------------------------------------------------------------------
\* AbortTask::run

Enter(w) ==
  /\ Goto(w, "enter", "cancelOwn")
  /\ numLive' = [numLive EXCEPT ![at[w]] = @ - 1]
  /\ UNCHANGED <<queues, at, lost, left, numAborting, exiting, lock, slow, history>>

\* while(_numLive>0) if(self->workCount()<5).  Faulty: one copy suffices.
PushesFew(w) == IF ondeck[w] = None THEN 1 ELSE 0
Pushes(w) == IF WorkCount(w) < Low THEN Copies ELSE 0

Test(w) ==
  /\ \/ /\ Goto(w, "test", "push")
        /\ numLive[at[w]] > 0
        /\ left' = [left EXCEPT ![w] = Pushes(w)]
     \/ /\ Goto(w, "test", "drain")
        /\ numLive[at[w]] = 0
        /\ UNCHANGED left
  /\ UNCHANGED <<queues, at, lost, counters, slow, history>>

PushCopy(w) ==
  /\ Goto(w, "push", "push")
  /\ left[w] > 0 /\ left' = [left EXCEPT ![w] = @ - 1]
  /\ Give(w, at[w])
  /\ UNCHANGED <<at, lost, counters, history>>

PushEnds(w) ==
  /\ Goto(w, "push", "rob")
  /\ left[w] = 0
  /\ UNCHANGED <<queues, at, lost, left, counters, slow, history>>

\* if(t!=NULL && t!=this) t->cancel()
ForeignTask(w, t) == t # at[w]

RobVictim(w, t) ==
  /\ \E v \in Worker : Rob(w, v, t)
  /\ IF ForeignTask(w, t)
     THEN Goto(w, "rob", "rob") /\ cancelled' = cancelled \union {t}
     ELSE Goto(w, "rob", "test") /\ UNCHANGED cancelled
  /\ UNCHANGED <<at, lost, left, counters, born, trial, failed, stray>>

RobEnds(w) ==
  /\ Goto(w, "rob", "test")
  /\ UNCHANGED <<queues, at, lost, left, counters, slow, history>>

\* while((t=self->popLocal())!=NULL) JASSERT(t==this)
Drain(w, t) ==
  /\ Goto(w, "drain", "drain")
  /\ Pop(w, t)
  /\ failed' = (t # at[w])
  /\ UNCHANGED <<at, lost, left, counters, born, trial, cancelled, stray>>

\* The end of the drain.  Faulty: the drain is left out.
NotDrained(w) == TRUE
Drained(w) == PopLocalNull(w, blind[w])

Arrive(w) ==
  /\ Goto(w, "drain", "barrier")
  /\ Drained(w)
  /\ numAborting' = [numAborting EXCEPT ![at[w]] = @ - 1]
  /\ UNCHANGED <<queues, at, lost, left, numLive, exiting, lock, slow, history>>

\* while(_numAborting>0)
BarrierOpen(a) == numAborting[a] = 0

PassBarrier(w) ==
  /\ Goto(w, "barrier", IF lock = w THEN "unlock" ELSE "unwind")
  /\ BarrierOpen(at[w])
  /\ UNCHANGED <<queues, at, lost, left, counters, slow, history>>

\* abort() catches what its AbortTask threw.
Unlock(w) ==
  /\ Goto(w, "unlock", "unwind")
  /\ lock' = None
  /\ UNCHANGED <<queues, at, lost, left, numLive, numAborting, exiting, slow, history>>

\* AbortException ends the main thread's trial and the others' current task;
\* CleanExitException ends a thread.
Unwind(w) ==
  /\ Goto(w, "unwind", IF w = Main
                       THEN IF at[w] \in exiting THEN "exited" ELSE "between"
                       ELSE IF at[w] \in exiting THEN "exited" ELSE "work")
  /\ at' = [at EXCEPT ![w] = None]
  /\ lost' = [lost EXCEPT ![w] = FALSE]
  /\ UNCHANGED <<queues, left, counters, slow, history>>

-----------------------------------------------------------------------------
RunsAbort(w) ==
  \/ Enter(w) \/ CancelOwnEnds(w) \/ Test(w) \/ PushCopy(w) \/ PushEnds(w)
  \/ RobEnds(w) \/ Arrive(w) \/ PassBarrier(w) \/ Unlock(w) \/ Unwind(w)
  \/ \E t \in Task : CancelOwn(w, t) \/ RobVictim(w, t) \/ Drain(w, t)

Looks(w) == \E t \in Task : PopAndRun(w, t) \/ StealAndRun(w, t)

Steals(w) == \E v \in Worker : SlowStealEnds(w, v)

\* All threads have been joined.
Joined == (\A w \in Worker : pc[w] = "exited") /\ UNCHANGED vars

\* A failed JASSERT ends the process.
Next ==
  /\ ~failed
  /\ \/ StartTrial \/ TrialEnds \/ Shutdown \/ Joined
     \/ \E v \in Worker, t \in Work : GpuCompletes(v, t)
     \/ \E w \in Worker :
          \/ \E t \in Work : Spawn(w, t)
          \/ Finish(w) \/ AbortWins(w) \/ AbortLoses(w)
          \/ RunsAbort(w) \/ Looks(w) \/ Steals(w)
          \/ \E v \in Worker : SlowStealBegins(w, v)

Spec == Init /\ [][Next]_vars

\* Threads are scheduled and bodies end; a worker that looks for a task again
\* and again, at victims chosen at random, finds one that keeps reappearing.
FairSpec ==
  /\ Spec
  /\ \A w \in Worker :
       /\ WF_vars(~failed /\ (RunsAbort(w) \/ Steals(w)))
       /\ WF_vars(~failed /\ (Finish(w) \/ AbortWins(w) \/ AbortLoses(w)))
       /\ SF_vars(~failed /\ Looks(w))

-----------------------------------------------------------------------------
\* Properties

\* The counters of an AbortTask count down from the number of workers.
TypeOK ==
  /\ QueuesTypeOK
  /\ pc \in [Worker -> PCs]
  /\ at \in [Worker -> Aborts \union {None}]
  /\ lost \in [Worker -> BOOLEAN]
  /\ left \in [Worker -> 0..Copies]
  /\ numLive \in [Aborts -> 0..TotalWorkers]
  /\ numAborting \in [Aborts -> 0..TotalWorkers]
  /\ exiting \subseteq Aborts
  /\ lock \in Worker \union {None}
  /\ thief \in [Worker -> Worker \union {None}]
  /\ blind \in [Worker -> BOOLEAN] /\ raised \in [Worker -> BOOLEAN]
  /\ born \in [Work -> 0..trial] /\ trial \in Nat
  /\ cancelled \subseteq Task
  /\ failed \in BOOLEAN /\ stray \in BOOLEAN

\* "drain off all our abort tasks": what the drain pops is the AbortTask, as
\* JASSERT(t==this) says (workerthread.cpp:244-247).
DrainsOnlyCopies == ~failed

\* Only a task that escaped can make that assertion fail: one that a slow thief
\* hid while its owner cancelled its tasks, or that the GPU made ready too late.
\* Whatever else the thieves do, no drain finds a foreign task.
FailsByStrays == failed => stray

\* Once an AbortTask has let its workers go it is deleted: no queue holds a
\* pointer to it, so none can be run or cancelled later.
NoCopyLeft == \A a \in Aborts : numAborting[a] = 0 => a \notin Queued

\* AbortTasks are run, never cancelled: at any time the only one there is, is
\* the one the cancelling thread runs itself, as long as no task has escaped
\* into a later trial, to call abort() between trials.
NeverCancelsAbort == ~stray => cancelled \intersect Aborts = {}

\* An abort ends its trial completely: whatever is still queued was spawned by
\* the trial the main thread is in, unless a task escaped.
TrialsDoNotMix == ~stray => \A t \in Queued \intersect Work : born[t] = trial

\* Every worker unwinds together: abort() and shutdown() end for all.
AbortEnds == (\E w \in Worker : at[w] # None) ~> (\A w \in Worker : at[w] = None)

\* "wait until the other thread aborts us" (dynamicscheduler.cpp:102): the
\* threads whose abort() came too late are aborted too.
LoserIsAborted == (\E w \in Worker : lost[w]) ~> (\A w \in Worker : ~lost[w])
=============================================================================

---------------------------- MODULE DynamicTask ----------------------------
(***************************************************************************)
(* The task graph of runtime/dynamictask.cpp: tasks are created and wired  *)
(* by the body of another task, enqueued, run by workers once their        *)
(* predecessors are done, replaced by a continuation or completed.         *)
(*                                                                         *)
(* Every call a thread has still to make is a frame of its stack; a step   *)
(* executes the top frame, atomically as far as one critical section of    *)
(* the task's _lock (dependsOn holds two locks, nested).                   *)
(***************************************************************************)
EXTENDS WorkerQueues, FiniteSets

CONSTANTS Main,      \* the worker that runs main()
          Utility,   \* a thread that is no worker: GPU manager, listener
          Programs   \* the task graphs that may be executed, and whether
                     \* their bodies may call DynamicScheduler::abort()

ASSUME TaskAssumption ==
  /\ Main \in Worker /\ Utility \notin Worker /\ None \notin Task
  /\ IsFiniteSet(Task)

VARIABLES prog,              \* the program being executed
          state,             \* DynamicTask::_state
          dependents,        \* _dependents
          numPredecessors,   \* _numPredecessors
          continuation,      \* _continuation
          refs,              \* _refCount; 0 once the task is deleted
          stack,             \* per thread, the calls still to be made
          outstanding,       \* tasks a GPU or another host executes
          started,           \* how often run() was entered
          failed             \* a JASSERT failed

tasks == <<state, dependents, numPredecessors, continuation, refs>>
vars == <<prog, tasks, stack, outstanding, started, failed, queues>>

Thread == Worker \union {Utility}

\* Frames: the method, its task, its argument.
Call(do, t, arg) == [do |-> do, t |-> t, arg |-> arg]
DependsOn(t, that) == Call("dependsOn", t, that)
Enqueue(t) == Call("enqueue", t, None)
Wait(t) == Call("wait", t, None)
Release(t) == Call("release", t, None)
Releases(S) == [i \in 1..Cardinality(S) |-> Release(SetToSeq(S)[i])]

\* The calls of a body: on the tasks it has created, each of which it wires
\* before it enqueues it, once, or returns it as the continuation.  Bodies
\* that hand tasks on by members of a common object (the nodes of a schedule,
\* _completion, _all of GroupedDynamicTask) count as one: see the README.
BodyCall == [do : {"dependsOn"}, t : Task, arg : Task]
            \union [do : {"enqueue", "wait"}, t : Task, arg : {None}]
Wires(body, made, cont) ==
  \A i \in DOMAIN body : LET f == body[i] IN
    /\ f.t \in made
    /\ f.do = "dependsOn" =>
         /\ f.arg \in made \ {f.t}
         /\ f.t = cont \/ \E j \in DOMAIN body : j > i /\ body[j] = Enqueue(f.t)
    /\ f.do = "enqueue" => f.t # cont /\ \A j \in DOMAIN body : body[j] = f => j = i

WellFormed(p) ==
  /\ Wires(p.main, p.makes[None], None)
  /\ \A t \in Task : /\ Wires(p.body[t], p.makes[t], p.cont[t])
                     /\ p.cont[t] \in p.makes[t] \union {None} /\ t \notin p.makes[t]
  /\ \A s, t \in Task \union {None} : s # t => p.makes[s] \intersect p.makes[t] = {}

ASSUME ProgramAssumption ==
  /\ Programs \subseteq [main : Seq(BodyCall), body : [Task -> Seq(BodyCall)],
                         cont : [Task -> Task \union {None}],
                         makes : [Task \union {None} -> SUBSET Task],
                         kind : [Task -> {"cpu", "null", "remote", "gpu"}],
                         mayAbort : BOOLEAN]
  /\ \A p \in Programs : WellFormed(p)

Remote == {t \in Task : prog.kind[t] \in {"remote", "gpu"}}

Init ==
  /\ prog \in Programs
  /\ state = [t \in Task |-> IF t \in Remote THEN "REMOTE_NEW" ELSE "NEW"]
  /\ dependents = [t \in Task |-> <<>>]
  /\ numPredecessors = [t \in Task |-> 0]
  /\ continuation = [t \in Task |-> None]
  /\ refs = [t \in Task |-> 1]          \* the pointer its creator holds
  /\ stack = [w \in Thread |-> IF w = Main
                THEN prog.main \o Releases(prog.makes[None]) ELSE <<>>]
  /\ outstanding = {}
  /\ started = [t \in Task |-> 0]
  /\ failed = FALSE
  /\ QueuesInit

\* The top frame of w is a call of `do' on t; fs replace it.
Top(w, do, t) == stack[w] # <<>> /\ Head(stack[w]).do = do /\ Head(stack[w]).t = t
Arg(w) == Head(stack[w]).arg
Replace(w, fs) == stack' = [stack EXCEPT ![w] = fs \o Tail(@)]
Push(w, f) == stack' = [stack EXCEPT ![w] = <<f>> \o @]

JAssert(P) == failed' = (failed \/ ~P)
Isolated == UNCHANGED <<prog, queues, outstanding, started>>

-----------------------------------------------------------------------------
\* The count dependsOn takes under both locks.
Counted(t) == [numPredecessors EXCEPT ![t] = @ + 1]

\* dependsOn forwards to the continuation of a task that ran.  Faulty: it
\* registers with the task itself.
NeverForwards(that) == FALSE
Forwards(that) == state[that] = "CONTINUED"

\* dependsOn(that): registered with that, with its continuation, or nowhere
DoDependsOn(w, t) ==
  /\ Top(w, "dependsOn", t)
  /\ JAssert(state[t] \in {"NEW", "REMOTE_NEW"} /\ Arg(w) # t)
  /\ LET that == Arg(w) IN
     \/ /\ Forwards(that)
        /\ Replace(w, <<DependsOn(t, continuation[that])>>)
        /\ UNCHANGED <<dependents, numPredecessors>>
     \/ /\ state[that] = "COMPLETE"
        /\ Replace(w, <<>>)
        /\ UNCHANGED <<dependents, numPredecessors>>
     \/ /\ ~Forwards(that) /\ state[that] # "COMPLETE"
        /\ dependents' = [dependents EXCEPT ![that] = Append(@, t)]
        /\ numPredecessors' = Counted(t)
        /\ Replace(w, <<>>)
  /\ UNCHANGED <<state, continuation, refs>> /\ Isolated

\* The predecessor test of enqueue().  Faulty: without the test.
NoneLeftUnchecked(t) == TRUE
NoneLeft(t) == numPredecessors[t] = 0

\* The reference enqueue() takes for runWrapper().  Faulty: none.
Unreferenced(t) == refs
Referenced(t) == [refs EXCEPT ![t] = @ + 1]

\* enqueue(): READY when nothing is left to wait for, else PENDING
DoEnqueue(w, t) ==
  /\ Top(w, "enqueue", t)
  /\ refs' = Referenced(t)
  /\ JAssert(state[t] \in {"NEW", "REMOTE_NEW"})
  /\ LET ready == NoneLeft(t) IN
     /\ state' = [state EXCEPT ![t] =
          CASE @ = "NEW"        -> IF ready THEN "READY" ELSE "PENDING"
            [] @ = "REMOTE_NEW" -> IF ready THEN "REMOTE_READY" ELSE "REMOTE_PENDING"
            [] OTHER            -> @]
     /\ Replace(w, IF ready THEN <<Call("schedule", t, None)>> ELSE <<>>)
  /\ UNCHANGED <<dependents, numPredecessors, continuation>> /\ Isolated

\* inlineOrEnqueueTask()
DoScheduleLocal(w, t) ==
  /\ Top(w, "schedule", t) /\ state[t] = "READY"
  /\ IF prog.kind[t] = "null"
     THEN Replace(w, <<Call("run", t, FALSE)>>) /\ UNCHANGED queues
     ELSE /\ Replace(w, <<>>)
          /\ IF w \in Worker THEN PushLocal(w, t)
             ELSE \E v \in Worker : Inject(v, t)
  /\ UNCHANGED <<prog, tasks, outstanding, started, failed>>

\* remoteScheduleTask(): a GPU task goes to the GpuManager, a RemoteTask to
\* the host that holds most of its data, possibly this one (enqueueLocal)
DoScheduleRemote(w, t) ==
  /\ Top(w, "schedule", t) /\ state[t] = "REMOTE_READY"
  /\ \/ /\ outstanding' = outstanding \union {t}
        /\ Replace(w, <<>>)
        /\ UNCHANGED state
     \/ /\ prog.kind[t] = "remote"
        /\ state' = [state EXCEPT ![t] = "READY"]
        /\ UNCHANGED <<stack, outstanding>>
  /\ UNCHANGED <<prog, queues, dependents, numPredecessors, continuation, refs,
                 started, failed>>

\* onCompletedRemotely(), or the GpuManager after the task's last phase
UtilityCompletes(t) ==
  /\ stack[Utility] = <<>>
  /\ t \in outstanding
  /\ outstanding' = outstanding \ {t}
  /\ Push(Utility, Call("complete", t, FALSE))
  /\ UNCHANGED <<prog, queues, tasks, started, failed>>

\* runWrapper(isAborting), up to the end of the body; a cancelled task has
\* no body.  The GPU clause is the one a cancelled GPU task passes.
Runnable(t) ==
  /\ numPredecessors[t] = 0
  /\ \/ state[t] = "READY" /\ prog.kind[t] # "gpu"
     \/ state[t] = "REMOTE_READY" /\ prog.kind[t] = "gpu"

DoRun(w, t) ==
  /\ Top(w, "run", t)
  /\ JAssert(Runnable(t))
  /\ IF Arg(w)
     THEN Replace(w, <<Call("complete", t, TRUE)>>) /\ UNCHANGED started
     ELSE /\ Replace(w, prog.body[t] \o <<Call("return", t, None)>>)
          /\ started' = [started EXCEPT ![t] = @ + 1]
  /\ UNCHANGED <<prog, queues, tasks, outstanding>>

\* _continuation = run(); the body's own pointers go out of scope
DoReturn(w, t) ==
  /\ Top(w, "return", t)
  /\ continuation' = [continuation EXCEPT ![t] = prog.cont[t]]
  /\ refs' = [s \in Task |-> refs[s] + IF s = prog.cont[t] THEN 1 ELSE 0]
  /\ Replace(w, Releases(prog.makes[t]) \o <<Call("complete", t, FALSE)>>)
  /\ UNCHANGED <<state, dependents, numPredecessors, failed>> /\ Isolated

\* What completeTaskDeps does with the dependents of a continued task.
\* Faulty: they are released as if the task were complete.
ReleaseEarly(t, tmp) ==
  [i \in 1..Len(tmp) |-> Call("decrement", tmp[i], FALSE)]
  \o <<Enqueue(continuation[t]), Release(t)>>
Continue(t, tmp) ==
  <<Call("splice", continuation[t], tmp), Enqueue(continuation[t]), Release(t)>>

\* completeTaskDeps(isAborting): the swap under the lock, then either the
\* dependents move to the continuation or each of them is decremented
DoComplete(w, t) ==
  /\ Top(w, "complete", t)
  /\ LET tmp == dependents[t]
     IN IF continuation[t] # None
        THEN /\ state' = [state EXCEPT ![t] = "CONTINUED"]
             /\ Replace(w, Continue(t, tmp))
        ELSE /\ state' = [state EXCEPT ![t] = "COMPLETE"]
             /\ Replace(w, [i \in 1..Len(tmp) |-> Call("decrement", tmp[i], Arg(w))]
                           \o <<Release(t)>>)
  /\ dependents' = [dependents EXCEPT ![t] = <<>>]
  /\ UNCHANGED <<numPredecessors, continuation, refs, failed>> /\ Isolated

\* Append to what was registered meanwhile.  Faulty: overwrite it.
Overwritten(t, tmp) == tmp
Appended(t, tmp) == dependents[t] \o tmp

DoSplice(w, t) ==
  /\ Top(w, "splice", t)
  /\ dependents' = [dependents EXCEPT ![t] = Appended(t, Arg(w))]
  /\ Replace(w, <<>>)
  /\ UNCHANGED <<state, numPredecessors, continuation, refs, failed>> /\ Isolated

\* decrementPredecessors(isAborting)
DoDecrement(w, t) ==
  /\ Top(w, "decrement", t)
  /\ numPredecessors' = [numPredecessors EXCEPT ![t] = @ - 1]
  /\ LET last == numPredecessors[t] = 1
         shouldEnqueue == last /\ state[t] \in {"PENDING", "REMOTE_PENDING"}
     IN /\ state' = [state EXCEPT ![t] =
             CASE last /\ @ = "PENDING"        -> "READY"
               [] last /\ @ = "REMOTE_PENDING" -> "REMOTE_READY"
               [] OTHER                        -> @]
        /\ Replace(w, IF ~shouldEnqueue THEN <<>>
                      ELSE IF Arg(w) THEN <<Call("run", t, TRUE)>>
                      ELSE <<Call("schedule", t, None)>>)
  /\ UNCHANGED <<dependents, continuation, refs, failed>> /\ Isolated

\* decRefCount(); the last one deletes the task and drops its continuation
DoRelease(w, t) ==
  /\ Top(w, "release", t)
  /\ refs' = [refs EXCEPT ![t] = @ - 1]
  /\ Replace(w, IF refs[t] = 1 /\ continuation[t] # None
                THEN <<Release(continuation[t])>> ELSE <<>>)
  /\ UNCHANGED <<state, dependents, numPredecessors, continuation, failed>> /\ Isolated

\* waitUntilComplete(): follow the continuations once the task has run
WaitNext(t) == IF state[t] = "CONTINUED" THEN <<Wait(continuation[t])>> ELSE <<>>

Waiting(w) == stack[w] # <<>> /\ Head(stack[w]).do = "wait"
DoWait(w, t) ==
  /\ Top(w, "wait", t)
  /\ state[t] \in {"COMPLETE", "CONTINUED"}
  /\ Replace(w, WaitNext(t))
  /\ UNCHANGED <<prog, queues, tasks, outstanding, started, failed>>

\* popAndRunOneTask, from mainLoop or from waitUntilComplete
LooksForWork(w) ==
  \/ stack[w] = <<>>
  \/ (Waiting(w) /\ state[Head(stack[w]).t] \notin {"COMPLETE", "CONTINUED"})

Obtains(w, t) ==
  \E miss \in {FALSE, MayMiss(w)} :
    \/ PopLocal(w, t, miss)
    \/ PopLocalNull(w, miss) /\ \E v \in Worker \ {w} : Steal(v, t)

TakeTask(w, t) ==
  /\ LooksForWork(w) /\ Obtains(w, t)
  /\ Push(w, Call("run", t, FALSE))
  /\ UNCHANGED <<prog, tasks, outstanding, started, failed>>

\* AbortTask::run up to its barrier: w never goes back to what it did, it
\* cancels what it finds in its own queues and in those of others.  A body
\* that calls abort() enters it too, before it returns.
EnterAbort(w) ==
  /\ prog.mayAbort
  /\ LooksForWork(w) \/ (stack[w] # <<>> /\ Head(stack[w]).do = "return")
  /\ Push(w, Call("abort", None, None))
  /\ UNCHANGED <<prog, queues, tasks, outstanding, started, failed>>

CancelTask(w, t) ==
  /\ Top(w, "abort", None)
  /\ \/ \E miss \in {FALSE, MayMiss(w)} : PopLocal(w, t, miss)
     \/ \E v \in Worker \ {w} : Steal(v, t)
  /\ Push(w, Call("run", t, TRUE))
  /\ UNCHANGED <<prog, tasks, outstanding, started, failed>>

-----------------------------------------------------------------------------
Step(w) ==
  \E t \in Task :
    \/ DoDependsOn(w, t) \/ DoEnqueue(w, t)
    \/ DoScheduleLocal(w, t) \/ DoScheduleRemote(w, t)
    \/ DoRun(w, t) \/ DoReturn(w, t) \/ DoComplete(w, t) \/ DoSplice(w, t)
    \/ DoDecrement(w, t) \/ DoRelease(w, t) \/ DoWait(w, t)

WorkerStep(w) == Step(w) \/ \E t \in Task : (TakeTask(w, t) \/ CancelTask(w, t))

UtilityStep == Step(Utility) \/ \E t \in Task : UtilityCompletes(t)

\* Nothing is left to do: main has returned or everybody is in AbortTask.
Idle ==
  /\ \A w \in Thread : stack[w] = <<>> \/ Top(w, "abort", None)
  /\ outstanding = {} /\ Queued = {}
  /\ UNCHANGED vars

\* A failed JASSERT ends the process.
Next ==
  /\ ~failed
  /\ \/ \E w \in Worker : WorkerStep(w) \/ EnterAbort(w)
     \/ UtilityStep
     \/ Idle

Spec == Init /\ [][Next]_vars

\* Threads are scheduled, and what was sent to a GPU or a host completes.
FairSpec ==
  /\ Spec
  /\ \A w \in Worker : WF_vars(~failed /\ WorkerStep(w))
  /\ WF_vars(~failed /\ UtilityStep)

-----------------------------------------------------------------------------
\* Properties

\* The fields of a task keep their types.
TypeOK ==
  /\ prog \in Programs
  /\ state \in [Task -> {"NEW", "PENDING", "READY", "COMPLETE", "CONTINUED",
                         "REMOTE_NEW", "REMOTE_PENDING", "REMOTE_READY"}]
  /\ dependents \in [Task -> Seq(Task)]
  /\ numPredecessors \in [Task -> Nat]
  /\ continuation \in [Task -> Task \union {None}]
  /\ refs \in [Task -> Nat]
  /\ outstanding \subseteq Task
  /\ started \in [Task -> Nat]
  /\ failed \in BOOLEAN
  /\ QueuesTypeOK

\* No JASSERT of dependsOn, enqueue or runWrapper fails: a task is wired
\* before it is enqueued, enqueued once, and run only when READY with no
\* predecessor left.
NoAssertionFails == ~failed

\* The tasks that are finished, in the sense dependsOn promises: complete,
\* or continued, possibly several times, until a task that is complete.
Onward(S) == \A t \in S : state[t] = "CONTINUED" => continuation[t] \in S
Follows(t, s) == \A S \in SUBSET Task : t \in S /\ Onward(S) => s \in S
Finished == {t \in Task : \E s \in Task : state[s] = "COMPLETE" /\ Follows(t, s)}

\* The dependencies a program declares: the body that makes t calls
\* t->dependsOn(that).
Bodies == {prog.main} \union {prog.body[s] : s \in Task}
Declared(t) == {c.arg : c \in {d \in UNION {ToSet(b) : b \in Bodies} :
                                  d.do = "dependsOn" /\ d.t = t}}

\* "Mark that this may not start before that" (dynamictask.h:61), through
\* every continuation, and at most one run() per task.
StartsAfterDependencies ==
  \A t \in Task : /\ started[t] <= 1
                  /\ started[t] = 1 => Declared(t) \subseteq Finished

\* _numPredecessors counts exactly the decrements that are still to come: t
\* in a dependents list, in a list on its way to a continuation, or in a
\* pending decrementPredecessors call.  A place is named by the list or by
\* the thread and the height of the call in its stack, and by the index.
CallAt(w, k) == stack[w][Len(stack[w]) + 1 - k]
On(w, k, do, t) ==
  /\ k \in 1..Len(stack[w])
  /\ CallAt(w, k).do = do /\ CallAt(w, k).t = t
Indices(s, t) == {i \in DOMAIN s : s[i] = t}
Registered(t) ==
  UNION {{<<"dependents", s, 0, i>> : i \in Indices(dependents[s], t)} : s \in Task}
Decrements(t) ==
  UNION {{<<"decrement", w, k, 0>> :
           k \in {h \in 1..Len(stack[w]) : On(w, h, "decrement", t)}} : w \in Thread}
InTransit(w, k, t) == {<<"splice", w, k, i>> : i \in Indices(CallAt(w, k).arg, t)}
Spliced(w, t) ==
  UNION {InTransit(w, k, t) : k \in {h \in 1..Len(stack[w]) : CallAt(w, h).do = "splice"}}
Places(t) == Registered(t) \union Decrements(t) \union UNION {Spliced(w, t) : w \in Thread}
PredecessorCount == \A t \in Task : numPredecessors[t] = Cardinality(Places(t))

\* Raw pointers are never used after the task is deleted: the ones in a
\* queue, in a dependents list of a live task, in a pending call (its task
\* and its argument), and the ones a GPU or a host will complete.
Frames == UNION {ToSet(stack[w]) : w \in Thread}
Pointers ==
  Queued \union outstanding
  \union {f.t : f \in {g \in Frames : g.t # None}}
  \union {f.arg : f \in {g \in Frames : g.do = "dependsOn"}}
  \union UNION ({ToSet(dependents[t]) : t \in {s \in Task : refs[s] > 0}}
                \union {ToSet(f.arg) : f \in {g \in Frames : g.do = "splice"}})
NoUseAfterFree == \A t \in Pointers : refs[t] > 0

\* No wakeup is lost: unless aborted, main returns and every task that was
\* enqueued is finished and deleted.  (The tasks a body would have created
\* stay NEW when another host ran that body.)
Completes ==
  \/ prog.mayAbort
  \/ <>[](/\ \A w \in Thread : stack[w] = <<>>
          /\ \A t \in {s \in Task : state[s] \notin {"NEW", "REMOTE_NEW"}} :
               t \in Finished /\ refs[t] = 0)

\* "recursively cancel tasks that depend on this" (dynamictask.h:88): each
\* task the recursion reaches is one runWrapper(true) accepts.
CancelIsRecursive ==
  \A w \in Worker, t \in Task : Top(w, "run", t) /\ Arg(w) => Runnable(t)
=============================================================================

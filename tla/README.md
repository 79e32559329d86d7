# A verification development for the PetaBricks runtime

PetaBricks is a language with algorithmic choice. Its compiler (`src/src/compiler`)
turns a program into C++ against a runtime (`src/src/runtime`, `src/src/common`),
which executes a dynamic graph of tasks on work-stealing threads, on GPUs and on
other hosts, and an autotuner (`src/scripts`) runs the result over and over. This
directory holds TLA+ modules that model the runtime and the scheduling part of the
compiler, TLC configurations that model-check them, and proofs that TLAPS checks.

## Inventory

| Component | Source | State | Operations | Correct when |
|---|---|---|---|---|
| Work-stealing deque | `common/thedeque.h` | `_h`, `_t`, `_array`, `_lock` | `push_top`, `pop_top` (owner), `pop_bottom` (thieves) | each pushed task is handed out once; no access outside the array; NULL only when empty |
| Worker queues | `runtime/workerthread.h` | `_ondeck`, `_deque`, `_injectQueue` of a worker | `pushLocal`, `inject`, `popLocal`, `steal`, `workCount` | as for one multiset of tasks |
| Task graph | `runtime/dynamictask.cpp` | per task `_state`, `_dependents`, `_numPredecessors`, `_continuation`, `_refCount` | `dependsOn`, `enqueue`, `runWrapper`, `completeTaskDeps`, `decrementPredecessors`, `cancel`, `waitUntilComplete` | a task runs once, after everything it depends on, continuations included; none is lost, none is used after it is deleted |
| Remote tasks | `runtime/remotetask.cpp` | the three `S_REMOTE_` states, data weights per host | `remoteScheduleTask`, `enqueueLocal`, `completeMessage` | completes once, here or there |
| GPU manager and tasks | `runtime/gpumanager.cpp`, `gputaskinfo.h`, `matrixstorage.cpp` | `_readytasks`, `_currenttaskinfo`, coverage and copy-out counters | `addTask`, `mainLoop`, the phases prepare, copy-in, run, copy-out | every rule finds its data where it runs; outputs are back on the CPU at the end |
| Worker table | `runtime/workerthread.cpp` | `_pool`, `_count` | `insert`, `remove`, `getRandom`, `getFixed` | every live worker can be found, no dead one |
| Abort and shutdown | `runtime/workerthread.cpp`, `dynamicscheduler.cpp` | `_numLive`, `_numAborting`, the static lock of `abort()` | `abort`, `shutdown`, `AbortTask::run`, `startWorkerThreads` | all workers unwind together and no task of the trial is left |
| Low-level synchronisation | `common/jasm.h`, `jmutex.h` | a lock word | `compareAndSwap`, `atomicAdd`, spin locks | atomic |
| Remote hosts and objects | `runtime/remotehost.cpp`, `remoteobject.cpp` | peers, `_flags`, `_pendingMessages`, generations | handshake, create, data, notify, signal, complete, shutdown | objects of both ends find each other; messages are processed after creation |
| Distributed garbage collection | `runtime/distributedgc.cpp` | candidate lists of two hosts | the stages FLUSH_MSGS, DO_SCAN, ABORT_GC | only objects both ends have dropped are deleted |
| Distributed region data | `runtime/regionhandler.cpp`, `regiondata*.cpp`, `regionmatrix.h`, `subregioncachemanager.h` | the data pointer of a handler, parts and their hosts, scratch regions, the (always empty) cache of copies | split, copy to and from scratch, migrate, cell access | each cell has one home; reads see the last write; concurrent copies back lose nothing |
| Test isolation | `runtime/testisolation.cpp` | a socket, the child's pid and status, the timeout | `beginTest`, `endTest`, `recvResult`, `recvFirstResult`, `killChild` | each test ends, whatever the child does; no child is left; only a finished test has a time |
| Runtime driver | `runtime/petabricksruntime.cpp` | the trial in progress | `runNormal`, `computeWrapper`, graph modes, `spawn_hook`, `sync_hook` | trials do not influence each other |
| Memoization | `runtime/memoization.h` | the last instance | `memoize` | a hit returns the outputs of equal inputs |
| Support | `common/jtunable.cpp`, `jserialize.cpp`, `jalloc.cpp` | registries, pools | | |
| Compiler | `src/compiler` | rules, the choice grid of each matrix, the choice dependency graph, schedules | `initialize`, `fillBaseCases`, `collectDependencies`, `generateSchedule`, code generation | every cell is computed once, by a rule that applies to it, after all that it reads |
| Autotuner | `src/scripts/sgatuner.py` and others | populations of configurations | | |

**How they interact.** A body creates tasks, wires them with `dependsOn` and enqueues
them. A task whose predecessor count is 0 goes to the on-deck slot or the deque of its
worker, to the GPU manager, or to another host. Workers pop their own tasks, steal from
a random entry of the worker table, and run what they got; completing a task decrements
its dependents, which may make them ready. Threads that are no workers (the GPU manager,
socket listeners) complete tasks too and `inject` what becomes ready into a worker. What
one host does for another is done by pairs of remote objects, which exchange messages
over one control connection and are collected by a pair of `DistributedGC` objects.
Which tasks there are, and which depends on which, is decided by the compiler, as is
when data leaves the GPU; where a task runs when its data is spread over hosts is
decided by where most of that is. The autotuner calls the program, which runs each test
in a forked child. An `AbortTask` travels through the same queues and ends a trial for
all workers.

**What is hard.** The deque is a lock-free fast path around a lock. A task's state
is read and changed by its creator, its predecessors and its runner, each under a
lock but released in between. Queues hold raw pointers. The table of workers is
changed by compare-and-swap loops over two words. The abort protocol counts on
every worker getting a copy of one task through queues that other workers empty at
the same time. Messages between hosts are read in order by several threads and
handled in any order; they carry addresses, not references, of what the collector
may delete. `PROJECT.json` lists the hazards one by one, at their lines.

## Modules

### `THEDeque`, `WorkDeque`, `THEDequeProofs`

`THEDeque` has one action per access of `push_top`, `pop_top` and `pop_bottom` to
the shared words, by one owner and any number of thieves; a program counter per
thread says where in its call it is. `h`, `t`, `array`, `lock` are the members of
the class; `pushed` and `given` are history. `WorkDeque` is what the class
promises: a sequence with two ends that gives each task out once. The refinement
mapping takes the slots between `Bottom` and `Top`, which are `_h` and `_t`
corrected by what a thread in the middle of its call has moved already.

Memory is sequentially consistent in the model. On x86 only a store followed by a
load of another word can be reordered; both places where that would matter have an
`mfence`, and every `lock()` is an `xchg`. `None` stands for the uninitialised
slots that `realloc` leaves behind.

What the checks found out about the code: `pop_top` may answer NULL while one task
is in the deque, when a thief has raised `_h` and is about to undo that
(`NullOnlyWhenDrained` states exactly when). The task is not lost, but the callers
of `popLocal` have to live with it; the modules below do the same, and one of
them shows a caller that does not (run `abort_missed`).

### `WorkerQueues`

Operators, no behaviour of their own: the on-deck slot, the deque and the inject
queue of each worker as one slot and two sequences, which the first module
justifies. `MayMiss` lets `pop_top` answer NULL where `NullOnlyWhenDrained` allows
it. `steal` tries the inject queue first and the deque if that is empty or its
`trylock` fails, so either may supply the task.

### `DynamicTask`, `DynamicTaskProofs`

The task graph. Each thread has a stack of the calls it has still to make and a
step executes the top one as far as one critical section of the task's lock;
everything between two critical sections can interleave. `prog` is the graph being
executed: what each body calls, which tasks it creates, what it returns as its
continuation, and the kind of each task (an ordinary one, a `NullDynamicTask`, a
`RemoteTask`, a GPU task). `refs` counts intrusive pointers only, as the code does,
so that `NoUseAfterFree` can ask whether each raw pointer is covered by one.
`PredecessorCount` counts the places where a decrement of a task waits (an entry of a
list, a call); `Finished` follows continuations by way of the sets that they do not lead
out of. `Utility` is a thread that is no worker and completes what was sent to a GPU or
another host. Aborting a trial is present as far as tasks see it: a worker that
looks for work, or whose body calls `abort()`, may go over to cancelling what it
finds; `Abort` has the protocol itself.

`WellFormed` says what a program is: a body calls methods of tasks that it has created
itself, does not make one depend on itself, enqueues each at most once and not the one it
returns, and declares what a task depends on before it enqueues or returns it. So the
generated code does (`choicedepgraph.cpp:233`, `scheduler.cpp:197`, `userrule.cpp:1346`,
`codegenerator.cpp:569`, `sync_hook` and `spawn_hook` of `petabricks.h`). Some code is cut
into a chain of bodies, each the continuation of the one before, that hand tasks on by
members of a common object: the code of a schedule at its `continuationPoint`s (the tasks
of its nodes), a rule body at its calls of `sync_hook` (`_completion`), and the runs of a
`GroupedDynamicTask` (`_all`). Each such chain is taken as one body; what happens to its
tasks between two of its pieces is outside of the model, and of the theorems.

Build flags: `INLINE_NULL_TASKS`, `WORKERTHREAD_INJECT` and `WORKERTHREAD_ONDECK`
are on and `PBCC_SEQUENTIAL` is off, as `configure.ac` sets them.

Abstracted: which host a remote task prefers (either outcome is possible;
`DistributedRegions` has the choice), and the GPU phases, which `UtilityCompletes`
takes as one step (`GpuManager` has them). The `JASSERT` of
`runWrapper` is not applied to what the GPU manager does with its tasks, as that
does not go through `runWrapper`.

### `WorkerThreadPool`, `WorkerThreadPoolProofs`

The table of workers, word by word: `insert` by the threads `startWorkerThreads`
creates, `getRandom` by those that are up, `remove` after a shutdown. `atomic` is
chosen initially: whether the read and the write of `compareAndSwap` can be
separated by another processor. On x86 they can, as the `cmpxchg` of `jasm.h` has
no `lock` prefix. A failing `cmpxchg` is taken to write nothing (the processor
writes the old value back, which would only add lost updates).

The end of `insert` has an action for each read of `_count` among the arguments of
`compareAndSwap(&_count, _count, std::max(_count, i+1))`: the value that the swap expects
(`ReadExpected`), the comparison (`CompareCount`) and, as `std::max` returns a reference,
the value of the larger one (`ReadCount`), the first in any order with the others. So an
atomic swap can lower `_count` too. `slip` records that an insert has lowered it, or has
stored over a slot that another thread took after the test: the two ways in which the
table goes wrong. `TableIsExact` is about the table until then, and says so; `InsertFits`
and `SearchCanEnd` hold of any table that the races leave, on both machines.

The main thread never removes itself in the model: its destructor runs at process
exit, reads the word before the table (`_rawThreadsLen`, 1 by then) and stops there.

### `Abort`, `AbortProofs`

`AbortTask::run`, `DynamicScheduler::abort` and `shutdown`, for several trials in a
row. Ordinary tasks are pushed by bodies and popped, stolen, run or cancelled; the
rest of their life is in `DynamicTask`. With `SlowThieves`, a steal is two steps, a
thief that has seen a task and holds the lock and a thief that ends its call, which
is when `pop_top` can miss a task; `raised` and `blind` keep what the owner sees of
`_h`. With `GpuInjects`, a thread that is no worker injects tasks, also while an
AbortTask runs and after its trial was given up (`GivenUp`). A failed `JASSERT` ends the
process (`failed`).

With these the assertion of the final drain can fail (run `abort_missed`). `stray`
records that a task has escaped an abort: that a thief hid the last task of a deque when
the loop of `AbortTask::run` that cancels its worker's tasks ended, or that the GPU thread
injected a task while a worker was in an AbortTask, or one of a trial that is over.
`FailsByStrays` says that nothing else makes the assertion fail, and `NeverCancelsAbort`
and `TrialsDoNotMix` speak of what happens until a task has escaped; thieves are slow and
the GPU injects in all of them. `NoCopyLeft` holds in any case.

The rob loop of `AbortTask::run` keeps its victim while it cancels; the model lets
it choose a victim each time, which allows more.

### `RemoteHost`, `DistributedGC`, `DistributedGCProofs`, `AgreementProofs`

`RemoteHost` has two hosts, the FIFO of the control socket in each direction, and
objects with an endpoint on each host. A thread that receives goes through the
stages of `recv`: the read under `_controlReadmu` (`Read`), the object's lock and
the first-message handling under it (`Lock`), the switch (`Dispatch`), and the
decrement of `_pendingMessages` after the unlock (`Finish`); a `REMOTEOBJECT_CREATE`
goes through `Make`, `Acknowledge` and `AddObject` instead. Listeners receive, and so
does a user that waits for its object: `WaitUntilComplete`, `Check`, `TryRecv`,
`Spin` and `Relock` are `waitMsgMu` and the beginning of `recv(caller)`, with the
lock of the object held where the code holds it. Locks and `_pendingMessages` are
functions of the program counters. An endpoint's references are the lists it is in,
its users (`held`) and the handlers at work on it; a null destination leads to the
end of the process (`crashed`), and the runs stop there.

The objects of users behave as the code's do: the receiving end may hand a reference
to a task before the creation is acknowledged and later call `markComplete`
(`RemoteTaskReciever`), and answers data by `sendMu` (`RegionMatrixProxy`).

`DistributedGC` adds the collector: `OnCreated` (`swapObjects`), `FlushMsgs`,
`OnNotifyFlush`, `OnNotifyScan`, `SendList`, `OnRecv`, `OnNotifyAbort`. It composes
with `RemoteHost` in the switch of `recv`, where the virtual call goes to one or the
other.

Abstracted: payloads and the four data sockets (a payload arrives with its header);
signal and broadcast, which only wake waiters; `isSkipCreateAck`, which is never true as
nothing calls `markSkipCreateAckMu`; the threshold `DISTRIBUTED_GC_FREQ`
(any addition may start the collection); the write of `_lastMsgGen` at the end of
`sendMsg` happens with the send, while the sender still has its reference. Handshake,
connection set-up and the shutdown messages are not modelled.

### `ChoiceGrid`, `IterationOrders`, `StaticScheduler`, `GeneratedCode`

Four modules for what the compiler does with the rules of one transform.

`ChoiceGrid` and `IterationOrders` have operators only. The first computes where a
rule applies (`applicableRegion`), which region of each matrix it reads, the grid into
which the boundaries of all rules cut a matrix with the rules of each region
(`constructFrom`, `applyRulePriorities`), and the dependencies that a rule adds
between regions (`collectDependencies`, `dependencyPossible`). The second has the
directions of dependencies (`determineDependencyDirection`), the order of the loops
(`Forward`, `Before`), and the parts of a region that is split with what each waits
for (`fillSplitRegionList`, `canDependOn`).

`StaticScheduler` is the state machine: `InitializeRules`, `FillBaseCases` and
`CollectDependencies` build the graph; `ChooseRules` is one iteration of
`generateSchedule` (any choice that `pruneChoiceSpace` leaves); `UpdateIndirect` is a
round of `computeIndirectDependencies`; `Merge` is `mergeCoscheduledNodes` with the
remapping of dependencies; `VisitOutput`, `VisitDependency`, `PushEntry` and `Finish` are
`Schedule::initialize` and its depth-first visit. `phase` ends in "done", "cant"
(`CantScheduleException`), or where a `JASSERT` fails: "norule" (a region that no node
meets) and "cycle". A choice among no rules at all is where the compiler gives up. Sets of nodes are ordered by
address, so `Merge` chooses one of `Addresses`.

`GeneratedCode` composes it with the tasks that the code of the schedule creates: one
for a node, one for each part of a node that is split, a chain of slices for a sliced
block. `RunTask` takes any task whose dependencies have run, which is what
`DynamicTask` promises; the sequential code is one of these orders.

Abstracted: sizes are numbers, so that a comparison by Maxima has a definite answer;
matrices have `Dims` dimensions throughout. Where clauses over one coordinate restrict
the region of a rule (`restrict`); others are not modelled, and useless dimensions of
`through` matrices are not removed. `FirstRule` relies on what the code
does with the empty set of choices of a merged block, whose `begin()` is dereferenced.

### `GpuManager`

The programs of this module are schedules, as the compiler knows them. At compile
time, `gpuCopyOut` and `regionNodeGroups` are what `Schedule::generateCode` decides
for each node on the GPU: no copy-out, one right away or a pending one, and the groups
of nodes that a reader needs together. At run time a GPU node is a list of tasks that
a worker pushes one by one (`CreateTasks`, `addTask`), and the thread of the manager
takes them from the front of the queue (`prepare`, `copyin`, `run`, `copyout`, and
`copyoutAgain` when the data is not there yet). A node on the CPU first brings what it
reads from the GPU (`useOnCpu`), runs, and marks what it has changed (`modifyOnCpu`).
`info` is `MatrixStorageInfo`, `copies` the `CopyoutInfo` objects, `need` the set
`_needcopyout`.

Data is the set of the parts that are valid: `cpu[m]` and `gpu[m]`. Every part is
computed once. External: the kernels, and the device, which completes reads in any
order (`ReadBuffer`). A node is on the GPU or on the CPU as a whole: the split of its rows
by `gpuRatio` (`_lastRowOnGpu`, `_firstRowOnCpu`), which gives the last rows of a matrix to
the CPU, is not modelled. In mode 1 a node with no group has no copy-out task although its
successors would name one; no program of the instance has such a node.

### `TestIsolation`, `TestIsolationProofs`

The child writes its cookies (`Start` to `Report`) and may die (`Crash`) or compute
for ever (`Hang`) at any point. The parent polls, reads one cookie at a time, reaps,
reads the result, kills, tries again (`Failed`, the `RETRIES` of `computeWrapper`); in
a race of two (`recvFirstResult`) it handles the events of both in order. Of time it
matters only whether a timeout that is on has passed (`Tick`). `Limits` is what `poll` is
given: a race takes at least 0, but `recvResult` passes on what is left of the time, and
what is left of a deadline that has passed is a negative number, with which `poll` waits
without end. So a single test whose child hangs can hang its parent, if the deadline
passes before `poll` is called (`WaitsWithoutEnd`). A child that dies after
the cookie "D" and before its result makes the reader of the result assert
(`ResultIsLost`), where `testisolation.h:71` has an `UnknownTestFailure` "when we get
no response from child process". `TestEnds` names these two exceptions, and no other.

### `DistributedRegions`, `DistributedRegionsProofs`

One matrix, laid out by `Whole`, `NBySlice` or `NByBlock`, and the tasks of one
transform over it. A task is scheduled where most of its bounding box is (`Places`),
sent (`Receive`), copies its box part by part unless it can use the data in place
(`LocalCopy`, `CopyPart`), computes, copies back what it wrote part by part (`WritePart`)
and completes, at another host by a message (`Finish`, `Completed`). A cell holds the
number of the task that wrote it last.

`RegionHandler::_cache` and the version that guards it are left out. The function that
looks in the cache fills it only if its `newScratchRegionData` is NULL
(`regionhandler.cpp:480`), and its one caller always passes an address
(`regionmatrix.h:728`): nothing is ever found there.

`NBySlice` puts every part on host 0, as the loop never advances its index. Messages
arrive (`RemoteHost` and `DistributedGC` are about how), a copy of one part is atomic
(its data is one message), and data does not move to another host.

### MC modules

`MCTHEDeque`, `MCDynamicTask`, `MCWorkerThreadPool`, `MCAbort`, `MCDistributedGC`,
`MCGeneratedCode`, `MCGpuManager` and `MCDistributedRegions` define the small
instances (`TestIsolation` needs none): sets, symmetries and programs. For the task
graph, four shapes: `Spawn` (`sync_hook`), `Grouped` (`GroupedDynamicTask::run`, which
enqueues a part before it declares the dependency on it), `Diamond` (a rule body with
a part that spawns for another one to wait for) and `Detached` (a chain that outlives
its creator). For the compiler, three families of transforms: `LargeTransforms` (two
matrices that read each other at one side, with rules of one and of two outputs,
large enough to be split), `SmallTransforms` (all sets of cyclic reads, with alternative
rules), `GridTransforms` (a border with base cases, a region of several boxes,
priorities) and `WhereTransforms` (where clauses that divide the cells, with and without
cells that are left). For the GPU, two nodes for each of two matrices, in two orders, on the CPU
or the GPU each. For regions, three tasks whose boxes overlap, on four layouts.

## Runs

| Run | Instance | Shows |
|---|---|---|
| `deque` | 4 tasks, 2 thieves, first array of 3 slots | the deque implements `WorkDeque`; `ExactlyOnce`, `InBounds`, `NullOnlyWhenDrained`; `OwnerReturns` |
| `tasks` | 5 tasks, 2 workers and one other thread; 4 shapes, all mixtures of kinds; with aborts, all mixtures of local kinds | no `JASSERT` fails, dependencies hold through continuations, predecessor counts are exact, no dangling pointer; what is not aborted completes |
| `pool` | the main thread and 3 others, 2 rounds, 7 slots; atomic and separable compare-and-swap | the table lists exactly the live threads, all below `_count`, until an insert has stored over a taken slot or lowered `_count` (`TableIsExact`); even then it is not too short (`InsertFits`), and `getRandom` can end (`SearchCanEnd`) |
| `abort` | 2 workers, 4 tasks, 2 AbortTasks, slow thieves, injection | no copy outlives its AbortTask (`NoCopyLeft`); until a task has escaped, the drain finds only copies (`FailsByStrays`), no AbortTask is cancelled (`NeverCancelsAbort`), trials do not mix (`TrialsDoNotMix`) |
| `abort_live` | 3 workers, 2 tasks, 1 AbortTask | every worker unwinds, and so does one whose own `abort()` came second |
| `remote` | 2 hosts with a listener and a user each, 1 object, 1 collection started by either host | no endpoint is deleted under a message or under a user of its peer (`NothingDangles`); both ends are deleted or neither (`FreedTogether`); a user blocks in the read only for a message still to come (`BlockedForAReason`); waits and collections end |
| `compiler` | transforms over 3 x 3 and 2 x 2 cells, up to 4 rules, split in 2 from a size of 3; 3 orders of addresses | no schedule has a cycle, and every accepted one is in order (`ScheduleInOrder`); each cell is computed once, by a rule that applies, if there is one (`EachCellOnce`); no task starts before the cells that it reads (`CellsInOrder`), in any order of the tasks |
| `gpu` | 4 nodes, 2 computed matrices of 2 parts | each rule finds its data where it runs (`ReadersSeeData`), outputs are on the CPU at the end (`OutputsOnCpu`), and the queue empties (`Terminates`) |
| `isolation` | a test with 2 retries, or a race of two | no child is left (`NoChildLeft`), a measured one ran to its end (`MeasuredRanToTheEnd`), the parent goes on but in the two cases that `TestEnds` names |
| `regions` | 3 hosts, 3 x 2 cells, 4 layouts, 3 tasks | each task reads what the last task before it wrote to each cell (`SeesWhatItDependsOn`), overlapping copies back lose no cell (`NothingLost`), every task completes |
| `abort_missed` | 2 workers, 5 tasks, 1 AbortTask, slow thieves | violated: finding 4 |
| `pool_count` | the main thread and 3 others, 1 round, separable compare-and-swap | violated: finding 2 |

Further configurations, which are not among the runs, show the disagreements listed
under Findings; each of them ends in a counterexample: `MCDynamicTaskCancel.cfg`,
`MCAbortLate.cfg`, `MCDistributedGCNotify.cfg`, `MCGeneratedCodeStencil.cfg`,
`MCGeneratedCodeOpposite.cfg`.
Run them by `tlc -config X.cfg` with the module of their prefix.

**Bounds, and why they suffice.** The array of the deque starts with 3 slots instead of
1000 so that two pushes make it grow, and 4 tasks make it grow while a thief is at the
old end; two thieves contend for the lock and one of them backs off. Five tasks are what
`Grouped` needs: a parent, two parts, a continuation of the parent and one of a part. A
second worker suffices for every race of two calls on a task, and the third thread is
the one that must inject. In the table, three threads race three ways for a slot and for
`_count`, and the second round meets the slots the first one's removals left; a round
takes at most one new slot for each thread that it starts, so that 7 slots are just
enough for two rounds of three. In `Abort`, `Low` = 1 and `Copies` = 3 stand for 5 and
15: the on-deck slot takes one copy, so more than one must be pushed for any to be
stolen, and a further push is needed to see `push_top` reset `_h`. Two AbortTasks are
the least for one trial to disturb the next. Two workers suffice for a thief to hide a
task and for a task to reach the next trial; with four tasks, one can be hidden, one be
injected late, and two be spawned besides. Three workers are the least for two of them
to rob a third of its copies, which is what could keep an abort from ending
(`abort_live`, whose thieves are not slow). `trial`, and with it everything else, is
bounded by the number of AbortTasks. In `DistributedGC` a collection involves exactly
two hosts and treats objects one by one, so one object shows what happens to each; the
user of host `a`, which waits, is the second reader that lets handlers of that host
overtake one another, and the collection may start at either end, so both its ends are
met. The user of `a` sends data once (`Senders`, `sent`) and `b` answers it: enough for
an object to be used before, during and after the scan, with an answer in flight. Three
cells in a dimension give a grid with a border and an inside, and a split with a
remainder; two matrices that read each other, with a third for the output, give every
kind of block that the scheduler merges, and four rules a choice between one rule of two
outputs and two of one. Two nodes write each matrix of the GPU instance, so that a
copy-out finds half of a matrix, all of it, or parts from both sides, and a group has a
node that is done before the group is met. Two children are all that `recvFirstResult`
handles; two retries meet a second `beginTest` after each kind of failure. Three tasks
are a reader, a writer and a reader again, so that a copy can be too old or too new, and
two of them run at once; three hosts put a part on a host that neither schedules nor
computes.

**Fairness.** Threads are scheduled by the operating system: WF of each thread's
steps inside a call. Nobody has to start a call on the deque, and its spin lock is
unfair, so the lock steps have WF and no SF. What was sent to a GPU or another host
completes (WF of `UtilityStep`). In `Abort`, `Looks` has SF: a worker without work
polls for ever, at a victim drawn at random each time, and a task that is available
infinitely often is found with probability 1. Bodies end or call `abort()` (WF). In
`DistributedGC` every thread goes on with its handler and listeners poll (WF of each
thread's `Step`); no user has to make a call. In `GpuManager` workers and the thread
of the manager go on and the device completes every read (WF each). In `TestIsolation`
the parent goes on, so does a child that neither hangs nor dies, and time passes (WF);
no child has to die or to hang. In `DistributedRegions` a task that can go on does (WF of
its `Step`), which for messages is what `RemoteHost` shows. `GeneratedCode` needs none.

**Deadlock.** Not checked in `tasks`, in the runs of `Abort` and `DistributedGC`, and in
`compiler`, `gpu` and `isolation`, which stop when the transform or the test is over
(`EachCellOnce`, `Terminates` and `TestEnds` say that they do not stop earlier with
anything left out). Threads poll when
they have nothing to do, and polling changes nothing, so it is no step: a model
state without successor is a system that polls. That such states are good ones is what `Completes`,
`AbortEnds`, `LoserIsAborted`, `WaitEnds`, `CollectionEnds` and (for what is left at the
end) `FreedTogether` say.

## Proofs

Eight modules hold proofs, each about one module of the model, two of them about
`DistributedGC`. All have the same shape: the properties of the runs are seldom
inductive, so an invariant `IInv` is stated that is, with a named part for each thing it says; `Invariance` is
`Spec => []IInv`, with one step or lemma for each action; and each property follows
from it. For the collector, `CInv` and `AInv` are added to the `IInv` of
`DistributedGCProofs`. TLC has checked each of them on the instance of its run first.

**`THEDequeProofs`**, for every set of tasks, every set of thieves and every first
size of at least 2 (`DequeAssumption`): `TypeCorrect`, `HandsOutExactlyOnce`,
`StaysInBounds`, `NullMeansDrained`, and `Implementation`: the deque implements
`WorkDeque`. `IInv` adds to the properties

- `LockInv`: the lock word names exactly the thread that is between its acquire and
  its release;
- `Order`: `Bottom <= Top`, also while both sides have moved their index over the
  same task, and a thief at its take has won;
- `Room`: outside the growth of the array, `Top` stays two short of its end, which
  is what the test `_t >= _size - 1` after the increment buys;
- `Written`, `ArgOK`: what the push in progress has stored.

Two lemmas carry the data: `SameData`, for steps that leave the slots of the window
alone, and `TakeOne`, for steps that remove one slot and hand it out.
`StepSimulation` goes through the actions again: the step of a push that moves `_t`,
and those of a take that decide it, are steps of `WorkDeque`; all others stutter.

**`DynamicTaskProofs`**, for any number of workers and tasks and for every well-formed
program (`ProgramAssumption`), aborted or not:

- `DependenciesFirst`: a body starts once, and after all that was declared with
  `dependsOn`, through every continuation (`StartsAfterDependencies`);
- `PredecessorsCounted`: `_numPredecessors` is the number of decrements to come;
- `NothingFreedIsUsed`: no raw pointer in a queue, a list, a call or with the GPU or another
  host is of a deleted task (`NoUseAfterFree`);
- `NothingFails`: no `JASSERT` fails (`NoAssertionFails`), for programs where a trial that
  may abort has no remote task (`CancelsLocally`). Without that it is false (finding 1); the
  others need no such condition.

A call is named by its thread and its height in the stack of that thread: a step replaces
the call on top, or puts one on it, and leaves all others at their heights (`Upper`,
`Puts`). So a step is one of a few kinds of moves, and the invariant is about which calls
there are and which is below which. Of the calls that lead a task from READY to its end
there is one at most, and none while the task is in a queue or elsewhere (`OneHand`); from
that follows that it runs once (`Begun`). A task is new from its creation to its one
enqueue, and the body that made it holds its pointer meanwhile (`Wiring`, `Fresh`,
`ContNew`). What a body has declared is done or awaited: by an entry in a list, by a call
that is still to register it, or by a list being spliced, at the task itself or further
along its continuations (`Declares`). As the entries are what `Count` counts and a task
leaves `NEW` and `PENDING` with a count of 0 only (`NoneLeftToWaitFor`), its dependencies
are done by then. Deletion has the hardest part. `RefsCount` says
that a reference count is the number of `Holders`; a task that is registered somewhere may
only be reached through a raw pointer, and is alive because it is blocked, or is new
and still has its enqueue to come from a body that holds it (`WillBeEnqueued`).

**`WorkerThreadPoolProofs`**, for any threads, any length of the table, any number of
rounds and both machines: `ListsTheThreads`, `FindsASlot`, `VictimExists`. The invariant
has three layers. `Base` holds whatever the races leave: the main thread keeps slot 0, what
an insert is about to store in `_count` is past a slot that is taken, and a `_count` above
an empty last slot is still to be lowered by a remover (`Lowering`, `TopHeld`); from that
follows `VictimExists`. `Grown` bounds the slots by the rounds: those that an insert has
passed are taken by as many other threads of its round, a pigeonhole argument, so
`FindsASlot` needs a table with a slot for the main thread and for each thread started, in
all rounds together (`MAX_NUM_WORKERS` is a fixed length, and an assertion of the
code says that it suffices). `Exact` ties each thread to its slot, until `slip`.

**`AbortProofs`**, for any number of workers, tasks and AbortTasks, with slow thieves and
injected tasks and no assumption about them. `Counters` is the invariant of the
barrier: the two counters are what is left of the workers (`Counts`, by cardinalities),
and a copy is only in the deque of a worker that is running that AbortTask and has not yet
seen its deque empty (`Copied`); `CopiesAreGone` follows. `DrainsAreClean`, `AbortsAreRun`
and `TrialsAreApart` prove `FailsByStrays`, `NeverCancelsAbort` and `TrialsDoNotMix`. Their
invariant `PInv` holds until a task has escaped (`Contained`): the queues of a worker that
has cancelled its tasks have nothing but copies (`Clean`), at most one AbortTask is active
(`OneAtATime`), and nothing runs or is queued between trials (`Calm`). `Thieves` says
where a slow thief can be, and `Strays` that only a hidden task or a late injection breaks
`Clean`.

**`TestIsolationProofs`**, for any number of retries: `LeavesNoChild` and
`ResultsAreComplete`. The parent's record of a child never runs ahead
of what became of it (`Record`), the cookies in the socket say how far the child is
(`Cookies`), and the parent's place says what it has acted on (`Outcome`).

**`DistributedRegionsProofs`**, for any hosts, matrix, layout and program (the
programs are constrained by `RegionsAssumption` only): `SeesItsDependencies` and
`LosesNothing`. As a cell holds the number of its last writer, everything is a comparison
of numbers. Tasks that conflict never run at once (`Ordering`), so each write that was made
is in the matrix, or a later one is (`Data`). What a task copies of it is therefore what it
has to read, whichever parts it has already and whatever others copy meanwhile
(`Copying`), and what it copies back is what it computed (`Results`).

**`DistributedGCProofs`**, for any number of users, listeners, objects and
collections on two hosts: `TypeCorrect` and `BlocksForAReason`. `IInv` follows a
message: in a channel or a handler its addresses are of constructed endpoints
(`Channels`, `InHand`), and a thread in `recv` is in a state that fits its message
(`Threads`). The locks of the model are functions of the program counters; `Locks`,
`OneReader`, `Tried` and `Reading` say that they exclude what they must.

The second half of the module builds on it and proves, for any number of users,
listeners, objects and collections, that the collector takes no object of a user away:

- `PeersLive`: `PeerOfHeldLives`, no endpoint is deleted whose peer has a user;
- `AddressesAreGood`: no message carries the address of a deleted endpoint of an
  object of a user.

The invariant is `CInv`. That an endpoint is unused since its host's swap says nothing
of messages sent before. A `FLUSH_MSGS` follows the sender's swap and a `DO_SCAN` both
swaps (`Order`); whatever is behind them in a channel was sent by a host that has used
its object since (`Pushing`). So when a host offers an object, it is silent at that
end, or the other end has used it and will not offer it; when both have offered it, it
is dead: no user, handler or channel has anything to do with it, at either end
(`Offering`, `Dead`). A dead object stays dead, and only dead ones leave the lists
(`Tracked`). `CreatedOnce` is why no object comes back, and `OneHandler` why the swap
and the scan of an endpoint do not overlap.

The endpoints of the collections themselves are objects too, and nothing like that is
proved of them, as it does not hold: with two collections at once, the second may find the
endpoint of the first unused while a notification to it is in the channel, as
`remoteNotify` does not update `_lastMsgGen`. A host starts a collection after
`DISTRIBUTED_GC_FREQ` new objects (`remotehost.cpp:863`), and whether the one before is
over by then is left to time. TLC finds it in `NoDanglingMessage`, a part of
`NothingDangles`, with `Gcs` of two elements. Run `remote`, with one collection, checks
`NothingDangles` and `FreedTogether` of its endpoints too.

**`AgreementProofs`** builds on that and proves that the two ends decide alike:

- `UsersFreedTogether`: when the channels are empty and no handler runs, an object of a
  user is in use or listed at both hosts, deleted at both, or was never made, for any
  number of collections (`UsersAgree`).

The invariant is `AInv`. Each host has a chain of messages in a collection: its
`FLUSH_MSGS`, the `DO_SCAN` that answers it, and its own answer, a list or `ABORT_GC`
(`Link`). A chain has one link at a time, in a channel or in the hand of a thread
(`OneLink`), and when it has none any more the other end has put back or dropped all
that it had taken (`Ending`). So an object is taken by one collection at a time
(`Once`), and what a host has offered stays in `maybeDead` until the answer of the
other end has come (`Agreeing`). The end that drops an object first has read the
other's list and has sent its own; until the other has read that one, it keeps the
object and has the answer before it (`Dropping`), and then drops it too. `Asked` says
that no end is alone with an object but while the creation is under way, and
`Unswapped` that a collection has nothing before its swap. When all is quiet there is
no link and no answer left, so `Dropping` says that an object dropped at one end is
dropped at the other.

**Only model-checked**, and why:

- Everything that must eventually happen (`OwnerReturns`, `Completes`, `AbortEnds`,
  `WaitEnds`, `CollectionEnds`, `Terminates`, `TestEnds` and the like): liveness under
  fairness is out of reach of the prover.
- `ScheduleInOrder`, `EachCellOnce` and `CellsInOrder`: the choice grid and the
  schedule are computed by folds over sequences of regions and by a fixpoint. What these
  compute for all inputs takes induction over data.
- `NothingDangles` and `FreedTogether` for the endpoints of collections, with one
  collection: see above.
- `NoAssertionFails` where a trial that may abort has remote tasks: it is false there
  (finding 1).
- `OutputsOnCpu` and `ReadersSeeData`: they hold of the schedules that the compiler
  makes, which `MCGpuManager` enumerates; for an arbitrary list of nodes they do not.

## Findings

Finding 2 is run `pool_count`, finding 4 run `abort_missed`; the others are shown by the
further configurations.

1. `MCDynamicTaskCancel.cfg`: `cancel()` is to "recursively cancel tasks that depend on
   this" (`dynamictask.h:88`). The recursion moves a remote task from
   `S_REMOTE_PENDING` to `S_REMOTE_READY` and runs it in abort mode, and the `JASSERT`
   of `runWrapper` accepts that state for GPU tasks only.
2. `MCWorkerThreadPoolCount.cfg`: "ensure _count>i" (`workerthread.cpp:168`). With the x86
   `compareAndSwap` an `insert()` may return although `_count` is not past its slot, or
   another may lower `_count` afterwards; the worker is never chosen as a
   victim. The separate reads of `_count` allow it even where the swap is atomic
   (`Machines = {TRUE}`). Harmless for correctness as long as that worker runs its own
   tasks, but an injected task or an AbortTask has one helper less.
3. `MCAbortLate.cfg`: the winner of `abort()` releases the static lock after the
   barrier. Another worker may have returned to its main loop by then, begun a body of
   the next trial, called `abort()` and lost to an AbortTask that is over.
4. `MCAbortMissed.cfg`: "drain off all our abort tasks" and `JASSERT(t==this)`
   (`workerthread.cpp:244`). `pop_top` misses a task behind a delayed thief, so the loop that
   cancels a worker's tasks ends early, and the task turns up in the final drain. The
   drain can also meet a task that a GPU or listener thread injected after the worker had
   cancelled its queue (`GpuInjects = TRUE` and `SlowThieves = FALSE`). It has no other
   causes (`FailsByStrays`).
5. `MCDistributedGCNotify.cfg`: `onCreated` is to come "after a connection is
   established", but a `NOTIFY` has no source address. One listener reads the
   `CREATE_ACK` of a collector, another the `FLUSH_MSGS` behind it, and the second gets
   the object's lock first: the collector is created without a peer, and the
   notifications it sends make the other host call `onNotify` on a null object.
6. `MCGeneratedCodeStencil.cfg`: a region that reaches to both sides of the cell gets
   the direction "=" where it should have both (`Region::determineDependencyDirection`),
   so a rule that reads such a region of a matrix it helps to compute is scheduled
   although no order is right in that dimension.
7. `MCGeneratedCodeOpposite.cfg`: when two dependencies of a node fall together in a
   merged block, `ScheduleDependencies::applyRemapping` keeps the directions of the last
   one; opposite directions are lost, and the slice runs in an order that fits one of
   the two only.

Two more failures that the checks met contradict no line of the code or its documents, and
are described above: `recvResult` with a deadline that has passed waits without end
(`WaitsWithoutEnd` in `TestIsolation`), and with two collections at once a message can meet
a deleted endpoint (`DistributedGCProofs`).

`EachCellOnce` speaks of cells with a rule. A cell without one makes every choice fail
when rules with cells lie behind it; at the end of a dimension it is outside of the
grid, which ends with the last boundary, and is left out of the generated code without
an error.

## Not modelled

- Compiler: parsing and the generated parsers and lexers (the larger part of its lines),
  the symbolic algebra behind Maxima, the C++ and OpenCL text that is written, and
  heuristics. Where clauses that are left to run time (`expandWhereClauses`, which erases from the set it
  iterates over). `removeUselessDimensions`, which runs once for every choice of rules
  over matrices that the choice before has changed already. A dimension whose
  dependency has both directions is iterated forward without a refusal
  (`iterationorders.cpp:120`); the transforms of the run have none in one rule.
- Remote hosts: handshake, set-up and shutdown of connections, data sockets, signal and
  broadcast. A listener that completes a task may have to create remote objects and wait
  for them in the thread that would read the answer (`regiondataremote.h:101`): a
  composition of `RemoteHost` with `DistributedRegions` that is too large for TLC.
- Region data: single cells, the cache (never filled), migration, `copyRegionDataToLocal`; `updateHandlerChain` is
  called by tests only.
- GPU: the split of a node's rows between GPU and CPU by `gpuRatio`, JIT compilation and the
  buffers of the device; `_needcopyout` is read outside of its
  lock (`matrixstorage.cpp:72`), which the model takes as atomic.
- Memoization: one instance under one lock. It is stored before its outputs are
  computed, which a TODO in the class accepts; there is no protocol to check.
- Autotuner scripts: stochastic search over files of configurations.
- `LockingDeque` and `JBlockingQueue` keep every operation under one lock. Tunables,
  serialization, allocation, the debug-only owner checks, formatting, command line and
  statistics are sequential code without a protocol.

## Plan

The modules above were written in the order of the interactions they take part in. What
is left:

1. Chains of bodies that hand tasks on by members of a common object, in `DynamicTask`
   and its proofs: the pointers then belong to the object, which is deleted with the
   last task of the chain, instead of the body.
2. Proofs: conditions on the schedules of `GpuManager` under which `OutputsOnCpu` and
   `ReadersSeeData` hold of any of them.
3. Shutdown and set-up in `RemoteHost`: `SHUTDOWN_BEGIN`, `ACK` and `END` against
   messages and users still at work; the pairwise connection of all hosts.
4. `RegionHandler`: migration against concurrent readers.
5. Where clauses over several variables, and `removeUselessDimensions`.

----------------------------- MODULE GpuManager -----------------------------
(***************************************************************************)
(* Rules on the GPU (src/runtime/gpumanager.cpp, matrixstorage.cpp, the    *)
(* groups that Schedule::generateCode computes in src/compiler/            *)
(* scheduler.cpp, the tasks that userrule.cpp generates): where the data   *)
(* of each matrix is valid, on the GPU or on the CPU, and what is copied   *)
(* between them and when.                                                  *)
(*                                                                         *)
(* A program is the nodes of a schedule, in its order.  A node computes    *)
(* some parts of one matrix, and reads parts of matrices; every part is    *)
(* computed once, so that data is described by the set of its valid parts. *)
(* A GPU node is a list of GPU tasks, which a worker pushes one by one and *)
(* the GPU thread takes in the order of the queue.                         *)
(*                                                                         *)
(* A node is placed as a whole: a gpuRatio that leaves the last rows of a  *)
(* matrix to the CPU (_lastRowOnGpu, _firstRowOnCpu) is not modelled.      *)
(***************************************************************************)
EXTENDS Naturals, FiniteSets, Sequences, SequencesExt

CONSTANTS Matrices, Parts,
          Programs,   \* the schedules that Init chooses from
          MaxNodes    \* bound on their lengths

ASSUME ProgramsAssumption ==
  \A p \in Programs : /\ Len(p.nodes) <= MaxNodes
                      /\ p.inputs \cup p.outputs \subseteq Matrices
                      /\ p.inputs \cap p.outputs = {}

VARIABLES nodes,      \* Seq of [gpu, sure, to, parts, reads], reads[m] \subseteq Parts
          inputs, outputs,  \* matrices of the transform
          todo,       \* todo[n]: the tasks that the worker of n has yet to push
          stage,      \* of each node: "new", "main", "post", "done"; "tasks"
          queue,      \* _readytasks
          completed,  \* the GPU tasks that are complete
          ran,        \* the nodes whose rule has run
          cpu,        \* cpu[m]: the parts valid in the storage of m
          gpu,        \* gpu[m]: the parts valid in the buffer of m
          info,       \* the MatrixStorageInfo of m
          need,       \* _needcopyout: the matrices with a pending copy-out
          copies,     \* the CopyoutInfo objects
          finished    \* compute() has returned

vars == <<nodes, inputs, outputs, todo, stage, queue, completed, ran, cpu, gpu, info, need, copies, finished>>
program == <<nodes, inputs, outputs>>

Ids == 1..Len(nodes)
Writes(n, m) == nodes[n].to = m
Reads(n, m)  == nodes[n].reads[m] # {}

dependsOn(n) == {k \in 1..(n - 1) : nodes[k].parts \cap nodes[n].reads[nodes[k].to] # {}}

-----------------------------------------------------------------------------
(* At compile time: Schedule::generateCode.                                *)

hasOverlappingRegionOnGpu(n, m) == nodes[n].gpu /\ Writes(n, m)
ReadersAfter(n) == {k \in (n + 1)..Len(nodes) : Reads(k, nodes[n].to)}

(* 0: no copy-out, 1: setGpuCopyOut, 2: setPendingGpuCopyOut; every reader *)
(* on the schedule overwrites what the one before has set.                 *)
gpuCopyOut(n) ==
  IF ReadersAfter(n) = {} THEN IF nodes[n].to \in outputs THEN 2 ELSE 0
  ELSE LET r == nodes[Max(ReadersAfter(n))] IN IF r.sure /\ ~ r.gpu THEN 1 ELSE 2

(* The groups of n: the nodes whose data a reader needs, kept by the last. *)
regionNodeGroups(n) ==
  LET m == nodes[n].to
      before(k) == {j \in 1..(k - 1) : hasOverlappingRegionOnGpu(j, m)}
      all == {before(k) : k \in {k \in Ids : Reads(k, m)}}
               \cup IF m \in outputs THEN {before(Len(nodes) + 1)} ELSE {}
  IN  {g \in all : g # {} /\ Max(g) = n}

-----------------------------------------------------------------------------
NewInfo == [has |-> FALSE, modified |-> FALSE,  \* _hasGpuMem, _firstRowOnCpu
            pending |-> {},                     \* _begins, _ends, _coverage
            groups |-> {},                      \* _remainingGroups, _completeGroups
            doneRemaining |-> {}, doneComplete |-> {},
            copyMap |-> << >>]                  \* _copyMap: node -> index in copies

Init ==
  /\ \E p \in Programs : nodes = p.nodes /\ inputs = p.inputs /\ outputs = p.outputs
  /\ todo = [n \in Ids |-> << >>] /\ stage = [n \in Ids |-> "new"]
  /\ queue = << >> /\ completed = {} /\ ran = {}
  /\ cpu = [m \in Matrices |-> IF m \in inputs THEN Parts ELSE {}]
  /\ gpu = [m \in Matrices |-> {}]
  /\ info = [m \in Matrices |-> NewInfo]
  /\ need = {} /\ copies = << >> /\ finished = FALSE

\* Faulty: the storage becomes what the buffer was.
CopyOutAll(storage, parts, data) == data

(* What a copy-out brings to the storage: all of the buffer, if all of the *)
(* matrix was computed on the GPU, or the parts that were.                 *)
CopyOut(storage, parts, data) == IF parts = Parts THEN data ELSE (storage \ parts) \cup (parts \cap data)

-----------------------------------------------------------------------------
(* updateDataFromGpu: waits for the pending copy-out of the matrices ms.   *)
Updated(ms) ==
  /\ cpu' = [m \in Matrices |->
               IF m \in ms \cap need /\ info[m].pending # {}
               THEN CopyOut(cpu[m], info[m].pending, gpu[m]) ELSE cpu[m]]
  /\ need' = need \ ms

NothingPending(ms) == [m \in Matrices |-> IF m \in ms \cap need THEN [info[m] EXCEPT !.pending = {}] ELSE info[m]]

IsDone(n) ==
  IF ~ nodes[n].gpu THEN stage[n] = "done"
  ELSE /\ stage[n] = "tasks" /\ todo[n] = << >>
       /\ LET awaited == IF gpuCopyOut(n) = 1
                         THEN IF regionNodeGroups(n) # {} THEN {"copyout"} ELSE {}
                         ELSE {"run"}
          IN \A op \in awaited : \E t \in completed : t.node = n /\ t.op = op

CanStart(n) == stage[n] = "new" /\ \A k \in dependsOn(n) : IsDone(k)

(* generateOpenCLCallCode: prepare, copy in, run and copy out.             *)
CreateTasks(n) ==
  LET task(op) == [node |-> n, op |-> op, m |-> nodes[n].to]
      in == SetToSeq({[node |-> n, op |-> "copyin", m |-> m] : m \in {m \in Matrices : Reads(n, m)}})
  IN
  /\ nodes[n].gpu /\ CanStart(n)
  /\ todo' = [todo EXCEPT ![n] =
       <<task("prepare")>> \o in \o <<task("run")>>
         \o IF gpuCopyOut(n) = 1 /\ regionNodeGroups(n) # {} THEN <<task("copyout")>> ELSE << >>]
  /\ stage' = [stage EXCEPT ![n] = "tasks"]
  /\ UNCHANGED <<program, queue, completed, ran, cpu, gpu, info, need, copies, finished>>

addTask(n) ==
  /\ todo[n] # << >>
  /\ queue' = Append(queue, Head(todo[n]))
  /\ todo' = [todo EXCEPT ![n] = Tail(@)]
  /\ UNCHANGED <<program, stage, completed, ran, cpu, gpu, info, need, copies, finished>>

(* A rule on the CPU: what its matrices have on the GPU is copied, the     *)
(* rule runs, and what it has computed is marked.                          *)
useOnCpu(n) ==
  LET ms == {m \in Matrices : Reads(n, m)}
  IN  /\ ~ nodes[n].gpu /\ CanStart(n)
      /\ Updated(ms) /\ info' = NothingPending(ms)
      /\ stage' = [stage EXCEPT ![n] = "main"]
      /\ UNCHANGED <<program, todo, queue, completed, ran, gpu, copies, finished>>

RunOnCpu(n) ==
  /\ stage[n] = "main"
  /\ stage' = [stage EXCEPT ![n] = "post"]
  /\ ran' = ran \cup {n}
  /\ cpu' = [cpu EXCEPT ![nodes[n].to] = @ \cup nodes[n].parts]
  /\ UNCHANGED <<program, todo, queue, completed, gpu, info, need, copies, finished>>

\* Faulty: what the GPU has of the matrix stays up to date.
modifyOnCpuUnmarked(n) ==
  /\ stage[n] = "post"
  /\ stage' = [stage EXCEPT ![n] = "done"]
  /\ UNCHANGED <<program, todo, queue, completed, ran, cpu, gpu, info, need, copies, finished>>

modifyOnCpu(n) ==
  /\ stage[n] = "post"
  /\ stage' = [stage EXCEPT ![n] = "done"]
  /\ info' = [info EXCEPT ![nodes[n].to].modified = TRUE]
  /\ UNCHANGED <<program, todo, queue, completed, ran, cpu, gpu, need, copies, finished>>

-----------------------------------------------------------------------------
(* The GPU thread, one task at a time.                                      *)
Handle(op) == /\ queue # << >> /\ Head(queue).op = op
              /\ queue' = Tail(queue) /\ completed' = completed \cup {Head(queue)}
              /\ UNCHANGED <<program, todo, stage, finished>>

(* initGpuMem of an output: a buffer is created if there is none.           *)
prepare ==
  LET m == Head(queue).m
  IN  /\ Handle("prepare")
      /\ info' = [info EXCEPT ![m].has = TRUE]
      /\ UNCHANGED <<ran, cpu, gpu, need, copies>>

(* initGpuMem of an input: nothing to do if the buffer is up to date; a     *)
(* buffer with a pending copy-out is brought to the CPU and used again, and *)
(* one without is replaced by a new one; then all of the storage is copied. *)
copyin ==
  LET m == Head(queue).m
      upToDate == info[m].has /\ ~ info[m].modified
      storage  == cpu'[m]
  IN  /\ Handle("copyin")
      /\ IF upToDate THEN UNCHANGED <<cpu, gpu, info, need>>
         ELSE /\ Updated({m})
              /\ info' = [NothingPending({m}) EXCEPT ![m].has = TRUE, ![m].modified = FALSE]
              /\ gpu' = [gpu EXCEPT ![m] = storage]
      /\ UNCHANGED <<ran, copies>>

\* Faulty: a group met after some of its nodes have run waits for them.
GroupsAnew(n) ==
  {[g EXCEPT !.remaining = @ \ {n}] :
     g \in info[nodes[n].to].groups \cup {[remaining |-> g, complete |-> g] : g \in regionNodeGroups(n)}}

(* finishGpuMem: the groups that the node completes, and their data.        *)
Groups(n) ==
  LET i == info[nodes[n].to]
      new == {[remaining |-> g \ i.doneRemaining, complete |-> g \ i.doneComplete] : g \in regionNodeGroups(n)}
  IN  {[g EXCEPT !.remaining = @ \ {n}] : g \in i.groups \cup new}

run ==
  LET n == Head(queue).node
      m == nodes[n].to
      pending == info[m].pending \cup nodes[n].parts
      groups == Groups(n)
      doneNodes == UNION {g.complete : g \in {g \in groups : g.remaining = {}}}
      data == gpu[m] \cup nodes[n].parts
      after == [info[m] EXCEPT !.pending = pending, !.groups = groups, !.doneRemaining = @ \cup {n}]
  IN
  /\ Handle("run")
  /\ ran' = ran \cup {n}
  /\ gpu' = [gpu EXCEPT ![m] = data]
  /\ \/ /\ gpuCopyOut(n) = 0 \/ doneNodes = {}
        /\ info' = [info EXCEPT ![m] = IF gpuCopyOut(n) = 0 THEN [@ EXCEPT !.pending = pending] ELSE after]
        /\ UNCHANGED <<cpu, need, copies>>
     \/ /\ gpuCopyOut(n) = 1 /\ doneNodes # {}  \* startReadBuffer, now
        /\ copies' = Append(copies, [m |-> m, parts |-> pending, data |-> data,
                                     state |-> IF pending = {} THEN "closed" ELSE "reading"])
        /\ info' = [info EXCEPT ![m] = [after EXCEPT
             !.pending = {}, !.doneComplete = @ \cup doneNodes,
             !.groups = {[g EXCEPT !.complete = @ \ doneNodes] : g \in groups},
             !.copyMap = [k \in doneNodes \cup DOMAIN @ |-> IF k \in doneNodes THEN Len(copies') ELSE @[k]]]]
        /\ UNCHANGED <<cpu, need>>
     \/ /\ gpuCopyOut(n) = 2 /\ doneNodes # {} /\ pending # Parts
        /\ cpu' = [cpu EXCEPT ![m] = CopyOut(@, pending, data)]
        /\ info' = [info EXCEPT ![m] = [after EXCEPT !.pending = {}]]
        /\ UNCHANGED <<need, copies>>
     \/ /\ gpuCopyOut(n) = 2 /\ doneNodes # {} /\ pending = Parts  \* addNeedCopyOut
        /\ need' = need \cup {m}
        /\ info' = [info EXCEPT ![m] = after]
        /\ UNCHANGED <<cpu, copies>>

(* The device completes a read; a read of all of a matrix goes directly to *)
(* its storage.                                                            *)
ReadBuffer(c) ==
  /\ copies[c].state = "reading"
  /\ copies' = [copies EXCEPT ![c].state = "read"]
  /\ cpu' = [cpu EXCEPT ![copies[c].m] = IF copies[c].parts = Parts THEN copies[c].data ELSE @]
  /\ UNCHANGED <<program, todo, stage, queue, completed, ran, gpu, info, need, finished>>

(* The copy-out of a node: done by that of another node of the group, or   *)
(* done now, or tried again at the end of the queue.                        *)
copyout ==
  LET n == Head(queue).node
      m == nodes[n].to
      started == n \in DOMAIN info[m].copyMap
      c == info[m].copyMap[n]
  IN
  /\ queue # << >> /\ Head(queue).op = "copyout"
  /\ \/ /\ started /\ copies[c].state = "closed"
        /\ UNCHANGED <<cpu, copies>>
     \/ /\ started /\ copies[c].state = "read"
        /\ copies' = [copies EXCEPT ![c].state = "closed"]
        /\ cpu' = [cpu EXCEPT ![m] = IF copies[c].parts = Parts THEN @
                                     ELSE CopyOut(@, copies[c].parts, copies[c].data)]
  /\ Handle("copyout")
  /\ info' = [info EXCEPT ![m].copyMap = [k \in DOMAIN @ \ {n} |-> @[k]]]
  /\ UNCHANGED <<ran, gpu, need>>

copyoutAgain ==
  LET m == Head(queue).m
      n == Head(queue).node
  IN
  /\ queue # << >> /\ Head(queue).op = "copyout"
  /\ n \in DOMAIN info[m].copyMap => copies[info[m].copyMap[n]].state = "reading"
  /\ queue' = Append(Tail(queue), Head(queue))
  /\ UNCHANGED <<program, todo, stage, completed, ran, cpu, gpu, info, need, copies, finished>>

-----------------------------------------------------------------------------
(* compute(): waits for the nodes of the outputs, then uses them on the CPU. *)
Finish ==
  /\ ~ finished
  /\ \A n \in Ids : nodes[n].to \in outputs => IsDone(n)
  /\ Updated(outputs) /\ info' = NothingPending(outputs)
  /\ finished' = TRUE
  /\ UNCHANGED <<program, todo, stage, queue, completed, ran, gpu, copies>>

Worker(n) == CreateTasks(n) \/ addTask(n) \/ useOnCpu(n) \/ RunOnCpu(n) \/ modifyOnCpu(n)
GpuThread == prepare \/ copyin \/ run \/ copyout \/ copyoutAgain

Next == (\E n \in Ids : Worker(n)) \/ GpuThread \/ (\E c \in 1..Len(copies) : ReadBuffer(c)) \/ Finish

(* Workers and the GPU thread never stop to take tasks, and the device     *)
(* completes every read.                                                    *)
Fairness == /\ \A n \in 1..MaxNodes : WF_vars(n \in Ids /\ Worker(n))
            /\ WF_vars(GpuThread) /\ WF_vars(Finish)
            /\ \A c \in 1..MaxNodes : WF_vars(c <= Len(copies) /\ ReadBuffer(c))

Spec == Init /\ [][Next]_vars /\ Fairness

-----------------------------------------------------------------------------
(* A rule runs when all that it reads is valid where it runs.               *)
ReadersSeeData ==
  [][\A n \in ran' \ ran : \A m \in Matrices :
       nodes[n].reads[m] \subseteq IF nodes[n].gpu THEN gpu[m] ELSE cpu[m]]_vars

(* When the transform returns its outputs are on the CPU, and no copy-out  *)
(* that is still under way takes them away again.                          *)
OutputsOnCpu ==
  finished => \A n \in Ids : nodes[n].to \in outputs => nodes[n].parts \subseteq cpu[nodes[n].to]

(* The transform returns, and no copy-out goes around the queue forever.   *)
Terminates == <>(finished /\ queue = << >>)
=============================================================================

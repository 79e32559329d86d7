------------------------ MODULE DistributedRegions ------------------------
(***************************************************************************)
(* The data of one matrix spread over hosts, and the tasks of one          *)
(* transform that use it (runtime/regionhandler.cpp, regiondata*.cpp,      *)
(* regionmatrix.h, remotetask.cpp, and the trampolines that the compiler   *)
(* writes for them).                                                       *)
(*                                                                         *)
(* A task runs where most of its data is.  There it copies the bounding    *)
(* box of all it touches to a scratch region, part by part; it computes in *)
(* the scratch region, and copies what it wrote back, part by part.  A box *)
(* inside one part of the same host is used in place.                      *)
(*                                                                         *)
(* RegionHandler::_cache is left out: copyToScratchMatrixStorageCache      *)
(* looks there first, but fills it only if newScratchRegionData is NULL,   *)
(* and its only caller, localCopy, passes the address of a local variable. *)
(*                                                                         *)
(* A matrix has two dimensions, and a cell holds the number of the task    *)
(* that wrote it last.                                                     *)
(***************************************************************************)
EXTENDS Integers, FiniteSets, SequencesExt

CONSTANTS Hosts,     \* how many hosts there are; they are numbered from 0
          Size,      \* of the matrix
          Layouts,   \* distributions of its data
          Programs,  \* sequences of tasks: [reads |-> cells, to |-> a box]
          MaxTasks   \* the length of the longest of them

Host == 0 .. Hosts - 1
Master == 0
Dims == 1 .. 2
CoordsOf(n) == (0 .. n[1] - 1) \X (0 .. n[2] - 1)
Cells == CoordsOf(Size)

ASSUME RegionsAssumption ==
  /\ Hosts \in Nat \ {0} /\ Size \in (Nat \ {0}) \X (Nat \ {0})
  /\ \A p \in Programs :
       /\ p \in Seq([reads : SUBSET Cells, to : SUBSET Cells])
       /\ Len(p) <= MaxTasks
  /\ MaxTasks \in Nat

-----------------------------------------------------------------------------
(* Distribution.  A layout is the size of the parts and the host of each;   *)
(* a matrix that is not split has one part.                                 *)

CeilDiv(a, b) == (a + b - 1) \div b
AtLeastOne(n) == IF n = 0 THEN 1 ELSE n
PartsSize(split) == [d \in Dims |-> CeilDiv(Size[d], split[d])]

\* allocDataLocal and allocDataOneRemoteNode
Whole(host) == [split |-> Size, host |-> (<<0, 0>> :> host)]

\* allocDataNBySlice: the index of the host stays 0.
NBySlice(n, d) ==
  LET split == [Size EXCEPT ![d] = AtLeastOne(@ \div n)]
  IN  [split |-> split,
       host |-> [part \in CoordsOf(PartsSize(split)) |-> 0]]

\* allocDataNByBlock: parts are dealt out along dimension a, then b; what is
\* left over at the end of a dimension goes where its neighbour went.
NByBlock(n, a, b) ==
  LET split == [d \in Dims |-> AtLeastOne(Size[d] \div n)]
      hasExtra == [d \in Dims |-> Size[d] % n # 0]
      parts == PartsSize(split)
      Deal(s, k) ==
        LET i == k % parts[a]
            j == k \div parts[a]
            r == IF i = 0 /\ hasExtra[b] /\ j = parts[b] - 1 THEN s.begin
                 ELSE s.r
            next == IF hasExtra[a] /\ i = parts[a] - 2 THEN r ELSE r + 1
        IN  [begin |-> IF i = 0 THEN r ELSE s.begin,
             r |-> IF next >= Hosts THEN 0 ELSE next,
             host |-> ([[d \in Dims |-> 0] EXCEPT ![a] = i, ![b] = j] :> r)
                        @@ s.host]
  IN  [split |-> split,
       host |-> FoldLeft(Deal, [begin |-> 0, r |-> 0, host |-> << >>],
                   [k \in 1 .. parts[1] * parts[2] |-> k - 1]).host]

-----------------------------------------------------------------------------
VARIABLES layout,   \* where the data is
          ignore,   \* shouldIgnoreDuringScheduling
          root,     \* the host that runs the transform
          tasks,    \* its tasks
          st,       \* what has become of a task
          at,       \* the host a task runs on
          data,     \* the matrix
          scratch,  \* the scratch region a task allocated
          todo      \* the parts a task has still to copy

vars == <<layout, ignore, root, tasks, st, at, data, scratch, todo>>
program == <<layout, ignore, root, tasks>>
copies == <<data, scratch, todo>>

Task == DOMAIN tasks

\* regionUnion and _scratchBoundingBox
BoundingBox(cells) ==
  {c \in Cells : \A d \in Dims : /\ \E x \in cells : x[d] <= c[d]
                                 /\ \E x \in cells : x[d] >= c[d]}
Box(t) == BoundingBox(tasks[t].reads \union tasks[t].to)

\* coordToPart
PartOf(c) == <<c[1] \div layout.split[1], c[2] \div layout.split[2]>>
HostOf(part) == layout.host[part]

\* The parts that copyHelper and hosts walk through, and incPartCoord's order.
PartsOf(box) == {PartOf(c) : c \in box}
Ordered(parts) ==
  LET n == PartsSize(layout.split)
  IN  SelectSeq([k \in 1 .. n[1] * n[2] |-> <<(k - 1) % n[1], (k - 1) \div n[1]>>],
                LAMBDA part : part \in parts)
First(parts) == Head(Ordered(parts))
Piece(box, part) == {c \in box : PartOf(c) = part}

\* The conflicts that the schedule orders.
Conflict(s, t) ==
  \/ tasks[s].to \intersect (tasks[t].reads \union tasks[t].to) # {}
  \/ tasks[s].reads \intersect tasks[t].to # {}
Predecessors(t) == {s \in 1 .. t - 1 : Conflict(s, t)}

Init ==
  /\ layout \in Layouts /\ ignore \in BOOLEAN
  /\ root \in Host /\ tasks \in Programs
  /\ st = [t \in Task |-> "pending"]
  /\ at = [t \in Task |-> root]
  /\ data = [c \in Cells |-> 0]
  /\ scratch = [t \in Task |-> << >>]
  /\ todo = [t \in Task |-> {}]

-----------------------------------------------------------------------------
(* RemoteTask.                                                              *)

\* remoteScheduleTask: where most of the box is; here, if as much is here; else
\* on the host that came up to that much first.  It is one host.
Places(t) ==
  LET Weight(h) == Cardinality({c \in Box(t) : HostOf(PartOf(c)) = h})
      heaviest == {h \in Host : \A g \in Host : Weight(g) <= Weight(h)}
      parts == SelectSeq(Ordered(PartsOf(Box(t))), LAMBDA p : HostOf(p) \in heaviest)
      Reached(h) == CHOOSE i \in DOMAIN parts :
                   HostOf(parts[i]) = h /\ \A j \in i + 1 .. Len(parts) : HostOf(parts[j]) # h
  IN  IF ignore \/ root \in heaviest THEN {root}
      ELSE {h \in heaviest : \A g \in heaviest : Reached(h) <= Reached(g)}

Schedule(t) ==
  /\ st[t] = "pending" /\ \A s \in Predecessors(t) : st[s] = "complete"
  /\ \E h \in Places(t) :
       /\ at' = [at EXCEPT ![t] = h]
       /\ st' = [st EXCEPT ![t] = IF h = root THEN "ready" ELSE "sent"]
  /\ UNCHANGED <<program, copies>>

\* RemoteTaskReciever::onRecvInitial
Receive(t) ==
  /\ st[t] = "sent"
  /\ st' = [st EXCEPT ![t] = "ready"]
  /\ UNCHANGED <<program, at, copies>>

\* Faulty: root is not told.
FinishUntold(t) ==
  /\ st[t] = "written" /\ at[t] = root
  /\ st' = [st EXCEPT ![t] = "complete"]
  /\ UNCHANGED <<program, at, copies>>

\* The task is complete where it ran; elsewhere, root has to be told.
Finish(t) ==
  /\ st[t] = "written"
  /\ st' = [st EXCEPT ![t] = IF at[t] = root THEN "complete" ELSE "reporting"]
  /\ UNCHANGED <<program, at, copies>>

\* onCompletedRemotely
Completed(t) ==
  /\ st[t] = "reporting"
  /\ st' = [st EXCEPT ![t] = "complete"]
  /\ UNCHANGED <<program, at, copies>>

-----------------------------------------------------------------------------
(* RegionMatrix::localCopy.                                                 *)

UsesInPlace(t) ==
  /\ Cardinality(PartsOf(Box(t))) = 1   \* isRegionInOnePart
  /\ \A part \in PartsOf(Box(t)) : HostOf(part) = at[t]

\* copyToScratchMatrixStorageCache, which finds nothing in the cache
LocalCopy(t) ==
  /\ st[t] = "ready"
  /\ IF UsesInPlace(t)
     THEN st' = [st EXCEPT ![t] = "copied"] /\ UNCHANGED todo
     ELSE /\ todo' = [todo EXCEPT ![t] = PartsOf(Box(t))]
          /\ st' = [st EXCEPT ![t] = "copying"]
  /\ UNCHANGED <<program, at, data, scratch>>

\* f where it is defined, g elsewhere
Over(f, g) == [x \in DOMAIN f \union DOMAIN g |-> IF x \in DOMAIN f THEN f[x] ELSE g[x]]

\* copyToScratchMatrixStorage of one part
CopyPart(t) ==
  LET part == First(todo[t])
  IN  /\ st[t] = "copying"
      /\ scratch' = [scratch EXCEPT ![t] =
                       Over([c \in Piece(Box(t), part) |-> data[c]], @)]
      /\ todo' = [todo EXCEPT ![t] = @ \ {part}]
      /\ st' = [st EXCEPT ![t] = IF todo[t] = {part} THEN "copied" ELSE @]
      /\ UNCHANGED <<program, at, data>>

Written(t, old) == [c \in DOMAIN old |-> IF c \in tasks[t].to THEN t ELSE old[c]]

\* The rule is applied.  The regions to copy back are remote_TO and local_TO.
Apply(t) ==
  /\ st[t] = "copied"
  /\ IF UsesInPlace(t)
     THEN /\ data' = Written(t, data)
          /\ st' = [st EXCEPT ![t] = "written"]
          /\ UNCHANGED <<scratch, todo>>
     ELSE /\ scratch' = [scratch EXCEPT ![t] = Written(t, @)]
          /\ todo' = [todo EXCEPT ![t] = PartsOf(tasks[t].to)]
          /\ st' = [st EXCEPT ![t] = IF tasks[t].to = {} THEN "written"
                                     ELSE "writing"]
          /\ UNCHANGED data
  /\ UNCHANGED <<program, at>>

\* Faulty: all that the scratch region has of the part is copied back.
WriteWholePart(t) ==
  LET part == First(todo[t])
  IN  /\ st[t] = "writing"
      /\ data' = Over([c \in Piece(Box(t), part) |-> scratch[t][c]], data)
      /\ todo' = [todo EXCEPT ![t] = @ \ {part}]
      /\ st' = [st EXCEPT ![t] = IF todo[t] = {part} THEN "written" ELSE @]
      /\ UNCHANGED <<program, at, scratch>>

\* Faulty: the task is taken as done when its first part is copied back.
WriteFirstPart(t) ==
  LET part == First(todo[t])
  IN  /\ st[t] = "writing"
      /\ data' = Over([c \in Piece(tasks[t].to, part) |-> scratch[t][c]], data)
      /\ todo' = [todo EXCEPT ![t] = @ \ {part}]
      /\ st' = [st EXCEPT ![t] = "written"]
      /\ UNCHANGED <<program, at, scratch>>

\* fromScratchRegion, copyFromScratchMatrixStorage of one part
WritePart(t) ==
  LET part == First(todo[t])
  IN  /\ st[t] = "writing"
      /\ data' = Over([c \in Piece(tasks[t].to, part) |-> scratch[t][c]], data)
      /\ todo' = [todo EXCEPT ![t] = @ \ {part}]
      /\ st' = [st EXCEPT ![t] = IF todo[t] = {part} THEN "written" ELSE @]
      /\ UNCHANGED <<program, at, scratch>>

-----------------------------------------------------------------------------
Done == \A t \in Task : st[t] = "complete"
Stop == Done /\ UNCHANGED vars

Step(t) ==
  \/ Schedule(t) \/ Receive(t) \/ LocalCopy(t) \/ CopyPart(t) \/ Apply(t)
  \/ WritePart(t) \/ Finish(t) \/ Completed(t)

Next == Stop \/ \E t \in Task : Step(t)

Spec == Init /\ [][Next]_vars /\ \A t \in 1 .. MaxTasks : WF_vars(t \in Task /\ Step(t))

-----------------------------------------------------------------------------
\* The task that wrote c last before t, or 0
LastWriter(t, c) ==
  LET writers == {s \in 1 .. t - 1 : c \in tasks[s].to}
  IN  IF writers = {} THEN 0 ELSE CHOOSE s \in writers : \A r \in writers : r <= s

Value(t, c) == IF UsesInPlace(t) THEN data[c] ELSE scratch[t][c]

\* When localCopy is done, the task has before it, in the matrix or in its
\* scratch region, what the last task before it wrote to each cell it reads:
\* no write is missing, on whatever host and through however many parts it was
\* made, and none of a later task is there, though other tasks copy while it
\* does.  (DEBUG_SCRATCH_REGION asserts that the copy is that of the matrix.)
SeesWhatItDependsOn ==
  \A t \in Task : st[t] = "copied" =>
    \A c \in tasks[t].reads : Value(t, c) = LastWriter(t, c)

\* The boxes of tasks that run at once may overlap, and so may the parts they
\* copy back; yet in the end each cell has what the last task wrote to it.
NothingLost ==
  Done => \A c \in Cells : data[c] = LastWriter(Len(tasks) + 1, c)

\* Every task of the transform completes, and root learns of it.
AllComplete == <>Done

=============================================================================

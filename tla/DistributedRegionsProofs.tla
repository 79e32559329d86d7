----------------------- MODULE DistributedRegionsProofs -----------------------
(***************************************************************************)
(* Proofs about DistributedRegions for any number of hosts, any matrix,    *)
(* any layout and any program.                                             *)
(*                                                                         *)
(* A cell holds the number of the task that wrote it last, so everything   *)
(* is said by comparing numbers: a write of w is in a cell that holds at   *)
(* least w.  Tasks that conflict never run at once (Ordering), so the      *)
(* matrix has all that was written (Data), and what a task copies of it is *)
(* what it has to read, whenever each part is copied (Copying).            *)
(***************************************************************************)
EXTENDS DistributedRegions, WellFoundedInduction, TLAPS

Waiting == {"pending", "sent", "ready"}
After == {"writing", "written", "reporting", "complete"}
Past == {"copied"} \union After
States == Waiting \union {"copying"} \union Past

TypeOK ==
  /\ root \in Host /\ tasks \in Programs
  /\ st \in [Task -> States]
  /\ at \in [Task -> Host]
  /\ data \in [Cells -> Nat]
  /\ DOMAIN scratch = Task /\ DOMAIN todo = Task

\* A task starts when those it conflicts with are complete.
Ordering ==
  \A t \in Task : st[t] # "pending" =>
    \A s \in Predecessors(t) : st[s] = "complete"

\* What has been copied to the scratch region of a task.
Regions ==
  \A t \in Task :
    /\ st[t] \in Waiting => scratch[t] = << >>
    /\ st[t] = "copying" =>
         ~UsesInPlace(t) /\ DOMAIN scratch[t] = {c \in Box(t) : PartOf(c) \notin todo[t]}
    /\ st[t] \in Past /\ ~UsesInPlace(t) => DOMAIN scratch[t] = Box(t)

\* t's write to c is in the matrix, unless a later one is.
HasWritten(t, c) ==
  /\ c \in tasks[t].to
  /\ \/ st[t] \in {"written", "reporting", "complete"}
     \/ st[t] = "writing" /\ PartOf(c) \notin todo[t]

Data ==
  \A c \in Cells :
    /\ data[c] # 0 => data[c] \in Task /\ HasWritten(data[c], c)
    /\ \A s \in Task : HasWritten(s, c) => s <= data[c]

\* A task that has still to copy back finds in its scratch region what it
\* computed.
Results ==
  \A t \in Task : st[t] = "writing" =>
    ~UsesInPlace(t) /\ \A c \in tasks[t].to : scratch[t][c] = t

\* What is copied, cell by cell, is what the task has to read.
Copying ==
  \A t \in Task : st[t] \in {"copying", "copied"} /\ ~UsesInPlace(t) =>
    \A c \in tasks[t].reads \intersect DOMAIN scratch[t] : scratch[t][c] = LastWriter(t, c)

IInv == TypeOK /\ Ordering /\ Regions /\ Data /\ Results /\ Copying

USE DEF Task

-----------------------------------------------------------------------------
(* Operators.                                                               *)

\* A set of numbers has a least element, and with an upper bound a greatest.
LEMMA HasLeast ==
  ASSUME NEW S \in SUBSET Nat, S # {}
  PROVE  \E x \in S : \A y \in S : x <= y
<1>1. PICK x \in S : \A y \in S : ~(<<y, x>> \in OpToRel(<, Nat))
  BY NatLessThanWellFounded, WFMin
<1>2. \A y \in S : ~(y < x)
  BY <1>1 DEF OpToRel
<1> QED BY <1>2

LEMMA HasGreatest ==
  ASSUME NEW n \in Nat, NEW S \in SUBSET (0 .. n), S # {}
  PROVE  \E x \in S : \A y \in S : y <= x
<1> DEFINE T == {k \in Nat : n - k \in S}
<1>1. T \in SUBSET Nat /\ T # {}
  <2>1. PICK y \in S : TRUE
    OBVIOUS
  <2>2. n - y \in Nat /\ n - (n - y) = y
    OBVIOUS
  <2> QED BY <2>1, <2>2
<1>2. PICK k \in T : \A j \in T : k <= j
  BY <1>1, HasLeast
<1>3. n - k \in S /\ \A y \in S : n - y \in T /\ k <= n - y
  BY <1>2
<1> QED BY <1>3

\* What a program is made of.
LEMMA Programmed ==
  ASSUME tasks \in Programs
  PROVE  /\ Len(tasks) \in Nat /\ Task = 1 .. Len(tasks)
         /\ \A t \in Task : /\ t \in Nat \ {0}
                            /\ tasks[t].reads \subseteq Cells /\ tasks[t].to \subseteq Cells
<1> DEFINE Tasks == [reads : SUBSET Cells, to : SUBSET Cells]
<1>1. tasks \in Seq(Tasks)
  BY RegionsAssumption
<1>2. /\ Len(tasks) \in Nat /\ Task = 1 .. Len(tasks)
      /\ \A t \in Task : tasks[t] \in Tasks
  <2> HIDE DEF Tasks
  <2> QED BY <1>1
<1> QED BY <1>2

\* The box of a task has the cells that it reads and writes.
LEMMA Boxed ==
  ASSUME tasks \in Programs, NEW t \in Task
  PROVE  /\ Box(t) \subseteq Cells /\ tasks[t].reads \subseteq Box(t)
         /\ tasks[t].to \subseteq Box(t)
<1>1. \A c \in Cells : c[1] \in Int /\ c[2] \in Int
  BY RegionsAssumption DEF Cells, CoordsOf
<1>2. \A c \in Cells : \A d \in Dims : c[d] <= c[d] /\ c[d] >= c[d]
  BY <1>1 DEF Dims
<1>3. \A cells \in SUBSET Cells : cells \subseteq BoundingBox(cells)
  BY <1>2 DEF BoundingBox
<1>4. tasks[t].reads \union tasks[t].to \in SUBSET Cells
  BY Programmed
<1>5. PICK cells \in SUBSET Cells : cells = tasks[t].reads \union tasks[t].to
  BY <1>4
<1> QED BY <1>3, <1>5 DEF Box, BoundingBox

\* LastWriter is the greatest of the writers before t.
LEMMA LastWriterIs ==
  ASSUME tasks \in Programs, NEW t \in Task \union {Len(tasks) + 1}, NEW c
  PROVE  /\ LastWriter(t, c) \in Nat
         /\ LastWriter(t, c) # 0 =>
              /\ LastWriter(t, c) \in Task /\ LastWriter(t, c) < t
              /\ c \in tasks[LastWriter(t, c)].to
         /\ \A s \in Task : s < t /\ c \in tasks[s].to =>
              s <= LastWriter(t, c) /\ LastWriter(t, c) # 0
<1> DEFINE writers == {s \in 1 .. t - 1 : c \in tasks[s].to}
<1>1. /\ t \in Nat /\ t - 1 \in Nat /\ 1 .. t - 1 \subseteq Task
      /\ \A s \in Task : s < t => s \in 1 .. t - 1
  BY Programmed
<1>2. CASE writers = {}
  <2>1. LastWriter(t, c) = 0
    BY <1>2 DEF LastWriter
  <2>2. \A s \in Task : s < t => c \notin tasks[s].to
    BY <1>1, <1>2
  <2> QED BY <2>1, <2>2
<1>3. CASE writers # {}
  <2>1. writers \in SUBSET (0 .. t - 1)
    BY <1>1
  <2>2. \E x \in writers : \A y \in writers : y <= x
    BY <1>1, <1>3, <2>1, HasGreatest
  <2>3. LastWriter(t, c) = CHOOSE s \in writers : \A r \in writers : r <= s
    BY <1>3 DEF LastWriter
  <2>4. LastWriter(t, c) \in writers /\ \A r \in writers : r <= LastWriter(t, c)
    BY <2>2, <2>3
  <2> QED BY <1>1, <2>4
<1> QED BY <1>2, <1>3

\* Two tasks of which one writes what the other uses never run at once.
LEMMA Apart ==
  ASSUME TypeOK, Ordering, NEW s \in Task, NEW t \in Task, NEW c,
         c \in tasks[s].to, c \in tasks[t].reads \union tasks[t].to, s # t
  PROVE  /\ s < t \/ t < s
         /\ s < t => st[t] = "pending" \/ st[s] = "complete"
         /\ t < s => st[s] = "pending" \/ st[t] = "complete"
<1>1. s \in Nat \ {0} /\ t \in Nat \ {0}
  BY Programmed DEF TypeOK
<1>2. s < t => s \in Predecessors(t)
  BY <1>1 DEF Predecessors, Conflict
<1>3. t < s => t \in Predecessors(s)
  BY <1>1 DEF Predecessors, Conflict
<1> QED BY <1>1, <1>2, <1>3 DEF Ordering

\* While a task may read a cell, the matrix has there what it is to read.
LEMMA MatrixIsCurrent ==
  ASSUME TypeOK, Ordering, Data, NEW t \in Task, st[t] \in {"sent", "ready", "copying", "copied"},
         NEW c \in tasks[t].reads
  PROVE  data[c] = LastWriter(t, c)
<1>1. t \in Nat /\ c \in Cells /\ \A s \in Task : s \in Nat \ {0}
  BY Programmed DEF TypeOK
<1> DEFINE w == LastWriter(t, c)
<1>2. /\ w \in Nat
      /\ w # 0 => w \in Task /\ w < t /\ c \in tasks[w].to
      /\ \A s \in Task : s < t /\ c \in tasks[s].to => s <= w /\ w # 0
  BY LastWriterIs DEF TypeOK
<1> HIDE DEF w
<1>3. ASSUME w # 0 PROVE w <= data[c]
  <2>1. st[w] = "complete"
    BY <1>1, <1>2, <1>3, Apart
  <2> QED BY <1>1, <1>2, <1>3, <2>1 DEF Data, HasWritten
<1>4. ASSUME data[c] # 0 PROVE data[c] <= w /\ w # 0
  <2>1. data[c] \in Task /\ HasWritten(data[c], c)
    BY <1>1, <1>4 DEF Data
  <2>2. data[c] # t /\ c \in tasks[data[c]].to /\ st[data[c]] # "pending"
    BY <2>1 DEF HasWritten
  <2>3. data[c] < t
    BY <1>1, <2>1, <2>2, Apart
  <2> QED BY <1>2, <2>1, <2>2, <2>3
<1>5. data[c] \in Nat
  BY <1>1 DEF TypeOK
<1>6. data[c] = w
  BY <1>2, <1>3, <1>4, <1>5
<1> QED BY <1>6 DEF w

-----------------------------------------------------------------------------
(* The invariant.                                                           *)

LEMMA Initially == Init => IInv
<1> SUFFICES ASSUME Init PROVE IInv
  OBVIOUS
<1>1. tasks \in Programs /\ root \in Host
  BY DEF Init
<1>2. TypeOK
  BY <1>1 DEF Init, TypeOK, Host, States, Waiting
<1>3. Ordering /\ Regions /\ Data /\ Results /\ Copying
  BY <1>2 DEF Init, TypeOK, Ordering, Regions, Data, HasWritten, Results, Copying,
     Past, After, Waiting
<1> QED BY <1>2, <1>3 DEF IInv

\* What every step finds: the program, and that it does not change.
Kept ==
  /\ tasks \in Programs /\ Len(tasks) \in Nat /\ Task = 1 .. Len(tasks)
  /\ \A s \in Task : /\ s \in Nat \ {0}
                     /\ tasks[s].reads \subseteq Cells /\ tasks[s].to \subseteq Cells
                     /\ Box(s) \subseteq Cells /\ tasks[s].reads \subseteq Box(s)
                     /\ tasks[s].to \subseteq Box(s) /\ Predecessors(s) \subseteq Task
  /\ layout' = layout /\ root' = root /\ tasks' = tasks /\ Task' = Task
  /\ \A s : Box(s)' = Box(s) /\ Predecessors(s)' = Predecessors(s)
  /\ \A s : at'[s] = at[s] => (UsesInPlace(s)' <=> UsesInPlace(s))
  /\ \A c : PartOf(c)' = PartOf(c)
  /\ \A s, c : LastWriter(s, c)' = LastWriter(s, c)

LEMMA Setting == IInv /\ UNCHANGED program => Kept
<1> SUFFICES ASSUME IInv, UNCHANGED program PROVE Kept
  OBVIOUS
<1> USE DEF IInv
<1>1. /\ tasks \in Programs /\ Len(tasks) \in Nat /\ Task = 1 .. Len(tasks)
      /\ \A s \in Task : s \in Nat
  BY Programmed DEF TypeOK
<1>2. \A s \in Task : Predecessors(s) \subseteq Task
  BY <1>1 DEF Predecessors
<1>3. /\ layout' = layout /\ root' = root /\ tasks' = tasks /\ Task' = Task
      /\ \A s : Box(s)' = Box(s) /\ Predecessors(s)' = Predecessors(s)
      /\ \A c : PartOf(c)' = PartOf(c)
      /\ \A s, c : LastWriter(s, c)' = LastWriter(s, c)
  BY DEF program, Box, Predecessors, Conflict, PartOf, LastWriter
<1>4. ASSUME NEW s, at'[s] = at[s]
      PROVE  UsesInPlace(s)' <=> UsesInPlace(s)
  <2>1. PICK box : box = Box(s)
    OBVIOUS
  <2>2. Box(s)' = box
    BY <1>3, <2>1
  <2>3. PICK parts : parts = PartsOf(box)
    OBVIOUS
  <2>4. PartsOf(box)' = parts /\ \A part \in parts : HostOf(part)' = HostOf(part)
    BY <1>3, <2>3 DEF PartsOf, PartOf, HostOf
  <2>5. UsesInPlace(s) <=> Cardinality(parts) = 1 /\ \A part \in parts : HostOf(part) = at[s]
    BY <2>1, <2>3 DEF UsesInPlace
  <2>6. UsesInPlace(s)' <=> Cardinality(parts) = 1 /\ \A part \in parts : HostOf(part)' = at'[s]
    BY <2>2, <2>4 DEF UsesInPlace
  <2> QED BY <1>4, <2>4, <2>5, <2>6
<1> QED BY <1>1, <1>2, <1>3, <1>4, Programmed, Boxed DEF TypeOK, Kept

-----------------------------------------------------------------------------
(* Every step preserves the invariant.                                      *)

\* A task is sent to the host that has most of its data.
LEMMA Scheduled ==
  ASSUME IInv, NEW t \in Task, Schedule(t)
  PROVE  IInv'
<1> USE DEF IInv
<1>1. Kept
  BY Setting DEF Schedule
<1>2. PICK h \in Host : /\ at' = [at EXCEPT ![t] = h]
                        /\ st' = [st EXCEPT ![t] = IF h = root THEN "ready" ELSE "sent"]
  BY <1>1 DEF Schedule, Places, TypeOK, Kept
<1>3. /\ data' = data /\ scratch' = scratch /\ todo' = todo
      /\ st[t] = "pending" /\ \A s \in Predecessors(t) : st[s] = "complete"
  BY DEF Schedule, copies
<1>4. /\ at'[t] = h /\ st'[t] \in {"ready", "sent"}
      /\ \A s \in Task \ {t} : at'[s] = at[s] /\ st'[s] = st[s]
      /\ scratch[t] = << >>
  BY <1>2, <1>3 DEF TypeOK, Regions, Waiting
<1>5. TypeOK'
  BY <1>1, <1>2, <1>3, <1>4 DEF TypeOK, Past, After, Waiting, States, Kept
<1>6. Ordering'
  BY <1>1, <1>2, <1>3, <1>4 DEF TypeOK, Ordering, Kept
<1>7. Regions'
  BY <1>1, <1>2, <1>3, <1>4 DEF TypeOK, Regions, Past, After, Waiting, States, Kept
<1>8. Data'
  BY <1>1, <1>2, <1>3, <1>4 DEF TypeOK, Data, HasWritten, Kept
<1>9. Results'
  BY <1>1, <1>2, <1>3, <1>4 DEF TypeOK, Results, Past, After, Kept
<1>10. Copying'
  BY <1>1, <1>2, <1>3, <1>4 DEF TypeOK, Copying, Kept
<1> QED BY <1>5, <1>6, <1>7, <1>8, <1>9, <1>10

\* The host that a task was sent to has it.
LEMMA Received ==
  ASSUME IInv, NEW t \in Task, Receive(t)
  PROVE  IInv'
<1> USE DEF IInv
<1>1. Kept
  BY Setting DEF Receive
<1>2. st[t] = "sent" /\ st' = [st EXCEPT ![t] = "ready"]
  BY <1>1 DEF Receive, TypeOK, Kept
<1>3. at' = at /\ data' = data /\ scratch' = scratch /\ todo' = todo
  BY DEF Receive, copies
<1>4. st'[t] = "ready" /\ \A s \in Task \ {t} : st'[s] = st[s]
  BY <1>2 DEF TypeOK
<1>5. TypeOK'
  BY <1>1, <1>2, <1>3, <1>4 DEF TypeOK, Past, After, Waiting, States, Kept
<1>6. Ordering'
  BY <1>1, <1>2, <1>3, <1>4 DEF TypeOK, Ordering, Kept
<1>7. Regions'
  BY <1>1, <1>2, <1>3, <1>4 DEF TypeOK, Regions, Past, After, Waiting, States, Kept
<1>8. Data'
  BY <1>1, <1>2, <1>3, <1>4 DEF TypeOK, Data, HasWritten, Kept
<1>9. Results'
  BY <1>1, <1>2, <1>3, <1>4 DEF TypeOK, Results, Past, After, Kept
<1>10. Copying'
  BY <1>1, <1>2, <1>3, <1>4 DEF TypeOK, Copying, Kept
<1> QED BY <1>5, <1>6, <1>7, <1>8, <1>9, <1>10

\* A task is complete at root, or has to be reported there.
LEMMA Finished ==
  ASSUME IInv, NEW t \in Task, Finish(t)
  PROVE  IInv'
<1> USE DEF IInv
<1>1. Kept
  BY Setting DEF Finish
<1>2. st[t] = "written" /\ st' = [st EXCEPT ![t] = (IF at[t] = root THEN "complete" ELSE "reporting")]
  BY <1>1 DEF Finish, TypeOK, Kept
<1>3. at' = at /\ data' = data /\ scratch' = scratch /\ todo' = todo
  BY DEF Finish, copies
<1>4. st'[t] = (IF at[t] = root THEN "complete" ELSE "reporting") /\ \A s \in Task \ {t} : st'[s] = st[s]
  BY <1>2 DEF TypeOK
<1>5. TypeOK'
  BY <1>1, <1>2, <1>3, <1>4 DEF TypeOK, Past, After, Waiting, States, Kept
<1>6. Ordering'
  BY <1>1, <1>2, <1>3, <1>4 DEF TypeOK, Ordering, Kept
<1>7. Regions'
  BY <1>1, <1>2, <1>3, <1>4 DEF TypeOK, Regions, Past, After, Waiting, States, Kept
<1>8. Data'
  BY <1>1, <1>2, <1>3, <1>4 DEF TypeOK, Data, HasWritten, Kept
<1>9. Results'
  BY <1>1, <1>2, <1>3, <1>4 DEF TypeOK, Results, Past, After, Kept
<1>10. Copying'
  BY <1>1, <1>2, <1>3, <1>4 DEF TypeOK, Copying, Kept
<1> QED BY <1>5, <1>6, <1>7, <1>8, <1>9, <1>10

\* Root learns of a task.
LEMMA Reported ==
  ASSUME IInv, NEW t \in Task, Completed(t)
  PROVE  IInv'
<1> USE DEF IInv
<1>1. Kept
  BY Setting DEF Completed
<1>2. st[t] = "reporting" /\ st' = [st EXCEPT ![t] = "complete"]
  BY <1>1 DEF Completed, TypeOK, Kept
<1>3. at' = at /\ data' = data /\ scratch' = scratch /\ todo' = todo
  BY DEF Completed, copies
<1>4. st'[t] = "complete" /\ \A s \in Task \ {t} : st'[s] = st[s]
  BY <1>2 DEF TypeOK
<1>5. TypeOK'
  BY <1>1, <1>2, <1>3, <1>4 DEF TypeOK, Past, After, Waiting, States, Kept
<1>6. Ordering'
  BY <1>1, <1>2, <1>3, <1>4 DEF TypeOK, Ordering, Kept
<1>7. Regions'
  BY <1>1, <1>2, <1>3, <1>4 DEF TypeOK, Regions, Past, After, Waiting, States, Kept
<1>8. Data'
  BY <1>1, <1>2, <1>3, <1>4 DEF TypeOK, Data, HasWritten, Kept
<1>9. Results'
  BY <1>1, <1>2, <1>3, <1>4 DEF TypeOK, Results, Past, After, Kept
<1>10. Copying'
  BY <1>1, <1>2, <1>3, <1>4 DEF TypeOK, Copying, Kept
<1> QED BY <1>5, <1>6, <1>7, <1>8, <1>9, <1>10

\* A box that is in one part of this host is used there.
LEMMA UsedInPlace ==
  ASSUME IInv, NEW t \in Task, LocalCopy(t), UsesInPlace(t)
  PROVE  IInv'
<1> USE DEF IInv
<1>1. Kept
  BY Setting DEF LocalCopy
<1>2. st[t] = "ready" /\ st' = [st EXCEPT ![t] = "copied"] /\ todo' = todo
  BY DEF LocalCopy
<1>3. at' = at /\ data' = data /\ scratch' = scratch
  BY DEF LocalCopy
<1>4. st'[t] = "copied" /\ \A s \in Task \ {t} : st'[s] = st[s]
  BY <1>2 DEF TypeOK
<1>5. TypeOK'
  BY <1>1, <1>2, <1>3, <1>4 DEF TypeOK, Past, After, Waiting, States, Kept
<1>6. Ordering'
  BY <1>1, <1>2, <1>3, <1>4 DEF TypeOK, Ordering, Kept
<1>7. Regions'
  BY <1>1, <1>2, <1>3, <1>4 DEF TypeOK, Regions, Past, After, Waiting, States, Kept
<1>8. Data'
  BY <1>1, <1>2, <1>3, <1>4 DEF TypeOK, Data, HasWritten, Kept
<1>9. Results'
  BY <1>1, <1>2, <1>3, <1>4 DEF TypeOK, Results, Past, After, Kept
<1>10. Copying'
  BY <1>1, <1>2, <1>3, <1>4 DEF TypeOK, Copying, Kept
<1> QED BY <1>5, <1>6, <1>7, <1>8, <1>9, <1>10

\* Any other is to be copied.
LEMMA ToBeCopied ==
  ASSUME IInv, NEW t \in Task, LocalCopy(t), ~UsesInPlace(t)
  PROVE  IInv'
<1> USE DEF IInv
<1>1. Kept
  BY Setting DEF LocalCopy
<1>2. /\ st[t] = "ready" /\ st' = [st EXCEPT ![t] = "copying"]
      /\ todo' = [todo EXCEPT ![t] = PartsOf(Box(t))]
      /\ at' = at /\ data' = data /\ scratch' = scratch
  BY DEF LocalCopy
<1>3. /\ todo'[t] = PartsOf(Box(t)) /\ st'[t] = "copying" /\ DOMAIN scratch[t] = {}
      /\ \A s \in Task \ {t} : todo'[s] = todo[s] /\ st'[s] = st[s]
  BY <1>2 DEF TypeOK, Regions, Waiting
<1>4. {c \in Box(t) : PartOf(c) \notin PartsOf(Box(t))} = {}
  BY DEF PartsOf
<1>5. TypeOK'
  BY <1>1, <1>2, <1>3, <1>4 DEF TypeOK, Past, After, Waiting, States, Kept
<1>6. Ordering'
  BY <1>1, <1>2, <1>3, <1>4 DEF TypeOK, Ordering, Kept
<1>7. Regions'
  BY <1>1, <1>2, <1>3, <1>4 DEF TypeOK, Regions, Past, After, Waiting, States, Kept
<1>8. Data'
  BY <1>1, <1>2, <1>3, <1>4 DEF TypeOK, Data, HasWritten, Kept
<1>9. Results'
  BY <1>1, <1>2, <1>3, <1>4 DEF TypeOK, Results, Past, After, Kept
<1>10. Copying'
  BY <1>1, <1>2, <1>3, <1>4 DEF TypeOK, Copying, Kept
<1> QED BY <1>5, <1>6, <1>7, <1>8, <1>9, <1>10

\* One part of the box is copied.
LEMMA PartCopied ==
  ASSUME IInv, NEW t \in Task, CopyPart(t)
  PROVE  IInv'
<1> USE DEF IInv
<1>1. Kept
  BY Setting DEF CopyPart
<1> DEFINE part == First(todo[t])
           f == [c \in Piece(Box(t), part) |-> data[c]]
           new == Over(f, scratch[t])
<1>2. /\ scratch' = [scratch EXCEPT ![t] = new] /\ todo' = [todo EXCEPT ![t] = @ \ {part}]
      /\ st' = [st EXCEPT ![t] = IF todo[t] = {part} THEN "copied" ELSE @]
      /\ at' = at /\ data' = data /\ st[t] = "copying"
  BY DEF CopyPart
<1>3. ~UsesInPlace(t) /\ DOMAIN scratch[t] = {c \in Box(t) : PartOf(c) \notin todo[t]}
  BY <1>2 DEF Regions
<1> HIDE DEF part
<1>4. DOMAIN f = {c \in Box(t) : PartOf(c) = part} /\ \A c \in DOMAIN f : f[c] = data[c]
  BY DEF Piece
<1> HIDE DEF f
<1>5. /\ DOMAIN new = {c \in Box(t) : PartOf(c) \notin todo[t] \ {part}}
      /\ \A c \in DOMAIN new : \/ new[c] = data[c]
                               \/ c \in DOMAIN scratch[t] /\ new[c] = scratch[t][c]
  <2> HIDE DEF new
  <2>1. /\ DOMAIN new = DOMAIN f \union DOMAIN scratch[t]
        /\ \A c \in DOMAIN f : new[c] = f[c]
        /\ \A c \in DOMAIN scratch[t] \ DOMAIN f : new[c] = scratch[t][c]
    BY DEF new, Over
  <2> QED BY <1>3, <1>4, <2>1
<1> HIDE DEF new
<1>6. \A c \in DOMAIN new \intersect tasks[t].reads : new[c] = LastWriter(t, c)
  BY <1>1, <1>2, <1>3, <1>5, MatrixIsCurrent DEF Copying
<1>7. /\ scratch'[t] = new /\ todo'[t] = todo[t] \ {part}
      /\ \A s \in Task \ {t} : scratch'[s] = scratch[s] /\ todo'[s] = todo[s]
  BY <1>2 DEF TypeOK
<1>8. /\ st'[t] \in {"copying", "copied"} /\ (st'[t] = "copied" => todo[t] \ {part} = {})
      /\ \A s \in Task \ {t} : st'[s] = st[s]
      /\ st' \in [Task -> States]
  BY <1>2 DEF TypeOK, States, Past
<1>9. TypeOK'
  BY <1>1, <1>2, <1>3, <1>5, <1>6, <1>7, <1>8 DEF TypeOK, Past, After, Waiting, States, Kept
<1>10. Ordering'
  BY <1>1, <1>2, <1>3, <1>5, <1>6, <1>7, <1>8 DEF TypeOK, Ordering, Kept
<1>11. Regions'
  BY <1>1, <1>2, <1>3, <1>5, <1>6, <1>7, <1>8 DEF TypeOK, Regions, Past, After, Waiting, States, Kept
<1>12. Data'
  BY <1>1, <1>2, <1>3, <1>5, <1>6, <1>7, <1>8 DEF TypeOK, Data, HasWritten, Kept
<1>13. Results'
  BY <1>1, <1>2, <1>3, <1>5, <1>6, <1>7, <1>8 DEF TypeOK, Results, Past, After, Kept
<1>14. Copying'
  BY <1>1, <1>2, <1>3, <1>5, <1>6, <1>7, <1>8 DEF TypeOK, Copying, Kept
<1> QED BY <1>9, <1>10, <1>11, <1>12, <1>13, <1>14

\* The rule is applied to the matrix itself.
LEMMA AppliedInPlace ==
  ASSUME IInv, NEW t \in Task, Apply(t), UsesInPlace(t)
  PROVE  IInv'
<1> USE DEF IInv
<1>1. Kept
  BY Setting DEF Apply
<1>2. /\ data' = Written(t, data) /\ st' = [st EXCEPT ![t] = "written"] /\ st[t] = "copied"
      /\ scratch' = scratch /\ todo' = todo /\ at' = at
  BY DEF Apply
<1>3. /\ st'[t] = "written" /\ \A s \in Task \ {t} : st'[s] = st[s]
      /\ st' \in [Task -> States]
  BY <1>2 DEF TypeOK, States, Past, After
<1>4. /\ data' \in [Cells -> Nat]
      /\ \A c \in tasks[t].to : data'[c] = t
      /\ \A c \in Cells \ tasks[t].to : data'[c] = data[c]
  BY <1>1, <1>2 DEF TypeOK, Written, Kept
<1>5. ASSUME NEW c \in tasks[t].to, NEW s \in Task, HasWritten(s, c)
      PROVE  s <= t
  BY <1>1, <1>2, <1>5, Apart DEF HasWritten, Kept
<1>6. \A s \in Task \ {t} : \A c : HasWritten(s, c)' <=> HasWritten(s, c)
  BY <1>1, <1>2, <1>3 DEF HasWritten, Kept
<1>7. \A c \in Cells : /\ HasWritten(t, c)' <=> c \in tasks[t].to
                       /\ ~HasWritten(t, c)
  BY <1>1, <1>2, <1>3 DEF HasWritten, Kept
<1>8. TypeOK'
  BY <1>1, <1>2, <1>3, <1>4 DEF TypeOK, Past, After, Waiting, States, Kept
<1>9. Ordering'
  BY <1>1, <1>2, <1>3, <1>4 DEF TypeOK, Ordering, Kept
<1>10. Regions'
  BY <1>1, <1>2, <1>3, <1>4 DEF TypeOK, Regions, Past, After, Waiting, States, Kept
<1>11. Data'
  BY <1>1, <1>4, <1>5, <1>6, <1>7 DEF Data, Kept
<1>12. Results'
  BY <1>1, <1>2, <1>3, <1>4 DEF TypeOK, Results, Past, After, Kept
<1>13. Copying'
  BY <1>1, <1>2, <1>3, <1>4 DEF TypeOK, Copying, Kept
<1> QED BY <1>8, <1>9, <1>10, <1>11, <1>12, <1>13

\* The rule is applied to the scratch region.
LEMMA Applied ==
  ASSUME IInv, NEW t \in Task, Apply(t), ~UsesInPlace(t)
  PROVE  IInv'
<1> USE DEF IInv
<1>1. Kept
  BY Setting DEF Apply
<1>2. /\ scratch' = [scratch EXCEPT ![t] = Written(t, scratch[t])]
      /\ todo' = [todo EXCEPT ![t] = PartsOf(tasks[t].to)]
      /\ st' = [st EXCEPT ![t] = IF tasks[t].to = {} THEN "written" ELSE "writing"]
      /\ data' = data /\ st[t] = "copied" /\ at' = at
      /\ DOMAIN scratch[t] = Box(t)
  BY DEF Apply, Regions, Past
<1>3. /\ st'[t] \in {"written", "writing"} /\ (tasks[t].to # {} => st'[t] = "writing")
      /\ \A s \in Task \ {t} : st'[s] = st[s] /\ todo'[s] = todo[s]
      /\ todo'[t] = PartsOf(tasks[t].to) /\ DOMAIN todo' = Task
      /\ st' \in [Task -> States]
  BY <1>2 DEF TypeOK, States, Past, After
<1>4. /\ DOMAIN scratch' = Task /\ DOMAIN scratch'[t] = DOMAIN scratch[t]
      /\ \A c \in tasks[t].to : scratch'[t][c] = t
      /\ \A s \in Task \ {t} : scratch'[s] = scratch[s]
  BY <1>1, <1>2 DEF TypeOK, Written, Kept
<1>5. \A s \in Task : \A c : HasWritten(s, c)' <=> HasWritten(s, c)
  BY <1>1, <1>2, <1>3 DEF HasWritten, PartsOf, Kept
<1>6. TypeOK'
  BY <1>1, <1>2, <1>3, <1>4 DEF TypeOK, Past, After, Waiting, States, Kept
<1>7. Ordering'
  BY <1>1, <1>2, <1>3, <1>4 DEF TypeOK, Ordering, Kept
<1>8. Regions'
  BY <1>1, <1>2, <1>3, <1>4 DEF TypeOK, Regions, Past, After, Waiting, States, Kept
<1>9. Data'
  BY <1>1, <1>2, <1>5 DEF Data, Kept
<1>10. Results'
  BY <1>1, <1>2, <1>3, <1>4 DEF TypeOK, Results, Past, After, Kept
<1>11. Copying'
  BY <1>1, <1>2, <1>3, <1>4 DEF TypeOK, Copying, Kept
<1> QED BY <1>6, <1>7, <1>8, <1>9, <1>10, <1>11

\* One part of what the task has written is copied back.
LEMMA PartWritten ==
  ASSUME IInv, NEW t \in Task, WritePart(t)
  PROVE  IInv'
<1> USE DEF IInv
<1>1. Kept
  BY Setting DEF WritePart
<1> DEFINE part == First(todo[t])
           f == [c \in Piece(tasks[t].to, part) |-> scratch[t][c]]
<1>2. /\ data' = Over(f, data) /\ todo' = [todo EXCEPT ![t] = @ \ {part}]
      /\ st' = [st EXCEPT ![t] = IF todo[t] = {part} THEN "written" ELSE @]
      /\ scratch' = scratch /\ st[t] = "writing" /\ at' = at
  BY DEF WritePart
<1> HIDE DEF part
<1>3. DOMAIN f = {c \in tasks[t].to : PartOf(c) = part} /\ \A c \in DOMAIN f : f[c] = t
  BY <1>2 DEF Piece, Results
<1> HIDE DEF f
<1>4. /\ st'[t] \in {"written", "writing"} /\ (st'[t] = "written" => todo[t] = {part})
      /\ \A s \in Task \ {t} : st'[s] = st[s] /\ todo'[s] = todo[s]
      /\ todo'[t] = todo[t] \ {part} /\ DOMAIN todo' = Task
      /\ st' \in [Task -> States]
  BY <1>2 DEF TypeOK, States, Past, After
<1>5. /\ data' \in [Cells -> Nat]
      /\ \A c \in tasks[t].to : PartOf(c) = part => data'[c] = t
      /\ \A c \in Cells : c \notin tasks[t].to \/ PartOf(c) # part => data'[c] = data[c]
  BY <1>1, <1>2, <1>3 DEF TypeOK, Over, Kept
<1>6. ASSUME NEW c \in tasks[t].to, NEW s \in Task, HasWritten(s, c)
      PROVE  s <= t
  BY <1>1, <1>2, <1>6, Apart DEF HasWritten, Kept
<1>7. \A s \in Task \ {t} : \A c : HasWritten(s, c)' <=> HasWritten(s, c)
  BY <1>1, <1>2, <1>4 DEF HasWritten, Kept
<1>8. \A c \in Cells : HasWritten(t, c)' <=>
        HasWritten(t, c) \/ (c \in tasks[t].to /\ PartOf(c) = part)
  BY <1>1, <1>2, <1>4 DEF HasWritten, Kept
<1>9. TypeOK'
  BY <1>1, <1>2, <1>4, <1>5 DEF TypeOK, Kept
<1>10. Ordering'
  BY <1>1, <1>2, <1>4 DEF TypeOK, Ordering, Kept
<1>11. Regions'
  BY <1>1, <1>2, <1>4 DEF TypeOK, Regions, Past, After, Waiting, States, Kept
<1>12. Data'
  BY <1>1, <1>5, <1>6, <1>7, <1>8 DEF Data, Kept
<1>13. Results'
  BY <1>1, <1>2, <1>4 DEF TypeOK, Results, Past, After, Kept
<1>14. Copying'
  BY <1>1, <1>2, <1>4 DEF TypeOK, Copying, Kept
<1> QED BY <1>9, <1>10, <1>11, <1>12, <1>13, <1>14

LEMMA Preserved == IInv /\ [Next]_vars => IInv'
<1> SUFFICES ASSUME IInv, [Next]_vars PROVE IInv'
  OBVIOUS
<1>1. ASSUME UNCHANGED vars PROVE IInv'
  <2>1. Kept
    BY <1>1, Setting DEF vars, program
  <2> QED BY <1>1, <2>1 DEF Kept, vars, IInv, TypeOK, Ordering, Regions, Data, HasWritten,
       Results, Copying
<1>2. ASSUME NEW t \in Task, Step(t) PROVE IInv'
  <2>1. CASE Schedule(t)
    BY <2>1, Scheduled
  <2>2. CASE Receive(t)
    BY <2>2, Received
  <2>3. CASE LocalCopy(t)
    BY <2>3, UsedInPlace, ToBeCopied
  <2>4. CASE CopyPart(t)
    BY <2>4, PartCopied
  <2>5. CASE Apply(t)
    BY <2>5, AppliedInPlace, Applied
  <2>6. CASE WritePart(t)
    BY <2>6, PartWritten
  <2>7. CASE Finish(t)
    BY <2>7, Finished
  <2>8. CASE Completed(t)
    BY <2>8, Reported
  <2> QED BY <1>2, <2>1, <2>2, <2>3, <2>4, <2>5, <2>6, <2>7, <2>8 DEF Step
<1> QED BY <1>1, <1>2 DEF Next, Stop

\* The invariant holds of every program, layout and number of hosts.
THEOREM Invariance == Spec => []IInv
  BY Initially, Preserved, PTL DEF Spec

-----------------------------------------------------------------------------
(* What follows from it.                                                    *)

\* A task that has copied its box, or computes in place, has before it exactly
\* the last write before it to each cell it reads, whichever hosts made it
\* (copyToScratchMatrixStorage, part by part, while other tasks copy back).
THEOREM SeesItsDependencies == Spec => []SeesWhatItDependsOn
<1>1. IInv => SeesWhatItDependsOn
  <2> SUFFICES ASSUME IInv, NEW t \in Task, st[t] = "copied", NEW c \in tasks[t].reads
               PROVE  Value(t, c) = LastWriter(t, c)
    BY DEF SeesWhatItDependsOn
  <2>1. CASE UsesInPlace(t)
    <3>1. data[c] = LastWriter(t, c)
      BY MatrixIsCurrent DEF IInv
    <3> QED BY <2>1, <3>1 DEF Value
  <2>2. CASE ~UsesInPlace(t)
    <3>1. c \in DOMAIN scratch[t]
      BY <2>2, Boxed DEF IInv, TypeOK, Regions, Past
    <3> QED BY <2>2, <3>1 DEF IInv, Copying, Value
  <2> QED BY <2>1, <2>2
<1> QED BY <1>1, Invariance, PTL

\* When all tasks are complete the matrix has in each cell what the last task
\* wrote to it, whatever boxes and parts they shared (copyFromScratchMatrixStorage).
THEOREM LosesNothing == Spec => []NothingLost
<1>1. IInv => NothingLost
  <2> SUFFICES ASSUME IInv, Done, NEW c \in Cells
               PROVE  data[c] = LastWriter(Len(tasks) + 1, c)
    BY DEF NothingLost
  <2> DEFINE w == LastWriter(Len(tasks) + 1, c)
  <2>1. /\ Len(tasks) \in Nat /\ Task = 1 .. Len(tasks) /\ data[c] \in Nat /\ w \in Nat
        /\ w # 0 => w \in Task /\ c \in tasks[w].to
        /\ \A s \in Task : c \in tasks[s].to => s <= w
    <3>1. tasks \in Programs /\ data[c] \in Nat
      BY DEF IInv, TypeOK
    <3>2. Len(tasks) \in Nat /\ Task = 1 .. Len(tasks)
      BY <3>1, Programmed
    <3>3. /\ w \in Nat /\ (w # 0 => w \in Task /\ c \in tasks[w].to)
          /\ \A s \in Task : s < Len(tasks) + 1 /\ c \in tasks[s].to => s <= w
      BY <3>1, LastWriterIs
    <3> HIDE DEF w
    <3> QED BY <3>1, <3>2, <3>3
  <2> HIDE DEF w
  <2>2. w # 0 => w <= data[c]
    BY <2>1 DEF IInv, Data, HasWritten, Done
  <2>3. data[c] # 0 => data[c] <= w
    BY <2>1 DEF IInv, Data, HasWritten
  <2>4. data[c] = w
    BY <2>1, <2>2, <2>3
  <2> QED BY <2>4 DEF w
<1> QED BY <1>1, Invariance, PTL

=============================================================================

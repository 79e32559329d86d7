--------------------------- MODULE GeneratedCode ---------------------------
(***************************************************************************)
(* The workstealing code of a transform, as Schedule::generateCode and the *)
(* nodes of the schedule write it (scheduler.cpp, choicedepgraph.cpp,      *)
(* userrule.cpp): the static scheduler makes the schedule, and then its    *)
(* tasks run.  A node that is not sliced is one task, or one for each part *)
(* of its region; a sliced block is a chain of tasks.  The sequential code *)
(* is the run that takes the tasks in the order of the schedule, and a     *)
(* part that is large enough to be split once more is split in the same    *)
(* way.                                                                    *)
(***************************************************************************)
EXTENDS StaticScheduler

VARIABLE ran  \* the tasks that have run: [block, node, part]

codeVars == <<graph, choice, phase, remapped, indirect, sliced, schedule, stack, ran>>

CellsOf(region) ==
  {c \in [1..Dims -> UNION {region.min[d]..(region.max[d] - 1) : d \in 1..Dims}] :
     \A d \in 1..Dims : region.min[d] <= c[d] /\ c[d] < region.max[d]}
Cells(n) == CellsOf(nodes[n])
Size(n)  == [d \in 1..Dims |-> nodes[n].max[d] - nodes[n].min[d]]

(* UserRule::getSelfDependency *)
getSelfDependency(r) ==
  [d \in 1..Dims |-> UNION {rules[r].direction[m][d] : m \in rules[r].to \cap DOMAIN rules[r].from}]

-----------------------------------------------------------------------------
(* The part of a task is its number in the split, a slice, or nothing.     *)
SliceTasks(b) ==
  LET region == nodes[CHOOSE n \in b : TRUE]
  IN  [block : {b}, node : b, part : {<<i>> : i \in region.min[sliced[b].dim]..(region.max[sliced[b].dim] - 1)}]

RuleTasks(b) ==
  LET n == CHOOSE n \in b : TRUE
  IN  [block : {b}, node : {n},
       part : IF split_condition(Size(n)) THEN fillSplitRegionList ELSE {<<>>}]

Tasks(b) == IF b \in DOMAIN sliced THEN SliceTasks(b) ELSE RuleTasks(b)

InPart(n, part, c) ==
  \A d \in 1..Dims : /\ PartBegin(Size(n), part, d) <= c[d] - nodes[n].min[d]
                     /\ c[d] - nodes[n].min[d] < PartEnd(Size(n), part, d)

Computes(t) ==  \* the cells that a task computes, each with its matrix
  IF t.block \in DOMAIN sliced
  THEN {nodes[t.node].matrix} \X {c \in Cells(t.node) : c[sliced[t.block].dim] = t.part[1]}
  ELSE {nodes[n].matrix : n \in t.block}
         \X {c \in Cells(t.node) : t.part = <<>> \/ InPart(t.node, t.part, c)}

(* A slice waits for the one created before it, and with that for all of   *)
(* them.                                                                   *)
SliceDepends(t) ==
  LET s == sliced[t.block]
  IN  {u \in Tasks(t.block) :
         \/ u.part = t.part /\ s.addr[u.node] < s.addr[t.node]
         \/ IF s.forward THEN u.part[1] < t.part[1] ELSE u.part[1] > t.part[1]}

dependsOn(t) ==
  UNION {Tasks(b) : b \in OtherDepends(t.block) \ InputBlocks}
    \cup IF t.block \in DOMAIN sliced THEN SliceDepends(t)
         ELSE IF t.part = <<>> THEN {}
         ELSE {[t EXCEPT !.part = p] : p \in SplitDepends(getSelfDependency(choice[t.node]), t.part)}

-----------------------------------------------------------------------------
CodeInit == Init /\ ran = {}

Compile == Next /\ UNCHANGED ran

RunTask ==
  /\ phase = "done"
  /\ \E b \in Entries(schedule) : \E t \in Tasks(b) \ ran :
       /\ dependsOn(t) \subseteq ran
       /\ ran' = ran \cup {t}
  /\ UNCHANGED vars

CodeNext == Compile \/ RunTask

CodeSpec == CodeInit /\ [][CodeNext]_codeVars

-----------------------------------------------------------------------------
Computed(ts) == UNION {Computes(t) : t \in ts}

(* The cells of computed matrices that the rule r reads for the cell c.     *)
Needs(r, c) ==
  UNION {{m} \X {x \in CellsOf(WholeMatrix(prog, m)) :
                   \E box \in rules[r].from[m] :
                     \A d \in 1..Dims : c[d] + box[d][1] <= x[d] /\ x[d] < c[d] + box[d][2]}
           : m \in DOMAIN rules[r].from \ prog.inputs}

(* A task starts when every cell that it reads has been computed, by a task *)
(* that it waited for or, in its own region, earlier in its own loops.      *)
CellsInOrder ==
  [][\A t \in ran' \ ran : \A p \in Computes(t) :
       LET r == choice[t.node]
       IN  \A q \in Needs(r, p[2]) \ Computed(ran) :
             q \in Computes(t) /\ Before(getSelfDependency(r), q[2], p[2])]_codeVars

(* No cell is computed by two tasks, none by a rule that does not apply to  *)
(* it, and the tasks of a schedule together compute every cell of its       *)
(* regions and every cell of an output to which a rule applies.  (A cell    *)
(* without a rule has no schedule, or is left out if no rule has one behind *)
(* it: ChoiceGrid::constructFrom ends with the last boundary.)              *)
EachCellOnce ==
  phase = "done" =>
    /\ \A t, u \in ran : t # u => Computes(t) \cap Computes(u) = {}
    /\ \A t \in ran : \A p \in Computes(t) : \A d \in 1..Dims :
         LET applies == rules[choice[t.node]].applicable
         IN  applies.min[d] <= p[2][d] /\ p[2][d] < applies.max[d]
    /\ \A b \in Entries(schedule) :
         Tasks(b) \subseteq ran =>
           UNION {{nodes[n].matrix} \X Cells(n) : n \in b} \subseteq Computed(ran)
    /\ UNION {Tasks(b) : b \in Entries(schedule)} \subseteq ran =>
         \A r \in DOMAIN rules :
           (rules[r].to \cap prog.outputs) \X CellsOf(rules[r].applicable) \subseteq Computed(ran)
=============================================================================

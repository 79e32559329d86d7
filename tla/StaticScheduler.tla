-------------------------- MODULE StaticScheduler --------------------------
(***************************************************************************)
(* The static scheduler of the compiler (src/compiler/scheduler.cpp,       *)
(* choicedepgraph.cpp, rulechoice.cpp): from the rules of a transform and  *)
(* one choice of a rule per region it makes the order in which the         *)
(* generated code creates its tasks, or finds that this choice has none.   *)
(*                                                                         *)
(* A node is a region of a matrix (ChoiceGrid); a dependency between nodes *)
(* has, for each dimension, the set of the directions in which the cells   *)
(* needed lie from the cell computed.  After merging, a node of the        *)
(* schedule is a block: the set of the nodes it computes.  Sets of nodes   *)
(* are ordered by address, and every order is possible.                    *)
(***************************************************************************)
EXTENDS ChoiceGrid

CONSTANTS Programs,    \* the transforms that Init chooses from
          Addresses    \* the orders of the nodes in memory

VARIABLES prog,      \* the transform
          rules,     \* its rules, initialized
          nodes,     \* _allNodes: a sequence of regions
          edges,     \* for each rule, the dependencies that it adds
          choice,    \* the rule chosen for each node that has one
          phase,
          remapped,  \* _directDependsRemapped of each node, later of each block
          indirect,  \* _indirectDepends, likewise
          sliced,    \* the sliced blocks: block -> [dim, forward, addr]
          schedule,  \* Seq of blocks
          stack      \* the calls of depthFirstChoiceDepGraphNode under way

graph == <<prog, rules, nodes, edges>>
vars == <<graph, choice, phase, remapped, indirect, sliced, schedule, stack>>

-----------------------------------------------------------------------------
(* ScheduleDependencies: a function from nodes to merged directions.       *)

isMultioutput(x)   == \E d \in 1..Dims : "multi" \in x[d]

MergeAll(fs) ==
  [m \in UNION {DOMAIN f : f \in fs} |->
     [d \in 1..Dims |-> UNION {f[m][d] : f \in {g \in fs : m \in DOMAIN g}}]]

(* The keys are replaced in the order of their addresses: where several    *)
(* fall together, the information of the last overwrites the others'.      *)
ApplyRemapping(f, block, addr) ==
  [b \in {block[m] : m \in DOMAIN f} |->
     f[CHOOSE m \in DOMAIN f \cap b : \A k \in DOMAIN f \cap b : addr[k] <= addr[m]]]

-----------------------------------------------------------------------------
(* The graph of a program.                                                  *)

Nodes    == DOMAIN nodes
Inputs   == {n \in Nodes : nodes[n].matrix \in prog.inputs}
Outputs  == {n \in Nodes : nodes[n].matrix \in prog.outputs}
AllNodes == [n \in Nodes |-> n]

choices(n) == nodes[n].choices

(* Also rules that are no choice of a node, as a rule of higher priority    *)
(* applies there, add edges to it.                                         *)
EdgesOf(r, n) == IF n \in DOMAIN edges[r] THEN edges[r][n] ELSE << >>

directDependsOriginal == [n \in Nodes |-> MergeAll({EdgesOf(r, n) : r \in DOMAIN rules})]

(* The edges of the chosen rule; they carry the directions of every rule   *)
(* that makes the same edge.                                               *)
trimDependency(r, x) ==
  IF Cardinality(rules[r].to) <= 1 THEN [d \in 1..Dims |-> x[d] \ {"multi"}] ELSE x

ApplyChoice(c) ==
  [n \in Nodes |->
     IF n \in Inputs THEN << >>
     ELSE [m \in DOMAIN EdgesOf(c[n], n) |-> trimDependency(c[n], directDependsOriginal[n][m])]]

directDepends(n) ==
  IF DOMAIN remapped[n] = {} THEN directDependsOriginal[n] ELSE remapped[n]

(* Choice sites with the same set of rules are combined.                   *)
Assignments ==
  {c \in [Nodes \ Inputs -> DOMAIN rules] :
     /\ \A n \in DOMAIN c : c[n] \in choices(n)
     /\ \A n, m \in DOMAIN c : choices(n) = choices(m) => c[n] = c[m]}
-----------------------------------------------------------------------------
Init ==
  /\ prog \in Programs
  /\ rules = << >> /\ nodes = << >> /\ edges = << >>
  /\ choice = << >> /\ phase = "initialize"
  /\ remapped = << >> /\ indirect = << >>
  /\ sliced = << >> /\ schedule = << >> /\ stack = << >>

(* Transform::initialize and compile.  Every cell must have a rule.         *)
InitializeRules ==
  /\ phase = "initialize"
  /\ rules' = [r \in DOMAIN prog.rules |-> initialize(prog, prog.rules[r])]
  /\ phase' = "grid"
  /\ UNCHANGED <<prog, nodes, edges, choice, remapped, indirect, sliced, schedule, stack>>

FillBaseCases ==
  /\ phase = "grid"
  /\ nodes' = AllRegions(prog, rules)
  /\ phase' = "collect"
  /\ UNCHANGED <<prog, rules, edges, choice, remapped, indirect, sliced, schedule, stack>>

CollectDependencies ==
  /\ phase = "collect"
  /\ edges' = [r \in DOMAIN rules |-> collectDependencies(rules[r], nodes)]
  /\ phase' = IF \A r \in DOMAIN rules : RuleFound(rules[r], nodes) THEN "choose" ELSE "norule"
  /\ UNCHANGED <<prog, rules, nodes, choice, remapped, indirect, sliced, schedule, stack>>

ChooseRules ==
  /\ phase = "choose"
  /\ choice' \in Assignments
  /\ remapped' = ApplyChoice(choice')
  /\ indirect' = [n \in Nodes |-> << >>]
  /\ phase' = "indirect"
  /\ UNCHANGED <<graph, sliced, schedule, stack>>

(* One round of updateIndirectDepends, over the nodes in any order.  The   *)
(* rounds end with one that changes nothing, so that only the fixpoint     *)
(* matters, and a round may use the values of the last one throughout.     *)
UpdateIndirect ==
  LET seed(n) == IF DOMAIN indirect[n] = {} THEN directDepends(n) ELSE indirect[n]
  IN  /\ phase = "indirect"
      /\ indirect' = [n \in Nodes |->
                        MergeAll({seed(n)} \cup {indirect[m] : m \in DOMAIN seed(n)})]
      /\ phase' = IF indirect' = indirect THEN "merge" ELSE phase
      /\ UNCHANGED <<graph, choice, remapped, sliced, schedule, stack>>

-----------------------------------------------------------------------------
(* mergeCoscheduledNodes                                                    *)

\* Faulty: only the nodes that depend on each other directly.
MutualDepends(n) ==
  {n} \cup {m \in DOMAIN directDepends(n) : n \in DOMAIN directDepends(m)}

getStronglyConnectedComponent(n) ==
  {n} \cup IF n \in DOMAIN indirect[n]
           THEN {m \in DOMAIN indirect[n] : n \in DOMAIN indirect[m]}
           ELSE {}

getMultioutputComponent(n) ==
  {n} \cup {m \in DOMAIN directDepends(n) : isMultioutput(directDepends(n)[m])}

(* One connected component at a time.                                      *)
Coschedule(acc, n) ==
  LET mo  == getMultioutputComponent(n)
      scc == getStronglyConnectedComponent(n)
  IN  IF n \in acc.done THEN acc
      ELSE IF Cardinality(mo) > 1
      THEN [acc EXCEPT !.done = @ \cup mo, !.multi = @ \cup {mo},
                       !.legal = @ /\ mo \cap acc.done = {} /\ mo = scc]
      ELSE [acc EXCEPT !.done = @ \cup scc,
                       !.slices = @ \cup IF Cardinality(scc) > 1 THEN {scc} ELSE {}]

Components == FoldLeft(Coschedule, [done |-> {}, multi |-> {}, slices |-> {}, legal |-> TRUE], AllNodes)

(* SlicedChoiceDepGraphNode::findValidSchedule: the dimension is the last  *)
(* one in which the extents match and every direction of the merged        *)
(* dependency of the block on itself is the same strict one.               *)
SliceDims(b, self) ==
  {d \in 1..Dims : /\ \A n, m \in b : /\ nodes[n].min[d] = nodes[m].min[d]
                                        /\ nodes[n].max[d] = nodes[m].max[d]
                   /\ self[d] \subseteq {"<"} \/ self[d] \subseteq {">"}}
(* Within a slice the nodes of the block are computed by address.          *)
findValidSchedule(b, self, addr) ==
  LET d == CHOOSE d \in SliceDims(b, self) : \A e \in SliceDims(b, self) : e <= d
  IN  [dim |-> d, forward |-> self[d] \subseteq {"<"}, addr |-> addr]

(* What a block inherits from its nodes before the keys are replaced.      *)
BlockDepends(b) ==
  LET chosen == MergeAll({remapped[n] : n \in b})
  IN  IF DOMAIN chosen = {} THEN MergeAll({directDependsOriginal[n] : n \in b}) ELSE chosen

Merge ==
  LET comps  == Components
      metas  == comps.multi \cup comps.slices
      block  == [n \in Nodes |-> IF \E b \in metas : n \in b
                                 THEN CHOOSE b \in metas : n \in b ELSE {n}]
      blocks == {block[n] : n \in Nodes}
  IN
  /\ phase = "merge"
  /\ \/ /\ ~ comps.legal
        /\ phase' = "cant" /\ UNCHANGED <<remapped, indirect, sliced>>
     \/ /\ comps.legal
        /\ \E addr \in Addresses :
             LET self(b) == ApplyRemapping(MergeAll({indirect[n] : n \in b}), block, addr)[b]
                 valid   == /\ \A b \in comps.multi : \A n, m \in b : choice[n] = choice[m]
                            /\ \A b \in comps.slices : SliceDims(b, self(b)) # {}
             IN  /\ remapped' = [b \in blocks |-> ApplyRemapping(BlockDepends(b), block, addr)]
                 /\ phase' = IF valid THEN "schedule" ELSE "cant"
                 /\ sliced' = IF valid THEN [b \in comps.slices |-> findValidSchedule(b, self(b), addr)]
                                       ELSE sliced
        /\ indirect' = << >>  \* not read any more
  /\ UNCHANGED <<graph, choice, schedule, stack>>

-----------------------------------------------------------------------------
(* Schedule::initialize and depthFirstChoiceDepGraphNode.                   *)

Entries(s)      == {s[i] : i \in 1..Len(s)}
InputBlocks    == {b \in DOMAIN remapped : b \cap Inputs # {}}
OutputBlocks   == {b \in DOMAIN remapped : b \cap Outputs # {}}
generated      == InputBlocks \cup Entries(schedule)
OtherDepends(b) == DOMAIN remapped[b] \ {b}

Visit(b) ==
  /\ stack' = Append(stack, b)
  /\ phase' = IF b \in Entries(stack) THEN "cycle" ELSE phase
  /\ UNCHANGED <<graph, choice, remapped, indirect, sliced, schedule>>

VisitOutput ==
  /\ phase = "schedule" /\ stack = << >>
  /\ \E b \in OutputBlocks \ generated : Visit(b)

VisitDependency ==
  /\ phase = "schedule" /\ stack # << >>
  /\ \E b \in OtherDepends(stack[Len(stack)]) \ generated : Visit(b)

PushEntry ==
  /\ phase = "schedule" /\ stack # << >>
  /\ OtherDepends(stack[Len(stack)]) \subseteq generated
  /\ schedule' = Append(schedule, stack[Len(stack)])
  /\ stack' = SubSeq(stack, 1, Len(stack) - 1)
  /\ UNCHANGED <<graph, choice, phase, remapped, indirect, sliced>>

(* A node that the outputs do not need counts only with its first rule.    *)
(* The choices of a merged block are an empty set, whose begin() happens   *)
(* to read as the null rule that the assignment has for the block.         *)
FirstRule(n) == CHOOSE r \in choices(n) : \A q \in choices(n) : r <= q

Finish ==
  /\ phase = "schedule" /\ stack = << >> /\ OutputBlocks \subseteq generated
  /\ phase' = IF \E n \in Nodes \ (Inputs \cup Outputs) :
                    {n} \in DOMAIN remapped \ generated /\ choice[n] # FirstRule(n)
              THEN "cant" ELSE "done"
  /\ UNCHANGED <<graph, choice, remapped, indirect, sliced, schedule, stack>>

Next == \/ InitializeRules \/ FillBaseCases \/ CollectDependencies
        \/ ChooseRules \/ UpdateIndirect \/ Merge
        \/ VisitOutput \/ VisitDependency \/ PushEntry \/ Finish

Spec == Init /\ [][Next]_vars

-----------------------------------------------------------------------------
(* The JASSERT of depthFirstChoiceDepGraphNode ("dependency cycle") holds   *)
(* once the strongly connected components are merged, also along the edges  *)
(* of rules that were not chosen, which a node without any edge of its own  *)
(* falls back to.  A schedule that is accepted creates every block at most  *)
(* once and every output; what the chosen rule of a node needs from another *)
(* block is created earlier and is a dependency of its task, so that it is  *)
(* computed first by the sequential and by the workstealing code; and the   *)
(* final task of the transform, which depends on the outputs only, follows  *)
(* all of it.                                                               *)
ScheduleInOrder ==
  /\ phase # "cycle"
  /\ phase = "done" =>
    LET at(b)    == CHOOSE i \in 1..Len(schedule) : schedule[i] = b
        blockOf(n) == CHOOSE b \in DOMAIN remapped : n \in b
        awaited == {b \in Entries(schedule) :
                      \/ b \in OutputBlocks
                      \/ \E c \in Entries(schedule) \ {b} : b \in DOMAIN remapped[c]}
    IN  /\ \A i, j \in 1..Len(schedule) : schedule[i] = schedule[j] => i = j
        /\ OutputBlocks \subseteq awaited
        /\ Entries(schedule) = awaited
        /\ \A b \in Entries(schedule) : \A n \in b :
             \A m \in DOMAIN EdgesOf(choice[n], n) \ (b \cup Inputs) :
               /\ blockOf(m) \in DOMAIN remapped[b] \cap Entries(schedule)
               /\ at(blockOf(m)) < at(b)
=============================================================================

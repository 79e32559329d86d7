----------------------------- MODULE ChoiceGrid -----------------------------
(***************************************************************************)
(* From the rules of a transform to the graph that is scheduled: where a   *)
(* rule applies (src/compiler/userrule.cpp, region.cpp), the grid of the   *)
(* regions of a matrix with the rules of each (choicegrid.cpp,             *)
(* transform.cpp), and the dependencies that a rule adds between regions.  *)
(*                                                                         *)
(* A transform is [size, inputs, outputs, rules]: the sizes of its         *)
(* matrices, the input and the output ones, and rules                      *)
(* [to, from, optional, priority, where].  A rule computes one cell of     *)
(* each matrix in to; from gives, for a matrix, the boxes that it reads,   *)
(* relative to that cell; the boxes of the matrices in optional may lie    *)
(* outside.  A where clause compares one coordinate of the cell with a     *)
(* number: it is [dim, at, sign], sign the signs that their difference may *)
(* have.                                                                   *)
(***************************************************************************)
EXTENDS IterationOrders, Sequences, SequencesExt

Own  == [d \in 1..Dims |-> <<0, 1>>]
None == [d \in 1..Dims |-> {}]
Multi == [d \in 1..Dims |-> {"multi"}]

addDirection(x, y) == [d \in 1..Dims |-> x[d] \cup y[d]]

intersect(rs) == [min |-> [d \in 1..Dims |-> Max({r.min[d] : r \in rs})],
                  max |-> [d \in 1..Dims |-> Min({r.max[d] : r \in rs})]]

hasIntersect(a, b) == \A d \in 1..Dims : a.min[d] < b.max[d] /\ b.min[d] < a.max[d]

-----------------------------------------------------------------------------
(* The cells whose box lies inside of the matrix.                          *)
getApplicableRegion(size, box) ==
  [min |-> [d \in 1..Dims |-> 0 - box[d][1]], max |-> [d \in 1..Dims |-> size[d] - box[d][2] + 1]]

applicableRegion(t, r) ==
  intersect({getApplicableRegion(t.size[m], Own) : m \in r.to}
            \cup UNION {{getApplicableRegion(t.size[m], box) : box \in r.from[m]}
                          : m \in DOMAIN r.from \ r.optional})

(* The region that a where clause leaves: it has no cell below at if the    *)
(* difference cannot be negative, none above if it cannot be positive.      *)
NotBelow(w) == IF 0 \in w.sign THEN w.at ELSE w.at + 1
NotAbove(w) == IF 0 \in w.sign THEN w.at + 1 ELSE w.at

restrict(region, where) ==
  [min |-> [d \in 1..Dims |-> Max({region.min[d]} \cup
              {NotBelow(w) : w \in {w \in where : w.dim = d /\ -1 \notin w.sign}})],
   max |-> [d \in 1..Dims |-> Min({region.max[d]} \cup
              {NotAbove(w) : w \in {w \in where : w.dim = d /\ 1 \notin w.sign}})]]

(* RuleInterface::initialize: where a rule applies, and for each matrix     *)
(* that it reads the region read there (the union of its boxes) and the     *)
(* merged directions.                                                      *)
initialize(t, r) ==
  LET applies == restrict(applicableRegion(t, r), r.where)
  IN  [to |-> r.to, from |-> r.from, priority |-> r.priority, applicable |-> applies,
       region |-> [m \in DOMAIN r.from |->
                     [min |-> [d \in 1..Dims |-> applies.min[d] + Min({box[d][1] : box \in r.from[m]})],
                      max |-> [d \in 1..Dims |-> applies.max[d] - 1 + Max({box[d][2] : box \in r.from[m]})]]],
       direction |-> [m \in DOMAIN r.from |->
                        [d \in 1..Dims |-> UNION {DirectionOf(box)[d] : box \in r.from[m]}]]]

-----------------------------------------------------------------------------
(* The boundaries of the rules cut each dimension of a matrix, also where   *)
(* the rule of a boundary is not allowed in the slice at hand.             *)
Segments(regions, d) ==
  LET at == {0} \cup UNION {{region.min[d], region.max[d]} : region \in regions}
  IN  {s \in at \X at : s[1] < s[2] /\ \A p \in at : p <= s[1] \/ s[2] <= p}

(* At one place ends come before begins, so that a rule that ends where it  *)
(* begins is never taken out again.                                        *)
isActive(region, d, s) ==
  region.min[d] <= s[1] /\ ~ (region.min[d] < region.max[d] /\ region.max[d] <= s[1])

applyRulePriorities(rules, rs) == {r \in rs : \A q \in rs : rules[r].priority <= rules[q].priority}

constructFrom(rules, m) ==
  LET allowed  == {r \in DOMAIN rules : m \in rules[r].to}
      regions  == {rules[r].applicable : r \in allowed}
      all      == UNION {Segments(regions, d) : d \in 1..Dims}
  IN  {[matrix |-> m,
        min |-> [d \in 1..Dims |-> s[d][1]], max |-> [d \in 1..Dims |-> s[d][2]],
        choices |-> applyRulePriorities(rules, {r \in allowed :
                      \A d \in 1..Dims : isActive(rules[r].applicable, d, s[d])})]
         : s \in {f \in [1..Dims -> all] : \A d \in 1..Dims : f[d] \in Segments(regions, d)}}

(* The nodes of the graph: the regions of the computed matrices, and each   *)
(* input matrix as a whole.                                                *)
WholeMatrix(t, m) == [matrix |-> m, min |-> [d \in 1..Dims |-> 0], max |-> t.size[m], choices |-> {}]

AllRegions(t, rules) ==
  FoldLeft(LAMBDA seq, m : seq \o SetToSeq(constructFrom(rules, m)), << >>, SetToSeq(DOMAIN t.size \ t.inputs))
    \o SetToSeq({WholeMatrix(t, m) : m \in t.inputs})

-----------------------------------------------------------------------------
(* The edges: between the nodes that a rule provides and those that meet    *)
(* what it reads, unless all directions lead elsewhere; and between the     *)
(* nodes of its outputs.  RuleFound is the JASSERT of lookupNode.          *)
lookupNode(nodes, m, region) ==
  {n \in DOMAIN nodes : nodes[n].matrix = m /\ hasIntersect(nodes[n], region)}

dependencyPossible(a, b, dir) ==
  \A d \in 1..Dims : /\ ~ (dir[d] \in {{">"}, {">", "="}} /\ a.min[d] >= b.max[d])
                     /\ ~ (dir[d] \in {{"<"}, {"<", "="}} /\ b.min[d] >= a.max[d])

RuleFound(rule, nodes) ==
  /\ \A m \in rule.to : lookupNode(nodes, m, rule.applicable) # {}
  /\ \A m \in DOMAIN rule.from : lookupNode(nodes, m, rule.region[m]) # {}

collectDependencies(rule, nodes) ==
  LET provided(m) == lookupNode(nodes, m, rule.applicable)
      needed(n)   == {k \in UNION {lookupNode(nodes, m, rule.region[m]) : m \in DOMAIN rule.from} :
                        dependencyPossible(nodes[n], nodes[k], rule.direction[nodes[k].matrix])}
      others(n)   == UNION {provided(m) : m \in rule.to \ {nodes[n].matrix}}
  IN  [n \in UNION {provided(m) : m \in rule.to} |->
         [k \in needed(n) \cup others(n) |->
            addDirection(IF k \in needed(n) THEN rule.direction[nodes[k].matrix] ELSE None,
                         IF k \in others(n) THEN Multi ELSE None)]]
=============================================================================

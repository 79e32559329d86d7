-------------------------- MODULE IterationOrders --------------------------
(***************************************************************************)
(* The order in which the cells of a region are computed: the directions   *)
(* of the dependencies of a rule (src/compiler/region.cpp), the loops over *)
(* the cells and the split of a region into parts that run in parallel     *)
(* (src/compiler/iterationorders.cpp).                                     *)
(*                                                                         *)
(* A rule that computes the cell c of a region reads boxes of cells; a box *)
(* is given for each dimension by an interval <<min, max>> relative to c,  *)
(* max excluded.  The formulas of the program are such constants here, so  *)
(* that every comparison has an answer.                                    *)
(***************************************************************************)
EXTENDS Naturals, Integers, FiniteSets

CONSTANTS Dims,         \* number of dimensions of every region
          BlockNumber,  \* into how many parts a dimension is split
          SplitSize     \* SPLIT_CHUNK_SIZE

ASSUME DimsAssumption == Dims \in Nat \ {0}
(* blockNumberHeur.setMin(2) *)
ASSUME BlockNumberAssumption == BlockNumber \in Nat \ {0, 1}

Way       == {"<", "=", ">", "multi"}
Direction == [1..Dims -> SUBSET Way]

(* isLeft and isRight: whether the cell is left of the end of the interval *)
(* and not left of its begin.                                              *)
determineDependencyDirection(min, max) ==
  LET isLeft  == 0 < max
      isRight == 0 >= min
  IN  (IF isLeft THEN {} ELSE {"<"}) \cup (IF isRight THEN {} ELSE {">"})
        \cup IF \/ isLeft = isRight
                \/ isLeft /\ ~ 0 < min
                \/ ~ isLeft /\ ~ 0 >= max
             THEN {"="} ELSE {}

DirectionOf(box) == [d \in 1..Dims |-> determineDependencyDirection(box[d][1], box[d][2])]

-----------------------------------------------------------------------------
(* The loops: the first dimension is the outermost one, and a dimension is *)
(* run through forward if it can be, or if it can be neither way.          *)
canIterateForward(order, d)  == ">" \notin order[d]
canIterateBackward(order, d) == "<" \notin order[d]
Forward(order, d) == canIterateForward(order, d) \/ ~ canIterateBackward(order, d)

(* The order of the loops on cells, and of SplitRegionCmp on parts.        *)
Before(order, a, b) ==
  \E d \in 1..Dims :
    /\ \A e \in 1..(d - 1) : a[e] = b[e]
    /\ IF Forward(order, d) THEN a[d] < b[d] ELSE a[d] > b[d]

-----------------------------------------------------------------------------
(* The split: a part is given by its number in each dimension; the last one *)
(* of a dimension takes what the division leaves.                          *)
split_condition(size) ==
  /\ \A d \in 1..Dims : size[d] >= BlockNumber
  /\ \E d \in 1..Dims : size[d] >= SplitSize

fillSplitRegionList == [1..Dims -> 0..(BlockNumber - 1)]

PartBegin(size, part, d) == part[d] * (size[d] \div BlockNumber)
\* Faulty: every part has the same size.
PartEndEven(size, part, d) == (part[d] + 1) * (size[d] \div BlockNumber)
PartEnd(size, part, d) ==
  IF part[d] + 1 = BlockNumber THEN size[d] ELSE (part[d] + 1) * (size[d] \div BlockNumber)

\* Faulty: the directions are those from the part waited for.
canDependOnReversed(order, a, b) ==
  \A d \in 1..Dims : \/ a[d] = b[d]
                     \/ a[d] > b[d] /\ ">" \in order[d]
                     \/ a[d] < b[d] /\ "<" \in order[d]

canDependOn(order, a, b) ==
  \A d \in 1..Dims : \/ a[d] = b[d]
                     \/ a[d] < b[d] /\ ">" \in order[d]
                     \/ a[d] > b[d] /\ "<" \in order[d]

(* The parts that part a of a GroupedDynamicTask dependsOn.                 *)
SplitDepends(order, a) ==
  {b \in fillSplitRegionList : Before(order, b, a) /\ canDependOn(order, a, b)}
=============================================================================

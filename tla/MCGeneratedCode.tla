-------------------------- MODULE MCGeneratedCode --------------------------
(* Transforms with an input 1, matrices 2 and 3 that are computed from it   *)
(* and from one another, and an output 4: some over 3 x 3 cells, whose code *)
(* matters; some over 2 x 2 cells, with more rules, whose schedule does.    *)
(* And transforms with an output matrix 2 whose border has rules of its     *)
(* own, whose grid does.                                                    *)
EXTENDS GeneratedCode, TLC

MCAddresses == {<<1, 2, 3, 4, 5, 6, 7>>, <<2, 1, 5, 4, 7, 3, 6>>, <<4, 1, 3, 2, 7, 5, 6>>}

Here   == <<0, 1>>
Behind == <<-1, 0>>
Ahead  == <<1, 2>>
Around == <<-1, 2>>

Rule(to, from, priority) == [to |-> to, from |-> from, optional |-> {}, priority |-> priority,
                             where |-> {}]

(* A program reads cells outside of matrices by default values.             *)
Optional(to, from) == [Rule(to, from, 0) EXCEPT !.optional = DOMAIN from \ {1}]

AtHere  == {<<Here, Here>>}
Square(n) == <<n, n>>

-----------------------------------------------------------------------------
(* At most one box of each of the matrices 2 and 3, and the same cell of    *)
(* the input.                                                               *)
Reads(boxes) ==
  {[m \in {1} \cup S |-> IF m = 1 THEN AtHere ELSE {f[m]}]
     : S \in SUBSET {2, 3}, f \in [{2, 3} -> boxes]}

(* The output reads one cell of each.                                       *)
Large(to, reads) ==
  [size |-> <<Square(3), Square(3), Square(3), Square(1)>>, inputs |-> {1}, outputs |-> {4},
   rules |-> Append([r \in DOMAIN to |-> Optional(to[r], reads[r])],
                    Optional({4}, (2 :> AtHere @@ 3 :> AtHere)))]

(* No cell needs itself: the reads at the same place have no cycle.         *)
HereOf(r) == {m \in DOMAIN r.from \ {1} : r.from[m] = AtHere}
Meaningful(t) ==
  LET at(m) == UNION {HereOf(t.rules[r]) : r \in {r \in DOMAIN t.rules : m \in t.rules[r].to}}
  IN  \A n \in {2, 3} : /\ n \notin at(n)
                        /\ \A m \in at(n) : n \notin at(m)
                        /\ \A r \in DOMAIN t.rules : n \in t.rules[r].to => t.rules[r].to \cap at(n) = {}

(* The reads of a transform are not in opposite directions of a dimension.  *)
LargeTransforms ==
  {t \in UNION {{Large(to, r) : r \in [DOMAIN to -> Reads({Here, i} \X {Here, j})]}
                  : to \in {<<{2}, {3}>>, <<{2, 3}>>}, i \in {Behind, Ahead}, j \in {Behind, Ahead}} :
     Meaningful(t)}

-----------------------------------------------------------------------------
(* One rule per matrix; a rule with two outputs; and that as an alternative *)
(* to a rule of its own for each.  They read the cell behind.               *)
Small(to) ==
  {[size |-> [m \in 1..4 |-> Square(2)], inputs |-> {1}, outputs |-> {4},
    rules |-> [r \in DOMAIN to |-> Optional(to[r], [m \in {1} \cup reads[r] |->
                                           IF m = 1 THEN AtHere ELSE {<<Behind, Behind>>}])]]
     : reads \in {f \in [DOMAIN to -> SUBSET {2, 3, 4}] : Len(to) = 4 => 4 \notin f[1] \cup f[2]}}

SmallTransforms == Small(<<{2}, {3}, {4}>>) \cup Small(<<{2, 3}, {4}>>) \cup Small(<<{2}, {3}, {2, 3}, {4}>>)

-----------------------------------------------------------------------------
(* A rule that reads boxes of its own matrix applies where these are inside,*)
(* and a rule that reads only the input everywhere, with the same or a      *)
(* lower priority.  A matrix 3 may be computed before it, of which both read*)
(* a cell, or after it.  A where clause may keep the rule out of a row, or  *)
(* divide the rows between the rules, with or without a row that is left.   *)
OneSided ==
  {boxes \in UNION {SUBSET (({Here, i} \X {Here, j}) \ AtHere) : i \in {Behind, Ahead}, j \in {Behind, Ahead}} :
     boxes # {}}

GridTransforms ==
  {[size |-> <<Square(3), Square(3)>>, inputs |-> {1}, outputs |-> {2},
    rules |-> <<Rule({2}, (1 :> AtHere), p), Rule({2}, (2 :> boxes), 1)>>]
     : p \in {1, 2}, boxes \in OneSided}
  \cup
  {[size |-> <<Square(3), Square(3), Square(3)>>, inputs |-> {1}, outputs |-> {3},
    rules |-> <<Rule({2}, (1 :> AtHere), p), Rule({2}, (2 :> {box}), 1),
                Rule({3}, (1 :> AtHere), p), Rule({3}, (2 :> {<<i, j>>}), 1)>>]
     : p \in {1, 2}, box \in {<<Behind, Here>>, <<Here, Ahead>>}, i \in {Here, Behind}, j \in {Here, Ahead}}

Where(d, signs, at) == [dim |-> d, at |-> at, sign |-> signs]
WhereClauses ==
  {Where(d, signs, at) : d \in 1..2, signs \in {{-1}, {-1, 0}, {0}, {0, 1}, {1}}, at \in 0..2}

WhereTransforms ==
  {[size |-> <<Square(3), Square(3)>>, inputs |-> {1}, outputs |-> {2},
    rules |-> <<[Rule({2}, (1 :> AtHere), 1) EXCEPT !.where = base],
                [Rule({2}, (2 :> {<<Behind, Here>>}), 1) EXCEPT !.where = {w}]>>]
     : base \in {{}, {Where(1, {-1, 0}, 0)}, {Where(2, {-1}, 1)}}, w \in WhereClauses}

MCPrograms == LargeTransforms \cup SmallTransforms \cup GridTransforms \cup WhereTransforms

-----------------------------------------------------------------------------
(* One rule that reads, of its own matrix, the cells around its own place   *)
(* in the row before.                                                       *)
MCStencil ==
  {Large(<<{2}, {3}>>, <<(1 :> AtHere), (2 :> AtHere @@ 3 :> {<<Around, Behind>>})>>)}

(* Each matrix reads the other, in the row before and in different columns: *)
(* only slices along the rows are in order.                                 *)
MCOpposite ==
  {Large(<<{2}, {3}>>, <<(1 :> AtHere @@ 3 :> {<<Behind, Behind>>}),
                                     (1 :> AtHere @@ 2 :> {<<Behind, Ahead>>})>>)}
=============================================================================

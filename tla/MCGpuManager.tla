---------------------------- MODULE MCGpuManager ----------------------------
(* Two nodes compute the halves of m, two those of the output o.            *)
EXTENDS GpuManager, TLC

Node(g, s, m, ps, r) == [gpu |-> g, sure |-> s, to |-> m, parts |-> ps, reads |-> r]
ReadsOf(a, m) == ("a" :> a @@ "m" :> m @@ "o" :> {})

Program(ns, o) == [nodes |-> ns, inputs |-> {"a"}, outputs |-> o]

(* The nodes of o read m; they come after those of m, or one between them.  *)
AllPrograms ==
  UNION {LET m1 == Node(g[1], TRUE, "m", {1}, ReadsOf({1, 2}, {}))
             m2 == Node(g[2], TRUE, "m", {2}, ReadsOf({}, r[1]))
             o1 == Node(g[3], s[1], "o", {1}, ReadsOf({}, r[2]))
             o2 == Node(g[4], s[2], "o", {2}, ReadsOf({1, 2}, r[3]))
         IN {Program(<<m1, m2, o1, o2>>, o), Program(<<m1, o1, m2, o2>>, o)}
         : g \in [1..4 -> BOOLEAN], s \in [1..2 -> BOOLEAN],
           r \in {{}, {1}} \X {{1}, {1, 2}} \X {{1}, {1, 2}}, o \in {{"o"}, {"o", "m"}}}

Writers(p, k, m) == {n \in 1..(k - 1) : p.nodes[n].to = m}

(* Nothing is read before it is computed, and a reader of a matrix waits    *)
(* for all that the GPU has computed of it.                                 *)
MCPrograms ==
  {p \in AllPrograms :
     \A k \in 1..4 : LET r == p.nodes[k].reads["m"]
                     IN  /\ r \subseteq UNION {p.nodes[n].parts : n \in Writers(p, k, "m")}
                         /\ r # {} => UNION {p.nodes[n].parts : n \in {n \in Writers(p, k, "m") : p.nodes[n].gpu}} \subseteq r
                         /\ p.nodes[k].gpu \/ r = {} => p.nodes[k].sure}
=============================================================================

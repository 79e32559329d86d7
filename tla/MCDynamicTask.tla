--------------------------- MODULE MCDynamicTask ---------------------------
(***************************************************************************)
(* Small task graphs for DynamicTask, in the shapes the compiler and the   *)
(* runtime produce: main() enqueues one task and waits for it.             *)
(***************************************************************************)
EXTENDS DynamicTask, TLC

CONSTANTS a, b, c, d, e  \* the tasks

Shape(body, cont, makes) == [body |-> body, cont |-> cont, makes |-> makes]

\* sync_hook: a spawns b and c and continues with d after both; b itself
\* continues with e.  The first task enqueued goes on deck, the second one
\* can be stolen.
Spawn == Shape(a :> <<DependsOn(d, b), DependsOn(d, c), Enqueue(c), Enqueue(b)>>,
               a :> d @@ b :> e, a :> {b, c, d} @@ b :> {e})

\* GroupedDynamicTask::run: the part is enqueued before the dependency is
\* declared, so it may be done, or continued by e, by then
Grouped == Shape(a :> <<Enqueue(c), DependsOn(d, c), Enqueue(b), DependsOn(d, b)>>,
                 a :> d @@ b :> e, a :> {b, c, d} @@ b :> {e})

\* a rule body: b spawns e for c to wait for, while a still wires d
Diamond == Shape(a :> <<DependsOn(c, b), Enqueue(c), DependsOn(d, b), Enqueue(b),
                        DependsOn(d, c)>>
                 @@ b :> <<Enqueue(e)>>, a :> d, a :> {b, c, d} @@ b :> {e})

\* a chain enqueued back to front that outlives a, which returns NULL
Detached == Shape(a :> <<DependsOn(c, b), DependsOn(d, c), Enqueue(e), Enqueue(d),
                         Enqueue(c), Enqueue(b)>>, <<>>, a :> {b, c, d, e})

\* The graphs with b, c and d of these kinds.
Graphs(kinds, mayAbort) ==
  {[main     |-> <<Enqueue(a), Wait(a)>>,
    body     |-> [t \in Task |-> IF t \in DOMAIN s.body THEN s.body[t] ELSE <<>>],
    cont     |-> [t \in Task |-> IF t \in DOMAIN s.cont THEN s.cont[t] ELSE None],
    makes    |-> [t \in Task \union {None} |->
                    IF t = None THEN {a}
                    ELSE IF t \in DOMAIN s.makes THEN s.makes[t] ELSE {}],
    kind     |-> a :> "cpu" @@ b :> kb @@ c :> kc @@ d :> kd @@ e :> "cpu",
    mayAbort |-> mayAbort]
   : s \in {Spawn, Grouped, Diamond, Detached},
     kb \in kinds, kc \in kinds, kd \in kinds \intersect {"null", "remote"}}

MixedKinds == {"cpu", "null", "remote", "gpu"}
LocalKinds == {"cpu", "null", "gpu"}
MCPrograms == Graphs(MixedKinds, FALSE) \union Graphs(LocalKinds, TRUE)
CancelledRemotely == Graphs(MixedKinds, TRUE)
=============================================================================

----------------------------- MODULE AbortProofs -----------------------------
(***************************************************************************)
(* Proofs about Abort for any number of workers, tasks and AbortTasks.     *)
(*                                                                         *)
(* Whoever runs AbortTask::run and however slow the thieves are, the       *)
(* counters of an AbortTask are what is left of the workers (Counts), and  *)
(* a copy of it is only in a deque of a worker that is running it and has  *)
(* not yet seen its deque empty (Copied): so none is left when all have    *)
(* arrived.  That there is one AbortTask at a time (OneAtATime), that it   *)
(* is never cancelled and that it ends its trial completely needs more:    *)
(* that a worker has nothing of its own left when it has cancelled its     *)
(* tasks (Clean), and that nothing runs between trials (Calm).  PInv says  *)
(* so of every state in which no task has escaped.                         *)
(***************************************************************************)
EXTENDS Abort, FiniteSetTheorems, SequenceTheorems, TLAPS

\* The tasks in the queues of one worker.
Own(w) == ({ondeck[w]} \ {None}) \union ToSet(deque[w]) \union ToSet(inject[w])

\* The workers that have entered a, and those that have arrived at its barrier.
In(a) == {w \in Worker : at[w] = a /\ pc[w] # "enter"}
Past(a) == {w \in Worker : at[w] = a /\ pc[w] \in {"barrier"} \union Leaving}

Running == {"enter", "barrier"} \union Entered \union Leaving
Holding == {"test", "push", "rob", "drain"}
Parked == {"barrier"} \union Leaving

Locations == \A w \in Worker : at[w] # None <=> pc[w] \in Running

Counted(a) ==
  /\ numAborting[a] # 0 => /\ numLive[a] = TotalWorkers - Cardinality(In(a))
                           /\ numAborting[a] = TotalWorkers - Cardinality(Past(a))
  /\ numAborting[a] = 0 => numLive[a] = 0
  /\ \A w \in Worker : at[w] = a =>
       /\ numAborting[a] = 0 => pc[w] \in {"barrier"} \union Leaving
       /\ pc[w] \in Leaving => numAborting[a] = 0
       /\ pc[w] \in {"drain", "barrier"} => numLive[a] = 0
Counts == \A a \in Aborts : Counted(a)

\* An owner whose only task is hidden has pushed no copy, or is about to push
\* another, for which it waits until the thief has gone.
CopiedAt(w) ==
  /\ \A a \in Own(w) \intersect Aborts : at[w] = a /\ pc[w] \in Holding
  /\ blind[w] => thief[w] # None
  /\ blind[w] /\ Own(w) \intersect Aborts # {} => pc[w] = "push" /\ left[w] > 0
  /\ pc[w] = "push" /\ thief[w] # None /\ deque[w] = <<>> =>
       \/ left[w] \in {0, Copies}
       \/ left[w] = Copies - 1 /\ ondeck[w] # None
  /\ pc[w] = "push" /\ ondeck[w] = None => left[w] \in {0, Copies}
Copied == \A w \in Worker : CopiedAt(w)

BInv == TypeOK /\ Locations /\ Counts /\ Copied

-----------------------------------------------------------------------------

Active(a) == numAborting[a] # 0 /\ \E w \in Worker : at[w] = a
MainOut == pc[Main] \in {"between", "exited"} \/ (at[Main] # None /\ numAborting[at[Main]] = 0)
MainStops == at[Main] \in exiting /\ numAborting[at[Main]] # 0

CleanAt(w) ==
  /\ pc[w] \in Holding => Own(w) \subseteq {at[w]}
  /\ pc[w] \in Parked => Own(w) = {}
  /\ pc[w] = "between" => w = Main
Clean == \A w \in Worker : CleanAt(w)

OneAtATime ==
  /\ lock # None => at[lock] # None /\ at[lock] \notin exiting /\ pc[lock] # "unwind"
  /\ \A a \in Aborts : Active(a) => IF a \in exiting THEN at[Main] = a
                                    ELSE lock # None /\ at[lock] = a
  /\ \A a \in exiting : at[Main] = a \/ numAborting[a] = 0
  /\ \A w \in Worker : pc[w] = "unlock" => lock = w

Calm ==
  /\ MainOut => /\ \A w \in Worker : Own(w) = {}
                /\ \A w \in Worker : pc[w] \in {"work", "between", "exited"} \union Parked
                /\ \A a \in Aborts : ~Active(a)
  /\ MainStops => /\ \A w \in Worker : Own(w) \subseteq {at[Main]}
                  /\ \A w \in Worker : pc[w] \notin {"busy", "giveUp", "between"}
                  /\ \A a \in Aborts : Active(a) => a = at[Main]

OneTrial == \A w \in Worker : \A t \in Own(w) \intersect Work : born[t] = trial

\* A slow thief looks for work or robs, from one deque at a time.
Thieves ==
  \A v \in Worker : thief[v] # None =>
    /\ pc[thief[v]] \in {"work", "rob"}
    /\ \A u \in Worker : thief[u] = thief[v] => u = v

Sound == ~failed /\ cancelled \intersect Aborts = {}

PInv == Clean /\ OneAtATime /\ Calm /\ OneTrial /\ Sound

-----------------------------------------------------------------------------
(* The queues.                                                              *)

LEMMA QueuedIsOwn == Queued = UNION {Own(w) : w \in Worker}
<1>1. \A t : t \in Queued <=> \E w \in Worker : t \in Own(w)
  BY DEF Queued, Own
<1> QED BY <1>1

\* What is in a sequence without its first, or its last, element.
LEMMA Parts ==
  ASSUME NEW S, NEW s \in Seq(S), s # <<>>
  PROVE  /\ Head(s) \in S /\ Head(s) \in ToSet(s)
         /\ Last(s) \in S /\ Last(s) \in ToSet(s)
         /\ Tail(s) \in Seq(S) /\ ToSet(Tail(s)) \subseteq ToSet(s)
         /\ Front(s) \in Seq(S) /\ ToSet(Front(s)) \subseteq ToSet(s)
<1>1. Len(s) \in Nat \ {0} /\ DOMAIN s = 1 .. Len(s)
  BY EmptySeq
<1>2. Head(s) = s[1] /\ Last(s) = s[Len(s)]
  BY DEF Last
<1>3. /\ Front(s) \in Seq(S) /\ DOMAIN Front(s) = 1 .. Len(s) - 1
      /\ \A i \in 1 .. Len(s) - 1 : Front(s)[i] = s[i]
  BY <1>1 DEF Front
<1>4. /\ Tail(s) \in Seq(S) /\ DOMAIN Tail(s) = 1 .. Len(s) - 1
      /\ \A i \in 1 .. Len(s) - 1 : Tail(s)[i] = s[i + 1]
  BY <1>1
<1>5. \A i \in 1 .. Len(s) : s[i] \in S
  OBVIOUS
<1>6. \A x : x \in ToSet(s) <=> \E i \in 1 .. Len(s) : s[i] = x
  BY <1>1 DEF ToSet
<1>7. ToSet(Front(s)) \subseteq ToSet(s)
  BY <1>1, <1>3, <1>6 DEF ToSet
<1>8. ToSet(Tail(s)) \subseteq ToSet(s)
  BY <1>1, <1>4, <1>6 DEF ToSet
<1> QED BY <1>1, <1>2, <1>3, <1>4, <1>5, <1>6, <1>7, <1>8

\* What is in a sequence to which an element was added.
LEMMA Longer ==
  ASSUME NEW s \in Seq(Task), NEW t \in Task, NEW r, r = Append(s, t) \/ r = <<t>> \o s
  PROVE  r \in Seq(Task) /\ r # <<>> /\ ToSet(r) = ToSet(s) \union {t}
<1>1. Len(s) \in Nat /\ DOMAIN s = 1 .. Len(s)
  OBVIOUS
<1>2. /\ Append(s, t) \in Seq(Task) /\ Append(s, t) # <<>>
      /\ DOMAIN Append(s, t) = 1 .. Len(s) + 1
      /\ Append(s, t)[Len(s) + 1] = t /\ \A i \in 1 .. Len(s) : Append(s, t)[i] = s[i]
  BY AppendProperties
<1>3. /\ <<t>> \o s \in Seq(Task) /\ DOMAIN (<<t>> \o s) = 1 .. Len(s) + 1
      /\ (<<t>> \o s)[1] = t /\ \A i \in 1 .. Len(s) : (<<t>> \o s)[i + 1] = s[i]
  OBVIOUS
<1>4. \A x : x \in ToSet(s) <=> \E i \in 1 .. Len(s) : s[i] = x
  BY <1>1 DEF ToSet
<1>5. \A x : x \in ToSet(Append(s, t)) <=> x \in ToSet(s) \union {t}
  <2>1. TAKE x
  <2>2. x \in ToSet(Append(s, t)) <=> \E i \in 1 .. Len(s) + 1 : Append(s, t)[i] = x
    BY <1>2 DEF ToSet
  <2>3. \A i \in 1 .. Len(s) + 1 : i \in 1 .. Len(s) \/ i = Len(s) + 1
    BY <1>1
  <2>4. Len(s) + 1 \in 1 .. Len(s) + 1 /\ 1 .. Len(s) \subseteq 1 .. Len(s) + 1
    BY <1>1
  <2> QED BY <2>2, <2>3, <2>4, <1>2, <1>4
<1>6. \A x : x \in ToSet(<<t>> \o s) <=> x \in ToSet(s) \union {t}
  <2>1. TAKE x
  <2>2. x \in ToSet(<<t>> \o s) <=> \E i \in 1 .. Len(s) + 1 : (<<t>> \o s)[i] = x
    BY <1>3 DEF ToSet
  <2>3. \A i \in 1 .. Len(s) + 1 : i = 1 \/ (i - 1 \in 1 .. Len(s) /\ (<<t>> \o s)[i] = s[i - 1])
    BY <1>1, <1>3
  <2>4. 1 \in 1 .. Len(s) + 1 /\ \A i \in 1 .. Len(s) : i + 1 \in 1 .. Len(s) + 1
    BY <1>1
  <2> QED BY <2>2, <2>3, <2>4, <1>3, <1>4
<1>7. CASE r = Append(s, t)
  BY <1>2, <1>5, <1>7
<1>8. CASE r = <<t>> \o s
  <2>1. r # <<>>
    BY <1>1, <1>3, <1>8
  <2> QED BY <1>3, <1>6, <1>8, <2>1
<1> QED BY <1>7, <1>8

\* A push adds the task to the worker's own queues.
LEMMA Pushed ==
  ASSUME QueuesTypeOK, NEW w \in Worker, NEW t \in Task, PushLocal(w, t)
  PROVE  /\ QueuesTypeOK'
         /\ Own(w)' = Own(w) \union {t}
         /\ \A v \in Worker \ {w} :
              Own(v)' = Own(v) /\ ondeck'[v] = ondeck[v] /\ deque'[v] = deque[v]
         /\ ondeck'[w] # None
         /\ IF ondeck[w] = None THEN deque'[w] = deque[w] ELSE deque'[w] # <<>>
<1>0. None \notin Task
  BY AbortAssumption
<1>1. CASE ondeck[w] = None
  <2>1. /\ ondeck' = [ondeck EXCEPT ![w] = t] /\ deque' = deque /\ inject' = inject
    BY <1>1 DEF PushLocal
  <2>2. ondeck'[w] = t /\ \A v \in Worker \ {w} : ondeck'[v] = ondeck[v]
    BY <2>1 DEF QueuesTypeOK
  <2>3. QueuesTypeOK'
    BY <2>1 DEF QueuesTypeOK
  <2> QED BY <1>0, <1>1, <2>1, <2>2, <2>3 DEF Own
<1>2. CASE ondeck[w] # None
  <2>1. /\ deque' = [deque EXCEPT ![w] = Append(@, t)] /\ ondeck' = ondeck /\ inject' = inject
    BY <1>2 DEF PushLocal
  <2>2. /\ deque[w] \in Seq(Task) /\ deque'[w] = Append(deque[w], t)
        /\ \A v \in Worker \ {w} : deque'[v] = deque[v]
    BY <2>1 DEF QueuesTypeOK
  <2>3. /\ deque'[w] \in Seq(Task) /\ ToSet(deque'[w]) = ToSet(deque[w]) \union {t}
        /\ deque'[w] # <<>>
    BY <2>2, Longer
  <2>4. QueuesTypeOK'
    BY <2>1, <2>2, <2>3 DEF QueuesTypeOK
  <2> QED BY <1>0, <1>2, <2>1, <2>2, <2>3, <2>4 DEF Own
<1> QED BY <1>1, <1>2

\* What happens to the queues when a task is taken from those of v.
Taken(v, t) ==
  /\ QueuesTypeOK'
  /\ t \in Task /\ t \in Own(v)
  /\ \A u \in Worker : Own(u)' \subseteq Own(u)
  /\ \A u \in Worker \ {v} : ondeck'[u] = ondeck[u] /\ deque'[u] = deque[u]

LEMMA Popped ==
  ASSUME QueuesTypeOK, NEW w \in Worker, NEW t, NEW miss, PopLocal(w, t, miss)
  PROVE  Taken(w, t)
<1>0. None \notin Task
  BY AbortAssumption
<1>1. CASE /\ t = ondeck[w] /\ t # None
           /\ ondeck' = [ondeck EXCEPT ![w] = None]
           /\ UNCHANGED <<deque, inject>>
  <2>1. ondeck'[w] = None /\ \A u \in Worker \ {w} : ondeck'[u] = ondeck[u]
    BY <1>1 DEF QueuesTypeOK
  <2>2. QueuesTypeOK' /\ t \in Task
    BY <1>1 DEF QueuesTypeOK
  <2> QED BY <1>1, <2>1, <2>2 DEF Own, Taken
<1>2. CASE /\ ~PopTopEmpty(w, miss) /\ t = Last(deque[w])
           /\ deque' = [deque EXCEPT ![w] = Front(@)]
           /\ UNCHANGED <<ondeck, inject>>
  <2>1. /\ deque[w] \in Seq(Task) /\ deque[w] # <<>> /\ deque'[w] = Front(deque[w])
        /\ \A u \in Worker \ {w} : deque'[u] = deque[u]
    BY <1>2 DEF QueuesTypeOK, PopTopEmpty
  <2>2. /\ t \in Task /\ t \in ToSet(deque[w])
        /\ deque'[w] \in Seq(Task) /\ ToSet(deque'[w]) \subseteq ToSet(deque[w])
    BY <1>2, <2>1, Parts
  <2>3. QueuesTypeOK'
    BY <1>2, <2>1, <2>2 DEF QueuesTypeOK
  <2> QED BY <1>0, <1>2, <2>1, <2>2, <2>3 DEF Own, Taken
<1>3. CASE /\ inject[w] # <<>> /\ t = Last(inject[w])
           /\ inject' = [inject EXCEPT ![w] = Front(@)]
           /\ UNCHANGED <<ondeck, deque>>
  <2>1. /\ inject[w] \in Seq(Task) /\ inject'[w] = Front(inject[w])
        /\ \A u \in Worker \ {w} : inject'[u] = inject[u]
    BY <1>3 DEF QueuesTypeOK
  <2>2. /\ t \in Task /\ t \in ToSet(inject[w])
        /\ inject'[w] \in Seq(Task) /\ ToSet(inject'[w]) \subseteq ToSet(inject[w])
    BY <1>3, <2>1, Parts
  <2>3. QueuesTypeOK'
    BY <1>3, <2>1, <2>2 DEF QueuesTypeOK
  <2> QED BY <1>0, <1>3, <2>1, <2>2, <2>3 DEF Own, Taken
<1> QED BY <1>1, <1>2, <1>3 DEF PopLocal

\* The on-deck slots are out of a thief's reach.
LEMMA Stolen ==
  ASSUME QueuesTypeOK, NEW v \in Worker, NEW t, Steal(v, t)
  PROVE  Taken(v, t) /\ ondeck' = ondeck
<1>0. None \notin Task
  BY AbortAssumption
<1>1. CASE /\ inject[v] # <<>> /\ t = Head(inject[v])
           /\ inject' = [inject EXCEPT ![v] = Tail(@)]
           /\ UNCHANGED <<ondeck, deque>>
  <2>1. /\ inject[v] \in Seq(Task) /\ inject'[v] = Tail(inject[v])
        /\ \A u \in Worker \ {v} : inject'[u] = inject[u]
    BY <1>1 DEF QueuesTypeOK
  <2>2. /\ t \in Task /\ t \in ToSet(inject[v])
        /\ inject'[v] \in Seq(Task) /\ ToSet(inject'[v]) \subseteq ToSet(inject[v])
    BY <1>1, <2>1, Parts
  <2>3. QueuesTypeOK'
    BY <1>1, <2>1, <2>2 DEF QueuesTypeOK
  <2> QED BY <1>0, <1>1, <2>1, <2>2, <2>3 DEF Own, Taken
<1>2. CASE /\ deque[v] # <<>> /\ t = Head(deque[v])
           /\ deque' = [deque EXCEPT ![v] = Tail(@)]
           /\ UNCHANGED <<ondeck, inject>>
  <2>1. /\ deque[v] \in Seq(Task) /\ deque'[v] = Tail(deque[v])
        /\ \A u \in Worker \ {v} : deque'[u] = deque[u]
    BY <1>2 DEF QueuesTypeOK
  <2>2. /\ t \in Task /\ t \in ToSet(deque[v])
        /\ deque'[v] \in Seq(Task) /\ ToSet(deque'[v]) \subseteq ToSet(deque[v])
    BY <1>2, <2>1, Parts
  <2>3. QueuesTypeOK'
    BY <1>2, <2>1, <2>2 DEF QueuesTypeOK
  <2> QED BY <1>0, <1>2, <2>1, <2>2, <2>3 DEF Own, Taken
<1> QED BY <1>1, <1>2 DEF Steal

LEMMA Injected ==
  ASSUME QueuesTypeOK, NEW v \in Worker, NEW t \in Task, Inject(v, t)
  PROVE  /\ QueuesTypeOK' /\ ondeck' = ondeck /\ deque' = deque
         /\ \A u \in Worker : Own(u)' = IF u = v THEN Own(u) \union {t} ELSE Own(u)
<1>0. None \notin Task
  BY AbortAssumption
<1>1. /\ inject[v] \in Seq(Task) /\ inject'[v] = <<t>> \o inject[v]
      /\ inject' = [inject EXCEPT ![v] = <<t>> \o @]
      /\ \A u \in Worker \ {v} : inject'[u] = inject[u]
      /\ ondeck' = ondeck /\ deque' = deque
  BY DEF QueuesTypeOK, Inject
<1>2. /\ inject'[v] \in Seq(Task) /\ ToSet(inject'[v]) = ToSet(inject[v]) \union {t}
  BY <1>1, Longer
<1>3. QueuesTypeOK'
  BY <1>1, <1>2 DEF QueuesTypeOK
<1> QED BY <1>0, <1>1, <1>2, <1>3 DEF Own

\* A worker that finds its queues empty has nothing in them, unless a thief
\* hides the only task of its deque.
LEMMA Emptied ==
  ASSUME NEW w \in Worker, NEW miss, PopLocalNull(w, miss)
  PROVE  ~miss => Own(w) = {}
<1>1. ~miss => ondeck[w] = None /\ deque[w] = <<>> /\ inject[w] = <<>>
  BY DEF PopLocalNull, PopTopEmpty
<1>2. ToSet(<<>>) = {}
  BY DEF ToSet
<1> QED BY <1>1, <1>2 DEF Own

-----------------------------------------------------------------------------
(* The counters.                                                            *)

LEMMA Counting ==
  /\ TotalWorkers \in Nat \ {0}
  /\ \A S \in SUBSET Worker :
       /\ Cardinality(S) \in 0 .. TotalWorkers
       /\ Cardinality(S) = TotalWorkers => S = Worker
       /\ \A w \in Worker \ S : /\ Cardinality(S \union {w}) = Cardinality(S) + 1
                                /\ Cardinality(S) < TotalWorkers
<1>1. IsFiniteSet(Worker) /\ Main \in Worker
  BY AbortAssumption
<1>2. TotalWorkers \in Nat /\ TotalWorkers # 0
  BY <1>1, FS_CardinalityType, FS_EmptySet DEF TotalWorkers
<1>3. ASSUME NEW S \in SUBSET Worker
      PROVE  /\ IsFiniteSet(S) /\ Cardinality(S) \in 0 .. TotalWorkers
             /\ Cardinality(S) = TotalWorkers => S = Worker
  <2>1. /\ IsFiniteSet(S) /\ Cardinality(S) <= TotalWorkers
        /\ Cardinality(Worker) = Cardinality(S) => Worker = S
    BY <1>1, FS_Subset, Zenon DEF TotalWorkers
  <2>2. Cardinality(S) \in Nat
    BY <2>1, FS_CardinalityType
  <2> QED BY <1>2, <2>1, <2>2 DEF TotalWorkers
<1>4. ASSUME NEW S \in SUBSET Worker, NEW w \in Worker \ S
      PROVE  Cardinality(S \union {w}) = Cardinality(S) + 1 /\ Cardinality(S) < TotalWorkers
  <2>1. Cardinality(S \union {w}) = Cardinality(S) + 1
    BY <1>3, FS_AddElement
  <2>2. S \union {w} \in SUBSET Worker
    OBVIOUS
  <2> QED BY <1>2, <1>3, <2>1, <2>2
<1> QED BY <1>2, <1>3, <1>4

\* A step that enters, and leaves, neither an AbortTask nor its barrier.
LEMMA Moved ==
  ASSUME BInv, NEW w \in Worker, NEW q \in PCs,
         pc' = [pc EXCEPT ![w] = q], at' = at, UNCHANGED <<numLive, numAborting>>,
         pc[w] \in Running <=> q \in Running, pc[w] = "enter" <=> q = "enter",
         pc[w] \in {"barrier"} \union Leaving <=> q \in {"barrier"} \union Leaving,
         q = "drain" => pc[w] = "drain" \/ numLive[at[w]] = 0,
         q \in Leaving => pc[w] \in Leaving \/ numAborting[at[w]] = 0
  PROVE  Locations' /\ Counts'
<1>1. pc'[w] = q /\ \A u \in Worker \ {w} : pc'[u] = pc[u]
  BY DEF BInv, TypeOK
<1>2. Locations'
  BY <1>1 DEF BInv, Locations
<1>3. \A a : In(a)' = In(a) /\ Past(a)' = Past(a)
  BY <1>1 DEF In, Past
<1>4. Counts'
  BY <1>1, <1>3, AbortAssumption DEF BInv, Counts, Counted, Locations, TotalWorkers, Leaving
<1> QED BY <1>2, <1>4

\* w starts to run an AbortTask that not all have left.
LEMMA Starts ==
  ASSUME BInv, NEW w \in Worker, NEW a \in Aborts, at[w] = None, numAborting[a] # 0,
         pc' = [pc EXCEPT ![w] = "enter"], at' = [at EXCEPT ![w] = a],
         UNCHANGED <<numLive, numAborting>>
  PROVE  Locations' /\ Counts'
<1>1. /\ pc'[w] = "enter" /\ at'[w] = a
      /\ \A u \in Worker \ {w} : pc'[u] = pc[u] /\ at'[u] = at[u]
  BY DEF BInv, TypeOK
<1>2. a # None
  BY AbortAssumption
<1>3. Locations'
  BY <1>1, <1>2 DEF BInv, Locations, Running
<1>4. \A b \in Aborts : In(b)' = In(b) /\ Past(b)' = Past(b)
  BY <1>1, AbortAssumption DEF In, Past, Leaving
<1>5. Counts'
  BY <1>1, <1>4 DEF BInv, Counts, Counted, TotalWorkers, Leaving
<1> QED BY <1>3, <1>5

\* A step that pushes no copy, and does not begin or end a slow steal.
LEMMA NoMoreCopies ==
  ASSUME BInv, UNCHANGED <<thief, blind>>,
         \A u \in Worker :
           /\ Own(u)' \intersect Aborts \subseteq Own(u)
           /\ Own(u) \intersect Aborts # {} => pc'[u] \in Holding /\ at'[u] = at[u]
           /\ pc'[u] = "push" =>
                /\ pc[u] = "push" /\ left'[u] = left[u]
                /\ ondeck'[u] = ondeck[u] /\ (deque'[u] = deque[u] \/ thief[u] = None)
           /\ pc[u] = "push" /\ pc'[u] # "push" => left[u] = 0
  PROVE  Copied'
  BY DEF BInv, Copied, CopiedAt

\* push_top while a thief hides the only task waits, unless the on-deck slot is
\* free; it lets the task be hidden only where the deque was empty.
LEMMA Given ==
  ASSUME BInv, NEW w \in Worker, NEW t \in Task, Give(w, t)
  PROVE  /\ QueuesTypeOK' /\ thief' = thief
         /\ blind' \in [Worker -> BOOLEAN] /\ raised' \in [Worker -> BOOLEAN]
         /\ Own(w)' = Own(w) \union {t} /\ ondeck'[w] # None
         /\ ondeck[w] # None => deque'[w] # <<>>
         /\ \A u \in Worker \ {w} : /\ Own(u)' = Own(u) /\ blind'[u] = blind[u]
                                    /\ ondeck'[u] = ondeck[u] /\ deque'[u] = deque[u]
         /\ blind'[w] => thief[w] # None
         /\ blind[w] => ondeck[w] = None
         /\ blind'[w] /\ ~blind[w] => ondeck[w] # None /\ deque[w] = <<>>
<1>1. PushLocal(w, t)
  BY DEF Give
<1>2. /\ QueuesTypeOK' /\ Own(w)' = Own(w) \union {t} /\ ondeck'[w] # None
      /\ ondeck[w] # None => deque'[w] # <<>>
      /\ \A u \in Worker \ {w} : /\ Own(u)' = Own(u)
                                 /\ ondeck'[u] = ondeck[u] /\ deque'[u] = deque[u]
  BY <1>1, Pushed DEF BInv, TypeOK
<1>3. /\ thief \in [Worker -> Worker \union {None}]
      /\ blind \in [Worker -> BOOLEAN] /\ raised \in [Worker -> BOOLEAN]
      /\ blind[w] => thief[w] # None
  BY DEF BInv, TypeOK, Copied, CopiedAt
<1>4. CASE /\ ondeck[w] = None \/ (deque[w] # <<>> /\ ~blind[w])
           /\ UNCHANGED slow
  BY <1>2, <1>3, <1>4 DEF slow
<1>5. CASE /\ ondeck[w] # None /\ (deque[w] = <<>> \/ blind[w])
           /\ thief[w] = None /\ raised' = [raised EXCEPT ![w] = FALSE]
           /\ UNCHANGED <<thief, blind>>
  BY <1>2, <1>3, <1>5
<1>6. CASE /\ ondeck[w] # None /\ ~blind[w] /\ deque[w] = <<>>
           /\ \E b \in {FALSE, thief[w] # None} : blind' = [blind EXCEPT ![w] = b]
           /\ UNCHANGED <<thief, raised>>
  <2>1. PICK b \in {FALSE, thief[w] # None} : blind' = [blind EXCEPT ![w] = b]
    BY <1>6
  <2>2. b \in BOOLEAN /\ (b => thief[w] # None)
    BY <2>1
  <2>3. /\ blind' \in [Worker -> BOOLEAN] /\ blind'[w] = b
        /\ \A u \in Worker \ {w} : blind'[u] = blind[u]
    BY <1>3, <2>1, <2>2
  <2> QED BY <1>2, <1>3, <1>6, <2>2, <2>3
<1> QED BY <1>4, <1>5, <1>6 DEF Give

-----------------------------------------------------------------------------
(* One lemma per action: it preserves the invariant of the counters.        *)

LEMMA StartTrialCounts ==
  ASSUME BInv, StartTrial
  PROVE  BInv'
<1>1. /\ pc[Main] = "between" /\ pc' = [pc EXCEPT ![Main] = "busy"]
      /\ UNCHANGED <<queues, at, lost, left, numLive, numAborting, exiting, lock, slow,
                     born, cancelled, failed, stray>>
      /\ trial' = trial + 1
  BY DEF StartTrial, Goto, queues, slow, counters, history, control
<1>2. /\ pc'[Main] = "busy" /\ "busy" \in PCs
      /\ \A u \in Worker \ {Main} : pc'[u] = pc[u]
  BY <1>1, AbortAssumption DEF BInv, TypeOK, PCs, Entered, Leaving
<1>3. TypeOK'
  BY <1>1, <1>2, AbortAssumption DEF BInv, TypeOK, QueuesTypeOK, queues, slow
<1>4. Locations' /\ Counts'
  BY <1>1, <1>2, Moved, AbortAssumption DEF Running, Entered, Leaving
<1>5. Copied'
  BY <1>1, <1>2, NoMoreCopies DEF Own, queues, slow, Holding, BInv, Copied, CopiedAt
<1> QED BY <1>3, <1>4, <1>5 DEF BInv

LEMMA TrialEndsCounts ==
  ASSUME BInv, TrialEnds
  PROVE  BInv'
<1>1. /\ pc[Main] = "work" /\ pc' = [pc EXCEPT ![Main] = "between"]
      /\ UNCHANGED <<queues, at, lost, left, numLive, numAborting, exiting, lock, slow,
                     born, trial, cancelled, failed, stray>>
  BY DEF TrialEnds, Goto, queues, slow, counters, history, control
<1>2. /\ pc'[Main] = "between" /\ "between" \in PCs
      /\ \A u \in Worker \ {Main} : pc'[u] = pc[u]
  BY <1>1, AbortAssumption DEF BInv, TypeOK, PCs, Entered, Leaving
<1>3. TypeOK'
  BY <1>1, <1>2, AbortAssumption DEF BInv, TypeOK, QueuesTypeOK, queues, slow
<1>4. Locations' /\ Counts'
  BY <1>1, <1>2, Moved, AbortAssumption DEF Running, Entered, Leaving
<1>5. Copied'
  BY <1>1, <1>2, NoMoreCopies DEF Own, queues, slow, Holding, BInv, Copied, CopiedAt
<1> QED BY <1>3, <1>4, <1>5 DEF BInv

LEMMA FinishCounts ==
  ASSUME BInv, NEW w \in Worker, Finish(w)
  PROVE  BInv'
<1>1. /\ pc[w] = "busy" /\ pc' = [pc EXCEPT ![w] = "work"]
      /\ UNCHANGED <<queues, at, lost, left, numLive, numAborting, exiting, lock, slow,
                     born, trial, cancelled, failed, stray>>
  BY DEF Finish, Goto, queues, slow, counters, history, control
<1>2. /\ pc'[w] = "work" /\ "work" \in PCs
      /\ \A u \in Worker \ {w} : pc'[u] = pc[u]
  BY <1>1, AbortAssumption DEF BInv, TypeOK, PCs, Entered, Leaving
<1>3. TypeOK'
  BY <1>1, <1>2, AbortAssumption DEF BInv, TypeOK, QueuesTypeOK, queues, slow
<1>4. Locations' /\ Counts'
  BY <1>1, <1>2, Moved, AbortAssumption DEF Running, Entered, Leaving
<1>5. Copied'
  BY <1>1, <1>2, NoMoreCopies DEF Own, queues, slow, Holding, BInv, Copied, CopiedAt
<1> QED BY <1>3, <1>4, <1>5 DEF BInv

LEMMA AbortLosesCounts ==
  ASSUME BInv, NEW w \in Worker, AbortLoses(w)
  PROVE  BInv'
<1>1. /\ pc[w] = "busy" /\ pc' = [pc EXCEPT ![w] = "giveUp"]
      /\ UNCHANGED <<queues, at, left, numLive, numAborting, exiting, lock, slow,
                     born, trial, cancelled, failed, stray>>
      /\ lost' = [lost EXCEPT ![w] = TRUE]
  BY DEF AbortLoses, Goto, queues, slow, counters, history, control
<1>2. /\ pc'[w] = "giveUp" /\ "giveUp" \in PCs
      /\ \A u \in Worker \ {w} : pc'[u] = pc[u]
  BY <1>1, AbortAssumption DEF BInv, TypeOK, PCs, Entered, Leaving
<1>3. TypeOK'
  BY <1>1, <1>2, AbortAssumption DEF BInv, TypeOK, QueuesTypeOK, queues, slow
<1>4. Locations' /\ Counts'
  BY <1>1, <1>2, Moved, AbortAssumption DEF Running, Entered, Leaving
<1>5. Copied'
  BY <1>1, <1>2, NoMoreCopies DEF Own, queues, slow, Holding, BInv, Copied, CopiedAt
<1> QED BY <1>3, <1>4, <1>5 DEF BInv

LEMMA PushEndsCounts ==
  ASSUME BInv, NEW w \in Worker, PushEnds(w)
  PROVE  BInv'
<1>1. /\ pc[w] = "push" /\ pc' = [pc EXCEPT ![w] = "rob"]
      /\ UNCHANGED <<queues, at, lost, left, numLive, numAborting, exiting, lock, slow,
                     born, trial, cancelled, failed, stray>>
      /\ left[w] = 0
  BY DEF PushEnds, Goto, queues, slow, counters, history, control
<1>2. /\ pc'[w] = "rob" /\ "rob" \in PCs
      /\ \A u \in Worker \ {w} : pc'[u] = pc[u]
  BY <1>1, AbortAssumption DEF BInv, TypeOK, PCs, Entered, Leaving
<1>3. TypeOK'
  BY <1>1, <1>2, AbortAssumption DEF BInv, TypeOK, QueuesTypeOK, queues, slow
<1>4. Locations' /\ Counts'
  BY <1>1, <1>2, Moved, AbortAssumption DEF Running, Entered, Leaving
<1>5. Copied'
  BY <1>1, <1>2, NoMoreCopies DEF Own, queues, slow, Holding, BInv, Copied, CopiedAt
<1> QED BY <1>3, <1>4, <1>5 DEF BInv

LEMMA RobEndsCounts ==
  ASSUME BInv, NEW w \in Worker, RobEnds(w)
  PROVE  BInv'
<1>1. /\ pc[w] = "rob" /\ pc' = [pc EXCEPT ![w] = "test"]
      /\ UNCHANGED <<queues, at, lost, left, numLive, numAborting, exiting, lock, slow,
                     born, trial, cancelled, failed, stray>>
  BY DEF RobEnds, Goto, queues, slow, counters, history, control
<1>2. /\ pc'[w] = "test" /\ "test" \in PCs
      /\ \A u \in Worker \ {w} : pc'[u] = pc[u]
  BY <1>1, AbortAssumption DEF BInv, TypeOK, PCs, Entered, Leaving
<1>3. TypeOK'
  BY <1>1, <1>2, AbortAssumption DEF BInv, TypeOK, QueuesTypeOK, queues, slow
<1>4. Locations' /\ Counts'
  BY <1>1, <1>2, Moved, AbortAssumption DEF Running, Entered, Leaving
<1>5. Copied'
  BY <1>1, <1>2, NoMoreCopies DEF Own, queues, slow, Holding, BInv, Copied, CopiedAt
<1> QED BY <1>3, <1>4, <1>5 DEF BInv

LEMMA UnlockCounts ==
  ASSUME BInv, NEW w \in Worker, Unlock(w)
  PROVE  BInv'
<1>1. /\ pc[w] = "unlock" /\ pc' = [pc EXCEPT ![w] = "unwind"]
      /\ UNCHANGED <<queues, at, lost, left, numLive, numAborting, exiting, slow,
                     born, trial, cancelled, failed, stray>>
      /\ lock' = None
  BY DEF Unlock, Goto, queues, slow, counters, history, control
<1>2. /\ pc'[w] = "unwind" /\ "unwind" \in PCs
      /\ \A u \in Worker \ {w} : pc'[u] = pc[u]
  BY <1>1, AbortAssumption DEF BInv, TypeOK, PCs, Entered, Leaving
<1>3. TypeOK'
  BY <1>1, <1>2, AbortAssumption DEF BInv, TypeOK, QueuesTypeOK, queues, slow
<1>4. Locations' /\ Counts'
  BY <1>1, <1>2, Moved, AbortAssumption DEF Running, Entered, Leaving
<1>5. Copied'
  BY <1>1, <1>2, NoMoreCopies DEF Own, queues, slow, Holding, BInv, Copied, CopiedAt
<1> QED BY <1>3, <1>4, <1>5 DEF BInv

LEMMA PassBarrierCounts ==
  ASSUME BInv, NEW w \in Worker, PassBarrier(w)
  PROVE  BInv'
<1>1. /\ pc[w] = "barrier" /\ pc' = [pc EXCEPT ![w] = (IF lock = w THEN "unlock" ELSE "unwind")]
      /\ UNCHANGED <<queues, at, lost, left, numLive, numAborting, exiting, lock, slow,
                     born, trial, cancelled, failed, stray>>
      /\ numAborting[at[w]] = 0
  BY DEF PassBarrier, Goto, queues, slow, counters, history, control, BarrierOpen
<1>2. /\ pc'[w] = (IF lock = w THEN "unlock" ELSE "unwind") /\ (IF lock = w THEN "unlock" ELSE "unwind") \in PCs
      /\ \A u \in Worker \ {w} : pc'[u] = pc[u]
  BY <1>1, AbortAssumption DEF BInv, TypeOK, PCs, Entered, Leaving
<1>3. TypeOK'
  BY <1>1, <1>2, AbortAssumption DEF BInv, TypeOK, QueuesTypeOK, queues, slow
<1>4. Locations' /\ Counts'
  BY <1>1, <1>2, Moved, AbortAssumption DEF Running, Entered, Leaving
<1>5. Copied'
  BY <1>1, <1>2, NoMoreCopies DEF Own, queues, slow, Holding, BInv, Copied, CopiedAt
<1> QED BY <1>3, <1>4, <1>5 DEF BInv

LEMMA CancelOwnEndsCounts ==
  ASSUME BInv, NEW w \in Worker, CancelOwnEnds(w)
  PROVE  BInv'
<1>1. /\ pc[w] \in {"giveUp", "cancelOwn"} /\ pc' = [pc EXCEPT ![w] = (IF pc[w] = "giveUp" THEN "work" ELSE "test")]
      /\ UNCHANGED <<queues, at, lost, left, numLive, numAborting, exiting, lock, slow,
                     born, trial, cancelled, failed>>
      /\ stray' \in BOOLEAN
  BY DEF CancelOwnEnds, Goto, queues, slow, counters, history, control, AllCancelled, PopNull, LooksAgain
<1>2. /\ pc'[w] = (IF pc[w] = "giveUp" THEN "work" ELSE "test") /\ (IF pc[w] = "giveUp" THEN "work" ELSE "test") \in PCs
      /\ \A u \in Worker \ {w} : pc'[u] = pc[u]
  BY <1>1, AbortAssumption DEF BInv, TypeOK, PCs, Entered, Leaving
<1>3. TypeOK'
  BY <1>1, <1>2, AbortAssumption DEF BInv, TypeOK, QueuesTypeOK, queues, slow
<1>4. Locations' /\ Counts'
  BY <1>1, <1>2, Moved, AbortAssumption DEF Running, Entered, Leaving
<1>5. Copied'
  BY <1>1, <1>2, NoMoreCopies DEF Own, queues, slow, Holding, BInv, Copied, CopiedAt
<1> QED BY <1>3, <1>4, <1>5 DEF BInv

LEMMA TestCounts ==
  ASSUME BInv, NEW w \in Worker, Test(w)
  PROVE  BInv'
<1> DEFINE to == IF numLive[at[w]] = 0 THEN "drain" ELSE "push"
<1>1. /\ pc[w] = "test" /\ pc' = [pc EXCEPT ![w] = to]
      /\ UNCHANGED <<queues, at, lost, counters, slow, history>>
      /\ left' = left \/ left' = [left EXCEPT ![w] = Pushes(w)]
      /\ to = "push" => left' = [left EXCEPT ![w] = Pushes(w)]
  BY DEF Test, Goto
<1>2. /\ pc'[w] = to /\ to \in {"drain", "push"} /\ to \in PCs
      /\ \A u \in Worker \ {w} : pc'[u] = pc[u]
  BY <1>1 DEF BInv, TypeOK, PCs, Entered
<1> HIDE DEF to
<1>3. Pushes(w) \in {0, Copies} /\ Copies \in Nat
  BY AbortAssumption DEF Pushes
<1>4. /\ left' \in [Worker -> 0 .. Copies]
      /\ to = "push" => left'[w] \in {0, Copies}
      /\ \A u \in Worker \ {w} : left'[u] = left[u]
  BY <1>1, <1>3 DEF BInv, TypeOK
<1>5. TypeOK'
  <2>1. pc' \in [Worker -> PCs]
    BY <1>1, <1>2 DEF BInv, TypeOK
  <2> QED BY <1>1, <1>4, <2>1 DEF BInv, TypeOK, QueuesTypeOK, queues, counters, slow, history
<1>6. Locations' /\ Counts'
  <2>1. to = "drain" => numLive[at[w]] = 0
    BY DEF to
  <2> QED BY <1>1, <1>2, <2>1, Moved DEF Running, Entered, Leaving, counters
<1>7. Copied'
  <2>1. \A u \in Worker : Own(u)' = Own(u)
    BY <1>1 DEF Own, queues
  <2>2. ondeck' = ondeck /\ deque' = deque /\ blind' = blind /\ thief' = thief /\ at' = at
    BY <1>1 DEF queues, slow
  <2>3. ASSUME NEW u \in Worker \ {w} PROVE CopiedAt(u)'
    BY <1>2, <1>4, <2>1, <2>2 DEF BInv, Copied, CopiedAt
  <2>4. CopiedAt(w)'
    BY <1>1, <1>2, <1>4, <2>1, <2>2 DEF BInv, Copied, CopiedAt, Holding
  <2> QED BY <2>3, <2>4 DEF Copied
<1> QED BY <1>5, <1>6, <1>7 DEF BInv

LEMMA ShutdownCounts ==
  ASSUME BInv, Shutdown
  PROVE  BInv'
<1>1. PICK a \in Unused : at' = [at EXCEPT ![Main] = a] /\ exiting' = exiting \union {a}
  BY DEF Shutdown
<1>2. /\ pc[Main] = "between" /\ pc' = [pc EXCEPT ![Main] = "enter"]
      /\ UNCHANGED <<queues, lost, left, numLive, numAborting, lock, slow, history>>
      /\ Main \in Worker
  BY AbortAssumption DEF Shutdown, Goto
<1>3. a \in Aborts /\ numAborting[a] # 0 /\ at[Main] = None
  BY <1>2, Counting DEF Unused, BInv, Counts, Counted, Locations, Running, Entered, Leaving
<1>4. /\ pc'[Main] = "enter" /\ at'[Main] = a
      /\ \A u \in Worker \ {Main} : pc'[u] = pc[u] /\ at'[u] = at[u]
      /\ pc' \in [Worker -> PCs] /\ at' \in [Worker -> Aborts \union {None}]
  BY <1>1, <1>2, <1>3 DEF BInv, TypeOK, PCs
<1>5. TypeOK'
  BY <1>1, <1>2, <1>3, <1>4 DEF BInv, TypeOK, QueuesTypeOK, queues, slow, history
<1>6. Locations' /\ Counts'
  BY <1>1, <1>2, <1>3, Starts
<1>7. Copied'
  BY <1>2, <1>4, NoMoreCopies DEF Own, queues, slow, Holding, BInv, Copied, CopiedAt
<1> QED BY <1>5, <1>6, <1>7 DEF BInv

LEMMA AbortWinsCounts ==
  ASSUME BInv, NEW w \in Worker, AbortWins(w)
  PROVE  BInv'
<1>1. PICK a \in Unused : at' = [at EXCEPT ![w] = a]
  BY DEF AbortWins
<1>2. /\ pc[w] = "busy" /\ pc' = [pc EXCEPT ![w] = "enter"] /\ lock' = w
      /\ UNCHANGED <<queues, lost, left, numLive, numAborting, exiting, slow, history>>
  BY DEF AbortWins, Goto
<1>3. a \in Aborts /\ numAborting[a] # 0 /\ at[w] = None
  BY <1>2, Counting DEF Unused, BInv, Counts, Counted, Locations, Running, Entered, Leaving
<1>4. /\ pc'[w] = "enter" /\ at'[w] = a
      /\ \A u \in Worker \ {w} : pc'[u] = pc[u] /\ at'[u] = at[u]
      /\ pc' \in [Worker -> PCs] /\ at' \in [Worker -> Aborts \union {None}]
  BY <1>1, <1>2, <1>3 DEF BInv, TypeOK, PCs
<1>5. TypeOK'
  BY <1>1, <1>2, <1>3, <1>4 DEF BInv, TypeOK, QueuesTypeOK, queues, slow, history
<1>6. Locations' /\ Counts'
  BY <1>1, <1>2, <1>3, Starts
<1>7. Copied'
  BY <1>2, <1>4, NoMoreCopies DEF Own, queues, slow, Holding, BInv, Copied, CopiedAt
<1> QED BY <1>5, <1>6, <1>7 DEF BInv

LEMMA EnterCounts ==
  ASSUME BInv, NEW w \in Worker, Enter(w)
  PROVE  BInv'
<1>0. PICK a : a = at[w]
  OBVIOUS
<1>1. /\ pc[w] = "enter" /\ pc' = [pc EXCEPT ![w] = "cancelOwn"]
      /\ numLive' = [numLive EXCEPT ![a] = @ - 1]
      /\ UNCHANGED <<queues, at, lost, left, numAborting, exiting, lock, slow, history>>
  BY <1>0 DEF Enter, Goto
<1>2. a \in Aborts /\ numAborting[a] # 0
  BY <1>0, <1>1 DEF BInv, TypeOK, Locations, Counts, Counted, Running, Leaving
<1>3. pc'[w] = "cancelOwn" /\ \A u \in Worker \ {w} : pc'[u] = pc[u]
  BY <1>1 DEF BInv, TypeOK
<1>4. /\ \A b \in Aborts : In(b)' = IF b = a THEN In(b) \union {w} ELSE In(b)
      /\ \A b \in Aborts : Past(b)' = Past(b)
      /\ w \notin In(a) /\ In(a) \in SUBSET Worker /\ at[w] = a
  BY <1>0, <1>1, <1>3 DEF In, Past, Leaving
<1>5. /\ Cardinality(In(a) \union {w}) = Cardinality(In(a)) + 1
      /\ Cardinality(In(a)) \in Nat /\ Cardinality(In(a)) < TotalWorkers
      /\ TotalWorkers \in Nat
  BY <1>4, Counting
<1>6. /\ numLive[a] = TotalWorkers - Cardinality(In(a)) 
      /\ numLive[a] \in 0 .. TotalWorkers
      /\ numAborting[a] = TotalWorkers - Cardinality(Past(a))
  BY <1>2 DEF BInv, Counts, Counted, TypeOK
<1>7. /\ numLive'[a] = numLive[a] - 1 /\ numLive[a] > 0
      /\ \A b \in Aborts \ {a} : numLive'[b] = numLive[b]
      /\ numLive' \in [Aborts -> 0 .. TotalWorkers]
  BY <1>1, <1>2, <1>5, <1>6 DEF BInv, TypeOK
<1>8. TypeOK'
  BY <1>1, <1>3, <1>7 DEF BInv, TypeOK, QueuesTypeOK, queues, slow, history, PCs, Entered,
                          TotalWorkers
<1>9. Locations'
  BY <1>1, <1>3 DEF BInv, Locations, Running, Entered
<1>10. Counts'
  <2> SUFFICES ASSUME NEW b \in Aborts PROVE Counted(b)'
    BY DEF Counts
  <2>2. CASE b = a
    <3>1. \A u \in Worker : at[u] = a => pc[u] \notin {"drain", "barrier"} \union Leaving
      BY <1>2, <1>7 DEF BInv, Counts, Counted, Leaving
    <3>2. numLive'[a] = TotalWorkers - Cardinality(In(a)')
      <4>1. In(a)' = In(a) \union {w}
        BY <1>2, <1>4
      <4> QED BY <4>1, <1>5, <1>6, <1>7
    <3> QED BY <1>1, <1>2, <1>3, <1>4, <1>6, <2>2, <3>1, <3>2 DEF Counted, TotalWorkers, Leaving
  <2>3. CASE b # a
    BY <1>1, <1>3, <1>4, <1>7, <2>3 DEF BInv, Counts, Counted, TotalWorkers
  <2> QED BY <2>2, <2>3
<1>11. Copied'
  BY <1>1, <1>3, NoMoreCopies DEF Own, queues, slow, Holding, BInv, Copied, CopiedAt
<1> QED BY <1>8, <1>9, <1>10, <1>11 DEF BInv

LEMMA ArriveCounts ==
  ASSUME BInv, NEW w \in Worker, Arrive(w)
  PROVE  BInv'
<1>0. PICK a : a = at[w]
  OBVIOUS
<1>1. /\ pc[w] = "drain" /\ pc' = [pc EXCEPT ![w] = "barrier"]
      /\ numAborting' = [numAborting EXCEPT ![a] = @ - 1]
      /\ UNCHANGED <<queues, at, lost, left, numLive, exiting, lock, slow, history>>
      /\ PopLocalNull(w, blind[w])
  BY <1>0 DEF Arrive, Goto, Drained
<1>2. a \in Aborts /\ numAborting[a] # 0 /\ numLive[a] = 0
  BY <1>0, <1>1 DEF BInv, TypeOK, Locations, Counts, Counted, Running, Entered, Leaving
<1>3. pc'[w] = "barrier" /\ \A u \in Worker \ {w} : pc'[u] = pc[u]
  BY <1>1 DEF BInv, TypeOK
<1>4. /\ \A b \in Aborts : Past(b)' = IF b = a THEN Past(b) \union {w} ELSE Past(b)
      /\ \A b \in Aborts : In(b)' = In(b)
      /\ w \notin Past(a) /\ Past(a) \in SUBSET Worker /\ at[w] = a
  BY <1>0, <1>1, <1>3 DEF In, Past, Leaving
<1>5. /\ Cardinality(Past(a) \union {w}) = Cardinality(Past(a)) + 1
      /\ Cardinality(Past(a)) \in Nat /\ Cardinality(Past(a)) < TotalWorkers
      /\ TotalWorkers \in Nat
      /\ Cardinality(Past(a) \union {w}) = TotalWorkers => Past(a) \union {w} = Worker
  BY <1>4, Counting
<1>6. /\ numLive[a] = TotalWorkers - Cardinality(In(a))
      /\ numAborting[a] \in 0 .. TotalWorkers
      /\ numAborting[a] = TotalWorkers - Cardinality(Past(a))
  BY <1>2 DEF BInv, Counts, Counted, TypeOK
<1>7. /\ numAborting'[a] = numAborting[a] - 1 /\ numAborting[a] > 0
      /\ \A b \in Aborts \ {a} : numAborting'[b] = numAborting[b]
      /\ numAborting' \in [Aborts -> 0 .. TotalWorkers]
  BY <1>1, <1>2, <1>5, <1>6 DEF BInv, TypeOK
<1>8. TypeOK'
  BY <1>1, <1>3, <1>7 DEF BInv, TypeOK, QueuesTypeOK, queues, slow, history, PCs, TotalWorkers
<1>9. Locations'
  BY <1>1, <1>3 DEF BInv, Locations, Running, Entered
<1>10. Counts'
  <2> SUFFICES ASSUME NEW b \in Aborts PROVE Counted(b)'
    BY DEF Counts
  <2>2. CASE b = a
    <3>1. \A u \in Worker : at[u] = a => pc[u] \notin Leaving
      BY <1>2 DEF BInv, Counts, Counted
    <3>2. numAborting'[a] = TotalWorkers - Cardinality(Past(a)')
      <4>1. Past(a)' = Past(a) \union {w}
        BY <1>2, <1>4
      <4> QED BY <4>1, <1>5, <1>6, <1>7
    <3>3. numAborting'[a] = 0 => Past(a) \union {w} = Worker
      BY <1>5, <1>6, <1>7
    <3>4. numAborting'[a] = 0 => \A u \in Worker : pc'[u] \in {"barrier"} \union Leaving
      BY <1>3, <3>3 DEF Past
    <3>5. \A u \in Worker : at[u] = a => pc'[u] \notin Leaving
      BY <1>3, <3>1 DEF Leaving
    <3> QED BY <1>1, <1>2, <1>3, <1>4, <1>6, <2>2, <3>2, <3>4, <3>5 DEF Counted, TotalWorkers
  <2>3. CASE b # a
    BY <1>1, <1>3, <1>4, <1>7, <2>3 DEF BInv, Counts, Counted, TotalWorkers
  <2> QED BY <2>2, <2>3
<1>11. Copied'
  <2>1. Own(w) \intersect Aborts = {}
    BY <1>1, Emptied DEF BInv, Copied, CopiedAt
  <2> QED BY <1>1, <1>3, <2>1, NoMoreCopies DEF Own, queues, slow, Holding, BInv, Copied, CopiedAt
<1> QED BY <1>8, <1>9, <1>10, <1>11 DEF BInv

LEMMA UnwindCounts ==
  ASSUME BInv, NEW w \in Worker, Unwind(w)
  PROVE  BInv'
<1>0. PICK a : a = at[w]
  OBVIOUS
<1> DEFINE to == IF a \in exiting THEN "exited" ELSE IF w = Main THEN "between" ELSE "work"
<1>1. /\ pc[w] = "unwind" /\ pc' = [pc EXCEPT ![w] = to] /\ at' = [at EXCEPT ![w] = None]
      /\ lost' = [lost EXCEPT ![w] = FALSE]
      /\ UNCHANGED <<queues, left, counters, slow, history>>
  BY <1>0 DEF Unwind, Goto
<1>2. a \in Aborts /\ numAborting[a] = 0 /\ at[w] = a
  BY <1>0, <1>1 DEF BInv, TypeOK, Locations, Counts, Counted, Running, Leaving
<1>3. to \in {"exited", "between", "work"} /\ to \in PCs
  BY DEF PCs
<1> HIDE DEF to
<1>4. /\ pc'[w] = to /\ at'[w] = None
      /\ \A u \in Worker \ {w} : pc'[u] = pc[u] /\ at'[u] = at[u]
      /\ pc' \in [Worker -> PCs] /\ at' \in [Worker -> Aborts \union {None}]
  BY <1>1, <1>3 DEF BInv, TypeOK
<1>5. TypeOK'
  BY <1>1, <1>4 DEF BInv, TypeOK, QueuesTypeOK, queues, counters, slow, history
<1>6. Locations'
  BY <1>3, <1>4 DEF BInv, Locations, Running, Entered, Leaving
<1>7. Counts'
  <2>1. \A b \in Aborts \ {a} : In(b)' = In(b) /\ Past(b)' = Past(b)
    BY <1>2, <1>4, AbortAssumption DEF In, Past
  <2>2. \A b \in Aborts : \A u \in Worker : at'[u] = b => at[u] = b /\ pc'[u] = pc[u]
    BY <1>4, AbortAssumption
  <2> QED BY <1>1, <1>2, <2>1, <2>2 DEF BInv, Counts, Counted, counters, TotalWorkers
<1>8. Copied'
  BY <1>1, <1>3, <1>4, NoMoreCopies DEF Own, queues, slow, Holding, BInv, Copied, CopiedAt
<1> QED BY <1>5, <1>6, <1>7, <1>8 DEF BInv

LEMMA GpuCompletesCounts ==
  ASSUME BInv, NEW v \in Worker, NEW t \in Work, GpuCompletes(v, t)
  PROVE  BInv'
<1>1. /\ Inject(v, t) /\ \E b \in 1 .. trial : born' = [born EXCEPT ![t] = b]
      /\ stray' \in BOOLEAN
      /\ UNCHANGED <<control, counters, slow, trial, cancelled, failed>>
  BY Zenon DEF GpuCompletes
<1>2. t \in Task /\ t \notin Aborts
  BY AbortAssumption
<1>3. /\ QueuesTypeOK' /\ ondeck' = ondeck /\ deque' = deque
      /\ \A u \in Worker : Own(u)' \intersect Aborts = Own(u) \intersect Aborts
  BY <1>1, <1>2, Injected DEF BInv, TypeOK
<1>4. TypeOK'
  BY <1>1, <1>3 DEF BInv, TypeOK, control, counters, slow
<1>5. Locations' /\ Counts'
  BY <1>1 DEF BInv, Locations, Counts, Counted, In, Past, control, counters
<1>6. Copied'
  BY <1>1, <1>3 DEF BInv, Copied, CopiedAt, control, slow
<1> QED BY <1>4, <1>5, <1>6 DEF BInv

LEMMA SpawnCounts ==
  ASSUME BInv, NEW w \in Worker, NEW t \in Work, Spawn(w, t)
  PROVE  BInv'
<1>1. /\ pc[w] = "busy" /\ pc' = [pc EXCEPT ![w] = "busy"]
      /\ Give(w, t) /\ born' = [born EXCEPT ![t] = trial]
      /\ UNCHANGED <<at, lost, left, counters, trial, cancelled, failed, stray>>
  BY DEF Spawn, Goto
<1>2. t \in Task /\ t \notin Aborts
  BY AbortAssumption
<1>3. pc' = pc
  BY <1>1 DEF BInv, TypeOK
<1>4. /\ QueuesTypeOK' /\ thief' = thief
      /\ blind' \in [Worker -> BOOLEAN] /\ raised' \in [Worker -> BOOLEAN]
      /\ Own(w)' = Own(w) \union {t}
      /\ \A u \in Worker \ {w} : /\ Own(u)' = Own(u) /\ blind'[u] = blind[u]
                                 /\ ondeck'[u] = ondeck[u] /\ deque'[u] = deque[u]
      /\ blind'[w] => thief[w] # None
  BY <1>1, <1>2, Given
<1>5. TypeOK'
  <2>1. born' \in [Work -> 0 .. trial]
    BY <1>1 DEF BInv, TypeOK
  <2> QED BY <1>1, <1>3, <1>4, <2>1 DEF BInv, TypeOK, counters
<1>6. Locations' /\ Counts'
  <2>1. UNCHANGED <<pc, at, numLive, numAborting>>
    BY <1>1, <1>3 DEF counters
  <2> QED BY <2>1 DEF BInv, Locations, Counts, Counted, In, Past
<1>7. Copied'
  <2>1. ASSUME NEW u \in Worker \ {w} PROVE CopiedAt(u)'
    BY <1>1, <1>3, <1>4 DEF BInv, Copied, CopiedAt
  <2>2. CopiedAt(w)'
    BY <1>1, <1>2, <1>3, <1>4 DEF BInv, Copied, CopiedAt, Holding
  <2> QED BY <2>1, <2>2 DEF Copied
<1> QED BY <1>5, <1>6, <1>7 DEF BInv

LEMMA PushCopyCounts ==
  ASSUME BInv, NEW w \in Worker, PushCopy(w)
  PROVE  BInv'
<1>1. /\ pc[w] = "push" /\ pc' = [pc EXCEPT ![w] = "push"]
      /\ left[w] > 0 /\ left' = [left EXCEPT ![w] = @ - 1]
      /\ Give(w, at[w])
      /\ UNCHANGED <<at, lost, counters, history>>
  BY DEF PushCopy, Goto
<1>2. at[w] \in Aborts /\ at[w] \in Task
  BY <1>1, AbortAssumption DEF BInv, TypeOK, Locations, Running, Entered
<1>3. pc' = pc
  BY <1>1 DEF BInv, TypeOK
<1>4. /\ left[w] \in 0 .. Copies /\ left'[w] = left[w] - 1 /\ Copies \in Nat \ {0, 1, 2}
      /\ left' \in [Worker -> 0 .. Copies] /\ \A u \in Worker \ {w} : left'[u] = left[u]
  BY <1>1, AbortAssumption DEF BInv, TypeOK
<1>5. /\ QueuesTypeOK' /\ thief' = thief
      /\ blind' \in [Worker -> BOOLEAN] /\ raised' \in [Worker -> BOOLEAN]
      /\ Own(w)' = Own(w) \union {at[w]} /\ ondeck'[w] # None
      /\ ondeck[w] # None => deque'[w] # <<>>
      /\ \A u \in Worker \ {w} : /\ Own(u)' = Own(u) /\ blind'[u] = blind[u]
                                 /\ ondeck'[u] = ondeck[u] /\ deque'[u] = deque[u]
      /\ blind'[w] => thief[w] # None
      /\ blind[w] => ondeck[w] = None
      /\ blind'[w] /\ ~blind[w] => ondeck[w] # None /\ deque[w] = <<>>
  BY <1>1, <1>2, Given
<1>6. TypeOK'
  BY <1>1, <1>3, <1>4, <1>5 DEF BInv, TypeOK, counters, history
<1>7. Locations' /\ Counts'
  BY <1>1, <1>3 DEF BInv, Locations, Counts, Counted, In, Past, counters
<1>8. Copied'
  <2>1. ASSUME NEW u \in Worker \ {w} PROVE CopiedAt(u)'
    BY <1>1, <1>3, <1>4, <1>5 DEF BInv, Copied, CopiedAt
  <2>2. /\ \A a \in Own(w) \intersect Aborts : at[w] = a
        /\ thief[w] # None /\ deque[w] = <<>> =>
             left[w] \in {0, Copies} \/ (left[w] = Copies - 1 /\ ondeck[w] # None)
        /\ ondeck[w] = None => left[w] \in {0, Copies}
    BY <1>1 DEF BInv, Copied, CopiedAt
  <2>3. \A a \in Own(w)' \intersect Aborts : at'[w] = a /\ pc'[w] \in Holding
    BY <1>1, <1>3, <1>5, <2>2 DEF Holding
  <2>4. blind'[w] => left'[w] > 0
    BY <1>1, <1>4, <1>5, <2>2
  <2>5. thief'[w] # None /\ deque'[w] = <<>> => left'[w] = Copies - 1 /\ ondeck'[w] # None
    BY <1>1, <1>4, <1>5, <2>2
  <2>6. CopiedAt(w)'
    BY <1>1, <1>3, <1>5, <2>3, <2>4, <2>5 DEF CopiedAt
  <2> QED BY <2>1, <2>6 DEF Copied
<1> QED BY <1>6, <1>7, <1>8 DEF BInv

LEMMA CancelOwnCounts ==
  ASSUME BInv, NEW w \in Worker, NEW t \in Task, CancelOwn(w, t)
  PROVE  BInv'
<1>1. /\ pc[w] \in {"giveUp", "cancelOwn"} /\ pc' = [pc EXCEPT ![w] = pc[w]]
      /\ PopLocal(w, t, blind[w]) /\ cancelled' = cancelled \union {t}
      /\ UNCHANGED <<at, lost, left, counters, slow, born, trial, failed, stray>>
  BY DEF CancelOwn, Goto, Pop
<1>2. pc' = pc
  BY <1>1 DEF BInv, TypeOK
<1>3. Taken(w, t)
  BY <1>1, Popped DEF BInv, TypeOK
<1>4. TypeOK'
  BY <1>1, <1>2, <1>3 DEF BInv, TypeOK, Taken, counters, slow
<1>5. Locations' /\ Counts'
  <2>1. UNCHANGED <<pc, at, numLive, numAborting>>
    BY <1>1, <1>2 DEF counters
  <2> QED BY <2>1 DEF BInv, Locations, Counts, Counted, In, Past
<1>6. Copied'
  BY <1>1, <1>2, <1>3, NoMoreCopies DEF BInv, Copied, CopiedAt, Taken, Holding, slow
<1> QED BY <1>4, <1>5, <1>6 DEF BInv

LEMMA DrainCounts ==
  ASSUME BInv, NEW w \in Worker, NEW t \in Task, Drain(w, t)
  PROVE  BInv'
<1>1. /\ pc[w] = "drain" /\ pc' = [pc EXCEPT ![w] = "drain"]
      /\ PopLocal(w, t, blind[w]) /\ failed' = (t # at[w])
      /\ UNCHANGED <<at, lost, left, counters, slow, born, trial, cancelled, stray>>
  BY DEF Drain, Goto, Pop
<1>2. pc' = pc
  BY <1>1 DEF BInv, TypeOK
<1>3. Taken(w, t)
  BY <1>1, Popped DEF BInv, TypeOK
<1>4. TypeOK'
  BY <1>1, <1>2, <1>3 DEF BInv, TypeOK, Taken, counters, slow
<1>5. Locations' /\ Counts'
  <2>1. UNCHANGED <<pc, at, numLive, numAborting>>
    BY <1>1, <1>2 DEF counters
  <2> QED BY <2>1 DEF BInv, Locations, Counts, Counted, In, Past
<1>6. Copied'
  BY <1>1, <1>2, <1>3, NoMoreCopies DEF BInv, Copied, CopiedAt, Taken, Holding, slow
<1> QED BY <1>4, <1>5, <1>6 DEF BInv

\* What w does with a task it was looking for.
LEMMA Runs ==
  ASSUME BInv, NEW w \in Worker, NEW v \in Worker, NEW t \in Task, t \in Own(v),
         pc[w] = "work",
         pc' = [pc EXCEPT ![w] = IF t \in Aborts THEN "enter" ELSE "busy"],
         at' = IF t \in Aborts THEN [at EXCEPT ![w] = t] ELSE at,
         UNCHANGED <<numLive, numAborting>>
  PROVE  /\ Locations' /\ Counts'
         /\ pc' \in [Worker -> PCs] /\ at' \in [Worker -> Aborts \union {None}]
         /\ \A u \in Worker \ {w} : pc'[u] = pc[u] /\ at'[u] = at[u]
         /\ pc'[w] \in {"enter", "busy"}
<1>1. at[w] = None
  BY DEF BInv, Locations, Running, Entered, Leaving
<1>2. CASE t \in Aborts
  <2>1. numAborting[t] # 0
    BY <1>2 DEF BInv, Copied, CopiedAt, Counts, Counted, Holding, Leaving
  <2>2. Locations' /\ Counts'
    BY <1>1, <1>2, <2>1, Starts
  <2> QED BY <1>2, <2>2 DEF BInv, TypeOK, PCs
<1>3. CASE t \notin Aborts
  <2>1. Locations' /\ Counts'
    BY <1>3, Moved DEF Running, Entered, Leaving, PCs
  <2> QED BY <1>3, <2>1 DEF BInv, TypeOK, PCs
<1> QED BY <1>2, <1>3

LEMMA PopAndRunCounts ==
  ASSUME BInv, NEW w \in Worker, NEW t \in Task, PopAndRun(w, t)
  PROVE  BInv'
<1>1. /\ pc[w] = "work" /\ pc' = [pc EXCEPT ![w] = IF t \in Aborts THEN "enter" ELSE "busy"]
      /\ at' = IF t \in Aborts THEN [at EXCEPT ![w] = t] ELSE at
      /\ PopLocal(w, t, blind[w])
      /\ UNCHANGED <<lost, left, counters, slow, history>>
  BY DEF PopAndRun, Run, Goto, Pop
<1>2. Taken(w, t)
  BY <1>1, Popped DEF BInv, TypeOK
<1>3. /\ Locations' /\ Counts'
      /\ pc' \in [Worker -> PCs] /\ at' \in [Worker -> Aborts \union {None}]
      /\ \A u \in Worker \ {w} : pc'[u] = pc[u] /\ at'[u] = at[u]
      /\ pc'[w] \in {"enter", "busy"}
  BY <1>1, <1>2, Runs DEF Taken, counters
<1>4. TypeOK'
  BY <1>1, <1>2, <1>3 DEF BInv, TypeOK, Taken, counters, slow, history
<1>5. Copied'
  BY <1>1, <1>2, <1>3, NoMoreCopies DEF BInv, Copied, CopiedAt, Taken, Holding, slow
<1> QED BY <1>3, <1>4, <1>5 DEF BInv

LEMMA Robbed ==
  ASSUME BInv, NEW w \in Worker, NEW v \in Worker, NEW t, Rob(w, v, t)
  PROVE  /\ v # w /\ Taken(v, t) /\ ondeck' = ondeck /\ thief[v] = None
         /\ raised' \in [Worker -> BOOLEAN] /\ UNCHANGED <<thief, blind>>
<1>1. /\ v # w /\ thief[v] = None /\ Steal(v, t) /\ UNCHANGED <<thief, blind>>
      /\ \E b : b \in BOOLEAN /\ raised' = [raised EXCEPT ![v] = b]
  <2>1. (raised[v] \/ (SlowThieves /\ deque'[v] # deque[v])) \in BOOLEAN
    OBVIOUS
  <2> QED BY <2>1, Zenon DEF Rob, Raise
<1>2. raised' \in [Worker -> BOOLEAN]
  BY <1>1 DEF BInv, TypeOK
<1> QED BY <1>1, <1>2, Stolen DEF BInv, TypeOK

LEMMA StealAndRunCounts ==
  ASSUME BInv, NEW w \in Worker, NEW t \in Task, StealAndRun(w, t)
  PROVE  BInv'
<1>1. /\ pc[w] = "work" /\ pc' = [pc EXCEPT ![w] = IF t \in Aborts THEN "enter" ELSE "busy"]
      /\ at' = IF t \in Aborts THEN [at EXCEPT ![w] = t] ELSE at
      /\ UNCHANGED <<lost, left, counters, history>>
  BY DEF StealAndRun, Run, Goto
<1>2. PICK v \in Worker : Rob(w, v, t)
  BY DEF StealAndRun
<1>3. /\ v # w /\ Taken(v, t) /\ ondeck' = ondeck /\ thief[v] = None
      /\ raised' \in [Worker -> BOOLEAN] /\ UNCHANGED <<thief, blind>>
  BY <1>2, Robbed
<1>4. /\ Locations' /\ Counts'
      /\ pc' \in [Worker -> PCs] /\ at' \in [Worker -> Aborts \union {None}]
      /\ \A u \in Worker \ {w} : pc'[u] = pc[u] /\ at'[u] = at[u]
      /\ pc'[w] \in {"enter", "busy"}
  BY <1>1, <1>3, Runs DEF Taken, counters
<1>5. TypeOK'
  BY <1>1, <1>3, <1>4 DEF BInv, TypeOK, Taken, counters, history
<1>6. Copied'
  BY <1>1, <1>3, <1>4, NoMoreCopies DEF BInv, Copied, CopiedAt, Taken, Holding
<1> QED BY <1>4, <1>5, <1>6 DEF BInv

LEMMA RobVictimCounts ==
  ASSUME BInv, NEW w \in Worker, NEW t \in Task, RobVictim(w, t)
  PROVE  BInv'
<1>1. /\ pc[w] = "rob" /\ \E q \in {"rob", "test"} : pc' = [pc EXCEPT ![w] = q]
      /\ cancelled' \in {cancelled, cancelled \union {t}}
      /\ UNCHANGED <<at, lost, left, counters, born, trial, failed, stray>>
  BY DEF RobVictim, Goto
<1>2. PICK v \in Worker : Rob(w, v, t)
  BY DEF RobVictim
<1>3. /\ v # w /\ Taken(v, t) /\ ondeck' = ondeck /\ thief[v] = None
      /\ raised' \in [Worker -> BOOLEAN] /\ UNCHANGED <<thief, blind>>
  BY <1>2, Robbed
<1>4. PICK q \in {"rob", "test"} : pc' = [pc EXCEPT ![w] = q]
  BY <1>1
<1>5. /\ pc'[w] = q /\ q \in PCs /\ \A u \in Worker \ {w} : pc'[u] = pc[u]
      /\ pc' \in [Worker -> PCs]
  BY <1>4 DEF BInv, TypeOK, PCs, Entered
<1>6. TypeOK'
  BY <1>1, <1>3, <1>5 DEF BInv, TypeOK, Taken, counters
<1>7. Locations' /\ Counts'
  BY <1>1, <1>4, <1>5, Moved DEF Running, Entered, Leaving, counters
<1>8. Copied'
  BY <1>1, <1>3, <1>5, NoMoreCopies DEF BInv, Copied, CopiedAt, Taken, Holding
<1> QED BY <1>6, <1>7, <1>8 DEF BInv

LEMMA SlowStealBeginsCounts ==
  ASSUME BInv, NEW w \in Worker, NEW v \in Worker, SlowStealBegins(w, v)
  PROVE  BInv'
<1>1. /\ deque[v] # <<>> /\ thief[v] = None /\ thief' = [thief EXCEPT ![v] = w]
      /\ pc' = [pc EXCEPT ![w] = pc[w]]
      /\ UNCHANGED <<queues, at, lost, left, counters, blind, raised, history>>
  BY DEF SlowStealBegins, Goto
<1>2. pc' = pc
  BY <1>1 DEF BInv, TypeOK
<1>3. /\ thief'[v] = w /\ \A u \in Worker \ {v} : thief'[u] = thief[u]
      /\ thief' \in [Worker -> Worker \union {None}]
  BY <1>1 DEF BInv, TypeOK
<1>4. TypeOK'
  BY <1>1, <1>2, <1>3 DEF BInv, TypeOK, QueuesTypeOK, queues, counters, history
<1>5. Locations' /\ Counts'
  <2>1. UNCHANGED <<pc, at, numLive, numAborting>>
    BY <1>1, <1>2 DEF counters
  <2> QED BY <2>1 DEF BInv, Locations, Counts, Counted, In, Past
<1>6. Copied'
  BY <1>1, <1>2, <1>3, AbortAssumption DEF BInv, Copied, CopiedAt, Own, queues
<1> QED BY <1>4, <1>5, <1>6 DEF BInv

LEMMA SlowStealEndsCounts ==
  ASSUME BInv, NEW w \in Worker, NEW v \in Worker, SlowStealEnds(w, v)
  PROVE  BInv'
<1>1. /\ thief[v] = w /\ thief' = [thief EXCEPT ![v] = None]
      /\ blind' = [blind EXCEPT ![v] = FALSE]
      /\ UNCHANGED <<lost, left, counters, born, trial, failed, stray>>
  BY DEF SlowStealEnds
<1>2. /\ thief'[v] = None /\ ~blind'[v] 
      /\ \A u \in Worker \ {v} : thief'[u] = thief[u] /\ blind'[u] = blind[u]
      /\ thief' \in [Worker -> Worker \union {None}] /\ blind' \in [Worker -> BOOLEAN]
  BY <1>1 DEF BInv, TypeOK
<1>3. CASE UNCHANGED <<queues, pc, at, raised, cancelled>>
  <2>1. TypeOK'
    BY <1>1, <1>2, <1>3 DEF BInv, TypeOK, QueuesTypeOK, queues, counters
  <2>2. Locations' /\ Counts'
    BY <1>1, <1>3 DEF BInv, Locations, Counts, Counted, In, Past, counters
  <2>3. Copied'
    BY <1>1, <1>2, <1>3 DEF BInv, Copied, CopiedAt, Own, queues
  <2> QED BY <2>1, <2>2, <2>3 DEF BInv
<1>4. CASE deque[v] # <<>> /\ ~UNCHANGED <<queues, pc, at, raised, cancelled>>
  <2>1. PICK t : t = Head(deque[v])
    OBVIOUS
  <2>2. /\ deque' = [deque EXCEPT ![v] = Tail(@)] /\ Raise(v) /\ UNCHANGED <<ondeck, inject>>
        /\ IF pc[w] = "work"
           THEN /\ pc' = [pc EXCEPT ![w] = IF t \in Aborts THEN "enter" ELSE "busy"]
                /\ at' = IF t \in Aborts THEN [at EXCEPT ![w] = t] ELSE at
                /\ UNCHANGED cancelled
           ELSE /\ cancelled' = IF t = at[w] THEN cancelled ELSE cancelled \union {t}
                /\ UNCHANGED <<pc, at>>
    BY <1>4, <2>1 DEF SlowStealEnds
  <2>3. Steal(v, t)
    BY <1>4, <2>1, <2>2 DEF Steal
  <2>4. Taken(v, t) /\ ondeck' = ondeck
    BY <2>3, Stolen DEF BInv, TypeOK
  <2>5. raised' \in [Worker -> BOOLEAN]
    <3>1. \E b : b \in BOOLEAN /\ raised' = [raised EXCEPT ![v] = b]
      <4>1. (raised[v] \/ (SlowThieves /\ deque'[v] # deque[v])) \in BOOLEAN
        OBVIOUS
      <4> QED BY <2>2, <4>1, Zenon DEF Raise
    <3> QED BY <3>1 DEF BInv, TypeOK
  <2>6. CASE pc[w] = "work"
    <3>1. /\ Locations' /\ Counts'
          /\ pc' \in [Worker -> PCs] /\ at' \in [Worker -> Aborts \union {None}]
          /\ \A u \in Worker \ {w} : pc'[u] = pc[u] /\ at'[u] = at[u]
          /\ pc'[w] \in {"enter", "busy"}
      BY <1>1, <2>2, <2>4, <2>6, Runs DEF Taken, counters
    <3>2. TypeOK'
      BY <1>1, <1>2, <2>2, <2>4, <2>5, <2>6, <3>1 DEF BInv, TypeOK, Taken, counters
    <3>3. Copied'
      BY <1>1, <1>2, <2>4, <2>6, <3>1 DEF BInv, Copied, CopiedAt, Taken, Holding
    <3> QED BY <3>1, <3>2, <3>3 DEF BInv
  <2>7. CASE pc[w] # "work"
    <3>1. UNCHANGED <<pc, at>> /\ cancelled' \in {cancelled, cancelled \union {t}}
      BY <2>2, <2>7
    <3>2. TypeOK'
      BY <1>1, <1>2, <2>4, <2>5, <3>1 DEF BInv, TypeOK, Taken, counters
    <3>3. Locations' /\ Counts'
      BY <1>1, <3>1 DEF BInv, Locations, Counts, Counted, In, Past, counters
    <3>4. Copied'
      BY <1>1, <1>2, <2>4, <3>1 DEF BInv, Copied, CopiedAt, Taken, Holding
    <3> QED BY <3>2, <3>3, <3>4 DEF BInv
  <2> QED BY <2>6, <2>7
<1> QED BY <1>3, <1>4 DEF SlowStealEnds

LEMMA UnchangedCounts ==
  ASSUME BInv, UNCHANGED vars
  PROVE  BInv'
<1>1. UNCHANGED <<ondeck, deque, inject, pc, at, lost, left, numLive, numAborting, exiting,
                  lock, thief, blind, raised, born, trial, cancelled, failed, stray>>
  BY DEF vars, queues, control, counters, slow, history
<1>2. TypeOK'
  BY <1>1 DEF BInv, TypeOK, QueuesTypeOK
<1>3. Locations' /\ Counts'
  BY <1>1 DEF BInv, Locations, Counts, Counted, In, Past
<1>4. Copied'
  BY <1>1 DEF BInv, Copied, CopiedAt, Own
<1> QED BY <1>2, <1>3, <1>4 DEF BInv

LEMMA InitCounts == Init => BInv
<1> SUFFICES ASSUME Init PROVE BInv
  OBVIOUS
<1>1. /\ \A w \in Worker : pc[w] \in {"between", "work"} /\ at[w] = None /\ Own(w) = {}
      /\ \A w \in Worker : ~blind[w]
      /\ \A a \in Aborts : numLive[a] = TotalWorkers /\ numAborting[a] = TotalWorkers
  <2>1. ToSet(<<>>) = {}
    BY DEF ToSet
  <2> QED BY <2>1 DEF Init, QueuesInit, Own
<1>2. TypeOK
  <2>1. 0 \in 0 .. Copies /\ TotalWorkers \in 0 .. TotalWorkers /\ 0 \in 0 .. trial /\ trial \in Nat
    BY Counting, AbortAssumption DEF Init
  <2>2. QueuesTypeOK
    BY DEF Init, QueuesInit, QueuesTypeOK
  <2> QED BY <2>1, <2>2 DEF Init, TypeOK, PCs
<1>3. Locations
  BY <1>1 DEF Locations, Running, Entered, Leaving
<1>4. Counts
  <2>1. ASSUME NEW a \in Aborts PROVE In(a) = {} /\ Past(a) = {}
    BY <1>1, AbortAssumption DEF In, Past
  <2>2. Cardinality({}) = 0 /\ TotalWorkers \in Nat \ {0}
    BY FS_EmptySet, Counting
  <2>3. ASSUME NEW a \in Aborts PROVE Counted(a)
    BY <1>1, <2>1, <2>2, AbortAssumption DEF Counted
  <2> QED BY <2>3 DEF Counts
<1>5. Copied
  BY <1>1 DEF Copied, CopiedAt
<1> QED BY <1>2, <1>3, <1>4, <1>5 DEF BInv

LEMMA StepCounts == BInv /\ [Next]_vars => BInv'
<1> SUFFICES ASSUME BInv, [Next]_vars PROVE BInv'
  OBVIOUS
<1>1. CASE UNCHANGED vars
  BY <1>1, UnchangedCounts
<1>2. CASE StartTrial \/ TrialEnds \/ Shutdown \/ Joined
  BY <1>2, StartTrialCounts, TrialEndsCounts, ShutdownCounts, UnchangedCounts DEF Joined
<1>3. CASE \E v \in Worker, t \in Work : GpuCompletes(v, t)
  BY <1>3, GpuCompletesCounts
<1>4. ASSUME NEW w \in Worker,
             \/ \E t \in Work : Spawn(w, t)
             \/ Finish(w) \/ AbortWins(w) \/ AbortLoses(w)
      PROVE  BInv'
  BY <1>4, SpawnCounts, FinishCounts, AbortWinsCounts, AbortLosesCounts
<1>5. ASSUME NEW w \in Worker, RunsAbort(w)
      PROVE  BInv'
  BY <1>5, EnterCounts, CancelOwnEndsCounts, TestCounts, PushCopyCounts, PushEndsCounts,
     RobEndsCounts, ArriveCounts, PassBarrierCounts, UnlockCounts, UnwindCounts,
     CancelOwnCounts, RobVictimCounts, DrainCounts DEF RunsAbort
<1>6. ASSUME NEW w \in Worker,
             \/ Looks(w) \/ Steals(w)
             \/ \E v \in Worker : SlowStealBegins(w, v)
      PROVE  BInv'
  BY <1>6, PopAndRunCounts, StealAndRunCounts, SlowStealEndsCounts, SlowStealBeginsCounts
     DEF Looks, Steals
<1> QED BY <1>1, <1>2, <1>3, <1>4, <1>5, <1>6 DEF Next

\* The counters of an AbortTask, and where copies of it may be, in every
\* reachable state, with slow thieves and injected tasks too.
THEOREM Counters == Spec => []BInv
  BY InitCounts, StepCounts, PTL DEF Spec

\* When _numAborting is 0 every worker that runs the AbortTask has drained its
\* queues, and copies are nowhere else: the AbortTask can be deleted.
THEOREM CopiesAreGone == Spec => []NoCopyLeft
<1>1. BInv => NoCopyLeft
  BY QueuedIsOwn DEF BInv, Counts, Counted, Copied, CopiedAt, NoCopyLeft, Holding, Leaving
<1> QED BY <1>1, Counters, PTL

\* The counters, the static lock and the queues of the workers keep their types.
THEOREM TypeCorrect == Spec => []TypeOK
<1>1. BInv => TypeOK
  BY DEF BInv
<1> QED BY <1>1, Counters, PTL

-----------------------------------------------------------------------------
(* One AbortTask at a time, unless a task escapes.                          *)

LEMMA StepThieves ==
  ASSUME BInv, Thieves, [Next]_vars
  PROVE  Thieves'
<1>0. /\ pc \in [Worker -> PCs] /\ thief \in [Worker -> Worker \union {None}]
      /\ None \notin Worker
  BY AbortAssumption DEF BInv, TypeOK
<1>1. ASSUME UNCHANGED <<pc, thief>> PROVE Thieves'
  BY <1>1 DEF Thieves
<1>2. ASSUME NEW w \in Worker, NEW p, NEW q, Goto(w, p, q), UNCHANGED thief PROVE Thieves'
  <2>1. /\ \A v \in Worker : thief[v] # w
        /\ \A u \in Worker \ {w} : pc'[u] = pc[u]
    BY <1>0, <1>2 DEF Goto
  <2> QED BY <1>0, <1>2, <2>1 DEF Thieves
<1>3. CASE UNCHANGED vars
  BY <1>1, <1>3 DEF vars, control, slow
<1>4. CASE StartTrial \/ TrialEnds \/ Shutdown
  BY <1>2, <1>4, AbortAssumption DEF StartTrial, TrialEnds, Shutdown, slow
<1>5. CASE \E v \in Worker, t \in Work : GpuCompletes(v, t)
  BY <1>1, <1>5 DEF GpuCompletes, control, slow
<1>6. ASSUME NEW w \in Worker, \/ \E t \in Work : Spawn(w, t)
                              \/ Finish(w) \/ AbortWins(w) \/ AbortLoses(w)
      PROVE  Thieves'
  BY <1>2, <1>6 DEF Spawn, Give, Finish, AbortWins, AbortLoses, slow
<1>7. ASSUME NEW w \in Worker, RunsAbort(w) PROVE Thieves'
  <2>1. ASSUME Enter(w) \/ Test(w) \/ PushCopy(w) \/ PushEnds(w) \/ RobEnds(w) \/ Arrive(w)
        PROVE  Thieves'
    BY <1>2, <2>1 DEF Enter, Test, PushCopy, Give, PushEnds, RobEnds, Arrive, slow
  <2>2. ASSUME CancelOwnEnds(w) \/ PassBarrier(w) \/ Unlock(w) \/ Unwind(w)
        PROVE  Thieves'
    BY <1>2, <2>2 DEF CancelOwnEnds, AllCancelled, PopNull, PassBarrier, Unlock, Unwind, slow
  <2>3. ASSUME NEW t \in Task, CancelOwn(w, t) \/ RobVictim(w, t) \/ Drain(w, t)
        PROVE  Thieves'
    BY <1>2, <2>3 DEF CancelOwn, RobVictim, Rob, Drain, Pop, slow
  <2> QED BY <1>7, <2>1, <2>2, <2>3 DEF RunsAbort
<1>8. ASSUME NEW w \in Worker, Looks(w) PROVE Thieves'
  BY <1>2, <1>8 DEF Looks, PopAndRun, StealAndRun, Pop, Rob, Run, slow
<1>9. ASSUME NEW w \in Worker, NEW v \in Worker, SlowStealBegins(w, v) PROVE Thieves'
  <2>1. /\ pc[w] \in {"work", "rob"} /\ \A u \in Worker : thief[u] # w
        /\ pc' = [pc EXCEPT ![w] = pc[w]] /\ thief' = [thief EXCEPT ![v] = w]
    BY <1>9 DEF SlowStealBegins, Goto
  <2>2. pc' = pc /\ thief'[v] = w /\ \A u \in Worker \ {v} : thief'[u] = thief[u]
    BY <1>0, <2>1
  <2> QED BY <1>0, <2>1, <2>2 DEF Thieves
<1>10. ASSUME NEW w \in Worker, NEW v \in Worker, SlowStealEnds(w, v) PROVE Thieves'
  <2>1. /\ thief[v] = w /\ thief' = [thief EXCEPT ![v] = None]
        /\ pc' = pc \/ \E q : pc' = [pc EXCEPT ![w] = q]
    BY <1>10 DEF SlowStealEnds
  <2>2. thief'[v] = None /\ \A u \in Worker \ {v} : thief'[u] = thief[u]
    BY <1>0, <2>1
  <2>3. \A u \in Worker \ {w} : pc'[u] = pc[u]
    BY <1>0, <2>1
  <2> QED BY <1>0, <2>1, <2>2, <2>3 DEF Thieves
<1> QED BY <1>3, <1>4, <1>5, <1>6, <1>7, <1>8, <1>9, <1>10 DEF Next, Joined, Steals

LEMMA Strays ==
  ASSUME [Next]_vars, stray
  PROVE  stray'
<1>1. CASE UNCHANGED vars
  BY <1>1 DEF vars, history
<1>2. CASE StartTrial \/ TrialEnds \/ Shutdown
  BY <1>2 DEF StartTrial, TrialEnds, Shutdown, history
<1>3. CASE \E v \in Worker, t \in Work : GpuCompletes(v, t)
  BY <1>3 DEF GpuCompletes
<1>4. ASSUME NEW w \in Worker, \/ \E t \in Work : Spawn(w, t)
                              \/ Finish(w) \/ AbortWins(w) \/ AbortLoses(w)
      PROVE  stray'
  BY <1>4 DEF Spawn, Finish, AbortWins, AbortLoses, history
<1>5. ASSUME NEW w \in Worker, RunsAbort(w) PROVE stray'
  BY <1>5 DEF RunsAbort, Enter, CancelOwnEnds, Test, PushCopy, PushEnds, RobEnds, Arrive,
     PassBarrier, Unlock, Unwind, CancelOwn, RobVictim, Drain, history
<1>6. ASSUME NEW w \in Worker, Looks(w) \/ Steals(w) \/ \E v \in Worker : SlowStealBegins(w, v)
      PROVE  stray'
  BY <1>6 DEF Looks, PopAndRun, StealAndRun, Run, Steals, SlowStealEnds, SlowStealBegins, history
<1> QED BY <1>1, <1>2, <1>3, <1>4, <1>5, <1>6 DEF Next, Joined

\* A copy in a queue is one of an AbortTask that its owner is running.
LEMMA CopyIsActive ==
  ASSUME BInv, NEW v \in Worker, NEW a \in Own(v) \intersect Aborts
  PROVE  at[v] = a /\ pc[v] \in Holding /\ Active(a)
<1>1. at[v] = a /\ pc[v] \in Holding
  BY DEF BInv, Copied, CopiedAt
<1>2. numAborting[a] # 0
  BY <1>1 DEF BInv, Counts, Counted, Holding, Leaving
<1> QED BY <1>1, <1>2 DEF Active

LEMMA OnlyOne ==
  ASSUME BInv, PInv, NEW a \in Aborts, NEW b \in Aborts, Active(a), Active(b)
  PROVE  a = b
<1>1. /\ IF a \in exiting THEN at[Main] = a ELSE lock # None /\ at[lock] = a
      /\ IF b \in exiting THEN at[Main] = b ELSE lock # None /\ at[lock] = b
  BY DEF PInv, OneAtATime
<1>2. a \in exiting \/ b \in exiting => MainStops
  BY <1>1 DEF MainStops, Active
<1>3. MainStops => a = at[Main] /\ b = at[Main]
  BY DEF PInv, Calm
<1> QED BY <1>1, <1>2, <1>3

\* A step of a worker that goes on with what it is running, or with a body.
LEMMA Quietly ==
  ASSUME BInv, PInv, NEW w \in Worker, NEW q \in PCs, pc' = [pc EXCEPT ![w] = q],
         UNCHANGED <<at, lock, exiting, numAborting, born, trial>>,
         \A u \in Worker : Own(u)' \subseteq Own(u) \union (IF u = w /\ pc[w] = "push"
                                                           THEN {at[w]} ELSE {}),
         pc[w] \notin {"between", "exited"}, q \notin {"between", "exited"},
         pc[w] \in {"work"} \union Parked => q \in {"work"} \union Parked,
         pc[w] \notin {"busy", "giveUp"} => q \notin {"busy", "giveUp"},
         q \in Holding => pc[w] \in Holding \/ Own(w) = {},
         q \in Parked => pc[w] \in Parked,
         q = "unlock" => lock = w, q = "unwind" => lock # w
  PROVE  Clean' /\ OneAtATime' /\ Calm' /\ OneTrial'
<1>1. /\ pc'[w] = q /\ \A u \in Worker \ {w} : pc'[u] = pc[u]
      /\ Main \in Worker
  BY AbortAssumption DEF BInv, TypeOK
<1>2. pc[w] = "push" => at[w] \in Aborts /\ Active(at[w])
  BY DEF BInv, TypeOK, Locations, Running, Entered, Counts, Counted, Leaving, Active
<1>3. Clean'
  <2>1. ASSUME NEW u \in Worker \ {w} PROVE CleanAt(u)'
    BY <1>1 DEF PInv, Clean, CleanAt
  <2>2. CleanAt(w)'
    BY <1>1 DEF PInv, Clean, CleanAt, Holding, Parked, Leaving
  <2> QED BY <2>1, <2>2 DEF Clean
<1>4. \A a : Active(a)' = Active(a)
  BY DEF Active
<1>5. OneAtATime'
  BY <1>1, <1>4 DEF PInv, OneAtATime
<1>6. MainOut' = MainOut /\ MainStops' = MainStops
  BY <1>1 DEF MainOut, MainStops
<1>7. ASSUME MainOut
      PROVE  /\ \A u \in Worker : Own(u)' = {}
             /\ \A u \in Worker : pc'[u] \in {"work", "between", "exited"} \union Parked
             /\ \A a \in Aborts : ~Active(a)'
  BY <1>1, <1>2, <1>4, <1>7 DEF PInv, Calm, Parked, Leaving
<1>8. ASSUME MainStops
      PROVE  /\ \A u \in Worker : Own(u)' \subseteq {at[Main]}
             /\ \A u \in Worker : pc'[u] \notin {"busy", "giveUp", "between"}
             /\ \A a \in Aborts : Active(a)' => a = at[Main]
  BY <1>1, <1>2, <1>4, <1>8 DEF PInv, Calm
<1>9. Calm'
  BY <1>6, <1>7, <1>8 DEF Calm
<1>10. OneTrial'
  <2>1. pc[w] = "push" => at[w] \notin Work
    BY <1>2, AbortAssumption
  <2> QED BY <2>1 DEF PInv, OneTrial
<1> QED BY <1>3, <1>5, <1>9, <1>10

-----------------------------------------------------------------------------
(* One lemma per action: it preserves what holds unless a task escapes.     *)

LEMMA FinishSafe ==
  ASSUME BInv, PInv, NEW w \in Worker, Finish(w)
  PROVE  PInv'
<1>1. /\ pc[w] = "busy" /\ pc' = [pc EXCEPT ![w] = "work"]
      /\ UNCHANGED <<queues, at, lock, exiting, numAborting, slow, history>>
  BY DEF Finish, Goto, counters
<1>2. ("work") \in PCs
  BY <1>1 DEF BInv, TypeOK, PCs, Entered, Leaving
<1>3. \A u \in Worker : Own(u)' = Own(u)
  BY <1>1 DEF Own, queues
<1>5. Clean' /\ OneAtATime' /\ Calm' /\ OneTrial'
  BY <1>1, <1>2, <1>3, Quietly DEF Holding, Parked, Leaving, history
<1> QED BY <1>1, <1>5 DEF PInv, Sound, history

LEMMA AbortLosesSafe ==
  ASSUME BInv, PInv, NEW w \in Worker, AbortLoses(w)
  PROVE  PInv'
<1>1. /\ pc[w] = "busy" /\ pc' = [pc EXCEPT ![w] = "giveUp"]
      /\ UNCHANGED <<queues, at, lock, exiting, numAborting, slow, history>>
  BY DEF AbortLoses, Goto, counters
<1>2. ("giveUp") \in PCs
  BY <1>1 DEF BInv, TypeOK, PCs, Entered, Leaving
<1>3. \A u \in Worker : Own(u)' = Own(u)
  BY <1>1 DEF Own, queues
<1>5. Clean' /\ OneAtATime' /\ Calm' /\ OneTrial'
  BY <1>1, <1>2, <1>3, Quietly DEF Holding, Parked, Leaving, history
<1> QED BY <1>1, <1>5 DEF PInv, Sound, history

LEMMA PushEndsSafe ==
  ASSUME BInv, PInv, NEW w \in Worker, PushEnds(w)
  PROVE  PInv'
<1>1. /\ pc[w] = "push" /\ pc' = [pc EXCEPT ![w] = "rob"]
      /\ UNCHANGED <<queues, at, lock, exiting, numAborting, slow, history>>
  BY DEF PushEnds, Goto, counters
<1>2. ("rob") \in PCs
  BY <1>1 DEF BInv, TypeOK, PCs, Entered, Leaving
<1>3. \A u \in Worker : Own(u)' = Own(u)
  BY <1>1 DEF Own, queues
<1>5. Clean' /\ OneAtATime' /\ Calm' /\ OneTrial'
  BY <1>1, <1>2, <1>3, Quietly DEF Holding, Parked, Leaving, history
<1> QED BY <1>1, <1>5 DEF PInv, Sound, history

LEMMA RobEndsSafe ==
  ASSUME BInv, PInv, NEW w \in Worker, RobEnds(w)
  PROVE  PInv'
<1>1. /\ pc[w] = "rob" /\ pc' = [pc EXCEPT ![w] = "test"]
      /\ UNCHANGED <<queues, at, lock, exiting, numAborting, slow, history>>
  BY DEF RobEnds, Goto, counters
<1>2. ("test") \in PCs
  BY <1>1 DEF BInv, TypeOK, PCs, Entered, Leaving
<1>3. \A u \in Worker : Own(u)' = Own(u)
  BY <1>1 DEF Own, queues
<1>5. Clean' /\ OneAtATime' /\ Calm' /\ OneTrial'
  BY <1>1, <1>2, <1>3, Quietly DEF Holding, Parked, Leaving, history
<1> QED BY <1>1, <1>5 DEF PInv, Sound, history

LEMMA EnterSafe ==
  ASSUME BInv, PInv, NEW w \in Worker, Enter(w)
  PROVE  PInv'
<1>1. /\ pc[w] = "enter" /\ pc' = [pc EXCEPT ![w] = "cancelOwn"]
      /\ UNCHANGED <<queues, at, lock, exiting, numAborting, slow, history>>
  BY DEF Enter, Goto, counters
<1>2. ("cancelOwn") \in PCs
  BY <1>1 DEF BInv, TypeOK, PCs, Entered, Leaving
<1>3. \A u \in Worker : Own(u)' = Own(u)
  BY <1>1 DEF Own, queues
<1>5. Clean' /\ OneAtATime' /\ Calm' /\ OneTrial'
  BY <1>1, <1>2, <1>3, Quietly DEF Holding, Parked, Leaving, history
<1> QED BY <1>1, <1>5 DEF PInv, Sound, history

LEMMA TestSafe ==
  ASSUME BInv, PInv, NEW w \in Worker, Test(w)
  PROVE  PInv'
<1>1. /\ pc[w] = "test" /\ pc' = [pc EXCEPT ![w] =
              IF numLive[at[w]] = 0 THEN "drain" ELSE "push"]
      /\ UNCHANGED <<queues, at, lock, exiting, numAborting, slow, history>>
  BY DEF Test, Goto, counters
<1>2. (IF numLive[at[w]] = 0 THEN "drain" ELSE "push") \in PCs
  BY <1>1 DEF BInv, TypeOK, PCs, Entered, Leaving
<1>3. \A u \in Worker : Own(u)' = Own(u)
  BY <1>1 DEF Own, queues
<1>5. Clean' /\ OneAtATime' /\ Calm' /\ OneTrial'
  BY <1>1, <1>2, <1>3, Quietly DEF Holding, Parked, Leaving, history
<1> QED BY <1>1, <1>5 DEF PInv, Sound, history

LEMMA PassBarrierSafe ==
  ASSUME BInv, PInv, NEW w \in Worker, PassBarrier(w)
  PROVE  PInv'
<1>1. /\ pc[w] = "barrier" /\ pc' = [pc EXCEPT ![w] =
              IF lock = w THEN "unlock" ELSE "unwind"]
      /\ UNCHANGED <<queues, at, lock, exiting, numAborting, slow, history>>
  BY DEF PassBarrier, Goto, counters
<1>2. (IF lock = w THEN "unlock" ELSE "unwind") \in PCs
  BY <1>1 DEF BInv, TypeOK, PCs, Entered, Leaving
<1>3. \A u \in Worker : Own(u)' = Own(u)
  BY <1>1 DEF Own, queues
<1>5. Clean' /\ OneAtATime' /\ Calm' /\ OneTrial'
  BY <1>1, <1>2, <1>3, Quietly DEF Holding, Parked, Leaving, history
<1> QED BY <1>1, <1>5 DEF PInv, Sound, history

\* No task of the worker was hidden.
LEMMA CancelOwnEndsSafe ==
  ASSUME BInv, PInv, ~stray', NEW w \in Worker, CancelOwnEnds(w)
  PROVE  PInv'
<1>1. /\ pc[w] \in {"giveUp", "cancelOwn"}
      /\ pc' = [pc EXCEPT ![w] = IF pc[w] = "giveUp" THEN "work" ELSE "test"]
      /\ PopLocalNull(w, blind[w])
      /\ stray' = (stray \/ (pc[w] = "cancelOwn" /\ blind[w]))
      /\ UNCHANGED <<queues, at, lock, exiting, numAborting,
                     born, trial, cancelled, failed>>
  BY DEF CancelOwnEnds, Goto, counters, AllCancelled, PopNull, LooksAgain
<1>2. (IF pc[w] = "giveUp" THEN "work" ELSE "test") \in PCs
  BY <1>1 DEF PCs, Entered
<1>3. \A u \in Worker : Own(u)' = Own(u)
  BY <1>1 DEF Own, queues
<1>4. pc[w] = "cancelOwn" => Own(w) = {}
  <2>1. pc[w] = "cancelOwn" => ~blind[w]
    BY <1>1, Zenon
  <2> QED BY <1>1, <2>1, Emptied
<1>5. Clean' /\ OneAtATime' /\ Calm' /\ OneTrial'
  BY <1>1, <1>2, <1>3, <1>4, Quietly DEF Holding, Parked, Leaving
<1> QED BY <1>1, <1>5 DEF PInv, Sound

LEMMA PushCopySafe ==
  ASSUME BInv, PInv, NEW w \in Worker, PushCopy(w)
  PROVE  PInv'
<1>1. /\ pc[w] = "push" /\ pc' = [pc EXCEPT ![w] = "push"]
      /\ Give(w, at[w])
      /\ UNCHANGED <<at, lock, exiting, numAborting, history>>
  BY DEF PushCopy, Goto, counters
<1>2. at[w] \in Task
  BY <1>1, AbortAssumption DEF BInv, TypeOK, Locations, Running, Entered
<1>3. /\ thief' = thief /\ (blind'[w] => thief[w] # None)
      /\ Own(w)' = Own(w) \union {at[w]}
      /\ \A u \in Worker \ {w} : Own(u)' = Own(u) /\ blind'[u] = blind[u]
  BY <1>1, <1>2, Given
<1>5. Clean' /\ OneAtATime' /\ Calm' /\ OneTrial'
  BY <1>1, <1>3, Quietly DEF Holding, Parked, Leaving, history, PCs, Entered
<1> QED BY <1>1, <1>5 DEF PInv, Sound, history

\* What a body cancels is its own: no copy is there.
LEMMA CancelOwnSafe ==
  ASSUME BInv, PInv, NEW w \in Worker, NEW t \in Task, CancelOwn(w, t)
  PROVE  PInv'
<1>1. /\ pc[w] \in {"giveUp", "cancelOwn"} /\ pc' = [pc EXCEPT ![w] = pc[w]]
      /\ PopLocal(w, t, blind[w]) /\ cancelled' = cancelled \union {t}
      /\ UNCHANGED <<at, lock, exiting, numAborting, slow, born, trial, failed>>
  BY DEF CancelOwn, Goto, Pop, counters
<1>2. Taken(w, t)
  BY <1>1, Popped DEF BInv, TypeOK
<1>4. Clean' /\ OneAtATime' /\ Calm' /\ OneTrial'
  BY <1>1, <1>2, Quietly DEF Taken, Holding, Parked, Leaving, BInv, TypeOK
<1>5. t \notin Aborts
  BY <1>1, <1>2, CopyIsActive DEF Taken, Holding
<1> QED BY <1>1, <1>4, <1>5 DEF PInv, Sound

LEMMA DrainSafe ==
  ASSUME BInv, PInv, NEW w \in Worker, NEW t \in Task, Drain(w, t)
  PROVE  PInv'
<1>1. /\ pc[w] = "drain" /\ pc' = [pc EXCEPT ![w] = "drain"]
      /\ PopLocal(w, t, blind[w]) /\ failed' = (t # at[w])
      /\ UNCHANGED <<at, lock, exiting, numAborting, slow, born, trial, cancelled>>
  BY DEF Drain, Goto, Pop, counters
<1>2. Taken(w, t)
  BY <1>1, Popped DEF BInv, TypeOK
<1>4. Clean' /\ OneAtATime' /\ Calm' /\ OneTrial'
  BY <1>1, <1>2, Quietly DEF Taken, Holding, Parked, Leaving, PCs, Entered
<1>5. t = at[w]
  BY <1>1, <1>2 DEF Taken, PInv, Clean, CleanAt, Holding
<1> QED BY <1>1, <1>4, <1>5 DEF PInv, Sound

\* The copy that a robber finds is one of its own AbortTask: there is no other.
LEMMA RobVictimSafe ==
  ASSUME BInv, PInv, NEW w \in Worker, NEW t \in Task, RobVictim(w, t)
  PROVE  PInv'
<1>1. /\ pc[w] = "rob" /\ \E q \in {"rob", "test"} : pc' = [pc EXCEPT ![w] = q]
      /\ cancelled' = IF t # at[w] THEN cancelled \union {t} ELSE cancelled
      /\ UNCHANGED <<at, lock, exiting, numAborting, born, trial, failed>>
  BY DEF RobVictim, Goto, ForeignTask, counters
<1>2. PICK v \in Worker : Rob(w, v, t)
  BY DEF RobVictim
<1>3. Taken(v, t) /\ UNCHANGED <<thief, blind>>
  BY <1>2, Robbed
<1>5. Clean' /\ OneAtATime' /\ Calm' /\ OneTrial'
  <2>1. PICK q \in {"rob", "test"} : pc' = [pc EXCEPT ![w] = q]
    BY <1>1
  <2> QED BY <1>1, <1>3, <2>1, Quietly DEF Taken, Holding, Parked, Leaving, PCs, Entered
<1>6. at[w] \in Aborts /\ Active(at[w])
  BY <1>1 DEF BInv, TypeOK, Locations, Running, Entered, Counts, Counted, Leaving, Active
<1>7. t \in Aborts => t = at[w]
  BY <1>3, <1>6, CopyIsActive, OnlyOne DEF Taken
<1> QED BY <1>1, <1>5, <1>7 DEF PInv, Sound

LEMMA SpawnSafe ==
  ASSUME BInv, PInv, NEW w \in Worker, NEW t \in Work, Spawn(w, t)
  PROVE  PInv'
<1>1. /\ pc[w] = "busy" /\ pc' = [pc EXCEPT ![w] = "busy"]
      /\ Give(w, t) /\ born[t] = 0 /\ born' = [born EXCEPT ![t] = trial]
      /\ UNCHANGED <<at, lock, exiting, numAborting, trial, cancelled, failed>>
  BY DEF Spawn, Goto, counters
<1>2. pc' = pc /\ t \in Task
  BY <1>1, AbortAssumption DEF BInv, TypeOK
<1>3. /\ thief' = thief /\ (blind'[w] => thief[w] # None)
      /\ Own(w)' = Own(w) \union {t}
      /\ \A u \in Worker \ {w} : Own(u)' = Own(u) /\ blind'[u] = blind[u]
  BY <1>1, <1>2, Given
<1>5. Clean'
  <2>1. ASSUME NEW u \in Worker PROVE CleanAt(u)'
    BY <1>1, <1>2, <1>3 DEF PInv, Clean, CleanAt, Holding, Parked, Leaving
  <2> QED BY <2>1 DEF Clean
<1>6. OneAtATime'
  BY <1>1, <1>2 DEF PInv, OneAtATime, Active
<1>7. ~MainOut /\ ~MainStops
  BY <1>1 DEF PInv, Calm, Parked, Leaving
<1>8. Calm'
  BY <1>1, <1>2, <1>7 DEF Calm, MainOut, MainStops
<1>9. born'[t] = trial /\ \A s \in Work \ {t} : born'[s] = born[s]
  BY <1>1 DEF BInv, TypeOK
<1>10. OneTrial'
  BY <1>1, <1>3, <1>9 DEF PInv, OneTrial
<1> QED BY <1>1, <1>5, <1>6, <1>8, <1>10 DEF PInv, Sound

\* Between trials nothing is queued and nothing runs.
LEMMA StartTrialSafe ==
  ASSUME BInv, PInv, StartTrial
  PROVE  PInv'
<1>1. /\ pc[Main] = "between" /\ pc' = [pc EXCEPT ![Main] = "busy"]
      /\ UNCHANGED <<queues, at, lock, exiting, numAborting, slow, cancelled, failed>>
      /\ Main \in Worker
  BY AbortAssumption DEF StartTrial, Goto, counters
<1>2. /\ pc'[Main] = "busy" /\ \A u \in Worker \ {Main} : pc'[u] = pc[u]
  BY <1>1 DEF BInv, TypeOK
<1>3. \A u \in Worker : Own(u)' = Own(u) /\ Own(u) = {}
  BY <1>1 DEF Own, queues, PInv, Calm, MainOut
<1>4. Clean'
  <2>1. ASSUME NEW u \in Worker PROVE CleanAt(u)'
    BY <1>2, <1>3 DEF PInv, Clean, CleanAt
  <2> QED BY <2>1 DEF Clean
<1>5. OneAtATime'
  <2>1. \A u \in Worker : pc'[u] = "unlock" => pc[u] = "unlock"
    BY <1>2
  <2>2. lock' # None => pc'[lock'] # "unwind"
    BY <1>1, <1>2 DEF PInv, OneAtATime, BInv, TypeOK
  <2> QED BY <1>1, <2>1, <2>2 DEF PInv, OneAtATime, Active
<1>6. at[Main] = None /\ None \notin exiting
  BY <1>1, AbortAssumption DEF BInv, TypeOK, Locations, Running, Entered, Leaving
<1>7. Calm'
  BY <1>1, <1>2, <1>6 DEF Calm, MainOut, MainStops
<1>8. OneTrial'
  BY <1>3 DEF OneTrial
<1> QED BY <1>1, <1>4, <1>5, <1>7, <1>8 DEF PInv, Sound

LEMMA TrialEndsSafe ==
  ASSUME BInv, PInv, TrialEnds
  PROVE  PInv'
<1>1. /\ pc[Main] = "work" /\ pc' = [pc EXCEPT ![Main] = "between"]
      /\ UNCHANGED <<queues, at, lock, exiting, numAborting, slow, history>>
      /\ Main \in Worker /\ Queued = {} /\ \A u \in Worker : pc[u] = "work"
  BY AbortAssumption DEF TrialEnds, Goto, counters
<1>2. /\ pc'[Main] = "between" /\ \A u \in Worker \ {Main} : pc'[u] = "work"
  BY <1>1 DEF BInv, TypeOK
<1>3. \A u \in Worker : Own(u)' = {}
  BY <1>1, QueuedIsOwn DEF Own, queues
<1>4. Clean'
  <2>1. ASSUME NEW u \in Worker PROVE CleanAt(u)'
    BY <1>2, <1>3 DEF CleanAt, Parked, Leaving
  <2> QED BY <2>1 DEF Clean
<1>5. /\ \A u \in Worker : at[u] = None
      /\ None \notin exiting
  BY <1>1, AbortAssumption DEF BInv, TypeOK, Locations, Running, Entered, Leaving
<1>6. OneAtATime'
  BY <1>1, <1>2, <1>5, AbortAssumption DEF PInv, OneAtATime, Active, BInv, TypeOK
<1>7. Calm'
  BY <1>1, <1>2, <1>3, <1>5, AbortAssumption DEF Calm, MainStops, Active
<1>8. OneTrial'
  BY <1>3 DEF OneTrial
<1> QED BY <1>1, <1>4, <1>6, <1>7, <1>8 DEF PInv, Sound, history

\* shutdown() is called between trials, so that its AbortTask is the only one.
LEMMA ShutdownSafe ==
  ASSUME BInv, PInv, Shutdown
  PROVE  PInv'
<1>1. PICK a \in Unused : at' = [at EXCEPT ![Main] = a] /\ exiting' = exiting \union {a}
  BY DEF Shutdown
<1>2. /\ pc[Main] = "between" /\ pc' = [pc EXCEPT ![Main] = "enter"]
      /\ UNCHANGED <<queues, lock, numAborting, slow, history>>
      /\ Main \in Worker
  BY AbortAssumption DEF Shutdown, Goto
<1>3. /\ a \in Aborts /\ a # None /\ \A u \in Worker : at[u] # a
      /\ at[Main] = None /\ numAborting[a] # 0
  BY <1>2, Counting, AbortAssumption
     DEF Unused, BInv, Counts, Counted, Locations, Running, Entered, Leaving
<1>4. /\ pc'[Main] = "enter" /\ at'[Main] = a
      /\ \A u \in Worker \ {Main} : pc'[u] = pc[u] /\ at'[u] = at[u]
  BY <1>1, <1>2 DEF BInv, TypeOK
<1>5. /\ \A u \in Worker : Own(u)' = Own(u) /\ Own(u) = {}
      /\ \A u \in Worker : pc[u] \in {"work", "between", "exited"} \union Parked
      /\ \A b \in Aborts : ~Active(b)
  BY <1>2 DEF Own, queues, PInv, Calm, MainOut
<1>6. Clean'
  <2>1. ASSUME NEW u \in Worker PROVE CleanAt(u)'
    BY <1>4, <1>5 DEF PInv, Clean, CleanAt, Holding, Parked, Leaving
  <2> QED BY <2>1 DEF Clean
<1>7. \A b \in Aborts : Active(b)' => b = a
  BY <1>1, <1>2, <1>4, <1>5 DEF Active
<1>8. OneAtATime'
  <2>1. lock' # None => /\ at'[lock'] # None /\ at'[lock'] \notin exiting'
                        /\ pc'[lock'] # "unwind"
    BY <1>1, <1>2, <1>3, <1>4 DEF PInv, OneAtATime, BInv, TypeOK
  <2>2. \A b \in exiting' : at'[Main] = b \/ numAborting'[b] = 0
    <3>1. \A b \in exiting : numAborting[b] = 0
      BY <1>3, AbortAssumption DEF PInv, OneAtATime, BInv, TypeOK
    <3> QED BY <1>1, <1>2, <1>4, <3>1
  <2>3. \A u \in Worker : pc'[u] = "unlock" => lock' = u
    BY <1>2, <1>4 DEF PInv, OneAtATime
  <2> QED BY <1>1, <1>4, <1>7, <2>1, <2>2, <2>3 DEF OneAtATime
<1>9. Calm'
  <2>1. ~MainOut'
    BY <1>2, <1>3, <1>4 DEF MainOut
  <2>2. \A u \in Worker : pc'[u] \notin {"busy", "giveUp", "between"}
    BY <1>4, <1>5 DEF PInv, Clean, CleanAt, Parked, Leaving
  <2> QED BY <1>4, <1>5, <1>7, <2>1, <2>2 DEF Calm
<1>10. OneTrial'
  BY <1>5 DEF OneTrial
<1> QED BY <1>2, <1>6, <1>8, <1>9, <1>10 DEF PInv, Sound, history

\* Nobody has the lock, so no AbortTask made by abort() is at work, and the body
\* that calls abort() shows that none made by shutdown() is.
LEMMA AbortWinsSafe ==
  ASSUME BInv, PInv, NEW w \in Worker, AbortWins(w)
  PROVE  PInv'
<1>1. PICK a \in Unused : at' = [at EXCEPT ![w] = a]
  BY DEF AbortWins
<1>2. /\ pc[w] = "busy" /\ pc' = [pc EXCEPT ![w] = "enter"] /\ lock' = w /\ lock = None
      /\ UNCHANGED <<queues, exiting, numAborting, slow, history>>
  BY DEF AbortWins, Goto, LockIsFree
<1>3. /\ a \in Aborts /\ a # None /\ \A u \in Worker : at[u] # a
      /\ at[w] = None /\ numAborting[a] # 0
  BY <1>2, Counting, AbortAssumption
     DEF Unused, BInv, Counts, Counted, Locations, Running, Entered, Leaving
<1>4. /\ pc'[w] = "enter" /\ at'[w] = a
      /\ \A u \in Worker \ {w} : pc'[u] = pc[u] /\ at'[u] = at[u]
      /\ Main \in Worker /\ None \notin Worker /\ exiting \subseteq Aborts
      /\ None \notin Aborts
  BY <1>1, <1>2, AbortAssumption DEF BInv, TypeOK
<1>5. ~MainOut /\ ~MainStops
  BY <1>2 DEF PInv, Calm, Parked, Leaving
<1>6. a \notin exiting /\ \A b \in Aborts : ~Active(b)
  BY <1>2, <1>3, <1>4, <1>5 DEF PInv, OneAtATime, MainStops, Active
<1>7. \A u \in Worker : Own(u)' = Own(u)
  BY <1>2 DEF Own, queues
<1>8. Clean'
  <2>1. ASSUME NEW u \in Worker PROVE CleanAt(u)'
    BY <1>4, <1>7 DEF PInv, Clean, CleanAt, Holding, Parked, Leaving
  <2> QED BY <2>1 DEF Clean
<1>9. \A b \in Aborts : Active(b)' => b = a
  BY <1>1, <1>2, <1>4, <1>6 DEF Active
<1>10. OneAtATime'
  <2>1. \A b \in exiting : at'[Main] = b \/ numAborting[b] = 0
    BY <1>3, <1>4 DEF PInv, OneAtATime
  <2>2. \A u \in Worker : pc'[u] # "unlock"
    BY <1>2, <1>4 DEF PInv, OneAtATime
  <2> QED BY <1>2, <1>3, <1>4, <1>6, <1>9, <2>1, <2>2 DEF OneAtATime
<1>11. Calm'
  <2>1. ~MainOut'
    BY <1>2, <1>3, <1>4, <1>5 DEF MainOut
  <2>2. ~MainStops'
    BY <1>2, <1>4, <1>5, <1>6 DEF MainStops
  <2> QED BY <2>1, <2>2 DEF Calm
<1>12. OneTrial'
  BY <1>2, <1>7 DEF PInv, OneTrial, history
<1> QED BY <1>2, <1>8, <1>10, <1>11, <1>12 DEF PInv, Sound, history

\* What w runs was taken from the queues of v.
LEMMA RunsSafe ==
  ASSUME BInv, PInv, NEW w \in Worker, NEW v \in Worker, NEW t \in Task, Taken(v, t),
         pc[w] = "work",
         pc' = [pc EXCEPT ![w] = IF t \in Aborts THEN "enter" ELSE "busy"],
         at' = IF t \in Aborts THEN [at EXCEPT ![w] = t] ELSE at,
         UNCHANGED <<lock, exiting, numAborting, history>>
  PROVE  PInv'
<1>1. /\ at[w] = None /\ lock # w /\ Main \in Worker
      /\ None \notin Aborts /\ exiting \subseteq Aborts /\ lock \in Worker \union {None}
  BY AbortAssumption DEF BInv, TypeOK, Locations, Running, Entered, Leaving, PInv, OneAtATime
<1>2. /\ pc'[w] \in {"enter", "busy"} /\ (pc'[w] = "busy" => t \notin Aborts)
      /\ at'[w] = IF t \in Aborts THEN t ELSE None
      /\ \A u \in Worker \ {w} : pc'[u] = pc[u] /\ at'[u] = at[u]
  BY <1>1 DEF BInv, TypeOK
<1>3. t \in Aborts => Active(t) /\ at[v] = t
  BY CopyIsActive DEF Taken
<1>4. Clean'
  <2>1. ASSUME NEW u \in Worker PROVE CleanAt(u)'
    BY <1>2 DEF PInv, Clean, CleanAt, Holding, Parked, Leaving, Taken
  <2> QED BY <2>1 DEF Clean
<1>5. \A b \in Aborts : Active(b)' => Active(b)
  BY <1>1, <1>2, <1>3 DEF Active
<1>6. ~MainOut
  BY DEF Taken, PInv, Calm
<1>7. t \in Aborts /\ w = Main => \A b \in Aborts : Active(b) => b \notin exiting
  BY <1>1 DEF PInv, OneAtATime
<1>8. OneAtATime'
  <2>1. lock' # None => /\ at'[lock'] # None /\ at'[lock'] \notin exiting'
                        /\ pc'[lock'] # "unwind"
    BY <1>1, <1>2 DEF PInv, OneAtATime
  <2>2. ASSUME NEW b \in Aborts, Active(b)'
        PROVE  IF b \in exiting' THEN at'[Main] = b ELSE lock' # None /\ at'[lock'] = b
    <3>1. IF b \in exiting THEN at[Main] = b ELSE lock # None /\ at[lock] = b
      BY <1>5, <2>2 DEF PInv, OneAtATime
    <3> QED BY <1>1, <1>2, <3>1
  <2>3. \A b \in exiting' : at'[Main] = b \/ numAborting'[b] = 0
    BY <1>1, <1>2 DEF PInv, OneAtATime
  <2>4. \A u \in Worker : pc'[u] = "unlock" => lock' = u
    BY <1>2 DEF PInv, OneAtATime
  <2> QED BY <2>1, <2>2, <2>3, <2>4 DEF OneAtATime
<1>9. ~MainOut'
  <2>1. w = Main /\ t \in Aborts => numAborting[t] # 0
    BY <1>3 DEF Active
  <2> QED BY <1>2, <1>6, <2>1 DEF MainOut
<1>10. MainStops' => MainStops
  <2>1. w = Main => at'[Main] \notin exiting
    BY <1>1, <1>2, <1>3, <1>7
  <2> QED BY <1>1, <1>2, <2>1 DEF MainStops
<1>11. Calm'
  <2>1. MainStops => w # Main /\ t = at[Main] /\ t \in Aborts
    BY <1>1 DEF PInv, Calm, MainStops, Taken
  <2>2. MainStops => /\ \A u \in Worker : Own(u)' \subseteq {at'[Main]}
                     /\ \A u \in Worker : pc'[u] \notin {"busy", "giveUp", "between"}
                     /\ \A b \in Aborts : Active(b)' => b = at'[Main]
    BY <1>1, <1>2, <1>5, <2>1 DEF PInv, Calm, Taken
  <2> QED BY <1>9, <1>10, <2>2 DEF Calm
<1>12. OneTrial'
  BY DEF PInv, OneTrial, Taken, history
<1> QED BY <1>4, <1>8, <1>11, <1>12 DEF PInv, Sound, history

\* The last to arrive finds all the others at the barrier, with empty queues.
LEMMA ArriveSafe ==
  ASSUME BInv, PInv, BInv', NEW w \in Worker, Arrive(w)
  PROVE  PInv'
<1>0. PICK a : a = at[w]
  OBVIOUS
<1>1. /\ pc[w] = "drain" /\ pc' = [pc EXCEPT ![w] = "barrier"]
      /\ numAborting' = [numAborting EXCEPT ![a] = @ - 1]
      /\ UNCHANGED <<queues, at, exiting, lock, slow, history>>
      /\ PopLocalNull(w, blind[w])
  BY <1>0 DEF Arrive, Goto, Drained
<1>2. a \in Aborts /\ Active(a)
  BY <1>0, <1>1 DEF BInv, TypeOK, Locations, Counts, Counted, Running, Entered, Leaving, Active
<1>3. /\ pc'[w] = "barrier" /\ \A u \in Worker \ {w} : pc'[u] = pc[u]
      /\ numAborting'[a] = numAborting[a] - 1 /\ numAborting[a] \in Int
      /\ \A b \in Aborts \ {a} : numAborting'[b] = numAborting[b]
  BY <1>1, <1>2 DEF BInv, TypeOK
<1>4. Own(w) = {} /\ \A u \in Worker : Own(u)' = Own(u)
  <2>1. ~blind[w] => Own(w) = {}
    BY <1>1, Emptied
  <2>2. Own(w) \subseteq {a} /\ (blind[w] => Own(w) \intersect Aborts = {})
    BY <1>0, <1>1 DEF PInv, Clean, CleanAt, Holding, BInv, Copied, CopiedAt
  <2> QED BY <1>1, <1>2, <2>1, <2>2 DEF Own, queues
<1>5. Clean'
  <2>1. ASSUME NEW u \in Worker PROVE CleanAt(u)'
    BY <1>1, <1>3, <1>4 DEF PInv, Clean, CleanAt, Holding, Parked, Leaving
  <2> QED BY <2>1 DEF Clean
<1>6. /\ \A b \in Aborts : numAborting'[b] # 0 => Active(b) \/ numAborting[b] # 0
      /\ \A b \in Aborts : Active(b)' => Active(b)
      /\ \A b \in Aborts : numAborting[b] = 0 => numAborting'[b] = 0
  BY <1>1, <1>2, <1>3 DEF Active
<1>7. OneAtATime'
  <2>1. lock' # None => /\ at'[lock'] # None /\ at'[lock'] \notin exiting'
                        /\ pc'[lock'] # "unwind"
    BY <1>1, <1>3 DEF PInv, OneAtATime, BInv, TypeOK
  <2>2. \A b \in exiting' : at'[Main] = b \/ numAborting'[b] = 0
    BY <1>1, <1>6 DEF PInv, OneAtATime, BInv, TypeOK
  <2>3. \A u \in Worker : pc'[u] = "unlock" => lock' = u
    BY <1>1, <1>3 DEF PInv, OneAtATime
  <2>4. \A b \in Aborts : Active(b)' => IF b \in exiting' THEN at'[Main] = b
                                       ELSE lock' # None /\ at'[lock'] = b
    BY <1>1, <1>6 DEF PInv, OneAtATime
  <2> QED BY <2>1, <2>2, <2>3, <2>4 DEF OneAtATime
<1>8. ~MainOut
  BY <1>2 DEF PInv, Calm
<1>9. ASSUME numAborting'[a] = 0 PROVE Calm'
  <2>1. \A u \in Worker : at'[u] = a /\ pc'[u] \in Parked
    <3>1. Past(a)' = Worker
      <4>1. Past(a)' \in SUBSET Worker
        BY DEF Past
      <4>2. Cardinality(Past(a)') = TotalWorkers
        <5>1. /\ numAborting[a] = TotalWorkers - Cardinality(Past(a))
              /\ TotalWorkers \in Nat
          BY <1>2, Counting DEF BInv, Counts, Counted, Active
        <5>2. Past(a)' = Past(a) \union {w} /\ w \notin Past(a) /\ Past(a) \in SUBSET Worker
          BY <1>0, <1>1, <1>3 DEF Past, Leaving
        <5>3. /\ Cardinality(Past(a) \union {w}) = Cardinality(Past(a)) + 1
              /\ Cardinality(Past(a)) \in Nat
          BY <5>2, Counting
        <5> QED BY <1>3, <1>9, <5>1, <5>2, <5>3
      <4> QED BY <4>1, <4>2, Counting
    <3> QED BY <3>1 DEF Past, Parked
  <2>2. \A u \in Worker : Own(u)' = {}
    BY <1>5, <2>1 DEF Clean, CleanAt
  <2>3. Main \in Worker /\ ~MainStops'
    BY <1>9, <2>1, AbortAssumption DEF MainStops
  <2>4. \A b \in Aborts : ~Active(b)'
    BY <1>9, <2>1 DEF Active
  <2> QED BY <2>1, <2>2, <2>3, <2>4 DEF Calm
<1>10. ASSUME numAborting'[a] # 0 PROVE Calm'
  <2>1. ~MainOut'
    <3>1. Main \in Worker /\ at[Main] \in Aborts \union {None}
      BY AbortAssumption DEF BInv, TypeOK
    <3>2. pc'[Main] \notin {"between", "exited"}
      BY <1>3, <1>8, <3>1 DEF MainOut
    <3>3. at[Main] # None => numAborting'[at[Main]] # 0
      BY <1>3, <1>8, <1>10, <3>1 DEF MainOut
    <3> QED BY <1>1, <3>2, <3>3 DEF MainOut
  <2>2. MainStops' => MainStops
    BY <1>1, <1>6 DEF MainStops, BInv, TypeOK
  <2>3. MainStops => /\ \A u \in Worker : Own(u)' \subseteq {at[Main]}
                     /\ \A u \in Worker : pc'[u] \notin {"busy", "giveUp", "between"}
                     /\ \A b \in Aborts : Active(b)' => b = at[Main]
    BY <1>3, <1>4, <1>6 DEF PInv, Calm
  <2> QED BY <1>1, <2>1, <2>2, <2>3 DEF Calm
<1>11. OneTrial'
  BY <1>1, <1>4 DEF PInv, OneTrial, history
<1> QED BY <1>1, <1>5, <1>7, <1>9, <1>10, <1>11
        DEF PInv, Sound, history

\* The lock is given back by its holder, when all have arrived.
LEMMA UnlockSafe ==
  ASSUME BInv, PInv, NEW w \in Worker, Unlock(w)
  PROVE  PInv'
<1>1. /\ pc[w] = "unlock" /\ pc' = [pc EXCEPT ![w] = "unwind"] /\ lock' = None
      /\ UNCHANGED <<queues, at, exiting, numAborting, slow, history>>
  BY DEF Unlock, Goto
<1>2. /\ pc'[w] = "unwind" /\ \A u \in Worker \ {w} : pc'[u] = pc[u]
  BY <1>1 DEF BInv, TypeOK
<1>3. \A u \in Worker : Own(u)' = Own(u)
  BY <1>1 DEF Own, queues
<1>4. Clean'
  <2>1. ASSUME NEW u \in Worker PROVE CleanAt(u)'
    BY <1>1, <1>2, <1>3 DEF PInv, Clean, CleanAt, Holding, Parked, Leaving
  <2> QED BY <2>1 DEF Clean
<1>5. lock = w /\ at[w] \in Aborts /\ numAborting[at[w]] = 0
  BY <1>1 DEF PInv, OneAtATime, BInv, TypeOK, Locations, Counts, Counted, Running, Leaving
<1>6. OneAtATime'
  <2>1. ASSUME NEW b \in Aborts, Active(b)' PROVE b \in exiting' /\ at'[Main] = b
    BY <1>1, <1>5, <2>1 DEF PInv, OneAtATime, Active
  <2>2. \A u \in Worker : pc'[u] # "unlock"
    BY <1>2, <1>5 DEF PInv, OneAtATime
  <2> QED BY <1>1, <2>1, <2>2 DEF PInv, OneAtATime
<1>7. Calm'
  <2>1. MainOut' = MainOut /\ MainStops' = MainStops
    BY <1>1, <1>2, AbortAssumption DEF MainOut, MainStops
  <2>2. \A b : Active(b)' = Active(b)
    BY <1>1 DEF Active
  <2> QED BY <1>1, <1>2, <1>3, <2>1, <2>2 DEF PInv, Calm, Parked, Leaving
<1>8. OneTrial'
  BY <1>1, <1>3 DEF PInv, OneTrial, history
<1> QED BY <1>1, <1>4, <1>6, <1>7, <1>8 DEF PInv, Sound, history

LEMMA UnwindSafe ==
  ASSUME BInv, PInv, NEW w \in Worker, Unwind(w)
  PROVE  PInv'
<1> DEFINE to == IF at[w] \in exiting THEN "exited" ELSE IF w = Main THEN "between" ELSE "work"
<1>1. /\ pc[w] = "unwind" /\ pc' = [pc EXCEPT ![w] = to] /\ at' = [at EXCEPT ![w] = None]
      /\ UNCHANGED <<queues, exiting, lock, numAborting, slow, history>>
  BY DEF Unwind, Goto, counters
<1>2. /\ to \in {"exited", "between", "work"} /\ (to = "between" => w = Main)
      /\ (w = Main => to \in {"exited", "between"})
  OBVIOUS
<1> HIDE DEF to
<1>3. /\ pc'[w] = to /\ at'[w] = None
      /\ \A u \in Worker \ {w} : pc'[u] = pc[u] /\ at'[u] = at[u]
      /\ Main \in Worker /\ None \notin Worker /\ None \notin Aborts
      /\ exiting \subseteq Aborts /\ lock \in Worker \union {None}
  BY <1>1, AbortAssumption DEF BInv, TypeOK
<1>4. at[w] \in Aborts /\ numAborting[at[w]] = 0
  BY <1>1 DEF BInv, TypeOK, Locations, Counts, Counted, Running, Leaving
<1>5. \A u \in Worker : Own(u)' = Own(u)
  BY <1>1 DEF Own, queues
<1>6. Clean'
  <2>1. ASSUME NEW u \in Worker PROVE CleanAt(u)'
    BY <1>1, <1>2, <1>3, <1>5 DEF PInv, Clean, CleanAt, Holding, Parked, Leaving
  <2> QED BY <2>1 DEF Clean
<1>7. \A b \in Aborts : Active(b)' => Active(b)
  BY <1>1, <1>3 DEF Active
<1>8. lock # w
  BY <1>1, <1>3 DEF PInv, OneAtATime
<1>9. OneAtATime'
  <2>1. lock' # None => /\ at'[lock'] # None /\ at'[lock'] \notin exiting'
                        /\ pc'[lock'] # "unwind"
    BY <1>1, <1>3, <1>8 DEF PInv, OneAtATime
  <2>2. ASSUME NEW b \in Aborts, Active(b)'
        PROVE  IF b \in exiting' THEN at'[Main] = b ELSE lock' # None /\ at'[lock'] = b
    <3>1. /\ IF b \in exiting THEN at[Main] = b ELSE lock # None /\ at[lock] = b
          /\ b # at[w]
      BY <1>4, <1>7, <2>2 DEF PInv, OneAtATime, Active
    <3> QED BY <1>1, <1>3, <1>8, <3>1
  <2>3. \A b \in exiting' : at'[Main] = b \/ numAborting'[b] = 0
    BY <1>1, <1>3, <1>4 DEF PInv, OneAtATime
  <2>4. \A u \in Worker : pc'[u] = "unlock" => lock' = u
    BY <1>1, <1>2, <1>3 DEF PInv, OneAtATime
  <2> QED BY <2>1, <2>2, <2>3, <2>4 DEF OneAtATime
<1>10. Calm'
  <2>1. MainOut' => MainOut
    BY <1>1, <1>3, <1>4 DEF MainOut
  <2>2. MainStops' => MainStops /\ w # Main
    BY <1>1, <1>3 DEF MainStops
  <2>3. MainOut => /\ \A u \in Worker : Own(u)' = {}
                   /\ \A u \in Worker : pc'[u] \in {"work", "between", "exited"} \union Parked
                   /\ \A b \in Aborts : ~Active(b)'
    BY <1>2, <1>3, <1>5, <1>7 DEF PInv, Calm
  <2>4. MainStops /\ w # Main =>
          /\ \A u \in Worker : Own(u)' \subseteq {at'[Main]}
          /\ \A u \in Worker : pc'[u] \notin {"busy", "giveUp", "between"}
          /\ \A b \in Aborts : Active(b)' => b = at'[Main]
    BY <1>2, <1>3, <1>5, <1>7 DEF PInv, Calm
  <2> QED BY <2>1, <2>2, <2>3, <2>4 DEF Calm
<1>11. OneTrial'
  BY <1>1, <1>5 DEF PInv, OneTrial, history
<1> QED BY <1>1, <1>6, <1>9, <1>10, <1>11 DEF PInv, Sound, history

LEMMA PopAndRunSafe ==
  ASSUME BInv, PInv, NEW w \in Worker, NEW t \in Task, PopAndRun(w, t)
  PROVE  PInv'
<1>1. PopLocal(w, t, blind[w])
  BY DEF PopAndRun, Pop
<1>2. Taken(w, t)
  BY <1>1, Popped DEF BInv, TypeOK
<1> QED BY <1>2, RunsSafe DEF PopAndRun, Pop, Run, Goto, counters, slow

LEMMA StealAndRunSafe ==
  ASSUME BInv, PInv, NEW w \in Worker, NEW t \in Task, StealAndRun(w, t)
  PROVE  PInv'
<1>1. PICK v \in Worker : Rob(w, v, t)
  BY DEF StealAndRun
<1>2. Taken(v, t) /\ UNCHANGED <<thief, blind>>
  BY <1>1, Robbed
<1> QED BY <1>2, RunsSafe DEF StealAndRun, Run, Goto, counters

LEMMA SameSafe ==
  ASSUME PInv, UNCHANGED <<ondeck, deque, inject, pc, at, lock, exiting, numAborting,
                           born, trial, cancelled, failed>>
  PROVE  PInv'
<1>1. \A u : Own(u)' = Own(u)
  BY DEF Own
<1>2. (\A a : Active(a)' = Active(a)) /\ MainOut' = MainOut /\ MainStops' = MainStops
  BY DEF Active, MainOut, MainStops
<1>3. OneAtATime' /\ Sound'
  BY <1>2 DEF PInv, OneAtATime, Sound
<1>4. Clean' /\ Calm' /\ OneTrial'
  BY <1>1, <1>2 DEF PInv, Clean, CleanAt, Calm, OneTrial
<1> QED BY <1>3, <1>4 DEF PInv

\* A task that the GPU makes ready is one of the running trial.
LEMMA GpuCompletesSafe ==
  ASSUME BInv, PInv, ~stray', NEW v \in Worker, NEW t \in Work, GpuCompletes(v, t)
  PROVE  PInv'
<1>1. /\ pc[Main] \notin {"between", "exited"} /\ \A w \in Worker : at[w] = None
      /\ Inject(v, t) /\ born' = [born EXCEPT ![t] = trial]
      /\ UNCHANGED <<pc, at, lock, exiting, numAborting, trial, cancelled, failed>>
  BY DEF GpuCompletes, control, counters
<1>2. Main \in Worker /\ None \notin Aborts /\ exiting \subseteq Aborts /\ t \in Task
  BY AbortAssumption DEF BInv, TypeOK
<1>3. \A u \in Worker : Own(u)' = IF u = v THEN Own(u) \union {t} ELSE Own(u)
  BY <1>1, <1>2, Injected DEF BInv, TypeOK
<1>4. Clean'
  <2>1. ASSUME NEW u \in Worker PROVE CleanAt(u)'
    BY <1>1, <2>1 DEF PInv, Clean, CleanAt, BInv, Locations, Running, Entered, Leaving,
       Holding, Parked
  <2> QED BY <2>1 DEF Clean
<1>5. OneAtATime'
  BY <1>1 DEF PInv, OneAtATime, Active
<1>6. Calm'
  BY <1>1, <1>2 DEF Calm, MainOut, MainStops
<1>7. born'[t] = trial /\ \A s \in Work \ {t} : born'[s] = born[s]
  BY <1>1 DEF BInv, TypeOK
<1>8. OneTrial'
  BY <1>1, <1>3, <1>7 DEF PInv, OneTrial
<1> QED BY <1>1, <1>4, <1>5, <1>6, <1>8 DEF PInv, Sound

\* What a slow thief takes at last it takes like any other.
LEMMA SlowStealEndsSafe ==
  ASSUME BInv, PInv, Thieves, NEW w \in Worker, NEW v \in Worker, SlowStealEnds(w, v)
  PROVE  PInv'
<1>1. UNCHANGED <<lock, exiting, numAborting, born, trial, failed, stray>>
  BY DEF SlowStealEnds, counters
<1>2. CASE UNCHANGED <<queues, pc, at, raised, cancelled>>
  BY <1>1, <1>2, SameSafe DEF queues
<1>3. CASE deque[v] # <<>> /\ ~UNCHANGED <<queues, pc, at, raised, cancelled>>
  <2>1. PICK t : t = Head(deque[v])
    OBVIOUS
  <2>2. /\ deque' = [deque EXCEPT ![v] = Tail(@)] /\ UNCHANGED <<ondeck, inject>>
        /\ IF pc[w] = "work"
           THEN /\ pc' = [pc EXCEPT ![w] = IF t \in Aborts THEN "enter" ELSE "busy"]
                /\ at' = IF t \in Aborts THEN [at EXCEPT ![w] = t] ELSE at
                /\ UNCHANGED cancelled
           ELSE /\ cancelled' = IF t = at[w] THEN cancelled ELSE cancelled \union {t}
                /\ UNCHANGED <<pc, at>>
    BY <1>3, <2>1 DEF SlowStealEnds
  <2>3. Taken(v, t)
    <3>1. Steal(v, t)
      BY <1>3, <2>1, <2>2 DEF Steal
    <3> QED BY <3>1, Stolen DEF BInv, TypeOK
  <2>4. CASE pc[w] = "work"
    BY <1>1, <2>2, <2>3, <2>4, RunsSafe DEF Taken, history
  <2>5. CASE pc[w] # "work"
    <3>1. pc[w] = "rob"
      BY <2>5, AbortAssumption DEF SlowStealEnds, Thieves
    <3>2. pc' = [pc EXCEPT ![w] = "rob"]
      BY <2>2, <3>1 DEF BInv, TypeOK
    <3>3. Clean' /\ OneAtATime' /\ Calm' /\ OneTrial'
      BY <1>1, <2>2, <2>3, <3>1, <3>2, Quietly
         DEF Taken, Holding, Parked, Leaving, PCs, Entered
    <3>4. at[w] \in Aborts /\ Active(at[w])
      BY <3>1 DEF BInv, TypeOK, Locations, Running, Entered, Counts, Counted, Leaving, Active
    <3>5. t \in Aborts => t = at[w]
      BY <2>3, <3>4, CopyIsActive, OnlyOne DEF Taken
    <3> QED BY <1>1, <2>2, <2>5, <3>3, <3>5 DEF PInv, Sound
  <2> QED BY <2>4, <2>5
<1> QED BY <1>2, <1>3 DEF SlowStealEnds

LEMMA InitSafe == Init => PInv
<1> SUFFICES ASSUME Init PROVE PInv
  OBVIOUS
<1>1. /\ \A w \in Worker : /\ pc[w] = IF w = Main THEN "between" ELSE "work"
                           /\ at[w] = None /\ Own(w) = {}
      /\ Main \in Worker
  <2>1. ToSet(<<>>) = {}
    BY DEF ToSet
  <2> QED BY <2>1, AbortAssumption DEF Init, QueuesInit, Own
<1>2. Sound
  BY DEF Init, Sound
<1>3. Clean /\ OneTrial
  BY <1>1 DEF Clean, CleanAt, OneTrial, Holding, Parked, Leaving
<1>4. \A a \in Aborts : ~Active(a)
  BY <1>1, AbortAssumption DEF Active
<1>5. lock = None /\ exiting = {}
  BY DEF Init
<1>6. OneAtATime
  BY <1>1, <1>4, <1>5 DEF OneAtATime
<1>7. Calm
  BY <1>1, <1>4, <1>5 DEF Calm, MainStops
<1> QED BY <1>2, <1>3, <1>6, <1>7 DEF PInv

LEMMA StepSafe ==
  ASSUME BInv, Thieves, PInv, [Next]_vars, ~stray'
  PROVE  PInv'
<1>0. BInv'
  BY StepCounts
<1>1. CASE UNCHANGED vars
  BY <1>1, SameSafe DEF vars, queues, control, counters, history
<1>2. CASE StartTrial \/ TrialEnds \/ Shutdown
  BY <1>2, StartTrialSafe, TrialEndsSafe, ShutdownSafe
<1>3. CASE \E v \in Worker, t \in Work : GpuCompletes(v, t)
  BY <1>3, GpuCompletesSafe
<1>4. ASSUME NEW w \in Worker,
             \/ \E t \in Work : Spawn(w, t)
             \/ Finish(w) \/ AbortWins(w) \/ AbortLoses(w)
      PROVE  PInv'
  BY <1>4, SpawnSafe, FinishSafe, AbortWinsSafe, AbortLosesSafe
<1>5. ASSUME NEW w \in Worker, RunsAbort(w)
      PROVE  PInv'
  BY <1>0, <1>5, EnterSafe, CancelOwnEndsSafe, TestSafe, PushCopySafe, PushEndsSafe,
     RobEndsSafe, ArriveSafe, PassBarrierSafe, UnlockSafe, UnwindSafe,
     CancelOwnSafe, RobVictimSafe, DrainSafe DEF RunsAbort
<1>6. ASSUME NEW w \in Worker, Looks(w) \/ Steals(w)
      PROVE  PInv'
  BY <1>6, PopAndRunSafe, StealAndRunSafe, SlowStealEndsSafe DEF Looks, Steals
<1>7. ASSUME NEW w \in Worker, NEW v \in Worker, SlowStealBegins(w, v)
      PROVE  PInv'
  <2>1. pc' = pc
    BY <1>7 DEF SlowStealBegins, Goto, BInv, TypeOK
  <2> QED BY <1>7, <2>1, SameSafe DEF SlowStealBegins, queues, counters, history
<1> QED BY <1>1, <1>2, <1>3, <1>4, <1>5, <1>6, <1>7 DEF Next, Joined

\* A task that has escaped stays so.
LEMMA Contained == Spec => [](BInv /\ Thieves /\ (~stray => PInv))
<1>1. Init => BInv /\ Thieves /\ (~stray => PInv)
  BY InitCounts, InitSafe DEF Init, Thieves
<1>2. BInv /\ Thieves /\ (~stray => PInv) /\ [Next]_vars
        => (BInv /\ Thieves /\ (~stray => PInv))'
  <2>1. SUFFICES ASSUME BInv, Thieves, ~stray => PInv, [Next]_vars
                 PROVE  BInv' /\ Thieves' /\ (~stray' => PInv')
    OBVIOUS
  <2>2. stray => stray'
    BY <2>1, Strays
  <2> QED BY <2>1, <2>2, StepCounts, StepThieves, StepSafe
<1> QED BY <1>1, <1>2, PTL DEF Spec

\* Unless a task has escaped, the drain at the end of AbortTask::run pops
\* nothing but the AbortTask (its JASSERT), however slow the thieves are ...
THEOREM DrainsAreClean == Spec => []FailsByStrays
<1>1. BInv /\ Thieves /\ (~stray => PInv) => FailsByStrays
  BY DEF PInv, Sound, FailsByStrays
<1> QED BY <1>1, Contained, PTL

\* ... no AbortTask is ever cancelled, by its own robbers or by another's ...
THEOREM AbortsAreRun == Spec => []NeverCancelsAbort
<1>1. BInv /\ Thieves /\ (~stray => PInv) => NeverCancelsAbort
  BY DEF PInv, Sound, NeverCancelsAbort
<1> QED BY <1>1, Contained, PTL

\* ... and what is queued is of the trial that the main thread is in.
THEOREM TrialsAreApart == Spec => []TrialsDoNotMix
<1>1. BInv /\ Thieves /\ (~stray => PInv) => TrialsDoNotMix
  BY QueuedIsOwn DEF PInv, OneTrial, TrialsDoNotMix
<1> QED BY <1>1, Contained, PTL
=============================================================================

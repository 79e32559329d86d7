----------------------- MODULE WorkerThreadPoolProofs -----------------------
(***************************************************************************)
(* Proofs about WorkerThreadPool for any set of threads, any table length  *)
(* and any number of rounds, on both machines: whether compareAndSwap is   *)
(* atomic or not.                                                          *)
(*                                                                         *)
(* The inductive invariant has three layers.  Base holds whatever the      *)
(* races leave: the main thread keeps slot 0, what an insert is about to   *)
(* store in _count is past a slot that is taken, and a _count above an     *)
(* empty last slot is still to be lowered by a thread that removes itself. *)
(* Grown counts the slots a round of inserts can reach.  Exact ties each   *)
(* thread to its slot for as long as no insert has done damage.            *)
(***************************************************************************)
EXTENDS WorkerThreadPool, FiniteSetTheorems, TLAPS

\* A thread that has stored itself in its slot and still raises _count.
Raising == {"read", "raised"}

\* A thread has its slot from its store to its removal.
Holding == Raising \union Inserted

\* The main thread is listed first, only there, and never leaves.
MainListed ==
  /\ pool[0] = Main /\ pc[Main] \in Inserted /\ i[Main] = 0
  /\ \A s \in Slot : pool[s] = Main => s = 0

\* Threads are inserted and look for victims, or are removed: never both.
Phases == \/ \A w \in Thread : pc[w] \notin Removing
          \/ \A w \in Thread : pc[w] \notin Inserting \union {"look", "found"}

\* What an insert has found and read; nothing is given up meanwhile.
Seats ==
  \A w \in Thread :
    /\ pc[w] \in {"insert", "store"} \union Raising => i[w] # 0
    /\ pc[w] \in {"store"} \union Raising => i[w] < MaxWorkers
    /\ pc[w] \in Raising => pool[i[w]] # None
    /\ pc[w] \notin Raising => old[w] = 0 /\ new[w] = 0
    /\ new[w] > 0 => pool[new[w] - 1] # None
    /\ pc[w] = "raised" => new[w] > 0

\* A remover that lowers _count has seen the slot below it empty.
Lowering ==
  \A w \in Thread :
    /\ pc[w] \in {"test", "lower", "lowered"} => i[w] < MaxWorkers
    /\ pc[w] \in {"lower", "lowered"} => pool[i[w]] = None

\* A remover that will still look at the last slot.
Busy(w) == \/ pc[w] \in {"scan", "tighten", "lower", "lowered"}
           \/ pc[w] = "test" /\ pool[i[w]] = None
TopHeld == pool[count - 1] # None \/ \E w \in Thread : Busy(w)

Base == TypeOK /\ MainListed /\ Phases /\ Seats /\ Lowering /\ TopHeld

USE PoolAssumption DEF Slot, Inserting, Inserted, Removing, Raising, Holding, Goto, Set

LEMMA BaseInitially == Init => Base
<1> SUFFICES ASSUME Init PROVE Base
  OBVIOUS
<1>1. pool[0] = Main /\ count = 1 /\ \A s \in Slot : pool[s] = IF s = 0 THEN Main ELSE None
  BY DEF Init
<1>2. TypeOK
  <2>1. pool \in [Slot -> Thread \union {None}] /\ count \in 1..MaxWorkers
    BY DEF Init
  <2>2. /\ pc \in [Thread -> Inserting \union Inserted \union Removing \union {"out"}]
        /\ i \in [Thread -> 0..MaxWorkers] /\ rv \in [Thread -> Thread \union {None}]
    BY DEF Init
  <2>3. old \in [Thread -> 0..MaxWorkers] /\ new \in [Thread -> -1..MaxWorkers]
    BY DEF Init
  <2>4. round \in 0..MaxRound
    BY DEF Init
  <2>5. slip \in BOOLEAN /\ atomic \in BOOLEAN
    BY Zenon DEF Init
  <2> QED BY <2>1, <2>2, <2>3, <2>4, <2>5 DEF TypeOK
<1>3. MainListed /\ Phases /\ Seats /\ Lowering /\ TopHeld
  BY <1>1 DEF Init, MainListed, Phases, Seats, Lowering, TopHeld
<1> QED BY <1>2, <1>3 DEF Base

\* Every access of insert(), remove() and getRandom() preserves Base.
LEMMA BasePreserved == Base /\ [Next]_vars => Base'
<1> SUFFICES ASSUME Base, [Next]_vars PROVE Base'
  OBVIOUS
<1> USE DEF Base
<1>1. CASE StartWorkerThreads
  <2>1. TypeOK'
    BY <1>1 DEF StartWorkerThreads, TypeOK, MainListed, Seats, Lowering
  <2>2. MainListed'
    BY <1>1 DEF StartWorkerThreads, TypeOK, MainListed, Seats
  <2>3. Phases'
    BY <1>1 DEF StartWorkerThreads, TypeOK, MainListed, Phases
  <2>4. Seats'
    BY <1>1 DEF StartWorkerThreads, TypeOK, MainListed, Phases, Seats, TopHeld, Busy
  <2>5. Lowering'
    BY <1>1 DEF StartWorkerThreads, TypeOK, MainListed, Phases, Seats, Lowering
  <2>6. TopHeld'
    BY <1>1 DEF StartWorkerThreads, TypeOK, MainListed, Phases, Seats, Lowering,
       TopHeld, Busy
  <2> QED BY <2>1, <2>2, <2>3, <2>4, <2>5, <2>6
<1>2. ASSUME NEW w \in Thread, InsertStart(w) PROVE Base'
  <2>1. TypeOK'
    BY <1>2 DEF InsertStart, FirstSlot, TypeOK, MainListed, Seats, Lowering
  <2>2. MainListed'
    BY <1>2 DEF InsertStart, FirstSlot, TypeOK, MainListed, Seats
  <2>3. Phases'
    BY <1>2 DEF InsertStart, FirstSlot, TypeOK, MainListed, Phases
  <2>4. Seats'
    BY <1>2 DEF InsertStart, FirstSlot, TypeOK, MainListed, Phases, Seats, TopHeld, Busy
  <2>5. Lowering'
    BY <1>2 DEF InsertStart, FirstSlot, TypeOK, MainListed, Phases, Seats, Lowering
  <2>6. TopHeld'
    BY <1>2 DEF InsertStart, FirstSlot, TypeOK, MainListed, Phases, Seats, Lowering,
       TopHeld, Busy
  <2> QED BY <2>1, <2>2, <2>3, <2>4, <2>5, <2>6
<1>3. ASSUME NEW w \in Thread, InsertSwap(w) PROVE Base'
  <2>1. ASSUME pc[w] = "insert", i[w] < MaxWorkers, pool[i[w]] = None, atomic,
               pc' = [pc EXCEPT ![w] = "read"], pool' = [pool EXCEPT ![i[w]] = w],
               UNCHANGED <<count, i, rv, old, new, round, slip, atomic>>
        PROVE  Base'
    <3>1. i[w] \in Slot /\ i[w] # 0 /\ w # Main
      BY <2>1 DEF TypeOK, MainListed, Seats
    <3>2. TypeOK' /\ MainListed' /\ Phases'
      BY <2>1, <3>1 DEF TypeOK, MainListed, Phases
    <3>3. Seats' /\ Lowering' /\ TopHeld'
      BY <2>1, <3>1 DEF TypeOK, MainListed, Phases, Seats, Lowering, TopHeld, Busy
    <3> QED BY <3>2, <3>3
  <2>2. ASSUME pc[w] = "insert", i[w] < MaxWorkers, pool[i[w]] = None,
               pc' = [pc EXCEPT ![w] = "store"],
               UNCHANGED <<pool, count, i, rv, old, new, round, slip, atomic>>
        PROVE  Base'
    <3>1. TypeOK'
      BY <2>2 DEF TypeOK
    <3>2. MainListed' /\ Phases'
      BY <2>2 DEF TypeOK, MainListed, Phases
    <3>3. Seats'
      BY <2>2 DEF TypeOK, MainListed, Phases, Seats
    <3>4. Lowering' /\ TopHeld'
      BY <2>2 DEF TypeOK, Phases, Lowering, TopHeld, Busy
    <3> QED BY <3>1, <3>2, <3>3, <3>4
  <2>3. ASSUME pc[w] = "insert", i[w] < MaxWorkers, pc' = [pc EXCEPT ![w] = "insert"],
               i' = [i EXCEPT ![w] = i[w] + 1],
               UNCHANGED <<pool, count, rv, old, new, round, slip, atomic>>
        PROVE  Base'
    <3>1. TypeOK'
      BY <2>3 DEF TypeOK
    <3>2. MainListed' /\ Phases'
      BY <2>3 DEF TypeOK, MainListed, Phases
    <3>3. Seats'
      BY <2>3 DEF TypeOK, MainListed, Phases, Seats
    <3>4. Lowering' /\ TopHeld'
      BY <2>3 DEF TypeOK, Phases, Lowering, TopHeld, Busy
    <3> QED BY <3>1, <3>2, <3>3, <3>4
  <2> QED BY <1>3, <2>1, <2>2, <2>3 DEF InsertSwap
<1>4. ASSUME NEW w \in Thread, InsertStore(w) PROVE Base'
  <2>1. TypeOK'
    BY <1>4 DEF InsertStore, TypeOK, MainListed, Seats, Lowering
  <2>2. MainListed'
    BY <1>4 DEF InsertStore, TypeOK, MainListed, Seats
  <2>3. Phases'
    BY <1>4 DEF InsertStore, TypeOK, MainListed, Phases
  <2>4. Seats'
    BY <1>4 DEF InsertStore, TypeOK, MainListed, Phases, Seats, TopHeld, Busy
  <2>5. Lowering'
    BY <1>4 DEF InsertStore, TypeOK, MainListed, Phases, Seats, Lowering
  <2>6. TopHeld'
    BY <1>4 DEF InsertStore, TypeOK, MainListed, Phases, Seats, Lowering, TopHeld, Busy
  <2> QED BY <2>1, <2>2, <2>3, <2>4, <2>5, <2>6
<1>5. ASSUME NEW w \in Thread, ReadExpected(w) PROVE Base'
  <2>1. TypeOK'
    BY <1>5 DEF ReadExpected, TypeOK, MainListed, Seats, Lowering
  <2>2. MainListed'
    BY <1>5 DEF ReadExpected, TypeOK, MainListed, Seats
  <2>3. Phases'
    BY <1>5 DEF ReadExpected, TypeOK, MainListed, Phases
  <2>4. Seats'
    BY <1>5 DEF ReadExpected, TypeOK, MainListed, Phases, Seats, TopHeld, Busy
  <2>5. Lowering'
    BY <1>5 DEF ReadExpected, TypeOK, MainListed, Phases, Seats, Lowering
  <2>6. TopHeld'
    BY <1>5 DEF ReadExpected, TypeOK, MainListed, Phases, Seats, Lowering, TopHeld, Busy
  <2> QED BY <2>1, <2>2, <2>3, <2>4, <2>5, <2>6
<1>6. ASSUME NEW w \in Thread, CompareCount(w) PROVE Base'
  <2>1. TypeOK'
    BY <1>6 DEF CompareCount, TypeOK, MainListed, Seats, Lowering
  <2>2. MainListed'
    BY <1>6 DEF CompareCount, TypeOK, MainListed, Seats
  <2>3. Phases'
    BY <1>6 DEF CompareCount, TypeOK, MainListed, Phases
  <2>4. Seats'
    BY <1>6 DEF CompareCount, TypeOK, MainListed, Phases, Seats, TopHeld, Busy
  <2>5. Lowering'
    BY <1>6 DEF CompareCount, TypeOK, MainListed, Phases, Seats, Lowering
  <2>6. TopHeld'
    BY <1>6 DEF CompareCount, TypeOK, MainListed, Phases, Seats, Lowering, TopHeld, Busy
  <2> QED BY <2>1, <2>2, <2>3, <2>4, <2>5, <2>6
<1>7. ASSUME NEW w \in Thread, ReadCount(w) PROVE Base'
  <2>1. TypeOK'
    BY <1>7 DEF ReadCount, TypeOK, MainListed, Seats, Lowering
  <2>2. MainListed'
    BY <1>7 DEF ReadCount, TypeOK, MainListed, Seats
  <2>3. Phases'
    BY <1>7 DEF ReadCount, TypeOK, MainListed, Phases
  <2>4. Seats'
    BY <1>7 DEF ReadCount, TypeOK, MainListed, Phases, Seats, TopHeld, Busy
  <2>5. Lowering'
    BY <1>7 DEF ReadCount, TypeOK, MainListed, Phases, Seats, Lowering
  <2>6. TopHeld'
    BY <1>7 DEF ReadCount, TypeOK, MainListed, Phases, Seats, Lowering, TopHeld, Busy
  <2> QED BY <2>1, <2>2, <2>3, <2>4, <2>5, <2>6
<1>8. ASSUME NEW w \in Thread, RaiseSwap(w) PROVE Base'
  <2>0. /\ pc[w] = "read" /\ old[w] # 0 /\ new[w] > 0 /\ new[w] \in 1..MaxWorkers
        /\ pool[new[w] - 1] # None
    BY <1>8 DEF RaiseSwap, Seats, TypeOK
  <2>1. ASSUME pc' = [pc EXCEPT ![w] = "read"],
               old' = [old EXCEPT ![w] = 0], new' = [new EXCEPT ![w] = 0],
               UNCHANGED <<pool, count, i, rv, round, slip, atomic>>
        PROVE  Base'
    <3>1. TypeOK'
      BY <2>0, <2>1 DEF TypeOK
    <3>2. MainListed' /\ Phases'
      BY <2>0, <2>1 DEF TypeOK, MainListed, Phases
    <3>3. Seats'
      BY <2>0, <2>1 DEF TypeOK, MainListed, Phases, Seats
    <3>4. Lowering' /\ TopHeld'
      BY <2>0, <2>1 DEF TypeOK, Phases, Lowering, TopHeld, Busy
    <3> QED BY <3>1, <3>2, <3>3, <3>4
  <2>2. ASSUME pc' = [pc EXCEPT ![w] = "up"], Raise(w), UNCHANGED <<pool, i, rv, round, atomic>>
        PROVE  Base'
    <3>0. /\ count' = new[w] /\ slip' \in BOOLEAN
          /\ old' = [old EXCEPT ![w] = 0] /\ new' = [new EXCEPT ![w] = 0]
      BY <2>2 DEF Raise
    <3>1. TypeOK'
      BY <2>0, <2>2, <3>0 DEF TypeOK
    <3>2. MainListed' /\ Phases'
      BY <2>0, <2>2, <3>0 DEF TypeOK, MainListed, Phases
    <3>3. Seats'
      BY <2>0, <2>2 DEF Raise, TypeOK, MainListed, Phases, Seats
    <3>4. Lowering' /\ TopHeld'
      BY <2>0, <2>2 DEF Raise, TypeOK, Phases, Lowering, TopHeld, Busy
    <3> QED BY <3>1, <3>2, <3>3, <3>4
  <2>3. ASSUME pc' = [pc EXCEPT ![w] = "raised"],
               UNCHANGED <<pool, count, i, rv, old, new, round, slip, atomic>>
        PROVE  Base'
    <3>1. TypeOK'
      BY <2>0, <2>3 DEF TypeOK
    <3>2. MainListed' /\ Phases'
      BY <2>0, <2>3 DEF TypeOK, MainListed, Phases
    <3>3. Seats'
      BY <2>0, <2>3 DEF TypeOK, MainListed, Phases, Seats
    <3>4. Lowering' /\ TopHeld'
      BY <2>0, <2>3 DEF TypeOK, Phases, Lowering, TopHeld, Busy
    <3> QED BY <3>1, <3>2, <3>3, <3>4
  <2> QED BY <1>8, <2>1, <2>2, <2>3 DEF RaiseSwap
<1>9. ASSUME NEW w \in Thread, RaiseStore(w) PROVE Base'
  <2>1. TypeOK'
    BY <1>9 DEF RaiseStore, Raise, TypeOK, MainListed, Seats, Lowering
  <2>2. MainListed'
    BY <1>9 DEF RaiseStore, Raise, TypeOK, MainListed, Seats
  <2>3. Phases'
    BY <1>9 DEF RaiseStore, Raise, TypeOK, MainListed, Phases
  <2>4. Seats'
    BY <1>9 DEF RaiseStore, Raise, TypeOK, MainListed, Phases, Seats, TopHeld, Busy
  <2>5. Lowering'
    BY <1>9 DEF RaiseStore, Raise, TypeOK, MainListed, Phases, Seats, Lowering
  <2>6. TopHeld'
    BY <1>9 DEF RaiseStore, Raise, TypeOK, MainListed, Phases, Seats, Lowering,
       TopHeld, Busy
  <2> QED BY <2>1, <2>2, <2>3, <2>4, <2>5, <2>6
<1>10. ASSUME NEW w \in Thread, \A v \in Thread : pc[v] \notin Removing, Look(w) PROVE Base'
  <2>0. /\ pc[w] \in {"up", "look"} /\ pc' = [pc EXCEPT ![w] = "found"]
        /\ UNCHANGED <<pool, count, i, old, new, round, slip, atomic>>
        /\ rv' \in [Thread -> Thread \union {None}]
    BY <1>10 DEF Look, TypeOK
  <2>1. TypeOK' /\ MainListed' /\ Phases'
    BY <1>10, <2>0 DEF TypeOK, MainListed, Phases
  <2>2. Seats' /\ Lowering' /\ TopHeld'
    BY <1>10, <2>0 DEF TypeOK, MainListed, Phases, Seats, Lowering, TopHeld, Busy
  <2> QED BY <2>1, <2>2
<1>11. ASSUME NEW w \in Thread, Found(w), \A v \in Thread : pc[v] \notin Removing PROVE Base'
  <2>1. TypeOK'
    BY <1>11 DEF Found, TypeOK, MainListed, Seats, Lowering
  <2>2. MainListed'
    BY <1>11 DEF Found, TypeOK, MainListed, Seats
  <2>3. Phases'
    BY <1>11 DEF Found, TypeOK, MainListed, Phases
  <2>4. Seats'
    BY <1>11 DEF Found, TypeOK, MainListed, Phases, Seats, TopHeld, Busy
  <2>5. Lowering'
    BY <1>11 DEF Found, TypeOK, MainListed, Phases, Seats, Lowering
  <2>6. TopHeld'
    BY <1>11 DEF Found, TypeOK, MainListed, Phases, Seats, Lowering, TopHeld, Busy
  <2> QED BY <2>1, <2>2, <2>3, <2>4, <2>5, <2>6
<1>12. ASSUME NEW w \in Thread, RemoveStart(w) PROVE Base'
  <2>1. TypeOK'
    BY <1>12 DEF RemoveStart, TypeOK, MainListed, Seats, Lowering
  <2>2. MainListed'
    BY <1>12 DEF RemoveStart, TypeOK, MainListed, Seats
  <2>3. Phases'
    BY <1>12 DEF RemoveStart, TypeOK, MainListed, Phases
  <2>4. Seats'
    BY <1>12 DEF RemoveStart, TypeOK, MainListed, Phases, Seats, TopHeld, Busy
  <2>5. Lowering'
    BY <1>12 DEF RemoveStart, TypeOK, MainListed, Phases, Seats, Lowering
  <2>6. TopHeld'
    BY <1>12 DEF RemoveStart, TypeOK, MainListed, Phases, Seats, Lowering, TopHeld, Busy
  <2> QED BY <2>1, <2>2, <2>3, <2>4, <2>5, <2>6
<1>13. ASSUME NEW w \in Thread, Scan(w) PROVE Base'
  <2>1. TypeOK'
    <3>1. \A s \in Slot : [pool EXCEPT ![s] = None] \in [Slot -> Thread \union {None}]
      BY DEF TypeOK
    <3>2. count \in 1..MaxWorkers /\ i[w] \in 0..MaxWorkers
      BY DEF TypeOK
    <3>3. pool' \in [Slot -> Thread \union {None}]
      <4>1. UNCHANGED pool \/ (i[w] \in Slot /\ pool' = [pool EXCEPT ![i[w]] = None])
        BY <1>13, <3>2 DEF Scan, InTable
      <4> QED BY <3>1, <4>1 DEF TypeOK
    <3>4. i' \in [Thread -> 0..MaxWorkers]
      <4>1. UNCHANGED i \/ (i' = [i EXCEPT ![w] = i[w] + 1] /\ i[w] < count)
        BY <1>13 DEF Scan, InTable
      <4>2. count \in 1..MaxWorkers /\ i \in [Thread -> 0..MaxWorkers]
        BY DEF TypeOK
      <4> QED BY <4>1, <4>2
    <3> QED BY <1>13, <3>3, <3>4 DEF Scan, TypeOK
  <2>2. MainListed'
    BY <1>13 DEF Scan, InTable, TypeOK, MainListed, Seats
  <2>3. Phases'
    BY <1>13 DEF Scan, InTable, TypeOK, MainListed, Phases
  <2>4. Seats'
    BY <1>13 DEF Scan, InTable, TypeOK, MainListed, Phases, Seats, TopHeld, Busy
  <2>5. Lowering'
    BY <1>13 DEF Scan, InTable, TypeOK, MainListed, Phases, Seats, Lowering
  <2>6. TopHeld'
    BY <1>13 DEF Scan, InTable, TypeOK, MainListed, Phases, Seats, Lowering, TopHeld, Busy
  <2> QED BY <2>1, <2>2, <2>3, <2>4, <2>5, <2>6
<1>14. ASSUME NEW w \in Thread, Tighten(w) PROVE Base'
  <2>1. TypeOK'
    BY <1>14 DEF Tighten, TypeOK, MainListed, Seats, Lowering
  <2>2. MainListed'
    BY <1>14 DEF Tighten, TypeOK, MainListed, Seats
  <2>3. Phases'
    BY <1>14 DEF Tighten, TypeOK, MainListed, Phases
  <2>4. Seats'
    BY <1>14 DEF Tighten, TypeOK, MainListed, Phases, Seats, TopHeld, Busy
  <2>5. Lowering'
    BY <1>14 DEF Tighten, TypeOK, MainListed, Phases, Seats, Lowering
  <2>6. TopHeld'
    BY <1>14 DEF Tighten, TypeOK, MainListed, Phases, Seats, Lowering, TopHeld, Busy
  <2> QED BY <2>1, <2>2, <2>3, <2>4, <2>5, <2>6
<1>15. ASSUME NEW w \in Thread, Test(w) PROVE Base'
  <2>1. TypeOK'
    BY <1>15 DEF Test, Reducible, TypeOK, MainListed, Seats, Lowering
  <2>2. MainListed'
    BY <1>15 DEF Test, Reducible, TypeOK, MainListed, Seats
  <2>3. Phases'
    BY <1>15 DEF Test, Reducible, TypeOK, MainListed, Phases
  <2>4. Seats'
    BY <1>15 DEF Test, Reducible, TypeOK, MainListed, Phases, Seats, TopHeld, Busy
  <2>5. Lowering'
    BY <1>15 DEF Test, Reducible, TypeOK, MainListed, Phases, Seats, Lowering
  <2>6. TopHeld'
    BY <1>15 DEF Test, Reducible, TypeOK, MainListed, Phases, Seats, Lowering, TopHeld, Busy
  <2> QED BY <2>1, <2>2, <2>3, <2>4, <2>5, <2>6
<1>16. ASSUME NEW w \in Thread, Lower(w) PROVE Base'
  <2>0. /\ pc[w] = "lower" /\ i[w] \in 1..MaxWorkers-1 /\ pool[i[w]] = None
        /\ UNCHANGED <<pool, i, rv, old, new, round, slip, atomic>>
        /\ \/ pc' = [pc EXCEPT ![w] = "lowered"] /\ count' = count
           \/ pc' = [pc EXCEPT ![w] = "tighten"] /\ count' \in {i[w], count}
    <3>1. pc[w] = "lower" /\ i[w] \in 0..MaxWorkers
      BY <1>16 DEF Lower, TypeOK
    <3>2. i[w] \in 1..MaxWorkers-1 /\ pool[i[w]] = None
      BY <3>1 DEF MainListed, Lowering
    <3> QED BY <1>16, <3>1, <3>2 DEF Lower
  <2>1. TypeOK'
    <3>1. count' \in 1..MaxWorkers
      BY <2>0 DEF TypeOK
    <3>2. pc' \in [Thread -> Inserting \union Inserted \union Removing \union {"out"}]
      BY <2>0 DEF TypeOK
    <3> QED BY <2>0, <3>1, <3>2 DEF TypeOK
  <2>2. MainListed' /\ Phases'
    BY <2>0 DEF TypeOK, MainListed, Phases
  <2>3. Seats' /\ Lowering'
    BY <2>0 DEF TypeOK, Phases, Seats, Lowering
  <2>4. TopHeld'
    BY <2>0 DEF TypeOK, TopHeld, Busy
  <2> QED BY <2>1, <2>2, <2>3, <2>4
<1>17. ASSUME NEW w \in Thread, LowerStore(w) PROVE Base'
  <2>1. TypeOK'
    <3>0. pc[w] = "lowered" /\ i[w] \in 0..MaxWorkers
      BY <1>17 DEF LowerStore, TypeOK
    <3>1. i[w] \in 1..MaxWorkers
      BY <3>0 DEF MainListed, Lowering
    <3> QED BY <1>17, <3>1 DEF LowerStore, TypeOK
  <2>2. MainListed'
    BY <1>17 DEF LowerStore, TypeOK, MainListed, Seats
  <2>3. Phases'
    BY <1>17 DEF LowerStore, TypeOK, MainListed, Phases
  <2>4. Seats'
    BY <1>17 DEF LowerStore, TypeOK, MainListed, Phases, Seats, TopHeld, Busy
  <2>5. Lowering'
    BY <1>17 DEF LowerStore, TypeOK, MainListed, Phases, Seats, Lowering
  <2>6. TopHeld'
    BY <1>17 DEF LowerStore, TypeOK, MainListed, Phases, Seats, Lowering, TopHeld, Busy
  <2> QED BY <2>1, <2>2, <2>3, <2>4, <2>5, <2>6
<1>18. CASE UNCHANGED vars
  BY <1>18 DEF vars, Busy, Lowering, MainListed, Phases, Seats, TopHeld, TypeOK
<1> QED
  BY <1>1, <1>2, <1>3, <1>4, <1>5, <1>6, <1>7, <1>8, <1>9, <1>10, <1>11, <1>12, <1>13,
     <1>14, <1>15, <1>16, <1>17, <1>18
  DEF Next, Insert, GetRandom, Remove

-----------------------------------------------------------------------------
\* A thread's slot and the thread in a slot agree; once counted, a slot stays
\* below _count until its thread has cleared it.
Slots ==
  /\ \A w \in Thread : pc[w] \in Holding => i[w] < MaxWorkers /\ pool[i[w]] = w
  /\ \A w \in Thread : pc[w] \in Inserted => i[w] < count
  /\ \A s \in Slot : pool[s] # None =>
       LET w == pool[s]
       IN  \/ pc[w] \in Holding /\ s = i[w]
           \/ pc[w] = "scan" /\ i[w] <= s /\ s < count

\* What an insert is to store in _count is past its slot.
Pending ==
  \A w \in Thread : pc[w] \in Raising =>
    /\ new[w] = -1 => count > i[w]
    /\ new[w] > 0 => new[w] > i[w]

\* A remover that tries to lower _count has only empty slots above the one it
\* tests.
Above ==
  \A w \in Thread : pc[w] \in {"test", "lower", "lowered"} =>
    \A s \in Slot : s > i[w] => pool[s] = None

Undamaged == Slots /\ Pending /\ Above
Exact == ~slip => Undamaged

LEMMA ExactInitially == Init => Exact
<1> SUFFICES ASSUME Init PROVE Undamaged
  BY DEF Exact
<1>1. /\ pool[0] = Main /\ count = 1 /\ \A s \in Slot : pool[s] = IF s = 0 THEN Main ELSE None
      /\ \A w \in Thread : i[w] = 0 /\ pc[w] = IF w = Main THEN "up" ELSE "out"
  BY DEF Init
<1>2. \A w \in Thread : pc[w] \in Holding => w = Main
  BY <1>1
<1>3. \A s \in Slot : pool[s] # None => pool[s] = Main /\ s = 0
  BY <1>1
<1>4. Slots
  BY <1>1, <1>2, <1>3 DEF Slots
<1> QED BY <1>1, <1>4 DEF Undamaged, Pending, Above

\* An insert that does no damage now, and none before, has found and read what is
\* still so.
LEMMA NoDamage ==
  ASSUME [Next]_vars, ~slip'
  PROVE  /\ ~slip
         /\ \A w \in Thread : InsertStore(w) => pool[i[w]] = None
         /\ \A w \in Thread : Raise(w) => ~(new[w] < count)
<1>1. \/ UNCHANGED slip
      \/ \E w \in Thread : InsertStore(w) \/ Raise(w)
  BY DEF Next, vars, StartWorkerThreads, Insert, InsertStart, InsertSwap, ReadExpected,
     CompareCount,
         ReadCount, RaiseSwap, RaiseStore, GetRandom, Look, Found, Remove, RemoveStart, Scan,
         Tighten, Test, Lower, LowerStore
<1>2. \A w \in Thread : InsertStore(w) => ~slip /\ pool[i[w]] = None
  BY DEF InsertStore
<1>3. \A w \in Thread : Raise(w) => ~slip /\ ~(new[w] < count)
  BY DEF Raise
<1> QED BY <1>1, <1>2, <1>3

\* Every access preserves it, as long as no insert does damage.
LEMMA ExactPreserved == Base /\ Exact /\ [Next]_vars => Exact'
<1> SUFFICES ASSUME Base, Exact, [Next]_vars, ~slip' PROVE Undamaged'
  BY DEF Exact
<1>0. /\ Undamaged
      /\ \A w \in Thread : InsertStore(w) => pool[i[w]] = None
      /\ \A w \in Thread : Raise(w) => ~(new[w] < count)
  BY NoDamage DEF Exact
<1> USE DEF Base, Undamaged
<1>1. CASE StartWorkerThreads
  <2>1. Slots'
    <3>1. /\ UNCHANGED <<pool, count, i>>
          /\ \A v \in Thread : pc[v] = IF v = Main THEN "up" ELSE "out"
          /\ \A v \in Thread : pc'[v] = IF v = Main THEN "up" ELSE "created"
      BY <1>1 DEF StartWorkerThreads
    <3>2. \A v \in Thread : pc[v] \in Holding \union {"scan"} => v = Main
      BY <3>1
    <3>3. \A s \in Slot : pool[s] # None => pool[s] = Main /\ s = i[Main]
      BY <1>0, <3>2 DEF Slots, TypeOK, MainListed
    <3>4. \A v \in Thread : pc'[v] \in Holding => v = Main /\ pc[v] = "up" /\ pc'[v] = "up"
      BY <3>1
    <3> QED BY <1>0, <3>1, <3>3, <3>4 DEF Slots, MainListed
  <2>2. Pending'
    BY <1>0, <1>1 DEF StartWorkerThreads, TypeOK, MainListed, Phases, Seats, Slots, Pending
  <2>3. Above'
    BY <1>0, <1>1 DEF StartWorkerThreads, TypeOK, MainListed, Phases, Seats, Lowering,
       Slots, Above
  <2> QED BY <2>1, <2>2, <2>3
<1>2. ASSUME NEW w \in Thread, InsertStart(w) PROVE Undamaged'
  <2>1. Slots'
    BY <1>0, <1>2 DEF InsertStart, FirstSlot, TypeOK, MainListed, Phases, Seats,
       Lowering, Slots, Above
  <2>2. Pending'
    BY <1>0, <1>2 DEF InsertStart, FirstSlot, TypeOK, MainListed, Phases, Seats,
       Slots, Pending
  <2>3. Above'
    BY <1>0, <1>2 DEF InsertStart, FirstSlot, TypeOK, MainListed, Phases, Seats,
       Lowering, Slots, Above
  <2> QED BY <2>1, <2>2, <2>3
<1>3. ASSUME NEW w \in Thread, InsertSwap(w) PROVE Undamaged'
  <2>1. ASSUME pc[w] = "insert", i[w] < MaxWorkers, pool[i[w]] = None,
               pc' = [pc EXCEPT ![w] = "read"], pool' = [pool EXCEPT ![i[w]] = w],
               UNCHANGED <<count, i, rv, old, new, round, slip, atomic>>
        PROVE  Undamaged'
    <3>1. i[w] \in Slot /\ w # Main /\ w # None /\ pool \in [Slot -> Thread \union {None}]
      BY <2>1 DEF TypeOK, MainListed
    <3>2. \A v \in Thread : pc[v] # "scan"
      BY <2>1 DEF Phases
    <3>3. Slots'
      BY <1>0, <2>1, <3>1, <3>2 DEF TypeOK, Slots
    <3>4. Pending'
      BY <1>0, <2>1 DEF TypeOK, Seats, Pending
    <3>5. Above'
      BY <1>0, <2>1, <3>1 DEF TypeOK, Phases, Above
    <3> QED BY <3>3, <3>4, <3>5
  <2>2. ASSUME pc[w] = "insert", pc' = [pc EXCEPT ![w] = "store"],
               UNCHANGED <<pool, count, i, rv, old, new, round, slip, atomic>>
        PROVE  Undamaged'
    <3>1. Slots'
      BY <1>0, <2>2 DEF TypeOK, Slots
    <3>2. Pending' /\ Above'
      BY <1>0, <2>2 DEF TypeOK, Pending, Above
    <3> QED BY <3>1, <3>2
  <2>3. ASSUME pc[w] = "insert", pc' = [pc EXCEPT ![w] = "insert"],
               i' = [i EXCEPT ![w] = i[w] + 1],
               UNCHANGED <<pool, count, rv, old, new, round, slip, atomic>>
        PROVE  Undamaged'
    <3>1. Slots'
      BY <1>0, <2>3 DEF TypeOK, Slots
    <3>2. Pending' /\ Above'
      BY <1>0, <2>3 DEF TypeOK, Pending, Above
    <3> QED BY <3>1, <3>2
  <2> QED BY <1>3, <2>1, <2>2, <2>3 DEF InsertSwap
<1>4. ASSUME NEW w \in Thread, InsertStore(w) PROVE Undamaged'
  <2>1. /\ pc[w] = "store" /\ i[w] < MaxWorkers /\ pool[i[w]] = None
        /\ pc' = [pc EXCEPT ![w] = "read"] /\ pool' = [pool EXCEPT ![i[w]] = w]
        /\ UNCHANGED <<count, i, rv, old, new, round, atomic>>
    BY <1>0, <1>4 DEF InsertStore, Seats
  <2> QED
    <3>1. i[w] \in Slot /\ w # Main /\ w # None /\ pool \in [Slot -> Thread \union {None}]
      BY <2>1 DEF TypeOK, MainListed
    <3>2. \A v \in Thread : pc[v] # "scan"
      BY <2>1 DEF Phases
    <3>3. Slots'
      BY <1>0, <2>1, <3>1, <3>2 DEF TypeOK, Slots
    <3>4. Pending'
      BY <1>0, <2>1 DEF TypeOK, Seats, Pending
    <3>5. Above'
      BY <1>0, <2>1, <3>1 DEF TypeOK, Phases, Above
    <3> QED BY <3>3, <3>4, <3>5
<1>5. ASSUME NEW w \in Thread, ReadExpected(w) PROVE Undamaged'
  <2>1. Slots'
    BY <1>0, <1>5 DEF ReadExpected, TypeOK, MainListed, Phases, Seats, Lowering,
       Slots, Above
  <2>2. Pending'
    BY <1>0, <1>5 DEF ReadExpected, TypeOK, MainListed, Phases, Seats, Slots, Pending
  <2>3. Above'
    BY <1>0, <1>5 DEF ReadExpected, TypeOK, MainListed, Phases, Seats, Lowering,
       Slots, Above
  <2> QED BY <2>1, <2>2, <2>3
<1>6. ASSUME NEW w \in Thread, CompareCount(w) PROVE Undamaged'
  <2>1. Slots'
    BY <1>0, <1>6 DEF CompareCount, TypeOK, MainListed, Phases, Seats, Lowering,
       Slots, Above
  <2>2. Pending'
    BY <1>0, <1>6 DEF CompareCount, TypeOK, MainListed, Phases, Seats, Slots, Pending
  <2>3. Above'
    BY <1>0, <1>6 DEF CompareCount, TypeOK, MainListed, Phases, Seats, Lowering,
       Slots, Above
  <2> QED BY <2>1, <2>2, <2>3
<1>7. ASSUME NEW w \in Thread, ReadCount(w) PROVE Undamaged'
  <2>1. Slots'
    BY <1>0, <1>7 DEF ReadCount, TypeOK, MainListed, Phases, Seats, Lowering, Slots, Above
  <2>2. Pending'
    BY <1>0, <1>7 DEF ReadCount, TypeOK, MainListed, Phases, Seats, Slots, Pending
  <2>3. Above'
    BY <1>0, <1>7 DEF ReadCount, TypeOK, MainListed, Phases, Seats, Lowering, Slots, Above
  <2> QED BY <2>1, <2>2, <2>3
<1>8. ASSUME NEW w \in Thread, RaiseSwap(w) PROVE Undamaged'
  <2>0. /\ pc[w] = "read" /\ new[w] \in 1..MaxWorkers /\ new[w] > i[w]
        /\ i[w] \in 0..MaxWorkers /\ count \in 1..MaxWorkers
        /\ Raise(w) => new[w] >= count
    BY <1>0, <1>8 DEF RaiseSwap, Pending, TypeOK
  <2>1. ASSUME pc' = [pc EXCEPT ![w] = "read"], new' = [new EXCEPT ![w] = 0],
               UNCHANGED <<pool, count, i, rv, round, atomic>>
        PROVE  Undamaged'
    <3>1. Slots'
      BY <1>0, <2>0, <2>1 DEF TypeOK, MainListed, Phases, Slots
    <3>2. Pending' /\ Above'
      BY <1>0, <2>0, <2>1 DEF TypeOK, Phases, Pending, Above
    <3> QED BY <3>1, <3>2
  <2>2. ASSUME pc' = [pc EXCEPT ![w] = "up"], Raise(w), UNCHANGED <<pool, i, rv, round, atomic>>
        PROVE  Undamaged'
    <3>0. count' = new[w] /\ count' >= count /\ count' > i[w] /\ new' = [new EXCEPT ![w] = 0]
      BY <2>0, <2>2 DEF Raise
    <3>1. Slots'
      BY <1>0, <2>0, <2>2, <3>0 DEF TypeOK, Phases, Slots
    <3>2. Pending'
      BY <1>0, <2>0, <2>2, <3>0 DEF TypeOK, Pending
    <3>3. Above'
      BY <1>0, <2>0, <2>2 DEF TypeOK, Phases, Above
    <3> QED BY <3>1, <3>2, <3>3
  <2>3. ASSUME pc' = [pc EXCEPT ![w] = "raised"],
               UNCHANGED <<pool, count, i, rv, old, new, round, slip, atomic>>
        PROVE  Undamaged'
    <3>1. Slots'
      BY <1>0, <2>0, <2>3 DEF TypeOK, MainListed, Phases, Slots
    <3>2. Pending' /\ Above'
      BY <1>0, <2>0, <2>3 DEF TypeOK, Phases, Pending, Above
    <3> QED BY <3>1, <3>2
  <2> QED BY <1>8, <2>1, <2>2, <2>3 DEF RaiseSwap
<1>9. ASSUME NEW w \in Thread, RaiseStore(w) PROVE Undamaged'
  <2>0. /\ pc[w] = "raised" /\ pc' = [pc EXCEPT ![w] = "up"]
        /\ new[w] > i[w] /\ Raise(w) /\ UNCHANGED <<pool, i, rv, round, atomic>>
    BY <1>0, <1>9 DEF RaiseStore, Seats, Pending
  <2>1. count' = new[w] /\ new' = [new EXCEPT ![w] = 0]
    BY <2>0 DEF Raise
  <2>2. count' >= count /\ count' > i[w] /\ count \in Nat /\ count' \in Nat /\ i \in [Thread -> Nat]
    BY <1>0, <2>0, <2>1 DEF TypeOK
  <2>3. Slots'
    BY <1>0, <2>0, <2>2 DEF TypeOK, Phases, Slots
  <2>4. Pending'
    BY <1>0, <2>0, <2>1, <2>2 DEF TypeOK, Pending
  <2>5. Above'
    BY <1>0, <2>0 DEF TypeOK, Phases, Above
  <2> QED BY <2>3, <2>4, <2>5
<1>10. ASSUME NEW w \in Thread, \A v \in Thread : pc[v] \notin Removing, Look(w) PROVE Undamaged'
  <2>1. Slots'
    BY <1>0, <1>10 DEF Look, TypeOK, MainListed, Phases, Seats, Lowering, Slots, Above
  <2>2. Pending'
    BY <1>0, <1>10 DEF Look, TypeOK, MainListed, Phases, Seats, Slots, Pending
  <2>3. Above'
    BY <1>0, <1>10 DEF Look, TypeOK, MainListed, Phases, Seats, Lowering, Slots, Above
  <2> QED BY <2>1, <2>2, <2>3
<1>11. ASSUME NEW w \in Thread, \A v \in Thread : pc[v] \notin Removing, Found(w) PROVE Undamaged'
  <2>1. Slots'
    BY <1>0, <1>11 DEF Found, TypeOK, MainListed, Phases, Seats, Lowering, Slots, Above
  <2>2. Pending'
    BY <1>0, <1>11 DEF Found, TypeOK, MainListed, Phases, Seats, Slots, Pending
  <2>3. Above'
    BY <1>0, <1>11 DEF Found, TypeOK, MainListed, Phases, Seats, Lowering, Slots, Above
  <2> QED BY <2>1, <2>2, <2>3
<1>12. ASSUME NEW w \in Thread, RemoveStart(w) PROVE Undamaged'
  <2>1. Slots'
    BY <1>0, <1>12 DEF RemoveStart, TypeOK, MainListed, Phases, Seats, Lowering,
       Slots, Above
  <2>2. Pending'
    BY <1>0, <1>12 DEF RemoveStart, TypeOK, MainListed, Phases, Seats, Slots, Pending
  <2>3. Above'
    BY <1>0, <1>12 DEF RemoveStart, TypeOK, MainListed, Phases, Seats, Lowering,
       Slots, Above
  <2> QED BY <2>1, <2>2, <2>3
<1>13. ASSUME NEW w \in Thread, Scan(w) PROVE Undamaged'
  <2>0. /\ pc[w] = "scan" /\ w # Main /\ w # None
        /\ count \in 1..MaxWorkers /\ i[w] \in 0..MaxWorkers
    BY <1>13 DEF Scan, MainListed, TypeOK
  <2>1. ASSUME pc' = [pc EXCEPT ![w] = "scan"], i[w] < count, pool[i[w]] = w,
               pool' = [pool EXCEPT ![i[w]] = None], i' = [i EXCEPT ![w] = i[w] + 1],
               UNCHANGED <<count, rv, old, new, round, slip, atomic>>
        PROVE  Undamaged'
    <3>1. Slots'
      BY <1>0, <2>0, <2>1 DEF TypeOK, MainListed, Phases, Slots
    <3>2. Pending' /\ Above'
      BY <1>0, <2>0, <2>1 DEF TypeOK, Phases, Pending, Above
    <3> QED BY <3>1, <3>2
  <2>2. ASSUME pc' = [pc EXCEPT ![w] = "scan"], i[w] < count, pool[i[w]] # w,
               i' = [i EXCEPT ![w] = i[w] + 1],
               UNCHANGED <<pool, count, rv, old, new, round, slip, atomic>>
        PROVE  Undamaged'
    <3>1. Slots'
      BY <1>0, <2>0, <2>2 DEF TypeOK, MainListed, Phases, Slots
    <3>2. Pending' /\ Above'
      BY <1>0, <2>0, <2>2 DEF TypeOK, Phases, Pending, Above
    <3> QED BY <3>1, <3>2
  <2>3. ASSUME pc' = [pc EXCEPT ![w] = "tighten"], ~(i[w] < count),
               UNCHANGED <<pool, i, count, rv, old, new, round, slip, atomic>>
        PROVE  Undamaged'
    <3>1. Slots'
      BY <1>0, <2>0, <2>3 DEF TypeOK, MainListed, Phases, Slots
    <3>2. Pending' /\ Above'
      BY <1>0, <2>0, <2>3 DEF TypeOK, Phases, Pending, Above
    <3> QED BY <3>1, <3>2
  <2> QED BY <1>13, <2>1, <2>2, <2>3 DEF Scan, InTable
<1>14. ASSUME NEW w \in Thread, Tighten(w) PROVE Undamaged'
  <2>1. Slots'
    BY <1>0, <1>14 DEF Tighten, TypeOK, MainListed, Phases, Seats, Lowering, Slots, Above
  <2>2. Pending'
    BY <1>0, <1>14 DEF Tighten, TypeOK, MainListed, Phases, Seats, Slots, Pending
  <2>3. Above'
    BY <1>0, <1>14 DEF Tighten, TypeOK, MainListed, Phases, Seats, Lowering, Slots, Above
  <2> QED BY <2>1, <2>2, <2>3
<1>15. ASSUME NEW w \in Thread, Test(w) PROVE Undamaged'
  <2>1. Slots'
    BY <1>0, <1>15 DEF Test, Reducible, TypeOK, MainListed, Phases, Seats, Lowering,
       Slots, Above
  <2>2. Pending'
    BY <1>0, <1>15 DEF Test, Reducible, TypeOK, MainListed, Phases, Seats, Slots, Pending
  <2>3. Above'
    BY <1>0, <1>15 DEF Test, Reducible, TypeOK, MainListed, Phases, Seats, Lowering,
       Slots, Above
  <2> QED BY <2>1, <2>2, <2>3
<1>16. ASSUME NEW w \in Thread, Lower(w) PROVE Undamaged'
  <2>0. /\ pc[w] = "lower" /\ UNCHANGED <<pool, i, rv, old, new, round, slip, atomic>>
        /\ \/ pc' = [pc EXCEPT ![w] = "lowered"] /\ count' = count
           \/ pc' = [pc EXCEPT ![w] = "tighten"] /\ count' \in {i[w], count}
    BY <1>16 DEF Lower
  <2>1. \A s \in Slot : pool[s] # None => s < i[w]
    BY <1>0, <2>0 DEF TypeOK, Lowering, Above
  <2>2. \A v \in Thread : pc[v] \notin Inserting \union {"look", "found"}
    BY <2>0 DEF Phases
  <2>3. i \in [Thread -> Nat] /\ \A v \in Thread : pc[v] \in Holding => i[v] \in Slot /\ pool[i[v]] = v /\ v # None
    BY <1>0, <2>0, <2>2 DEF TypeOK, Slots
  <2>4. \A s \in Slot : pool[s] # None => s < count'
    <3>1. \A s \in Slot : pool[s] # None => s < count
      BY <1>0, <2>2 DEF Slots, TypeOK
    <3> QED BY <2>0, <2>1, <3>1
  <2>5. /\ \A v \in Thread \ {w} : pc'[v] = pc[v]
        /\ pc[w] \notin Holding \union {"scan"} /\ pc'[w] \notin Holding \union {"scan"}
    BY <2>0 DEF TypeOK
  <2>6. Slots'
    <3>1. \A v \in Thread : pc'[v] \in Holding => i[v] \in Slot /\ pool[i[v]] = v /\ i[v] < count'
      BY <2>3, <2>4, <2>5
    <3>2. \A s \in Slot : pool[s] # None =>
            LET v == pool[s]
            IN  (pc'[v] \in Holding /\ s = i[v]) \/ (pc'[v] = "scan" /\ i[v] <= s /\ s < count')
      <4> SUFFICES ASSUME NEW s \in Slot, NEW v \in Thread, v = pool[s], pool[s] # None
                   PROVE  (pc'[v] \in Holding /\ s = i[v]) \/ (pc'[v] = "scan" /\ i[v] <= s /\ s < count')
        BY DEF TypeOK
      <4>1. (pc[v] \in Holding /\ s = i[v]) \/ (pc[v] = "scan" /\ i[v] <= s)
        BY <1>0 DEF Slots
      <4> QED BY <2>4, <2>5, <4>1
    <3>3. UNCHANGED <<pool, i>> /\ \A v \in Thread : pc'[v] \in Inserted => pc'[v] \in Holding
      BY <2>0
    <3> QED BY <3>1, <3>2, <3>3 DEF Slots
  <2>7. Pending'
    BY <1>0, <2>0, <2>2 DEF TypeOK, Pending
  <2>8. Above'
    BY <1>0, <2>0 DEF TypeOK, Above
  <2> QED BY <2>6, <2>7, <2>8
<1>17. ASSUME NEW w \in Thread, LowerStore(w) PROVE Undamaged'
  <2>0. /\ pc[w] = "lowered" /\ pc' = [pc EXCEPT ![w] = "tighten"] /\ count' = i[w]
        /\ UNCHANGED <<pool, i, rv, old, new, round, slip, atomic>>
    BY <1>17 DEF LowerStore
  <2>1. \A s \in Slot : pool[s] # None => s < i[w]
    BY <1>0, <2>0 DEF TypeOK, Lowering, Above
  <2>2. \A v \in Thread : pc[v] \notin Inserting \union {"look", "found"}
    BY <2>0 DEF Phases
  <2>3. i \in [Thread -> Nat] /\ \A v \in Thread : pc[v] \in Holding => i[v] \in Slot /\ pool[i[v]] = v /\ v # None
    BY <1>0, <2>0, <2>2 DEF TypeOK, Slots
  <2>4. Slots'
    BY <1>0, <2>0, <2>1, <2>2, <2>3 DEF TypeOK, Slots
  <2>5. Pending' /\ Above'
    BY <1>0, <2>0, <2>2 DEF TypeOK, Pending, Above
  <2> QED BY <2>4, <2>5
<1>18. CASE UNCHANGED vars
  BY <1>0, <1>18 DEF vars, Slots, Pending, Above
<1> QED
  BY <1>1, <1>2, <1>3, <1>4, <1>5, <1>6, <1>7, <1>8, <1>9, <1>10, <1>11, <1>12, <1>13,
     <1>14, <1>15, <1>16, <1>17, <1>18
  DEF Next, Insert, GetRandom, Remove

-----------------------------------------------------------------------------
\* How many slots the rounds before this one can have reached, besides slot 0.
Others == Cardinality(Thread) - 1
Before == IF round = 0 THEN 0 ELSE Others * (round - 1)

\* No slot is taken beyond one for each thread that a round starts.
Reached == \A s \in Slot : pool[s] # None => s <= Others * round

\* While a round's inserts run, the slots it has reached are taken without a gap,
\* each by a thread of its own, and so are those an insert has passed.
Gapless ==
  (\E w \in Thread : pc[w] \in Inserting) =>
    /\ round # 0
    /\ \A s \in Slot : s > Before /\ pool[s] # None =>
         /\ \E v \in Thread \ {Main} : pc[v] \in Holding /\ i[v] = s
         /\ \A r \in Slot : r > Before /\ r < s => pool[r] # None
    /\ \A w \in Thread : pc[w] \in {"insert", "store"} =>
         \A r \in Slot : r > Before /\ r < i[w] => pool[r] # None

Grown == Reached /\ Gapless

LEMMA GrownInitially ==
  ASSUME IsFiniteSet(Thread), Init
  PROVE  Grown
<1>1. /\ \A s \in Slot : pool[s] = IF s = 0 THEN Main ELSE None
      /\ \A w \in Thread : pc[w] \notin Inserting
  BY DEF Init
<1>2. round = 0
  BY DEF Init
<1>3. Others * 0 = 0
  <2>1. ASSUME NEW n \in Int PROVE n * 0 = 0
    OBVIOUS
  <2>2. Others \in Int
    BY FS_CardinalityType DEF Others
  <2> QED BY <2>1, <2>2
<1> QED BY <1>1, <1>2, <1>3 DEF Grown, Reached, Gapless

\* Rounds add up.
LEMMA Rounds ==
  ASSUME NEW k \in Nat, NEW r \in Nat, NEW m \in Nat, r <= m
  PROVE  /\ k * r \in Nat /\ k * r <= k * m
         /\ r # 0 => k * (r - 1) \in Nat /\ k * (r - 1) + k = k * r
         /\ k * (r + 1) = k * r + k
<1>1. k * r \in Nat /\ k * (r + 1) = k * r + k
  OBVIOUS
<1>2. r # 0 => k * (r - 1) \in Nat /\ k * (r - 1) + k = k * r
  OBVIOUS
<1>3. PICK d \in Nat : m = r + d
  <2>1. m - r \in Nat /\ m = r + (m - r)
    OBVIOUS
  <2> QED BY <2>1
<1>4. k * d \in Nat /\ k * m = k * r + k * d
  BY <1>3
<1> QED BY <1>1, <1>2, <1>4

\* An insert looks at no slot beyond those of its round: the ones it has passed
\* are taken by as many different other threads.
LEMMA Reach ==
  ASSUME IsFiniteSet(Thread), TypeOK, MainListed, Gapless,
         NEW w \in Thread, pc[w] \in {"insert", "store"}
  PROVE  i[w] <= Others * round
<1>1. /\ Cardinality(Thread) \in Nat /\ w # Main
      /\ IsFiniteSet(Thread \ {Main}) /\ Cardinality(Thread \ {Main}) = Cardinality(Thread) - 1
  BY FS_RemoveElement, FS_CardinalityType DEF MainListed
<1>2. /\ IsFiniteSet(Thread \ {Main, w}) /\ Cardinality(Thread \ {Main, w}) = Cardinality(Thread) - 2
      /\ Cardinality(Thread \ {Main, w}) \in Nat
  <2>1. w \in Thread \ {Main} /\ (Thread \ {Main}) \ {w} = Thread \ {Main, w}
    BY <1>1
  <2>2. /\ IsFiniteSet((Thread \ {Main}) \ {w})
        /\ Cardinality((Thread \ {Main}) \ {w}) = Cardinality(Thread \ {Main}) - 1
    <3>1. PICK T : T = Thread \ {Main}
      OBVIOUS
    <3>2. IsFiniteSet(T \ {w}) /\ Cardinality(T \ {w}) = Cardinality(T) - 1
      <4>1. w \in T /\ IsFiniteSet(T)
        BY <1>1, <2>1, <3>1
      <4> QED BY <4>1, FS_RemoveElement
    <3> QED BY <3>1, <3>2
  <2>3. Cardinality((Thread \ {Main}) \ {w}) \in Nat
    BY <2>2, FS_CardinalityType
  <2> QED BY <1>1, <2>1, <2>2, <2>3
<1>3. Others \in Nat \ {0} /\ Cardinality(Thread \ {Main, w}) = Others - 1
  BY <1>1, <1>2 DEF Others
<1>4. /\ round \in Nat \ {0} /\ Before = Others * (round - 1)
      /\ Before \in Nat /\ Before + Others = Others * round
  BY <1>3, Rounds DEF TypeOK, Gapless, Before
<1>5. i[w] \in 0..MaxWorkers
  BY DEF TypeOK
<1>6. CASE i[w] <= Before + 1
  BY <1>3, <1>4, <1>5, <1>6
<1>7. CASE i[w] > Before + 1
  <2> DEFINE Passed == Before+1 .. i[w]-1
             f == [s \in Passed |-> CHOOSE v \in Thread \ {Main} : pc[v] \in Holding /\ i[v] = s]
  <2>1. \A s \in Passed : s \in Slot /\ s > Before /\ s < i[w]
    BY <1>4, <1>5
  <2>2. \A s \in Passed : \E v \in Thread \ {Main} : pc[v] \in Holding /\ i[v] = s
    BY <2>1 DEF Gapless
  <2>3. \A s \in Passed : f[s] \in Thread \ {Main, w} /\ i[f[s]] = s
    BY <2>2
  <2>4. f \in Injection(Passed, Thread \ {Main, w})
    <3>1. f \in [Passed -> Thread \ {Main, w}]
      BY <2>3
    <3> HIDE DEF f
    <3>2. \A s, t \in Passed : f[s] = f[t] => s = t
      BY <2>3
    <3> QED BY <3>1, <3>2 DEF Injection, IsInjective
  <2>5. Cardinality(Passed) = i[w] - 1 - Before
    <3>1. Before + 1 \in Int /\ i[w] - 1 \in Int /\ ~(Before + 1 > i[w] - 1)
      BY <1>4, <1>5, <1>7
    <3>2. Cardinality(Passed) = i[w] - 1 - (Before + 1) + 1
      BY <3>1, FS_Interval
    <3> QED BY <1>4, <1>5, <3>2
  <2>6. Cardinality(Passed) <= Cardinality(Thread \ {Main, w})
    BY <1>2, <2>4, FS_Injection
  <2> QED BY <1>3, <1>4, <1>5, <2>5, <2>6
<1> QED BY <1>4, <1>5, <1>6, <1>7

\* The slots of the earlier rounds are a number.
LEMMA BeforeIsInt ==
  ASSUME IsFiniteSet(Thread), TypeOK
  PROVE  Before \in Int
<1>1. Others \in Int /\ round \in Int
  BY FS_CardinalityType DEF Others, TypeOK
<1> QED BY <1>1 DEF Before

\* Every access keeps the slots of a round together.
LEMMA GrownPreserved ==
  ASSUME IsFiniteSet(Thread), Base, Grown, [Next]_vars
  PROVE  Grown'
<1> USE DEF Base, Grown
<1>1. CASE StartWorkerThreads
  <2>1. /\ round \in Nat /\ round' = round + 1 /\ pool' = pool
        /\ \A v \in Thread : pc'[v] = IF v = Main THEN "up" ELSE "created"
    BY <1>1 DEF StartWorkerThreads, TypeOK
  <2>2. Others \in Nat
    <3>1. Cardinality(Thread) \in Nat /\ Cardinality(Thread) # 0
      BY FS_CardinalityType, FS_EmptySet
    <3> QED BY <3>1 DEF Others
  <2>3. Others * round \in Nat /\ Others * round' = Others * round + Others
    BY <2>1, <2>2, Rounds
  <2>4. Before' = Others * round
    BY <2>1 DEF Before
  <2>5. Reached'
    BY <2>1, <2>2, <2>3 DEF Reached
  <2>6. Gapless'
    BY <2>1, <2>3, <2>4 DEF Reached, Gapless
  <2> QED BY <2>5, <2>6
<1>2. ASSUME NEW w \in Thread, InsertStart(w) PROVE Grown'
  <2>1. /\ pc[w] = "created" /\ pc' = [pc EXCEPT ![w] = "insert"] /\ i' = [i EXCEPT ![w] = count]
        /\ UNCHANGED <<pool, count, round>>
    BY <1>2 DEF InsertStart, FirstSlot
  <2>2. Before' = Before
    BY <2>1 DEF Before
  <2>3. pool[count - 1] # None /\ count - 1 \in Slot /\ count \in Nat
    <3>1. \A v \in Thread : ~Busy(v)
      BY <2>1 DEF Phases, Busy
    <3> QED BY <3>1 DEF TopHeld, TypeOK
  <2>4. \A r \in Slot : r > Before /\ r < count => pool[r] # None
    <3> SUFFICES ASSUME NEW r \in Slot, r > Before, r < count PROVE pool[r] # None
      OBVIOUS
    <3>1. CASE r = count - 1
      BY <2>3, <3>1
    <3>2. CASE r < count - 1
      <4>1. count - 1 > Before
        <5>1. Before \in Int
          BY BeforeIsInt
        <5> QED BY <2>3, <3>2, <5>1
      <4> QED BY <2>1, <2>3, <3>2, <4>1 DEF Gapless
    <3> QED BY <2>3, <3>1, <3>2
  <2>5. Reached'
    BY <2>1 DEF Reached
  <2>6. /\ i'[w] = count /\ \A v \in Thread \ {w} : i'[v] = i[v] /\ pc'[v] = pc[v]
        /\ pc[w] \notin Holding /\ pc'[w] = "insert"
    BY <2>1 DEF TypeOK
  <2>7. Gapless'
    BY <2>1, <2>2, <2>4, <2>6 DEF Gapless
  <2> QED BY <2>5, <2>7
<1>3. ASSUME NEW w \in Thread, InsertSwap(w) PROVE Grown'
  <2>1. ASSUME pc[w] \in {"insert", "store"}, i[w] < MaxWorkers,
               pc' = [pc EXCEPT ![w] = "read"], pool' = [pool EXCEPT ![i[w]] = w],
               UNCHANGED <<i, round>>
        PROVE  Grown'
    <3>1. i[w] \in Slot /\ i[w] <= Others * round
      BY <2>1, Reach DEF TypeOK
    <3>2. Reached'
      BY <2>1, <3>1 DEF Reached, TypeOK
    <3>3. Before' = Before
      BY <2>1 DEF Before
    <3>4. w # Main /\ w # None
      BY <2>1 DEF MainListed
    <3>5. /\ pool'[i[w]] = w /\ \A r \in Slot : pool[r] # None => pool'[r] # None
          /\ \A r \in Slot \ {i[w]} : pool'[r] = pool[r]
          /\ \A v \in Thread : pc[v] \in Holding => pc'[v] \in Holding
          /\ pc'[w] \in Holding
          /\ \A v \in Thread : pc'[v] \in {"insert", "store"} => pc[v] \in {"insert", "store"}
      BY <2>1, <3>1, <3>4 DEF TypeOK
    <3>6. /\ round # 0
          /\ \A s \in Slot : s > Before /\ pool[s] # None =>
               /\ \E v \in Thread \ {Main} : pc[v] \in Holding /\ i[v] = s
               /\ \A r \in Slot : r > Before /\ r < s => pool[r] # None
          /\ \A v \in Thread : pc[v] \in {"insert", "store"} =>
               \A r \in Slot : r > Before /\ r < i[v] => pool[r] # None
      BY <2>1 DEF Gapless
    <3>7. ASSUME NEW s \in Slot, s > Before, pool'[s] # None
          PROVE  /\ \E v \in Thread \ {Main} : pc'[v] \in Holding /\ i[v] = s
                 /\ \A r \in Slot : r > Before /\ r < s => pool'[r] # None
      <4>1. CASE s = i[w]
        BY <2>1, <3>4, <3>5, <3>6, <4>1
      <4>2. CASE s # i[w]
        BY <3>5, <3>6, <3>7, <4>2
      <4> QED BY <4>1, <4>2
    <3>8. ASSUME NEW v \in Thread, pc'[v] \in {"insert", "store"},
                 NEW r \in Slot, r > Before, r < i[v]
          PROVE  pool'[r] # None
      BY <3>5, <3>6, <3>8
    <3>9. Gapless'
      BY <2>1, <3>3, <3>6, <3>7, <3>8 DEF Gapless
    <3> QED BY <3>2, <3>9
  <2>2. ASSUME pc[w] = "insert", pc' = [pc EXCEPT ![w] = "store"], UNCHANGED <<pool, i, round>>
        PROVE  Grown'
    <3>1. Reached'
      BY <2>2 DEF Reached
    <3>2. Before' = Before
      BY <2>2 DEF Before
    <3>3. /\ \A v \in Thread \ {w} : pc'[v] = pc[v]
          /\ pc[w] \notin Holding /\ pc'[w] = "store"
      BY <2>2 DEF TypeOK
    <3>4. Gapless'
      BY <2>2, <3>2, <3>3 DEF Gapless
    <3> QED BY <3>1, <3>4
  <2>3. ASSUME pc[w] = "insert", i[w] < MaxWorkers, pool[i[w]] # None,
               pc' = [pc EXCEPT ![w] = "insert"], i' = [i EXCEPT ![w] = i[w] + 1],
               UNCHANGED <<pool, round>>
        PROVE  Grown'
    <3>1. Reached'
      BY <2>3 DEF Reached
    <3>2. Before' = Before
      BY <2>3 DEF Before
    <3>3. \A r \in Slot : r > Before /\ r < i[w] + 1 => pool[r] # None
      <4>1. \A r \in Slot : r < i[w] + 1 => r < i[w] \/ r = i[w]
        BY DEF TypeOK
      <4> QED BY <2>3, <4>1 DEF Gapless
    <3>4. /\ pc' = pc /\ i'[w] = i[w] + 1 /\ \A v \in Thread \ {w} : i'[v] = i[v]
      BY <2>3 DEF TypeOK
    <3>5. pc[w] \notin Holding
      BY <2>3
    <3>6. Gapless'
      BY <2>3, <3>2, <3>3, <3>4, <3>5 DEF Gapless
    <3> QED BY <3>1, <3>6
  <2> QED BY <1>3, <2>1, <2>2, <2>3 DEF InsertSwap
<1>4. ASSUME NEW w \in Thread, InsertStore(w) PROVE Grown'
  <2>1. /\ pc[w] = "store" /\ i[w] < MaxWorkers
        /\ pc' = [pc EXCEPT ![w] = "read"] /\ pool' = [pool EXCEPT ![i[w]] = w]
        /\ UNCHANGED <<i, round>>
    BY <1>4 DEF InsertStore, Seats
  <2> QED
    <3>1. i[w] \in Slot /\ i[w] <= Others * round
      BY <2>1, Reach DEF TypeOK
    <3>2. Reached'
      BY <2>1, <3>1 DEF Reached, TypeOK
    <3>3. Before' = Before
      BY <2>1 DEF Before
    <3>4. w # Main /\ w # None
      BY <2>1 DEF MainListed
    <3>5. /\ pool'[i[w]] = w /\ \A r \in Slot : pool[r] # None => pool'[r] # None
          /\ \A r \in Slot \ {i[w]} : pool'[r] = pool[r]
          /\ \A v \in Thread : pc[v] \in Holding => pc'[v] \in Holding
          /\ pc'[w] \in Holding
          /\ \A v \in Thread : pc'[v] \in {"insert", "store"} => pc[v] \in {"insert", "store"}
      BY <2>1, <3>1, <3>4 DEF TypeOK
    <3>6. /\ round # 0
          /\ \A s \in Slot : s > Before /\ pool[s] # None =>
               /\ \E v \in Thread \ {Main} : pc[v] \in Holding /\ i[v] = s
               /\ \A r \in Slot : r > Before /\ r < s => pool[r] # None
          /\ \A v \in Thread : pc[v] \in {"insert", "store"} =>
               \A r \in Slot : r > Before /\ r < i[v] => pool[r] # None
      BY <2>1 DEF Gapless
    <3>7. ASSUME NEW s \in Slot, s > Before, pool'[s] # None
          PROVE  /\ \E v \in Thread \ {Main} : pc'[v] \in Holding /\ i[v] = s
                 /\ \A r \in Slot : r > Before /\ r < s => pool'[r] # None
      <4>1. CASE s = i[w]
        BY <2>1, <3>4, <3>5, <3>6, <4>1
      <4>2. CASE s # i[w]
        BY <3>5, <3>6, <3>7, <4>2
      <4> QED BY <4>1, <4>2
    <3>8. ASSUME NEW v \in Thread, pc'[v] \in {"insert", "store"},
                 NEW r \in Slot, r > Before, r < i[v]
          PROVE  pool'[r] # None
      BY <3>5, <3>6, <3>8
    <3>9. Gapless'
      BY <2>1, <3>3, <3>6, <3>7, <3>8 DEF Gapless
    <3> QED BY <3>2, <3>9
<1>5. ASSUME NEW w \in Thread, ReadExpected(w) PROVE Grown'
  <2>0. /\ \A v \in Thread : pc'[v] \in Inserting => pc[v] \in Inserting
        /\ \A v \in Thread : pc'[v] \in {"insert", "store"} => pc[v] \in {"insert", "store"}
        /\ \A v \in Thread : pc[v] \in Holding => pc'[v] \in Holding
        /\ UNCHANGED <<pool, i, round>>
    BY <1>5 DEF ReadExpected, TypeOK
  <2>1. Reached'
    BY <2>0 DEF Reached
  <2>2. Before' = Before
    BY <2>0 DEF Before
  <2>3. Gapless'
    BY <2>0, <2>2 DEF Gapless
  <2> QED BY <2>1, <2>3
<1>6. ASSUME NEW w \in Thread, CompareCount(w) PROVE Grown'
  <2>0. /\ \A v \in Thread : pc'[v] \in Inserting => pc[v] \in Inserting
        /\ \A v \in Thread : pc'[v] \in {"insert", "store"} => pc[v] \in {"insert", "store"}
        /\ \A v \in Thread : pc[v] \in Holding => pc'[v] \in Holding
        /\ UNCHANGED <<pool, i, round>>
    BY <1>6 DEF CompareCount, TypeOK
  <2>1. Reached'
    BY <2>0 DEF Reached
  <2>2. Before' = Before
    BY <2>0 DEF Before
  <2>3. Gapless'
    BY <2>0, <2>2 DEF Gapless
  <2> QED BY <2>1, <2>3
<1>7. ASSUME NEW w \in Thread, ReadCount(w) PROVE Grown'
  <2>0. /\ \A v \in Thread : pc'[v] \in Inserting => pc[v] \in Inserting
        /\ \A v \in Thread : pc'[v] \in {"insert", "store"} => pc[v] \in {"insert", "store"}
        /\ \A v \in Thread : pc[v] \in Holding => pc'[v] \in Holding
        /\ UNCHANGED <<pool, i, round>>
    BY <1>7 DEF ReadCount, TypeOK
  <2>1. Reached'
    BY <2>0 DEF Reached
  <2>2. Before' = Before
    BY <2>0 DEF Before
  <2>3. Gapless'
    BY <2>0, <2>2 DEF Gapless
  <2> QED BY <2>1, <2>3
<1>8. ASSUME NEW w \in Thread, RaiseSwap(w) PROVE Grown'
  <2>0. /\ \A v \in Thread : pc'[v] \in Inserting => pc[v] \in Inserting
        /\ \A v \in Thread : pc'[v] \in {"insert", "store"} => pc[v] \in {"insert", "store"}
        /\ \A v \in Thread : pc[v] \in Holding => pc'[v] \in Holding
        /\ UNCHANGED <<pool, i, round>>
    BY <1>8 DEF RaiseSwap, Raise, TypeOK
  <2>1. Reached'
    BY <2>0 DEF Reached
  <2>2. Before' = Before
    BY <2>0 DEF Before
  <2>3. Gapless'
    BY <2>0, <2>2 DEF Gapless
  <2> QED BY <2>1, <2>3
<1>9. ASSUME NEW w \in Thread, RaiseStore(w) PROVE Grown'
  <2>0. /\ \A v \in Thread : pc'[v] \in Inserting => pc[v] \in Inserting
        /\ \A v \in Thread : pc'[v] \in {"insert", "store"} => pc[v] \in {"insert", "store"}
        /\ \A v \in Thread : pc[v] \in Holding => pc'[v] \in Holding
        /\ UNCHANGED <<pool, i, round>>
    BY <1>9 DEF RaiseStore, Raise, TypeOK
  <2>1. Reached'
    BY <2>0 DEF Reached
  <2>2. Before' = Before
    BY <2>0 DEF Before
  <2>3. Gapless'
    BY <2>0, <2>2 DEF Gapless
  <2> QED BY <2>1, <2>3
<1>10. ASSUME NEW w \in Thread, \A v \in Thread : pc[v] \notin Removing, Look(w) PROVE Grown'
  <2>0. /\ \A v \in Thread : pc'[v] \in Inserting => pc[v] \in Inserting
        /\ \A v \in Thread : pc'[v] \in {"insert", "store"} => pc[v] \in {"insert", "store"}
        /\ \A v \in Thread : pc[v] \in Holding => pc'[v] \in Holding
        /\ UNCHANGED <<pool, i, round>>
    BY <1>10 DEF Look, TypeOK
  <2>1. Reached'
    BY <2>0 DEF Reached
  <2>2. Before' = Before
    BY <2>0 DEF Before
  <2>3. Gapless'
    BY <2>0, <2>2 DEF Gapless
  <2> QED BY <2>1, <2>3
<1>11. ASSUME NEW w \in Thread, \A v \in Thread : pc[v] \notin Removing, Found(w) PROVE Grown'
  <2>0. /\ \A v \in Thread : pc'[v] \in Inserting => pc[v] \in Inserting
        /\ \A v \in Thread : pc'[v] \in {"insert", "store"} => pc[v] \in {"insert", "store"}
        /\ \A v \in Thread : pc[v] \in Holding => pc'[v] \in Holding
        /\ UNCHANGED <<pool, i, round>>
    BY <1>11 DEF Found, TypeOK
  <2>1. Reached'
    BY <2>0 DEF Reached
  <2>2. Before' = Before
    BY <2>0 DEF Before
  <2>3. Gapless'
    BY <2>0, <2>2 DEF Gapless
  <2> QED BY <2>1, <2>3
<1>12. ASSUME NEW w \in Thread, RemoveStart(w) PROVE Grown'
  <2>1. /\ \A v \in Thread : pc'[v] \notin Inserting
        /\ \A s \in Slot : pool'[s] # None => pool[s] # None
        /\ round' = round
    BY <1>12 DEF RemoveStart, TypeOK, Phases
  <2> QED BY <2>1 DEF Reached, Gapless
<1>13. ASSUME NEW w \in Thread, Scan(w) PROVE Grown'
  <2>1. /\ \A v \in Thread : pc'[v] \notin Inserting
        /\ \A s \in Slot : pool'[s] # None => pool[s] # None
        /\ round' = round
    BY <1>13 DEF Scan, TypeOK, Phases
  <2> QED BY <2>1 DEF Reached, Gapless
<1>14. ASSUME NEW w \in Thread, Tighten(w) PROVE Grown'
  <2>1. /\ \A v \in Thread : pc'[v] \notin Inserting
        /\ \A s \in Slot : pool'[s] # None => pool[s] # None
        /\ round' = round
    BY <1>14 DEF Tighten, TypeOK, Phases
  <2> QED BY <2>1 DEF Reached, Gapless
<1>15. ASSUME NEW w \in Thread, Test(w) PROVE Grown'
  <2>1. /\ \A v \in Thread : pc'[v] \notin Inserting
        /\ \A s \in Slot : pool'[s] # None => pool[s] # None
        /\ round' = round
    BY <1>15 DEF Test, TypeOK, Phases
  <2> QED BY <2>1 DEF Reached, Gapless
<1>16. ASSUME NEW w \in Thread, Lower(w) PROVE Grown'
  <2>1. /\ \A v \in Thread : pc'[v] \notin Inserting
        /\ \A s \in Slot : pool'[s] # None => pool[s] # None
        /\ round' = round
    BY <1>16 DEF Lower, TypeOK, Phases
  <2> QED BY <2>1 DEF Reached, Gapless
<1>17. ASSUME NEW w \in Thread, LowerStore(w) PROVE Grown'
  <2>1. /\ \A v \in Thread : pc'[v] \notin Inserting
        /\ \A s \in Slot : pool'[s] # None => pool[s] # None
        /\ round' = round
    BY <1>17 DEF LowerStore, TypeOK, Phases
  <2> QED BY <2>1 DEF Reached, Gapless
<1>18. CASE UNCHANGED vars
  BY <1>18 DEF vars, Reached, Gapless, Before
<1> QED
  BY <1>1, <1>2, <1>3, <1>4, <1>5, <1>6, <1>7, <1>8, <1>9, <1>10, <1>11, <1>12, <1>13,
     <1>14, <1>15, <1>16, <1>17, <1>18
  DEF Next, Insert, GetRandom, Remove

-----------------------------------------------------------------------------
\* What holds of _pool, _count and the locals of insert() and remove() between any
\* two accesses, on either machine.
IInv == Base /\ Exact

THEOREM Invariance == Spec => []IInv
<1>1. Init => IInv
  BY BaseInitially, ExactInitially DEF IInv
<1>2. IInv /\ [Next]_vars => IInv'
  BY BasePreserved, ExactPreserved DEF IInv
<1> QED BY <1>1, <1>2, PTL DEF Spec

\* Between calls the table lists the threads that are there and nothing else,
\* until an insert() has stored over a slot that was taken after it was tested,
\* or lowered _count: no other interleaving of insert() and remove(), and no
\* unlocked swap of remove(), can drop a thread or list one that has ended.
THEOREM ListsTheThreads == Spec => []TableIsExact
<1>1. ASSUME Slots, NEW w \in Thread, pc[w] \in Inserted
      PROVE  i[w] < count /\ pool[i[w]] = w
  BY <1>1 DEF Slots
<1>2. ASSUME TypeOK, Slots, NEW s \in 0..count-1, pool[s] # None
      PROVE  pc[pool[s]] \notin {"out", "created"}
  <2>1. s \in Slot
    BY <1>2 DEF TypeOK
  <2>2. pc[pool[s]] \in Holding \union {"scan"}
    BY <1>2, <2>1 DEF Slots
  <2> QED BY <2>2
<1>3. IInv => TableIsExact
  BY <1>1, <1>2 DEF IInv, Base, Exact, Undamaged, TableIsExact, EveryThreadListed,
     ListedAreAlive
<1> QED BY <1>3, Invariance, PTL

\* insert() never runs off a table that has, besides the main thread's, a slot
\* for every thread that is started, on either machine.
THEOREM FindsASlot ==
  ASSUME IsFiniteSet(Thread), MaxRound * (Cardinality(Thread) - 1) < MaxWorkers
  PROVE  Spec => []InsertFits
<1>1. Init => Base /\ Grown
  BY BaseInitially, GrownInitially
<1>2. Base /\ Grown /\ [Next]_vars => (Base /\ Grown)'
  BY BasePreserved, GrownPreserved
<1>3. Base /\ Grown => InsertFits
  <2> SUFFICES ASSUME Base, Grown, NEW w \in Thread, pc[w] = "insert" PROVE i[w] < MaxWorkers
    BY DEF InsertFits
  <2>1. i[w] <= Others * round
    BY Reach DEF Base, Grown
  <2>2. Others \in Nat /\ round \in Nat /\ round <= MaxRound
    <3>1. Cardinality(Thread) \in Nat /\ Cardinality(Thread) # 0
      BY FS_CardinalityType, FS_EmptySet
    <3> QED BY <3>1 DEF Others, Base, TypeOK
  <2>3. Others * round \in Nat /\ Others * round <= Others * MaxRound
    BY <2>2, Rounds
  <2>4. Others * MaxRound = MaxRound * (Cardinality(Thread) - 1)
    BY <2>2 DEF Others
  <2>5. i[w] \in Nat
    BY DEF Base, TypeOK
  <2>6. MaxRound * (Cardinality(Thread) - 1) \in Nat
    BY <2>2 DEF Others
  <2> QED BY <2>1, <2>3, <2>4, <2>5, <2>6
<1> QED BY <1>1, <1>2, <1>3, PTL DEF Spec

\* When getRandom() goes on searching there is another thread to find: removals
\* leave no _count above 1 over empty slots, whatever the races of insert() did.
THEOREM VictimExists == Spec => []SearchCanEnd
<1>1. ASSUME Base, NEW w \in Thread, count > 1, \A v \in Thread : pc[v] \notin Removing
      PROVE  \E s \in 0..count-1 : pool[s] \notin {w, None}
  <2>1. CASE w # Main
    BY <1>1, <2>1 DEF Base, MainListed, TypeOK
  <2>2. CASE w = Main
    <3>1. count - 1 \in Slot /\ pool[count - 1] # None
      BY <1>1 DEF Base, TopHeld, Busy, TypeOK
    <3>2. pool[count - 1] # Main
      BY <1>1, <3>1 DEF Base, MainListed, TypeOK
    <3> QED BY <1>1, <2>2, <3>1, <3>2 DEF Base, TypeOK
  <2> QED BY <2>1, <2>2
<1>2. IInv => SearchCanEnd
  BY <1>1 DEF IInv, SearchCanEnd
<1> QED BY <1>2, Invariance, PTL
=============================================================================

-------------------------- MODULE WorkerThreadPool --------------------------
(***************************************************************************)
(* The table of worker threads (runtime/workerthread.cpp): insert, remove  *)
(* and getRandom, one action per access to the shared _pool and _count.    *)
(*                                                                         *)
(* DynamicScheduler runs rounds: startWorkerThreads creates threads whose  *)
(* constructors insert concurrently, while those already in the pool look  *)
(* for victims; shutdown sends everybody through the barrier of AbortTask, *)
(* after which all but the main thread remove themselves concurrently and  *)
(* are joined.                                                             *)
(*                                                                         *)
(* compareAndSwap (common/jasm.h) is an atomic instruction on SPARC and on *)
(* one processor; its x86 form is a cmpxchg without the lock prefix, whose *)
(* read and write other processors may come between.  Variable atomic says *)
(* which of the two machines the program runs on.  A cmpxchg that fails is *)
(* taken to write nothing.  Variable slip records history, for the         *)
(* properties.  Local variables are reset after their last use.            *)
(***************************************************************************)
EXTENDS Integers

CONSTANTS Thread,     \* the worker threads
          Main,       \* theMainWorkerThread, inserted at start-up
          None,       \* a NULL slot
          MaxWorkers, \* MAX_NUM_WORKERS
          MaxRound,   \* bound: how many times threads are started
          Machines    \* whether compareAndSwap is atomic: one value or both

ASSUME PoolAssumption ==
  /\ Main \in Thread /\ None \notin Thread
  /\ MaxWorkers \in Nat \ {0} /\ MaxRound \in Nat /\ Machines \subseteq BOOLEAN

VARIABLES pool,    \* WorkerThreadPool::_pool
          count,   \* WorkerThreadPool::_count
          pc,      \* where each thread is
          i,       \* the local i of insert and remove, remove's t
          rv,      \* the local rv of getRandom
          old,     \* the value of _count the pending CAS expects, 0: not yet read
          new,     \* the value it is to store, 0: std::max has not yet compared,
                   \* -1: it chose _count, whose value is still to be read
          round,   \* how many times threads were started
          slip,    \* whether an insert stored over a slot or lowered _count
          atomic   \* whether compareAndSwap is atomic; never changes

vars == <<pool, count, pc, i, rv, old, new, round, slip, atomic>>

Slot == 0..MaxWorkers-1

Inserting == {"created", "insert", "store", "read", "raised"}
Inserted == {"up", "look", "found"}
Removing == {"scan", "tighten", "test", "lower", "lowered"}

\* Main is inserted by the initialisers of static objects.
Init ==
  /\ pool = [s \in Slot |-> IF s = 0 THEN Main ELSE None]
  /\ count = 1
  /\ pc = [w \in Thread |-> IF w = Main THEN "up" ELSE "out"]
  /\ i = [w \in Thread |-> 0]
  /\ rv = [w \in Thread |-> None]
  /\ old = [w \in Thread |-> 0]
  /\ new = [w \in Thread |-> 0]
  /\ round = 0 /\ slip = FALSE
  /\ atomic \in Machines

Goto(w, from, to) == pc[w] = from /\ pc' = [pc EXCEPT ![w] = to]
Set(f, w, value) == [f EXCEPT ![w] = value]

-----------------------------------------------------------------------------
\* startWorkerThreads(total), by main, after an earlier shutdown joined
StartWorkerThreads ==
  /\ round < MaxRound
  /\ \A w \in Thread : pc[w] = IF w = Main THEN "up" ELSE "out"
  /\ pc' = [w \in Thread |-> IF w = Main THEN "up" ELSE "created"]
  /\ round' = round + 1
  /\ UNCHANGED <<pool, count, i, rv, old, new, slip, atomic>>

\* insert(): int i = _count.  Faulty: the slot after the first free one.
AfterCount == count + 1
FirstSlot == count

InsertStart(w) ==
  /\ Goto(w, "created", "insert")
  /\ i' = Set(i, w, FirstSlot)
  /\ UNCHANGED <<pool, count, rv, old, new, round, slip, atomic>>

\* compareAndSwap(_pool+i, NULL, thread)
InsertSwap(w) ==
  /\ i[w] < MaxWorkers
  /\ \/ /\ pool[i[w]] = None
        /\ IF atomic THEN Goto(w, "insert", "read") /\ pool' = Set(pool, i[w], w)
                        ELSE Goto(w, "insert", "store") /\ UNCHANGED pool
        /\ UNCHANGED i
     \/ /\ pool[i[w]] # None
        /\ Goto(w, "insert", "insert")
        /\ i' = Set(i, w, i[w] + 1)
        /\ UNCHANGED pool
  /\ UNCHANGED <<count, rv, old, new, round, slip, atomic>>

InsertStore(w) ==
  /\ Goto(w, "store", "read")
  /\ pool' = Set(pool, i[w], w)
  /\ slip' = (slip \/ pool[i[w]] # None)
  /\ UNCHANGED <<count, i, rv, old, new, round, atomic>>

\* while(!compareAndSwap(&_count, _count, max(_count, i+1))): the arguments are
\* evaluated in an order the language leaves open, and std::max returns a
\* reference, so that _count is read once for the value the swap expects, once
\* to be compared, and once more for its value if it is the larger.
ReadExpected(w) ==
  /\ Goto(w, "read", "read") /\ old[w] = 0
  /\ old' = Set(old, w, count)
  /\ UNCHANGED <<pool, count, i, rv, new, round, slip, atomic>>

CompareCount(w) ==
  /\ Goto(w, "read", "read") /\ new[w] = 0
  /\ new' = Set(new, w, IF count < i[w] + 1 THEN i[w] + 1 ELSE -1)
  /\ UNCHANGED <<pool, count, i, rv, old, round, slip, atomic>>

ReadCount(w) ==
  /\ Goto(w, "read", "read") /\ new[w] = -1
  /\ new' = Set(new, w, count)
  /\ UNCHANGED <<pool, count, i, rv, old, round, slip, atomic>>

Raise(w) ==
  /\ count' = new[w] /\ slip' = (slip \/ new[w] < count)
  /\ old' = Set(old, w, 0) /\ new' = Set(new, w, 0)

RaiseSwap(w) ==
  /\ old[w] # 0 /\ new[w] > 0
  /\ \/ /\ count # old[w]
        /\ Goto(w, "read", "read")
        /\ old' = Set(old, w, 0) /\ new' = Set(new, w, 0)
        /\ UNCHANGED <<count, slip>>
     \/ /\ count = old[w] /\ atomic
        /\ Goto(w, "read", "up") /\ Raise(w)
     \/ /\ count = old[w] /\ ~atomic
        /\ Goto(w, "read", "raised")
        /\ UNCHANGED <<count, old, new, slip>>
  /\ UNCHANGED <<pool, i, rv, round, atomic>>

RaiseStore(w) ==
  /\ Goto(w, "raised", "up") /\ Raise(w)
  /\ UNCHANGED <<pool, i, rv, round, atomic>>

-----------------------------------------------------------------------------
\* getRandom(): rv = _pool[rand % _count]
Look(w) ==
  /\ Goto(w, "up", "found") \/ Goto(w, "look", "found")
  /\ \E s \in 0..count-1 : rv' = Set(rv, w, pool[s])
  /\ UNCHANGED <<pool, count, i, old, new, round, slip, atomic>>

\* if(_count==1) return NULL; while(rv==caller || rv==NULL)
Found(w) ==
  /\ Goto(w, "found", IF count = 1 \/ rv[w] \notin {w, None} THEN "up" ELSE "look")
  /\ rv' = Set(rv, w, None)
  /\ UNCHANGED <<pool, count, i, old, new, round, slip, atomic>>

-----------------------------------------------------------------------------
\* remove(), after CleanExitException unwound the thread's main loop: every
\* thread has passed the barrier of the shutdown task
RemoveStart(w) ==
  /\ w # Main
  /\ Goto(w, "up", "scan")
  /\ \A v \in Thread : pc[v] \notin Inserting \union {"look", "found"}
  /\ i' = Set(i, w, 0)
  /\ UNCHANGED <<pool, count, rv, old, new, round, slip, atomic>>

\* for(i<_count) if(_pool[i]==thread) _pool[i]=NULL.  Faulty: the last slot
\* is not looked at.
AllButLast(w) == i[w] < count - 1
InTable(w) == i[w] < count

Scan(w) ==
  /\ \/ /\ InTable(w)
        /\ Goto(w, "scan", "scan")
        /\ pool' = IF pool[i[w]] = w THEN Set(pool, i[w], None) ELSE pool
        /\ i' = Set(i, w, i[w] + 1)
     \/ /\ ~InTable(w)
        /\ Goto(w, "scan", "tighten")
        /\ UNCHANGED <<pool, i>>
  /\ UNCHANGED <<count, rv, old, new, round, slip, atomic>>

\* t = _count-1
Tighten(w) ==
  /\ Goto(w, "tighten", "test")
  /\ i' = Set(i, w, count - 1)
  /\ UNCHANGED <<pool, count, rv, old, new, round, slip, atomic>>

\* while(_pool[t] == NULL).  Faulty: the count is never reduced.
NeverReducible(w) == FALSE
Reducible(w) == pool[i[w]] = None

Test(w) ==
  /\ Goto(w, "test", IF Reducible(w) THEN "lower" ELSE "out")
  /\ i' = IF Reducible(w) THEN i ELSE Set(i, w, 0)
  /\ UNCHANGED <<pool, count, rv, old, new, round, slip, atomic>>

\* compareAndSwap(&_count, t+1, t), whether it succeeds or not
Lower(w) ==
  /\ IF count = i[w] + 1 /\ ~atomic
     THEN Goto(w, "lower", "lowered") /\ UNCHANGED count
     ELSE /\ Goto(w, "lower", "tighten")
          /\ count' = IF count = i[w] + 1 THEN i[w] ELSE count
  /\ UNCHANGED <<pool, i, rv, old, new, round, slip, atomic>>

LowerStore(w) ==
  /\ Goto(w, "lowered", "tighten")
  /\ count' = i[w]
  /\ UNCHANGED <<pool, i, rv, old, new, round, slip, atomic>>

-----------------------------------------------------------------------------
Insert(w) == InsertStart(w) \/ InsertSwap(w) \/ InsertStore(w)
             \/ ReadExpected(w) \/ CompareCount(w) \/ ReadCount(w)
             \/ RaiseSwap(w) \/ RaiseStore(w)

GetRandom(w) ==
  /\ \A v \in Thread : pc[v] \notin Removing   \* everybody is at the barrier
  /\ Look(w) \/ Found(w)

Remove(w) == RemoveStart(w) \/ Scan(w) \/ Tighten(w) \/ Test(w) \/ Lower(w) \/ LowerStore(w)

Next == \/ StartWorkerThreads
        \/ \E w \in Thread : Insert(w) \/ GetRandom(w) \/ Remove(w)

Spec == Init /\ [][Next]_vars

-----------------------------------------------------------------------------
\* Properties

\* The table, its count and the locals keep their types; in particular
\* remove() never reads below slot 0 while the main thread is listed.
TypeOK ==
  /\ pool \in [Slot -> Thread \union {None}]
  /\ count \in 1..MaxWorkers
  /\ pc \in [Thread -> Inserting \union Inserted \union Removing \union {"out"}]
  /\ i \in [Thread -> 0..MaxWorkers]
  /\ rv \in [Thread -> Thread \union {None}]
  /\ old \in [Thread -> 0..MaxWorkers]
  /\ new \in [Thread -> -1..MaxWorkers]
  /\ round \in 0..MaxRound /\ slip \in BOOLEAN /\ atomic \in BOOLEAN

\* "ensure _count>i" (workerthread.cpp:168), once insert() has returned.
CountPastSlot == \A w \in Thread : pc[w] \in Inserted => count > i[w]

\* Once insert() has returned, getRandom() of every other thread can pick the
\* thread: nobody took its slot and _count is past it.
EveryThreadListed ==
  \A w \in Thread : pc[w] \in Inserted => i[w] < count /\ pool[i[w]] = w

\* What getRandom() may pick is a thread that exists: a WorkerThread lives on
\* the stack of its thread, and its destructor has taken it off the table
\* before that ends.
ListedAreAlive ==
  \A s \in 0..count-1 : pool[s] # None => pc[pool[s]] \notin {"out", "created"}

\* The table lists the threads that are there and nothing else as long as no
\* insert() has stored over a slot that another took after it was tested, nor
\* lowered _count: the other races of inserts and removals do it no harm, nor
\* does a swap of remove() that is not atomic.
TableIsExact == ~slip => EveryThreadListed /\ ListedAreAlive

\* JASSERT(i<MAX_NUM_WORKERS): however the inserts race, and even if some have
\* been left in the table or off it, starting threads takes at most one new
\* slot for each of them, so that a table with as many is not too short.
InsertFits == \A w \in Thread : pc[w] = "insert" => i[w] < MaxWorkers

\* getRandom() loops until it finds another thread, so there is one to find
\* whenever it goes on: removals leave no count above 1 over empty slots.
SearchCanEnd ==
  \A w \in Thread :
    pc[w] \in Inserted /\ count > 1
      /\ (\A v \in Thread : pc[v] \notin Removing)
    => \E s \in 0..count-1 : pool[s] \notin {w, None}
=============================================================================

--------------------------- MODULE THEDequeProofs ---------------------------
(***************************************************************************)
(* Proofs about THEDeque for any set of tasks, any set of thieves and any  *)
(* first array size.                                                       *)
(*                                                                         *)
(* The inductive invariant says who holds the lock, how _h and _t bracket  *)
(* the window of undelivered tasks at each point of a call, and that the   *)
(* window, the tasks handed out and the task being pushed partition what   *)
(* was pushed.  From it follow the properties THEDeque states, and that    *)
(* every step is one of WorkDeque or changes nothing there.                *)
(***************************************************************************)
EXTENDS THEDeque, SequenceTheorems, TLAPS

-----------------------------------------------------------------------------
\* The slots from b up to n-1 of an array, read as a sequence.
Slots(a, b, n) == [i \in 1..(n - b) |-> a[b + i - 1]]

\* They are a sequence of the slots' type, one element per slot.
LEMMA SlotsType ==
  ASSUME NEW a, NEW b \in Nat, NEW n \in Nat, b <= n,
         \A i \in b..n-1 : a[i] \in Task
  PROVE  /\ Slots(a, b, n) \in Seq(Task)
         /\ Len(Slots(a, b, n)) = n - b
         /\ \A i \in 1..(n - b) : Slots(a, b, n)[i] = a[b + i - 1]
<1>1. Slots(a, b, n) \in [1..(n - b) -> Task]
  BY DEF Slots
<1>2. n - b \in Nat
  OBVIOUS
<1>3. Slots(a, b, n) \in Seq(Task)
  BY <1>1, <1>2, SeqDef
<1> QED BY <1>1, <1>2, <1>3, LenProperties DEF Slots

\* One slot more at the top appends it.
LEMMA SlotsAppend ==
  ASSUME NEW a, NEW b \in Nat, NEW n \in Nat, b <= n,
         \A i \in b..n : a[i] \in Task
  PROVE  Slots(a, b, n + 1) = Append(Slots(a, b, n), a[n])
<1>1. /\ Slots(a, b, n) \in Seq(Task) /\ Len(Slots(a, b, n)) = n - b
      /\ \A i \in 1..(n - b) : Slots(a, b, n)[i] = a[b + i - 1]
  BY SlotsType
<1>2. /\ Slots(a, b, n + 1) \in Seq(Task) /\ Len(Slots(a, b, n + 1)) = n + 1 - b
      /\ \A i \in 1..(n + 1 - b) : Slots(a, b, n + 1)[i] = a[b + i - 1]
  BY SlotsType
<1>3. /\ Append(Slots(a, b, n), a[n]) \in Seq(Task)
      /\ Len(Append(Slots(a, b, n), a[n])) = n + 1 - b
      /\ \A i \in 1..(n + 1 - b) : Append(Slots(a, b, n), a[n])[i] = a[b + i - 1]
  <2> DEFINE s == Slots(a, b, n)
  <2> HIDE DEF s
  <2>1. s \in Seq(Task) /\ Len(s) = n - b /\ a[n] \in Task
    BY <1>1 DEF s
  <2>2. Append(s, a[n]) \in Seq(Task) /\ Len(Append(s, a[n])) = n - b + 1
    BY <2>1
  <2>3. ASSUME NEW i \in 1..(n + 1 - b) PROVE Append(s, a[n])[i] = a[b + i - 1]
    <3>1. CASE i = n + 1 - b
      BY <2>1, <3>1
    <3>2. CASE i # n + 1 - b
      <4>1. Append(s, a[n])[i] = s[i]
        BY <2>1, <3>2
      <4>2. s[i] = a[b + i - 1]
        BY <1>1, <3>2 DEF s
      <4> QED BY <4>1, <4>2
    <3> QED BY <3>1, <3>2
  <2> QED BY <2>2, <2>3 DEF s
<1> QED BY <1>2, <1>3, SeqEqual

\* One slot less at the top cuts the last element off.
LEMMA SlotsCutTop ==
  ASSUME NEW a, NEW b \in Nat, NEW n \in Nat, b < n,
         \A i \in b..n-1 : a[i] \in Task
  PROVE  LET s == Slots(a, b, n)
         IN  /\ s # <<>> /\ s[Len(s)] = a[n - 1]
             /\ Slots(a, b, n - 1) = SubSeq(s, 1, Len(s) - 1)
<1> DEFINE s == Slots(a, b, n)
<1>1. /\ s \in Seq(Task) /\ Len(s) = n - b
      /\ \A i \in 1..(n - b) : s[i] = a[b + i - 1]
  <2>1. b <= n
    OBVIOUS
  <2> QED BY <2>1, SlotsType
<1>2. /\ Slots(a, b, n - 1) \in Seq(Task) /\ Len(Slots(a, b, n - 1)) = n - 1 - b
      /\ \A i \in 1..(n - 1 - b) : Slots(a, b, n - 1)[i] = a[b + i - 1]
  <2> DEFINE c == n - 1
  <2>1. c \in Nat /\ b <= c /\ \A i \in b..c-1 : a[i] \in Task
    OBVIOUS
  <2>2. /\ Slots(a, b, c) \in Seq(Task) /\ Len(Slots(a, b, c)) = c - b
        /\ \A i \in 1..(c - b) : Slots(a, b, c)[i] = a[b + i - 1]
    <3> HIDE DEF c
    <3> QED BY <2>1, SlotsType
  <2> QED BY <2>2
<1> HIDE DEF s
<1>3. s # <<>> /\ s[Len(s)] = a[n - 1]
  BY <1>1
<1>4. /\ SubSeq(s, 1, Len(s) - 1) \in Seq(Task)
      /\ Len(SubSeq(s, 1, Len(s) - 1)) = n - 1 - b
      /\ \A i \in 1..(n - 1 - b) : SubSeq(s, 1, Len(s) - 1)[i] = a[b + i - 1]
  <2> DEFINE m == Len(s) - 1
  <2>1. m \in Int /\ m = n - 1 - b /\ \A i \in 1..m : s[i] \in Task /\ s[i] = a[b + i - 1]
    BY <1>1
  <2> HIDE DEF m
  <2>2. /\ SubSeq(s, 1, m) \in Seq(Task)
        /\ Len(SubSeq(s, 1, m)) = m
        /\ \A i \in 1..m : SubSeq(s, 1, m)[i] = s[i]
    BY <2>1, SubSeqProperties
  <2> QED BY <2>1, <2>2 DEF m
<1>5. Slots(a, b, n - 1) = SubSeq(s, 1, Len(s) - 1)
  BY <1>2, <1>4, SeqEqual
<1> QED BY <1>3, <1>5 DEF s

\* One slot less at the bottom cuts the first element off.
LEMMA SlotsCutBottom ==
  ASSUME NEW a, NEW b \in Nat, NEW n \in Nat, b < n,
         \A i \in b..n-1 : a[i] \in Task
  PROVE  LET s == Slots(a, b, n)
         IN  s # <<>> /\ Head(s) = a[b] /\ Slots(a, b + 1, n) = Tail(s)
<1> DEFINE s == Slots(a, b, n)
<1>1. /\ s \in Seq(Task) /\ Len(s) = n - b
      /\ \A i \in 1..(n - b) : s[i] = a[b + i - 1]
  <2>1. b <= n
    OBVIOUS
  <2> QED BY <2>1, SlotsType
<1>2. /\ Slots(a, b + 1, n) \in Seq(Task) /\ Len(Slots(a, b + 1, n)) = n - b - 1
      /\ \A i \in 1..(n - b - 1) : Slots(a, b + 1, n)[i] = a[b + i]
  <2> DEFINE c == b + 1
  <2>1. c \in Nat /\ c <= n /\ \A i \in c..n-1 : a[i] \in Task
    OBVIOUS
  <2>2. /\ Slots(a, c, n) \in Seq(Task) /\ Len(Slots(a, c, n)) = n - c
        /\ \A i \in 1..(n - c) : Slots(a, c, n)[i] = a[c + i - 1]
    <3> HIDE DEF c
    <3> QED BY <2>1, SlotsType
  <2> QED BY <2>2
<1> HIDE DEF s
<1>3. s # <<>> /\ Head(s) = a[b]
  BY <1>1
<1>4. /\ Tail(s) \in Seq(Task) /\ Len(Tail(s)) = n - b - 1
      /\ \A i \in 1..(n - b - 1) : Tail(s)[i] = a[b + i]
  BY <1>1, <1>3, HeadTailProperties
<1>5. Slots(a, b + 1, n) = Tail(s)
  BY <1>2, <1>4, SeqEqual
<1> QED BY <1>3, <1>5 DEF s

-----------------------------------------------------------------------------
\* The inductive invariant.

LockOwner == lock = Owner <=> pc[Owner] \in {"push_clear", "push_zero", "grow", "pop_retry"}
LockThief == \A p \in Thief : lock = p <=> pc[p] \in {"inc", "cmp", "undo", "take"}
LockInv == LockOwner /\ LockThief

\* 0 <= Bottom <= Top, and Top stays clear of the end of the array.
Order ==
  /\ 0 <= Bottom /\ Bottom <= Top
  /\ \A p \in Thief : pc[p] = "take" => h <= Top
  /\ pc[Owner] = "pop_dec" => t >= 1
  /\ pc[Owner] = "push_zero" => h = 0

Room ==
  /\ size >= 2
  /\ pc[Owner] \notin {"grow_lock", "grow"} => Top <= size - 2
  /\ pc[Owner] \in {"grow_lock", "grow"} => Top <= size - 1

Written == pc[Owner] = "push_bump" => array[t] = arg
ArgOK == pc[Owner] \in {"push_head", "push_lock", "push_clear", "push_zero",
                        "push_write", "push_bump"} => arg \in Task

IInv == TypeOK /\ LockInv /\ Order /\ Room /\ Written /\ ArgOK /\ ExactlyOnce

USE DequeAssumption DEF Proc, OwnerPC, ThiefPC, Goto

-----------------------------------------------------------------------------
\* The two ways a step may treat the data of the window.

\* A step that leaves the window's slots alone keeps the partition.
LEMMA SameData ==
  ASSUME ExactlyOnce, Window' = Window, \A i \in Window : array'[i] = array[i],
         UNCHANGED <<pushed, given>>, Arriving' = Arriving
  PROVE  ExactlyOnce'
  BY DEF ExactlyOnce, Live

\* A step that hands out one slot and drops it from the window keeps it too.
LEMMA TakeOne ==
  ASSUME ExactlyOnce, NEW k \in Window, Window' = Window \ {k},
         given' = given \union {array[k]},
         UNCHANGED <<pushed, array>>, Arriving' = Arriving
  PROVE  ExactlyOnce'
  BY DEF ExactlyOnce, Live

LEMMA Initially == Init => IInv
  BY DEF Init, IInv, TypeOK, LockInv, LockOwner, LockThief, Order, Room, Written,
         ArgOK, ExactlyOnce, Live, Window, Arriving, Bottom, Top, Stealing

-----------------------------------------------------------------------------
\* Every step preserves the invariant: per action, what it does to the
\* window, then the conjuncts.
LEMMA Preserved == IInv /\ [Next]_vars => IInv'
<1> SUFFICES ASSUME IInv, [Next]_vars PROVE IInv'
  OBVIOUS
<1>1. ASSUME NEW x \in Task, PushEmpty(x) PROVE IInv'
  <2> USE <1>1
  <2>3. Bottom' = Bottom /\ Top' = Top
    BY DEF PushEmpty, Empty, IInv, TypeOK, LockInv, LockOwner, LockThief, Order, Stealing, Bottom, Top
  <2>1. TypeOK'
    BY <2>3 DEF PushEmpty, Empty, IInv, TypeOK, LockInv, LockOwner, LockThief, Order, Room, Top, Bottom, Stealing, ArgOK
  <2>2. LockInv'
    BY DEF PushEmpty, Empty, IInv, TypeOK, LockInv, LockOwner, LockThief
  <2>4. Order'
    BY <2>3 DEF PushEmpty, Empty, IInv, TypeOK, LockInv, LockOwner, LockThief, Order, Top, Bottom
  <2>5. Room'
    BY <2>3 DEF PushEmpty, Empty, IInv, TypeOK, Room, Order, Bottom
  <2>6. Written' /\ ArgOK'
    BY <2>3 DEF PushEmpty, Empty, IInv, TypeOK, Written, ArgOK, Room, Top, Order, Bottom
  <2>7. ExactlyOnce'
    BY <2>3 DEF PushEmpty, Empty, IInv, TypeOK, ExactlyOnce, Live, Window, Arriving
  <2> QED BY <2>1, <2>2, <2>4, <2>5, <2>6, <2>7 DEF IInv
<1>2. CASE PushHead
  <2> USE <1>2
  <2>3. Bottom' = Bottom /\ Top' = Top
    BY DEF PushHead, IInv, TypeOK, LockInv, LockOwner, LockThief, Order, Stealing, Bottom, Top
  <2>1. TypeOK'
    BY <2>3 DEF PushHead, IInv, TypeOK, LockInv, LockOwner, LockThief, Order, Room, Top, Bottom, Stealing, ArgOK
  <2>2. LockInv'
    BY DEF PushHead, IInv, TypeOK, LockInv, LockOwner, LockThief
  <2>4. Order'
    BY <2>3 DEF PushHead, IInv, TypeOK, LockInv, LockOwner, LockThief, Order, Top, Bottom
  <2>5. Room'
    BY <2>3 DEF PushHead, IInv, TypeOK, Room, Order, Bottom
  <2>6. Written' /\ ArgOK'
    BY <2>3 DEF PushHead, IInv, TypeOK, Written, ArgOK, Room, Top, Order, Bottom
  <2>7. ExactlyOnce'
    BY <2>3, SameData DEF PushHead, IInv, Window, Arriving, TypeOK
  <2> QED BY <2>1, <2>2, <2>4, <2>5, <2>6, <2>7 DEF IInv
<1>3. CASE PushLock
  <2> USE <1>3
  <2>3. Bottom' = Bottom /\ Top' = Top
    BY DEF PushLock, Acquire, IInv, TypeOK, LockInv, LockOwner, LockThief, Order, Stealing, Bottom, Top
  <2>1. TypeOK'
    BY <2>3 DEF PushLock, Acquire, IInv, TypeOK, LockInv, LockOwner, LockThief, Order, Room, Top, Bottom, Stealing, ArgOK
  <2>2. LockInv'
    BY DEF PushLock, Acquire, IInv, TypeOK, LockInv, LockOwner, LockThief
  <2>4. Order'
    BY <2>3 DEF PushLock, Acquire, IInv, TypeOK, LockInv, LockOwner, LockThief, Order, Top, Bottom
  <2>5. Room'
    BY <2>3 DEF PushLock, Acquire, IInv, TypeOK, Room, Order, Bottom
  <2>6. Written' /\ ArgOK'
    BY <2>3 DEF PushLock, Acquire, IInv, TypeOK, Written, ArgOK, Room, Top, Order, Bottom
  <2>7. ExactlyOnce'
    BY <2>3, SameData DEF PushLock, Acquire, IInv, Window, Arriving, TypeOK
  <2> QED BY <2>1, <2>2, <2>4, <2>5, <2>6, <2>7 DEF IInv
<1>4. CASE PushClear
  <2> USE <1>4
  <2>3. Window' = Window /\ 0 <= Bottom' /\ Bottom' <= Top' /\ Top' <= Top
    <3>1. ~Stealing /\ ~Stealing' /\ Top = t /\ Bottom = h /\ Bottom' = h'
      BY DEF PushClear, Acquire, Empty, IInv, TypeOK, LockInv, LockOwner, LockThief, Stealing, Bottom, Top
    <3>2. CASE Empty
      <4>1. h = t /\ h' = 0 /\ Top' = 0
        BY <3>1, <3>2 DEF PushClear, Acquire, Empty, IInv, TypeOK, Order, Top
      <4> QED BY <3>1, <4>1 DEF IInv, TypeOK, Window
    <3>3. CASE ~Empty
      <4>1. h' = h /\ Top' = t
        BY <3>1, <3>3 DEF PushClear, Acquire, Empty, IInv, TypeOK, Top
      <4> QED BY <3>1, <4>1 DEF IInv, TypeOK, Order, Window
    <3> QED BY <3>2, <3>3
  <2>1. TypeOK'
    BY <2>3 DEF PushClear, Acquire, Empty, IInv, TypeOK, LockInv, LockOwner, LockThief, Order, Room, Top, Bottom, Stealing, ArgOK
  <2>2. LockInv'
    BY DEF PushClear, Acquire, Empty, IInv, TypeOK, LockInv, LockOwner, LockThief
  <2>4. Order'
    <3>1. \A p \in Thief : pc'[p] # "take"
      BY DEF PushClear, Acquire, Empty, IInv, TypeOK, LockInv, LockOwner, LockThief
    <3>2. pc'[Owner] = "push_zero" => h' = 0
      BY DEF PushClear, Acquire, Empty, IInv, TypeOK
    <3>3. pc'[Owner] # "pop_dec"
      BY DEF PushClear, Acquire, Empty, IInv, TypeOK
    <3> QED BY <2>3, <3>1, <3>2, <3>3 DEF Order
  <2>5. Room'
    BY <2>3 DEF PushClear, Acquire, Empty, IInv, TypeOK, Room, Top
  <2>6. Written' /\ ArgOK'
    BY <2>3 DEF PushClear, Acquire, Empty, IInv, TypeOK, Written, ArgOK, Room, Top, Order, Bottom
  <2>7. ExactlyOnce'
    <3>1. Arriving' = Arriving
      BY DEF PushClear, Acquire, Empty, IInv, TypeOK, Arriving
    <3> QED BY <2>3, <3>1, SameData DEF PushClear, Acquire, Empty, IInv
  <2> QED BY <2>1, <2>2, <2>4, <2>5, <2>6, <2>7 DEF IInv
<1>5. CASE PushZero
  <2> USE <1>5
  <2>3. Bottom' = Bottom /\ Top' = Top
    BY DEF PushZero, IInv, TypeOK, LockInv, LockOwner, LockThief, Order, Stealing, Bottom, Top
  <2>1. TypeOK'
    BY <2>3 DEF PushZero, IInv, TypeOK, LockInv, LockOwner, LockThief, Order, Room, Top, Bottom, Stealing, ArgOK
  <2>2. LockInv'
    BY DEF PushZero, IInv, TypeOK, LockInv, LockOwner, LockThief
  <2>4. Order'
    BY <2>3 DEF PushZero, IInv, TypeOK, LockInv, LockOwner, LockThief, Order, Top, Bottom
  <2>5. Room'
    BY <2>3 DEF PushZero, IInv, TypeOK, Room, Order, Bottom
  <2>6. Written' /\ ArgOK'
    BY <2>3 DEF PushZero, IInv, TypeOK, Written, ArgOK, Room, Top, Order, Bottom
  <2>7. ExactlyOnce'
    BY <2>3, SameData DEF PushZero, IInv, Window, Arriving, TypeOK
  <2> QED BY <2>1, <2>2, <2>4, <2>5, <2>6, <2>7 DEF IInv
<1>6. CASE PushWrite
  <2> USE <1>6
  <2>3. Bottom' = Bottom /\ Top' = Top /\ Top = t
    BY DEF PushWrite, IInv, TypeOK, LockInv, LockOwner, LockThief, Order, Stealing, Bottom, Top
  <2>1. TypeOK'
    BY <2>3 DEF PushWrite, IInv, TypeOK, LockInv, LockOwner, LockThief, Order, Room, Top, Bottom, Stealing, ArgOK
  <2>2. LockInv'
    BY DEF PushWrite, IInv, TypeOK, LockInv, LockOwner, LockThief
  <2>4. Order'
    BY <2>3 DEF PushWrite, IInv, TypeOK, LockInv, LockOwner, LockThief, Order, Top, Bottom
  <2>5. Room'
    BY <2>3 DEF PushWrite, IInv, TypeOK, Room, Order, Bottom
  <2>6. Written' /\ ArgOK'
    BY <2>3 DEF PushWrite, IInv, TypeOK, Written, ArgOK, Room, Top, Order, Bottom
  <2>7. ExactlyOnce'
    BY <2>3, SameData DEF PushWrite, IInv, TypeOK, Window, Arriving, Order
  <2> QED BY <2>1, <2>2, <2>4, <2>5, <2>6, <2>7 DEF IInv
<1>7. CASE PushBump
  <2> USE <1>7
  <2>3. Bottom' = Bottom /\ Top = t /\ Top' = t + 1
    BY DEF PushBump, IInv, TypeOK, LockInv, LockOwner, LockThief, Order, Stealing, Bottom, Top
  <2>1. TypeOK'
    BY <2>3 DEF PushBump, IInv, TypeOK, LockInv, LockOwner, LockThief, Order, Room, Top, Bottom, Stealing, ArgOK
  <2>2. LockInv'
    BY DEF PushBump, IInv, TypeOK, LockInv, LockOwner, LockThief
  <2>4. Order'
    BY <2>3 DEF PushBump, IInv, TypeOK, LockInv, LockOwner, LockThief, Order, Top, Bottom
  <2>5. Room'
    BY <2>3 DEF PushBump, IInv, TypeOK, Room, Order, Bottom
  <2>6. Written' /\ ArgOK'
    BY <2>3 DEF PushBump, IInv, TypeOK, Written, ArgOK, Room, Top, Order, Bottom
  <2>7. ExactlyOnce'
    <3>1. Window' = Window \union {t} /\ t \notin Window /\ Window \subseteq Int
      BY <2>3 DEF IInv, TypeOK, Window, Order, Bottom
    <3>2. Live' = Live \union {arg}
      BY <3>1 DEF PushBump, IInv, Written, Live
    <3>3. Arriving = {arg} /\ Arriving' = {}
      BY DEF PushBump, IInv, TypeOK, Arriving
    <3> QED
      BY <3>1, <3>2, <3>3 DEF PushBump, IInv, Written, ExactlyOnce, Live
  <2> QED BY <2>1, <2>2, <2>4, <2>5, <2>6, <2>7 DEF IInv
<1>8. CASE GrowLock
  <2> USE <1>8
  <2>3. Bottom' = Bottom /\ Top' = Top
    BY DEF GrowLock, Acquire, IInv, TypeOK, LockInv, LockOwner, LockThief, Order, Stealing, Bottom, Top
  <2>1. TypeOK'
    BY <2>3 DEF GrowLock, Acquire, IInv, TypeOK, LockInv, LockOwner, LockThief, Order, Room, Top, Bottom, Stealing, ArgOK
  <2>2. LockInv'
    BY DEF GrowLock, Acquire, IInv, TypeOK, LockInv, LockOwner, LockThief
  <2>4. Order'
    BY <2>3 DEF GrowLock, Acquire, IInv, TypeOK, LockInv, LockOwner, LockThief, Order, Top, Bottom
  <2>5. Room'
    BY <2>3 DEF GrowLock, Acquire, IInv, TypeOK, Room, Order, Bottom
  <2>6. Written' /\ ArgOK'
    BY <2>3 DEF GrowLock, Acquire, IInv, TypeOK, Written, ArgOK, Room, Top, Order, Bottom
  <2>7. ExactlyOnce'
    BY <2>3, SameData DEF GrowLock, Acquire, IInv, Window, Arriving, TypeOK
  <2> QED BY <2>1, <2>2, <2>4, <2>5, <2>6, <2>7 DEF IInv
<1>9. CASE Grow
  <2> USE <1>9
  <2>3. Bottom' = Bottom /\ Top' = Top
    BY DEF Grow, IInv, TypeOK, LockInv, LockOwner, LockThief, Order, Stealing, Bottom, Top
  <2>1. TypeOK'
    BY <2>3 DEF Grow, IInv, TypeOK, LockInv, LockOwner, LockThief, Order, Room, Top, Bottom, Stealing, ArgOK
  <2>2. LockInv'
    BY DEF Grow, IInv, TypeOK, LockInv, LockOwner, LockThief
  <2>4. Order'
    BY <2>3 DEF Grow, IInv, TypeOK, LockInv, LockOwner, LockThief, Order, Top, Bottom
  <2>5. Room'
    <3>1. Top <= size - 1 /\ size >= 2 /\ size' = 3 * size
      BY DEF Grow, IInv, Room
    <3>2. Top \in Int /\ size \in Nat
      BY DEF IInv, TypeOK, Top
    <3>3. pc'[Owner] = "idle"
      BY DEF Grow, IInv, TypeOK
    <3>4. size' >= 2 /\ Top' <= size' - 2
      BY <2>3, <3>1, <3>2
    <3> QED BY <3>3, <3>4 DEF Room
  <2>6. Written' /\ ArgOK'
    BY <2>3 DEF Grow, IInv, TypeOK, Written, ArgOK, Room, Top, Order, Bottom
  <2>7. ExactlyOnce'
    <3>1. Window \subseteq 0..size-1
      BY DEF Grow, IInv, TypeOK, Window, Order, Room, Bottom, Top, Stealing
    <3>2. \A i \in Window : array'[i] = array[i]
      BY <3>1 DEF Grow, IInv, TypeOK, Room
    <3> QED
      BY <2>3, <3>2, SameData DEF Grow, IInv, Window, Arriving, TypeOK
  <2> QED BY <2>1, <2>2, <2>4, <2>5, <2>6, <2>7 DEF IInv
<1>10. CASE PopEmpty
  <2> USE <1>10
  <2>3. Bottom' = Bottom /\ Top' = Top
    BY DEF PopEmpty, Empty, IInv, TypeOK, LockInv, LockOwner, LockThief, Order, Stealing, Bottom, Top
  <2>1. TypeOK'
    BY <2>3 DEF PopEmpty, Empty, IInv, TypeOK, LockInv, LockOwner, LockThief, Order, Room, Top, Bottom, Stealing, ArgOK
  <2>2. LockInv'
    BY DEF PopEmpty, Empty, IInv, TypeOK, LockInv, LockOwner, LockThief
  <2>4. Order'
    BY <2>3 DEF PopEmpty, Empty, IInv, TypeOK, LockInv, LockOwner, LockThief, Order, Top, Bottom
  <2>5. Room'
    BY <2>3 DEF PopEmpty, Empty, IInv, TypeOK, Room, Order, Bottom
  <2>6. Written' /\ ArgOK'
    BY <2>3 DEF PopEmpty, Empty, IInv, TypeOK, Written, ArgOK, Room, Top, Order, Bottom
  <2>7. ExactlyOnce'
    BY <2>3, SameData DEF PopEmpty, Empty, IInv, Window, Arriving, TypeOK
  <2> QED BY <2>1, <2>2, <2>4, <2>5, <2>6, <2>7 DEF IInv
<1>11. CASE PopDec
  <2> USE <1>11
  <2>3. Bottom' = Bottom /\ Top' = Top
    BY DEF PopDec, IInv, TypeOK, LockInv, LockOwner, LockThief, Order, Stealing, Bottom, Top
  <2>1. TypeOK'
    BY <2>3 DEF PopDec, IInv, TypeOK, LockInv, LockOwner, LockThief, Order, Room, Top, Bottom, Stealing, ArgOK
  <2>2. LockInv'
    BY DEF PopDec, IInv, TypeOK, LockInv, LockOwner, LockThief
  <2>4. Order'
    BY <2>3 DEF PopDec, IInv, TypeOK, LockInv, LockOwner, LockThief, Order, Top, Bottom
  <2>5. Room'
    BY <2>3 DEF PopDec, IInv, TypeOK, Room, Order, Bottom
  <2>6. Written' /\ ArgOK'
    BY <2>3 DEF PopDec, IInv, TypeOK, Written, ArgOK, Room, Top, Order, Bottom
  <2>7. ExactlyOnce'
    BY <2>3, SameData DEF PopDec, IInv, Window, Arriving, TypeOK
  <2> QED BY <2>1, <2>2, <2>4, <2>5, <2>6, <2>7 DEF IInv
<1>12. CASE PopTake
  <2> USE <1>12
  <2>3. Bottom' = Bottom /\ Top = t + 1 /\ Top' = t /\ Bottom <= t
    BY DEF PopTake, IInv, TypeOK, LockInv, LockOwner, LockThief, Order, Stealing, Bottom, Top
  <2>1. TypeOK'
    <3>1. t \in Window
      BY <2>3 DEF IInv, TypeOK, Order, Window, Bottom, Top
    <3>2. array[t] \in Task
      BY <3>1 DEF IInv, TypeOK, ExactlyOnce, Live
    <3>3. t \in Nat
      BY <2>3 DEF IInv, TypeOK, Order, Bottom
    <3> QED BY <3>2, <3>3 DEF PopTake, IInv, TypeOK
  <2>2. LockInv'
    BY DEF PopTake, IInv, TypeOK, LockInv, LockOwner, LockThief
  <2>4. Order'
    BY <2>3 DEF PopTake, IInv, TypeOK, LockInv, LockOwner, LockThief, Order, Top, Bottom
  <2>5. Room'
    BY <2>3 DEF PopTake, IInv, TypeOK, Room, Order, Bottom
  <2>6. Written' /\ ArgOK'
    BY <2>3 DEF PopTake, IInv, TypeOK, Written, ArgOK, Room, Top, Order, Bottom
  <2>7. ExactlyOnce'
    <3>1. t \in Window /\ Window' = Window \ {t}
      BY <2>3 DEF IInv, TypeOK, Window, Order, Bottom
    <3> QED
      BY <3>1, TakeOne DEF PopTake, IInv, TypeOK, Arriving
  <2> QED BY <2>1, <2>2, <2>4, <2>5, <2>6, <2>7 DEF IInv
<1>13. CASE PopConflict
  <2> USE <1>13
  <2>3. Bottom' = Bottom /\ Top' = Top
    BY DEF PopConflict, IInv, TypeOK, LockInv, LockOwner, LockThief, Order, Stealing, Bottom, Top
  <2>1. TypeOK'
    BY <2>3 DEF PopConflict, IInv, TypeOK, LockInv, LockOwner, LockThief, Order, Room, Top, Bottom, Stealing, ArgOK
  <2>2. LockInv'
    BY DEF PopConflict, IInv, TypeOK, LockInv, LockOwner, LockThief
  <2>4. Order'
    BY <2>3 DEF PopConflict, IInv, TypeOK, LockInv, LockOwner, LockThief, Order, Top, Bottom
  <2>5. Room'
    BY <2>3 DEF PopConflict, IInv, TypeOK, Room, Order, Bottom
  <2>6. Written' /\ ArgOK'
    BY <2>3 DEF PopConflict, IInv, TypeOK, Written, ArgOK, Room, Top, Order, Bottom
  <2>7. ExactlyOnce'
    BY <2>3, SameData DEF PopConflict, IInv, Window, Arriving, TypeOK
  <2> QED BY <2>1, <2>2, <2>4, <2>5, <2>6, <2>7 DEF IInv
<1>14. CASE PopUndo
  <2> USE <1>14
  <2>3. Bottom' = Bottom /\ Top' = Top
    BY DEF PopUndo, IInv, TypeOK, LockInv, LockOwner, LockThief, Order, Stealing, Bottom, Top
  <2>1. TypeOK'
    BY <2>3 DEF PopUndo, IInv, TypeOK, LockInv, LockOwner, LockThief, Order, Room, Top, Bottom, Stealing, ArgOK
  <2>2. LockInv'
    BY DEF PopUndo, IInv, TypeOK, LockInv, LockOwner, LockThief
  <2>4. Order'
    BY <2>3 DEF PopUndo, IInv, TypeOK, LockInv, LockOwner, LockThief, Order, Top, Bottom
  <2>5. Room'
    BY <2>3 DEF PopUndo, IInv, TypeOK, Room, Order, Bottom
  <2>6. Written' /\ ArgOK'
    BY <2>3 DEF PopUndo, IInv, TypeOK, Written, ArgOK, Room, Top, Order, Bottom
  <2>7. ExactlyOnce'
    BY <2>3, SameData DEF PopUndo, IInv, Window, Arriving, TypeOK
  <2> QED BY <2>1, <2>2, <2>4, <2>5, <2>6, <2>7 DEF IInv
<1>15. CASE PopLock
  <2> USE <1>15
  <2>3. Bottom' = Bottom /\ Top' = Top
    BY DEF PopLock, Acquire, IInv, TypeOK, LockInv, LockOwner, LockThief, Order, Stealing, Bottom, Top
  <2>1. TypeOK'
    BY <2>3 DEF PopLock, Acquire, IInv, TypeOK, LockInv, LockOwner, LockThief, Order, Room, Top, Bottom, Stealing, ArgOK
  <2>2. LockInv'
    BY DEF PopLock, Acquire, IInv, TypeOK, LockInv, LockOwner, LockThief
  <2>4. Order'
    BY <2>3 DEF PopLock, Acquire, IInv, TypeOK, LockInv, LockOwner, LockThief, Order, Top, Bottom
  <2>5. Room'
    BY <2>3 DEF PopLock, Acquire, IInv, TypeOK, Room, Order, Bottom
  <2>6. Written' /\ ArgOK'
    BY <2>3 DEF PopLock, Acquire, IInv, TypeOK, Written, ArgOK, Room, Top, Order, Bottom
  <2>7. ExactlyOnce'
    BY <2>3, SameData DEF PopLock, Acquire, IInv, Window, Arriving, TypeOK
  <2> QED BY <2>1, <2>2, <2>4, <2>5, <2>6, <2>7 DEF IInv
<1>16. CASE PopRetryEmpty
  <2> USE <1>16
  <2>3. Bottom' = Bottom /\ Top' = Top
    BY DEF PopRetryEmpty, Empty, IInv, TypeOK, LockInv, LockOwner, LockThief, Order, Stealing, Bottom, Top
  <2>1. TypeOK'
    BY <2>3 DEF PopRetryEmpty, Empty, IInv, TypeOK, LockInv, LockOwner, LockThief, Order, Room, Top, Bottom, Stealing, ArgOK
  <2>2. LockInv'
    BY DEF PopRetryEmpty, Empty, IInv, TypeOK, LockInv, LockOwner, LockThief
  <2>4. Order'
    BY <2>3 DEF PopRetryEmpty, Empty, IInv, TypeOK, LockInv, LockOwner, LockThief, Order, Top, Bottom
  <2>5. Room'
    BY <2>3 DEF PopRetryEmpty, Empty, IInv, TypeOK, Room, Order, Bottom
  <2>6. Written' /\ ArgOK'
    BY <2>3 DEF PopRetryEmpty, Empty, IInv, TypeOK, Written, ArgOK, Room, Top, Order, Bottom
  <2>7. ExactlyOnce'
    BY <2>3, SameData DEF PopRetryEmpty, Empty, IInv, Window, Arriving, TypeOK
  <2> QED BY <2>1, <2>2, <2>4, <2>5, <2>6, <2>7 DEF IInv
<1>17. CASE PopRetryTake
  <2> USE <1>17
  <2>3. Bottom' = Bottom /\ Top = t /\ Top' = t - 1 /\ Bottom < t
    BY DEF PopRetryTake, Empty, IInv, TypeOK, LockInv, LockOwner, LockThief, Order, Stealing, Bottom, Top
  <2>1. TypeOK'
    <3>1. t - 1 \in Window
      BY <2>3 DEF IInv, TypeOK, Order, Window, Bottom, Top
    <3>2. array[t - 1] \in Task
      BY <3>1 DEF IInv, TypeOK, ExactlyOnce, Live
    <3>3. t - 1 \in Nat
      BY <2>3 DEF IInv, TypeOK, Order, Bottom
    <3> QED BY <3>2, <3>3 DEF PopRetryTake, Empty, IInv, TypeOK
  <2>2. LockInv'
    BY DEF PopRetryTake, Empty, IInv, TypeOK, LockInv, LockOwner, LockThief
  <2>4. Order'
    BY <2>3 DEF PopRetryTake, Empty, IInv, TypeOK, LockInv, LockOwner, LockThief, Order, Top, Bottom
  <2>5. Room'
    BY <2>3 DEF PopRetryTake, Empty, IInv, TypeOK, Room, Order, Bottom
  <2>6. Written' /\ ArgOK'
    BY <2>3 DEF PopRetryTake, Empty, IInv, TypeOK, Written, ArgOK, Room, Top, Order, Bottom
  <2>7. ExactlyOnce'
    <3>1. t - 1 \in Window /\ Window' = Window \ {t - 1}
      BY <2>3 DEF IInv, TypeOK, Window, Order, Bottom
    <3> QED
      BY <3>1, TakeOne DEF PopRetryTake, Empty, IInv, TypeOK, Arriving
  <2> QED BY <2>1, <2>2, <2>4, <2>5, <2>6, <2>7 DEF IInv
<1>18. ASSUME NEW p \in Thief, StealEmpty(p) PROVE IInv'
  <2> USE <1>18
  <2>3. Bottom' = Bottom /\ Top' = Top
    BY DEF StealEmpty, Empty, IInv, TypeOK, LockInv, LockOwner, LockThief, Order, Stealing, Bottom, Top
  <2>1. TypeOK'
    BY <2>3 DEF StealEmpty, Empty, IInv, TypeOK, LockInv, LockOwner, LockThief, Order, Room, Top, Bottom, Stealing, ArgOK
  <2>2. LockInv'
    BY DEF StealEmpty, Empty, IInv, TypeOK, LockInv, LockOwner, LockThief
  <2>4. Order'
    BY <2>3 DEF StealEmpty, Empty, IInv, TypeOK, LockInv, LockOwner, LockThief, Order, Top, Bottom
  <2>5. Room'
    BY <2>3 DEF StealEmpty, Empty, IInv, TypeOK, Room, Order, Bottom
  <2>6. Written' /\ ArgOK'
    BY <2>3 DEF StealEmpty, Empty, IInv, TypeOK, Written, ArgOK, Room, Top, Order, Bottom
  <2>7. ExactlyOnce'
    BY <2>3, SameData DEF StealEmpty, Empty, IInv, Window, Arriving, TypeOK
  <2> QED BY <2>1, <2>2, <2>4, <2>5, <2>6, <2>7 DEF IInv
<1>19. ASSUME NEW p \in Thief, StealTrylock(p) PROVE IInv'
  <2> USE <1>19
  <2>3. Bottom' = Bottom /\ Top' = Top
    BY DEF StealTrylock, IInv, TypeOK, LockInv, LockOwner, LockThief, Order, Stealing, Bottom, Top
  <2>1. TypeOK'
    BY <2>3 DEF StealTrylock, IInv, TypeOK, LockInv, LockOwner, LockThief, Order, Room, Top, Bottom, Stealing, ArgOK
  <2>2. LockInv'
    BY DEF StealTrylock, IInv, TypeOK, LockInv, LockOwner, LockThief
  <2>4. Order'
    BY <2>3 DEF StealTrylock, IInv, TypeOK, LockInv, LockOwner, LockThief, Order, Top, Bottom
  <2>5. Room'
    BY <2>3 DEF StealTrylock, IInv, TypeOK, Room, Order, Bottom
  <2>6. Written' /\ ArgOK'
    BY <2>3 DEF StealTrylock, IInv, TypeOK, Written, ArgOK, Room, Top, Order, Bottom
  <2>7. ExactlyOnce'
    BY <2>3, SameData DEF StealTrylock, IInv, Window, Arriving, TypeOK
  <2> QED BY <2>1, <2>2, <2>4, <2>5, <2>6, <2>7 DEF IInv
<1>20. ASSUME NEW p \in Thief, StealInc(p) PROVE IInv'
  <2> USE <1>20
  <2>3. Bottom' = Bottom /\ Top' = Top
    <3>1. ~Stealing /\ Stealing'
      BY DEF StealInc, IInv, TypeOK, LockInv, LockThief, Stealing
    <3>2. Top' = Top
      BY DEF StealInc, IInv, TypeOK, Top
    <3> QED
      BY <3>1, <3>2 DEF StealInc, IInv, TypeOK, LockInv, LockThief, Order, Bottom
  <2>1. TypeOK'
    BY <2>3 DEF StealInc, IInv, TypeOK, LockInv, LockOwner, LockThief, Order, Room, Top, Bottom, Stealing, ArgOK
  <2>2. LockInv'
    BY DEF StealInc, IInv, TypeOK, LockInv, LockOwner, LockThief
  <2>4. Order'
    BY <2>3 DEF StealInc, IInv, TypeOK, LockInv, LockOwner, LockThief, Order, Top, Bottom
  <2>5. Room'
    BY <2>3 DEF StealInc, IInv, TypeOK, Room, Order, Bottom
  <2>6. Written' /\ ArgOK'
    BY <2>3 DEF StealInc, IInv, TypeOK, Written, ArgOK, Room, Top, Order, Bottom
  <2>7. ExactlyOnce'
    BY <2>3, SameData DEF StealInc, IInv, Window, Arriving, TypeOK
  <2> QED BY <2>1, <2>2, <2>4, <2>5, <2>6, <2>7 DEF IInv
<1>21. ASSUME NEW p \in Thief, StealCompare(p) PROVE IInv'
  <2> USE <1>21
  <2>3. Bottom' = Bottom /\ Top' = Top
    BY DEF StealCompare, IInv, TypeOK, LockInv, LockOwner, LockThief, Order, Stealing, Bottom, Top
  <2>1. TypeOK'
    BY <2>3 DEF StealCompare, IInv, TypeOK, LockInv, LockOwner, LockThief, Order, Room, Top, Bottom, Stealing, ArgOK
  <2>2. LockInv'
    BY DEF StealCompare, IInv, TypeOK, LockInv, LockOwner, LockThief
  <2>4. Order'
    BY <2>3 DEF StealCompare, IInv, TypeOK, LockInv, LockOwner, LockThief, Order, Top, Bottom
  <2>5. Room'
    BY <2>3 DEF StealCompare, IInv, TypeOK, Room, Order, Bottom
  <2>6. Written' /\ ArgOK'
    BY <2>3 DEF StealCompare, IInv, TypeOK, Written, ArgOK, Room, Top, Order, Bottom
  <2>7. ExactlyOnce'
    BY <2>3, SameData DEF StealCompare, IInv, Window, Arriving, TypeOK
  <2> QED BY <2>1, <2>2, <2>4, <2>5, <2>6, <2>7 DEF IInv
<1>22. ASSUME NEW p \in Thief, StealUndo(p) PROVE IInv'
  <2> USE <1>22
  <2>3. Bottom' = Bottom /\ Top' = Top
    <3>1. Stealing /\ ~Stealing'
      BY DEF StealUndo, IInv, TypeOK, LockInv, LockThief, Stealing
    <3>2. Top' = Top
      BY DEF StealUndo, IInv, TypeOK, Top
    <3> QED
      BY <3>1, <3>2 DEF StealUndo, IInv, TypeOK, LockInv, LockThief, Order, Bottom
  <2>1. TypeOK'
    BY <2>3 DEF StealUndo, IInv, TypeOK, LockInv, LockOwner, LockThief, Order, Room, Top, Bottom, Stealing, ArgOK
  <2>2. LockInv'
    BY DEF StealUndo, IInv, TypeOK, LockInv, LockOwner, LockThief
  <2>4. Order'
    BY <2>3 DEF StealUndo, IInv, TypeOK, LockInv, LockOwner, LockThief, Order, Top, Bottom
  <2>5. Room'
    BY <2>3 DEF StealUndo, IInv, TypeOK, Room, Order, Bottom
  <2>6. Written' /\ ArgOK'
    BY <2>3 DEF StealUndo, IInv, TypeOK, Written, ArgOK, Room, Top, Order, Bottom
  <2>7. ExactlyOnce'
    BY <2>3, SameData DEF StealUndo, IInv, Window, Arriving, TypeOK
  <2> QED BY <2>1, <2>2, <2>4, <2>5, <2>6, <2>7 DEF IInv
<1>23. ASSUME NEW p \in Thief, StealTake(p) PROVE IInv'
  <2> USE <1>23
  <2>3. Bottom = h - 1 /\ Bottom' = h /\ Top' = Top /\ h <= Top
    <3>1. Stealing /\ ~Stealing'
      BY DEF StealTake, IInv, TypeOK, LockInv, LockThief, Stealing
    <3>2. Top' = Top
      BY DEF StealTake, IInv, TypeOK, Top
    <3> QED
      BY <3>1, <3>2 DEF StealTake, IInv, TypeOK, LockInv, LockThief, Order, Bottom
  <2>1. TypeOK'
    <3>1. h - 1 \in Window
      BY <2>3 DEF IInv, TypeOK, Order, Window, Bottom, Top
    <3>2. array[h - 1] \in Task
      BY <3>1 DEF IInv, TypeOK, ExactlyOnce, Live
    <3>3. h - 1 \in Nat
      BY <2>3 DEF IInv, TypeOK, Order, Bottom
    <3> QED BY <3>2, <3>3 DEF StealTake, IInv, TypeOK
  <2>2. LockInv'
    BY DEF StealTake, IInv, TypeOK, LockInv, LockOwner, LockThief
  <2>4. Order'
    BY <2>3 DEF StealTake, IInv, TypeOK, LockInv, LockOwner, LockThief, Order, Top, Bottom
  <2>5. Room'
    BY <2>3 DEF StealTake, IInv, TypeOK, Room, Order, Bottom
  <2>6. Written' /\ ArgOK'
    BY <2>3 DEF StealTake, IInv, TypeOK, Written, ArgOK, Room, Top, Order, Bottom
  <2>7. ExactlyOnce'
    <3>1. h - 1 \in Window /\ Window' = Window \ {h - 1}
      BY <2>3 DEF StealTake, IInv, TypeOK, Window, Order, Top
    <3> QED
      BY <3>1, TakeOne DEF StealTake, IInv, TypeOK, Arriving
  <2> QED BY <2>1, <2>2, <2>4, <2>5, <2>6, <2>7 DEF IInv
<1>24. CASE UNCHANGED vars
  BY <1>24 DEF IInv, vars, TypeOK, LockInv, LockOwner, LockThief, Order, Room, Written, ArgOK,
     ExactlyOnce, Live, Window, Arriving, Bottom, Top, Stealing
<1> QED
  BY <1>1, <1>2, <1>3, <1>4, <1>5, <1>6, <1>7, <1>8, <1>9, <1>10, <1>11, <1>12, <1>13, <1>14, <1>15, <1>16, <1>17, <1>18, <1>19, <1>20, <1>21, <1>22, <1>23, <1>24
  DEF Next, OwnerCalls, OwnerContinues, ThiefContinues

\* Every access of push_top, pop_top and pop_bottom preserves the invariant.
THEOREM Invariance == Spec => []IInv
  BY Initially, Preserved, PTL DEF Spec

-----------------------------------------------------------------------------
\* The deque's words keep their types.
THEOREM TypeCorrect == Spec => []TypeOK
  BY Invariance, PTL DEF IInv

\* No task is lost, duplicated or read from an unwritten slot, however the
\* owner's and the thieves' accesses to _h, _t and _array interleave.
THEOREM HandsOutExactlyOnce == Spec => []ExactlyOnce
  BY Invariance, PTL DEF IInv

\* No access through _h or _t leaves the allocation.
THEOREM StaysInBounds == Spec => []InBounds
<1>1. IInv => InBounds
  BY DEF IInv, TypeOK, LockInv, LockThief, Order, Room, InBounds, Bottom, Top, Stealing
<1> QED BY <1>1, Invariance, PTL

\* A NULL from pop_top means the owner has nothing left but, at most, one
\* task that a thief inside pop_bottom's critical section overlaps with.
THEOREM NullMeansDrained == Spec => []NullOnlyWhenDrained
<1>1. IInv => NullOnlyWhenDrained
  BY DEF IInv, TypeOK, LockInv, LockThief, Order, NullOnlyWhenDrained, Empty,
         Bottom, Top, Stealing
<1> QED BY <1>1, Invariance, PTL

-----------------------------------------------------------------------------
\* The deque implements WorkDeque: the abstract items are the window's slots.

\* The window holds tasks that were not handed out yet.
LEMMA WindowHoldsTasks ==
  ASSUME IInv
  PROVE  /\ Bottom \in Nat /\ Top \in Nat /\ Bottom <= Top
         /\ \A i \in Bottom..Top-1 : array[i] \in Task /\ array[i] \notin given
<1>1. Bottom \in Nat /\ Top \in Nat /\ Bottom <= Top
  BY DEF IInv, TypeOK, Order, Bottom, Top
<1>2. ASSUME NEW i \in Bottom..Top-1 PROVE array[i] \in Task /\ array[i] \notin given
  <2>1. array[i] \in Live /\ Live \subseteq Task
    BY DEF IInv, TypeOK, ExactlyOnce, Live, Window
  <2> QED BY <2>1 DEF IInv, ExactlyOnce
<1> QED BY <1>1, <1>2

\* The four ways a step may move the window, as steps of WorkDeque.
LEMMA AbstractStutter ==
  ASSUME IInv, Bottom' = Bottom, Top' = Top, UNCHANGED given,
         \A i \in Window : array'[i] = array[i]
  PROVE  UNCHANGED Abs!vars
<1>1. \A i \in 1..(Top - Bottom) : array'[Bottom + i - 1] = array[Bottom + i - 1]
  BY WindowHoldsTasks DEF Window
<1> QED BY <1>1 DEF Abs!vars

LEMMA AbstractPush ==
  ASSUME IInv, NEW x \in Task, array[Top] = x,
         Bottom' = Bottom, Top' = Top + 1, UNCHANGED <<array, given>>
  PROVE  Abs!Push(x)
<1>1. \A i \in Bottom..Top : array[i] \in Task
  BY WindowHoldsTasks
<1>2. Slots(array, Bottom, Top + 1) = Append(Slots(array, Bottom, Top), array[Top])
  BY <1>1, WindowHoldsTasks, SlotsAppend
<1> QED BY <1>2 DEF Slots, Abs!Push

LEMMA AbstractTakeTop ==
  ASSUME IInv, Bottom < Top, Bottom' = Bottom, Top' = Top - 1, UNCHANGED array,
         given' = given \union {array[Top - 1]}
  PROVE  Abs!TakeTop
<1> DEFINE s == Slots(array, Bottom, Top)
<1>1. /\ s # <<>> /\ s[Len(s)] = array[Top - 1]
      /\ Slots(array, Bottom, Top - 1) = SubSeq(s, 1, Len(s) - 1)
  BY WindowHoldsTasks, SlotsCutTop
<1>2. array[Top - 1] \notin given
  BY WindowHoldsTasks
<1> QED BY <1>1, <1>2 DEF Slots, Abs!TakeTop

LEMMA AbstractTakeBottom ==
  ASSUME IInv, Bottom < Top, Bottom' = Bottom + 1, Top' = Top, UNCHANGED array,
         given' = given \union {array[Bottom]}
  PROVE  Abs!TakeBottom
<1> DEFINE s == Slots(array, Bottom, Top)
<1>1. s # <<>> /\ Head(s) = array[Bottom] /\ Slots(array, Bottom + 1, Top) = Tail(s)
  BY WindowHoldsTasks, SlotsCutBottom
<1>2. array[Bottom] \notin given
  BY WindowHoldsTasks
<1> QED BY <1>1, <1>2 DEF Slots, Abs!TakeBottom

\* Every step of the deque is one of these.  A push counts when _t is bumped,
\* a pop when it returns, a steal when its slot is read; resetting an empty
\* deque to _h = _t = 0, growing it and backing out change nothing.
LEMMA StepSimulation == IInv /\ [Next]_vars => [Abs!Next]_(Abs!vars)
<1> SUFFICES ASSUME IInv, [Next]_vars PROVE [Abs!Next]_(Abs!vars)
  OBVIOUS
<1> USE DEF IInv, TypeOK, LockInv, LockOwner, LockThief, Order, Stealing, Bottom, Top
<1>1. ASSUME NEW x \in Task, PushEmpty(x) PROVE UNCHANGED Abs!vars
  <2>1. Bottom' = Bottom /\ Top' = Top /\ UNCHANGED <<array, given>>
    BY <1>1 DEF PushEmpty, Empty
  <2> QED BY <2>1, AbstractStutter
<1>2. ASSUME PushHead PROVE UNCHANGED Abs!vars
  <2>1. Bottom' = Bottom /\ Top' = Top /\ UNCHANGED <<array, given>>
    BY <1>2 DEF PushHead
  <2> QED BY <2>1, AbstractStutter
<1>3. ASSUME PushLock PROVE UNCHANGED Abs!vars
  <2>1. Bottom' = Bottom /\ Top' = Top /\ UNCHANGED <<array, given>>
    BY <1>3 DEF PushLock, Acquire
  <2> QED BY <2>1, AbstractStutter
<1>4. ASSUME PushZero PROVE UNCHANGED Abs!vars
  <2>1. Bottom' = Bottom /\ Top' = Top /\ UNCHANGED <<array, given>>
    BY <1>4 DEF PushZero
  <2> QED BY <2>1, AbstractStutter
<1>5. ASSUME PushWrite PROVE UNCHANGED Abs!vars
  <2>1. Bottom' = Bottom /\ Top' = Top /\ UNCHANGED given
    BY <1>5 DEF PushWrite
  <2>2. \A i \in Window : array'[i] = array[i]
    BY <1>5 DEF PushWrite, Room, Window
  <2> QED BY <2>1, <2>2, AbstractStutter
<1>6. ASSUME GrowLock PROVE UNCHANGED Abs!vars
  <2>1. Bottom' = Bottom /\ Top' = Top /\ UNCHANGED <<array, given>>
    BY <1>6 DEF GrowLock, Acquire
  <2> QED BY <2>1, AbstractStutter
<1>7. ASSUME Grow PROVE UNCHANGED Abs!vars
  <2>1. Bottom' = Bottom /\ Top' = Top /\ UNCHANGED given
    BY <1>7 DEF Grow
  <2>2. \A i \in Window : array'[i] = array[i]
    BY <1>7 DEF Grow, Room, Window
  <2> QED BY <2>1, <2>2, AbstractStutter
<1>8. ASSUME PopEmpty PROVE UNCHANGED Abs!vars
  <2>1. Bottom' = Bottom /\ Top' = Top /\ UNCHANGED <<array, given>>
    BY <1>8 DEF PopEmpty, Empty
  <2> QED BY <2>1, AbstractStutter
<1>9. ASSUME PopDec PROVE UNCHANGED Abs!vars
  <2>1. Bottom' = Bottom /\ Top' = Top /\ UNCHANGED <<array, given>>
    BY <1>9 DEF PopDec
  <2> QED BY <2>1, AbstractStutter
<1>10. ASSUME PopConflict PROVE UNCHANGED Abs!vars
  <2>1. Bottom' = Bottom /\ Top' = Top /\ UNCHANGED <<array, given>>
    BY <1>10 DEF PopConflict
  <2> QED BY <2>1, AbstractStutter
<1>11. ASSUME PopUndo PROVE UNCHANGED Abs!vars
  <2>1. Bottom' = Bottom /\ Top' = Top /\ UNCHANGED <<array, given>>
    BY <1>11 DEF PopUndo
  <2> QED BY <2>1, AbstractStutter
<1>12. ASSUME PopLock PROVE UNCHANGED Abs!vars
  <2>1. Bottom' = Bottom /\ Top' = Top /\ UNCHANGED <<array, given>>
    BY <1>12 DEF PopLock, Acquire
  <2> QED BY <2>1, AbstractStutter
<1>13. ASSUME PopRetryEmpty PROVE UNCHANGED Abs!vars
  <2>1. Bottom' = Bottom /\ Top' = Top /\ UNCHANGED <<array, given>>
    BY <1>13 DEF PopRetryEmpty, Empty
  <2> QED BY <2>1, AbstractStutter
<1>14. ASSUME NEW p \in Thief, StealEmpty(p) PROVE UNCHANGED Abs!vars
  <2>1. Bottom' = Bottom /\ Top' = Top /\ UNCHANGED <<array, given>>
    BY <1>14 DEF StealEmpty, Empty
  <2> QED BY <2>1, AbstractStutter
<1>15. ASSUME NEW p \in Thief, StealTrylock(p) PROVE UNCHANGED Abs!vars
  <2>1. Bottom' = Bottom /\ Top' = Top /\ UNCHANGED <<array, given>>
    BY <1>15 DEF StealTrylock
  <2> QED BY <2>1, AbstractStutter
<1>16. ASSUME NEW p \in Thief, StealInc(p) PROVE UNCHANGED Abs!vars
  <2>1. ~Stealing /\ Stealing'
    BY <1>16 DEF StealInc
  <2>2. Bottom' = Bottom /\ Top' = Top /\ UNCHANGED <<array, given>>
    BY <1>16, <2>1 DEF StealInc
  <2> QED BY <2>2, AbstractStutter
<1>17. ASSUME NEW p \in Thief, StealCompare(p) PROVE UNCHANGED Abs!vars
  <2>1. Bottom' = Bottom /\ Top' = Top /\ UNCHANGED <<array, given>>
    BY <1>17 DEF StealCompare
  <2> QED BY <2>1, AbstractStutter
<1>18. ASSUME NEW p \in Thief, StealUndo(p) PROVE UNCHANGED Abs!vars
  <2>1. Stealing /\ ~Stealing'
    BY <1>18 DEF StealUndo
  <2>2. Bottom' = Bottom /\ Top' = Top /\ UNCHANGED <<array, given>>
    BY <1>18, <2>1 DEF StealUndo
  <2> QED BY <2>2, AbstractStutter

\* _h=0 while _t still holds its old value: the queue is empty before and after.
<1>19. ASSUME PushClear PROVE UNCHANGED Abs!vars
  <2>1. CASE ~Empty
    <3>1. Bottom' = Bottom /\ Top' = Top /\ UNCHANGED <<array, given>>
      BY <1>19, <2>1 DEF PushClear, Empty
    <3> QED BY <3>1, AbstractStutter
  <2>2. CASE Empty
    <3>1. Top - Bottom = 0 /\ Top' - Bottom' = 0 /\ UNCHANGED given
      BY <1>19, <2>2 DEF PushClear, Empty
    <3> QED BY <3>1 DEF Abs!vars
  <2> QED BY <2>1, <2>2
<1>20. ASSUME PushBump PROVE \E x \in Task : Abs!Push(x)
  <2>1. Bottom' = Bottom /\ Top = t /\ Top' = t + 1 /\ UNCHANGED <<array, given>>
    BY <1>20 DEF PushBump
  <2>2. arg \in Task /\ array[Top] = arg
    BY <1>20, <2>1 DEF PushBump, Written, ArgOK
  <2> QED BY <2>1, <2>2, AbstractPush
<1>21. ASSUME PopTake PROVE Abs!TakeTop
  <2>1. Bottom' = Bottom /\ Top = t + 1 /\ Top' = Top - 1 /\ Bottom < Top
    BY <1>21 DEF PopTake
  <2>2. UNCHANGED array /\ given' = given \union {array[Top - 1]}
    BY <1>21, <2>1 DEF PopTake
  <2> QED BY <2>1, <2>2, AbstractTakeTop
<1>22. ASSUME PopRetryTake PROVE Abs!TakeTop
  <2>1. Bottom' = Bottom /\ Top = t /\ Top' = Top - 1 /\ Bottom < Top
    BY <1>22 DEF PopRetryTake, Empty
  <2>2. UNCHANGED array /\ given' = given \union {array[Top - 1]}
    BY <1>22, <2>1 DEF PopRetryTake
  <2> QED BY <2>1, <2>2, AbstractTakeTop
<1>23. ASSUME NEW p \in Thief, StealTake(p) PROVE Abs!TakeBottom
  <2>1. Stealing /\ ~Stealing'
    BY <1>23 DEF StealTake
  <2>2. Bottom = h - 1 /\ Bottom' = Bottom + 1 /\ Top' = Top /\ Bottom < Top
    BY <1>23, <2>1 DEF StealTake
  <2>3. UNCHANGED array /\ given' = given \union {array[Bottom]}
    BY <1>23, <2>2 DEF StealTake
  <2> QED BY <2>2, <2>3, AbstractTakeBottom
<1>24. CASE UNCHANGED vars
  BY <1>24 DEF vars, Abs!vars
<1> QED
  BY <1>1, <1>2, <1>3, <1>4, <1>5, <1>6, <1>7, <1>8, <1>9, <1>10, <1>11, <1>12,
     <1>13, <1>14, <1>15, <1>16, <1>17, <1>18, <1>19, <1>20, <1>21, <1>22, <1>23, <1>24
  DEF Next, OwnerCalls, OwnerContinues, ThiefContinues, Abs!Next

\* pop_top and pop_bottom hand out each pushed task once, the owner the newest
\* and a thief the oldest: thedeque.h implements the deque that WorkDeque promises.
THEOREM Implementation == Spec => ImplementsWorkDeque
<1>1. Init => Abs!Init
  BY DEF Init, Abs!Init, Bottom, Top, Stealing
<1>2. QED
  BY <1>1, Invariance, StepSimulation, PTL DEF Spec, ImplementsWorkDeque, Abs!Spec
=============================================================================

-------------------------- MODULE DynamicTaskProofs --------------------------
(***************************************************************************)
(* Proofs about DynamicTask for any number of workers and tasks and for    *)
(* every program whose bodies wire a task before they enqueue it.          *)
(*                                                                         *)
(* The invariant says where the calls of the stacks stand to the tasks.    *)
(* Of the calls that lead a task from READY to the end of its body there   *)
(* is one at most, and none while it is queued or elsewhere (OneHand), so  *)
(* it is run once (Begun).  A body's calls are made while its pointers     *)
(* last, on tasks that are new until their one enqueue (Wiring), and what  *)
(* the body declares is awaited or done (Declares), with every decrement   *)
(* that is to come counted (Count), so a task runs when its declared       *)
(* dependencies are done.  A new task with predecessors will be enqueued   *)
(* (WillBeEnqueued), so whoever is to be decremented is held, and the      *)
(* count of its references is the number of those who hold it (RefsCount). *)
(*                                                                         *)
(* Calls are named by their thread and their height in its stack: a step   *)
(* changes the calls at and above the top one of one thread and leaves the *)
(* others at their heights.                                                *)
(***************************************************************************)
EXTENDS DynamicTask, FiniteSetTheorems, SequenceTheorems, TLAPS

\* The calls a thread may have to make, and the types of all variables.
Frame ==
  BodyCall \union [do : {"release", "schedule", "return"}, t : Task, arg : {None}]
  \union [do : {"run", "complete", "decrement"}, t : Task, arg : BOOLEAN]
  \union [do : {"splice"}, t : Task, arg : Seq(Task)]
  \union [do : {"abort"}, t : {None}, arg : {None}]
Typed == TypeOK /\ stack \in [Thread -> Seq(Frame)]

\* The stages of a task, with a worker or with the GPU and other hosts.
IsNew(t) == state[t] \in {"NEW", "REMOTE_NEW"}
IsBlocked(t) == state[t] \in {"PENDING", "REMOTE_PENDING"}
IsReady(t) == state[t] \in {"READY", "REMOTE_READY"}
IsDone(t) == state[t] \in {"COMPLETE", "CONTINUED"}

ArgAt(w, k) == CallAt(w, k).arg

\* A task has one place in one queue.
QueuedOnce ==
  /\ \A w, v \in Worker : ondeck[w] # None /\ ondeck[w] = ondeck[v] => w = v
  /\ \A w, v \in Worker, i, j \in Nat :
       /\ i \in DOMAIN deque[w] => ondeck[v] # deque[w][i]
       /\ i \in DOMAIN inject[w] => ondeck[v] # inject[w][i]
       /\ i \in DOMAIN deque[w] /\ j \in DOMAIN inject[v] => deque[w][i] # inject[v][j]
       /\ i \in DOMAIN deque[w] /\ j \in DOMAIN deque[v] /\ deque[w][i] = deque[v][j]
            => w = v /\ i = j
       /\ i \in DOMAIN inject[w] /\ j \in DOMAIN inject[v] /\ inject[w][i] = inject[v][j]
            => w = v /\ i = j

\* The calls that lead a task to its end: one at a time, of a task that is
\* nowhere else.
Control == {"schedule", "run", "return", "complete"}
Hand(w, k, t) == \E d \in Control : On(w, k, d, t)
OneHand ==
  /\ QueuedOnce
  /\ Queued \intersect outstanding = {}
  /\ \A w \in Thread, k \in Nat, t \in Task :
       Hand(w, k, t) => t \notin Queued \union outstanding /\ IsReady(t)
  /\ \A w, v \in Thread, k, j \in Nat, t \in Task :
       Hand(w, k, t) /\ Hand(v, j, t) => w = v /\ k = j
  /\ \A t \in Queued : state[t] = "READY"
  /\ \A t \in outstanding : state[t] = "REMOTE_READY"

\* run() is entered once, and has returned when there is a continuation.
Begun ==
  /\ \A t \in Task : /\ started[t] \in {0, 1}
                     /\ IsNew(t) \/ IsBlocked(t) => started[t] = 0
  /\ \A t \in Queued \union outstanding : started[t] = 0
  /\ \A w \in Thread, k \in Nat, t \in Task :
       /\ On(w, k, "schedule", t) \/ On(w, k, "run", t) => started[t] = 0
       /\ On(w, k, "return", t) => started[t] = 1
  /\ \A t \in Task : continuation[t] # None =>
       /\ continuation[t] = prog.cont[t] /\ started[t] = 1
       /\ \A w \in Thread, k \in Nat : ~On(w, k, "return", t)
  /\ \A t \in Task : state[t] = "CONTINUED" => continuation[t] # None

\* The state machine a task is in is that of its kind; a GPU task is never
\* taken for a local one.
Kinds ==
  \A t \in Task : /\ state[t] \in {"NEW", "PENDING"} => t \notin Remote
                  /\ state[t] \in {"REMOTE_NEW", "REMOTE_PENDING", "REMOTE_READY"} => t \in Remote
                  /\ state[t] = "READY" => prog.kind[t] # "gpu"

\* _numPredecessors is 0 from READY on, and is the number of the decrements.
NoneLeftToWaitFor == \A t \in Task : IsReady(t) \/ IsDone(t) => numPredecessors[t] = 0
Count == \A t \in Task : /\ IsFiniteSet(Places(t))
                         /\ numPredecessors[t] = Cardinality(Places(t))

\* Who makes tasks: main(), written None, or a body; and what holds the
\* pointers of p for the calls above height k.
Maker == Task \union {None}
Body(p) == IF p = None THEN prog.main ELSE prog.body[p]
Below(w, k, d, t) == \E j \in Nat : j < k /\ On(w, j, d, t)
Keeps(p, w, k) == IF p = None THEN \A s \in prog.makes[None] : Below(w, k, "release", s)
                  ELSE Below(w, k, "return", p)
IsCont(p, t) == p # None /\ prog.cont[p] = t

\* The calls that wire tasks: on what their body has made, or what follows
\* it, while it is new; or on the continuation of a task that is done.
WiredDependsOn(w, k, t) ==
  /\ IsNew(t) /\ ArgAt(w, k) # t
  /\ \E p \in Maker : /\ t \in prog.makes[p] /\ Keeps(p, w, k)
                      /\ \E s \in prog.makes[p] : Follows(s, ArgAt(w, k))
                      /\ Below(w, k, "enqueue", t) \/ IsCont(p, t)
WiredEnqueue(w, k, t) ==
  /\ IsNew(t)
  /\ \/ \E p \in Maker : t \in prog.makes[p] /\ Keeps(p, w, k) /\ ~IsCont(p, t)
     \/ \E p \in Task : /\ continuation[p] = t /\ state[p] = "CONTINUED"
                        /\ Below(w, k, "release", p)
WiredWait(w, k, t) == \E p \in Maker : Keeps(p, w, k) /\ \E s \in prog.makes[p] : Follows(s, t)
WiredSplice(w, k, t) == \E p \in Task : continuation[p] = t /\ Below(w, k, "release", p)
Wired(w, k, t) ==
  /\ On(w, k, "dependsOn", t) => WiredDependsOn(w, k, t)
  /\ On(w, k, "enqueue", t) => WiredEnqueue(w, k, t)
  /\ On(w, k, "wait", t) => WiredWait(w, k, t)
  /\ On(w, k, "splice", t) => WiredSplice(w, k, t)
EnqueuedOnce(t) ==
  \A w, v \in Thread, k, j \in Nat : On(v, j, "enqueue", t) =>
    /\ On(w, k, "enqueue", t) => w = v /\ k = j
    /\ On(w, k, "dependsOn", t) => w = v /\ j < k
Wiring ==
  /\ \A w \in Thread, k \in Nat, t \in Task : Wired(w, k, t)
  /\ \A t \in Task : EnqueuedOnce(t)

\* A task is new before the body that makes it has begun, and a continuation
\* until it takes over.
Fresh == \A p \in Task : started[p] = 0 => \A t \in prog.makes[p] : IsNew(t)
ContNew == \A p \in Task, t \in Task : prog.cont[p] = t /\ state[p] # "CONTINUED" => IsNew(t)

\* Whoever is registered somewhere is, or will be, enqueued.
WillBeEnqueued ==
  \A t \in Task : IsNew(t) /\ numPredecessors[t] > 0 =>
    \/ \E w \in Thread, k \in Nat : On(w, k, "enqueue", t)
    \/ \E p \in Task : /\ prog.cont[p] = t
                       /\ \/ \E w \in Thread, k \in Nat : On(w, k, "return", p)
                          \/ continuation[p] = t /\ IsReady(p)

\* What a body that has begun declares is done, or awaited: at the task, or
\* where its continuations have taken it.
Awaits(t, s) ==
  \/ \E w \in Thread, k \in Nat : On(w, k, "dependsOn", t) /\ ArgAt(w, k) = s
  \/ Indices(dependents[s], t) # {}
  \/ \E w \in Thread, k \in Nat : On(w, k, "splice", s) /\ Indices(ArgAt(w, k), t) # {}
Promised(that, t) ==
  \E s \in Task : Follows(that, s) /\ (state[s] = "COMPLETE" \/ Awaits(t, s))
Declares ==
  \A p \in Maker : p = None \/ started[p] = 1 =>
    \A i \in DOMAIN Body(p) :
      Body(p)[i].do = "dependsOn" => Promised(Body(p)[i].arg, Body(p)[i].t)

\* The pointers to t: of the calls that drop one, of the body that makes t
\* until it returns, of runWrapper, of the tasks t continues.
Unreturned(t) ==
  /\ t \notin prog.makes[None]
  /\ \A p \in Task : t \in prog.makes[p] =>
       started[p] = 0 \/ \E w \in Thread, k \in Nat : On(w, k, "return", p)
Releasing(t) ==
  UNION {{<<"call", w, k>> : k \in {h \in 1..Len(stack[w]) : On(w, h, "release", t)}} : w \in Thread}
Holders(t) ==
  Releasing(t)
  \union {<<"creator", None, 0>> : x \in {y \in {None} : Unreturned(t)}}
  \union {<<"run", None, 0>> : x \in {y \in {None} : IsBlocked(t) \/ IsReady(t)}}
  \union {<<"next", p, 0>> : p \in {s \in Task : continuation[s] = t /\ refs[s] > 0}}
RefsCount == \A t \in Task : IsFiniteSet(Holders(t)) /\ refs[t] = Cardinality(Holders(t))

\* The inductive invariant.
IInv == Typed /\ OneHand /\ Begun /\ Kinds /\ NoneLeftToWaitFor /\ Count /\ Wiring /\ Fresh
        /\ ContNew /\ WillBeEnqueued /\ Declares /\ RefsCount

\* For the assertions: without AbortTask nothing is cancelled, and runWrapper
\* finds the state it asks for, if no task of another host is cancelled.
Aborting == {"run", "complete", "decrement"}
NoCancel(w, k) ==
  /\ ~On(w, k, "abort", None)
  /\ \A d \in Aborting : \A t : On(w, k, d, t) => ArgAt(w, k) = FALSE
Cancels == prog.mayAbort \/ \A w \in Thread, k \in Nat : NoCancel(w, k)
RunsHere(t) ==
  \/ state[t] = "READY" /\ prog.kind[t] # "gpu"
  \/ state[t] = "REMOTE_READY" /\ prog.kind[t] = "gpu"
Runs == \A w \in Thread, k \in Nat, t \in Task : On(w, k, "run", t) => RunsHere(t)
CancelsLocally == \A p \in Programs : p.mayAbort => \A t \in Task : p.kind[t] # "remote"

-----------------------------------------------------------------------------
(* Calls.                                                                   *)

\* What a call may have as its task and as its argument.
LEMMA FrameFields ==
  ASSUME NEW f \in Frame
  PROVE  /\ f.do # "abort" => f.t \in Task
         /\ f.do = "abort" => f.t = None
         /\ f.do = "dependsOn" => f.arg \in Task
         /\ f.do \in {"enqueue", "wait", "release", "schedule", "return"} => f.arg = None
         /\ f.do \in {"run", "complete", "decrement"} => f.arg \in BOOLEAN
         /\ f.do = "splice" => f.arg \in Seq(Task)
BY SMTT(30) DEF Frame, BodyCall

LEMMA FrameCalls ==
  ASSUME NEW t \in Task
  PROVE  /\ \A s \in Task : DependsOn(t, s) \in Frame
         /\ Enqueue(t) \in Frame /\ Wait(t) \in Frame /\ Release(t) \in Frame
         /\ Call("schedule", t, None) \in Frame /\ Call("return", t, None) \in Frame
         /\ \A b \in BOOLEAN : /\ Call("run", t, b) \in Frame
                               /\ Call("complete", t, b) \in Frame
                               /\ Call("decrement", t, b) \in Frame
         /\ \A s \in Seq(Task) : Call("splice", t, s) \in Frame
         /\ Call("abort", None, None) \in Frame
BY SMTT(30) DEF Frame, BodyCall, Call, DependsOn, Enqueue, Wait, Release

\* The calls from height h of w up are all that a step touches.
Upper(w, h) ==
  \A v \in Thread, k \in Nat : v # w \/ k < h =>
    \A d, t : /\ On(v, k, d, t)' <=> On(v, k, d, t)
              /\ On(v, k, d, t) => ArgAt(v, k)' = ArgAt(v, k)

\* The calls from height h of w up become fs, the first of which is on top.
Puts(w, h, fs) ==
  \A k \in Nat : k >= h =>
    /\ \A d, t : On(w, k, d, t)' <=>
         /\ h + Len(fs) - k \in 1 .. Len(fs)
         /\ fs[h + Len(fs) - k].do = d /\ fs[h + Len(fs) - k].t = t
    /\ h + Len(fs) - k \in 1 .. Len(fs) => ArgAt(w, k)' = fs[h + Len(fs) - k].arg

\* Replace and Push in terms of heights.
LEMMA Replaced ==
  ASSUME Typed, NEW w \in Thread, stack[w] # <<>>, NEW fs \in Seq(Frame), Replace(w, fs),
         NEW h, h = Len(stack[w])
  PROVE  /\ stack' \in [Thread -> Seq(Frame)]
         /\ h \in Nat /\ h > 0
         /\ Upper(w, h)
         /\ Puts(w, h, fs)
<1>1. stack \in [Thread -> Seq(Frame)] /\ stack[w] \in Seq(Frame)
  BY DEF Typed
<1>2. h \in Nat /\ h > 0
  BY <1>1, EmptySeq
<1> DEFINE r == fs \o Tail(stack[w])
           n == Len(fs)
<1>3. n \in Nat
  BY LenProperties
<1>4. /\ Tail(stack[w]) \in Seq(Frame) /\ Len(Tail(stack[w])) = h - 1
      /\ \A i \in 1 .. h - 1 : Tail(stack[w])[i] = stack[w][i + 1]
  BY <1>1, HeadTailProperties
<1>5. r \in Seq(Frame) /\ Len(r) = n + h - 1
      /\ \A i \in 1 .. n + h - 1 : r[i] = IF i <= n THEN fs[i] ELSE stack[w][i - n + 1]
  <2>1. r \in Seq(Frame) /\ Len(r) = n + h - 1
        /\ \A i \in 1 .. n + (h - 1) : r[i] = IF i <= n THEN fs[i] ELSE Tail(stack[w])[i - n]
    BY <1>4, ConcatProperties
  <2>2. ASSUME NEW i \in 1 .. n + h - 1
        PROVE  r[i] = IF i <= n THEN fs[i] ELSE stack[w][i - n + 1]
    BY <2>1, <1>2, <1>3, <1>4
  <2> QED BY <2>1, <2>2
<1>6. stack' = [stack EXCEPT ![w] = r]
  BY DEF Replace
<1>7. stack' \in [Thread -> Seq(Frame)] /\ stack'[w] = r /\ \A v \in Thread : v # w => stack'[v] = stack[v]
  BY <1>1, <1>5, <1>6
<1> HIDE DEF r, n
<1>8. \A k \in 1 .. h - 1 : r[n + h - 1 + 1 - k] = stack[w][h + 1 - k]
  <2> TAKE k \in 1 .. h - 1
  <2>1. n + h - k \in 1 .. n + h - 1 /\ ~(n + h - k <= n) /\ (n + h - k) - n + 1 = h + 1 - k
    BY <1>2, <1>3
  <2>2. r[n + h - k] = stack[w][h + 1 - k]
    BY <2>1, <1>5
  <2>3. n + h - 1 + 1 - k = n + h - k
    BY <1>2, <1>3
  <2> QED BY <2>2, <2>3
<1>9. Upper(w, h)
  <2> SUFFICES ASSUME NEW v \in Thread, NEW k \in Nat, v # w \/ k < h
               PROVE \A d, t : /\ On(v, k, d, t)' <=> On(v, k, d, t)
                               /\ On(v, k, d, t) => ArgAt(v, k)' = ArgAt(v, k)
    BY DEF Upper
  <2>1. CASE v # w
    BY <2>1, <1>7 DEF On, CallAt, ArgAt
  <2>2. CASE v = w
    <3>1. k < h
      BY <2>2
    <3>2. k \in 1 .. h <=> k \in 1 .. n + h - 1
      BY <3>1, <1>2, <1>3
    <3>3. k \in 1 .. h => CallAt(w, k)' = CallAt(w, k)
      BY <3>1, <1>2, <1>5, <1>7, <1>8 DEF CallAt
    <3>4. \A d, t : On(w, k, d, t)' <=> (k \in 1 .. n + h - 1 /\ CallAt(w, k)'.do = d /\ CallAt(w, k)'.t = t)
      BY <1>5, <1>7 DEF On
    <3>5. \A d, t : On(w, k, d, t) <=> (k \in 1 .. h /\ CallAt(w, k).do = d /\ CallAt(w, k).t = t)
      BY DEF On
    <3> QED BY <2>2, <3>2, <3>3, <3>4, <3>5 DEF ArgAt
  <2> QED BY <2>1, <2>2
<1>10. ASSUME NEW k \in Nat, k >= h
       PROVE  /\ \A d, t : On(w, k, d, t)' <=>
                   /\ h + n - k \in 1 .. n
                   /\ fs[h + n - k].do = d /\ fs[h + n - k].t = t
              /\ h + n - k \in 1 .. n => ArgAt(w, k)' = fs[h + n - k].arg
  <2>1. k \in 1 .. n + h - 1 <=> h + n - k \in 1 .. n
    BY <1>2, <1>3, <1>10
  <2>2. h + n - k \in 1 .. n => r[n + h - 1 + 1 - k] = fs[h + n - k]
    <3> HAVE h + n - k \in 1 .. n
    <3>1. h + n - k \in 1 .. n + h - 1 /\ h + n - k <= n /\ n + h - 1 + 1 - k = h + n - k
      BY <1>2, <1>3
    <3> QED BY <3>1, <1>5
  <2>3. h + n - k \in 1 .. n => CallAt(w, k)' = fs[h + n - k]
    BY <2>2, <1>5, <1>7 DEF CallAt
  <2>4. \A d, t : On(w, k, d, t)' <=> (k \in 1 .. n + h - 1 /\ CallAt(w, k)'.do = d /\ CallAt(w, k)'.t = t)
    BY <1>5, <1>7 DEF On
  <2> QED BY <2>1, <2>3, <2>4 DEF ArgAt
<1>11. Puts(w, h, fs)
  BY <1>10 DEF Puts, n
<1> QED BY <1>2, <1>7, <1>9, <1>11

\* The call of w on top of its stack, at height h, is replaced.
Replacing(w, h) ==
  /\ h \in Nat /\ h > 0 /\ Upper(w, h)
  /\ \A k \in Nat : \A d, t : k > h => ~On(w, k, d, t)

\* A call of w is put on top of its stack, at height h.
Pushing(w, h, f) ==
  /\ h \in Nat /\ h > 0 /\ Upper(w, h)
  /\ \A k \in Nat : \A d, t : k >= h => ~On(w, k, d, t)
  /\ \A k \in Nat : \A d, t : k >= h => (On(w, k, d, t)' <=> k = h /\ d = f.do /\ t = f.t)
  /\ ArgAt(w, h)' = f.arg

LEMMA Pushed ==
  ASSUME Typed, NEW w \in Thread, NEW f \in Frame, Push(w, f), NEW h, h = Len(stack[w]) + 1
  PROVE  stack' \in [Thread -> Seq(Frame)] /\ Pushing(w, h, f)
<1> PICK n : n = Len(stack[w])
  OBVIOUS
<1> DEFINE r == <<f>> \o stack[w]
<1>1. /\ stack \in [Thread -> Seq(Frame)] /\ stack[w] \in Seq(Frame) /\ n \in Nat
      /\ h = n + 1
  BY LenProperties DEF Typed
<1>2. r \in Seq(Frame) /\ Len(r) = n + 1 /\ r[1] = f /\ \A i \in 1 .. n : r[i + 1] = stack[w][i]
  BY <1>1
<1>3. stack' = [stack EXCEPT ![w] = r]
  BY DEF Push
<1>4. stack' \in [Thread -> Seq(Frame)] /\ stack'[w] = r /\ \A v \in Thread : v # w => stack'[v] = stack[v]
  BY <1>1, <1>2, <1>3
<1> HIDE DEF r
<1>5. \A k \in 1 .. n : CallAt(w, k)' = CallAt(w, k)
  <2> TAKE k \in 1 .. n
  <2>1. n + 1 - k \in 1 .. n /\ Len(r) + 1 - k = (n + 1 - k) + 1
    BY <1>1, <1>2
  <2>2. r[Len(r) + 1 - k] = stack[w][n + 1 - k]
    BY <2>1, <1>2
  <2> QED BY <2>2, <1>4 DEF CallAt
<1>6. CallAt(w, n + 1)' = f
  <2>1. Len(r) + 1 - (n + 1) = 1
    BY <1>1, <1>2
  <2>2. r[Len(r) + 1 - (n + 1)] = f
    BY <2>1, <1>2
  <2> QED BY <2>2, <1>4 DEF CallAt
<1>7. \A k, d, t : On(w, k, d, t)' <=> (k \in 1 .. n + 1 /\ CallAt(w, k)'.do = d /\ CallAt(w, k)'.t = t)
  BY <1>2, <1>4 DEF On
<1>8. \A k, d, t : On(w, k, d, t) <=> (k \in 1 .. n /\ CallAt(w, k).do = d /\ CallAt(w, k).t = t)
  BY DEF On
<1>9. Upper(w, n + 1)
  <2> SUFFICES ASSUME NEW v \in Thread, NEW k \in Nat, v # w \/ k < n + 1
               PROVE \A d, t : /\ On(v, k, d, t)' <=> On(v, k, d, t)
                               /\ On(v, k, d, t) => ArgAt(v, k)' = ArgAt(v, k)
    BY DEF Upper
  <2>1. CASE v # w
    BY <2>1, <1>4 DEF On, CallAt, ArgAt
  <2>2. CASE v = w
    <3>1. k \in 1 .. n <=> k \in 1 .. n + 1
      BY <2>2, <1>1
    <3> QED BY <2>2, <3>1, <1>5, <1>7, <1>8 DEF ArgAt
  <2> QED BY <2>1, <2>2
<1>10. \A k \in Nat : \A d, t : k >= n + 1 => ~On(w, k, d, t)
  BY <1>1, <1>8
<1>11. \A k \in Nat : \A d, t : k >= n + 1 => (On(w, k, d, t)' <=> k = n + 1 /\ d = f.do /\ t = f.t)
  <2> TAKE k \in Nat
  <2> TAKE d, t
  <2> HAVE k >= n + 1
  <2>1. k \in 1 .. n + 1 <=> k = n + 1
    BY <1>1
  <2> QED BY <2>1, <1>6, <1>7
<1>12. n + 1 \in Nat /\ n + 1 > 0 /\ ArgAt(w, n + 1)' = f.arg
  BY <1>1, <1>6 DEF ArgAt
<1> QED BY <1>1, <1>4, <1>9, <1>10, <1>11, <1>12 DEF Pushing

\* The top call.
LEMMA TopCall ==
  ASSUME Typed, NEW w \in Thread, NEW d, NEW t, Top(w, d, t), NEW h, h = Len(stack[w])
  PROVE  /\ stack[w] # <<>> /\ Head(stack[w]) \in Frame
         /\ h \in Nat /\ h > 0
         /\ On(w, h, d, t) /\ ArgAt(w, h) = Arg(w)
         /\ \A k \in Nat : \A e, s : k > h => ~On(w, k, e, s)
<1>1. stack[w] \in Seq(Frame) /\ stack[w] # <<>>
  BY DEF Typed, Top
<1>2. h \in Nat /\ h > 0 /\ Head(stack[w]) = stack[w][1] /\ Head(stack[w]) \in Frame
  BY <1>1, EmptySeq, HeadTailProperties
<1>3. h + 1 - h = 1 /\ h \in 1 .. h
  BY <1>2
<1>4. CallAt(w, h) = Head(stack[w])
  BY <1>2, <1>3 DEF CallAt
<1>5. On(w, h, d, t) /\ ArgAt(w, h) = Arg(w)
  BY <1>3, <1>4 DEF On, Top, ArgAt, Arg
<1>6. \A k \in Nat : \A e, s : k > h => ~On(w, k, e, s)
  BY <1>2 DEF On
<1> QED BY <1>1, <1>2, <1>5, <1>6

\* Other calls take its place: none, one, or several over one.
LEMMA ReplacedTop ==
  ASSUME Typed, NEW w \in Thread, NEW d, NEW t, Top(w, d, t), NEW h, h = Len(stack[w]),
         NEW fs \in Seq(Frame), Replace(w, fs)
  PROVE  /\ stack' \in [Thread -> Seq(Frame)] /\ Replacing(w, h) /\ Puts(w, h, fs)
         /\ On(w, h, d, t) /\ ArgAt(w, h) = Arg(w)
BY TopCall, Replaced DEF Replacing

LEMMA PutsNone ==
  ASSUME NEW w, NEW h \in Nat, Puts(w, h, <<>>)
  PROVE  \A k \in Nat : \A e, s : k >= h => ~On(w, k, e, s)'
<1>1. Len(<<>>) = 0
  OBVIOUS
<1> QED BY <1>1 DEF Puts

LEMMA PutsOne ==
  ASSUME NEW w, NEW h \in Nat, NEW fs, Puts(w, h, fs), Len(fs) = 1
  PROVE  /\ \A k \in Nat : \A e, s :
              k >= h => (On(w, k, e, s)' <=> k = h /\ e = fs[1].do /\ s = fs[1].t)
         /\ ArgAt(w, h)' = fs[1].arg
<1>1. h + 1 - h = 1 /\ \A k \in Nat : k >= h => (h + 1 - k \in 1 .. 1 <=> k = h)
  OBVIOUS
<1> QED BY <1>1 DEF Puts

\* What lies below a call.
LEMMA BelowStays ==
  ASSUME NEW w \in Thread, NEW h \in Nat, Upper(w, h), NEW v \in Thread, NEW k \in Nat
  PROVE  /\ v # w \/ k <= h => \A d, t : Below(v, k, d, t)' <=> Below(v, k, d, t)
         /\ k >= h => \A d, t : Below(w, h, d, t) => Below(w, k, d, t)'
BY SMTT(30) DEF Upper, Below

\* One call of release for each task of a set.
LEMMA ReleasesEach ==
  ASSUME NEW S \in SUBSET Task, NEW n, n = Cardinality(S)
  PROVE  /\ n \in Nat /\ Releases(S) \in Seq(Frame) /\ Len(Releases(S)) = n
         /\ \A i \in 1 .. n : Releases(S)[i].do = "release" /\ Releases(S)[i].t \in S
         /\ \A s \in S : \E i \in 1 .. n : Releases(S)[i].t = s
         /\ \A i, j \in 1 .. n : Releases(S)[i].t = Releases(S)[j].t => i = j
<1>1. IsFiniteSet(S)
  BY FS_Subset, TaskAssumption
<1>2. n \in Nat /\ ExistsBijection(1 .. n, S)
  BY <1>1, FS_CardinalityType
<1> DEFINE f == SetToSeq(S)
<1>3. \E g : g \in [1 .. n -> S] /\ IsInjective(g)
  BY <1>2 DEF ExistsBijection, Bijection, Injection
<1>4. f \in [1 .. n -> S] /\ IsInjective(f)
  BY <1>3 DEF SetToSeq
<1> HIDE DEF f
<1>5. f \in Surjection(1 .. n, S)
  <2>1. Cardinality(1 .. n) = n
    BY <1>2, FS_Interval
  <2>2. f \in Injection(1 .. n, S)
    BY <1>4 DEF Injection
  <2> QED BY <1>1, <2>1, <2>2, FS_Injection
<1>6. \A s \in S : \E i \in 1 .. n : f[i] = s
  BY <1>5 DEF Surjection
<1>7. \A i, j \in 1 .. n : f[i] = f[j] => i = j
  BY <1>4 DEF IsInjective
<1> DEFINE r == [i \in 1 .. n |-> Release(f[i])]
<1>8. Releases(S) = r
  BY DEF Releases, f
<1>9. \A i \in 1 .. n : f[i] \in Task /\ Release(f[i]) \in Frame
  BY <1>4, FrameCalls
<1>10. r \in Seq(Frame) /\ Len(r) = n /\ \A i \in 1 .. n : r[i] = Release(f[i])
  BY <1>2, <1>9
<1>11. \A i \in 1 .. n : r[i].do = "release" /\ r[i].t = f[i]
  BY <1>10 DEF Release, Call
<1> HIDE DEF r
<1>12. \A i \in 1 .. n : r[i].do = "release" /\ r[i].t \in S
  BY <1>11, <1>4
<1>13. \A s \in S : \E i \in 1 .. n : r[i].t = s
  BY <1>11, <1>6
<1>14. \A i, j \in 1 .. n : r[i].t = r[j].t => i = j
  BY <1>11, <1>7
<1> QED BY <1>2, <1>8, <1>10, <1>12, <1>13, <1>14

-----------------------------------------------------------------------------
(* Programs.                                                                *)

\* What WellFormed says of the program that is executed.
LEMMA ProgramFacts ==
  ASSUME prog \in Programs
  PROVE  /\ prog.makes \in [Maker -> SUBSET Task]
         /\ prog.cont \in [Task -> Task \union {None}]
         /\ prog.kind \in [Task -> {"cpu", "null", "remote", "gpu"}]
         /\ prog.mayAbort \in BOOLEAN
         /\ \A p \in Maker : Body(p) \in Seq(BodyCall)
         /\ \A p, q \in Maker, t \in Task : t \in prog.makes[p] /\ t \in prog.makes[q] => p = q
         /\ \A p \in Task : p \notin prog.makes[p]
         /\ \A p, t \in Task : prog.cont[p] = t => t \in prog.makes[p]
         /\ \A p \in Task : Body(p) = prog.body[p]
         /\ Body(None) = prog.main
<1>1. /\ prog \in [main : Seq(BodyCall), body : [Task -> Seq(BodyCall)],
                   cont : [Task -> Task \union {None}],
                   makes : [Task \union {None} -> SUBSET Task],
                   kind : [Task -> {"cpu", "null", "remote", "gpu"}],
                   mayAbort : BOOLEAN]
      /\ WellFormed(prog)
  BY ProgramAssumption
<1>2. /\ prog.main \in Seq(BodyCall) /\ prog.body \in [Task -> Seq(BodyCall)]
      /\ prog.makes \in [Maker -> SUBSET Task]
      /\ prog.cont \in [Task -> Task \union {None}]
      /\ prog.kind \in [Task -> {"cpu", "null", "remote", "gpu"}]
      /\ prog.mayAbort \in BOOLEAN
  BY <1>1 DEF Maker
<1>3. None \notin Task
  BY TaskAssumption
<1>4. \A p \in Maker : Body(p) \in Seq(BodyCall)
  BY <1>2 DEF Maker, Body
<1>5. (\A p \in Task : Body(p) = prog.body[p]) /\ Body(None) = prog.main
  BY <1>3 DEF Body
<1>6. \A p, q \in Maker, t \in Task : t \in prog.makes[p] /\ t \in prog.makes[q] => p = q
  BY <1>1 DEF WellFormed, Maker
<1>7. \A p \in Task : p \notin prog.makes[p]
  BY <1>1 DEF WellFormed
<1>8. \A p, t \in Task : prog.cont[p] = t => t \in prog.makes[p]
  BY <1>1, <1>3 DEF WellFormed
<1> QED BY <1>2, <1>4, <1>5, <1>6, <1>7, <1>8

\* What it says of the calls of a body.
LEMMA BodyFacts ==
  ASSUME prog \in Programs, NEW p \in Maker, NEW n, n = Len(Body(p)), NEW i \in 1 .. n
  PROVE  /\ n \in Nat /\ Body(p)[i] \in BodyCall /\ Body(p)[i] \in Frame
         /\ Body(p)[i].do \in {"dependsOn", "enqueue", "wait"}
         /\ Body(p)[i].t \in Task /\ Body(p)[i].t \in prog.makes[p]
         /\ Body(p)[i].do = "dependsOn" =>
              /\ Body(p)[i].arg \in prog.makes[p] /\ Body(p)[i].arg # Body(p)[i].t
              /\ \/ IsCont(p, Body(p)[i].t)
                 \/ \E j \in 1 .. n : /\ j > i /\ Body(p)[j].do = "enqueue"
                                      /\ Body(p)[j].t = Body(p)[i].t
         /\ Body(p)[i].do = "enqueue" =>
              /\ ~IsCont(p, Body(p)[i].t)
              /\ \A j \in 1 .. n :
                   Body(p)[j].do = "enqueue" /\ Body(p)[j].t = Body(p)[i].t => j = i
<1>1. WellFormed(prog)
  BY ProgramAssumption
<1>2. Body(p) \in Seq(BodyCall) /\ n \in Nat /\ DOMAIN Body(p) = 1 .. n
  BY ProgramFacts, LenProperties
<1>3. \A j \in 1 .. n : Body(p)[j] \in BodyCall
  BY <1>2
<1> DEFINE c == IF p = None THEN None ELSE prog.cont[p]
<1>4. Wires(Body(p), prog.makes[p], c)
  <2>1. CASE p = None
    BY <2>1, <1>1 DEF WellFormed, Body
  <2>2. CASE p # None
    <3>1. p \in Task
      BY <2>2 DEF Maker
    <3> QED BY <2>2, <3>1, <1>1 DEF WellFormed, Body
  <2> QED BY <2>1, <2>2
<1>5. \A t \in Task : t = c <=> IsCont(p, t)
  BY TaskAssumption DEF IsCont
<1> HIDE DEF c
<1> DEFINE b == Body(p)
<1> HIDE DEF b
<1>6. \A f \in BodyCall : /\ f.do \in {"dependsOn", "enqueue", "wait"} /\ f.t \in Task
                          /\ f.do = "enqueue" => f = Enqueue(f.t)
  BY DEF BodyCall, Enqueue, Call
<1>7. \A t \in Task : Enqueue(t).do = "enqueue" /\ Enqueue(t).t = t
  BY DEF Enqueue, Call
<1>8. \A j \in 1 .. n : /\ b[j] \in BodyCall /\ b[j] \in Frame
                        /\ b[j].do \in {"dependsOn", "enqueue", "wait"} /\ b[j].t \in Task
                        /\ b[j].do = "enqueue" => b[j] = Enqueue(b[j].t)
  BY <1>3, <1>6 DEF b, Frame
<1>9. /\ b[i].t \in prog.makes[p]
      /\ b[i].do = "dependsOn" =>
           /\ b[i].arg \in prog.makes[p] \ {b[i].t}
           /\ b[i].t = c \/ \E j \in 1 .. n : j > i /\ b[j] = Enqueue(b[i].t)
      /\ b[i].do = "enqueue" => b[i].t # c /\ \A j \in 1 .. n : b[j] = b[i] => j = i
  BY <1>2, <1>4 DEF Wires, b
<1>10. b[i].do = "dependsOn" =>
         \/ IsCont(p, b[i].t)
         \/ \E j \in 1 .. n : j > i /\ b[j].do = "enqueue" /\ b[j].t = b[i].t
  BY <1>5, <1>7, <1>8, <1>9
<1>11. b[i].do = "enqueue" =>
         /\ ~IsCont(p, b[i].t)
         /\ \A j \in 1 .. n : b[j].do = "enqueue" /\ b[j].t = b[i].t => j = i
  BY <1>5, <1>8, <1>9
<1> QED BY <1>2, <1>8, <1>9, <1>10, <1>11 DEF b

-----------------------------------------------------------------------------
(* The queues: what is put there once is taken from there once.             *)

LEMMA QueuedMeans ==
  ASSUME QueuesTypeOK
  PROVE  \A t : t \in Queued <=>
           \/ t # None /\ \E w \in Worker : ondeck[w] = t
           \/ \E w \in Worker, i \in Nat : i \in DOMAIN deque[w] /\ deque[w][i] = t
           \/ \E w \in Worker, i \in Nat : i \in DOMAIN inject[w] /\ inject[w][i] = t
<1>1. \A w \in Worker : DOMAIN deque[w] \subseteq Nat /\ DOMAIN inject[w] \subseteq Nat
  <2> TAKE w \in Worker
  <2>1. deque[w] \in Seq(Task) /\ inject[w] \in Seq(Task)
    BY DEF QueuesTypeOK
  <2> QED BY <2>1, LenProperties
<1> QED BY <1>1 DEF Queued, ToSet

LEMMA QueuedMeansNext ==
  ASSUME QueuesTypeOK'
  PROVE  \A t : t \in Queued' <=>
           \/ t # None /\ \E w \in Worker : ondeck'[w] = t
           \/ \E w \in Worker, i \in Nat : i \in DOMAIN deque'[w] /\ deque'[w][i] = t
           \/ \E w \in Worker, i \in Nat : i \in DOMAIN inject'[w] /\ inject'[w][i] = t
<1>1. \A w \in Worker : DOMAIN deque'[w] \subseteq Nat /\ DOMAIN inject'[w] \subseteq Nat
  <2> TAKE w \in Worker
  <2>1. deque'[w] \in Seq(Task) /\ inject'[w] \in Seq(Task)
    BY DEF QueuesTypeOK
  <2> QED BY <2>1, LenProperties
<1> QED BY <1>1 DEF Queued, ToSet

LEMMA QueuedType ==
  ASSUME QueuesTypeOK
  PROVE  Queued \subseteq Task
<1>1. \A w \in Worker : deque[w] \in Seq(Task) /\ inject[w] \in Seq(Task)
                        /\ ondeck[w] \in Task \union {None}
  BY DEF QueuesTypeOK
<1>2. \A w \in Worker : /\ \A i \in DOMAIN deque[w] : deque[w][i] \in Task
                        /\ \A i \in DOMAIN inject[w] : inject[w][i] \in Task
  BY <1>1, LenProperties
<1> QED BY <1>1, <1>2, QueuedMeans

LEMMA QueuesStay ==
  ASSUME UNCHANGED queues
  PROVE  /\ Queued' = Queued /\ QueuedOnce' = QueuedOnce /\ QueuesTypeOK' = QueuesTypeOK
BY DEF queues, Queued, QueuedOnce, QueuesTypeOK

\* A queue in which index i was at(i) before, and t is the index that was not.
LEMMA Lengthened ==
  ASSUME NEW s \in Seq(Task), NEW t \in Task
  PROVE  /\ Append(s, t) \in Seq(Task)
         /\ \A i \in Nat : i \in DOMAIN Append(s, t) =>
              \/ i = Len(s) + 1 /\ Append(s, t)[i] = t
              \/ i \in DOMAIN s /\ Append(s, t)[i] = s[i]
         /\ \A i \in DOMAIN s : i \in DOMAIN Append(s, t) /\ Append(s, t)[i] = s[i]
         /\ Len(s) + 1 \in DOMAIN Append(s, t) /\ Append(s, t)[Len(s) + 1] = t
         /\ <<t>> \o s \in Seq(Task)
         /\ \A i \in Nat : i \in DOMAIN (<<t>> \o s) =>
              \/ i = 1 /\ (<<t>> \o s)[i] = t
              \/ i - 1 \in DOMAIN s /\ (<<t>> \o s)[i] = s[i - 1]
         /\ \A i \in DOMAIN s : i + 1 \in DOMAIN (<<t>> \o s) /\ (<<t>> \o s)[i + 1] = s[i]
         /\ 1 \in DOMAIN (<<t>> \o s) /\ (<<t>> \o s)[1] = t
<1>1. Len(s) \in Nat /\ DOMAIN s = 1 .. Len(s)
  OBVIOUS
<1>2. /\ Append(s, t) \in Seq(Task) /\ DOMAIN Append(s, t) = 1 .. Len(s) + 1
      /\ Append(s, t)[Len(s) + 1] = t /\ \A i \in 1 .. Len(s) : Append(s, t)[i] = s[i]
  BY AppendProperties
<1>3. /\ <<t>> \o s \in Seq(Task) /\ DOMAIN (<<t>> \o s) = 1 .. Len(s) + 1
      /\ (<<t>> \o s)[1] = t /\ \A i \in 1 .. Len(s) : (<<t>> \o s)[i + 1] = s[i]
  OBVIOUS
<1> DEFINE r == <<t>> \o s
<1>4. \A i \in Nat : i \in DOMAIN r => (i = 1 /\ r[i] = t) \/ (i - 1 \in DOMAIN s /\ r[i] = s[i - 1])
  <2> HIDE DEF r
  <2> SUFFICES ASSUME NEW i \in Nat, i \in 1 .. Len(s) + 1, i # 1
               PROVE i - 1 \in 1 .. Len(s) /\ r[i] = s[i - 1]
    BY <1>1, <1>3 DEF r
  <2>1. i - 1 \in 1 .. Len(s) /\ (i - 1) + 1 = i
    BY <1>1
  <2> QED BY <2>1, <1>3 DEF r
<1> QED BY <1>1, <1>2, <1>3, <1>4

\* r is s without t, its first or its last element.
Without(s, t, r) ==
  \/ r = Front(s) /\ t = Last(s)
  \/ r = Tail(s) /\ t = Head(s)
\* What is at i in r was at i + e in s, and t at x.
Shifted(s, t, r, e, x) ==
  /\ s[x] = t /\ x \in Nat
  /\ \A i \in Nat : i \in DOMAIN r => i + e \in DOMAIN s /\ i + e # x /\ r[i] = s[i + e]
  /\ \A i \in DOMAIN s : i # x => i - e \in Nat /\ i - e \in DOMAIN r /\ r[i - e] = s[i]
LEMMA Shortened ==
  ASSUME NEW s \in Seq(Task), s # <<>>, NEW r, NEW t, Without(s, t, r)
  PROVE  /\ r \in Seq(Task)
         /\ \E e \in Nat, x \in DOMAIN s : Shifted(s, t, r, e, x)
<1>1. Len(s) \in Nat \ {0} /\ DOMAIN s = 1 .. Len(s)
  BY EmptySeq
<1>2. Head(s) = s[1] /\ Last(s) = s[Len(s)]
  BY DEF Last
<1>3. CASE r = Front(s) /\ t = Last(s)
  <2>1. /\ r \in Seq(Task) /\ DOMAIN r = 1 .. Len(s) - 1
        /\ \A i \in 1 .. Len(s) - 1 : r[i] = s[i]
    BY <1>1, <1>3 DEF Front
  <2>2. \A i \in Nat : i \in DOMAIN r => i + 0 \in DOMAIN s /\ i + 0 # Len(s) /\ r[i] = s[i + 0]
    <3>1. \A n \in Nat : \A i \in 1 .. n - 1 : i + 0 = i /\ i + 0 \in 1 .. n /\ i + 0 # n
      OBVIOUS
    <3>2. \A i \in 1 .. Len(s) - 1 : i + 0 = i /\ i + 0 \in 1 .. Len(s) /\ i + 0 # Len(s)
      BY <3>1, <1>1
    <3>3. \A i \in 1 .. Len(s) - 1 : r[i] = s[i + 0]
      BY <3>2, <2>1
    <3> QED BY <3>2, <3>3, <1>1, <2>1
  <2>3. \A i \in DOMAIN s : i # Len(s) => i - 0 \in Nat /\ i - 0 \in DOMAIN r /\ r[i - 0] = s[i]
    BY <1>1, <2>1
  <2>4. s[Len(s)] = t /\ Len(s) \in DOMAIN s /\ Len(s) \in Nat /\ 0 \in Nat
    BY <1>1, <1>2, <1>3
  <2> QED BY <2>1, <2>2, <2>3, <2>4 DEF Shifted
<1>4. CASE r = Tail(s) /\ t = Head(s)
  <2>1. /\ r \in Seq(Task) /\ DOMAIN r = 1 .. Len(s) - 1
        /\ \A i \in 1 .. Len(s) - 1 : r[i] = s[i + 1]
    BY <1>1, <1>4
  <2>2. \A i \in Nat : i \in DOMAIN r => i + 1 \in DOMAIN s /\ i + 1 # 1 /\ r[i] = s[i + 1]
    BY <1>1, <2>1
  <2>3. \A i \in DOMAIN s : i # 1 => i - 1 \in Nat /\ i - 1 \in DOMAIN r /\ r[i - 1] = s[i]
    <3> TAKE i \in DOMAIN s
    <3> HAVE i # 1
    <3>1. i - 1 \in 1 .. Len(s) - 1 /\ (i - 1) + 1 = i /\ i - 1 \in Nat
      BY <1>1
    <3> QED BY <3>1, <2>1
  <2>4. s[1] = t /\ 1 \in DOMAIN s /\ 1 \in Nat
    BY <1>1, <1>2, <1>4
  <2> QED BY <2>1, <2>2, <2>3, <2>4 DEF Shifted
<1> QED BY <1>3, <1>4 DEF Without

\* A task that is in no queue is put in one.
Puts1(t) ==
  /\ QueuesTypeOK' /\ QueuedOnce' /\ Queued' = Queued \union {t}
Takes1(t) ==
  /\ t \in Queued /\ QueuesTypeOK' /\ QueuedOnce' /\ Queued' = Queued \ {t}

LEMMA PutInDeque ==
  ASSUME QueuesTypeOK, QueuedOnce, NEW t \in Task, t \notin Queued, NEW v \in Worker,
         deque' = [deque EXCEPT ![v] = Append(@, t)], UNCHANGED <<ondeck, inject>>
  PROVE  Puts1(t)
<1> DEFINE s == deque[v]
           r == Append(s, t)
<1>1. s \in Seq(Task) /\ deque \in [Worker -> Seq(Task)] /\ None \notin Task
  BY TaskAssumption DEF QueuesTypeOK
<1>2. Len(s) + 1 \in Nat /\ Len(s) + 1 \notin DOMAIN s
  BY <1>1, LenProperties
<1>3. PICK n \in Nat : /\ r \in Seq(Task)
                       /\ n \notin DOMAIN s
                       /\ \A i \in Nat : i \in DOMAIN r => (i = n /\ r[i] = t) \/ (i \in DOMAIN s /\ r[i] = s[i])
                       /\ \A i \in DOMAIN s : i \in DOMAIN r /\ r[i] = s[i]
                       /\ n \in DOMAIN r /\ r[n] = t
  BY <1>1, <1>2, Lengthened
<1> HIDE DEF r
<1>4. deque'[v] = r /\ \A w \in Worker : w # v => deque'[w] = deque[w]
  BY <1>1 DEF r
<1>5. QueuesTypeOK'
  BY <1>1, <1>3 DEF QueuesTypeOK, r
<1>6. \A w \in Worker : /\ ondeck[w] # t
                        /\ \A i \in Nat : i \in DOMAIN deque[w] => deque[w][i] # t
                        /\ \A i \in Nat : i \in DOMAIN inject[w] => inject[w][i] # t
  BY <1>1, QueuedMeans
<1>7. \A w \in Worker, i \in Nat : i \in DOMAIN deque'[w] =>
        \/ w = v /\ i = n /\ deque'[w][i] = t
        \/ i \in DOMAIN deque[w] /\ deque'[w][i] = deque[w][i]
  BY <1>3, <1>4
<1>8. \A w \in Worker, i \in Nat : i \in DOMAIN deque[w] =>
        i \in DOMAIN deque'[w] /\ deque'[w][i] = deque[w][i]
  BY <1>3, <1>4
<1>9. \A x : x \in Queued' <=>
           \/ x # None /\ \E w \in Worker : ondeck[w] = x
           \/ \E w \in Worker, i \in Nat : i \in DOMAIN deque'[w] /\ deque'[w][i] = x
           \/ \E w \in Worker, i \in Nat : i \in DOMAIN inject[w] /\ inject[w][i] = x
  BY <1>5, QueuedMeansNext
<1>10. Queued' = Queued \union {t}
  <2>1. \A x : x \in Queued' <=> x \in Queued \/ x = t
    BY <1>3, <1>4, <1>7, <1>8, <1>9, QueuedMeans
  <2> QED BY <2>1
<1>11. QueuedOnce'
  BY <1>6, <1>7 DEF QueuedOnce
<1> QED BY <1>5, <1>10, <1>11 DEF Puts1

LEMMA PutInInject ==
  ASSUME QueuesTypeOK, QueuedOnce, NEW t \in Task, t \notin Queued, NEW v \in Worker,
         Inject(v, t)
  PROVE  Puts1(t)
<1> DEFINE s == inject[v]
           r == <<t>> \o s
<1>1. /\ s \in Seq(Task) /\ inject \in [Worker -> Seq(Task)] /\ None \notin Task
      /\ inject' = [inject EXCEPT ![v] = r] /\ UNCHANGED <<ondeck, deque>>
  BY TaskAssumption DEF QueuesTypeOK, Inject
<1>2. 0 \notin DOMAIN s /\ DOMAIN s \subseteq Nat
  BY <1>1, LenProperties
<1>3. /\ r \in Seq(Task)
      /\ \A i \in Nat : i \in DOMAIN r => (i = 1 /\ r[i] = t) \/ (i - 1 \in DOMAIN s /\ r[i] = s[i - 1])
      /\ \A i \in DOMAIN s : i + 1 \in DOMAIN r /\ r[i + 1] = s[i]
      /\ 1 \in DOMAIN r /\ r[1] = t
  BY <1>1, Lengthened
<1> HIDE DEF r
<1>4. inject'[v] = r /\ \A w \in Worker : w # v => inject'[w] = inject[w]
  BY <1>1
<1>5. QueuesTypeOK'
  BY <1>1, <1>3 DEF QueuesTypeOK
<1>6. \A w \in Worker : /\ ondeck[w] # t
                        /\ \A i \in Nat : i \in DOMAIN deque[w] => deque[w][i] # t
                        /\ \A i \in Nat : i \in DOMAIN inject[w] => inject[w][i] # t
  BY <1>1, QueuedMeans
<1> DEFINE e(w) == IF w = v THEN 1 ELSE 0
<1>7. \A w \in Worker, i \in Nat : i \in DOMAIN inject'[w] =>
        \/ w = v /\ i = 1 /\ inject'[w][i] = t
        \/ i - e(w) \in Nat /\ i - e(w) \in DOMAIN inject[w] /\ inject'[w][i] = inject[w][i - e(w)]
  <2> TAKE w \in Worker, i \in Nat
  <2>1. CASE w = v
    BY <2>1, <1>2, <1>3, <1>4
  <2>2. CASE w # v
    <3>1. i - 0 = i
      OBVIOUS
    <3> QED BY <2>2, <3>1, <1>4
  <2> QED BY <2>1, <2>2
<1>8. \A w \in Worker, i \in Nat : i \in DOMAIN inject[w] =>
        \E j \in Nat : j \in DOMAIN inject'[w] /\ inject'[w][j] = inject[w][i]
  <2> TAKE w \in Worker, i \in Nat
  <2>1. CASE w = v
    BY <2>1, <1>2, <1>3, <1>4
  <2>2. CASE w # v
    BY <2>2, <1>4
  <2> QED BY <2>1, <2>2
<1>8a. \A w \in Worker, i, j \in Nat : i - e(w) = j - e(w) => i = j
  OBVIOUS
<1>9. \A x : x \in Queued' <=>
           \/ x # None /\ \E w \in Worker : ondeck[w] = x
           \/ \E w \in Worker, i \in Nat : i \in DOMAIN deque[w] /\ deque[w][i] = x
           \/ \E w \in Worker, i \in Nat : i \in DOMAIN inject'[w] /\ inject'[w][i] = x
  BY <1>1, <1>5, QueuedMeansNext
<1> HIDE DEF e
<1>10. Queued' = Queued \union {t}
  <2>1. \A x : x \in Queued' <=> x \in Queued \/ x = t
    <3> TAKE x
    <3>1. x \in Queued' => x \in Queued \/ x = t
      BY <1>7, <1>9, QueuedMeans
    <3>2. x \in Queued => x \in Queued'
      BY <1>8, <1>9, QueuedMeans
    <3>3. t \in Queued'
      BY <1>3, <1>4, <1>9
    <3> QED BY <3>1, <3>2, <3>3
  <2> QED BY <2>1
<1>11. QueuedOnce'
  <2>1. /\ \A w, x \in Worker : ondeck[w] # None /\ ondeck[w] = ondeck[x] => w = x
        /\ \A w, x \in Worker, i, j \in Nat :
             /\ i \in DOMAIN deque[w] => ondeck[x] # deque[w][i]
             /\ i \in DOMAIN deque[w] /\ j \in DOMAIN deque[x] /\ deque[w][i] = deque[x][j]
                  => w = x /\ i = j
    BY DEF QueuedOnce
  <2>2. \A w, x \in Worker, i, j \in Nat :
             /\ i \in DOMAIN inject'[w] => ondeck[x] # inject'[w][i]
             /\ i \in DOMAIN deque[w] /\ j \in DOMAIN inject'[x] => deque[w][i] # inject'[x][j]
    BY <1>6, <1>7 DEF QueuedOnce
  <2>3. \A w, x \in Worker, i, j \in Nat :
             i \in DOMAIN inject'[w] /\ j \in DOMAIN inject'[x] /\ inject'[w][i] = inject'[x][j]
                  => w = x /\ i = j
    BY <1>6, <1>7, <1>8a DEF QueuedOnce
  <2> QED BY <2>1, <2>2, <2>3, <1>1 DEF QueuedOnce
<1> QED BY <1>5, <1>10, <1>11 DEF Puts1

LEMMA PutOnDeck ==
  ASSUME QueuesTypeOK, QueuedOnce, NEW t \in Task, t \notin Queued, NEW v \in Worker,
         PushLocal(v, t)
  PROVE  Puts1(t)
<1>1. CASE ondeck[v] # None
  BY <1>1, PutInDeque DEF PushLocal
<1>2. CASE ondeck[v] = None
  <2>1. /\ ondeck' = [ondeck EXCEPT ![v] = t] /\ UNCHANGED <<deque, inject>>
        /\ ondeck \in [Worker -> Task \union {None}] /\ None \notin Task
    BY <1>2, TaskAssumption DEF PushLocal, QueuesTypeOK
  <2>2. QueuesTypeOK'
    BY <2>1 DEF QueuesTypeOK
  <2>3. ondeck'[v] = t /\ \A w \in Worker : w # v => ondeck'[w] = ondeck[w]
    BY <2>1
  <2>4. \A w \in Worker : /\ ondeck[w] # t
                          /\ \A i \in Nat : i \in DOMAIN deque[w] => deque[w][i] # t
                          /\ \A i \in Nat : i \in DOMAIN inject[w] => inject[w][i] # t
    BY <2>1, QueuedMeans
  <2>5. \A x : x \in Queued' <=>
             \/ x # None /\ \E w \in Worker : ondeck'[w] = x
             \/ \E w \in Worker, i \in Nat : i \in DOMAIN deque[w] /\ deque[w][i] = x
             \/ \E w \in Worker, i \in Nat : i \in DOMAIN inject[w] /\ inject[w][i] = x
    BY <2>1, <2>2, QueuedMeansNext
  <2>6. \A x : x \in Queued' <=> x \in Queued \/ x = t
    BY <1>2, <2>1, <2>3, <2>5, QueuedMeans
  <2>7. QueuedOnce'
    BY <2>1, <2>3, <2>4 DEF QueuedOnce
  <2> QED BY <2>2, <2>6, <2>7 DEF Puts1
<1> QED BY <1>1, <1>2

LEMMA TakeFromDeque ==
  ASSUME QueuesTypeOK, QueuedOnce, NEW v \in Worker, deque[v] # <<>>, NEW r, NEW t, Without(deque[v], t, r),
         deque' = [deque EXCEPT ![v] = r], UNCHANGED <<ondeck, inject>>
  PROVE  Takes1(t)
<1> DEFINE s == deque[v]
<1>1. s \in Seq(Task) /\ deque \in [Worker -> Seq(Task)]
  BY DEF QueuesTypeOK
<1>2a. PICK e \in Nat, x \in DOMAIN s : Shifted(s, t, r, e, x)
  BY <1>1, Shortened
<1>2. /\ s[x] = t /\ x \in Nat
      /\ \A i \in Nat : i \in DOMAIN r => i + e \in DOMAIN s /\ i + e # x /\ r[i] = s[i + e]
      /\ \A i \in DOMAIN s : i # x => i - e \in Nat /\ i - e \in DOMAIN r /\ r[i - e] = s[i]
  BY <1>2a DEF Shifted
<1>3. r \in Seq(Task) /\ DOMAIN s \subseteq Nat
  BY <1>1, Shortened, LenProperties
<1>4. deque'[v] = r /\ \A w \in Worker : w # v => deque'[w] = deque[w]
  BY <1>1
<1>5. QueuesTypeOK'
  BY <1>1, <1>3 DEF QueuesTypeOK
<1> DEFINE at(w, i) == IF w = v THEN i + e ELSE i
<1>6. \A w \in Worker, i \in Nat : i \in DOMAIN deque'[w] =>
        /\ at(w, i) \in Nat /\ at(w, i) \in DOMAIN deque[w] /\ deque'[w][i] = deque[w][at(w, i)]
        /\ ~(w = v /\ at(w, i) = x)
  BY <1>1, <1>2, <1>3, <1>4
<1>7. \A w \in Worker, i \in Nat : i \in DOMAIN deque[w] /\ ~(w = v /\ i = x) =>
        \E j \in Nat : j \in DOMAIN deque'[w] /\ deque'[w][j] = deque[w][i]
  BY <1>1, <1>2, <1>4
<1>8. \A w \in Worker, i, j \in Nat : at(w, i) = at(w, j) => i = j
  OBVIOUS
<1> HIDE DEF at
<1>9. x \in Nat /\ x \in DOMAIN deque[v] /\ deque[v][x] = t /\ t \in Task /\ t # None
  BY <1>1, <1>2, LenProperties, TaskAssumption
<1>10. t \in Queued
  BY <1>9, QueuedMeans
<1>11. \A w \in Worker, i \in Nat :
         /\ ondeck[w] # t
         /\ i \in DOMAIN deque[w] /\ deque[w][i] = t => w = v /\ i = x
         /\ i \in DOMAIN inject[w] => inject[w][i] # t
  <2>1. \A w \in Worker : ondeck[w] # t
    BY <1>9 DEF QueuedOnce
  <2>2. \A w \in Worker, i \in Nat : i \in DOMAIN deque[w] /\ deque[w][i] = t => w = v /\ i = x
    BY <1>9 DEF QueuedOnce
  <2>3. \A w \in Worker, i \in Nat : i \in DOMAIN inject[w] => inject[w][i] # t
    BY <1>9 DEF QueuedOnce
  <2> QED BY <2>1, <2>2, <2>3
<1>12. \A y : y \in Queued' <=>
           \/ y # None /\ \E w \in Worker : ondeck[w] = y
           \/ \E w \in Worker, i \in Nat : i \in DOMAIN deque'[w] /\ deque'[w][i] = y
           \/ \E w \in Worker, i \in Nat : i \in DOMAIN inject[w] /\ inject[w][i] = y
  BY <1>5, QueuedMeansNext
<1>13. \A y : y \in Queued <=>
           \/ y # None /\ \E w \in Worker : ondeck[w] = y
           \/ \E w \in Worker, i \in Nat : i \in DOMAIN deque[w] /\ deque[w][i] = y
           \/ \E w \in Worker, i \in Nat : i \in DOMAIN inject[w] /\ inject[w][i] = y
  BY QueuedMeans
<1>14. \A y : y \in Queued' <=> y \in Queued /\ y # t
  <2> TAKE y
  <2>1. y \in Queued' => y \in Queued /\ y # t
    <3>1. ASSUME NEW w \in Worker, NEW i \in Nat, i \in DOMAIN deque'[w], deque'[w][i] = y
          PROVE  y \in Queued /\ y # t
      <4>1. /\ at(w, i) \in Nat /\ at(w, i) \in DOMAIN deque[w] /\ deque[w][at(w, i)] = y
            /\ ~(w = v /\ at(w, i) = x)
        BY <3>1, <1>6
      <4>2. y \in Queued
        BY <4>1, <1>13
      <4> QED BY <4>1, <4>2, <1>11
    <3> QED BY <3>1, <1>11, <1>12, <1>13
  <2>2. y \in Queued /\ y # t => y \in Queued'
    <3>1. ASSUME NEW w \in Worker, NEW i \in Nat, i \in DOMAIN deque[w], deque[w][i] = y, y # t
          PROVE  y \in Queued'
      BY <3>1, <1>7, <1>9, <1>12
    <3> QED BY <3>1, <1>12, <1>13
  <2> QED BY <2>1, <2>2
<1>15. QueuedOnce'
  <2>1. /\ \A w, y \in Worker : ondeck[w] # None /\ ondeck[w] = ondeck[y] => w = y
        /\ \A w, y \in Worker, i, j \in Nat :
             /\ i \in DOMAIN inject[w] => ondeck[y] # inject[w][i]
             /\ i \in DOMAIN inject[w] /\ j \in DOMAIN inject[y] /\ inject[w][i] = inject[y][j]
                  => w = y /\ i = j
    BY DEF QueuedOnce
  <2>2. \A w, y \in Worker, i, j \in Nat :
             /\ i \in DOMAIN deque'[w] => ondeck[y] # deque'[w][i]
             /\ i \in DOMAIN inject[w] /\ j \in DOMAIN deque'[y] => inject[w][i] # deque'[y][j]
    BY <1>6 DEF QueuedOnce
  <2>3. \A w, y \in Worker, i, j \in Nat :
             i \in DOMAIN deque'[w] /\ j \in DOMAIN deque'[y] /\ deque'[w][i] = deque'[y][j]
                  => w = y /\ i = j
    <3> SUFFICES ASSUME NEW w \in Worker, NEW y \in Worker, NEW i \in Nat, NEW j \in Nat,
                        i \in DOMAIN deque'[w], j \in DOMAIN deque'[y], deque'[w][i] = deque'[y][j]
                 PROVE  w = y /\ i = j
      OBVIOUS
    <3>1. /\ at(w, i) \in Nat /\ at(w, i) \in DOMAIN deque[w] /\ deque'[w][i] = deque[w][at(w, i)]
          /\ at(y, j) \in Nat /\ at(y, j) \in DOMAIN deque[y] /\ deque'[y][j] = deque[y][at(y, j)]
      BY <1>6
    <3>2. w = y /\ at(w, i) = at(y, j)
      BY <3>1 DEF QueuedOnce
    <3> QED BY <3>2, <1>8
  <2> QED BY <2>1, <2>2, <2>3 DEF QueuedOnce
<1> QED BY <1>5, <1>10, <1>14, <1>15 DEF Takes1

LEMMA TakeFromInject ==
  ASSUME QueuesTypeOK, QueuedOnce, NEW v \in Worker, inject[v] # <<>>, NEW r, NEW t, Without(inject[v], t, r),
         inject' = [inject EXCEPT ![v] = r], UNCHANGED <<ondeck, deque>>
  PROVE  Takes1(t)
<1> DEFINE s == inject[v]
<1>1. s \in Seq(Task) /\ inject \in [Worker -> Seq(Task)]
  BY DEF QueuesTypeOK
<1>2a. PICK e \in Nat, x \in DOMAIN s : Shifted(s, t, r, e, x)
  BY <1>1, Shortened
<1>2. /\ s[x] = t /\ x \in Nat
      /\ \A i \in Nat : i \in DOMAIN r => i + e \in DOMAIN s /\ i + e # x /\ r[i] = s[i + e]
      /\ \A i \in DOMAIN s : i # x => i - e \in Nat /\ i - e \in DOMAIN r /\ r[i - e] = s[i]
  BY <1>2a DEF Shifted
<1>3. r \in Seq(Task) /\ DOMAIN s \subseteq Nat
  BY <1>1, Shortened, LenProperties
<1>4. inject'[v] = r /\ \A w \in Worker : w # v => inject'[w] = inject[w]
  BY <1>1
<1>5. QueuesTypeOK'
  BY <1>1, <1>3 DEF QueuesTypeOK
<1> DEFINE at(w, i) == IF w = v THEN i + e ELSE i
<1>6. \A w \in Worker, i \in Nat : i \in DOMAIN inject'[w] =>
        /\ at(w, i) \in Nat /\ at(w, i) \in DOMAIN inject[w] /\ inject'[w][i] = inject[w][at(w, i)]
        /\ ~(w = v /\ at(w, i) = x)
  BY <1>1, <1>2, <1>3, <1>4
<1>7. \A w \in Worker, i \in Nat : i \in DOMAIN inject[w] /\ ~(w = v /\ i = x) =>
        \E j \in Nat : j \in DOMAIN inject'[w] /\ inject'[w][j] = inject[w][i]
  BY <1>1, <1>2, <1>4
<1>8. \A w \in Worker, i, j \in Nat : at(w, i) = at(w, j) => i = j
  OBVIOUS
<1> HIDE DEF at
<1>9. x \in Nat /\ x \in DOMAIN inject[v] /\ inject[v][x] = t /\ t \in Task /\ t # None
  BY <1>1, <1>2, LenProperties, TaskAssumption
<1>10. t \in Queued
  BY <1>9, QueuedMeans
<1>11. \A w \in Worker, i \in Nat :
         /\ ondeck[w] # t
         /\ i \in DOMAIN inject[w] /\ inject[w][i] = t => w = v /\ i = x
         /\ i \in DOMAIN deque[w] => deque[w][i] # t
  <2>1. \A w \in Worker : ondeck[w] # t
    BY <1>9 DEF QueuedOnce
  <2>2. \A w \in Worker, i \in Nat : i \in DOMAIN inject[w] /\ inject[w][i] = t => w = v /\ i = x
    BY <1>9 DEF QueuedOnce
  <2>3. \A w \in Worker, i \in Nat : i \in DOMAIN deque[w] => deque[w][i] # t
    BY <1>9 DEF QueuedOnce
  <2> QED BY <2>1, <2>2, <2>3
<1>12. \A y : y \in Queued' <=>
           \/ y # None /\ \E w \in Worker : ondeck[w] = y
           \/ \E w \in Worker, i \in Nat : i \in DOMAIN inject'[w] /\ inject'[w][i] = y
           \/ \E w \in Worker, i \in Nat : i \in DOMAIN deque[w] /\ deque[w][i] = y
  BY <1>5, QueuedMeansNext
<1>13. \A y : y \in Queued <=>
           \/ y # None /\ \E w \in Worker : ondeck[w] = y
           \/ \E w \in Worker, i \in Nat : i \in DOMAIN inject[w] /\ inject[w][i] = y
           \/ \E w \in Worker, i \in Nat : i \in DOMAIN deque[w] /\ deque[w][i] = y
  BY QueuedMeans
<1>14. \A y : y \in Queued' <=> y \in Queued /\ y # t
  <2> TAKE y
  <2>1. y \in Queued' => y \in Queued /\ y # t
    <3>1. ASSUME NEW w \in Worker, NEW i \in Nat, i \in DOMAIN inject'[w], inject'[w][i] = y
          PROVE  y \in Queued /\ y # t
      <4>1. /\ at(w, i) \in Nat /\ at(w, i) \in DOMAIN inject[w] /\ inject[w][at(w, i)] = y
            /\ ~(w = v /\ at(w, i) = x)
        BY <3>1, <1>6
      <4>2. y \in Queued
        BY <4>1, <1>13
      <4> QED BY <4>1, <4>2, <1>11
    <3> QED BY <3>1, <1>11, <1>12, <1>13
  <2>2. y \in Queued /\ y # t => y \in Queued'
    <3>1. ASSUME NEW w \in Worker, NEW i \in Nat, i \in DOMAIN inject[w], inject[w][i] = y, y # t
          PROVE  y \in Queued'
      BY <3>1, <1>7, <1>9, <1>12
    <3> QED BY <3>1, <1>12, <1>13
  <2> QED BY <2>1, <2>2
<1>15. QueuedOnce'
  <2>1. /\ \A w, y \in Worker : ondeck[w] # None /\ ondeck[w] = ondeck[y] => w = y
        /\ \A w, y \in Worker, i, j \in Nat :
             /\ i \in DOMAIN deque[w] => ondeck[y] # deque[w][i]
             /\ i \in DOMAIN deque[w] /\ j \in DOMAIN deque[y] /\ deque[w][i] = deque[y][j]
                  => w = y /\ i = j
    BY DEF QueuedOnce
  <2>2. \A w, y \in Worker, i, j \in Nat :
             /\ i \in DOMAIN inject'[w] => ondeck[y] # inject'[w][i]
             /\ i \in DOMAIN deque[w] /\ j \in DOMAIN inject'[y] => deque[w][i] # inject'[y][j]
    BY <1>6 DEF QueuedOnce
  <2>3. \A w, y \in Worker, i, j \in Nat :
             i \in DOMAIN inject'[w] /\ j \in DOMAIN inject'[y] /\ inject'[w][i] = inject'[y][j]
                  => w = y /\ i = j
    <3> SUFFICES ASSUME NEW w \in Worker, NEW y \in Worker, NEW i \in Nat, NEW j \in Nat,
                        i \in DOMAIN inject'[w], j \in DOMAIN inject'[y], inject'[w][i] = inject'[y][j]
                 PROVE  w = y /\ i = j
      OBVIOUS
    <3>1. /\ at(w, i) \in Nat /\ at(w, i) \in DOMAIN inject[w] /\ inject'[w][i] = inject[w][at(w, i)]
          /\ at(y, j) \in Nat /\ at(y, j) \in DOMAIN inject[y] /\ inject'[y][j] = inject[y][at(y, j)]
      BY <1>6
    <3>2. w = y /\ at(w, i) = at(y, j)
      BY <3>1 DEF QueuedOnce
    <3> QED BY <3>2, <1>8
  <2> QED BY <2>1, <2>2, <2>3 DEF QueuedOnce
<1> QED BY <1>5, <1>10, <1>14, <1>15 DEF Takes1

LEMMA TakeOnDeck ==
  ASSUME QueuesTypeOK, QueuedOnce, NEW v \in Worker, NEW t, t = ondeck[v], t # None,
         ondeck' = [ondeck EXCEPT ![v] = None], UNCHANGED <<deque, inject>>
  PROVE  Takes1(t)
<1>1. ondeck \in [Worker -> Task \union {None}]
  BY DEF QueuesTypeOK
<1>2. QueuesTypeOK'
  BY <1>1 DEF QueuesTypeOK
<1>3. ondeck'[v] = None /\ \A w \in Worker : w # v => ondeck'[w] = ondeck[w]
  BY <1>1
<1>4. t \in Queued
  BY QueuedMeans
<1>5. \A x : x \in Queued' <=>
           \/ x # None /\ \E w \in Worker : ondeck'[w] = x
           \/ \E w \in Worker, i \in Nat : i \in DOMAIN deque[w] /\ deque[w][i] = x
           \/ \E w \in Worker, i \in Nat : i \in DOMAIN inject[w] /\ inject[w][i] = x
  BY <1>2, QueuedMeansNext
<1>6. \A w \in Worker : /\ w # v => ondeck[w] # t
                        /\ \A i \in Nat : i \in DOMAIN deque[w] => deque[w][i] # t
                        /\ \A i \in Nat : i \in DOMAIN inject[w] => inject[w][i] # t
  BY DEF QueuedOnce
<1>7. \A x : x \in Queued' <=> x \in Queued /\ x # t
  BY <1>3, <1>5, <1>6, QueuedMeans
<1>8. \A w, x \in Worker : ondeck'[w] # None => w # v /\ ondeck'[w] = ondeck[w]
  BY <1>3
<1>9. \A w \in Worker, i \in Nat :
        /\ i \in DOMAIN deque[w] => deque[w][i] # None
        /\ i \in DOMAIN inject[w] => inject[w][i] # None
  <2> TAKE w \in Worker, i \in Nat
  <2>1. deque[w] \in Seq(Task) /\ inject[w] \in Seq(Task)
    BY DEF QueuesTypeOK
  <2> QED BY <2>1, TaskAssumption, LenProperties
<1>10. QueuedOnce'
  <2>1. \A w, x \in Worker : ondeck'[w] # None /\ ondeck'[w] = ondeck'[x] => w = x
    BY <1>8 DEF QueuedOnce
  <2>2. \A w, x \in Worker, i, j \in Nat :
             /\ i \in DOMAIN deque[w] => ondeck'[x] # deque[w][i]
             /\ i \in DOMAIN inject[w] => ondeck'[x] # inject[w][i]
    BY <1>8, <1>9 DEF QueuedOnce
  <2>3. \A w, x \in Worker, i, j \in Nat :
             /\ i \in DOMAIN deque[w] /\ j \in DOMAIN inject[x] => deque[w][i] # inject[x][j]
             /\ i \in DOMAIN deque[w] /\ j \in DOMAIN deque[x] /\ deque[w][i] = deque[x][j]
                  => w = x /\ i = j
             /\ i \in DOMAIN inject[w] /\ j \in DOMAIN inject[x] /\ inject[w][i] = inject[x][j]
                  => w = x /\ i = j
    BY DEF QueuedOnce
  <2>4. deque' = deque /\ inject' = inject
    OBVIOUS
  <2>5. \A w, x \in Worker, i, j \in Nat :
             /\ i \in DOMAIN deque'[w] => ondeck'[x] # deque'[w][i]
             /\ i \in DOMAIN inject'[w] => ondeck'[x] # inject'[w][i]
    BY <2>2, <2>4
  <2>6. \A w, x \in Worker, i, j \in Nat :
             /\ i \in DOMAIN deque'[w] /\ j \in DOMAIN inject'[x] => deque'[w][i] # inject'[x][j]
             /\ i \in DOMAIN deque'[w] /\ j \in DOMAIN deque'[x] /\ deque'[w][i] = deque'[x][j]
                  => w = x /\ i = j
             /\ i \in DOMAIN inject'[w] /\ j \in DOMAIN inject'[x] /\ inject'[w][i] = inject'[x][j]
                  => w = x /\ i = j
    BY <2>3, <2>4
  <2>7. ASSUME NEW w \in Worker, NEW x \in Worker, NEW i \in Nat, NEW j \in Nat
        PROVE  /\ i \in DOMAIN deque'[w] => ondeck'[x] # deque'[w][i]
               /\ i \in DOMAIN inject'[w] => ondeck'[x] # inject'[w][i]
               /\ i \in DOMAIN deque'[w] /\ j \in DOMAIN inject'[x] => deque'[w][i] # inject'[x][j]
               /\ i \in DOMAIN deque'[w] /\ j \in DOMAIN deque'[x] /\ deque'[w][i] = deque'[x][j]
                    => w = x /\ i = j
               /\ i \in DOMAIN inject'[w] /\ j \in DOMAIN inject'[x] /\ inject'[w][i] = inject'[x][j]
                    => w = x /\ i = j
    BY <2>5, <2>6
  <2> QED BY <2>1, <2>7, Zenon DEF QueuedOnce
<1> QED BY <1>2, <1>4, <1>7, <1>10 DEF Takes1

\* Whatever popLocal or steal returns is no longer there.
LEMMA TakeQueued ==
  ASSUME QueuesTypeOK, QueuedOnce, NEW v \in Worker, NEW t,
         (\E miss \in BOOLEAN : PopLocal(v, t, miss)) \/ Steal(v, t)
  PROVE  Takes1(t)
<1>1. ASSUME NEW miss \in BOOLEAN, PopLocal(v, t, miss)
      PROVE  Takes1(t)
  <2>1. CASE /\ t = ondeck[v] /\ t # None /\ ondeck' = [ondeck EXCEPT ![v] = None]
             /\ UNCHANGED <<deque, inject>>
    BY <2>1, TakeOnDeck
  <2>2. CASE /\ deque[v] # <<>> /\ t = Last(deque[v])
             /\ deque' = [deque EXCEPT ![v] = Front(@)] /\ UNCHANGED <<ondeck, inject>>
    BY <2>2, TakeFromDeque DEF Without
  <2>3. CASE /\ inject[v] # <<>> /\ t = Last(inject[v])
             /\ inject' = [inject EXCEPT ![v] = Front(@)] /\ UNCHANGED <<ondeck, deque>>
    BY <2>3, TakeFromInject DEF Without
  <2> QED BY <1>1, <2>1, <2>2, <2>3 DEF PopLocal, PopTopEmpty
<1>2. CASE Steal(v, t)
  <2>1. CASE /\ inject[v] # <<>> /\ t = Head(inject[v])
             /\ inject' = [inject EXCEPT ![v] = Tail(@)] /\ UNCHANGED <<ondeck, deque>>
    BY <2>1, TakeFromInject DEF Without
  <2>2. CASE /\ deque[v] # <<>> /\ t = Head(deque[v])
             /\ deque' = [deque EXCEPT ![v] = Tail(@)] /\ UNCHANGED <<ondeck, inject>>
    BY <2>2, TakeFromDeque DEF Without
  <2> QED BY <1>2, <2>1, <2>2 DEF Steal
<1> QED BY <1>1, <1>2

-----------------------------------------------------------------------------
(* The steps, in terms of the calls and of the variables they change.       *)

\* The calls at height h and up, after a step: none, or one.
NoneFrom(w, h) == \A k \in Nat : \A d, s : k >= h => ~On(w, k, d, s)'
OneFrom(w, h, e, u, x) ==
  /\ \A k \in Nat : \A d, s : k >= h => (On(w, k, d, s)' <=> k = h /\ d = e /\ s = u)
  /\ ArgAt(w, h)' = x

\* dependsOn: forwarded, not needed, registered
MForward(w, h, t, that) ==
  /\ Replacing(w, h) /\ On(w, h, "dependsOn", t) /\ ArgAt(w, h) = that
  /\ state[that] = "CONTINUED" /\ continuation[that] \in Task
  /\ OneFrom(w, h, "dependsOn", t, continuation[that])
  /\ UNCHANGED <<prog, queues, tasks, outstanding, started>>
MFinished(w, h, t, that) ==
  /\ Replacing(w, h) /\ On(w, h, "dependsOn", t) /\ ArgAt(w, h) = that
  /\ state[that] = "COMPLETE" /\ NoneFrom(w, h)
  /\ UNCHANGED <<prog, queues, tasks, outstanding, started>>
MRegister(w, h, t, that) ==
  /\ Replacing(w, h) /\ On(w, h, "dependsOn", t) /\ ArgAt(w, h) = that
  /\ ~IsDone(that) /\ NoneFrom(w, h)
  /\ dependents' = [dependents EXCEPT ![that] = Append(@, t)]
  /\ numPredecessors' = [numPredecessors EXCEPT ![t] = @ + 1]
  /\ UNCHANGED <<prog, queues, state, continuation, refs, outstanding, started>>

\* enqueue: with and without predecessors left
MPending(w, h, t) ==
  /\ Replacing(w, h) /\ On(w, h, "enqueue", t) /\ IsNew(t)
  /\ numPredecessors[t] # 0 /\ NoneFrom(w, h)
  /\ state' = [state EXCEPT ![t] = IF @ = "NEW" THEN "PENDING" ELSE "REMOTE_PENDING"]
  /\ refs' = [refs EXCEPT ![t] = @ + 1]
  /\ UNCHANGED <<prog, queues, dependents, numPredecessors, continuation, outstanding, started>>
MReady(w, h, t) ==
  /\ Replacing(w, h) /\ On(w, h, "enqueue", t) /\ IsNew(t)
  /\ numPredecessors[t] = 0 /\ OneFrom(w, h, "schedule", t, None)
  /\ state' = [state EXCEPT ![t] = IF @ = "NEW" THEN "READY" ELSE "REMOTE_READY"]
  /\ refs' = [refs EXCEPT ![t] = @ + 1]
  /\ UNCHANGED <<prog, queues, dependents, numPredecessors, continuation, outstanding, started>>

\* scheduling: at once, in a queue, elsewhere, here after all
MInline(w, h, t) ==
  /\ Replacing(w, h) /\ On(w, h, "schedule", t) /\ state[t] = "READY"
  /\ prog.kind[t] = "null" /\ OneFrom(w, h, "run", t, FALSE)
  /\ UNCHANGED <<prog, queues, tasks, outstanding, started>>
MQueue(w, h, t) ==
  /\ Replacing(w, h) /\ On(w, h, "schedule", t) /\ state[t] = "READY"
  /\ NoneFrom(w, h) /\ Puts1(t)
  /\ UNCHANGED <<prog, tasks, outstanding, started>>
MSend(w, h, t) ==
  /\ Replacing(w, h) /\ On(w, h, "schedule", t) /\ state[t] = "REMOTE_READY"
  /\ NoneFrom(w, h) /\ outstanding' = outstanding \union {t}
  /\ UNCHANGED <<prog, queues, tasks, started>>
MKeep(w, h, t) ==
  /\ On(w, h, "schedule", t) /\ state[t] = "REMOTE_READY" /\ prog.kind[t] = "remote"
  /\ state' = [state EXCEPT ![t] = "READY"]
  /\ UNCHANGED <<prog, queues, dependents, numPredecessors, continuation, refs, outstanding,
                 started, stack>>

\* a task is completed elsewhere, or found in a queue
MCompletes(w, h, t) ==
  /\ Pushing(w, h, Call("complete", t, FALSE)) /\ t \in outstanding
  /\ outstanding' = outstanding \ {t}
  /\ UNCHANGED <<prog, queues, tasks, started>>
MTake(w, h, t, x) ==
  /\ Pushing(w, h, Call("run", t, x)) /\ Takes1(t) /\ x \in BOOLEAN
  /\ x => prog.mayAbort \/ \E k \in Nat : On(w, k, "abort", None)
  /\ UNCHANGED <<prog, tasks, outstanding, started>>
MAbort(w, h) ==
  /\ Pushing(w, h, Call("abort", None, None)) /\ prog.mayAbort
  /\ UNCHANGED <<prog, queues, tasks, outstanding, started>>

\* runWrapper: without and with the body; the body returns
MCancelled(w, h, t) ==
  /\ Replacing(w, h) /\ On(w, h, "run", t) /\ ArgAt(w, h) = TRUE
  /\ OneFrom(w, h, "complete", t, TRUE)
  /\ UNCHANGED <<prog, queues, tasks, outstanding, started>>
Lays(w, h, n, p) ==
  \A k \in Nat : k > h =>
    /\ \A d, s : On(w, k, d, s)' <=> /\ h + n + 1 - k \in 1 .. n
                                     /\ Body(p)[h + n + 1 - k].do = d
                                     /\ Body(p)[h + n + 1 - k].t = s
    /\ h + n + 1 - k \in 1 .. n => ArgAt(w, k)' = Body(p)[h + n + 1 - k].arg
MRun(w, h, t) ==
  /\ Replacing(w, h) /\ On(w, h, "run", t) /\ ArgAt(w, h) = FALSE
  /\ \A d, s : On(w, h, d, s)' <=> d = "return" /\ s = t
  /\ \A k \in Nat : \A d, s : k > h /\ On(w, k, d, s)' =>
       d \in {"dependsOn", "enqueue", "wait"} /\ s \in prog.makes[t]
  /\ \A n : n = Len(Body(t)) => Lays(w, h, n, t)
  /\ started' = [started EXCEPT ![t] = @ + 1]
  /\ UNCHANGED <<prog, queues, tasks, outstanding>>
MReturn(w, h, t) ==
  /\ Replacing(w, h) /\ On(w, h, "return", t)
  /\ \A d, s : On(w, h, d, s)' <=> d = "complete" /\ s = t
  /\ ArgAt(w, h)' = FALSE
  /\ \A k \in Nat : \A d, s : k > h /\ On(w, k, d, s)' => d = "release" /\ s \in prog.makes[t]
  /\ \A s \in prog.makes[t] : \E k \in Nat : k > h /\ On(w, k, "release", s)'
  /\ \A k, j \in Nat : \A s :
       k > h /\ j > h /\ On(w, k, "release", s)' /\ On(w, j, "release", s)' => k = j
  /\ continuation' = [continuation EXCEPT ![t] = prog.cont[t]]
  /\ refs' = [s \in Task |-> refs[s] + IF s = prog.cont[t] THEN 1 ELSE 0]
  /\ UNCHANGED <<prog, queues, state, dependents, numPredecessors, outstanding, started>>

\* completeTaskDeps: the continuation takes over, or the dependents are told
MContinue(w, h, t, c) ==
  /\ Replacing(w, h) /\ On(w, h, "complete", t) /\ c = continuation[t] /\ c \in Task
  /\ \A d, s : On(w, h, d, s)' <=> d = "release" /\ s = t
  /\ \A d, s : On(w, h + 1, d, s)' <=> d = "enqueue" /\ s = c
  /\ \A d, s : On(w, h + 2, d, s)' <=> d = "splice" /\ s = c
  /\ ArgAt(w, h + 2)' = dependents[t]
  /\ \A k \in Nat : \A d, s : k > h + 2 => ~On(w, k, d, s)'
  /\ state' = [state EXCEPT ![t] = "CONTINUED"]
  /\ dependents' = [dependents EXCEPT ![t] = <<>>]
  /\ UNCHANGED <<prog, queues, numPredecessors, continuation, refs, outstanding, started>>
MComplete(w, h, t, n) ==
  /\ Replacing(w, h) /\ On(w, h, "complete", t) /\ continuation[t] = None
  /\ n = Len(dependents[t]) /\ n \in Nat
  /\ \A d, s : On(w, h, d, s)' <=> d = "release" /\ s = t
  /\ \A k \in Nat : k > h =>
       /\ \A d, s : On(w, k, d, s)' <=> /\ h + n + 1 - k \in 1 .. n /\ d = "decrement"
                                        /\ dependents[t][h + n + 1 - k] = s
       /\ h + n + 1 - k \in 1 .. n => ArgAt(w, k)' = ArgAt(w, h)
  /\ state' = [state EXCEPT ![t] = "COMPLETE"]
  /\ dependents' = [dependents EXCEPT ![t] = <<>>]
  /\ UNCHANGED <<prog, queues, numPredecessors, continuation, refs, outstanding, started>>
MSplice(w, h, t) ==
  /\ Replacing(w, h) /\ On(w, h, "splice", t) /\ NoneFrom(w, h)
  /\ dependents' = [dependents EXCEPT ![t] = @ \o ArgAt(w, h)]
  /\ UNCHANGED <<prog, queues, state, numPredecessors, continuation, refs, outstanding, started>>

\* decrementPredecessors: the last one makes a task ready, if it is enqueued
MDecrement(w, h, t) ==
  /\ Replacing(w, h) /\ On(w, h, "decrement", t) /\ NoneFrom(w, h)
  /\ numPredecessors[t] # 1 \/ ~IsBlocked(t)
  /\ numPredecessors' = [numPredecessors EXCEPT ![t] = @ - 1]
  /\ UNCHANGED <<prog, queues, state, dependents, continuation, refs, outstanding, started>>
MLast(w, h, t, d, x) ==
  /\ Replacing(w, h) /\ On(w, h, "decrement", t)
  /\ numPredecessors[t] = 1 /\ IsBlocked(t)
  /\ \/ d = "run" /\ x = TRUE /\ ArgAt(w, h) = TRUE
     \/ d = "schedule" /\ x = None
  /\ OneFrom(w, h, d, t, x)
  /\ numPredecessors' = [numPredecessors EXCEPT ![t] = @ - 1]
  /\ state' = [state EXCEPT ![t] = IF @ = "PENDING" THEN "READY" ELSE "REMOTE_READY"]
  /\ UNCHANGED <<prog, queues, dependents, continuation, refs, outstanding, started>>

\* decRefCount: the last one drops the continuation too
MRelease(w, h, t) ==
  /\ Replacing(w, h) /\ On(w, h, "release", t) /\ NoneFrom(w, h)
  /\ refs[t] # 1 \/ continuation[t] = None
  /\ refs' = [refs EXCEPT ![t] = @ - 1]
  /\ UNCHANGED <<prog, queues, state, dependents, numPredecessors, continuation, outstanding,
                 started>>
MDelete(w, h, t, c) ==
  /\ Replacing(w, h) /\ On(w, h, "release", t) /\ OneFrom(w, h, "release", c, None)
  /\ refs[t] = 1 /\ c = continuation[t] /\ c \in Task
  /\ refs' = [refs EXCEPT ![t] = @ - 1]
  /\ UNCHANGED <<prog, queues, state, dependents, numPredecessors, continuation, outstanding,
                 started>>

\* waitUntilComplete: on, or back
MWaitOn(w, h, t) ==
  /\ Replacing(w, h) /\ On(w, h, "wait", t) /\ state[t] = "CONTINUED"
  /\ continuation[t] \in Task /\ OneFrom(w, h, "wait", continuation[t], None)
  /\ UNCHANGED <<prog, queues, tasks, outstanding, started>>
MWaited(w, h, t) ==
  /\ Replacing(w, h) /\ On(w, h, "wait", t) /\ state[t] = "COMPLETE" /\ NoneFrom(w, h)
  /\ UNCHANGED <<prog, queues, tasks, outstanding, started>>
LEMMA OnePut ==
  ASSUME NEW w, NEW h \in Nat, NEW fs, Puts(w, h, fs), Len(fs) = 1
  PROVE  OneFrom(w, h, fs[1].do, fs[1].t, fs[1].arg)
BY PutsOne DEF OneFrom

LEMMA NoneReplaces ==
  ASSUME Typed, NEW w \in Thread, NEW d, NEW t, Top(w, d, t), Replace(w, <<>>)
  PROVE  /\ stack' \in [Thread -> Seq(Frame)]
         /\ \E h \in Nat : /\ Replacing(w, h) /\ On(w, h, d, t) /\ ArgAt(w, h) = Arg(w)
                           /\ NoneFrom(w, h)
<1> PICK h : h = Len(stack[w])
  OBVIOUS
<1>1. <<>> \in Seq(Frame)
  OBVIOUS
<1>2. /\ stack' \in [Thread -> Seq(Frame)] /\ Replacing(w, h) /\ Puts(w, h, <<>>)
      /\ On(w, h, d, t) /\ ArgAt(w, h) = Arg(w)
  BY <1>1, ReplacedTop
<1>3. h \in Nat
  BY <1>2 DEF Replacing
<1>4. NoneFrom(w, h)
  BY <1>2, <1>3, PutsNone DEF NoneFrom
<1> QED BY <1>2, <1>3, <1>4

LEMMA OneReplaces ==
  ASSUME Typed, NEW w \in Thread, NEW d, NEW t, Top(w, d, t),
         NEW e, NEW u, NEW x, Call(e, u, x) \in Frame, Replace(w, <<Call(e, u, x)>>)
  PROVE  /\ stack' \in [Thread -> Seq(Frame)]
         /\ \E h \in Nat : /\ Replacing(w, h) /\ On(w, h, d, t) /\ ArgAt(w, h) = Arg(w)
                           /\ OneFrom(w, h, e, u, x)
<1> PICK h : h = Len(stack[w])
  OBVIOUS
<1> DEFINE fs == <<Call(e, u, x)>>
<1>1. fs \in Seq(Frame) /\ Len(fs) = 1 /\ fs[1].do = e /\ fs[1].t = u /\ fs[1].arg = x
  BY DEF Call
<1>2. Replace(w, fs)
  OBVIOUS
<1> HIDE DEF fs
<1>3. /\ stack' \in [Thread -> Seq(Frame)] /\ Replacing(w, h) /\ Puts(w, h, fs)
      /\ On(w, h, d, t) /\ ArgAt(w, h) = Arg(w)
  BY <1>1, <1>2, ReplacedTop
<1>4. h \in Nat
  BY <1>3 DEF Replacing
<1>5. OneFrom(w, h, fs[1].do, fs[1].t, fs[1].arg)
  BY <1>1, <1>3, <1>4, OnePut
<1>6. OneFrom(w, h, e, u, x)
  BY <1>1, <1>5
<1> QED BY <1>3, <1>4, <1>6

LEMMA TopTyped ==
  ASSUME Typed, NEW w \in Thread, NEW d, NEW t, Top(w, d, t)
  PROVE  /\ d # "abort" => t \in Task
         /\ d = "dependsOn" => Arg(w) \in Task
         /\ d \in {"run", "complete", "decrement"} => Arg(w) \in BOOLEAN
         /\ d = "splice" => Arg(w) \in Seq(Task)
<1>1. Head(stack[w]) \in Frame /\ Head(stack[w]).do = d /\ Head(stack[w]).t = t
      /\ Arg(w) = Head(stack[w]).arg
  BY TopCall DEF Top, Arg
<1> QED BY <1>1, FrameFields

LEMMA StepDependsOn ==
  ASSUME Typed, Begun, NEW w \in Thread, NEW t \in Task, DoDependsOn(w, t)
  PROVE  /\ stack' \in [Thread -> Seq(Frame)]
         /\ \E h \in Nat, that \in Task :
              MForward(w, h, t, that) \/ MFinished(w, h, t, that) \/ MRegister(w, h, t, that)
<1>1. UNCHANGED <<prog, queues, state, continuation, refs, outstanding, started>>
  BY DEF DoDependsOn, Isolated
<1>2. Top(w, "dependsOn", t) /\ Arg(w) \in Task
  BY TopTyped DEF DoDependsOn
<1> PICK that : that = Arg(w)
  OBVIOUS
<1>3. CASE /\ state[that] = "CONTINUED" /\ Replace(w, <<DependsOn(t, continuation[that])>>)
           /\ UNCHANGED <<dependents, numPredecessors>>
  <2>1. continuation[that] \in Task
    BY <1>2, <1>3 DEF Begun, Typed, TypeOK
  <2> PICK c : c = continuation[that]
    OBVIOUS
  <2>2. Replace(w, <<Call("dependsOn", t, c)>>) /\ Call("dependsOn", t, c) \in Frame
    BY <2>1, <1>3, FrameCalls DEF DependsOn
  <2>3. /\ stack' \in [Thread -> Seq(Frame)]
        /\ \E h \in Nat : /\ Replacing(w, h) /\ On(w, h, "dependsOn", t) /\ ArgAt(w, h) = Arg(w)
                          /\ OneFrom(w, h, "dependsOn", t, c)
    BY <2>2, <1>2, OneReplaces
  <2> QED BY <1>1, <1>2, <1>3, <2>1, <2>3 DEF MForward, tasks
<1>4. CASE /\ state[that] = "COMPLETE" /\ Replace(w, <<>>)
           /\ UNCHANGED <<dependents, numPredecessors>>
  BY <1>1, <1>2, <1>4, NoneReplaces DEF MFinished, tasks
<1>5. CASE /\ state[that] # "CONTINUED" /\ state[that] # "COMPLETE" /\ Replace(w, <<>>)
           /\ dependents' = [dependents EXCEPT ![that] = Append(@, t)]
           /\ numPredecessors' = [numPredecessors EXCEPT ![t] = @ + 1]
  BY <1>1, <1>2, <1>5, NoneReplaces DEF IsDone, MRegister
<1> QED BY <1>3, <1>4, <1>5 DEF DoDependsOn, Forwards, Counted

LEMMA StepEnqueue ==
  ASSUME Typed, Wiring, NEW w \in Thread, NEW t \in Task, DoEnqueue(w, t)
  PROVE  /\ stack' \in [Thread -> Seq(Frame)]
         /\ \E h \in Nat : MPending(w, h, t) \/ MReady(w, h, t)
<1>1. /\ UNCHANGED <<prog, queues, dependents, numPredecessors, continuation, outstanding, started>>
      /\ refs' = [refs EXCEPT ![t] = @ + 1]
  BY DEF DoEnqueue, Isolated, Referenced
<1>2. Top(w, "enqueue", t)
  BY DEF DoEnqueue
<1>3. IsNew(t)
  <2> PICK h : h = Len(stack[w])
    OBVIOUS
  <2> QED BY <1>2, TopCall DEF Wiring, Wired, WiredEnqueue
<1>4. state' = [state EXCEPT ![t] =
          CASE @ = "NEW"        -> IF numPredecessors[t] = 0 THEN "READY" ELSE "PENDING"
            [] @ = "REMOTE_NEW" -> IF numPredecessors[t] = 0 THEN "REMOTE_READY"
                                   ELSE "REMOTE_PENDING"
            [] OTHER            -> @]
  BY DEF DoEnqueue, NoneLeft
<1>5. CASE numPredecessors[t] = 0
  <2>1. Replace(w, <<Call("schedule", t, None)>>)
    BY <1>5 DEF DoEnqueue, NoneLeft
  <2>2. state' = [state EXCEPT ![t] = IF @ = "NEW" THEN "READY" ELSE "REMOTE_READY"]
    BY <1>3, <1>4, <1>5 DEF IsNew
  <2>3. Call("schedule", t, None) \in Frame
    BY FrameCalls
  <2>4. /\ stack' \in [Thread -> Seq(Frame)]
        /\ \E h \in Nat : /\ Replacing(w, h) /\ On(w, h, "enqueue", t) /\ ArgAt(w, h) = Arg(w)
                          /\ OneFrom(w, h, "schedule", t, None)
    BY <1>2, <2>1, <2>3, OneReplaces
  <2> QED BY <1>1, <1>3, <1>5, <2>2, <2>4 DEF MReady
<1>6. CASE numPredecessors[t] # 0
  <2>1. Replace(w, <<>>)
    BY <1>6 DEF DoEnqueue, NoneLeft
  <2>2. state' = [state EXCEPT ![t] = IF @ = "NEW" THEN "PENDING" ELSE "REMOTE_PENDING"]
    BY <1>3, <1>4, <1>6 DEF IsNew
  <2>3. /\ stack' \in [Thread -> Seq(Frame)]
        /\ \E h \in Nat : /\ Replacing(w, h) /\ On(w, h, "enqueue", t) /\ ArgAt(w, h) = Arg(w)
                          /\ NoneFrom(w, h)
    BY <1>2, <2>1, NoneReplaces
  <2> QED BY <1>1, <1>3, <1>6, <2>2, <2>3 DEF MPending
<1> QED BY <1>5, <1>6

LEMMA StepScheduleLocal ==
  ASSUME Typed, OneHand, NEW w \in Thread, NEW t \in Task, DoScheduleLocal(w, t)
  PROVE  /\ stack' \in [Thread -> Seq(Frame)]
         /\ \E h \in Nat : MInline(w, h, t) \/ MQueue(w, h, t)
<1>1. /\ UNCHANGED <<prog, tasks, outstanding, started>>
      /\ Top(w, "schedule", t) /\ state[t] = "READY"
  BY DEF DoScheduleLocal
<1>2. t \notin Queued
  <2> PICK h : h = Len(stack[w])
    OBVIOUS
  <2> QED BY <1>1, TopCall DEF OneHand, Hand, Control
<1>3. CASE prog.kind[t] = "null" /\ Replace(w, <<Call("run", t, FALSE)>>) /\ UNCHANGED queues
  <2>1. Call("run", t, FALSE) \in Frame
    BY FrameCalls
  <2>2. /\ stack' \in [Thread -> Seq(Frame)]
        /\ \E h \in Nat : /\ Replacing(w, h) /\ On(w, h, "schedule", t) /\ ArgAt(w, h) = Arg(w)
                          /\ OneFrom(w, h, "run", t, FALSE)
    BY <1>1, <1>3, <2>1, OneReplaces
  <2> QED BY <1>1, <1>3, <2>2 DEF MInline
<1>4. CASE /\ Replace(w, <<>>)
           /\ (\E v \in Worker : PushLocal(v, t)) \/ (\E v \in Worker : Inject(v, t))
  <2>1. Puts1(t)
    BY <1>2, <1>4, PutOnDeck, PutInInject DEF Typed, TypeOK, OneHand
  <2>2. /\ stack' \in [Thread -> Seq(Frame)]
        /\ \E h \in Nat : /\ Replacing(w, h) /\ On(w, h, "schedule", t) /\ ArgAt(w, h) = Arg(w)
                          /\ NoneFrom(w, h)
    BY <1>1, <1>4, NoneReplaces
  <2> QED BY <1>1, <2>1, <2>2 DEF MQueue
<1> QED BY <1>3, <1>4 DEF DoScheduleLocal

LEMMA StepScheduleRemote ==
  ASSUME Typed, NEW w \in Thread, NEW t \in Task, DoScheduleRemote(w, t)
  PROVE  /\ stack' \in [Thread -> Seq(Frame)]
         /\ \E h \in Nat : MSend(w, h, t) \/ MKeep(w, h, t)
<1>1. /\ UNCHANGED <<prog, queues, dependents, numPredecessors, continuation, refs, started>>
      /\ Top(w, "schedule", t) /\ state[t] = "REMOTE_READY"
  BY DEF DoScheduleRemote
<1>2. CASE /\ outstanding' = outstanding \union {t} /\ Replace(w, <<>>) /\ UNCHANGED state
  BY <1>1, <1>2, NoneReplaces DEF MSend, tasks
<1>3. CASE /\ prog.kind[t] = "remote" /\ state' = [state EXCEPT ![t] = "READY"]
           /\ UNCHANGED <<stack, outstanding>>
  <2> PICK h : h = Len(stack[w])
    OBVIOUS
  <2>1. h \in Nat /\ On(w, h, "schedule", t)
    BY <1>1, TopCall
  <2> QED BY <1>1, <1>3, <2>1 DEF MKeep, Typed
<1> QED BY <1>2, <1>3 DEF DoScheduleRemote

LEMMA StepUtility ==
  ASSUME Typed, NEW t \in Task, UtilityCompletes(t)
  PROVE  /\ stack' \in [Thread -> Seq(Frame)]
         /\ \E h \in Nat : MCompletes(Utility, h, t)
<1> PICK h : h = Len(stack[Utility]) + 1
  OBVIOUS
<1>1. Call("complete", t, FALSE) \in Frame /\ Utility \in Thread
  BY FrameCalls DEF Thread
<1>2. Push(Utility, Call("complete", t, FALSE))
  BY DEF UtilityCompletes
<1>3. stack' \in [Thread -> Seq(Frame)] /\ Pushing(Utility, h, Call("complete", t, FALSE))
  BY <1>1, <1>2, Pushed
<1> QED BY <1>3 DEF UtilityCompletes, MCompletes, Pushing

LEMMA StepTake ==
  ASSUME Typed, OneHand, NEW w \in Worker, NEW t \in Task, TakeTask(w, t) \/ CancelTask(w, t)
  PROVE  /\ stack' \in [Thread -> Seq(Frame)]
         /\ \E h \in Nat, x \in BOOLEAN : MTake(w, h, t, x)
<1> PICK h : h = Len(stack[w]) + 1
  OBVIOUS
<1>1. w \in Thread /\ \A x \in BOOLEAN : Call("run", t, x) \in Frame
  BY FrameCalls DEF Thread
<1>2. UNCHANGED <<prog, tasks, outstanding, started>>
  BY DEF TakeTask, CancelTask
<1>3. Takes1(t)
  <2>1. \A v \in Worker : MayMiss(v) \in BOOLEAN
    BY DEF MayMiss
  <2>2. \E v \in Worker : (\E miss \in BOOLEAN : PopLocal(v, t, miss)) \/ Steal(v, t)
    BY <2>1 DEF TakeTask, Obtains, CancelTask
  <2> QED BY <2>2, TakeQueued DEF Typed, TypeOK, OneHand
<1>4. CASE Push(w, Call("run", t, FALSE))
  <2>1. stack' \in [Thread -> Seq(Frame)] /\ Pushing(w, h, Call("run", t, FALSE))
    BY <1>1, <1>4, Pushed
  <2>2. MTake(w, h, t, FALSE) /\ h \in Nat
    BY <1>2, <1>3, <2>1 DEF MTake, Pushing
  <2> QED BY <2>1, <2>2
<1>5. CASE Push(w, Call("run", t, TRUE)) /\ Top(w, "abort", None)
  <2>1. stack' \in [Thread -> Seq(Frame)] /\ Pushing(w, h, Call("run", t, TRUE))
    BY <1>1, <1>5, Pushed
  <2>2. \E k \in Nat : On(w, k, "abort", None)
    <3> PICK k : k = Len(stack[w])
      OBVIOUS
    <3> QED BY <1>1, <1>5, TopCall
  <2>3. MTake(w, h, t, TRUE) /\ h \in Nat
    BY <1>2, <1>3, <2>1, <2>2 DEF MTake, Pushing
  <2> QED BY <2>1, <2>3
<1> QED BY <1>4, <1>5 DEF TakeTask, CancelTask

LEMMA StepAbort ==
  ASSUME Typed, NEW w \in Worker, EnterAbort(w)
  PROVE  /\ stack' \in [Thread -> Seq(Frame)]
         /\ \E h \in Nat : MAbort(w, h)
<1> PICK h : h = Len(stack[w]) + 1
  OBVIOUS
<1>1. w \in Thread /\ Call("abort", None, None) \in Frame
  BY DEF Thread, Frame, Call
<1>2. Push(w, Call("abort", None, None))
  BY DEF EnterAbort
<1>3. stack' \in [Thread -> Seq(Frame)] /\ Pushing(w, h, Call("abort", None, None))
  BY <1>1, <1>2, Pushed
<1> QED BY <1>3 DEF EnterAbort, MAbort, Pushing

LEMMA StepSplice ==
  ASSUME Typed, NEW w \in Thread, NEW t \in Task, DoSplice(w, t)
  PROVE  /\ stack' \in [Thread -> Seq(Frame)]
         /\ \E h \in Nat : MSplice(w, h, t)
<1>1. /\ UNCHANGED <<prog, queues, state, numPredecessors, continuation, refs, outstanding, started>>
      /\ Top(w, "splice", t) /\ Replace(w, <<>>)
      /\ dependents' = [dependents EXCEPT ![t] = dependents[t] \o Arg(w)]
  BY DEF DoSplice, Isolated, Appended
<1> QED BY <1>1, NoneReplaces DEF MSplice

LEMMA StepDecrement ==
  ASSUME Typed, NEW w \in Thread, NEW t \in Task, DoDecrement(w, t)
  PROVE  /\ stack' \in [Thread -> Seq(Frame)]
         /\ \E h \in Nat : \/ MDecrement(w, h, t)
                           \/ \E d \in {"run", "schedule"}, x \in {TRUE, None} : MLast(w, h, t, d, x)
<1>1. /\ UNCHANGED <<prog, queues, dependents, continuation, refs, outstanding, started>>
      /\ Top(w, "decrement", t)
      /\ numPredecessors' = [numPredecessors EXCEPT ![t] = @ - 1]
  BY DEF DoDecrement, Isolated
<1>2. state \in [Task -> {"NEW", "PENDING", "READY", "COMPLETE", "CONTINUED",
                         "REMOTE_NEW", "REMOTE_PENDING", "REMOTE_READY"}]
  BY DEF Typed, TypeOK
<1> DEFINE last == numPredecessors[t] = 1
           f == IF ~(last /\ state[t] \in {"PENDING", "REMOTE_PENDING"}) THEN <<>>
                ELSE IF Arg(w) THEN <<Call("run", t, TRUE)>>
                ELSE <<Call("schedule", t, None)>>
<1>3. /\ state' = [state EXCEPT ![t] =
             CASE last /\ @ = "PENDING"        -> "READY"
               [] last /\ @ = "REMOTE_PENDING" -> "REMOTE_READY"
               [] OTHER                        -> @]
      /\ Replace(w, f)
  BY DEF DoDecrement
<1>4. CASE ~last \/ ~IsBlocked(t)
  <2>1. state' = state
    BY <1>2, <1>3, <1>4 DEF IsBlocked
  <2>2. Replace(w, <<>>)
    BY <1>3, <1>4 DEF IsBlocked
  <2> QED BY <1>1, <1>4, <2>1, <2>2, NoneReplaces DEF MDecrement
<1>5. CASE last /\ IsBlocked(t)
  <2>1. state' = [state EXCEPT ![t] = IF @ = "PENDING" THEN "READY" ELSE "REMOTE_READY"]
    BY <1>2, <1>3, <1>5 DEF IsBlocked
  <2>2. CASE Arg(w)
    <3>1. Arg(w) = TRUE
      BY <1>1, <2>2, TopTyped
    <3>2. Replace(w, <<Call("run", t, TRUE)>>) /\ Call("run", t, TRUE) \in Frame
      BY <1>3, <1>5, <2>2, FrameCalls DEF IsBlocked
    <3>3. /\ stack' \in [Thread -> Seq(Frame)]
          /\ \E h \in Nat : /\ Replacing(w, h) /\ On(w, h, "decrement", t) /\ ArgAt(w, h) = Arg(w)
                            /\ OneFrom(w, h, "run", t, TRUE)
      BY <1>1, <3>2, OneReplaces
    <3>4. \E h \in Nat : MLast(w, h, t, "run", TRUE)
      BY <1>1, <1>5, <2>1, <3>1, <3>3 DEF MLast
    <3> QED BY <3>3, <3>4
  <2>3. CASE ~Arg(w)
    <3>2. Replace(w, <<Call("schedule", t, None)>>) /\ Call("schedule", t, None) \in Frame
      BY <1>3, <1>5, <2>3, FrameCalls DEF IsBlocked
    <3>3. /\ stack' \in [Thread -> Seq(Frame)]
          /\ \E h \in Nat : /\ Replacing(w, h) /\ On(w, h, "decrement", t) /\ ArgAt(w, h) = Arg(w)
                            /\ OneFrom(w, h, "schedule", t, None)
      BY <1>1, <3>2, OneReplaces
    <3>4. \E h \in Nat : MLast(w, h, t, "schedule", None)
      BY <1>1, <1>5, <2>1, <3>3 DEF MLast
    <3> QED BY <3>3, <3>4
  <2> QED BY <2>2, <2>3
<1> QED BY <1>4, <1>5

LEMMA StepRelease ==
  ASSUME Typed, NEW w \in Thread, NEW t \in Task, DoRelease(w, t)
  PROVE  /\ stack' \in [Thread -> Seq(Frame)]
         /\ \E h \in Nat : MRelease(w, h, t) \/ \E c \in Task : MDelete(w, h, t, c)
<1>1. /\ UNCHANGED <<prog, queues, state, dependents, numPredecessors, continuation, outstanding,
                     started>>
      /\ Top(w, "release", t) /\ refs' = [refs EXCEPT ![t] = @ - 1]
  BY DEF DoRelease, Isolated
<1>2. CASE refs[t] = 1 /\ continuation[t] # None
  <2> PICK c : c = continuation[t]
    OBVIOUS
  <2>1. c \in Task
    BY <1>2 DEF Typed, TypeOK
  <2>2. Replace(w, <<Call("release", c, None)>>) /\ Call("release", c, None) \in Frame
    BY <1>2, <2>1, FrameCalls DEF DoRelease, Release
  <2>3. /\ stack' \in [Thread -> Seq(Frame)]
        /\ \E h \in Nat : /\ Replacing(w, h) /\ On(w, h, "release", t) /\ ArgAt(w, h) = Arg(w)
                          /\ OneFrom(w, h, "release", c, None)
    BY <1>1, <2>2, OneReplaces
  <2> QED BY <1>1, <1>2, <2>1, <2>3 DEF MDelete
<1>3. CASE ~(refs[t] = 1 /\ continuation[t] # None)
  <2>1. Replace(w, <<>>)
    BY <1>3 DEF DoRelease
  <2> QED BY <1>1, <1>3, <2>1, NoneReplaces DEF MRelease
<1> QED BY <1>2, <1>3

LEMMA StepWait ==
  ASSUME Typed, Begun, NEW w \in Thread, NEW t \in Task, DoWait(w, t)
  PROVE  /\ stack' \in [Thread -> Seq(Frame)]
         /\ \E h \in Nat : MWaitOn(w, h, t) \/ MWaited(w, h, t)
<1>1. /\ UNCHANGED <<prog, queues, tasks, outstanding, started>>
      /\ Top(w, "wait", t) /\ state[t] \in {"COMPLETE", "CONTINUED"}
  BY DEF DoWait
<1>2. CASE state[t] = "CONTINUED"
  <2> PICK c : c = continuation[t]
    OBVIOUS
  <2>1. c \in Task
    BY <1>2 DEF Begun, Typed, TypeOK
  <2>2. Replace(w, <<Call("wait", c, None)>>) /\ Call("wait", c, None) \in Frame
    BY <1>2, <2>1, FrameCalls DEF DoWait, Wait, WaitNext
  <2>3. /\ stack' \in [Thread -> Seq(Frame)]
        /\ \E h \in Nat : /\ Replacing(w, h) /\ On(w, h, "wait", t) /\ ArgAt(w, h) = Arg(w)
                          /\ OneFrom(w, h, "wait", c, None)
    BY <1>1, <2>2, OneReplaces
  <2> QED BY <1>1, <1>2, <2>1, <2>3 DEF MWaitOn
<1>3. CASE state[t] = "COMPLETE"
  <2>1. Replace(w, <<>>)
    BY <1>3 DEF DoWait, WaitNext
  <2> QED BY <1>1, <1>3, <2>1, NoneReplaces DEF MWaited
<1> QED BY <1>1, <1>2, <1>3

\* Calls over one: gs is over f.
Over(w, h, gs, n) ==
  \A k \in Nat : k > h =>
    /\ \A e, s : On(w, k, e, s)' <=> /\ h + n + 1 - k \in 1 .. n
                                     /\ gs[h + n + 1 - k].do = e /\ gs[h + n + 1 - k].t = s
    /\ h + n + 1 - k \in 1 .. n => ArgAt(w, k)' = gs[h + n + 1 - k].arg
Under(w, h, d, u, x) ==
  (\A e, s : On(w, h, e, s)' <=> e = d /\ s = u) /\ ArgAt(w, h)' = x

PutOver(w, h, fs, gs, f, n) ==
  /\ h \in Nat /\ Puts(w, h, fs)
  /\ n \in Nat /\ Len(gs) = n /\ Len(fs) = n + 1 /\ fs[n + 1] = f /\ \A i \in 1 .. n : fs[i] = gs[i]

LEMMA OverPut ==
  ASSUME NEW w, NEW h, NEW fs, NEW gs, NEW f, NEW n, PutOver(w, h, fs, gs, f, n)
  PROVE  Under(w, h, f.do, f.t, f.arg) /\ Over(w, h, gs, n)
<1>1. h \in Nat /\ Puts(w, h, fs) /\ n \in Nat /\ Len(fs) = n + 1 /\ Len(gs) = n /\ fs[n + 1] = f
  BY DEF PutOver
<1>2. \A i \in 1 .. n : fs[i] = gs[i]
  BY DEF PutOver
<1>3. h + (n + 1) - h = n + 1 /\ n + 1 \in 1 .. n + 1 /\ h >= h
  BY <1>1
<1>4. /\ \A e, s : On(w, h, e, s)' <=> e = f.do /\ s = f.t
      /\ ArgAt(w, h)' = f.arg
  BY <1>1, <1>3 DEF Puts
<1>5. ASSUME NEW k \in Nat, k > h
      PROVE  /\ \A e, s : On(w, k, e, s)' <=>
                   /\ h + n + 1 - k \in 1 .. n
                   /\ gs[h + n + 1 - k].do = e /\ gs[h + n + 1 - k].t = s
             /\ h + n + 1 - k \in 1 .. n => ArgAt(w, k)' = gs[h + n + 1 - k].arg
  <2>1. /\ h + (n + 1) - k = h + n + 1 - k /\ k >= h
        /\ h + n + 1 - k \in 1 .. n + 1 <=> h + n + 1 - k \in 1 .. n
    BY <1>1, <1>5
  <2> QED BY <1>1, <1>2, <2>1 DEF Puts
<1>6. Under(w, h, f.do, f.t, f.arg)
  BY <1>4 DEF Under
<1>7. Over(w, h, gs, n)
  BY <1>5 DEF Over
<1> QED BY <1>6, <1>7

LEMMA OverReplaces ==
  ASSUME Typed, NEW w \in Thread, NEW d, NEW t, Top(w, d, t),
         NEW gs \in Seq(Frame), NEW n, n = Len(gs),
         NEW e, NEW u, NEW x, Call(e, u, x) \in Frame, Replace(w, gs \o <<Call(e, u, x)>>)
  PROVE  /\ stack' \in [Thread -> Seq(Frame)]
         /\ \E h \in Nat : /\ Replacing(w, h) /\ On(w, h, d, t) /\ ArgAt(w, h) = Arg(w)
                           /\ Under(w, h, e, u, x) /\ Over(w, h, gs, n)
<1> PICK h : h = Len(stack[w])
  OBVIOUS
<1> PICK f : f = Call(e, u, x)
  OBVIOUS
<1> PICK fs : fs = gs \o <<f>>
  OBVIOUS
<1>1. f \in Frame /\ f.do = e /\ f.t = u /\ f.arg = x
  BY DEF Call
<1>2. fs \in Seq(Frame) /\ n \in Nat /\ Len(fs) = n + 1 /\ fs[n + 1] = f /\ \A i \in 1 .. n : fs[i] = gs[i]
  BY <1>1
<1>3. Replace(w, fs)
  OBVIOUS
<1>4. /\ stack' \in [Thread -> Seq(Frame)] /\ Replacing(w, h) /\ Puts(w, h, fs)
      /\ On(w, h, d, t) /\ ArgAt(w, h) = Arg(w)
  BY <1>2, <1>3, ReplacedTop
<1>5. h \in Nat
  BY <1>4 DEF Replacing
<1>6. Under(w, h, f.do, f.t, f.arg) /\ Over(w, h, gs, n)
  <2>1. PutOver(w, h, fs, gs, f, n)
    BY <1>2, <1>4, <1>5 DEF PutOver
  <2> QED BY <2>1, OverPut
<1>7. Under(w, h, e, u, x)
  BY <1>1, <1>6 DEF Under
<1> QED BY <1>4, <1>5, <1>6, <1>7

LEMMA StepRun ==
  ASSUME Typed, NEW w \in Thread, NEW t \in Task, DoRun(w, t)
  PROVE  /\ stack' \in [Thread -> Seq(Frame)]
         /\ \E h \in Nat : MCancelled(w, h, t) \/ MRun(w, h, t)
<1>1. UNCHANGED <<prog, queues, tasks, outstanding>> /\ Top(w, "run", t) /\ Arg(w) \in BOOLEAN
  BY TopTyped DEF DoRun
<1>2. CASE Arg(w)
  <2>1. Replace(w, <<Call("complete", t, TRUE)>>) /\ Call("complete", t, TRUE) \in Frame
    BY <1>2, FrameCalls DEF DoRun
  <2>2. /\ stack' \in [Thread -> Seq(Frame)]
        /\ \E h \in Nat : /\ Replacing(w, h) /\ On(w, h, "run", t) /\ ArgAt(w, h) = Arg(w)
                          /\ OneFrom(w, h, "complete", t, TRUE)
    BY <1>1, <2>1, OneReplaces
  <2>3. Arg(w) = TRUE /\ started' = started
    BY <1>1, <1>2 DEF DoRun
  <2> QED BY <1>1, <2>2, <2>3 DEF MCancelled
<1>3. CASE ~Arg(w)
  <2> DEFINE gs == Body(t)
  <2> PICK n : n = Len(gs)
    OBVIOUS
  <2>1. prog \in Programs /\ t \in Maker /\ prog.body[t] = gs
    BY ProgramFacts DEF Typed, TypeOK, Maker
  <2>2. \A i \in 1 .. n : /\ gs[i] \in Frame /\ gs[i].do \in {"dependsOn", "enqueue", "wait"}
                          /\ gs[i].t \in prog.makes[t]
    BY <2>1, BodyFacts
  <2>3. gs \in Seq(Frame) /\ n \in Nat
    <3>1. gs \in Seq(BodyCall)
      BY <2>1, ProgramFacts
    <3>2. n \in Nat /\ gs \in [1 .. n -> BodyCall]
      BY <3>1
    <3> QED BY <3>2 DEF Frame
  <2>4. Replace(w, gs \o <<Call("return", t, None)>>) /\ Call("return", t, None) \in Frame
    BY <1>3, <2>1, FrameCalls DEF DoRun
  <2> HIDE DEF gs
  <2>5. /\ stack' \in [Thread -> Seq(Frame)]
        /\ \E h \in Nat : /\ Replacing(w, h) /\ On(w, h, "run", t) /\ ArgAt(w, h) = Arg(w)
                          /\ Under(w, h, "return", t, None) /\ Over(w, h, gs, n)
    BY <1>1, <2>3, <2>4, OverReplaces
  <2>6. Arg(w) = FALSE /\ started' = [started EXCEPT ![t] = @ + 1]
    BY <1>1, <1>3 DEF DoRun
  <2>7. ASSUME NEW h \in Nat, Over(w, h, gs, n)
        PROVE  /\ Lays(w, h, n, t)
               /\ \A k \in Nat : \A d, s : k > h /\ On(w, k, d, s)' =>
                    d \in {"dependsOn", "enqueue", "wait"} /\ s \in prog.makes[t]
    <3>1. Lays(w, h, n, t)
      BY <2>7 DEF Over, Lays, gs
    <3>2. \A k \in Nat : \A d, s : k > h /\ On(w, k, d, s)' =>
            \E i \in 1 .. n : gs[i].do = d /\ gs[i].t = s
      BY <2>7 DEF Over
    <3> QED BY <3>1, <3>2, <2>2
  <2>8. \A m : m = Len(Body(t)) => m = n
    BY DEF gs
  <2> QED BY <1>1, <2>5, <2>6, <2>7, <2>8 DEF MRun, Under
<1> QED BY <1>2, <1>3

LEMMA StepReturn ==
  ASSUME Typed, NEW w \in Thread, NEW t \in Task, DoReturn(w, t)
  PROVE  /\ stack' \in [Thread -> Seq(Frame)]
         /\ \E h \in Nat : MReturn(w, h, t)
<1>1. /\ UNCHANGED <<prog, queues, state, dependents, numPredecessors, outstanding, started>>
      /\ Top(w, "return", t)
      /\ continuation' = [continuation EXCEPT ![t] = prog.cont[t]]
      /\ refs' = [s \in Task |-> refs[s] + IF s = prog.cont[t] THEN 1 ELSE 0]
  BY DEF DoReturn, Isolated
<1> DEFINE S == prog.makes[t]
           gs == Releases(S)
<1>0. PICK n : n = Cardinality(S)
  OBVIOUS
<1>2. S \in SUBSET Task
  BY ProgramFacts DEF Typed, TypeOK, Maker
<1>3. /\ n \in Nat /\ gs \in Seq(Frame) /\ Len(gs) = n
      /\ \A i \in 1 .. n : gs[i].do = "release" /\ gs[i].t \in S
      /\ \A s \in S : \E i \in 1 .. n : gs[i].t = s
      /\ \A i, j \in 1 .. n : gs[i].t = gs[j].t => i = j
  BY <1>0, <1>2, ReleasesEach
<1>4. Replace(w, gs \o <<Call("complete", t, FALSE)>>) /\ Call("complete", t, FALSE) \in Frame
  BY FrameCalls DEF DoReturn
<1> HIDE DEF gs, S
<1>5. /\ stack' \in [Thread -> Seq(Frame)]
      /\ \E h \in Nat : /\ Replacing(w, h) /\ On(w, h, "return", t) /\ ArgAt(w, h) = Arg(w)
                        /\ Under(w, h, "complete", t, FALSE) /\ Over(w, h, gs, n)
  BY <1>1, <1>3, <1>4, OverReplaces
<1>6. ASSUME NEW h \in Nat, Over(w, h, gs, n)
      PROVE  /\ \A k \in Nat : \A d, s : k > h /\ On(w, k, d, s)' => d = "release" /\ s \in S
             /\ \A s \in S : \E k \in Nat : k > h /\ On(w, k, "release", s)'
             /\ \A k, j \in Nat : \A s :
                  k > h /\ j > h /\ On(w, k, "release", s)' /\ On(w, j, "release", s)' => k = j
  <2>1. \A k \in Nat : \A d, s : k > h => (On(w, k, d, s)' <=> /\ h + n + 1 - k \in 1 .. n
                                         /\ gs[h + n + 1 - k].do = d /\ gs[h + n + 1 - k].t = s)
    BY <1>6 DEF Over
  <2>2. \A k \in Nat : \A d, s : k > h /\ On(w, k, d, s)' => d = "release" /\ s \in S
    BY <2>1, <1>3
  <2>3. \A k, j \in Nat : \A s :
          k > h /\ j > h /\ On(w, k, "release", s)' /\ On(w, j, "release", s)' => k = j
    <3> TAKE k, j \in Nat
    <3> TAKE s
    <3> HAVE k > h /\ j > h /\ On(w, k, "release", s)' /\ On(w, j, "release", s)'
    <3>1. h + n + 1 - k = h + n + 1 - j
      BY <2>1, <1>3
    <3> QED BY <3>1, <1>3
  <2>4. ASSUME NEW s \in S
        PROVE  \E k \in Nat : k > h /\ On(w, k, "release", s)'
    <3>1. PICK i \in 1 .. n : gs[i].t = s
      BY <1>3
    <3>2. h + n + 1 - i \in Nat /\ h + n + 1 - i > h /\ h + n + 1 - (h + n + 1 - i) = i
      BY <1>3
    <3>0. PICK k : k = h + n + 1 - i
      OBVIOUS
    <3>3. k \in Nat /\ k > h /\ h + n + 1 - k = i
      BY <3>0, <3>2
    <3>4. On(w, k, "release", s)'
      BY <3>1, <3>3, <2>1, <1>3
    <3> QED BY <3>3, <3>4
  <2> QED BY <2>2, <2>3, <2>4
<1>7. PICK h \in Nat : /\ Replacing(w, h) /\ On(w, h, "return", t)
                       /\ Under(w, h, "complete", t, FALSE) /\ Over(w, h, gs, n)
  BY <1>5
<1>8. MReturn(w, h, t)
  <2>1. /\ \A d, s : On(w, h, d, s)' <=> d = "complete" /\ s = t
        /\ ArgAt(w, h)' = FALSE
    BY <1>7 DEF Under
  <2>2. /\ \A k \in Nat : \A d, s : k > h /\ On(w, k, d, s)' => d = "release" /\ s \in S
        /\ \A s \in S : \E k \in Nat : k > h /\ On(w, k, "release", s)'
        /\ \A k, j \in Nat : \A s :
             k > h /\ j > h /\ On(w, k, "release", s)' /\ On(w, j, "release", s)' => k = j
    BY <1>6, <1>7
  <2>3. /\ \A k \in Nat : \A d, s : k > h /\ On(w, k, d, s)' => d = "release" /\ s \in prog.makes[t]
        /\ \A s \in prog.makes[t] : \E k \in Nat : k > h /\ On(w, k, "release", s)'
    BY <2>2 DEF S
  <2>4. /\ UNCHANGED <<prog, queues, state, dependents, numPredecessors, outstanding, started>>
        /\ continuation' = [continuation EXCEPT ![t] = prog.cont[t]]
        /\ refs' = [s \in Task |-> refs[s] + IF s = prog.cont[t] THEN 1 ELSE 0]
    BY <1>1
  <2>5. Replacing(w, h) /\ On(w, h, "return", t)
    BY <1>7
  <2> HIDE <1>1
  <2> QED BY <2>1, <2>2, <2>3, <2>4, <2>5, Zenon DEF MReturn
<1> QED BY <1>5, <1>8

LEMMA StepComplete ==
  ASSUME Typed, NEW w \in Thread, NEW t \in Task, DoComplete(w, t)
  PROVE  /\ stack' \in [Thread -> Seq(Frame)]
         /\ \E h \in Nat : (\E c \in Task : MContinue(w, h, t, c)) \/ (\E n \in Nat : MComplete(w, h, t, n))
<1>1. /\ UNCHANGED <<prog, queues, numPredecessors, continuation, refs, outstanding, started>>
      /\ Top(w, "complete", t)
      /\ dependents' = [dependents EXCEPT ![t] = <<>>]
  BY DEF DoComplete, Isolated
<1>0. PICK tmp : tmp = dependents[t]
  OBVIOUS
<1>2. tmp \in Seq(Task)
  BY <1>0 DEF Typed, TypeOK
<1>3. CASE continuation[t] # None
  <2>0. PICK c : c = continuation[t]
    OBVIOUS
  <2>1. c \in Task
    BY <1>3, <2>0 DEF Typed, TypeOK
  <2> DEFINE gs == <<Call("splice", c, tmp), Enqueue(c)>>
  <2>2. /\ gs \in Seq(Frame) /\ Len(gs) = 2
        /\ gs[1].do = "splice" /\ gs[1].t = c /\ gs[1].arg = tmp
        /\ gs[2].do = "enqueue" /\ gs[2].t = c
    <3>1. Call("splice", c, tmp) \in Frame /\ Enqueue(c) \in Frame
      BY <1>2, <2>1, FrameCalls
    <3>2. gs \in Seq(Frame) /\ Len(gs) = 2 /\ gs[1] = Call("splice", c, tmp) /\ gs[2] = Enqueue(c)
      BY <3>1
    <3> QED BY <3>2 DEF Call, Enqueue
  <2>3. Replace(w, gs \o <<Call("release", t, None)>>) /\ Call("release", t, None) \in Frame
    <3>1. Replace(w, <<Call("splice", c, tmp), Enqueue(c), Release(t)>>)
      BY <1>0, <1>3, <2>0 DEF DoComplete, Continue
    <3>2. <<Call("splice", c, tmp), Enqueue(c), Release(t)>> = gs \o <<Call("release", t, None)>>
      BY DEF Release
    <3>3. Call("release", t, None) \in Frame
      BY FrameCalls DEF Release
    <3> QED BY <3>1, <3>2, <3>3
  <2>4. state' = [state EXCEPT ![t] = "CONTINUED"]
    BY <1>3 DEF DoComplete
  <2> HIDE DEF gs
  <2>5. /\ stack' \in [Thread -> Seq(Frame)]
        /\ \E h \in Nat : /\ Replacing(w, h) /\ On(w, h, "complete", t) /\ ArgAt(w, h) = Arg(w)
                          /\ Under(w, h, "release", t, None) /\ Over(w, h, gs, 2)
    BY <1>1, <2>2, <2>3, OverReplaces
  <2>6. ASSUME NEW h \in Nat, Over(w, h, gs, 2)
        PROVE  /\ \A d, s : On(w, h + 1, d, s)' <=> d = "enqueue" /\ s = c
               /\ \A d, s : On(w, h + 2, d, s)' <=> d = "splice" /\ s = c
               /\ ArgAt(w, h + 2)' = tmp
               /\ \A k \in Nat : \A d, s : k > h + 2 => ~On(w, k, d, s)'
    <3>1. /\ h + 2 + 1 - (h + 1) = 2 /\ h + 2 + 1 - (h + 2) = 1 /\ h + 1 > h /\ h + 2 > h
          /\ h + 1 \in Nat /\ h + 2 \in Nat /\ 1 \in 1 .. 2 /\ 2 \in 1 .. 2
      OBVIOUS
    <3>2. \A k \in Nat : k > h => /\ \A e, s : On(w, k, e, s)' <=> /\ h + 2 + 1 - k \in 1 .. 2
                                     /\ gs[h + 2 + 1 - k].do = e /\ gs[h + 2 + 1 - k].t = s
                                  /\ h + 2 + 1 - k \in 1 .. 2 => ArgAt(w, k)' = gs[h + 2 + 1 - k].arg
      BY <2>6 DEF Over
    <3>3. \A d, s : On(w, h + 1, d, s)' <=> d = "enqueue" /\ s = c
      BY <3>1, <3>2, <2>2
    <3>4. (\A d, s : On(w, h + 2, d, s)' <=> d = "splice" /\ s = c) /\ ArgAt(w, h + 2)' = tmp
      BY <3>1, <3>2, <2>2
    <3>5. \A k \in Nat : \A d, s : k > h + 2 => ~On(w, k, d, s)'
      BY <3>2
    <3> QED BY <3>3, <3>4, <3>5
  <2>7. PICK h \in Nat : /\ Replacing(w, h) /\ On(w, h, "complete", t)
                         /\ Under(w, h, "release", t, None) /\ Over(w, h, gs, 2)
    BY <2>5
  <2>8. MContinue(w, h, t, c)
    BY <1>0, <1>1, <2>0, <2>1, <2>4, <2>6, <2>7 DEF MContinue, Under
  <2> QED BY <2>1, <2>5, <2>8
<1>4. CASE continuation[t] = None
  <2>a. PICK n : n = Len(tmp)
    OBVIOUS
  <2>0. n \in Nat /\ \A i \in 1 .. n : tmp[i] \in Task
    BY <1>2, <2>a
  <2>b. PICK x : x = Arg(w)
    OBVIOUS
  <2>1. x \in BOOLEAN
    BY <1>1, <2>b, TopTyped
  <2> DEFINE gs == [i \in 1 .. n |-> Call("decrement", tmp[i], x)]
  <2>2. gs \in Seq(Frame) /\ Len(gs) = n /\ \A i \in 1 .. n : gs[i] = Call("decrement", tmp[i], x)
    <3>1. \A i \in 1 .. n : Call("decrement", tmp[i], x) \in Frame
      BY <2>0, <2>1, FrameCalls
    <3> QED BY <2>0, <3>1
  <2>3. \A i \in 1 .. n : gs[i].do = "decrement" /\ gs[i].t = tmp[i] /\ gs[i].arg = x
    BY <2>2 DEF Call
  <2>4. Replace(w, gs \o <<Call("release", t, None)>>) /\ Call("release", t, None) \in Frame
    <3>1. Replace(w, [i \in 1 .. n |-> Call("decrement", tmp[i], x)] \o <<Release(t)>>)
      BY <1>0, <1>4, <2>a, <2>b DEF DoComplete
    <3> QED BY <3>1, FrameCalls DEF Release
  <2>5. state' = [state EXCEPT ![t] = "COMPLETE"]
    BY <1>4 DEF DoComplete
  <2> HIDE DEF gs
  <2>6. /\ stack' \in [Thread -> Seq(Frame)]
        /\ \E h \in Nat : /\ Replacing(w, h) /\ On(w, h, "complete", t) /\ ArgAt(w, h) = Arg(w)
                          /\ Under(w, h, "release", t, None) /\ Over(w, h, gs, n)
    BY <1>1, <2>2, <2>4, OverReplaces
  <2>7. ASSUME NEW h \in Nat, ArgAt(w, h) = x, Over(w, h, gs, n)
        PROVE  \A k \in Nat : k > h =>
                 /\ \A d, s : On(w, k, d, s)' <=> /\ h + n + 1 - k \in 1 .. n /\ d = "decrement"
                                                  /\ tmp[h + n + 1 - k] = s
                 /\ h + n + 1 - k \in 1 .. n => ArgAt(w, k)' = ArgAt(w, h)
    BY <2>7, <2>3 DEF Over
  <2>8. PICK h \in Nat : /\ Replacing(w, h) /\ On(w, h, "complete", t) /\ ArgAt(w, h) = x
                         /\ Under(w, h, "release", t, None) /\ Over(w, h, gs, n)
    BY <2>6, <2>b
  <2>9. MComplete(w, h, t, n)
    BY <1>0, <1>1, <1>4, <2>0, <2>a, <2>5, <2>7, <2>8 DEF MComplete, Under
  <2> QED BY <2>0, <2>6, <2>9
<1> QED BY <1>3, <1>4

\* Every step but a stutter is one of these moves.
Move(w, h, t) ==
  \/ \E s \in Task : \/ MForward(w, h, t, s) \/ MFinished(w, h, t, s) \/ MRegister(w, h, t, s)
                     \/ MContinue(w, h, t, s) \/ MDelete(w, h, t, s)
  \/ \E n \in Nat : MComplete(w, h, t, n)
  \/ \E x \in BOOLEAN : MTake(w, h, t, x)
  \/ \E d \in {"run", "schedule"}, x \in {TRUE, None} : MLast(w, h, t, d, x)
  \/ MPending(w, h, t) \/ MReady(w, h, t) \/ MInline(w, h, t) \/ MQueue(w, h, t)
  \/ MSend(w, h, t) \/ MKeep(w, h, t) \/ MCompletes(w, h, t)
  \/ MCancelled(w, h, t) \/ MRun(w, h, t) \/ MReturn(w, h, t) \/ MSplice(w, h, t)
  \/ MDecrement(w, h, t) \/ MRelease(w, h, t) \/ MWaitOn(w, h, t) \/ MWaited(w, h, t)

LEMMA StepMoves ==
  ASSUME Typed, OneHand, Begun, Wiring, Next
  PROVE  \/ /\ stack' \in [Thread -> Seq(Frame)]
            /\ \/ \E w \in Thread, h \in Nat, t \in Task : Move(w, h, t)
               \/ \E w \in Thread, h \in Nat : MAbort(w, h)
         \/ UNCHANGED vars
<1>1. ASSUME NEW w \in Thread, NEW t \in Task,
             \/ DoDependsOn(w, t) \/ DoEnqueue(w, t)
             \/ DoScheduleLocal(w, t) \/ DoScheduleRemote(w, t)
             \/ DoRun(w, t) \/ DoReturn(w, t) \/ DoComplete(w, t) \/ DoSplice(w, t)
             \/ DoDecrement(w, t) \/ DoRelease(w, t) \/ DoWait(w, t)
      PROVE  stack' \in [Thread -> Seq(Frame)] /\ \E h \in Nat : Move(w, h, t)
  <2>1. CASE DoDependsOn(w, t)
    BY <2>1, StepDependsOn DEF Move
  <2>2. CASE DoEnqueue(w, t)
    BY <2>2, StepEnqueue DEF Move
  <2>3. CASE DoScheduleLocal(w, t)
    BY <2>3, StepScheduleLocal DEF Move
  <2>4. CASE DoScheduleRemote(w, t)
    BY <2>4, StepScheduleRemote DEF Move
  <2>5. CASE DoRun(w, t)
    BY <2>5, StepRun DEF Move
  <2>6. CASE DoReturn(w, t)
    BY <2>6, StepReturn DEF Move
  <2>7. CASE DoComplete(w, t)
    BY <2>7, StepComplete DEF Move
  <2>8. CASE DoSplice(w, t)
    BY <2>8, StepSplice DEF Move
  <2>9. CASE DoDecrement(w, t)
    BY <2>9, StepDecrement DEF Move
  <2>10. CASE DoRelease(w, t)
    BY <2>10, StepRelease DEF Move
  <2>11. CASE DoWait(w, t)
    BY <2>11, StepWait DEF Move
  <2> QED BY <1>1, <2>1, <2>2, <2>3, <2>4, <2>5, <2>6, <2>7, <2>8, <2>9, <2>10, <2>11
<1>2. ASSUME NEW w \in Thread, Step(w)
      PROVE  stack' \in [Thread -> Seq(Frame)]
             /\ \E v \in Thread, h \in Nat, t \in Task : Move(v, h, t)
  BY <1>1, <1>2 DEF Step
<1>3. ASSUME NEW w \in Worker, NEW t \in Task, TakeTask(w, t) \/ CancelTask(w, t)
      PROVE  stack' \in [Thread -> Seq(Frame)]
             /\ \E v \in Thread, h \in Nat, s \in Task : Move(v, h, s)
  <2>1. w \in Thread
    BY DEF Thread
  <2>2. /\ stack' \in [Thread -> Seq(Frame)]
        /\ \E h \in Nat : \E x \in BOOLEAN : MTake(w, h, t, x)
    BY <1>3, StepTake
  <2>3. \A h \in Nat : (\E x \in BOOLEAN : MTake(w, h, t, x)) => Move(w, h, t)
    BY DEF Move
  <2> QED BY <2>1, <2>2, <2>3
<1>4. ASSUME NEW t \in Task, UtilityCompletes(t)
      PROVE  stack' \in [Thread -> Seq(Frame)]
             /\ \E v \in Thread, h \in Nat, s \in Task : Move(v, h, s)
  BY <1>4, StepUtility DEF Move, Thread
<1>5. ASSUME NEW w \in Worker, EnterAbort(w)
      PROVE  stack' \in [Thread -> Seq(Frame)] /\ \E v \in Thread, h \in Nat : MAbort(v, h)
  BY <1>5, StepAbort DEF Thread
<1>6. Idle => UNCHANGED vars
  BY DEF Idle
<1>7. Worker \subseteq Thread /\ Utility \in Thread
  BY DEF Thread
<1> QED BY <1>2, <1>3, <1>4, <1>5, <1>6, <1>7 DEF Next, WorkerStep, UtilityStep

-----------------------------------------------------------------------------
(* What a move leaves alone: the calls of all but a few methods.            *)

LEMMA OneCall ==
  \A w, k, d, e, s, t : /\ On(w, k, d, t) /\ On(w, k, e, s) => d = e /\ t = s
                        /\ On(w, k, d, t)' /\ On(w, k, e, s)' => d = e /\ t = s
BY DEF On

LEMMA CallTyped ==
  ASSUME stack \in [Thread -> Seq(Frame)], NEW w \in Thread, NEW k, NEW d, NEW t, On(w, k, d, t)
  PROVE  /\ k \in Nat /\ k > 0
         /\ d # "abort" => t \in Task
         /\ d = "abort" => t = None
         /\ d = "dependsOn" => ArgAt(w, k) \in Task
         /\ d = "splice" => ArgAt(w, k) \in Seq(Task)
<1>1. stack[w] \in Seq(Frame) /\ k \in 1 .. Len(stack[w])
  BY DEF On
<1>2. Len(stack[w]) + 1 - k \in 1 .. Len(stack[w]) /\ k \in Nat /\ k > 0
  BY <1>1
<1>3. CallAt(w, k) \in Frame /\ CallAt(w, k).do = d /\ CallAt(w, k).t = t
  BY <1>1, <1>2 DEF CallAt, On
<1> QED BY <1>2, <1>3, FrameFields DEF ArgAt

LEMMA CallTypedNext ==
  ASSUME stack' \in [Thread -> Seq(Frame)], NEW w \in Thread, NEW k, NEW d, NEW t, On(w, k, d, t)'
  PROVE  /\ k \in Nat /\ k > 0
         /\ d # "abort" => t \in Task
         /\ d = "abort" => t = None
         /\ d = "dependsOn" => ArgAt(w, k)' \in Task
         /\ d = "splice" => ArgAt(w, k)' \in Seq(Task)
<1>1. stack'[w] \in Seq(Frame) /\ k \in 1 .. Len(stack'[w])
  BY DEF On
<1>2. Len(stack'[w]) + 1 - k \in 1 .. Len(stack'[w]) /\ k \in Nat /\ k > 0
  BY <1>1
<1>3. CallAt(w, k)' \in Frame /\ CallAt(w, k)'.do = d /\ CallAt(w, k)'.t = t
  BY <1>1, <1>2 DEF CallAt, On
<1> QED BY <1>2, <1>3, FrameFields DEF ArgAt

Method == {"dependsOn", "enqueue", "wait", "release", "schedule", "return", "run", "complete",
           "decrement", "splice", "abort"}
Same(D) ==
  \A v \in Thread, k \in Nat, d \in D : \A s :
    /\ On(v, k, d, s)' <=> On(v, k, d, s)
    /\ On(v, k, d, s) => ArgAt(v, k)' = ArgAt(v, k)

LEMMA SameButTop ==
  ASSUME NEW w \in Thread, NEW h \in Nat, NEW d, NEW t, Replacing(w, h), On(w, h, d, t),
         NEW D, d \notin D, \A k \in Nat, e \in D : \A s : k >= h => ~On(w, k, e, s)'
  PROVE  Same(D)
<1>1. \A v \in Thread, k \in Nat : v # w \/ k < h \/ (v = w /\ k = h) \/ (v = w /\ k > h)
  OBVIOUS
<1>2. \A e \in D : \A s : ~On(w, h, e, s)
  BY OneCall
<1> QED BY <1>1, <1>2 DEF Same, Replacing, Upper

LEMMA SameButPushed ==
  ASSUME NEW w \in Thread, NEW h \in Nat, NEW f, Pushing(w, h, f), NEW D, f.do \notin D
  PROVE  Same(D)
<1>1. \A v \in Thread, k \in Nat : v # w \/ k < h \/ (v = w /\ k >= h)
  OBVIOUS
<1> QED BY <1>1 DEF Same, Pushing, Upper

LEMMA SameCalls ==
  ASSUME NEW w \in Thread, NEW h \in Nat, NEW t \in Task
  PROVE  /\ \A s \in Task :
              /\ MForward(w, h, t, s) \/ MFinished(w, h, t, s) \/ MRegister(w, h, t, s)
                   => Same(Method \ {"dependsOn"})
              /\ MContinue(w, h, t, s)
                   => Same(Method \ {"complete", "release", "enqueue", "splice"})
              /\ MDelete(w, h, t, s) => Same(Method \ {"release"})
         /\ \A n \in Nat : MComplete(w, h, t, n)
                             => Same(Method \ {"complete", "release", "decrement"})
         /\ MPending(w, h, t) => Same(Method \ {"enqueue"})
         /\ MReady(w, h, t) => Same(Method \ {"enqueue", "schedule"})
         /\ MInline(w, h, t) => Same(Method \ {"schedule", "run"})
         /\ MQueue(w, h, t) \/ MSend(w, h, t) => Same(Method \ {"schedule"})
         /\ MKeep(w, h, t) => Same(Method)
         /\ MCompletes(w, h, t) => Same(Method \ {"complete"})
         /\ MAbort(w, h) => Same(Method \ {"abort"})
         /\ MCancelled(w, h, t) => Same(Method \ {"run", "complete"})
         /\ MRun(w, h, t) => Same(Method \ {"run", "return", "dependsOn", "enqueue", "wait"})
         /\ MReturn(w, h, t) => Same(Method \ {"return", "complete", "release"})
         /\ MSplice(w, h, t) => Same(Method \ {"splice"})
         /\ MDecrement(w, h, t) => Same(Method \ {"decrement"})
         /\ MRelease(w, h, t) => Same(Method \ {"release"})
         /\ MWaitOn(w, h, t) \/ MWaited(w, h, t) => Same(Method \ {"wait"})
<1>1. ASSUME NEW d, NEW D, On(w, h, d, t), Replacing(w, h), d \notin D, NoneFrom(w, h)
      PROVE  Same(D)
  BY <1>1, SameButTop DEF NoneFrom
<1>2. ASSUME NEW d, NEW e, NEW u, NEW x, NEW D, On(w, h, d, t), Replacing(w, h), d \notin D,
             OneFrom(w, h, e, u, x), e \notin D
      PROVE  Same(D)
  BY <1>2, SameButTop DEF OneFrom
<1>3. ASSUME NEW s \in Task
      PROVE  /\ MForward(w, h, t, s) \/ MFinished(w, h, t, s) \/ MRegister(w, h, t, s)
                   => Same(Method \ {"dependsOn"})
             /\ MDelete(w, h, t, s) => Same(Method \ {"release"})
  BY <1>1, <1>2 DEF MForward, MFinished, MRegister, MDelete
<1>4. ASSUME NEW s \in Task, MContinue(w, h, t, s)
      PROVE  Same(Method \ {"complete", "release", "enqueue", "splice"})
  <2> DEFINE D == Method \ {"complete", "release", "enqueue", "splice"}
  <2>1. \A k \in Nat : k >= h => k = h \/ k = h + 1 \/ k = h + 2 \/ k > h + 2
    OBVIOUS
  <2>2. \A k \in Nat, e \in D : \A u : k >= h => ~On(w, k, e, u)'
    BY <2>1, <1>4 DEF MContinue
  <2> QED BY <1>4, <2>2, SameButTop DEF MContinue
<1>5. ASSUME NEW n \in Nat, MComplete(w, h, t, n)
      PROVE  Same(Method \ {"complete", "release", "decrement"})
  <2> DEFINE D == Method \ {"complete", "release", "decrement"}
  <2>1. \A k \in Nat : k >= h => k = h \/ k > h
    OBVIOUS
  <2>2. \A k \in Nat, e \in D : \A u : k >= h => ~On(w, k, e, u)'
    BY <2>1, <1>5 DEF MComplete
  <2> QED BY <1>5, <2>2, SameButTop DEF MComplete
<1>8. /\ MPending(w, h, t) => Same(Method \ {"enqueue"})
      /\ MReady(w, h, t) => Same(Method \ {"enqueue", "schedule"})
      /\ MInline(w, h, t) => Same(Method \ {"schedule", "run"})
      /\ MQueue(w, h, t) \/ MSend(w, h, t) => Same(Method \ {"schedule"})
  BY <1>1, <1>2 DEF MPending, MReady, MInline, MQueue, MSend
<1>9. MKeep(w, h, t) => Same(Method)
  BY DEF MKeep, Same, On, ArgAt, CallAt
<1>10. MCompletes(w, h, t) => Same(Method \ {"complete"})
  BY SameButPushed DEF MCompletes, Call
<1>11. MAbort(w, h) => Same(Method \ {"abort"})
  BY SameButPushed DEF MAbort, Call
<1>12. MCancelled(w, h, t) => Same(Method \ {"run", "complete"})
  BY <1>2 DEF MCancelled
<1>13. ASSUME MRun(w, h, t)
       PROVE  Same(Method \ {"run", "return", "dependsOn", "enqueue", "wait"})
  <2> DEFINE D == Method \ {"run", "return", "dependsOn", "enqueue", "wait"}
  <2>1. \A k \in Nat : k >= h => k = h \/ k > h
    OBVIOUS
  <2>2. \A k \in Nat, e \in D : \A u : k >= h => ~On(w, k, e, u)'
    BY <2>1, <1>13 DEF MRun
  <2> QED BY <1>13, <2>2, SameButTop DEF MRun
<1>14. ASSUME MReturn(w, h, t)
       PROVE  Same(Method \ {"return", "complete", "release"})
  <2> DEFINE D == Method \ {"return", "complete", "release"}
  <2>1. \A k \in Nat : k >= h => k = h \/ k > h
    OBVIOUS
  <2>2. \A k \in Nat, e \in D : \A u : k >= h => ~On(w, k, e, u)'
    BY <2>1, <1>14 DEF MReturn
  <2> QED BY <1>14, <2>2, SameButTop DEF MReturn
<1>15. /\ MSplice(w, h, t) => Same(Method \ {"splice"})
       /\ MDecrement(w, h, t) => Same(Method \ {"decrement"})
       /\ MRelease(w, h, t) => Same(Method \ {"release"})
       /\ MWaitOn(w, h, t) \/ MWaited(w, h, t) => Same(Method \ {"wait"})
  BY <1>1, <1>2 DEF MSplice, MDecrement, MRelease, MWaitOn, MWaited
<1> QED BY <1>3, <1>4, <1>5, <1>8, <1>9, <1>10, <1>11, <1>12, <1>13, <1>14, <1>15

LEMMA SameTake ==
  ASSUME NEW w \in Thread, NEW h \in Nat, NEW t \in Task, NEW x, MTake(w, h, t, x)
  PROVE  Same(Method \ {"run"})
BY SameButPushed DEF MTake, Call

LEMMA SameLast ==
  ASSUME NEW w \in Thread, NEW h \in Nat, NEW t \in Task, NEW d, NEW x, MLast(w, h, t, d, x)
  PROVE  Same(Method \ {"decrement", d})
<1>1. On(w, h, "decrement", t) /\ Replacing(w, h) /\ OneFrom(w, h, d, t, x)
  BY DEF MLast
<1>2. \A k \in Nat, e \in Method \ {"decrement", d} : \A s : k >= h => ~On(w, k, e, s)'
  BY <1>1 DEF OneFrom
<1> QED BY <1>1, <1>2, SameButTop

-----------------------------------------------------------------------------
(* Counting.                                                                *)

\* Where the decrements of t that are still to come are, one by one.
LEMMA InPlaces ==
  ASSUME NEW t
  PROVE  \A x : x \in Places(t) <=>
           \/ \E s \in Task : \E i : i \in Indices(dependents[s], t) /\ x = <<"dependents", s, 0, i>>
           \/ \E w \in Thread : \E k : On(w, k, "decrement", t) /\ x = <<"decrement", w, k, 0>>
           \/ \E w \in Thread : \E k, s, i : /\ On(w, k, "splice", s) /\ i \in Indices(ArgAt(w, k), t)
                                             /\ x = <<"splice", w, k, i>>
<1> TAKE x
<1>1. x \in Registered(t) <=>
        \E s \in Task : \E i : i \in Indices(dependents[s], t) /\ x = <<"dependents", s, 0, i>>
  BY DEF Registered
<1>2. x \in Decrements(t) <=>
        \E w \in Thread : \E k : On(w, k, "decrement", t) /\ x = <<"decrement", w, k, 0>>
  BY DEF Decrements, On
<1>3. \A w, k : x \in InTransit(w, k, t) <=>
        \E i : i \in Indices(ArgAt(w, k), t) /\ x = <<"splice", w, k, i>>
  BY DEF InTransit, ArgAt
<1>4. \A w : x \in Spliced(w, t) <=>
        \E k : k \in 1 .. Len(stack[w]) /\ CallAt(w, k).do = "splice" /\ x \in InTransit(w, k, t)
  BY DEF Spliced
<1>5. \A w, k : (\E s : On(w, k, "splice", s)) <=> k \in 1 .. Len(stack[w]) /\ CallAt(w, k).do = "splice"
  BY DEF On
<1>6. \A w : x \in Spliced(w, t) <=>
        \E k, s, i : /\ On(w, k, "splice", s) /\ i \in Indices(ArgAt(w, k), t)
                     /\ x = <<"splice", w, k, i>>
  BY <1>3, <1>4, <1>5
<1>7. x \in Places(t) <=> \/ x \in Registered(t) \/ x \in Decrements(t)
                          \/ \E w \in Thread : x \in Spliced(w, t)
  BY DEF Places
<1> QED BY <1>1, <1>2, <1>6, <1>7

LEMMA InPlacesNext ==
  ASSUME NEW t
  PROVE  \A x : x \in Places(t)' <=>
           \/ \E s \in Task : \E i : i \in Indices(dependents'[s], t) /\ x = <<"dependents", s, 0, i>>
           \/ \E w \in Thread : \E k : On(w, k, "decrement", t)' /\ x = <<"decrement", w, k, 0>>
           \/ \E w \in Thread : \E k, s, i : /\ On(w, k, "splice", s)' /\ i \in Indices(ArgAt(w, k)', t)
                                             /\ x = <<"splice", w, k, i>>
<1> TAKE x
<1>1. x \in Registered(t)' <=>
        \E s \in Task : \E i : i \in Indices(dependents'[s], t) /\ x = <<"dependents", s, 0, i>>
  BY DEF Registered
<1>2. x \in Decrements(t)' <=>
        \E w \in Thread : \E k : On(w, k, "decrement", t)' /\ x = <<"decrement", w, k, 0>>
  BY DEF Decrements, On
<1>3. \A w, k : x \in InTransit(w, k, t)' <=>
        \E i : i \in Indices(ArgAt(w, k)', t) /\ x = <<"splice", w, k, i>>
  BY DEF InTransit, ArgAt
<1>4. \A w : x \in Spliced(w, t)' <=>
        \E k : k \in 1 .. Len(stack'[w]) /\ CallAt(w, k)'.do = "splice" /\ x \in InTransit(w, k, t)'
  BY DEF Spliced
<1>5. \A w, k : (\E s : On(w, k, "splice", s)') <=> k \in 1 .. Len(stack'[w]) /\ CallAt(w, k)'.do = "splice"
  BY DEF On
<1>6. \A w : x \in Spliced(w, t)' <=>
        \E k, s, i : /\ On(w, k, "splice", s)' /\ i \in Indices(ArgAt(w, k)', t)
                     /\ x = <<"splice", w, k, i>>
  BY <1>3, <1>4, <1>5
<1>7. x \in Places(t)' <=> \/ x \in Registered(t)' \/ x \in Decrements(t)'
                          \/ \E w \in Thread : x \in Spliced(w, t)'
  BY DEF Places
<1> QED BY <1>1, <1>2, <1>6, <1>7

\* Who holds a reference to t.
LEMMA InHolders ==
  ASSUME NEW t
  PROVE  \A x : x \in Holders(t) <=>
           \/ \E w \in Thread : \E k : On(w, k, "release", t) /\ x = <<"call", w, k>>
           \/ Unreturned(t) /\ x = <<"creator", None, 0>>
           \/ (IsBlocked(t) \/ IsReady(t)) /\ x = <<"run", None, 0>>
           \/ \E p \in Task : continuation[p] = t /\ refs[p] > 0 /\ x = <<"next", p, 0>>
<1> TAKE x
<1>1. x \in Releasing(t) <=> \E w \in Thread : \E k : On(w, k, "release", t) /\ x = <<"call", w, k>>
  BY DEF Releasing, On
<1> QED BY <1>1 DEF Holders

LEMMA InHoldersNext ==
  ASSUME NEW t
  PROVE  \A x : x \in Holders(t)' <=>
           \/ \E w \in Thread : \E k : On(w, k, "release", t)' /\ x = <<"call", w, k>>
           \/ Unreturned(t)' /\ x = <<"creator", None, 0>>
           \/ (IsBlocked(t)' \/ IsReady(t)') /\ x = <<"run", None, 0>>
           \/ \E p \in Task : continuation'[p] = t /\ refs'[p] > 0 /\ x = <<"next", p, 0>>
<1> TAKE x
<1>1. x \in Releasing(t)' <=> \E w \in Thread : \E k : On(w, k, "release", t)' /\ x = <<"call", w, k>>
  BY DEF Releasing, On
<1> QED BY <1>1 DEF Holders

\* A call that is still to be made counts.
LEMMA DecrementCounts ==
  ASSUME Typed, Count, NEW w \in Thread, NEW k, NEW t \in Task, On(w, k, "decrement", t)
  PROVE  numPredecessors[t] \in Nat /\ numPredecessors[t] # 0
<1>1. <<"decrement", w, k, 0>> \in Places(t)
  BY InPlaces
<1>2. IsFiniteSet(Places(t)) /\ numPredecessors[t] = Cardinality(Places(t))
  BY DEF Count
<1> QED BY <1>1, <1>2, FS_EmptySet, FS_CardinalityType

LEMMA ReleaseCounts ==
  ASSUME Typed, RefsCount, NEW w \in Thread, NEW k, NEW t \in Task, On(w, k, "release", t)
  PROVE  refs[t] \in Nat /\ refs[t] # 0
<1>1. <<"call", w, k>> \in Holders(t)
  BY InHolders
<1>2. IsFiniteSet(Holders(t)) /\ refs[t] = Cardinality(Holders(t))
  BY DEF RefsCount
<1> QED BY <1>1, <1>2, FS_EmptySet, FS_CardinalityType

-----------------------------------------------------------------------------
(* The parts of the invariant, one after the other.                         *)

LEMMA TypedStays ==
  ASSUME Typed, Count, RefsCount, NEW w \in Thread, NEW h \in Nat, NEW t \in Task, Move(w, h, t),
         stack' \in [Thread -> Seq(Frame)], failed' \in BOOLEAN
  PROVE  Typed'
<1> USE DEF Typed, TypeOK
<1>1. UNCHANGED queues => QueuesTypeOK'
  BY QueuesStay
<1>a. ASSUME UNCHANGED <<prog, queues, tasks, outstanding>>, started' \in [Task -> Nat]
      PROVE  Typed'
  BY <1>1, <1>a DEF tasks
<1>b. ASSUME On(w, h, "release", t), refs' = [refs EXCEPT ![t] = @ - 1],
             UNCHANGED <<prog, queues, state, dependents, numPredecessors, continuation, outstanding,
                 started>>
      PROVE  Typed'
  BY <1>1, <1>b, ReleaseCounts
<1>c. ASSUME refs' = [refs EXCEPT ![t] = @ + 1], NEW c \in {"READY", "REMOTE_READY", "PENDING", "REMOTE_PENDING"},
             state' = [state EXCEPT ![t] = c],
             UNCHANGED <<prog, queues, dependents, numPredecessors, continuation, outstanding, started>>
      PROVE  Typed'
  <2>1. state' \in [Task -> {"NEW", "PENDING", "READY", "COMPLETE", "CONTINUED",
                             "REMOTE_NEW", "REMOTE_PENDING", "REMOTE_READY"}]
    BY <1>c
  <2>2. refs' \in [Task -> Nat]
    BY <1>c
  <2> QED BY <1>1, <1>c, <2>1, <2>2
<1>2. ASSUME NEW s \in Task,
             MForward(w, h, t, s) \/ MFinished(w, h, t, s) \/ MDelete(w, h, t, s)
      PROVE  Typed'
  <2>1. CASE MForward(w, h, t, s) \/ MFinished(w, h, t, s)
    BY <1>a, <2>1 DEF MForward, MFinished
  <2>2. CASE MDelete(w, h, t, s)
    BY <1>b, <2>2 DEF MDelete
  <2> QED BY <1>2, <2>1, <2>2
<1>3. ASSUME NEW s \in Task, MRegister(w, h, t, s)
      PROVE  Typed'
  <2>1. Append(dependents[s], t) \in Seq(Task)
    OBVIOUS
  <2>2. dependents' \in [Task -> Seq(Task)]
    BY <1>3, <2>1 DEF MRegister
  <2>3. numPredecessors' \in [Task -> Nat]
    BY <1>3 DEF MRegister
  <2> QED BY <1>1, <1>3, <2>2, <2>3 DEF MRegister
<1>4. ASSUME NEW s \in Task, MContinue(w, h, t, s)
      PROVE  Typed'
  BY <1>1, <1>4 DEF MContinue
<1>5. ASSUME NEW n \in Nat, MComplete(w, h, t, n)
      PROVE  Typed'
  BY <1>1, <1>5 DEF MComplete
<1>6. ASSUME NEW x, MTake(w, h, t, x)
      PROVE  Typed'
  BY <1>6 DEF MTake, Takes1, tasks
<1>7. ASSUME NEW d, NEW x, MLast(w, h, t, d, x)
      PROVE  Typed'
  BY <1>1, <1>7, DecrementCounts DEF MLast
<1>8. CASE MPending(w, h, t) \/ MReady(w, h, t) \/ MInline(w, h, t) \/ MSend(w, h, t)
  <2>1. CASE MPending(w, h, t)
    BY <1>c, <2>1 DEF MPending
  <2>2. CASE MReady(w, h, t)
    BY <1>c, <2>2 DEF MReady
  <2>3. CASE MInline(w, h, t)
    BY <1>a, <2>3 DEF MInline
  <2>4. CASE MSend(w, h, t)
    BY <1>1, <2>4 DEF MSend, tasks
  <2> QED BY <1>8, <2>1, <2>2, <2>3, <2>4
<1>9. CASE MQueue(w, h, t)
  BY <1>9 DEF MQueue, Puts1, tasks
<1>10. CASE MKeep(w, h, t) \/ MCompletes(w, h, t) \/ MCancelled(w, h, t) \/ MRun(w, h, t)
  <2>1. CASE MKeep(w, h, t)
    BY <1>1, <2>1 DEF MKeep
  <2>2. CASE MCompletes(w, h, t)
    BY <1>1, <2>2 DEF MCompletes, tasks
  <2>3. CASE MCancelled(w, h, t)
    BY <1>a, <2>3 DEF MCancelled
  <2>4. CASE MRun(w, h, t)
    BY <1>a, <2>4 DEF MRun
  <2> QED BY <1>10, <2>1, <2>2, <2>3, <2>4
<1>11. CASE MReturn(w, h, t)
  <2>1. prog.cont[t] \in Task \union {None}
    BY ProgramFacts
  <2>2. continuation' \in [Task -> Task \union {None}]
    BY <1>11, <2>1 DEF MReturn
  <2>3. refs' \in [Task -> Nat]
    BY <1>11 DEF MReturn
  <2> QED BY <1>1, <1>11, <2>2, <2>3 DEF MReturn
<1>12. CASE MSplice(w, h, t)
  <2>1. ArgAt(w, h) \in Seq(Task)
    BY <1>12, CallTyped DEF MSplice
  <2>2. dependents[t] \o ArgAt(w, h) \in Seq(Task)
    BY <2>1
  <2>3. dependents' \in [Task -> Seq(Task)]
    BY <1>12, <2>2 DEF MSplice
  <2>4. UNCHANGED <<prog, queues, state, numPredecessors, continuation, refs, outstanding, started>>
    BY <1>12 DEF MSplice
  <2> QED BY <1>1, <2>3, <2>4
<1>13. CASE MDecrement(w, h, t)
  <2>1. /\ On(w, h, "decrement", t) /\ numPredecessors' = [numPredecessors EXCEPT ![t] = @ - 1]
        /\ UNCHANGED <<prog, queues, state, dependents, continuation, refs, outstanding, started>>
    BY <1>13 DEF MDecrement
  <2>2. numPredecessors[t] \in Nat /\ numPredecessors[t] # 0
    BY <2>1, DecrementCounts
  <2>3. numPredecessors' \in [Task -> Nat]
    BY <2>1, <2>2
  <2> QED BY <1>1, <2>1, <2>3
<1>14. CASE MRelease(w, h, t)
  BY <1>b, <1>14 DEF MRelease
<1>15. CASE MWaitOn(w, h, t) \/ MWaited(w, h, t)
  BY <1>a, <1>15 DEF MWaitOn, MWaited
<1> HIDE DEF Typed, TypeOK
<1> QED BY <1>2, <1>3, <1>4, <1>5, <1>6, <1>7, <1>8, <1>9, <1>10, <1>11, <1>12, <1>13, <1>14, <1>15
    DEF Move

\* A finished task stays finished, a task is new only once, and a
\* continuation is followed for ever.
Permanent ==
  /\ prog' = prog
  /\ \A s \in Task :
       /\ state[s] = "COMPLETE" => state'[s] = "COMPLETE"
       /\ state[s] = "CONTINUED" => state'[s] = "CONTINUED" /\ continuation'[s] = continuation[s]
       /\ IsNew(s)' => IsNew(s)

LEMMA PermanentStates ==
  ASSUME Typed, OneHand, NEW w \in Thread, NEW h \in Nat, NEW t \in Task, Move(w, h, t)
  PROVE  Permanent
<1> USE DEF Typed, TypeOK, Permanent, IsNew
<1>0. ASSUME \E d \in Control : On(w, h, d, t)
      PROVE  IsReady(t)
  BY <1>0 DEF OneHand, Hand
<1>2. ASSUME NEW s \in Task,
             \/ MForward(w, h, t, s) \/ MFinished(w, h, t, s) \/ MRegister(w, h, t, s)
             \/ MDelete(w, h, t, s)
      PROVE  Permanent
  BY <1>2 DEF MForward, MFinished, MRegister, MDelete, tasks
<1>3. ASSUME NEW s \in Task, MContinue(w, h, t, s)
      PROVE  Permanent
  BY <1>3, <1>0 DEF MContinue, Control, IsReady
<1>4. ASSUME NEW n \in Nat, MComplete(w, h, t, n)
      PROVE  Permanent
  BY <1>4, <1>0 DEF MComplete, Control, IsReady
<1>5. ASSUME NEW x, MTake(w, h, t, x)
      PROVE  Permanent
  BY <1>5 DEF MTake, tasks
<1>6. ASSUME NEW d, NEW x, MLast(w, h, t, d, x)
      PROVE  Permanent
  BY <1>6 DEF MLast, IsBlocked
<1>7. CASE MPending(w, h, t) \/ MReady(w, h, t)
  BY <1>7 DEF MPending, MReady
<1>8. CASE MInline(w, h, t) \/ MQueue(w, h, t) \/ MSend(w, h, t) \/ MKeep(w, h, t)
  BY <1>8 DEF MInline, MQueue, MSend, MKeep, tasks
<1>9. CASE MCompletes(w, h, t) \/ MCancelled(w, h, t) \/ MRun(w, h, t)
  BY <1>9 DEF MCompletes, MCancelled, MRun, tasks
<1>10. CASE MReturn(w, h, t)
  BY <1>10, <1>0 DEF MReturn, Control, IsReady
<1>11. CASE MSplice(w, h, t) \/ MDecrement(w, h, t) \/ MRelease(w, h, t)
  BY <1>11 DEF MSplice, MDecrement, MRelease
<1>12. CASE MWaitOn(w, h, t) \/ MWaited(w, h, t)
  BY <1>12 DEF MWaitOn, MWaited, tasks
<1> HIDE DEF Typed, TypeOK, Permanent, IsNew
<1> QED BY <1>2, <1>3, <1>4, <1>5, <1>6, <1>7, <1>8, <1>9, <1>10, <1>11, <1>12 DEF Move

\* Who has a task in hand after a move.
HandsStay == \A v \in Thread, k \in Nat : \A s : Hand(v, k, s)' <=> Hand(v, k, s)
HandGot(w, h, t) ==
  \A v \in Thread, k \in Nat : \A s : Hand(v, k, s)' <=> Hand(v, k, s) \/ (v = w /\ k = h /\ s = t)
HandLost(w, h) ==
  \A v \in Thread, k \in Nat : \A s : Hand(v, k, s)' <=> Hand(v, k, s) /\ ~(v = w /\ k = h)

LEMMA HandsTop ==
  ASSUME NEW w \in Thread, NEW h \in Nat, Replacing(w, h), NEW d, NEW t, On(w, h, d, t)
  PROVE  /\ d \in Control /\ (\A k \in Nat : \A s : k >= h => (Hand(w, k, s)' <=> k = h /\ s = t))
              => HandsStay
         /\ d \in Control /\ (\A k \in Nat : \A s : k >= h => ~Hand(w, k, s)') => HandLost(w, h)
         /\ d \notin Control /\ (\A k \in Nat : \A s : k >= h => (Hand(w, k, s)' <=> k = h /\ s = t))
              => HandGot(w, h, t)
<1>1. \A v \in Thread, k \in Nat : \A s : v # w \/ k < h => (Hand(v, k, s)' <=> Hand(v, k, s))
  BY DEF Hand, Replacing, Upper
<1>2. \A k \in Nat : \A s : k > h => ~Hand(w, k, s)
  BY DEF Hand, Replacing
<1>3. \A s : Hand(w, h, s) <=> d \in Control /\ s = t
  BY OneCall DEF Hand
<1>4. \A v \in Thread, k \in Nat : v # w \/ k < h \/ (v = w /\ k = h) \/ (v = w /\ k > h)
  OBVIOUS
<1>5. \A k \in Nat : (k = h \/ k > h) => k >= h
  OBVIOUS
<1>6. \A k \in Nat : k > h => k # h
  OBVIOUS
<1> QED BY <1>1, <1>2, <1>3, <1>4, <1>5, <1>6 DEF HandsStay, HandLost, HandGot

LEMMA HandPushed ==
  ASSUME NEW w \in Thread, NEW h \in Nat, NEW f, Pushing(w, h, f), f.do \in Control
  PROVE  HandGot(w, h, f.t)
<1>1. \A v \in Thread, k \in Nat : \A s : v # w \/ k < h => (Hand(v, k, s)' <=> Hand(v, k, s))
  BY DEF Hand, Pushing, Upper
<1>2. \A k \in Nat : \A s : k >= h => ~Hand(w, k, s) /\ (Hand(w, k, s)' <=> k = h /\ s = f.t)
  BY DEF Hand, Pushing
<1>3. \A v \in Thread, k \in Nat : v # w \/ k < h \/ (v = w /\ k >= h)
  OBVIOUS
<1>4. h >= h
  OBVIOUS
<1> QED BY <1>1, <1>2, <1>3, <1>4 DEF HandGot

LEMMA HandMoves ==
  ASSUME NEW w \in Thread, NEW h \in Nat, NEW t \in Task
  PROVE  /\ \A s \in Task :
              /\ MForward(w, h, t, s) \/ MFinished(w, h, t, s) \/ MRegister(w, h, t, s) => HandsStay
              /\ MDelete(w, h, t, s) => HandsStay
              /\ MContinue(w, h, t, s) => HandLost(w, h)
         /\ \A n \in Nat : MComplete(w, h, t, n) => HandLost(w, h)
         /\ \A x \in BOOLEAN : MTake(w, h, t, x) => HandGot(w, h, t)
         /\ \A d \in {"run", "schedule"} : \A x : MLast(w, h, t, d, x) => HandGot(w, h, t)
         /\ MPending(w, h, t) \/ MInline(w, h, t) \/ MKeep(w, h, t) => HandsStay
         /\ MReady(w, h, t) \/ MCompletes(w, h, t) => HandGot(w, h, t)
         /\ MQueue(w, h, t) \/ MSend(w, h, t) => HandLost(w, h)
         /\ MCancelled(w, h, t) \/ MRun(w, h, t) \/ MReturn(w, h, t) => HandsStay
         /\ MSplice(w, h, t) \/ MDecrement(w, h, t) \/ MRelease(w, h, t) => HandsStay
         /\ MWaitOn(w, h, t) \/ MWaited(w, h, t) => HandsStay
<1>1. ASSUME NEW D, Same(D), Control \subseteq D
      PROVE  HandsStay
  BY <1>1 DEF Same, HandsStay, Hand
<1>2. ASSUME NEW d \in Control, On(w, h, d, t), Replacing(w, h), NoneFrom(w, h)
      PROVE  HandLost(w, h)
  BY <1>2, HandsTop DEF NoneFrom, Hand
<1>3. ASSUME NEW d, NEW e \in Control, NEW x, On(w, h, d, t), Replacing(w, h), OneFrom(w, h, e, t, x)
      PROVE  /\ d \in Control => HandsStay
             /\ d \notin Control => HandGot(w, h, t)
  <2>1. \A k \in Nat : \A s : k >= h => (Hand(w, k, s)' <=> k = h /\ s = t)
    BY <1>3 DEF OneFrom, Hand
  <2> QED BY <1>3, <2>1, HandsTop
<1>4. Control \subseteq Method \ {"abort", "dependsOn", "enqueue", "wait", "release", "splice", "decrement"}
  BY DEF Control, Method
<1>5. ASSUME NEW s \in Task,
             \/ MForward(w, h, t, s) \/ MFinished(w, h, t, s) \/ MRegister(w, h, t, s)
             \/ MDelete(w, h, t, s)
      PROVE  HandsStay
  BY <1>5, <1>1, <1>4, SameCalls
<1>6. ASSUME NEW s \in Task, MContinue(w, h, t, s)
      PROVE  HandLost(w, h)
  <2>1. \A k \in Nat : k >= h => k = h \/ k = h + 1 \/ k = h + 2 \/ k > h + 2
    OBVIOUS
  <2>2. \A k \in Nat : \A u : k >= h => ~Hand(w, k, u)'
    BY <2>1, <1>6 DEF MContinue, Hand, Control
  <2> QED BY <1>6, <2>2, HandsTop DEF MContinue, Control
<1>7. ASSUME NEW n \in Nat, MComplete(w, h, t, n)
      PROVE  HandLost(w, h)
  <2>1. \A k \in Nat : k >= h => k = h \/ k > h
    OBVIOUS
  <2>2. \A k \in Nat : \A u : k >= h => ~Hand(w, k, u)'
    BY <2>1, <1>7 DEF MComplete, Hand, Control
  <2> QED BY <1>7, <2>2, HandsTop DEF MComplete, Control
<1>8. /\ \A x \in BOOLEAN : MTake(w, h, t, x) => HandGot(w, h, t)
      /\ MCompletes(w, h, t) => HandGot(w, h, t)
  <2>1. \A x \in BOOLEAN : /\ Call("run", t, x).do = "run" /\ Call("run", t, x).t = t
                           /\ Call("complete", t, x).do = "complete" /\ Call("complete", t, x).t = t
    BY DEF Call
  <2>2. \A x \in BOOLEAN : Pushing(w, h, Call("run", t, x)) \/ Pushing(w, h, Call("complete", t, x))
                             => HandGot(w, h, t)
    <3> TAKE x \in BOOLEAN
    <3>1. Pushing(w, h, Call("run", t, x)) => HandGot(w, h, Call("run", t, x).t)
      BY <2>1, HandPushed DEF Control
    <3>2. Pushing(w, h, Call("complete", t, x)) => HandGot(w, h, Call("complete", t, x).t)
      BY <2>1, HandPushed DEF Control
    <3> QED BY <2>1, <3>1, <3>2
  <2> QED BY <2>2 DEF MTake, MCompletes
<1>9. \A d \in {"run", "schedule"} : \A x : MLast(w, h, t, d, x) => HandGot(w, h, t)
  BY <1>3 DEF MLast, Control
<1>10. MPending(w, h, t) => HandsStay
  BY <1>1, <1>4, SameCalls
<1>11. MInline(w, h, t) \/ MCancelled(w, h, t) => HandsStay
  BY <1>3 DEF MInline, MCancelled, Control
<1>12. MKeep(w, h, t) => HandsStay
  BY <1>1, <1>4, SameCalls
<1>13. MReady(w, h, t) => HandGot(w, h, t)
  BY <1>3 DEF MReady, Control
<1>14. MQueue(w, h, t) \/ MSend(w, h, t) => HandLost(w, h)
  BY <1>2 DEF MQueue, MSend, Control
<1>15. MRun(w, h, t) \/ MReturn(w, h, t) => HandsStay
  <2>1. \A k \in Nat : k >= h => k = h \/ k > h
    OBVIOUS
  <2>2. \A k \in Nat : k > h => k # h
    OBVIOUS
  <2>3. MRun(w, h, t) => \A k \in Nat : \A s : k >= h => (Hand(w, k, s)' <=> k = h /\ s = t)
    BY <2>1, <2>2 DEF MRun, Hand, Control
  <2>4. MReturn(w, h, t) => \A k \in Nat : \A s : k >= h => (Hand(w, k, s)' <=> k = h /\ s = t)
    BY <2>1, <2>2 DEF MReturn, Hand, Control
  <2>5. /\ MRun(w, h, t) => Replacing(w, h) /\ On(w, h, "run", t)
        /\ MReturn(w, h, t) => Replacing(w, h) /\ On(w, h, "return", t)
    BY DEF MRun, MReturn
  <2>6. "run" \in Control /\ "return" \in Control
    BY DEF Control
  <2>7. MRun(w, h, t) => HandsStay
    BY <2>3, <2>5, <2>6, HandsTop
  <2>8. MReturn(w, h, t) => HandsStay
    BY <2>4, <2>5, <2>6, HandsTop
  <2> QED BY <2>7, <2>8
<1>16. MSplice(w, h, t) \/ MDecrement(w, h, t) \/ MRelease(w, h, t) => HandsStay
  BY <1>1, <1>4, SameCalls
<1>17. MWaitOn(w, h, t) \/ MWaited(w, h, t) => HandsStay
  BY <1>1, <1>4, SameCalls
<1> QED BY <1>5, <1>6, <1>7, <1>8, <1>9, <1>10, <1>11, <1>12, <1>13, <1>14, <1>15, <1>16, <1>17

\* A task stays where it is, is taken in hand, or is handed over.
LEMMA OneHandKept ==
  ASSUME Typed, OneHand, HandsStay, UNCHANGED <<queues, outstanding>>,
         \A s \in Task : \/ state'[s] = state[s]
                         \/ /\ s \notin Queued \union outstanding
                            /\ IsReady(s) => IsReady(s)'
  PROVE  OneHand'
<1>1. Queued' = Queued /\ QueuedOnce' /\ outstanding' = outstanding
  BY QueuesStay DEF OneHand
<1>2. \A s \in Task : IsReady(s) => IsReady(s)'
  BY DEF IsReady
<1>3. \A v \in Thread, k \in Nat, s \in Task : Hand(v, k, s)' => Hand(v, k, s)
  BY DEF HandsStay
<1>4. \A v \in Thread, k \in Nat, s \in Task :
        Hand(v, k, s)' => s \notin Queued' \union outstanding' /\ IsReady(s)'
  BY <1>1, <1>2, <1>3 DEF OneHand
<1>5. \A v, x \in Thread, k, j \in Nat, s \in Task : Hand(v, k, s)' /\ Hand(x, j, s)' => v = x /\ k = j
  BY <1>3 DEF OneHand
<1>6. Queued \subseteq Task /\ outstanding \subseteq Task
  BY QueuedType DEF Typed, TypeOK
<1>7. (\A s \in Queued' : state'[s] = "READY") /\ \A s \in outstanding' : state'[s] = "REMOTE_READY"
  BY <1>1, <1>6 DEF OneHand
<1>8. Queued' \intersect outstanding' = {}
  BY <1>1 DEF OneHand
<1> QED BY <1>1, <1>4, <1>5, <1>7, <1>8 DEF OneHand

LEMMA OneHandGot ==
  ASSUME Typed, OneHand, NEW w \in Thread, NEW h \in Nat, NEW t \in Task, HandGot(w, h, t),
         \A v \in Thread, k \in Nat : ~Hand(v, k, t),
         QueuedOnce', Queued' \subseteq Queued \ {t}, outstanding' \subseteq outstanding \ {t},
         IsReady(t)', \A s \in Task : s # t => state'[s] = state[s]
  PROVE  OneHand'
<1>1. Queued \subseteq Task /\ outstanding \subseteq Task
  BY QueuedType DEF Typed, TypeOK
<1>2. \A s \in Task : s # t => (IsReady(s)' <=> IsReady(s))
  BY DEF IsReady
<1>3. \A v \in Thread, k \in Nat, s \in Task :
        Hand(v, k, s)' => s \notin Queued' \union outstanding' /\ IsReady(s)'
  BY <1>2 DEF OneHand, HandGot
<1>4. \A v, x \in Thread, k, j \in Nat, s \in Task : Hand(v, k, s)' /\ Hand(x, j, s)' => v = x /\ k = j
  BY DEF OneHand, HandGot
<1>5. (\A s \in Queued' : state'[s] = "READY") /\ \A s \in outstanding' : state'[s] = "REMOTE_READY"
  BY <1>1 DEF OneHand
<1>6. Queued' \intersect outstanding' = {}
  BY DEF OneHand
<1> QED BY <1>3, <1>4, <1>5, <1>6 DEF OneHand

LEMMA OneHandLost ==
  ASSUME Typed, OneHand, NEW w \in Thread, NEW h \in Nat, NEW t \in Task, HandLost(w, h), Hand(w, h, t),
         QueuedOnce',
         \/ Queued' = Queued /\ outstanding' = outstanding
         \/ Queued' = Queued \union {t} /\ outstanding' = outstanding /\ state'[t] = "READY"
         \/ Queued' = Queued /\ outstanding' = outstanding \union {t} /\ state'[t] = "REMOTE_READY",
         \A s \in Task : s # t => state'[s] = state[s]
  PROVE  OneHand'
<1>1. Queued \subseteq Task /\ outstanding \subseteq Task
  BY QueuedType DEF Typed, TypeOK
<1>2. \A s \in Task : s # t => (IsReady(s)' <=> IsReady(s))
  BY DEF IsReady
<1>3. \A v \in Thread, k \in Nat, s \in Task : Hand(v, k, s)' => Hand(v, k, s) /\ s # t
  BY DEF OneHand, HandLost
<1>4. \A v \in Thread, k \in Nat, s \in Task :
        Hand(v, k, s)' => s \notin Queued' \union outstanding' /\ IsReady(s)'
  BY <1>2, <1>3 DEF OneHand
<1>5. \A v, x \in Thread, k, j \in Nat, s \in Task : Hand(v, k, s)' /\ Hand(x, j, s)' => v = x /\ k = j
  BY <1>3 DEF OneHand
<1>6. t \notin Queued \union outstanding
  BY DEF OneHand
<1>7. (\A s \in Queued' : state'[s] = "READY") /\ \A s \in outstanding' : state'[s] = "REMOTE_READY"
  BY <1>1, <1>6 DEF OneHand
<1>8. Queued' \intersect outstanding' = {}
  BY <1>6 DEF OneHand
<1> QED BY <1>4, <1>5, <1>7, <1>8 DEF OneHand

LEMMA OneHandStays ==
  ASSUME Typed, OneHand, NEW w \in Thread, NEW h \in Nat, NEW t \in Task, Move(w, h, t)
  PROVE  OneHand'
<1>0. \A v \in Thread, k \in Nat, s \in Task, d \in Control : On(v, k, d, s) => Hand(v, k, s)
  BY DEF Hand
<1>1. ASSUME HandsStay, UNCHANGED <<queues, outstanding, state>>
      PROVE  OneHand'
  BY <1>1, OneHandKept
<1>2. ASSUME NEW s \in Task,
             \/ MForward(w, h, t, s) \/ MFinished(w, h, t, s) \/ MRegister(w, h, t, s)
             \/ MDelete(w, h, t, s)
      PROVE  OneHand'
  <2>1. UNCHANGED <<queues, outstanding, state>>
    BY <1>2 DEF MForward, MFinished, MRegister, MDelete, tasks
  <2>2. HandsStay
    BY <1>2, HandMoves, Zenon
  <2> QED BY <1>1, <2>1, <2>2
<1>3. ASSUME NEW s \in Task, MContinue(w, h, t, s)
      PROVE  OneHand'
  <2>1. HandLost(w, h) /\ Hand(w, h, t)
    <3>1. On(w, h, "complete", t) /\ "complete" \in Control
      BY <1>3 DEF MContinue, Control
    <3>2. HandLost(w, h)
      BY <1>3, HandMoves
    <3> QED BY <1>0, <3>1, <3>2
  <2>2. UNCHANGED <<queues, outstanding>> /\ \A u \in Task : u # t => state'[u] = state[u]
    BY <1>3 DEF MContinue, Typed, TypeOK
  <2> QED BY <2>1, <2>2, OneHandLost, QueuesStay DEF OneHand
<1>4. ASSUME NEW n \in Nat, MComplete(w, h, t, n)
      PROVE  OneHand'
  <2>1. HandLost(w, h) /\ Hand(w, h, t)
    <3>1. On(w, h, "complete", t) /\ "complete" \in Control
      BY <1>4 DEF MComplete, Control
    <3>2. HandLost(w, h)
      BY <1>4, HandMoves
    <3> QED BY <1>0, <3>1, <3>2
  <2>2. UNCHANGED <<queues, outstanding>> /\ \A u \in Task : u # t => state'[u] = state[u]
    BY <1>4 DEF MComplete, Typed, TypeOK
  <2> QED BY <2>1, <2>2, OneHandLost, QueuesStay DEF OneHand
<1>5. ASSUME NEW x \in BOOLEAN, MTake(w, h, t, x)
      PROVE  OneHand'
  <2>1. HandGot(w, h, t) /\ Takes1(t) /\ UNCHANGED <<state, outstanding>>
    BY <1>5, HandMoves DEF MTake, tasks
  <2>2. /\ t \in Queued /\ QueuedOnce' /\ Queued' = Queued \ {t}
        /\ state[t] = "READY" /\ t \notin outstanding
    BY <2>1 DEF Takes1, OneHand
  <2>3. \A v \in Thread, k \in Nat : ~Hand(v, k, t)
    BY <2>2 DEF OneHand
  <2>4. IsReady(t)'
    BY <2>1, <2>2 DEF IsReady
  <2> QED BY <2>1, <2>2, <2>3, <2>4, OneHandGot
<1>6. ASSUME ~IsReady(t), IsReady(t)', UNCHANGED <<queues, outstanding>>, HandGot(w, h, t),
             \A s \in Task : s # t => state'[s] = state[s]
      PROVE  OneHand'
  <2>1. t \notin Queued /\ t \notin outstanding /\ \A v \in Thread, k \in Nat : ~Hand(v, k, t)
    BY <1>6 DEF OneHand, IsReady
  <2>2. Queued' = Queued /\ QueuedOnce'
    BY <1>6, QueuesStay DEF OneHand
  <2> QED BY <1>6, <2>1, <2>2, OneHandGot
<1>7. ASSUME NEW d \in {"run", "schedule"}, NEW x, MLast(w, h, t, d, x)
      PROVE  OneHand'
  BY <1>6, <1>7, HandMoves DEF MLast, IsBlocked, IsReady, Typed, TypeOK
<1>8. CASE MReady(w, h, t)
  BY <1>6, <1>8, HandMoves DEF MReady, IsNew, IsReady, Typed, TypeOK
<1>9. CASE MPending(w, h, t)
  <2>1. t \notin Queued \union outstanding /\ ~IsReady(t)
    BY <1>9 DEF MPending, IsNew, OneHand, IsReady
  <2>2. UNCHANGED <<queues, outstanding>> /\ \A s \in Task : s # t => state'[s] = state[s]
    BY <1>9 DEF MPending, Typed, TypeOK
  <2>3. HandsStay
    BY <1>9, HandMoves
  <2> QED BY <2>1, <2>2, <2>3, OneHandKept
<1>10. CASE MInline(w, h, t) \/ MCancelled(w, h, t) \/ MRun(w, h, t) \/ MReturn(w, h, t)
  <2>1. UNCHANGED <<queues, outstanding, state>>
    BY <1>10 DEF MInline, MCancelled, MRun, MReturn, tasks
  <2> QED BY <1>1, <1>10, <2>1, HandMoves
<1>11. CASE MKeep(w, h, t)
  <2>1. Hand(w, h, t)
    BY <1>0, <1>11 DEF MKeep, Control
  <2>2. IsReady(t)' /\ UNCHANGED <<queues, outstanding>> /\ \A s \in Task : s # t => state'[s] = state[s]
    BY <1>11 DEF MKeep, Typed, TypeOK, IsReady
  <2>3. t \notin Queued \union outstanding
    BY <2>1 DEF OneHand
  <2> QED BY <1>11, <2>2, <2>3, HandMoves, OneHandKept
<1>12. CASE MQueue(w, h, t)
  <2>1. HandLost(w, h) /\ Hand(w, h, t)
    BY <1>0, <1>12, HandMoves DEF MQueue, Control
  <2> QED BY <1>12, <2>1, OneHandLost DEF MQueue, Puts1, tasks
<1>13. CASE MSend(w, h, t)
  <2>1. HandLost(w, h) /\ Hand(w, h, t)
    BY <1>0, <1>13, HandMoves DEF MSend, Control
  <2>2. Queued' = Queued /\ QueuedOnce'
    BY <1>13, QueuesStay DEF MSend, OneHand
  <2> QED BY <1>13, <2>1, <2>2, OneHandLost DEF MSend, tasks
<1>14. CASE MCompletes(w, h, t)
  <2>1. HandGot(w, h, t)
    BY <1>14, HandMoves
  <2>2. Queued' = Queued /\ QueuedOnce' /\ outstanding' = outstanding \ {t} /\ t \in outstanding
        /\ UNCHANGED state
    BY <1>14, QueuesStay DEF MCompletes, OneHand, tasks
  <2>3. t \notin Queued /\ (\A v \in Thread, k \in Nat : ~Hand(v, k, t)) /\ IsReady(t)'
    BY <2>2 DEF OneHand, IsReady
  <2> QED BY <2>1, <2>2, <2>3, OneHandGot
<1>15. CASE MSplice(w, h, t) \/ MDecrement(w, h, t) \/ MRelease(w, h, t)
  <2>1. UNCHANGED <<queues, outstanding, state>>
    BY <1>15 DEF MSplice, MDecrement, MRelease
  <2> QED BY <1>1, <1>15, <2>1, HandMoves
<1>16. CASE MWaitOn(w, h, t) \/ MWaited(w, h, t)
  <2>1. UNCHANGED <<queues, outstanding, state>>
    BY <1>16 DEF MWaitOn, MWaited, tasks
  <2> QED BY <1>1, <1>16, <2>1, HandMoves
<1> QED BY <1>2, <1>3, <1>4, <1>5, <1>7, <1>8, <1>9, <1>10, <1>11, <1>12, <1>13, <1>14, <1>15, <1>16
    DEF Move

LEMMA KindsStay ==
  ASSUME Typed, Kinds, NEW w \in Thread, NEW h \in Nat, NEW t \in Task, Move(w, h, t)
  PROVE  Kinds'
<1> USE DEF Typed, TypeOK, Kinds, Remote
<1>2. ASSUME NEW s \in Task,
             \/ MForward(w, h, t, s) \/ MFinished(w, h, t, s) \/ MRegister(w, h, t, s)
             \/ MDelete(w, h, t, s)
      PROVE  Kinds'
  BY <1>2 DEF MForward, MFinished, MRegister, MDelete, tasks
<1>3. ASSUME NEW s \in Task, MContinue(w, h, t, s)
      PROVE  Kinds'
  BY <1>3 DEF MContinue
<1>4. ASSUME NEW n \in Nat, MComplete(w, h, t, n)
      PROVE  Kinds'
  BY <1>4 DEF MComplete
<1>5. ASSUME NEW x, MTake(w, h, t, x)
      PROVE  Kinds'
  BY <1>5 DEF MTake, tasks
<1>6. ASSUME NEW d, NEW x, MLast(w, h, t, d, x)
      PROVE  Kinds'
  BY <1>6, SMTT(30) DEF MLast, IsBlocked
<1>7. CASE MPending(w, h, t)
  BY <1>7 DEF MPending, IsNew
<1>8. CASE MReady(w, h, t)
  BY <1>8, SMTT(30) DEF MReady, IsNew
<1>9. CASE MInline(w, h, t) \/ MQueue(w, h, t) \/ MSend(w, h, t)
  BY <1>9 DEF MInline, MQueue, MSend, tasks
<1>10. CASE MKeep(w, h, t)
  BY <1>10 DEF MKeep
<1>11. CASE MCompletes(w, h, t) \/ MCancelled(w, h, t) \/ MRun(w, h, t) \/ MReturn(w, h, t)
  BY <1>11 DEF MCompletes, MCancelled, MRun, MReturn, tasks
<1>12. CASE MSplice(w, h, t) \/ MDecrement(w, h, t) \/ MRelease(w, h, t)
  BY <1>12 DEF MSplice, MDecrement, MRelease
<1>13. CASE MWaitOn(w, h, t) \/ MWaited(w, h, t)
  BY <1>13 DEF MWaitOn, MWaited, tasks
<1> HIDE DEF Typed, TypeOK, Kinds, Remote
<1> QED BY <1>2, <1>3, <1>4, <1>5, <1>6, <1>7, <1>8, <1>9, <1>10, <1>11, <1>12, <1>13 DEF Move

LEMMA NoneLeftStays ==
  ASSUME Typed, OneHand, NoneLeftToWaitFor, Count, Wiring,
         NEW w \in Thread, NEW h \in Nat, NEW t \in Task, Move(w, h, t)
  PROVE  NoneLeftToWaitFor'
<1> USE DEF Typed, TypeOK, NoneLeftToWaitFor, IsReady, IsDone
<1>0. ASSUME NEW d \in Control, On(w, h, d, t)
      PROVE  IsReady(t)
  BY <1>0 DEF OneHand, Hand
<1>1. ASSUME UNCHANGED <<state, numPredecessors>>
      PROVE  NoneLeftToWaitFor'
  BY <1>1
<1>2. ASSUME NEW s \in Task,
             MForward(w, h, t, s) \/ MFinished(w, h, t, s) \/ MDelete(w, h, t, s)
      PROVE  NoneLeftToWaitFor'
  BY <1>1, <1>2 DEF MForward, MFinished, MDelete, tasks
<1>3. ASSUME NEW s \in Task, MRegister(w, h, t, s)
      PROVE  NoneLeftToWaitFor'
  <2>1. IsNew(t)
    BY <1>3 DEF MRegister, Wiring, Wired, WiredDependsOn
  <2>2. UNCHANGED state /\ numPredecessors' = [numPredecessors EXCEPT ![t] = @ + 1]
    BY <1>3 DEF MRegister
  <2> QED BY <2>1, <2>2 DEF IsNew
<1>4. ASSUME NEW s \in Task, MContinue(w, h, t, s)
      PROVE  NoneLeftToWaitFor'
  BY <1>0, <1>4 DEF MContinue, Control
<1>5. ASSUME NEW n \in Nat, MComplete(w, h, t, n)
      PROVE  NoneLeftToWaitFor'
  BY <1>0, <1>5 DEF MComplete, Control
<1>6. ASSUME NEW x, MTake(w, h, t, x)
      PROVE  NoneLeftToWaitFor'
  BY <1>1, <1>6 DEF MTake, tasks
<1>7. ASSUME NEW d, NEW x, MLast(w, h, t, d, x)
      PROVE  NoneLeftToWaitFor'
  BY <1>7 DEF MLast
<1>8. CASE MPending(w, h, t)
  <2>1. /\ UNCHANGED numPredecessors
        /\ state'[t] \in {"PENDING", "REMOTE_PENDING"} /\ \A s \in Task : s # t => state'[s] = state[s]
    BY <1>8 DEF MPending
  <2> QED BY <2>1
<1>9. CASE MReady(w, h, t)
  BY <1>9 DEF MReady
<1>10. CASE MInline(w, h, t) \/ MQueue(w, h, t) \/ MSend(w, h, t)
  BY <1>1, <1>10 DEF MInline, MQueue, MSend, tasks
<1>11. CASE MKeep(w, h, t)
  BY <1>11 DEF MKeep
<1>12. CASE MCompletes(w, h, t) \/ MCancelled(w, h, t) \/ MRun(w, h, t) \/ MReturn(w, h, t)
  BY <1>1, <1>12 DEF MCompletes, MCancelled, MRun, MReturn, tasks
<1>13. CASE MSplice(w, h, t) \/ MRelease(w, h, t)
  BY <1>1, <1>13 DEF MSplice, MRelease
<1>14. CASE MDecrement(w, h, t)
  <2>1. On(w, h, "decrement", t)
    BY <1>14 DEF MDecrement
  <2>2. numPredecessors[t] # 0
    BY <2>1, DecrementCounts
  <2> QED BY <1>14, <2>2 DEF MDecrement
<1>15. CASE MWaitOn(w, h, t) \/ MWaited(w, h, t)
  BY <1>1, <1>15 DEF MWaitOn, MWaited, tasks
<1> HIDE DEF Typed, TypeOK, NoneLeftToWaitFor, IsReady, IsDone
<1> QED BY <1>2, <1>3, <1>4, <1>5, <1>6, <1>7, <1>8, <1>9, <1>10, <1>11, <1>12, <1>13, <1>14, <1>15
    DEF Move

LEMMA BegunStays ==
  ASSUME Typed, OneHand, Begun, NEW w \in Thread, NEW h \in Nat, NEW t \in Task, Move(w, h, t)
  PROVE  Begun'
<1>0. \A s \in Queued \union outstanding : s \in Task /\ started[s] = 0
  BY QueuedType DEF Typed, TypeOK, Begun
\* Nothing begins, nothing is handed on but by those who have it.
<1>1. ASSUME UNCHANGED <<prog, continuation, started>>,
             \A s \in Queued' \union outstanding' : started[s] = 0,
             \A s \in Task : IsNew(s)' \/ IsBlocked(s)' => IsNew(s) \/ IsBlocked(s),
             \A s \in Task : state'[s] = "CONTINUED" /\ state[s] # "CONTINUED" => continuation[s] # None,
             \A v \in Thread, k \in Nat, d \in {"schedule", "run"}, s \in Task :
               On(v, k, d, s)' => started[s] = 0,
             Same({"return"})
      PROVE  Begun'
  <2>1. \A v \in Thread, k \in Nat, s \in Task : On(v, k, "return", s)' <=> On(v, k, "return", s)
    BY <1>1 DEF Same
  <2>2. \A s \in Task : /\ started'[s] \in {0, 1}
                        /\ IsNew(s)' \/ IsBlocked(s)' => started'[s] = 0
    BY <1>1 DEF Begun
  <2>3. \A s \in Queued' \union outstanding' : started'[s] = 0
    BY <1>1
  <2>4. \A v \in Thread, k \in Nat, s \in Task :
         /\ On(v, k, "schedule", s)' \/ On(v, k, "run", s)' => started'[s] = 0
         /\ On(v, k, "return", s)' => started'[s] = 1
    BY <1>1, <2>1 DEF Begun
  <2>5. \A s \in Task : continuation'[s] # None =>
         /\ continuation'[s] = prog'.cont[s] /\ started'[s] = 1
         /\ \A v \in Thread, k \in Nat : ~On(v, k, "return", s)'
    BY <1>1, <2>1 DEF Begun
  <2>6. \A s \in Task : state'[s] = "CONTINUED" => continuation'[s] # None
    BY <1>1 DEF Begun
  <2> QED BY <2>2, <2>3, <2>4, <2>5, <2>6 DEF Begun
<1>2. ASSUME NEW D, Same(D), "schedule" \in D, "run" \in D
      PROVE  \A v \in Thread, k \in Nat, d \in {"schedule", "run"}, s \in Task :
               On(v, k, d, s)' => started[s] = 0
  BY <1>2 DEF Same, Begun
<1>3. ASSUME NEW D, Same(D), "return" \in D
      PROVE  Same({"return"})
  BY <1>3 DEF Same
<1>4. UNCHANGED <<queues, outstanding>> => \A s \in Queued' \union outstanding' : started[s] = 0
  BY <1>0, QueuesStay
\* ... in the case where nothing is scheduled
<1>5. ASSUME NEW D, Same(D), "return" \in D, "schedule" \in D, "run" \in D,
             UNCHANGED <<prog, queues, continuation, started, outstanding>>,
             \A s \in Task : IsNew(s)' \/ IsBlocked(s)' => IsNew(s) \/ IsBlocked(s),
             \A s \in Task : state'[s] = "CONTINUED" /\ state[s] # "CONTINUED" => continuation[s] # None
      PROVE  Begun'
  BY <1>1, <1>2, <1>3, <1>4, <1>5
<1>6. ASSUME NEW D, Same(D), "return" \in D, "schedule" \in D, "run" \in D,
             UNCHANGED <<prog, queues, state, continuation, started, outstanding>>
      PROVE  Begun'
  BY <1>5, <1>6 DEF IsNew, IsBlocked
<1>8. ASSUME NEW s \in Task,
             MForward(w, h, t, s) \/ MFinished(w, h, t, s) \/ MRegister(w, h, t, s)
      PROVE  Begun'
  <2>1. Same(Method \ {"dependsOn"})
    BY <1>8, SameCalls
  <2>2. UNCHANGED <<prog, queues, state, continuation, started, outstanding>>
    BY <1>8 DEF MForward, MFinished, MRegister, tasks
  <2> QED BY <1>6, <2>1, <2>2 DEF Method
<1>9. ASSUME NEW s \in Task, MDelete(w, h, t, s)
      PROVE  Begun'
  <2>1. Same(Method \ {"release"})
    BY <1>9, SameCalls
  <2>2. UNCHANGED <<prog, queues, state, continuation, started, outstanding>>
    BY <1>9 DEF MDelete
  <2> QED BY <1>6, <2>1, <2>2 DEF Method
<1>10. ASSUME NEW s \in Task, MContinue(w, h, t, s)
      PROVE  Begun'
  <2>1. Same(Method \ {"complete", "release", "enqueue", "splice"})
    BY <1>10, SameCalls
  <2>2. /\ UNCHANGED <<prog, queues, continuation, started, outstanding>>
        /\ state' = [state EXCEPT ![t] = "CONTINUED"] /\ continuation[t] # None
    BY <1>10, TaskAssumption DEF MContinue
  <2>3. state'[t] = "CONTINUED" /\ \A u \in Task : u # t => state'[u] = state[u]
    BY <2>2 DEF Typed, TypeOK
  <2>4. \A u \in Task : IsNew(u)' \/ IsBlocked(u)' => IsNew(u) \/ IsBlocked(u)
    BY <2>3 DEF IsNew, IsBlocked
  <2>5. \A u \in Task : state'[u] = "CONTINUED" /\ state[u] # "CONTINUED" => continuation[u] # None
    BY <2>2, <2>3
  <2> QED BY <1>5, <2>1, <2>2, <2>4, <2>5 DEF Method
<1>11. ASSUME NEW n \in Nat, MComplete(w, h, t, n)
      PROVE  Begun'
  <2>1. Same(Method \ {"complete", "release", "decrement"})
    BY <1>11, SameCalls
  <2>2. /\ UNCHANGED <<prog, queues, continuation, started, outstanding>>
        /\ state' = [state EXCEPT ![t] = "COMPLETE"]
    BY <1>11 DEF MComplete
  <2>3. state'[t] = "COMPLETE" /\ \A u \in Task : u # t => state'[u] = state[u]
    BY <2>2 DEF Typed, TypeOK
  <2>4. \A u \in Task : IsNew(u)' \/ IsBlocked(u)' => IsNew(u) \/ IsBlocked(u)
    BY <2>3 DEF IsNew, IsBlocked
  <2>5. \A u \in Task : state'[u] = "CONTINUED" => state[u] = "CONTINUED"
    BY <2>3
  <2> QED BY <1>5, <2>1, <2>2, <2>4, <2>5 DEF Method
<1>12. CASE MPending(w, h, t)
  <2>1. Same(Method \ {"enqueue"})
    BY <1>12, SameCalls
  <2>2. /\ UNCHANGED <<prog, queues, continuation, started, outstanding>>
        /\ IsNew(t) /\ state'[t] \in {"PENDING", "REMOTE_PENDING"}
        /\ \A u \in Task : u # t => state'[u] = state[u]
    BY <1>12 DEF MPending, Typed, TypeOK
  <2>3. \A u \in Task : IsNew(u)' \/ IsBlocked(u)' => IsNew(u) \/ IsBlocked(u)
    BY <2>2 DEF IsNew, IsBlocked
  <2>4. \A u \in Task : state'[u] = "CONTINUED" => state[u] = "CONTINUED"
    BY <2>2
  <2> QED BY <1>5, <2>1, <2>2, <2>3, <2>4 DEF Method
\* A task that has not begun is scheduled, run, or put somewhere.
<1>13. ASSUME UNCHANGED <<prog, continuation, started>>, started[t] = 0,
              Queued' \union outstanding' \subseteq Queued \union outstanding \union {t},
              state' = state \/ (IsReady(t)' /\ \A u \in Task : u # t => state'[u] = state[u]),
              NEW D, Same(D), "return" \in D,
              \A v \in Thread, k \in Nat, d \in {"schedule", "run"}, s \in Task :
                On(v, k, d, s)' => On(v, k, "schedule", s) \/ On(v, k, "run", s) \/ s = t
       PROVE  Begun'
  <2>1. \A s \in Queued' \union outstanding' : started[s] = 0
    BY <1>0, <1>13
  <2>2. \A u \in Task : IsNew(u)' \/ IsBlocked(u)' => IsNew(u) \/ IsBlocked(u)
    BY <1>13 DEF IsNew, IsBlocked, IsReady
  <2>3. \A u \in Task : state'[u] = "CONTINUED" => state[u] = "CONTINUED"
    BY <1>13 DEF IsReady
  <2>4. \A v \in Thread, k \in Nat, d \in {"schedule", "run"}, s \in Task :
                On(v, k, d, s)' => started[s] = 0
    BY <1>13 DEF Begun
  <2> QED BY <1>1, <1>3, <1>13, <2>1, <2>2, <2>3, <2>4
<1>14. ASSUME NEW d, NEW e, NEW x, On(w, h, d, t), Replacing(w, h), OneFrom(w, h, e, t, x)
       PROVE  \A v \in Thread, k \in Nat, c \in {"schedule", "run"}, s \in Task :
                On(v, k, c, s)' => On(v, k, "schedule", s) \/ On(v, k, "run", s) \/ s = t
  BY <1>14 DEF OneFrom, Replacing, Upper
<1>15. UNCHANGED <<queues, outstanding>> => Queued' = Queued /\ outstanding' = outstanding
  BY QueuesStay
<1>16. CASE MReady(w, h, t)
  <2>1. Same(Method \ {"enqueue", "schedule"})
    BY <1>16, SameCalls
  <2>2. /\ UNCHANGED <<prog, queues, continuation, started, outstanding>> /\ IsNew(t)
        /\ IsReady(t)' /\ \A u \in Task : u # t => state'[u] = state[u]
    BY <1>16 DEF MReady, IsReady, Typed, TypeOK
  <2>3. started[t] = 0
    BY <2>2 DEF Begun
  <2>4. \A v \in Thread, k \in Nat, c \in {"schedule", "run"}, s \in Task :
                On(v, k, c, s)' => On(v, k, "schedule", s) \/ On(v, k, "run", s) \/ s = t
    BY <1>14, <1>16 DEF MReady
  <2> QED BY <1>13, <1>15, <2>1, <2>2, <2>3, <2>4 DEF Method
<1>17. ASSUME NEW d \in {"run", "schedule"}, NEW x, MLast(w, h, t, d, x)
       PROVE  Begun'
  <2>1. Same(Method \ {"decrement", d})
    BY <1>17, SameLast
  <2>2. /\ UNCHANGED <<prog, queues, continuation, started, outstanding>> /\ IsBlocked(t)
        /\ IsReady(t)' /\ \A u \in Task : u # t => state'[u] = state[u]
    BY <1>17 DEF MLast, IsReady, Typed, TypeOK
  <2>3. started[t] = 0
    BY <2>2 DEF Begun
  <2>4. \A v \in Thread, k \in Nat, c \in {"schedule", "run"}, s \in Task :
                On(v, k, c, s)' => On(v, k, "schedule", s) \/ On(v, k, "run", s) \/ s = t
    BY <1>14, <1>17 DEF MLast
  <2> QED BY <1>13, <1>15, <2>1, <2>2, <2>3, <2>4 DEF Method
<1>18. CASE MInline(w, h, t)
  <2>1. Same(Method \ {"schedule", "run"})
    BY <1>18, SameCalls
  <2>2. UNCHANGED <<prog, queues, state, continuation, started, outstanding>>
    BY <1>18 DEF MInline, tasks
  <2>3. started[t] = 0
    BY <1>18 DEF Begun, MInline
  <2>4. \A v \in Thread, k \in Nat, c \in {"schedule", "run"}, s \in Task :
                On(v, k, c, s)' => On(v, k, "schedule", s) \/ On(v, k, "run", s) \/ s = t
    BY <1>14, <1>18 DEF MInline
  <2> QED BY <1>13, <1>15, <2>1, <2>2, <2>3, <2>4 DEF Method
<1>19. CASE MQueue(w, h, t) \/ MSend(w, h, t)
  <2>1. Same(Method \ {"schedule"})
    BY <1>19, SameCalls
  <2>2. /\ UNCHANGED <<prog, state, continuation, started>>
        /\ Queued' \union outstanding' \subseteq Queued \union outstanding \union {t}
    BY <1>19, QueuesStay DEF MQueue, MSend, Puts1, tasks
  <2>3. started[t] = 0
    BY <1>19 DEF Begun, MQueue, MSend
  <2>4. \A v \in Thread, k \in Nat, c \in {"schedule", "run"}, s \in Task :
                On(v, k, c, s)' => On(v, k, "schedule", s) \/ On(v, k, "run", s) \/ s = t
    BY <1>19 DEF MQueue, MSend, NoneFrom, Replacing, Upper
  <2> QED BY <1>13, <2>1, <2>2, <2>3, <2>4 DEF Method
<1>20. CASE MKeep(w, h, t)
  <2>1. Same(Method)
    BY <1>20, SameCalls
  <2>2. /\ UNCHANGED <<prog, queues, continuation, started, outstanding>>
        /\ IsReady(t)' /\ \A u \in Task : u # t => state'[u] = state[u]
    BY <1>20 DEF MKeep, IsReady, Typed, TypeOK
  <2>3. started[t] = 0
    BY <1>20 DEF Begun, MKeep
  <2>4. \A v \in Thread, k \in Nat, c \in {"schedule", "run"}, s \in Task :
                On(v, k, c, s)' => On(v, k, "schedule", s) \/ On(v, k, "run", s) \/ s = t
    BY <2>1 DEF Same, Method
  <2> QED BY <1>13, <1>15, <2>1, <2>2, <2>3, <2>4 DEF Method
<1>21. ASSUME NEW x \in BOOLEAN, MTake(w, h, t, x)
       PROVE  Begun'
  <2>1. Same(Method \ {"run"})
    BY <1>21, SameTake
  <2>2. /\ UNCHANGED <<prog, state, continuation, started, outstanding>>
        /\ Queued' \subseteq Queued /\ t \in Queued
    BY <1>21 DEF MTake, Takes1, tasks
  <2>3. started[t] = 0
    BY <1>0, <2>2
  <2>4. \A v \in Thread, k \in Nat, c \in {"schedule", "run"}, s \in Task :
                On(v, k, c, s)' => On(v, k, "schedule", s) \/ On(v, k, "run", s) \/ s = t
    BY <1>21 DEF MTake, Pushing, Upper, Call
  <2> QED BY <1>13, <2>1, <2>2, <2>3, <2>4 DEF Method
<1>22. CASE MCompletes(w, h, t)
  <2>1. Same(Method \ {"complete"})
    BY <1>22, SameCalls
  <2>2. /\ UNCHANGED <<prog, queues, state, continuation, started>>
        /\ outstanding' \subseteq outstanding
    BY <1>22 DEF MCompletes, tasks
  <2>3. \A s \in Queued' \union outstanding' : started[s] = 0
    BY <1>0, <2>2, QueuesStay
  <2>4. \A s \in Task : IsNew(s)' \/ IsBlocked(s)' => IsNew(s) \/ IsBlocked(s)
    BY <2>2 DEF IsNew, IsBlocked
  <2> QED BY <1>1, <1>2, <1>3, <2>1, <2>2, <2>3, <2>4 DEF Method
<1>23. CASE MCancelled(w, h, t)
  <2>1. Same(Method \ {"run", "complete"})
    BY <1>23, SameCalls
  <2>2. UNCHANGED <<prog, queues, state, continuation, started, outstanding>>
    BY <1>23 DEF MCancelled, tasks
  <2>3. started[t] = 0
    BY <1>23 DEF Begun, MCancelled
  <2>4. \A v \in Thread, k \in Nat, c \in {"schedule", "run"}, s \in Task :
                On(v, k, c, s)' => On(v, k, "schedule", s) \/ On(v, k, "run", s) \/ s = t
    BY <1>14, <1>23 DEF MCancelled
  <2> QED BY <1>13, <1>15, <2>1, <2>2, <2>3, <2>4 DEF Method
<1>24. CASE MRun(w, h, t)
  <2>1. Same(Method \ {"run", "return", "dependsOn", "enqueue", "wait"})
    BY <1>24, SameCalls
  <2>2. /\ UNCHANGED <<prog, queues, state, continuation, outstanding>>
        /\ started' = [started EXCEPT ![t] = @ + 1] /\ On(w, h, "run", t)
    BY <1>24 DEF MRun, tasks
  <2>3. Hand(w, h, t) /\ started[t] = 0 /\ continuation[t] = None
    BY <2>2 DEF Begun, Hand, Control
  <2>4. started'[t] = 1 /\ \A s \in Task : s # t => started'[s] = started[s]
    BY <2>2, <2>3 DEF Typed, TypeOK
  <2>5. t \notin Queued \union outstanding /\ IsReady(t)
    BY <2>3 DEF OneHand
  <2>6. \A v \in Thread, k \in Nat, s \in Task : On(v, k, "schedule", s)' \/ On(v, k, "run", s)'
          => started[s] = 0 /\ s # t
    <3>1. HandsStay
      BY <1>24, HandMoves
    <3>2. ASSUME NEW v \in Thread, NEW k \in Nat, On(v, k, "schedule", t)' \/ On(v, k, "run", t)'
          PROVE FALSE
      <4>1. Hand(v, k, t)'
        BY <3>2 DEF Hand, Control
      <4>2. v = w /\ k = h
        BY <2>3, <3>1, <4>1 DEF HandsStay, OneHand
      <4> QED BY <1>24, <3>2, <4>2 DEF MRun
    <3>3. \A v \in Thread, k \in Nat : \A s : On(v, k, "run", s)' => On(v, k, "run", s)
      <4>1. \A v \in Thread, k \in Nat : v # w \/ k < h \/ (v = w /\ (k = h \/ k > h))
        OBVIOUS
      <4>2. \A k \in Nat : \A s : k = h \/ k > h => ~On(w, k, "run", s)'
        BY <1>24 DEF MRun
      <4>3. Upper(w, h)
        BY <1>24 DEF MRun, Replacing
      <4> QED BY <4>1, <4>2, <4>3 DEF Upper
    <3>4. \A v \in Thread, k \in Nat : \A s : On(v, k, "schedule", s)' => On(v, k, "schedule", s)
      BY <2>1 DEF Same, Method
    <3> QED BY <3>2, <3>3, <3>4 DEF Begun
  <2>7. \A v \in Thread, k \in Nat : \A s : On(v, k, "return", s)' => On(v, k, "return", s) \/ s = t
    <3>1. \A v \in Thread, k \in Nat : v # w \/ k < h \/ (v = w /\ (k = h \/ k > h))
      OBVIOUS
    <3> QED BY <1>24, <3>1 DEF MRun, Replacing, Upper
  <2>8. \A s \in Task : /\ started'[s] \in {0, 1}
                        /\ IsNew(s)' \/ IsBlocked(s)' => started'[s] = 0
    BY <2>2, <2>4, <2>5 DEF Begun, IsNew, IsBlocked, IsReady
  <2>9. \A s \in Queued' \union outstanding' : started'[s] = 0
    BY <1>0, <1>15, <2>2, <2>4, <2>5
  <2>10. \A v \in Thread, k \in Nat, s \in Task :
         /\ On(v, k, "schedule", s)' \/ On(v, k, "run", s)' => started'[s] = 0
         /\ On(v, k, "return", s)' => started'[s] = 1
    BY <2>4, <2>6, <2>7 DEF Begun
  <2>11. \A s \in Task : continuation'[s] # None =>
         /\ continuation'[s] = prog'.cont[s] /\ started'[s] = 1
         /\ \A v \in Thread, k \in Nat : ~On(v, k, "return", s)'
    BY <2>2, <2>3, <2>4, <2>7 DEF Begun
  <2>12. \A s \in Task : state'[s] = "CONTINUED" => continuation'[s] # None
    BY <2>2 DEF Begun
  <2> QED BY <2>8, <2>9, <2>10, <2>11, <2>12 DEF Begun
<1>25. CASE MReturn(w, h, t)
  <2>1. Same(Method \ {"return", "complete", "release"})
    BY <1>25, SameCalls
  <2>2. /\ UNCHANGED <<prog, queues, state, started, outstanding>>
        /\ continuation' = [continuation EXCEPT ![t] = prog.cont[t]] /\ On(w, h, "return", t)
    BY <1>25 DEF MReturn
  <2>3. Hand(w, h, t) /\ started[t] = 1
    BY <2>2 DEF Begun, Hand, Control
  <2>4. IsReady(t)
    BY <2>3 DEF OneHand
  <2>5. continuation'[t] = prog.cont[t] /\ \A s \in Task : s # t => continuation'[s] = continuation[s]
    BY <2>2 DEF Typed, TypeOK
  <2>6. \A v \in Thread, k \in Nat : \A s : On(v, k, "return", s)' => On(v, k, "return", s) /\ s # t
    <3>1. HandsStay
      BY <1>25, HandMoves
    <3>2. \A v \in Thread, k \in Nat : v # w \/ k < h \/ (v = w /\ (k = h \/ k > h))
      OBVIOUS
    <3>3. \A k \in Nat : \A s : k = h \/ k > h => ~On(w, k, "return", s)'
      BY <1>25 DEF MReturn
    <3>4. \A v \in Thread, k \in Nat : \A s : On(v, k, "return", s)' => On(v, k, "return", s) /\ ~(v = w /\ k = h)
      BY <1>25, <3>2, <3>3 DEF MReturn, Replacing, Upper
    <3> QED BY <3>4, <2>3 DEF OneHand, Hand, Control
  <2>7. \A v \in Thread, k \in Nat, d \in {"schedule", "run"}, s \in Task :
               On(v, k, d, s)' => started[s] = 0
    BY <1>2, <2>1 DEF Method
  <2>8. \A s \in Task : /\ started'[s] \in {0, 1}
                        /\ IsNew(s)' \/ IsBlocked(s)' => started'[s] = 0
    BY <2>2 DEF Begun, IsNew, IsBlocked
  <2>9. \A s \in Queued' \union outstanding' : started'[s] = 0
    BY <1>0, <1>15, <2>2
  <2>10. \A v \in Thread, k \in Nat, s \in Task :
         /\ On(v, k, "schedule", s)' \/ On(v, k, "run", s)' => started'[s] = 0
         /\ On(v, k, "return", s)' => started'[s] = 1
    BY <2>2, <2>6, <2>7 DEF Begun
  <2>11. \A s \in Task : continuation'[s] # None =>
         /\ continuation'[s] = prog'.cont[s] /\ started'[s] = 1
         /\ \A v \in Thread, k \in Nat : ~On(v, k, "return", s)'
    BY <2>2, <2>3, <2>5, <2>6 DEF Begun
  <2>12. \A s \in Task : state'[s] = "CONTINUED" => continuation'[s] # None
    BY <2>2, <2>4, <2>5 DEF Begun, IsReady
  <2> QED BY <2>8, <2>9, <2>10, <2>11, <2>12 DEF Begun
<1>26. CASE MSplice(w, h, t) \/ MDecrement(w, h, t) \/ MRelease(w, h, t)
  <2>1. UNCHANGED <<prog, queues, state, continuation, started, outstanding>>
    BY <1>26 DEF MSplice, MDecrement, MRelease
  <2>2. Same(Method \ {"splice"}) \/ Same(Method \ {"decrement"}) \/ Same(Method \ {"release"})
    BY <1>26, SameCalls
  <2> QED BY <1>6, <2>1, <2>2 DEF Method
<1>27. CASE MWaitOn(w, h, t) \/ MWaited(w, h, t)
  <2>1. UNCHANGED <<prog, queues, state, continuation, started, outstanding>>
    BY <1>27 DEF MWaitOn, MWaited, tasks
  <2>2. Same(Method \ {"wait"})
    BY <1>27, SameCalls
  <2> QED BY <1>6, <2>1, <2>2 DEF Method
<1> QED BY <1>8, <1>9, <1>10, <1>11, <1>12, <1>16, <1>17, <1>18, <1>19, <1>20, <1>21, <1>22, <1>23,
           <1>24, <1>25, <1>26, <1>27 DEF Move

-----------------------------------------------------------------------------
(* The count of the predecessors.                                           *)

LEMMA CallNat ==
  \A w, k, d, t : On(w, k, d, t) \/ On(w, k, d, t)' => k \in Nat /\ k > 0
BY DEF On

\* The counter and the places of u both stay.
LEMMA CountSame ==
  ASSUME Count, NEW u \in Task, Places(u)' = Places(u), numPredecessors'[u] = numPredecessors[u]
  PROVE  IsFiniteSet(Places(u)') /\ numPredecessors'[u] = Cardinality(Places(u)')
BY DEF Count

LEMMA PlacesSame ==
  ASSUME UNCHANGED dependents, NEW D, Same(D), "decrement" \in D, "splice" \in D
  PROVE  \A u \in Task : Places(u)' = Places(u)
<1> TAKE u \in Task
<1>1. \A w \in Thread : \A k : On(w, k, "decrement", u)' <=> On(w, k, "decrement", u)
  BY CallNat DEF Same
<1>2. \A w \in Thread : \A k, s : /\ On(w, k, "splice", s)' <=> On(w, k, "splice", s)
                                  /\ On(w, k, "splice", s) => ArgAt(w, k)' = ArgAt(w, k)
  BY CallNat DEF Same
<1>3. \A x : x \in Places(u)' <=> x \in Places(u)
  BY <1>1, <1>2, InPlaces, InPlacesNext
<1> QED BY <1>3

LEMMA CountKept ==
  ASSUME Count, UNCHANGED <<dependents, numPredecessors>>, NEW D, Same(D),
         "decrement" \in D, "splice" \in D
  PROVE  Count'
<1>1. \A u \in Task : Places(u)' = Places(u)
  BY PlacesSame
<1>2. \A u \in Task : IsFiniteSet(Places(u)') /\ numPredecessors'[u] = Cardinality(Places(u)')
  BY <1>1, CountSame
<1> QED BY <1>2 DEF Count

\* dependsOn: one more place
LEMMA CountRegister ==
  ASSUME Typed, Count, NEW w \in Thread, NEW h \in Nat, NEW t \in Task, NEW s \in Task,
         MRegister(w, h, t, s)
  PROVE  Count'
<1>1. /\ dependents' = [dependents EXCEPT ![s] = Append(dependents[s], t)]
      /\ numPredecessors' = [numPredecessors EXCEPT ![t] = @ + 1]
      /\ Same(Method \ {"dependsOn"})
  BY SameCalls DEF MRegister
<1>2. dependents \in [Task -> Seq(Task)] /\ numPredecessors \in [Task -> Nat]
  BY DEF Typed, TypeOK
<1>3. PICK n : n = Len(dependents[s])
  OBVIOUS
<1>4. n \in Nat /\ n + 1 \notin DOMAIN dependents[s]
  BY <1>2, <1>3
<1>5. \A u, i : i \in Indices(Append(dependents[s], t), u) <=>
                  i \in Indices(dependents[s], u) \/ (i = n + 1 /\ u = t)
  <2>1. /\ DOMAIN Append(dependents[s], t) = DOMAIN dependents[s] \union {n + 1}
        /\ \A i \in DOMAIN dependents[s] : Append(dependents[s], t)[i] = dependents[s][i]
        /\ Append(dependents[s], t)[n + 1] = t
    <3>1. dependents[s] \in Seq(Task)
      BY <1>2
    <3>2. /\ Append(dependents[s], t) \in Seq(Task) /\ Len(Append(dependents[s], t)) = n + 1
          /\ \A i \in 1 .. n : Append(dependents[s], t)[i] = dependents[s][i]
          /\ Append(dependents[s], t)[n + 1] = t
      BY <3>1, <1>3, AppendProperties
    <3>3. DOMAIN dependents[s] = 1 .. n /\ DOMAIN Append(dependents[s], t) = 1 .. n + 1
      BY <3>1, <3>2, <1>3
    <3> QED BY <3>2, <3>3, <1>4
  <2> QED BY <2>1, <1>4 DEF Indices
<1>6. \A u, p \in Task : \A i : i \in Indices(dependents'[p], u) <=>
                  i \in Indices(dependents[p], u) \/ (p = s /\ i = n + 1 /\ u = t)
  BY <1>1, <1>2, <1>5
<1>7. \A v \in Thread : \A k, u : On(v, k, "decrement", u)' <=> On(v, k, "decrement", u)
  BY <1>1, CallNat DEF Same, Method
<1>8. \A v \in Thread : \A k, p : /\ On(v, k, "splice", p)' <=> On(v, k, "splice", p)
                                  /\ On(v, k, "splice", p) => ArgAt(v, k)' = ArgAt(v, k)
  BY <1>1, CallNat DEF Same, Method
<1>e. PICK e : e = <<"dependents", s, 0, n + 1>>
  OBVIOUS
<1>9. \A u \in Task : \A x : x \in Places(u)' <=> x \in Places(u) \/ (u = t /\ x = e)
  BY <1>e, <1>6, <1>7, <1>8, InPlaces, InPlacesNext
<1>10. e \notin Places(t)
  <2>1. \A p, i : e = <<"dependents", p, 0, i>> => p = s /\ i = n + 1
    BY <1>e
  <2>2. \A v, k : e # <<"decrement", v, k, 0>>
    BY <1>e
  <2>3. \A v, k, i : e # <<"splice", v, k, i>>
    BY <1>e
  <2>4. n + 1 \notin Indices(dependents[s], t)
    BY <1>4 DEF Indices
  <2> QED BY <2>1, <2>2, <2>3, <2>4, InPlaces
<1>11. ASSUME NEW u \in Task
       PROVE  IsFiniteSet(Places(u)') /\ numPredecessors'[u] = Cardinality(Places(u)')
  <2>1. CASE u = t
    <3>1. Places(t)' = Places(t) \union {e}
      BY <1>9
    <3>2. IsFiniteSet(Places(t)) /\ numPredecessors[t] = Cardinality(Places(t))
      BY DEF Count
    <3>a. /\ IsFiniteSet(Places(t) \union {e})
          /\ Cardinality(Places(t) \union {e}) = Cardinality(Places(t)) + 1
      BY <1>10, <3>2, FS_AddElement, Zenon
    <3>3. IsFiniteSet(Places(t)') /\ Cardinality(Places(t)') = Cardinality(Places(t)) + 1
      BY <3>1, <3>a, Zenon
    <3>4. numPredecessors'[t] = numPredecessors[t] + 1
      BY <1>1, <1>2
    <3> QED BY <2>1, <3>2, <3>3, <3>4
  <2>2. CASE u # t
    <3>1. Places(u)' = Places(u)
      BY <1>9, <2>2
    <3>2. numPredecessors'[u] = numPredecessors[u]
      BY <1>1, <1>2, <2>2
    <3> QED BY <3>1, <3>2, CountSame
  <2> QED BY <2>1, <2>2
<1> QED BY <1>11 DEF Count

\* decrementPredecessors: one place less
LEMMA CountDecrement ==
  ASSUME Typed, Count, NEW w \in Thread, NEW h \in Nat, NEW t \in Task,
         Replacing(w, h), On(w, h, "decrement", t), \A k \in Nat : \A s : k >= h => ~On(w, k, "decrement", s)',
         UNCHANGED dependents, Same({"splice"}),
         numPredecessors' = [numPredecessors EXCEPT ![t] = @ - 1]
  PROVE  Count'
<1>1. numPredecessors \in [Task -> Nat]
  BY DEF Typed, TypeOK
<1>2. \A v \in Thread : \A k, u : On(v, k, "decrement", u)' <=>
                                    On(v, k, "decrement", u) /\ ~(v = w /\ k = h)
  <2>1. \A v \in Thread, k \in Nat : v # w \/ k < h \/ (v = w /\ k = h) \/ (v = w /\ k > h)
    OBVIOUS
  <2>2. \A v \in Thread, k \in Nat : \A u : On(v, k, "decrement", u)' <=>
                                On(v, k, "decrement", u) /\ ~(v = w /\ k = h)
    BY <2>1 DEF Replacing, Upper
  <2> QED BY <2>2, CallNat
<1>3. \A v \in Thread : \A k, p : /\ On(v, k, "splice", p)' <=> On(v, k, "splice", p)
                                  /\ On(v, k, "splice", p) => ArgAt(v, k)' = ArgAt(v, k)
  BY CallNat DEF Same
<1>4. \A u : On(w, h, "decrement", u) => u = t
  BY OneCall
<1>e. PICK e : e = <<"decrement", w, h, 0>>
  OBVIOUS
<1>5. \A u \in Task : \A x : x \in Places(u)' <=> x \in Places(u) /\ ~(u = t /\ x = e)
  <2> TAKE u \in Task
  <2> TAKE x
  <2>1. x = e => ~(\E p, i : x = <<"dependents", p, 0, i>>) /\ ~(\E v, k, i : x = <<"splice", v, k, i>>)
    BY <1>e
  <2>2. \A v, k : e = <<"decrement", v, k, 0>> <=> v = w /\ k = h
    BY <1>e
  <2> QED BY <1>2, <1>3, <1>4, <2>1, <2>2, InPlaces, InPlacesNext
<1>6. e \in Places(t)
  BY <1>e, InPlaces
<1>7. ASSUME NEW u \in Task
      PROVE  IsFiniteSet(Places(u)') /\ numPredecessors'[u] = Cardinality(Places(u)')
  <2>1. CASE u = t
    <3>1. Places(t)' = Places(t) \ {e}
      BY <1>5
    <3>2. IsFiniteSet(Places(t)) /\ numPredecessors[t] = Cardinality(Places(t))
      BY DEF Count
    <3>3. IsFiniteSet(Places(t)') /\ Cardinality(Places(t)') = Cardinality(Places(t)) - 1
      <4>1. /\ IsFiniteSet(Places(t) \ {e})
            /\ Cardinality(Places(t) \ {e}) = Cardinality(Places(t)) - 1
        BY <1>6, <3>2, FS_RemoveElement, Zenon
      <4> QED BY <3>1, <4>1, Zenon
    <3>4. numPredecessors'[t] = numPredecessors[t] - 1
      BY <1>1
    <3> QED BY <2>1, <3>2, <3>3, <3>4
  <2>2. CASE u # t
    <3>1. Places(u)' = Places(u)
      BY <1>5, <2>2
    <3>2. numPredecessors'[u] = numPredecessors[u]
      BY <1>1, <2>2
    <3> QED BY <3>1, <3>2, CountSame
  <2> QED BY <2>1, <2>2
<1> QED BY <1>7 DEF Count

\* Places that move keep their number.
LEMMA Moved ==
  ASSUME NEW S, NEW T, IsFiniteSet(S), NEW g, g \in [S -> T],
         \A x, y \in S : g[x] = g[y] => x = y, \A y \in T : \E x \in S : g[x] = y
  PROVE  IsFiniteSet(T) /\ Cardinality(T) = Cardinality(S)
<1>1. g \in Bijection(S, T)
  BY DEF Bijection, Injection, Surjection, IsInjective
<1> QED BY <1>1, FS_Bijection DEF ExistsBijection

\* The names of the places.
AtList(s, i) == <<"dependents", s, 0, i>>
AtCall(w, k) == <<"decrement", w, k, 0>>
AtSplice(w, k, i) == <<"splice", w, k, i>>

LEMMA PlaceNames ==
  /\ \A s, u, i, j : AtList(s, i) = AtList(u, j) <=> s = u /\ i = j
  /\ \A w, v, k, m : AtCall(w, k) = AtCall(v, m) <=> w = v /\ k = m
  /\ \A w, v, k, m, i, j : AtSplice(w, k, i) = AtSplice(v, m, j) <=> w = v /\ k = m /\ i = j
  /\ \A s, i, w, k : AtList(s, i) # AtCall(w, k)
  /\ \A s, i, w, k, j : AtList(s, i) # AtSplice(w, k, j)
  /\ \A v, m, w, k, j : AtCall(v, m) # AtSplice(w, k, j)
BY DEF AtList, AtCall, AtSplice

LEMMA PlacesAre ==
  ASSUME NEW t
  PROVE  /\ \A x : x \in Places(t) <=>
              \/ \E s \in Task : \E i : i \in Indices(dependents[s], t) /\ x = AtList(s, i)
              \/ \E w \in Thread : \E k : On(w, k, "decrement", t) /\ x = AtCall(w, k)
              \/ \E w \in Thread : \E k, s, i : /\ On(w, k, "splice", s) /\ i \in Indices(ArgAt(w, k), t)
                                                /\ x = AtSplice(w, k, i)
         /\ \A x : x \in Places(t)' <=>
              \/ \E s \in Task : \E i : i \in Indices(dependents'[s], t) /\ x = AtList(s, i)
              \/ \E w \in Thread : \E k : On(w, k, "decrement", t)' /\ x = AtCall(w, k)
              \/ \E w \in Thread : \E k, s, i : /\ On(w, k, "splice", s)' /\ i \in Indices(ArgAt(w, k)', t)
                                                /\ x = AtSplice(w, k, i)
BY InPlaces, InPlacesNext DEF AtList, AtCall, AtSplice

\* Some places get other names.
LEMMA Renamed ==
  ASSUME NEW S, NEW T, IsFiniteSet(S), NEW I, NEW a, NEW b, \A i \in I : a[i] \in S,
         \A i, j \in I : a[i] = a[j] => i = j, \A i, j \in I : b[i] = b[j] => i = j,
         \A i \in I : b[i] \notin S,
         \A x : x \in T <=> (x \in S /\ \A i \in I : x # a[i]) \/ (\E i \in I : x = b[i])
  PROVE  IsFiniteSet(T) /\ Cardinality(T) = Cardinality(S)
<1> DEFINE g == [x \in S |-> IF \E i \in I : x = a[i] THEN b[CHOOSE i \in I : x = a[i]] ELSE x]
<1>1. \A i \in I : g[a[i]] = b[i]
  <2> TAKE i \in I
  <2>1. (CHOOSE j \in I : a[i] = a[j]) = i
    OBVIOUS
  <2> QED BY <2>1
<1>2. \A x \in S : (\A i \in I : x # a[i]) => g[x] = x
  OBVIOUS
<1>3. DOMAIN g = S /\ g = [x \in S |-> g[x]]
  OBVIOUS
<1> HIDE DEF g
<1>4. \A x \in S : g[x] \in T
  BY <1>1, <1>2
<1>5. g \in [S -> T]
  BY <1>3, <1>4
<1>6. \A x, y \in S : g[x] = g[y] => x = y
  BY <1>1, <1>2
<1>7. \A y \in T : \E x \in S : g[x] = y
  BY <1>1, <1>2
<1> QED BY <1>5, <1>6, <1>7, Moved

LEMMA CountRenamed ==
  ASSUME Count, NEW u \in Task, numPredecessors'[u] = numPredecessors[u], NEW I, NEW a, NEW b,
         \A i \in I : a[i] \in Places(u),
         \A i, j \in I : a[i] = a[j] => i = j, \A i, j \in I : b[i] = b[j] => i = j,
         \A i \in I : b[i] \notin Places(u),
         \A x : x \in Places(u)' <=> (x \in Places(u) /\ \A i \in I : x # a[i]) \/ (\E i \in I : x = b[i])
  PROVE  IsFiniteSet(Places(u)') /\ numPredecessors'[u] = Cardinality(Places(u)')
<1>1. IsFiniteSet(Places(u)) /\ numPredecessors[u] = Cardinality(Places(u))
  BY DEF Count
<1>2. PICK T : T = Places(u)'
  OBVIOUS
<1>3. \A x : x \in T <=> (x \in Places(u) /\ \A i \in I : x # a[i]) \/ (\E i \in I : x = b[i])
  BY <1>2
<1>4. IsFiniteSet(T) /\ Cardinality(T) = Cardinality(Places(u))
  BY <1>1, <1>3, Renamed, ZenonT(60)
<1> QED BY <1>1, <1>2, <1>4

\* completeTaskDeps: what was registered is on its way
LEMMA CountContinue ==
  ASSUME Typed, Count, NEW w \in Thread, NEW h \in Nat, NEW t \in Task, NEW c \in Task,
         MContinue(w, h, t, c)
  PROVE  Count'
<1>1. /\ Replacing(w, h) /\ On(w, h, "complete", t)
      /\ \A d, s : On(w, h, d, s)' <=> d = "release" /\ s = t
      /\ \A d, s : On(w, h + 1, d, s)' <=> d = "enqueue" /\ s = c
      /\ \A d, s : On(w, h + 2, d, s)' <=> d = "splice" /\ s = c
      /\ ArgAt(w, h + 2)' = dependents[t]
      /\ \A k \in Nat : \A d, s : k > h + 2 => ~On(w, k, d, s)'
      /\ dependents' = [dependents EXCEPT ![t] = <<>>] /\ UNCHANGED numPredecessors
  BY DEF MContinue
<1>2. dependents'[t] = <<>> /\ \A s \in Task : s # t => dependents'[s] = dependents[s]
  BY <1>1 DEF Typed, TypeOK
<1>3. \A u : Indices(<<>>, u) = {}
  BY DEF Indices
<1>4. Same(Method \ {"complete", "release", "enqueue", "splice"})
  BY SameCalls
<1>5. \A v \in Thread : \A k, u : On(v, k, "decrement", u)' <=> On(v, k, "decrement", u)
  BY <1>4, CallNat DEF Same, Method
<1>6. PICK m \in Nat : m = h + 2
  OBVIOUS
<1>7. /\ \A d, s : On(w, m, d, s)' <=> d = "splice" /\ s = c
      /\ ArgAt(w, m)' = dependents[t]
      /\ \A s : ~On(w, m, "splice", s)
  BY <1>1, <1>6 DEF Replacing
<1>8. \A v \in Thread : \A k, s : ~(v = w /\ k = m) =>
        /\ On(v, k, "splice", s)' <=> On(v, k, "splice", s)
        /\ On(v, k, "splice", s) => ArgAt(v, k)' = ArgAt(v, k)
  <2>1. \A v \in Thread, k \in Nat : v # w \/ k < h \/ (v = w /\ (k = h \/ k > h))
    OBVIOUS
  <2>2. \A k \in Nat : k > h => k = h + 1 \/ k = h + 2 \/ k > h + 2
    OBVIOUS
  <2>3. \A k \in Nat : \A s : k > h => ~On(w, k, "splice", s) /\ (k # m => ~On(w, k, "splice", s)')
    BY <2>2, <1>1, <1>6 DEF Replacing
  <2>4. \A s : ~On(w, h, "splice", s) /\ ~On(w, h, "splice", s)'
    BY <1>1, OneCall
  <2>5. Upper(w, h)
    BY <1>1 DEF Replacing
  <2>6. \A v \in Thread, k \in Nat : \A s : ~(v = w /\ k = m) =>
        /\ On(v, k, "splice", s)' <=> On(v, k, "splice", s)
        /\ On(v, k, "splice", s) => ArgAt(v, k)' = ArgAt(v, k)
    BY <2>1, <2>3, <2>4, <2>5 DEF Upper
  <2> QED BY <2>6, CallNat
<1>9. ASSUME NEW u \in Task
      PROVE  IsFiniteSet(Places(u)') /\ numPredecessors'[u] = Cardinality(Places(u)')
  <2> DEFINE I == Indices(dependents[t], u)
  <2>1. PICK a : a = [i \in I |-> AtList(t, i)]
    OBVIOUS
  <2>2. PICK b : b = [i \in I |-> AtSplice(w, m, i)]
    OBVIOUS
  <2>3. \A i \in I : a[i] = AtList(t, i) /\ b[i] = AtSplice(w, m, i)
    BY <2>1, <2>2
  <2>4. \A i \in I : a[i] \in Places(u)
    BY <2>3, PlacesAre
  <2>5. \A i \in I : b[i] \notin Places(u)
    BY <2>3, <1>7, PlacesAre, PlaceNames
  <2>6. \A i, j \in I : (a[i] = a[j] => i = j) /\ (b[i] = b[j] => i = j)
    BY <2>3, PlaceNames
  <2>7. \A x : x \in Places(u)' <=> (x \in Places(u) /\ \A i \in I : x # a[i]) \/ (\E i \in I : x = b[i])
    <3> TAKE x
    <3>1. (\E s \in Task : \E i : i \in Indices(dependents'[s], u) /\ x = AtList(s, i)) <=>
            (\E s \in Task : \E i : i \in Indices(dependents[s], u) /\ x = AtList(s, i))
              /\ \A i \in I : x # a[i]
      BY <1>2, <1>3, <2>3, PlaceNames
    <3>2. (\E v \in Thread : \E k, s, i : /\ On(v, k, "splice", s)' /\ i \in Indices(ArgAt(v, k)', u)
                                          /\ x = AtSplice(v, k, i)) <=>
            \/ \E v \in Thread : \E k, s, i : /\ On(v, k, "splice", s) /\ i \in Indices(ArgAt(v, k), u)
                                              /\ x = AtSplice(v, k, i)
            \/ \E i \in I : x = b[i]
      BY <1>7, <1>8, <2>3
    <3>3. \A v, k, i : x = AtCall(v, k) \/ x = AtSplice(v, k, i) => \A j \in I : x # a[j]
      BY <2>3, PlaceNames
    <3> QED BY <3>1, <3>2, <3>3, <1>5, PlacesAre, SMTT(30)
  <2>8. numPredecessors'[u] = numPredecessors[u]
    BY <1>1
  <2> HIDE DEF I
  <2>9. (\A i, j \in I : a[i] = a[j] => i = j) /\ (\A i, j \in I : b[i] = b[j] => i = j)
    BY <2>6
  <2> QED BY <2>4, <2>5, <2>7, <2>8, <2>9, CountRenamed
<1> QED BY <1>9 DEF Count

LEMMA CountComplete ==
  ASSUME Typed, Count, NEW w \in Thread, NEW h \in Nat, NEW t \in Task, NEW n \in Nat,
         MComplete(w, h, t, n)
  PROVE  Count'
<1>1. /\ Replacing(w, h) /\ On(w, h, "complete", t) /\ n = Len(dependents[t])
      /\ \A d, s : On(w, h, d, s)' <=> d = "release" /\ s = t
      /\ \A k \in Nat : \A d, s : k > h =>
           (On(w, k, d, s)' <=> /\ h + n + 1 - k \in 1 .. n /\ d = "decrement"
                                /\ dependents[t][h + n + 1 - k] = s)
      /\ dependents' = [dependents EXCEPT ![t] = <<>>] /\ UNCHANGED numPredecessors
  BY DEF MComplete
<1>2. dependents'[t] = <<>> /\ \A s \in Task : s # t => dependents'[s] = dependents[s]
  BY <1>1 DEF Typed, TypeOK
<1>3. \A u : Indices(<<>>, u) = {}
  BY DEF Indices
<1>4. Same(Method \ {"complete", "release", "decrement"})
  BY SameCalls
<1>5. \A v \in Thread : \A k, p : /\ On(v, k, "splice", p)' <=> On(v, k, "splice", p)
                                  /\ On(v, k, "splice", p) => ArgAt(v, k)' = ArgAt(v, k)
  BY <1>4, CallNat DEF Same, Method
<1>6. DOMAIN dependents[t] = 1 .. n
  BY <1>1 DEF Typed, TypeOK
<1> DEFINE at(i) == h + n + 1 - i
<1>7. /\ \A i \in 1 .. n : at(i) \in Nat /\ at(i) > h /\ at(at(i)) = i
      /\ \A k \in Nat : at(k) \in 1 .. n => at(at(k)) = k
      /\ \A i, j \in 1 .. n : at(i) = at(j) => i = j
  OBVIOUS
<1>8. \A k \in Nat : \A d, s : k > h => (On(w, k, d, s)' <=> at(k) \in 1 .. n /\ d = "decrement"
                                                              /\ dependents[t][at(k)] = s)
  BY <1>1
<1> HIDE DEF at
<1>9. \A v \in Thread : \A k, s : On(v, k, "decrement", s)' <=>
        On(v, k, "decrement", s) \/ (v = w /\ \E i \in Indices(dependents[t], s) : k = at(i))
  <2>1. \A v \in Thread, k \in Nat : v # w \/ k < h \/ (v = w /\ (k = h \/ k > h))
    OBVIOUS
  <2>2. \A s : ~On(w, h, "decrement", s) /\ ~On(w, h, "decrement", s)'
    BY <1>1, OneCall
  <2>3. \A k \in Nat : \A s : k > h => ~On(w, k, "decrement", s)
    BY <1>1 DEF Replacing
  <2>4. \A s, i : i \in Indices(dependents[t], s) <=> i \in 1 .. n /\ dependents[t][i] = s
    BY <1>6 DEF Indices
  <2>5. \A k \in Nat : \A s : k > h =>
          (On(w, k, "decrement", s)' <=> \E i \in Indices(dependents[t], s) : k = at(i))
    BY <1>7, <1>8, <2>4
  <2>6. \A s, i : i \in Indices(dependents[t], s) => at(i) > h /\ at(i) \in Nat /\ at(i) # h /\ ~(at(i) < h)
    BY <1>7, <2>4
  <2>7. Upper(w, h)
    BY <1>1 DEF Replacing
  <2>8. \A v \in Thread, k \in Nat : \A s : On(v, k, "decrement", s)' <=>
        On(v, k, "decrement", s) \/ (v = w /\ \E i \in Indices(dependents[t], s) : k = at(i))
    BY <2>1, <2>2, <2>3, <2>5, <2>6, <2>7 DEF Upper
  <2> QED BY <2>6, <2>8, CallNat
<1>10. \A s, i : i \in Indices(dependents[t], s) => ~On(w, at(i), "decrement", s)
  <2>1. \A s, i : i \in Indices(dependents[t], s) => i \in 1 .. n
    BY <1>6 DEF Indices
  <2> QED BY <2>1, <1>1, <1>7 DEF Replacing
<1>11. ASSUME NEW u \in Task
       PROVE  IsFiniteSet(Places(u)') /\ numPredecessors'[u] = Cardinality(Places(u)')
  <2> DEFINE I == Indices(dependents[t], u)
  <2>1. PICK a : a = [i \in I |-> AtList(t, i)]
    OBVIOUS
  <2>2. PICK b : b = [i \in I |-> AtCall(w, at(i))]
    OBVIOUS
  <2>3. \A i \in I : a[i] = AtList(t, i) /\ b[i] = AtCall(w, at(i))
    BY <2>1, <2>2
  <2>4. \A i \in I : a[i] \in Places(u)
    BY <2>3, PlacesAre
  <2>5. \A i \in I : b[i] \notin Places(u)
    BY <2>3, <1>10, PlacesAre, PlaceNames
  <2>6. \A i, j \in I : (a[i] = a[j] => i = j) /\ (b[i] = b[j] => i = j)
    <3>1. \A i \in I : i \in 1 .. n
      BY <1>6 DEF Indices
    <3> QED BY <2>3, <3>1, <1>7, PlaceNames
  <2>7. \A x : x \in Places(u)' <=> (x \in Places(u) /\ \A i \in I : x # a[i]) \/ (\E i \in I : x = b[i])
    <3> TAKE x
    <3>1. (\E s \in Task : \E i : i \in Indices(dependents'[s], u) /\ x = AtList(s, i)) <=>
            (\E s \in Task : \E i : i \in Indices(dependents[s], u) /\ x = AtList(s, i))
              /\ \A i \in I : x # a[i]
      BY <1>2, <1>3, <2>3, PlaceNames
    <3>2. (\E v \in Thread : \E k : On(v, k, "decrement", u)' /\ x = AtCall(v, k)) <=>
            (\E v \in Thread : \E k : On(v, k, "decrement", u) /\ x = AtCall(v, k)) \/ (\E i \in I : x = b[i])
      BY <1>9, <2>3
    <3>3. \A v, k, i : x = AtCall(v, k) \/ x = AtSplice(v, k, i) => \A j \in I : x # a[j]
      BY <2>3, PlaceNames
    <3>4. (\E v \in Thread : \E k, s, i : /\ On(v, k, "splice", s)' /\ i \in Indices(ArgAt(v, k)', u)
                                          /\ x = AtSplice(v, k, i)) <=>
            \E v \in Thread : \E k, s, i : /\ On(v, k, "splice", s) /\ i \in Indices(ArgAt(v, k), u)
                                           /\ x = AtSplice(v, k, i)
      BY <1>5
    <3>5. (\E i \in I : x = b[i]) => x \in Places(u)'
      BY <3>2, PlacesAre
    <3>6. x \in Places(u) /\ (\A i \in I : x # a[i]) => x \in Places(u)'
      BY <3>1, <3>2, <3>4, PlacesAre
    <3>7. x \in Places(u)' => x \in Places(u) \/ \E i \in I : x = b[i]
      BY <3>1, <3>2, <3>4, PlacesAre
    <3>8. x \in Places(u)' => (\A i \in I : x # a[i]) \/ \E i \in I : x = b[i]
      BY <3>1, <3>3, PlacesAre
    <3> HIDE DEF I
    <3> QED BY <3>5, <3>6, <3>7, <3>8
  <2>8. numPredecessors'[u] = numPredecessors[u]
    BY <1>1
  <2> HIDE DEF I
  <2>9. (\A i, j \in I : a[i] = a[j] => i = j) /\ (\A i, j \in I : b[i] = b[j] => i = j)
    BY <2>6
  <2> QED BY <2>4, <2>5, <2>7, <2>8, <2>9, CountRenamed
<1> QED BY <1>11 DEF Count

LEMMA CountSplice ==
  ASSUME Typed, Count, NEW w \in Thread, NEW h \in Nat, NEW t \in Task, MSplice(w, h, t)
  PROVE  Count'
<1>0. PICK tmp : tmp = ArgAt(w, h)
  OBVIOUS
<1>1. /\ Replacing(w, h) /\ On(w, h, "splice", t) /\ NoneFrom(w, h)
      /\ dependents' = [dependents EXCEPT ![t] = dependents[t] \o tmp] /\ UNCHANGED numPredecessors
  BY <1>0 DEF MSplice
<1>2. tmp \in Seq(Task) /\ dependents[t] \in Seq(Task)
  BY <1>0, <1>1, CallTyped DEF Typed, TypeOK
<1>3. dependents'[t] = dependents[t] \o tmp /\ \A s \in Task : s # t => dependents'[s] = dependents[s]
  BY <1>1 DEF Typed, TypeOK
<1>4. Same(Method \ {"splice"})
  BY SameCalls
<1>5. \A v \in Thread : \A k, u : On(v, k, "decrement", u)' <=> On(v, k, "decrement", u)
  BY <1>4, CallNat DEF Same, Method
<1>6. PICK n \in Nat : n = Len(dependents[t])
  BY <1>2
<1>7. \A u, i : i \in Indices(dependents'[t], u) <=>
                  i \in Indices(dependents[t], u) \/ \E j \in Indices(tmp, u) : i = n + j
  <2>1. PICK m \in Nat : m = Len(tmp)
    BY <1>2
  <2>2. /\ DOMAIN dependents[t] = 1 .. n /\ DOMAIN tmp = 1 .. m /\ DOMAIN dependents'[t] = 1 .. n + m
        /\ \A i \in 1 .. n : dependents'[t][i] = dependents[t][i]
        /\ \A i \in 1 .. m : dependents'[t][n + i] = tmp[i]
    BY <1>2, <1>3, <1>6, <2>1
  <2>3. \A i \in 1 .. n + m : i \in 1 .. n \/ (i - n \in 1 .. m /\ i = n + (i - n))
    OBVIOUS
  <2>4. (\A j \in 1 .. m : n + j \in 1 .. n + m) /\ (\A j \in 1 .. n : j \in 1 .. n + m)
    OBVIOUS
  <2> QED BY <2>2, <2>3, <2>4 DEF Indices
<1>8. \A v \in Thread : \A k, s :
        /\ On(v, k, "splice", s)' <=> On(v, k, "splice", s) /\ ~(v = w /\ k = h)
        /\ On(v, k, "splice", s)' => ArgAt(v, k)' = ArgAt(v, k)
  <2>1. \A v \in Thread, k \in Nat : v # w \/ k < h \/ (v = w /\ (k = h \/ k > h))
    OBVIOUS
  <2>2. \A k \in Nat : \A s : k > h => ~On(w, k, "splice", s) /\ ~On(w, k, "splice", s)'
    BY <1>1 DEF Replacing, NoneFrom
  <2>3. (\A s : ~On(w, h, "splice", s)') /\ Upper(w, h)
    BY <1>1 DEF Replacing, NoneFrom
  <2>4. \A v \in Thread, k \in Nat : \A s :
        /\ On(v, k, "splice", s)' <=> On(v, k, "splice", s) /\ ~(v = w /\ k = h)
        /\ On(v, k, "splice", s)' => ArgAt(v, k)' = ArgAt(v, k)
    BY <2>1, <2>2, <2>3 DEF Upper
  <2> QED BY <2>4, CallNat
<1>9. ASSUME NEW u \in Task
      PROVE  IsFiniteSet(Places(u)') /\ numPredecessors'[u] = Cardinality(Places(u)')
  <2> DEFINE I == Indices(tmp, u)
  <2>1. PICK a : a = [i \in I |-> AtSplice(w, h, i)]
    OBVIOUS
  <2>2. PICK b : b = [i \in I |-> AtList(t, n + i)]
    OBVIOUS
  <2>3. \A i \in I : a[i] = AtSplice(w, h, i) /\ b[i] = AtList(t, n + i)
    BY <2>1, <2>2
  <2>4. \A i \in I : a[i] \in Places(u)
    BY <2>3, <1>0, <1>1, PlacesAre
  <2>a. \A i \in I : i \in Nat /\ i > 0
    BY <1>2 DEF Indices
  <2>b. \A i : i \in Indices(dependents[t], u) => i \in 1 .. n
    BY <1>2, <1>6 DEF Indices
  <2>5. \A i \in I : b[i] \notin Places(u)
    <3>1. \A i \in I : n + i \notin Indices(dependents[t], u)
      BY <2>a, <2>b
    <3> QED BY <2>3, <3>1, PlacesAre, PlaceNames
  <2>6. \A i, j \in I : (a[i] = a[j] => i = j) /\ (b[i] = b[j] => i = j)
    <3>1. \A i, j \in I : n + i = n + j => i = j
      BY <2>a
    <3> QED BY <2>3, <3>1, PlaceNames
  <2>7. \A x : x \in Places(u)' <=> (x \in Places(u) /\ \A i \in I : x # a[i]) \/ (\E i \in I : x = b[i])
    <3> TAKE x
    <3>1. (\E s \in Task : \E i : i \in Indices(dependents'[s], u) /\ x = AtList(s, i)) <=>
            (\E s \in Task : \E i : i \in Indices(dependents[s], u) /\ x = AtList(s, i))
              \/ \E i \in I : x = b[i]
      <4>1. \A s \in Task : \A i : i \in Indices(dependents'[s], u) <=>
              i \in Indices(dependents[s], u) \/ (s = t /\ \E j \in I : i = n + j)
        BY <1>3, <1>7
      <4> QED BY <4>1, <2>3
    <3>2. (\E v \in Thread : \E k, s, i : /\ On(v, k, "splice", s)' /\ i \in Indices(ArgAt(v, k)', u)
                                          /\ x = AtSplice(v, k, i)) <=>
            /\ \E v \in Thread : \E k, s, i : /\ On(v, k, "splice", s) /\ i \in Indices(ArgAt(v, k), u)
                                              /\ x = AtSplice(v, k, i)
            /\ \A i \in I : x # a[i]
      BY <1>0, <1>8, <2>3, PlaceNames
    <3>3. \A v, k, s, i : x = AtCall(v, k) \/ x = AtList(s, i) => \A j \in I : x # a[j]
      BY <2>3, PlaceNames
    <3>4. (\E v \in Thread : \E k : On(v, k, "decrement", u)' /\ x = AtCall(v, k)) <=>
            \E v \in Thread : \E k : On(v, k, "decrement", u) /\ x = AtCall(v, k)
      BY <1>5
    <3> QED BY <3>1, <3>2, <3>3, <3>4, PlacesAre
  <2>8. numPredecessors'[u] = numPredecessors[u]
    BY <1>1
  <2> HIDE DEF I
  <2>9. (\A i, j \in I : a[i] = a[j] => i = j) /\ (\A i, j \in I : b[i] = b[j] => i = j)
    BY <2>6
  <2> QED BY <2>4, <2>5, <2>7, <2>8, <2>9, CountRenamed
<1> QED BY <1>9 DEF Count

LEMMA CountStays ==
  ASSUME Typed, OneHand, Count, NEW w \in Thread, NEW h \in Nat, NEW t \in Task, Move(w, h, t)
  PROVE  Count'
<1>1. ASSUME NEW D, Same(D), "decrement" \in D, "splice" \in D, UNCHANGED <<dependents, numPredecessors>>
      PROVE  Count'
  BY <1>1, CountKept
<1>2. ASSUME NEW s \in Task, MForward(w, h, t, s) \/ MFinished(w, h, t, s) \/ MDelete(w, h, t, s)
      PROVE  Count'
  <2>1. UNCHANGED <<dependents, numPredecessors>>
    BY <1>2 DEF MForward, MFinished, MDelete, tasks
  <2>2. Same(Method \ {"dependsOn"}) \/ Same(Method \ {"release"})
    BY <1>2, SameCalls
  <2> QED BY <1>1, <2>1, <2>2 DEF Method
<1>3. ASSUME NEW s \in Task, MRegister(w, h, t, s)
      PROVE  Count'
  BY <1>3, CountRegister
<1>4. ASSUME NEW s \in Task, MContinue(w, h, t, s)
      PROVE  Count'
  BY <1>4, CountContinue
<1>5. ASSUME NEW n \in Nat, MComplete(w, h, t, n)
      PROVE  Count'
  BY <1>5, CountComplete
<1>6. ASSUME NEW x, MTake(w, h, t, x)
      PROVE  Count'
  <2>1. UNCHANGED <<dependents, numPredecessors>>
    BY <1>6 DEF MTake, tasks
  <2>2. Same(Method \ {"run"})
    BY <1>6, SameTake
  <2> QED BY <1>1, <2>1, <2>2 DEF Method
<1>7. ASSUME NEW d \in {"run", "schedule"}, NEW x, MLast(w, h, t, d, x)
      PROVE  Count'
  <2>1. /\ Replacing(w, h) /\ On(w, h, "decrement", t) /\ OneFrom(w, h, d, t, x) /\ UNCHANGED dependents
        /\ numPredecessors' = [numPredecessors EXCEPT ![t] = @ - 1]
    BY <1>7 DEF MLast
  <2>2. Same({"splice"})
    BY <1>7, SameLast DEF Same, Method
  <2>3. \A k \in Nat : \A s : k >= h => ~On(w, k, "decrement", s)'
    BY <2>1 DEF OneFrom
  <2> QED BY <2>1, <2>2, <2>3, CountDecrement
<1>8. CASE MDecrement(w, h, t)
  <2>1. /\ Replacing(w, h) /\ On(w, h, "decrement", t) /\ NoneFrom(w, h) /\ UNCHANGED dependents
        /\ numPredecessors' = [numPredecessors EXCEPT ![t] = @ - 1]
    BY <1>8 DEF MDecrement
  <2>2. Same({"splice"})
    BY <1>8, SameCalls DEF Same, Method
  <2>3. \A k \in Nat : \A s : k >= h => ~On(w, k, "decrement", s)'
    BY <2>1 DEF NoneFrom
  <2> QED BY <2>1, <2>2, <2>3, CountDecrement
<1>9. CASE MSplice(w, h, t)
  BY <1>9, CountSplice
<1>10. CASE MPending(w, h, t) \/ MReady(w, h, t)
  <2>1. UNCHANGED <<dependents, numPredecessors>>
    BY <1>10 DEF MPending, MReady
  <2>2. Same(Method \ {"enqueue"}) \/ Same(Method \ {"enqueue", "schedule"})
    BY <1>10, SameCalls
  <2> QED BY <1>1, <2>1, <2>2 DEF Method
<1>11. CASE MInline(w, h, t) \/ MQueue(w, h, t) \/ MSend(w, h, t) \/ MKeep(w, h, t)
  <2>1. UNCHANGED <<dependents, numPredecessors>>
    BY <1>11 DEF MInline, MQueue, MSend, MKeep, tasks
  <2>2. Same(Method \ {"schedule", "run"}) \/ Same(Method \ {"schedule"}) \/ Same(Method)
    BY <1>11, SameCalls
  <2> QED BY <1>1, <2>1, <2>2 DEF Method
<1>12. CASE MCompletes(w, h, t) \/ MCancelled(w, h, t)
  <2>1. UNCHANGED <<dependents, numPredecessors>>
    BY <1>12 DEF MCompletes, MCancelled, tasks
  <2>2. Same(Method \ {"complete"}) \/ Same(Method \ {"run", "complete"})
    BY <1>12, SameCalls
  <2> QED BY <1>1, <2>1, <2>2 DEF Method
<1>13. CASE MRun(w, h, t)
  <2>1. UNCHANGED <<dependents, numPredecessors>>
    BY <1>13 DEF MRun, tasks
  <2>2. Same(Method \ {"run", "return", "dependsOn", "enqueue", "wait"})
    BY <1>13, SameCalls
  <2> QED BY <1>1, <2>1, <2>2 DEF Method
<1>14. CASE MReturn(w, h, t) \/ MRelease(w, h, t)
  <2>1. UNCHANGED <<dependents, numPredecessors>>
    BY <1>14 DEF MReturn, MRelease
  <2>2. Same(Method \ {"return", "complete", "release"}) \/ Same(Method \ {"release"})
    BY <1>14, SameCalls
  <2> QED BY <1>1, <2>1, <2>2 DEF Method
<1>15. CASE MWaitOn(w, h, t) \/ MWaited(w, h, t)
  <2>1. UNCHANGED <<dependents, numPredecessors>>
    BY <1>15 DEF MWaitOn, MWaited, tasks
  <2>2. Same(Method \ {"wait"})
    BY <1>15, SameCalls
  <2> QED BY <1>1, <2>1, <2>2 DEF Method
<1> QED BY <1>2, <1>3, <1>4, <1>5, <1>6, <1>7, <1>8, <1>9, <1>10, <1>11, <1>12, <1>13, <1>14, <1>15
    DEF Move

-----------------------------------------------------------------------------
(* Following the continuations.                                             *)

LEMMA FollowsSelf ==
  /\ \A t : Follows(t, t)
  /\ \A t : Follows(t, t)'
BY DEF Follows

LEMMA FollowsOn ==
  ASSUME NEW t, NEW s \in Task, Follows(t, s), state[s] = "CONTINUED"
  PROVE  Follows(t, continuation[s])
BY DEF Follows, Onward

LEMMA FollowsThrough ==
  ASSUME NEW t, NEW s, NEW u, Follows(t, s), Follows(s, u)
  PROVE  Follows(t, u)
BY DEF Follows

LEMMA FollowsStays ==
  ASSUME Permanent, NEW t, NEW s, Follows(t, s)
  PROVE  Follows(t, s)'
<1>1. \A S \in SUBSET Task : Onward(S)' => Onward(S)
  BY DEF Permanent, Onward
<1> QED BY <1>1 DEF Follows

-----------------------------------------------------------------------------
(* The wiring of the calls.                                                 *)

\* A call that stays where it is stays wired.
LEMMA WiredStays ==
  ASSUME Typed, Permanent, \A p \in Task : continuation[p] # None => continuation'[p] = continuation[p],
         NEW v \in Thread, NEW k \in Nat, NEW u \in Task, Wired(v, k, u),
         \A d, s : /\ On(v, k, d, s)' <=> On(v, k, d, s)
                   /\ On(v, k, d, s) => ArgAt(v, k)' = ArgAt(v, k),
         \A d, s : Below(v, k, d, s)' <=> Below(v, k, d, s),
         \/ IsNew(u)'
         \/ ~On(v, k, "dependsOn", u) /\ ~On(v, k, "enqueue", u)
  PROVE  Wired(v, k, u)'
<1>0. None \notin Task /\ prog' = prog
  BY TaskAssumption DEF Permanent
<1>1. \A p : Keeps(p, v, k)' <=> Keeps(p, v, k)
  BY <1>0 DEF Keeps
<1>2. \A p \in Task : continuation[p] = u => continuation'[p] = u
  BY <1>0
<1>3. \A p \in Task : state[p] = "CONTINUED" => state'[p] = "CONTINUED"
  BY DEF Permanent
<1>4. \A p, t : IsCont(p, t)' <=> IsCont(p, t)
  BY <1>0 DEF IsCont
<1>5. \A t, s : Follows(t, s) => Follows(t, s)'
  BY FollowsStays
<1>6. On(v, k, "dependsOn", u)' => WiredDependsOn(v, k, u)'
  <2> SUFFICES ASSUME On(v, k, "dependsOn", u)
               PROVE  WiredDependsOn(v, k, u)'
    OBVIOUS
  <2>1. IsNew(u)' /\ ArgAt(v, k)' = ArgAt(v, k) /\ WiredDependsOn(v, k, u)
    BY DEF Wired
  <2> QED BY <2>1, <1>0, <1>1, <1>4, <1>5 DEF WiredDependsOn
<1>7. On(v, k, "enqueue", u)' => WiredEnqueue(v, k, u)'
  <2> SUFFICES ASSUME On(v, k, "enqueue", u)
               PROVE  WiredEnqueue(v, k, u)'
    OBVIOUS
  <2>1. IsNew(u)' /\ WiredEnqueue(v, k, u)
    BY DEF Wired
  <2> QED BY <2>1, <1>0, <1>1, <1>2, <1>3, <1>4 DEF WiredEnqueue
<1>8. On(v, k, "wait", u)' => WiredWait(v, k, u)'
  BY <1>0, <1>1, <1>5 DEF Wired, WiredWait
<1>9. On(v, k, "splice", u)' => WiredSplice(v, k, u)'
  BY <1>2 DEF Wired, WiredSplice
<1> QED BY <1>6, <1>7, <1>8, <1>9 DEF Wired

\* No call of the wiring is added at height h of w or above.
Wirings == {"dependsOn", "enqueue", "wait", "splice"}

LEMMA WiringKept ==
  ASSUME Typed, Wiring, Permanent,
         \A p \in Task : continuation[p] # None => continuation'[p] = continuation[p],
         NEW w \in Thread, NEW h \in Nat, Upper(w, h), NEW D, Wirings \subseteq D,
         \A k \in Nat, d \in D : \A s : k >= h => ~On(w, k, d, s)',
         \A u \in Task, v \in Thread, k \in Nat :
           (On(v, k, "dependsOn", u) \/ On(v, k, "enqueue", u)) /\ (v # w \/ k < h) => IsNew(u)'
  PROVE  Wiring'
<1>1. ASSUME NEW v \in Thread, NEW k \in Nat, NEW u \in Task
      PROVE  Wired(v, k, u)'
  <2>1. CASE v # w \/ k < h
    <3>1. /\ \A d, s : /\ On(v, k, d, s)' <=> On(v, k, d, s)
                       /\ On(v, k, d, s) => ArgAt(v, k)' = ArgAt(v, k)
          /\ \A d, s : Below(v, k, d, s)' <=> Below(v, k, d, s)
      BY <2>1, BelowStays DEF Upper
    <3>2. Wired(v, k, u)
      BY DEF Wiring
    <3>3. \/ IsNew(u)'
          \/ ~On(v, k, "dependsOn", u) /\ ~On(v, k, "enqueue", u)
      BY <2>1
    <3> QED BY <3>1, <3>2, <3>3, WiredStays
  <2>2. CASE v = w /\ k >= h
    BY <2>2 DEF Wired, Wirings
  <2> QED BY <2>1, <2>2
<1>2. ASSUME NEW u \in Task
      PROVE  EnqueuedOnce(u)'
  <2>1. \A v \in Thread, k \in Nat : v # w \/ k < h \/ (v = w /\ k >= h)
    OBVIOUS
  <2>2. \A v \in Thread, k \in Nat, d \in {"enqueue", "dependsOn"} : On(v, k, d, u)' => On(v, k, d, u)
    BY <2>1 DEF Upper, Wirings
  <2>3. EnqueuedOnce(u)
    BY DEF Wiring
  <2> QED BY <2>2, <2>3 DEF EnqueuedOnce
<1> QED BY <1>1, <1>2 DEF Wiring

\* A body that has not begun, or is over, has wired nothing that is not done.
LEMMA NothingWired ==
  ASSUME Typed, Begun, Wiring, NEW p \in Task, state[p] # "CONTINUED",
         \A v \in Thread, k \in Nat : ~On(v, k, "return", p), NEW s \in Task, s \in prog.makes[p]
  PROVE  \A v \in Thread, k \in Nat : ~On(v, k, "dependsOn", s) /\ ~On(v, k, "enqueue", s)
<1> TAKE v \in Thread, k \in Nat
<1>1. /\ None \notin Task /\ p \in Maker
      /\ \A q \in Maker : s \in prog.makes[q] => q = p
      /\ \A q \in Task : prog.cont[q] = s => q = p
  BY TaskAssumption, ProgramFacts DEF Typed, TypeOK, Maker
<1>2. ~Keeps(p, v, k)
  BY <1>1 DEF Keeps, Below
<1>3. \A q \in Task : continuation[q] = s => q = p
  BY <1>1 DEF Begun
<1>4. /\ On(v, k, "dependsOn", s) => WiredDependsOn(v, k, s)
      /\ On(v, k, "enqueue", s) => WiredEnqueue(v, k, s)
  BY DEF Wiring, Wired
<1>5. ~On(v, k, "dependsOn", s)
  BY <1>1, <1>2, <1>4 DEF WiredDependsOn
<1>6. ~On(v, k, "enqueue", s)
  BY <1>1, <1>2, <1>3, <1>4 DEF WiredEnqueue
<1> QED BY <1>5, <1>6

\* A call with another argument, or for another task, in the place of a call.
LEMMA WiringOne ==
  ASSUME Typed, Wiring, Permanent,
         \A p \in Task : continuation[p] # None => continuation'[p] = continuation[p],
         NEW w \in Thread, NEW h \in Nat, Upper(w, h), NEW d, NEW t \in Task, NEW e, NEW c \in Task,
         NEW x, On(w, h, d, t), OneFrom(w, h, e, c, x), \A u \in Task : IsNew(u) => IsNew(u)',
         \/ e = "wait"
         \/ e = "dependsOn" /\ d = "dependsOn" /\ c = t,
         Wired(w, h, c)'
  PROVE  Wiring'
<1>1. ASSUME NEW v \in Thread, NEW k \in Nat, NEW u \in Task
      PROVE  Wired(v, k, u)'
  <2>1. CASE v # w \/ k < h
    <3>1. /\ \A f, s : /\ On(v, k, f, s)' <=> On(v, k, f, s)
                       /\ On(v, k, f, s) => ArgAt(v, k)' = ArgAt(v, k)
          /\ \A f, s : Below(v, k, f, s)' <=> Below(v, k, f, s)
      BY <2>1, BelowStays DEF Upper
    <3>2. Wired(v, k, u)
      BY DEF Wiring
    <3>3. \/ IsNew(u)'
          \/ ~On(v, k, "dependsOn", u) /\ ~On(v, k, "enqueue", u)
      BY <3>2 DEF Wired, WiredDependsOn, WiredEnqueue
    <3> QED BY <3>1, <3>2, <3>3, WiredStays
  <2>2. CASE v = w /\ k >= h
    BY <2>2 DEF Wired, OneFrom
  <2> QED BY <2>1, <2>2
<1>2. ASSUME NEW u \in Task
      PROVE  EnqueuedOnce(u)'
  <2>1. \A v \in Thread, k \in Nat : v # w \/ k < h \/ (v = w /\ k >= h)
    OBVIOUS
  <2>2. \A v \in Thread, k \in Nat, f \in {"enqueue", "dependsOn"} : On(v, k, f, u)' => On(v, k, f, u)
    BY <2>1 DEF Upper, OneFrom
  <2>3. EnqueuedOnce(u)
    BY DEF Wiring
  <2> QED BY <2>2, <2>3 DEF EnqueuedOnce
<1> QED BY <1>1, <1>2 DEF Wiring

LEMMA WiringForward ==
  ASSUME Typed, OneHand, Begun, Wiring, Permanent, NEW w \in Thread, NEW h \in Nat, NEW t \in Task,
         NEW s \in Task, MForward(w, h, t, s)
  PROVE  Wiring'
<1>0. PICK c : c = continuation[s]
  OBVIOUS
<1>1. /\ Replacing(w, h) /\ On(w, h, "dependsOn", t) /\ ArgAt(w, h) = s
      /\ state[s] = "CONTINUED" /\ c \in Task /\ OneFrom(w, h, "dependsOn", t, c)
      /\ UNCHANGED <<prog, state, continuation>>
  BY <1>0 DEF MForward, tasks
<1>2. PICK p \in Maker : /\ t \in prog.makes[p] /\ Keeps(p, w, h)
                         /\ \E r \in prog.makes[p] : Follows(r, s)
                         /\ Below(w, h, "enqueue", t) \/ IsCont(p, t)
  BY <1>1 DEF Wiring, Wired, WiredDependsOn
<1>3. IsNew(t) /\ Upper(w, h)
  BY <1>1 DEF Wiring, Wired, WiredDependsOn, Replacing
<1>4. c # t
  <2> SUFFICES ASSUME c = t
               PROVE  FALSE
    OBVIOUS
  <2>1. prog.cont[s] = t
    BY <1>0, <1>1, TaskAssumption DEF Begun
  <2>2. p = s
    <3>1. /\ \A q, r \in Maker : t \in prog.makes[q] /\ t \in prog.makes[r] => q = r
          /\ t \in prog.makes[s] /\ s \in Maker
      BY <2>1, ProgramFacts DEF Typed, TypeOK, Maker
    <3> QED BY <1>2, <3>1
  <2>3. PICK j \in Nat : On(w, j, "return", s)
    BY <1>2, <2>2, TaskAssumption DEF Keeps, Below
  <2>4. IsReady(s)
    BY <2>3 DEF OneHand, Hand, Control
  <2> QED BY <1>1, <2>4 DEF IsReady
<1>5. \E r \in prog.makes[p] : Follows(r, c)'
  BY <1>0, <1>1, <1>2, FollowsOn, FollowsStays
<1>6. \A d, u : Below(w, h, d, u)' <=> Below(w, h, d, u)
  BY <1>3, BelowStays
<1>7. Keeps(p, w, h)' /\ (Below(w, h, "enqueue", t) \/ IsCont(p, t))'
  BY <1>1, <1>2, <1>6 DEF Keeps, IsCont
<1>8. IsNew(t)' /\ ArgAt(w, h)' = c /\ prog' = prog
  BY <1>1, <1>3 DEF OneFrom, IsNew
<1>9. WiredDependsOn(w, h, t)'
  BY <1>2, <1>4, <1>5, <1>7, <1>8 DEF WiredDependsOn
<1>10. Wired(w, h, t)'
  BY <1>1, <1>9 DEF Wired, OneFrom
<1>11. \A u \in Task : IsNew(u) => IsNew(u)'
  BY <1>1 DEF IsNew
<1>12. \A q \in Task : continuation[q] # None => continuation'[q] = continuation[q]
  BY <1>1
<1> QED BY <1>1, <1>3, <1>10, <1>11, <1>12, WiringOne

LEMMA WiringWaitOn ==
  ASSUME Typed, OneHand, Begun, Wiring, Permanent, NEW w \in Thread, NEW h \in Nat, NEW t \in Task,
         MWaitOn(w, h, t)
  PROVE  Wiring'
<1>0. PICK c : c = continuation[t]
  OBVIOUS
<1>1. /\ Replacing(w, h) /\ On(w, h, "wait", t)
      /\ state[t] = "CONTINUED" /\ c \in Task /\ OneFrom(w, h, "wait", c, None)
      /\ UNCHANGED <<prog, state, continuation>>
  BY <1>0 DEF MWaitOn, tasks
<1>2. PICK p \in Maker : Keeps(p, w, h) /\ \E r \in prog.makes[p] : Follows(r, t)
  BY <1>1 DEF Wiring, Wired, WiredWait
<1>3. Upper(w, h)
  BY <1>1 DEF Replacing
<1>5. \E r \in prog.makes[p] : Follows(r, c)'
  BY <1>0, <1>1, <1>2, FollowsOn, FollowsStays
<1>6. \A d, u : Below(w, h, d, u)' <=> Below(w, h, d, u)
  BY <1>3, BelowStays
<1>7. Keeps(p, w, h)' /\ prog' = prog
  BY <1>1, <1>2, <1>6 DEF Keeps
<1>9. WiredWait(w, h, c)'
  BY <1>5, <1>7 DEF WiredWait
<1>10. Wired(w, h, c)'
  BY <1>1, <1>9 DEF Wired, OneFrom
<1>11. \A u \in Task : IsNew(u) => IsNew(u)'
  BY <1>1 DEF IsNew
<1>12. \A q \in Task : continuation[q] # None => continuation'[q] = continuation[q]
  BY <1>1
<1> QED BY <1>1, <1>3, <1>10, <1>11, <1>12, WiringOne

LEMMA WiringContinue ==
  ASSUME Typed, OneHand, Begun, Wiring, ContNew, Permanent, NEW w \in Thread, NEW h \in Nat, NEW t \in Task,
         NEW c \in Task, MContinue(w, h, t, c)
  PROVE  Wiring'
<1>1. /\ Replacing(w, h) /\ On(w, h, "complete", t) /\ c = continuation[t]
      /\ \A d, s : On(w, h, d, s)' <=> d = "release" /\ s = t
      /\ \A d, s : On(w, h + 1, d, s)' <=> d = "enqueue" /\ s = c
      /\ \A d, s : On(w, h + 2, d, s)' <=> d = "splice" /\ s = c
      /\ \A k \in Nat : \A d, s : k > h + 2 => ~On(w, k, d, s)'
      /\ state' = [state EXCEPT ![t] = "CONTINUED"]
      /\ UNCHANGED <<prog, continuation>>
  BY DEF MContinue
<1>2. /\ Upper(w, h) /\ IsReady(t)
      /\ \A v \in Thread, k \in Nat : ~On(v, k, "return", t)
  <2>1. Hand(w, h, t)
    BY <1>1 DEF Hand, Control
  <2>2. \A v \in Thread, k \in Nat : On(v, k, "return", t) => v = w /\ k = h
    BY <2>1 DEF OneHand, Hand, Control
  <2>3. ~On(w, h, "return", t)
    BY <1>1, OneCall
  <2> QED BY <1>1, <2>1, <2>2, <2>3 DEF OneHand, Replacing
<1>3. prog.cont[t] = c /\ c \in prog.makes[t] /\ c # t
  BY <1>1, TaskAssumption, ProgramFacts DEF Begun, Typed, TypeOK
<1>4. state[t] # "CONTINUED" /\ ~IsNew(t)
  BY <1>2 DEF IsReady, IsNew
<1>5. \A v \in Thread, k \in Nat : ~On(v, k, "dependsOn", c) /\ ~On(v, k, "enqueue", c)
  BY <1>2, <1>3, <1>4, NothingWired
<1>6. state'[t] = "CONTINUED" /\ \A u \in Task : u # t => state'[u] = state[u]
  BY <1>1 DEF Typed, TypeOK
<1>7. \A u \in Task : IsNew(u) => IsNew(u)'
  BY <1>4, <1>6 DEF IsNew
<1>8. IsNew(c)'
  BY <1>3, <1>4, <1>7 DEF ContNew
<1>9. PICK m \in Nat : m = h + 1 /\ m > h
  OBVIOUS
<1>10. PICK n \in Nat : n = h + 2 /\ n > h
  OBVIOUS
<1>11. \A k \in Nat : k < h \/ k = h \/ k = m \/ k = n \/ k > h + 2
  BY <1>9, <1>10
<1>12. /\ \A d, s : On(w, m, d, s)' <=> d = "enqueue" /\ s = c
       /\ \A d, s : On(w, n, d, s)' <=> d = "splice" /\ s = c
  BY <1>1, <1>9, <1>10
<1>13. continuation'[t] = c /\ On(w, h, "release", t)'
  BY <1>1
<1>14. WiredEnqueue(w, m, c)'
  BY <1>6, <1>8, <1>9, <1>13 DEF WiredEnqueue, Below
<1>15. WiredSplice(w, n, c)'
  BY <1>10, <1>13 DEF WiredSplice, Below
<1>16. ASSUME NEW v \in Thread, NEW k \in Nat, NEW u \in Task
       PROVE  Wired(v, k, u)'
  <2>1. CASE v # w \/ k < h
    <3>1. /\ \A f, s : /\ On(v, k, f, s)' <=> On(v, k, f, s)
                       /\ On(v, k, f, s) => ArgAt(v, k)' = ArgAt(v, k)
          /\ \A f, s : Below(v, k, f, s)' <=> Below(v, k, f, s)
      BY <1>2, <2>1, BelowStays DEF Upper
    <3>2. Wired(v, k, u)
      BY DEF Wiring
    <3>3. \/ IsNew(u)'
          \/ ~On(v, k, "dependsOn", u) /\ ~On(v, k, "enqueue", u)
      BY <1>7, <3>2 DEF Wired, WiredDependsOn, WiredEnqueue
    <3>4. \A q \in Task : continuation[q] # None => continuation'[q] = continuation[q]
      BY <1>1
    <3> QED BY <3>1, <3>2, <3>3, <3>4, WiredStays
  <2>2. CASE v = w /\ k = h
    BY <1>1, <2>2 DEF Wired
  <2>3. CASE v = w /\ k = m
    BY <1>12, <1>14, <2>3 DEF Wired
  <2>4. CASE v = w /\ k = n
    BY <1>12, <1>15, <2>4 DEF Wired
  <2>5. CASE v = w /\ k > h + 2
    BY <1>1, <2>5 DEF Wired
  <2> QED BY <1>11, <2>1, <2>2, <2>3, <2>4, <2>5
<1>17. \A v \in Thread, k \in Nat : \A u : /\ On(v, k, "dependsOn", u)' => On(v, k, "dependsOn", u)
                                           /\ On(v, k, "enqueue", u)' =>
                                                On(v, k, "enqueue", u) \/ (v = w /\ k = m /\ u = c)
  BY <1>1, <1>2, <1>11, <1>12 DEF Upper
<1>18. ASSUME NEW u \in Task
       PROVE  EnqueuedOnce(u)'
  <2>1. EnqueuedOnce(u)
    BY DEF Wiring
  <2> QED BY <1>5, <1>17, <2>1 DEF EnqueuedOnce
<1> QED BY <1>16, <1>18 DEF Wiring

LEMMA WiringRun ==
  ASSUME Typed, OneHand, Begun, Wiring, Fresh, Permanent, NEW w \in Thread, NEW h \in Nat, NEW t \in Task,
         MRun(w, h, t)
  PROVE  Wiring'
<1>0. PICK n : n = Len(Body(t))
  OBVIOUS
<1>1. /\ Replacing(w, h) /\ On(w, h, "run", t)
      /\ \A d, s : On(w, h, d, s)' <=> d = "return" /\ s = t
      /\ Lays(w, h, n, t)
      /\ UNCHANGED <<prog, state, continuation>>
  BY <1>0 DEF MRun, tasks
<1>2. Upper(w, h) /\ started[t] = 0 /\ IsReady(t) /\ \A v \in Thread, k \in Nat : ~On(v, k, "return", t)
  <2>1. Hand(w, h, t)
    BY <1>1 DEF Hand, Control
  <2>2. \A v \in Thread, k \in Nat : On(v, k, "return", t) => v = w /\ k = h
    BY <2>1 DEF OneHand, Hand, Control
  <2> QED BY <1>1, <2>1, <2>2, OneCall DEF OneHand, Replacing, Begun
<1>3. /\ t \in Maker /\ None \notin Task /\ n \in Nat /\ prog \in Programs
      /\ \A s \in prog.makes[t] : s \in Task
  BY <1>0, TaskAssumption, ProgramFacts, LenProperties DEF Typed, TypeOK, Maker
<1>4. \A s \in prog.makes[t] : IsNew(s)
  BY <1>2 DEF Fresh
<1>5. ASSUME NEW s \in prog.makes[t]
      PROVE  \A v \in Thread, k \in Nat : ~On(v, k, "dependsOn", s) /\ ~On(v, k, "enqueue", s)
  <2>1. state[t] # "CONTINUED"
    BY <1>2 DEF IsReady
  <2> QED BY <1>2, <1>3, <2>1, NothingWired
<1>6. \A u \in Task : IsNew(u) => IsNew(u)'
  BY <1>1 DEF IsNew
<1> DEFINE b == Body(t)
           at(i) == h + n + 1 - i
<1>7. \A i \in 1 .. n : /\ b[i].do \in {"dependsOn", "enqueue", "wait"} /\ b[i].t \in prog.makes[t]
                        /\ b[i].do = "dependsOn" =>
                             /\ b[i].arg \in prog.makes[t] /\ b[i].arg # b[i].t
                             /\ \/ IsCont(t, b[i].t)
                                \/ \E j \in 1 .. n : j > i /\ b[j].do = "enqueue" /\ b[j].t = b[i].t
                        /\ b[i].do = "enqueue" =>
                             /\ ~IsCont(t, b[i].t)
                             /\ \A j \in 1 .. n : b[j].do = "enqueue" /\ b[j].t = b[i].t => j = i
  BY <1>0, <1>3, BodyFacts
<1>8. \A k \in Nat : k > h =>
        /\ \A d, s : On(w, k, d, s)' <=> at(k) \in 1 .. n /\ b[at(k)].do = d /\ b[at(k)].t = s
        /\ at(k) \in 1 .. n => ArgAt(w, k)' = b[at(k)].arg
  BY <1>1 DEF Lays
<1>9. /\ \A i \in 1 .. n : at(i) \in Nat /\ at(i) > h /\ at(at(i)) = i
      /\ \A k \in Nat : at(k) \in 1 .. n => at(at(k)) = k
      /\ \A i, j \in 1 .. n : i > j => at(i) < at(j)
      /\ \A k, j \in Nat : at(k) > at(j) => k < j
      /\ \A k \in Nat : \A i : at(k) \in 1 .. n /\ i \in 1 .. n /\ i > at(k) => at(i) < k
      /\ \A k, j \in Nat : at(k) = at(j) => k = j
  BY <1>3
<1> HIDE DEF b, at
<1>10. prog' = prog /\ \A s : IsCont(t, s)' <=> IsCont(t, s)
  BY <1>1 DEF IsCont
<1>11. \A k \in Nat : k > h => Keeps(t, w, k)'
  BY <1>1, <1>3 DEF Keeps, Below
<1>12. ASSUME NEW k \in Nat, k > h, NEW u \in Task
       PROVE  Wired(w, k, u)'
  <2>0. PICK i : i = at(k)
    OBVIOUS
  <2>1. /\ \A d, s : On(w, k, d, s)' <=> i \in 1 .. n /\ b[i].do = d /\ b[i].t = s
        /\ i \in 1 .. n => ArgAt(w, k)' = b[i].arg
    BY <1>8, <1>12, <2>0
  <2>2. ASSUME On(w, k, "dependsOn", u)'
        PROVE  WiredDependsOn(w, k, u)'
    <3>1. /\ i \in 1 .. n /\ b[i].do = "dependsOn" /\ b[i].t = u /\ ArgAt(w, k)' = b[i].arg
          /\ u \in prog.makes[t] /\ b[i].arg \in prog.makes[t] /\ b[i].arg # u
      BY <1>7, <2>1, <2>2
    <3>2. IsNew(u)'
      BY <1>4, <1>6, <3>1
    <3>3. (Below(w, k, "enqueue", u) \/ IsCont(t, u))'
      <4>1. CASE IsCont(t, u)
        BY <1>10, <4>1
      <4>2. CASE \E j \in 1 .. n : j > i /\ b[j].do = "enqueue" /\ b[j].t = u
        <5>1. PICK j \in 1 .. n : j > i /\ b[j].do = "enqueue" /\ b[j].t = u
          BY <4>2
        <5>2. PICK q \in Nat : q = at(j) /\ q > h /\ q < k /\ at(q) = j
          BY <1>9, <2>0, <3>1, <5>1
        <5>3. On(w, q, "enqueue", u)'
          BY <1>8, <5>1, <5>2
        <5> QED BY <5>2, <5>3 DEF Below
      <4> QED BY <1>7, <3>1, <4>1, <4>2
    <3>4. PICK x : x = b[i].arg
      OBVIOUS
    <3>5. Follows(x, x)'
      BY FollowsSelf
    <3>6. ArgAt(w, k)' = x /\ x \in prog'.makes[t] /\ x # u /\ u \in prog'.makes[t]
      BY <1>10, <3>1, <3>4
    <3>7. Keeps(t, w, k)'
      BY <1>11, <1>12
    <3> QED BY <1>3, <3>2, <3>3, <3>5, <3>6, <3>7 DEF WiredDependsOn
  <2>3. ASSUME On(w, k, "enqueue", u)'
        PROVE  WiredEnqueue(w, k, u)'
    <3>1. i \in 1 .. n /\ b[i].do = "enqueue" /\ b[i].t = u /\ u \in prog.makes[t] /\ ~IsCont(t, u)
      BY <1>7, <2>1, <2>3
    <3>2. IsNew(u)'
      BY <1>4, <1>6, <3>1
    <3> QED BY <1>3, <1>10, <1>11, <1>12, <3>1, <3>2 DEF WiredEnqueue
  <2>4. ASSUME On(w, k, "wait", u)'
        PROVE  WiredWait(w, k, u)'
    <3>1. u \in prog.makes[t]
      BY <1>7, <2>1, <2>4
    <3>2. Follows(u, u)'
      BY FollowsSelf
    <3> QED BY <1>3, <1>10, <1>11, <1>12, <3>1, <3>2 DEF WiredWait
  <2>5. ~On(w, k, "splice", u)'
    BY <1>7, <2>1
  <2> QED BY <2>2, <2>3, <2>4, <2>5 DEF Wired
<1>13. ASSUME NEW v \in Thread, NEW k \in Nat, NEW u \in Task
       PROVE  Wired(v, k, u)'
  <2>1. CASE v # w \/ k < h
    <3>1. /\ \A f, s : /\ On(v, k, f, s)' <=> On(v, k, f, s)
                       /\ On(v, k, f, s) => ArgAt(v, k)' = ArgAt(v, k)
          /\ \A f, s : Below(v, k, f, s)' <=> Below(v, k, f, s)
      BY <1>2, <2>1, BelowStays DEF Upper
    <3>2. Wired(v, k, u)
      BY DEF Wiring
    <3>3. \/ IsNew(u)'
          \/ ~On(v, k, "dependsOn", u) /\ ~On(v, k, "enqueue", u)
      BY <1>6, <3>2 DEF Wired, WiredDependsOn, WiredEnqueue
    <3>4. \A q \in Task : continuation[q] # None => continuation'[q] = continuation[q]
      BY <1>1
    <3> QED BY <3>1, <3>2, <3>3, <3>4, WiredStays
  <2>2. CASE v = w /\ k = h
    BY <1>1, <2>2 DEF Wired
  <2>3. CASE v = w /\ k > h
    BY <1>12, <2>3
  <2>4. v # w \/ k < h \/ (v = w /\ (k = h \/ k > h))
    OBVIOUS
  <2> QED BY <2>1, <2>2, <2>3, <2>4
<1>14. ASSUME NEW u \in Task
       PROVE  EnqueuedOnce(u)'
  <2>0. \A v \in Thread, k \in Nat : v # w \/ k < h \/ (v = w /\ (k = h \/ k > h))
    OBVIOUS
  <2>1. EnqueuedOnce(u)
    BY DEF Wiring
  <2>2. CASE u \notin prog.makes[t]
    <3>1. \A k \in Nat, d \in {"dependsOn", "enqueue"} : k = h \/ k > h => ~On(w, k, d, u)'
      BY <1>1, <1>7, <1>8, <2>2
    <3>2. \A v \in Thread, k \in Nat, d \in {"dependsOn", "enqueue"} : On(v, k, d, u)' => On(v, k, d, u)
      BY <1>2, <2>0, <3>1 DEF Upper
    <3> QED BY <2>1, <3>2 DEF EnqueuedOnce
  <2>3. CASE u \in prog.makes[t]
    <3>1. \A v \in Thread, k \in Nat, d \in {"dependsOn", "enqueue"} :
            On(v, k, d, u)' => /\ v = w /\ k > h
                               /\ at(k) \in 1 .. n /\ b[at(k)].do = d /\ b[at(k)].t = u
      BY <1>1, <1>2, <1>5, <1>8, <2>0, <2>3 DEF Upper
    <3>2. ASSUME NEW i \in 1 .. n, NEW j \in 1 .. n, b[j].do = "enqueue", b[j].t = u, b[i].t = u
          PROVE  /\ b[i].do = "enqueue" => i = j
                 /\ b[i].do = "dependsOn" => j > i
      BY <1>7, <3>2
    <3> QED BY <1>9, <3>1, <3>2 DEF EnqueuedOnce
  <2> QED BY <2>2, <2>3
<1> QED BY <1>13, <1>14 DEF Wiring

\* A task is new until it is enqueued.
LEMMA NewStays ==
  ASSUME Typed, OneHand, NEW w \in Thread, NEW h \in Nat, NEW t \in Task, Move(w, h, t)
  PROVE  \A u \in Task : IsNew(u) => IsNew(u)' \/ (u = t /\ On(w, h, "enqueue", t))
<1> DEFINE P == \A u \in Task : IsNew(u) => IsNew(u)' \/ (u = t /\ On(w, h, "enqueue", t))
<1> SUFFICES P
  OBVIOUS
<1>0. ASSUME NEW d \in Control, On(w, h, d, t)
      PROVE  ~IsNew(t)
  BY <1>0 DEF OneHand, Hand, IsReady, IsNew
<1>1. ASSUME UNCHANGED state
      PROVE  P
  BY <1>1 DEF IsNew
<1>2. ASSUME ~IsNew(t), NEW x, state' = [state EXCEPT ![t] = x]
      PROVE  P
  BY <1>2 DEF IsNew, Typed, TypeOK
<1>3. ASSUME NEW x, state' = [state EXCEPT ![t] = x], On(w, h, "enqueue", t)
      PROVE  P
  BY <1>3 DEF IsNew, Typed, TypeOK
<1> HIDE DEF P
<1>4. ASSUME NEW s \in Task,
             \/ MForward(w, h, t, s) \/ MFinished(w, h, t, s) \/ MRegister(w, h, t, s)
             \/ MDelete(w, h, t, s)
      PROVE  P
  BY <1>1, <1>4 DEF MForward, MFinished, MRegister, MDelete, tasks
<1>5. ASSUME NEW s \in Task, MContinue(w, h, t, s)
      PROVE  P
  BY <1>0, <1>2, <1>5 DEF MContinue, Control
<1>6. ASSUME NEW n \in Nat, MComplete(w, h, t, n)
      PROVE  P
  BY <1>0, <1>2, <1>6 DEF MComplete, Control
<1>7. ASSUME NEW x, MTake(w, h, t, x)
      PROVE  P
  BY <1>1, <1>7 DEF MTake, tasks
<1>8. ASSUME NEW d, NEW x, MLast(w, h, t, d, x)
      PROVE  P
  BY <1>2, <1>8 DEF MLast, IsBlocked, IsNew
<1>9. CASE MPending(w, h, t) \/ MReady(w, h, t)
  BY <1>3, <1>9 DEF MPending, MReady
<1>10. CASE MInline(w, h, t) \/ MQueue(w, h, t) \/ MSend(w, h, t)
  BY <1>1, <1>10 DEF MInline, MQueue, MSend, tasks
<1>11. CASE MKeep(w, h, t)
  BY <1>0, <1>2, <1>11 DEF MKeep, Control
<1>12. CASE MCompletes(w, h, t) \/ MCancelled(w, h, t) \/ MRun(w, h, t) \/ MReturn(w, h, t)
  BY <1>1, <1>12 DEF MCompletes, MCancelled, MRun, MReturn, tasks
<1>13. CASE MSplice(w, h, t) \/ MDecrement(w, h, t) \/ MRelease(w, h, t)
  BY <1>1, <1>13 DEF MSplice, MDecrement, MRelease
<1>14. CASE MWaitOn(w, h, t) \/ MWaited(w, h, t)
  BY <1>1, <1>14 DEF MWaitOn, MWaited, tasks
<1> QED BY <1>4, <1>5, <1>6, <1>7, <1>8, <1>9, <1>10, <1>11, <1>12, <1>13, <1>14 DEF Move

\* A task gets its continuation once, when its body returns.
LEMMA ContinuationStays ==
  ASSUME Typed, Begun, NEW w \in Thread, NEW h \in Nat, NEW t \in Task, Move(w, h, t)
  PROVE  /\ \A p \in Task : continuation[p] # None => continuation'[p] = continuation[p]
         /\ UNCHANGED continuation \/ MReturn(w, h, t)
<1>1. UNCHANGED continuation \/ MReturn(w, h, t)
  <2>1. ASSUME NEW s \in Task,
               \/ MForward(w, h, t, s) \/ MFinished(w, h, t, s) \/ MRegister(w, h, t, s)
               \/ MDelete(w, h, t, s) \/ MContinue(w, h, t, s)
        PROVE  UNCHANGED continuation
    BY <2>1 DEF MForward, MFinished, MRegister, MDelete, MContinue, tasks
  <2>2. /\ \A n : MComplete(w, h, t, n) => UNCHANGED continuation
        /\ \A x : MTake(w, h, t, x) => UNCHANGED continuation
        /\ \A d, x : MLast(w, h, t, d, x) => UNCHANGED continuation
    BY DEF MComplete, MTake, MLast, tasks
  <2>3. MPending(w, h, t) \/ MReady(w, h, t) \/ MInline(w, h, t) \/ MQueue(w, h, t)
        \/ MSend(w, h, t) \/ MKeep(w, h, t) \/ MCompletes(w, h, t) => UNCHANGED continuation
    BY DEF MPending, MReady, MInline, MQueue, MSend, MKeep, MCompletes, tasks
  <2>4. MCancelled(w, h, t) \/ MRun(w, h, t) \/ MSplice(w, h, t) \/ MDecrement(w, h, t)
        \/ MRelease(w, h, t) \/ MWaitOn(w, h, t) \/ MWaited(w, h, t) => UNCHANGED continuation
    BY DEF MCancelled, MRun, MSplice, MDecrement, MRelease, MWaitOn, MWaited, tasks
  <2> QED BY <2>1, <2>2, <2>3, <2>4 DEF Move
<1>2. CASE MReturn(w, h, t)
  <2>1. continuation[t] = None /\ continuation' = [continuation EXCEPT ![t] = prog.cont[t]]
    BY <1>2 DEF MReturn, Begun
  <2> QED BY <1>2, <2>1 DEF Typed, TypeOK
<1> QED BY <1>1, <1>2

LEMMA WiringStays ==
  ASSUME Typed, OneHand, Begun, Wiring, Fresh, ContNew, NEW w \in Thread, NEW h \in Nat, NEW t \in Task,
         Move(w, h, t)
  PROVE  Wiring'
<1>1. Permanent /\ \A p \in Task : continuation[p] # None => continuation'[p] = continuation[p]
  BY PermanentStates, ContinuationStays
<1>2. ASSUME Upper(w, h), \A k \in Nat, d \in Wirings : \A s : k >= h => ~On(w, k, d, s)'
      PROVE  Wiring'
  <2>1. ASSUME NEW u \in Task, NEW v \in Thread, NEW k \in Nat,
               On(v, k, "dependsOn", u) \/ On(v, k, "enqueue", u), v # w \/ k < h
        PROVE  IsNew(u)'
    <3>1. IsNew(u) /\ EnqueuedOnce(u)
      BY <2>1 DEF Wiring, Wired, WiredDependsOn, WiredEnqueue
    <3>2. IsNew(u)' \/ On(w, h, "enqueue", u)
      BY <3>1, NewStays
    <3>3. ~On(w, h, "enqueue", u)
      <4> SUFFICES ASSUME On(w, h, "enqueue", u)
                   PROVE  FALSE
        OBVIOUS
      <4>1. v = w /\ (k = h \/ h < k)
        BY <2>1, <3>1 DEF EnqueuedOnce
      <4> QED BY <2>1, <4>1
    <3> QED BY <3>2, <3>3
  <2> QED BY <1>1, <1>2, <2>1, WiringKept
<1>3. ASSUME Replacing(w, h), NoneFrom(w, h)
      PROVE  Wiring'
  BY <1>2, <1>3 DEF Replacing, NoneFrom
<1>4. ASSUME NEW e, e \notin Wirings, NEW u, NEW x, Replacing(w, h), OneFrom(w, h, e, u, x)
      PROVE  Wiring'
  BY <1>2, <1>4 DEF Replacing, OneFrom
<1>5. ASSUME NEW f, f.do \notin Wirings, Pushing(w, h, f)
      PROVE  Wiring'
  BY <1>2, <1>5 DEF Pushing
<1>6. ASSUME NEW s \in Task, MForward(w, h, t, s)
      PROVE  Wiring'
  BY <1>1, <1>6, WiringForward
<1>7. ASSUME NEW s \in Task, MFinished(w, h, t, s) \/ MRegister(w, h, t, s) \/ MDelete(w, h, t, s)
      PROVE  Wiring'
  BY <1>3, <1>4, <1>7 DEF MFinished, MRegister, MDelete, Wirings
<1>8. ASSUME NEW s \in Task, MContinue(w, h, t, s)
      PROVE  Wiring'
  BY <1>1, <1>8, WiringContinue
<1>9. ASSUME NEW n \in Nat, MComplete(w, h, t, n)
      PROVE  Wiring'
  <2>1. \A k \in Nat : k >= h => k = h \/ k > h
    OBVIOUS
  <2>2. \A k \in Nat, d \in Wirings : \A s : k >= h => ~On(w, k, d, s)'
    BY <2>1, <1>9 DEF MComplete, Wirings
  <2> QED BY <1>2, <1>9, <2>2 DEF MComplete, Replacing
<1>10. ASSUME NEW x, MTake(w, h, t, x)
       PROVE  Wiring'
  BY <1>5, <1>10 DEF MTake, Call, Wirings
<1>11. ASSUME NEW d \in {"run", "schedule"}, NEW x, MLast(w, h, t, d, x)
       PROVE  Wiring'
  BY <1>4, <1>11 DEF MLast, Wirings
<1>12. CASE MPending(w, h, t) \/ MReady(w, h, t) \/ MInline(w, h, t) \/ MQueue(w, h, t) \/ MSend(w, h, t)
  BY <1>3, <1>4, <1>12 DEF MPending, MReady, MInline, MQueue, MSend, Wirings
<1>13. CASE MKeep(w, h, t)
  <2>1. UNCHANGED stack
    BY <1>13 DEF MKeep
  <2>2. \A v \in Thread : \A k, d, s : /\ On(v, k, d, s)' <=> On(v, k, d, s)
                                       /\ ArgAt(v, k)' = ArgAt(v, k)
                                       /\ Below(v, k, d, s)' <=> Below(v, k, d, s)
    BY <2>1 DEF On, ArgAt, CallAt, Below
  <2>3. \A u \in Task : IsNew(u) => IsNew(u)'
    <3>1. ~On(w, h, "enqueue", t)
      BY <1>13, OneCall DEF MKeep
    <3> QED BY <3>1, NewStays
  <2>4. ASSUME NEW v \in Thread, NEW k \in Nat, NEW u \in Task
        PROVE  Wired(v, k, u)'
    <3>1. Wired(v, k, u)
      BY DEF Wiring
    <3>2. \/ IsNew(u)'
          \/ ~On(v, k, "dependsOn", u) /\ ~On(v, k, "enqueue", u)
      BY <2>3, <3>1 DEF Wired, WiredDependsOn, WiredEnqueue
    <3> QED BY <1>1, <2>2, <3>1, <3>2, WiredStays
  <2>5. \A u \in Task : EnqueuedOnce(u)'
    BY <2>2 DEF Wiring, EnqueuedOnce
  <2> QED BY <2>4, <2>5 DEF Wiring
<1>14. CASE MCompletes(w, h, t)
  BY <1>5, <1>14 DEF MCompletes, Call, Wirings
<1>15. CASE MCancelled(w, h, t)
  BY <1>4, <1>15 DEF MCancelled, Wirings
<1>16. CASE MRun(w, h, t)
  BY <1>1, <1>16, WiringRun
<1>17. CASE MReturn(w, h, t)
  <2>1. \A k \in Nat : k >= h => k = h \/ k > h
    OBVIOUS
  <2>2. \A k \in Nat, d \in Wirings : \A s : k >= h => ~On(w, k, d, s)'
    BY <2>1, <1>17 DEF MReturn, Wirings
  <2> QED BY <1>2, <1>17, <2>2 DEF MReturn, Replacing
<1>18. CASE MSplice(w, h, t) \/ MDecrement(w, h, t) \/ MRelease(w, h, t) \/ MWaited(w, h, t)
  BY <1>3, <1>18 DEF MSplice, MDecrement, MRelease, MWaited
<1>19. CASE MWaitOn(w, h, t)
  BY <1>1, <1>19, WiringWaitOn
<1> QED BY <1>6, <1>7, <1>8, <1>9, <1>10, <1>11, <1>12, <1>13, <1>14, <1>15, <1>16, <1>17, <1>18, <1>19
    DEF Move

-----------------------------------------------------------------------------
(* What a move does to the calls.                                           *)

\* Only the call on top is lost.
LEMMA CallStays ==
  ASSUME NEW w \in Thread, NEW h \in Nat, NEW t \in Task, Move(w, h, t)
  PROVE  \A v \in Thread, k \in Nat : \A d, s :
           On(v, k, d, s) /\ ~(v = w /\ k = h) => On(v, k, d, s)' /\ ArgAt(v, k)' = ArgAt(v, k)
<1> DEFINE P == \A v \in Thread, k \in Nat : \A d, s :
           On(v, k, d, s) /\ ~(v = w /\ k = h) => On(v, k, d, s)' /\ ArgAt(v, k)' = ArgAt(v, k)
<1>0. \A v \in Thread, k \in Nat : v # w \/ k < h \/ (v = w /\ k = h) \/ (v = w /\ k > h)
  OBVIOUS
<1>1. ASSUME Replacing(w, h)
      PROVE  P
  BY <1>0, <1>1 DEF Replacing, Upper
<1>2. ASSUME NEW f, Pushing(w, h, f)
      PROVE  P
  <2>1. \A k \in Nat : \A d, s : k > h => ~On(w, k, d, s)
    BY <1>2 DEF Pushing
  <2> QED BY <1>0, <1>2, <2>1 DEF Pushing, Upper
<1>3. ASSUME UNCHANGED stack
      PROVE  P
  BY <1>3 DEF On, ArgAt, CallAt
<1> SUFFICES P
  OBVIOUS
<1> HIDE DEF P
<1>4. ASSUME NEW s \in Task,
             \/ MForward(w, h, t, s) \/ MFinished(w, h, t, s) \/ MRegister(w, h, t, s)
             \/ MDelete(w, h, t, s) \/ MContinue(w, h, t, s)
      PROVE  P
  BY <1>1, <1>4 DEF MForward, MFinished, MRegister, MDelete, MContinue
<1>5. /\ \A n : MComplete(w, h, t, n) => P
      /\ \A x : MTake(w, h, t, x) => P
      /\ \A d, x : MLast(w, h, t, d, x) => P
  BY <1>1, <1>2 DEF MComplete, MTake, MLast
<1>6. CASE MPending(w, h, t) \/ MReady(w, h, t) \/ MInline(w, h, t) \/ MQueue(w, h, t)
           \/ MSend(w, h, t)
  BY <1>1, <1>6 DEF MPending, MReady, MInline, MQueue, MSend
<1>7. CASE MKeep(w, h, t) \/ MCompletes(w, h, t)
  BY <1>2, <1>3, <1>7 DEF MKeep, MCompletes
<1>8. CASE MCancelled(w, h, t) \/ MRun(w, h, t) \/ MReturn(w, h, t) \/ MSplice(w, h, t)
           \/ MDecrement(w, h, t) \/ MRelease(w, h, t) \/ MWaitOn(w, h, t) \/ MWaited(w, h, t)
  BY <1>1, <1>8 DEF MCancelled, MRun, MReturn, MSplice, MDecrement, MRelease, MWaitOn, MWaited
<1> QED BY <1>4, <1>5, <1>6, <1>7, <1>8 DEF Move

\* The call on top says which move it is.
LEMMA TopMoves ==
  ASSUME NEW w \in Thread, NEW h \in Nat, NEW t \in Task, Move(w, h, t), NEW d, NEW u, On(w, h, d, u)
  PROVE  /\ u = t
         /\ d = "enqueue" => MPending(w, h, t) \/ MReady(w, h, t)
         /\ d = "return" => MReturn(w, h, t)
         /\ d = "splice" => MSplice(w, h, t)
         /\ d = "dependsOn" => \E s \in Task : \/ MForward(w, h, t, s) \/ MFinished(w, h, t, s)
                                               \/ MRegister(w, h, t, s)
<1>0. \A e, s : On(w, h, e, s) => e = d /\ s = u
  BY OneCall
<1>1. \A f : ~Pushing(w, h, f)
  BY DEF Pushing
<1>2. ASSUME NEW s \in Task,
             \/ MForward(w, h, t, s) \/ MFinished(w, h, t, s) \/ MRegister(w, h, t, s)
      PROVE  u = t /\ d = "dependsOn"
  BY <1>0, <1>2 DEF MForward, MFinished, MRegister
<1>3. ASSUME NEW s \in Task, MDelete(w, h, t, s) \/ MContinue(w, h, t, s)
      PROVE  u = t /\ d \in {"release", "complete"}
  BY <1>0, <1>3 DEF MDelete, MContinue
<1>4. /\ \A n : MComplete(w, h, t, n) => u = t /\ d = "complete"
      /\ \A x : ~MTake(w, h, t, x)
      /\ \A e, x : MLast(w, h, t, e, x) => u = t /\ d = "decrement"
  BY <1>0, <1>1 DEF MComplete, MTake, MLast
<1>5. /\ MPending(w, h, t) \/ MReady(w, h, t) => u = t /\ d = "enqueue"
      /\ MInline(w, h, t) \/ MQueue(w, h, t) \/ MSend(w, h, t) \/ MKeep(w, h, t)
           => u = t /\ d = "schedule"
      /\ ~MCompletes(w, h, t)
  BY <1>0, <1>1 DEF MPending, MReady, MInline, MQueue, MSend, MKeep, MCompletes
<1>6. /\ MCancelled(w, h, t) \/ MRun(w, h, t) => u = t /\ d = "run"
      /\ MReturn(w, h, t) => u = t /\ d = "return"
      /\ MSplice(w, h, t) => u = t /\ d = "splice"
  BY <1>0 DEF MCancelled, MRun, MReturn, MSplice
<1>7. /\ MDecrement(w, h, t) => u = t /\ d = "decrement"
      /\ MRelease(w, h, t) => u = t /\ d = "release"
      /\ MWaitOn(w, h, t) \/ MWaited(w, h, t) => u = t /\ d = "wait"
  BY <1>0 DEF MDecrement, MRelease, MWaitOn, MWaited
<1> QED BY <1>2, <1>3, <1>4, <1>5, <1>6, <1>7 DEF Move

LEMMA StartedStays ==
  ASSUME NEW w \in Thread, NEW h \in Nat, NEW t \in Task, Move(w, h, t)
  PROVE  UNCHANGED started \/ MRun(w, h, t)
<1>1. ASSUME NEW s \in Task,
             \/ MForward(w, h, t, s) \/ MFinished(w, h, t, s) \/ MRegister(w, h, t, s)
             \/ MDelete(w, h, t, s) \/ MContinue(w, h, t, s)
      PROVE  UNCHANGED started
  BY <1>1 DEF MForward, MFinished, MRegister, MDelete, MContinue
<1>2. /\ \A n : MComplete(w, h, t, n) => UNCHANGED started
      /\ \A x : MTake(w, h, t, x) => UNCHANGED started
      /\ \A d, x : MLast(w, h, t, d, x) => UNCHANGED started
  BY DEF MComplete, MTake, MLast
<1>3. MPending(w, h, t) \/ MReady(w, h, t) \/ MInline(w, h, t) \/ MQueue(w, h, t)
      \/ MSend(w, h, t) \/ MKeep(w, h, t) \/ MCompletes(w, h, t) => UNCHANGED started
  BY DEF MPending, MReady, MInline, MQueue, MSend, MKeep, MCompletes
<1>4. MCancelled(w, h, t) \/ MReturn(w, h, t) \/ MSplice(w, h, t) \/ MDecrement(w, h, t)
      \/ MRelease(w, h, t) \/ MWaitOn(w, h, t) \/ MWaited(w, h, t) => UNCHANGED started
  BY DEF MCancelled, MReturn, MSplice, MDecrement, MRelease, MWaitOn, MWaited
<1> QED BY <1>1, <1>2, <1>3, <1>4 DEF Move

\* A task is enqueued by its creator, or by the task it continues.
LEMMA EnqueueWired ==
  ASSUME Typed, Begun, Wiring, NEW w \in Thread, NEW h \in Nat, NEW t \in Task, On(w, h, "enqueue", t),
         NEW p \in Task, t \in prog.makes[p]
  PROVE  started[p] = 1 /\ (prog.cont[p] = t => state[p] = "CONTINUED")
<1>1. /\ None \notin Task /\ p \in Maker
      /\ \A q \in Maker : t \in prog.makes[q] => q = p
      /\ \A q \in Task : prog.cont[q] = t => q = p
  BY TaskAssumption, ProgramFacts DEF Typed, TypeOK, Maker
<1>2. WiredEnqueue(w, h, t)
  BY DEF Wiring, Wired
<1>3. CASE Keeps(p, w, h) /\ ~IsCont(p, t)
  <2>1. \E k \in Nat : On(w, k, "return", p)
    BY <1>1, <1>3 DEF Keeps, Below
  <2> QED BY <1>1, <1>3, <2>1 DEF Begun, IsCont
<1>4. CASE continuation[p] = t /\ state[p] = "CONTINUED"
  BY <1>1, <1>4 DEF Begun
<1> QED BY <1>1, <1>2, <1>3, <1>4 DEF WiredEnqueue, Begun

LEMMA FreshStays ==
  ASSUME Typed, OneHand, Begun, Wiring, Fresh, NEW w \in Thread, NEW h \in Nat, NEW t \in Task,
         Move(w, h, t)
  PROVE  Fresh'
<1>0. prog' = prog
  BY PermanentStates DEF Permanent
<1> SUFFICES ASSUME NEW p \in Task, started'[p] = 0, NEW u \in prog.makes[p]
             PROVE  IsNew(u)'
  BY <1>0 DEF Fresh
<1>1. u \in Task
  BY ProgramFacts DEF Typed, TypeOK, Maker
<1>2. started[p] = 0
  <2>1. CASE UNCHANGED started
    BY <2>1
  <2>2. CASE MRun(w, h, t)
    <3>1. started' = [started EXCEPT ![t] = @ + 1] /\ started[p] \in {0, 1} /\ started[t] \in {0, 1}
      BY <2>2 DEF MRun, Begun
    <3> QED BY <3>1 DEF Typed, TypeOK
  <2> QED BY <2>1, <2>2, StartedStays
<1>3. IsNew(u)
  BY <1>2 DEF Fresh
<1>4. IsNew(u)' \/ (u = t /\ On(w, h, "enqueue", t))
  BY <1>1, <1>3, NewStays
<1> QED BY <1>1, <1>2, <1>4, EnqueueWired

LEMMA ContNewStays ==
  ASSUME Typed, OneHand, Begun, Wiring, ContNew, NEW w \in Thread, NEW h \in Nat, NEW t \in Task,
         Move(w, h, t)
  PROVE  ContNew'
<1>0. Permanent
  BY PermanentStates
<1> SUFFICES ASSUME NEW p \in Task, NEW u \in Task, prog.cont[p] = u, state'[p] # "CONTINUED"
             PROVE  IsNew(u)'
  BY <1>0 DEF ContNew, Permanent
<1>1. u \in prog.makes[p]
  BY ProgramFacts DEF Typed, TypeOK
<1>2. state[p] # "CONTINUED"
  BY <1>0 DEF Permanent
<1>3. IsNew(u)
  BY <1>2 DEF ContNew
<1>4. IsNew(u)' \/ (u = t /\ On(w, h, "enqueue", t))
  BY <1>3, NewStays
<1> QED BY <1>1, <1>2, <1>4, EnqueueWired

LEMMA WillBeEnqueuedStays ==
  ASSUME Typed, OneHand, Begun, Wiring, WillBeEnqueued, NEW w \in Thread, NEW h \in Nat, NEW t \in Task,
         Move(w, h, t)
  PROVE  WillBeEnqueued'
<1>0. /\ Permanent
      /\ \A p \in Task : continuation[p] # None => continuation'[p] = continuation[p]
      /\ \A v \in Thread, k \in Nat : \A d, s :
           On(v, k, d, s) /\ ~(v = w /\ k = h) => On(v, k, d, s)'
      /\ None \notin Task
  BY PermanentStates, ContinuationStays, CallStays, TaskAssumption
<1> SUFFICES ASSUME NEW u \in Task, IsNew(u)', numPredecessors'[u] > 0
             PROVE  \/ \E v \in Thread, k \in Nat : On(v, k, "enqueue", u)'
                    \/ \E p \in Task : /\ prog.cont[p] = u
                                       /\ \/ \E v \in Thread, k \in Nat : On(v, k, "return", p)'
                                          \/ continuation'[p] = u /\ IsReady(p)'
  BY <1>0 DEF WillBeEnqueued, Permanent
<1>1. IsNew(u)
  BY <1>0 DEF Permanent
\* The body of p returns u, or p is completed next.
<1>2. ASSUME NEW p \in Task, prog.cont[p] = u, NEW v \in Thread, NEW k \in Nat, On(v, k, "return", p)
      PROVE  \/ On(v, k, "return", p)'
             \/ continuation'[p] = u /\ IsReady(p)'
  <2>1. CASE v = w /\ k = h
    <3>1. p = t /\ MReturn(w, h, t)
      BY <1>2, <2>1, TopMoves
    <3>2. IsReady(p)
      BY <1>2 DEF OneHand, Hand, Control
    <3>3. continuation' = [continuation EXCEPT ![t] = prog.cont[t]] /\ UNCHANGED state
      BY <3>1 DEF MReturn
    <3> QED BY <1>2, <3>1, <3>2, <3>3 DEF IsReady, Typed, TypeOK
  <2>2. CASE ~(v = w /\ k = h)
    BY <1>0, <1>2, <2>2
  <2> QED BY <2>1, <2>2
<1>3. ASSUME NEW v \in Thread, NEW k \in Nat, On(v, k, "enqueue", u)
      PROVE  On(v, k, "enqueue", u)'
  <2>1. CASE v = w /\ k = h
    <3>1. u = t /\ (MPending(w, h, t) \/ MReady(w, h, t))
      BY <1>3, <2>1, TopMoves
    <3>2. ~IsNew(t)'
      BY <3>1 DEF MPending, MReady, IsNew, Typed, TypeOK
    <3> QED BY <3>1, <3>2
  <2>2. CASE ~(v = w /\ k = h)
    BY <1>0, <1>3, <2>2
  <2> QED BY <2>1, <2>2
<1>4. ASSUME NEW p \in Task, continuation[p] = u, IsReady(p)
      PROVE  (continuation'[p] = u /\ IsReady(p)') \/ \E k \in Nat : On(w, k, "enqueue", u)'
  <2>1. continuation'[p] = u
    BY <1>0, <1>4
  <2>2. ASSUME NEW x, p # t \/ x \in {"READY", "REMOTE_READY"}, state' = [state EXCEPT ![t] = x]
        PROVE  IsReady(p)'
    BY <1>4, <2>2 DEF IsReady, Typed, TypeOK
  <2>3. UNCHANGED state => IsReady(p)'
    BY <1>4 DEF IsReady
  <2>4. ASSUME NEW c \in Task, MContinue(w, h, t, c)
        PROVE  IsReady(p)' \/ \E k \in Nat : On(w, k, "enqueue", u)'
    <3>1. CASE p = t
      <4>1. h + 1 \in Nat /\ c = u
        BY <1>4, <2>4, <3>1 DEF MContinue
      <4>2. PICK k \in Nat : k = h + 1
        BY <4>1
      <4>3. On(w, k, "enqueue", u)'
        BY <2>4, <4>1, <4>2 DEF MContinue
      <4> QED BY <4>3
    <3>2. CASE p # t
      BY <2>2, <2>4, <3>2 DEF MContinue
    <3> QED BY <3>1, <3>2
  <2>5. ASSUME NEW n \in Nat, MComplete(w, h, t, n)
        PROVE  IsReady(p)'
    BY <1>0, <1>4, <2>2, <2>5 DEF MComplete
  <2>6. ASSUME NEW s \in Task,
               \/ MForward(w, h, t, s) \/ MFinished(w, h, t, s) \/ MRegister(w, h, t, s)
               \/ MDelete(w, h, t, s)
        PROVE  IsReady(p)'
    BY <2>3, <2>6 DEF MForward, MFinished, MRegister, MDelete, tasks
  <2>7. ASSUME NEW x, MTake(w, h, t, x)
        PROVE  IsReady(p)'
    BY <2>3, <2>7 DEF MTake, tasks
  <2>8. ASSUME NEW d, NEW x, MLast(w, h, t, d, x)
        PROVE  IsReady(p)'
    BY <1>4, <2>2, <2>8 DEF MLast, IsBlocked, IsReady
  <2>9. CASE MPending(w, h, t) \/ MReady(w, h, t)
    BY <1>4, <2>1, <2>2, <2>9 DEF MPending, MReady, IsNew, IsReady
  <2>10. CASE MInline(w, h, t) \/ MQueue(w, h, t) \/ MSend(w, h, t)
    BY <2>1, <2>3, <2>10 DEF MInline, MQueue, MSend, tasks
  <2>11. CASE MKeep(w, h, t)
    BY <2>1, <2>2, <2>11 DEF MKeep
  <2>12. CASE MCompletes(w, h, t) \/ MCancelled(w, h, t) \/ MRun(w, h, t) \/ MReturn(w, h, t)
    BY <2>1, <2>3, <2>12 DEF MCompletes, MCancelled, MRun, MReturn, tasks
  <2>13. CASE MSplice(w, h, t) \/ MDecrement(w, h, t) \/ MRelease(w, h, t)
    BY <2>1, <2>3, <2>13 DEF MSplice, MDecrement, MRelease
  <2>14. CASE MWaitOn(w, h, t) \/ MWaited(w, h, t)
    BY <2>1, <2>3, <2>14 DEF MWaitOn, MWaited, tasks
  <2> QED BY <2>1, <2>4, <2>5, <2>6, <2>7, <2>8, <2>9, <2>10, <2>11, <2>12, <2>13, <2>14 DEF Move
<1>5. CASE numPredecessors[u] > 0
  <2>1. \/ \E v \in Thread, k \in Nat : On(v, k, "enqueue", u)
        \/ \E p \in Task : /\ prog.cont[p] = u
                           /\ \/ \E v \in Thread, k \in Nat : On(v, k, "return", p)
                              \/ continuation[p] = u /\ IsReady(p)
    BY <1>1, <1>5 DEF WillBeEnqueued
  <2>2. CASE \E v \in Thread, k \in Nat : On(v, k, "enqueue", u)
    BY <1>3, <2>2
  <2>3. ASSUME NEW p \in Task, prog.cont[p] = u, \E v \in Thread, k \in Nat : On(v, k, "return", p)
        PROVE  \/ \E v \in Thread, k \in Nat : On(v, k, "return", p)'
               \/ continuation'[p] = u /\ IsReady(p)'
    BY <1>2, <2>3
  <2>4. ASSUME NEW p \in Task, prog.cont[p] = u, continuation[p] = u /\ IsReady(p)
        PROVE  (continuation'[p] = u /\ IsReady(p)') \/ \E k \in Nat : On(w, k, "enqueue", u)'
    BY <1>4, <2>4
  <2> QED BY <2>1, <2>2, <2>3, <2>4
<1>6. CASE ~(numPredecessors[u] > 0)
  <2>1. numPredecessors \in [Task -> Nat]
    BY DEF Typed, TypeOK
  <2>2. ASSUME NEW x, numPredecessors' = [numPredecessors EXCEPT ![t] = @ - 1]
        PROVE  FALSE
    BY <1>6, <2>1, <2>2
  <2>3. ~UNCHANGED numPredecessors
    BY <1>6
  <2>4. PICK s \in Task : MRegister(w, h, t, s)
    <3>1. ASSUME NEW s \in Task,
               \/ MForward(w, h, t, s) \/ MFinished(w, h, t, s) \/ MDelete(w, h, t, s)
               \/ MContinue(w, h, t, s)
          PROVE  FALSE
      BY <2>3, <3>1 DEF MForward, MFinished, MDelete, MContinue, tasks
    <3>2. /\ \A n : ~MComplete(w, h, t, n)
          /\ \A x : ~MTake(w, h, t, x)
          /\ \A d, x : ~MLast(w, h, t, d, x)
      BY <2>2, <2>3 DEF MComplete, MTake, MLast, tasks
    <3>3. ~(MPending(w, h, t) \/ MReady(w, h, t) \/ MInline(w, h, t) \/ MQueue(w, h, t)
            \/ MSend(w, h, t) \/ MKeep(w, h, t) \/ MCompletes(w, h, t))
      BY <2>3 DEF MPending, MReady, MInline, MQueue, MSend, MKeep, MCompletes, tasks
    <3>4. ~(MCancelled(w, h, t) \/ MRun(w, h, t) \/ MReturn(w, h, t) \/ MSplice(w, h, t)
            \/ MDecrement(w, h, t) \/ MRelease(w, h, t) \/ MWaitOn(w, h, t) \/ MWaited(w, h, t))
      BY <2>2, <2>3
         DEF MCancelled, MRun, MReturn, MSplice, MDecrement, MRelease, MWaitOn, MWaited, tasks
    <3> QED BY <3>1, <3>2, <3>3, <3>4 DEF Move
  <2>5. u = t /\ On(w, h, "dependsOn", u)
    BY <1>6, <2>1, <2>4 DEF MRegister
  <2>6. PICK p \in Maker : /\ u \in prog.makes[p] /\ Keeps(p, w, h)
                           /\ Below(w, h, "enqueue", u) \/ IsCont(p, u)
    BY <2>5 DEF Wiring, Wired, WiredDependsOn
  <2>7. CASE Below(w, h, "enqueue", u)
    BY <1>3, <2>7 DEF Below
  <2>8. CASE IsCont(p, u)
    <3>1. p \in Task /\ prog.cont[p] = u /\ \E k \in Nat : On(w, k, "return", p)
      BY <2>6, <2>8 DEF IsCont, Keeps, Below, Maker
    <3> QED BY <1>2, <3>1
  <2> QED BY <2>6, <2>7, <2>8
<1> QED BY <1>5, <1>6

-----------------------------------------------------------------------------
(* What a program declares is awaited, or done.                             *)

\* A promise to t: that, or what follows it, is complete or awaited.
LEMMA AwaitsStay ==
  ASSUME Typed, Begun, NEW w \in Thread, NEW h \in Nat, NEW t \in Task, Move(w, h, t), Permanent,
         NEW that \in Task, NEW x \in Task, NEW s \in Task, Follows(that, s), Awaits(x, s)
  PROVE  Promised(that, x)'
<1>0. /\ \A v \in Thread, k \in Nat : \A d, u :
           On(v, k, d, u) /\ ~(v = w /\ k = h) => On(v, k, d, u)' /\ ArgAt(v, k)' = ArgAt(v, k)
      /\ None \notin Task
      /\ dependents \in [Task -> Seq(Task)]
  BY CallStays, TaskAssumption DEF Typed, TypeOK
<1>1. Follows(that, s)'
  BY FollowsStays
<1>2. state'[s] = "COMPLETE" \/ Awaits(x, s)' => Promised(that, x)'
  BY <1>1 DEF Promised
<1>3. ASSUME NEW v \in Thread, NEW k \in Nat, On(v, k, "dependsOn", x), ArgAt(v, k) = s
      PROVE  Promised(that, x)'
  <2>1. CASE ~(v = w /\ k = h)
    <3>1. On(v, k, "dependsOn", x)' /\ ArgAt(v, k)' = s
      BY <1>0, <1>3, <2>1
    <3> QED BY <3>1, <1>2 DEF Awaits
  <2>2. CASE v = w /\ k = h
    <3>1. PICK r \in Task : MForward(w, h, t, r) \/ MFinished(w, h, t, r) \/ MRegister(w, h, t, r)
      BY <1>3, <2>2, TopMoves
    <3>2. t = x /\ r = s
      BY <1>3, <2>2, <3>1, OneCall DEF MForward, MFinished, MRegister
    <3>3. CASE MForward(w, h, t, r)
      <4>1. PICK c : c = continuation[s]
        OBVIOUS
      <4>2. state[s] = "CONTINUED" /\ c \in Task /\ OneFrom(w, h, "dependsOn", x, c)
        BY <3>2, <3>3, <4>1 DEF MForward
      <4>3. Follows(that, c)'
        BY <4>1, <4>2, FollowsOn, FollowsStays
      <4>4. On(w, h, "dependsOn", x)' /\ ArgAt(w, h)' = c
        BY <4>2 DEF OneFrom
      <4>5. Awaits(x, c)'
        BY <4>4 DEF Awaits
      <4> QED BY <4>2, <4>3, <4>5 DEF Promised
    <3>4. CASE MFinished(w, h, t, r)
      BY <3>2, <3>4, <1>2 DEF MFinished, Permanent
    <3>5. CASE MRegister(w, h, t, r)
      <4>1. dependents' = [dependents EXCEPT ![s] = Append(dependents[s], x)] /\ dependents[s] \in Seq(Task)
        BY <1>0, <3>2, <3>5 DEF MRegister
      <4>2. dependents'[s] = Append(dependents[s], x)
        BY <1>0, <4>1
      <4>3. \E i : i \in DOMAIN dependents'[s] /\ dependents'[s][i] = x
        BY <4>1, <4>2, Lengthened
      <4>4. Awaits(x, s)'
        BY <4>3 DEF Awaits, Indices
      <4> QED BY <1>2, <4>4
    <3> QED BY <3>1, <3>3, <3>4, <3>5
  <2> QED BY <2>1, <2>2
<1>4. ASSUME NEW i, i \in Indices(dependents[s], x)
      PROVE  Promised(that, x)'
  <2>0. i \in DOMAIN dependents[s] /\ dependents[s][i] = x
    BY <1>4 DEF Indices
  <2>1. CASE i \in Indices(dependents'[s], x)
    BY <1>2, <2>1 DEF Awaits
  <2>2. UNCHANGED dependents => i \in Indices(dependents'[s], x)
    BY <1>4
  <2>3. ASSUME NEW r \in Task, MRegister(w, h, t, r)
        PROVE  Promised(that, x)'
    <3>1. dependents' = [dependents EXCEPT ![r] = Append(dependents[r], t)] /\ dependents[r] \in Seq(Task)
      BY <1>0, <2>3 DEF MRegister
    <3>2. dependents'[s] = IF s = r THEN Append(dependents[r], t) ELSE dependents[s]
      BY <1>0, <3>1
    <3>3. i \in DOMAIN dependents'[s] /\ dependents'[s][i] = x
      BY <2>0, <3>1, <3>2, Lengthened
    <3> QED BY <2>1, <3>3 DEF Indices
  <2>4. ASSUME NEW c \in Task, MContinue(w, h, t, c)
        PROVE  Promised(that, x)'
    <3>1. CASE s = t
      <4>1. PICK m \in Nat : m = h + 2
        OBVIOUS
      <4>2. On(w, m, "splice", c)' /\ ArgAt(w, m)' = dependents[s]
        BY <2>4, <3>1, <4>1 DEF MContinue
      <4>3. Awaits(x, c)'
        BY <1>4, <4>2 DEF Awaits
      <4>4. c = continuation[s] /\ c \in Task /\ state'[s] = "CONTINUED" /\ continuation'[s] = c
        BY <2>4, <3>1 DEF MContinue, Typed, TypeOK
      <4>5. Follows(that, c)'
        BY <1>1, <4>4 DEF Follows, Onward
      <4> QED BY <4>3, <4>5 DEF Promised
    <3>2. CASE s # t
      <4>1. dependents'[s] = dependents[s]
        BY <2>4, <3>2, <1>0 DEF MContinue
      <4> QED BY <1>4, <2>1, <4>1
    <3> QED BY <3>1, <3>2
  <2>5. ASSUME NEW n \in Nat, MComplete(w, h, t, n)
        PROVE  Promised(that, x)'
    <3>1. CASE s = t
      <4>1. state'[s] = "COMPLETE"
        BY <2>5, <3>1 DEF MComplete, Typed, TypeOK
      <4> QED BY <1>2, <4>1
    <3>2. CASE s # t
      <4>1. dependents'[s] = dependents[s]
        BY <2>5, <3>2, <1>0 DEF MComplete
      <4> QED BY <1>4, <2>1, <4>1
    <3> QED BY <3>1, <3>2
  <2>6. CASE MSplice(w, h, t)
    <3>1. PICK tmp : tmp = ArgAt(w, h)
      OBVIOUS
    <3>2. dependents' = [dependents EXCEPT ![t] = dependents[t] \o tmp] /\ On(w, h, "splice", t)
      BY <2>6, <3>1 DEF MSplice
    <3>3. tmp \in Seq(Task) /\ dependents[t] \in Seq(Task)
      BY <1>0, <3>1, <3>2, CallTyped DEF Typed
    <3>4. dependents'[s] = IF s = t THEN dependents[t] \o tmp ELSE dependents[s]
      BY <1>0, <3>2
    <3>5. i \in DOMAIN dependents'[s] /\ dependents'[s][i] = x
      BY <2>0, <3>3, <3>4
    <3> QED BY <2>1, <3>5 DEF Indices
  <2>7. ASSUME NEW r \in Task, MForward(w, h, t, r) \/ MFinished(w, h, t, r) \/ MDelete(w, h, t, r)
        PROVE  UNCHANGED dependents
    BY <2>7 DEF MForward, MFinished, MDelete, tasks
  <2>8. /\ \A y : MTake(w, h, t, y) => UNCHANGED dependents
        /\ \A d, y : MLast(w, h, t, d, y) => UNCHANGED dependents
    BY DEF MTake, MLast, tasks
  <2>9. MPending(w, h, t) \/ MReady(w, h, t) \/ MInline(w, h, t) \/ MQueue(w, h, t)
        \/ MSend(w, h, t) \/ MKeep(w, h, t) \/ MCompletes(w, h, t) => UNCHANGED dependents
    BY DEF MPending, MReady, MInline, MQueue, MSend, MKeep, MCompletes, tasks
  <2>10. MCancelled(w, h, t) \/ MRun(w, h, t) \/ MReturn(w, h, t) \/ MDecrement(w, h, t)
         \/ MRelease(w, h, t) \/ MWaitOn(w, h, t) \/ MWaited(w, h, t) => UNCHANGED dependents
    BY DEF MCancelled, MRun, MReturn, MDecrement, MRelease, MWaitOn, MWaited, tasks
  <2> QED BY <2>1, <2>2, <2>3, <2>4, <2>5, <2>6, <2>7, <2>8, <2>9, <2>10 DEF Move
<1>5. ASSUME NEW v \in Thread, NEW k \in Nat, On(v, k, "splice", s), NEW i, i \in Indices(ArgAt(v, k), x)
      PROVE  Promised(that, x)'
  <2>1. CASE ~(v = w /\ k = h)
    <3>1. On(v, k, "splice", s)' /\ ArgAt(v, k)' = ArgAt(v, k)
      BY <1>0, <1>5, <2>1
    <3>2. Awaits(x, s)'
      BY <1>5, <3>1 DEF Awaits
    <3> QED BY <1>2, <3>2
  <2>2. CASE v = w /\ k = h
    <3>1. t = s /\ MSplice(w, h, t)
      BY <1>5, <2>2, TopMoves
    <3>2. PICK tmp : tmp = ArgAt(w, h)
      OBVIOUS
    <3>3. dependents' = [dependents EXCEPT ![s] = dependents[s] \o tmp]
      BY <3>1, <3>2 DEF MSplice
    <3>4. tmp \in Seq(Task) /\ dependents[s] \in Seq(Task)
      BY <1>0, <1>5, <2>2, <3>2, CallTyped DEF Typed
    <3>5. dependents'[s] = dependents[s] \o tmp
      BY <1>0, <3>3
    <3>6. i \in DOMAIN tmp /\ tmp[i] = x
      BY <1>5, <2>2, <3>2 DEF Indices
    <3>7. PICK n \in Nat : n = Len(dependents[s])
      BY <3>4
    <3>8. n + i \in DOMAIN dependents'[s] /\ dependents'[s][n + i] = x
      BY <3>4, <3>5, <3>6, <3>7
    <3>9. Awaits(x, s)'
      BY <3>8 DEF Awaits, Indices
    <3> QED BY <1>2, <3>9
  <2> QED BY <2>1, <2>2
<1> QED BY <1>3, <1>4, <1>5 DEF Awaits

LEMMA PromisedStays ==
  ASSUME Typed, Begun, NEW w \in Thread, NEW h \in Nat, NEW t \in Task, Move(w, h, t), Permanent,
         NEW that \in Task, NEW x \in Task, Promised(that, x)
  PROVE  Promised(that, x)'
<1>1. PICK s \in Task : Follows(that, s) /\ (state[s] = "COMPLETE" \/ Awaits(x, s))
  BY DEF Promised
<1>2. CASE state[s] = "COMPLETE"
  <2>1. state'[s] = "COMPLETE" /\ Follows(that, s)'
    BY <1>1, <1>2, FollowsStays DEF Permanent
  <2> QED BY <2>1 DEF Promised
<1>3. CASE Awaits(x, s)
  BY <1>1, <1>3, AwaitsStay
<1> QED BY <1>1, <1>2, <1>3

LEMMA DeclaresStays ==
  ASSUME Typed, OneHand, Begun, Declares, NEW w \in Thread, NEW h \in Nat, NEW t \in Task, Move(w, h, t)
  PROVE  Declares'
<1>0. Permanent /\ prog' = prog /\ prog \in Programs
  BY PermanentStates DEF Permanent, Typed, TypeOK
<1>1. \A p : Body(p)' = Body(p)
  BY <1>0 DEF Body
<1> SUFFICES ASSUME NEW p \in Maker, p = None \/ started'[p] = 1, NEW i \in DOMAIN Body(p),
                    Body(p)[i].do = "dependsOn",
                    NEW that, that = Body(p)[i].arg, NEW x, x = Body(p)[i].t
             PROVE  Promised(that, x)'
  BY <1>1 DEF Declares
<1>2. PICK n : n = Len(Body(p))
  OBVIOUS
<1>3. i \in 1 .. n /\ n \in Nat
  <2>1. Body(p) \in Seq(BodyCall)
    BY <1>0, ProgramFacts
  <2> QED BY <1>2, <2>1, LenProperties
<1>4. that \in Task /\ x \in Task
  <2>1. Body(p)[i].arg \in prog.makes[p] /\ Body(p)[i].t \in Task /\ prog.makes[p] \subseteq Task
    BY <1>0, <1>2, <1>3, BodyFacts, ProgramFacts
  <2> QED BY <2>1
<1>5. CASE p = None \/ started[p] = 1
  <2>1. Promised(that, x)
    BY <1>5 DEF Declares
  <2> QED BY <1>0, <1>4, <2>1, PromisedStays
<1>6. CASE ~(p = None \/ started[p] = 1)
  <2>1. p \in Task /\ p = t /\ MRun(w, h, t)
    <3>1. started' # started /\ p \in Task
      BY <1>6 DEF Maker
    <3>2. MRun(w, h, t)
      BY <3>1, StartedStays
    <3>3. started' = [started EXCEPT ![t] = @ + 1]
      BY <3>2 DEF MRun
    <3> QED BY <1>6, <3>1, <3>2, <3>3 DEF Typed, TypeOK
  <2>2. PICK k \in Nat : k = h + n + 1 - i /\ k > h /\ h + n + 1 - k = i
    BY <1>3
  <2>3. On(w, k, "dependsOn", x)' /\ ArgAt(w, k)' = that
    BY <1>2, <1>3, <2>1, <2>2 DEF MRun, Lays
  <2>4. Awaits(x, that)' /\ Follows(that, that)'
    BY <2>3, FollowsSelf DEF Awaits
  <2> QED BY <1>4, <2>4 DEF Promised
<1> QED BY <1>5, <1>6

-----------------------------------------------------------------------------
(* The count of the pointers to a task.                                     *)

\* The names of the holders, and when each of them holds a pointer to t.
AtRelease(w, k) == <<"call", w, k>>
TheCreator == <<"creator", None, 0>>
TheRun == <<"run", None, 0>>
AtNext(p) == <<"next", p, 0>>
ForRun(t) == IsBlocked(t) \/ IsReady(t)
NextOf(p, t) == continuation[p] = t /\ refs[p] > 0

LEMMA HolderNames ==
  /\ \A w, v, k, m : AtRelease(w, k) = AtRelease(v, m) <=> w = v /\ k = m
  /\ \A p, q : AtNext(p) = AtNext(q) <=> p = q
  /\ \A w, k, p : /\ AtRelease(w, k) # TheCreator /\ AtRelease(w, k) # TheRun
                  /\ AtRelease(w, k) # AtNext(p)
  /\ \A p : AtNext(p) # TheCreator /\ AtNext(p) # TheRun
  /\ TheCreator # TheRun
BY DEF AtRelease, TheCreator, TheRun, AtNext

LEMMA HoldersAre ==
  ASSUME NEW t
  PROVE  /\ \A x : x \in Holders(t) <=>
              \/ \E w \in Thread : \E k : On(w, k, "release", t) /\ x = AtRelease(w, k)
              \/ Unreturned(t) /\ x = TheCreator
              \/ ForRun(t) /\ x = TheRun
              \/ \E p \in Task : NextOf(p, t) /\ x = AtNext(p)
         /\ \A x : x \in Holders(t)' <=>
              \/ \E w \in Thread : \E k : On(w, k, "release", t)' /\ x = AtRelease(w, k)
              \/ Unreturned(t)' /\ x = TheCreator
              \/ ForRun(t)' /\ x = TheRun
              \/ \E p \in Task : NextOf(p, t)' /\ x = AtNext(p)
BY InHolders, InHoldersNext DEF AtRelease, TheCreator, TheRun, AtNext, ForRun, NextOf

Balanced(t) == IsFiniteSet(Holders(t)) /\ refs[t] = Cardinality(Holders(t))

LEMMA BalancedSame ==
  ASSUME RefsCount, NEW u \in Task, Holders(u)' = Holders(u), refs'[u] = refs[u]
  PROVE  Balanced(u)'
BY DEF RefsCount, Balanced

\* One holder more, one less, one for another.
LEMMA BalancedGain ==
  ASSUME Typed, RefsCount, NEW u \in Task, NEW e, e \notin Holders(u),
         \A x : x \in Holders(u)' <=> x \in Holders(u) \/ x = e, refs'[u] = refs[u] + 1
  PROVE  Balanced(u)'
<1>1. Holders(u)' = Holders(u) \union {e}
  OBVIOUS
<1>2. IsFiniteSet(Holders(u)) /\ refs[u] = Cardinality(Holders(u))
  BY DEF RefsCount
<1>3. /\ IsFiniteSet(Holders(u) \union {e})
      /\ Cardinality(Holders(u) \union {e}) = Cardinality(Holders(u)) + 1
  BY <1>2, FS_AddElement, Zenon
<1>4. IsFiniteSet(Holders(u)') /\ Cardinality(Holders(u)') = Cardinality(Holders(u)) + 1
  BY <1>1, <1>3, Zenon
<1> QED BY <1>2, <1>4 DEF Balanced

LEMMA BalancedLoss ==
  ASSUME Typed, RefsCount, NEW u \in Task, NEW e, e \in Holders(u),
         \A x : x \in Holders(u)' <=> x \in Holders(u) /\ x # e, refs'[u] = refs[u] - 1
  PROVE  Balanced(u)'
<1>1. Holders(u)' = Holders(u) \ {e}
  OBVIOUS
<1>2. IsFiniteSet(Holders(u)) /\ refs[u] = Cardinality(Holders(u))
  BY DEF RefsCount
<1>3. /\ IsFiniteSet(Holders(u) \ {e})
      /\ Cardinality(Holders(u) \ {e}) = Cardinality(Holders(u)) - 1
  BY <1>2, FS_RemoveElement, Zenon
<1>4. IsFiniteSet(Holders(u)') /\ Cardinality(Holders(u)') = Cardinality(Holders(u)) - 1
  BY <1>1, <1>3, Zenon
<1> QED BY <1>2, <1>4 DEF Balanced

LEMMA BalancedSwap ==
  ASSUME Typed, RefsCount, NEW u \in Task, NEW e \in Holders(u), NEW f, f \notin Holders(u),
         \A x : x \in Holders(u)' <=> (x \in Holders(u) /\ x # e) \/ x = f, refs'[u] = refs[u]
  PROVE  Balanced(u)'
<1>1. Holders(u)' = (Holders(u) \ {e}) \union {f}
  OBVIOUS
<1>2. IsFiniteSet(Holders(u)) /\ refs[u] = Cardinality(Holders(u))
  BY DEF RefsCount
<1>3. /\ IsFiniteSet(Holders(u) \ {e})
      /\ Cardinality(Holders(u) \ {e}) = Cardinality(Holders(u)) - 1
  BY <1>2, FS_RemoveElement, Zenon
<1>4. /\ IsFiniteSet((Holders(u) \ {e}) \union {f})
      /\ Cardinality((Holders(u) \ {e}) \union {f}) = Cardinality(Holders(u) \ {e}) + 1
  BY <1>3, FS_AddElement, Zenon
<1>5. /\ IsFiniteSet(Holders(u)')
      /\ Cardinality(Holders(u)') = Cardinality(Holders(u) \ {e}) + 1
  BY <1>1, <1>4, Zenon
<1>6. Cardinality(Holders(u)') = refs[u]
  <2>1. Cardinality(Holders(u)) \in Nat
    BY <1>2, FS_CardinalityType
  <2> QED BY <1>2, <1>3, <1>5, <2>1
<1> QED BY <1>5, <1>6 DEF Balanced

LEMMA UnreturnedSame ==
  ASSUME UNCHANGED <<prog, started>>, NEW D, Same(D), "return" \in D
  PROVE  \A u : Unreturned(u)' <=> Unreturned(u)
<1>1. \A w \in Thread, k \in Nat : \A p : On(w, k, "return", p)' <=> On(w, k, "return", p)
  BY DEF Same
<1> QED BY <1>1 DEF Unreturned

LEMMA ReleasesSame ==
  ASSUME NEW D, Same(D), "release" \in D
  PROVE  \A w \in Thread : \A k, u : On(w, k, "release", u)' <=> On(w, k, "release", u)
BY CallNat DEF Same

LEMMA HoldersSame ==
  ASSUME NEW u, \A w \in Thread : \A k : On(w, k, "release", u)' <=> On(w, k, "release", u),
         Unreturned(u)' <=> Unreturned(u), ForRun(u)' <=> ForRun(u),
         \A p \in Task : NextOf(p, u)' <=> NextOf(p, u)
  PROVE  Holders(u)' = Holders(u)
<1>1. \A x : x \in Holders(u)' <=> x \in Holders(u)
  BY HoldersAre
<1> QED BY <1>1

\* No pointer changes hands.
LEMMA RefsKept ==
  ASSUME RefsCount, UNCHANGED <<prog, started, continuation, refs>>, NEW D, Same(D),
         "release" \in D, "return" \in D, \A u \in Task : ForRun(u)' <=> ForRun(u)
  PROVE  RefsCount'
<1>1. \A u : Unreturned(u)' <=> Unreturned(u)
  BY UnreturnedSame
<1>2. \A w \in Thread : \A k, u : On(w, k, "release", u)' <=> On(w, k, "release", u)
  BY ReleasesSame
<1>3. \A p, u : NextOf(p, u)' <=> NextOf(p, u)
  BY DEF NextOf
<1>4. \A u \in Task : Holders(u)' = Holders(u)
  BY <1>1, <1>2, <1>3, HoldersSame
<1>5. \A u \in Task : Balanced(u)'
  BY <1>4, BalancedSame
<1> QED BY <1>5 DEF RefsCount, Balanced

\* enqueue: the pointer runWrapper will drop
LEMMA RefsEnqueue ==
  ASSUME Typed, Begun, RefsCount, NEW w \in Thread, NEW h \in Nat, NEW t \in Task,
         MPending(w, h, t) \/ MReady(w, h, t)
  PROVE  RefsCount'
<1>1. /\ refs' = [refs EXCEPT ![t] = @ + 1] /\ IsNew(t)
      /\ UNCHANGED <<prog, started, continuation>>
      /\ state'[t] \in {"PENDING", "READY", "REMOTE_PENDING", "REMOTE_READY"}
      /\ \A s \in Task : s # t => state'[s] = state[s]
  BY DEF MPending, MReady, Typed, TypeOK
<1>2. refs \in [Task -> Nat]
  BY DEF Typed, TypeOK
<1>3. Same({"release", "return"})
  <2>1. Same(Method \ {"enqueue"}) \/ Same(Method \ {"enqueue", "schedule"})
    BY SameCalls
  <2> QED BY <2>1 DEF Same, Method
<1>4. \A u : Unreturned(u)' <=> Unreturned(u)
  BY <1>1, <1>3, UnreturnedSame
<1>5. \A v \in Thread : \A k, u : On(v, k, "release", u)' <=> On(v, k, "release", u)
  BY <1>3, ReleasesSame
<1>6. continuation[t] = None
  BY <1>1 DEF Begun
<1>7. \A p, u \in Task : NextOf(p, u)' <=> NextOf(p, u)
  <2> TAKE p, u \in Task
  <2>1. CASE p = t
    BY <2>1, <1>1, <1>6, TaskAssumption DEF NextOf
  <2>2. CASE p # t
    BY <2>2, <1>1, <1>2 DEF NextOf
  <2> QED BY <2>1, <2>2
<1>8. ForRun(t)' /\ ~ForRun(t)
  BY <1>1 DEF ForRun, IsBlocked, IsReady, IsNew
<1>9. \A u \in Task : u # t => (ForRun(u)' <=> ForRun(u))
  BY <1>1 DEF ForRun, IsBlocked, IsReady
<1>10. Balanced(t)'
  <2>1. TheRun \notin Holders(t)
    BY <1>8, HoldersAre, HolderNames
  <2>2. \A x : x \in Holders(t)' <=> x \in Holders(t) \/ x = TheRun
    BY <1>4, <1>5, <1>7, <1>8, HoldersAre
  <2>3. refs'[t] = refs[t] + 1
    BY <1>1, <1>2
  <2> QED BY <2>1, <2>2, <2>3, BalancedGain
<1>11. ASSUME NEW u \in Task, u # t PROVE Balanced(u)'
  <2>1. Holders(u)' = Holders(u)
    BY <1>11, <1>4, <1>5, <1>7, <1>9, HoldersSame
  <2>2. refs'[u] = refs[u]
    BY <1>1, <1>2, <1>11
  <2> QED BY <2>1, <2>2, BalancedSame
<1> QED BY <1>10, <1>11 DEF RefsCount, Balanced

\* completeTaskDeps: runWrapper's pointer is the one its decRefCount drops
LEMMA RefsDone ==
  ASSUME Typed, OneHand, RefsCount, NEW w \in Thread, NEW h \in Nat, NEW t \in Task,
         \/ \E c \in Task : MContinue(w, h, t, c)
         \/ \E n \in Nat : MComplete(w, h, t, n)
  PROVE  RefsCount'
<1>1. /\ Replacing(w, h) /\ On(w, h, "complete", t)
      /\ UNCHANGED <<prog, started, continuation, refs>>
      /\ \A d, s : On(w, h, d, s)' <=> d = "release" /\ s = t
      /\ IsDone(t)' /\ \A s \in Task : s # t => state'[s] = state[s]
  BY DEF MContinue, MComplete, IsDone, Typed, TypeOK
<1>2. \A k \in Nat : \A u : k > h => ~On(w, k, "release", u)'
  <2>1. CASE \E c \in Task : MContinue(w, h, t, c)
    <3>1. PICK c \in Task : MContinue(w, h, t, c)
      BY <2>1
    <3> TAKE k \in Nat
    <3> TAKE u
    <3>2. HAVE k > h
    <3>3. h \in Nat
      OBVIOUS
    <3>4. k = h + 1 \/ k = h + 2 \/ k > h + 2
      BY <3>2, <3>3
    <3>5. /\ \A d, s : On(w, h + 1, d, s)' <=> d = "enqueue" /\ s = c
          /\ \A d, s : On(w, h + 2, d, s)' <=> d = "splice" /\ s = c
          /\ \A m \in Nat : \A d, s : m > h + 2 => ~On(w, m, d, s)'
      BY <3>1 DEF MContinue
    <3> QED BY <3>4, <3>5
  <2>2. CASE \E n \in Nat : MComplete(w, h, t, n)
    BY <2>2 DEF MComplete
  <2> QED BY <2>1, <2>2
<1>3. \A v \in Thread : \A k, u : On(v, k, "release", u)' <=>
           On(v, k, "release", u) \/ (v = w /\ k = h /\ u = t)
  <2>1. \A v \in Thread, k \in Nat : \A u : v # w \/ k < h =>
            (On(v, k, "release", u)' <=> On(v, k, "release", u))
    BY <1>1 DEF Replacing, Upper
  <2>2. \A k \in Nat : \A u : k > h => ~On(w, k, "release", u)
    BY <1>1 DEF Replacing
  <2>3. \A u : ~On(w, h, "release", u)
    BY <1>1, OneCall
  <2>4. \A k \in Nat : k < h \/ k = h \/ k > h
    OBVIOUS
  <2> QED BY <1>1, <1>2, <2>1, <2>2, <2>3, <2>4, CallNat
<1>4. Same({"return"})
  <2>1. Same(Method \ {"complete", "release", "enqueue", "splice"})
          \/ Same(Method \ {"complete", "release", "decrement"})
    BY SameCalls
  <2> QED BY <2>1 DEF Same, Method
<1>5. \A u : Unreturned(u)' <=> Unreturned(u)
  BY <1>1, <1>4, UnreturnedSame
<1>6. \A p, u : NextOf(p, u)' <=> NextOf(p, u)
  BY <1>1 DEF NextOf
<1>7. ForRun(t) /\ ~ForRun(t)'
  <2>1. Hand(w, h, t)
    BY <1>1 DEF Hand, Control
  <2>2. IsReady(t)
    BY <2>1 DEF OneHand
  <2> QED BY <2>2, <1>1 DEF ForRun, IsBlocked, IsReady, IsDone
<1>8. \A u \in Task : u # t => (ForRun(u)' <=> ForRun(u))
  BY <1>1 DEF ForRun, IsBlocked, IsReady
<1>9. Balanced(t)'
  <2>e. PICK e : e = AtRelease(w, h)
    OBVIOUS
  <2>1. TheRun \in Holders(t)
    BY <1>7, HoldersAre
  <2>2. e \notin Holders(t)
    <3>1. ~On(w, h, "release", t)
      BY <1>1, OneCall
    <3>2. \A v, k : e = AtRelease(v, k) => v = w /\ k = h
      BY <2>e DEF AtRelease
    <3>3. e # TheCreator /\ e # TheRun /\ \A p : e # AtNext(p)
      BY <2>e, HolderNames
    <3> QED BY <3>1, <3>2, <3>3, HoldersAre
  <2>3. \A v \in Thread : \A k : On(v, k, "release", t)' <=>
            On(v, k, "release", t) \/ (v = w /\ k = h)
    BY <1>3
  <2>4. \A x : (\E v \in Thread : \E k : On(v, k, "release", t)' /\ x = AtRelease(v, k)) <=>
               (\E v \in Thread : \E k : On(v, k, "release", t) /\ x = AtRelease(v, k)) \/ x = e
    BY <2>3, <2>e
  <2>5. \A x : x \in Holders(t)' <=> (x \in Holders(t) /\ x # TheRun) \/ x = e
    <3>1. \A x : x \in Holders(t)' =>
             \/ \E v \in Thread : \E k : On(v, k, "release", t) /\ x = AtRelease(v, k)
             \/ x = e
             \/ Unreturned(t) /\ x = TheCreator
             \/ \E p \in Task : NextOf(p, t) /\ x = AtNext(p)
      BY <2>4, <1>5, <1>6, <1>7, HoldersAre
    <3>2. \A x : \/ \E v \in Thread : \E k : On(v, k, "release", t) /\ x = AtRelease(v, k)
                 \/ x = e
                 \/ Unreturned(t) /\ x = TheCreator
                 \/ \E p \in Task : NextOf(p, t) /\ x = AtNext(p)
                 => x \in Holders(t)'
      BY <2>4, <1>5, <1>6, HoldersAre
    <3>3. \A x : \/ \E v \in Thread : \E k : On(v, k, "release", t) /\ x = AtRelease(v, k)
                 \/ Unreturned(t) /\ x = TheCreator
                 \/ \E p \in Task : NextOf(p, t) /\ x = AtNext(p)
                 => x \in Holders(t) /\ x # TheRun
      BY HoldersAre, HolderNames
    <3>4. \A x : x \in Holders(t) /\ x # TheRun =>
                 \/ \E v \in Thread : \E k : On(v, k, "release", t) /\ x = AtRelease(v, k)
                 \/ Unreturned(t) /\ x = TheCreator
                 \/ \E p \in Task : NextOf(p, t) /\ x = AtNext(p)
      BY HoldersAre
    <3> QED BY <3>1, <3>2, <3>3, <3>4
  <2>6. refs'[t] = refs[t]
    BY <1>1
  <2> QED BY <2>1, <2>2, <2>5, <2>6, BalancedSwap
<1>10. ASSUME NEW u \in Task, u # t PROVE Balanced(u)'
  <2>1. Holders(u)' = Holders(u)
    BY <1>10, <1>3, <1>5, <1>6, <1>8, HoldersSame
  <2> QED BY <2>1, <1>1, BalancedSame
<1> QED BY <1>9, <1>10 DEF RefsCount, Balanced

LEMMA HoldersNamed ==
  ASSUME NEW t, NEW w \in Thread, NEW k, NEW p \in Task
  PROVE  /\ AtRelease(w, k) \in Holders(t) <=> On(w, k, "release", t)
         /\ TheCreator \in Holders(t) <=> Unreturned(t)
         /\ TheRun \in Holders(t) <=> ForRun(t)
         /\ AtNext(p) \in Holders(t) <=> NextOf(p, t)
<1>1. \A v, j : AtRelease(w, k) = AtRelease(v, j) => v = w /\ j = k
  BY DEF AtRelease
<1>2. \A q : AtNext(p) = AtNext(q) => p = q
  BY DEF AtNext
<1> QED BY <1>1, <1>2, HolderNames, HoldersAre

\* A task that is no body's own, or whose maker's call has still to return.
LEMMA RefsRun ==
  ASSUME Typed, Begun, RefsCount, NEW w \in Thread, NEW h \in Nat, NEW t \in Task, MRun(w, h, t)
  PROVE  RefsCount'
<1>1. /\ Replacing(w, h) /\ On(w, h, "run", t)
      /\ \A d, s : On(w, h, d, s)' <=> d = "return" /\ s = t
      /\ \A k \in Nat : \A s : k > h => ~On(w, k, "return", s)'
      /\ started' = [started EXCEPT ![t] = @ + 1]
      /\ UNCHANGED <<prog, continuation, refs, state>>
  <2>1. \A k \in Nat : \A d, s : k > h /\ On(w, k, d, s)' =>
          d \in {"dependsOn", "enqueue", "wait"} /\ s \in prog.makes[t]
    BY DEF MRun
  <2>2. \A k \in Nat : \A s : k > h => ~On(w, k, "return", s)'
    BY <2>1
  <2> QED BY <2>2 DEF MRun, tasks
<1>2. Same(Method \ {"run", "return", "dependsOn", "enqueue", "wait"})
  BY SameCalls
<1>3. \A v \in Thread : \A k, u : On(v, k, "release", u)' <=> On(v, k, "release", u)
  BY <1>2, ReleasesSame DEF Method
<1>4. started[t] = 0 /\ \A p \in Task : p # t => started'[p] = started[p]
  BY <1>1 DEF Begun, Typed, TypeOK
<1>5. \A v \in Thread, k \in Nat : \A p : p # t =>
          (On(v, k, "return", p)' <=> On(v, k, "return", p))
  <2>1. \A v \in Thread, k \in Nat : \A p : v # w \/ k < h =>
            (On(v, k, "return", p)' <=> On(v, k, "return", p))
    BY <1>1 DEF Replacing, Upper
  <2>2. \A k \in Nat : \A p : k >= h => ~On(w, k, "return", p)
    <3>1. \A p : ~On(w, h, "return", p)
      BY <1>1, OneCall
    <3>2. \A k \in Nat : \A p : k > h => ~On(w, k, "return", p)
      BY <1>1 DEF Replacing
    <3>3. \A k \in Nat : k >= h => k = h \/ k > h
      OBVIOUS
    <3> QED BY <3>1, <3>2, <3>3
  <2>3. \A k \in Nat : \A p : k >= h /\ p # t => ~On(w, k, "return", p)'
    <3>3. \A k \in Nat : k >= h => k = h \/ k > h
      OBVIOUS
    <3> QED BY <1>1, <3>3
  <2>4. \A k \in Nat : k < h \/ k >= h
    OBVIOUS
  <2> QED BY <2>1, <2>2, <2>3, <2>4
<1>6. ASSUME NEW u PROVE Unreturned(u)' <=> Unreturned(u)
  <2>1. ASSUME NEW p \in Task, p # t
        PROVE  (started'[p] = 0 \/ \E v \in Thread, k \in Nat : On(v, k, "return", p)') <=>
               (started[p] = 0 \/ \E v \in Thread, k \in Nat : On(v, k, "return", p))
    BY <2>1, <1>4, <1>5
  <2>2. On(w, h, "return", t)'
    BY <1>1
  <2>3. started'[t] = 0 \/ \E v \in Thread, k \in Nat : On(v, k, "return", t)'
    BY <2>2
  <2>4. started[t] = 0 \/ \E v \in Thread, k \in Nat : On(v, k, "return", t)
    BY <1>4
  <2>5. \A p \in Task :
          (started'[p] = 0 \/ \E v \in Thread, k \in Nat : On(v, k, "return", p)') <=>
          (started[p] = 0 \/ \E v \in Thread, k \in Nat : On(v, k, "return", p))
    BY <2>1, <2>3, <2>4
  <2> QED BY <2>5, <1>1 DEF Unreturned
<1>7. \A u : (ForRun(u)' <=> ForRun(u)) /\ \A p : NextOf(p, u)' <=> NextOf(p, u)
  BY <1>1 DEF ForRun, IsBlocked, IsReady, NextOf
<1>8. \A u \in Task : Holders(u)' = Holders(u)
  BY <1>3, <1>6, <1>7, HoldersSame
<1>9. \A u \in Task : Balanced(u)'
  BY <1>8, <1>1, BalancedSame
<1> QED BY <1>9 DEF RefsCount, Balanced

\* decRefCount: one pointer less
LEMMA RefsRelease ==
  ASSUME Typed, RefsCount, NEW w \in Thread, NEW h \in Nat, NEW t \in Task, MRelease(w, h, t)
  PROVE  RefsCount'
<1>1. /\ Replacing(w, h) /\ On(w, h, "release", t) /\ NoneFrom(w, h)
      /\ refs[t] # 1 \/ continuation[t] = None
      /\ refs' = [refs EXCEPT ![t] = @ - 1]
      /\ UNCHANGED <<prog, state, started, continuation>>
  BY DEF MRelease
<1>2. refs \in [Task -> Nat] /\ refs[t] # 0
  BY <1>1, ReleaseCounts DEF Typed, TypeOK
<1>3. Same(Method \ {"release"})
  BY SameCalls
<1>4. \A u : Unreturned(u)' <=> Unreturned(u)
  BY <1>1, <1>3, UnreturnedSame DEF Method
<1>5. \A v \in Thread : \A k, u : On(v, k, "release", u)' <=> On(v, k, "release", u) /\ ~(v = w /\ k = h)
  <2>1. \A v \in Thread, k \in Nat : \A u : v # w \/ k < h =>
            (On(v, k, "release", u)' <=> On(v, k, "release", u))
    BY <1>1 DEF Replacing, Upper
  <2>2. \A k \in Nat : \A u : k > h => ~On(w, k, "release", u)
    BY <1>1 DEF Replacing
  <2>3. \A k \in Nat : k < h \/ (k = h /\ k >= h) \/ (k > h /\ k >= h /\ k # h)
    OBVIOUS
  <2>4. \A k \in Nat : \A u : k >= h => ~On(w, k, "release", u)'
    BY <1>1 DEF NoneFrom
  <2>5. \A k \in Nat : k < h => k # h
    OBVIOUS
  <2> QED BY <2>1, <2>2, <2>3, <2>4, <2>5, CallNat
<1>6. \A p, u \in Task : NextOf(p, u)' <=> NextOf(p, u)
  <2> TAKE p, u \in Task
  <2>1. CASE p = t
    <3>1. refs'[t] = refs[t] - 1
      BY <1>1, <1>2
    <3>2. CASE continuation[t] = None
      BY <2>1, <3>2, <1>1, TaskAssumption DEF NextOf
    <3>3. CASE refs[t] # 1
      <4>1. refs'[t] > 0 /\ refs[t] > 0
        BY <3>1, <3>3, <1>2
      <4> QED BY <2>1, <4>1, <1>1 DEF NextOf
    <3> QED BY <1>1, <3>2, <3>3
  <2>2. CASE p # t
    BY <2>2, <1>1, <1>2 DEF NextOf
  <2> QED BY <2>1, <2>2
<1>7. \A u : ForRun(u)' <=> ForRun(u)
  BY <1>1 DEF ForRun, IsBlocked, IsReady
<1>8. Balanced(t)'
  <2>e. PICK e : e = AtRelease(w, h)
    OBVIOUS
  <2>1. e \in Holders(t)
    BY <2>e, <1>1, HoldersNamed
  <2>2. \A v \in Thread : \A k : On(v, k, "release", t)' <=> On(v, k, "release", t) /\ AtRelease(v, k) # e
    <3>1. \A v, k : e = AtRelease(v, k) <=> v = w /\ k = h
      BY <2>e DEF AtRelease
    <3> QED BY <3>1, <1>5
  <2>3. e # TheCreator /\ e # TheRun /\ \A p : e # AtNext(p)
    BY <2>e, HolderNames
  <2>4. \A x : x \in Holders(t)' => x \in Holders(t) /\ x # e
    BY <2>2, <2>3, <1>4, <1>6, <1>7, HoldersAre
  <2>5. \A x : x \in Holders(t) /\ x # e => x \in Holders(t)'
    BY <2>2, <1>4, <1>6, <1>7, HoldersAre
  <2>6. refs'[t] = refs[t] - 1
    BY <1>1, <1>2
  <2> QED BY <2>1, <2>4, <2>5, <2>6, BalancedLoss
<1>9. ASSUME NEW u \in Task, u # t PROVE Balanced(u)'
  <2>1. \A v \in Thread : \A k : On(v, k, "release", u)' <=> On(v, k, "release", u)
    BY <1>1, <1>5, <1>9, OneCall
  <2>2. Holders(u)' = Holders(u)
    BY <2>1, <1>4, <1>6, <1>7, HoldersSame
  <2>3. refs'[u] = refs[u]
    BY <1>1, <1>2, <1>9
  <2> QED BY <2>2, <2>3, BalancedSame
<1> QED BY <1>8, <1>9 DEF RefsCount, Balanced

\* decRefCount of the last pointer: the task's own pointer to its
\* continuation becomes a call that drops it
LEMMA RefsDelete ==
  ASSUME Typed, Begun, RefsCount, NEW w \in Thread, NEW h \in Nat, NEW t \in Task, NEW c \in Task,
         MDelete(w, h, t, c)
  PROVE  RefsCount'
<1>1. /\ Replacing(w, h) /\ On(w, h, "release", t) /\ OneFrom(w, h, "release", c, None)
      /\ refs[t] = 1 /\ c = continuation[t]
      /\ refs' = [refs EXCEPT ![t] = @ - 1]
      /\ UNCHANGED <<prog, state, started, continuation>>
  BY DEF MDelete
<1>2. refs'[t] = 0 /\ \A u \in Task : u # t => refs'[u] = refs[u]
  BY <1>1 DEF Typed, TypeOK
<1>c. c # t
  <2>1. c = prog.cont[t]
    BY <1>1, TaskAssumption DEF Begun
  <2> QED BY <2>1, ProgramFacts DEF Typed, TypeOK
<1>3. Same(Method \ {"release"})
  BY SameCalls
<1>4. \A u : Unreturned(u)' <=> Unreturned(u)
  BY <1>1, <1>3, UnreturnedSame DEF Method
<1>5. \A v \in Thread : \A k, u : ~(v = w /\ k = h) =>
          (On(v, k, "release", u)' <=> On(v, k, "release", u))
  <2>1. \A v \in Thread, k \in Nat : \A u : v # w \/ k < h =>
            (On(v, k, "release", u)' <=> On(v, k, "release", u))
    BY <1>1 DEF Replacing, Upper
  <2>2. \A k \in Nat : \A u : k > h => ~On(w, k, "release", u)
    BY <1>1 DEF Replacing
  <2>3. \A k \in Nat : \A u : k > h => ~On(w, k, "release", u)'
    <3>1. \A k \in Nat : \A d, s : k >= h => (On(w, k, d, s)' <=> k = h /\ d = "release" /\ s = c)
      BY <1>1 DEF OneFrom
    <3>2. \A k \in Nat : k > h => k >= h /\ k # h
      OBVIOUS
    <3> QED BY <3>1, <3>2
  <2>4. \A k \in Nat : k < h \/ k = h \/ k > h
    OBVIOUS
  <2> QED BY <2>1, <2>2, <2>3, <2>4, CallNat
<1>6. \A u : /\ On(w, h, "release", u) <=> u = t
             /\ On(w, h, "release", u)' <=> u = c
  <2>1. \A u : On(w, h, "release", u)' <=> u = c
    BY <1>1 DEF OneFrom
  <2> QED BY <1>1, <2>1, OneCall
<1>7. \A p, u \in Task : p # t => (NextOf(p, u)' <=> NextOf(p, u))
  BY <1>1, <1>2 DEF NextOf
<1>8. \A u : ~NextOf(t, u)' /\ (NextOf(t, u) <=> u = c)
  BY <1>1, <1>2 DEF NextOf
<1>9. \A u : ForRun(u)' <=> ForRun(u)
  BY <1>1 DEF ForRun, IsBlocked, IsReady
<1>10. PICK e : e = AtRelease(w, h)
  OBVIOUS
<1>11. \A v, k : e = AtRelease(v, k) <=> v = w /\ k = h
  BY <1>10 DEF AtRelease
<1>12. e # TheCreator /\ e # TheRun /\ \A p : e # AtNext(p)
  BY <1>10, HolderNames
<1>13. Balanced(t)'
  <2>1. e \in Holders(t)
    BY <1>10, <1>6, HoldersNamed
  <2>2. \A v \in Thread : \A k : On(v, k, "release", t)' <=> On(v, k, "release", t) /\ AtRelease(v, k) # e
    <3>1. ~On(w, h, "release", t)'
      BY <1>6, <1>c
    <3> QED BY <3>1, <1>5, <1>11
  <2>3. \A p \in Task : NextOf(p, t)' <=> NextOf(p, t)
    BY <1>7, <1>8, <1>c
  <2>4. \A x : x \in Holders(t)' => x \in Holders(t) /\ x # e
    BY <2>2, <2>3, <1>4, <1>9, <1>12, HoldersAre
  <2>5. \A x : x \in Holders(t) /\ x # e => x \in Holders(t)'
    BY <2>2, <2>3, <1>4, <1>9, HoldersAre
  <2>6. refs'[t] = refs[t] - 1
    BY <1>1, <1>2
  <2> QED BY <2>1, <2>4, <2>5, <2>6, BalancedLoss
<1>14. Balanced(c)'
  <2>1. PICK f : f = AtNext(t)
    OBVIOUS
  <2>2. f \in Holders(c) /\ e \notin Holders(c)
    BY <2>1, <1>10, <1>6, <1>8, <1>c, HoldersNamed
  <2>3. \A v \in Thread : \A k : On(v, k, "release", c)' <=> On(v, k, "release", c) \/ AtRelease(v, k) = e
    BY <1>5, <1>6, <1>11, <1>c
  <2>4. \A p \in Task : NextOf(p, c)' <=> NextOf(p, c) /\ AtNext(p) # f
    <3>1. \A p : AtNext(p) = f <=> p = t
      BY <2>1 DEF AtNext
    <3> QED BY <3>1, <1>7, <1>8
  <2>5. f # TheCreator /\ f # TheRun /\ \A v, k : AtRelease(v, k) # f
    BY <2>1, HolderNames
  <2>6. e \in Holders(c)'
    <3>1. On(w, h, "release", c)'
      BY <1>6
    <3> QED BY <3>1, <1>10, HoldersAre
  <2>7. \A x : x \in Holders(c)' => (x \in Holders(c) /\ x # f) \/ x = e
    BY <2>3, <2>4, <2>5, <1>4, <1>9, HoldersAre
  <2>8. \A x : x \in Holders(c) /\ x # f => x \in Holders(c)'
    BY <2>3, <2>4, <2>5, <1>4, <1>9, HoldersAre
  <2>9. refs'[c] = refs[c]
    BY <1>2, <1>c
  <2> QED BY <2>2, <2>6, <2>7, <2>8, <2>9, BalancedSwap
<1>15. ASSUME NEW u \in Task, u # t, u # c PROVE Balanced(u)'
  <2>1. \A v \in Thread : \A k : On(v, k, "release", u)' <=> On(v, k, "release", u)
    BY <1>5, <1>6, <1>15
  <2>2. \A p \in Task : NextOf(p, u)' <=> NextOf(p, u)
    BY <1>7, <1>8, <1>15
  <2>3. Holders(u)' = Holders(u)
    BY <2>1, <2>2, <1>4, <1>9, HoldersSame
  <2> QED BY <2>3, <1>2, <1>15, BalancedSame
<1> QED BY <1>13, <1>14, <1>15 DEF RefsCount, Balanced

\* One holder for another, and one more.
LEMMA BalancedSwapGain ==
  ASSUME Typed, RefsCount, NEW u \in Task, NEW e \in Holders(u), NEW f, f \notin Holders(u),
         NEW g, g \notin Holders(u), f # g,
         \A x : x \in Holders(u)' <=> (x \in Holders(u) /\ x # e) \/ x = f \/ x = g,
         refs'[u] = refs[u] + 1
  PROVE  Balanced(u)'
<1>1. Holders(u)' = ((Holders(u) \ {e}) \union {f}) \union {g}
  OBVIOUS
<1>2. IsFiniteSet(Holders(u)) /\ refs[u] = Cardinality(Holders(u))
  BY DEF RefsCount
<1>3. /\ IsFiniteSet(Holders(u) \ {e})
      /\ Cardinality(Holders(u) \ {e}) = Cardinality(Holders(u)) - 1
  BY <1>2, FS_RemoveElement, Zenon
<1>4. /\ IsFiniteSet((Holders(u) \ {e}) \union {f})
      /\ Cardinality((Holders(u) \ {e}) \union {f}) = Cardinality(Holders(u) \ {e}) + 1
  BY <1>3, FS_AddElement, Zenon
<1>5. g \notin (Holders(u) \ {e}) \union {f}
  OBVIOUS
<1>6. /\ IsFiniteSet(((Holders(u) \ {e}) \union {f}) \union {g})
      /\ Cardinality(((Holders(u) \ {e}) \union {f}) \union {g})
           = Cardinality((Holders(u) \ {e}) \union {f}) + 1
  BY <1>4, <1>5, FS_AddElement, Zenon
<1>7. /\ IsFiniteSet(Holders(u)')
      /\ Cardinality(Holders(u)') = Cardinality((Holders(u) \ {e}) \union {f}) + 1
  BY <1>1, <1>6, Zenon
<1>8. Cardinality(Holders(u)') = refs[u] + 1
  <2>1. Cardinality(Holders(u)) \in Nat
    BY <1>2, FS_CardinalityType
  <2> QED BY <1>2, <1>3, <1>4, <1>7, <2>1
<1> QED BY <1>7, <1>8 DEF Balanced

\* The body's pointers go out of scope, and its continuation is kept.
LEMMA RefsReturn ==
  ASSUME Typed, OneHand, Begun, ContNew, RefsCount, NEW w \in Thread, NEW h \in Nat, NEW t \in Task,
         MReturn(w, h, t)
  PROVE  RefsCount'
<1>1. /\ Replacing(w, h) /\ On(w, h, "return", t)
      /\ \A d, s : On(w, h, d, s)' <=> d = "complete" /\ s = t
      /\ \A s \in prog.makes[t] : \E k \in Nat : k > h /\ On(w, k, "release", s)'
      /\ \A k, j \in Nat : \A s :
           k > h /\ j > h /\ On(w, k, "release", s)' /\ On(w, j, "release", s)' => k = j
      /\ continuation' = [continuation EXCEPT ![t] = prog.cont[t]]
      /\ refs' = [s \in Task |-> refs[s] + IF s = prog.cont[t] THEN 1 ELSE 0]
      /\ UNCHANGED <<prog, state, started>>
  BY DEF MReturn
<1>2. \A k \in Nat : \A d, s : k > h /\ On(w, k, d, s)' => d = "release" /\ s \in prog.makes[t]
  BY DEF MReturn
<1>p. /\ prog.makes \in [Maker -> SUBSET Task]
      /\ \A p, q \in Maker, s \in Task : s \in prog.makes[p] /\ s \in prog.makes[q] => p = q
      /\ \A p \in Task : p \notin prog.makes[p]
      /\ \A p, s \in Task : prog.cont[p] = s => s \in prog.makes[p]
      /\ t \in Maker /\ None \in Maker /\ t # None
  BY ProgramFacts, TaskAssumption DEF Typed, TypeOK, Maker
<1>3. \A u \in Task : refs[u] \in Nat /\ refs'[u] = IF u = prog.cont[t] THEN refs[u] + 1 ELSE refs[u]
  BY <1>1 DEF Typed, TypeOK
<1>4. /\ continuation'[t] = prog.cont[t] /\ \A p \in Task : p # t => continuation'[p] = continuation[p]
      /\ continuation[t] = None
  BY <1>1 DEF Typed, TypeOK, Begun
<1>5. IsReady(t) /\ \A v \in Thread, k \in Nat : On(v, k, "return", t) => v = w /\ k = h
  <2>1. \A v \in Thread, k \in Nat : On(v, k, "return", t) => Hand(v, k, t)
    BY DEF Hand, Control
  <2> QED BY <2>1, <1>1 DEF OneHand
<1>6. refs[t] > 0 /\ refs'[t] > 0
  <2>1. TheRun \in Holders(t)
    BY <1>5, HoldersAre DEF ForRun
  <2>2. refs[t] # 0
    BY <2>1, FS_EmptySet DEF RefsCount
  <2> QED BY <2>2, <1>3
<1>7. \A p \in Task : p = prog.cont[t] => continuation[p] = None
  <2>1. state[t] # "CONTINUED"
    BY <1>5 DEF IsReady
  <2>2. \A p \in Task : p = prog.cont[t] => IsNew(p)
    BY <2>1 DEF ContNew
  <2> QED BY <2>2 DEF Begun
<1>8. \A p, u \in Task : p # t => (NextOf(p, u)' <=> NextOf(p, u))
  <2> TAKE p, u \in Task
  <2>1. CASE p = prog.cont[t]
    <3>1. continuation[p] # u
      BY <2>1, <1>7, TaskAssumption
    <3> QED BY <3>1, <1>4 DEF NextOf
  <2>2. CASE p # prog.cont[t]
    BY <2>2, <1>3, <1>4 DEF NextOf
  <2> QED BY <2>1, <2>2
<1>9. \A u \in Task : ~NextOf(t, u) /\ (NextOf(t, u)' <=> u = prog.cont[t])
  BY <1>4, <1>6, TaskAssumption DEF NextOf
<1>10. \A u : ForRun(u)' <=> ForRun(u)
  BY <1>1 DEF ForRun, IsBlocked, IsReady
<1>11. \A v \in Thread, k \in Nat : \A d, s : v # w \/ k < h => (On(v, k, d, s)' <=> On(v, k, d, s))
  BY <1>1 DEF Replacing, Upper
<1>12. \A k \in Nat : \A d, s : k > h => ~On(w, k, d, s)
  BY <1>1 DEF Replacing
<1>13. \A k \in Nat : k < h \/ k = h \/ k > h
  OBVIOUS
<1>14. \A v \in Thread, k \in Nat : \A p : p # t => (On(v, k, "return", p)' <=> On(v, k, "return", p))
  <2>1. \A k \in Nat : \A p : k > h => ~On(w, k, "return", p)'
    BY <1>2
  <2>2. \A p : p # t => ~On(w, h, "return", p)' /\ ~On(w, h, "return", p)
    BY <1>1, OneCall
  <2> QED BY <2>1, <2>2, <1>11, <1>12, <1>13
<1>15. \A v \in Thread, k \in Nat : ~On(v, k, "return", t)'
  <2>1. \A k \in Nat : \A p : k > h => ~On(w, k, "return", p)'
    BY <1>2
  <2>2. ~On(w, h, "return", t)'
    BY <1>1
  <2>3. \A v \in Thread, k \in Nat : (v # w \/ k < h) => ~On(v, k, "return", t)
    <3>1. \A k \in Nat : k < h => k # h
      OBVIOUS
    <3> QED BY <3>1, <1>5
  <2> QED BY <2>1, <2>2, <2>3, <1>11, <1>13
<1>16. ASSUME NEW u \in Task, u \notin prog.makes[t] PROVE Balanced(u)'
  <2>1. \A v \in Thread : \A k : On(v, k, "release", u)' <=> On(v, k, "release", u)
    <3>1. ~On(w, h, "release", u)' /\ ~On(w, h, "release", u)
      BY <1>1, OneCall
    <3>2. \A k \in Nat : k > h => ~On(w, k, "release", u)'
      BY <1>2, <1>16
    <3> QED BY <3>1, <3>2, <1>11, <1>12, <1>13, CallNat
  <2>2. Unreturned(u)' <=> Unreturned(u)
    <3>1. \A p \in Task : u \in prog.makes[p] => p # t
      BY <1>16
    <3> QED BY <3>1, <1>14, <1>1 DEF Unreturned
  <2>3. u # prog.cont[t]
    BY <1>16, <1>p
  <2>4. \A p \in Task : NextOf(p, u)' <=> NextOf(p, u)
    BY <2>3, <1>8, <1>9
  <2>5. Holders(u)' = Holders(u)
    BY <2>1, <2>2, <2>4, <1>10, HoldersSame
  <2>6. refs'[u] = refs[u]
    BY <2>3, <1>3
  <2> QED BY <2>5, <2>6, BalancedSame
<1>17. ASSUME NEW u \in Task, u \in prog.makes[t] PROVE Balanced(u)'
  <2>1. PICK k \in Nat : k > h /\ On(w, k, "release", u)'
    BY <1>1, <1>17
  <2>2. PICK f : f = AtRelease(w, k)
    OBVIOUS
  <2>3. \A v, j : f = AtRelease(v, j) <=> v = w /\ j = k
    BY <2>2 DEF AtRelease
  <2>4. \A v \in Thread : \A j : On(v, j, "release", u)' <=> On(v, j, "release", u) \/ AtRelease(v, j) = f
    <3>1. ~On(w, h, "release", u)' /\ ~On(w, h, "release", u)
      BY <1>1, OneCall
    <3>2. \A j \in Nat : j > h /\ On(w, j, "release", u)' => j = k
      BY <2>1, <1>1
    <3> QED BY <2>1, <2>3, <3>1, <3>2, <1>11, <1>12, <1>13, CallNat
  <2>5. Unreturned(u)
    <3>1. \A p \in Maker : u \in prog.makes[p] => p = t
      BY <1>17, <1>p
    <3>2. \A p \in Task : p \in Maker
      BY DEF Maker
    <3> QED BY <3>1, <3>2, <1>p, <1>1 DEF Unreturned
  <2>6. ~Unreturned(u)'
    <3>1. started'[t] = 1
      BY <1>1 DEF Begun
    <3>2. u \in prog'.makes[t]
      BY <1>1, <1>17
    <3> QED BY <3>1, <3>2, <1>15 DEF Unreturned
  <2>7. TheCreator \in Holders(u)
    BY <2>5, HoldersAre
  <2>8. f \notin Holders(u)
    BY <2>2, <2>1, <1>12, HoldersNamed
  <2>9. f # TheCreator /\ f # TheRun /\ \A p : AtNext(p) # f
    BY <2>2, HolderNames
  <2>10. f \in Holders(u)'
    BY <2>2, <2>1, HoldersAre
  <2>11. CASE u # prog.cont[t]
    <3>1. \A p \in Task : NextOf(p, u)' <=> NextOf(p, u)
      BY <2>11, <1>8, <1>9
    <3>2. \A x : x \in Holders(u)' => (x \in Holders(u) /\ x # TheCreator) \/ x = f
      BY <2>4, <2>6, <3>1, <1>10, HoldersAre, HolderNames
    <3>3. \A x : x \in Holders(u) /\ x # TheCreator => x \in Holders(u)'
      BY <2>4, <3>1, <1>10, HoldersAre
    <3>4. refs'[u] = refs[u]
      BY <2>11, <1>3
    <3> QED BY <2>7, <2>8, <2>10, <3>2, <3>3, <3>4, BalancedSwap
  <2>12. CASE u = prog.cont[t]
    <3>1. PICK g : g = AtNext(t)
      OBVIOUS
    <3>2. \A p \in Task : NextOf(p, u)' <=> NextOf(p, u) \/ AtNext(p) = g
      <4>1. \A p : AtNext(p) = g <=> p = t
        BY <3>1 DEF AtNext
      <4> QED BY <4>1, <2>12, <1>8, <1>9
    <3>3. g \notin Holders(u)
      BY <3>1, <1>9, HoldersNamed
    <3>4. g \in Holders(u)'
      <4>1. NextOf(t, u)'
        BY <2>12, <1>9
      <4> QED BY <4>1, <3>1, HoldersAre
    <3>5. f # g
      BY <3>1, <2>9
    <3>6. \A x : x \in Holders(u)' => (x \in Holders(u) /\ x # TheCreator) \/ x = f \/ x = g
      BY <2>4, <2>6, <3>2, <1>10, HoldersAre, HolderNames
    <3>7. \A x : x \in Holders(u) /\ x # TheCreator => x \in Holders(u)'
      BY <2>4, <3>2, <1>10, HoldersAre
    <3>8. refs'[u] = refs[u] + 1
      BY <2>12, <1>3
    <3> QED BY <2>7, <2>8, <2>10, <3>3, <3>4, <3>5, <3>6, <3>7, <3>8, BalancedSwapGain
  <2> QED BY <2>11, <2>12
<1> QED BY <1>16, <1>17 DEF RefsCount, Balanced

\* A step of the others leaves every pointer where it is.
LEMMA RefsMoves ==
  ASSUME Typed, RefsCount, NEW w \in Thread, NEW h \in Nat, NEW t \in Task
  PROVE  /\ \A s \in Task : MForward(w, h, t, s) \/ MFinished(w, h, t, s) \/ MRegister(w, h, t, s)
                              => RefsCount'
         /\ MInline(w, h, t) \/ MQueue(w, h, t) \/ MSend(w, h, t) \/ MKeep(w, h, t) => RefsCount'
         /\ MCompletes(w, h, t) \/ MCancelled(w, h, t) \/ MSplice(w, h, t) => RefsCount'
         /\ MDecrement(w, h, t) \/ MWaitOn(w, h, t) \/ MWaited(w, h, t) \/ MAbort(w, h) => RefsCount'
         /\ \A x : MTake(w, h, t, x) => RefsCount'
         /\ \A d \in {"run", "schedule"} : \A x : MLast(w, h, t, d, x) => RefsCount'
<1> DEFINE D == {"release", "return"}
<1>1. UNCHANGED state => \A u \in Task : ForRun(u)' <=> ForRun(u)
  BY DEF ForRun, IsBlocked, IsReady
<1>2. \A E : Same(E) /\ D \subseteq E => Same(D)
  BY DEF Same
<1>3. UNCHANGED <<prog, started, continuation, refs>> /\ Same(D)
        /\ (\A u \in Task : ForRun(u)' <=> ForRun(u))
          => RefsCount'
  BY RefsKept
<1>4. /\ D \subseteq Method \ {"dependsOn"} /\ D \subseteq Method \ {"schedule", "run"}
      /\ D \subseteq Method \ {"schedule"} /\ D \subseteq Method \ {"complete"} /\ D \subseteq Method
      /\ D \subseteq Method \ {"run", "complete"} /\ D \subseteq Method \ {"splice"}
      /\ D \subseteq Method \ {"decrement"} /\ D \subseteq Method \ {"wait"}
      /\ D \subseteq Method \ {"abort"} /\ D \subseteq Method \ {"run"}
      /\ \A d \in {"run", "schedule"} : D \subseteq Method \ {"decrement", d}
  BY DEF Method
<1> HIDE DEF D
<1>5. \A s \in Task : MForward(w, h, t, s) \/ MFinished(w, h, t, s) \/ MRegister(w, h, t, s) => RefsCount'
  <2> TAKE s \in Task
  <2> HAVE MForward(w, h, t, s) \/ MFinished(w, h, t, s) \/ MRegister(w, h, t, s)
  <2>1. Same(Method \ {"dependsOn"})
    BY SameCalls
  <2>2. Same(D)
    BY <2>1, <1>2, <1>4
  <2>3. UNCHANGED <<prog, state, started, continuation, refs>>
    BY DEF MForward, MFinished, MRegister, tasks
  <2> QED BY <2>2, <2>3, <1>1, <1>3
<1>6. ASSUME MInline(w, h, t) \/ MQueue(w, h, t) \/ MSend(w, h, t) PROVE RefsCount'
  <2>1. Same(Method \ {"schedule", "run"}) \/ Same(Method \ {"schedule"})
    BY <1>6, SameCalls
  <2>2. Same(D)
    BY <2>1, <1>2, <1>4
  <2>3. UNCHANGED <<prog, state, started, continuation, refs>>
    BY <1>6 DEF MInline, MQueue, MSend, tasks
  <2> QED BY <2>2, <2>3, <1>1, <1>3
<1>7. ASSUME MKeep(w, h, t) PROVE RefsCount'
  <2>1. Same(Method)
    BY <1>7, SameCalls
  <2>2. Same(D)
    BY <2>1, <1>2, <1>4
  <2>3. UNCHANGED <<prog, started, continuation, refs>>
    BY <1>7 DEF MKeep
  <2>4. \A u \in Task : ForRun(u)' <=> ForRun(u)
    <3>1. /\ state[t] = "REMOTE_READY" /\ state'[t] = "READY"
          /\ \A u \in Task : u # t => state'[u] = state[u]
      BY <1>7 DEF MKeep, Typed, TypeOK
    <3> QED BY <3>1 DEF ForRun, IsBlocked, IsReady
  <2> QED BY <2>2, <2>3, <2>4, <1>3
<1>8. ASSUME MCompletes(w, h, t) \/ MCancelled(w, h, t) \/ MSplice(w, h, t) PROVE RefsCount'
  <2>1. \/ Same(Method \ {"complete"}) \/ Same(Method \ {"run", "complete"})
        \/ Same(Method \ {"splice"})
    BY <1>8, SameCalls
  <2>2. Same(D)
    BY <2>1, <1>2, <1>4
  <2>3. UNCHANGED <<prog, state, started, continuation, refs>>
    BY <1>8 DEF MCompletes, MCancelled, MSplice, tasks
  <2> QED BY <2>2, <2>3, <1>1, <1>3
<1>9. ASSUME MDecrement(w, h, t) \/ MWaitOn(w, h, t) \/ MWaited(w, h, t) \/ MAbort(w, h)
      PROVE RefsCount'
  <2>1. \/ Same(Method \ {"decrement"}) \/ Same(Method \ {"wait"}) \/ Same(Method \ {"abort"})
    BY <1>9, SameCalls
  <2>2. Same(D)
    BY <2>1, <1>2, <1>4
  <2>3. UNCHANGED <<prog, state, started, continuation, refs>>
    BY <1>9 DEF MDecrement, MWaitOn, MWaited, MAbort, tasks
  <2> QED BY <2>2, <2>3, <1>1, <1>3
<1>10. ASSUME NEW x, MTake(w, h, t, x) PROVE RefsCount'
  <2>1. Same(Method \ {"run"})
    BY <1>10, SameTake
  <2>2. Same(D)
    BY <2>1, <1>2, <1>4
  <2>3. UNCHANGED <<prog, state, started, continuation, refs>>
    BY <1>10 DEF MTake, tasks
  <2> QED BY <2>2, <2>3, <1>1, <1>3
<1>11. ASSUME NEW d \in {"run", "schedule"}, NEW x, MLast(w, h, t, d, x) PROVE RefsCount'
  <2>1. Same(Method \ {"decrement", d})
    BY <1>11, SameLast
  <2>2. Same(D)
    BY <2>1, <1>2, <1>4
  <2>3. UNCHANGED <<prog, started, continuation, refs>>
    BY <1>11 DEF MLast
  <2>4. \A u \in Task : ForRun(u)' <=> ForRun(u)
    <3>1. /\ IsBlocked(t) /\ state'[t] \in {"READY", "REMOTE_READY"}
          /\ \A u \in Task : u # t => state'[u] = state[u]
      BY <1>11 DEF MLast, Typed, TypeOK
    <3> QED BY <3>1 DEF ForRun, IsBlocked, IsReady
  <2> QED BY <2>2, <2>3, <2>4, <1>3
<1>a. MInline(w, h, t) \/ MQueue(w, h, t) \/ MSend(w, h, t) \/ MKeep(w, h, t) => RefsCount'
  BY <1>6, <1>7
<1> QED BY <1>5, <1>a, <1>8, <1>9, <1>10, <1>11

LEMMA RefsCountStays ==
  ASSUME Typed, OneHand, Begun, ContNew, RefsCount, NEW w \in Thread, NEW h \in Nat, NEW t \in Task,
         Move(w, h, t)
  PROVE  RefsCount'
<1>1. CASE \E s \in Task : \/ MForward(w, h, t, s) \/ MFinished(w, h, t, s) \/ MRegister(w, h, t, s)
                           \/ MContinue(w, h, t, s) \/ MDelete(w, h, t, s)
  BY <1>1, RefsMoves, RefsDone, RefsDelete
<1>2. CASE \E n \in Nat : MComplete(w, h, t, n)
  BY <1>2, RefsDone
<1>3. CASE \E x \in BOOLEAN : MTake(w, h, t, x)
  BY <1>3, RefsMoves
<1>4. CASE \E d \in {"run", "schedule"}, x \in {TRUE, None} : MLast(w, h, t, d, x)
  BY <1>4, RefsMoves
<1>5. CASE MPending(w, h, t) \/ MReady(w, h, t)
  BY <1>5, RefsEnqueue
<1>6. CASE MInline(w, h, t) \/ MQueue(w, h, t) \/ MSend(w, h, t) \/ MKeep(w, h, t)
  BY <1>6, RefsMoves
<1>7. CASE MCompletes(w, h, t) \/ MCancelled(w, h, t) \/ MSplice(w, h, t)
  BY <1>7, RefsMoves
<1>8. CASE MDecrement(w, h, t) \/ MWaitOn(w, h, t) \/ MWaited(w, h, t)
  BY <1>8, RefsMoves
<1>9. CASE MRun(w, h, t)
  BY <1>9, RefsRun
<1>10. CASE MReturn(w, h, t)
  BY <1>10, RefsReturn
<1>11. CASE MRelease(w, h, t)
  BY <1>11, RefsRelease
<1> QED BY <1>1, <1>2, <1>3, <1>4, <1>5, <1>6, <1>7, <1>8, <1>9, <1>10, <1>11 DEF Move

-----------------------------------------------------------------------------
(* Steps in which the graph does not change: a thread enters AbortTask, or  *)
(* nothing happens.                                                         *)

Quiet == UNCHANGED <<prog, queues, tasks, outstanding, started>>

LEMMA QuietCalls ==
  ASSUME Typed, Quiet, stack' \in [Thread -> Seq(Frame)], failed' \in BOOLEAN, Same(Method \ {"abort"})
  PROVE  /\ Typed' /\ Permanent
         /\ \A v \in Thread, k \in Nat, d \in Method \ {"abort"} : \A s :
              /\ On(v, k, d, s)' <=> On(v, k, d, s)
              /\ On(v, k, d, s) => ArgAt(v, k)' = ArgAt(v, k)
<1>1. UNCHANGED <<prog, state, dependents, numPredecessors, continuation, refs, outstanding, started>>
      /\ UNCHANGED queues
  BY DEF Quiet, tasks
<1>2. TypeOK'
  BY <1>1, QueuesStay DEF Typed, TypeOK
<1>3. Permanent
  BY <1>1 DEF Permanent, IsNew
<1>4. \A v \in Thread, k \in Nat, d \in Method \ {"abort"} : \A s :
              /\ On(v, k, d, s)' <=> On(v, k, d, s)
              /\ On(v, k, d, s) => ArgAt(v, k)' = ArgAt(v, k)
  BY CallNat DEF Same
<1> QED BY <1>2, <1>3, <1>4 DEF Typed

LEMMA QuietCounts ==
  ASSUME Typed, OneHand, Begun, Kinds, NoneLeftToWaitFor, Count, Fresh, ContNew, WillBeEnqueued, RefsCount,
         Quiet, Same(Method \ {"abort"})
  PROVE  /\ OneHand' /\ Begun' /\ Kinds' /\ NoneLeftToWaitFor' /\ Count' /\ Fresh' /\ ContNew'
         /\ WillBeEnqueued' /\ RefsCount'
<1>1. UNCHANGED <<prog, state, dependents, numPredecessors, continuation, refs, outstanding, started>>
      /\ UNCHANGED queues
  BY DEF Quiet, tasks
<1>2. \A v \in Thread, k \in Nat, d \in Method \ {"abort"} : \A s : On(v, k, d, s)' <=> On(v, k, d, s)
  BY DEF Same
<1>3. OneHand'
  <2>1. Control \subseteq Method \ {"abort"}
    BY DEF Control, Method
  <2>2. HandsStay
    BY <1>2, <2>1 DEF HandsStay, Hand
  <2>3. \A s \in Task : state'[s] = state[s]
    BY <1>1
  <2> QED BY <1>1, <2>2, <2>3, OneHandKept
<1>4. Begun'
  <2>1. Queued' = Queued /\ UNCHANGED outstanding
    BY <1>1, QueuesStay
  <2>2. \A w \in Thread, k \in Nat, t \in Task, d \in {"schedule", "run", "return"} :
          On(w, k, d, t)' <=> On(w, k, d, t)
    BY <1>2 DEF Method
  <2>3. \A t \in Task : /\ started'[t] = started[t] /\ continuation'[t] = continuation[t]
                        /\ state'[t] = state[t] /\ prog'.cont[t] = prog.cont[t]
                        /\ IsNew(t)' <=> IsNew(t)
                        /\ IsBlocked(t)' <=> IsBlocked(t)
    BY <1>1 DEF IsNew, IsBlocked
  <2>4. /\ \A t \in Queued \union outstanding : started[t] = 0
        /\ \A w \in Thread, k \in Nat, t \in Task :
             /\ On(w, k, "schedule", t) \/ On(w, k, "run", t) => started[t] = 0
             /\ On(w, k, "return", t) => started[t] = 1
    BY DEF Begun
  <2>5. Queued' \union outstanding' = Queued \union outstanding /\ started' = started
    BY <1>1, <2>1
  <2>6. /\ \A t \in Queued' \union outstanding' : started'[t] = 0
        /\ \A w \in Thread, k \in Nat, t \in Task :
             /\ On(w, k, "schedule", t)' \/ On(w, k, "run", t)' => started'[t] = 0
             /\ On(w, k, "return", t)' => started'[t] = 1
    BY <2>2, <2>4, <2>5
  <2>7. /\ \A t \in Task : /\ started[t] \in {0, 1}
                           /\ IsNew(t) \/ IsBlocked(t) => started[t] = 0
        /\ \A t \in Task : continuation[t] # None =>
             /\ continuation[t] = prog.cont[t] /\ started[t] = 1
             /\ \A w \in Thread, k \in Nat : ~On(w, k, "return", t)
        /\ \A t \in Task : state[t] = "CONTINUED" => continuation[t] # None
    BY DEF Begun
  <2>8. /\ \A t \in Task : /\ started'[t] \in {0, 1}
                           /\ IsNew(t)' \/ IsBlocked(t)' => started'[t] = 0
        /\ \A t \in Task : continuation'[t] # None =>
             /\ continuation'[t] = prog'.cont[t] /\ started'[t] = 1
             /\ \A w \in Thread, k \in Nat : ~On(w, k, "return", t)'
        /\ \A t \in Task : state'[t] = "CONTINUED" => continuation'[t] # None
    BY <2>2, <2>3, <2>7
  <2> QED BY <2>6, <2>8 DEF Begun
<1>5. Kinds' /\ NoneLeftToWaitFor' /\ Fresh' /\ ContNew'
  BY <1>1 DEF Kinds, NoneLeftToWaitFor, Fresh, ContNew, IsReady, IsDone, IsNew, Remote
<1>6. Count'
  BY <1>1, CountKept DEF Method
<1>7. WillBeEnqueued'
  <2>1. \A w \in Thread, k \in Nat, t \in Task, d \in {"enqueue", "return"} :
          On(w, k, d, t)' <=> On(w, k, d, t)
    BY <1>2 DEF Method
  <2> QED BY <1>1, <2>1 DEF WillBeEnqueued, IsNew, IsReady
<1>8. RefsCount'
  <2>1. \A u \in Task : ForRun(u)' <=> ForRun(u)
    BY <1>1 DEF ForRun, IsBlocked, IsReady
  <2> QED BY <1>1, <2>1, RefsKept DEF Method
<1> QED BY <1>3, <1>4, <1>5, <1>6, <1>7, <1>8

LEMMA QuietWires ==
  ASSUME Typed, Wiring, Declares, Quiet, stack' \in [Thread -> Seq(Frame)], failed' \in BOOLEAN,
         \/ UNCHANGED stack
         \/ \E w \in Thread, h \in Nat : MAbort(w, h)
  PROVE  Wiring' /\ Declares'
<1>1. UNCHANGED <<prog, state, dependents, numPredecessors, continuation, refs, outstanding, started>>
  BY DEF Quiet, tasks
<1>2. Same(Method \ {"abort"})
  <2>1. CASE UNCHANGED stack
    BY <2>1 DEF Same, On, ArgAt, CallAt
  <2>2. CASE \E w \in Thread, h \in Nat : MAbort(w, h)
    <3>1. PICK w \in Thread, h \in Nat : MAbort(w, h)
      BY <2>2
    <3>2. Pushing(w, h, Call("abort", None, None)) /\ Call("abort", None, None).do \notin Method \ {"abort"}
      BY <3>1 DEF MAbort, Call
    <3> QED BY <3>2, SameButPushed
  <2> QED BY <2>1, <2>2
<1>3. Permanent
  BY <1>2, QuietCalls
<1>4. \A p \in Task : continuation[p] # None => continuation'[p] = continuation[p]
  BY <1>1
<1>5. ASSUME UNCHANGED stack
      PROVE  Wiring'
  <2>1. \A v \in Thread : \A k, d, s : /\ On(v, k, d, s)' <=> On(v, k, d, s)
                                       /\ ArgAt(v, k)' = ArgAt(v, k)
                                       /\ Below(v, k, d, s)' <=> Below(v, k, d, s)
    BY <1>5 DEF On, ArgAt, CallAt, Below
  <2>2. ASSUME NEW v \in Thread, NEW k \in Nat, NEW u \in Task
        PROVE  Wired(v, k, u)'
    <3>1. Wired(v, k, u)
      BY DEF Wiring
    <3>2. \/ IsNew(u)'
          \/ ~On(v, k, "dependsOn", u) /\ ~On(v, k, "enqueue", u)
      BY <1>1, <3>1 DEF Wired, WiredDependsOn, WiredEnqueue, IsNew
    <3> QED BY <1>3, <1>4, <2>1, <3>1, <3>2, WiredStays
  <2>3. \A u \in Task : EnqueuedOnce(u)'
    BY <2>1 DEF Wiring, EnqueuedOnce
  <2> QED BY <2>2, <2>3 DEF Wiring
<1>6. ASSUME \E w \in Thread, h \in Nat : MAbort(w, h)
      PROVE  Wiring'
  <2>1. PICK w \in Thread, h \in Nat : MAbort(w, h)
    BY <1>6
  <2>2. Upper(w, h) /\ \A k \in Nat : \A d, s : k >= h => (On(w, k, d, s)' <=> k = h /\ d = "abort" /\ s = None)
    BY <2>1 DEF MAbort, Pushing, Call
  <2>3. \A k \in Nat, d \in Wirings : \A s : k >= h => ~On(w, k, d, s)'
    BY <2>2 DEF Wirings
  <2>4. \A u \in Task, v \in Thread, k \in Nat :
           (On(v, k, "dependsOn", u) \/ On(v, k, "enqueue", u)) /\ (v # w \/ k < h) => IsNew(u)'
    BY <1>1 DEF Wiring, Wired, WiredDependsOn, WiredEnqueue, IsNew
  <2> QED BY <1>3, <1>4, <2>2, <2>3, <2>4, WiringKept
<1>7. Declares'
  <2>1. \A w \in Thread, k \in Nat, d \in {"dependsOn", "splice"} : \A s :
          /\ On(w, k, d, s)' <=> On(w, k, d, s)
          /\ On(w, k, d, s) => ArgAt(w, k)' = ArgAt(w, k)
    BY <1>2 DEF Same, Method
  <2>2. ASSUME NEW x, NEW s \in Task, Awaits(x, s)
        PROVE  Awaits(x, s)'
    <3>1. CASE \E w \in Thread, k \in Nat : On(w, k, "dependsOn", x) /\ ArgAt(w, k) = s
      BY <2>1, <3>1 DEF Awaits
    <3>2. CASE Indices(dependents[s], x) # {}
      BY <1>1, <3>2 DEF Awaits
    <3>3. CASE \E w \in Thread, k \in Nat : On(w, k, "splice", s) /\ Indices(ArgAt(w, k), x) # {}
      <4>1. PICK w \in Thread, k \in Nat : On(w, k, "splice", s) /\ Indices(ArgAt(w, k), x) # {}
        BY <3>3
      <4>2. On(w, k, "splice", s)' /\ ArgAt(w, k)' = ArgAt(w, k)
        BY <2>1, <4>1
      <4>3. Indices(ArgAt(w, k)', x) # {}
        BY <4>1, <4>2
      <4> QED BY <4>2, <4>3 DEF Awaits
    <3> QED BY <2>2, <3>1, <3>2, <3>3 DEF Awaits
  <2>3. ASSUME NEW that, NEW x, Promised(that, x)
        PROVE  Promised(that, x)'
    <3>1. PICK s \in Task : Follows(that, s) /\ (state[s] = "COMPLETE" \/ Awaits(x, s))
      BY <2>3 DEF Promised
    <3>2. Follows(that, s)'
      BY <1>3, <3>1, FollowsStays
    <3>3. state'[s] = "COMPLETE" \/ Awaits(x, s)'
      BY <1>1, <2>2, <3>1
    <3> QED BY <3>2, <3>3 DEF Promised
  <2>4. \A p : Body(p)' = Body(p)
    BY <1>1 DEF Body
  <2> SUFFICES ASSUME NEW p \in Maker, p = None \/ started'[p] = 1, NEW i \in DOMAIN Body(p),
                      Body(p)[i].do = "dependsOn",
                      NEW that, that = Body(p)[i].arg, NEW x, x = Body(p)[i].t
               PROVE  Promised(that, x)'
    BY <2>4 DEF Declares
  <2>5. Promised(that, x)
    BY <1>1 DEF Declares
  <2> QED BY <2>3, <2>5
<1> QED BY <1>5, <1>6, <1>7

-----------------------------------------------------------------------------
(* The initial states.                                                      *)

\* main's calls, over the calls that drop its pointers.
AtStart(n, m) ==
  /\ n \in Nat /\ m \in Nat /\ stack \in [Thread -> Seq(Frame)]
  /\ \A v \in Thread, k \in Nat : v # Main => \A d, s : ~On(v, k, d, s)
  /\ \A k \in Nat : k > m =>
       /\ \A d, s : On(Main, k, d, s) <=> /\ n + m + 1 - k \in 1 .. n
                                          /\ Body(None)[n + m + 1 - k].do = d
                                          /\ Body(None)[n + m + 1 - k].t = s
       /\ n + m + 1 - k \in 1 .. n => ArgAt(Main, k) = Body(None)[n + m + 1 - k].arg
  /\ \A k \in Nat : \A d, s : k <= m /\ On(Main, k, d, s) => d = "release" /\ s \in prog.makes[None]
  /\ \A s \in prog.makes[None] : \E k \in Nat : k <= m /\ On(Main, k, "release", s)
  /\ \A j, k \in Nat : \A s :
       /\ j <= m /\ On(Main, j, "release", s)
       /\ k <= m /\ On(Main, k, "release", s)
       => j = k

LEMMA StackAtStart ==
  ASSUME Init
  PROVE  \E n, m \in Nat : n = Len(Body(None)) /\ AtStart(n, m)
<1>1. prog \in Programs
  BY DEF Init
<1>2. /\ prog.makes[None] \in SUBSET Task /\ Body(None) \in Seq(BodyCall) /\ Body(None) = prog.main
      /\ None \in Maker
  BY <1>1, ProgramFacts DEF Maker
<1>3. PICK n : n = Len(Body(None))
  OBVIOUS
<1>4. PICK m : m = Cardinality(prog.makes[None])
  OBVIOUS
<1>5. PICK r : r = Releases(prog.makes[None])
  OBVIOUS
<1>6. /\ m \in Nat /\ r \in Seq(Frame) /\ Len(r) = m
      /\ \A i \in 1 .. m : r[i].do = "release" /\ r[i].t \in prog.makes[None]
      /\ \A s \in prog.makes[None] : \E i \in 1 .. m : r[i].t = s
      /\ \A i, j \in 1 .. m : r[i].t = r[j].t => i = j
  BY <1>2, <1>4, <1>5, ReleasesEach
<1>7. n \in Nat /\ Body(None) \in Seq(Frame)
  <2>1. BodyCall \subseteq Frame
    BY DEF Frame
  <2>2. Body(None) \in Seq(Frame)
    BY <1>2, <2>1
  <2> QED BY <1>2, <1>3, <2>2, LenProperties
<1>8. PICK q : q = Body(None) \o r
  OBVIOUS
<1>9. /\ q \in Seq(Frame) /\ Len(q) = n + m
      /\ \A i \in 1 .. n + m : q[i] = IF i <= n THEN Body(None)[i] ELSE r[i - n]
  <2>1. PICK b : b = Body(None)
    OBVIOUS
  <2>2. b \in Seq(Frame) /\ Len(b) = n /\ q = b \o r
    BY <1>3, <1>7, <1>8, <2>1
  <2>4. r \in Seq(Frame) /\ Len(r) = m
    BY <1>6
  <2>5. /\ b \o r \in Seq(Frame) /\ Len(b \o r) = Len(b) + Len(r)
        /\ \A i \in 1 .. Len(b) + Len(r) : (b \o r)[i] = IF i <= Len(b) THEN b[i] ELSE r[i - Len(b)]
    BY <2>2, <2>4, ConcatProperties, Zenon
  <2>3. /\ q \in Seq(Frame) /\ Len(q) = n + m
        /\ \A i \in 1 .. n + m : q[i] = IF i <= n THEN b[i] ELSE r[i - n]
    BY <2>2, <2>4, <2>5, Zenon
  <2> QED BY <2>1, <2>3
<1>10. /\ Main \in Thread /\ stack[Main] = q
       /\ \A v \in Thread : v # Main => stack[v] = <<>>
       /\ stack \in [Thread -> Seq(Frame)]
  <2>1. Main \in Thread
    BY TaskAssumption DEF Thread
  <2>2. stack = [w \in Thread |-> IF w = Main THEN q ELSE <<>>]
    BY <1>2, <1>5, <1>8 DEF Init
  <2>3. <<>> \in Seq(Frame)
    OBVIOUS
  <2> QED BY <1>9, <2>1, <2>2, <2>3
<1>11. \A v \in Thread, k \in Nat : v # Main => \A d, s : ~On(v, k, d, s)
  BY <1>10 DEF On
<1>12. \A k \in Nat : \A d, s : On(Main, k, d, s) <=>
         k \in 1 .. n + m /\ q[n + m + 1 - k].do = d /\ q[n + m + 1 - k].t = s
  BY <1>9, <1>10 DEF On, CallAt
<1>13. \A k \in Nat : ArgAt(Main, k) = q[n + m + 1 - k].arg
  BY <1>9, <1>10 DEF ArgAt, CallAt
<1>14. ASSUME NEW k \in Nat, k > m
       PROVE  /\ \A d, s : On(Main, k, d, s) <=> /\ n + m + 1 - k \in 1 .. n
                                                 /\ Body(None)[n + m + 1 - k].do = d
                                                 /\ Body(None)[n + m + 1 - k].t = s
              /\ n + m + 1 - k \in 1 .. n => ArgAt(Main, k) = Body(None)[n + m + 1 - k].arg
  <2>1. PICK i : i = n + m + 1 - k
    OBVIOUS
  <2>2. (k \in 1 .. n + m <=> i \in 1 .. n) /\ (i \in 1 .. n => i \in 1 .. n + m /\ i <= n)
    BY <1>6, <1>7, <1>14, <2>1
  <2>3. i \in 1 .. n => q[i] = Body(None)[i]
    BY <1>9, <2>2
  <2> QED BY <1>12, <1>13, <2>1, <2>2, <2>3
<1>15. ASSUME NEW k \in Nat, k <= m
       PROVE  \A d, s : On(Main, k, d, s) <=> /\ m + 1 - k \in 1 .. m
                                              /\ r[m + 1 - k].do = d /\ r[m + 1 - k].t = s
  <2>1. PICK i : i = n + m + 1 - k
    OBVIOUS
  <2>2. /\ k \in 1 .. n + m <=> m + 1 - k \in 1 .. m
        /\ m + 1 - k \in 1 .. m => i \in 1 .. n + m /\ ~(i <= n) /\ i - n = m + 1 - k
    BY <1>6, <1>7, <1>15, <2>1
  <2>3. m + 1 - k \in 1 .. m => q[i] = r[m + 1 - k]
    BY <1>9, <2>2
  <2>4. \A d, s : On(Main, k, d, s) <=> k \in 1 .. n + m /\ q[i].do = d /\ q[i].t = s
    BY <1>12, <2>1
  <2> QED BY <2>2, <2>3, <2>4
<1>16. \A k \in Nat : \A d, s : k <= m /\ On(Main, k, d, s) => d = "release" /\ s \in prog.makes[None]
  <2> SUFFICES ASSUME NEW k \in Nat, NEW d, NEW s, k <= m, On(Main, k, d, s)
               PROVE  d = "release" /\ s \in prog.makes[None]
    OBVIOUS
  <2>1. m + 1 - k \in 1 .. m /\ r[m + 1 - k].do = d /\ r[m + 1 - k].t = s
    BY <1>15
  <2> QED BY <1>6, <2>1
<1>17. ASSUME NEW s \in prog.makes[None]
       PROVE  \E k \in Nat : k <= m /\ On(Main, k, "release", s)
  <2>1. PICK i \in 1 .. m : r[i].t = s /\ r[i].do = "release"
    BY <1>6
  <2>2. PICK k \in Nat : k = m + 1 - i /\ k <= m /\ m + 1 - k = i
    BY <1>6
  <2> QED BY <1>15, <2>1, <2>2
<1>18. ASSUME NEW j \in Nat, NEW k \in Nat, NEW s, j <= m, On(Main, j, "release", s),
              k <= m, On(Main, k, "release", s)
       PROVE  j = k
  <2>1. m + 1 - j \in 1 .. m /\ m + 1 - k \in 1 .. m /\ r[m + 1 - j].t = s /\ r[m + 1 - k].t = s
    BY <1>15, <1>18
  <2>2. m + 1 - j = m + 1 - k
    BY <1>6, <2>1
  <2> QED BY <1>6, <2>2
<1>19. AtStart(n, m)
  BY <1>6, <1>7, <1>10, <1>11, <1>14, <1>16, <1>17, <1>18 DEF AtStart
<1> QED BY <1>3, <1>6, <1>7, <1>19

\* The tasks and the queues of the initial states.
LEMMA TasksAtStart ==
  ASSUME Init
  PROVE  /\ TypeOK /\ QueuedOnce /\ Queued = {} /\ outstanding = {}
         /\ \A t \in Task : /\ IsNew(t) /\ ~IsBlocked(t) /\ ~IsReady(t) /\ ~IsDone(t)
                            /\ dependents[t] = <<>> /\ numPredecessors[t] = 0
                            /\ continuation[t] = None /\ refs[t] = 1 /\ started[t] = 0
                            /\ state[t] = IF t \in Remote THEN "REMOTE_NEW" ELSE "NEW"
<1>1. \A t \in Task : state[t] = IF t \in Remote THEN "REMOTE_NEW" ELSE "NEW"
  BY DEF Init
<1>2. QueuesTypeOK /\ \A w \in Worker : ondeck[w] = None /\ deque[w] = <<>> /\ inject[w] = <<>>
  <2>1. <<>> \in Seq(Task)
    OBVIOUS
  <2> QED BY <2>1 DEF Init, QueuesInit, QueuesTypeOK
<1>3. \A w \in Worker, i \in Nat : i \notin DOMAIN deque[w] /\ i \notin DOMAIN inject[w]
  BY <1>2
<1>4. QueuedOnce
  BY <1>2, <1>3 DEF QueuedOnce
<1>5. Queued = {}
  <2>1. \A t : t \notin Queued
    BY <1>2, <1>3, QueuedMeans
  <2> QED BY <2>1
<1>6. \A t \in Task : /\ IsNew(t) /\ ~IsBlocked(t) /\ ~IsReady(t) /\ ~IsDone(t)
                      /\ dependents[t] = <<>> /\ numPredecessors[t] = 0
                      /\ continuation[t] = None /\ refs[t] = 1 /\ started[t] = 0
  BY <1>1 DEF Init, IsNew, IsBlocked, IsReady, IsDone
<1>7. TypeOK
  <2>1. dependents \in [Task -> Seq(Task)]
    <3>1. <<>> \in Seq(Task)
      OBVIOUS
    <3> QED BY <3>1 DEF Init
  <2>2. state \in [Task -> {"NEW", "PENDING", "READY", "COMPLETE", "CONTINUED",
                            "REMOTE_NEW", "REMOTE_PENDING", "REMOTE_READY"}]
    BY DEF Init
  <2>3. /\ prog \in Programs /\ numPredecessors \in [Task -> Nat]
        /\ continuation \in [Task -> Task \union {None}]
        /\ refs \in [Task -> Nat] /\ outstanding \subseteq Task /\ started \in [Task -> Nat]
        /\ failed \in BOOLEAN
    BY DEF Init
  <2> QED BY <1>2, <2>1, <2>2, <2>3 DEF TypeOK
<1>8. outstanding = {}
  BY DEF Init
<1> QED BY <1>1, <1>4, <1>5, <1>6, <1>7, <1>8

\* The calls of the initial states: a call is a call of main's body or
\* drops one of its pointers.
LEMMA CallsAtStart ==
  ASSUME Init, NEW n, NEW m, n = Len(Body(None)), AtStart(n, m)
  PROVE  /\ \A v \in Thread, k \in Nat : \A d, s : On(v, k, d, s) =>
              /\ d \in {"dependsOn", "enqueue", "wait", "release"}
              /\ v = Main /\ s \in prog.makes[None]
              /\ d = "release" => k <= m
              /\ d # "release" => /\ k > m /\ n + m + 1 - k \in 1 .. n
                                  /\ Body(None)[n + m + 1 - k].do = d
                                  /\ Body(None)[n + m + 1 - k].t = s
                                  /\ ArgAt(v, k) = Body(None)[n + m + 1 - k].arg
<1>1. prog \in Programs /\ None \in Maker
  BY DEF Init, Maker
<1>2. \A i \in 1 .. n : /\ Body(None)[i].do \in {"dependsOn", "enqueue", "wait"}
                        /\ Body(None)[i].t \in prog.makes[None]
  BY <1>1, BodyFacts
<1>3. ASSUME NEW v \in Thread, NEW k \in Nat, NEW d, NEW s, On(v, k, d, s)
      PROVE  /\ d \in {"dependsOn", "enqueue", "wait", "release"}
             /\ v = Main /\ s \in prog.makes[None]
             /\ d = "release" => k <= m
             /\ d # "release" => /\ k > m /\ n + m + 1 - k \in 1 .. n
                                 /\ Body(None)[n + m + 1 - k].do = d
                                 /\ Body(None)[n + m + 1 - k].t = s
                                 /\ ArgAt(v, k) = Body(None)[n + m + 1 - k].arg
  <2>1. v = Main
    BY <1>3 DEF AtStart
  <2>2. CASE k <= m
    BY <1>3, <2>1, <2>2 DEF AtStart
  <2>3. CASE ~(k <= m)
    <3>1. k > m
      BY <2>3 DEF AtStart
    <3>2. /\ n + m + 1 - k \in 1 .. n /\ Body(None)[n + m + 1 - k].do = d
          /\ Body(None)[n + m + 1 - k].t = s
          /\ ArgAt(v, k) = Body(None)[n + m + 1 - k].arg
      BY <1>3, <2>1, <3>1 DEF AtStart
    <3>3. d \in {"dependsOn", "enqueue", "wait"} /\ s \in prog.makes[None]
      BY <1>2, <3>2
    <3> QED BY <2>1, <3>1, <3>2, <3>3
  <2> QED BY <2>2, <2>3
<1> QED BY <1>3

LEMMA InitCounts ==
  ASSUME Init
  PROVE  /\ Typed /\ OneHand /\ Begun /\ Kinds /\ NoneLeftToWaitFor /\ Fresh /\ ContNew
         /\ WillBeEnqueued /\ Count
<1>1. PICK n, m \in Nat : n = Len(Body(None)) /\ AtStart(n, m)
  BY StackAtStart
<1>2. \A v \in Thread, k \in Nat : \A d, s :
        On(v, k, d, s) => d \in {"dependsOn", "enqueue", "wait", "release"}
  BY <1>1, CallsAtStart
<1>3. Typed
  BY <1>1, TasksAtStart DEF Typed, AtStart
<1>4. OneHand
  <2>1. \A v \in Thread, k \in Nat : \A t : ~Hand(v, k, t)
    BY <1>2 DEF Hand, Control
  <2> QED BY <2>1, TasksAtStart DEF OneHand
<1>5. Begun
  <2>1. \A t \in Task : state[t] # "CONTINUED"
    BY TasksAtStart DEF IsDone
  <2> QED BY <1>2, <2>1, TasksAtStart DEF Begun
<1>6. Kinds /\ NoneLeftToWaitFor /\ Fresh /\ ContNew /\ WillBeEnqueued
  <2>1. Kinds
    BY TasksAtStart DEF Kinds
  <2>2. NoneLeftToWaitFor /\ WillBeEnqueued
    BY TasksAtStart DEF NoneLeftToWaitFor, WillBeEnqueued
  <2>3. Fresh
    <3>1. \A p \in Task : prog.makes[p] \subseteq Task
      BY <1>3, ProgramFacts DEF Typed, TypeOK, Maker
    <3> QED BY <3>1, TasksAtStart DEF Fresh
  <2>4. ContNew
    BY TasksAtStart DEF ContNew
  <2> QED BY <2>1, <2>2, <2>3, <2>4
<1>7. Count
  <2>1. ASSUME NEW t \in Task
        PROVE  Places(t) = {}
    <3>1. \A s \in Task : Indices(dependents[s], t) = {}
      BY TasksAtStart DEF Indices
    <3>2. \A v \in Thread : \A k, s : ~On(v, k, "decrement", s) /\ ~On(v, k, "splice", s)
      BY <1>2, CallNat
    <3>3. \A x : x \notin Places(t)
      BY <3>1, <3>2, InPlaces
    <3> QED BY <3>3
  <2>2. Cardinality({}) = 0 /\ IsFiniteSet({})
    BY FS_EmptySet
  <2> QED BY <2>1, <2>2, TasksAtStart DEF Count
<1> QED BY <1>3, <1>4, <1>5, <1>6, <1>7

LEMMA InitWiring ==
  ASSUME Init
  PROVE  Wiring
<1>1. PICK n, m \in Nat : n = Len(Body(None)) /\ AtStart(n, m)
  BY StackAtStart
<1>2. prog \in Programs /\ None \in Maker /\ prog.makes[None] \subseteq Task
  BY ProgramFacts DEF Init, Maker
<1> DEFINE b == Body(None)
           at(i) == n + m + 1 - i
<1>3. \A i \in 1 .. n : /\ b[i].do = "dependsOn" =>
                             /\ b[i].arg \in prog.makes[None] /\ b[i].arg # b[i].t
                             /\ \/ IsCont(None, b[i].t)
                                \/ \E j \in 1 .. n : j > i /\ b[j].do = "enqueue" /\ b[j].t = b[i].t
                        /\ b[i].do = "enqueue" =>
                             \A j \in 1 .. n : b[j].do = "enqueue" /\ b[j].t = b[i].t => j = i
  BY <1>1, <1>2, BodyFacts
<1>4. \A v \in Thread, k \in Nat : \A d, s : On(v, k, d, s) =>
         /\ d \in {"dependsOn", "enqueue", "wait", "release"}
         /\ v = Main /\ s \in prog.makes[None]
         /\ d # "release" => /\ k > m /\ at(k) \in 1 .. n
                             /\ b[at(k)].do = d /\ b[at(k)].t = s /\ ArgAt(v, k) = b[at(k)].arg
  BY <1>1, CallsAtStart
<1>5. /\ \A i \in 1 .. n : at(i) \in Nat /\ at(i) > m /\ at(at(i)) = i
      /\ \A k \in Nat, i \in 1 .. n : at(k) \in 1 .. n /\ i > at(k) => at(i) < k
      /\ \A k, j \in Nat : at(k) = at(j) => k = j
      /\ \A k, j \in Nat : at(j) > at(k) => j < k
  BY <1>1
<1>6. \A k \in Nat : k > m =>
        \A d, s : On(Main, k, d, s) <=> at(k) \in 1 .. n /\ b[at(k)].do = d /\ b[at(k)].t = s
  BY <1>1 DEF AtStart
<1>7. \A k \in Nat : k > m => Keeps(None, Main, k)
  <2> TAKE k \in Nat
  <2> HAVE k > m
  <2>1. ASSUME NEW s \in prog.makes[None]
        PROVE  Below(Main, k, "release", s)
    <3>1. PICK j \in Nat : j <= m /\ On(Main, j, "release", s)
      BY <1>1 DEF AtStart
    <3>2. j < k
      BY <1>1, <3>1
    <3> QED BY <3>1, <3>2 DEF Below
  <2> QED BY <2>1 DEF Keeps
<1>8. \A t : ~IsCont(None, t)
  BY DEF IsCont
<1> HIDE DEF b, at
<1>9. ASSUME NEW v \in Thread, NEW k \in Nat, NEW t \in Task
      PROVE  Wired(v, k, t)
  <2>1. ASSUME On(v, k, "dependsOn", t)
        PROVE  WiredDependsOn(v, k, t)
    <3>1. /\ v = Main /\ t \in prog.makes[None] /\ k > m /\ at(k) \in 1 .. n
          /\ b[at(k)].do = "dependsOn" /\ b[at(k)].t = t /\ ArgAt(v, k) = b[at(k)].arg
      BY <1>4, <2>1
    <3>2. PICK j \in 1 .. n : j > at(k) /\ b[j].do = "enqueue" /\ b[j].t = t
      BY <1>3, <1>8, <3>1
    <3>3. at(j) \in Nat /\ at(j) > m /\ at(j) < k /\ at(at(j)) = j
      BY <1>5, <3>1, <3>2
    <3>4. Below(v, k, "enqueue", t)
      BY <1>6, <3>1, <3>2, <3>3 DEF Below
    <3>5. PICK x : x = b[at(k)].arg
      OBVIOUS
    <3>6. x \in prog.makes[None] /\ x # t /\ ArgAt(v, k) = x
      BY <1>3, <3>1, <3>5
    <3>7. Follows(x, x)
      BY FollowsSelf
    <3>8. IsNew(t) /\ Keeps(None, v, k)
      BY <1>7, <3>1, TasksAtStart
    <3> QED BY <1>2, <3>1, <3>4, <3>6, <3>7, <3>8 DEF WiredDependsOn
  <2>2. ASSUME On(v, k, "enqueue", t)
        PROVE  WiredEnqueue(v, k, t)
    <3>1. v = Main /\ t \in prog.makes[None] /\ k > m
      BY <1>4, <2>2
    <3> QED BY <1>2, <1>7, <1>8, <3>1, TasksAtStart DEF WiredEnqueue
  <2>3. ASSUME On(v, k, "wait", t)
        PROVE  WiredWait(v, k, t)
    <3>1. v = Main /\ t \in prog.makes[None] /\ k > m
      BY <1>4, <2>3
    <3>2. Follows(t, t)
      BY FollowsSelf
    <3> QED BY <1>2, <1>7, <3>1, <3>2 DEF WiredWait
  <2>4. ~On(v, k, "splice", t)
    BY <1>4
  <2> QED BY <2>1, <2>2, <2>3, <2>4 DEF Wired
<1>10. ASSUME NEW t \in Task
       PROVE  EnqueuedOnce(t)
  <2>1. ASSUME NEW i \in 1 .. n, NEW j \in 1 .. n, b[j].do = "enqueue", b[j].t = t, b[i].t = t
        PROVE  /\ b[i].do = "enqueue" => i = j
               /\ b[i].do = "dependsOn" => j > i
    BY <1>3, <1>8, <2>1
  <2> QED BY <1>4, <1>5, <2>1 DEF EnqueuedOnce
<1> QED BY <1>9, <1>10 DEF Wiring

LEMMA InitDeclares ==
  ASSUME Init
  PROVE  Declares
<1>1. PICK n, m \in Nat : n = Len(Body(None)) /\ AtStart(n, m)
  BY StackAtStart
<1>2. prog \in Programs /\ None \in Maker /\ prog.makes[None] \subseteq Task /\ Main \in Thread
  BY ProgramFacts, TaskAssumption DEF Init, Maker, Thread
<1> SUFFICES ASSUME NEW p \in Maker, p = None \/ started[p] = 1, NEW i \in DOMAIN Body(p),
                    Body(p)[i].do = "dependsOn"
             PROVE  Promised(Body(p)[i].arg, Body(p)[i].t)
  BY DEF Declares
<1>3. p = None
  BY TasksAtStart DEF Maker
<1>4. i \in 1 .. n
  <2>1. Body(None) \in Seq(BodyCall)
    BY <1>2, ProgramFacts
  <2> QED BY <1>1, <1>3, <2>1, LenProperties
<1>5. PICK k \in Nat : k = n + m + 1 - i /\ k > m /\ n + m + 1 - k = i
  BY <1>4
<1>6. PICK x, t : x = Body(None)[i].arg /\ t = Body(None)[i].t
  OBVIOUS
<1>7. On(Main, k, "dependsOn", t) /\ ArgAt(Main, k) = x
  BY <1>1, <1>3, <1>4, <1>5, <1>6 DEF AtStart
<1>8. x \in Task
  BY <1>1, <1>2, <1>3, <1>4, <1>6, BodyFacts
<1>9. Awaits(t, x) /\ Follows(x, x)
  BY <1>2, <1>7, FollowsSelf DEF Awaits
<1>10. Promised(x, t)
  BY <1>8, <1>9 DEF Promised
<1> QED BY <1>3, <1>6, <1>10

LEMMA InitRefs ==
  ASSUME Init
  PROVE  RefsCount
<1>1. PICK n, m \in Nat : n = Len(Body(None)) /\ AtStart(n, m)
  BY StackAtStart
<1>2. prog \in Programs /\ None \in Maker /\ prog.makes[None] \subseteq Task /\ Main \in Thread
  BY ProgramFacts, TaskAssumption DEF Init, Maker, Thread
<1>3. \A v \in Thread, k \in Nat : \A s :
        On(v, k, "release", s) => v = Main /\ s \in prog.makes[None] /\ k <= m
  BY <1>1, CallsAtStart
<1>4. ASSUME NEW t \in Task
      PROVE  IsFiniteSet(Holders(t)) /\ refs[t] = Cardinality(Holders(t))
  <2>1. \A p \in Task : ~NextOf(p, t)
    BY TasksAtStart, TaskAssumption DEF NextOf
  <2>2. ~ForRun(t) /\ refs[t] = 1
    BY TasksAtStart DEF ForRun
  <2>3. Unreturned(t) <=> t \notin prog.makes[None]
    BY TasksAtStart DEF Unreturned
  <2>4. \E e : Holders(t) = {e}
    <3>1. CASE t \notin prog.makes[None]
      <4>1. \A v \in Thread : \A k : ~On(v, k, "release", t)
        BY <1>3, <3>1, CallNat
      <4>2. \A x : x \in Holders(t) <=> x = TheCreator
        BY <2>1, <2>2, <2>3, <3>1, <4>1, HoldersAre
      <4> QED BY <4>2
    <3>2. CASE t \in prog.makes[None]
      <4>1. PICK k \in Nat : k <= m /\ On(Main, k, "release", t)
        BY <1>1, <3>2 DEF AtStart
      <4>2. \A j \in Nat : On(Main, j, "release", t) => j = k
        BY <1>1, <1>3, <4>1, <1>2 DEF AtStart
      <4>3. \A v \in Thread : \A j : On(v, j, "release", t) <=> v = Main /\ j = k
        BY <1>2, <1>3, <4>1, <4>2, CallNat
      <4>4. \A x : x \in Holders(t) <=> x = AtRelease(Main, k)
        BY <1>2, <2>1, <2>2, <2>3, <3>2, <4>3, HoldersAre
      <4> QED BY <4>4
    <3> QED BY <3>1, <3>2
  <2>5. PICK e : Holders(t) = {e}
    BY <2>4
  <2>6. IsFiniteSet({e}) /\ Cardinality({e}) = 1
    BY FS_Singleton
  <2> QED BY <2>2, <2>5, <2>6
<1> QED BY <1>4 DEF RefsCount

LEMMA InitInvariant ==
  ASSUME Init
  PROVE  IInv
BY InitCounts, InitWiring, InitDeclares, InitRefs DEF IInv

-----------------------------------------------------------------------------
(* The invariant.                                                           *)

LEMMA FailedType ==
  ASSUME failed \in BOOLEAN, [Next]_vars
  PROVE  failed' \in BOOLEAN
<1>1. CASE UNCHANGED vars
  BY <1>1 DEF vars
<1>2. CASE Next
  <2>1. ASSUME NEW w, Step(w)
        PROVE  failed' \in BOOLEAN
    BY <2>1 DEF Step, DoDependsOn, DoEnqueue, DoScheduleLocal, DoScheduleRemote, DoRun, DoReturn,
                DoComplete, DoSplice, DoDecrement, DoRelease, DoWait, JAssert
  <2>2. ASSUME NEW w, NEW t, TakeTask(w, t) \/ CancelTask(w, t) \/ EnterAbort(w) \/ UtilityCompletes(t)
        PROVE  failed' \in BOOLEAN
    BY <2>2 DEF TakeTask, CancelTask, EnterAbort, UtilityCompletes
  <2>3. CASE Idle
    BY <2>3 DEF Idle, vars
  <2>4. CASE \E w \in Worker : WorkerStep(w) \/ EnterAbort(w)
    BY <2>1, <2>2, <2>4 DEF WorkerStep
  <2>5. CASE UtilityStep
    BY <2>1, <2>2, <2>5 DEF UtilityStep
  <2> QED BY <1>2, <2>3, <2>4, <2>5 DEF Next
<1> QED BY <1>1, <1>2

LEMMA MoveKeeps ==
  ASSUME IInv, NEW w \in Thread, NEW h \in Nat, NEW t \in Task, Move(w, h, t),
         stack' \in [Thread -> Seq(Frame)], failed' \in BOOLEAN
  PROVE  IInv'
<1>1. /\ Typed /\ OneHand /\ Begun /\ Kinds /\ NoneLeftToWaitFor /\ Count /\ Wiring /\ Fresh
      /\ ContNew /\ WillBeEnqueued /\ Declares /\ RefsCount
  BY DEF IInv
<1>2. Typed'
  BY <1>1, TypedStays
<1>3. OneHand' /\ Begun'
  BY <1>1, OneHandStays, BegunStays
<1>4. Kinds' /\ NoneLeftToWaitFor'
  BY <1>1, KindsStay, NoneLeftStays
<1>5. Count' /\ Wiring'
  BY <1>1, CountStays, WiringStays
<1>6. Fresh' /\ ContNew'
  BY <1>1, FreshStays, ContNewStays
<1>7. WillBeEnqueued' /\ Declares'
  BY <1>1, WillBeEnqueuedStays, DeclaresStays
<1>8. RefsCount'
  BY <1>1, RefsCountStays
<1> QED BY <1>2, <1>3, <1>4, <1>5, <1>6, <1>7, <1>8 DEF IInv

LEMMA QuietKeeps ==
  ASSUME IInv, Quiet, stack' \in [Thread -> Seq(Frame)], failed' \in BOOLEAN,
         \/ UNCHANGED stack
         \/ \E w \in Thread, h \in Nat : MAbort(w, h)
  PROVE  IInv'
<1>1. /\ Typed /\ OneHand /\ Begun /\ Kinds /\ NoneLeftToWaitFor /\ Count /\ Wiring /\ Fresh
      /\ ContNew /\ WillBeEnqueued /\ Declares /\ RefsCount
  BY DEF IInv
<1>2. Same(Method \ {"abort"})
  <2>1. CASE UNCHANGED stack
    BY <2>1 DEF Same, On, ArgAt, CallAt
  <2>2. CASE \E w \in Thread, h \in Nat : MAbort(w, h)
    <3>1. PICK w \in Thread, h \in Nat : MAbort(w, h)
      BY <2>2
    <3>2. Pushing(w, h, Call("abort", None, None)) /\ Call("abort", None, None).do \notin Method \ {"abort"}
      BY <3>1 DEF MAbort, Call
    <3> QED BY <3>2, SameButPushed
  <2> QED BY <2>1, <2>2
<1>3. Typed'
  BY <1>1, <1>2, QuietCalls
<1>4. Wiring' /\ Declares'
  BY <1>1, QuietWires
<1>5. /\ OneHand' /\ Begun' /\ Kinds' /\ NoneLeftToWaitFor' /\ Count' /\ Fresh' /\ ContNew'
      /\ WillBeEnqueued' /\ RefsCount'
  BY <1>1, <1>2, QuietCounts
<1> QED BY <1>3, <1>4, <1>5 DEF IInv

\* A step either moves a call or leaves the graph alone.
LEMMA Moves ==
  ASSUME IInv, [Next]_vars
  PROVE  /\ stack' \in [Thread -> Seq(Frame)] /\ failed' \in BOOLEAN
         /\ \/ \E w \in Thread, h \in Nat, t \in Task : Move(w, h, t)
            \/ /\ Quiet
               /\ \/ UNCHANGED stack
                  \/ \E w \in Thread, h \in Nat : MAbort(w, h)
<1>1. Typed /\ OneHand /\ Begun /\ Wiring
  BY DEF IInv
<1>2. failed' \in BOOLEAN
  BY <1>1, FailedType DEF Typed, TypeOK
<1>3. CASE UNCHANGED vars
  BY <1>1, <1>2, <1>3 DEF vars, Quiet, tasks, queues, Typed
<1>4. CASE Next
  <2>1. CASE UNCHANGED vars
    BY <1>3, <2>1
  <2>2. CASE stack' \in [Thread -> Seq(Frame)] /\ \E w \in Thread, h \in Nat, t \in Task : Move(w, h, t)
    BY <1>2, <2>2
  <2>3. CASE stack' \in [Thread -> Seq(Frame)] /\ \E w \in Thread, h \in Nat : MAbort(w, h)
    <3>1. Quiet
      BY <2>3 DEF MAbort, Quiet
    <3> QED BY <1>2, <2>3, <3>1
  <2> QED BY <1>1, <1>4, <2>1, <2>2, <2>3, StepMoves
<1> QED BY <1>3, <1>4

LEMMA InvariantStep ==
  ASSUME IInv, [Next]_vars
  PROVE  IInv'
BY Moves, MoveKeeps, QuietKeeps

\* The calls of the threads and the tasks stand to each other as IInv says, in
\* every reachable state.
THEOREM Invariant == Spec => []IInv
<1>1. Init => IInv
  BY InitInvariant
<1>2. IInv /\ [Next]_vars => IInv'
  BY InvariantStep
<1> QED BY <1>1, <1>2, PTL DEF Spec

\* The fields of the tasks, the queues and the rest keep their types: in
\* particular no count goes below 0.
THEOREM TypeCorrect == Spec => []TypeOK
<1>1. IInv => TypeOK
  BY DEF IInv, Typed
<1> QED BY <1>1, Invariant, PTL

\* _numPredecessors counts exactly the decrements that are still to come,
\* through the registration with a continuation and the splice of a list.
THEOREM PredecessorsCounted == Spec => []PredecessorCount
<1>1. IInv => PredecessorCount
  BY DEF IInv, Count, PredecessorCount
<1> QED BY <1>1, Invariant, PTL

-----------------------------------------------------------------------------
(* The order of the tasks.                                                  *)

LEMMA PlacesMean ==
  ASSUME Count, NEW t \in Task, numPredecessors[t] = 0
  PROVE  /\ \A s \in Task : Indices(dependents[s], t) = {}
         /\ \A w \in Thread, k \in Nat : ~On(w, k, "decrement", t)
         /\ \A w \in Thread, k \in Nat : \A s : On(w, k, "splice", s) => Indices(ArgAt(w, k), t) = {}
<1>1. Places(t) = {}
  <2>1. IsFiniteSet(Places(t)) /\ Cardinality(Places(t)) = 0
    BY DEF Count
  <2> QED BY <2>1, FS_EmptySet
<1>2. ASSUME NEW s \in Task, NEW i \in Indices(dependents[s], t)
      PROVE  FALSE
  <2>1. PICK x : x = AtList(s, i)
    OBVIOUS
  <2>2. x \in Places(t)
    BY <2>1, PlacesAre
  <2> QED BY <1>1, <2>2
<1>3. ASSUME NEW w \in Thread, NEW k, On(w, k, "decrement", t)
      PROVE  FALSE
  <2>1. PICK x : x = AtCall(w, k)
    OBVIOUS
  <2>2. x \in Places(t)
    BY <1>3, <2>1, PlacesAre
  <2> QED BY <1>1, <2>2
<1>4. ASSUME NEW w \in Thread, NEW k, NEW s, On(w, k, "splice", s), NEW i \in Indices(ArgAt(w, k), t)
      PROVE  FALSE
  <2>1. PICK x : x = AtSplice(w, k, i)
    OBVIOUS
  <2>2. x \in Places(t)
    BY <1>4, <2>1, PlacesAre
  <2> QED BY <1>1, <2>2
<1> QED BY <1>2, <1>3, <1>4

LEMMA StateKinds ==
  ASSUME Typed, NEW t \in Task
  PROVE  IsNew(t) \/ IsBlocked(t) \/ IsReady(t) \/ IsDone(t)
BY DEF Typed, TypeOK, IsNew, IsBlocked, IsReady, IsDone

LEMMA DeclaredMeans ==
  ASSUME prog \in Programs, NEW t \in Task, NEW x \in Declared(t)
  PROVE  \E p \in Maker : \E i : /\ i \in DOMAIN Body(p) /\ Body(p)[i].do = "dependsOn"
                                 /\ Body(p)[i].t = t /\ Body(p)[i].arg = x
<1>1. PICK b \in Bodies : \E c \in ToSet(b) : c.do = "dependsOn" /\ c.t = t /\ c.arg = x
  BY DEF Declared
<1>a. PICK c \in ToSet(b) : c.do = "dependsOn" /\ c.t = t /\ c.arg = x
  BY <1>1
<1>2. PICK i \in DOMAIN b : b[i] = c
  BY <1>a DEF ToSet
<1>3. PICK p \in Maker : b = Body(p)
  <2>1. CASE b = prog.main
    BY <2>1, ProgramFacts DEF Maker
  <2>2. CASE \E s \in Task : b = prog.body[s]
    BY <2>2, ProgramFacts DEF Maker
  <2> QED BY <2>1, <2>2 DEF Bodies
<1> QED BY <1>a, <1>2, <1>3

LEMMA OrderKept ==
  ASSUME IInv
  PROVE  StartsAfterDependencies
<1>1. Typed /\ Begun /\ NoneLeftToWaitFor /\ Count /\ Wiring /\ Fresh /\ Declares /\ prog \in Programs
  BY DEF IInv, Typed, TypeOK
<1>2. \A t \in Task : started[t] <= 1
  <2>1. \A t \in Task : started[t] = 0 \/ started[t] = 1
    BY <1>1 DEF Begun
  <2> QED BY <2>1
<1>3. ASSUME NEW t \in Task, started[t] = 1, NEW x \in Declared(t)
      PROVE  x \in Finished
  <2>1. ~IsNew(t) /\ ~IsBlocked(t)
    BY <1>1, <1>3 DEF Begun
  <2>2. numPredecessors[t] = 0
    BY <1>1, <2>1, StateKinds DEF NoneLeftToWaitFor
  <2>a. PICK p \in Maker : \E i : /\ i \in DOMAIN Body(p) /\ Body(p)[i].do = "dependsOn"
                                  /\ Body(p)[i].t = t /\ Body(p)[i].arg = x
    BY <1>1, <1>3, DeclaredMeans
  <2>3. PICK i : /\ i \in DOMAIN Body(p) /\ Body(p)[i].do = "dependsOn"
                 /\ Body(p)[i].t = t /\ Body(p)[i].arg = x
    BY <2>a
  <2>4. t \in prog.makes[p] /\ x \in Task
    <3>1. PICK n : n = Len(Body(p))
      OBVIOUS
    <3>2. i \in 1 .. n
      BY <1>1, <2>3, <3>1, ProgramFacts, LenProperties
    <3>3. Body(p)[i].t \in prog.makes[p] /\ Body(p)[i].arg \in prog.makes[p] /\ prog.makes[p] \subseteq Task
      BY <1>1, <2>3, <3>1, <3>2, BodyFacts, ProgramFacts
    <3> QED BY <2>3, <3>3
  <2>5. p = None \/ started[p] = 1
    BY <1>1, <2>1, <2>4 DEF Fresh, Begun, Maker
  <2>6. Promised(x, t)
    BY <1>1, <2>3, <2>5 DEF Declares
  <2>7. PICK s \in Task : Follows(x, s) /\ (state[s] = "COMPLETE" \/ Awaits(t, s))
    BY <2>6 DEF Promised
  <2>8. ~Awaits(t, s)
    <3>1. \A w \in Thread, k \in Nat : ~On(w, k, "dependsOn", t)
      BY <1>1, <2>1 DEF Wiring, Wired, WiredDependsOn
    <3>2. /\ Indices(dependents[s], t) = {}
          /\ \A w \in Thread, k \in Nat : On(w, k, "splice", s) => Indices(ArgAt(w, k), t) = {}
      BY <1>1, <2>2, PlacesMean
    <3> QED BY <3>1, <3>2 DEF Awaits
  <2> QED BY <2>4, <2>7, <2>8 DEF Finished
<1> QED BY <1>2, <1>3 DEF StartsAfterDependencies

\* A body starts once, and only when all that was declared with dependsOn is
\* complete, through every continuation.
THEOREM DependenciesFirst == Spec => []StartsAfterDependencies
BY Invariant, OrderKept, PTL

-----------------------------------------------------------------------------
(* The tasks that are alive.                                                *)

\* A task somebody holds a pointer to is not deleted.
LEMMA HeldAlive ==
  ASSUME Typed, RefsCount, NEW t \in Task, NEW x \in Holders(t)
  PROVE  refs[t] > 0
<1>1. IsFiniteSet(Holders(t)) /\ refs[t] = Cardinality(Holders(t)) /\ refs[t] \in Nat
  BY DEF RefsCount, Typed, TypeOK
<1>2. Cardinality(Holders(t)) # 0
  BY <1>1, FS_EmptySet
<1> QED BY <1>1, <1>2

LEMMA Alive ==
  ASSUME Typed, RefsCount, NEW t \in Task
  PROVE  /\ \A w \in Thread, k \in Nat : On(w, k, "release", t) => refs[t] > 0
         /\ IsBlocked(t) \/ IsReady(t) => refs[t] > 0
         /\ Unreturned(t) => refs[t] > 0
         /\ \A p \in Task : continuation[p] = t /\ refs[p] > 0 => refs[t] > 0
<1>1. ASSUME NEW w \in Thread, NEW k \in Nat, On(w, k, "release", t)
      PROVE  refs[t] > 0
  <2>1. PICK x : x = AtRelease(w, k)
    OBVIOUS
  <2>2. x \in Holders(t)
    BY <1>1, <2>1, HoldersAre
  <2> QED BY <2>2, HeldAlive
<1>2. ASSUME IsBlocked(t) \/ IsReady(t)
      PROVE  refs[t] > 0
  <2>1. TheRun \in Holders(t)
    BY <1>2, HoldersAre DEF ForRun
  <2> QED BY <2>1, HeldAlive
<1>3. ASSUME Unreturned(t)
      PROVE  refs[t] > 0
  <2>1. TheCreator \in Holders(t)
    BY <1>3, HoldersAre
  <2> QED BY <2>1, HeldAlive
<1>4. ASSUME NEW p \in Task, continuation[p] = t, refs[p] > 0
      PROVE  refs[t] > 0
  <2>1. NextOf(p, t)
    BY <1>4 DEF NextOf
  <2>2. PICK x : x = AtNext(p)
    OBVIOUS
  <2>3. x \in Holders(t)
    BY <2>1, <2>2, HoldersAre
  <2> QED BY <2>3, HeldAlive
<1> QED BY <1>1, <1>2, <1>3, <1>4

\* What a body has made is alive while its call or its releases remain,
\* and with it every continuation.
LEMMA MadeAlive ==
  ASSUME IInv, NEW p \in Maker, NEW w \in Thread, NEW k \in Nat, Keeps(p, w, k),
         NEW s \in Task, s \in prog.makes[p]
  PROVE  refs[s] > 0
<1>1. Typed /\ RefsCount /\ prog \in Programs
  BY DEF IInv, Typed, TypeOK
<1>2. CASE p = None
  <2>1. Below(w, k, "release", s)
    BY <1>2 DEF Keeps
  <2> QED BY <1>1, <2>1, Alive DEF Below
<1>3. CASE p # None
  <2>1. p \in Task /\ Below(w, k, "return", p)
    BY <1>3 DEF Keeps, Maker
  <2>2. PICK j \in Nat : On(w, j, "return", p)
    BY <2>1 DEF Below
  <2>3. Unreturned(s)
    <3>1. \A q \in Maker : s \in prog.makes[q] => q = p
      BY <1>1, ProgramFacts
    <3>2. None \in Maker /\ Task \subseteq Maker
      BY DEF Maker
    <3> QED BY <1>3, <2>2, <3>1, <3>2 DEF Unreturned
  <2> QED BY <1>1, <2>3, Alive
<1> QED BY <1>2, <1>3

LEMMA FollowingAlive ==
  ASSUME IInv, NEW s \in Task, refs[s] > 0, NEW t \in Task, Follows(s, t)
  PROVE  refs[t] > 0
<1>1. Typed /\ RefsCount /\ Begun
  BY DEF IInv
<1>2. PICK S : S = {x \in Task : refs[x] > 0}
  OBVIOUS
<1>3. ASSUME NEW x \in S, state[x] = "CONTINUED"
      PROVE  continuation[x] \in S
  <2>1. x \in Task /\ refs[x] > 0
    BY <1>2
  <2>2. continuation[x] \in Task
    BY <1>1, <1>3, <2>1 DEF Begun, Typed, TypeOK
  <2>3. refs[continuation[x]] > 0
    BY <1>1, <2>1, <2>2, Alive
  <2> QED BY <1>2, <2>2, <2>3
<1>4. S \in SUBSET Task /\ s \in S /\ Onward(S)
  BY <1>2, <1>3 DEF Onward
<1>5. t \in S
  BY <1>4 DEF Follows
<1> QED BY <1>2, <1>5

\* A task with predecessors left is alive: it is PENDING, or it will be
\* enqueued.
LEMMA WaitingAlive ==
  ASSUME IInv, NEW t \in Task, numPredecessors[t] # 0
  PROVE  refs[t] > 0
<1>1. /\ Typed /\ RefsCount /\ NoneLeftToWaitFor /\ Wiring /\ WillBeEnqueued /\ prog \in Programs
      /\ numPredecessors[t] \in Nat
  BY DEF IInv, Typed, TypeOK
<1>2. IsNew(t) \/ IsBlocked(t)
  BY <1>1, StateKinds DEF NoneLeftToWaitFor
<1>3. CASE IsBlocked(t)
  BY <1>1, <1>3, Alive
<1>4. ASSUME NEW w \in Thread, NEW k \in Nat, On(w, k, "enqueue", t)
      PROVE  refs[t] > 0
  <2>1. WiredEnqueue(w, k, t)
    BY <1>1, <1>4 DEF Wiring, Wired
  <2>2. CASE \E p \in Maker : t \in prog.makes[p] /\ Keeps(p, w, k) /\ ~IsCont(p, t)
    BY <2>2, MadeAlive
  <2>3. CASE \E p \in Task : /\ continuation[p] = t /\ state[p] = "CONTINUED"
                             /\ Below(w, k, "release", p)
    BY <1>1, <2>3, Alive DEF Below
  <2> QED BY <2>1, <2>2, <2>3 DEF WiredEnqueue
<1>5. ASSUME NEW p \in Task, prog.cont[p] = t, NEW w \in Thread, NEW k \in Nat, On(w, k, "return", p)
      PROVE  refs[t] > 0
  <2>1. t \in prog.makes[p] /\ p # None /\ p \in Maker
    BY <1>1, <1>5, ProgramFacts, TaskAssumption DEF Maker
  <2>2. PICK j \in Nat : j = k + 1 /\ k < j
    OBVIOUS
  <2>3. Keeps(p, w, j)
    BY <1>5, <2>1, <2>2 DEF Keeps, Below
  <2> QED BY <2>1, <2>3, MadeAlive
<1>6. ASSUME NEW p \in Task, continuation[p] = t, IsReady(p)
      PROVE  refs[t] > 0
  BY <1>1, <1>6, Alive
<1>7. CASE IsNew(t)
  <2>1. numPredecessors[t] > 0
    BY <1>1
  <2>2. \/ \E w \in Thread, k \in Nat : On(w, k, "enqueue", t)
        \/ \E p \in Task : /\ prog.cont[p] = t
                           /\ \/ \E w \in Thread, k \in Nat : On(w, k, "return", p)
                              \/ continuation[p] = t /\ IsReady(p)
    BY <1>1, <1>7, <2>1 DEF WillBeEnqueued
  <2> QED BY <1>4, <1>5, <1>6, <2>2
<1> QED BY <1>2, <1>3, <1>7

\* The task of a call.
LEMMA CallAlive ==
  ASSUME IInv, NEW w \in Thread, NEW k \in Nat, NEW d \in Method, NEW t \in Task, On(w, k, d, t)
  PROVE  /\ refs[t] > 0
         /\ d = "dependsOn" => refs[ArgAt(w, k)] > 0
         /\ d = "splice" => \A u \in Task : Indices(ArgAt(w, k), u) # {} => refs[u] > 0
<1>1. Typed /\ RefsCount /\ OneHand /\ Count /\ Wiring /\ prog \in Programs
      /\ stack \in [Thread -> Seq(Frame)]
  BY DEF IInv, Typed, TypeOK
<1>2. CASE d = "dependsOn"
  <2>1. PICK x \in Task : x = ArgAt(w, k)
    BY <1>1, <1>2, CallTyped
  <2>2. PICK p \in Maker : /\ t \in prog.makes[p] /\ Keeps(p, w, k)
                           /\ \E s \in prog.makes[p] : Follows(s, ArgAt(w, k))
    BY <1>1, <1>2 DEF Wiring, Wired, WiredDependsOn
  <2>3. PICK s \in prog.makes[p] : Follows(s, x)
    BY <2>1, <2>2
  <2>4. s \in Task
    BY <1>1, ProgramFacts
  <2>5. refs[t] > 0 /\ refs[s] > 0
    BY <2>2, <2>3, <2>4, MadeAlive
  <2>6. refs[x] > 0
    BY <2>3, <2>4, <2>5, FollowingAlive
  <2> QED BY <1>2, <2>1, <2>5, <2>6
<1>3. CASE d = "enqueue"
  <2>1. WiredEnqueue(w, k, t)
    BY <1>1, <1>3 DEF Wiring, Wired
  <2>2. CASE \E p \in Maker : t \in prog.makes[p] /\ Keeps(p, w, k) /\ ~IsCont(p, t)
    BY <1>3, <2>2, MadeAlive
  <2>3. CASE \E p \in Task : /\ continuation[p] = t /\ state[p] = "CONTINUED"
                             /\ Below(w, k, "release", p)
    BY <1>1, <1>3, <2>3, Alive DEF Below
  <2> QED BY <2>1, <2>2, <2>3 DEF WiredEnqueue
<1>4. CASE d = "wait"
  <2>1. PICK p \in Maker : Keeps(p, w, k) /\ \E s \in prog.makes[p] : Follows(s, t)
    BY <1>1, <1>4 DEF Wiring, Wired, WiredWait
  <2>2. PICK s \in prog.makes[p] : Follows(s, t)
    BY <2>1
  <2>3. s \in Task
    BY <1>1, ProgramFacts
  <2>4. refs[s] > 0
    BY <2>1, <2>2, <2>3, MadeAlive
  <2> QED BY <1>4, <2>2, <2>3, <2>4, FollowingAlive
<1>5. CASE d = "release"
  BY <1>1, <1>5, Alive
<1>6. CASE d \in Control
  <2>1. IsReady(t)
    BY <1>1, <1>6 DEF OneHand, Hand
  <2> QED BY <1>1, <1>6, <2>1, Alive DEF Control
<1>7. CASE d = "decrement"
  <2>1. numPredecessors[t] # 0
    BY <1>1, <1>7, DecrementCounts
  <2> QED BY <1>7, <2>1, WaitingAlive
<1>8. CASE d = "splice"
  <2>1. PICK p \in Task : continuation[p] = t /\ Below(w, k, "release", p)
    BY <1>1, <1>8 DEF Wiring, Wired, WiredSplice
  <2>2. refs[t] > 0
    BY <1>1, <2>1, Alive DEF Below
  <2>3. ASSUME NEW u \in Task, Indices(ArgAt(w, k), u) # {}
        PROVE  refs[u] > 0
    <3>1. numPredecessors[u] # 0
      BY <1>1, <1>8, <2>3, PlacesMean
    <3> QED BY <3>1, WaitingAlive
  <2> QED BY <1>8, <2>2, <2>3
<1>9. d # "abort"
  BY <1>1, CallTyped, TaskAssumption
<1> QED BY <1>2, <1>3, <1>4, <1>5, <1>6, <1>7, <1>8, <1>9 DEF Method, Control

\* A frame is a call at some height.
LEMMA FrameCall ==
  ASSUME Typed, NEW f \in Frames
  PROVE  /\ f \in Frame
         /\ \E w \in Thread, k \in Nat : On(w, k, f.do, f.t) /\ ArgAt(w, k) = f.arg
<1>1. PICK w \in Thread : f \in ToSet(stack[w])
  BY DEF Frames
<1>2. PICK i \in DOMAIN stack[w] : f = stack[w][i]
  BY <1>1 DEF ToSet
<1>3. PICK n : n = Len(stack[w])
  OBVIOUS
<1>4. n \in Nat /\ i \in 1 .. n /\ f \in Frame
  BY <1>2, <1>3 DEF Typed
<1>5. PICK k \in Nat : k = n + 1 - i /\ k \in 1 .. n /\ n + 1 - k = i
  BY <1>4
<1>6. CallAt(w, k) = f
  BY <1>2, <1>3, <1>5 DEF CallAt
<1> QED BY <1>3, <1>4, <1>5, <1>6 DEF On, ArgAt

LEMMA PointersAlive ==
  ASSUME IInv
  PROVE  NoUseAfterFree
<1>1. Typed /\ RefsCount /\ OneHand /\ Count
  BY DEF IInv
<1>2. ASSUME NEW t \in Queued \union outstanding
      PROVE  refs[t] > 0
  <2>1. t \in Task
    BY <1>1, QueuedType DEF Typed, TypeOK
  <2>2. IsReady(t)
    BY <1>1 DEF OneHand, IsReady
  <2> QED BY <1>1, <2>1, <2>2, Alive
<1>3. ASSUME NEW s \in Task, NEW t \in ToSet(dependents[s])
      PROVE  refs[t] > 0
  <2>1. PICK i \in DOMAIN dependents[s] : t = dependents[s][i]
    BY DEF ToSet
  <2>2. t \in Task
    BY <1>1, <2>1 DEF Typed, TypeOK
  <2>3. Indices(dependents[s], t) # {}
    BY <2>1 DEF Indices
  <2>4. numPredecessors[t] # 0
    BY <1>1, <2>2, <2>3, PlacesMean
  <2> QED BY <2>2, <2>4, WaitingAlive
<1>4. ASSUME NEW f \in Frames, f.t # None
      PROVE  /\ refs[f.t] > 0
             /\ f.do = "dependsOn" => refs[f.arg] > 0
             /\ f.do = "splice" => \A u \in ToSet(f.arg) : refs[u] > 0
  <2>1. PICK w \in Thread, k \in Nat : On(w, k, f.do, f.t) /\ ArgAt(w, k) = f.arg
    BY <1>1, FrameCall
  <2>2. f \in Frame /\ f.do \in Method
    <3>1. f \in Frame
      BY <1>1, FrameCall
    <3> QED BY <3>1 DEF Frame, BodyCall, Method
  <2>3. f.do # "abort" /\ f.t \in Task
    BY <1>4, <2>2, FrameFields
  <2>4. PICK d, t, x : d = f.do /\ t = f.t /\ x = f.arg
    OBVIOUS
  <2>5. /\ refs[t] > 0
        /\ d = "dependsOn" => refs[x] > 0
        /\ d = "splice" => \A u \in Task : Indices(x, u) # {} => refs[u] > 0
    BY <2>1, <2>2, <2>3, <2>4, CallAlive
  <2>6. ASSUME d = "splice", NEW u \in ToSet(x)
        PROVE  refs[u] > 0
    <3>1. x \in Seq(Task)
      BY <2>2, <2>4, <2>6, FrameFields
    <3>2. PICK i \in DOMAIN x : u = x[i]
      BY <2>6 DEF ToSet
    <3>3. u \in Task /\ Indices(x, u) # {}
      BY <3>1, <3>2 DEF Indices
    <3> QED BY <2>5, <2>6, <3>3
  <2>7. d = "splice" => \A u \in ToSet(x) : refs[u] > 0
    BY <2>6
  <2> QED BY <2>4, <2>5, <2>7
<1>5. \A f \in Frames : f.do \in {"dependsOn", "splice"} => f.t # None
  <2> TAKE f \in Frames
  <2>1. f \in Frame
    BY <1>1, FrameCall
  <2> QED BY <2>1, FrameFields, TaskAssumption
<1>6. ASSUME NEW t \in Pointers
      PROVE  refs[t] > 0
  <2>1. CASE t \in Queued \union outstanding
    BY <1>2, <2>1
  <2>2. CASE t \in UNION {ToSet(dependents[x]) : x \in {s \in Task : refs[s] > 0}}
    <3>1. PICK x \in Task : t \in ToSet(dependents[x])
      BY <2>2
    <3> QED BY <1>3, <3>1
  <2>3. CASE t \in {f.t : f \in {g \in Frames : g.t # None}}
    <3>1. PICK f \in Frames : f.t # None /\ t = f.t
      BY <2>3
    <3> QED BY <1>4, <3>1
  <2>4. CASE t \in {f.arg : f \in {g \in Frames : g.do = "dependsOn"}}
    <3>1. PICK f \in Frames : f.do = "dependsOn" /\ t = f.arg
      BY <2>4
    <3>2. f.t # None
      BY <1>5, <3>1
    <3> QED BY <1>4, <3>1, <3>2
  <2>5. CASE t \in UNION {ToSet(f.arg) : f \in {g \in Frames : g.do = "splice"}}
    <3>1. PICK f \in Frames : f.do = "splice" /\ t \in ToSet(f.arg)
      BY <2>5
    <3>2. f.t # None
      BY <1>5, <3>1
    <3> QED BY <1>4, <3>1, <3>2
  <2> QED BY <1>6, <2>1, <2>2, <2>3, <2>4, <2>5 DEF Pointers
<1> QED BY <1>6 DEF NoUseAfterFree

\* No task in a queue, in a list of a live task, in a call or with a GPU or
\* another host has been deleted by decRefCount.
THEOREM NothingFreedIsUsed == Spec => []NoUseAfterFree
BY Invariant, PointersAlive, PTL

-----------------------------------------------------------------------------
(* The assertions.                                                          *)

\* Where nobody may abort, no call of AbortTask appears, nor one with
\* isAborting set.
LEMMA CancelsTop ==
  ASSUME Cancels, prog' = prog, NEW w \in Thread, NEW h \in Nat, Upper(w, h),
         ~prog.mayAbort => \A k \in Nat : k >= h => NoCancel(w, k)'
  PROVE  Cancels'
<1>1. ASSUME ~prog.mayAbort, NEW v \in Thread, NEW k \in Nat, v # w \/ k < h
      PROVE  NoCancel(v, k)'
  <2>1. NoCancel(v, k)
    BY <1>1 DEF Cancels
  <2>2. \A d, t : /\ On(v, k, d, t)' <=> On(v, k, d, t)
                  /\ On(v, k, d, t) => ArgAt(v, k)' = ArgAt(v, k)
    BY <1>1 DEF Upper
  <2> QED BY <2>1, <2>2 DEF NoCancel
<1>2. ASSUME ~prog.mayAbort, NEW v \in Thread, NEW k \in Nat
      PROVE  NoCancel(v, k)'
  <2>1. v = w /\ k >= h => NoCancel(v, k)'
    BY <1>2
  <2> QED BY <1>1, <1>2, <2>1
<1> QED BY <1>2 DEF Cancels

LEMMA CancelsOne ==
  ASSUME NEW w, NEW h \in Nat, NEW e, NEW u, NEW x, OneFrom(w, h, e, u, x),
         e # "abort", e \in Aborting => x = FALSE
  PROVE  \A k \in Nat : k >= h => NoCancel(w, k)'
BY DEF OneFrom, NoCancel

LEMMA CancelsPushed ==
  ASSUME NEW w, NEW h \in Nat, NEW d, NEW t, NEW x, Pushing(w, h, Call(d, t, x)),
         d # "abort", d \in Aborting => x = FALSE
  PROVE  Upper(w, h) /\ \A k \in Nat : k >= h => NoCancel(w, k)'
BY DEF Pushing, NoCancel, Call

LEMMA CancelsStay ==
  ASSUME Cancels, NEW w \in Thread, NEW h \in Nat, NEW t \in Task, Move(w, h, t), prog' = prog
  PROVE  Cancels'
<1>1. ASSUME Upper(w, h), \A k \in Nat : k >= h => NoCancel(w, k)'
      PROVE  Cancels'
  BY <1>1, CancelsTop
<1>2. ASSUME Replacing(w, h), NoneFrom(w, h)
      PROVE  Cancels'
  BY <1>1, <1>2 DEF Replacing, NoneFrom, NoCancel
<1>3. ASSUME Replacing(w, h), NEW e, NEW u, NEW x, OneFrom(w, h, e, u, x), e # "abort",
             e \in Aborting => x = FALSE
      PROVE  Cancels'
  BY <1>1, <1>3, CancelsOne DEF Replacing
<1>4. ASSUME NEW d \in Aborting, On(w, h, d, t), ~prog.mayAbort
      PROVE  ArgAt(w, h) = FALSE
  BY <1>4 DEF Cancels, NoCancel
<1>5. prog.mayAbort => Cancels'
  BY DEF Cancels
<1>6. ASSUME NEW s \in Task, MForward(w, h, t, s) \/ MDelete(w, h, t, s)
      PROVE  Cancels'
  <2>1. \A x : OneFrom(w, h, "dependsOn", t, x) /\ Replacing(w, h) => Cancels'
    BY <1>3 DEF Aborting
  <2>2. \A x : OneFrom(w, h, "release", s, x) /\ Replacing(w, h) => Cancels'
    BY <1>3 DEF Aborting
  <2> QED BY <1>6, <2>1, <2>2 DEF MForward, MDelete
<1>7. ASSUME NEW s \in Task, MFinished(w, h, t, s) \/ MRegister(w, h, t, s)
      PROVE  Cancels'
  BY <1>2, <1>7 DEF MFinished, MRegister
<1>8. ASSUME NEW s \in Task, MContinue(w, h, t, s)
      PROVE  Cancels'
  <2>1. \A k \in Nat : \A d, u : k >= h /\ On(w, k, d, u)' => d \in {"release", "enqueue", "splice"}
    <3> SUFFICES ASSUME NEW k \in Nat, NEW d, NEW u, k >= h, On(w, k, d, u)'
                 PROVE  d \in {"release", "enqueue", "splice"}
      OBVIOUS
    <3>1. k = h \/ k = h + 1 \/ k = h + 2 \/ k > h + 2
      OBVIOUS
    <3> QED BY <1>8, <3>1 DEF MContinue
  <2>2. \A k \in Nat : k >= h => NoCancel(w, k)'
    BY <2>1 DEF NoCancel, Aborting
  <2> QED BY <1>1, <1>8, <2>2 DEF MContinue, Replacing
<1>9. ASSUME NEW n \in Nat, MComplete(w, h, t, n)
      PROVE  Cancels'
  <2>1. CASE prog.mayAbort
    BY <1>5, <2>1
  <2>2. CASE ~prog.mayAbort
    <3>1. ArgAt(w, h) = FALSE
      BY <1>4, <1>9, <2>2 DEF MComplete, Aborting
    <3>2. ASSUME NEW k \in Nat, k >= h
          PROVE  NoCancel(w, k)'
      <4>1. CASE k = h
        BY <1>9, <4>1 DEF MComplete, NoCancel, Aborting
      <4>2. CASE k > h
        <5>1. \A d, u : On(w, k, d, u)' => d = "decrement" /\ ArgAt(w, k)' = FALSE
          BY <1>9, <3>1, <4>2 DEF MComplete
        <5> QED BY <5>1 DEF NoCancel
      <4> QED BY <3>2, <4>1, <4>2
    <3> QED BY <1>1, <1>9, <3>2 DEF MComplete, Replacing
  <2> QED BY <2>1, <2>2
<1>10. ASSUME NEW x \in BOOLEAN, MTake(w, h, t, x)
       PROVE  Cancels'
  <2>1. CASE prog.mayAbort
    BY <1>5, <2>1
  <2>2. CASE ~prog.mayAbort
    <3>1. x = FALSE /\ Pushing(w, h, Call("run", t, x))
      BY <1>10, <2>2 DEF MTake, Cancels, NoCancel
    <3> QED BY <1>1, <3>1, CancelsPushed
  <2> QED BY <2>1, <2>2
<1>11. ASSUME NEW d \in {"run", "schedule"}, NEW x \in {TRUE, None}, MLast(w, h, t, d, x)
       PROVE  Cancels'
  <2>1. CASE prog.mayAbort
    BY <1>5, <2>1
  <2>2. CASE ~prog.mayAbort
    <3>1. ArgAt(w, h) = FALSE
      BY <1>4, <1>11, <2>2 DEF MLast, Aborting
    <3>2. Replacing(w, h) /\ OneFrom(w, h, "schedule", t, x)
      BY <1>11, <3>1 DEF MLast
    <3> QED BY <1>3, <3>2 DEF Aborting
  <2> QED BY <2>1, <2>2
<1>12. CASE MPending(w, h, t) \/ MQueue(w, h, t) \/ MSend(w, h, t)
  BY <1>2, <1>12 DEF MPending, MQueue, MSend
<1>13. CASE MReady(w, h, t) \/ MInline(w, h, t)
  <2>1. \A x : OneFrom(w, h, "schedule", t, x) /\ Replacing(w, h) => Cancels'
    BY <1>3 DEF Aborting
  <2>2. OneFrom(w, h, "run", t, FALSE) /\ Replacing(w, h) => Cancels'
    BY <1>3 DEF Aborting
  <2> QED BY <1>13, <2>1, <2>2 DEF MReady, MInline
<1>14. CASE MKeep(w, h, t)
  BY <1>14 DEF MKeep, Cancels, NoCancel, On, ArgAt, CallAt
<1>15. CASE MCompletes(w, h, t)
  BY <1>1, <1>15, CancelsPushed DEF MCompletes
<1>16. CASE MCancelled(w, h, t)
  <2>1. prog.mayAbort
    BY <1>4, <1>16 DEF MCancelled, Aborting
  <2> QED BY <1>5, <2>1
<1>17. CASE MRun(w, h, t)
  <2>1. ASSUME NEW k \in Nat, k >= h
        PROVE  NoCancel(w, k)'
    <3>1. \A d, u : On(w, k, d, u)' => d \in {"return", "dependsOn", "enqueue", "wait"}
      BY <1>17, <2>1 DEF MRun
    <3> QED BY <3>1 DEF NoCancel, Aborting
  <2> QED BY <1>1, <1>17, <2>1 DEF MRun, Replacing
<1>18. CASE MReturn(w, h, t)
  <2>1. ASSUME NEW k \in Nat, k >= h
        PROVE  NoCancel(w, k)'
    <3>1. \A d, u : On(w, k, d, u)' => d = "release" \/ (k = h /\ d = "complete")
      BY <1>18, <2>1 DEF MReturn
    <3>2. ArgAt(w, h)' = FALSE
      BY <1>18 DEF MReturn
    <3> QED BY <3>1, <3>2 DEF NoCancel, Aborting
  <2> QED BY <1>1, <1>18, <2>1 DEF MReturn, Replacing
<1>19. CASE MSplice(w, h, t) \/ MDecrement(w, h, t) \/ MRelease(w, h, t) \/ MWaited(w, h, t)
  BY <1>2, <1>19 DEF MSplice, MDecrement, MRelease, MWaited
<1>20. CASE MWaitOn(w, h, t)
  <2>1. \A u : OneFrom(w, h, "wait", u, None) /\ Replacing(w, h) => Cancels'
    BY <1>3 DEF Aborting
  <2> QED BY <1>20, <2>1 DEF MWaitOn
<1> QED BY <1>6, <1>7, <1>8, <1>9, <1>10, <1>11, <1>12, <1>13, <1>14, <1>15, <1>16, <1>17, <1>18, <1>19,
           <1>20 DEF Move

\* Nobody changes the state of a task that is handed to a thread, but that
\* thread.
LEMMA HandKeepsState ==
  ASSUME Typed, OneHand, NEW w \in Thread, NEW h \in Nat, NEW t \in Task, Move(w, h, t),
         NEW v \in Thread, NEW k \in Nat, NEW s \in Task, On(v, k, "run", s)
  PROVE  state'[s] = state[s]
<1>1. IsReady(s) /\ ~IsNew(s) /\ ~IsBlocked(s)
  BY DEF OneHand, Hand, Control, IsReady, IsNew, IsBlocked
<1>2. ASSUME NEW d \in Control \ {"run"}, On(w, h, d, t)
      PROVE  s # t
  <2>1. SUFFICES ASSUME s = t
                 PROVE  FALSE
    OBVIOUS
  <2>2. Hand(w, h, t) /\ Hand(v, k, t)
    BY <1>2, <2>1 DEF Hand, Control
  <2>3. w = v /\ h = k
    BY <2>2 DEF OneHand
  <2> QED BY <1>2, <2>3, OneCall
<1> USE DEF Typed, TypeOK
<1>3. ASSUME NEW u \in Task,
             \/ MForward(w, h, t, u) \/ MFinished(w, h, t, u) \/ MRegister(w, h, t, u)
             \/ MDelete(w, h, t, u)
      PROVE  state'[s] = state[s]
  BY <1>3 DEF MForward, MFinished, MRegister, MDelete, tasks
<1>4. ASSUME NEW u \in Task, MContinue(w, h, t, u)
      PROVE  state'[s] = state[s]
  BY <1>2, <1>4 DEF MContinue, Control
<1>5. ASSUME NEW n \in Nat, MComplete(w, h, t, n)
      PROVE  state'[s] = state[s]
  BY <1>2, <1>5 DEF MComplete, Control
<1>6. ASSUME NEW x, MTake(w, h, t, x)
      PROVE  state'[s] = state[s]
  BY <1>6 DEF MTake, tasks
<1>7. ASSUME NEW d, NEW x, MLast(w, h, t, d, x)
      PROVE  state'[s] = state[s]
  BY <1>1, <1>7 DEF MLast
<1>8. CASE MPending(w, h, t) \/ MReady(w, h, t)
  BY <1>1, <1>8 DEF MPending, MReady
<1>9. CASE MInline(w, h, t) \/ MQueue(w, h, t) \/ MSend(w, h, t)
  BY <1>9 DEF MInline, MQueue, MSend, tasks
<1>10. CASE MKeep(w, h, t)
  BY <1>2, <1>10 DEF MKeep, Control
<1>11. CASE MCompletes(w, h, t) \/ MCancelled(w, h, t) \/ MRun(w, h, t) \/ MReturn(w, h, t)
  BY <1>11 DEF MCompletes, MCancelled, MRun, MReturn, tasks
<1>12. CASE MSplice(w, h, t) \/ MDecrement(w, h, t) \/ MRelease(w, h, t)
  BY <1>12 DEF MSplice, MDecrement, MRelease
<1>13. CASE MWaitOn(w, h, t) \/ MWaited(w, h, t)
  BY <1>13 DEF MWaitOn, MWaited, tasks
<1> HIDE DEF Typed, TypeOK
<1> QED BY <1>3, <1>4, <1>5, <1>6, <1>7, <1>8, <1>9, <1>10, <1>11, <1>12, <1>13 DEF Move

\* The calls of runWrapper are the ones there were, and the one of a task
\* that is READY, or cancelled when its last predecessor was.
LEMMA RunCalls ==
  ASSUME NEW w \in Thread, NEW h \in Nat, NEW t \in Task, Move(w, h, t),
         NEW v \in Thread, NEW k \in Nat, NEW s \in Task, On(v, k, "run", s)'
  PROVE  \/ On(v, k, "run", s)
         \/ s = t /\ MInline(w, h, t)
         \/ s = t /\ \E x \in BOOLEAN : MTake(w, h, t, x)
         \/ s = t /\ \E x \in {TRUE, None} : MLast(w, h, t, "run", x)
<1>1. ASSUME NEW D, Same(D), "run" \in D
      PROVE  On(v, k, "run", s)
  BY <1>1 DEF Same
<1>2. ASSUME NEW u \in Task,
             \/ MForward(w, h, t, u) \/ MFinished(w, h, t, u) \/ MRegister(w, h, t, u)
             \/ MContinue(w, h, t, u) \/ MDelete(w, h, t, u)
      PROVE  On(v, k, "run", s)
  <2>1. CASE MForward(w, h, t, u) \/ MFinished(w, h, t, u) \/ MRegister(w, h, t, u)
    <3>1. Same(Method \ {"dependsOn"})
      BY <2>1, SameCalls
    <3> QED BY <1>1, <3>1 DEF Method
  <2>2. CASE MContinue(w, h, t, u)
    <3>1. Same(Method \ {"complete", "release", "enqueue", "splice"})
      BY <2>2, SameCalls
    <3> QED BY <1>1, <3>1 DEF Method
  <2>3. CASE MDelete(w, h, t, u)
    <3>1. Same(Method \ {"release"})
      BY <2>3, SameCalls
    <3> QED BY <1>1, <3>1 DEF Method
  <2> QED BY <1>2, <2>1, <2>2, <2>3
<1>3. ASSUME NEW n \in Nat, MComplete(w, h, t, n)
      PROVE  On(v, k, "run", s)
  <2>1. Same(Method \ {"complete", "release", "decrement"})
    BY <1>3, SameCalls
  <2> QED BY <1>1, <2>1 DEF Method
<1>4. CASE MPending(w, h, t) \/ MReady(w, h, t) \/ MQueue(w, h, t) \/ MSend(w, h, t) \/ MKeep(w, h, t)
  <2>1. \/ Same(Method \ {"enqueue"}) \/ Same(Method \ {"enqueue", "schedule"})
        \/ Same(Method \ {"schedule"}) \/ Same(Method)
    BY <1>4, SameCalls
  <2> QED BY <1>1, <2>1 DEF Method
<1>5. CASE MCompletes(w, h, t) \/ MReturn(w, h, t) \/ MSplice(w, h, t) \/ MDecrement(w, h, t)
  <2>1. \/ Same(Method \ {"complete"}) \/ Same(Method \ {"return", "complete", "release"})
        \/ Same(Method \ {"splice"}) \/ Same(Method \ {"decrement"})
    BY <1>5, SameCalls
  <2> QED BY <1>1, <2>1 DEF Method
<1>6. CASE MRelease(w, h, t) \/ MWaitOn(w, h, t) \/ MWaited(w, h, t)
  <2>1. Same(Method \ {"release"}) \/ Same(Method \ {"wait"})
    BY <1>6, SameCalls
  <2> QED BY <1>1, <2>1 DEF Method
<1>7. ASSUME MCancelled(w, h, t) \/ MRun(w, h, t)
      PROVE  On(v, k, "run", s)
  <2>1. Upper(w, h) /\ h \in Nat
    BY <1>7 DEF MCancelled, MRun, Replacing
  <2>2. CASE v = w /\ k >= h
    BY <1>7, <2>2 DEF MCancelled, MRun, OneFrom
  <2>3. CASE v # w \/ k < h
    BY <2>1, <2>3 DEF Upper
  <2> QED BY <2>1, <2>2, <2>3
<1>8. ASSUME MInline(w, h, t)
      PROVE  On(v, k, "run", s) \/ s = t
  <2>1. Upper(w, h) /\ OneFrom(w, h, "run", t, FALSE)
    BY <1>8 DEF MInline, Replacing
  <2>2. CASE v = w /\ k >= h
    BY <1>8, <2>1, <2>2 DEF OneFrom
  <2>3. CASE v # w \/ k < h
    BY <2>1, <2>3 DEF Upper
  <2> QED BY <2>2, <2>3
<1>9. ASSUME NEW x \in BOOLEAN, MTake(w, h, t, x)
      PROVE  On(v, k, "run", s) \/ s = t
  <2>1. Upper(w, h) /\ Pushing(w, h, Call("run", t, x))
    BY <1>9 DEF MTake, Pushing
  <2>2. CASE v = w /\ k >= h
    BY <2>1, <2>2 DEF Pushing, Call
  <2>3. CASE v # w \/ k < h
    BY <2>1, <2>3 DEF Upper
  <2> QED BY <2>2, <2>3
<1>10. ASSUME NEW d \in {"run", "schedule"}, NEW x \in {TRUE, None}, MLast(w, h, t, d, x)
       PROVE  On(v, k, "run", s) \/ (s = t /\ d = "run")
  <2>1. Upper(w, h) /\ OneFrom(w, h, d, t, x)
    BY <1>10 DEF MLast, Replacing
  <2>2. CASE v = w /\ k >= h
    BY <2>1, <2>2 DEF OneFrom
  <2>3. CASE v # w \/ k < h
    BY <2>1, <2>3 DEF Upper
  <2> QED BY <2>2, <2>3
<1> QED BY <1>2, <1>3, <1>4, <1>5, <1>6, <1>7, <1>8, <1>9, <1>10 DEF Move

LEMMA RunsStay ==
  ASSUME CancelsLocally, Typed, OneHand, Kinds, Cancels, Runs,
         NEW w \in Thread, NEW h \in Nat, NEW t \in Task, Move(w, h, t)
  PROVE  Runs'
<1>1. prog' = prog
  BY PermanentStates DEF Permanent
<1>2. /\ prog \in Programs /\ state \in [Task -> {"NEW", "PENDING", "READY", "COMPLETE", "CONTINUED",
                                                  "REMOTE_NEW", "REMOTE_PENDING", "REMOTE_READY"}]
      /\ \A s \in Task : prog.kind[s] \in {"cpu", "null", "remote", "gpu"}
  BY ProgramFacts DEF Typed, TypeOK
<1>3. ASSUME NEW v \in Thread, NEW k \in Nat, NEW s \in Task, On(v, k, "run", s)
      PROVE  RunsHere(s)'
  BY <1>1, <1>3, HandKeepsState DEF Runs, RunsHere
<1>4. ASSUME MInline(w, h, t)
      PROVE  RunsHere(t)'
  BY <1>4 DEF MInline, tasks, RunsHere
<1>5. ASSUME NEW x, MTake(w, h, t, x)
      PROVE  RunsHere(t)'
  <2>1. state[t] = "READY" /\ prog.kind[t] # "gpu"
    BY <1>5 DEF MTake, Takes1, OneHand, Kinds
  <2> QED BY <1>5, <2>1 DEF MTake, tasks, RunsHere
<1>6. ASSUME NEW x \in {TRUE, None}, MLast(w, h, t, "run", x)
      PROVE  RunsHere(t)'
  <2>1. /\ On(w, h, "decrement", t) /\ ArgAt(w, h) = TRUE
        /\ state[t] \in {"PENDING", "REMOTE_PENDING"}
        /\ state' = [state EXCEPT ![t] = IF @ = "PENDING" THEN "READY" ELSE "REMOTE_READY"]
    BY <1>6 DEF MLast, IsBlocked
  <2>2. prog.mayAbort
    BY <2>1 DEF Cancels, NoCancel, Aborting
  <2>3. prog.kind[t] # "remote"
    BY <1>2, <2>2 DEF CancelsLocally
  <2>4. /\ state[t] = "PENDING" => prog.kind[t] # "gpu"
        /\ state[t] = "REMOTE_PENDING" => prog.kind[t] = "gpu"
    BY <2>3 DEF Kinds, Remote
  <2>5. state'[t] = IF state[t] = "PENDING" THEN "READY" ELSE "REMOTE_READY"
    BY <1>2, <2>1
  <2> QED BY <1>1, <2>1, <2>4, <2>5 DEF RunsHere
<1>7. ASSUME NEW v \in Thread, NEW k \in Nat, NEW s \in Task, On(v, k, "run", s)'
      PROVE  RunsHere(s)'
  <2>1. CASE On(v, k, "run", s)
    BY <1>3, <2>1
  <2>2. CASE /\ s = t
             /\ \/ MInline(w, h, t)
                \/ \E x \in BOOLEAN : MTake(w, h, t, x)
                \/ \E x \in {TRUE, None} : MLast(w, h, t, "run", x)
    <3>1. RunsHere(t)'
      BY <1>4, <1>5, <1>6, <2>2
    <3> QED BY <2>2, <3>1 DEF RunsHere
  <2> QED BY <1>7, <2>1, <2>2, RunCalls, ZenonT(60)
<1> QED BY <1>7 DEF Runs, RunsHere

\* A step fails no assertion.
LEMMA AssertionsHold ==
  ASSUME IInv, Runs, ~failed, [Next]_vars
  PROVE  ~failed'
<1>1. /\ Typed /\ Wiring /\ NoneLeftToWaitFor
  BY DEF IInv
<1>2. ASSUME NEW w \in Thread, NEW t \in Task, DoDependsOn(w, t)
      PROVE  ~failed'
  <2>1. Top(w, "dependsOn", t)
    BY <1>2 DEF DoDependsOn
  <2>2. PICK h : h = Len(stack[w])
    OBVIOUS
  <2>3. h \in Nat /\ On(w, h, "dependsOn", t) /\ ArgAt(w, h) = Arg(w)
    BY <1>1, <2>1, <2>2, TopCall
  <2>4. WiredDependsOn(w, h, t)
    BY <1>1, <2>3 DEF Wiring, Wired
  <2>5. state[t] \in {"NEW", "REMOTE_NEW"} /\ Arg(w) # t
    BY <2>3, <2>4 DEF WiredDependsOn, IsNew
  <2> QED BY <1>2, <2>5 DEF DoDependsOn, JAssert
<1>3. ASSUME NEW w \in Thread, NEW t \in Task, DoEnqueue(w, t)
      PROVE  ~failed'
  <2>1. Top(w, "enqueue", t)
    BY <1>3 DEF DoEnqueue
  <2>2. PICK h : h = Len(stack[w])
    OBVIOUS
  <2>3. h \in Nat /\ On(w, h, "enqueue", t)
    BY <1>1, <2>1, <2>2, TopCall
  <2>4. WiredEnqueue(w, h, t)
    BY <1>1, <2>3 DEF Wiring, Wired
  <2>5. state[t] \in {"NEW", "REMOTE_NEW"}
    BY <2>4 DEF WiredEnqueue, IsNew
  <2> QED BY <1>3, <2>5 DEF DoEnqueue, JAssert
<1>4. ASSUME NEW w \in Thread, NEW t \in Task, DoRun(w, t)
      PROVE  ~failed'
  <2>1. Top(w, "run", t)
    BY <1>4 DEF DoRun
  <2>2. PICK h : h = Len(stack[w])
    OBVIOUS
  <2>3. h \in Nat /\ On(w, h, "run", t)
    BY <1>1, <2>1, <2>2, TopCall
  <2>4. \/ state[t] = "READY" /\ prog.kind[t] # "gpu"
        \/ state[t] = "REMOTE_READY" /\ prog.kind[t] = "gpu"
    BY <2>3 DEF Runs, RunsHere
  <2>5. numPredecessors[t] = 0
    BY <1>1, <2>4 DEF NoneLeftToWaitFor, IsReady
  <2> QED BY <1>4, <2>4, <2>5 DEF DoRun, JAssert, Runnable
<1>5. ASSUME NEW w \in Thread, Step(w)
      PROVE  ~failed'
  <2>1. PICK t \in Task :
          \/ DoDependsOn(w, t) \/ DoEnqueue(w, t)
          \/ DoScheduleLocal(w, t) \/ DoScheduleRemote(w, t)
          \/ DoRun(w, t) \/ DoReturn(w, t) \/ DoComplete(w, t) \/ DoSplice(w, t)
          \/ DoDecrement(w, t) \/ DoRelease(w, t) \/ DoWait(w, t)
    BY <1>5 DEF Step
  <2>2. \/ DoDependsOn(w, t) \/ DoEnqueue(w, t) \/ DoRun(w, t) \/ UNCHANGED failed
    BY <2>1 DEF DoScheduleLocal, DoScheduleRemote, DoReturn, DoComplete, DoSplice, DoDecrement,
                DoRelease, DoWait
  <2> QED BY <1>2, <1>3, <1>4, <2>2
<1>6. ASSUME NEW w, NEW t, TakeTask(w, t) \/ CancelTask(w, t) \/ EnterAbort(w) \/ UtilityCompletes(t)
      PROVE  ~failed'
  BY <1>6 DEF TakeTask, CancelTask, EnterAbort, UtilityCompletes
<1>7. CASE UNCHANGED vars
  BY <1>7 DEF vars
<1>8. CASE \E w \in Worker : WorkerStep(w) \/ EnterAbort(w)
  BY <1>5, <1>6, <1>8 DEF WorkerStep, Thread
<1>9. CASE UtilityStep
  BY <1>5, <1>6, <1>9 DEF UtilityStep, Thread
<1>10. CASE Idle
  BY <1>7, <1>10 DEF Idle
<1> QED BY <1>7, <1>8, <1>9, <1>10 DEF Next

LEMMA AssertionsStep ==
  ASSUME CancelsLocally, IInv, Cancels, Runs, ~failed, [Next]_vars
  PROVE  Cancels' /\ Runs' /\ ~failed'
<1>1. Typed /\ OneHand /\ Kinds
  BY DEF IInv
<1>2. ~failed'
  BY AssertionsHold
<1>3. ASSUME NEW w \in Thread, NEW h \in Nat, NEW t \in Task, Move(w, h, t)
      PROVE  Cancels' /\ Runs'
  <2>1. prog' = prog
    BY <1>1, <1>3, PermanentStates DEF Permanent
  <2>2. Cancels'
    BY <1>3, <2>1, CancelsStay
  <2>3. Runs'
    BY <1>1, <1>3, RunsStay
  <2> QED BY <2>2, <2>3
<1>4. ASSUME Quiet, UNCHANGED stack
      PROVE  Cancels' /\ Runs'
  BY <1>4 DEF Quiet, tasks, Cancels, NoCancel, Runs, RunsHere, On, ArgAt, CallAt
<1>5. ASSUME Quiet, NEW w \in Thread, NEW h \in Nat, MAbort(w, h)
      PROVE  Cancels' /\ Runs'
  <2>1. prog.mayAbort /\ UNCHANGED <<prog, state>> /\ Same(Method \ {"abort"})
    <3>1. Pushing(w, h, Call("abort", None, None)) /\ Call("abort", None, None).do \notin Method \ {"abort"}
      BY <1>5 DEF MAbort, Call
    <3>2. Same(Method \ {"abort"})
      BY <3>1, SameButPushed
    <3> QED BY <1>5, <3>2 DEF MAbort, tasks
  <2>2. Cancels'
    BY <2>1 DEF Cancels
  <2>3. \A v \in Thread, k \in Nat, t \in Task : On(v, k, "run", t)' => On(v, k, "run", t)
    BY <2>1 DEF Same, Method
  <2> QED BY <2>1, <2>2, <2>3 DEF Runs, RunsHere
<1> QED BY <1>2, <1>3, <1>4, <1>5, Moves

LEMMA AssertionsAtStart ==
  ASSUME Init
  PROVE  Cancels /\ Runs /\ ~failed
<1>1. PICK n, m \in Nat : n = Len(Body(None)) /\ AtStart(n, m)
  BY StackAtStart
<1>2. \A v \in Thread, k \in Nat : \A d, s :
        On(v, k, d, s) => d \in {"dependsOn", "enqueue", "wait", "release"}
  BY <1>1, CallsAtStart
<1>3. \A v \in Thread, k \in Nat : NoCancel(v, k)
  BY <1>2 DEF NoCancel, Aborting
<1>4. Runs
  BY <1>2 DEF Runs
<1> QED BY <1>3, <1>4 DEF Cancels, Init

\* If no task of another host can be cancelled, no JASSERT of dependsOn,
\* enqueue or runWrapper fails: a task is wired while it is new and enqueued
\* once, and runWrapper finds it READY, or REMOTE_READY on the GPU, with no
\* predecessor left.
THEOREM NothingFails ==
  ASSUME CancelsLocally
  PROVE  Spec => []NoAssertionFails
<1> DEFINE I == IInv /\ Cancels /\ Runs /\ ~failed
<1>1. Init => I
  BY InitInvariant, AssertionsAtStart
<1>2. I /\ [Next]_vars => I'
  BY InvariantStep, AssertionsStep
<1>3. I => NoAssertionFails
  BY DEF NoAssertionFails
<1> QED BY <1>1, <1>2, <1>3, PTL DEF Spec
=============================================================================

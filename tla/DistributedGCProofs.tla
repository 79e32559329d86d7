------------------------- MODULE DistributedGCProofs -------------------------
(***************************************************************************)
(* Proofs about DistributedGC and RemoteHost for any number of users,      *)
(* listeners, objects and collections on two hosts.                        *)
(*                                                                         *)
(* The invariant follows a message: what a channel or a handler has is     *)
(* Sound, that is, its addresses are of constructed endpoints and a CREATE *)
(* comes from the host that makes the object; a thread in recv has such a  *)
(* message (ThreadOK), and its object was constructed here (Handled).  The *)
(* locks of the code are functions of the program counters, so the proof   *)
(* has to show that they exclude: the object lock of recv and waitMsgMu    *)
(* (Locks), _controlReadmu (OneReader), and that recv(caller) looks at its *)
(* object again before it blocks (Tried, Reading).                         *)
(***************************************************************************)
EXTENDS DistributedGC, FiniteSetTheorems, SequenceTheorems, TLAPS

\* What a thread that carries a message may be doing, and what one without.
Carrying == {"making", "locking", "acking", "onCreated", "flushing", "dispatch",
             "listing", "replying", "done"}
Empty == {"idle", "marking", "check", "try", "spin", "relock", "reading"}
Blocking == {"check", "try", "spin", "relock", "reading"}

\* Where a thread has its message and its objects from.
ThreadOK(t) ==
  /\ pc[t] \in Carrying => msg[t] \in Message
  /\ pc[t] \in Empty => msg[t] = NoMsg
  /\ pc[t] = "making" => (crashed \/ msg[t].type = "CREATE")
  /\ pc[t] = "locking" => msg[t].dst
  /\ pc[t] = "acking" => msg[t].type = "CREATE"
  /\ pc[t] \in {"acking", "onCreated", "flushing"} /\ msg[t].type = "CREATE"
       => own[t] \in Object
  /\ pc[t] = "onCreated" => msg[t].obj \in Gcs
  /\ pc[t] = "adding" => own[t] \in Object
  /\ pc[t] = "marking" => own[t] \in App /\ origin[own[t]] # Home[t]
  /\ pc[t] \in Blocking => caller[t] # None
  /\ caller[t] # None =>
       t \in User /\ caller[t] \in App /\ origin[caller[t]] = Home[t]
Threads == \A t \in Thread : ThreadOK(t)

\* A message to h carries addresses of constructed endpoints only, and an
\* object comes from the other host.
Sound(h, m) ==
  /\ m.dst => m.obj \in made[h]
  /\ m.src => m.obj \in made[Other(h)]
  /\ m.type = "CREATE" => m.src /\ ~m.dst /\ origin[m.obj] # h
Channels == \A h \in Host : \A i \in 1..Len(control[h]) : Sound(h, control[h][i])
InHand == \A t \in Thread : Sound(Home[t], msg[t])

\* What is created was constructed, and a peer that is known was, too.
Endpoints ==
  \A h \in Host : /\ created[h] \subseteq made[h]
                  /\ peer[h] \subseteq made[h]
                  /\ peer[h] \subseteq made[Other(h)]
Handled ==
  \A t \in Thread :
    pc[t] # "making" /\ msg[t] # NoMsg => msg[t].obj \in made[Home[t]]

\* The object lock and _controlReadmu exclude what they must.
LockedOut(u, t) ==
  pc[u] \in {"check", "try"} /\ pc[t] \in Handling /\ Home[t] = Home[u]
    => msg[t].obj # caller[u]
Locks == \A u, t \in Thread : LockedOut(u, t)
Tried ==
  \A u \in Thread : pc[u] = "try" => caller[u] \notin complete[Home[u]]
OneReader ==
  \A u, t \in Thread :
    pc[u] = "reading" /\ pc[t] = "reading" /\ Home[u] = Home[t] => u = t
Reading ==
  \A u \in Thread : pc[u] = "reading" =>
    /\ caller[u] \notin complete[Home[u]]
    /\ \A t \in Thread :
         Home[t] = Home[u] /\ pc[t] # "making" => msg[t].obj # caller[u]

\* The type invariant, variable by variable.
Typed ==
  /\ control \in [Host -> Seq(Message)]
  /\ origin \in [Object -> Host]
  /\ made \in [Host -> SUBSET Object] /\ created \in [Host -> SUBSET Object]
  /\ complete \in [Host -> SUBSET Object] /\ peer \in [Host -> SUBSET Object]
  /\ listed \in [Host -> SUBSET Object] /\ held \in [Host -> SUBSET Object]
  /\ sent \in [Host -> SUBSET Object]
  /\ gen \in [Host -> Nat]
  /\ lastMsgGen \in [Host -> [Object -> Nat]]
  /\ pc \in [Thread -> PCs]
  /\ msg \in [Thread -> Message \union {NoMsg}]
  /\ caller \in [Thread -> Object \union {None}]
  /\ own \in [Thread -> Object \union {None}]
  /\ crashed \in BOOLEAN
  /\ gcGen \in [Host -> [Gcs -> Nat]]
  /\ objs \in [Host -> [Gcs -> SUBSET Object]]
  /\ maybeDead \in [Host -> [Gcs -> SUBSET Object]]

IInv == /\ Typed /\ Threads /\ Channels /\ InHand /\ Endpoints /\ Handled
        /\ Locks /\ Tried /\ OneReader /\ Reading

-----------------------------------------------------------------------------
(* Operators.                                                               *)

\* One entry of a table of tables changes.
LEMMA EntryChanges ==
  ASSUME NEW S, NEW T, NEW V, NEW f \in [S -> [T -> V]], NEW s \in S, NEW u \in T, NEW v,
         NEW new, new = [f EXCEPT ![s] = [f[s] EXCEPT ![u] = v]]
  PROVE  \A x \in S : \A y \in T : new[x][y] = IF x = s /\ y = u THEN v ELSE f[x][y]
<1> TAKE x \in S
<1>1. CASE x = s
  <2>1. new[x] = [f[s] EXCEPT ![u] = v] /\ f[s] \in [T -> V]
    BY <1>1
  <2> QED BY <1>1, <2>1
<1>2. CASE x # s
  BY <1>2
<1> QED BY <1>1, <1>2

LEMMA TwoHosts ==
  ASSUME NEW h \in Host
  PROVE  Other(h) \in Host /\ Other(h) # h /\ Other(Other(h)) = h
<1>1. IsFiniteSet(Host \ {h}) /\ Cardinality(Host \ {h}) = 1
  BY RemoteAssumption, FS_RemoveElement
<1>2. PICK k : Host \ {h} = {k}
  BY <1>1, FS_Singleton
<1>3. Host = {h, k} /\ k # h
  BY <1>2
<1>4. Other(h) = k
  BY <1>3 DEF Other
<1>5. Other(k) = h
  BY <1>3 DEF Other
<1> QED BY <1>3, <1>4, <1>5

\* A notification is a message.
LEMMA Notified ==
  ASSUME Typed, NEW h \in Host, NEW o \in Object, NEW stage \in Stages, Notify(h, o, stage)
  PROVE  \E m \in Message : /\ Send(h, m)
                            /\ m.obj = o /\ m.type = "NOTIFY" /\ m.src = FALSE
                            /\ m.dst = (o \in peer[h])
<1>1. "ABSENT" \in Stages /\ {} \in SUBSET Object
  BY DEF Stages
<1>2. /\ From(h, o, "NOTIFY") \in Message /\ From(h, o, "NOTIFY").obj = o
      /\ From(h, o, "NOTIFY").type = "NOTIFY"
      /\ From(h, o, "NOTIFY").dst = (o \in peer[h])
  BY <1>1 DEF From, Message
<1>3. PICK m \in Message : /\ m = From(h, o, "NOTIFY") /\ m.obj = o /\ m.type = "NOTIFY"
                           /\ m.dst = (o \in peer[h])
  BY <1>2
<1>4. PICK n : n = [m EXCEPT !.src = FALSE, !.stage = stage]
  OBVIOUS
<1>5. n \in Message /\ n.obj = o /\ n.type = "NOTIFY" /\ n.src = FALSE /\ n.dst = m.dst
  BY <1>3, <1>4 DEF Message
<1>6. Send(h, n)
  BY <1>3, <1>4 DEF Notify
<1> QED BY <1>3, <1>5, <1>6

\* One step of one thread, by name.
LEMMA Steps ==
  ASSUME Next
  PROVE  /\ ~crashed
         /\ \E t \in Thread :
              \/ /\ UNCHANGED gcVars
                 /\ \/ ListenerRecv(t) \/ CallerRecv(t) \/ Lock(t) \/ Make(t)
                    \/ Acknowledge(t) \/ AddObject(t) \/ Spawn(t) \/ Dispatch(t)
                    \/ Reply(t) \/ Finish(t)
                    \/ MarkCompleteMu(t) \/ Check(t) \/ TryRecv(t) \/ Spin(t)
                    \/ Relock(t)
                    \/ \E o \in App : \/ Create(t, o) \/ SendData(t, o)
                                      \/ MarkComplete(t, o) \/ Release(t, o)
                                      \/ WaitUntilComplete(t, o)
              \/ OnCreated(t) \/ FlushMsgs(t) \/ GcDispatch(t) \/ SendList(t)
BY DEF Next, Step, Call, Receive, GoOn, Collect, Thread

-----------------------------------------------------------------------------
(* What a step leaves alone.                                                *)

\* A step of thread t leaves the other threads where they are.
Only(t) ==
  \A u \in Thread \ {t} : /\ pc'[u] = pc[u] /\ msg'[u] = msg[u]
                          /\ own'[u] = own[u] /\ caller'[u] = caller[u]

LEMMA ThreadMoves ==
  ASSUME Threads, ~crashed, NEW t \in Thread, Only(t), origin' = origin, ThreadOK(t)'
  PROVE  Threads'
<1> SUFFICES ASSUME NEW u \in Thread PROVE ThreadOK(u)'
  BY DEF Threads
<1>1. CASE u = t
  BY <1>1
<1>2. CASE u # t
  <2>1. ThreadOK(u) /\ pc'[u] = pc[u] /\ msg'[u] = msg[u]
        /\ own'[u] = own[u] /\ caller'[u] = caller[u]
    BY <1>2 DEF Only, Threads
  <2> QED BY <2>1 DEF ThreadOK
<1> QED BY <1>1, <1>2

\* Endpoints are never unmade, so what is sound stays so.
Grow == origin' = origin /\ \A h \in Host : made[h] \subseteq made'[h]

LEMMA StaysSound ==
  ASSUME Grow, NEW h \in Host, NEW m, Sound(h, m)
  PROVE  Sound(h, m)'
BY TwoHosts DEF Grow, Sound

LEMMA ChannelsStay ==
  ASSUME Channels, Grow, control' = control
  PROVE  Channels'
<1> SUFFICES ASSUME NEW h \in Host, NEW i \in 1 .. Len(control[h])
             PROVE  Sound(h, control[h][i])'
  BY DEF Channels
<1>1. Sound(h, control[h][i])
  BY DEF Channels
<1> QED BY <1>1, StaysSound

LEMMA SendSound ==
  ASSUME Typed, Channels, Grow, NEW k \in Host, NEW m \in Message, Send(k, m),
         /\ m.dst => m.obj \in made[Other(k)]
         /\ m.src => m.obj \in made'[k]
         /\ m.type = "CREATE" => m.src /\ ~m.dst /\ origin[m.obj] # Other(k)
  PROVE  Channels' /\ control' \in [Host -> Seq(Message)]
<1>1. /\ Other(k) \in Host /\ Other(Other(k)) = k
      /\ control[Other(k)] \in Seq(Message)
      /\ control' = [control EXCEPT ![Other(k)] = Append(@, m)]
  BY TwoHosts DEF Typed, Send
<1>2. /\ Append(control[Other(k)], m) \in Seq(Message)
      /\ Len(Append(control[Other(k)], m)) = Len(control[Other(k)]) + 1
      /\ \A i \in 1 .. Len(control[Other(k)]) :
           Append(control[Other(k)], m)[i] = control[Other(k)][i]
      /\ Append(control[Other(k)], m)[Len(control[Other(k)]) + 1] = m
      /\ Len(control[Other(k)]) \in Nat
  BY <1>1, AppendProperties, LenProperties
<1>3. control' \in [Host -> Seq(Message)]
  BY <1>1, <1>2 DEF Typed
<1>4. Sound(Other(k), m)'
  BY <1>1 DEF Sound, Grow
<1>5. ASSUME NEW h \in Host, NEW i \in 1 .. Len(control'[h])
      PROVE  Sound(h, control[h][i])'
  <2>1. CASE h = Other(k) /\ i = Len(control[Other(k)]) + 1
    BY <1>1, <1>2, <1>4, <2>1 DEF Typed
  <2>2. CASE ~(h = Other(k) /\ i = Len(control[Other(k)]) + 1)
    <3>1. i \in 1 .. Len(control[h]) /\ control'[h][i] = control[h][i]
      <4>1. CASE h = Other(k)
        <5>1. control'[h] = Append(control[h], m)
          BY <1>1, <4>1 DEF Typed
        <5>2. i \in 1 .. Len(control[h])
          BY <1>2, <2>2, <4>1, <5>1
        <5> QED BY <1>2, <4>1, <5>1, <5>2
      <4>2. CASE h # Other(k)
        BY <1>1, <4>2 DEF Typed
      <4> QED BY <4>1, <4>2
    <3>2. Sound(h, control[h][i])
      BY <3>1 DEF Channels
    <3>3. PICK n : n = control[h][i]
      OBVIOUS
    <3>4. Sound(h, n)'
      BY <3>2, <3>3, StaysSound
    <3> QED BY <3>1, <3>3, <3>4 DEF Sound
  <2> QED BY <2>1, <2>2
<1> QED BY <1>3, <1>5 DEF Channels

LEMMA ReadSound ==
  ASSUME Typed, Channels, NEW h \in Host, control[h] # << >>,
         control' = [control EXCEPT ![h] = Tail(@)], origin' = origin, made' = made
  PROVE  /\ Channels' /\ control' \in [Host -> Seq(Message)]
         /\ Head(control[h]) \in Message /\ Sound(h, Head(control[h]))
<1>1. control[h] \in Seq(Message)
  BY DEF Typed
<1>2. /\ Head(control[h]) \in Message /\ Tail(control[h]) \in Seq(Message)
      /\ Len(Tail(control[h])) = Len(control[h]) - 1 /\ Len(control[h]) \in Nat
      /\ \A i \in 1 .. Len(Tail(control[h])) : Tail(control[h])[i] = control[h][i + 1]
      /\ Head(control[h]) = control[h][1]
      /\ 1 \in 1 .. Len(control[h])
  BY <1>1, HeadTailProperties, LenProperties, EmptySeq
<1>3. control' \in [Host -> Seq(Message)]
  BY <1>2 DEF Typed
<1>4. ASSUME NEW k \in Host, NEW i \in 1 .. Len(control'[k])
      PROVE  \E j \in 1 .. Len(control[k]) : control'[k][i] = control[k][j]
  BY <1>2 DEF Typed
<1>5. Channels'
  BY <1>4 DEF Channels, Sound
<1> QED BY <1>2, <1>3, <1>5 DEF Channels

LEMMA HandsSound ==
  ASSUME InHand, Grow, NEW t \in Thread, Only(t), Sound(Home[t], msg[t])'
  PROVE  InHand'
<1> SUFFICES ASSUME NEW u \in Thread \ {t} PROVE Sound(Home[u], msg[u])'
  BY DEF InHand
<1>1. Home[u] \in Host
  BY RemoteAssumption
<1>2. PICK m : m = msg[u]
  OBVIOUS
<1>3. Sound(Home[u], m)' /\ msg'[u] = m
  BY <1>1, <1>2, StaysSound DEF InHand, Only
<1> QED BY <1>3 DEF Sound

\* The caller of a thread that waits is an object, and no thread waits for None.
LEMMA Callers ==
  ASSUME Threads, NEW u \in Thread, pc[u] \in Blocking
  PROVE  u \in User /\ caller[u] \in App /\ origin[caller[u]] = Home[u]
BY DEF Threads, ThreadOK

\* A step that takes its thread to none of the places with a lock of a caller.
LEMMA Excludes ==
  ASSUME Locks, Tried, OneReader, Reading, NEW t \in Thread, Only(t),
         pc'[t] \notin {"check", "try", "reading"},
         \A u \in Thread \ {t} : pc[u] \in {"try", "reading"} /\ caller[u] \notin complete[Home[u]]
             => caller[u] \notin complete'[Home[u]],
         pc'[t] \in Handling => \A u \in Thread \ {t} :
             pc[u] \in {"check", "try"} /\ Home[t] = Home[u] => msg'[t].obj # caller[u],
         pc'[t] # "making" => \A u \in Thread \ {t} :
             pc[u] = "reading" /\ Home[t] = Home[u] => msg'[t].obj # caller[u]
  PROVE  Locks' /\ Tried' /\ OneReader' /\ Reading'
<1>1. Locks'
  <2> SUFFICES ASSUME NEW u \in Thread, NEW v \in Thread PROVE LockedOut(u, v)'
    BY DEF Locks
  <2>1. LockedOut(u, v)
    BY DEF Locks
  <2> QED BY <2>1 DEF LockedOut, Only
<1>2. Tried'
  BY DEF Tried, Only
<1>3. OneReader'
  BY DEF OneReader, Only
<1>4. Reading'
  <2> SUFFICES ASSUME NEW u \in Thread, pc'[u] = "reading"
               PROVE  /\ caller'[u] \notin complete'[Home[u]]
                      /\ \A v \in Thread :
                           Home[v] = Home[u] /\ pc'[v] # "making" => msg'[v].obj # caller'[u]
    BY DEF Reading
  <2>1. u # t /\ pc[u] = "reading" /\ caller'[u] = caller[u] /\ msg'[u] = msg[u]
    BY DEF Only
  <2>2. caller[u] \notin complete[Home[u]]
    BY <2>1 DEF Reading
  <2>3. ASSUME NEW v \in Thread \ {t}, Home[v] = Home[u], pc'[v] # "making"
        PROVE  msg'[v].obj # caller'[u]
    BY <2>1, <2>3 DEF Reading, Only
  <2> QED BY <2>1, <2>2, <2>3
<1> QED BY <1>1, <1>2, <1>3, <1>4

\* A step that goes on with what its thread has in hand, or with nothing.
LEMMA StepsOn ==
  ASSUME IInv, ~crashed, NEW t \in Thread, Only(t), Grow, Typed', ThreadOK(t)', Channels',
         created' = created, peer' = peer,
         \A u \in Thread \ {t} : pc[u] \in {"try", "reading"} /\ caller[u] \notin complete[Home[u]]
             => caller[u] \notin complete'[Home[u]],
         pc'[t] \notin {"check", "try", "reading", "making"},
         \/ msg'[t] = NoMsg
         \/ /\ msg'[t].obj = msg[t].obj /\ msg'[t].type = msg[t].type
            /\ msg'[t].src = msg[t].src /\ msg'[t].dst = msg[t].dst
            /\ msg[t] # NoMsg /\ pc[t] # "making"
            /\ pc'[t] \in Handling => pc[t] \in Handling
  PROVE  IInv'
<1> USE DEF IInv
<1>1. Threads'
  BY ThreadMoves DEF Grow
<1>2. Home[t] \in Host /\ made[Home[t]] \subseteq made'[Home[t]]
  BY RemoteAssumption DEF Grow
<1>3. InHand'
  <2>1. CASE msg'[t] = NoMsg
    <3>1. Sound(Home[t], msg[t])'
      BY <2>1 DEF Sound, NoMsg
    <3> QED BY <3>1, HandsSound
  <2>2. CASE msg'[t] # NoMsg
    <3>1. PICK m : m = msg[t]
      OBVIOUS
    <3>2. Sound(Home[t], m)'
      BY <1>2, <3>1, StaysSound DEF InHand
    <3>3. Sound(Home[t], msg[t])'
      BY <2>2, <3>1, <3>2 DEF Sound
    <3> QED BY <3>3, HandsSound
  <2> QED BY <2>1, <2>2
<1>4. Endpoints'
  BY TwoHosts DEF Endpoints, Grow
<1>5. Handled'
  <2> SUFFICES ASSUME NEW u \in Thread, pc'[u] # "making" /\ msg'[u] # NoMsg
               PROVE  msg'[u].obj \in made'[Home[u]]
    BY DEF Handled
  <2>1. made[Home[u]] \subseteq made'[Home[u]]
    BY RemoteAssumption DEF Grow
  <2>2. CASE u = t
    BY <2>1, <2>2 DEF Handled
  <2>3. CASE u # t
    BY <2>1, <2>3 DEF Handled, Only
  <2> QED BY <2>2, <2>3
<1>6. \A u \in Thread \ {t} : /\ LockedOut(u, t)
                              /\ pc[u] \in Blocking => caller[u] # None
                              /\ pc[u] = "reading" /\ Home[t] = Home[u] /\ pc[t] # "making"
                                   => msg[t].obj # caller[u]
  BY DEF Locks, Reading, Threads, ThreadOK
<1>7. Locks' /\ Tried' /\ OneReader' /\ Reading'
  <2>1. pc'[t] \in Handling => \A u \in Thread \ {t} :
             pc[u] \in {"check", "try"} /\ Home[t] = Home[u] => msg'[t].obj # caller[u]
    BY <1>6 DEF LockedOut, Blocking, NoMsg
  <2>2. \A u \in Thread \ {t} :
             pc[u] = "reading" /\ Home[t] = Home[u] => msg'[t].obj # caller[u]
    BY <1>6 DEF LockedOut, Blocking, NoMsg
  <2> QED BY <2>1, <2>2, Excludes
<1> QED BY <1>1, <1>3, <1>4, <1>5, <1>7

\* A step of a user that waits for its object, or stops to.
LEMMA Waits ==
  ASSUME IInv, ~crashed, NEW t \in Thread, Only(t), Typed', ThreadOK(t)', msg[t] = NoMsg,
         UNCHANGED <<control, origin, made, created, peer, complete, msg>>,
         pc'[t] \in {"idle", "check", "try", "spin", "relock", "reading"},
         pc'[t] \in {"check", "try"} => \A u \in Thread :
             pc[u] \in Handling /\ Home[u] = Home[t] => msg[u].obj # caller'[t],
         pc'[t] = "try" => caller'[t] \notin complete[Home[t]],
         pc'[t] = "reading" => /\ pc[t] = "try" /\ caller'[t] = caller[t]
                               /\ ReadmuFree(Home[t]) /\ ~Pending(Home[t], caller[t])
  PROVE  IInv'
<1> USE DEF IInv
<1>0. Grow /\ Home[t] \in Host
  BY RemoteAssumption DEF Grow
<1>1. Threads'
  BY ThreadMoves
<1>2. Channels'
  BY <1>0, ChannelsStay
<1>3. InHand'
  BY DEF InHand, Sound
<1>4. Endpoints'
  BY DEF Endpoints
<1>5. Handled'
  BY DEF Handled, Only
<1>6. Locks'
  <2> SUFFICES ASSUME NEW u \in Thread, NEW v \in Thread PROVE LockedOut(u, v)'
    BY DEF Locks
  <2>1. pc'[t] \notin Handling
    BY DEF Handling
  <2>2. LockedOut(u, v)
    BY DEF Locks
  <2> QED BY <2>1, <2>2 DEF LockedOut, Only
<1>7. Tried'
  BY DEF Tried, Only
<1>8. OneReader'
  BY DEF OneReader, Only, ReadmuFree, At
<1>9. Reading'
  <2> SUFFICES ASSUME NEW u \in Thread, pc'[u] = "reading"
               PROVE  /\ caller'[u] \notin complete'[Home[u]]
                      /\ \A v \in Thread :
                           Home[v] = Home[u] /\ pc'[v] # "making" => msg'[v].obj # caller'[u]
    BY DEF Reading
  <2>1. CASE u = t
    <3>1. caller[t] \notin complete[Home[t]] /\ caller[t] # None
      BY <2>1 DEF Tried, Threads, ThreadOK, Blocking
    <3>2. \A v \in Thread : Home[v] = Home[t] /\ pc[v] # "making" => msg[v].obj # caller[t]
      BY <2>1 DEF Pending, At
    <3> QED BY <2>1, <3>1, <3>2 DEF Only, NoMsg
  <2>2. CASE u # t
    <3>1. /\ pc[u] = "reading" /\ caller'[u] = caller[u] /\ caller[u] # None
      BY <2>2 DEF Only, Threads, ThreadOK, Blocking
    <3>2. /\ caller[u] \notin complete[Home[u]]
          /\ \A v \in Thread : Home[v] = Home[u] /\ pc[v] # "making" => msg[v].obj # caller[u]
      BY <3>1 DEF Reading
    <3>3. msg'[t].obj = None
      BY DEF NoMsg
    <3> QED BY <3>1, <3>2, <3>3 DEF Only
  <2> QED BY <2>1, <2>2
<1> QED BY <1>1, <1>2, <1>3, <1>4, <1>5, <1>6, <1>7, <1>8, <1>9

\* The address of an object that was constructed is sent.
LEMMA Posts ==
  ASSUME IInv, Grow, NEW h \in Host, NEW o \in Object, o \in made'[h],
         NEW m \in Message, Send(h, m), m.obj = o, m.dst => o \in peer[h],
         m.type = "CREATE" => m.src /\ o \notin made[h] /\ origin[o] = h
  PROVE  Channels' /\ control' \in [Host -> Seq(Message)]
<1>1. Other(h) \in Host /\ Other(Other(h)) = h /\ Other(h) # h
  BY TwoHosts
<1>2. peer[h] \subseteq made[Other(h)] /\ peer[h] \subseteq made[h]
  BY DEF IInv, Endpoints
<1> QED BY <1>1, <1>2, SendSound DEF IInv

LEMMA Touches ==
  ASSUME IInv, NEW h \in Host, NEW o \in Object, Touch(h, o)
  PROVE  lastMsgGen' \in [Host -> [Object -> Nat]]
BY DEF IInv, Typed, Touch

LEMMA Posted ==
  ASSUME IInv, Grow, NEW h \in Host, NEW o \in Object, o \in made'[h],
         NEW type \in {"CREATE", "CREATE_ACK", "DATA", "MARKCOMPLETE"},
         SendFrom(h, From(h, o, type)),
         type = "CREATE" => o \notin made[h] /\ origin[o] = h
  PROVE  /\ Channels' /\ control' \in [Host -> Seq(Message)]
         /\ lastMsgGen' \in [Host -> [Object -> Nat]]
<1>1. "ABSENT" \in Stages /\ {} \in SUBSET Object
  BY DEF Stages
<1>2. /\ From(h, o, type) \in Message /\ From(h, o, type).obj = o
      /\ From(h, o, type).type = type /\ From(h, o, type).src = TRUE
      /\ From(h, o, type).dst = (o \in peer[h])
  BY <1>1 DEF From, Message
<1>3. PICK m : m = From(h, o, type)
  OBVIOUS
<1>4. Send(h, m) /\ Touch(h, o)
  BY <1>2, <1>3 DEF SendFrom
<1> QED BY <1>2, <1>3, <1>4, Posts, Touches

-----------------------------------------------------------------------------
(* One lemma per action: it preserves the invariant.                        *)

LEMMA AcknowledgeKeeps ==
  ASSUME IInv, ~crashed, NEW t \in Thread, Acknowledge(t), UNCHANGED gcVars
  PROVE  IInv'
<1> DEFINE h == Home[t]  o == msg[t].obj
<1>1. /\ pc[t] = "acking" /\ pc' = [pc EXCEPT ![t] = IF o \in Gcs THEN "onCreated" ELSE "adding"]
      /\ SendFrom(h, From(h, o, "CREATE_ACK"))
      /\ UNCHANGED <<origin, gen, made, created, complete, peer, listed, held,
                     sent, msg, caller, own, crashed>>
  BY DEF Acknowledge, Goto
<1>2. /\ h \in Host /\ msg[t] \in Message /\ o \in Object /\ o \in made'[h] /\ Grow
      /\ msg[t].type = "CREATE" /\ own[t] \in Object /\ msg[t] # NoMsg
  BY <1>1, RemoteAssumption
     DEF IInv, Threads, ThreadOK, Carrying, Message, Handled, Grow, NoMsg
<1>3. Channels' /\ control' \in [Host -> Seq(Message)] /\ lastMsgGen' \in [Host -> [Object -> Nat]]
  BY <1>1, <1>2, Posted
<1>4. /\ pc'[t] \in {"onCreated", "adding"} /\ (pc'[t] = "onCreated" => o \in Gcs)
      /\ msg'[t] = msg[t] /\ Only(t)
  BY <1>1 DEF IInv, Typed, Only
<1>5. Typed'
  BY <1>1, <1>3 DEF IInv, Typed, PCs, Handling, gcVars
<1>6. ThreadOK(t)'
  BY <1>1, <1>2, <1>4 DEF IInv, Threads, ThreadOK, Carrying, Empty, Blocking
<1> QED BY <1>1, <1>2, <1>3, <1>4, <1>5, <1>6, StepsOn DEF Handling

LEMMA AddObjectKeeps ==
  ASSUME IInv, ~crashed, NEW t \in Thread, AddObject(t), UNCHANGED gcVars
  PROVE  IInv'
<1>1. /\ pc[t] = "adding" /\ pc' = [pc EXCEPT ![t] = pc'[t]]
      /\ pc'[t] = "spawning" \/ pc'[t] = (IF msg[t] = NoMsg THEN "idle" ELSE "done")
      /\ listed' = Add(listed, Home[t], own[t])
      /\ own' = [own EXCEPT ![t] = None]
      /\ UNCHANGED <<control, origin, gen, made, created, complete, peer,
                     lastMsgGen, held, sent, msg, caller, crashed>>
  BY DEF AddObject, Goto, IInv, Typed
<1>2. Home[t] \in Host /\ own[t] \in Object /\ Grow
  BY <1>1, RemoteAssumption DEF IInv, Threads, ThreadOK, Grow
<1>3. /\ msg'[t] = msg[t] /\ Only(t)
  BY <1>1 DEF IInv, Typed, Only
<1>4. Typed'
  <2>1. pc' \in [Thread -> PCs]
    BY <1>1 DEF IInv, Typed, PCs, Handling
  <2>2. listed' \in [Host -> SUBSET Object] /\ own' \in [Thread -> Object \union {None}]
    BY <1>1, <1>2 DEF IInv, Typed, Add
  <2> QED BY <1>1, <2>1, <2>2 DEF IInv, Typed, gcVars
<1>5. ThreadOK(t)'
  BY <1>1, <1>3 DEF IInv, Threads, ThreadOK, Carrying, Empty, Blocking, Typed
<1>6. Channels'
  BY <1>1, <1>2, ChannelsStay DEF IInv
<1> QED BY <1>1, <1>2, <1>3, <1>4, <1>5, <1>6, StepsOn DEF Handling

LEMMA ReplyKeeps ==
  ASSUME IInv, ~crashed, NEW t \in Thread, Reply(t), UNCHANGED gcVars
  PROVE  IInv'
<1> DEFINE h == Home[t]  o == msg[t].obj
<1>1. /\ pc[t] = "replying" /\ pc' = [pc EXCEPT ![t] = "done"]
      /\ SendFrom(h, From(h, o, "DATA"))
      /\ UNCHANGED <<origin, gen, made, created, complete, peer, listed, held,
                     sent, msg, caller, own, crashed>>
  BY DEF Reply, Goto
<1>2. /\ h \in Host /\ msg[t] \in Message /\ o \in Object /\ o \in made'[h] /\ Grow
      /\ msg[t] # NoMsg
  BY <1>1, RemoteAssumption
     DEF IInv, Threads, ThreadOK, Carrying, Message, Handled, Grow, NoMsg
<1>3. Channels' /\ control' \in [Host -> Seq(Message)] /\ lastMsgGen' \in [Host -> [Object -> Nat]]
  BY <1>1, <1>2, Posted
<1>4. /\ pc'[t] = "done" /\ msg'[t] = msg[t] /\ Only(t)
  BY <1>1 DEF IInv, Typed, Only
<1>5. Typed'
  BY <1>1, <1>3 DEF IInv, Typed, PCs, gcVars
<1>6. ThreadOK(t)'
  BY <1>1, <1>2, <1>4 DEF IInv, Threads, ThreadOK, Carrying, Empty, Blocking
<1> QED BY <1>1, <1>2, <1>3, <1>4, <1>5, <1>6, StepsOn DEF Handling

LEMMA FinishKeeps ==
  ASSUME IInv, ~crashed, NEW t \in Thread, Finish(t), UNCHANGED gcVars
  PROVE  IInv'
<1>1. /\ pc[t] = "done" /\ pc' = [pc EXCEPT ![t] = IF caller[t] = None THEN "idle" ELSE "relock"]
      /\ msg' = [msg EXCEPT ![t] = NoMsg]
      /\ UNCHANGED <<control, origin, gen, objects, sent, caller, own, crashed>>
  BY DEF Finish, Goto
<1>2. Grow
  BY <1>1 DEF Grow, objects
<1>3. /\ pc'[t] \in {"idle", "relock"} /\ msg'[t] = NoMsg /\ Only(t)
  BY <1>1 DEF IInv, Typed, Only
<1>4. Typed'
  BY <1>1 DEF IInv, Typed, PCs, Handling, objects, gcVars
<1>5. ThreadOK(t)'
  BY <1>1, <1>3 DEF IInv, Threads, ThreadOK, Carrying, Empty, Blocking, Typed
<1>6. Channels'
  BY <1>1, <1>2, ChannelsStay DEF IInv
<1> QED BY <1>1, <1>2, <1>3, <1>4, <1>5, <1>6, StepsOn DEF Handling, objects

\* The object is new at its maker's host, so CREATE carries no destination.
LEMMA CreateRemoteObjectKeeps ==
  ASSUME IInv, ~crashed, NEW t \in Thread, NEW o \in Object, CreateRemoteObject(t, o),
         pc[t] \in {"idle", "spawning"}, held' \in [Host -> SUBSET Object],
         UNCHANGED gcVars
  PROVE  IInv'
<1> DEFINE h == Home[t]
<1>1. /\ origin[o] = h /\ o \notin made[h]
      /\ made' = Add(made, h, o)
      /\ SendFrom(h, From(h, o, "CREATE"))
      /\ own' = [own EXCEPT ![t] = o]
      /\ pc' = [pc EXCEPT ![t] = "adding"]
      /\ UNCHANGED <<origin, gen, created, complete, peer, listed, sent, msg,
                     caller, crashed>>
  BY DEF CreateRemoteObject, Goto
<1>2. h \in Host /\ Grow /\ o \in made'[h] /\ made' \in [Host -> SUBSET Object]
  BY <1>1, RemoteAssumption DEF IInv, Typed, Add, Grow
<1>3. Channels' /\ control' \in [Host -> Seq(Message)] /\ lastMsgGen' \in [Host -> [Object -> Nat]]
  BY <1>1, <1>2, Posted
<1>4. /\ pc'[t] = "adding" /\ msg'[t] = msg[t] /\ own'[t] = o /\ Only(t)
  BY <1>1 DEF IInv, Typed, Only
<1>5. Typed'
  BY <1>1, <1>2, <1>3 DEF IInv, Typed, PCs, Handling, gcVars
<1>6. ThreadOK(t)'
  BY <1>1, <1>2, <1>4 DEF IInv, Threads, ThreadOK, Carrying, Empty, Blocking
<1>7. pc[t] = "idle" => msg[t] = NoMsg
  BY DEF IInv, Threads, ThreadOK, Empty
<1> QED BY <1>1, <1>2, <1>3, <1>4, <1>5, <1>6, <1>7, StepsOn DEF Handling

LEMMA SpawnKeeps ==
  ASSUME IInv, ~crashed, NEW t \in Thread, Spawn(t), UNCHANGED gcVars
  PROVE  IInv'
<1>1. PICK g \in Gcs : CreateRemoteObject(t, g)
  BY DEF Spawn
<1>2. held' \in [Host -> SUBSET Object]
  BY DEF Spawn, IInv, Typed
<1>3. pc[t] = "spawning" /\ g \in Object
  BY DEF Spawn, Object
<1> QED BY <1>1, <1>2, <1>3, CreateRemoteObjectKeeps

LEMMA CreateKeeps ==
  ASSUME IInv, ~crashed, NEW t \in Thread, NEW o \in App, Create(t, o), UNCHANGED gcVars
  PROVE  IInv'
<1>1. Home[t] \in Host
  BY RemoteAssumption
<1>2. held' = [held EXCEPT ![Home[t]] = @ \union {o}] /\ pc[t] = "idle" /\ o \in Object
      /\ CreateRemoteObject(t, o)
  BY DEF Create, Object, Add
<1>3. held' \in [Host -> SUBSET Object]
  BY <1>1, <1>2 DEF IInv, Typed
<1> QED BY <1>2, <1>3, CreateRemoteObjectKeeps

\* What a user may call for has been constructed.
LEMMA Callable ==
  ASSUME IInv, NEW u \in Thread, NEW o \in App, CanCall(u, o)
  PROVE  /\ u \in User /\ Home[u] \in Host /\ o \in made[Home[u]] /\ msg[u] = NoMsg
         /\ pc[u] = "idle"
BY RemoteAssumption DEF CanCall, IInv, Endpoints, Threads, ThreadOK, Empty

LEMMA SendDataKeeps ==
  ASSUME IInv, ~crashed, NEW t \in Thread, NEW o \in App, SendData(t, o), UNCHANGED gcVars
  PROVE  IInv'
<1> DEFINE h == Home[t]
<1>1. /\ CanCall(t, o)
      /\ sent' = Add(sent, h, o)
      /\ SendFrom(h, From(h, o, "DATA"))
      /\ UNCHANGED <<origin, gen, made, created, complete, peer, listed, held,
                     threads, crashed>>
  BY DEF SendData
<1>2. /\ h \in Host /\ Grow /\ o \in Object /\ o \in made'[h] /\ pc[t] = "idle" /\ msg[t] = NoMsg
      /\ sent' \in [Host -> SUBSET Object]
  <2>1. h \in Host /\ o \in made[h] /\ pc[t] = "idle" /\ msg[t] = NoMsg
    BY <1>1, Callable
  <2>2. Grow /\ o \in Object /\ o \in made'[h]
    BY <1>1, <2>1 DEF Grow, Object
  <2>3. sent' \in [Host -> SUBSET Object]
    BY <1>1, <2>1, <2>2 DEF IInv, Typed, Add
  <2> QED BY <2>1, <2>2, <2>3
<1>3. Channels' /\ control' \in [Host -> Seq(Message)] /\ lastMsgGen' \in [Host -> [Object -> Nat]]
  BY <1>1, <1>2, Posted
<1>4. /\ Only(t)
  BY <1>1 DEF threads, Only
<1>5. Typed'
  BY <1>1, <1>2, <1>3 DEF IInv, Typed, threads, gcVars
<1>6. ThreadOK(t)'
  BY <1>1, <1>2 DEF IInv, Threads, ThreadOK, threads
<1> QED BY <1>1, <1>2, <1>3, <1>4, <1>5, <1>6, StepsOn DEF threads

LEMMA MarkCompleteKeeps ==
  ASSUME IInv, ~crashed, NEW t \in Thread, NEW o \in App, MarkComplete(t, o), UNCHANGED gcVars
  PROVE  IInv'
<1> DEFINE h == Home[t]
<1>1. /\ CanCall(t, o) /\ origin[o] # h
      /\ SendFrom(h, From(h, o, "MARKCOMPLETE"))
      /\ own' = [own EXCEPT ![t] = o] /\ pc' = [pc EXCEPT ![t] = "marking"]
      /\ UNCHANGED <<origin, gen, made, created, complete, peer, listed, held,
                     sent, msg, caller, crashed>>
  BY DEF MarkComplete, Goto
<1>2. h \in Host /\ Grow /\ o \in Object /\ o \in made'[h] /\ msg[t] = NoMsg
  BY <1>1, Callable DEF Grow, Object
<1>3. Channels' /\ control' \in [Host -> Seq(Message)] /\ lastMsgGen' \in [Host -> [Object -> Nat]]
  BY <1>1, <1>2, Posted
<1>4. /\ pc'[t] = "marking" /\ own'[t] = o /\ msg'[t] = NoMsg /\ Only(t)
  BY <1>1, <1>2 DEF IInv, Typed, Only
<1>5. Typed'
  BY <1>1, <1>2, <1>3 DEF IInv, Typed, PCs, gcVars
<1>6. ThreadOK(t)'
  BY <1>1, <1>2, <1>4 DEF IInv, Threads, ThreadOK, Carrying, Empty, Blocking
<1> QED BY <1>1, <1>2, <1>3, <1>4, <1>5, <1>6, StepsOn

\* What it completes came from the other host: nobody waits for it here.
LEMMA MarkCompleteMuKeeps ==
  ASSUME IInv, ~crashed, NEW t \in Thread, MarkCompleteMu(t), UNCHANGED gcVars
  PROVE  IInv'
<1> DEFINE h == Home[t]
<1>1. /\ pc[t] = "marking" /\ pc' = [pc EXCEPT ![t] = "idle"]
      /\ complete' = Add(complete, h, own[t]) /\ held' = Drop(held, h, own[t])
      /\ own' = [own EXCEPT ![t] = None]
      /\ UNCHANGED <<control, origin, gen, made, created, peer, lastMsgGen,
                     listed, sent, msg, caller, crashed>>
  BY DEF MarkCompleteMu, Goto
<1>2. /\ h \in Host /\ Grow /\ own[t] \in App /\ own[t] \in Object /\ origin[own[t]] # h
      /\ msg[t] = NoMsg
  BY <1>1, RemoteAssumption DEF IInv, Threads, ThreadOK, Grow, Object, Empty
<1>3. /\ pc'[t] = "idle" /\ msg'[t] = NoMsg /\ Only(t)
  BY <1>1, <1>2 DEF IInv, Typed, Only
<1>4. Typed'
  BY <1>1, <1>2 DEF IInv, Typed, PCs, Add, Drop, gcVars
<1>5. ThreadOK(t)'
  BY <1>1, <1>2, <1>3 DEF IInv, Threads, ThreadOK, Carrying, Empty, Blocking
<1>6. Channels'
  BY <1>1, <1>2, ChannelsStay DEF IInv
<1>7. ASSUME NEW u \in Thread \ {t}, pc[u] \in {"try", "reading"},
             caller[u] \notin complete[Home[u]]
      PROVE  caller[u] \notin complete'[Home[u]]
  <2>1. origin[caller[u]] = Home[u]
    BY <1>7, Callers DEF Blocking, IInv
  <2> QED BY <1>1, <1>2, <1>7, <2>1 DEF Add, IInv, Typed
<1> QED BY <1>1, <1>2, <1>3, <1>4, <1>5, <1>6, <1>7, StepsOn

LEMMA ReleaseKeeps ==
  ASSUME IInv, ~crashed, NEW t \in Thread, NEW o \in App, Release(t, o), UNCHANGED gcVars
  PROVE  IInv'
<1>1. /\ pc[t] = "idle" /\ held' = Drop(held, Home[t], o)
      /\ UNCHANGED <<control, origin, gen, made, created, complete, peer,
                     lastMsgGen, listed, sent, threads, crashed>>
  BY DEF Release
<1>2. Home[t] \in Host /\ Grow /\ msg[t] = NoMsg
  BY <1>1, RemoteAssumption DEF Grow, IInv, Threads, ThreadOK, Empty
<1>3. /\ Only(t)
  BY <1>1 DEF threads, Only
<1>4. Typed'
  BY <1>1, <1>2 DEF IInv, Typed, threads, Drop, gcVars
<1>5. ThreadOK(t)'
  BY <1>1, <1>2 DEF IInv, Threads, ThreadOK, threads
<1>6. Channels'
  BY <1>1, <1>2, ChannelsStay DEF IInv
<1> QED BY <1>1, <1>2, <1>3, <1>4, <1>5, <1>6, StepsOn DEF threads

\* The handler has the lock of its object: no user is about to block for it.
LEMMA DispatchKeeps ==
  ASSUME IInv, ~crashed, NEW t \in Thread, Dispatch(t), UNCHANGED gcVars
  PROVE  IInv'
<1> DEFINE h == Home[t]  o == msg[t].obj
<1>1. /\ pc[t] = "dispatch" /\ o \in App /\ pc' = [pc EXCEPT ![t] = pc'[t]]
      /\ pc'[t] \in {"replying", "done"}
      /\ complete' = complete \/ complete' = Add(complete, h, o)
      /\ UNCHANGED <<control, origin, gen, made, created, peer, lastMsgGen,
                     listed, held, sent, msg, caller, own, crashed>>
  BY DEF Dispatch, Goto, IInv, Typed
<1>2. h \in Host /\ Grow /\ o \in Object /\ msg[t] \in Message /\ msg[t] # NoMsg
  BY <1>1, RemoteAssumption
     DEF IInv, Threads, ThreadOK, Grow, Object, Carrying, NoMsg, Message
<1>3. /\ msg'[t] = msg[t] /\ Only(t)
  BY <1>1 DEF IInv, Typed, Only
<1>4. /\ complete' \in [Host -> SUBSET Object]
      /\ complete'[h] \subseteq complete[h] \union {o}
      /\ \A k \in Host \ {h} : complete'[k] = complete[k]
  <2>1. CASE complete' = complete
    BY <1>2, <2>1 DEF IInv, Typed
  <2>2. CASE complete' = Add(complete, h, o)
    BY <1>2, <2>2 DEF IInv, Typed, Add
  <2> QED BY <1>1, <2>1, <2>2
<1>5. Typed'
  BY <1>1, <1>2, <1>4 DEF IInv, Typed, PCs, gcVars
<1>6. ThreadOK(t)'
  BY <1>1, <1>2, <1>3 DEF IInv, Threads, ThreadOK, Carrying, Empty, Blocking
<1>7. Channels'
  BY <1>1, <1>2, ChannelsStay DEF IInv
<1>8. ASSUME NEW u \in Thread \ {t}, pc[u] \in {"try", "reading"},
             caller[u] \notin complete[Home[u]]
      PROVE  caller[u] \notin complete'[Home[u]]
  <2>1. Home[u] = h => caller[u] # o
    BY <1>1, <1>8 DEF IInv, Locks, LockedOut, Reading, Handling
  <2>2. Home[u] \in Host
    BY RemoteAssumption
  <2> QED BY <1>4, <1>8, <2>1, <2>2
<1> QED BY <1>1, <1>2, <1>3, <1>5, <1>6, <1>7, <1>8, StepsOn DEF Handling

\* A user with the lock of its object: no handler is in it.
LEMMA WaitUntilCompleteKeeps ==
  ASSUME IInv, ~crashed, NEW t \in Thread, NEW o \in App, WaitUntilComplete(t, o),
         UNCHANGED gcVars
  PROVE  IInv'
<1>1. /\ t \in User /\ pc[t] = "idle" /\ origin[o] = Home[t] /\ LockFree(Home[t], o)
      /\ caller' = [caller EXCEPT ![t] = o] /\ pc' = [pc EXCEPT ![t] = "check"]
      /\ UNCHANGED <<control, origin, gen, objects, sent, msg, own, crashed>>
  BY DEF WaitUntilComplete, Goto
<1>2. msg[t] = NoMsg /\ o \in Object /\ o # None
  BY <1>1, RemoteAssumption DEF IInv, Threads, ThreadOK, Empty, Object
<1>3. pc'[t] = "check" /\ caller'[t] = o /\ Only(t)
  BY <1>1 DEF IInv, Typed, Only
<1>4. Typed'
  BY <1>1, <1>2 DEF IInv, Typed, PCs, objects, gcVars
<1>5. ThreadOK(t)'
  BY <1>1, <1>2, <1>3 DEF ThreadOK, Carrying, Empty, Blocking
<1>6. \A u \in Thread : pc[u] \in Handling /\ Home[u] = Home[t] => msg[u].obj # caller'[t]
  BY <1>1, <1>3 DEF LockFree, At
<1> QED BY <1>1, <1>2, <1>3, <1>4, <1>5, <1>6, Waits DEF objects

LEMMA CheckKeeps ==
  ASSUME IInv, ~crashed, NEW t \in Thread, Check(t), UNCHANGED gcVars
  PROVE  IInv'
<1> DEFINE o == caller[t]
<1>1. /\ pc[t] = "check" /\ pc' = [pc EXCEPT ![t] = pc'[t]]
      /\ pc'[t] \in {"idle", "spin", "try"}
      /\ pc'[t] = "idle" => caller' = [caller EXCEPT ![t] = None]
      /\ pc'[t] # "idle" => caller' = caller /\ o \notin complete[Home[t]]
      /\ UNCHANGED <<control, origin, gen, objects, sent, msg, own, crashed>>
  BY DEF Check, Goto, IInv, Typed
<1>2. /\ msg[t] = NoMsg /\ ThreadOK(t)
  BY <1>1 DEF IInv, Threads, ThreadOK, Empty
<1>3. Only(t)
  <2>1. CASE pc'[t] = "idle"
    BY <1>1, <2>1 DEF IInv, Typed, Only
  <2>2. CASE pc'[t] # "idle"
    BY <1>1, <2>2 DEF IInv, Typed, Only
  <2> QED BY <2>1, <2>2
<1>4. /\ Typed' /\ ThreadOK(t)'
  <2>1. Typed'
    <3>1. pc' \in [Thread -> PCs]
      BY <1>1 DEF IInv, Typed, PCs
    <3>2. caller' \in [Thread -> Object \union {None}]
      BY <1>1 DEF IInv, Typed
    <3> QED BY <1>1, <3>1, <3>2 DEF IInv, Typed, objects, gcVars
  <2>2. msg'[t] = NoMsg /\ own'[t] = own[t] /\ (caller'[t] = caller[t] \/ caller'[t] = None)
    BY <1>1, <1>2 DEF IInv, Typed
  <2>3. ThreadOK(t)'
    BY <1>1, <1>2, <2>2 DEF ThreadOK, Carrying, Empty, Blocking
  <2> QED BY <2>1, <2>3
<1>5. pc'[t] = "try" => \A u \in Thread : pc[u] \in Handling /\ Home[u] = Home[t]
        => msg[u].obj # caller'[t]
  BY <1>1 DEF IInv, Locks, LockedOut
<1> QED BY <1>1, <1>2, <1>3, <1>4, <1>5, Waits DEF objects

LEMMA TryRecvKeeps ==
  ASSUME IInv, ~crashed, NEW t \in Thread, TryRecv(t), UNCHANGED gcVars
  PROVE  IInv'
<1>1. /\ pc[t] = "try" /\ pc' = [pc EXCEPT ![t] = pc'[t]]
      /\ \/ pc'[t] = "check"
         \/ pc'[t] = "reading" /\ ReadmuFree(Home[t]) /\ ~Pending(Home[t], caller[t])
      /\ UNCHANGED <<control, origin, gen, objects, sent, msg, caller, own, crashed>>
  BY DEF TryRecv, Goto, IInv, Typed
<1>2. /\ msg[t] = NoMsg /\ ThreadOK(t)
  BY <1>1 DEF IInv, Threads, ThreadOK, Empty
<1>3. Only(t)
  BY <1>1 DEF IInv, Typed, Only
<1>4. /\ Typed' /\ ThreadOK(t)'
  <2>1. pc' \in [Thread -> PCs]
    BY <1>1 DEF IInv, Typed, PCs
  <2>2. Typed'
    BY <1>1, <2>1 DEF IInv, Typed, objects, gcVars
  <2>3. ThreadOK(t)'
    BY <1>1, <1>2 DEF ThreadOK, Carrying, Empty, Blocking
  <2> QED BY <2>2, <2>3
<1>5. \A u \in Thread : pc[u] \in Handling /\ Home[u] = Home[t] => msg[u].obj # caller'[t]
  BY <1>1 DEF IInv, Locks, LockedOut
<1> QED BY <1>1, <1>2, <1>3, <1>4, <1>5, Waits DEF objects

LEMMA SpinKeeps ==
  ASSUME IInv, ~crashed, NEW t \in Thread, Spin(t), UNCHANGED gcVars
  PROVE  IInv'
<1>1. /\ pc[t] = "spin" /\ pc' = [pc EXCEPT ![t] = "relock"]
      /\ UNCHANGED <<control, origin, gen, objects, sent, msg, caller, own, crashed>>
  BY DEF Spin, Goto
<1>2. /\ msg[t] = NoMsg /\ ThreadOK(t)
  BY <1>1 DEF IInv, Threads, ThreadOK, Empty
<1>3. pc'[t] = "relock" /\ Only(t)
  BY <1>1 DEF IInv, Typed, Only
<1>4. /\ Typed' /\ ThreadOK(t)'
  BY <1>1, <1>2 DEF IInv, Typed, PCs, objects, gcVars, ThreadOK, Carrying, Empty, Blocking
<1> QED BY <1>1, <1>2, <1>3, <1>4, Waits DEF objects

LEMMA RelockKeeps ==
  ASSUME IInv, ~crashed, NEW t \in Thread, Relock(t), UNCHANGED gcVars
  PROVE  IInv'
<1>1. /\ pc[t] = "relock" /\ pc' = [pc EXCEPT ![t] = "check"]
      /\ LockFree(Home[t], caller[t])
      /\ UNCHANGED <<control, origin, gen, objects, sent, msg, caller, own, crashed>>
  BY DEF Relock, Goto
<1>2. /\ msg[t] = NoMsg /\ ThreadOK(t)
  BY <1>1 DEF IInv, Threads, ThreadOK, Empty
<1>3. pc'[t] = "check" /\ Only(t)
  BY <1>1 DEF IInv, Typed, Only
<1>4. /\ Typed' /\ ThreadOK(t)'
  BY <1>1, <1>2 DEF IInv, Typed, PCs, objects, gcVars, ThreadOK, Carrying, Empty, Blocking
<1>5. \A u \in Thread : pc[u] \in Handling /\ Home[u] = Home[t] => msg[u].obj # caller'[t]
  BY <1>1 DEF LockFree, At
<1> QED BY <1>1, <1>2, <1>3, <1>4, <1>5, Waits DEF objects

\* Nobody else is blocked in readAll: nobody waits for what is read.
LEMMA ReadKeeps ==
  ASSUME IInv, ~crashed, NEW t \in Thread, Read(t), UNCHANGED gcVars,
         \A u \in Thread \ {t} : ~(pc[u] = "reading" /\ Home[u] = Home[t]),
         msg[t] = NoMsg
  PROVE  IInv'
<1> DEFINE h == Home[t]
<1>1. PICK m : m = Head(control[h])
  OBVIOUS
<1>2. /\ control[h] # << >> /\ control' = [control EXCEPT ![h] = Tail(@)]
      /\ msg' = [msg EXCEPT ![t] = m]
      /\ pc' = [pc EXCEPT ![t] = IF m.dst THEN "locking" ELSE "making"]
      /\ crashed' = (~m.dst /\ m.type # "CREATE")
      /\ m.dst => Touch(h, m.obj)
      /\ ~m.dst => lastMsgGen' = lastMsgGen
      /\ UNCHANGED <<origin, gen, made, created, complete, peer, listed, held,
                     sent, caller, own>>
  BY <1>1 DEF Read, Goto
<1>3. h \in Host /\ Grow
  BY <1>2, RemoteAssumption DEF Grow
<1>4. /\ Channels' /\ control' \in [Host -> Seq(Message)]
      /\ m \in Message /\ Sound(h, m)
  BY <1>1, <1>2, <1>3, ReadSound DEF IInv
<1>5. /\ m.obj \in Object /\ m # NoMsg /\ m.dst \in BOOLEAN
      /\ m.type \in {"CREATE", "CREATE_ACK", "DATA", "NOTIFY", "MARKCOMPLETE"}
  BY <1>4, RemoteAssumption DEF Message, NoMsg
<1>6. /\ pc'[t] = (IF m.dst THEN "locking" ELSE "making") /\ msg'[t] = m
      /\ own'[t] = own[t] /\ caller'[t] = caller[t] /\ Only(t)
  BY <1>2 DEF IInv, Typed, Only
<1>7. lastMsgGen' \in [Host -> [Object -> Nat]]
  BY <1>2, <1>3, <1>5, Touches DEF IInv, Typed
<1>8. pc' \in [Thread -> PCs]
  BY <1>2 DEF IInv, Typed, PCs
<1>9. Typed'
  <2>1. crashed' \in BOOLEAN
    BY <1>2, Zenon
  <2> QED BY <1>2, <1>4, <1>7, <1>8, <2>1 DEF IInv, Typed, gcVars
<1>10. ThreadOK(t)'
  <2>1. ThreadOK(t)
    BY DEF IInv, Threads
  <2>2. m.dst \/ crashed' \/ m.type = "CREATE"
    BY <1>2
  <2>3. CASE m.dst
    BY <1>2, <1>4, <1>6, <2>1, <2>3 DEF ThreadOK, Carrying, Empty, Blocking
  <2>4. CASE ~m.dst
    <3>1. pc'[t] = "making"
      BY <1>6, <2>4
    <3>2. ThreadOK(t)' <=> /\ msg'[t] \in Message
                           /\ crashed' \/ msg'[t].type = "CREATE"
                           /\ caller'[t] # None =>
                                t \in User /\ caller'[t] \in App /\ origin'[caller'[t]] = Home[t]
      BY <3>1 DEF ThreadOK, Carrying, Empty, Blocking
    <3> QED BY <1>2, <1>4, <1>6, <2>1, <2>2, <2>4, <3>2 DEF ThreadOK
  <2> QED BY <2>3, <2>4
<1>11. Threads'
  BY <1>2, <1>6, <1>10, ThreadMoves DEF IInv
<1>12. InHand'
  <2>1. Sound(h, msg[t])'
    BY <1>2, <1>4, <1>6 DEF Sound
  <2> QED BY <1>3, <1>6, <2>1, HandsSound DEF IInv
<1>13. Endpoints'
  BY <1>2 DEF IInv, Endpoints
<1>14. Handled'
  BY <1>2, <1>4, <1>6 DEF IInv, Handled, Only, Sound
<1>15. Locks' /\ Tried' /\ OneReader' /\ Reading'
  BY <1>2, <1>6, Excludes DEF IInv, Handling
<1> QED BY <1>4, <1>9, <1>11, <1>12, <1>13, <1>14, <1>15 DEF IInv

LEMMA ListenerRecvKeeps ==
  ASSUME IInv, ~crashed, NEW t \in Thread, ListenerRecv(t), UNCHANGED gcVars
  PROVE  IInv'
<1>1. msg[t] = NoMsg
  BY DEF ListenerRecv, IInv, Threads, ThreadOK, Empty
<1>2. \A u \in Thread \ {t} : ~(pc[u] = "reading" /\ Home[u] = Home[t])
  BY DEF ListenerRecv, ReadmuFree, At
<1> QED BY <1>1, <1>2, ReadKeeps DEF ListenerRecv

LEMMA CallerRecvKeeps ==
  ASSUME IInv, ~crashed, NEW t \in Thread, CallerRecv(t), UNCHANGED gcVars
  PROVE  IInv'
<1>1. msg[t] = NoMsg
  BY DEF CallerRecv, IInv, Threads, ThreadOK, Empty
<1>2. \A u \in Thread \ {t} : ~(pc[u] = "reading" /\ Home[u] = Home[t])
  BY DEF CallerRecv, IInv, OneReader
<1> QED BY <1>1, <1>2, ReadKeeps DEF CallerRecv

\* A message with a destination is no CREATE: its thread adds no object.
LEMMA LockKeeps ==
  ASSUME IInv, ~crashed, NEW t \in Thread, Lock(t), UNCHANGED gcVars
  PROVE  IInv'
<1> DEFINE h == Home[t]  o == msg[t].obj
<1>1. /\ pc[t] = "locking" /\ LockFree(h, o) /\ pc' = [pc EXCEPT ![t] = pc'[t]]
      /\ pc'[t] \in {"dispatch", "onCreated"} /\ (pc'[t] = "onCreated" => o \in Gcs)
      /\ created' = created \/ created' = Add(created, h, o)
      /\ peer' = peer \/ (peer' = Add(peer, h, o) /\ msg[t].src)
      /\ UNCHANGED <<control, origin, gen, made, complete, lastMsgGen, listed,
                     held, sent, msg, caller, own, crashed>>
  BY DEF Lock, Goto, IInv, Typed
<1>2. /\ h \in Host /\ Grow /\ msg[t] \in Message /\ o \in Object /\ msg[t] # NoMsg
      /\ msg[t].dst /\ ThreadOK(t) /\ Sound(h, msg[t])
  BY <1>1, RemoteAssumption
     DEF IInv, Threads, ThreadOK, Grow, Carrying, NoMsg, Message, InHand
<1>3. o \in made[h] /\ msg[t].type # "CREATE" /\ (msg[t].src => o \in made[Other(h)])
  BY <1>2 DEF Sound
<1>4. msg'[t] = msg[t] /\ Only(t)
  BY <1>1 DEF IInv, Typed, Only
<1>5. /\ created' \in [Host -> SUBSET Object] /\ created'[h] \subseteq created[h] \union {o}
      /\ \A k \in Host \ {h} : created'[k] = created[k]
  <2>1. CASE created' = created
    BY <1>2, <2>1 DEF IInv, Typed
  <2>2. CASE created' = Add(created, h, o)
    BY <1>2, <2>2 DEF IInv, Typed, Add
  <2> QED BY <1>1, <2>1, <2>2
<1>6. /\ peer' \in [Host -> SUBSET Object]
      /\ peer'[h] \subseteq peer[h] \union (IF msg[t].src THEN {o} ELSE {})
      /\ \A k \in Host \ {h} : peer'[k] = peer[k]
  <2>1. CASE peer' = peer
    BY <1>2, <2>1 DEF IInv, Typed
  <2>2. CASE peer' = Add(peer, h, o) /\ msg[t].src
    BY <1>2, <2>2 DEF IInv, Typed, Add
  <2> QED BY <1>1, <2>1, <2>2
<1>7. Typed'
  <2>1. pc' \in [Thread -> PCs]
    BY <1>1 DEF IInv, Typed, PCs, Handling
  <2>2. created' \in [Host -> SUBSET Object] /\ peer' \in [Host -> SUBSET Object]
    BY <1>5, <1>6
  <2> QED BY <1>1, <2>1, <2>2 DEF IInv, Typed, gcVars
<1>8. ThreadOK(t)'
  BY <1>1, <1>2, <1>3, <1>4 DEF ThreadOK, Carrying, Empty, Blocking
<1>9. Threads'
  BY <1>1, <1>4, <1>8, ThreadMoves DEF IInv
<1>10. Channels' /\ InHand'
  BY <1>1, <1>2, ChannelsStay DEF IInv, InHand, Sound
<1>11. Endpoints'
  <2> SUFFICES ASSUME NEW k \in Host
               PROVE  /\ created'[k] \subseteq made[k]
                      /\ peer'[k] \subseteq made[k] /\ peer'[k] \subseteq made[Other(k)]
    BY <1>1 DEF Endpoints
  <2>1. /\ created[k] \subseteq made[k]
        /\ peer[k] \subseteq made[k] /\ peer[k] \subseteq made[Other(k)]
    BY DEF IInv, Endpoints
  <2>2. CASE k = h
    BY <1>3, <1>5, <1>6, <2>1, <2>2
  <2>3. CASE k # h
    BY <1>5, <1>6, <2>1, <2>3
  <2> QED BY <2>2, <2>3
<1>12. Handled'
  BY <1>1, <1>3, <1>4 DEF IInv, Handled, Only
<1>13. \A u \in Thread \ {t} : pc[u] \in {"check", "try"} /\ Home[t] = Home[u] => o # caller[u]
  BY <1>1 DEF LockFree, At
<1>14. \A u \in Thread \ {t} : pc[u] = "reading" /\ Home[t] = Home[u] => o # caller[u]
  BY <1>1 DEF IInv, Reading
<1>15. Locks' /\ Tried' /\ OneReader' /\ Reading'
  BY <1>1, <1>4, <1>13, <1>14, Excludes DEF IInv
<1> QED BY <1>7, <1>9, <1>10, <1>11, <1>12, <1>15 DEF IInv

\* What is made here came from the other host: nobody waits for it here.
LEMMA MakeKeeps ==
  ASSUME IInv, ~crashed, NEW t \in Thread, Make(t), UNCHANGED gcVars
  PROVE  IInv'
<1> DEFINE h == Home[t]  o == msg[t].obj
<1>1. /\ pc[t] = "making" /\ pc' = [pc EXCEPT ![t] = "acking"]
      /\ made' = Add(made, h, o) /\ peer' = Add(peer, h, o)
      /\ created' = Add(created, h, o) /\ Touch(h, o)
      /\ held' = Add(held, h, o) \/ held' = held
      /\ own' = [own EXCEPT ![t] = o]
      /\ UNCHANGED <<control, origin, gen, complete, listed, sent, msg, caller,
                     crashed>>
  BY DEF Make, Goto
<1>2. /\ h \in Host /\ msg[t] \in Message /\ o \in Object /\ msg[t] # NoMsg
      /\ msg[t].type = "CREATE" /\ ThreadOK(t) /\ Sound(h, msg[t])
  BY <1>1, RemoteAssumption
     DEF IInv, Threads, ThreadOK, Carrying, NoMsg, Message, InHand
<1>3. o \in made[Other(h)] /\ origin[o] # h /\ Other(h) \in Host /\ Other(h) # h
  BY <1>2, TwoHosts DEF Sound
<1>4. Grow /\ o \in made'[h]
  BY <1>1, <1>2 DEF IInv, Typed, Add, Grow
<1>5. /\ pc'[t] = "acking" /\ msg'[t] = msg[t] /\ own'[t] = o /\ Only(t)
  BY <1>1 DEF IInv, Typed, Only
<1>6. lastMsgGen' \in [Host -> [Object -> Nat]]
  BY <1>1, <1>2, Touches
<1>7. /\ made' \in [Host -> SUBSET Object] /\ peer' \in [Host -> SUBSET Object]
      /\ created' \in [Host -> SUBSET Object]
  BY <1>1, <1>2 DEF IInv, Typed, Add
<1>8. held' \in [Host -> SUBSET Object]
  <2>1. CASE held' = held
    BY <2>1 DEF IInv, Typed
  <2>2. CASE held' = Add(held, h, o)
    BY <1>2, <2>2 DEF IInv, Typed, Add
  <2> QED BY <1>1, <2>1, <2>2
<1>9. pc' \in [Thread -> PCs] /\ own' \in [Thread -> Object \union {None}]
  BY <1>1, <1>2 DEF IInv, Typed, PCs, Handling
<1>10. Typed'
  BY <1>1, <1>6, <1>7, <1>8, <1>9 DEF IInv, Typed, gcVars
<1>11. ThreadOK(t)'
  BY <1>1, <1>2, <1>5 DEF ThreadOK, Carrying, Empty, Blocking
<1>12. Threads'
  BY <1>1, <1>5, <1>11, ThreadMoves DEF IInv
<1>13. Channels'
  BY <1>1, <1>4, ChannelsStay DEF IInv
<1>14. InHand'
  <2>1. PICK m : m = msg[t]
    OBVIOUS
  <2>2. Sound(h, m)'
    BY <1>2, <1>4, <2>1, StaysSound
  <2>3. Sound(h, msg[t])'
    BY <1>5, <2>1, <2>2 DEF Sound
  <2> QED BY <1>4, <1>5, <2>3, HandsSound DEF IInv
<1>15. Endpoints'
  <2> SUFFICES ASSUME NEW k \in Host
               PROVE  /\ created'[k] \subseteq made'[k]
                      /\ peer'[k] \subseteq made'[k] /\ peer'[k] \subseteq made'[Other(k)]
    BY DEF Endpoints
  <2>1. /\ created[k] \subseteq made[k]
        /\ peer[k] \subseteq made[k] /\ peer[k] \subseteq made[Other(k)]
        /\ Other(k) \in Host
        /\ made[k] \subseteq made'[k] /\ made[Other(k)] \subseteq made'[Other(k)]
    BY <1>4, TwoHosts DEF IInv, Endpoints, Grow
  <2>2. CASE k = h
    <3>1. created'[k] = created[k] \union {o} /\ peer'[k] = peer[k] \union {o}
      BY <1>1, <2>2 DEF IInv, Typed, Add
    <3> QED BY <1>3, <1>4, <2>1, <2>2, <3>1
  <2>3. CASE k # h
    <3>1. created'[k] = created[k] /\ peer'[k] = peer[k]
      BY <1>1, <2>3 DEF IInv, Typed, Add
    <3> QED BY <2>1, <3>1
  <2> QED BY <2>2, <2>3
<1>16. Handled'
  <2> SUFFICES ASSUME NEW u \in Thread, pc'[u] # "making" /\ msg'[u] # NoMsg
               PROVE  msg'[u].obj \in made'[Home[u]]
    BY DEF Handled
  <2>1. made[Home[u]] \subseteq made'[Home[u]]
    BY <1>4, RemoteAssumption DEF Grow
  <2>2. CASE u = t
    BY <1>4, <1>5, <2>2
  <2>3. CASE u # t
    BY <1>5, <2>1, <2>3 DEF IInv, Handled, Only
  <2> QED BY <2>2, <2>3
<1>17. \A u \in Thread \ {t} : pc[u] \in Blocking /\ Home[t] = Home[u] => o # caller[u]
  BY <1>3, Callers DEF IInv
<1>18. Locks' /\ Tried' /\ OneReader' /\ Reading'
  BY <1>1, <1>5, <1>17, Excludes DEF IInv, Blocking
<1> QED BY <1>10, <1>12, <1>13, <1>14, <1>15, <1>16, <1>18 DEF IInv

-----------------------------------------------------------------------------
(* The collector.                                                           *)

LEMMA OnCreatedKeeps ==
  ASSUME IInv, ~crashed, NEW t \in Thread, OnCreated(t)
  PROVE  IInv'
<1> DEFINE h == Home[t]  g == msg[t].obj
<1>1. /\ pc[t] = "onCreated" /\ pc' = [pc EXCEPT ![t] = "flushing"]
      /\ gen' = [gen EXCEPT ![h] = @ + 1]
      /\ gcGen' = [gcGen EXCEPT ![h][g] = gen[h] + 1]
      /\ listed' = [listed EXCEPT ![h] = objs[h][g]]
      /\ objs' = [objs EXCEPT ![h][g] = listed[h]]
      /\ UNCHANGED <<control, origin, made, created, complete, peer, lastMsgGen,
                     held, sent, msg, caller, own, crashed, maybeDead>>
  BY DEF OnCreated, Goto
<1>2. h \in Host /\ Grow /\ g \in Gcs /\ msg[t] # NoMsg /\ ThreadOK(t)
  BY <1>1, RemoteAssumption
     DEF IInv, Threads, ThreadOK, Grow, Carrying, NoMsg, Message, Object
<1>3. /\ gcGen' \in [Host -> [Gcs -> Nat]] /\ gen' \in [Host -> Nat]
      /\ listed' \in [Host -> SUBSET Object] /\ objs' \in [Host -> [Gcs -> SUBSET Object]]
  BY <1>1, <1>2 DEF IInv, Typed
<1>4. /\ pc'[t] = "flushing" /\ msg'[t] = msg[t] /\ Only(t)
  BY <1>1 DEF IInv, Typed, Only
<1>5. Typed'
  BY <1>1, <1>3 DEF IInv, Typed, PCs, Handling
<1>6. ThreadOK(t)'
  BY <1>1, <1>2, <1>4 DEF ThreadOK, Carrying, Empty, Blocking
<1>7. Channels'
  BY <1>1, <1>2, ChannelsStay DEF IInv
<1> QED BY <1>1, <1>2, <1>4, <1>5, <1>6, <1>7, StepsOn DEF Handling

LEMMA NotifyKeeps ==
  ASSUME IInv, Grow, NEW t \in Thread, NEW stage \in Stages,
         msg[t].obj \in Object, msg[t].obj \in made[Home[t]],
         Notify(Home[t], msg[t].obj, stage)
  PROVE  Channels' /\ control' \in [Host -> Seq(Message)]
<1>1. Home[t] \in Host /\ msg[t].obj \in made'[Home[t]]
  BY RemoteAssumption DEF Grow
<1>2. PICK m \in Message : /\ Send(Home[t], m) /\ m.obj = msg[t].obj /\ m.type = "NOTIFY"
                           /\ m.dst = (msg[t].obj \in peer[Home[t]])
  BY <1>1, Notified DEF IInv
<1> QED BY <1>1, <1>2, Posts

LEMMA FlushMsgsKeeps ==
  ASSUME IInv, ~crashed, NEW t \in Thread, FlushMsgs(t)
  PROVE  IInv'
<1> DEFINE h == Home[t]  g == msg[t].obj
<1>1. /\ pc[t] = "flushing"
      /\ pc' = [pc EXCEPT ![t] = IF msg[t].type = "CREATE" THEN "adding" ELSE "dispatch"]
      /\ Notify(h, g, "FLUSH_MSGS")
      /\ UNCHANGED <<origin, gen, objects, sent, msg, caller, own, crashed, gcVars>>
  BY DEF FlushMsgs, Goto
<1>2. /\ h \in Host /\ Grow /\ g \in Object /\ msg[t] # NoMsg /\ msg[t] \in Message
      /\ ThreadOK(t) /\ g \in made[h]
  BY <1>1, RemoteAssumption
     DEF IInv, Threads, ThreadOK, Grow, Carrying, NoMsg, Message, Handled, objects
<1>3. Channels' /\ control' \in [Host -> Seq(Message)]
  BY <1>1, <1>2, NotifyKeeps DEF Stages
<1>4. /\ pc'[t] = (IF msg[t].type = "CREATE" THEN "adding" ELSE "dispatch")
      /\ msg'[t] = msg[t] /\ Only(t)
  BY <1>1 DEF IInv, Typed, Only
<1>5. Typed'
  BY <1>1, <1>3 DEF IInv, Typed, PCs, Handling, objects, gcVars
<1>6. ThreadOK(t)'
  BY <1>1, <1>2, <1>4 DEF ThreadOK, Carrying, Empty, Blocking
<1> QED BY <1>1, <1>2, <1>3, <1>4, <1>5, <1>6, StepsOn DEF Handling, objects

LEMMA SendListKeeps ==
  ASSUME IInv, ~crashed, NEW t \in Thread, SendList(t)
  PROVE  IInv'
<1> DEFINE h == Home[t]  g == msg[t].obj
<1>1. /\ pc[t] = "listing" /\ pc' = [pc EXCEPT ![t] = "done"]
      /\ SendFrom(h, [From(h, g, "DATA") EXCEPT !.list = msg[t].list])
      /\ UNCHANGED <<origin, gen, made, created, complete, peer, listed, held,
                     sent, msg, caller, own, crashed, gcVars>>
  BY DEF SendList, Goto
<1>2. /\ h \in Host /\ Grow /\ g \in Object /\ msg[t] # NoMsg /\ msg[t] \in Message
      /\ ThreadOK(t) /\ g \in made'[h] /\ msg[t].list \in SUBSET Object
  BY <1>1, RemoteAssumption
     DEF IInv, Threads, ThreadOK, Grow, Carrying, NoMsg, Message, Handled
<1>3. "ABSENT" \in Stages /\ {} \in SUBSET Object
  BY DEF Stages
<1>4. /\ From(h, g, "DATA") \in Message /\ From(h, g, "DATA").obj = g
      /\ From(h, g, "DATA").type = "DATA" /\ From(h, g, "DATA").dst = (g \in peer[h])
  BY <1>2, <1>3 DEF From, Message
<1>5. PICK m : m = From(h, g, "DATA")
  OBVIOUS
<1>6. PICK n : n = [m EXCEPT !.list = msg[t].list]
  OBVIOUS
<1>7. n \in Message /\ n.obj = g /\ n.type = "DATA" /\ n.dst = (g \in peer[h])
  BY <1>2, <1>4, <1>5, <1>6 DEF Message
<1>8. Send(h, n) /\ Touch(h, g)
  BY <1>1, <1>5, <1>6, <1>7 DEF SendFrom
<1>9. Channels' /\ control' \in [Host -> Seq(Message)] /\ lastMsgGen' \in [Host -> [Object -> Nat]]
  BY <1>2, <1>7, <1>8, Posts, Touches
<1>10. /\ pc'[t] = "done" /\ msg'[t] = msg[t] /\ Only(t)
  BY <1>1 DEF IInv, Typed, Only
<1>11. Typed'
  BY <1>1, <1>9 DEF IInv, Typed, PCs, gcVars
<1>12. ThreadOK(t)'
  BY <1>1, <1>2, <1>10 DEF ThreadOK, Carrying, Empty, Blocking
<1> QED BY <1>1, <1>2, <1>9, <1>10, <1>11, <1>12, StepsOn DEF Handling

\* The switch: whatever the case, only objects of the collector complete.
LEMMA GcDispatchKeeps ==
  ASSUME IInv, ~crashed, NEW t \in Thread, GcDispatch(t)
  PROVE  IInv'
<1> DEFINE h == Home[t]  g == msg[t].obj
<1>1. /\ pc[t] = "dispatch" /\ g \in Gcs
      /\ UNCHANGED <<origin, gen, sent, caller, own, crashed>>
  BY DEF GcDispatch
<1>2. /\ h \in Host /\ g \in Object /\ msg[t] # NoMsg /\ msg[t] \in Message
      /\ ThreadOK(t) /\ g \in made[h]
  BY <1>1, RemoteAssumption
     DEF IInv, Threads, ThreadOK, Carrying, NoMsg, Message, Handled
<1>3. /\ pc' = [pc EXCEPT ![t] = pc'[t]] /\ pc'[t] \in {"listing", "done"}
      /\ UNCHANGED <<made, created, peer, lastMsgGen, held, gcGen>>
      /\ complete' = complete \/ complete' = Add(complete, h, g)
  BY DEF GcDispatch, Goto, OnNotifyFlush, OnNotifyScan, OnNotifyAbort, OnRecv, OnAck,
         Finishup, objects, gcVars, IInv, Typed
<1>4. \/ control' = control
      \/ \E stage \in Stages : Notify(h, g, stage)
  BY DEF GcDispatch, OnNotifyFlush, OnNotifyScan, OnNotifyAbort, OnRecv, OnAck, Stages
<1>5. Unused(h, g) \in SUBSET Object /\ Kept(h, g) \in SUBSET Object
  BY <1>1, <1>2 DEF Unused, Kept, IInv, Typed
<1>6. msg' = msg \/ msg' = [msg EXCEPT ![t].list = Unused(h, g)]
  BY DEF GcDispatch, OnNotifyFlush, OnNotifyScan, OnNotifyAbort, OnRecv, OnAck
<1>7. \/ UNCHANGED <<listed, objs, maybeDead>>
      \/ /\ objs' = [objs EXCEPT ![h][g] = @ \ Unused(h, g)]
         /\ maybeDead' = [maybeDead EXCEPT ![h][g] = @ \union Unused(h, g)]
         /\ listed' = listed
      \/ \E rest \in SUBSET Object : Finishup(h, g, rest)
  <2>1. CASE OnNotifyFlush(t) \/ OnAck(t)
    BY <2>1 DEF OnNotifyFlush, OnAck, objects, gcVars
  <2>2. CASE OnNotifyScan(t)
    BY <1>5, <2>2 DEF OnNotifyScan, objects
  <2>3. CASE OnNotifyAbort(t)
    BY <1>5, <2>3 DEF OnNotifyAbort
  <2>4. CASE OnRecv(t)
    <3>1. objs[h][g] \union (maybeDead[h][g] \ msg[t].list) \in SUBSET Object
      BY <1>1, <1>2 DEF IInv, Typed
    <3> QED BY <2>4, <3>1 DEF OnRecv
  <2> QED BY <2>1, <2>2, <2>3, <2>4 DEF GcDispatch
<1>8. Grow
  BY <1>1, <1>3 DEF Grow
<1>9. Channels' /\ control' \in [Host -> Seq(Message)]
  <2>1. CASE control' = control
    BY <1>8, <2>1, ChannelsStay DEF IInv, Typed
  <2>2. CASE \E stage \in Stages : Notify(h, g, stage)
    BY <1>2, <1>8, <2>2, NotifyKeeps
  <2> QED BY <1>4, <2>1, <2>2
<1>10. /\ msg' \in [Thread -> Message \union {NoMsg}] /\ msg'[t] \in Message
       /\ \A u \in Thread \ {t} : msg'[u] = msg[u]
       /\ msg'[t].obj = g /\ msg'[t].type = msg[t].type
       /\ msg'[t].src = msg[t].src /\ msg'[t].dst = msg[t].dst
  <2>1. CASE msg' = msg
    BY <1>2, <2>1 DEF IInv, Typed
  <2>2. CASE msg' = [msg EXCEPT ![t].list = Unused(h, g)]
    <3>1. PICK m \in Message : m = msg[t]
      BY <1>2
    <3>2. PICK n : n = [m EXCEPT !.list = Unused(h, g)]
      OBVIOUS
    <3>3. n \in Message /\ n.obj = m.obj /\ n.type = m.type /\ n.src = m.src /\ n.dst = m.dst
      BY <1>5, <3>2 DEF Message
    <3>4. msg' = [msg EXCEPT ![t] = n]
      BY <2>2, <3>1, <3>2
    <3> QED BY <3>1, <3>3, <3>4 DEF IInv, Typed
  <2> QED BY <1>6, <2>1, <2>2
<1>11. /\ listed' \in [Host -> SUBSET Object] /\ objs' \in [Host -> [Gcs -> SUBSET Object]]
       /\ maybeDead' \in [Host -> [Gcs -> SUBSET Object]]
  <2>1. CASE UNCHANGED <<listed, objs, maybeDead>>
    BY <2>1 DEF IInv, Typed
  <2>2. CASE /\ objs' = [objs EXCEPT ![h][g] = @ \ Unused(h, g)]
             /\ maybeDead' = [maybeDead EXCEPT ![h][g] = @ \union Unused(h, g)]
             /\ listed' = listed
    <3>1. objs[h] \in [Gcs -> SUBSET Object] /\ maybeDead[h] \in [Gcs -> SUBSET Object]
      BY <1>2 DEF IInv, Typed
    <3>2. /\ [objs[h] EXCEPT ![g] = @ \ Unused(h, g)] \in [Gcs -> SUBSET Object]
          /\ [maybeDead[h] EXCEPT ![g] = @ \union Unused(h, g)] \in [Gcs -> SUBSET Object]
      BY <1>1, <1>5, <3>1
    <3> QED BY <1>2, <2>2, <3>2 DEF IInv, Typed
  <2>3. CASE \E rest \in SUBSET Object : Finishup(h, g, rest)
    <3>1. PICK rest \in SUBSET Object : Finishup(h, g, rest)
      BY <2>3
    <3>2. listed' \in [Host -> SUBSET Object]
      BY <1>2, <3>1 DEF IInv, Typed, Finishup
    <3>3. {} \in SUBSET Object /\ objs[h] \in [Gcs -> SUBSET Object]
          /\ maybeDead[h] \in [Gcs -> SUBSET Object]
      BY <1>2 DEF IInv, Typed
    <3>4. objs' \in [Host -> [Gcs -> SUBSET Object]]
      BY <1>1, <1>2, <3>1, <3>3 DEF IInv, Typed, Finishup
    <3>5. maybeDead' \in [Host -> [Gcs -> SUBSET Object]]
      BY <1>1, <1>2, <3>1, <3>3 DEF IInv, Typed, Finishup
    <3> QED BY <3>2, <3>4, <3>5
  <2> QED BY <1>7, <2>1, <2>2, <2>3
<1>12. /\ complete' \in [Host -> SUBSET Object]
       /\ \A k \in Host : complete'[k] \subseteq complete[k] \union Gcs
  <2>1. CASE complete' = complete
    BY <2>1 DEF IInv, Typed
  <2>2. CASE complete' = Add(complete, h, g)
    BY <1>1, <1>2, <2>2 DEF IInv, Typed, Add
  <2> QED BY <1>3, <2>1, <2>2
<1>13. pc' \in [Thread -> PCs] /\ \A u \in Thread \ {t} : pc'[u] = pc[u]
  BY <1>3 DEF IInv, Typed, PCs
<1>14. Typed' /\ Only(t)
  BY <1>1, <1>3, <1>9, <1>10, <1>11, <1>12, <1>13 DEF IInv, Typed, Only
<1>15. ThreadOK(t)'
  BY <1>1, <1>2, <1>3, <1>10 DEF ThreadOK, Carrying, Empty, Blocking
<1>16. ASSUME NEW u \in Thread \ {t}, pc[u] \in {"try", "reading"},
              caller[u] \notin complete[Home[u]]
       PROVE  caller[u] \notin complete'[Home[u]]
  <2>1. caller[u] \in App /\ Home[u] \in Host
    BY <1>16, Callers, RemoteAssumption DEF Blocking, IInv
  <2> QED BY <1>12, <1>16, <2>1, RemoteAssumption
<1> QED BY <1>1, <1>2, <1>3, <1>8, <1>9, <1>10, <1>14, <1>15, <1>16, StepsOn DEF Handling

-----------------------------------------------------------------------------
(* Theorems.                                                                *)

LEMMA Initial ==
  ASSUME Init
  PROVE  IInv
<1> USE DEF Init, RemoteHostInit, NoMsg
<1>1. << >> \in Seq(Message) /\ Len(<< >>) = 0
  OBVIOUS
<1>2. origin \in [Object -> Host]
  BY RemoteAssumption
<1>3. Typed
  BY <1>1, <1>2 DEF Typed, PCs
<1>4. Threads /\ InHand
  BY DEF Threads, ThreadOK, InHand, Sound, Carrying, Empty, Blocking
<1>5. Channels
  BY <1>1 DEF Channels
<1>6. Endpoints /\ Handled /\ Locks /\ Tried /\ OneReader /\ Reading
  BY TwoHosts DEF Endpoints, Handled, Locks, LockedOut, Tried, OneReader, Reading
<1> QED BY <1>3, <1>4, <1>5, <1>6 DEF IInv

LEMMA Stuttering ==
  ASSUME IInv, UNCHANGED vars
  PROVE  IInv'
BY DEF IInv, vars, hostVars, objects, threads, gcVars, Typed, Threads, ThreadOK, Channels,
       Sound, InHand, Endpoints, Handled, Locks, LockedOut, Tried, OneReader, Reading

\* In every reachable state messages carry addresses of constructed endpoints, and
\* the locks of recv, waitMsgMu and readAll exclude each other.
THEOREM Invariance == Spec => []IInv
<1>1. Init => IInv
  BY Initial
<1>2. IInv /\ [Next]_vars => IInv'
  <2> SUFFICES ASSUME IInv, [Next]_vars PROVE IInv'
    OBVIOUS
  <2>1. CASE UNCHANGED vars
    BY <2>1, Stuttering
  <2>2. CASE Next
    <3>1. ~crashed
      BY <2>2, Steps
    <3>2. PICK t \in Thread :
            \/ /\ UNCHANGED gcVars
               /\ \/ ListenerRecv(t) \/ CallerRecv(t) \/ Lock(t) \/ Make(t)
                  \/ Acknowledge(t) \/ AddObject(t) \/ Spawn(t) \/ Dispatch(t)
                  \/ Reply(t) \/ Finish(t)
                  \/ MarkCompleteMu(t) \/ Check(t) \/ TryRecv(t) \/ Spin(t)
                  \/ Relock(t)
                  \/ \E o \in App : \/ Create(t, o) \/ SendData(t, o)
                                    \/ MarkComplete(t, o) \/ Release(t, o)
                                    \/ WaitUntilComplete(t, o)
            \/ OnCreated(t) \/ FlushMsgs(t) \/ GcDispatch(t) \/ SendList(t)
      BY <2>2, Steps
    <3>3. CASE UNCHANGED gcVars /\ \E o \in App :
                 \/ Create(t, o) \/ SendData(t, o) \/ MarkComplete(t, o)
                 \/ Release(t, o) \/ WaitUntilComplete(t, o)
      BY <3>1, <3>3, CreateKeeps, SendDataKeeps, MarkCompleteKeeps, ReleaseKeeps,
         WaitUntilCompleteKeeps
    <3>4. CASE /\ UNCHANGED gcVars
               /\ \/ MarkCompleteMu(t) \/ Check(t) \/ TryRecv(t) \/ Spin(t) \/ Relock(t)
      BY <3>1, <3>4, MarkCompleteMuKeeps, CheckKeeps, TryRecvKeeps, SpinKeeps, RelockKeeps
    <3>5. CASE /\ UNCHANGED gcVars
               /\ \/ ListenerRecv(t) \/ CallerRecv(t) \/ Lock(t) \/ Make(t)
                  \/ Acknowledge(t) \/ AddObject(t) \/ Spawn(t) \/ Dispatch(t)
                  \/ Reply(t) \/ Finish(t)
      BY <3>1, <3>5, ListenerRecvKeeps, CallerRecvKeeps, LockKeeps, MakeKeeps,
         AcknowledgeKeeps, AddObjectKeeps, SpawnKeeps, DispatchKeeps, ReplyKeeps, FinishKeeps
    <3>6. CASE OnCreated(t) \/ FlushMsgs(t) \/ GcDispatch(t) \/ SendList(t)
      BY <3>1, <3>6, OnCreatedKeeps, FlushMsgsKeeps, GcDispatchKeeps, SendListKeeps
    <3> QED BY <3>2, <3>3, <3>4, <3>5, <3>6
  <2> QED BY <2>1, <2>2
<1> QED BY <1>1, <1>2, PTL DEF Spec

\* The variables of the hosts, the channels and the collector keep their types.
THEOREM TypeCorrect == Spec => []TypeOK
<1>1. IInv => TypeOK
  BY DEF IInv, Typed, TypeOK
<1> QED BY <1>1, Invariance, PTL

\* A user that recv(caller) sends into readAll, where it holds _controlReadmu until
\* a message comes, waits for an object that is not complete and of which no message
\* was read and is still to be handled.
THEOREM BlocksForAReason == Spec => []BlockedForAReason
<1>1. IInv => BlockedForAReason
  BY DEF IInv, Reading, BlockedForAReason, Pending, At, Thread
<1> QED BY <1>1, Invariance, PTL

-----------------------------------------------------------------------------
(***************************************************************************)
(* The proof that a collection deletes no endpoint that is still needed,   *)
(* for any number of users, listeners and objects.                         *)
(*                                                                         *)
(* maybeDeletable finds an object unused since the swap of its host, which *)
(* says nothing of messages that were sent before.  Those are pushed out:  *)
(* a FLUSH_MSGS follows the sender's swap and a DO_SCAN follows both swaps *)
(* (Order), so what is behind them in a channel was sent by a host that    *)
(* has used the object since (Pushing).  When a host offers an object, it  *)
(* is therefore silent at that end, or the other end has used it since its *)
(* swap and will not offer it; when both ends have offered it, no message, *)
(* handler or user has anything to do with it (Offering, Dead).  Such an   *)
(* object can not come back, and nothing else leaves the lists (Tracked).  *)
(* The rest of CInv says why a host is asked to make an endpoint once, and *)
(* why the handlers of one object exclude each other.                      *)
(***************************************************************************)

\* The two notifications that push older messages out of a channel.
Flush(m, g) == m.type = "NOTIFY" /\ m.obj = g /\ m.stage = "FLUSH_MSGS"
Scan(m, g) == m.type = "NOTIFY" /\ m.obj = g /\ m.stage = "DO_SCAN"
Mark(m, g) == Flush(m, g) \/ Scan(m, g)
Offers(m, g, o) == m.type = "DATA" /\ m.obj = g /\ o \in m.list

\* o was used at h since the swap of g, if that was made.
UsedSince(h, g, o) == lastMsgGen[h][o] >= gcGen[h][g]

\* The endpoint of g at h has taken the list of its host.
Swapped(h, g) ==
  /\ g \in created[h]
  /\ \A t \in At(h) : pc[t] \in {"acking", "onCreated"} => msg[t].obj # g

\* h has offered o, or will, or its answer is still on its way.
Offered(h, g, o) ==
  \/ o \in maybeDead[h][g]
  \/ \E t \in At(h) : pc[t] = "listing" /\ msg[t].obj = g /\ o \in msg[t].list
  \/ \E i \in 1..Len(control[Other(h)]) : Offers(control[Other(h)][i], g, o)
  \/ \E t \in At(Other(h)) : Offers(msg[t], g, o)

\* No message about o is in a channel, and nobody at h has anything to do with it.
Silent(h, o) ==
  /\ o \notin held[h]
  /\ \A k \in Host : \A i \in 1..Len(control[k]) : control[k][i].obj # o
  /\ \A t \in At(h) : msg[t].obj # o /\ own[t] # o
Dead(o) == \A h \in Host : o \in made[h] /\ Silent(h, o)

Generations ==
  \A h \in Host : /\ \A g \in Gcs : gcGen[h][g] <= gen[h]
                  /\ \A o \in Object : lastMsgGen[h][o] <= gen[h]

\* An object lock has one owner, and what is locked was created.
OneHandler ==
  \A t, u \in Thread :
    /\ pc[t] \in Handling /\ pc[u] \in Handling /\ Home[t] = Home[u]
    /\ msg[t] # NoMsg /\ msg[t].obj = msg[u].obj
    => t = u
Locked ==
  \A t \in Thread : pc[t] \in Handling /\ msg[t] # NoMsg => msg[t].obj \in created[Home[t]]
Owns ==
  \A t \in Thread : own[t] # None =>
    /\ pc[t] \in {"acking", "onCreated", "flushing", "adding", "marking"}
    /\ pc[t] \in {"onCreated", "flushing"} => msg[t].type = "CREATE"

Kinds ==
  \A t \in Thread : /\ pc[t] = "replying" => msg[t].obj \in App
                    /\ pc[t] = "flushing" => msg[t].obj \in Gcs

\* An object is created once: its CREATE comes to a host that has no endpoint.
Creations ==
  /\ \A h \in Host : \A o \in made[h] : o \in made[origin[o]]
  /\ \A h \in Host : \A i \in 1..Len(control[h]) : control[h][i].type = "CREATE" =>
       /\ control[h][i].obj \notin made[h]
       /\ \A j \in 1..Len(control[h]) :
            control[h][j].type = "CREATE" /\ control[h][j].obj = control[h][i].obj => i = j
       /\ \A t \in At(h) : pc[t] = "making" => msg[t].obj # control[h][i].obj
  /\ \A t \in Thread : pc[t] = "making" =>
       /\ msg[t].obj \notin made[Home[t]]
       /\ \A u \in Thread : pc[u] = "making" /\ Home[u] = Home[t] /\ msg[u].obj = msg[t].obj
            => u = t
CreatedOnce == crashed \/ Creations

\* The notifications of a collection follow its swaps ...
Ordered(h, m) ==
  /\ m.stage # "ABSENT" => m.type = "NOTIFY"
  /\ \A g \in Gcs : /\ Mark(m, g) => Swapped(Other(h), g)
                    /\ Scan(m, g) => Swapped(h, g)
Order ==
  /\ \A h \in Host : \A i \in 1..Len(control[h]) : Ordered(h, control[h][i])
  /\ \A t \in Thread : Ordered(Home[t], msg[t])

\* ... and what follows them in a channel was sent by a host that uses it.
Pushed(h, g, i) ==
  \A j \in i..Len(control[h]) : control[h][j].obj \in App =>
    UsedSince(Other(h), g, control[h][j].obj)
Pushing ==
  \A g \in Gcs : \A h \in Host :
    /\ \A i \in 1..Len(control[h]) : Mark(control[h][i], g) => Pushed(h, g, i)
    /\ \A t \in At(h) : Mark(msg[t], g) => Pushed(h, g, 1)
    /\ \/ \E i \in 1..Len(control[h]) : Scan(control[h][i], g)
       \/ \E t \in At(h) : Scan(msg[t], g)
       => Pushed(Other(h), g, 1)

\* An object that was offered is silent at that end, or the other end has used
\* it and keeps it; what both ends have offered is dead.
Offering ==
  \A h \in Host : \A g \in Gcs : \A o \in App : Offered(h, g, o) =>
    /\ Swapped(h, g) /\ Swapped(Other(h), g) /\ o \in made[h]
    /\ UsedSince(Other(h), g, o) \/ Silent(h, o)
    /\ Offered(Other(h), g, o) => Dead(o)

\* An endpoint is in a list of its host, or about to be; or its object is dead.
InLists(h, o) == o \in listed[h] \/ \E g \in Gcs : o \in objs[h][g] \union maybeDead[h][g]
Tracked ==
  \A h \in Host : \A o \in made[h] \intersect App :
    InLists(h, o) \/ (\E t \in At(h) : own[t] = o /\ pc[t] # "marking") \/ Dead(o)

CInv == /\ Generations /\ OneHandler /\ Locked /\ Owns /\ Kinds /\ CreatedOnce /\ Order
        /\ Pushing /\ Offering /\ Tracked

-----------------------------------------------------------------------------
(* What a step preserves, conjunct by conjunct.                             *)

\* What does not go back in a step of t: endpoints, swaps and uses.
Steady(t) ==
  /\ Only(t) /\ Grow
  /\ \A h \in Host : created[h] \subseteq created'[h]
  /\ \A h \in Host : \A g \in Gcs : Swapped(h, g) =>
       /\ Swapped(h, g)'
       /\ \A o \in App : UsedSince(h, g, o) => UsedSince(h, g, o)'

LEMMA Keeping ==
  ASSUME CInv, NEW t \in Thread, Only(t), Grow,
         \A h \in Host : created[h] \subseteq created'[h],
         pc'[t] \in {"acking", "onCreated"} =>
           \/ pc[t] \in {"acking", "onCreated"} /\ msg'[t].obj = msg[t].obj
           \/ msg'[t].obj \notin created[Home[t]],
         lastMsgGen' = lastMsgGen
           \/ \E h \in Host : \E o \in Object : Touch(h, o),
         gcGen' = gcGen, IInv
  PROVE  Steady(t)
<1>1. \A h \in Host : \A g \in Gcs : Swapped(h, g) => Swapped(h, g)'
  <2> SUFFICES ASSUME NEW h \in Host, NEW g \in Gcs, Swapped(h, g) PROVE Swapped(h, g)'
    OBVIOUS
  <2>1. g \in created'[h]
    BY DEF Swapped
  <2>2. ASSUME NEW u \in At(h), pc'[u] \in {"acking", "onCreated"} PROVE msg'[u].obj # g
    BY <2>2 DEF Swapped, At, Only
  <2> QED BY <2>1, <2>2 DEF Swapped, At
<1>2. \A h \in Host : \A o \in Object : lastMsgGen'[h][o] >= lastMsgGen[h][o]
  <2>1. CASE lastMsgGen' = lastMsgGen
    BY <2>1 DEF IInv, Typed
  <2>2. CASE \E h \in Host : \E o \in Object : Touch(h, o)
    BY <2>2 DEF IInv, Typed, Touch, CInv, Generations
  <2> QED BY <2>1, <2>2
<1>3. \A h \in Host : \A g \in Gcs : \A o \in App : UsedSince(h, g, o) => UsedSince(h, g, o)'
  <2> SUFFICES ASSUME NEW h \in Host, NEW g \in Gcs, NEW o \in App, UsedSince(h, g, o)
               PROVE  UsedSince(h, g, o)'
    OBVIOUS
  <2>1. /\ o \in Object /\ lastMsgGen[h][o] \in Nat /\ gcGen[h][g] \in Nat
        /\ lastMsgGen'[h][o] >= lastMsgGen[h][o] /\ lastMsgGen[h][o] >= gcGen[h][g]
    BY <1>2 DEF Object, IInv, Typed, UsedSince
  <2>2. lastMsgGen'[h][o] \in Nat
    <3>1. CASE lastMsgGen' = lastMsgGen
      BY <2>1, <3>1
    <3>2. CASE \E k \in Host : \E p \in Object : Touch(k, p)
      BY <2>1, <3>2 DEF IInv, Typed, Touch
    <3> QED BY <3>1, <3>2
  <2> QED BY <2>1, <2>2 DEF UsedSince
<1> QED BY <1>1, <1>3 DEF Steady

LEMMA GenerationsStay ==
  ASSUME IInv, CInv, UNCHANGED <<gen, gcGen>>,
         lastMsgGen' = lastMsgGen \/ \E h \in Host : \E o \in Object : Touch(h, o)
  PROVE  Generations'
<1>1. CASE lastMsgGen' = lastMsgGen
  BY <1>1 DEF CInv, Generations
<1>2. CASE \E h \in Host : \E o \in Object : Touch(h, o)
  BY <1>2 DEF CInv, Generations, Touch, IInv, Typed
<1> QED BY <1>1, <1>2

LEMMA HandlersStay ==
  ASSUME IInv, CInv, NEW t \in Thread, Only(t),
         \A h \in Host : created[h] \subseteq created'[h],
         pc'[t] \in Handling /\ msg'[t] # NoMsg =>
           \/ pc[t] \in Handling /\ msg[t] # NoMsg /\ msg'[t].obj = msg[t].obj
           \/ /\ msg'[t].obj \in created'[Home[t]]
              /\ \A u \in Thread \ {t} : pc[u] \in Handling /\ Home[u] = Home[t]
                   => msg[u].obj # msg'[t].obj,
         own'[t] # None =>
           /\ pc'[t] \in {"acking", "onCreated", "flushing", "adding", "marking"}
           /\ pc'[t] \in {"onCreated", "flushing"} => msg'[t].type = "CREATE"
  PROVE  OneHandler' /\ Locked' /\ Owns'
<1>1. OneHandler'
  <2> SUFFICES ASSUME NEW u \in Thread, NEW v \in Thread,
                      pc'[u] \in Handling, pc'[v] \in Handling, Home[u] = Home[v],
                      msg'[u] # NoMsg, msg'[u].obj = msg'[v].obj
               PROVE  u = v
    BY DEF OneHandler
  <2>1. ASSUME NEW p \in Thread, NEW q \in Thread, pc[p] \in Handling, pc[q] \in Handling,
               Home[p] = Home[q], msg[p] # NoMsg \/ msg[q] # NoMsg, msg[p].obj = msg[q].obj
        PROVE  p = q
    BY <2>1 DEF CInv, OneHandler
  <2>2. \A w \in Thread : msg[w] # NoMsg => msg[w].obj # None
    BY RemoteAssumption DEF Message, IInv, Typed
  <2>3. CASE u # t /\ v # t
    BY <2>1, <2>3 DEF Only
  <2>4. CASE u = t /\ v # t
    BY <2>1, <2>4 DEF Only
  <2>5. CASE u # t /\ v = t
    <3>1. msg'[u] = msg[u] /\ pc[u] \in Handling /\ msg[u] # NoMsg /\ msg[u].obj # None
      BY <2>2, <2>5 DEF Only
    <3>2. msg'[t] # NoMsg /\ msg'[t].obj = msg[u].obj /\ pc'[t] \in Handling
      BY <2>5, <3>1 DEF NoMsg
    <3>3. pc[t] \in Handling /\ msg[t] # NoMsg /\ msg'[t].obj = msg[t].obj
      BY <2>5, <3>1, <3>2
    <3> QED BY <2>1, <2>5, <3>1, <3>2, <3>3
  <2> QED BY <2>3, <2>4, <2>5
<1>2. Locked'
  <2> SUFFICES ASSUME NEW u \in Thread, pc'[u] \in Handling, msg'[u] # NoMsg
               PROVE  msg'[u].obj \in created'[Home[u]]
    BY DEF Locked
  <2>1. created[Home[u]] \subseteq created'[Home[u]]
    BY RemoteAssumption
  <2>2. CASE u = t
    BY <2>1, <2>2 DEF CInv, Locked
  <2>3. CASE u # t
    BY <2>1, <2>3 DEF CInv, Locked, Only
  <2> QED BY <2>2, <2>3
<1>3. Owns'
  BY DEF CInv, Owns, Only
<1> QED BY <1>1, <1>2, <1>3


-----------------------------------------------------------------------------
(* Channels: a message is appended, or read.                                *)

LEMMA Sending ==
  ASSUME IInv, NEW h \in Host, NEW m \in Message, Send(h, m)
  PROVE  /\ Len(control[Other(h)]) \in Nat /\ control'[h] = control[h]
         /\ Len(control'[Other(h)]) = Len(control[Other(h)]) + 1
         /\ \A i \in 1..Len(control[Other(h)]) : control'[Other(h)][i] = control[Other(h)][i]
         /\ control'[Other(h)][Len(control[Other(h)]) + 1] = m
         /\ \A i \in 1..Len(control'[Other(h)]) :
              i \in 1..Len(control[Other(h)]) \/ i = Len(control[Other(h)]) + 1
         /\ \A k \in Host : k = h \/ k = Other(h)
<1>1. /\ Other(h) \in Host /\ Other(h) # h
      /\ control[Other(h)] \in Seq(Message)
      /\ control' = [control EXCEPT ![Other(h)] = Append(control[Other(h)], m)]
  BY TwoHosts DEF IInv, Typed, Send
<1>2. /\ control'[Other(h)] = Append(control[Other(h)], m) /\ control'[h] = control[h]
  BY <1>1 DEF IInv, Typed
<1>3. /\ Len(Append(control[Other(h)], m)) = Len(control[Other(h)]) + 1
      /\ \A i \in 1..Len(control[Other(h)]) :
           Append(control[Other(h)], m)[i] = control[Other(h)][i]
      /\ Append(control[Other(h)], m)[Len(control[Other(h)]) + 1] = m
      /\ Len(control[Other(h)]) \in Nat
  BY <1>1, AppendProperties, LenProperties
<1>4. \A k \in Host : k = h \/ k = Other(h)
  BY TwoHosts DEF Other
<1> QED BY <1>2, <1>3, <1>4

LEMMA Receiving ==
  ASSUME IInv, NEW t \in Thread, Read(t)
  PROVE  /\ Home[t] \in Host /\ Len(control[Home[t]]) \in Nat /\ 1 \in 1..Len(control[Home[t]])
         /\ Len(control'[Home[t]]) = Len(control[Home[t]]) - 1
         /\ \A i \in 1..Len(control'[Home[t]]) :
              i + 1 \in 1..Len(control[Home[t]])
              /\ control'[Home[t]][i] = control[Home[t]][i + 1]
         /\ \A k \in Host \ {Home[t]} : control'[k] = control[k]
         /\ msg'[t] = control[Home[t]][1] /\ msg'[t] \in Message
         /\ pc'[t] = (IF msg'[t].dst THEN "locking" ELSE "making")
         /\ Only(t)
<1> DEFINE h == Home[t]
<1>1. /\ h \in Host /\ control[h] # << >> /\ control[h] \in Seq(Message)
      /\ control' = [control EXCEPT ![h] = Tail(control[h])]
      /\ msg' = [msg EXCEPT ![t] = Head(control[h])]
      /\ pc' = [pc EXCEPT ![t] = IF Head(control[h]).dst THEN "locking" ELSE "making"]
      /\ UNCHANGED <<caller, own>>
  BY RemoteAssumption DEF IInv, Typed, Read, Goto
<1>2. /\ Head(control[h]) \in Message /\ Tail(control[h]) \in Seq(Message)
      /\ Len(Tail(control[h])) = Len(control[h]) - 1 /\ Len(control[h]) \in Nat
      /\ \A i \in 1..Len(Tail(control[h])) : Tail(control[h])[i] = control[h][i + 1]
      /\ Head(control[h]) = control[h][1]
      /\ 1 \in 1..Len(control[h])
  BY <1>1, HeadTailProperties, LenProperties, EmptySeq
<1>3. /\ control'[h] = Tail(control[h]) /\ \A k \in Host \ {h} : control'[k] = control[k]
      /\ msg'[t] = Head(control[h]) /\ Only(t)
      /\ pc'[t] = IF Head(control[h]).dst THEN "locking" ELSE "making"
  BY <1>1 DEF IInv, Typed, Only
<1>4. \A i \in 1..Len(control'[h]) : i + 1 \in 1..Len(control[h])
  BY <1>2, <1>3
<1> QED BY <1>1, <1>2, <1>3, <1>4

-----------------------------------------------------------------------------
(* The collector's notifications.                                           *)

LEMMA OrderedStays ==
  ASSUME \A h \in Host : \A g \in Gcs : Swapped(h, g) => Swapped(h, g)',
         NEW h \in Host, NEW m, Ordered(h, m)
  PROVE  Ordered(h, m)'
BY TwoHosts DEF Ordered, Mark, Flush, Scan

LEMMA OrderStays ==
  ASSUME IInv, CInv, NEW t \in Thread, Only(t),
         \A h \in Host : \A g \in Gcs : Swapped(h, g) => Swapped(h, g)',
         \A h \in Host : \A i \in 1..Len(control'[h]) :
           \/ \E j \in 1..Len(control[h]) : control'[h][i] = control[h][j]
           \/ Ordered(h, control[h][i])',
         Ordered(Home[t], msg[t])'
  PROVE  Order'
<1>1. ASSUME NEW h \in Host, NEW i \in 1..Len(control'[h]) PROVE Ordered(h, control[h][i])'
  <2>1. CASE \E j \in 1..Len(control[h]) : control'[h][i] = control[h][j]
    <3>1. PICK j \in 1..Len(control[h]) : control'[h][i] = control[h][j]
      BY <2>1
    <3>2. PICK m : m = control[h][j]
      OBVIOUS
    <3>3. Ordered(h, m)'
      BY <3>2, OrderedStays DEF CInv, Order
    <3> QED BY <3>1, <3>2, <3>3 DEF Ordered, Mark, Flush, Scan
  <2> QED BY <1>1, <2>1
<1>2. ASSUME NEW u \in Thread PROVE Ordered(Home[u], msg[u])'
  <2>1. CASE u = t
    BY <2>1
  <2>2. CASE u # t
    <3>1. PICK m : m = msg[u]
      OBVIOUS
    <3>2. Home[u] \in Host /\ Ordered(Home[u], m) /\ msg'[u] = m
      BY <2>2, <3>1, RemoteAssumption DEF CInv, Order, Only
    <3>3. Ordered(Home[u], m)'
      BY <3>2, OrderedStays
    <3> QED BY <3>2, <3>3 DEF Ordered, Mark, Flush, Scan
  <2> QED BY <2>1, <2>2
<1> QED BY <1>1, <1>2 DEF Order

\* What a thread has in hand is no new notification.
Nothing(t) == \A g \in Gcs : /\ Flush(msg'[t], g) => Flush(msg[t], g)
                             /\ Scan(msg'[t], g) => Scan(msg[t], g)

LEMMA PushedStays ==
  ASSUME NEW t, Steady(t), NEW h \in Host, NEW g \in Gcs, Swapped(Other(h), g),
         control'[h] = control[h], NEW i, Pushed(h, g, i)
  PROVE  Pushed(h, g, i)'
BY TwoHosts DEF Pushed, Steady

LEMMA PushSame ==
  ASSUME IInv, CInv, NEW t \in Thread, Steady(t), control' = control, Nothing(t)
  PROVE  Pushing'
<1> SUFFICES ASSUME NEW g \in Gcs, NEW h \in Host
             PROVE  /\ \A i \in 1..Len(control[h]) : Mark(control[h][i], g) => Pushed(h, g, i)'
                    /\ \A u \in At(h) : Mark(msg'[u], g) => Pushed(h, g, 1)'
                    /\ \/ \E i \in 1..Len(control[h]) : Scan(control[h][i], g)
                       \/ \E u \in At(h) : Scan(msg'[u], g)
                       => Pushed(Other(h), g, 1)'
  BY DEF Pushing, Mark, Flush, Scan, At
<1>1. Other(h) \in Host /\ Other(Other(h)) = h
  BY TwoHosts
<1>2. \A u \in At(h) : /\ Mark(msg'[u], g) => Mark(msg[u], g)
                       /\ Scan(msg'[u], g) => Scan(msg[u], g)
  BY DEF Nothing, Mark, Steady, Only, At
<1>3. ASSUME NEW i \in 1..Len(control[h]), Mark(control[h][i], g) PROVE Pushed(h, g, i)'
  <2>1. Swapped(Other(h), g) /\ Pushed(h, g, i)
    BY <1>3 DEF CInv, Order, Ordered, Pushing
  <2> QED BY <2>1, PushedStays
<1>4. ASSUME NEW u \in At(h), Mark(msg'[u], g) PROVE Pushed(h, g, 1)'
  <2>1. Swapped(Other(h), g) /\ Pushed(h, g, 1)
    BY <1>2, <1>4 DEF CInv, Order, Ordered, Pushing, At
  <2> QED BY <2>1, PushedStays
<1>5. ASSUME \/ \E i \in 1..Len(control[h]) : Scan(control[h][i], g)
             \/ \E u \in At(h) : Scan(msg'[u], g)
      PROVE  Pushed(Other(h), g, 1)'
  <2>1. \/ \E i \in 1..Len(control[h]) : Scan(control[h][i], g)
        \/ \E u \in At(h) : Scan(msg[u], g)
    BY <1>2, <1>5
  <2>2. Swapped(h, g) /\ Pushed(Other(h), g, 1)
    BY <2>1 DEF CInv, Order, Ordered, Pushing, At
  <2> QED BY <1>1, <2>2, PushedStays
<1> QED BY <1>3, <1>4, <1>5

\* A message that is sent to an object of a user was sent after the swap.
LEMMA PushSend ==
  ASSUME IInv, CInv, NEW t \in Thread, Steady(t), Nothing(t),
         NEW m \in Message, Send(Home[t], m),
         m.obj \in App => \A g \in Gcs : UsedSince(Home[t], g, m.obj)',
         \A g \in Gcs : Scan(m, g) => Flush(msg[t], g)
  PROVE  Pushing'
<1> DEFINE k == Home[t]
<1>1. /\ k \in Host /\ Other(k) \in Host /\ Other(Other(k)) = k /\ Other(k) # k
      /\ Len(control[Other(k)]) \in Nat /\ control'[k] = control[k]
      /\ Len(control'[Other(k)]) = Len(control[Other(k)]) + 1
      /\ \A i \in 1..Len(control[Other(k)]) : control'[Other(k)][i] = control[Other(k)][i]
      /\ control'[Other(k)][Len(control[Other(k)]) + 1] = m
      /\ \A i \in 1..Len(control'[Other(k)]) :
           i \in 1..Len(control[Other(k)]) \/ i = Len(control[Other(k)]) + 1
      /\ \A h \in Host : h = k \/ h = Other(k)
  BY TwoHosts, RemoteAssumption, Sending
<1>2. ASSUME NEW h \in Host, NEW g \in Gcs, Swapped(Other(h), g),
             NEW i \in Nat \ {0}, Pushed(h, g, i)
      PROVE  Pushed(h, g, i)'
  <2>1. CASE h = k
    BY <1>1, <1>2, <2>1, PushedStays
  <2>2. CASE h = Other(k)
    <3> SUFFICES ASSUME NEW j \in i..Len(control'[h]), control'[h][j].obj \in App
                 PROVE  UsedSince(k, g, control[h][j].obj)'
      BY <1>1, <2>2 DEF Pushed
    <3>1. CASE j = Len(control[h]) + 1
      BY <1>1, <2>2, <3>1 DEF UsedSince
    <3>2. CASE j # Len(control[h]) + 1
      <4>1. j \in i..Len(control[h]) /\ control'[h][j] = control[h][j]
        BY <1>1, <2>2, <3>2
      <4>2. UsedSince(k, g, control[h][j].obj) /\ Swapped(k, g)
        BY <1>1, <1>2, <2>2, <4>1 DEF Pushed
      <4> QED BY <1>1, <4>1, <4>2 DEF Steady, UsedSince
    <3> QED BY <3>1, <3>2
  <2> QED BY <1>1, <2>1, <2>2
<1>3. ASSUME NEW g \in Gcs, NEW h \in Host, NEW i \in 1..Len(control'[h]),
             Mark(control'[h][i], g)
      PROVE  Pushed(h, g, i)'
  <2>1. CASE h = Other(k) /\ i = Len(control[h]) + 1
    <3>1. ASSUME NEW j \in i..Len(control'[h]) PROVE control'[h][j].obj \notin App
      BY <1>1, <1>3, <2>1, RemoteAssumption DEF Mark, Flush, Scan
    <3> QED BY <3>1 DEF Pushed
  <2>2. CASE ~(h = Other(k) /\ i = Len(control[h]) + 1)
    <3>1. i \in 1..Len(control[h]) /\ control'[h][i] = control[h][i]
      BY <1>1, <2>2
    <3>2. Swapped(Other(h), g) /\ Pushed(h, g, i)
      BY <1>3, <3>1 DEF CInv, Order, Ordered, Pushing
    <3> QED BY <1>2, <3>1, <3>2
  <2> QED BY <2>1, <2>2
<1>4. ASSUME NEW g \in Gcs, NEW h \in Host, NEW u \in At(h), Mark(msg'[u], g)
      PROVE  Pushed(h, g, 1)'
  <2>1. Mark(msg[u], g)
    BY <1>4 DEF Nothing, Mark, Steady, Only, At
  <2>2. Swapped(Other(h), g) /\ Pushed(h, g, 1)
    BY <2>1 DEF CInv, Order, Ordered, Pushing, At
  <2> QED BY <1>2, <2>2
<1>5. ASSUME NEW g \in Gcs, NEW h \in Host,
             \/ \E i \in 1..Len(control'[h]) : Scan(control'[h][i], g)
             \/ \E u \in At(h) : Scan(msg'[u], g)
      PROVE  Pushed(Other(h), g, 1)'
  <2>1. CASE h = Other(k) /\ Scan(m, g)
    <3>1. Flush(msg[t], g) /\ t \in At(k)
      BY <2>1 DEF At
    <3>2. Swapped(Other(k), g) /\ Pushed(k, g, 1)
      BY <1>1, <3>1 DEF CInv, Order, Ordered, Pushing, At, Mark
    <3> QED BY <1>1, <1>2, <2>1, <3>2
  <2>2. CASE ~(h = Other(k) /\ Scan(m, g))
    <3>1. \/ \E i \in 1..Len(control[h]) : Scan(control[h][i], g)
          \/ \E u \in At(h) : Scan(msg[u], g)
      <4>1. CASE \E i \in 1..Len(control'[h]) : Scan(control'[h][i], g)
        BY <1>1, <2>2, <4>1
      <4>2. CASE \E u \in At(h) : Scan(msg'[u], g)
        BY <4>2 DEF Nothing, Steady, Only, At
      <4> QED BY <1>5, <4>1, <4>2
    <3>2. Swapped(h, g) /\ Pushed(Other(h), g, 1)
      BY <3>1 DEF CInv, Order, Ordered, Pushing, At
    <3> QED BY <1>2, <3>2, TwoHosts
  <2> QED BY <2>1, <2>2
<1> QED BY <1>3, <1>4, <1>5 DEF Pushing, Mark, Flush, Scan

LEMMA PushRead ==
  ASSUME IInv, CInv, NEW t \in Thread, Steady(t), Read(t)
  PROVE  Pushing'
<1> DEFINE k == Home[t]
<1>1. /\ k \in Host /\ Len(control[k]) \in Nat /\ 1 \in 1..Len(control[k])
      /\ Len(control'[k]) = Len(control[k]) - 1
      /\ \A i \in 1..Len(control'[k]) :
           i + 1 \in 1..Len(control[k]) /\ control'[k][i] = control[k][i + 1]
      /\ \A h \in Host \ {k} : control'[h] = control[h]
      /\ msg'[t] = control[k][1] /\ Only(t)
  BY Receiving
<1>2. ASSUME NEW h \in Host, NEW g \in Gcs, Swapped(Other(h), g),
             NEW i \in Nat, NEW i2 \in Nat, i2 = i \/ (h = k /\ i2 = i + 1), Pushed(h, g, i2), i > 0,
             i2 = i => (h # k \/ i = 1)
      PROVE  Pushed(h, g, i)'
  <2>1. CASE h # k
    BY <1>1, <1>2, <2>1, PushedStays
  <2>2. CASE h = k
    <3> SUFFICES ASSUME NEW j \in i..Len(control'[h]), control'[h][j].obj \in App
                 PROVE  UsedSince(Other(h), g, control[h][j].obj)'
      BY DEF Pushed
    <3>1. j + 1 \in i2..Len(control[h]) /\ control'[h][j] = control[h][j + 1]
      BY <1>1, <1>2, <2>2
    <3>2. UsedSince(Other(h), g, control[h][j + 1].obj)
      BY <1>2, <3>1 DEF Pushed
    <3> QED BY <1>2, <3>1, <3>2, TwoHosts DEF Steady, UsedSince
  <2> QED BY <2>1, <2>2
<1>3. ASSUME NEW g \in Gcs, NEW h \in Host, NEW i \in 1..Len(control'[h]),
             Mark(control'[h][i], g)
      PROVE  Pushed(h, g, i)'
  <2>1. CASE h = k
    <3>1. i + 1 \in 1..Len(control[h]) /\ control'[h][i] = control[h][i + 1]
      BY <1>1, <2>1
    <3>2. Swapped(Other(h), g) /\ Pushed(h, g, i + 1)
      BY <1>3, <3>1 DEF CInv, Order, Ordered, Pushing
    <3> QED BY <1>2, <2>1, <3>1, <3>2
  <2>2. CASE h # k
    <3>1. i \in 1..Len(control[h]) /\ control'[h][i] = control[h][i]
      BY <1>1, <2>2
    <3>2. Swapped(Other(h), g) /\ Pushed(h, g, i)
      BY <1>3, <3>1 DEF CInv, Order, Ordered, Pushing
    <3> QED BY <1>2, <2>2, <3>1, <3>2
  <2> QED BY <2>1, <2>2
<1>4. ASSUME NEW g \in Gcs, NEW h \in Host, NEW u \in At(h), Mark(msg'[u], g)
      PROVE  Pushed(h, g, 1)'
  <2>1. Swapped(Other(h), g) /\ Pushed(h, g, 1)
    <3>1. CASE u = t
      BY <1>1, <1>4, <3>1 DEF CInv, Order, Ordered, Pushing, At
    <3>2. CASE u # t
      BY <1>1, <1>4, <3>2 DEF CInv, Order, Ordered, Pushing, At, Only
    <3> QED BY <3>1, <3>2
  <2> QED BY <1>2, <2>1
<1>5. ASSUME NEW g \in Gcs, NEW h \in Host,
             \/ \E i \in 1..Len(control'[h]) : Scan(control'[h][i], g)
             \/ \E u \in At(h) : Scan(msg'[u], g)
      PROVE  Pushed(Other(h), g, 1)'
  <2>1. \/ \E i \in 1..Len(control[h]) : Scan(control[h][i], g)
        \/ \E u \in At(h) : Scan(msg[u], g)
    <3>1. CASE \E i \in 1..Len(control'[h]) : Scan(control'[h][i], g)
      BY <1>1, <3>1
    <3>2. CASE \E u \in At(h) : Scan(msg'[u], g)
      BY <1>1, <3>2 DEF Only, At
    <3> QED BY <1>5, <3>1, <3>2
  <2>2. Swapped(h, g) /\ Pushed(Other(h), g, 1)
    BY <2>1 DEF CInv, Order, Ordered, Pushing, At
  <2> QED BY <1>2, <2>2, TwoHosts
<1> QED BY <1>3, <1>4, <1>5 DEF Pushing, Mark, Flush, Scan

-----------------------------------------------------------------------------
(* Creation.                                                                *)

\* Nothing is made and no CREATE is sent.
LEMMA CreatedSame ==
  ASSUME CInv, ~crashed, NEW t \in Thread, Only(t), UNCHANGED <<control, made, origin>>,
         pc'[t] # "making"
  PROVE  CreatedOnce'
BY DEF CInv, CreatedOnce, Creations, Creations, Only, At

LEMMA CreatedSend ==
  ASSUME IInv, CInv, ~crashed, NEW t \in Thread, Only(t), UNCHANGED <<made, origin>>,
         pc'[t] # "making", NEW m \in Message, Send(Home[t], m), m.type # "CREATE"
  PROVE  CreatedOnce'
<1> DEFINE k == Home[t]
<1>1. /\ k \in Host /\ Other(k) \in Host /\ Other(k) # k
      /\ Len(control[Other(k)]) \in Nat /\ control'[k] = control[k]
      /\ Len(control'[Other(k)]) = Len(control[Other(k)]) + 1
      /\ \A i \in 1..Len(control[Other(k)]) : control'[Other(k)][i] = control[Other(k)][i]
      /\ control'[Other(k)][Len(control[Other(k)]) + 1] = m
      /\ \A i \in 1..Len(control'[Other(k)]) :
           i \in 1..Len(control[Other(k)]) \/ i = Len(control[Other(k)]) + 1
      /\ \A h \in Host : h = k \/ h = Other(k)
  BY TwoHosts, RemoteAssumption, Sending
<1>2. \A h \in Host : \A i \in 1..Len(control'[h]) : control'[h][i].type = "CREATE" =>
        i \in 1..Len(control[h]) /\ control'[h][i] = control[h][i]
  BY <1>1
<1>3. \A u \in Thread : pc'[u] = "making" => pc[u] = "making" /\ msg'[u] = msg[u]
  BY DEF Only
<1>4. ASSUME NEW h \in Host, NEW i \in 1..Len(control'[h]), control'[h][i].type = "CREATE"
      PROVE  /\ control'[h][i].obj \notin made[h]
             /\ \A j \in 1..Len(control'[h]) :
                  control'[h][j].type = "CREATE" /\ control'[h][j].obj = control'[h][i].obj
                    => i = j
             /\ \A u \in At(h) : pc'[u] = "making" => msg'[u].obj # control'[h][i].obj
  BY <1>2, <1>3, <1>4 DEF CInv, CreatedOnce, Creations, At
<1>5. /\ \A h \in Host : \A o \in made[h] : o \in made[origin[o]]
      /\ \A u \in Thread : pc'[u] = "making" =>
         /\ msg'[u].obj \notin made[Home[u]]
         /\ \A v \in Thread : pc'[v] = "making" /\ Home[v] = Home[u] /\ msg'[v].obj = msg'[u].obj
              => v = u
  BY <1>3 DEF CInv, CreatedOnce, Creations
<1> QED BY <1>4, <1>5 DEF CreatedOnce, Creations, At

LEMMA CreatedRead ==
  ASSUME IInv, CInv, ~crashed, NEW t \in Thread, Read(t), IInv'
  PROVE  CreatedOnce'
<1> SUFFICES ASSUME ~crashed' PROVE Creations'
  BY DEF CreatedOnce
<1> DEFINE k == Home[t]
<1>1. /\ k \in Host /\ Len(control[k]) \in Nat /\ 1 \in 1..Len(control[k])
      /\ Len(control'[k]) = Len(control[k]) - 1
      /\ \A i \in 1..Len(control'[k]) :
           i + 1 \in 1..Len(control[k]) /\ control'[k][i] = control[k][i + 1]
      /\ \A h \in Host \ {k} : control'[h] = control[h]
      /\ msg'[t] = control[k][1] /\ Only(t)
      /\ UNCHANGED <<made, origin>>
  BY Receiving DEF Read
<1>2. pc'[t] = "making" => msg'[t].type = "CREATE"
  BY DEF IInv, Threads, ThreadOK
<1>3. Creations
  BY DEF CInv, CreatedOnce
<1>4. ASSUME NEW h \in Host, NEW i \in 1..Len(control'[h]), control'[h][i].type = "CREATE"
      PROVE  /\ control'[h][i].obj \notin made[h]
             /\ \A j \in 1..Len(control'[h]) :
                  control'[h][j].type = "CREATE" /\ control'[h][j].obj = control'[h][i].obj
                    => i = j
             /\ \A u \in At(h) : pc'[u] = "making" => msg'[u].obj # control'[h][i].obj
  <2>1. CASE h = k
    <3>1. PICK n \in 1..Len(control[k]) : n = i + 1 /\ n # 1 /\ control'[h][i] = control[k][n]
      BY <1>1, <2>1
    <3>2. /\ control[k][n].obj \notin made[k]
          /\ \A j \in 1..Len(control[k]) :
               control[k][j].type = "CREATE" /\ control[k][j].obj = control[k][n].obj
                 => n = j
          /\ \A u \in At(k) : pc[u] = "making" => msg[u].obj # control[k][n].obj
      BY <1>1, <1>3, <1>4, <3>1, SMTT(30) DEF Creations
    <3>3. \A j \in 1..Len(control'[h]) :
            control'[h][j].type = "CREATE" /\ control'[h][j].obj = control'[h][i].obj => i = j
      <4> SUFFICES ASSUME NEW j \in 1..Len(control'[h]), control'[h][j].type = "CREATE",
                          control'[h][j].obj = control'[h][i].obj
                   PROVE  i = j
        OBVIOUS
      <4>1. PICK l \in 1..Len(control[k]) : l = j + 1 /\ control'[h][j] = control[k][l]
        BY <1>1, <2>1
      <4>2. n = l
        BY <3>1, <3>2, <4>1
      <4> QED BY <3>1, <4>1, <4>2
    <3>4. ASSUME NEW u \in At(h), pc'[u] = "making" PROVE msg'[u].obj # control'[h][i].obj
      <4>1. CASE u = t
        BY <1>1, <1>2, <3>1, <3>2, <3>4, <4>1
      <4>2. CASE u # t
        BY <1>1, <2>1, <3>1, <3>2, <3>4, <4>2 DEF Only, At
      <4> QED BY <4>1, <4>2
    <3> QED BY <2>1, <3>1, <3>2, <3>3, <3>4
  <2>2. CASE h # k
    <3>1. control'[h] = control[h] /\ \A u \in At(h) : pc'[u] = pc[u] /\ msg'[u] = msg[u]
      BY <1>1, <2>2 DEF Only, At
    <3> QED BY <1>3, <1>4, <3>1 DEF Creations
  <2> QED BY <2>1, <2>2
<1>5. ASSUME NEW u \in Thread, pc'[u] = "making"
      PROVE  /\ msg'[u].obj \notin made[Home[u]]
             /\ \A v \in Thread : pc'[v] = "making" /\ Home[v] = Home[u] /\ msg'[v].obj = msg'[u].obj
                  => v = u
  <2>1. \A v \in Thread \ {t} : pc'[v] = pc[v] /\ msg'[v] = msg[v]
    BY <1>1 DEF Only
  <2>2. pc'[t] = "making" =>
          /\ msg'[t].obj \notin made[k]
          /\ \A v \in At(k) : pc[v] = "making" => msg[v].obj # msg'[t].obj
    BY <1>1, <1>2, <1>3 DEF Creations
  <2> QED BY <1>3, <1>5, <2>1, <2>2 DEF Creations, At
<1>6. \A h \in Host : \A o \in made[h] : o \in made[origin[o]]
  BY <1>3 DEF Creations
<1> QED BY <1>1, <1>4, <1>5, <1>6 DEF Creations, At

LEMMA CreatedNew ==
  ASSUME IInv, CInv, ~crashed, NEW t \in Thread, Only(t), origin' = origin,
         pc'[t] # "making", NEW o \in Object, origin[o] = Home[t], o \notin made[Home[t]],
         made' = Add(made, Home[t], o),
         NEW m \in Message, Send(Home[t], m), m.obj = o
  PROVE  CreatedOnce' /\ \A h \in Host : o \notin made[h]
<1> DEFINE k == Home[t]
<1>1. /\ k \in Host /\ Other(k) \in Host /\ Other(k) # k
      /\ Len(control[Other(k)]) \in Nat /\ control'[k] = control[k]
      /\ Len(control'[Other(k)]) = Len(control[Other(k)]) + 1
      /\ \A i \in 1..Len(control[Other(k)]) : control'[Other(k)][i] = control[Other(k)][i]
      /\ control'[Other(k)][Len(control[Other(k)]) + 1] = m
      /\ \A i \in 1..Len(control'[Other(k)]) :
           i \in 1..Len(control[Other(k)]) \/ i = Len(control[Other(k)]) + 1
      /\ \A h \in Host : h = k \/ h = Other(k)
  BY TwoHosts, RemoteAssumption, Sending
<1>2. Creations /\ \A h \in Host : o \notin made[h]
  BY DEF CInv, CreatedOnce, Creations
<1>3. \A h \in Host : \A i \in 1..Len(control[h]) :
        control[h][i].type = "CREATE" => control[h][i].obj # o
  BY <1>2, TwoHosts DEF IInv, Channels, Sound
<1>4. \A u \in Thread : pc[u] = "making" => msg[u].obj # o
  BY <1>2, TwoHosts, RemoteAssumption DEF IInv, InHand, Sound, Threads, ThreadOK
<1>5. made'[k] = made[k] \union {o} /\ \A h \in Host \ {k} : made'[h] = made[h]
  BY <1>1 DEF IInv, Typed, Add
<1>6. \A u \in Thread : pc'[u] = "making" => pc[u] = "making" /\ msg'[u] = msg[u]
  BY DEF Only
<1>7. ASSUME NEW h \in Host, NEW i \in 1..Len(control'[h]), control'[h][i].type = "CREATE"
      PROVE  /\ control'[h][i].obj \notin made'[h]
             /\ \A j \in 1..Len(control'[h]) :
                  control'[h][j].type = "CREATE" /\ control'[h][j].obj = control'[h][i].obj
                    => i = j
             /\ \A u \in At(h) : pc'[u] = "making" => msg'[u].obj # control'[h][i].obj
  <2>1. CASE h = Other(k) /\ i = Len(control[h]) + 1
    <3>1. control'[h][i].obj = o /\ h # k
      BY <1>1, <2>1
    <3>2. ASSUME NEW j \in 1..Len(control'[h]), j # i, control'[h][j].type = "CREATE"
          PROVE  control'[h][j].obj # o
      BY <1>1, <1>3, <2>1, <3>2
    <3> QED BY <1>1, <1>2, <1>4, <1>5, <1>6, <3>1, <3>2 DEF At
  <2>2. CASE ~(h = Other(k) /\ i = Len(control[h]) + 1)
    <3>1. i \in 1..Len(control[h]) /\ control'[h][i] = control[h][i]
      BY <1>1, <2>2
    <3>2. control[h][i].obj # o /\ control[h][i].obj \notin made[h]
      BY <1>2, <1>3, <1>7, <3>1 DEF Creations
    <3>3. ASSUME NEW j \in 1..Len(control'[h]), control'[h][j].type = "CREATE",
                 control'[h][j].obj = control'[h][i].obj
          PROVE  i = j
      <4>1. j \in 1..Len(control[h]) /\ control'[h][j] = control[h][j]
        BY <1>1, <3>1, <3>2, <3>3
      <4> QED BY <1>2, <1>7, <3>1, <3>3, <4>1 DEF Creations
    <3>4. \A u \in At(h) : pc'[u] = "making" => msg'[u].obj # control'[h][i].obj
      BY <1>2, <1>6, <1>7, <3>1 DEF Creations, At
    <3> QED BY <1>5, <3>1, <3>2, <3>3, <3>4
  <2> QED BY <2>1, <2>2
<1>8. ASSUME NEW u \in Thread, pc'[u] = "making"
      PROVE  /\ msg'[u].obj \notin made'[Home[u]]
             /\ \A v \in Thread : pc'[v] = "making" /\ Home[v] = Home[u] /\ msg'[v].obj = msg'[u].obj
                  => v = u
  BY <1>2, <1>4, <1>5, <1>6, <1>8, RemoteAssumption DEF Creations
<1>9. \A h \in Host : \A p \in made'[h] : p \in made'[origin[p]]
  <2> SUFFICES ASSUME NEW h \in Host, NEW p \in made'[h] PROVE p \in made'[origin[p]]
    OBVIOUS
  <2>1. CASE p = o
    BY <1>5, <2>1
  <2>2. CASE p # o
    <3>1. p \in made[h]
      BY <1>5, <2>2
    <3>2. p \in Object /\ origin[p] \in Host
      BY <3>1 DEF IInv, Typed
    <3>3. p \in made[origin[p]]
      BY <1>2, <3>1 DEF Creations
    <3> QED BY <1>5, <3>2, <3>3
  <2> QED BY <2>1, <2>2
<1> QED BY <1>2, <1>7, <1>8, <1>9 DEF CreatedOnce, Creations, At

LEMMA CreatedMake ==
  ASSUME IInv, CInv, ~crashed, NEW t \in Thread, Make(t)
  PROVE  CreatedOnce'
<1> DEFINE k == Home[t]  o == msg[t].obj
<1>1. /\ k \in Host /\ pc[t] = "making" /\ pc' = [pc EXCEPT ![t] = "acking"]
      /\ made' = Add(made, k, o) /\ UNCHANGED <<control, origin, msg, crashed>>
  BY RemoteAssumption DEF Make, Goto
<1>2. Creations /\ msg[t] \in Message /\ msg[t].type = "CREATE"
  BY <1>1 DEF CInv, CreatedOnce, IInv, Threads, ThreadOK, Carrying
<1>3. o \in made[Other(k)] /\ origin[o] = Other(k) /\ o \in Object /\ Other(k) # k
  <2>1. Sound(k, msg[t]) /\ o \in Object /\ origin[o] \in Host
    BY <1>1, <1>2 DEF IInv, Typed, InHand, Message
  <2>2. o \in made[Other(k)] /\ origin[o] # k
    BY <1>2, <2>1 DEF Sound
  <2>3. Other(k) # k /\ \A h \in Host : h = k \/ h = Other(k)
    BY <1>1, TwoHosts DEF Other
  <2> QED BY <2>1, <2>2, <2>3
<1>4. made'[k] = made[k] \union {o} /\ \A h \in Host \ {k} : made'[h] = made[h]
  BY <1>1 DEF IInv, Typed, Add
<1>5. \A u \in Thread : pc'[u] = "making" <=> pc[u] = "making" /\ u # t
  BY <1>1 DEF IInv, Typed
<1>6. \A h \in Host : \A p \in made'[h] : p \in made'[origin[p]]
  <2> SUFFICES ASSUME NEW h \in Host, NEW p \in made'[h] PROVE p \in made'[origin[p]]
    OBVIOUS
  <2>1. CASE p = o
    BY <1>3, <1>4, <2>1, TwoHosts, <1>1
  <2>2. CASE p # o
    <3>1. p \in made[h]
      BY <1>4, <2>2
    <3>2. p \in Object /\ origin[p] \in Host
      BY <3>1 DEF IInv, Typed
    <3>3. p \in made[origin[p]]
      BY <1>2, <3>1 DEF Creations
    <3> QED BY <1>4, <3>2, <3>3
  <2> QED BY <2>1, <2>2
<1>7. ASSUME NEW h \in Host, NEW i \in 1..Len(control[h]), control[h][i].type = "CREATE"
      PROVE  /\ control[h][i].obj \notin made'[h]
             /\ \A j \in 1..Len(control[h]) :
                  control[h][j].type = "CREATE" /\ control[h][j].obj = control[h][i].obj
                    => i = j
             /\ \A u \in At(h) : pc'[u] = "making" => msg[u].obj # control[h][i].obj
  <2>1. /\ control[h][i].obj \notin made[h]
        /\ \A j \in 1..Len(control[h]) :
             control[h][j].type = "CREATE" /\ control[h][j].obj = control[h][i].obj => i = j
        /\ \A u \in At(h) : pc[u] = "making" => msg[u].obj # control[h][i].obj
    BY <1>2, <1>7 DEF Creations
  <2>2. h = k => control[h][i].obj # o
    BY <1>1, <2>1 DEF At
  <2>3. control[h][i].obj \notin made'[h]
    BY <1>4, <2>1, <2>2
  <2>4. \A u \in At(h) : pc'[u] = "making" => msg[u].obj # control[h][i].obj
    BY <1>5, <2>1 DEF At
  <2> QED BY <2>1, <2>3, <2>4
<1>8. ASSUME NEW u \in Thread, pc'[u] = "making"
      PROVE  /\ msg[u].obj \notin made'[Home[u]]
             /\ \A v \in Thread : pc'[v] = "making" /\ Home[v] = Home[u] /\ msg[v].obj = msg[u].obj
                  => v = u
  BY <1>1, <1>2, <1>4, <1>5, <1>8, RemoteAssumption DEF Creations
<1> QED BY <1>1, <1>6, <1>7, <1>8 DEF CreatedOnce, Creations, At

-----------------------------------------------------------------------------
(* Silence, offers and lists.                                               *)

\* Who breaks the silence about an object had to do with it, and uses it.
SilenceKept ==
  \A h \in Host : \A o \in App : o \in made[h] /\ Silent(h, o) =>
    \/ Silent(h, o)'
    \/ ~Silent(Other(h), o) /\ \A g \in Gcs : UsedSince(Other(h), g, o)'

LEMMA SilenceStays ==
  ASSUME IInv, CInv, NEW t \in Thread, Only(t), NEW p,
         \/ p \in held[Home[t]] \/ msg[t].obj = p \/ own[t] = p
         \/ \A h \in Host : p \notin made[h]
         \/ \E h \in Host : \E i \in 1..Len(control[h]) : control[h][i].obj = p,
         \A h \in Host : held'[h] \subseteq held[h] \/ (h = Home[t] /\ held'[h] \subseteq held[h] \union {p}),
         msg'[t].obj \in {msg[t].obj, None, p}, own'[t] \in {own[t], None, p},
         \/ \A h \in Host : \A i \in 1..Len(control'[h]) :
              \E j \in 1..Len(control[h]) : control'[h][i] = control[h][j]
         \/ /\ \E m \in Message : Send(Home[t], m) /\ m.obj = p
            /\ p \in App => \A g \in Gcs : UsedSince(Home[t], g, p)'
  PROVE  SilenceKept
<1> SUFFICES ASSUME NEW h \in Host, NEW o \in App, o \in made[h], Silent(h, o)
             PROVE  \/ Silent(h, o)'
                    \/ ~Silent(Other(h), o) /\ \A g \in Gcs : UsedSince(Other(h), g, o)'
  BY DEF SilenceKept
<1>0. o # None /\ Home[t] \in Host /\ t \in At(Home[t])
  BY RemoteAssumption DEF Object, At
<1>1. ASSUME o # p \/ h # Home[t]
      PROVE  o \notin held'[h] /\ \A u \in At(h) : msg'[u].obj # o /\ own'[u] # o
  BY <1>0, <1>1 DEF Silent, At, Only
<1>2. CASE \A k \in Host : \A i \in 1..Len(control'[k]) :
             \E j \in 1..Len(control[k]) : control'[k][i] = control[k][j]
  <2>1. \A k \in Host : \A i \in 1..Len(control'[k]) : control'[k][i].obj # o
    BY <1>2 DEF Silent
  <2>2. CASE o # p \/ h # Home[t]
    BY <1>1, <2>1, <2>2 DEF Silent, At
  <2>3. CASE o = p /\ h = Home[t]
    BY <1>0, <2>3 DEF Silent
  <2> QED BY <2>2, <2>3
<1>3. CASE /\ \E m \in Message : Send(Home[t], m) /\ m.obj = p
           /\ p \in App => \A g \in Gcs : UsedSince(Home[t], g, p)'
  <2>1. CASE o # p
    <3>1. PICK m \in Message : Send(Home[t], m) /\ m.obj = p
      BY <1>3
    <3>2. \A k \in Host : \A i \in 1..Len(control'[k]) :
            \/ \E j \in 1..Len(control[k]) : control'[k][i] = control[k][j]
            \/ control'[k][i] = m
      <4>1. PICK d \in Host : d = Home[t]
        BY <1>0
      <4>2. /\ control'[d] = control[d]
            /\ \A i \in 1..Len(control[Other(d)]) : control'[Other(d)][i] = control[Other(d)][i]
            /\ control'[Other(d)][Len(control[Other(d)]) + 1] = m
            /\ \A i \in 1..Len(control'[Other(d)]) :
                 i \in 1..Len(control[Other(d)]) \/ i = Len(control[Other(d)]) + 1
            /\ \A k \in Host : k = d \/ k = Other(d)
        BY <3>1, <4>1, Sending
      <4> QED BY <4>2
    <3>3. \A k \in Host : \A j \in 1..Len(control[k]) : control[k][j].obj # o
      BY DEF Silent
    <3>4. \A k \in Host : \A i \in 1..Len(control'[k]) : control'[k][i].obj # o
      BY <2>1, <3>1, <3>2, <3>3
    <3> QED BY <1>1, <2>1, <3>4 DEF Silent, At
  <2>2. CASE o = p
    <3>1. h # Home[t] /\ Home[t] = Other(h)
      BY <1>0, <2>2, TwoHosts DEF Silent, Other
    <3>2. ~Silent(Home[t], o)
      BY <1>0, <2>2 DEF Silent
    <3> QED BY <1>3, <2>2, <3>1, <3>2
  <2> QED BY <2>1, <2>2
<1> QED BY <1>2, <1>3

LEMMA DeadStays ==
  ASSUME SilenceKept, Grow, NEW o \in App, Dead(o)
  PROVE  Dead(o)'
BY TwoHosts DEF SilenceKept, Grow, Dead

\* What the scan of g at h may offer.
Offerable(h, g, o) ==
  /\ Swapped(h, g) /\ Swapped(Other(h), g) /\ o \in made[h]
  /\ ~UsedSince(h, g, o)
  /\ Silent(h, o) \/ (UsedSince(Other(h), g, o) /\ ~Silent(Other(h), o))
FewOffers ==
  \A h \in Host : \A g \in Gcs : \A o \in App :
    Offered(h, g, o)' => Offered(h, g, o) \/ Offerable(h, g, o)

LEMMA OffersStay ==
  ASSUME CInv, NEW t, Steady(t), SilenceKept, FewOffers
  PROVE  Offering'
<1> SUFFICES ASSUME NEW h \in Host, NEW g \in Gcs, NEW o \in App, Offered(h, g, o)'
             PROVE  /\ Swapped(h, g)' /\ Swapped(Other(h), g)' /\ o \in made'[h]
                    /\ UsedSince(Other(h), g, o)' \/ Silent(h, o)'
                    /\ Offered(Other(h), g, o)' => Dead(o)'
  BY DEF Offering
<1> DEFINE k == Other(h)
<1>0. k \in Host /\ Other(k) = h /\ \A l \in Host : l = h \/ l = k
  BY TwoHosts DEF Other
<1>1. /\ Swapped(h, g) /\ Swapped(k, g) /\ o \in made[h]
      /\ UsedSince(k, g, o) \/ Silent(h, o)
  BY DEF CInv, Offering, FewOffers, Offerable
<1>2. /\ Swapped(h, g)' /\ Swapped(k, g)' /\ o \in made'[h]
      /\ UsedSince(k, g, o)' \/ Silent(h, o)'
  BY <1>0, <1>1 DEF Steady, Grow, SilenceKept
<1>3. ASSUME Offered(k, g, o)' PROVE Dead(o)'
  <2>1. /\ o \in made[k]
        /\ UsedSince(h, g, o) \/ Silent(k, o)
    BY <1>0, <1>3 DEF CInv, Offering, FewOffers, Offerable
  <2>2. Dead(o)
    <3>1. CASE Offered(h, g, o) /\ Offered(k, g, o)
      BY <3>1 DEF CInv, Offering
    <3>2. CASE Offerable(h, g, o)
      BY <1>0, <1>1, <2>1, <3>2 DEF Offerable, Dead
    <3>3. CASE Offerable(k, g, o)
      BY <1>0, <1>1, <2>1, <3>3 DEF Offerable, Dead
    <3> QED BY <1>0, <1>3, <3>1, <3>2, <3>3 DEF FewOffers
  <2> QED BY <2>2, DeadStays DEF Steady
<1> QED BY <1>2, <1>3

\* An object leaves the lists of a host only when it is dead.
Tracks(t) ==
  /\ \A h \in Host : \A o \in App :
       /\ o \in made'[h] \ made[h] => h = Home[t] /\ own'[t] = o /\ pc'[t] # "marking"
       /\ InLists(h, o) => InLists(h, o)' \/ Dead(o)
  /\ \A o \in App : own[t] = o /\ pc[t] # "marking" =>
       InLists(Home[t], o)' \/ (own'[t] = o /\ pc'[t] # "marking")

LEMMA TrackedStays ==
  ASSUME CInv, NEW t \in Thread, Steady(t), SilenceKept, Tracks(t)
  PROVE  Tracked'
<1> SUFFICES ASSUME NEW h \in Host, NEW o \in App, o \in made'[h]
             PROVE  \/ InLists(h, o)' \/ Dead(o)'
                    \/ \E u \in At(h) : own'[u] = o /\ pc'[u] # "marking"
  BY DEF Tracked, At
<1>1. CASE o \notin made[h]
  BY <1>1 DEF Tracks, At
<1>2. CASE o \in made[h]
  <2>1. CASE InLists(h, o)
    BY <2>1, DeadStays DEF Tracks, Steady
  <2>2. CASE Dead(o)
    BY <2>2, DeadStays DEF Steady
  <2>3. CASE \E u \in At(h) : own[u] = o /\ pc[u] # "marking"
    BY <2>3 DEF Tracks, Steady, Only, At
  <2> QED BY <1>2, <2>1, <2>2, <2>3 DEF CInv, Tracked
<1> QED BY <1>1, <1>2

-----------------------------------------------------------------------------
(* Steps that send and read nothing.                                        *)

Handles(t) ==
  /\ pc'[t] \in Handling /\ msg'[t] # NoMsg =>
       \/ pc[t] \in Handling /\ msg[t] # NoMsg /\ msg'[t].obj = msg[t].obj
       \/ /\ msg'[t].obj \in created'[Home[t]]
          /\ \A u \in Thread \ {t} : pc[u] \in Handling /\ Home[u] = Home[t]
               => msg[u].obj # msg'[t].obj
  /\ own'[t] # None =>
       /\ pc'[t] \in {"acking", "onCreated", "flushing", "adding", "marking"}
       /\ pc'[t] \in {"onCreated", "flushing"} => msg'[t].type = "CREATE"
  /\ pc'[t] = "replying" => msg'[t].obj \in App
  /\ pc'[t] = "flushing" => msg'[t].obj \in Gcs

LEMMA Assembled ==
  ASSUME IInv, IInv', CInv, NEW t \in Thread, Steady(t), Generations', CreatedOnce', Order',
         Pushing', SilenceKept, FewOffers, Tracks(t), Handles(t)
  PROVE  CInv'
<1>1. OneHandler' /\ Locked' /\ Owns'
  BY HandlersStay DEF Steady, Handles
<1>2. Offering' /\ Tracked'
  BY OffersStay, TrackedStays
<1>3. Kinds'
  BY DEF CInv, Kinds, Steady, Only, Handles
<1> QED BY <1>1, <1>2, <1>3 DEF CInv

LEMMA QuietStep ==
  ASSUME IInv, IInv', CInv, ~crashed, NEW t \in Thread, Steady(t), Generations',
         UNCHANGED <<control, made>>, \A h \in Host : held'[h] \subseteq held[h],
         pc'[t] # "making",
         \/ msg'[t] = NoMsg
         \/ /\ msg'[t].type = msg[t].type /\ msg'[t].obj = msg[t].obj
            /\ msg'[t].stage = msg[t].stage,
         own'[t] \in {own[t], None}, FewOffers, Tracks(t), Handles(t)
  PROVE  CInv'
<1>1. Nothing(t) /\ msg'[t].obj \in {msg[t].obj, None}
  BY DEF Nothing, Flush, Scan, NoMsg
<1>2. Ordered(Home[t], msg[t])'
  <2>1. CASE msg'[t] = NoMsg
    BY <2>1 DEF NoMsg, Ordered, Mark, Flush, Scan
  <2>2. CASE msg'[t] # NoMsg
    <3>1. PICK m : m = msg[t]
      OBVIOUS
    <3>2. Home[t] \in Host /\ Ordered(Home[t], m)
      BY <3>1, RemoteAssumption DEF CInv, Order
    <3>3. Ordered(Home[t], m)'
      BY <3>2, OrderedStays DEF Steady
    <3> QED BY <2>2, <3>1, <3>3 DEF Ordered, Mark, Flush, Scan
  <2> QED BY <2>1, <2>2
<1>3. Order'
  BY <1>2, OrderStays DEF Steady
<1>4. Pushing'
  BY <1>1, PushSame
<1>5. CreatedOnce'
  BY CreatedSame DEF Steady, Grow
<1>6. SilenceKept
  <2>1. PICK p : p = own[t]
    OBVIOUS
  <2> QED BY <1>1, <2>1, SilenceStays DEF Steady
<1> QED BY <1>3, <1>4, <1>5, <1>6, Assembled

LEMMA OffersSame ==
  ASSUME NEW t \in Thread, Only(t), control' = control,
         \A h \in Host : \A g \in Gcs : maybeDead'[h][g] \subseteq maybeDead[h][g],
         msg'[t] = NoMsg \/ msg'[t] = msg[t], pc'[t] = "listing" => pc[t] = "listing"
  PROVE  FewOffers
<1> SUFFICES ASSUME NEW h \in Host, NEW g \in Gcs, NEW o \in App, Offered(h, g, o)'
             PROVE  Offered(h, g, o)
  BY DEF FewOffers
<1>1. CASE o \in maybeDead'[h][g]
  BY <1>1 DEF Offered
<1>2. CASE \E u \in At(h) : pc'[u] = "listing" /\ msg'[u].obj = g /\ o \in msg'[u].list
  BY <1>2 DEF Offered, At, Only, NoMsg
<1>3. CASE \E i \in 1..Len(control'[Other(h)]) : Offers(control'[Other(h)][i], g, o)
  BY <1>3 DEF Offered
<1>4. CASE \E u \in At(Other(h)) : Offers(msg'[u], g, o)
  BY <1>4 DEF Offered, Offers, At, Only, NoMsg
<1> QED BY <1>1, <1>2, <1>3, <1>4 DEF Offered, At, Offers

\* A step that touches no list and no generation.
LEMMA Calm ==
  ASSUME IInv, IInv', CInv, ~crashed, NEW t \in Thread, Only(t),
         UNCHANGED <<control, origin, made, created, gen, lastMsgGen, listed, gcVars>>,
         \A h \in Host : held'[h] \subseteq held[h],
         own[t] = None \/ pc[t] = "marking", own'[t] = None,
         pc'[t] \notin {"making", "acking", "onCreated", "flushing", "listing"},
         pc'[t] = "replying" => msg'[t].obj \in App,
         pc'[t] \in Handling => pc[t] \in Handling,
         msg'[t] = NoMsg \/ msg'[t] = msg[t]
  PROVE  CInv'
<1>1. Grow /\ UNCHANGED <<gcGen, objs, maybeDead>>
  BY DEF Grow, gcVars
<1>2. Steady(t)
  BY <1>1, Keeping
<1>3. Generations'
  BY <1>1, GenerationsStay
<1>4. FewOffers
  BY <1>1, OffersSame
<1>5. Tracks(t)
  BY <1>1, RemoteAssumption DEF Tracks, InLists, Object
<1>6. Handles(t)
  BY DEF Handles
<1> QED BY <1>2, <1>3, <1>4, <1>5, <1>6, QuietStep

LEMMA Unowned ==
  ASSUME CInv, NEW t \in Thread,
         pc[t] \notin {"acking", "onCreated", "flushing", "adding", "marking"}
  PROVE  own[t] = None
BY DEF CInv, Owns

LEMMA WaitingC ==
  ASSUME IInv, IInv', CInv, ~crashed, NEW t \in Thread, UNCHANGED gcVars,
         \/ Check(t) \/ TryRecv(t) \/ Spin(t) \/ Relock(t) \/ Finish(t)
         \/ \E o \in App : WaitUntilComplete(t, o)
  PROVE  CInv'
<1>1. /\ pc[t] \in {"check", "try", "spin", "relock", "done", "idle"}
      /\ pc'[t] \in {"check", "try", "spin", "relock", "reading", "idle"}
      /\ UNCHANGED <<control, origin, gen, objects, own>>
      /\ (msg'[t] = NoMsg \/ msg'[t] = msg[t]) /\ Only(t)
  BY DEF Check, TryRecv, Spin, Relock, Finish, WaitUntilComplete, Goto, IInv, Typed, Only
<1> QED BY <1>1, Unowned, Calm DEF objects, Handling

LEMMA DispatchC ==
  ASSUME IInv, IInv', CInv, ~crashed, NEW t \in Thread, Dispatch(t), UNCHANGED gcVars
  PROVE  CInv'
<1>1. /\ pc[t] = "dispatch" /\ pc'[t] \in {"replying", "done"} /\ msg[t].obj \in App
      /\ UNCHANGED <<control, origin, gen, made, created, lastMsgGen, listed, held, msg, own>>
      /\ Only(t)
  BY DEF Dispatch, Goto, IInv, Typed, Only
<1> QED BY <1>1, Unowned, Calm DEF Handling

LEMMA MarkCompleteMuC ==
  ASSUME IInv, IInv', CInv, ~crashed, NEW t \in Thread, MarkCompleteMu(t), UNCHANGED gcVars
  PROVE  CInv'
<1>1. /\ pc[t] = "marking" /\ pc'[t] = "idle" /\ own'[t] = None
      /\ UNCHANGED <<control, origin, gen, made, created, lastMsgGen, listed, msg>>
      /\ Only(t)
  BY DEF MarkCompleteMu, Goto, IInv, Typed, Only
<1>2. \A h \in Host : held'[h] \subseteq held[h]
  BY RemoteAssumption DEF MarkCompleteMu, Drop, IInv, Typed
<1> QED BY <1>1, <1>2, Calm DEF Handling

LEMMA ReleaseC ==
  ASSUME IInv, IInv', CInv, ~crashed, NEW t \in Thread, NEW o \in App, Release(t, o),
         UNCHANGED gcVars
  PROVE  CInv'
<1>1. /\ pc[t] = "idle" /\ pc'[t] = "idle"
      /\ UNCHANGED <<control, origin, gen, made, created, lastMsgGen, listed, msg, own>>
      /\ Only(t)
  BY DEF Release, threads, IInv, Typed, Only
<1>2. \A h \in Host : held'[h] \subseteq held[h]
  BY RemoteAssumption DEF Release, Drop, IInv, Typed
<1> QED BY <1>1, <1>2, Unowned, Calm DEF Handling

\* The lock of an object is free: nobody else at this host handles it.
LEMMA LockC ==
  ASSUME IInv, IInv', CInv, ~crashed, NEW t \in Thread, Lock(t), UNCHANGED gcVars
  PROVE  CInv'
<1> DEFINE h == Home[t]  o == msg[t].obj
<1>1. /\ pc[t] = "locking" /\ LockFree(h, o) /\ h \in Host
      /\ UNCHANGED <<control, origin, gen, made, lastMsgGen, listed, held, msg, own>>
      /\ Only(t) /\ pc'[t] \in {"onCreated", "dispatch"}
  BY RemoteAssumption DEF Lock, Goto, IInv, Typed, Only
<1>2. /\ own[t] = None /\ own'[t] = None /\ UNCHANGED <<gcGen, objs, maybeDead>> /\ Grow
  BY <1>1, Unowned DEF gcVars, Grow
<1>3. /\ \A k \in Host : created[k] \subseteq created'[k]
      /\ o \in created'[h]
      /\ pc'[t] = "onCreated" => o \notin created[h]
  <2>1. CASE o \in created[h]
    <3>1. created' = created /\ pc'[t] = "dispatch"
      BY <2>1 DEF Lock, Goto, IInv, Typed
    <3> QED BY <2>1, <3>1
  <2>2. CASE o \notin created[h]
    <3>1. created' = [created EXCEPT ![h] = @ \union {o}]
      BY <2>2 DEF Lock, Add
    <3> QED BY <1>1, <2>2, <3>1 DEF IInv, Typed
  <2> QED BY <2>1, <2>2
<1>4. Steady(t)
  BY <1>1, <1>2, <1>3, Keeping
<1>5. Generations'
  BY <1>1, <1>2, GenerationsStay
<1>6. FewOffers
  BY <1>1, <1>2, OffersSame
<1>7. Tracks(t)
  BY <1>1, <1>2, RemoteAssumption DEF Tracks, InLists, Object
<1>8. Handles(t)
  <2>1. \A u \in Thread \ {t} : pc[u] \in Handling /\ Home[u] = Home[t] => msg[u].obj # o
    BY <1>1 DEF LockFree, At
  <2> QED BY <1>1, <1>2, <1>3, <2>1 DEF Handles
<1> QED BY <1>1, <1>2, <1>4, <1>5, <1>6, <1>7, <1>8, QuietStep

-----------------------------------------------------------------------------
(* Steps that send.                                                         *)

LEMMA OffersSend ==
  ASSUME IInv, NEW t \in Thread, Only(t),
         \A h \in Host : \A g \in Gcs : maybeDead'[h][g] \subseteq maybeDead[h][g],
         msg'[t] = msg[t] \/ msg'[t] = NoMsg, pc'[t] # "listing",
         NEW m \in Message, Send(Home[t], m),
         m.type = "DATA" /\ m.obj \in Gcs =>
           pc[t] = "listing" /\ m.obj = msg[t].obj /\ m.list = msg[t].list
  PROVE  FewOffers
<1> DEFINE k == Home[t]
<1>0. /\ k \in Host /\ Len(control[Other(k)]) \in Nat /\ control'[k] = control[k]
      /\ Len(control'[Other(k)]) = Len(control[Other(k)]) + 1
      /\ \A i \in 1..Len(control[Other(k)]) : control'[Other(k)][i] = control[Other(k)][i]
      /\ control'[Other(k)][Len(control[Other(k)]) + 1] = m
      /\ \A i \in 1..Len(control'[Other(k)]) :
           i \in 1..Len(control[Other(k)]) \/ i = Len(control[Other(k)]) + 1
      /\ \A h \in Host : h = k \/ h = Other(k)
  BY RemoteAssumption, Sending
<1> SUFFICES ASSUME NEW h \in Host, NEW g \in Gcs, NEW o \in App, Offered(h, g, o)'
             PROVE  Offered(h, g, o)
  BY DEF FewOffers
<1>1. CASE o \in maybeDead'[h][g]
  BY <1>1 DEF Offered
<1>2. CASE \E u \in At(h) : pc'[u] = "listing" /\ msg'[u].obj = g /\ o \in msg'[u].list
  BY <1>2 DEF Offered, At, Only
<1>3. CASE \E i \in 1..Len(control'[Other(h)]) : Offers(control'[Other(h)][i], g, o)
  <2>1. PICK i \in 1..Len(control'[Other(h)]) : Offers(control'[Other(h)][i], g, o)
    BY <1>3
  <2>2. CASE i \in 1..Len(control[Other(h)]) /\ control'[Other(h)][i] = control[Other(h)][i]
    BY <2>1, <2>2 DEF Offered
  <2>3. CASE h = k /\ control'[Other(h)][i] = m
    BY <2>1, <2>3 DEF Offered, Offers, At
  <2> QED BY <1>0, <2>1, <2>2, <2>3, TwoHosts
<1>4. CASE \E u \in At(Other(h)) : Offers(msg'[u], g, o)
  BY <1>4 DEF Offered, Offers, At, Only, NoMsg
<1> QED BY <1>1, <1>2, <1>3, <1>4 DEF Offered, At, Offers

\* A message about an object that t has is sent; endpoints and lists stay.
LEMMA SendStep ==
  ASSUME IInv, IInv', CInv, ~crashed, NEW t \in Thread, Steady(t), Generations',
         UNCHANGED <<made, created, held, msg>>,
         NEW m \in Message, Send(Home[t], m), m.type # "CREATE",
         m.stage # "ABSENT" => m.type = "NOTIFY",
         m.obj \in held[Home[t]] \/ m.obj = msg[t].obj,
         m.obj \in App => lastMsgGen'[Home[t]][m.obj] = gen[Home[t]] /\ gcGen' = gcGen,
         \A g \in Gcs : Mark(m, g) => Swapped(Home[t], g)',
         \A g \in Gcs : Scan(m, g) => Flush(msg[t], g),
         pc'[t] # "making", own'[t] \in {own[t], None, m.obj},
         FewOffers, Tracks(t), Handles(t)
  PROVE  CInv'
<1> DEFINE k == Home[t]
<1>0. k \in Host /\ Other(k) \in Host /\ Other(Other(k)) = k /\ Only(t) /\ Grow
  BY RemoteAssumption, TwoHosts DEF Steady
<1>1. m.obj \in App => \A g \in Gcs : UsedSince(k, g, m.obj)'
  BY <1>0 DEF UsedSince, CInv, Generations
<1>2. Pushing'
  BY <1>1, PushSend DEF Nothing
<1>3. Ordered(k, msg[t])'
  <2>1. PICK n : n = msg[t]
    OBVIOUS
  <2>2. Ordered(k, n)
    BY <2>1 DEF CInv, Order
  <2>3. Ordered(k, n)'
    BY <1>0, <2>2, OrderedStays DEF Steady
  <2> QED BY <2>1, <2>3 DEF Ordered, Mark, Flush, Scan
<1>4. Ordered(Other(k), m)'
  <2>1. \A g \in Gcs : Scan(m, g) => Swapped(Other(k), g)'
    <3> SUFFICES ASSUME NEW g \in Gcs, Scan(m, g) PROVE Swapped(Other(k), g)'
      OBVIOUS
    <3>1. Mark(msg[t], g)
      BY DEF Mark
    <3>2. Swapped(Other(k), g)
      BY <3>1 DEF CInv, Order, Ordered
    <3> QED BY <1>0, <3>2 DEF Steady
  <2> QED BY <1>0, <2>1 DEF Ordered
<1>5. \A h \in Host : \A i \in 1..Len(control'[h]) :
        \/ \E j \in 1..Len(control[h]) : control'[h][i] = control[h][j]
        \/ Ordered(h, control[h][i])'
  <2> SUFFICES ASSUME NEW h \in Host, NEW i \in 1..Len(control'[h])
               PROVE  \/ \E j \in 1..Len(control[h]) : control'[h][i] = control[h][j]
                      \/ Ordered(h, control[h][i])'
    OBVIOUS
  <2>1. \/ i \in 1..Len(control[h]) /\ control'[h][i] = control[h][i]
        \/ h = Other(k) /\ control'[h][i] = m
    BY <1>0, Sending
  <2>2. CASE h = Other(k) /\ control'[h][i] = m
    BY <1>4, <2>2 DEF Ordered, Mark, Flush, Scan
  <2> QED BY <2>1, <2>2
<1>6. Order'
  BY <1>0, <1>3, <1>5, OrderStays DEF Steady
<1>7. CreatedOnce'
  BY <1>0, CreatedSend DEF Grow
<1>8. SilenceKept
  <2>1. PICK p : p = m.obj
    OBVIOUS
  <2> QED BY <1>0, <1>1, <2>1, SilenceStays
<1> QED BY <1>2, <1>6, <1>7, <1>8, Assembled

LEMMA Letter ==
  ASSUME Typed, NEW h \in Host, NEW o \in Object,
         NEW type \in {"CREATE", "CREATE_ACK", "DATA", "NOTIFY", "MARKCOMPLETE"}
  PROVE  \E m \in Message : /\ m = From(h, o, type) /\ m.obj = o /\ m.type = type
                            /\ m.list = {} /\ m.stage = "ABSENT"
<1>1. "ABSENT" \in Stages /\ {} \in SUBSET Object
  BY DEF Stages
<1>3. (o \in peer[h]) \in BOOLEAN
  OBVIOUS
<1>4. PICK m : m = From(h, o, type)
  OBVIOUS
<1>5. m \in Message /\ m.obj = o /\ m.type = type /\ m.list = {} /\ m.stage = "ABSENT"
  BY <1>1, <1>3, <1>4 DEF Message, From
<1> QED BY <1>4, <1>5

\* What SendFrom does for an object that t uses or handles.
LEMMA SendFromStep ==
  ASSUME IInv, IInv', CInv, ~crashed, NEW t \in Thread, Only(t),
         UNCHANGED <<origin, made, created, held, msg, gen, listed, gcVars>>,
         NEW m \in Message, Send(Home[t], m), Touch(Home[t], m.obj),
         m.type # "CREATE", m.stage = "ABSENT",
         m.obj \in held[Home[t]] \/ m.obj = msg[t].obj,
         m.type = "DATA" /\ m.obj \in Gcs =>
           pc[t] = "listing" /\ m.obj = msg[t].obj /\ m.list = msg[t].list,
         pc'[t] \notin {"making", "listing", "replying", "flushing"},
         pc'[t] \in {"acking", "onCreated"} => pc[t] \in {"acking", "onCreated"},
         pc'[t] \in Handling => pc[t] \in Handling,
         own[t] # None => own'[t] = own[t] /\ pc'[t] # "marking",
         own'[t] \in {own[t], m.obj},
         own'[t] # None =>
           /\ pc'[t] \in {"acking", "onCreated", "flushing", "adding", "marking"}
           /\ pc'[t] \in {"onCreated", "flushing"} => msg[t].type = "CREATE"
  PROVE  CInv'
<1>1. Grow /\ UNCHANGED <<gcGen, objs, maybeDead>> /\ Home[t] \in Host /\ m.obj \in Object
  BY RemoteAssumption DEF Grow, gcVars, Message
<1>2. \E h \in Host : \E o \in Object : Touch(h, o)
  BY <1>1
<1>3. Steady(t)
  BY <1>1, <1>2, Keeping
<1>4. Generations'
  BY <1>1, <1>2, GenerationsStay
<1>5. FewOffers
  BY <1>1, OffersSend
<1>6. Tracks(t)
  BY <1>1, RemoteAssumption DEF Tracks, InLists, Object
<1>7. Handles(t)
  BY DEF Handles
<1>8. lastMsgGen'[Home[t]][m.obj] = gen[Home[t]]
  BY <1>1 DEF Touch, IInv, Typed
<1>9. \A g \in Gcs : ~Mark(m, g)
  BY DEF Mark, Flush, Scan
<1>10. own'[t] \in {own[t], None, m.obj} /\ pc'[t] # "making"
  OBVIOUS
<1>11. \A g \in Gcs : Scan(m, g) => Flush(msg[t], g)
  BY <1>9 DEF Mark
<1> QED BY <1>1, <1>3, <1>4, <1>5, <1>6, <1>7, <1>8, <1>9, <1>10, <1>11, SendStep

LEMMA AcknowledgeC ==
  ASSUME IInv, IInv', CInv, ~crashed, NEW t \in Thread, Acknowledge(t), UNCHANGED gcVars
  PROVE  CInv'
<1> DEFINE h == Home[t]  o == msg[t].obj
<1>1. /\ pc[t] = "acking" /\ SendFrom(h, From(h, o, "CREATE_ACK")) /\ h \in Host
      /\ UNCHANGED <<origin, made, created, held, msg, gen, listed, own>>
      /\ pc'[t] = (IF o \in Gcs THEN "onCreated" ELSE "adding") /\ Only(t)
  BY RemoteAssumption DEF Acknowledge, Goto, IInv, Typed, Only
<1>2. msg[t] \in Message /\ o \in Object /\ msg[t].type = "CREATE"
  BY <1>1 DEF IInv, Threads, ThreadOK, Carrying, Message
<1>3. PICK m \in Message : /\ m = From(h, o, "CREATE_ACK") /\ m.obj = o
                           /\ m.type = "CREATE_ACK" /\ m.stage = "ABSENT"
  BY <1>1, <1>2, Letter DEF IInv
<1>4. Send(h, m) /\ Touch(h, m.obj)
  BY <1>1, <1>3 DEF SendFrom
<1> QED BY <1>1, <1>2, <1>3, <1>4, SendFromStep DEF Handling

LEMMA ReplyC ==
  ASSUME IInv, IInv', CInv, ~crashed, NEW t \in Thread, Reply(t), UNCHANGED gcVars
  PROVE  CInv'
<1> DEFINE h == Home[t]  o == msg[t].obj
<1>1. /\ pc[t] = "replying" /\ SendFrom(h, From(h, o, "DATA")) /\ h \in Host
      /\ UNCHANGED <<origin, made, created, held, msg, gen, listed, own>>
      /\ pc'[t] = "done" /\ Only(t)
  BY RemoteAssumption DEF Reply, Goto, IInv, Typed, Only
<1>2. msg[t] \in Message /\ o \in Object
  BY <1>1 DEF IInv, Threads, ThreadOK, Carrying, Message
<1>0. o \notin Gcs
  BY <1>1, RemoteAssumption DEF CInv, Kinds
<1>3. PICK m \in Message : /\ m = From(h, o, "DATA") /\ m.obj = o /\ m.type = "DATA"
                           /\ m.stage = "ABSENT"
  BY <1>1, <1>2, Letter DEF IInv
<1>4. Send(h, m) /\ Touch(h, m.obj)
  BY <1>1, <1>3 DEF SendFrom
<1> QED BY <1>0, <1>1, <1>2, <1>3, <1>4, Unowned, SendFromStep DEF Handling

LEMMA SendDataC ==
  ASSUME IInv, IInv', CInv, ~crashed, NEW t \in Thread, NEW o \in App, SendData(t, o),
         UNCHANGED gcVars
  PROVE  CInv'
<1> DEFINE h == Home[t]
<1>1. /\ pc[t] = "idle" /\ SendFrom(h, From(h, o, "DATA")) /\ h \in Host
      /\ UNCHANGED <<origin, made, created, held, msg, gen, listed, own>>
      /\ pc'[t] = "idle" /\ Only(t) /\ o \in held[h]
  BY RemoteAssumption DEF SendData, CanCall, threads, IInv, Typed, Only
<1>2. o \in Object /\ o \notin Gcs
  BY RemoteAssumption DEF Object
<1>3. PICK m \in Message : /\ m = From(h, o, "DATA") /\ m.obj = o /\ m.type = "DATA"
                           /\ m.stage = "ABSENT"
  BY <1>1, <1>2, Letter DEF IInv
<1>4. Send(h, m) /\ Touch(h, m.obj)
  BY <1>1, <1>3 DEF SendFrom
<1> QED BY <1>1, <1>2, <1>3, <1>4, Unowned, SendFromStep DEF Handling

LEMMA MarkCompleteC ==
  ASSUME IInv, IInv', CInv, ~crashed, NEW t \in Thread, NEW o \in App, MarkComplete(t, o),
         UNCHANGED gcVars
  PROVE  CInv'
<1> DEFINE h == Home[t]
<1>1. /\ pc[t] = "idle" /\ SendFrom(h, From(h, o, "MARKCOMPLETE")) /\ h \in Host
      /\ UNCHANGED <<origin, made, created, held, msg, gen, listed, caller>>
      /\ o \in held[h]
      /\ pc' = [pc EXCEPT ![t] = "marking"] /\ own' = [own EXCEPT ![t] = o]
  BY RemoteAssumption DEF MarkComplete, CanCall, Goto
<1>0. pc'[t] = "marking" /\ own'[t] = o /\ Only(t)
  BY <1>1 DEF IInv, Typed, Only
<1>2. o \in Object /\ own[t] = None
  BY <1>1, Unowned DEF Object
<1>3. PICK m \in Message : /\ m = From(h, o, "MARKCOMPLETE") /\ m.obj = o
                           /\ m.type = "MARKCOMPLETE" /\ m.stage = "ABSENT"
  BY <1>1, <1>2, Letter DEF IInv
<1>4. Send(h, m) /\ Touch(h, m.obj)
  BY <1>1, <1>3 DEF SendFrom
<1> QED BY <1>0, <1>1, <1>2, <1>3, <1>4, SendFromStep DEF Handling

LEMMA SendListC ==
  ASSUME IInv, IInv', CInv, ~crashed, NEW t \in Thread, SendList(t)
  PROVE  CInv'
<1> DEFINE h == Home[t]  o == msg[t].obj
<1>1. /\ pc[t] = "listing" /\ h \in Host
      /\ SendFrom(h, [From(h, o, "DATA") EXCEPT !.list = msg[t].list])
      /\ UNCHANGED <<origin, made, created, held, msg, gen, listed, own, gcVars>>
      /\ pc'[t] = "done" /\ Only(t)
  BY RemoteAssumption DEF SendList, Goto, IInv, Typed, Only
<1>2. msg[t] \in Message /\ o \in Object /\ msg[t].list \in SUBSET Object
  BY <1>1 DEF IInv, Threads, ThreadOK, Carrying, Message
<1>3. PICK m \in Message : /\ m = From(h, o, "DATA") /\ m.obj = o /\ m.type = "DATA"
                           /\ m.stage = "ABSENT"
  BY <1>1, <1>2, Letter DEF IInv
<1>4. PICK n : n = [m EXCEPT !.list = msg[t].list]
  OBVIOUS
<1>5. /\ n \in Message /\ n.obj = o /\ n.type = "DATA" /\ n.stage = "ABSENT"
      /\ n.list = msg[t].list
  BY <1>2, <1>3, <1>4 DEF Message
<1>6. Send(h, n) /\ Touch(h, n.obj)
  BY <1>1, <1>3, <1>4, <1>5 DEF SendFrom
<1> QED BY <1>1, <1>2, <1>5, <1>6, Unowned, SendFromStep DEF Handling

LEMMA Notice ==
  ASSUME Typed, NEW h \in Host, NEW o \in Object, NEW stage \in Stages, Notify(h, o, stage)
  PROVE  \E m \in Message : /\ Send(h, m)
                            /\ m.obj = o /\ m.type = "NOTIFY" /\ m.stage = stage
<1>1. PICK m \in Message : m = From(h, o, "NOTIFY") /\ m.obj = o /\ m.type = "NOTIFY"
  BY Letter
<1>2. PICK n : n = [m EXCEPT !.src = FALSE, !.stage = stage]
  OBVIOUS
<1>3. n \in Message /\ n.obj = o /\ n.type = "NOTIFY" /\ n.stage = stage
  BY <1>1, <1>2 DEF Message
<1>4. Send(h, n)
  BY <1>1, <1>2, <1>3 DEF Notify, Send
<1> QED BY <1>3, <1>4

\* A handler that is past onCreated has swapped, and nobody else is before it.
LEMMA HandlerSwapped ==
  ASSUME IInv, CInv, NEW t \in Thread, msg[t] # NoMsg, msg[t].obj \in Gcs,
         pc[t] \in {"flushing", "dispatch"}
  PROVE  Swapped(Home[t], msg[t].obj)
<1>1. msg[t].obj \in created[Home[t]]
  BY DEF CInv, Locked, Handling
<1>2. ASSUME NEW u \in At(Home[t]), pc[u] \in {"acking", "onCreated"}, msg[u].obj = msg[t].obj
      PROVE  FALSE
  BY <1>2 DEF CInv, OneHandler, Handling, At
<1> QED BY <1>1, <1>2 DEF Swapped

\* Notifications of a handler of the collector, which may change lists of g.
LEMMA NotifyStep ==
  ASSUME IInv, IInv', CInv, ~crashed, NEW t \in Thread, Only(t),
         UNCHANGED <<origin, made, created, held, msg, gen, gcGen, lastMsgGen, own>>,
         \A h \in Host : \A g \in Gcs : maybeDead'[h][g] \subseteq maybeDead[h][g],
         \A h \in Host : \A o \in App : InLists(h, o) => InLists(h, o)',
         pc[t] \in {"flushing", "dispatch"}, msg[t].obj \in Gcs,
         NEW stage \in Stages, Notify(Home[t], msg[t].obj, stage),
         stage = "DO_SCAN" => msg[t].type = "NOTIFY" /\ msg[t].stage = "FLUSH_MSGS",
         (pc'[t] \in {"dispatch", "done"} /\ own[t] = None) \/ pc'[t] = "adding"
  PROVE  CInv'
<1> DEFINE h == Home[t]  g == msg[t].obj
<1>1. /\ Grow /\ h \in Host /\ g \in Object /\ msg[t] \in Message /\ msg[t] # NoMsg
      /\ g \notin App
  BY RemoteAssumption DEF Grow, IInv, Threads, ThreadOK, Carrying, Message, Object, NoMsg
<1>2. PICK m \in Message : /\ Send(h, m)
                           /\ m.obj = g /\ m.type = "NOTIFY" /\ m.stage = stage
  BY <1>1, Notice DEF IInv
<1>3. pc'[t] \notin {"acking", "onCreated", "making", "listing", "replying", "marking"}
  OBVIOUS
<1>4. Steady(t)
  BY <1>1, <1>3, Keeping
<1>5. Generations'
  BY GenerationsStay
<1>6. FewOffers
  BY <1>1, <1>2, <1>3, OffersSend
<1>7. Tracks(t)
  BY <1>3 DEF Tracks
<1>8. Handles(t)
  BY <1>1, <1>3, RemoteAssumption DEF Handles, Handling
<1>9. \A gg \in Gcs : Mark(m, gg) => Swapped(h, gg)'
  BY <1>1, <1>2, <1>4, HandlerSwapped DEF Mark, Flush, Scan, Steady
<1>10. \A gg \in Gcs : Scan(m, gg) => Flush(msg[t], gg)
  BY <1>2 DEF Flush, Scan
<1> QED BY <1>1, <1>2, <1>3, <1>4, <1>5, <1>6, <1>7, <1>8, <1>9, <1>10, SendStep

-----------------------------------------------------------------------------
(* The collector.                                                           *)

LEMMA FlushMsgsC ==
  ASSUME IInv, IInv', CInv, ~crashed, NEW t \in Thread, FlushMsgs(t)
  PROVE  CInv'
<1>1. /\ pc[t] = "flushing" /\ Notify(Home[t], msg[t].obj, "FLUSH_MSGS") /\ Only(t)
      /\ UNCHANGED <<origin, made, created, held, msg, gen, lastMsgGen, own, listed, gcVars>>
      /\ pc'[t] = (IF msg[t].type = "CREATE" THEN "adding" ELSE "dispatch")
  BY DEF FlushMsgs, Goto, objects, IInv, Typed, Only
<1>2. UNCHANGED <<gcGen, objs, maybeDead>>
  BY <1>1 DEF gcVars
<1>3. own[t] # None => msg[t].type = "CREATE"
  BY <1>1 DEF CInv, Owns
<1>4. msg[t].obj \in Gcs
  BY <1>1 DEF CInv, Kinds
<1> QED BY <1>1, <1>2, <1>3, <1>4, NotifyStep DEF Stages, InLists

\* The lists of the endpoint of g go back to its host.
LEMMA FinishupLists ==
  ASSUME IInv, NEW h \in Host, NEW g \in Gcs, NEW rest \in SUBSET Object, Finishup(h, g, rest)
  PROVE  /\ \A k \in Host : \A gg \in Gcs : maybeDead'[k][gg] \subseteq maybeDead[k][gg]
         /\ \A k \in Host : \A o \in App :
              InLists(k, o) => InLists(k, o)' \/ (k = h /\ o \in Kept(h, g) \ rest)
<1>1. /\ listed' = [listed EXCEPT ![h] = listed[h] \union rest]
      /\ objs' = [objs EXCEPT ![h] = [objs[h] EXCEPT ![g] = {}]]
      /\ maybeDead' = [maybeDead EXCEPT ![h] = [maybeDead[h] EXCEPT ![g] = {}]]
  BY DEF Finishup
<1>2. /\ \A k \in Host : maybeDead'[k] = IF k = h THEN [maybeDead[h] EXCEPT ![g] = {}]
                                         ELSE maybeDead[k]
      /\ \A k \in Host : objs'[k] = IF k = h THEN [objs[h] EXCEPT ![g] = {}] ELSE objs[k]
      /\ \A k \in Host : listed'[k] = IF k = h THEN listed[h] \union rest ELSE listed[k]
  BY <1>1 DEF IInv, Typed
<1>3. \A k \in Host : objs[k] \in [Gcs -> SUBSET Object] /\ maybeDead[k] \in [Gcs -> SUBSET Object]
  BY DEF IInv, Typed
<1>4. \A k \in Host : \A gg \in Gcs :
        /\ maybeDead'[k][gg] = IF k = h /\ gg = g THEN {} ELSE maybeDead[k][gg]
        /\ objs'[k][gg] = IF k = h /\ gg = g THEN {} ELSE objs[k][gg]
  <2> SUFFICES ASSUME NEW k \in Host, NEW gg \in Gcs
               PROVE  /\ maybeDead'[k][gg] = IF k = h /\ gg = g THEN {} ELSE maybeDead[k][gg]
                      /\ objs'[k][gg] = IF k = h /\ gg = g THEN {} ELSE objs[k][gg]
    OBVIOUS
  <2>1. CASE k = h
    <3>1. objs'[k] = [objs[h] EXCEPT ![g] = {}] /\ maybeDead'[k] = [maybeDead[h] EXCEPT ![g] = {}]
      BY <1>2, <2>1
    <3> QED BY <1>3, <2>1, <3>1
  <2>2. CASE k # h
    BY <1>2, <2>2
  <2> QED BY <2>1, <2>2
<1>5. \A k \in Host : \A gg \in Gcs : maybeDead'[k][gg] \subseteq maybeDead[k][gg]
  BY <1>4
<1>6. ASSUME NEW k \in Host, NEW o \in App, InLists(k, o)
      PROVE  InLists(k, o)' \/ (k = h /\ o \in Kept(h, g) \ rest)
  <2>1. CASE o \in listed[k]
    BY <1>2, <2>1 DEF InLists
  <2>2. CASE \E gg \in Gcs : o \in objs[k][gg] \union maybeDead[k][gg]
    <3>1. PICK gg \in Gcs : o \in objs[k][gg] \union maybeDead[k][gg]
      BY <2>2
    <3>2. CASE k = h /\ gg = g
      BY <1>2, <3>1, <3>2 DEF InLists, Kept
    <3>3. CASE ~(k = h /\ gg = g)
      BY <1>4, <3>1, <3>3 DEF InLists
    <3> QED BY <3>2, <3>3
  <2> QED BY <1>6, <2>1, <2>2 DEF InLists
<1> QED BY <1>5, <1>6

\* Only objects that are dead are dropped when a collection ends here.
LEMMA FinishupStep ==
  ASSUME IInv, IInv', CInv, ~crashed, NEW t \in Thread, Only(t),
         UNCHANGED <<control, origin, made, created, held, msg, gen, gcGen, lastMsgGen, own>>,
         pc[t] = "dispatch", pc'[t] = "done", msg[t].obj \in Gcs,
         NEW rest \in SUBSET Object, Finishup(Home[t], msg[t].obj, rest),
         \A o \in App : o \in Kept(Home[t], msg[t].obj) \ rest => Dead(o)
  PROVE  CInv'
<1>1. Grow /\ Home[t] \in Host /\ own[t] = None
  BY RemoteAssumption, Unowned DEF Grow
<1>2. Steady(t)
  BY <1>1, Keeping
<1>3. Generations'
  BY GenerationsStay
<1>4. /\ \A k \in Host : \A gg \in Gcs : maybeDead'[k][gg] \subseteq maybeDead[k][gg]
      /\ \A k \in Host : \A o \in App : InLists(k, o) => InLists(k, o)' \/ Dead(o)
  BY <1>1, FinishupLists
<1>5. FewOffers
  BY <1>4, OffersSame
<1>6. Tracks(t)
  BY <1>1, <1>4, RemoteAssumption DEF Tracks, Object
<1>7. Handles(t)
  BY <1>1 DEF Handles, Handling
<1> QED BY <1>1, <1>2, <1>3, <1>5, <1>6, <1>7, QuietStep

\* scan offers what is silent here, or what the other end uses.
LEMMA ScanOffers ==
  ASSUME IInv, CInv, ~crashed, NEW t \in Thread, pc[t] = "dispatch", msg[t].obj \in Gcs,
         msg[t].type = "NOTIFY", msg[t].stage = "DO_SCAN",
         NEW o \in App, o \in Unused(Home[t], msg[t].obj)
  PROVE  Offerable(Home[t], msg[t].obj, o)
<1> DEFINE h == Home[t]  g == msg[t].obj
<1>0. h \in Host /\ t \in At(h) /\ Other(h) \in Host /\ \A k \in Host : k = h \/ k = Other(h)
  BY RemoteAssumption, TwoHosts DEF At, Other
<1>1. Scan(msg[t], g)
  BY DEF Scan
<1>2. /\ o \in created[h] /\ ~InUse(h, o) /\ lastMsgGen[h][o] < gcGen[h][g]
  BY DEF Unused, CanDeleteLocal
<1>3. o \in made[h]
  BY <1>0, <1>2 DEF IInv, Endpoints
<1>4. ~UsedSince(h, g, o)
  <2>1. lastMsgGen[h][o] \in Nat /\ gcGen[h][g] \in Nat
    BY <1>0 DEF IInv, Typed, Object
  <2> QED BY <1>2, <2>1 DEF UsedSince
<1>5. Swapped(h, g) /\ Swapped(Other(h), g)
  BY <1>0, <1>1 DEF CInv, Order, Ordered, Mark
<1>6. Pushed(h, g, 1) /\ Pushed(Other(h), g, 1)
  BY <1>0, <1>1 DEF CInv, Pushing, Mark
<1>7. o \notin held[h] /\ \A u \in At(h) : msg[u].obj # o /\ own[u] # o
  <2>1. \A u \in At(h) : pc[u] = "making" => msg[u].obj # o
    BY <1>3 DEF CInv, CreatedOnce, Creations, At
  <2> QED BY <1>2, <2>1 DEF InUse, Pending
<1>8. \A i \in 1..Len(control[Other(h)]) : control[Other(h)][i].obj # o
  BY <1>0, <1>4, <1>6, TwoHosts DEF Pushed
<1>9. CASE \E i \in 1..Len(control[h]) : control[h][i].obj = o
  <2>1. UsedSince(Other(h), g, o)
    BY <1>6, <1>9 DEF Pushed
  <2>2. ~Silent(Other(h), o)
    BY <1>0, <1>9 DEF Silent
  <2> QED BY <1>3, <1>4, <1>5, <2>1, <2>2 DEF Offerable
<1>10. CASE \A i \in 1..Len(control[h]) : control[h][i].obj # o
  <2>1. Silent(h, o)
    BY <1>0, <1>7, <1>8, <1>10 DEF Silent
  <2> QED BY <1>3, <1>4, <1>5, <2>1 DEF Offerable
<1> QED BY <1>9, <1>10

\* The scan of an endpoint that finds something to offer.
Scans(t) ==
  LET h == Home[t]
      g == msg[t].obj
      dead == Unused(h, g)
  IN  /\ objs' = [objs EXCEPT ![h][g] = @ \ dead]
      /\ maybeDead' = [maybeDead EXCEPT ![h][g] = @ \union dead]
      /\ msg' = [msg EXCEPT ![t].list = dead]
      /\ Goto(t, "listing")
      /\ UNCHANGED <<control, objects, gcGen>>

LEMMA ScanC ==
  ASSUME IInv, IInv', CInv, ~crashed, NEW t \in Thread, GcDispatch(t),
         msg[t].stage = "DO_SCAN", Unused(Home[t], msg[t].obj) # {},
         Scans(t)
  PROVE  CInv'
<1> DEFINE h == Home[t]  g == msg[t].obj  dead == Unused(h, g)
<1>1. /\ pc[t] = "dispatch" /\ g \in Gcs /\ pc' = [pc EXCEPT ![t] = "listing"]
      /\ objs' = [objs EXCEPT ![h] = [objs[h] EXCEPT ![g] = objs[h][g] \ dead]]
      /\ maybeDead' = [maybeDead EXCEPT ![h] = [maybeDead[h] EXCEPT ![g] = maybeDead[h][g] \union dead]]
      /\ UNCHANGED <<control, origin, made, created, lastMsgGen, listed, held, gen, gcGen, caller, own>>
  BY DEF GcDispatch, Goto, objects, Scans
<1>2. /\ h \in Host /\ Grow /\ own[t] = None /\ msg[t] \in Message
  BY <1>1, RemoteAssumption, Unowned DEF Grow, IInv, Threads, ThreadOK, Carrying
<1>3. /\ msg'[t].type = msg[t].type /\ msg'[t].obj = g /\ msg'[t].stage = msg[t].stage
      /\ msg'[t].list = dead /\ \A u \in Thread \ {t} : msg'[u] = msg[u]
  <2>1. PICK m \in Message : m = msg[t]
    BY <1>2
  <2>2. PICK n : n = [m EXCEPT !.list = dead]
    OBVIOUS
  <2>3. n.obj = m.obj /\ n.type = m.type /\ n.stage = m.stage /\ n.list = dead
    BY <2>2 DEF Message
  <2>4. msg' = [msg EXCEPT ![t] = n]
    BY <2>1, <2>2 DEF Scans
  <2>5. msg'[t] = n /\ \A u \in Thread \ {t} : msg'[u] = msg[u]
    BY <2>4 DEF IInv, Typed
  <2> QED BY <2>1, <2>3, <2>5
<1>4. Only(t) /\ pc'[t] = "listing"
  BY <1>1, <1>3 DEF IInv, Typed, Only
<1>6. /\ \A k \in Host : \A gg \in Gcs :
           maybeDead'[k][gg] = IF k = h /\ gg = g THEN maybeDead[h][g] \union dead
                               ELSE maybeDead[k][gg]
      /\ \A k \in Host : \A gg \in Gcs :
           objs'[k][gg] = IF k = h /\ gg = g THEN objs[h][g] \ dead ELSE objs[k][gg]
  <2>1. objs \in [Host -> [Gcs -> SUBSET Object]] /\ maybeDead \in [Host -> [Gcs -> SUBSET Object]]
    BY DEF IInv, Typed
  <2> QED BY <1>1, <1>2, <2>1, EntryChanges
<1>7. msg[t].type = "NOTIFY"
  BY DEF CInv, Order, Ordered
<1>8. \A o \in App : o \in dead => Offerable(h, g, o)
  BY <1>1, <1>7, ScanOffers
<1>9. FewOffers
  <2> SUFFICES ASSUME NEW k \in Host, NEW gg \in Gcs, NEW o \in App, Offered(k, gg, o)'
               PROVE  Offered(k, gg, o) \/ Offerable(k, gg, o)
    BY DEF FewOffers
  <2>1. CASE o \in maybeDead'[k][gg]
    <3>1. o \in maybeDead[k][gg] \/ (k = h /\ gg = g /\ o \in dead)
      BY <1>6, <2>1
    <3> QED BY <1>8, <3>1 DEF Offered
  <2>2. CASE \E u \in At(k) : pc'[u] = "listing" /\ msg'[u].obj = gg /\ o \in msg'[u].list
    BY <1>3, <1>4, <1>8, <2>2 DEF Offered, At, Only
  <2>3. CASE \E i \in 1..Len(control'[Other(k)]) : Offers(control'[Other(k)][i], gg, o)
    BY <1>1, <2>3 DEF Offered
  <2>4. CASE \E u \in At(Other(k)) : Offers(msg'[u], gg, o)
    BY <1>3, <1>7, <2>4 DEF Offered, Offers, At
  <2> QED BY <2>1, <2>2, <2>3, <2>4 DEF Offered, At, Offers
<1>10. Tracks(t)
  <2>1. ASSUME NEW k \in Host, NEW o \in App, InLists(k, o) PROVE InLists(k, o)'
    <3>1. CASE o \in listed[k]
      BY <1>1, <3>1 DEF InLists
    <3>2. CASE \E gg \in Gcs : o \in objs[k][gg] \union maybeDead[k][gg]
      <4>1. PICK gg \in Gcs : o \in objs[k][gg] \union maybeDead[k][gg]
        BY <3>2
      <4>2. o \in objs'[k][gg] \union maybeDead'[k][gg]
        BY <1>6, <4>1
      <4> QED BY <4>2 DEF InLists
    <3> QED BY <2>1, <3>1, <3>2 DEF InLists
  <2> QED BY <1>1, <1>2, <2>1, RemoteAssumption DEF Tracks, Object
<1>11. Handles(t)
  BY <1>1, <1>2, <1>4 DEF Handles, Handling
<1>12. Steady(t)
  BY <1>1, <1>2, <1>4, Keeping
<1>13. Generations'
  BY <1>1, GenerationsStay
<1> QED BY <1>1, <1>3, <1>4, <1>9, <1>10, <1>11, <1>12, <1>13, QuietStep

LEMMA GcDispatchC ==
  ASSUME IInv, IInv', CInv, ~crashed, NEW t \in Thread, GcDispatch(t)
  PROVE  CInv'
<1> DEFINE h == Home[t]  g == msg[t].obj
<1>1. /\ pc[t] = "dispatch" /\ g \in Gcs /\ h \in Host /\ own[t] = None
      /\ UNCHANGED <<origin, gen, sent, caller, own, crashed>>
  BY RemoteAssumption, Unowned DEF GcDispatch
<1>2. msg[t] \in Message /\ (msg[t].stage # "ABSENT" => msg[t].type = "NOTIFY")
  <2>1. msg[t] \in Message
    BY <1>1 DEF IInv, Threads, ThreadOK, Carrying
  <2> QED BY <2>1 DEF CInv, Order, Ordered
<1>3. Kept(h, g) \in SUBSET Object
  <2>1. objs[h][g] \subseteq Object /\ maybeDead[h][g] \subseteq Object
    BY <1>1 DEF IInv, Typed
  <2> QED BY <2>1 DEF Kept
<1>4. CASE OnNotifyFlush(t)
  <2>1. /\ msg[t].stage = "FLUSH_MSGS" /\ Notify(h, g, "DO_SCAN")
        /\ UNCHANGED <<made, created, held, msg, gcGen, lastMsgGen, listed, objs, maybeDead>>
        /\ pc'[t] = "done" /\ Only(t)
    BY <1>1, <1>4 DEF OnNotifyFlush, Goto, objects, gcVars, IInv, Typed, Only
  <2> QED BY <1>1, <1>2, <2>1, NotifyStep DEF Stages, InLists
<1>5. CASE OnAck(t)
  <2>1. /\ UNCHANGED <<control, made, created, held, msg, lastMsgGen, listed, gcVars>>
        /\ pc'[t] = "done" /\ Only(t)
    BY <1>1, <1>5 DEF OnAck, Goto, objects, IInv, Typed, Only
  <2> QED BY <1>1, <2>1, Calm DEF Handling
<1>6. CASE OnNotifyAbort(t)
  <2>1. /\ Finishup(h, g, Kept(h, g)) /\ pc'[t] = "done" /\ Only(t)
        /\ UNCHANGED <<control, made, created, held, msg, gcGen, lastMsgGen>>
    BY <1>1, <1>6 DEF OnNotifyAbort, Goto, IInv, Typed, Only
  <2>2. \A o \in App : o \in Kept(h, g) \ Kept(h, g) => Dead(o)
    OBVIOUS
  <2> QED BY <1>1, <1>3, <2>1, <2>2, FinishupStep
<1>7. CASE OnRecv(t)
  <2>1. PICK rest : rest = objs[h][g] \union (maybeDead[h][g] \ msg[t].list)
    OBVIOUS
  <2>2. /\ Finishup(h, g, rest) /\ pc'[t] = "done" /\ Only(t) /\ msg[t].type = "DATA"
        /\ UNCHANGED <<control, made, created, held, msg, gcGen, lastMsgGen>>
    BY <1>1, <1>7, <2>1 DEF OnRecv, Goto, IInv, Typed, Only
  <2>3. rest \in SUBSET Object
    BY <1>3, <2>1 DEF Kept
  <2>4. ASSUME NEW o \in App, o \in Kept(h, g) \ rest PROVE Dead(o)
    <3>1. o \in maybeDead[h][g] /\ o \in msg[t].list
      BY <2>1, <2>4 DEF Kept
    <3>2. Offered(h, g, o) /\ Offered(Other(h), g, o)
      BY <1>1, <2>2, <3>1, TwoHosts DEF Offered, Offers, At
    <3> QED BY <1>1, <3>2 DEF CInv, Offering
  <2> QED BY <1>1, <2>2, <2>3, <2>4, FinishupStep
<1>8. CASE OnNotifyScan(t)
  <2>1. CASE Unused(h, g) # {}
    BY <1>8, <2>1, ScanC DEF OnNotifyScan, Scans
  <2>2. CASE Unused(h, g) = {}
    <3>1. /\ Notify(h, g, "ABORT_GC") /\ Finishup(h, g, Kept(h, g)) /\ pc'[t] = "done"
          /\ Only(t) /\ UNCHANGED <<made, created, held, msg, gcGen, lastMsgGen>>
      BY <1>1, <1>8, <2>2 DEF OnNotifyScan, Goto, IInv, Typed, Only
    <3>2. /\ \A k \in Host : \A gg \in Gcs : maybeDead'[k][gg] \subseteq maybeDead[k][gg]
          /\ \A k \in Host : \A o \in App : InLists(k, o) => InLists(k, o)'
      BY <1>1, <1>3, <3>1, FinishupLists
    <3> QED BY <1>1, <3>1, <3>2, NotifyStep DEF Stages
  <2> QED BY <2>1, <2>2
<1> QED BY <1>4, <1>5, <1>6, <1>7, <1>8 DEF GcDispatch

LEMMA OnCreatedC ==
  ASSUME IInv, IInv', CInv, ~crashed, NEW t \in Thread, OnCreated(t)
  PROVE  CInv'
<1> DEFINE h == Home[t]  g == msg[t].obj
<1>1. /\ pc[t] = "onCreated" /\ pc' = [pc EXCEPT ![t] = "flushing"]
      /\ gen' = [gen EXCEPT ![h] = gen[h] + 1]
      /\ gcGen' = [gcGen EXCEPT ![h] = [gcGen[h] EXCEPT ![g] = gen[h] + 1]]
      /\ listed' = [listed EXCEPT ![h] = objs[h][g]]
      /\ objs' = [objs EXCEPT ![h] = [objs[h] EXCEPT ![g] = listed[h]]]
      /\ UNCHANGED <<control, origin, made, created, lastMsgGen, held, msg, caller, own, maybeDead>>
  BY DEF OnCreated, Goto
<1>2. h \in Host /\ Grow /\ g \in Gcs /\ Only(t) /\ pc'[t] = "flushing" /\ t \in At(h)
  BY <1>1, RemoteAssumption DEF Grow, IInv, Typed, Threads, ThreadOK, Only, At
<1>3. /\ \A k \in Host : gen'[k] = IF k = h THEN gen[h] + 1 ELSE gen[k]
      /\ \A k \in Host : \A gg \in Gcs :
           gcGen'[k][gg] = IF k = h /\ gg = g THEN gen[h] + 1 ELSE gcGen[k][gg]
      /\ \A k \in Host : \A gg \in Gcs :
           objs'[k][gg] = IF k = h /\ gg = g THEN listed[h] ELSE objs[k][gg]
      /\ \A k \in Host : listed'[k] = IF k = h THEN objs[h][g] ELSE listed[k]
  <2>1. gcGen[h] \in [Gcs -> Nat] /\ objs[h] \in [Gcs -> SUBSET Object]
    BY <1>2 DEF IInv, Typed
  <2>2. /\ \A k \in Host : gcGen'[k] = IF k = h THEN [gcGen[h] EXCEPT ![g] = gen[h] + 1] ELSE gcGen[k]
        /\ \A k \in Host : objs'[k] = IF k = h THEN [objs[h] EXCEPT ![g] = listed[h]] ELSE objs[k]
        /\ \A k \in Host : gen'[k] = IF k = h THEN gen[h] + 1 ELSE gen[k]
        /\ \A k \in Host : listed'[k] = IF k = h THEN objs[h][g] ELSE listed[k]
    BY <1>1, <1>2 DEF IInv, Typed
  <2>3. ASSUME NEW k \in Host, NEW gg \in Gcs
        PROVE  /\ gcGen'[k][gg] = IF k = h /\ gg = g THEN gen[h] + 1 ELSE gcGen[k][gg]
               /\ objs'[k][gg] = IF k = h /\ gg = g THEN listed[h] ELSE objs[k][gg]
    <3>1. CASE k = h
      <4>1. gcGen'[k] = [gcGen[h] EXCEPT ![g] = gen[h] + 1] /\ objs'[k] = [objs[h] EXCEPT ![g] = listed[h]]
        BY <2>2, <3>1
      <4> QED BY <1>2, <2>1, <3>1, <4>1
    <3>2. CASE k # h
      BY <2>2, <3>2
    <3> QED BY <3>1, <3>2
  <2> QED BY <2>2, <2>3
<1>4. ~Swapped(h, g)
  BY <1>1, <1>2 DEF Swapped
<1>5. Steady(t)
  <2>1. ASSUME NEW k \in Host, NEW gg \in Gcs, Swapped(k, gg)
        PROVE  /\ Swapped(k, gg)' /\ \A o \in App : UsedSince(k, gg, o) => UsedSince(k, gg, o)'
    <3>1. gcGen'[k][gg] = gcGen[k][gg]
      BY <1>3, <1>4, <2>1
    <3>2. Swapped(k, gg)'
      BY <1>1, <1>2, <2>1 DEF Swapped, At, Only
    <3> QED BY <1>1, <3>1, <3>2 DEF UsedSince
  <2> QED BY <1>1, <1>2, <2>1 DEF Steady
<1>6. Generations'
  <2>1. \A k \in Host : gen[k] \in Nat /\ gen'[k] \in Nat /\ gen[k] <= gen'[k]
    BY <1>1, <1>2, <1>3 DEF IInv, Typed
  <2>2. \A k \in Host : \A gg \in Gcs : gcGen[k][gg] \in Nat /\ gcGen[k][gg] <= gen[k]
    BY DEF CInv, Generations, IInv, Typed
  <2>3. \A k \in Host : \A o \in Object : lastMsgGen[k][o] \in Nat /\ lastMsgGen[k][o] <= gen[k]
    BY DEF CInv, Generations, IInv, Typed
  <2>4. \A k \in Host : \A gg \in Gcs : gcGen'[k][gg] <= gen'[k]
    BY <1>3, <2>1, <2>2
  <2>5. lastMsgGen' = lastMsgGen
    BY <1>1
  <2> QED BY <2>1, <2>3, <2>4, <2>5 DEF Generations
<1>7. FewOffers
  BY <1>1, <1>2, OffersSame
<1>8. Tracks(t)
  <2>1. \A k \in Host : \A o \in App : InLists(k, o) => InLists(k, o)'
    BY <1>1, <1>2, <1>3 DEF InLists
  <2> QED BY <1>1, <1>2, <2>1 DEF Tracks
<1>9. Handles(t)
  BY <1>1, <1>2 DEF Handles, Handling, CInv, Owns
<1> QED BY <1>1, <1>2, <1>5, <1>6, <1>7, <1>8, <1>9, QuietStep

-----------------------------------------------------------------------------
(* Reading, making and listing.                                             *)

LEMMA ReadC ==
  ASSUME IInv, IInv', CInv, ~crashed, NEW t \in Thread, Read(t), UNCHANGED gcVars,
         pc[t] \in {"idle", "reading"}
  PROVE  CInv'
<1> DEFINE k == Home[t]
<1>1. /\ k \in Host /\ Len(control[k]) \in Nat /\ 1 \in 1..Len(control[k])
      /\ Len(control'[k]) = Len(control[k]) - 1
      /\ \A i \in 1..Len(control'[k]) :
           i + 1 \in 1..Len(control[k]) /\ control'[k][i] = control[k][i + 1]
      /\ \A h \in Host \ {k} : control'[h] = control[h]
      /\ msg'[t] = control[k][1] /\ msg'[t] \in Message /\ Only(t)
      /\ pc'[t] \in {"locking", "making"}
  BY Receiving
<1>2. /\ UNCHANGED <<origin, gen, made, created, listed, held, own, gcGen, objs, maybeDead>>
      /\ own[t] = None /\ Grow
  BY Unowned DEF Read, gcVars, Grow
<1>3. lastMsgGen' = lastMsgGen \/ \E h \in Host : \E o \in Object : Touch(h, o)
  BY <1>1 DEF Read, Message
<1>4. Steady(t)
  BY <1>1, <1>2, <1>3, Keeping
<1>5. Generations'
  BY <1>2, <1>3, GenerationsStay
<1>6. \A h \in Host : \A i \in 1..Len(control'[h]) :
        \E j \in 1..Len(control[h]) : control'[h][i] = control[h][j]
  <2> SUFFICES ASSUME NEW h \in Host, NEW i \in 1..Len(control'[h])
               PROVE  \E j \in 1..Len(control[h]) : control'[h][i] = control[h][j]
    OBVIOUS
  <2>1. CASE h = k
    BY <1>1, <2>1
  <2>2. CASE h # k
    BY <1>1, <2>2
  <2> QED BY <2>1, <2>2
<1>7. Ordered(k, msg[t])'
  <2>1. PICK m : m = control[k][1]
    OBVIOUS
  <2>2. Ordered(k, m)
    BY <1>1, <2>1 DEF CInv, Order
  <2>3. Ordered(k, m)'
    BY <1>1, <1>4, <2>2, OrderedStays DEF Steady
  <2> QED BY <1>1, <2>1, <2>3 DEF Ordered, Mark, Flush, Scan
<1>8. Order'
  BY <1>1, <1>4, <1>6, <1>7, OrderStays DEF Steady
<1>9. Pushing' /\ CreatedOnce'
  BY <1>4, PushRead, CreatedRead
<1>10. SilenceKept
  <2>1. PICK p : p = control[k][1].obj
    OBVIOUS
  <2>2. \E h \in Host : \E i \in 1..Len(control[h]) : control[h][i].obj = p
    BY <1>1, <2>1
  <2>3. msg'[t].obj = p /\ own'[t] = own[t] /\ \A h \in Host : held'[h] \subseteq held[h]
    BY <1>1, <1>2, <2>1
  <2> QED BY <1>1, <1>6, <2>2, <2>3, SilenceStays
<1>11. FewOffers
  <2> SUFFICES ASSUME NEW h \in Host, NEW g \in Gcs, NEW o \in App, Offered(h, g, o)'
               PROVE  Offered(h, g, o)
    BY DEF FewOffers
  <2>1. CASE o \in maybeDead'[h][g]
    BY <1>2, <2>1 DEF Offered
  <2>2. CASE \E u \in At(h) : pc'[u] = "listing" /\ msg'[u].obj = g /\ o \in msg'[u].list
    BY <1>1, <2>2 DEF Offered, At, Only
  <2>3. CASE \E i \in 1..Len(control'[Other(h)]) : Offers(control'[Other(h)][i], g, o)
    BY <1>6, <2>3, TwoHosts DEF Offered
  <2>4. CASE \E u \in At(Other(h)) : Offers(msg'[u], g, o)
    BY <1>1, <2>4 DEF Offered, At, Only
  <2> QED BY <2>1, <2>2, <2>3, <2>4 DEF Offered, At, Offers
<1>12. Tracks(t)
  BY <1>2, RemoteAssumption DEF Tracks, InLists, Object
<1>13. Handles(t)
  BY <1>1, <1>2 DEF Handles, Handling
<1> QED BY <1>4, <1>5, <1>8, <1>9, <1>10, <1>11, <1>12, <1>13, Assembled

LEMMA AddObjectC ==
  ASSUME IInv, IInv', CInv, ~crashed, NEW t \in Thread, AddObject(t), UNCHANGED gcVars
  PROVE  CInv'
<1> DEFINE h == Home[t]
<1>1. /\ pc[t] = "adding" /\ pc'[t] \in {"idle", "done", "spawning"} /\ h \in Host
      /\ listed' = [listed EXCEPT ![h] = listed[h] \union {own[t]}] /\ own'[t] = None
      /\ UNCHANGED <<control, origin, gen, made, created, lastMsgGen, held, msg>>
      /\ Only(t)
  BY RemoteAssumption DEF AddObject, Add, Goto, IInv, Typed, Only
<1>2. UNCHANGED <<gcGen, objs, maybeDead>> /\ Grow
  BY <1>1 DEF gcVars, Grow
<1>3. listed'[h] = listed[h] \union {own[t]} /\ \A k \in Host \ {h} : listed'[k] = listed[k]
  BY <1>1 DEF IInv, Typed
<1>4. Steady(t)
  BY <1>1, <1>2, Keeping
<1>5. Generations'
  BY <1>1, <1>2, GenerationsStay
<1>6. FewOffers
  BY <1>1, <1>2, OffersSame
<1>7. Tracks(t)
  BY <1>1, <1>2, <1>3 DEF Tracks, InLists
<1>8. Handles(t)
  BY <1>1 DEF Handles, Handling
<1> QED BY <1>1, <1>4, <1>5, <1>6, <1>7, <1>8, QuietStep

\* A new object has an endpoint at one host only, and its maker owns it.
LEMMA CreateRemoteObjectC ==
  ASSUME IInv, IInv', CInv, ~crashed, NEW t \in Thread, NEW o \in Object,
         CreateRemoteObject(t, o), UNCHANGED gcVars, pc[t] \in {"idle", "spawning"},
         held' = held \/ (o \in App /\ held' = Add(held, Home[t], o))
  PROVE  CInv'
<1> DEFINE k == Home[t]
<1>1. /\ k \in Host /\ origin[o] = k /\ o \notin made[k] /\ made' = Add(made, k, o)
      /\ SendFrom(k, From(k, o, "CREATE"))
      /\ own'[t] = o /\ pc'[t] = "adding" /\ Only(t)
      /\ UNCHANGED <<origin, gen, created, listed, msg, gcGen, objs, maybeDead>>
  BY RemoteAssumption DEF CreateRemoteObject, Goto, gcVars, IInv, Typed, Only
<1>2. PICK m \in Message : /\ m = From(k, o, "CREATE") /\ m.obj = o /\ m.type = "CREATE"
                           /\ m.stage = "ABSENT"
  BY <1>1, Letter DEF IInv
<1>3. Send(k, m) /\ Touch(k, o)
  BY <1>1, <1>2 DEF SendFrom
<1>4. made'[k] = made[k] \union {o} /\ \A h \in Host \ {k} : made'[h] = made[h]
  BY <1>1 DEF IInv, Typed, Add
<1>5. Grow
  BY <1>1, <1>4 DEF Grow
<1>6. Steady(t)
  BY <1>1, <1>3, <1>5, Keeping
<1>7. Generations'
  BY <1>1, <1>3, GenerationsStay
<1>8. CreatedOnce' /\ \A h \in Host : o \notin made[h]
  BY <1>1, <1>2, <1>3, CreatedNew
<1>9. lastMsgGen'[k][o] = gen[k]
  BY <1>1, <1>3 DEF Touch, IInv, Typed
<1>10. \A g \in Gcs : UsedSince(k, g, o)'
  BY <1>1, <1>9 DEF UsedSince, CInv, Generations
<1>11. \A g \in Gcs : ~Mark(m, g) /\ ~Scan(m, g)
  BY <1>2 DEF Mark, Flush, Scan
<1>12. Pushing'
  BY <1>1, <1>2, <1>3, <1>6, <1>10, <1>11, PushSend DEF Nothing
<1>13. Order'
  <2>1. Ordered(k, msg[t])'
    <3>1. PICK n : n = msg[t]
      OBVIOUS
    <3>2. Ordered(k, n)
      BY <3>1 DEF CInv, Order
    <3>3. Ordered(k, n)'
      BY <1>1, <1>6, <3>2, OrderedStays DEF Steady
    <3> QED BY <1>1, <3>1, <3>3 DEF Ordered, Mark, Flush, Scan
  <2>2. \A h \in Host : \A i \in 1..Len(control'[h]) :
          \/ \E j \in 1..Len(control[h]) : control'[h][i] = control[h][j]
          \/ Ordered(h, control[h][i])'
    <3> SUFFICES ASSUME NEW h \in Host, NEW i \in 1..Len(control'[h])
                 PROVE  \/ \E j \in 1..Len(control[h]) : control'[h][i] = control[h][j]
                        \/ Ordered(h, control[h][i])'
      OBVIOUS
    <3>1. \/ i \in 1..Len(control[h]) /\ control'[h][i] = control[h][i]
          \/ control'[h][i] = m
      BY <1>1, <1>3, Sending
    <3>2. CASE control'[h][i] = m
      BY <1>2, <1>11, <3>2 DEF Ordered, Mark, Flush, Scan
    <3> QED BY <3>1, <3>2
  <2> QED BY <1>1, <1>6, <2>1, <2>2, OrderStays DEF Steady
<1>14. SilenceKept
  <2>1. \A h \in Host : held'[h] \subseteq held[h] \/ (h = k /\ held'[h] \subseteq held[h] \union {o})
    <3>1. CASE held' = held
      BY <3>1
    <3>2. CASE held' = Add(held, k, o)
      BY <1>1, <3>2 DEF Add, IInv, Typed
    <3> QED BY <3>1, <3>2
  <2>2. \E n \in Message : Send(k, n) /\ n.obj = o
    BY <1>2, <1>3
  <2> QED BY <1>1, <1>8, <1>10, <2>1, <2>2, SilenceStays
<1>15. FewOffers
  BY <1>1, <1>2, <1>3, OffersSend
<1>16. own[t] = None /\ (pc[t] = "idle" => msg[t] = NoMsg)
  BY Unowned DEF IInv, Threads, ThreadOK, Empty
<1>17. Tracks(t)
  BY <1>1, <1>4, <1>16, RemoteAssumption DEF Tracks, InLists, Object
<1>18. Handles(t)
  BY <1>1, <1>16 DEF Handles, Handling
<1> QED BY <1>6, <1>7, <1>8, <1>12, <1>13, <1>14, <1>15, <1>17, <1>18, Assembled

\* The endpoint that a CREATE asks for is made once, and its handler owns it.
LEMMA MakeC ==
  ASSUME IInv, IInv', CInv, ~crashed, NEW t \in Thread, Make(t), UNCHANGED gcVars
  PROVE  CInv'
<1> DEFINE k == Home[t]  o == msg[t].obj
<1>0. /\ k \in Host /\ pc[t] = "making" /\ made' = Add(made, k, o)
      /\ created' = Add(created, k, o) /\ Touch(k, o)
      /\ held' = held \/ held' = Add(held, k, o)
      /\ pc' = [pc EXCEPT ![t] = "acking"] /\ own' = [own EXCEPT ![t] = o]
      /\ UNCHANGED <<control, origin, gen, listed, msg, caller, gcGen, objs, maybeDead>>
  BY RemoteAssumption DEF Make, Goto, gcVars
<1>1. /\ k \in Host /\ pc[t] = "making" /\ pc'[t] = "acking" /\ own'[t] = o /\ Only(t)
      /\ made' = Add(made, k, o) /\ created' = Add(created, k, o) /\ Touch(k, o)
      /\ held' = held \/ held' = Add(held, k, o)
      /\ UNCHANGED <<control, origin, gen, listed, msg, gcGen, objs, maybeDead>>
  BY <1>0 DEF IInv, Typed, Only
<1>2. msg[t] \in Message /\ o \in Object /\ msg[t].type = "CREATE" /\ own[t] = None
  BY <1>1, Unowned DEF IInv, Threads, ThreadOK, Carrying, Message
<1>3. Creations /\ o \notin made[k] /\ created[k] \subseteq made[k]
  BY <1>1 DEF CInv, CreatedOnce, Creations, IInv, Endpoints
<1>4. /\ made'[k] = made[k] \union {o} /\ \A h \in Host \ {k} : made'[h] = made[h]
      /\ created'[k] = created[k] \union {o} /\ \A h \in Host \ {k} : created'[h] = created[h]
  BY <1>1 DEF IInv, Typed, Add
<1>5. Grow /\ \A h \in Host : created[h] \subseteq created'[h]
  BY <1>1, <1>4 DEF Grow
<1>6. Steady(t)
  BY <1>1, <1>2, <1>3, <1>5, Keeping
<1>7. Generations'
  BY <1>1, <1>2, GenerationsStay
<1>8. CreatedOnce'
  BY CreatedMake
<1>9. Pushing'
  BY <1>1, <1>6, PushSame DEF Nothing
<1>10. Ordered(k, msg[t])'
  <2>1. PICK n : n = msg[t]
    OBVIOUS
  <2>2. Ordered(k, n)
    BY <2>1 DEF CInv, Order
  <2>3. Ordered(k, n)'
    BY <1>1, <1>6, <2>2, OrderedStays DEF Steady
  <2> QED BY <1>1, <2>1, <2>3 DEF Ordered, Mark, Flush, Scan
<1>11. Order'
  BY <1>1, <1>6, <1>10, OrderStays DEF Steady
<1>12. SilenceKept
  <2>1. \A h \in Host : held'[h] \subseteq held[h] \/ (h = k /\ held'[h] \subseteq held[h] \union {o})
    <3>1. CASE held' = held
      BY <3>1
    <3>2. CASE held' = Add(held, k, o)
      BY <1>1, <3>2 DEF Add, IInv, Typed
    <3> QED BY <1>1, <3>1, <3>2
  <2>2. PICK p : p = o
    OBVIOUS
  <2> QED BY <1>1, <2>1, <2>2, SilenceStays
<1>13. FewOffers
  BY <1>1, OffersSame
<1>14. Tracks(t)
  BY <1>1, <1>2, <1>4, RemoteAssumption DEF Tracks, InLists, Object
<1>15. Handles(t)
  <2>1. ASSUME NEW u \in Thread \ {t}, pc[u] \in Handling, Home[u] = k PROVE msg[u].obj # o
    <3>1. msg[u] # NoMsg => msg[u].obj \in made[k]
      BY <2>1 DEF IInv, Handled, Handling
    <3>2. NoMsg.obj # o
      BY <1>2, RemoteAssumption DEF NoMsg
    <3> QED BY <1>3, <3>1, <3>2
  <2> QED BY <1>1, <1>2, <1>4, <2>1 DEF Handles
<1> QED BY <1>6, <1>7, <1>8, <1>9, <1>11, <1>12, <1>13, <1>14, <1>15, Assembled

\* The same for every action, and for a step that does nothing.
LEMMA CallsC ==
  ASSUME IInv, IInv', CInv, ~crashed, NEW t \in Thread, NEW o \in App, UNCHANGED gcVars,
         \/ Create(t, o) \/ SendData(t, o) \/ MarkComplete(t, o) \/ Release(t, o)
         \/ WaitUntilComplete(t, o)
  PROVE  CInv'
<1>1. o \in Object
  BY DEF Object
<1>2. CASE Create(t, o)
  <2>1. /\ CreateRemoteObject(t, o) /\ pc[t] = "idle" /\ held' = Add(held, Home[t], o)
    BY <1>2 DEF Create
  <2> QED BY <1>1, <2>1, CreateRemoteObjectC
<1>3. CASE WaitUntilComplete(t, o)
  BY <1>3, WaitingC
<1> QED BY <1>2, <1>3, SendDataC, MarkCompleteC, ReleaseC

LEMMA GoingOnC ==
  ASSUME IInv, IInv', CInv, ~crashed, NEW t \in Thread, UNCHANGED gcVars,
         \/ ListenerRecv(t) \/ CallerRecv(t) \/ Lock(t) \/ Make(t)
         \/ Acknowledge(t) \/ AddObject(t) \/ Spawn(t) \/ Dispatch(t)
         \/ Reply(t) \/ Finish(t)
         \/ MarkCompleteMu(t) \/ Check(t) \/ TryRecv(t) \/ Spin(t) \/ Relock(t)
  PROVE  CInv'
<1>1. CASE ListenerRecv(t) \/ CallerRecv(t)
  BY <1>1, ReadC DEF ListenerRecv, CallerRecv
<1>2. CASE Spawn(t)
  <2>1. PICK g \in Gcs : CreateRemoteObject(t, g)
    BY <1>2 DEF Spawn
  <2>2. g \in Object /\ pc[t] = "spawning" /\ held' = held
    BY <1>2 DEF Spawn, Object
  <2> QED BY <2>1, <2>2, CreateRemoteObjectC
<1>3. CASE Check(t) \/ TryRecv(t) \/ Spin(t) \/ Relock(t) \/ Finish(t)
  BY <1>3, WaitingC
<1>4. CASE Lock(t) \/ Make(t) \/ Acknowledge(t) \/ AddObject(t)
  BY <1>4, LockC, MakeC, AcknowledgeC, AddObjectC
<1>5. CASE Dispatch(t) \/ Reply(t) \/ MarkCompleteMu(t)
  BY <1>5, DispatchC, ReplyC, MarkCompleteMuC
<1> QED BY <1>1, <1>2, <1>3, <1>4, <1>5

LEMMA CollectsC ==
  ASSUME IInv, IInv', CInv, ~crashed, NEW t \in Thread,
         OnCreated(t) \/ FlushMsgs(t) \/ GcDispatch(t) \/ SendList(t)
  PROVE  CInv'
BY OnCreatedC, FlushMsgsC, GcDispatchC, SendListC

LEMMA StutteringC ==
  ASSUME CInv, UNCHANGED vars
  PROVE  CInv'
<1> USE DEF vars, hostVars, objects, threads, gcVars
<1>1. Generations' /\ OneHandler' /\ Locked' /\ Owns' /\ Kinds'
  BY DEF CInv, Generations, OneHandler, Locked, Owns, Kinds
<1>2. CreatedOnce'
  BY DEF CInv, CreatedOnce, Creations, At
<1>3. Order' /\ Pushing'
  <2>1. Order'
    BY DEF CInv, Order, Ordered, Swapped, Mark, Flush, Scan, At
  <2>2. Pushing'
    BY DEF CInv, Pushing, Pushed, UsedSince, Mark, Flush, Scan
  <2> QED BY <2>1, <2>2
<1>4. Offering' /\ Tracked'
  BY DEF CInv, Offering, Offered, Offers, Swapped, UsedSince, Dead, Silent, Tracked,
         InLists, At
<1> QED BY <1>1, <1>2, <1>3, <1>4 DEF CInv

LEMMA InitialC ==
  ASSUME Init
  PROVE  CInv
<1>1. /\ control = [h \in Host |-> <<>>] /\ gen = [h \in Host |-> 0]
      /\ made = [h \in Host |-> {}] /\ created = [h \in Host |-> {}]
      /\ lastMsgGen = [h \in Host |-> [o \in Object |-> 0]]
      /\ pc = [t \in Thread |-> "idle"] /\ msg = [t \in Thread |-> NoMsg]
      /\ own = [t \in Thread |-> None]
      /\ gcGen = [h \in Host |-> [g \in Gcs |-> 0]]
      /\ maybeDead = [h \in Host |-> [g \in Gcs |-> {}]]
  BY DEF Init, RemoteHostInit
<1>2. \A h \in Host : Len(control[h]) = 0
  BY <1>1
<1>3. \A t \in Thread : pc[t] = "idle" /\ own[t] = None /\ ~(pc[t] \in Handling)
                        /\ msg[t].type = "none" /\ msg[t].stage = "ABSENT"
  BY <1>1 DEF Handling, NoMsg
<1>4. Generations
  BY <1>1 DEF Generations, Object
<1>5. OneHandler /\ Locked /\ Owns /\ Kinds
  BY <1>3 DEF OneHandler, Locked, Owns, Kinds
<1>6. CreatedOnce
  BY <1>1, <1>2, <1>3 DEF CreatedOnce, Creations
<1>7. Order /\ Pushing
  BY <1>2, <1>3 DEF Order, Ordered, Pushing, Pushed, Mark, Flush, Scan, At
<1>8. \A h \in Host : \A g \in Gcs : \A o \in App : ~Offered(h, g, o)
  BY <1>1, <1>2, <1>3, TwoHosts DEF Offered, Offers, At
<1>9. Offering /\ Tracked
  BY <1>1, <1>8 DEF Offering, Tracked
<1> QED BY <1>4, <1>5, <1>6, <1>7, <1>9 DEF CInv

\* In every reachable state the notifications of a collection push ahead of them
\* whatever was sent before its swaps, and what both ends have offered is dead.
THEOREM Collecting == Spec => []CInv
<1>1. Init => CInv
  BY InitialC
<1>2. IInv /\ IInv' /\ CInv /\ [Next]_vars => CInv'
  <2> SUFFICES ASSUME IInv, IInv', CInv, [Next]_vars PROVE CInv'
    OBVIOUS
  <2>1. CASE UNCHANGED vars
    BY <2>1, StutteringC
  <2>2. CASE Next
    <3>1. ~crashed
      BY <2>2, Steps
    <3>2. PICK t \in Thread :
            \/ /\ UNCHANGED gcVars
               /\ \/ ListenerRecv(t) \/ CallerRecv(t) \/ Lock(t) \/ Make(t)
                  \/ Acknowledge(t) \/ AddObject(t) \/ Spawn(t) \/ Dispatch(t)
                  \/ Reply(t) \/ Finish(t)
                  \/ MarkCompleteMu(t) \/ Check(t) \/ TryRecv(t) \/ Spin(t)
                  \/ Relock(t)
                  \/ \E o \in App : \/ Create(t, o) \/ SendData(t, o)
                                    \/ MarkComplete(t, o) \/ Release(t, o)
                                    \/ WaitUntilComplete(t, o)
            \/ OnCreated(t) \/ FlushMsgs(t) \/ GcDispatch(t) \/ SendList(t)
      BY <2>2, Steps
    <3> QED BY <3>1, <3>2, CallsC, GoingOnC, CollectsC
  <2> QED BY <2>1, <2>2
<1> QED BY <1>1, <1>2, Invariance, PTL DEF Spec

-----------------------------------------------------------------------------
(* What the collector must not delete.                                      *)

\* Users have references to the objects that users make, never to a collection.
HeldByUsers == \A h \in Host : held[h] \subseteq App

LEMMA HeldStays ==
  ASSUME Typed, HeldByUsers, [Next]_vars
  PROVE  HeldByUsers'
<1> USE DEF HeldByUsers
<1>1. SUFFICES ASSUME held' # held PROVE HeldByUsers'
  OBVIOUS
<1>2. Next
  BY <1>1 DEF vars, hostVars, objects
<1>3. PICK t \in Thread :
        \/ Make(t) \/ MarkCompleteMu(t) \/ \E o \in App : Create(t, o) \/ Release(t, o)
  <2>1. PICK t \in Thread :
          \/ /\ UNCHANGED gcVars
             /\ \/ ListenerRecv(t) \/ CallerRecv(t) \/ Lock(t) \/ Make(t)
                \/ Acknowledge(t) \/ AddObject(t) \/ Spawn(t) \/ Dispatch(t)
                \/ Reply(t) \/ Finish(t)
                \/ MarkCompleteMu(t) \/ Check(t) \/ TryRecv(t) \/ Spin(t)
                \/ Relock(t)
                \/ \E o \in App : \/ Create(t, o) \/ SendData(t, o)
                                  \/ MarkComplete(t, o) \/ Release(t, o)
                                  \/ WaitUntilComplete(t, o)
          \/ OnCreated(t) \/ FlushMsgs(t) \/ GcDispatch(t) \/ SendList(t)
    BY <1>2, Steps
  <2>2. ~(ListenerRecv(t) \/ CallerRecv(t) \/ Lock(t) \/ Acknowledge(t) \/ AddObject(t)
          \/ Spawn(t) \/ Dispatch(t) \/ Reply(t))
    BY <1>1 DEF ListenerRecv, CallerRecv, Read, Lock, Acknowledge, AddObject, Spawn,
                Dispatch, Reply
  <2>3. ~(Finish(t) \/ Check(t) \/ TryRecv(t) \/ Spin(t) \/ Relock(t))
    BY <1>1 DEF Finish, Check, TryRecv, Spin, Relock, objects
  <2>4. ~(OnCreated(t) \/ FlushMsgs(t) \/ SendList(t))
    BY <1>1 DEF OnCreated, FlushMsgs, SendList, objects
  <2>5. ~GcDispatch(t)
    BY <1>1 DEF GcDispatch, OnNotifyFlush, OnNotifyScan, OnNotifyAbort, OnRecv, OnAck, objects
  <2>6. ~\E o \in App : SendData(t, o) \/ MarkComplete(t, o) \/ WaitUntilComplete(t, o)
    BY <1>1 DEF SendData, MarkComplete, WaitUntilComplete, objects
  <2> QED BY <2>1, <2>2, <2>3, <2>4, <2>5, <2>6
<1>4. Home[t] \in Host
  BY RemoteAssumption
<1>5. CASE MarkCompleteMu(t) \/ \E o \in App : Release(t, o)
  <2>1. PICK o : held' = [held EXCEPT ![Home[t]] = held[Home[t]] \ {o}]
    BY <1>5 DEF MarkCompleteMu, Release, Drop
  <2> QED BY <1>4, <2>1 DEF Typed
<1>6. CASE \E o \in App : Create(t, o)
  BY <1>4, <1>6 DEF Create, Add, Typed
<1>7. CASE Make(t)
  <2>1. msg[t].obj \in App /\ held' = Add(held, Home[t], msg[t].obj)
    BY <1>1, <1>7 DEF Make
  <2>2. PICK o \in App : held' = [held EXCEPT ![Home[t]] = held[Home[t]] \union {o}]
    BY <2>1 DEF Add
  <2> QED BY <1>4, <2>2 DEF Typed
<1> QED BY <1>3, <1>5, <1>6, <1>7

\* Only what is dead is deleted.
LEMMA FreedIsDead ==
  ASSUME CInv, NEW h \in Host, NEW o \in App, Freed(h, o)
  PROVE  Dead(o)
BY DEF Freed, InUse, CInv, Tracked, InLists

\* While a user has a reference to an object, neither maybeDeletable nor onRecv of a
\* collection lets the other host delete its endpoint, to which the user may send.
THEOREM PeersLive == Spec => []PeerOfHeldLives
<1>1. Init => HeldByUsers
  BY DEF Init, RemoteHostInit, HeldByUsers
<1>2. IInv /\ HeldByUsers /\ [Next]_vars => HeldByUsers'
  BY HeldStays DEF IInv
<1>3. CInv /\ HeldByUsers => PeerOfHeldLives
  <2> SUFFICES ASSUME CInv, HeldByUsers, NEW h \in Host, NEW o \in held[h],
                      Freed(Other(h), o)
               PROVE  FALSE
    BY DEF PeerOfHeldLives
  <2>1. o \in App /\ Other(h) \in Host
    BY TwoHosts DEF HeldByUsers
  <2>2. Dead(o)
    BY <2>1, FreedIsDead
  <2> QED BY <2>2 DEF Dead, Silent
<1> QED BY <1>1, <1>2, <1>3, Invariance, Collecting, PTL DEF Spec

\* What a message about an object of a user is for has not been deleted when recv
\* reads it: dstptr, a bare address, is good.
ObjectsLive ==
  \A h \in Host : \A i \in 1..Len(control[h]) :
    control[h][i].dst /\ control[h][i].obj \in App => ~Freed(h, control[h][i].obj)

\* However many collections there are, no message in a channel has the address of an
\* endpoint of a user's object that a collection has deleted.
THEOREM AddressesAreGood == Spec => []ObjectsLive
<1>1. CInv => ObjectsLive
  <2> SUFFICES ASSUME CInv, NEW h \in Host, NEW i \in 1..Len(control[h]),
                      control[h][i].obj \in App, Freed(h, control[h][i].obj)
               PROVE  FALSE
    BY DEF ObjectsLive
  <2>1. PICK o \in App : o = control[h][i].obj
    OBVIOUS
  <2>2. Dead(o)
    BY <2>1, FreedIsDead
  <2> QED BY <2>1, <2>2 DEF Dead, Silent
<1> QED BY <1>1, Collecting, PTL

=============================================================================

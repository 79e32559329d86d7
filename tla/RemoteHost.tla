----------------------------- MODULE RemoteHost -----------------------------
(***************************************************************************)
(* Pairs of objects on two hosts and the control connection between them   *)
(* (runtime/remotehost.cpp, remoteobject.h, remoteobject.cpp).             *)
(*                                                                         *)
(* An object has an endpoint on each host; both carry its name here.  The  *)
(* control socket is a FIFO, but several threads read it: the listeners,   *)
(* and a user that waits for its object.  A message is read under          *)
(* _controlReadmu and handled later, under the object's lock, so handlers  *)
(* can overtake one another.                                               *)
(*                                                                         *)
(* _pendingMessages, the object locks and _controlReadmu are functions of  *)
(* what the threads are doing and need no variables of their own.  The     *)
(* data sockets are left out: a payload arrives with its header.           *)
(***************************************************************************)
EXTENDS Naturals, Sequences, FiniteSets

CONSTANTS Host, Listener, User,
          Home,    \* the host of each thread
          App,     \* objects made by users
          Gcs,     \* objects made by addObject: module DistributedGC
          Origins, \* who may make what: functions from objects to hosts
          Senders, \* the users that send data, once for each object
          None

Thread == Listener \union User
Object == App \union Gcs

ASSUME RemoteAssumption ==
  /\ IsFiniteSet(Host) /\ Cardinality(Host) = 2
  /\ Home \in [Thread -> Host] /\ Listener \intersect User = {}
  /\ Senders \subseteq User
  /\ App \intersect Gcs = {} /\ None \notin Object
  /\ Origins \subseteq [Object -> Host] /\ Origins # {}

Other(h) == CHOOSE k \in Host : k # h

VARIABLES control,    \* to each host, the messages it has not read
          origin,     \* the host that makes an object; for Gcs: _shouldGc
          gen,        \* RemoteHost::_currentGen
          made,       \* the endpoints that were constructed
          created,    \* FLAG_CREATED
          complete,   \* FLAG_COMPLETE
          peer,       \* the endpoints whose _remoteObj is not 0
          lastMsgGen, \* RemoteObject::_lastMsgGen
          listed,     \* RemoteHost::_objects
          held,       \* the endpoints users have a reference to
          sent,       \* the endpoints data was sent from (bound: once each)
          pc, msg,    \* what a thread does, and with which message
          caller,     \* the argument of recv: the object its thread waits for
          own,        \* the object a thread is making or completing
          crashed     \* a handler used a null object

objects == <<made, created, complete, peer, lastMsgGen, listed, held>>
threads == <<pc, msg, caller, own>>
hostVars == <<control, origin, gen, objects, sent, threads, crashed>>

Stages == {"ABSENT", "FLUSH_MSGS", "DO_SCAN", "ABORT_GC"}
Message ==
  [type : {"CREATE", "CREATE_ACK", "DATA", "NOTIFY", "MARKCOMPLETE"},
   obj : Object,
   src : BOOLEAN,      \* srcptr # 0
   dst : BOOLEAN,      \* dstptr # 0
   stage : Stages,     \* the argument of a NOTIFY
   list : SUBSET Object]
NoMsg == [type |-> "none", obj |-> None, src |-> FALSE, dst |-> FALSE,
          stage |-> "ABSENT", list |-> {}]

\* The stages of a handler that holds the lock of its message's object.
Handling == {"acking", "onCreated", "flushing", "adding", "spawning", "dispatch"}
PCs == Handling \union
       {"idle", "making", "locking", "listing", "replying", "done",
        "marking", "check", "try", "spin", "relock", "reading"}

At(h) == {t \in Thread : Home[t] = h}

\* _pendingMessages > 0 at h: a message to o was read and is not yet handled.
Pending(h, o) ==
  \E t \in At(h) : pc[t] # "making" /\ msg[t].obj = o

LockFree(h, o) ==
  \A t \in At(h) :
    /\ ~(pc[t] \in Handling /\ msg[t].obj = o)
    /\ ~(pc[t] \in {"check", "try"} /\ caller[t] = o)

\* _controlReadmu is held across steps only by a user blocked in readAll.
ReadmuFree(h) == \A t \in At(h) : pc[t] # "reading"

\* Somebody other than a list of objects has a reference to the endpoint.
InUse(h, o) ==
  \/ o \in held[h]
  \/ \E t \in At(h) : own[t] = o
  \/ Pending(h, o)

RemoteHostInit ==
  /\ control = [h \in Host |-> <<>>]
  /\ origin \in Origins
  /\ gen = [h \in Host |-> 0]
  /\ made = [h \in Host |-> {}]
  /\ created = [h \in Host |-> {}]
  /\ complete = [h \in Host |-> {}]
  /\ peer = [h \in Host |-> {}]
  /\ lastMsgGen = [h \in Host |-> [o \in Object |-> 0]]
  /\ listed = [h \in Host |-> {}]
  /\ held = [h \in Host |-> {}]
  /\ sent = [h \in Host |-> {}]
  /\ pc = [t \in Thread |-> "idle"]
  /\ msg = [t \in Thread |-> NoMsg]
  /\ caller = [t \in Thread |-> None]
  /\ own = [t \in Thread |-> None]
  /\ crashed = FALSE

Add(f, h, o) == [f EXCEPT ![h] = @ \union {o}]
Drop(f, h, o) == [f EXCEPT ![h] = @ \ {o}]
Goto(t, where) == pc' = [pc EXCEPT ![t] = where]

-----------------------------------------------------------------------------
\* Sending.  dstptr is whatever the sender's _remoteObj holds.

Send(h, m) == control' = [control EXCEPT ![Other(h)] = Append(@, m)]
Touch(h, o) == lastMsgGen' = [lastMsgGen EXCEPT ![h][o] = gen[h]]
From(h, o, type) ==
  [type |-> type, obj |-> o, src |-> TRUE, dst |-> o \in peer[h],
   stage |-> "ABSENT", list |-> {}]

\* A message with a source also marks its sender as used in this generation.
SendFrom(h, m) == Send(h, m) /\ Touch(h, m.obj)

\* remoteNotify leaves srcptr 0.
Notify(h, o, stage) ==
  Send(h, [From(h, o, "NOTIFY") EXCEPT !.src = FALSE, !.stage = stage])

-----------------------------------------------------------------------------
\* Receiving.

\* The part of recv under _controlReadmu.  Only CREATE has no destination;
\* the handler of any other message without one uses a null object.
Read(t) ==
  LET h == Home[t]
      m == Head(control[h])
  IN  /\ control[h] # <<>>
      /\ control' = [control EXCEPT ![h] = Tail(@)]
      /\ msg' = [msg EXCEPT ![t] = m]
      /\ Goto(t, IF m.dst THEN "locking" ELSE "making")
      /\ crashed' = (~m.dst /\ m.type # "CREATE")
      /\ IF m.dst THEN Touch(h, m.obj) ELSE UNCHANGED lastMsgGen
      /\ UNCHANGED <<origin, gen, made, created, complete, peer, listed, held,
                     sent, caller, own>>

\* trylock and tryReadAll: without a message, or with the lock taken, the
\* listener goes back to its poll loop.
ListenerRecv(t) ==
  /\ t \in Listener
  /\ pc[t] = "idle"
  /\ ReadmuFree(Home[t])
  /\ Read(t)

CallerRecv(t) ==
  /\ pc[t] = "reading"
  /\ Read(t)

\* Every message can be the first one: the object takes its peer from it.
\* The default onCreated does nothing.
Lock(t) ==
  LET h == Home[t]
      o == msg[t].obj
  IN  /\ pc[t] = "locking"
      /\ LockFree(h, o)
      /\ IF o \in created[h]
         THEN Goto(t, "dispatch") /\ UNCHANGED <<created, peer>>
         ELSE /\ created' = Add(created, h, o)
              /\ peer' = IF msg[t].src THEN Add(peer, h, o) ELSE peer
              /\ Goto(t, IF o \in Gcs THEN "onCreated" ELSE "dispatch")
      /\ UNCHANGED <<control, origin, gen, made, complete, lastMsgGen, listed,
                     held, sent, msg, caller, own, crashed>>

\* REMOTEOBJECT_CREATE, up to onRecvInitial.  The object may hand a reference
\* to a task, as RemoteTaskReciever does, before the acknowledgement is sent.
Make(t) ==
  LET h == Home[t]
      o == msg[t].obj
  IN  /\ pc[t] = "making"
      /\ made' = Add(made, h, o)
      /\ peer' = Add(peer, h, o)
      /\ created' = Add(created, h, o)
      /\ Touch(h, o)
      /\ \/ o \in App /\ held' = Add(held, h, o)
         \/ UNCHANGED held
      /\ own' = [own EXCEPT ![t] = o]
      /\ Goto(t, "acking")
      /\ UNCHANGED <<control, origin, gen, complete, listed, sent, msg, caller,
                     crashed>>

\* Every object is acknowledged: nothing calls markSkipCreateAckMu.
Acknowledge(t) ==
  LET o == msg[t].obj
  IN  /\ pc[t] = "acking"
      /\ SendFrom(Home[t], From(Home[t], o, "CREATE_ACK"))
      /\ Goto(t, IF o \in Gcs THEN "onCreated" ELSE "adding")
      /\ UNCHANGED <<origin, gen, made, created, complete, peer, listed, held,
                     sent, msg, caller, own, crashed>>

\* addObject.  The host with _shouldGc goes on to spawnGcTask when it has
\* DISTRIBUTED_GC_FREQ new objects: here, at some addition.
AddObject(t) ==
  LET h == Home[t]
      mayGc == \E g \in Gcs : origin[g] = h /\ g \notin made[h]
  IN  /\ pc[t] = "adding"
      /\ listed' = Add(listed, h, own[t])
      /\ own' = [own EXCEPT ![t] = None]
      /\ \/ Goto(t, IF msg[t] = NoMsg THEN "idle" ELSE "done")
         \/ mayGc /\ Goto(t, "spawning")
      /\ UNCHANGED <<control, origin, gen, made, created, complete, peer,
                     lastMsgGen, held, sent, msg, caller, crashed>>

\* createRemoteObject, up to its addObject.
CreateRemoteObject(t, o) ==
  LET h == Home[t]
  IN  /\ origin[o] = h /\ o \notin made[h]
      /\ made' = Add(made, h, o)
      /\ SendFrom(h, From(h, o, "CREATE"))
      /\ own' = [own EXCEPT ![t] = o]
      /\ Goto(t, "adding")
      /\ UNCHANGED <<origin, gen, created, complete, peer, listed, sent, msg,
                     caller, crashed>>

Spawn(t) ==
  /\ pc[t] = "spawning"
  /\ \E g \in Gcs : CreateRemoteObject(t, g)
  /\ UNCHANGED held

\* The switch of recv for the objects of users, to the unlock.  The end that
\* made an object takes data in; the other end answers it, as a
\* RegionMatrixProxy does, by sendMu.
Dispatch(t) ==
  LET h == Home[t]
      o == msg[t].obj
      type == msg[t].type
  IN  /\ pc[t] = "dispatch" /\ o \in App
      /\ complete' = IF type = "MARKCOMPLETE" THEN Add(complete, h, o) ELSE complete
      /\ Goto(t, IF type = "DATA" /\ origin[o] # h THEN "replying" ELSE "done")
      /\ UNCHANGED <<control, origin, gen, made, created, peer, lastMsgGen,
                     listed, held, sent, msg, caller, own, crashed>>

\* sendMu between its unlock and its lock, under which nothing is left to do.
Reply(t) ==
  /\ pc[t] = "replying"
  /\ SendFrom(Home[t], From(Home[t], msg[t].obj, "DATA"))
  /\ Goto(t, "done")
  /\ UNCHANGED <<origin, gen, made, created, complete, peer, listed, held, sent,
                 msg, caller, own, crashed>>

\* The end of recv: _pendingMessages goes down after the unlock.
Finish(t) ==
  /\ pc[t] = "done"
  /\ msg' = [msg EXCEPT ![t] = NoMsg]
  /\ Goto(t, IF caller[t] = None THEN "idle" ELSE "relock")
  /\ UNCHANGED <<control, origin, gen, objects, sent, caller, own, crashed>>

-----------------------------------------------------------------------------
\* Users.

Create(u, o) ==
  /\ u \in User /\ o \in App
  /\ pc[u] = "idle"
  /\ CreateRemoteObject(u, o)
  /\ held' = Add(held, Home[u], o)

\* Calls that use the connection begin with waitUntilCreated.
CanCall(u, o) ==
  /\ u \in User /\ o \in App
  /\ pc[u] = "idle"
  /\ o \in held[Home[u]] \intersect created[Home[u]]

SendData(u, o) ==
  LET h == Home[u]
  IN  /\ CanCall(u, o)
      /\ u \in Senders /\ o \notin sent[h]
      /\ sent' = Add(sent, h, o)
      /\ SendFrom(h, From(h, o, "DATA"))
      /\ UNCHANGED <<origin, gen, made, created, complete, peer, listed, held,
                     threads, crashed>>

\* markComplete, as CallMarkComplete does it for a RemoteTaskReciever.
MarkComplete(u, o) ==
  LET h == Home[u]
  IN  /\ CanCall(u, o)
      /\ origin[o] # h
      /\ SendFrom(h, From(h, o, "MARKCOMPLETE"))
      /\ own' = [own EXCEPT ![u] = o]
      /\ Goto(u, "marking")
      /\ UNCHANGED <<origin, gen, made, created, complete, peer, listed, held,
                     sent, msg, caller, crashed>>

\* ... and its reference goes with the task.
MarkCompleteMu(u) ==
  LET h == Home[u]
  IN  /\ pc[u] = "marking"
      /\ LockFree(h, own[u])
      /\ complete' = Add(complete, h, own[u])
      /\ held' = Drop(held, h, own[u])
      /\ own' = [own EXCEPT ![u] = None]
      /\ Goto(u, "idle")
      /\ UNCHANGED <<control, origin, gen, made, created, peer, lastMsgGen,
                     listed, sent, msg, caller, crashed>>

Release(u, o) ==
  LET h == Home[u]
  IN  /\ u \in User /\ pc[u] = "idle"
      /\ o \in held[h] /\ origin[o] = h
      /\ held' = Drop(held, h, o)
      /\ UNCHANGED <<control, origin, gen, made, created, complete, peer,
                     lastMsgGen, listed, sent, threads, crashed>>

\* waitUntilComplete takes the lock ...
WaitUntilComplete(u, o) ==
  LET h == Home[u]
  IN  /\ u \in User /\ pc[u] = "idle"
      /\ o \in held[h] \ complete[h] /\ origin[o] = h
      /\ LockFree(h, o)
      /\ caller' = [caller EXCEPT ![u] = o]
      /\ Goto(u, "check")
      /\ UNCHANGED <<control, origin, gen, objects, sent, msg, own, crashed>>

\* Faulty: the wait for a handler of the object keeps the object locked.
CheckStubborn(u) ==
  LET h == Home[u]
      o == caller[u]
  IN  /\ pc[u] = "check"
      /\ IF o \in complete[h]
         THEN Goto(u, "idle") /\ caller' = [caller EXCEPT ![u] = None]
         ELSE Goto(u, "try") /\ UNCHANGED caller
      /\ UNCHANGED <<control, origin, gen, objects, sent, msg, own, crashed>>

\* ... and calls waitMsgMu while FLAG_COMPLETE is off.
Check(u) ==
  LET h == Home[u]
      o == caller[u]
  IN  /\ pc[u] = "check"
      /\ IF o \in complete[h]
         THEN Goto(u, "idle") /\ caller' = [caller EXCEPT ![u] = None]
         ELSE /\ Goto(u, IF Pending(h, o) THEN "spin" ELSE "try")
              /\ UNCHANGED caller
      /\ UNCHANGED <<control, origin, gen, objects, sent, msg, own, crashed>>

\* Faulty: only waitMsgMu looks, before the trylock.
TryRecvBlind(u) ==
  /\ pc[u] = "try"
  /\ Goto(u, IF ReadmuFree(Home[u]) THEN "reading" ELSE "check")
  /\ UNCHANGED <<control, origin, gen, objects, sent, msg, caller, own, crashed>>

\* recv with a caller looks again, now that nobody else can read.  The user
\* then unlocks its object and blocks in readAll.
TryRecv(u) ==
  LET h == Home[u]
  IN  /\ pc[u] = "try"
      /\ Goto(u, IF ReadmuFree(h) /\ ~Pending(h, caller[u])
                 THEN "reading" ELSE "check")
      /\ UNCHANGED <<control, origin, gen, objects, sent, msg, caller, own,
                     crashed>>

Spin(u) ==
  /\ pc[u] = "spin" /\ ~Pending(Home[u], caller[u])
  /\ Goto(u, "relock")
  /\ UNCHANGED <<control, origin, gen, objects, sent, msg, caller, own, crashed>>

Relock(u) ==
  /\ pc[u] = "relock" /\ LockFree(Home[u], caller[u])
  /\ Goto(u, "check")
  /\ UNCHANGED <<control, origin, gen, objects, sent, msg, caller, own, crashed>>

\* What a thread does in recv and addObject, whatever the objects are.
Receive(t) ==
  \/ ListenerRecv(t) \/ CallerRecv(t) \/ Lock(t) \/ Make(t) \/ Acknowledge(t)
  \/ AddObject(t) \/ Spawn(t) \/ Dispatch(t) \/ Reply(t) \/ Finish(t)

\* What a user must go on with once it has begun.
GoOn(u) ==
  MarkCompleteMu(u) \/ Check(u) \/ TryRecv(u) \/ Spin(u) \/ Relock(u)

Call(u) ==
  \E o \in App : \/ Create(u, o) \/ SendData(u, o) \/ MarkComplete(u, o)
                 \/ Release(u, o) \/ WaitUntilComplete(u, o)
=============================================================================

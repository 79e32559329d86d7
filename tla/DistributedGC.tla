--------------------------- MODULE DistributedGC ---------------------------
(***************************************************************************)
(* The collection of remote objects (runtime/distributedgc.cpp) on top of  *)
(* RemoteHost.  A DistributedGC object is itself a remote object: its two  *)
(* endpoints take the lists of objects of their hosts, flush the channels  *)
(* with a notification each way, scan, exchange the objects that look      *)
(* unused, and drop those that look unused at both ends.                   *)
(***************************************************************************)
EXTENDS RemoteHost

VARIABLES gcGen,     \* DistributedGC::_gen
          objs,      \* DistributedGC::_objects
          maybeDead  \* DistributedGC::_objectsMaybeDead

gcVars == <<gcGen, objs, maybeDead>>
vars == <<hostVars, gcVars>>

Init ==
  /\ RemoteHostInit
  /\ gcGen = [h \in Host |-> [g \in Gcs |-> 0]]
  /\ objs = [h \in Host |-> [g \in Gcs |-> {}]]
  /\ maybeDead = [h \in Host |-> [g \in Gcs |-> {}]]

\* The last reference of a constructed endpoint is gone: it was deleted.
Freed(h, o) ==
  /\ o \in made[h] \ listed[h]
  /\ \A g \in Gcs : o \notin objs[h][g] \union maybeDead[h][g]
  /\ ~InUse(h, o)

\* Faulty: an object that was used since the swap is taken for unused.
CanDeleteUsed(h, g, o) == o \in created[h] /\ ~InUse(h, o)

\* maybeDeletable for an object of the list of g, whose reference is the one
\* that refCount()==1 allows.  What is pending is also in use.
CanDeleteLocal(h, g, o) ==
  /\ o \in created[h]
  /\ ~InUse(h, o)
  /\ lastMsgGen[h][o] < gcGen[h][g]

-----------------------------------------------------------------------------
\* onCreated: swapObjects, which starts a generation, and ...
OnCreated(t) ==
  LET h == Home[t]
      g == msg[t].obj
  IN  /\ pc[t] = "onCreated"
      /\ gen' = [gen EXCEPT ![h] = @ + 1]
      /\ gcGen' = [gcGen EXCEPT ![h][g] = gen[h] + 1]
      /\ listed' = [listed EXCEPT ![h] = objs[h][g]]
      /\ objs' = [objs EXCEPT ![h][g] = listed[h]]
      /\ Goto(t, "flushing")
      /\ UNCHANGED <<control, origin, made, created, complete, peer, lastMsgGen,
                     held, sent, msg, caller, own, crashed, maybeDead>>

\* ... the notification that pushes older messages out of the channel.
FlushMsgs(t) ==
  /\ pc[t] = "flushing"
  /\ Notify(Home[t], msg[t].obj, "FLUSH_MSGS")
  /\ Goto(t, IF msg[t].type = "CREATE" THEN "adding" ELSE "dispatch")
  /\ UNCHANGED <<origin, gen, objects, sent, msg, caller, own, crashed, gcVars>>

\* finishup: everything the endpoint of g still has goes back to its host.
Finishup(h, g, rest) ==
  /\ listed' = [listed EXCEPT ![h] = @ \union rest]
  /\ objs' = [objs EXCEPT ![h][g] = {}]
  /\ maybeDead' = [maybeDead EXCEPT ![h][g] = {}]
  /\ complete' = Add(complete, h, g)

Unused(h, g) == {o \in objs[h][g] : CanDeleteLocal(h, g, o)}
Kept(h, g) == objs[h][g] \union maybeDead[h][g]

OnNotifyFlush(t) ==
  /\ msg[t].stage = "FLUSH_MSGS"
  /\ Notify(Home[t], msg[t].obj, "DO_SCAN")
  /\ Goto(t, "done")
  /\ UNCHANGED <<objects, msg, gcVars>>

\* Faulty: with nothing to offer the scan ends here, and the other end waits.
OnNotifyScanSilent(t) ==
  LET h == Home[t]
      g == msg[t].obj
      dead == Unused(h, g)
  IN  /\ msg[t].stage = "DO_SCAN"
      /\ \/ /\ dead # {}
            /\ objs' = [objs EXCEPT ![h][g] = @ \ dead]
            /\ maybeDead' = [maybeDead EXCEPT ![h][g] = @ \union dead]
            /\ msg' = [msg EXCEPT ![t].list = dead]
            /\ Goto(t, "listing")
            /\ UNCHANGED objects
         \/ /\ dead = {}
            /\ Finishup(h, g, Kept(h, g))
            /\ Goto(t, "done")
            /\ UNCHANGED <<made, created, peer, lastMsgGen, held, msg>>
      /\ UNCHANGED <<control, gcGen>>

\* scan.  Its answer is sent after an unlock; the list is kept in msg until
\* then.
OnNotifyScan(t) ==
  LET h == Home[t]
      g == msg[t].obj
      dead == Unused(h, g)
  IN  /\ msg[t].stage = "DO_SCAN"
      /\ \/ /\ dead # {}
            /\ objs' = [objs EXCEPT ![h][g] = @ \ dead]
            /\ maybeDead' = [maybeDead EXCEPT ![h][g] = @ \union dead]
            /\ msg' = [msg EXCEPT ![t].list = dead]
            /\ Goto(t, "listing")
            /\ UNCHANGED <<control, objects>>
         \/ /\ dead = {}
            /\ Notify(h, g, "ABORT_GC")
            /\ Finishup(h, g, Kept(h, g))
            /\ Goto(t, "done")
            /\ UNCHANGED <<made, created, peer, lastMsgGen, held, msg>>
      /\ UNCHANGED gcGen

\* Faulty: what is not in the other end's list is forgotten, not put back.
OnNotifyAbortLossy(t) ==
  /\ msg[t].stage = "ABORT_GC"
  /\ Finishup(Home[t], msg[t].obj, objs[Home[t]][msg[t].obj])
  /\ Goto(t, "done")
  /\ UNCHANGED <<control, made, created, peer, lastMsgGen, held, msg, gcGen>>

OnNotifyAbort(t) ==
  /\ msg[t].stage = "ABORT_GC"
  /\ Finishup(Home[t], msg[t].obj, Kept(Home[t], msg[t].obj))
  /\ Goto(t, "done")
  /\ UNCHANGED <<control, made, created, peer, lastMsgGen, held, msg, gcGen>>

\* onRecv: only what both ends found unused is dropped.
OnRecv(t) ==
  LET h == Home[t]
      g == msg[t].obj
  IN  /\ msg[t].type = "DATA"
      /\ Finishup(h, g, objs[h][g] \union (maybeDead[h][g] \ msg[t].list))
      /\ Goto(t, "done")
      /\ UNCHANGED <<control, made, created, peer, lastMsgGen, held, msg, gcGen>>

OnAck(t) ==
  /\ msg[t].type = "CREATE_ACK"
  /\ Goto(t, "done")
  /\ UNCHANGED <<control, objects, msg, gcVars>>

\* The switch of recv for a DistributedGC.
GcDispatch(t) ==
  /\ pc[t] = "dispatch" /\ msg[t].obj \in Gcs
  /\ OnNotifyFlush(t) \/ OnNotifyScan(t) \/ OnNotifyAbort(t) \/ OnRecv(t) \/ OnAck(t)
  /\ UNCHANGED <<origin, gen, sent, caller, own, crashed>>

\* The answer of scan, and the lock again, under which nothing is left to do.
SendList(t) ==
  LET h == Home[t]
      g == msg[t].obj
  IN  /\ pc[t] = "listing"
      /\ SendFrom(h, [From(h, g, "DATA") EXCEPT !.list = msg[t].list])
      /\ Goto(t, "done")
      /\ UNCHANGED <<origin, gen, made, created, complete, peer, listed, held,
                     sent, msg, caller, own, crashed, gcVars>>

Collect(t) == OnCreated(t) \/ FlushMsgs(t) \/ GcDispatch(t) \/ SendList(t)

\* What a thread goes on with by itself.
Step(t) == ((Receive(t) \/ GoOn(t)) /\ UNCHANGED gcVars) \/ Collect(t)

Next ==
  /\ ~crashed
  /\ \/ \E t \in Thread : Step(t)
     \/ \E u \in User : Call(u) /\ UNCHANGED gcVars

\* Listeners poll and users go on with what they have begun.  Nothing says
\* that a user makes another call.
Fairness ==
  \A t \in Thread : WF_vars(~crashed /\ Step(t))

Spec == Init /\ [][Next]_vars
FairSpec == Spec /\ Fairness

-----------------------------------------------------------------------------
TypeOK ==
  /\ control \in [Host -> Seq(Message)]
  /\ origin \in [Object -> Host]
  /\ {made, created, complete, peer, listed, held, sent}
       \subseteq [Host -> SUBSET Object]
  /\ {gen} \subseteq [Host -> Nat]
  /\ lastMsgGen \in [Host -> [Object -> Nat]]
  /\ pc \in [Thread -> PCs]
  /\ msg \in [Thread -> Message \union {NoMsg}]
  /\ {caller, own} \subseteq [Thread -> Object \union {None}]
  /\ crashed \in BOOLEAN
  /\ gcGen \in [Host -> [Gcs -> Nat]]
  /\ {objs, maybeDead} \subseteq [Host -> [Gcs -> SUBSET Object]]

\* A message carries the address of an endpoint, not a reference to it: the
\* collector must not have deleted what a message still in the channel is for.
NoDanglingMessage ==
  \A h \in Host : \A i \in 1..Len(control[h]) :
    control[h][i].dst => ~Freed(h, control[h][i].obj)

\* An endpoint whose peer has a user is not deleted: the user may call.
PeerOfHeldLives ==
  \A h \in Host : \A o \in held[h] : ~Freed(Other(h), o)

\* No endpoint is deleted that the other host can still reach.  Of the endpoints
\* of collections that is so while there is one: a second may delete those of the
\* first under a notification, which does not count as a message sent.
NothingDangles == NoDanglingMessage /\ PeerOfHeldLives

\* The two ends of a collection decide alike.  When nothing is in flight and
\* nothing is being handled, an object is deleted at both ends or at neither,
\* and what was not deleted is back in its host's list.
Quiet ==
  /\ ~crashed
  /\ \A h \in Host : control[h] = <<>>
  /\ \A t \in Thread : pc[t] = "idle"

FreedTogether ==
  Quiet => \A o \in Object :
             \/ \A h \in Host : o \in listed[h] \union held[h]
             \/ \A h \in Host : Freed(h, o)
             \/ \A h \in Host : o \notin made[h]

\* A user that blocks in readAll holds _controlReadmu: its object must not be
\* complete, nor about to be by a handler that has read its message already.
BlockedForAReason ==
  \A u \in User : pc[u] = "reading" =>
    /\ caller[u] \notin complete[Home[u]]
    /\ ~Pending(Home[u], caller[u])

\* onCreated is to come "after a connection is established"
\* (remoteobject.h): an object that is created knows its peer.
PeerKnown == \A h \in Host : created[h] \subseteq peer[h]

\* waitUntilComplete returns once the other end has called markComplete.
WaitEnds ==
  \A u \in User : \A o \in App :
    (caller[u] = o /\ o \in complete[Other(Home[u])]) ~> (caller[u] # o \/ crashed)

\* A collection ends at both ends, with lists exchanged or given up.
CollectionEnds ==
  \A g \in Gcs :
    (\E h \in Host : g \in made[h]) ~> (crashed \/ \A h \in Host : g \in complete[h])
=============================================================================

--------------------------- MODULE AgreementProofs ---------------------------
(***************************************************************************)
(* The proof that the two ends of a collection decide alike, for any       *)
(* number of users, listeners, objects and collections.                    *)
(*                                                                         *)
(* Each host has one chain of messages in a collection: FLUSH_MSGS to the  *)
(* other end, DO_SCAN back, and its answer, a list or ABORT_GC.  The chain *)
(* has one link at a time (OneLink) and ends where the other end has put   *)
(* back or dropped all that it had taken (Ending).  Between its scan and   *)
(* the other end's answer a host keeps what it has offered, so an object   *)
(* that both offer is dropped by both, the second to do so still having    *)
(* the answer of the first before it (Agreeing, Dropping).                 *)
(***************************************************************************)
EXTENDS DistributedGCProofs

-----------------------------------------------------------------------------
(* The messages of a collection.                                            *)

\* The chain of h in the collection g: it asks the other end to ask for a scan, is
\* asked to scan, and answers.  A message to d that is a link of it.
Early(d, m, h, g) == (d = Other(h) /\ Flush(m, g)) \/ (d = h /\ Scan(m, g))
Answer(m, g) ==
  m.obj = g /\ (m.type = "DATA" \/ (m.type = "NOTIFY" /\ m.stage = "ABORT_GC"))
Link(d, m, h, g) == Early(d, m, h, g) \/ (d = Other(h) /\ Answer(m, g))

\* Where it is.
Carries(t, h, g) == pc[t] # "done" /\ Link(Home[t], msg[t], h, g)
InChannel(d, i, h, g) == i \in 1..Len(control[d]) /\ Link(d, control[d][i], h, g)
CarriesEarly(t, h, g) == pc[t] \notin {"done", "listing"} /\ Early(Home[t], msg[t], h, g)
EarlyInChannel(d, i, h, g) == i \in 1..Len(control[d]) /\ Early(d, control[d][i], h, g)
Unstarted(h, g) ==
  \/ g \notin created[h]
  \/ \E t \in At(h) : msg[t].obj = g /\ pc[t] \in {"acking", "onCreated", "flushing"}
Linked(h, g) ==
  \/ \E t \in Thread : Carries(t, h, g)
  \/ \E d \in Host : \E i \in Nat : InChannel(d, i, h, g)

\* h has not scanned yet.
Unscanned(h, g) ==
  \/ Unstarted(h, g)
  \/ \E t \in Thread : CarriesEarly(t, h, g)
  \/ \E d \in Host : \E i \in Nat : EarlyInChannel(d, i, h, g)

\* The answer of h offers o and has not been handled.
Answered(h, g, o) ==
  \/ \E t \in At(h) : pc[t] = "listing" /\ msg[t].obj = g /\ o \in msg[t].list
  \/ \E i \in 1..Len(control[Other(h)]) : Offers(control[Other(h)][i], g, o)
  \/ \E t \in At(Other(h)) : pc[t] # "done" /\ Offers(msg[t], g, o)

\* The endpoint was dropped by its host.
OwnedBy(t, o) == own[t] = o /\ pc[t] # "marking"
Gone(h, o) == o \in made[h] /\ ~InLists(h, o) /\ \A t \in At(h) : ~OwnedBy(t, o)

-----------------------------------------------------------------------------
(* The invariant.                                                           *)

\* A chain has one link, and none before it starts.
OneLinkAt(h, g) ==
  /\ \A d, e \in Host : \A i, j \in Nat :
       InChannel(d, i, h, g) /\ InChannel(e, j, h, g) => d = e /\ i = j
  /\ \A t \in Thread : Carries(t, h, g) =>
       /\ \A u \in Thread : Carries(u, h, g) => u = t
       /\ \A d \in Host : \A i \in Nat : ~InChannel(d, i, h, g)
  /\ Unstarted(h, g) => ~Linked(h, g)
OneLink == \A h \in Host : \A g \in Gcs : OneLinkAt(h, g)

\* It ends where the other end has put back or dropped all that it had.
Ending ==
  \A h \in Host : \A g \in Gcs :
    \/ Unstarted(h, g) \/ Linked(h, g)
    \/ Swapped(Other(h), g) /\ objs[Other(h)][g] = {} /\ maybeDead[Other(h)][g] = {}

\* A thread that makes an object has no link, and one that sends a list has scanned.
Makers ==
  \A t \in Thread :
    /\ pc[t] \in {"adding", "spawning"} => msg[t].type \in {"none", "CREATE"}
    /\ pc[t] = "listing" => msg[t].obj \in Gcs /\ Scan(msg[t], msg[t].obj)

\* An endpoint is in one list, or about to be.
Once ==
  \A h \in Host : \A o \in App :
    /\ o \in listed[h] => \A g \in Gcs : o \notin objs[h][g] \union maybeDead[h][g]
    /\ \A g1, g2 \in Gcs :
         /\ o \in objs[h][g1] => o \notin maybeDead[h][g2]
         /\ o \in objs[h][g1] /\ o \in objs[h][g2] => g1 = g2
         /\ o \in maybeDead[h][g1] /\ o \in maybeDead[h][g2] => g1 = g2
    /\ InLists(h, o) => o \in made[h]
    /\ \A t \in At(h) : OwnedBy(t, o) =>
         /\ o \in made[h] /\ ~InLists(h, o)
         /\ \A u \in At(h) : OwnedBy(u, o) => u = t

\* An endpoint that was not asked for yet has taken nothing.
Unswapped ==
  \A h \in Host : \A g \in Gcs :
    ~Swapped(h, g) => objs[h][g] = {} /\ maybeDead[h][g] = {}

\* An object that is at one end only was asked for at the other.
Asked ==
  \A h \in Host : \A o \in made[h] :
    \/ crashed \/ o \in made[Other(h)]
    \/ \E i \in 1..Len(control[Other(h)]) :
         control[Other(h)][i].type = "CREATE" /\ control[Other(h)][i].obj = o
    \/ \E t \in At(Other(h)) : pc[t] = "making" /\ msg[t].obj = o

\* What h has offered stays so until the other end has answered; when both offer
\* an object, both drop it.
Agreeing ==
  \A h \in Host : \A g \in Gcs : \A o \in App :
    /\ o \in maybeDead[h][g] => ~Unscanned(h, g)
    /\ Answered(h, g, o) /\ Unscanned(Other(h), g) => o \in maybeDead[h][g]
    /\ o \in maybeDead[h][g] /\ o \in objs[Other(h)][g] => Answered(h, g, o)
    /\ o \in maybeDead[h][g] /\ Answered(Other(h), g, o) =>
         \/ o \in maybeDead[Other(h)][g] /\ Answered(h, g, o)
         \/ Gone(Other(h), o)
Dropping ==
  \A h \in Host : \A o \in App : Gone(h, o) =>
    \/ Gone(Other(h), o)
    \/ \E g \in Gcs : o \in maybeDead[Other(h)][g] /\ Answered(h, g, o)

AInv == OneLink /\ Ending /\ Makers /\ Once /\ Unswapped /\ Asked /\ Agreeing /\ Dropping

-----------------------------------------------------------------------------
(* Where the links are.                                                     *)

\* A message that is no link of any chain, and a thread that has none in hand.
Free(m) == m.obj \in Gcs => m.type \notin {"DATA", "NOTIFY"}
Bare(t) == pc[t] = "done" \/ (pc[t] # "listing" /\ Free(msg[t]))

LEMMA FreeIsNoLink ==
  ASSUME NEW m, Free(m), NEW d, NEW h, NEW g \in Gcs
  PROVE  ~Link(d, m, h, g) /\ ~Early(d, m, h, g) /\ \A o : ~Offers(m, g, o)
BY DEF Free, Link, Early, Answer, Flush, Scan, Offers

\* A step after which t has the same links in hand.
Rests(t) ==
  \/ Bare(t) /\ Bare(t)'
  \/ /\ msg'[t] = msg[t]
     /\ pc[t] \notin {"done", "listing"} /\ pc'[t] \notin {"done", "listing"}

\* What an answer offers, by where it is.
Lists(t, g, o) == pc[t] = "listing" /\ msg[t].obj = g /\ o \in msg[t].list
Brings(t, g, o) == pc[t] # "done" /\ Offers(msg[t], g, o)
Comes(d, g, o) == \E i \in 1..Len(control[d]) : Offers(control[d][i], g, o)

LEMMA AnsweredIn ==
  ASSUME NEW h \in Host, NEW g \in Gcs, NEW o
  PROVE  /\ Answered(h, g, o) <=>
              \/ \E t \in At(h) : Lists(t, g, o)
              \/ Comes(Other(h), g, o)
              \/ \E t \in At(Other(h)) : Brings(t, g, o)
         /\ Answered(h, g, o)' <=>
              \/ \E t \in At(h) : Lists(t, g, o)'
              \/ Comes(Other(h), g, o)'
              \/ \E t \in At(Other(h)) : Brings(t, g, o)'
BY DEF Answered, Lists, Comes, Brings, At

LEMMA HandsSame ==
  ASSUME NEW t \in Thread, Only(t), Rests(t),
         NEW u \in Thread, NEW h \in Host, NEW g \in Gcs
  PROVE  /\ Carries(u, h, g)' <=> Carries(u, h, g)
         /\ CarriesEarly(u, h, g)' <=> CarriesEarly(u, h, g)
         /\ \A o : Lists(u, g, o)' <=> Lists(u, g, o)
         /\ \A o : Brings(u, g, o)' <=> Brings(u, g, o)
<1>1. CASE u # t
  <2>1. pc'[u] = pc[u] /\ msg'[u] = msg[u]
    BY <1>1 DEF Only
  <2> QED BY <2>1 DEF Carries, CarriesEarly, Lists, Brings, Link, Early, Answer, Flush, Scan, Offers
<1>2. CASE u = t /\ Bare(t) /\ Bare(t)'
  <2>1. /\ ~Carries(t, h, g) /\ ~CarriesEarly(t, h, g)
        /\ \A o : ~Lists(t, g, o) /\ ~Brings(t, g, o)
    BY <1>2, FreeIsNoLink DEF Bare, Carries, CarriesEarly, Lists, Brings
  <2>2. PICK m, p : m = msg'[t] /\ p = pc'[t]
    OBVIOUS
  <2>3. p = "done" \/ (p # "listing" /\ Free(m))
    BY <1>2, <2>2 DEF Bare, Free
  <2>4. /\ ~(p # "done" /\ Link(Home[t], m, h, g))
        /\ ~(p \notin {"done", "listing"} /\ Early(Home[t], m, h, g))
        /\ \A o : ~(p # "done" /\ Offers(m, g, o))
    BY <2>3, FreeIsNoLink
  <2>5. /\ ~Carries(t, h, g)' /\ ~CarriesEarly(t, h, g)'
        /\ \A o : ~Lists(t, g, o)' /\ ~Brings(t, g, o)'
    BY <2>2, <2>3, <2>4 DEF Carries, CarriesEarly, Lists, Brings, Link, Early, Answer, Flush,
                            Scan, Offers
  <2> QED BY <1>2, <2>1, <2>5
<1>3. CASE /\ u = t /\ msg'[t] = msg[t]
           /\ pc[t] \notin {"done", "listing"} /\ pc'[t] \notin {"done", "listing"}
  BY <1>3 DEF Carries, CarriesEarly, Lists, Brings, Link, Early, Answer, Flush, Scan, Offers
<1> QED BY <1>1, <1>2, <1>3 DEF Rests

\* A message is appended to a channel ...
LEMMA Appended ==
  ASSUME IInv, NEW k \in Host, NEW m \in Message, Send(k, m), NEW d \in Host, NEW g \in Gcs
  PROVE  /\ Len(control[Other(k)]) + 1 \in Nat
         /\ \A h \in Host : \A i \in Nat :
              /\ InChannel(d, i, h, g)' <=>
                   \/ InChannel(d, i, h, g)
                   \/ d = Other(k) /\ i = Len(control[d]) + 1 /\ Link(d, m, h, g)
              /\ EarlyInChannel(d, i, h, g)' <=>
                   \/ EarlyInChannel(d, i, h, g)
                   \/ d = Other(k) /\ i = Len(control[d]) + 1 /\ Early(d, m, h, g)
         /\ \A o : Comes(d, g, o)' <=> Comes(d, g, o) \/ (d = Other(k) /\ Offers(m, g, o))
<1>1. /\ Len(control[Other(k)]) \in Nat /\ control'[k] = control[k]
      /\ Len(control'[Other(k)]) = Len(control[Other(k)]) + 1
      /\ \A i \in 1..Len(control[Other(k)]) : control'[Other(k)][i] = control[Other(k)][i]
      /\ control'[Other(k)][Len(control[Other(k)]) + 1] = m
      /\ \A i \in 1..Len(control'[Other(k)]) :
           i \in 1..Len(control[Other(k)]) \/ i = Len(control[Other(k)]) + 1
      /\ \A l \in Host : l = k \/ l = Other(k)
      /\ Other(k) # k
  BY Sending, TwoHosts
<1>2. CASE d = k
  <2>1. control'[d] = control[d] /\ d # Other(k)
    BY <1>1, <1>2
  <2> QED BY <1>1, <2>1 DEF InChannel, EarlyInChannel, Comes, Link, Early, Answer, Flush, Scan, Offers
<1>3. CASE d = Other(k)
  <2> DEFINE n == Len(control[d])
  <2>1. /\ n \in Nat /\ Len(control'[d]) = n + 1
        /\ \A i \in 1..n : control'[d][i] = control[d][i]
        /\ control'[d][n + 1] = m /\ \A i \in 1..(n + 1) : i \in 1..n \/ i = n + 1
        /\ n + 1 \in 1..(n + 1) /\ n + 1 \notin 1..n /\ \A i \in 1..n : i \in 1..(n + 1)
    BY <1>1, <1>3
  <2>2. ASSUME NEW h \in Host, NEW i \in Nat
        PROVE  /\ InChannel(d, i, h, g)' <=>
                    InChannel(d, i, h, g) \/ (i = n + 1 /\ Link(d, m, h, g))
               /\ EarlyInChannel(d, i, h, g)' <=>
                    EarlyInChannel(d, i, h, g) \/ (i = n + 1 /\ Early(d, m, h, g))
    <3>1. CASE i \in 1..n
      <4>1. i # n + 1 /\ i \in 1..Len(control'[d]) /\ control'[d][i] = control[d][i]
        BY <2>1, <3>1
      <4> QED BY <3>1, <4>1 DEF InChannel, EarlyInChannel, Link, Early, Answer, Flush, Scan
    <3>2. CASE i = n + 1
      <4>1. i \notin 1..n /\ i \in 1..Len(control'[d]) /\ control'[d][i] = m
        BY <2>1, <3>2
      <4> QED BY <3>2, <4>1 DEF InChannel, EarlyInChannel, Link, Early, Answer, Flush, Scan
    <3>3. CASE i \notin 1..n /\ i # n + 1
      <4>1. i \notin 1..Len(control'[d])
        BY <2>1, <3>3
      <4> QED BY <3>3, <4>1 DEF InChannel, EarlyInChannel
    <3> QED BY <3>1, <3>2, <3>3
  <2>3. ASSUME NEW o PROVE Comes(d, g, o)' <=> Comes(d, g, o) \/ Offers(m, g, o)
    <3>1. ASSUME Comes(d, g, o)' PROVE Comes(d, g, o) \/ Offers(m, g, o)
      BY <2>1, <3>1 DEF Comes, Offers
    <3>2. ASSUME Comes(d, g, o) PROVE Comes(d, g, o)'
      BY <2>1, <3>2 DEF Comes, Offers
    <3>3. ASSUME Offers(m, g, o) PROVE Comes(d, g, o)'
      BY <2>1, <3>3 DEF Comes, Offers
    <3> QED BY <3>1, <3>2, <3>3
  <2> QED BY <1>3, <2>1, <2>2, <2>3
<1> QED BY <1>1, <1>2, <1>3

-----------------------------------------------------------------------------
(* What a step does to the chains.                                          *)

\* No chain is broken, and none goes back before its scan.
ChainsHold ==
  /\ OneLink'
  /\ \A h \in Host : \A g \in Gcs :
       /\ Unstarted(h, g) \/ Linked(h, g) => Unstarted(h, g)' \/ Linked(h, g)'
       /\ Unscanned(h, g)' => Unscanned(h, g)

\* Nor is an answer given, or handled.
AnswersSame ==
  \A h \in Host : \A g \in Gcs : \A o \in App : Answered(h, g, o)' <=> Answered(h, g, o)

StartsSame == \A h \in Host : \A g \in Gcs : Unstarted(h, g)' <=> Unstarted(h, g)

\* The steps that have nothing to do with a chain.
LEMMA ApartFromChains ==
  ASSUME IInv, OneLink, NEW t \in Thread, Only(t), Rests(t), StartsSame,
         control' = control \/ \E m \in Message : Send(Home[t], m) /\ Free(m)
  PROVE  ChainsHold /\ AnswersSame
<1>1. ASSUME NEW h \in Host, NEW g \in Gcs, NEW d \in Host
      PROVE  /\ \A i \in Nat : /\ InChannel(d, i, h, g)' <=> InChannel(d, i, h, g)
                               /\ EarlyInChannel(d, i, h, g)' <=> EarlyInChannel(d, i, h, g)
             /\ \A o : Comes(d, g, o)' <=> Comes(d, g, o)
  <2>1. CASE control' = control
    BY <2>1 DEF InChannel, EarlyInChannel, Comes, Link, Early, Answer, Flush, Scan, Offers
  <2>2. CASE \E m \in Message : Send(Home[t], m) /\ Free(m)
    <3>1. PICK m \in Message : Send(Home[t], m) /\ Free(m)
      BY <2>2
    <3>2. PICK k \in Host : k = Home[t]
      BY RemoteAssumption
    <3>3. Send(k, m)
      BY <3>1, <3>2
    <3>4. ~Link(d, m, h, g) /\ ~Early(d, m, h, g) /\ \A o : ~Offers(m, g, o)
      BY <3>1, FreeIsNoLink
    <3> QED BY <3>3, <3>4, Appended
  <2> QED BY <2>1, <2>2
<1>2. ASSUME NEW h \in Host, NEW g \in Gcs
      PROVE  /\ Linked(h, g)' <=> Linked(h, g)
             /\ Unscanned(h, g)' <=> Unscanned(h, g)
             /\ OneLinkAt(h, g)'
  <2>1. \A u \in Thread : /\ Carries(u, h, g)' <=> Carries(u, h, g)
                          /\ CarriesEarly(u, h, g)' <=> CarriesEarly(u, h, g)
    BY HandsSame
  <2>2. Unstarted(h, g)' <=> Unstarted(h, g)
    BY DEF StartsSame
  <2>3. Linked(h, g)' <=> Linked(h, g)
    BY <1>1, <2>1 DEF Linked
  <2>4. Unscanned(h, g)' <=> Unscanned(h, g)
    BY <1>1, <2>1, <2>2 DEF Unscanned
  <2>5. OneLinkAt(h, g)
    BY DEF OneLink
  <2>6. OneLinkAt(h, g)'
    BY <1>1, <2>1, <2>2, <2>3, <2>5 DEF OneLinkAt
  <2> QED BY <2>3, <2>4, <2>6
<1>3. ChainsHold
  BY <1>2 DEF ChainsHold, OneLink, StartsSame
<1>4. ASSUME NEW h \in Host, NEW g \in Gcs, NEW o
      PROVE  Answered(h, g, o)' <=> Answered(h, g, o)
  <2>1. Other(h) \in Host
    BY TwoHosts
  <2>2. Comes(Other(h), g, o)' <=> Comes(Other(h), g, o)
    BY <1>1, <2>1
  <2>3. \A u \in Thread : /\ Lists(u, g, o)' <=> Lists(u, g, o)
                          /\ Brings(u, g, o)' <=> Brings(u, g, o)
    BY HandsSame
  <2> QED BY <2>2, <2>3, AnsweredIn DEF At
<1> QED BY <1>3, <1>4 DEF AnswersSame

\* A chain starts, or t passes on the link that it has in hand.
LEMMA LinkPasses ==
  ASSUME IInv, OneLink, NEW t \in Thread, Only(t),
         NEW m \in Message, Send(Home[t], m), NEW c \in Host, NEW g \in Gcs,
         Carries(t, c, g) \/ Unstarted(c, g),
         \A h \in Host : \A gg \in Gcs : Link(Other(Home[t]), m, h, gg) <=> h = c /\ gg = g,
         \A h \in Host : \A gg \in Gcs :
           /\ Carries(t, h, gg)' <=> Carries(t, h, gg) /\ ~(h = c /\ gg = g)
           /\ CarriesEarly(t, h, gg)' => CarriesEarly(t, h, gg)
           /\ Unstarted(h, gg)' <=> Unstarted(h, gg) /\ ~(h = c /\ gg = g)
           /\ Early(Other(Home[t]), m, h, gg) => Unscanned(h, gg)
  PROVE  ChainsHold
<1>1. PICK k \in Host : k = Home[t]
  BY RemoteAssumption
<1>2. Send(k, m) /\ Other(k) \in Host
  BY <1>1, TwoHosts
<1>3. PICK n \in Nat : n = Len(control[Other(k)]) + 1
  BY <1>2, Appended
<1>4. ASSUME NEW h \in Host, NEW gg \in Gcs, NEW d \in Host, NEW i \in Nat
      PROVE  /\ InChannel(d, i, h, gg)' <=>
                  InChannel(d, i, h, gg) \/ (d = Other(k) /\ i = n /\ h = c /\ gg = g)
             /\ EarlyInChannel(d, i, h, gg)' =>
                  EarlyInChannel(d, i, h, gg) \/ Unscanned(h, gg)
  BY <1>1, <1>2, <1>3, Appended
<1>5. ASSUME NEW h \in Host, NEW gg \in Gcs, NEW u \in Thread \ {t}
      PROVE  /\ Carries(u, h, gg)' <=> Carries(u, h, gg)
             /\ CarriesEarly(u, h, gg)' <=> CarriesEarly(u, h, gg)
  BY DEF Only, Carries, CarriesEarly, Link, Early, Answer, Flush, Scan
<1>6. OneLinkAt(c, g)
  BY DEF OneLink
<1>7. /\ \A u \in Thread : ~Carries(u, c, g)'
      /\ \A d \in Host : \A i \in Nat : ~InChannel(d, i, c, g)
  <2>1. CASE Carries(t, c, g)
    BY <1>5, <1>6, <2>1 DEF OneLinkAt
  <2>2. CASE Unstarted(c, g)
    BY <1>5, <1>6, <2>2 DEF OneLinkAt, Linked
  <2> QED BY <2>1, <2>2
<1>8. ASSUME NEW h \in Host, NEW gg \in Gcs PROVE OneLinkAt(h, gg)'
  <2>1. CASE h = c /\ gg = g
    <3>1. \A d \in Host : \A i \in Nat : InChannel(d, i, c, g)' <=> d = Other(k) /\ i = n
      BY <1>4, <1>7
    <3> QED BY <1>7, <2>1, <3>1 DEF OneLinkAt
  <2>2. CASE ~(h = c /\ gg = g)
    <3>1. /\ \A d \in Host : \A i \in Nat : InChannel(d, i, h, gg)' <=> InChannel(d, i, h, gg)
          /\ \A u \in Thread : Carries(u, h, gg)' <=> Carries(u, h, gg)
          /\ Unstarted(h, gg)' <=> Unstarted(h, gg)
      BY <1>4, <1>5, <2>2
    <3>2. OneLinkAt(h, gg)
      BY DEF OneLink
    <3>3. Linked(h, gg)' <=> Linked(h, gg)
      BY <3>1 DEF Linked
    <3> QED BY <3>1, <3>2, <3>3 DEF OneLinkAt
  <2> QED BY <2>1, <2>2
<1>9. ASSUME NEW h \in Host, NEW gg \in Gcs, Unstarted(h, gg) \/ Linked(h, gg)
      PROVE  Unstarted(h, gg)' \/ Linked(h, gg)'
  <2>1. CASE h = c /\ gg = g
    BY <1>2, <1>3, <1>4, <2>1 DEF Linked
  <2>2. CASE ~(h = c /\ gg = g)
    <3>1. /\ \A d \in Host : \A i \in Nat : InChannel(d, i, h, gg)' <=> InChannel(d, i, h, gg)
          /\ \A u \in Thread : Carries(u, h, gg)' <=> Carries(u, h, gg)
          /\ Unstarted(h, gg)' <=> Unstarted(h, gg)
      BY <1>4, <1>5, <2>2
    <3> QED BY <1>9, <3>1 DEF Linked
  <2> QED BY <2>1, <2>2
<1>10. ASSUME NEW h \in Host, NEW gg \in Gcs, Unscanned(h, gg)' PROVE Unscanned(h, gg)
  BY <1>4, <1>5, <1>10 DEF Unscanned
<1> QED BY <1>8, <1>9, <1>10 DEF ChainsHold, OneLink

\* A message is read: a link at the head of a channel goes to the thread.
LEMMA LinkRead ==
  ASSUME IInv, OneLink, NEW t \in Thread, Read(t), Bare(t), pc[t] \in {"idle", "reading"}
  PROVE  ChainsHold /\ AnswersSame /\ StartsSame
<1>1. PICK k \in Host : k = Home[t]
  BY RemoteAssumption
<1>2. /\ Len(control[k]) \in Nat /\ 1 \in 1..Len(control[k])
      /\ Len(control'[k]) = Len(control[k]) - 1
      /\ \A i \in 1..Len(control'[k]) :
           i + 1 \in 1..Len(control[k]) /\ control'[k][i] = control[k][i + 1]
      /\ \A d \in Host \ {k} : control'[d] = control[d]
      /\ msg'[t] = control[k][1] /\ pc'[t] \in {"locking", "making"} /\ Only(t)
      /\ created' = created
  <2>1. /\ Len(control[Home[t]]) \in Nat /\ 1 \in 1..Len(control[Home[t]])
        /\ Len(control'[Home[t]]) = Len(control[Home[t]]) - 1
        /\ \A i \in 1..Len(control'[Home[t]]) :
             i + 1 \in 1..Len(control[Home[t]])
             /\ control'[Home[t]][i] = control[Home[t]][i + 1]
        /\ \A d \in Host \ {Home[t]} : control'[d] = control[d]
        /\ msg'[t] = control[Home[t]][1]
        /\ pc'[t] = (IF msg'[t].dst THEN "locking" ELSE "making")
        /\ Only(t)
    BY Receiving
  <2>2. created' = created
    BY DEF Read
  <2> QED BY <1>1, <2>1, <2>2
<1>3. ASSUME NEW h \in Host, NEW g \in Gcs
      PROVE  /\ \A i \in Nat \ {0} : /\ InChannel(k, i, h, g)' <=> InChannel(k, i + 1, h, g)
                                     /\ EarlyInChannel(k, i, h, g)' <=> EarlyInChannel(k, i + 1, h, g)
             /\ ~InChannel(k, 0, h, g)' /\ ~EarlyInChannel(k, 0, h, g)'
             /\ ~InChannel(k, 0, h, g) /\ ~EarlyInChannel(k, 0, h, g)
             /\ \A d \in Host \ {k} : \A i \in Nat :
                  /\ InChannel(d, i, h, g)' <=> InChannel(d, i, h, g)
                  /\ EarlyInChannel(d, i, h, g)' <=> EarlyInChannel(d, i, h, g)
  <2>1. ASSUME NEW i \in Nat \ {0}
        PROVE  /\ InChannel(k, i, h, g)' <=> InChannel(k, i + 1, h, g)
               /\ EarlyInChannel(k, i, h, g)' <=> EarlyInChannel(k, i + 1, h, g)
    <3>1. i \in 1..Len(control'[k]) <=> i + 1 \in 1..Len(control[k])
      BY <1>2
    <3>2. i \in 1..Len(control'[k]) => control'[k][i] = control[k][i + 1]
      BY <1>2
    <3> QED BY <3>1, <3>2 DEF InChannel, EarlyInChannel, Link, Early, Answer, Flush, Scan
  <2>2. /\ ~InChannel(k, 0, h, g)' /\ ~EarlyInChannel(k, 0, h, g)'
        /\ ~InChannel(k, 0, h, g) /\ ~EarlyInChannel(k, 0, h, g)
    BY DEF InChannel, EarlyInChannel
  <2>3. ASSUME NEW d \in Host \ {k}, NEW i \in Nat
        PROVE  /\ InChannel(d, i, h, g)' <=> InChannel(d, i, h, g)
               /\ EarlyInChannel(d, i, h, g)' <=> EarlyInChannel(d, i, h, g)
    BY <1>2 DEF InChannel, EarlyInChannel, Link, Early, Answer, Flush, Scan
  <2> QED BY <2>1, <2>2, <2>3
<1>4. ASSUME NEW h \in Host, NEW g \in Gcs
      PROVE  /\ Carries(t, h, g)' <=> InChannel(k, 1, h, g)
             /\ CarriesEarly(t, h, g)' <=> EarlyInChannel(k, 1, h, g)
             /\ ~Carries(t, h, g) /\ ~CarriesEarly(t, h, g)
             /\ \A u \in Thread \ {t} : /\ Carries(u, h, g)' <=> Carries(u, h, g)
                                        /\ CarriesEarly(u, h, g)' <=> CarriesEarly(u, h, g)
  <2>1. /\ Carries(t, h, g)' <=> InChannel(k, 1, h, g)
        /\ CarriesEarly(t, h, g)' <=> EarlyInChannel(k, 1, h, g)
    BY <1>1, <1>2 DEF InChannel, EarlyInChannel, Carries, CarriesEarly, Link, Early, Answer,
                      Flush, Scan
  <2>2. ~Carries(t, h, g) /\ ~CarriesEarly(t, h, g)
    BY FreeIsNoLink DEF Bare, Carries, CarriesEarly
  <2>3. \A u \in Thread \ {t} : /\ Carries(u, h, g)' <=> Carries(u, h, g)
                                /\ CarriesEarly(u, h, g)' <=> CarriesEarly(u, h, g)
    BY <1>2 DEF Only, Carries, CarriesEarly, Link, Early, Answer, Flush, Scan
  <2> QED BY <2>1, <2>2, <2>3
<1>5. StartsSame
  BY <1>2 DEF StartsSame, Unstarted, Only, At
<1>6. ASSUME NEW h \in Host, NEW g \in Gcs
      PROVE  /\ Linked(h, g)' <=> Linked(h, g)
             /\ Unscanned(h, g)' => Unscanned(h, g)
  <2>1. ASSUME NEW u \in Thread, Carries(u, h, g)' PROVE Linked(h, g)
    BY <1>4, <2>1 DEF Linked
  <2>2. ASSUME NEW d \in Host, NEW i \in Nat, InChannel(d, i, h, g)' PROVE Linked(h, g)
    BY <1>3, <2>2 DEF Linked
  <2>3. ASSUME NEW u \in Thread, Carries(u, h, g) PROVE Linked(h, g)'
    BY <1>4, <2>3 DEF Linked
  <2>4. ASSUME NEW d \in Host, NEW i \in Nat, InChannel(d, i, h, g) PROVE Linked(h, g)'
    <3>1. CASE d # k
      BY <1>3, <2>4, <3>1 DEF Linked
    <3>2. CASE d = k /\ i = 1
      BY <1>4, <2>4, <3>2 DEF Linked
    <3>3. CASE d = k /\ i # 1
      <4>1. i # 0
        BY <1>3, <2>4, <3>3
      <4>2. PICK j \in Nat \ {0} : i = j + 1
        BY <3>3, <4>1
      <4>3. InChannel(k, j, h, g)'
        BY <1>3, <2>4, <3>3, <4>2
      <4> QED BY <4>3 DEF Linked
    <3> QED BY <3>1, <3>2, <3>3
  <2>5. ASSUME NEW u \in Thread, CarriesEarly(u, h, g)' PROVE Unscanned(h, g)
    BY <1>4, <2>5 DEF Unscanned
  <2>6. ASSUME NEW d \in Host, NEW i \in Nat, EarlyInChannel(d, i, h, g)' PROVE Unscanned(h, g)
    BY <1>3, <2>6 DEF Unscanned
  <2>7. Unstarted(h, g)' => Unscanned(h, g)
    BY <1>5 DEF StartsSame, Unscanned
  <2>8. Linked(h, g)' <=> Linked(h, g)
    BY <2>1, <2>2, <2>3, <2>4 DEF Linked
  <2>9. Unscanned(h, g)' => Unscanned(h, g)
    BY <2>5, <2>6, <2>7 DEF Unscanned
  <2> QED BY <2>8, <2>9
<1>7. ASSUME NEW h \in Host, NEW g \in Gcs PROVE OneLinkAt(h, g)'
  <2>0. OneLinkAt(h, g)
    BY DEF OneLink
  <2>1. ASSUME NEW d \in Host, NEW e \in Host, NEW i \in Nat, NEW j \in Nat,
               InChannel(d, i, h, g)', InChannel(e, j, h, g)'
        PROVE  d = e /\ i = j
    <3>1. CASE d # k /\ e # k
      BY <1>3, <2>0, <2>1, <3>1 DEF OneLinkAt
    <3>2. CASE d = k /\ e # k
      BY <1>3, <2>0, <2>1, <3>2 DEF OneLinkAt
    <3>3. CASE d # k /\ e = k
      BY <1>3, <2>0, <2>1, <3>3 DEF OneLinkAt
    <3>4. CASE d = k /\ e = k
      <4>1. InChannel(k, i + 1, h, g) /\ InChannel(k, j + 1, h, g)
        BY <1>3, <2>1, <3>4
      <4>2. i + 1 = j + 1
        BY <2>0, <4>1 DEF OneLinkAt
      <4> QED BY <3>4, <4>2
    <3> QED BY <3>1, <3>2, <3>3, <3>4
  <2>2. ASSUME NEW u \in Thread, NEW v \in Thread, Carries(u, h, g)', Carries(v, h, g)'
        PROVE  u = v
    BY <1>4, <2>0, <2>2 DEF OneLinkAt
  <2>3. ASSUME NEW u \in Thread, NEW d \in Host, NEW i \in Nat, Carries(u, h, g)',
               InChannel(d, i, h, g)'
        PROVE  FALSE
    <3>1. PICK j \in Nat : InChannel(d, j, h, g) /\ (d = k => j # 1)
      <4>1. CASE d # k
        BY <1>3, <2>3, <4>1
      <4>2. CASE d = k
        <5>1. i \in Nat \ {0} /\ InChannel(k, i + 1, h, g)
          BY <1>3, <2>3, <4>2
        <5> QED BY <4>2, <5>1
      <4> QED BY <4>1, <4>2
    <3>2. CASE u = t
      <4>1. InChannel(k, 1, h, g)
        BY <1>4, <2>3, <3>2
      <4> QED BY <2>0, <3>1, <4>1 DEF OneLinkAt
    <3>3. CASE u # t
      BY <1>4, <2>0, <2>3, <3>1, <3>3 DEF OneLinkAt
    <3> QED BY <3>2, <3>3
  <2>4. Unstarted(h, g)' => ~Linked(h, g)'
    BY <1>5, <1>6, <2>0 DEF StartsSame, OneLinkAt
  <2> QED BY <2>1, <2>2, <2>3, <2>4 DEF OneLinkAt
<1>8. ChainsHold
  BY <1>5, <1>6, <1>7 DEF ChainsHold, OneLink, StartsSame
<1>9. ASSUME NEW h \in Host, NEW g \in Gcs, NEW o
      PROVE  Answered(h, g, o)' <=> Answered(h, g, o)
  <2>0. Other(h) \in Host
    BY TwoHosts
  <2>1. \A u \in Thread \ {t} : /\ Lists(u, g, o)' <=> Lists(u, g, o)
                                /\ Brings(u, g, o)' <=> Brings(u, g, o)
    BY <1>2 DEF Only, Lists, Brings, Offers
  <2>2. ~Lists(t, g, o) /\ ~Lists(t, g, o)' /\ ~Brings(t, g, o)
    BY <1>2, FreeIsNoLink DEF Bare, Lists, Brings
  <2>3. Brings(t, g, o)' <=> Offers(control[k][1], g, o)
    BY <1>2 DEF Brings, Offers
  <2>4. CASE Other(h) # k
    <3>1. Comes(Other(h), g, o)' <=> Comes(Other(h), g, o)
      BY <1>2, <2>0, <2>4 DEF Comes, Offers
    <3>2. t \notin At(Other(h))
      BY <1>1, <2>4 DEF At
    <3> QED BY <2>1, <2>2, <3>1, <3>2, AnsweredIn DEF At
  <2>5. CASE Other(h) = k
    <3>1. Comes(k, g, o) <=> Comes(k, g, o)' \/ Offers(control[k][1], g, o)
      <4>1. ASSUME Comes(k, g, o) PROVE Comes(k, g, o)' \/ Offers(control[k][1], g, o)
        <5>1. PICK i \in 1..Len(control[k]) : Offers(control[k][i], g, o)
          BY <4>1 DEF Comes
        <5>2. CASE i = 1
          BY <5>1, <5>2
        <5>3. CASE i # 1
          <6>1. PICK j \in 1..Len(control'[k]) : i = j + 1
            BY <1>2, <5>3
          <6>2. control'[k][j] = control[k][i]
            BY <1>2, <6>1
          <6> QED BY <5>1, <6>2 DEF Comes, Offers
        <5> QED BY <5>2, <5>3
      <4>2. ASSUME Comes(k, g, o)' PROVE Comes(k, g, o)
        BY <1>2, <4>2 DEF Comes, Offers
      <4>3. ASSUME Offers(control[k][1], g, o) PROVE Comes(k, g, o)
        BY <1>2, <4>3 DEF Comes
      <4> QED BY <4>1, <4>2, <4>3
    <3>2. t \in At(Other(h))
      BY <1>1, <2>5 DEF At
    <3> QED BY <2>1, <2>2, <2>3, <2>5, <3>1, <3>2, AnsweredIn DEF At
  <2> QED BY <2>4, <2>5
<1> QED BY <1>5, <1>8, <1>9 DEF AnswersSame

\* An answer is a link, and comes after the scan.
LEMMA AnswerIsLate ==
  ASSUME OneLink, Makers, NEW h \in Host, NEW g \in Gcs, NEW o, Answered(h, g, o)
  PROVE  Linked(h, g) /\ ~Unscanned(h, g)
<1>0. Other(h) \in Host /\ OneLinkAt(h, g)
  BY TwoHosts DEF OneLink
<1>1. CASE \E t \in At(h) : Lists(t, g, o)
  <2>1. PICK t \in At(h) : Lists(t, g, o)
    BY <1>1
  <2>2. /\ t \in Thread /\ Home[t] = h /\ pc[t] = "listing" /\ msg[t].obj = g
        /\ Scan(msg[t], g)
    BY <2>1 DEF At, Lists, Makers
  <2>3. Carries(t, h, g) /\ ~CarriesEarly(t, h, g)
    BY <2>2 DEF Carries, CarriesEarly, Link, Early
  <2>4. ~Unstarted(h, g)
    BY <1>0, <2>2, <2>3 DEF OneLinkAt, Linked
  <2>5. \A u \in Thread : ~CarriesEarly(u, h, g)
    BY <1>0, <2>2, <2>3 DEF OneLinkAt, Carries, CarriesEarly, Link
  <2>6. \A d \in Host : \A i \in Nat : ~EarlyInChannel(d, i, h, g)
    BY <1>0, <2>2, <2>3 DEF OneLinkAt, InChannel, EarlyInChannel, Link
  <2> QED BY <2>2, <2>3, <2>4, <2>5, <2>6 DEF Linked, Unscanned
<1>2. CASE Comes(Other(h), g, o)
  <2>1. PICK i \in 1..Len(control[Other(h)]) : Offers(control[Other(h)][i], g, o)
    BY <1>2 DEF Comes
  <2>2. Answer(control[Other(h)][i], g) /\ ~Early(Other(h), control[Other(h)][i], h, g)
        /\ i \in Nat
    BY <2>1 DEF Answer, Offers, Early, Flush, Scan
  <2>3. InChannel(Other(h), i, h, g) /\ ~EarlyInChannel(Other(h), i, h, g)
    BY <2>2 DEF InChannel, EarlyInChannel, Link
  <2>4. ~Unstarted(h, g) /\ Linked(h, g)
    BY <1>0, <2>2, <2>3 DEF OneLinkAt, Linked
  <2>5. \A u \in Thread : ~CarriesEarly(u, h, g)
    BY <1>0, <2>2, <2>3 DEF OneLinkAt, Carries, CarriesEarly, Link
  <2>6. ASSUME NEW d \in Host, NEW j \in Nat, EarlyInChannel(d, j, h, g) PROVE FALSE
    <3>1. InChannel(d, j, h, g)
      BY <2>6 DEF InChannel, EarlyInChannel, Link
    <3>2. d = Other(h) /\ j = i
      BY <1>0, <2>2, <2>3, <3>1 DEF OneLinkAt
    <3> QED BY <2>3, <2>6, <3>2
  <2> QED BY <2>4, <2>5, <2>6 DEF Unscanned
<1>3. CASE \E t \in At(Other(h)) : Brings(t, g, o)
  <2>1. PICK t \in At(Other(h)) : Brings(t, g, o)
    BY <1>3
  <2>2. t \in Thread /\ Home[t] = Other(h) /\ pc[t] # "done" /\ Offers(msg[t], g, o)
    BY <2>1 DEF At, Brings
  <2>3. Carries(t, h, g) /\ ~CarriesEarly(t, h, g)
    BY <2>2 DEF Carries, CarriesEarly, Link, Early, Answer, Flush, Scan, Offers
  <2>4. ~Unstarted(h, g)
    BY <1>0, <2>2, <2>3 DEF OneLinkAt, Linked
  <2>5. \A u \in Thread : ~CarriesEarly(u, h, g)
    BY <1>0, <2>2, <2>3 DEF OneLinkAt, Carries, CarriesEarly, Link
  <2>6. \A d \in Host : \A i \in Nat : ~EarlyInChannel(d, i, h, g)
    BY <1>0, <2>2, <2>3 DEF OneLinkAt, InChannel, EarlyInChannel, Link
  <2> QED BY <2>2, <2>3, <2>4, <2>5, <2>6 DEF Linked, Unscanned
<1> QED BY <1>1, <1>2, <1>3, AnsweredIn

\* The link that a thread has in hand is the only one.
LEMMA LinkInHand ==
  ASSUME OneLink, Makers, NEW t \in Thread, NEW h \in Host, NEW g \in Gcs, Carries(t, h, g)
  PROVE  /\ ~Unstarted(h, g)
         /\ ~CarriesEarly(t, h, g) => ~Unscanned(h, g)
         /\ \A o : Answered(h, g, o) =>
              \/ t \in At(h) /\ Lists(t, g, o)
              \/ t \in At(Other(h)) /\ Brings(t, g, o)
<1>0. OneLinkAt(h, g) /\ Other(h) \in Host
  BY TwoHosts DEF OneLink
<1>1. ~Unstarted(h, g)
  BY <1>0 DEF OneLinkAt, Linked
<1>2. ASSUME ~CarriesEarly(t, h, g) PROVE ~Unscanned(h, g)
  <2>1. \A u \in Thread : ~CarriesEarly(u, h, g)
    BY <1>0, <1>2 DEF OneLinkAt, Carries, CarriesEarly, Link
  <2>2. \A d \in Host : \A i \in Nat : ~EarlyInChannel(d, i, h, g)
    BY <1>0 DEF OneLinkAt, InChannel, EarlyInChannel, Link
  <2> QED BY <1>1, <2>1, <2>2 DEF Unscanned
<1>3. ASSUME NEW o, Answered(h, g, o)
      PROVE  \/ t \in At(h) /\ Lists(t, g, o)
             \/ t \in At(Other(h)) /\ Brings(t, g, o)
  <2>1. CASE \E u \in At(h) : Lists(u, g, o)
    <3>1. PICK u \in At(h) : Lists(u, g, o)
      BY <2>1
    <3>2. Carries(u, h, g)
      BY <3>1 DEF At, Lists, Makers, Carries, Link, Early
    <3>3. u = t
      BY <1>0, <3>1, <3>2 DEF OneLinkAt, At
    <3> QED BY <3>1, <3>3
  <2>2. CASE Comes(Other(h), g, o)
    <3>1. PICK i \in 1..Len(control[Other(h)]) : Offers(control[Other(h)][i], g, o)
      BY <2>2 DEF Comes
    <3>2. i \in Nat /\ InChannel(Other(h), i, h, g)
      BY <3>1 DEF InChannel, Link, Answer, Offers
    <3> QED BY <1>0, <3>2 DEF OneLinkAt
  <2>3. CASE \E u \in At(Other(h)) : Brings(u, g, o)
    <3>1. PICK u \in At(Other(h)) : Brings(u, g, o)
      BY <2>3
    <3>2. Carries(u, h, g)
      BY <3>1 DEF At, Brings, Carries, Link, Answer, Offers
    <3>3. u = t
      BY <1>0, <3>1, <3>2 DEF OneLinkAt, At
    <3> QED BY <3>1, <3>3
  <2> QED BY <1>3, <2>1, <2>2, <2>3, AnsweredIn
<1> QED BY <1>1, <1>2, <1>3

\* The last link is handled.
LEMMA LinkEnds ==
  ASSUME IInv, OneLink, Makers, NEW t \in Thread, Only(t), NEW c \in Host, NEW g \in Gcs,
         Home[t] = Other(c), Answer(msg[t], g), pc[t] = "dispatch", pc'[t] = "done",
         UNCHANGED <<control, created, msg>>
  PROVE  /\ OneLink'
         /\ \A h \in Host : \A gg \in Gcs :
              /\ Unscanned(h, gg)' => Unscanned(h, gg)
              /\ ~(h = c /\ gg = g) /\ (Unstarted(h, gg) \/ Linked(h, gg))
                   => Unstarted(h, gg)' \/ Linked(h, gg)'
              /\ \A o : Answered(h, gg, o)' <=> Answered(h, gg, o) /\ ~(h = c /\ gg = g)
<1>0. /\ Other(c) \in Host /\ Other(Other(c)) = c /\ Other(c) # c /\ t \in At(Other(c))
      /\ \A h \in Host : h = c \/ h = Other(c)
  BY TwoHosts DEF At, Other
<1>1. /\ Carries(t, c, g) /\ ~CarriesEarly(t, c, g)
  BY <1>0 DEF Carries, CarriesEarly, Link, Early, Answer, Flush, Scan
<1>2. ASSUME NEW h \in Host, NEW gg \in Gcs
      PROVE  /\ ~Carries(t, h, gg)' /\ ~CarriesEarly(t, h, gg)'
             /\ Carries(t, h, gg) => h = c /\ gg = g
             /\ \A u \in Thread \ {t} : /\ Carries(u, h, gg)' <=> Carries(u, h, gg)
                                        /\ CarriesEarly(u, h, gg)' <=> CarriesEarly(u, h, gg)
             /\ \A d \in Host : \A i \in Nat :
                  /\ InChannel(d, i, h, gg)' <=> InChannel(d, i, h, gg)
                  /\ EarlyInChannel(d, i, h, gg)' <=> EarlyInChannel(d, i, h, gg)
             /\ Unstarted(h, gg)' <=> Unstarted(h, gg)
  <2>1. ~Carries(t, h, gg)' /\ ~CarriesEarly(t, h, gg)'
    BY DEF Carries, CarriesEarly
  <2>2. Carries(t, h, gg) => h = c /\ gg = g
    BY <1>0 DEF Carries, Link, Early, Answer, Flush, Scan
  <2>3. \A u \in Thread \ {t} : /\ Carries(u, h, gg)' <=> Carries(u, h, gg)
                                /\ CarriesEarly(u, h, gg)' <=> CarriesEarly(u, h, gg)
    BY DEF Only, Carries, CarriesEarly, Link, Early, Answer, Flush, Scan
  <2>4. \A d \in Host : \A i \in Nat :
          /\ InChannel(d, i, h, gg)' <=> InChannel(d, i, h, gg)
          /\ EarlyInChannel(d, i, h, gg)' <=> EarlyInChannel(d, i, h, gg)
    BY DEF InChannel, EarlyInChannel, Link, Early, Answer, Flush, Scan
  <2>5. Unstarted(h, gg)' <=> Unstarted(h, gg)
    BY DEF Unstarted, Only, At
  <2> QED BY <2>1, <2>2, <2>3, <2>4, <2>5
<1>3. ASSUME NEW h \in Host, NEW gg \in Gcs
      PROVE  /\ OneLinkAt(h, gg)'
             /\ Unscanned(h, gg)' => Unscanned(h, gg)
             /\ ~(h = c /\ gg = g) /\ (Unstarted(h, gg) \/ Linked(h, gg))
                  => Unstarted(h, gg)' \/ Linked(h, gg)'
  <2>1. OneLinkAt(h, gg)
    BY DEF OneLink
  <2>2. Linked(h, gg)' => Linked(h, gg)
    BY <1>2 DEF Linked
  <2>3. OneLinkAt(h, gg)'
    BY <1>2, <2>1, <2>2 DEF OneLinkAt
  <2>4. Unscanned(h, gg)' => Unscanned(h, gg)
    BY <1>2 DEF Unscanned
  <2>5. ~(h = c /\ gg = g) /\ (Unstarted(h, gg) \/ Linked(h, gg))
          => Unstarted(h, gg)' \/ Linked(h, gg)'
    BY <1>2 DEF Linked
  <2> QED BY <2>3, <2>4, <2>5
<1>4. ASSUME NEW h \in Host, NEW gg \in Gcs, NEW o
      PROVE  Answered(h, gg, o)' <=> Answered(h, gg, o) /\ ~(h = c /\ gg = g)
  <2>0. Other(h) \in Host
    BY TwoHosts
  <2>1. /\ \A u \in Thread \ {t} : /\ Lists(u, gg, o)' <=> Lists(u, gg, o)
                                   /\ Brings(u, gg, o)' <=> Brings(u, gg, o)
        /\ ~Lists(t, gg, o) /\ ~Lists(t, gg, o)' /\ ~Brings(t, gg, o)'
        /\ Comes(Other(h), gg, o)' <=> Comes(Other(h), gg, o)
    BY DEF Only, Lists, Brings, Comes, Offers
  <2>2. CASE h = c /\ gg = g
    <3>1. ASSUME NEW u \in Thread \ {t}
          PROVE  ~(u \in At(c) /\ Lists(u, g, o)) /\ ~(u \in At(Other(c)) /\ Brings(u, g, o))
      <4>1. ~Carries(u, c, g)
        BY <1>1 DEF OneLink, OneLinkAt
      <4>2. u \in At(c) /\ Lists(u, g, o) => Carries(u, c, g)
        BY DEF At, Lists, Makers, Carries, Link, Early
      <4>3. u \in At(Other(c)) /\ Brings(u, g, o) => Carries(u, c, g)
        BY DEF At, Brings, Carries, Link, Answer, Offers
      <4> QED BY <4>1, <4>2, <4>3
    <3>2. ~Comes(Other(c), g, o)
      <4>1. \A i \in Nat : ~InChannel(Other(c), i, c, g)
        BY <1>0, <1>1 DEF OneLink, OneLinkAt
      <4> QED BY <4>1 DEF Comes, InChannel, Link, Answer, Offers
    <3> QED BY <2>1, <2>2, <3>1, <3>2, AnsweredIn DEF At
  <2>3. CASE ~(h = c /\ gg = g)
    <3>1. t \in At(Other(h)) => ~Brings(t, gg, o)
      <4>1. t \in At(Other(h)) /\ Brings(t, gg, o) => Carries(t, h, gg)
        BY DEF At, Brings, Carries, Link, Answer, Offers
      <4> QED BY <1>2, <2>3, <4>1
    <3> QED BY <2>1, <2>3, <3>1, AnsweredIn DEF At
  <2> QED BY <2>2, <2>3
<1> QED BY <1>3, <1>4 DEF OneLink

-----------------------------------------------------------------------------
(* What a step does to the lists.                                           *)

SwapsHold == \A h \in Host : \A g \in Gcs : Swapped(h, g) => Swapped(h, g)'
GoneSame == \A h \in Host : \A o \in App : Gone(h, o)' <=> Gone(h, o)
OwnsSame(t) == \A o \in App : OwnedBy(t, o)' <=> OwnedBy(t, o)

LEMMA SwapsStay ==
  ASSUME NEW t \in Thread, Only(t), \A h \in Host : created[h] \subseteq created'[h],
         pc'[t] \in {"acking", "onCreated"} =>
           \/ pc[t] \in {"acking", "onCreated"} /\ msg'[t].obj = msg[t].obj
           \/ msg'[t].obj \notin created[Home[t]]
  PROVE  SwapsHold
<1> SUFFICES ASSUME NEW h \in Host, NEW g \in Gcs, Swapped(h, g) PROVE Swapped(h, g)'
  BY DEF SwapsHold
<1>1. g \in created'[h]
  BY DEF Swapped
<1>2. ASSUME NEW u \in At(h), pc'[u] \in {"acking", "onCreated"} PROVE msg'[u].obj # g
  BY <1>2 DEF Swapped, At, Only
<1> QED BY <1>1, <1>2 DEF Swapped, At

LEMMA StartsStay ==
  ASSUME NEW t \in Thread, Only(t), created' = created,
         \/ msg'[t].obj = msg[t].obj
         \/ msg'[t].obj \notin Gcs /\ msg[t].obj \notin Gcs,
         pc'[t] \in {"acking", "onCreated", "flushing"} <=>
           pc[t] \in {"acking", "onCreated", "flushing"}
  PROVE  StartsSame
<1> SUFFICES ASSUME NEW h \in Host, NEW g \in Gcs
             PROVE  Unstarted(h, g)' <=> Unstarted(h, g)
  BY DEF StartsSame
<1>1. \A u \in At(h) :
        (msg'[u].obj = g /\ pc'[u] \in {"acking", "onCreated", "flushing"})
          <=> (msg[u].obj = g /\ pc[u] \in {"acking", "onCreated", "flushing"})
  BY DEF At, Only
<1> QED BY <1>1 DEF Unstarted, At

LEMMA MakersStay ==
  ASSUME Makers, NEW t \in Thread, Only(t),
         pc'[t] \in {"adding", "spawning"} => msg'[t].type \in {"none", "CREATE"},
         pc'[t] = "listing" => msg'[t].obj \in Gcs /\ Scan(msg[t], msg[t].obj)'
  PROVE  Makers'
<1> SUFFICES ASSUME NEW u \in Thread
             PROVE  /\ pc'[u] \in {"adding", "spawning"} => msg'[u].type \in {"none", "CREATE"}
                    /\ pc'[u] = "listing" => msg'[u].obj \in Gcs /\ Scan(msg[u], msg[u].obj)'
  BY DEF Makers
<1>1. CASE u = t
  BY <1>1
<1>2. CASE u # t
  BY <1>2 DEF Makers, Only, Scan
<1> QED BY <1>1, <1>2

LEMMA OnceSame ==
  ASSUME Once, NEW t \in Thread, Only(t), UNCHANGED <<made, listed, objs, maybeDead>>, OwnsSame(t)
  PROVE  Once' /\ GoneSame
<1>1. ASSUME NEW h \in Host, NEW o \in App
      PROVE  /\ InLists(h, o)' <=> InLists(h, o)
             /\ \A u \in At(h) : OwnedBy(u, o)' <=> OwnedBy(u, o)
  <2>1. InLists(h, o)' <=> InLists(h, o)
    BY DEF InLists
  <2>2. \A u \in At(h) \ {t} : OwnedBy(u, o)' <=> OwnedBy(u, o)
    BY DEF At, Only, OwnedBy
  <2> QED BY <2>1, <2>2 DEF OwnsSame
<1>2. GoneSame
  BY <1>1 DEF GoneSame, Gone, At
<1>3. ASSUME NEW h \in Host, NEW o \in App
      PROVE  /\ o \in listed'[h] => \A g \in Gcs : o \notin objs'[h][g] \union maybeDead'[h][g]
             /\ \A g1, g2 \in Gcs :
                  /\ o \in objs'[h][g1] => o \notin maybeDead'[h][g2]
                  /\ o \in objs'[h][g1] /\ o \in objs'[h][g2] => g1 = g2
                  /\ o \in maybeDead'[h][g1] /\ o \in maybeDead'[h][g2] => g1 = g2
             /\ InLists(h, o)' => o \in made'[h]
             /\ \A u \in At(h) : OwnedBy(u, o)' =>
                  /\ o \in made'[h] /\ ~InLists(h, o)'
                  /\ \A v \in At(h) : OwnedBy(v, o)' => v = u
  BY <1>1 DEF Once
<1>4. Once'
  BY <1>3 DEF Once, At
<1> QED BY <1>2, <1>4

LEMMA EndingStays ==
  ASSUME Ending, ChainsHold, SwapsHold,
         \A h \in Host : \A g \in Gcs :
           Swapped(h, g) /\ objs[h][g] = {} /\ maybeDead[h][g] = {} =>
             objs'[h][g] = {} /\ maybeDead'[h][g] = {}
  PROVE  Ending'
<1> SUFFICES ASSUME NEW h \in Host, NEW g \in Gcs
             PROVE  \/ Unstarted(h, g)' \/ Linked(h, g)'
                    \/ /\ Swapped(Other(h), g)'
                       /\ objs'[Other(h)][g] = {} /\ maybeDead'[Other(h)][g] = {}
  BY DEF Ending
<1>1. Other(h) \in Host
  BY TwoHosts
<1>2. CASE Unstarted(h, g) \/ Linked(h, g)
  BY <1>2 DEF ChainsHold
<1>3. CASE Swapped(Other(h), g) /\ objs[Other(h)][g] = {} /\ maybeDead[Other(h)][g] = {}
  BY <1>1, <1>3 DEF SwapsHold
<1> QED BY <1>2, <1>3 DEF Ending

LEMMA AgreeStays ==
  ASSUME CInv, Agreeing, Dropping, ChainsHold, AnswersSame, GoneSame,
         \A h \in Host : \A g \in Gcs : \A o \in App :
           /\ o \in maybeDead'[h][g] <=> o \in maybeDead[h][g]
           /\ o \in objs'[h][g] => o \in objs[h][g] \/ ~Swapped(h, g)
  PROVE  Agreeing' /\ Dropping'
<1>1. ASSUME NEW h \in Host, NEW g \in Gcs, NEW o \in App
      PROVE  /\ o \in maybeDead'[h][g] => ~Unscanned(h, g)'
             /\ Answered(h, g, o)' /\ Unscanned(Other(h), g)' => o \in maybeDead'[h][g]
             /\ o \in maybeDead'[h][g] /\ o \in objs'[Other(h)][g] => Answered(h, g, o)'
             /\ o \in maybeDead'[h][g] /\ Answered(Other(h), g, o)' =>
                  \/ o \in maybeDead'[Other(h)][g] /\ Answered(h, g, o)'
                  \/ Gone(Other(h), o)'
  <2>1. Other(h) \in Host
    BY TwoHosts
  <2>2. /\ Unscanned(h, g)' => Unscanned(h, g)
        /\ Unscanned(Other(h), g)' => Unscanned(Other(h), g)
        /\ Answered(h, g, o)' <=> Answered(h, g, o)
        /\ Answered(Other(h), g, o)' <=> Answered(Other(h), g, o)
        /\ Gone(Other(h), o)' <=> Gone(Other(h), o)
    BY <2>1 DEF ChainsHold, AnswersSame, GoneSame
  <2>3. o \in maybeDead[h][g] => Swapped(Other(h), g)
    BY DEF CInv, Offering, Offered
  <2> QED BY <2>1, <2>2, <2>3 DEF Agreeing
<1>2. Agreeing'
  BY <1>1 DEF Agreeing
<1>3. ASSUME NEW h \in Host, NEW o \in App, Gone(h, o)'
      PROVE  \/ Gone(Other(h), o)'
             \/ \E g \in Gcs : o \in maybeDead'[Other(h)][g] /\ Answered(h, g, o)'
  <2>1. Other(h) \in Host /\ Gone(h, o)
    BY <1>3, TwoHosts DEF GoneSame
  <2> QED BY <2>1 DEF GoneSame, AnswersSame, Dropping
<1>4. Dropping'
  BY <1>3 DEF Dropping
<1> QED BY <1>2, <1>4

LEMMA AskedStays ==
  ASSUME Asked, ~crashed, NEW t \in Thread, Only(t), made' = made, pc[t] # "making",
         \A h \in Host : \A i \in 1..Len(control[h]) : control[h][i].type = "CREATE" =>
           \/ \E j \in 1..Len(control'[h]) : control'[h][j] = control[h][i]
           \/ h = Home[t] /\ pc'[t] = "making" /\ msg'[t] = control[h][i]
  PROVE  Asked'
<1> SUFFICES ASSUME NEW h \in Host, NEW o \in made'[h], o \notin made'[Other(h)]
             PROVE  \/ \E i \in 1..Len(control'[Other(h)]) :
                         control'[Other(h)][i].type = "CREATE" /\ control'[Other(h)][i].obj = o
                    \/ \E u \in At(Other(h)) : pc'[u] = "making" /\ msg'[u].obj = o
  BY DEF Asked, At
<1>0. Other(h) \in Host
  BY TwoHosts
<1>1. CASE \E u \in At(Other(h)) : pc[u] = "making" /\ msg[u].obj = o
  BY <1>1 DEF At, Only
<1>2. CASE \E i \in 1..Len(control[Other(h)]) :
             control[Other(h)][i].type = "CREATE" /\ control[Other(h)][i].obj = o
  <2>1. PICK i \in 1..Len(control[Other(h)]) :
          control[Other(h)][i].type = "CREATE" /\ control[Other(h)][i].obj = o
    BY <1>2
  <2>2. \/ \E j \in 1..Len(control'[Other(h)]) : control'[Other(h)][j] = control[Other(h)][i]
        \/ Other(h) = Home[t] /\ pc'[t] = "making" /\ msg'[t] = control[Other(h)][i]
    BY <1>0, <2>1
  <2> QED BY <2>1, <2>2 DEF At
<1> QED BY <1>1, <1>2 DEF Asked

LEMMA UnswappedStays ==
  ASSUME Unswapped, SwapsHold,
         \A h \in Host : \A g \in Gcs :
           \/ objs'[h][g] = {} /\ maybeDead'[h][g] = {}
           \/ Swapped(h, g)'
           \/ objs'[h][g] = objs[h][g] /\ maybeDead'[h][g] = maybeDead[h][g]
  PROVE  Unswapped'
<1> SUFFICES ASSUME NEW h \in Host, NEW g \in Gcs, ~Swapped(h, g)'
             PROVE  objs'[h][g] = {} /\ maybeDead'[h][g] = {}
  BY DEF Unswapped
<1> QED BY DEF Unswapped, SwapsHold

\* A step that leaves the lists alone.
LEMMA ListsAlone ==
  ASSUME IInv, CInv, AInv, ~crashed, NEW t \in Thread, Only(t), ChainsHold, AnswersSame, SwapsHold,
         UNCHANGED <<made, listed, objs, maybeDead>>, OwnsSame(t), Makers', Asked'
  PROVE  AInv'
<1>1. Once' /\ GoneSame
  BY OnceSame DEF AInv
<1>2. Ending' /\ Unswapped'
  BY EndingStays, UnswappedStays DEF AInv
<1>3. Agreeing' /\ Dropping'
  BY <1>1, AgreeStays DEF AInv
<1> QED BY <1>1, <1>2, <1>3 DEF AInv, ChainsHold

\* What is in a channel stays there while t sends, or does nothing.
LEMMA ChannelKept ==
  ASSUME IInv, NEW t \in Thread, control' = control \/ \E m \in Message : Send(Home[t], m)
  PROVE  \A h \in Host : \A i \in 1..Len(control[h]) :
           \E j \in 1..Len(control'[h]) : control'[h][j] = control[h][i]
<1>1. CASE control' = control
  BY <1>1
<1>2. CASE \E m \in Message : Send(Home[t], m)
  <2>1. PICK m \in Message : Send(Home[t], m)
    BY <1>2
  <2>2. PICK k \in Host : k = Home[t]
    BY RemoteAssumption
  <2>3. Send(k, m)
    BY <2>1, <2>2
  <2>4. /\ Len(control[Other(k)]) \in Nat /\ control'[k] = control[k]
        /\ Len(control'[Other(k)]) = Len(control[Other(k)]) + 1
        /\ \A i \in 1..Len(control[Other(k)]) : control'[Other(k)][i] = control[Other(k)][i]
        /\ \A h \in Host : h = k \/ h = Other(k)
    BY <2>3, Sending
  <2>5. \A i \in 1..Len(control[Other(k)]) : i \in 1..Len(control'[Other(k)])
    BY <2>4
  <2> QED BY <2>4, <2>5
<1> QED BY <1>1, <1>2

LEMMA ApartStep ==
  ASSUME IInv, CInv, AInv, ~crashed, NEW t \in Thread, Only(t), Rests(t), StartsSame, SwapsHold,
         control' = control \/ \E m \in Message : Send(Home[t], m) /\ Free(m),
         UNCHANGED <<made, listed, objs, maybeDead>>, OwnsSame(t),
         pc[t] # "making", Makers'
  PROVE  AInv'
<1>1. ChainsHold /\ AnswersSame
  BY ApartFromChains DEF AInv
<1>2. Asked'
  BY ChannelKept, AskedStays DEF AInv
<1> QED BY <1>1, <1>2, ListsAlone

\* A step that leaves the endpoints alone, too.
LEMMA EndpointsAlone ==
  ASSUME IInv, CInv, AInv, ~crashed, NEW t \in Thread, Only(t), Rests(t),
         control' = control \/ \E m \in Message : Send(Home[t], m) /\ Free(m),
         UNCHANGED <<made, created, listed, objs, maybeDead>>,
         \/ msg'[t].obj = msg[t].obj
         \/ msg'[t].obj \notin Gcs /\ msg[t].obj \notin Gcs,
         pc'[t] \in {"acking", "onCreated", "flushing"} <=>
           pc[t] \in {"acking", "onCreated", "flushing"},
         pc'[t] \in {"acking", "onCreated"} => pc[t] \in {"acking", "onCreated"}
                                               /\ msg'[t].obj = msg[t].obj,
         \/ own'[t] = own[t] /\ (pc[t] = "marking" <=> pc'[t] = "marking")
         \/ (own[t] = None \/ pc[t] = "marking") /\ (own'[t] = None \/ pc'[t] = "marking"),
         pc[t] # "making", pc'[t] \notin {"spawning", "listing"},
         pc'[t] = "adding" => msg'[t].type = "CREATE"
  PROVE  AInv'
<1>1. StartsSame /\ SwapsHold
  BY StartsStay, SwapsStay
<1>2. OwnsSame(t)
  BY RemoteAssumption DEF OwnsSame, OwnedBy, Object
<1>3. Makers'
  BY MakersStay DEF AInv
<1> QED BY <1>1, <1>2, <1>3, ApartStep

-----------------------------------------------------------------------------
(* One lemma per action, once more: the steps apart from the chains.        *)

LEMMA WaitingA ==
  ASSUME IInv, CInv, AInv, ~crashed, NEW t \in Thread, UNCHANGED gcVars,
         \/ Check(t) \/ TryRecv(t) \/ Spin(t) \/ Relock(t)
         \/ \E o \in App : WaitUntilComplete(t, o)
  PROVE  AInv'
<1>1. /\ pc[t] \in {"idle", "check", "try", "spin", "relock"}
      /\ \E where \in {"idle", "check", "try", "spin", "relock", "reading"} :
           pc' = [pc EXCEPT ![t] = where]
      /\ UNCHANGED <<control, made, created, listed, objs, maybeDead, msg, own>>
      /\ \E who : caller' = [caller EXCEPT ![t] = who]
  <2>1. UNCHANGED <<control, made, created, listed, objs, maybeDead, msg, own>>
    BY DEF Check, TryRecv, Spin, Relock, WaitUntilComplete, objects, gcVars
  <2>2. \E who : caller' = [caller EXCEPT ![t] = who]
    <3>1. caller' = [caller EXCEPT ![t] = caller[t]] \/ \E who : caller' = [caller EXCEPT ![t] = who]
      BY DEF Check, TryRecv, Spin, Relock, WaitUntilComplete, IInv, Typed
    <3> QED BY <3>1
  <2>3. /\ pc[t] \in {"idle", "check", "try", "spin", "relock"}
        /\ \E where \in {"idle", "check", "try", "spin", "relock", "reading"} :
             pc' = [pc EXCEPT ![t] = where]
    BY DEF Check, TryRecv, Spin, Relock, WaitUntilComplete, Goto
  <2> QED BY <2>1, <2>2, <2>3
<1>2. Only(t) /\ pc'[t] \in {"idle", "check", "try", "spin", "relock", "reading"}
  BY <1>1 DEF Only, IInv, Typed
<1>3. msg[t] = NoMsg /\ own[t] = None /\ None \notin Gcs
  BY <1>1, Unowned, RemoteAssumption DEF IInv, Threads, ThreadOK, Empty, Object
<1>4. Rests(t)
  BY <1>1, <1>2, <1>3 DEF Rests, Bare, Free, NoMsg
<1> QED BY <1>1, <1>2, <1>3, <1>4, EndpointsAlone

LEMMA FinishA ==
  ASSUME IInv, CInv, AInv, ~crashed, NEW t \in Thread, Finish(t), UNCHANGED gcVars
  PROVE  AInv'
<1>1. /\ pc[t] = "done" /\ msg' = [msg EXCEPT ![t] = NoMsg]
      /\ pc' = [pc EXCEPT ![t] = IF caller[t] = None THEN "idle" ELSE "relock"]
      /\ UNCHANGED <<control, made, created, listed, objs, maybeDead, own, caller>>
  BY DEF Finish, Goto, objects, gcVars
<1>2. Only(t) /\ pc'[t] \in {"idle", "relock"} /\ msg'[t] = NoMsg
  BY <1>1 DEF Only, IInv, Typed
<1>3. own[t] = None /\ None \notin Gcs /\ msg[t] \in Message
  BY <1>1, Unowned, RemoteAssumption DEF Object, IInv, Threads, ThreadOK, Carrying
<1>4. Rests(t)
  BY <1>1, <1>2, <1>3 DEF Rests, Bare, Free, NoMsg
<1>5. StartsSame
  BY <1>1, <1>2 DEF StartsSame, Unstarted, At, Only
<1>6. SwapsHold /\ Makers' /\ OwnsSame(t)
  BY <1>1, <1>2, <1>3, SwapsStay, MakersStay DEF AInv, OwnsSame, OwnedBy
<1> QED BY <1>1, <1>2, <1>3, <1>4, <1>5, <1>6, ApartStep

LEMMA DispatchA ==
  ASSUME IInv, CInv, AInv, ~crashed, NEW t \in Thread, Dispatch(t), UNCHANGED gcVars
  PROVE  AInv'
<1>1. /\ pc[t] = "dispatch" /\ msg[t].obj \in App
      /\ \E where \in {"replying", "done"} : pc' = [pc EXCEPT ![t] = where]
      /\ UNCHANGED <<control, made, created, listed, objs, maybeDead, msg, own, caller>>
  BY DEF Dispatch, Goto, gcVars
<1>2. Only(t) /\ pc'[t] \in {"replying", "done"}
  BY <1>1 DEF Only, IInv, Typed
<1>3. own[t] = None /\ msg[t].obj \notin Gcs
  BY <1>1, Unowned, RemoteAssumption
<1>4. Rests(t)
  BY <1>1, <1>2, <1>3 DEF Rests, Bare, Free
<1> QED BY <1>1, <1>2, <1>3, <1>4, EndpointsAlone

LEMMA MarkCompleteMuA ==
  ASSUME IInv, CInv, AInv, ~crashed, NEW t \in Thread, MarkCompleteMu(t), UNCHANGED gcVars
  PROVE  AInv'
<1>1. /\ pc[t] = "marking" /\ pc' = [pc EXCEPT ![t] = "idle"]
      /\ own' = [own EXCEPT ![t] = None]
      /\ UNCHANGED <<control, made, created, listed, objs, maybeDead, msg, caller>>
  BY DEF MarkCompleteMu, Goto, gcVars
<1>2. Only(t) /\ pc'[t] = "idle" /\ own'[t] = None
  BY <1>1 DEF Only, IInv, Typed
<1>3. msg[t] = NoMsg /\ None \notin Gcs
  BY <1>1, RemoteAssumption DEF IInv, Threads, ThreadOK, Empty, Object
<1>4. Rests(t)
  BY <1>1, <1>2, <1>3 DEF Rests, Bare, Free, NoMsg
<1> QED BY <1>1, <1>2, <1>3, <1>4, EndpointsAlone

LEMMA ReleaseA ==
  ASSUME IInv, CInv, AInv, ~crashed, NEW t \in Thread, NEW o \in App, Release(t, o),
         UNCHANGED gcVars
  PROVE  AInv'
<1>1. /\ pc[t] = "idle" /\ pc' = pc
      /\ UNCHANGED <<control, made, created, listed, objs, maybeDead, msg, own, caller>>
  BY DEF Release, threads, gcVars
<1>2. Only(t)
  BY <1>1 DEF Only
<1>3. msg[t] = NoMsg /\ None \notin Gcs
  BY <1>1, RemoteAssumption DEF IInv, Threads, ThreadOK, Empty, Object
<1>4. Rests(t)
  BY <1>1, <1>2, <1>3 DEF Rests, Bare, Free, NoMsg
<1> QED BY <1>1, <1>2, <1>3, <1>4, EndpointsAlone

\* A message to the other end's object of a user, or an acknowledgement.
LEMMA FreeSent ==
  ASSUME Typed, NEW h \in Host, NEW o \in Object,
         NEW type \in {"CREATE", "CREATE_ACK", "DATA", "MARKCOMPLETE"},
         SendFrom(h, From(h, o, type)), o \in App \/ type \in {"CREATE", "CREATE_ACK"}
  PROVE  \E m \in Message : Send(h, m) /\ Free(m) /\ m.type = type /\ m.obj = o
<1>1. PICK m \in Message : m = From(h, o, type) /\ m.obj = o /\ m.type = type
  BY Letter
<1>2. Send(h, m)
  BY <1>1 DEF SendFrom
<1>3. Free(m)
  BY <1>1, RemoteAssumption DEF Free
<1> QED BY <1>1, <1>2, <1>3

LEMMA ReplyA ==
  ASSUME IInv, CInv, AInv, ~crashed, NEW t \in Thread, Reply(t), UNCHANGED gcVars
  PROVE  AInv'
<1>1. /\ pc[t] = "replying" /\ pc' = [pc EXCEPT ![t] = "done"]
      /\ SendFrom(Home[t], From(Home[t], msg[t].obj, "DATA"))
      /\ UNCHANGED <<made, created, listed, objs, maybeDead, msg, own, caller>>
  BY DEF Reply, Goto, gcVars
<1>2. Only(t) /\ pc'[t] = "done"
  BY <1>1 DEF Only, IInv, Typed
<1>3. PICK o \in App : o = msg[t].obj
  BY <1>1 DEF CInv, Kinds
<1>4. PICK k \in Host : k = Home[t]
  BY RemoteAssumption
<1>5. SendFrom(k, From(k, o, "DATA"))
  BY <1>1, <1>3, <1>4
<1>6. \E m \in Message : Send(k, m) /\ Free(m)
  BY <1>5, FreeSent DEF IInv, Object
<1>7. own[t] = None /\ msg[t].obj \notin Gcs
  BY <1>1, <1>3, Unowned, RemoteAssumption
<1>8. Rests(t)
  BY <1>1, <1>2, <1>7 DEF Rests, Bare, Free
<1> QED BY <1>1, <1>2, <1>4, <1>6, <1>7, <1>8, EndpointsAlone

LEMMA SendDataA ==
  ASSUME IInv, CInv, AInv, ~crashed, NEW t \in Thread, NEW o \in App, SendData(t, o),
         UNCHANGED gcVars
  PROVE  AInv'
<1>1. /\ CanCall(t, o) /\ pc' = pc
      /\ SendFrom(Home[t], From(Home[t], o, "DATA"))
      /\ UNCHANGED <<made, created, listed, objs, maybeDead, msg, own, caller>>
  BY DEF SendData, threads, gcVars
<1>2. Only(t) /\ pc[t] = "idle" /\ msg[t] = NoMsg /\ None \notin Gcs
  BY <1>1, Callable, RemoteAssumption DEF Only, Object
<1>4. PICK k \in Host : k = Home[t]
  BY RemoteAssumption
<1>5. SendFrom(k, From(k, o, "DATA"))
  BY <1>1, <1>4
<1>6. \E m \in Message : Send(k, m) /\ Free(m)
  BY <1>5, FreeSent DEF IInv, Object
<1>7. Rests(t)
  BY <1>1, <1>2 DEF Rests, Bare, Free, NoMsg
<1> QED BY <1>1, <1>2, <1>4, <1>6, <1>7, EndpointsAlone

LEMMA MarkCompleteA ==
  ASSUME IInv, CInv, AInv, ~crashed, NEW t \in Thread, NEW o \in App, MarkComplete(t, o),
         UNCHANGED gcVars
  PROVE  AInv'
<1>1. /\ CanCall(t, o) /\ pc' = [pc EXCEPT ![t] = "marking"]
      /\ SendFrom(Home[t], From(Home[t], o, "MARKCOMPLETE"))
      /\ own' = [own EXCEPT ![t] = o]
      /\ UNCHANGED <<made, created, listed, objs, maybeDead, msg, caller>>
  BY DEF MarkComplete, Goto, gcVars
<1>2. Only(t) /\ pc[t] = "idle" /\ pc'[t] = "marking" /\ msg[t] = NoMsg /\ None \notin Gcs
  <2>1. Only(t) /\ pc'[t] = "marking"
    BY <1>1 DEF Only, IInv, Typed
  <2>2. pc[t] = "idle" /\ msg[t] = NoMsg
    BY <1>1, Callable
  <2> QED BY <2>1, <2>2, RemoteAssumption DEF Object
<1>3. own[t] = None
  BY <1>2, Unowned
<1>4. PICK k \in Host : k = Home[t]
  BY RemoteAssumption
<1>5. SendFrom(k, From(k, o, "MARKCOMPLETE"))
  BY <1>1, <1>4
<1>6. \E m \in Message : Send(k, m) /\ Free(m)
  BY <1>5, FreeSent DEF IInv, Object
<1>7. Rests(t)
  BY <1>1, <1>2 DEF Rests, Bare, Free, NoMsg
<1> QED BY <1>1, <1>2, <1>3, <1>4, <1>6, <1>7, EndpointsAlone

LEMMA LockA ==
  ASSUME IInv, CInv, AInv, ~crashed, NEW t \in Thread, Lock(t), UNCHANGED gcVars
  PROVE  AInv'
<1> DEFINE k == Home[t]  o == msg[t].obj
<1>1. /\ pc[t] = "locking" /\ UNCHANGED <<control, made, listed, objs, maybeDead, msg, own, caller>>
      /\ \E where \in {"dispatch", "onCreated"} : pc' = [pc EXCEPT ![t] = where]
  BY DEF Lock, Goto, gcVars
<1>2. k \in Host /\ Only(t) /\ pc'[t] \in {"dispatch", "onCreated"}
  BY <1>1, RemoteAssumption DEF Only, IInv, Typed
<1>3. \/ created' = created /\ pc'[t] = "dispatch"
      \/ /\ o \notin created[k] /\ created' = Add(created, k, o)
         /\ o \in Gcs => pc'[t] = "onCreated"
  BY DEF Lock, Goto, IInv, Typed
<1>4. \A h \in Host : created[h] \subseteq created'[h]
  <2>1. CASE created' = created
    BY <2>1
  <2>2. CASE created' = Add(created, k, o)
    BY <2>2 DEF Add, IInv, Typed
  <2> QED BY <1>3, <2>1, <2>2
<1>5. SwapsHold /\ Makers'
  <2>1. pc'[t] \in {"acking", "onCreated"} => msg'[t].obj \notin created[Home[t]]
    BY <1>1, <1>2, <1>3
  <2> QED BY <1>1, <1>2, <1>4, <2>1, SwapsStay, MakersStay DEF AInv
<1>6. StartsSame
  <2> SUFFICES ASSUME NEW h \in Host, NEW g \in Gcs
               PROVE  Unstarted(h, g)' <=> Unstarted(h, g)
    BY DEF StartsSame
  <2>1. \A u \in At(h) \ {t} : msg'[u] = msg[u] /\ pc'[u] = pc[u]
    BY <1>2 DEF At, Only
  <2>2. CASE h = k /\ g = o /\ created' = Add(created, k, o) /\ o \notin created[k]
    <3>1. pc'[t] = "onCreated" /\ t \in At(h)
      BY <1>3, <1>4, <2>2, <1>2 DEF Add, IInv, Typed, At
    <3> QED BY <1>1, <2>2, <3>1 DEF Unstarted, At
  <2>3. CASE ~(h = k /\ g = o) /\ created' = Add(created, k, o)
    <3>1. g \in created'[h] <=> g \in created[h]
      BY <1>2, <2>3 DEF Add, IInv, Typed
    <3>2. t \in At(h) => msg[t].obj # g
      BY <2>3 DEF At
    <3> QED BY <1>1, <2>1, <3>1, <3>2 DEF Unstarted, At
  <2>4. CASE created' = created /\ pc'[t] = "dispatch"
    BY <1>1, <2>1, <2>4 DEF Unstarted, At
  <2> QED BY <1>3, <2>2, <2>3, <2>4
<1>7. OwnsSame(t)
  BY <1>1, <1>2 DEF OwnsSame, OwnedBy
<1>8. Rests(t)
  BY <1>1, <1>2 DEF Rests
<1> QED BY <1>1, <1>2, <1>5, <1>6, <1>7, <1>8, ApartStep

LEMMA AcknowledgeA ==
  ASSUME IInv, CInv, AInv, ~crashed, NEW t \in Thread, Acknowledge(t), UNCHANGED gcVars
  PROVE  AInv'
<1>1. /\ pc[t] = "acking"
      /\ pc' = [pc EXCEPT ![t] = IF msg[t].obj \in Gcs THEN "onCreated" ELSE "adding"]
      /\ SendFrom(Home[t], From(Home[t], msg[t].obj, "CREATE_ACK"))
      /\ UNCHANGED <<made, created, listed, objs, maybeDead, msg, own, caller>>
  BY DEF Acknowledge, Goto, gcVars
<1>2. /\ Only(t) /\ pc'[t] \in {"onCreated", "adding"}
      /\ pc'[t] = "onCreated" <=> msg[t].obj \in Gcs
  BY <1>1 DEF Only, IInv, Typed
<1>3. msg[t] \in Message /\ msg[t].type = "CREATE"
  BY <1>1 DEF IInv, Threads, ThreadOK, Carrying
<1>4. PICK k \in Host : k = Home[t]
  BY RemoteAssumption
<1>5. PICK o \in Object : o = msg[t].obj
  BY <1>3 DEF Message
<1>6. SendFrom(k, From(k, o, "CREATE_ACK"))
  BY <1>1, <1>4, <1>5
<1>7. \E m \in Message : Send(k, m) /\ Free(m)
  BY <1>6, FreeSent DEF IInv
<1>8. Rests(t)
  BY <1>1, <1>2 DEF Rests
<1>9. StartsSame
  <2> SUFFICES ASSUME NEW h \in Host, NEW g \in Gcs
               PROVE  Unstarted(h, g)' <=> Unstarted(h, g)
    BY DEF StartsSame
  <2>1. \A u \in At(h) :
          (msg'[u].obj = g /\ pc'[u] \in {"acking", "onCreated", "flushing"})
            <=> (msg[u].obj = g /\ pc[u] \in {"acking", "onCreated", "flushing"})
    BY <1>1, <1>2 DEF At, Only
  <2> QED BY <1>1, <2>1 DEF Unstarted, At
<1>10. SwapsHold /\ Makers' /\ OwnsSame(t)
  BY <1>1, <1>2, <1>3, SwapsStay, MakersStay DEF AInv, OwnsSame, OwnedBy
<1> QED BY <1>1, <1>2, <1>4, <1>7, <1>8, <1>9, <1>10, ApartStep

-----------------------------------------------------------------------------
(* The steps that move a link.                                              *)

LEMMA ReadA ==
  ASSUME IInv, IInv', CInv, AInv, ~crashed, NEW t \in Thread, Read(t), UNCHANGED gcVars,
         pc[t] \in {"idle", "reading"}
  PROVE  AInv'
<1>1. msg[t] = NoMsg /\ own[t] = None /\ None \notin Gcs
  BY Unowned, RemoteAssumption DEF IInv, Threads, ThreadOK, Empty, Object
<1>2. UNCHANGED <<made, created, listed, objs, maybeDead, own>>
  BY DEF Read, gcVars
<1>3. /\ Len(control[Home[t]]) \in Nat /\ 1 \in 1..Len(control[Home[t]])
      /\ Len(control'[Home[t]]) = Len(control[Home[t]]) - 1
      /\ \A i \in 1..Len(control'[Home[t]]) :
           i + 1 \in 1..Len(control[Home[t]])
           /\ control'[Home[t]][i] = control[Home[t]][i + 1]
      /\ \A d \in Host \ {Home[t]} : control'[d] = control[d]
      /\ msg'[t] = control[Home[t]][1] /\ Home[t] \in Host
      /\ pc'[t] = (IF msg'[t].dst THEN "locking" ELSE "making")
      /\ Only(t)
  BY Receiving
<1>4. Bare(t)
  BY <1>1 DEF Bare, Free, NoMsg
<1>5. ChainsHold /\ AnswersSame
  BY <1>4, LinkRead DEF AInv
<1>6. SwapsHold /\ Makers' /\ OwnsSame(t)
  BY <1>1, <1>2, <1>3, SwapsStay, MakersStay DEF AInv, OwnsSame, OwnedBy
<1>7. Asked'
  <2> SUFFICES ASSUME NEW h \in Host, NEW i \in 1..Len(control[h]), control[h][i].type = "CREATE"
               PROVE  \/ \E j \in 1..Len(control'[h]) : control'[h][j] = control[h][i]
                      \/ h = Home[t] /\ pc'[t] = "making" /\ msg'[t] = control[h][i]
    BY <1>2, <1>3, AskedStays DEF AInv
  <2>1. CASE h # Home[t]
    BY <1>3, <2>1
  <2>2. CASE h = Home[t] /\ i = 1
    <3>1. Sound(h, control[h][1])
      BY <1>3, <2>2 DEF IInv, Channels
    <3> QED BY <1>3, <2>2, <3>1 DEF Sound
  <2>3. CASE h = Home[t] /\ i # 1
    <3>1. PICK j \in 1..Len(control'[h]) : i = j + 1
      BY <1>3, <2>3
    <3> QED BY <1>3, <2>3, <3>1
  <2> QED BY <2>1, <2>2, <2>3
<1> QED BY <1>2, <1>3, <1>5, <1>6, <1>7, ListsAlone

\* What t sends offers what t was going to offer, or nothing.
LEMMA AnswersMove ==
  ASSUME IInv, NEW t \in Thread, Only(t), NEW m \in Message, Send(Home[t], m),
         \A g \in Gcs : \A o \in App :
           /\ Lists(t, g, o)' \/ Offers(m, g, o) <=> Lists(t, g, o)
           /\ Brings(t, g, o)' <=> Brings(t, g, o)
  PROVE  AnswersSame
<1> SUFFICES ASSUME NEW h \in Host, NEW g \in Gcs, NEW o \in App
             PROVE  Answered(h, g, o)' <=> Answered(h, g, o)
  BY DEF AnswersSame
<1>1. PICK k \in Host : k = Home[t]
  BY RemoteAssumption
<1>2. /\ Other(h) \in Host /\ (Other(h) = Other(k) <=> h = k) /\ Send(k, m)
  BY <1>1, TwoHosts
<1>3. Comes(Other(h), g, o)' <=> Comes(Other(h), g, o) \/ (h = k /\ Offers(m, g, o))
  BY <1>2, Appended
<1>4. /\ \A u \in Thread \ {t} : /\ Lists(u, g, o)' <=> Lists(u, g, o)
                                 /\ Brings(u, g, o)' <=> Brings(u, g, o)
  BY DEF Only, Lists, Brings, Offers
<1>5. t \in At(h) <=> h = k
  BY <1>1 DEF At
<1> QED BY <1>3, <1>4, <1>5, AnsweredIn DEF At

\* The link that t has in hand goes on as m.
Passes(t, m, c, g) ==
  \A h \in Host : \A gg \in Gcs :
    /\ Carries(t, h, gg) <=> h = c /\ gg = g
    /\ Link(Other(Home[t]), m, h, gg) <=> h = c /\ gg = g
    /\ Early(Other(Home[t]), m, h, gg) => CarriesEarly(t, h, gg)

LEMMA PassesOn ==
  ASSUME IInv, OneLink, NEW t \in Thread, Only(t), msg'[t].obj = msg[t].obj,
         created' = created, pc[t] \in {"dispatch", "listing"}, pc'[t] = "done",
         NEW m \in Message, Send(Home[t], m), NEW c \in Host, NEW g \in Gcs,
         Passes(t, m, c, g)
  PROVE  ChainsHold
<1>1. StartsSame
  BY StartsStay
<1>2. ~Unstarted(c, g) /\ Carries(t, c, g)
  BY DEF OneLink, OneLinkAt, Linked, Passes
<1>3. ASSUME NEW h \in Host, NEW gg \in Gcs
      PROVE  /\ ~Carries(t, h, gg)' /\ ~CarriesEarly(t, h, gg)'
             /\ Unstarted(h, gg)' <=> Unstarted(h, gg) /\ ~(h = c /\ gg = g)
             /\ Early(Other(Home[t]), m, h, gg) => Unscanned(h, gg)
  BY <1>1, <1>2 DEF Carries, CarriesEarly, Unscanned, StartsSame, Passes
<1>4. ASSUME NEW h \in Host, NEW gg \in Gcs
      PROVE  /\ Carries(t, h, gg)' <=> Carries(t, h, gg) /\ ~(h = c /\ gg = g)
             /\ CarriesEarly(t, h, gg)' => CarriesEarly(t, h, gg)
             /\ Link(Other(Home[t]), m, h, gg) <=> h = c /\ gg = g
  BY <1>3 DEF Passes
<1> QED BY <1>2, <1>3, <1>4, LinkPasses

LEMMA FlushMsgsA ==
  ASSUME IInv, CInv, AInv, ~crashed, NEW t \in Thread, FlushMsgs(t)
  PROVE  AInv'
<1>1. /\ pc[t] = "flushing" /\ UNCHANGED <<made, created, listed, objs, maybeDead, msg, own, caller>>
      /\ pc' = [pc EXCEPT ![t] = IF msg[t].type = "CREATE" THEN "adding" ELSE "dispatch"]
      /\ Notify(Home[t], msg[t].obj, "FLUSH_MSGS")
  BY DEF FlushMsgs, Goto, gcVars, objects
<1>2. /\ Only(t) /\ pc'[t] \in {"adding", "dispatch"}
      /\ pc'[t] = "adding" => msg[t].type = "CREATE"
  BY <1>1 DEF Only, IInv, Typed
<1>3. msg[t] \in Message /\ msg[t] # NoMsg
  BY <1>1 DEF IInv, Threads, ThreadOK, Carrying, Message, NoMsg
<1>4. PICK k \in Host : k = Home[t]
  BY RemoteAssumption
<1>5. PICK g \in Gcs : g = msg[t].obj
  BY <1>1 DEF CInv, Kinds
<1>6. PICK m \in Message : Send(k, m) /\ m.obj = g /\ m.type = "NOTIFY" /\ m.stage = "FLUSH_MSGS"
  BY <1>1, <1>4, <1>5, Notice DEF IInv, Object, Stages
<1>7. Rests(t)
  BY <1>1, <1>2 DEF Rests
<1>8. t \in At(k) /\ Unstarted(k, g) /\ Unscanned(k, g)
  BY <1>1, <1>4, <1>5 DEF At, Unstarted, Unscanned
<1>9. ASSUME NEW h \in Host, NEW gg \in Gcs
      PROVE  /\ Link(Other(k), m, h, gg) <=> h = k /\ gg = g
             /\ Early(Other(k), m, h, gg) => Unscanned(h, gg)
             /\ Carries(t, h, gg)' <=> Carries(t, h, gg) /\ ~(h = k /\ gg = g)
             /\ CarriesEarly(t, h, gg)' => CarriesEarly(t, h, gg)
             /\ Unstarted(h, gg)' <=> Unstarted(h, gg) /\ ~(h = k /\ gg = g)
  <2>1. Other(k) = Other(h) <=> h = k
    BY TwoHosts
  <2>2. /\ Link(Other(k), m, h, gg) <=> h = k /\ gg = g
        /\ Early(Other(k), m, h, gg) => h = k /\ gg = g
    BY <1>6, <2>1 DEF Link, Early, Answer, Flush, Scan
  <2>3. ~Carries(t, k, g)
    BY <1>8 DEF AInv, OneLink, OneLinkAt, Linked
  <2>4. /\ Carries(t, h, gg)' <=> Carries(t, h, gg)
        /\ CarriesEarly(t, h, gg)' <=> CarriesEarly(t, h, gg)
    BY <1>2, <1>7, HandsSame
  <2>5. \A u \in At(h) \ {t} : pc'[u] = pc[u] /\ msg'[u] = msg[u] /\ u \in Thread /\ Home[u] = h
    BY <1>2 DEF At, Only
  <2>6. Unstarted(h, gg)' <=> Unstarted(h, gg) /\ ~(h = k /\ gg = g)
    <3>1. CASE h = k /\ gg = g
      <4>1. g \in created[k]
        BY <1>1, <1>3, <1>4, <1>5 DEF CInv, Locked, Handling
      <4>2. ASSUME NEW u \in At(k) \ {t}, msg[u].obj = g,
                   pc[u] \in {"acking", "onCreated", "flushing"}
            PROVE  FALSE
        <5>1. pc[u] \in Handling /\ pc[t] \in Handling /\ u \in Thread /\ Home[u] = Home[t]
              /\ msg[t].obj = msg[u].obj
          BY <1>1, <1>4, <1>5, <4>2 DEF At, Handling
        <5> QED BY <1>3, <4>2, <5>1 DEF CInv, OneHandler
      <4>3. ~Unstarted(k, g)'
        BY <1>1, <1>2, <2>5, <3>1, <4>1, <4>2 DEF Unstarted, At
      <4> QED BY <3>1, <4>3
    <3>2. CASE ~(h = k /\ gg = g)
      <4>1. t \in At(h) => msg[t].obj # gg
        BY <1>4, <1>5, <3>2 DEF At
      <4>2. Unstarted(h, gg)' <=> Unstarted(h, gg)
        BY <1>1, <2>5, <4>1 DEF Unstarted, At
      <4> QED BY <3>2, <4>2
    <3> QED BY <3>1, <3>2
  <2>7. /\ Carries(t, h, gg)' <=> Carries(t, h, gg) /\ ~(h = k /\ gg = g)
        /\ Early(Other(k), m, h, gg) => Unscanned(h, gg)
    BY <1>8, <2>2, <2>3, <2>4
  <2> QED BY <2>2, <2>4, <2>6, <2>7
<1>10. ChainsHold
  BY <1>2, <1>4, <1>6, <1>8, <1>9, LinkPasses DEF AInv
<1>11. AnswersSame
  <2>1. \A o : ~Offers(m, g, o) /\ \A gg \in Gcs : ~Offers(m, gg, o)
    BY <1>6 DEF Offers
  <2>2. \A gg \in Gcs : \A o : /\ Lists(t, gg, o)' <=> Lists(t, gg, o)
                               /\ Brings(t, gg, o)' <=> Brings(t, gg, o)
    BY <1>2, <1>4, <1>7, HandsSame
  <2> QED BY <1>2, <1>4, <1>6, <2>1, <2>2, AnswersMove
<1>12. SwapsHold /\ Makers' /\ OwnsSame(t)
  BY <1>1, <1>2, SwapsStay, MakersStay DEF AInv, OwnsSame, OwnedBy
<1>13. Asked'
  BY <1>1, <1>2, <1>4, <1>6, ChannelKept, AskedStays DEF AInv
<1> QED BY <1>1, <1>2, <1>10, <1>11, <1>12, <1>13, ListsAlone

LEMMA OnNotifyFlushA ==
  ASSUME IInv, CInv, AInv, ~crashed, NEW t \in Thread, GcDispatch(t), OnNotifyFlush(t)
  PROVE  AInv'
<1>1. /\ pc[t] = "dispatch" /\ UNCHANGED <<made, created, listed, objs, maybeDead, msg, own, caller>>
      /\ pc' = [pc EXCEPT ![t] = "done"] /\ msg[t].stage = "FLUSH_MSGS"
      /\ Notify(Home[t], msg[t].obj, "DO_SCAN")
  BY DEF GcDispatch, OnNotifyFlush, Goto, gcVars, objects
<1>2. /\ Only(t) /\ pc'[t] = "done" /\ msg[t].type = "NOTIFY"
  BY <1>1 DEF Only, IInv, Typed, CInv, Order, Ordered
<1>4. PICK k \in Host : k = Home[t]
  BY RemoteAssumption
<1>5. PICK g \in Gcs : g = msg[t].obj
  BY DEF GcDispatch
<1>6. PICK m \in Message : Send(k, m) /\ m.obj = g /\ m.type = "NOTIFY" /\ m.stage = "DO_SCAN"
  BY <1>1, <1>4, <1>5, Notice DEF IInv, Object, Stages
<1>7. PICK c \in Host : c = Other(k) /\ Other(c) = k
  BY TwoHosts
<1>8. ASSUME NEW h \in Host, NEW gg \in Gcs
      PROVE  /\ Carries(t, h, gg) <=> h = c /\ gg = g
             /\ Link(Other(k), m, h, gg) <=> h = c /\ gg = g
             /\ Early(Other(k), m, h, gg) => CarriesEarly(t, h, gg)
  <2>1. k = Other(h) <=> h = c
    BY <1>7, TwoHosts
  <2>2. /\ Link(k, msg[t], h, gg) <=> h = c /\ gg = g
        /\ Early(k, msg[t], h, gg) <=> h = c /\ gg = g
    BY <1>1, <1>2, <1>5, <2>1 DEF Link, Early, Answer, Flush, Scan
  <2>3. /\ Link(Other(k), m, h, gg) <=> h = c /\ gg = g
        /\ Early(Other(k), m, h, gg) <=> h = c /\ gg = g
    BY <1>6, <1>7 DEF Link, Early, Answer, Flush, Scan
  <2> QED BY <1>1, <1>4, <2>2, <2>3 DEF Carries, CarriesEarly
<1>9. ChainsHold
  <2>1. /\ OneLink /\ msg'[t].obj = msg[t].obj /\ created' = created
        /\ pc[t] \in {"dispatch", "listing"} /\ pc'[t] = "done" /\ Only(t)
    BY <1>1, <1>2 DEF AInv
  <2>2. Send(Home[t], m) /\ Passes(t, m, c, g)
    BY <1>4, <1>6, <1>8 DEF Passes
  <2> QED BY <2>1, <2>2, PassesOn
<1>10. AnswersSame
  <2>1. \A gg \in Gcs : \A o : ~Offers(m, gg, o) /\ ~Offers(msg[t], gg, o) /\ ~Offers(msg'[t], gg, o)
    BY <1>1, <1>2, <1>6 DEF Offers
  <2>2. \A gg \in Gcs : \A o : /\ ~Lists(t, gg, o)' /\ ~Lists(t, gg, o)
                               /\ ~Brings(t, gg, o)' /\ ~Brings(t, gg, o)
    BY <1>1, <1>2, <2>1 DEF Lists, Brings
  <2> QED BY <1>2, <1>4, <1>6, <2>1, <2>2, AnswersMove
<1>11. SwapsHold /\ Makers' /\ OwnsSame(t)
  BY <1>1, <1>2, SwapsStay, MakersStay DEF AInv, OwnsSame, OwnedBy
<1>12. Asked'
  BY <1>1, <1>2, <1>4, <1>6, ChannelKept, AskedStays DEF AInv
<1> QED BY <1>1, <1>2, <1>9, <1>10, <1>11, <1>12, ListsAlone

LEMMA OnAckA ==
  ASSUME IInv, CInv, AInv, ~crashed, NEW t \in Thread, GcDispatch(t), OnAck(t)
  PROVE  AInv'
<1>1. /\ pc[t] = "dispatch" /\ msg[t].type = "CREATE_ACK" /\ pc' = [pc EXCEPT ![t] = "done"]
      /\ UNCHANGED <<control, made, created, listed, objs, maybeDead, msg, own, caller>>
  BY DEF GcDispatch, OnAck, Goto, gcVars, objects
<1>2. Only(t) /\ pc'[t] = "done" /\ own[t] = None
  BY <1>1, Unowned DEF Only, IInv, Typed
<1>3. Rests(t)
  BY <1>1, <1>2 DEF Rests, Bare, Free
<1> QED BY <1>1, <1>2, <1>3, EndpointsAlone

LEMMA SendListA ==
  ASSUME IInv, CInv, AInv, ~crashed, NEW t \in Thread, SendList(t)
  PROVE  AInv'
<1>1. /\ pc[t] = "listing" /\ UNCHANGED <<made, created, listed, objs, maybeDead, msg, own, caller>>
      /\ pc' = [pc EXCEPT ![t] = "done"]
      /\ SendFrom(Home[t], [From(Home[t], msg[t].obj, "DATA") EXCEPT !.list = msg[t].list])
  BY DEF SendList, Goto, gcVars, objects
<1>2. /\ Only(t) /\ pc'[t] = "done" /\ msg[t] \in Message
  BY <1>1 DEF Only, IInv, Typed, Threads, ThreadOK, Carrying
<1>3. msg[t].obj \in Gcs /\ Scan(msg[t], msg[t].obj)
  BY <1>1 DEF AInv, Makers
<1>4. PICK k \in Host : k = Home[t]
  BY RemoteAssumption
<1>5. PICK g \in Gcs : g = msg[t].obj
  BY <1>3
<1>6. PICK m \in Message : /\ Send(k, m) /\ m.obj = g /\ m.type = "DATA" /\ m.stage = "ABSENT"
                           /\ m.list = msg[t].list
  <2>1. PICK n \in Message : n = From(k, g, "DATA") /\ n.obj = g /\ n.type = "DATA" /\ n.stage = "ABSENT"
    BY Letter DEF IInv, Object
  <2>2. PICK l : l = [n EXCEPT !.list = msg[t].list]
    OBVIOUS
  <2>3. msg[t].list \in SUBSET Object
    BY <1>2 DEF Message
  <2>4. l \in Message /\ l.obj = g /\ l.type = "DATA" /\ l.stage = "ABSENT" /\ l.list = msg[t].list
    BY <2>1, <2>2, <2>3 DEF Message
  <2>5. Send(k, l)
    BY <1>1, <1>4, <1>5, <2>1, <2>2 DEF SendFrom
  <2> QED BY <2>4, <2>5
<1>7. Other(k) \in Host /\ Other(Other(k)) = k /\ Other(k) # k
  BY TwoHosts
<1>8. ASSUME NEW h \in Host, NEW gg \in Gcs
      PROVE  /\ Carries(t, h, gg) <=> h = k /\ gg = g
             /\ Link(Other(k), m, h, gg) <=> h = k /\ gg = g
             /\ Early(Other(k), m, h, gg) => CarriesEarly(t, h, gg)
  <2>1. Other(k) = Other(h) <=> h = k
    BY <1>7, TwoHosts
  <2>2. Link(k, msg[t], h, gg) <=> h = k /\ gg = g
    BY <1>3, <1>5, <2>1 DEF Link, Early, Answer, Flush, Scan
  <2>3. /\ Link(Other(k), m, h, gg) <=> h = k /\ gg = g
        /\ ~Early(Other(k), m, h, gg)
    BY <1>6, <2>1 DEF Link, Early, Answer, Flush, Scan
  <2> QED BY <1>1, <1>4, <2>2, <2>3 DEF Carries, CarriesEarly
<1>9. ChainsHold
  <2>1. /\ OneLink /\ msg'[t].obj = msg[t].obj /\ created' = created
        /\ pc[t] \in {"dispatch", "listing"} /\ pc'[t] = "done" /\ Only(t)
    BY <1>1, <1>2 DEF AInv
  <2>2. Send(Home[t], m) /\ Passes(t, m, k, g)
    BY <1>4, <1>6, <1>8 DEF Passes
  <2> QED BY <2>1, <2>2, PassesOn
<1>10. AnswersSame
  <2>1. \A gg \in Gcs : \A o : Offers(m, gg, o) <=> gg = g /\ o \in msg[t].list
    BY <1>6 DEF Offers
  <2>2. \A gg \in Gcs : \A o : /\ ~Lists(t, gg, o)' /\ (Lists(t, gg, o) <=> gg = g /\ o \in msg[t].list)
                               /\ ~Brings(t, gg, o)' /\ ~Brings(t, gg, o)
    BY <1>1, <1>2, <1>3, <1>5 DEF Lists, Brings, Offers, Scan
  <2> QED BY <1>2, <1>4, <1>6, <2>1, <2>2, AnswersMove
<1>11. SwapsHold /\ Makers' /\ OwnsSame(t)
  BY <1>1, <1>2, SwapsStay, MakersStay DEF AInv, OwnsSame, OwnedBy
<1>12. Asked'
  BY <1>1, <1>2, <1>4, <1>6, ChannelKept, AskedStays DEF AInv
<1> QED BY <1>1, <1>2, <1>9, <1>10, <1>11, <1>12, ListsAlone

-----------------------------------------------------------------------------
(* The steps that make an endpoint, and put it in a list.                   *)

\* The host lists an endpoint, which its thread gives up.
LEMMA ListedOnce ==
  ASSUME Once, NEW t \in Thread, Only(t), UNCHANGED <<made, objs, maybeDead>>,
         pc[t] = "adding", own'[t] = None, NEW k \in Host, k = Home[t],
         listed'[k] = listed[k] \union {own[t]}, \A h \in Host \ {k} : listed'[h] = listed[h]
  PROVE  Once' /\ GoneSame
<1>1. /\ \A u \in Thread \ {t} : \A o : OwnedBy(u, o)' <=> OwnedBy(u, o)
      /\ \A o \in App : ~OwnedBy(t, o)' /\ (OwnedBy(t, o) <=> own[t] = o)
  BY RemoteAssumption DEF Only, OwnedBy, Object
<1>2. ASSUME NEW h \in Host, NEW o \in App
      PROVE  /\ InLists(h, o)' <=> InLists(h, o) \/ (h = k /\ OwnedBy(t, o))
             /\ o \in listed'[h] <=> o \in listed[h] \/ (h = k /\ OwnedBy(t, o))
  BY <1>1 DEF InLists
<1>3. t \in At(k) /\ \A h \in Host : t \in At(h) <=> h = k
  BY DEF At
<1>4. ASSUME NEW h \in Host, NEW o \in App
      PROVE  Gone(h, o)' <=> Gone(h, o)
  <2>1. \A u \in At(h) \ {t} : OwnedBy(u, o)' <=> OwnedBy(u, o)
    BY <1>1 DEF At
  <2> QED BY <1>1, <1>2, <1>3, <2>1 DEF Gone, At
<1>5. ASSUME NEW h \in Host, NEW o \in App
      PROVE  /\ o \in listed'[h] => \A g \in Gcs : o \notin objs'[h][g] \union maybeDead'[h][g]
             /\ \A g1, g2 \in Gcs :
                  /\ o \in objs'[h][g1] => o \notin maybeDead'[h][g2]
                  /\ o \in objs'[h][g1] /\ o \in objs'[h][g2] => g1 = g2
                  /\ o \in maybeDead'[h][g1] /\ o \in maybeDead'[h][g2] => g1 = g2
             /\ InLists(h, o)' => o \in made'[h]
             /\ \A u \in At(h) : OwnedBy(u, o)' =>
                  /\ o \in made'[h] /\ ~InLists(h, o)'
                  /\ \A v \in At(h) : OwnedBy(v, o)' => v = u
  <2>1. h = k /\ OwnedBy(t, o) => o \in made[h] /\ ~InLists(h, o)
    BY <1>3 DEF Once
  <2>2. o \in listed'[h] => \A g \in Gcs : o \notin objs'[h][g] \union maybeDead'[h][g]
    BY <1>2, <2>1 DEF Once, InLists
  <2>3. \A g1, g2 \in Gcs :
          /\ o \in objs'[h][g1] => o \notin maybeDead'[h][g2]
          /\ o \in objs'[h][g1] /\ o \in objs'[h][g2] => g1 = g2
          /\ o \in maybeDead'[h][g1] /\ o \in maybeDead'[h][g2] => g1 = g2
    BY DEF Once
  <2>4. InLists(h, o)' => o \in made'[h]
    BY <1>2, <2>1 DEF Once
  <2>5. ASSUME NEW u \in At(h), OwnedBy(u, o)'
        PROVE  /\ o \in made'[h] /\ ~InLists(h, o)'
               /\ \A v \in At(h) : OwnedBy(v, o)' => v = u
    <3>1. u # t /\ OwnedBy(u, o)
      BY <1>1, <2>5 DEF At
    <3>2. o \in made[h] /\ ~InLists(h, o) /\ \A v \in At(h) : OwnedBy(v, o) => v = u
      BY <3>1 DEF Once
    <3>3. ~(h = k /\ OwnedBy(t, o))
      BY <1>3, <3>1, <3>2
    <3>4. \A v \in At(h) : OwnedBy(v, o)' => OwnedBy(v, o)
      BY <1>1 DEF At
    <3> QED BY <1>2, <3>2, <3>3, <3>4
  <2> QED BY <2>2, <2>3, <2>4, <2>5
<1>6. Once'
  BY <1>5 DEF Once, At
<1>7. GoneSame
  BY <1>4 DEF GoneSame
<1> QED BY <1>6, <1>7

LEMMA AddObjectA ==
  ASSUME IInv, CInv, AInv, ~crashed, NEW t \in Thread, AddObject(t), UNCHANGED gcVars
  PROVE  AInv'
<1>1. /\ pc[t] = "adding"
      /\ \E where \in {"idle", "done", "spawning"} : pc' = [pc EXCEPT ![t] = where]
      /\ listed' = [listed EXCEPT ![Home[t]] = listed[Home[t]] \union {own[t]}]
      /\ own' = [own EXCEPT ![t] = None]
      /\ UNCHANGED <<control, made, created, objs, maybeDead, msg, caller>>
  BY DEF AddObject, Add, Goto, gcVars
<1>2. Only(t) /\ pc'[t] \in {"idle", "done", "spawning"} /\ own'[t] = None
  BY <1>1 DEF Only, IInv, Typed
<1>3. PICK k \in Host : k = Home[t]
  BY RemoteAssumption
<1>4. listed'[k] = listed[k] \union {own[t]} /\ \A h \in Host \ {k} : listed'[h] = listed[h]
  BY <1>1, <1>3 DEF IInv, Typed
<1>5. msg[t].type \in {"none", "CREATE"}
  BY <1>1 DEF AInv, Makers
<1>6. Rests(t)
  BY <1>1, <1>2, <1>5 DEF Rests, Bare, Free
<1>7. StartsSame /\ SwapsHold /\ Makers'
  BY <1>1, <1>2, <1>5, StartsStay, SwapsStay, MakersStay DEF AInv
<1>8. ChainsHold /\ AnswersSame
  BY <1>1, <1>2, <1>6, <1>7, ApartFromChains DEF AInv
<1>9. Once' /\ GoneSame
  BY <1>1, <1>2, <1>3, <1>4, ListedOnce DEF AInv
<1>10. Asked'
  BY <1>1, <1>2, ChannelKept, AskedStays DEF AInv
<1>11. Ending' /\ Unswapped'
  BY <1>1, <1>7, <1>8, EndingStays, UnswappedStays DEF AInv
<1>12. Agreeing' /\ Dropping'
  BY <1>1, <1>8, <1>9, AgreeStays DEF AInv
<1> QED BY <1>7, <1>8, <1>9, <1>10, <1>11, <1>12 DEF AInv, ChainsHold

\* A thread makes an endpoint, and has the first reference to it.
LEMMA OwnedOnce ==
  ASSUME Once, NEW t \in Thread, Only(t), UNCHANGED <<listed, objs, maybeDead>>,
         NEW k \in Host, k = Home[t], NEW p, p \notin made[k],
         own[t] = None, own'[t] = p, pc'[t] # "marking",
         made'[k] = made[k] \union {p}, \A h \in Host \ {k} : made'[h] = made[h]
  PROVE  Once' /\ GoneSame
<1>1. /\ \A u \in Thread \ {t} : \A o : OwnedBy(u, o)' <=> OwnedBy(u, o)
      /\ \A o \in App : ~OwnedBy(t, o) /\ (OwnedBy(t, o)' <=> o = p)
  BY RemoteAssumption DEF Only, OwnedBy, Object
<1>2. ASSUME NEW h \in Host, NEW o \in App
      PROVE  InLists(h, o)' <=> InLists(h, o)
  BY DEF InLists
<1>3. t \in At(k) /\ \A h \in Host : t \in At(h) <=> h = k
  BY DEF At
<1>4. ASSUME NEW h \in Host, NEW o \in App
      PROVE  Gone(h, o)' <=> Gone(h, o)
  <2>1. \A u \in At(h) \ {t} : OwnedBy(u, o)' <=> OwnedBy(u, o)
    BY <1>1 DEF At
  <2>2. CASE h = k /\ o = p
    <3>1. OwnedBy(t, o)' /\ o \notin made[h]
      BY <1>1, <2>2
    <3> QED BY <1>3, <2>2, <3>1 DEF Gone, At
  <2>3. CASE ~(h = k /\ o = p)
    <3>1. /\ o \in made'[h] <=> o \in made[h]
          /\ t \in At(h) => ~OwnedBy(t, o)' /\ ~OwnedBy(t, o)
      BY <1>1, <1>3, <2>3
    <3> QED BY <1>2, <2>1, <3>1 DEF Gone, At
  <2> QED BY <2>2, <2>3
<1>5. ASSUME NEW h \in Host, NEW o \in App
      PROVE  /\ o \in listed'[h] => \A g \in Gcs : o \notin objs'[h][g] \union maybeDead'[h][g]
             /\ \A g1, g2 \in Gcs :
                  /\ o \in objs'[h][g1] => o \notin maybeDead'[h][g2]
                  /\ o \in objs'[h][g1] /\ o \in objs'[h][g2] => g1 = g2
                  /\ o \in maybeDead'[h][g1] /\ o \in maybeDead'[h][g2] => g1 = g2
             /\ InLists(h, o)' => o \in made'[h]
             /\ \A u \in At(h) : OwnedBy(u, o)' =>
                  /\ o \in made'[h] /\ ~InLists(h, o)'
                  /\ \A v \in At(h) : OwnedBy(v, o)' => v = u
  <2>1. /\ o \in listed'[h] => \A g \in Gcs : o \notin objs'[h][g] \union maybeDead'[h][g]
        /\ \A g1, g2 \in Gcs :
             /\ o \in objs'[h][g1] => o \notin maybeDead'[h][g2]
             /\ o \in objs'[h][g1] /\ o \in objs'[h][g2] => g1 = g2
             /\ o \in maybeDead'[h][g1] /\ o \in maybeDead'[h][g2] => g1 = g2
        /\ InLists(h, o)' => o \in made'[h]
    BY <1>2 DEF Once
  <2>2. ASSUME NEW u \in At(h), OwnedBy(u, o)'
        PROVE  /\ o \in made'[h] /\ ~InLists(h, o)'
               /\ \A v \in At(h) : OwnedBy(v, o)' => v = u
    <3>1. CASE h = k /\ o = p
      <4>1. /\ ~InLists(h, o) /\ \A v \in At(h) : ~OwnedBy(v, o)
        BY <3>1 DEF Once
      <4>2. \A v \in At(h) \ {t} : ~OwnedBy(v, o)'
        BY <1>1, <4>1 DEF At
      <4> QED BY <1>2, <2>2, <3>1, <4>1, <4>2
    <3>2. CASE ~(h = k /\ o = p)
      <4>1. \A v \in At(h) : OwnedBy(v, o)' <=> OwnedBy(v, o)
        BY <1>1, <1>3, <3>2 DEF At
      <4>2. o \in made[h] => o \in made'[h]
        BY <3>2
      <4> QED BY <1>2, <2>2, <4>1, <4>2 DEF Once
    <3> QED BY <3>1, <3>2
  <2> QED BY <2>1, <2>2
<1>6. Once'
  BY <1>5 DEF Once, At
<1>7. GoneSame
  BY <1>4 DEF GoneSame
<1> QED BY <1>6, <1>7

LEMMA AskedGrows ==
  ASSUME Asked, ~crashed, NEW t \in Thread, Only(t), \A h \in Host : made[h] \subseteq made'[h],
         pc[t] = "making" => msg[t].obj \in made'[Home[t]],
         \A h \in Host : \A i \in 1..Len(control[h]) :
           \E j \in 1..Len(control'[h]) : control'[h][j] = control[h][i],
         \A h \in Host : \A o \in made'[h] \ made[h] :
           \/ o \in made'[Other(h)]
           \/ \E i \in 1..Len(control'[Other(h)]) :
                control'[Other(h)][i].type = "CREATE" /\ control'[Other(h)][i].obj = o
  PROVE  Asked'
<1> SUFFICES ASSUME NEW h \in Host, NEW o \in made'[h], o \notin made'[Other(h)]
             PROVE  \/ \E i \in 1..Len(control'[Other(h)]) :
                         control'[Other(h)][i].type = "CREATE" /\ control'[Other(h)][i].obj = o
                    \/ \E u \in At(Other(h)) : pc'[u] = "making" /\ msg'[u].obj = o
  BY DEF Asked, At
<1>0. Other(h) \in Host /\ o \notin made[Other(h)]
  BY TwoHosts
<1>1. CASE \E u \in At(Other(h)) : pc[u] = "making" /\ msg[u].obj = o
  BY <1>1 DEF At, Only
<1>2. CASE \E i \in 1..Len(control[Other(h)]) :
             control[Other(h)][i].type = "CREATE" /\ control[Other(h)][i].obj = o
  BY <1>0, <1>2
<1>3. CASE o \notin made[h]
  BY <1>3
<1> QED BY <1>0, <1>1, <1>2, <1>3 DEF Asked

LEMMA CreateRemoteObjectA ==
  ASSUME IInv, CInv, AInv, ~crashed, NEW t \in Thread, NEW o \in Object,
         CreateRemoteObject(t, o), UNCHANGED gcVars, pc[t] \in {"idle", "spawning"}
  PROVE  AInv'
<1>1. PICK k \in Host : k = Home[t]
  BY RemoteAssumption
<1>2. /\ o \notin made[k] /\ made' = Add(made, k, o)
      /\ SendFrom(k, From(k, o, "CREATE"))
      /\ own' = [own EXCEPT ![t] = o] /\ pc' = [pc EXCEPT ![t] = "adding"]
      /\ UNCHANGED <<created, listed, msg, caller, objs, maybeDead>>
  BY <1>1 DEF CreateRemoteObject, Goto, gcVars
<1>3. Only(t) /\ own'[t] = o /\ pc'[t] = "adding" /\ own[t] = None
  BY <1>2, Unowned DEF Only, IInv, Typed
<1>4. made'[k] = made[k] \union {o} /\ \A h \in Host \ {k} : made'[h] = made[h]
  BY <1>2 DEF IInv, Typed, Add
<1>5. PICK m \in Message : Send(k, m) /\ Free(m) /\ m.type = "CREATE" /\ m.obj = o
  BY <1>2, FreeSent DEF IInv
<1>6. msg[t].type \in {"none", "CREATE"}
  <2>1. CASE pc[t] = "idle"
    BY <2>1 DEF IInv, Threads, ThreadOK, Empty, NoMsg
  <2>2. CASE pc[t] = "spawning"
    BY <2>2 DEF AInv, Makers
  <2> QED BY <2>1, <2>2
<1>7. Rests(t)
  BY <1>2, <1>3, <1>6 DEF Rests, Bare, Free
<1>8. StartsSame /\ SwapsHold /\ Makers'
  BY <1>2, <1>3, <1>6, StartsStay, SwapsStay, MakersStay DEF AInv
<1>9. ChainsHold /\ AnswersSame
  BY <1>1, <1>3, <1>5, <1>7, <1>8, ApartFromChains DEF AInv
<1>10. Once' /\ GoneSame
  BY <1>1, <1>2, <1>3, <1>4, OwnedOnce DEF AInv
<1>11. Asked'
  <2>1. \A h \in Host : \A i \in 1..Len(control[h]) :
          \E j \in 1..Len(control'[h]) : control'[h][j] = control[h][i]
    BY <1>1, <1>5, ChannelKept
  <2>2. \E i \in 1..Len(control'[Other(k)]) :
          control'[Other(k)][i].type = "CREATE" /\ control'[Other(k)][i].obj = o
    <3>1. /\ Len(control[Other(k)]) \in Nat
          /\ Len(control'[Other(k)]) = Len(control[Other(k)]) + 1
          /\ control'[Other(k)][Len(control[Other(k)]) + 1] = m
      BY <1>5, Sending
    <3>2. Len(control[Other(k)]) + 1 \in 1..Len(control'[Other(k)])
      BY <3>1
    <3> QED BY <1>5, <3>1, <3>2
  <2>3. \A h \in Host : \A p \in made'[h] \ made[h] :
          \E i \in 1..Len(control'[Other(h)]) :
            control'[Other(h)][i].type = "CREATE" /\ control'[Other(h)][i].obj = p
    BY <1>4, <2>2
  <2>4. \A h \in Host : made[h] \subseteq made'[h]
    BY <1>4
  <2> QED BY <1>3, <2>1, <2>3, <2>4, AskedGrows DEF AInv
<1>12. Ending' /\ Unswapped'
  BY <1>2, <1>8, <1>9, EndingStays, UnswappedStays DEF AInv
<1>13. Agreeing' /\ Dropping'
  BY <1>2, <1>9, <1>10, AgreeStays DEF AInv
<1> QED BY <1>8, <1>9, <1>10, <1>11, <1>12, <1>13 DEF AInv, ChainsHold

LEMMA MakeA ==
  ASSUME IInv, CInv, AInv, ~crashed, NEW t \in Thread, Make(t), UNCHANGED gcVars
  PROVE  AInv'
<1>1. PICK k \in Host : k = Home[t]
  BY RemoteAssumption
<1>2. PICK o : o = msg[t].obj
  OBVIOUS
<1>3. /\ pc[t] = "making" /\ made' = Add(made, k, o) /\ created' = Add(created, k, o)
      /\ pc' = [pc EXCEPT ![t] = "acking"] /\ own' = [own EXCEPT ![t] = o]
      /\ UNCHANGED <<control, listed, msg, caller, objs, maybeDead>>
  BY <1>1, <1>2 DEF Make, Goto, gcVars
<1>4. /\ msg[t] \in Message /\ msg[t].type = "CREATE" /\ own[t] = None /\ Sound(k, msg[t])
      /\ o \in Object
  BY <1>1, <1>2, <1>3, Unowned DEF IInv, Threads, ThreadOK, Carrying, InHand, Message
<1>5. Only(t) /\ own'[t] = o /\ pc'[t] = "acking"
  BY <1>3 DEF Only, IInv, Typed
<1>6. /\ made'[k] = made[k] \union {o} /\ \A h \in Host \ {k} : made'[h] = made[h]
      /\ created'[k] = created[k] \union {o} /\ \A h \in Host \ {k} : created'[h] = created[h]
  BY <1>3 DEF IInv, Typed, Add
<1>7. o \notin made[k] /\ o \notin created[k] /\ o \in made[Other(k)]
  BY <1>1, <1>2, <1>3, <1>4 DEF CInv, CreatedOnce, Creations, IInv, Endpoints, Sound
<1>8. Rests(t)
  BY <1>3, <1>5 DEF Rests
<1>9. StartsSame
  <2> SUFFICES ASSUME NEW h \in Host, NEW g \in Gcs
               PROVE  Unstarted(h, g)' <=> Unstarted(h, g)
    BY DEF StartsSame
  <2>1. \A u \in At(h) \ {t} : msg'[u] = msg[u] /\ pc'[u] = pc[u]
    BY <1>5 DEF At, Only
  <2>2. CASE h = k /\ g = o
    <3>1. t \in At(h)
      BY <1>1, <2>2 DEF At
    <3> QED BY <1>2, <1>3, <1>5, <1>7, <2>2, <3>1 DEF Unstarted
  <2>3. CASE ~(h = k /\ g = o)
    <3>1. g \in created'[h] <=> g \in created[h]
      BY <1>6, <2>3
    <3>2. t \in At(h) => msg[t].obj # g
      BY <1>1, <1>2, <2>3 DEF At
    <3> QED BY <1>3, <2>1, <3>1, <3>2 DEF Unstarted, At
  <2> QED BY <2>2, <2>3
<1>10. SwapsHold /\ Makers'
  <2>1. \A h \in Host : created[h] \subseteq created'[h]
    BY <1>6
  <2> QED BY <1>1, <1>2, <1>3, <1>5, <1>7, <2>1, SwapsStay, MakersStay DEF AInv
<1>11. ChainsHold /\ AnswersSame
  BY <1>3, <1>5, <1>8, <1>9, ApartFromChains DEF AInv
<1>12. Once' /\ GoneSame
  BY <1>1, <1>3, <1>4, <1>5, <1>6, <1>7, OwnedOnce DEF AInv
<1>13. Asked'
  <2>1. \A h \in Host : \A i \in 1..Len(control[h]) :
          \E j \in 1..Len(control'[h]) : control'[h][j] = control[h][i]
    BY <1>3
  <2>2. \A h \in Host : \A p \in made'[h] \ made[h] : p \in made'[Other(h)]
    BY <1>6, <1>7, TwoHosts
  <2>3. \A h \in Host : made[h] \subseteq made'[h]
    BY <1>6
  <2>4. msg[t].obj \in made'[Home[t]]
    BY <1>1, <1>2, <1>6
  <2> QED BY <1>5, <2>1, <2>2, <2>3, <2>4, AskedGrows DEF AInv
<1>14. Ending' /\ Unswapped'
  BY <1>3, <1>10, <1>11, EndingStays, UnswappedStays DEF AInv
<1>15. Agreeing' /\ Dropping'
  BY <1>3, <1>11, <1>12, AgreeStays DEF AInv
<1> QED BY <1>10, <1>11, <1>12, <1>13, <1>14, <1>15 DEF AInv, ChainsHold

LEMMA OnCreatedA ==
  ASSUME IInv, CInv, AInv, ~crashed, NEW t \in Thread, OnCreated(t)
  PROVE  AInv'
<1>1. PICK k \in Host : k = Home[t]
  BY RemoteAssumption
<1>2. PICK g \in Gcs : g = msg[t].obj
  BY DEF OnCreated, IInv, Threads, ThreadOK
<1>3. /\ pc[t] = "onCreated" /\ pc' = [pc EXCEPT ![t] = "flushing"]
      /\ listed' = [listed EXCEPT ![k] = objs[k][g]]
      /\ objs' = [objs EXCEPT ![k] = [objs[k] EXCEPT ![g] = listed[k]]]
      /\ UNCHANGED <<control, made, created, msg, caller, own, maybeDead>>
  BY <1>1, <1>2 DEF OnCreated, Goto
<1>4. Only(t) /\ pc'[t] = "flushing" /\ t \in At(k)
  BY <1>1, <1>3 DEF Only, IInv, Typed, At
<1>5. ~Swapped(k, g) /\ objs[k][g] = {} /\ maybeDead[k][g] = {}
  BY <1>2, <1>3, <1>4 DEF Swapped, AInv, Unswapped
<1>6. /\ \A h \in Host : \A gg \in Gcs :
           objs'[h][gg] = IF h = k /\ gg = g THEN listed[k] ELSE objs[h][gg]
      /\ \A h \in Host : listed'[h] = IF h = k THEN {} ELSE listed[h]
  <2>1. objs[k] \in [Gcs -> SUBSET Object]
    BY DEF IInv, Typed
  <2>2. /\ \A h \in Host : objs'[h] = IF h = k THEN [objs[k] EXCEPT ![g] = listed[k]] ELSE objs[h]
        /\ \A h \in Host : listed'[h] = IF h = k THEN {} ELSE listed[h]
    BY <1>3, <1>5 DEF IInv, Typed
  <2>3. ASSUME NEW h \in Host, NEW gg \in Gcs
        PROVE  objs'[h][gg] = IF h = k /\ gg = g THEN listed[k] ELSE objs[h][gg]
    <3>1. CASE h = k
      <4>1. objs'[h] = [objs[k] EXCEPT ![g] = listed[k]]
        BY <2>2, <3>1
      <4> QED BY <2>1, <3>1, <4>1
    <3>2. CASE h # k
      BY <2>2, <3>2
    <3> QED BY <3>1, <3>2
  <2> QED BY <2>2, <2>3
<1>7. Rests(t)
  BY <1>3, <1>4 DEF Rests
<1>8. StartsSame /\ SwapsHold /\ Makers'
  BY <1>3, <1>4, StartsStay, SwapsStay, MakersStay DEF AInv
<1>9. Swapped(k, g)'
  <2>1. msg[t] # NoMsg
    BY <1>2, RemoteAssumption DEF NoMsg, Object
  <2>2. g \in created[k]
    BY <1>1, <1>2, <1>3, <2>1 DEF CInv, Locked, Handling
  <2>3. ASSUME NEW u \in At(k), pc'[u] \in {"acking", "onCreated"} PROVE msg'[u].obj # g
    <3>1. /\ u # t /\ u \in Thread /\ Home[u] = Home[t] /\ pc[u] \in Handling /\ pc[t] \in Handling
          /\ msg'[u] = msg[u]
      BY <1>1, <1>3, <1>4, <2>3 DEF At, Only, Handling
    <3> QED BY <1>2, <2>1, <3>1 DEF CInv, OneHandler
  <2> QED BY <1>3, <2>2, <2>3 DEF Swapped, At
<1>10. ChainsHold /\ AnswersSame
  BY <1>3, <1>4, <1>7, <1>8, ApartFromChains DEF AInv
<1>11. ASSUME NEW h \in Host, NEW o \in App
       PROVE  InLists(h, o)' <=> InLists(h, o)
  BY <1>3, <1>5, <1>6 DEF InLists
<1>12. \A u \in Thread : \A o \in App : OwnedBy(u, o)' <=> OwnedBy(u, o)
  BY <1>3, <1>4 DEF OwnedBy, Only
<1>13. GoneSame
  BY <1>3, <1>11, <1>12 DEF GoneSame, Gone, At
<1>14. Once'
  <2>1. ASSUME NEW h \in Host, NEW o \in App
        PROVE  /\ o \in listed'[h] => \A gg \in Gcs : o \notin objs'[h][gg] \union maybeDead'[h][gg]
               /\ \A g1, g2 \in Gcs :
                    /\ o \in objs'[h][g1] => o \notin maybeDead'[h][g2]
                    /\ o \in objs'[h][g1] /\ o \in objs'[h][g2] => g1 = g2
                    /\ o \in maybeDead'[h][g1] /\ o \in maybeDead'[h][g2] => g1 = g2
               /\ InLists(h, o)' => o \in made'[h]
               /\ \A u \in At(h) : OwnedBy(u, o)' =>
                    /\ o \in made'[h] /\ ~InLists(h, o)'
                    /\ \A v \in At(h) : OwnedBy(v, o)' => v = u
    <3>1. /\ InLists(h, o)' => o \in made'[h]
          /\ \A u \in At(h) : OwnedBy(u, o)' =>
               /\ o \in made'[h] /\ ~InLists(h, o)'
               /\ \A v \in At(h) : OwnedBy(v, o)' => v = u
      BY <1>3, <1>11, <1>12 DEF AInv, Once, At
    <3>2. /\ o \in listed'[h] => \A gg \in Gcs : o \notin objs'[h][gg] \union maybeDead'[h][gg]
          /\ \A g1, g2 \in Gcs :
               /\ o \in objs'[h][g1] => o \notin maybeDead'[h][g2]
               /\ o \in objs'[h][g1] /\ o \in objs'[h][g2] => g1 = g2
               /\ o \in maybeDead'[h][g1] /\ o \in maybeDead'[h][g2] => g1 = g2
      BY <1>3, <1>6 DEF AInv, Once
    <3> QED BY <3>1, <3>2
  <2> QED BY <2>1 DEF Once, At
<1>15. Asked'
  BY <1>3, <1>4, ChannelKept, AskedStays DEF AInv
<1>16. Unswapped'
  BY <1>3, <1>6, <1>8, <1>9, UnswappedStays DEF AInv
<1>17. Ending'
  BY <1>3, <1>5, <1>6, <1>8, <1>10, EndingStays DEF AInv
<1>18. Agreeing' /\ Dropping'
  BY <1>3, <1>5, <1>6, <1>10, <1>13, AgreeStays DEF AInv
<1> QED BY <1>8, <1>10, <1>14, <1>15, <1>16, <1>17, <1>18 DEF AInv, ChainsHold

-----------------------------------------------------------------------------
(* The scan.                                                                *)

\* A host offers what looks unused.
LEMMA ScanA ==
  ASSUME IInv, CInv, AInv, ~crashed, NEW t \in Thread, GcDispatch(t),
         msg[t].stage = "DO_SCAN",
         Scans(t)
  PROVE  AInv'
<1>1. PICK k \in Host : k = Home[t]
  BY RemoteAssumption
<1>2. PICK g \in Gcs : g = msg[t].obj
  BY DEF GcDispatch
<1>3. PICK dead : dead = Unused(k, g)
  OBVIOUS
<1>4. /\ pc[t] = "dispatch" /\ pc' = [pc EXCEPT ![t] = "listing"]
      /\ objs' = [objs EXCEPT ![k] = [objs[k] EXCEPT ![g] = objs[k][g] \ dead]]
      /\ maybeDead' = [maybeDead EXCEPT ![k] = [maybeDead[k] EXCEPT ![g] = maybeDead[k][g] \union dead]]
      /\ msg' = [msg EXCEPT ![t].list = dead]
      /\ UNCHANGED <<control, made, created, listed, caller, own>>
  BY <1>1, <1>2, <1>3 DEF GcDispatch, Goto, objects, Scans
<1>5. msg[t] \in Message /\ own[t] = None /\ msg[t].type = "NOTIFY" /\ Scan(msg[t], g)
  <2>1. msg[t] \in Message /\ own[t] = None
    BY <1>4, Unowned DEF IInv, Threads, ThreadOK, Carrying
  <2>2. msg[t].type = "NOTIFY"
    BY DEF CInv, Order, Ordered
  <2> QED BY <1>2, <2>1, <2>2 DEF Scan
<1>6. /\ msg'[t].type = "NOTIFY" /\ msg'[t].obj = g /\ msg'[t].stage = "DO_SCAN"
      /\ msg'[t].list = dead /\ \A u \in Thread \ {t} : msg'[u] = msg[u]
  <2>1. PICK m \in Message : m = msg[t]
    BY <1>5
  <2>2. PICK n : n = [m EXCEPT !.list = dead]
    OBVIOUS
  <2>3. n.obj = m.obj /\ n.type = m.type /\ n.stage = m.stage /\ n.list = dead
    BY <2>2 DEF Message
  <2>4. msg' = [msg EXCEPT ![t] = n]
    BY <1>4, <2>1, <2>2
  <2>5. msg'[t] = n /\ \A u \in Thread \ {t} : msg'[u] = msg[u]
    BY <2>4 DEF IInv, Typed
  <2> QED BY <1>2, <1>5, <2>1, <2>3, <2>5
<1>7. Only(t) /\ pc'[t] = "listing" /\ t \in At(k) /\ \A h \in Host : t \in At(h) <=> h = k
  BY <1>1, <1>4, <1>6 DEF IInv, Typed, Only, At
<1>8. /\ \A h \in Host : \A gg \in Gcs :
           maybeDead'[h][gg] = IF h = k /\ gg = g THEN maybeDead[k][g] \union dead
                               ELSE maybeDead[h][gg]
      /\ \A h \in Host : \A gg \in Gcs :
           objs'[h][gg] = IF h = k /\ gg = g THEN objs[k][g] \ dead ELSE objs[h][gg]
  <2>1. objs \in [Host -> [Gcs -> SUBSET Object]] /\ maybeDead \in [Host -> [Gcs -> SUBSET Object]]
    BY DEF IInv, Typed
  <2> QED BY <1>4, <2>1, EntryChanges
<1>9. dead \subseteq objs[k][g]
  BY <1>3 DEF Unused
<1>10. Carries(t, k, g) /\ CarriesEarly(t, k, g)
  BY <1>1, <1>4, <1>5 DEF Carries, CarriesEarly, Link, Early
<1>11. ASSUME NEW h \in Host, NEW gg \in Gcs
       PROVE  /\ \A u \in Thread : Carries(u, h, gg)' <=> Carries(u, h, gg)
              /\ \A u \in Thread \ {t} : CarriesEarly(u, h, gg)' <=> CarriesEarly(u, h, gg)
              /\ ~CarriesEarly(t, h, gg)'
              /\ \A d \in Host : \A i \in Nat :
                   /\ InChannel(d, i, h, gg)' <=> InChannel(d, i, h, gg)
                   /\ EarlyInChannel(d, i, h, gg)' <=> EarlyInChannel(d, i, h, gg)
              /\ Unstarted(h, gg)' <=> Unstarted(h, gg)
  <2>1. \A u \in Thread \ {t} : /\ Carries(u, h, gg)' <=> Carries(u, h, gg)
                                /\ CarriesEarly(u, h, gg)' <=> CarriesEarly(u, h, gg)
    BY <1>7 DEF Only, Carries, CarriesEarly, Link, Early, Answer, Flush, Scan
  <2>2. /\ Carries(t, h, gg)' <=> Carries(t, h, gg)
        /\ ~CarriesEarly(t, h, gg)'
    BY <1>2, <1>4, <1>5, <1>6, <1>7 DEF Carries, CarriesEarly, Link, Early, Answer, Flush, Scan
  <2>3. \A d \in Host : \A i \in Nat :
          /\ InChannel(d, i, h, gg)' <=> InChannel(d, i, h, gg)
          /\ EarlyInChannel(d, i, h, gg)' <=> EarlyInChannel(d, i, h, gg)
    BY <1>4 DEF InChannel, EarlyInChannel, Link, Early, Answer, Flush, Scan
  <2>4. StartsSame
    BY <1>2, <1>4, <1>6, <1>7, StartsStay
  <2> QED BY <2>1, <2>2, <2>3, <2>4 DEF StartsSame
<1>12. ChainsHold
  <2>1. ASSUME NEW h \in Host, NEW gg \in Gcs
        PROVE  /\ OneLinkAt(h, gg)'
               /\ Unstarted(h, gg) \/ Linked(h, gg) => Unstarted(h, gg)' \/ Linked(h, gg)'
               /\ Unscanned(h, gg)' => Unscanned(h, gg)
    <3>1. OneLinkAt(h, gg)
      BY DEF AInv, OneLink
    <3>2. Linked(h, gg)' <=> Linked(h, gg)
      BY <1>11 DEF Linked
    <3>3. OneLinkAt(h, gg)'
      BY <1>11, <3>1, <3>2 DEF OneLinkAt
    <3>4. Unscanned(h, gg)' => Unscanned(h, gg)
      BY <1>11 DEF Unscanned
    <3> QED BY <1>11, <3>2, <3>3, <3>4
  <2> QED BY <2>1 DEF ChainsHold, OneLink
<1>13. Unscanned(k, g) /\ ~Unscanned(k, g)'
  <2>1. Unscanned(k, g)
    BY <1>10 DEF Unscanned
  <2>2. OneLinkAt(k, g)
    BY DEF AInv, OneLink
  <2>3. \A u \in Thread \ {t} : ~CarriesEarly(u, k, g)
    BY <1>10, <2>2 DEF OneLinkAt, Carries, CarriesEarly, Link
  <2>4. \A d \in Host : \A i \in Nat : ~EarlyInChannel(d, i, k, g)
    BY <1>10, <2>2 DEF OneLinkAt, InChannel, EarlyInChannel, Link
  <2>5. ~Unstarted(k, g)
    BY <1>10, <2>2 DEF OneLinkAt, Linked
  <2>6. ~Unscanned(k, g)'
    BY <1>11, <2>3, <2>4, <2>5 DEF Unscanned
  <2> QED BY <2>1, <2>6
<1>14. ASSUME NEW h \in Host, NEW gg \in Gcs, NEW o
       PROVE  Answered(h, gg, o)' <=> Answered(h, gg, o) \/ (h = k /\ gg = g /\ o \in dead)
  <2>1. \A u \in Thread \ {t} : /\ Lists(u, gg, o)' <=> Lists(u, gg, o)
                                /\ Brings(u, gg, o)' <=> Brings(u, gg, o)
    BY <1>7 DEF Only, Lists, Brings, Offers
  <2>2. /\ ~Lists(t, gg, o) /\ ~Brings(t, gg, o) /\ ~Brings(t, gg, o)'
        /\ Lists(t, gg, o)' <=> gg = g /\ o \in dead
    BY <1>4, <1>5, <1>6, <1>7 DEF Lists, Brings, Offers
  <2>3. Comes(Other(h), gg, o)' <=> Comes(Other(h), gg, o)
    BY <1>4 DEF Comes, Offers
  <2> QED BY <1>7, <2>1, <2>2, <2>3, AnsweredIn DEF At
<1>15. ASSUME NEW h \in Host, NEW o \in App
       PROVE  InLists(h, o)' <=> InLists(h, o)
  BY <1>4, <1>8, <1>9 DEF InLists
<1>16. \A u \in Thread : \A o \in App : OwnedBy(u, o)' <=> OwnedBy(u, o)
  BY <1>4, <1>7 DEF OwnedBy, Only
<1>17. GoneSame
  BY <1>4, <1>15, <1>16 DEF GoneSame, Gone, At
<1>18. Once'
  <2>1. ASSUME NEW h \in Host, NEW o \in App
        PROVE  /\ o \in listed'[h] => \A gg \in Gcs : o \notin objs'[h][gg] \union maybeDead'[h][gg]
               /\ \A g1, g2 \in Gcs :
                    /\ o \in objs'[h][g1] => o \notin maybeDead'[h][g2]
                    /\ o \in objs'[h][g1] /\ o \in objs'[h][g2] => g1 = g2
                    /\ o \in maybeDead'[h][g1] /\ o \in maybeDead'[h][g2] => g1 = g2
               /\ InLists(h, o)' => o \in made'[h]
               /\ \A u \in At(h) : OwnedBy(u, o)' =>
                    /\ o \in made'[h] /\ ~InLists(h, o)'
                    /\ \A v \in At(h) : OwnedBy(v, o)' => v = u
    <3>1. /\ InLists(h, o)' => o \in made'[h]
          /\ \A u \in At(h) : OwnedBy(u, o)' =>
               /\ o \in made'[h] /\ ~InLists(h, o)'
               /\ \A v \in At(h) : OwnedBy(v, o)' => v = u
      BY <1>4, <1>15, <1>16 DEF AInv, Once, At
    <3>2. /\ o \in listed[h] => \A gg \in Gcs : o \notin objs[h][gg] \union maybeDead[h][gg]
          /\ \A g1, g2 \in Gcs :
               /\ o \in objs[h][g1] => o \notin maybeDead[h][g2]
               /\ o \in objs[h][g1] /\ o \in objs[h][g2] => g1 = g2
               /\ o \in maybeDead[h][g1] /\ o \in maybeDead[h][g2] => g1 = g2
      BY DEF AInv, Once
    <3>3. o \in listed'[h] => \A gg \in Gcs : o \notin objs'[h][gg] \union maybeDead'[h][gg]
      BY <1>4, <1>8, <1>9, <3>2
    <3>4. ASSUME NEW g1 \in Gcs, NEW g2 \in Gcs
          PROVE  /\ o \in objs'[h][g1] => o \notin maybeDead'[h][g2]
                 /\ o \in objs'[h][g1] /\ o \in objs'[h][g2] => g1 = g2
                 /\ o \in maybeDead'[h][g1] /\ o \in maybeDead'[h][g2] => g1 = g2
      <4>1. CASE h = k /\ o \in dead
        <5>1. /\ \A gg \in Gcs : o \in objs[k][gg] <=> gg = g
              /\ \A gg \in Gcs : o \notin maybeDead[k][gg]
          BY <1>9, <3>2, <4>1
        <5> QED BY <1>8, <4>1, <5>1
      <4>2. CASE ~(h = k /\ o \in dead)
        <5>1. \A gg \in Gcs : /\ o \in objs'[h][gg] <=> o \in objs[h][gg]
                              /\ o \in maybeDead'[h][gg] <=> o \in maybeDead[h][gg]
          BY <1>8, <4>2
        <5> QED BY <3>2, <5>1
      <4> QED BY <4>1, <4>2
    <3> QED BY <3>1, <3>3, <3>4
  <2> QED BY <2>1 DEF Once, At
<1>19. SwapsHold /\ Makers'
  <2>1. SwapsHold
    BY <1>4, <1>7, SwapsStay
  <2>2. msg'[t].obj \in Gcs /\ Scan(msg[t], msg[t].obj)'
    BY <1>6 DEF Scan
  <2>3. Makers'
    BY <1>7, <2>2, MakersStay DEF AInv
  <2> QED BY <2>1, <2>3
<1>20. Asked'
  BY <1>4, <1>7, ChannelKept, AskedStays DEF AInv
<1>21. Unswapped'
  <2>1. Swapped(k, g)'
    BY <1>1, <1>5, <1>19 DEF CInv, Order, Ordered, SwapsHold
  <2>2. \A h \in Host : \A gg \in Gcs :
          \/ Swapped(h, gg)'
          \/ objs'[h][gg] = objs[h][gg] /\ maybeDead'[h][gg] = maybeDead[h][gg]
    <3>1. ASSUME NEW h \in Host, NEW gg \in Gcs
          PROVE  \/ Swapped(h, gg)'
                 \/ objs'[h][gg] = objs[h][gg] /\ maybeDead'[h][gg] = maybeDead[h][gg]
      <4>1. CASE h = k /\ gg = g
        BY <2>1, <4>1
      <4>2. CASE ~(h = k /\ gg = g)
        BY <1>8, <4>2
      <4> QED BY <4>1, <4>2
    <3> QED BY <3>1
  <2> QED BY <1>19, <2>2, UnswappedStays DEF AInv
<1>22. Ending'
  BY <1>8, <1>9, <1>12, <1>19, EndingStays, SMTT(30) DEF AInv
<1>23. ASSUME NEW h \in Host, NEW gg \in Gcs, NEW o \in App
       PROVE  /\ o \in maybeDead'[h][gg] => ~Unscanned(h, gg)'
              /\ Answered(h, gg, o)' /\ Unscanned(Other(h), gg)' => o \in maybeDead'[h][gg]
              /\ o \in maybeDead'[h][gg] /\ o \in objs'[Other(h)][gg] => Answered(h, gg, o)'
              /\ o \in maybeDead'[h][gg] /\ Answered(Other(h), gg, o)' =>
                   \/ o \in maybeDead'[Other(h)][gg] /\ Answered(h, gg, o)'
                   \/ Gone(Other(h), o)'
  <2>1. Other(h) \in Host /\ Other(h) # h /\ Other(Other(h)) = h
    BY TwoHosts
  <2>2. /\ Unscanned(h, gg)' => Unscanned(h, gg)
        /\ Unscanned(Other(h), gg)' => Unscanned(Other(h), gg)
        /\ Gone(Other(h), o)' <=> Gone(Other(h), o)
    BY <1>12, <1>17, <2>1 DEF ChainsHold, GoneSame
  <2>3. /\ \A d \in Host : maybeDead[d][gg] \subseteq maybeDead'[d][gg]
        /\ \A d \in Host : objs'[d][gg] \subseteq objs[d][gg]
        /\ o \in maybeDead'[h][gg] => o \in maybeDead[h][gg] \/ (h = k /\ gg = g /\ o \in dead)
    BY <1>8
  <2>4. /\ o \in maybeDead[h][gg] => ~Unscanned(h, gg)
        /\ Answered(h, gg, o) /\ Unscanned(Other(h), gg) => o \in maybeDead[h][gg]
        /\ o \in maybeDead[h][gg] /\ o \in objs[Other(h)][gg] => Answered(h, gg, o)
        /\ o \in maybeDead[h][gg] /\ Answered(Other(h), gg, o) =>
             \/ o \in maybeDead[Other(h)][gg] /\ Answered(h, gg, o)
             \/ Gone(Other(h), o)
    BY DEF AInv, Agreeing
  <2>5. Answered(Other(h), gg, o) /\ Unscanned(h, gg) => o \in maybeDead[Other(h)][gg]
    BY <2>1 DEF AInv, Agreeing
  <2>6. /\ Answered(h, gg, o)' <=> Answered(h, gg, o) \/ (h = k /\ gg = g /\ o \in dead)
        /\ Answered(Other(h), gg, o)' <=>
             Answered(Other(h), gg, o) \/ (Other(h) = k /\ gg = g /\ o \in dead)
    BY <1>14, <2>1
  <2>7. o \in maybeDead'[h][gg] => ~Unscanned(h, gg)'
    BY <1>13, <2>2, <2>3, <2>4
  <2>8. Answered(h, gg, o)' /\ Unscanned(Other(h), gg)' => o \in maybeDead'[h][gg]
    <3>1. CASE Answered(h, gg, o)
      BY <2>2, <2>3, <2>4, <3>1
    <3>2. CASE h = k /\ gg = g /\ o \in dead
      BY <1>8, <3>2
    <3> QED BY <2>6, <3>1, <3>2
  <2>9. o \in maybeDead'[h][gg] /\ o \in objs'[Other(h)][gg] => Answered(h, gg, o)'
    BY <2>1, <2>3, <2>4, <2>6
  <2>10. ASSUME o \in maybeDead'[h][gg], Answered(Other(h), gg, o)'
         PROVE  \/ o \in maybeDead'[Other(h)][gg] /\ Answered(h, gg, o)'
                \/ Gone(Other(h), o)'
    <3>1. CASE h = k /\ gg = g /\ o \in dead
      <4>1. Answered(Other(h), gg, o)
        BY <2>1, <2>6, <2>10, <3>1
      <4>2. o \in maybeDead[Other(h)][gg]
        BY <1>13, <2>5, <3>1, <4>1
      <4> QED BY <2>1, <2>3, <2>6, <3>1, <4>2
    <3>2. CASE ~(h = k /\ gg = g /\ o \in dead)
      <4>1. o \in maybeDead[h][gg]
        BY <2>3, <2>10, <3>2
      <4>2. CASE Answered(Other(h), gg, o)
        BY <2>1, <2>2, <2>3, <2>4, <2>6, <4>1, <4>2
      <4>3. CASE Other(h) = k /\ gg = g /\ o \in dead
        <5>1. o \in objs[Other(h)][gg] /\ o \in maybeDead'[Other(h)][gg]
          BY <1>8, <1>9, <4>3
        <5> QED BY <2>4, <2>6, <4>1, <5>1
      <4> QED BY <2>6, <2>10, <4>2, <4>3
    <3> QED BY <3>1, <3>2
  <2> QED BY <2>7, <2>8, <2>9, <2>10
<1>24. Agreeing'
  BY <1>23 DEF Agreeing
<1>25. Dropping'
  <2> SUFFICES ASSUME NEW h \in Host, NEW o \in App, Gone(h, o)'
               PROVE  \/ Gone(Other(h), o)'
                      \/ \E gg \in Gcs : o \in maybeDead'[Other(h)][gg] /\ Answered(h, gg, o)'
    BY DEF Dropping
  <2>1. Other(h) \in Host /\ Gone(h, o)
    BY <1>17, TwoHosts DEF GoneSame
  <2>2. CASE Gone(Other(h), o)
    BY <1>17, <2>1, <2>2 DEF GoneSame
  <2>3. CASE \E gg \in Gcs : o \in maybeDead[Other(h)][gg] /\ Answered(h, gg, o)
    BY <1>8, <1>14, <2>1, <2>3
  <2> QED BY <2>1, <2>2, <2>3 DEF AInv, Dropping
<1> QED BY <1>12, <1>18, <1>19, <1>20, <1>21, <1>22, <1>24, <1>25 DEF AInv, ChainsHold

\* A collection ends at h.
LEMMA Finished ==
  ASSUME IInv, NEW h \in Host, NEW g \in Gcs, NEW rest \in SUBSET Object, Finishup(h, g, rest)
  PROVE  /\ objs'[h][g] = {} /\ maybeDead'[h][g] = {} /\ listed'[h] = listed[h] \union rest
         /\ \A k \in Host \ {h} : listed'[k] = listed[k]
         /\ \A k \in Host : \A gg \in Gcs : ~(k = h /\ gg = g) =>
              objs'[k][gg] = objs[k][gg] /\ maybeDead'[k][gg] = maybeDead[k][gg]
<1>1. /\ listed' = [listed EXCEPT ![h] = listed[h] \union rest]
      /\ objs' = [objs EXCEPT ![h] = [objs[h] EXCEPT ![g] = {}]]
      /\ maybeDead' = [maybeDead EXCEPT ![h] = [maybeDead[h] EXCEPT ![g] = {}]]
  BY DEF Finishup
<1>2. /\ objs'[h] = [objs[h] EXCEPT ![g] = {}] /\ maybeDead'[h] = [maybeDead[h] EXCEPT ![g] = {}]
      /\ listed'[h] = listed[h] \union rest
      /\ \A k \in Host \ {h} :
           listed'[k] = listed[k] /\ objs'[k] = objs[k] /\ maybeDead'[k] = maybeDead[k]
  BY <1>1 DEF IInv, Typed
<1>3. objs[h] \in [Gcs -> SUBSET Object] /\ maybeDead[h] \in [Gcs -> SUBSET Object]
  BY DEF IInv, Typed
<1>4. /\ objs'[h][g] = {} /\ maybeDead'[h][g] = {}
      /\ \A gg \in Gcs \ {g} : objs'[h][gg] = objs[h][gg] /\ maybeDead'[h][gg] = maybeDead[h][gg]
  BY <1>2, <1>3
<1> QED BY <1>2, <1>4

LEMMA FinishedOnce ==
  ASSUME IInv, Once, NEW t \in Thread, Only(t), made' = made, OwnsSame(t),
         NEW k \in Host, NEW g \in Gcs, NEW rest \in SUBSET Object, rest \subseteq Kept(k, g),
         Finishup(k, g, rest)
  PROVE  /\ Once'
         /\ \A h \in Host : \A o \in App :
              Gone(h, o)' <=> Gone(h, o) \/ (h = k /\ o \in Kept(k, g) \ rest)
<1>1. /\ objs'[k][g] = {} /\ maybeDead'[k][g] = {} /\ listed'[k] = listed[k] \union rest
      /\ \A h \in Host \ {k} : listed'[h] = listed[h]
      /\ \A h \in Host : \A gg \in Gcs : ~(h = k /\ gg = g) =>
           objs'[h][gg] = objs[h][gg] /\ maybeDead'[h][gg] = maybeDead[h][gg]
  BY Finished
<1>2. \A u \in Thread : \A o \in App : OwnedBy(u, o)' <=> OwnedBy(u, o)
  BY DEF OwnedBy, Only, OwnsSame
<1>3. ASSUME NEW o \in App, o \in Kept(k, g)
      PROVE  /\ o \notin listed[k] /\ InLists(k, o) /\ o \in made[k]
             /\ \A gg \in Gcs \ {g} : o \notin objs[k][gg] \union maybeDead[k][gg]
             /\ \A u \in At(k) : ~OwnedBy(u, o)
  BY <1>3 DEF Kept, Once, InLists
<1>4. ASSUME NEW h \in Host, NEW o \in App
      PROVE  InLists(h, o)' <=> InLists(h, o) /\ ~(h = k /\ o \in Kept(k, g) \ rest)
  <2>1. CASE h # k
    BY <1>1, <2>1 DEF InLists
  <2>2. CASE h = k /\ o \in Kept(k, g)
    BY <1>1, <1>3, <2>2 DEF InLists
  <2>3. CASE h = k /\ o \notin Kept(k, g)
    BY <1>1, <2>3 DEF InLists, Kept
  <2> QED BY <2>1, <2>2, <2>3
<1>5. ASSUME NEW h \in Host, NEW o \in App
      PROVE  Gone(h, o)' <=> Gone(h, o) \/ (h = k /\ o \in Kept(k, g) \ rest)
  <2>1. CASE h = k /\ o \in Kept(k, g) \ rest
    BY <1>2, <1>3, <1>4, <2>1 DEF Gone, At
  <2>2. CASE ~(h = k /\ o \in Kept(k, g) \ rest)
    BY <1>2, <1>4, <2>2 DEF Gone, At
  <2> QED BY <2>1, <2>2
<1>6. ASSUME NEW h \in Host, NEW o \in App
      PROVE  /\ o \in listed'[h] => \A gg \in Gcs : o \notin objs'[h][gg] \union maybeDead'[h][gg]
             /\ \A g1, g2 \in Gcs :
                  /\ o \in objs'[h][g1] => o \notin maybeDead'[h][g2]
                  /\ o \in objs'[h][g1] /\ o \in objs'[h][g2] => g1 = g2
                  /\ o \in maybeDead'[h][g1] /\ o \in maybeDead'[h][g2] => g1 = g2
             /\ InLists(h, o)' => o \in made'[h]
             /\ \A u \in At(h) : OwnedBy(u, o)' =>
                  /\ o \in made'[h] /\ ~InLists(h, o)'
                  /\ \A v \in At(h) : OwnedBy(v, o)' => v = u
  <2>1. \A gg \in Gcs : /\ o \in objs'[h][gg] => o \in objs[h][gg]
                        /\ o \in maybeDead'[h][gg] => o \in maybeDead[h][gg]
    BY <1>1
  <2>2. o \in listed'[h] => \A gg \in Gcs : o \notin objs'[h][gg] \union maybeDead'[h][gg]
    <3>1. CASE o \in listed[h]
      BY <2>1, <3>1 DEF Once
    <3>2. CASE o \in listed'[h] /\ o \notin listed[h]
      <4>1. h = k /\ o \in Kept(k, g)
        BY <1>1, <3>2
      <4> QED BY <1>1, <1>3, <2>1, <4>1
    <3> QED BY <3>1, <3>2
  <2>3. \A g1, g2 \in Gcs :
          /\ o \in objs'[h][g1] => o \notin maybeDead'[h][g2]
          /\ o \in objs'[h][g1] /\ o \in objs'[h][g2] => g1 = g2
          /\ o \in maybeDead'[h][g1] /\ o \in maybeDead'[h][g2] => g1 = g2
    BY <2>1 DEF Once
  <2>4. /\ InLists(h, o)' => o \in made'[h]
        /\ \A u \in At(h) : OwnedBy(u, o)' =>
             /\ o \in made'[h] /\ ~InLists(h, o)'
             /\ \A v \in At(h) : OwnedBy(v, o)' => v = u
    BY <1>2, <1>4 DEF Once, At
  <2> QED BY <2>2, <2>3, <2>4
<1>7. Once'
  BY <1>6 DEF Once, At
<1> QED BY <1>5, <1>7

\* A host has nothing to offer, and gives the collection up.
LEMMA ScanNothingA ==
  ASSUME IInv, CInv, AInv, ~crashed, NEW t \in Thread, GcDispatch(t),
         msg[t].stage = "DO_SCAN",
         Notify(Home[t], msg[t].obj, "ABORT_GC"),
         Finishup(Home[t], msg[t].obj, Kept(Home[t], msg[t].obj)),
         Goto(t, "done"), UNCHANGED <<made, created, msg>>
  PROVE  AInv'
<1>1. PICK k \in Host : k = Home[t]
  BY RemoteAssumption
<1>2. PICK g \in Gcs : g = msg[t].obj
  BY DEF GcDispatch
<1>3. /\ pc[t] = "dispatch" /\ pc' = [pc EXCEPT ![t] = "done"]
      /\ Notify(k, g, "ABORT_GC") /\ Finishup(k, g, Kept(k, g))
      /\ UNCHANGED <<made, created, msg, caller, own>>
  BY <1>1, <1>2 DEF GcDispatch, Goto
<1>4. Only(t) /\ pc'[t] = "done" /\ own[t] = None
  BY <1>3, Unowned DEF Only, IInv, Typed
<1>5. msg[t].type = "NOTIFY" /\ Scan(msg[t], g)
  BY <1>2 DEF CInv, Order, Ordered, Scan
<1>6. PICK m \in Message : Send(k, m) /\ m.obj = g /\ m.type = "NOTIFY" /\ m.stage = "ABORT_GC"
  BY <1>3, Notice DEF IInv, Object, Stages
<1>7. ASSUME NEW h \in Host, NEW gg \in Gcs
      PROVE  /\ Carries(t, h, gg) <=> h = k /\ gg = g
             /\ Link(Other(k), m, h, gg) <=> h = k /\ gg = g
             /\ Early(Other(k), m, h, gg) => CarriesEarly(t, h, gg)
  <2>1. Other(k) = Other(h) <=> h = k
    BY TwoHosts
  <2>2. Link(k, msg[t], h, gg) <=> h = k /\ gg = g
    BY <1>5 DEF Link, Early, Answer, Flush, Scan
  <2>3. /\ Link(Other(k), m, h, gg) <=> h = k /\ gg = g
        /\ ~Early(Other(k), m, h, gg)
    BY <1>6, <2>1 DEF Link, Early, Answer, Flush, Scan
  <2> QED BY <1>1, <1>3, <2>2, <2>3 DEF Carries, CarriesEarly
<1>8. ChainsHold
  <2>1. /\ OneLink /\ msg'[t].obj = msg[t].obj /\ created' = created
        /\ pc[t] \in {"dispatch", "listing"} /\ pc'[t] = "done" /\ Only(t)
    BY <1>3, <1>4 DEF AInv
  <2>2. Send(Home[t], m) /\ Passes(t, m, k, g)
    BY <1>1, <1>6, <1>7 DEF Passes
  <2> QED BY <2>1, <2>2, PassesOn
<1>9. AnswersSame
  <2>1. \A gg \in Gcs : \A o : ~Offers(m, gg, o) /\ ~Offers(msg[t], gg, o) /\ ~Offers(msg'[t], gg, o)
    BY <1>3, <1>5, <1>6 DEF Offers
  <2>2. \A gg \in Gcs : \A o : /\ ~Lists(t, gg, o)' /\ ~Lists(t, gg, o)
                               /\ ~Brings(t, gg, o)' /\ ~Brings(t, gg, o)
    BY <1>3, <1>4, <2>1 DEF Lists, Brings
  <2> QED BY <1>1, <1>4, <1>6, <2>1, <2>2, AnswersMove
<1>10. SwapsHold /\ Makers' /\ OwnsSame(t)
  BY <1>3, <1>4, SwapsStay, MakersStay DEF AInv, OwnsSame, OwnedBy
<1>11. Asked'
  BY <1>1, <1>3, <1>4, <1>6, ChannelKept, AskedStays DEF AInv
<1>12. /\ objs'[k][g] = {} /\ maybeDead'[k][g] = {}
       /\ \A h \in Host : \A gg \in Gcs : ~(h = k /\ gg = g) =>
            objs'[h][gg] = objs[h][gg] /\ maybeDead'[h][gg] = maybeDead[h][gg]
       /\ Kept(k, g) \in SUBSET Object
  <2>1. Kept(k, g) \in SUBSET Object
    BY DEF Kept, IInv, Typed
  <2> QED BY <1>3, <2>1, Finished
<1>13. Once' /\ GoneSame
  BY <1>3, <1>4, <1>10, <1>12, FinishedOnce DEF AInv, GoneSame
<1>14. Ending' /\ Unswapped'
  BY <1>8, <1>10, <1>12, EndingStays, UnswappedStays DEF AInv
<1>15. \A o \in App : o \notin maybeDead[k][g]
  <2>1. Unscanned(k, g)
    BY <1>1, <1>3, <1>5 DEF Unscanned, CarriesEarly, Early
  <2> QED BY <2>1 DEF AInv, Agreeing
<1>16. Agreeing' /\ Dropping'
  <2>1. \A h \in Host : \A gg \in Gcs : \A o \in App :
          /\ o \in maybeDead'[h][gg] <=> o \in maybeDead[h][gg]
          /\ o \in objs'[h][gg] => o \in objs[h][gg] \/ ~Swapped(h, gg)
    BY <1>12, <1>15
  <2> QED BY <1>8, <1>9, <1>13, <2>1, AgreeStays DEF AInv
<1> QED BY <1>8, <1>10, <1>11, <1>13, <1>14, <1>16 DEF AInv, ChainsHold

-----------------------------------------------------------------------------
(* The answer.                                                              *)

\* The answer of the other end is handled: what both have offered is dropped, and the
\* rest goes back to the host.
LEMMA AnswerA ==
  ASSUME IInv, CInv, AInv, ~crashed, NEW t \in Thread, Only(t),
         NEW k \in Host, k = Home[t], NEW g \in Gcs, g = msg[t].obj,
         Answer(msg[t], g), pc[t] = "dispatch", pc'[t] = "done",
         UNCHANGED <<control, made, created, msg, own>>,
         NEW rest \in SUBSET Object, rest \subseteq Kept(k, g), Finishup(k, g, rest),
         \A o \in App : o \in Kept(k, g) \ rest <=> o \in maybeDead[k][g] /\ Offers(msg[t], g, o)
  PROVE  AInv'
<1>1. PICK c \in Host : c = Other(k) /\ Other(c) = k /\ c # k
  BY TwoHosts
<1>2. ASSUME NEW h \in Host
      PROVE  (h = c \/ h = k) /\ (Other(h) = k <=> h = c) /\ (Other(h) = c <=> h = k)
             /\ Other(h) \in Host
  BY <1>1, TwoHosts DEF Other
<1>3. t \in At(k) /\ Carries(t, c, g) /\ ~CarriesEarly(t, c, g)
  BY <1>1 DEF At, Carries, CarriesEarly, Link, Early, Answer, Flush, Scan
<1>4. /\ ~Unscanned(c, g)
      /\ \A o : Answered(c, g, o) => Offers(msg[t], g, o)
  <2>1. OneLink /\ Makers
    BY DEF AInv
  <2>2. \A o : ~Lists(t, g, o)
    BY DEF Lists
  <2>3. \A o : Brings(t, g, o) => Offers(msg[t], g, o)
    BY DEF Brings
  <2> QED BY <1>3, <2>1, <2>2, <2>3, LinkInHand
<1>5. \A o : Answered(c, g, o) <=> Offers(msg[t], g, o)
  BY <1>1, <1>3, <1>4 DEF Answered
<1>6. /\ OneLink'
      /\ \A h \in Host : \A gg \in Gcs :
           /\ Unscanned(h, gg)' => Unscanned(h, gg)
           /\ ~(h = c /\ gg = g) /\ (Unstarted(h, gg) \/ Linked(h, gg))
                => Unstarted(h, gg)' \/ Linked(h, gg)'
           /\ \A o : Answered(h, gg, o)' <=> Answered(h, gg, o) /\ ~(h = c /\ gg = g)
  <2>1. Home[t] = Other(c) /\ OneLink /\ Makers
    BY <1>1 DEF AInv
  <2> QED BY <2>1, LinkEnds
<1>7. /\ objs'[k][g] = {} /\ maybeDead'[k][g] = {}
      /\ \A h \in Host : \A gg \in Gcs : ~(h = k /\ gg = g) =>
           objs'[h][gg] = objs[h][gg] /\ maybeDead'[h][gg] = maybeDead[h][gg]
  BY Finished
<1>8. SwapsHold /\ Makers' /\ OwnsSame(t)
  BY SwapsStay, MakersStay DEF AInv, OwnsSame, OwnedBy
<1>9. /\ Once'
      /\ \A h \in Host : \A o \in App :
           Gone(h, o)' <=> Gone(h, o) \/ (h = k /\ o \in maybeDead[k][g] /\ Answered(c, g, o))
  <2>1. /\ Once'
        /\ \A h \in Host : \A o \in App :
             Gone(h, o)' <=> Gone(h, o) \/ (h = k /\ o \in Kept(k, g) \ rest)
    BY <1>8, FinishedOnce DEF AInv
  <2> QED BY <1>5, <2>1
<1>10. Asked'
  BY ChannelKept, AskedStays DEF AInv
<1>11. Unswapped'
  BY <1>7, <1>8, UnswappedStays DEF AInv
<1>12. Ending'
  <2> SUFFICES ASSUME NEW h \in Host, NEW gg \in Gcs
               PROVE  \/ Unstarted(h, gg)' \/ Linked(h, gg)'
                      \/ /\ Swapped(Other(h), gg)'
                         /\ objs'[Other(h)][gg] = {} /\ maybeDead'[Other(h)][gg] = {}
    BY DEF Ending
  <2>1. CASE h = c /\ gg = g
    <3>1. msg[t] # NoMsg
      BY DEF Answer, NoMsg
    <3>2. Swapped(k, g)
      BY <3>1, HandlerSwapped
    <3>3. Swapped(k, g)'
      BY <1>8, <3>2 DEF SwapsHold
    <3> QED BY <1>1, <1>7, <2>1, <3>3
  <2>2. CASE ~(h = c /\ gg = g) /\ (Unstarted(h, gg) \/ Linked(h, gg))
    BY <1>6, <2>2
  <2>3. CASE Swapped(Other(h), gg) /\ objs[Other(h)][gg] = {} /\ maybeDead[Other(h)][gg] = {}
    <3>1. Swapped(Other(h), gg)'
      BY <1>2, <1>8, <2>3 DEF SwapsHold
    <3>2. objs'[Other(h)][gg] = {} /\ maybeDead'[Other(h)][gg] = {}
      BY <1>2, <1>7, <2>3
    <3> QED BY <3>1, <3>2
  <2> QED BY <2>1, <2>2, <2>3 DEF AInv, Ending
<1>13. ASSUME NEW h \in Host, NEW gg \in Gcs, NEW o \in App
       PROVE  /\ o \in maybeDead'[h][gg] => ~Unscanned(h, gg)'
              /\ Answered(h, gg, o)' /\ Unscanned(Other(h), gg)' => o \in maybeDead'[h][gg]
              /\ o \in maybeDead'[h][gg] /\ o \in objs'[Other(h)][gg] => Answered(h, gg, o)'
              /\ o \in maybeDead'[h][gg] /\ Answered(Other(h), gg, o)' =>
                   \/ o \in maybeDead'[Other(h)][gg] /\ Answered(h, gg, o)'
                   \/ Gone(Other(h), o)'
  <2>1. /\ o \in maybeDead[h][gg] => ~Unscanned(h, gg)
        /\ Answered(h, gg, o) /\ Unscanned(Other(h), gg) => o \in maybeDead[h][gg]
        /\ o \in maybeDead[h][gg] /\ o \in objs[Other(h)][gg] => Answered(h, gg, o)
        /\ o \in maybeDead[h][gg] /\ Answered(Other(h), gg, o) =>
             \/ o \in maybeDead[Other(h)][gg] /\ Answered(h, gg, o)
             \/ Gone(Other(h), o)
    BY DEF AInv, Agreeing
  <2>2. /\ Unscanned(h, gg)' => Unscanned(h, gg)
        /\ Unscanned(Other(h), gg)' => Unscanned(Other(h), gg)
        /\ Answered(h, gg, o)' <=> Answered(h, gg, o) /\ ~(h = c /\ gg = g)
        /\ Answered(Other(h), gg, o)' => Answered(Other(h), gg, o)
        /\ Gone(Other(h), o) => Gone(Other(h), o)'
    BY <1>2, <1>6, <1>9
  <2>3. /\ o \in maybeDead'[h][gg] => o \in maybeDead[h][gg] /\ ~(h = k /\ gg = g)
        /\ o \in maybeDead[h][gg] => o \in maybeDead'[h][gg] \/ (h = k /\ gg = g)
        /\ o \in objs'[Other(h)][gg] => o \in objs[Other(h)][gg] /\ ~(h = c /\ gg = g)
        /\ o \in maybeDead[Other(h)][gg] => o \in maybeDead'[Other(h)][gg] \/ (h = c /\ gg = g)
    <3>1. \A d \in Host :
            /\ o \in maybeDead'[d][gg] => o \in maybeDead[d][gg] /\ ~(d = k /\ gg = g)
            /\ o \in maybeDead[d][gg] => o \in maybeDead'[d][gg] \/ (d = k /\ gg = g)
            /\ o \in objs'[d][gg] => o \in objs[d][gg] /\ ~(d = k /\ gg = g)
      BY <1>7
    <3> QED BY <1>2, <3>1
  <2>4. h = k /\ gg = g => ~Unscanned(Other(h), gg)
    BY <1>1, <1>4
  <2>5. h = c /\ gg = g /\ o \in maybeDead[Other(h)][gg] /\ Answered(h, gg, o) => Gone(Other(h), o)'
    BY <1>1, <1>9
  <2>6. o \in maybeDead'[h][gg] => ~Unscanned(h, gg)'
    BY <2>1, <2>2, <2>3
  <2>7. Answered(h, gg, o)' /\ Unscanned(Other(h), gg)' => o \in maybeDead'[h][gg]
    BY <2>1, <2>2, <2>3, <2>4
  <2>8. o \in maybeDead'[h][gg] /\ o \in objs'[Other(h)][gg] => Answered(h, gg, o)'
    BY <2>1, <2>2, <2>3
  <2>9. o \in maybeDead'[h][gg] /\ Answered(Other(h), gg, o)' =>
          \/ o \in maybeDead'[Other(h)][gg] /\ Answered(h, gg, o)'
          \/ Gone(Other(h), o)'
    BY <2>1, <2>2, <2>3, <2>5
  <2> QED BY <2>6, <2>7, <2>8, <2>9
<1>14. Agreeing'
  BY <1>13 DEF Agreeing
<1>15. Dropping'
  <2> SUFFICES ASSUME NEW h \in Host, NEW o \in App, Gone(h, o)'
               PROVE  \/ Gone(Other(h), o)'
                      \/ \E gg \in Gcs : o \in maybeDead'[Other(h)][gg] /\ Answered(h, gg, o)'
    BY DEF Dropping
  <2>1. CASE Gone(h, o)
    <3>1. CASE Gone(Other(h), o)
      BY <1>2, <1>9, <3>1
    <3>2. CASE \E gg \in Gcs : o \in maybeDead[Other(h)][gg] /\ Answered(h, gg, o)
      <4>1. PICK gg \in Gcs : o \in maybeDead[Other(h)][gg] /\ Answered(h, gg, o)
        BY <3>2
      <4>2. CASE h = c /\ gg = g
        BY <1>1, <1>9, <4>1, <4>2
      <4>3. CASE ~(h = c /\ gg = g)
        <5>1. maybeDead'[Other(h)][gg] = maybeDead[Other(h)][gg]
          BY <1>2, <1>7, <4>3
        <5>2. Answered(h, gg, o)'
          BY <1>6, <4>1, <4>3
        <5> QED BY <4>1, <5>1, <5>2
      <4> QED BY <4>2, <4>3
    <3> QED BY <2>1, <3>1, <3>2 DEF AInv, Dropping
  <2>2. CASE h = k /\ o \in maybeDead[k][g] /\ Answered(c, g, o)
    <3>1. \/ o \in maybeDead[c][g] /\ Answered(k, g, o)
          \/ Gone(c, o)
      BY <1>1, <2>2 DEF AInv, Agreeing
    <3>2. Gone(c, o) => Gone(c, o)'
      BY <1>9
    <3>3. Answered(k, g, o) => Answered(k, g, o)'
      BY <1>1, <1>6
    <3>4. maybeDead'[c][g] = maybeDead[c][g]
      BY <1>1, <1>7
    <3> QED BY <1>1, <2>2, <3>1, <3>2, <3>3, <3>4
  <2> QED BY <1>9, <2>1, <2>2
<1> QED BY <1>6, <1>8, <1>9, <1>10, <1>11, <1>12, <1>14, <1>15 DEF AInv

LEMMA GcDispatchA ==
  ASSUME IInv, CInv, AInv, ~crashed, NEW t \in Thread, GcDispatch(t)
  PROVE  AInv'
<1>1. PICK k \in Host : k = Home[t]
  BY RemoteAssumption
<1>2. PICK g \in Gcs : g = msg[t].obj
  BY DEF GcDispatch
<1>3. pc[t] = "dispatch" /\ UNCHANGED <<caller, own>>
  BY DEF GcDispatch
<1>4. Kept(k, g) \in SUBSET Object
  BY DEF Kept, IInv, Typed
<1>5. CASE OnNotifyAbort(t)
  <2>1. /\ Finishup(k, g, Kept(k, g)) /\ pc' = [pc EXCEPT ![t] = "done"]
        /\ UNCHANGED <<control, made, created, msg>> /\ msg[t].stage = "ABORT_GC"
    BY <1>1, <1>2, <1>5 DEF OnNotifyAbort, Goto
  <2>2. Only(t) /\ pc'[t] = "done"
    BY <1>3, <2>1 DEF Only, IInv, Typed
  <2>3. msg[t].type = "NOTIFY"
    BY <2>1 DEF CInv, Order, Ordered
  <2>4. Answer(msg[t], g) /\ \A o : ~Offers(msg[t], g, o)
    BY <1>2, <2>1, <2>3 DEF Answer, Offers
  <2> QED BY <1>1, <1>2, <1>3, <1>4, <2>1, <2>2, <2>4, AnswerA
<1>6. CASE OnRecv(t)
  <2>1. PICK rest : rest = objs[k][g] \union (maybeDead[k][g] \ msg[t].list)
    OBVIOUS
  <2>2. /\ Finishup(k, g, rest) /\ pc' = [pc EXCEPT ![t] = "done"]
        /\ UNCHANGED <<control, made, created, msg>> /\ msg[t].type = "DATA"
    BY <1>1, <1>2, <1>6, <2>1 DEF OnRecv, Goto
  <2>3. Only(t) /\ pc'[t] = "done"
    BY <1>3, <2>2 DEF Only, IInv, Typed
  <2>4. rest \in SUBSET Object /\ rest \subseteq Kept(k, g)
    BY <1>4, <2>1 DEF Kept
  <2>5. Answer(msg[t], g) /\ \A o : Offers(msg[t], g, o) <=> o \in msg[t].list
    BY <1>2, <2>2 DEF Answer, Offers
  <2>6. \A o \in App : o \in objs[k][g] => o \notin maybeDead[k][g]
    BY DEF AInv, Once
  <2>7. \A o \in App : o \in Kept(k, g) \ rest <=> o \in maybeDead[k][g] /\ Offers(msg[t], g, o)
    BY <2>1, <2>5, <2>6 DEF Kept
  <2> QED BY <1>1, <1>2, <1>3, <2>2, <2>3, <2>4, <2>5, <2>7, AnswerA
<1>7. CASE OnNotifyScan(t)
  <2>1. CASE Unused(Home[t], msg[t].obj) # {}
    BY <1>7, <2>1, ScanA DEF OnNotifyScan, Scans
  <2>2. CASE Unused(Home[t], msg[t].obj) = {}
    BY <1>7, <2>2, ScanNothingA DEF OnNotifyScan
  <2> QED BY <2>1, <2>2
<1> QED BY <1>5, <1>6, <1>7, OnNotifyFlushA, OnAckA DEF GcDispatch

-----------------------------------------------------------------------------
(* The same for every action, and for a step that does nothing.             *)

LEMMA CallsA ==
  ASSUME IInv, CInv, AInv, ~crashed, NEW t \in Thread, NEW o \in App, UNCHANGED gcVars,
         \/ Create(t, o) \/ SendData(t, o) \/ MarkComplete(t, o) \/ Release(t, o)
         \/ WaitUntilComplete(t, o)
  PROVE  AInv'
<1>1. CASE Create(t, o)
  BY <1>1, CreateRemoteObjectA DEF Create, Object
<1> QED BY <1>1, SendDataA, MarkCompleteA, ReleaseA, WaitingA

LEMMA GoingOnA ==
  ASSUME IInv, IInv', CInv, AInv, ~crashed, NEW t \in Thread, UNCHANGED gcVars,
         \/ ListenerRecv(t) \/ CallerRecv(t) \/ Lock(t) \/ Make(t)
         \/ Acknowledge(t) \/ AddObject(t) \/ Spawn(t) \/ Dispatch(t)
         \/ Reply(t) \/ Finish(t)
         \/ MarkCompleteMu(t) \/ Check(t) \/ TryRecv(t) \/ Spin(t) \/ Relock(t)
  PROVE  AInv'
<1>1. CASE ListenerRecv(t) \/ CallerRecv(t)
  BY <1>1, ReadA DEF ListenerRecv, CallerRecv
<1>2. CASE Spawn(t)
  <2>1. PICK g \in Gcs : CreateRemoteObject(t, g)
    BY <1>2 DEF Spawn
  <2>2. g \in Object /\ pc[t] = "spawning"
    BY <1>2 DEF Spawn, Object
  <2> QED BY <2>1, <2>2, CreateRemoteObjectA
<1>3. CASE Check(t) \/ TryRecv(t) \/ Spin(t) \/ Relock(t)
  BY <1>3, WaitingA
<1>4. CASE Lock(t) \/ Make(t) \/ Acknowledge(t) \/ AddObject(t)
  BY <1>4, LockA, MakeA, AcknowledgeA, AddObjectA
<1>5. CASE Dispatch(t) \/ Reply(t) \/ MarkCompleteMu(t) \/ Finish(t)
  BY <1>5, DispatchA, ReplyA, MarkCompleteMuA, FinishA
<1> QED BY <1>1, <1>2, <1>3, <1>4, <1>5

LEMMA StutteringA ==
  ASSUME AInv, UNCHANGED vars
  PROVE  AInv'
<1>1. UNCHANGED <<control, made, created, listed, pc, msg, own, crashed, objs, maybeDead>>
  BY DEF vars, hostVars, objects, threads, gcVars
<1>2. ASSUME NEW h, NEW g
      PROVE  /\ Unstarted(h, g)' <=> Unstarted(h, g)
             /\ \A t : /\ Carries(t, h, g)' <=> Carries(t, h, g)
                       /\ CarriesEarly(t, h, g)' <=> CarriesEarly(t, h, g)
             /\ \A d, i : /\ InChannel(d, i, h, g)' <=> InChannel(d, i, h, g)
                          /\ EarlyInChannel(d, i, h, g)' <=> EarlyInChannel(d, i, h, g)
             /\ \A o : Answered(h, g, o)' <=> Answered(h, g, o)
             /\ Swapped(h, g)' <=> Swapped(h, g)
  BY <1>1 DEF Unstarted, Carries, CarriesEarly, InChannel, EarlyInChannel, Answered, Swapped,
              Link, Early, Answer, Flush, Scan, Offers, At
<1>3. ASSUME NEW h, NEW g
      PROVE  (Linked(h, g)' <=> Linked(h, g)) /\ (Unscanned(h, g)' <=> Unscanned(h, g))
  BY <1>2 DEF Linked, Unscanned
<1>4. ASSUME NEW h, NEW o
      PROVE  /\ InLists(h, o)' <=> InLists(h, o)
             /\ Gone(h, o)' <=> Gone(h, o)
             /\ \A t : OwnedBy(t, o)' <=> OwnedBy(t, o)
  BY <1>1 DEF InLists, Gone, OwnedBy, At
<1>5. OneLink'
  BY <1>2, <1>3 DEF AInv, OneLink, OneLinkAt
<1>6. Ending' /\ Unswapped'
  BY <1>1, <1>2, <1>3 DEF AInv, Ending, Unswapped
<1>7. Makers' /\ Asked'
  BY <1>1 DEF AInv, Makers, Asked, Scan, At
<1>8. Once'
  BY <1>1, <1>4 DEF AInv, Once, At
<1>9. Agreeing' /\ Dropping'
  BY <1>1, <1>2, <1>3, <1>4 DEF AInv, Agreeing, Dropping
<1> QED BY <1>5, <1>6, <1>7, <1>8, <1>9 DEF AInv

LEMMA InitialA ==
  ASSUME Init
  PROVE  AInv
<1>1. /\ control = [h \in Host |-> <<>>] /\ made = [h \in Host |-> {}]
      /\ created = [h \in Host |-> {}] /\ listed = [h \in Host |-> {}]
      /\ pc = [t \in Thread |-> "idle"] /\ msg = [t \in Thread |-> NoMsg]
      /\ own = [t \in Thread |-> None]
      /\ objs = [h \in Host |-> [g \in Gcs |-> {}]]
      /\ maybeDead = [h \in Host |-> [g \in Gcs |-> {}]]
  BY DEF Init, RemoteHostInit
<1>2. \A h \in Host : /\ Len(control[h]) = 0 /\ made[h] = {} /\ created[h] = {} /\ listed[h] = {}
                      /\ \A g \in Gcs : objs[h][g] = {} /\ maybeDead[h][g] = {}
  BY <1>1
<1>3. \A t \in Thread : pc[t] = "idle" /\ msg[t].type = "none" /\ own[t] = None
  BY <1>1 DEF NoMsg
<1>4. ASSUME NEW h \in Host, NEW g \in Gcs
      PROVE  /\ \A t \in Thread : ~Carries(t, h, g)
             /\ \A d \in Host : \A i \in Nat : ~InChannel(d, i, h, g)
             /\ \A o : ~Answered(h, g, o)
             /\ Unstarted(h, g) /\ ~Linked(h, g)
  <2>1. Other(h) \in Host
    BY TwoHosts
  <2>2. \A t \in Thread : ~Carries(t, h, g)
    BY <1>3 DEF Carries, Link, Early, Answer, Flush, Scan
  <2>3. \A d \in Host : \A i \in Nat : ~InChannel(d, i, h, g)
    BY <1>2 DEF InChannel
  <2>4. \A o : ~Answered(h, g, o)
    BY <1>2, <1>3, <2>1 DEF Answered, Offers, At
  <2> QED BY <1>2, <2>2, <2>3, <2>4 DEF Unstarted, Linked
<1>5. OneLink /\ Ending
  BY <1>4 DEF OneLink, OneLinkAt, Ending
<1>6. Makers /\ Unswapped /\ Asked
  BY <1>2, <1>3 DEF Makers, Unswapped, Asked
<1>7. Once
  BY <1>2, <1>3, RemoteAssumption DEF Once, InLists, OwnedBy, At, Object
<1>8. Agreeing /\ Dropping
  <2>1. \A h \in Host : Other(h) \in Host
    BY TwoHosts
  <2> QED BY <1>2, <1>4, <2>1 DEF Agreeing, Dropping, Gone
<1> QED BY <1>5, <1>6, <1>7, <1>8 DEF AInv

\* In every reachable state each end of a collection owes at most one answer, and what an
\* end has offered stays offered until the answer of the other end has come.
THEOREM Agrees == Spec => []AInv
<1>1. Init => AInv
  BY InitialA
<1>2. IInv /\ IInv' /\ CInv /\ AInv /\ [Next]_vars => AInv'
  <2> SUFFICES ASSUME IInv, IInv', CInv, AInv, [Next]_vars PROVE AInv'
    OBVIOUS
  <2>1. CASE UNCHANGED vars
    BY <2>1, StutteringA
  <2>2. CASE Next
    <3>1. ~crashed
      BY <2>2, Steps
    <3>2. PICK t \in Thread :
            \/ /\ UNCHANGED gcVars
               /\ \/ ListenerRecv(t) \/ CallerRecv(t) \/ Lock(t) \/ Make(t)
                  \/ Acknowledge(t) \/ AddObject(t) \/ Spawn(t) \/ Dispatch(t)
                  \/ Reply(t) \/ Finish(t)
                  \/ MarkCompleteMu(t) \/ Check(t) \/ TryRecv(t) \/ Spin(t)
                  \/ Relock(t)
                  \/ \E o \in App : \/ Create(t, o) \/ SendData(t, o)
                                    \/ MarkComplete(t, o) \/ Release(t, o)
                                    \/ WaitUntilComplete(t, o)
            \/ OnCreated(t) \/ FlushMsgs(t) \/ GcDispatch(t) \/ SendList(t)
      BY <2>2, Steps
    <3> QED BY <3>1, <3>2, CallsA, GoingOnA, OnCreatedA, FlushMsgsA, GcDispatchA, SendListA
  <2> QED BY <2>1, <2>2
<1> QED BY <1>1, <1>2, Invariance, Collecting, PTL DEF Spec

-----------------------------------------------------------------------------
(* When all is quiet.                                                       *)

LEMMA QuietLists ==
  ASSUME IInv, AInv, Quiet, NEW h \in Host, NEW g \in Gcs
  PROVE  objs[h][g] = {} /\ maybeDead[h][g] = {}
<1>1. Other(h) \in Host /\ Other(Other(h)) = h
  BY TwoHosts
<1>2. \A t \in Thread : pc[t] = "idle" /\ msg[t].type = "none"
  BY DEF Quiet, IInv, Threads, ThreadOK, Empty, NoMsg
<1>3. ASSUME NEW d \in Host PROVE ~Linked(d, g) /\ (Unstarted(d, g) => g \notin created[d])
  <2>1. \A t \in Thread : ~Carries(t, d, g)
    BY <1>2 DEF Carries, Link, Early, Answer, Flush, Scan
  <2>2. \A e \in Host : \A i \in Nat : ~InChannel(e, i, d, g)
    BY DEF Quiet, InChannel
  <2> QED BY <1>2, <2>1, <2>2 DEF Linked, Unstarted, At
<1>4. CASE ~Swapped(h, g)
  BY <1>4 DEF AInv, Unswapped
<1>5. CASE Swapped(h, g)
  <2>1. g \in created[h]
    BY <1>5 DEF Swapped
  <2>2. Swapped(Other(h), g)
    BY <1>3, <2>1 DEF AInv, Ending
  <2>3. g \in created[Other(h)]
    BY <2>2 DEF Swapped
  <2> QED BY <1>1, <1>3, <2>3 DEF AInv, Ending
<1> QED BY <1>4, <1>5

\* What is there at one end is there at the other.
LEMMA QuietPairs ==
  ASSUME IInv, AInv, Quiet, NEW h \in Host, NEW o \in made[h]
  PROVE  o \in made[Other(h)]
<1>1. Other(h) \in Host
  BY TwoHosts
<1> QED BY <1>1 DEF AInv, Asked, Quiet, At

\* The objects of users are deleted at both ends or at neither, however many
\* collections there are.
UsersAgree ==
  Quiet => \A o \in App :
             \/ \A h \in Host : o \in listed[h] \union held[h]
             \/ \A h \in Host : Freed(h, o)
             \/ \A h \in Host : o \notin made[h]

LEMMA QuietAgreement ==
  ASSUME IInv, CInv, AInv
  PROVE  UsersAgree
<1> SUFFICES ASSUME Quiet, NEW o \in App, NEW k \in Host, o \in made[k]
             PROVE  \/ \A h \in Host : o \in listed[h]
                    \/ \A h \in Host : Freed(h, o)
  BY DEF UsersAgree
<1>1. Other(k) \in Host /\ \A h \in Host : h = k \/ h = Other(k)
  BY TwoHosts DEF Other
<1>2. \A h \in Host : o \in made[h]
  BY <1>1, QuietPairs
<1>3. \A t \in Thread : msg[t] = NoMsg /\ own[t] = None /\ None # o /\ NoMsg.obj # o
  <2>1. \A t \in Thread : pc[t] = "idle"
    BY DEF Quiet
  <2>2. \A t \in Thread : own[t] = None
    BY <2>1, Unowned
  <2>3. \A t \in Thread : msg[t] = NoMsg
    BY <2>1 DEF IInv, Threads, ThreadOK, Empty
  <2> QED BY <2>2, <2>3, RemoteAssumption DEF NoMsg, Object
<1>4. \A h \in Host : InLists(h, o) <=> o \in listed[h]
  BY QuietLists DEF InLists
<1>5. \A h \in Host : Gone(h, o) <=> o \notin listed[h]
  BY <1>2, <1>3, <1>4 DEF Gone, OwnedBy, At
<1>6. ASSUME NEW h \in Host, Gone(h, o) PROVE Gone(Other(h), o)
  <2>1. Other(h) \in Host
    BY TwoHosts
  <2> QED BY <1>6, <2>1, QuietLists DEF AInv, Dropping
<1>7. ASSUME NEW h \in Host, Gone(h, o) PROVE Freed(h, o)
  <2>1. Dead(o)
    BY <1>2, <1>3, <1>4, <1>5, <1>7 DEF CInv, Tracked, At
  <2>2. ~InUse(h, o)
    BY <1>3, <2>1 DEF Dead, Silent, InUse, Pending, At
  <2> QED BY <1>2, <1>5, <1>7, <2>2, QuietLists DEF Freed
<1>8. CASE Gone(k, o)
  BY <1>1, <1>6, <1>7, <1>8
<1>9. CASE Gone(Other(k), o)
  <2>1. Gone(k, o)
    BY <1>1, <1>6, <1>9, TwoHosts
  <2> QED BY <1>1, <1>7, <1>9, <2>1
<1> QED BY <1>1, <1>5, <1>8, <1>9

\* For every number of users, listeners and collections: once the channels are empty and
\* no handler runs, onRecv at the two ends has deleted the same objects of users.
THEOREM UsersFreedTogether == Spec => []UsersAgree
<1>1. IInv /\ CInv /\ AInv => UsersAgree
  BY QuietAgreement
<1> QED BY <1>1, Invariance, Collecting, Agrees, PTL

=============================================================================

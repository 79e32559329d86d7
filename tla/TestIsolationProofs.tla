------------------------- MODULE TestIsolationProofs -------------------------
(***************************************************************************)
(* Proofs about TestIsolation for any number of retries.                   *)
(*                                                                         *)
(* The inductive invariant has three parts: the parent's record of a child *)
(* (_rv) never runs ahead of what became of it; the cookies that a child   *)
(* still has in its socket say how far it is; and where the parent stands  *)
(* says which results and timeouts it has acted on.                        *)
(***************************************************************************)
EXTENDS TestIsolation, SequenceTheorems, TLAPS

Places == {"start", "init", "load", "compute", "hung", "computed", "report", "exit"}
Letters == {"R", "E", "D", "result"}
ParentPC == {"begin", "poll", "polling", "kill", "next", "cookie", "read", "wait", "failed",
             "over", "exit", "assert"}

\* Every variable keeps its type; a child that is not of this run never starts.
TypeOK ==
  /\ tests \in {{First}, Children}
  /\ at \in [Children -> Places]
  /\ process \in [Children -> {"none", "alive"} \cup Statuses]
  /\ pipe \in [Children -> Seq(Letters)]
  /\ pc \in ParentPC /\ limit \in {"now", "counted", "none"}
  /\ handling \in Children \cup {NoChild}
  /\ events \in SUBSET (tests \ done) /\ done \in SUBSET tests
  /\ rv \in [Children -> {"running"} \cup Statuses]
  /\ timer \in [Children -> {"off", "on", "passed"}]
  /\ result \in SUBSET tests
  /\ tries \in Nat

\* The parent records only what happened, and has recorded what it relies on.
Record ==
  /\ \A c \in Children : rv[c] # "running" => process[c] = rv[c]
  /\ pc # "begin" => \A c \in tests : process[c] # "none"
  /\ pc = "begin" => \A c \in tests : process[c] = "none" \/ rv[c] # "running"
  /\ \A c \in done : rv[c] # "running"
  /\ pc \in {"cookie", "read", "wait", "failed"} => handling \in tests \ (events \cup done)
  /\ pc = "failed" => rv[handling] = "crash"
  /\ pc \in {"over", "exit"} => \A c \in tests : rv[c] # "running"

\* "D" is followed by the result alone, which is the last thing a child sends.
Cookies ==
  /\ \A c \in Children : \A j \in 1..Len(pipe[c]) :
       pipe[c][j] = "D" => \/ at[c] = "report" /\ j = Len(pipe[c])
                           \/ at[c] = "exit" /\ j = Len(pipe[c]) - 1
  /\ pc = "read" => \/ at[handling] = "report" /\ Len(pipe[handling]) = 0
                    \/ at[handling] = "exit" /\ Len(pipe[handling]) = 1
  /\ \A c \in result : at[c] = "exit"

\* What the parent has read of a test that is not a race.
Outcome ==
  /\ pc = "begin" => result = {} /\ done = {}
  /\ tests = {First} =>
       /\ result \subseteq done \/ pc \in {"wait", "failed", "exit"}
       /\ \A c \in done : rv[c] = "success"
  /\ pc \in {"poll", "polling", "kill"} => done # tests

IInv == TypeOK /\ Record /\ Cookies /\ Outcome

USE ChildrenAssumption, RetriesAssumption DEF Children, Statuses, Places, Letters, ParentPC

-----------------------------------------------------------------------------
\* A letter written at the end of what a socket holds.
LEMMA Written ==
  ASSUME NEW s \in Seq(Letters), NEW x \in Letters
  PROVE  /\ s \o <<x>> \in Seq(Letters) /\ Len(s \o <<x>>) = Len(s) + 1
         /\ \A j \in 1..Len(s) : (s \o <<x>>)[j] = s[j]
         /\ (s \o <<x>>)[Len(s) + 1] = x
<1>1. <<x>> \in Seq(Letters) /\ Len(<<x>>) = 1 /\ <<x>>[1] = x
  OBVIOUS
<1>2. Len(s) \in Nat
  OBVIOUS
<1> QED BY <1>1, <1>2, ConcatProperties

\* What the parent reads first, and what is left.
LEMMA Taken ==
  ASSUME NEW s \in Seq(Letters), s # << >>
  PROVE  /\ Len(s) \in Nat \ {0} /\ Head(s) = s[1] /\ Head(s) \in Letters
         /\ Tail(s) \in Seq(Letters) /\ Len(Tail(s)) = Len(s) - 1
         /\ \A j \in 1..Len(Tail(s)) : Tail(s)[j] = s[j + 1]
  BY HeadTailProperties, EmptySeq

LEMMA Initially == Init => IInv
  BY EmptySeq DEF Init, IInv, TypeOK, Record, Cookies, Outcome

\* Every step preserves the invariant, one action at a time.
LEMMA Preserved == IInv /\ [Next]_vars => IInv'
<1> SUFFICES ASSUME IInv, [Next]_vars PROVE IInv'
  OBVIOUS
<1>1. ASSUME NEW c \in Children, Start(c) PROVE IInv'
  <2> USE <1>1 DEF Start, Does, IInv
  <2> DEFINE s == pipe[c]
  <2>1. /\ s \in Seq(Letters) /\ Len(s) \in Nat /\ "R" \in Letters
        /\ pipe' = [pipe EXCEPT ![c] = s \o <<"R">>]
    BY DEF TypeOK
  <2>2. /\ s \o <<"R">> \in Seq(Letters) /\ Len(s \o <<"R">>) = Len(s) + 1
        /\ \A j \in 1..Len(s) : (s \o <<"R">>)[j] = s[j]
        /\ (s \o <<"R">>)[Len(s) + 1] = "R"
    BY <2>1, Written
  <2> HIDE DEF s
  <2>3. TypeOK'
    BY <2>1, <2>2 DEF TypeOK, parent
  <2>4. Record'
    BY DEF Record, parent
  <2>5. Cookies'
    <3>1. pipe'[c] = s \o <<"R">> /\ at'[c] = "init"
      BY <2>1 DEF TypeOK
    <3>2. \A d \in Children \ {c} : pipe'[d] = pipe[d] /\ at'[d] = at[d]
      BY <2>1 DEF TypeOK
    <3>3. \A j \in 1..Len(s) : s[j] = "D" => at[c] = "report" /\ j = Len(s)
      BY DEF Cookies, s
    <3>4. ASSUME NEW d \in Children, NEW j \in 1..Len(pipe'[d]), pipe'[d][j] = "D"
          PROVE  \/ at'[d] = "report" /\ j = Len(pipe'[d])
                 \/ at'[d] = "exit" /\ j = Len(pipe'[d]) - 1
      <4>1. CASE d # c
        BY <3>2, <3>4, <4>1 DEF Cookies
      <4>2. CASE d = c /\ j \in 1..Len(s)
        BY <2>1, <2>2, <3>1, <3>3, <3>4, <4>2
      <4>3. CASE d = c /\ j = Len(s) + 1
        BY <2>2, <3>1, <3>4, <4>3
      <4> QED BY <2>1, <2>2, <3>1, <3>4, <4>1, <4>2, <4>3
    <3>5. pc = "read" => handling \in Children
      BY DEF Record, TypeOK
    <3>6. (pc = "read" => \/ at[handling] = "report" /\ Len(pipe[handling]) = 0
                          \/ at[handling] = "exit" /\ Len(pipe[handling]) = 1)'
      BY <2>1, <2>2, <3>1, <3>2, <3>5 DEF Cookies, parent, s
    <3>7. \A d \in result' : at'[d] = "exit"
      BY <3>1, <3>2 DEF Cookies, TypeOK, parent
    <3> QED BY <3>4, <3>6, <3>7 DEF Cookies
  <2>6. Outcome'
    BY DEF Outcome, parent
  <2> QED BY <2>3, <2>4, <2>5, <2>6
<1>2. ASSUME NEW c \in Children, Load(c) PROVE IInv'
  <2> USE <1>2 DEF Load, Does, IInv
  <2> DEFINE s == pipe[c]
  <2>1. /\ s \in Seq(Letters) /\ Len(s) \in Nat /\ "E" \in Letters
        /\ pipe' = [pipe EXCEPT ![c] = s \o <<"E">>]
    BY DEF TypeOK
  <2>2. /\ s \o <<"E">> \in Seq(Letters) /\ Len(s \o <<"E">>) = Len(s) + 1
        /\ \A j \in 1..Len(s) : (s \o <<"E">>)[j] = s[j]
        /\ (s \o <<"E">>)[Len(s) + 1] = "E"
    BY <2>1, Written
  <2> HIDE DEF s
  <2>3. TypeOK'
    BY <2>1, <2>2 DEF TypeOK, parent
  <2>4. Record'
    BY DEF Record, parent
  <2>5. Cookies'
    <3>1. pipe'[c] = s \o <<"E">> /\ at'[c] = "load"
      BY <2>1 DEF TypeOK
    <3>2. \A d \in Children \ {c} : pipe'[d] = pipe[d] /\ at'[d] = at[d]
      BY <2>1 DEF TypeOK
    <3>3. \A j \in 1..Len(s) : s[j] = "D" => at[c] = "report" /\ j = Len(s)
      BY DEF Cookies, s
    <3>4. ASSUME NEW d \in Children, NEW j \in 1..Len(pipe'[d]), pipe'[d][j] = "D"
          PROVE  \/ at'[d] = "report" /\ j = Len(pipe'[d])
                 \/ at'[d] = "exit" /\ j = Len(pipe'[d]) - 1
      <4>1. CASE d # c
        BY <3>2, <3>4, <4>1 DEF Cookies
      <4>2. CASE d = c /\ j \in 1..Len(s)
        BY <2>1, <2>2, <3>1, <3>3, <3>4, <4>2
      <4>3. CASE d = c /\ j = Len(s) + 1
        BY <2>2, <3>1, <3>4, <4>3
      <4> QED BY <2>1, <2>2, <3>1, <3>4, <4>1, <4>2, <4>3
    <3>5. pc = "read" => handling \in Children
      BY DEF Record, TypeOK
    <3>6. (pc = "read" => \/ at[handling] = "report" /\ Len(pipe[handling]) = 0
                          \/ at[handling] = "exit" /\ Len(pipe[handling]) = 1)'
      BY <2>1, <2>2, <3>1, <3>2, <3>5 DEF Cookies, parent, s
    <3>7. \A d \in result' : at'[d] = "exit"
      BY <3>1, <3>2 DEF Cookies, TypeOK, parent
    <3> QED BY <3>4, <3>6, <3>7 DEF Cookies
  <2>6. Outcome'
    BY DEF Outcome, parent
  <2> QED BY <2>3, <2>4, <2>5, <2>6
<1>3. ASSUME NEW c \in Children, Compute(c) PROVE IInv'
  <2> USE <1>3 DEF Compute, Does, IInv
  <2> DEFINE s == pipe[c]
  <2>1. /\ s \in Seq(Letters) /\ Len(s) \in Nat /\ "R" \in Letters
        /\ pipe' = [pipe EXCEPT ![c] = s \o <<"R">>]
    BY DEF TypeOK
  <2>2. /\ s \o <<"R">> \in Seq(Letters) /\ Len(s \o <<"R">>) = Len(s) + 1
        /\ \A j \in 1..Len(s) : (s \o <<"R">>)[j] = s[j]
        /\ (s \o <<"R">>)[Len(s) + 1] = "R"
    BY <2>1, Written
  <2> HIDE DEF s
  <2>3. TypeOK'
    BY <2>1, <2>2 DEF TypeOK, parent
  <2>4. Record'
    BY DEF Record, parent
  <2>5. Cookies'
    <3>1. pipe'[c] = s \o <<"R">> /\ at'[c] = "compute"
      BY <2>1 DEF TypeOK
    <3>2. \A d \in Children \ {c} : pipe'[d] = pipe[d] /\ at'[d] = at[d]
      BY <2>1 DEF TypeOK
    <3>3. \A j \in 1..Len(s) : s[j] = "D" => at[c] = "report" /\ j = Len(s)
      BY DEF Cookies, s
    <3>4. ASSUME NEW d \in Children, NEW j \in 1..Len(pipe'[d]), pipe'[d][j] = "D"
          PROVE  \/ at'[d] = "report" /\ j = Len(pipe'[d])
                 \/ at'[d] = "exit" /\ j = Len(pipe'[d]) - 1
      <4>1. CASE d # c
        BY <3>2, <3>4, <4>1 DEF Cookies
      <4>2. CASE d = c /\ j \in 1..Len(s)
        BY <2>1, <2>2, <3>1, <3>3, <3>4, <4>2
      <4>3. CASE d = c /\ j = Len(s) + 1
        BY <2>2, <3>1, <3>4, <4>3
      <4> QED BY <2>1, <2>2, <3>1, <3>4, <4>1, <4>2, <4>3
    <3>5. pc = "read" => handling \in Children
      BY DEF Record, TypeOK
    <3>6. (pc = "read" => \/ at[handling] = "report" /\ Len(pipe[handling]) = 0
                          \/ at[handling] = "exit" /\ Len(pipe[handling]) = 1)'
      BY <2>1, <2>2, <3>1, <3>2, <3>5 DEF Cookies, parent, s
    <3>7. \A d \in result' : at'[d] = "exit"
      BY <3>1, <3>2 DEF Cookies, TypeOK, parent
    <3> QED BY <3>4, <3>6, <3>7 DEF Cookies
  <2>6. Outcome'
    BY DEF Outcome, parent
  <2> QED BY <2>3, <2>4, <2>5, <2>6
<1>4. ASSUME NEW c \in Children, Computed(c) PROVE IInv'
  <2> USE <1>4 DEF Computed, Does, IInv
  <2> DEFINE s == pipe[c]
  <2>1. /\ s \in Seq(Letters) /\ Len(s) \in Nat /\ "E" \in Letters
        /\ pipe' = [pipe EXCEPT ![c] = s \o <<"E">>]
    BY DEF TypeOK
  <2>2. /\ s \o <<"E">> \in Seq(Letters) /\ Len(s \o <<"E">>) = Len(s) + 1
        /\ \A j \in 1..Len(s) : (s \o <<"E">>)[j] = s[j]
        /\ (s \o <<"E">>)[Len(s) + 1] = "E"
    BY <2>1, Written
  <2> HIDE DEF s
  <2>3. TypeOK'
    BY <2>1, <2>2 DEF TypeOK, parent
  <2>4. Record'
    BY DEF Record, parent
  <2>5. Cookies'
    <3>1. pipe'[c] = s \o <<"E">> /\ at'[c] = "computed"
      BY <2>1 DEF TypeOK
    <3>2. \A d \in Children \ {c} : pipe'[d] = pipe[d] /\ at'[d] = at[d]
      BY <2>1 DEF TypeOK
    <3>3. \A j \in 1..Len(s) : s[j] = "D" => at[c] = "report" /\ j = Len(s)
      BY DEF Cookies, s
    <3>4. ASSUME NEW d \in Children, NEW j \in 1..Len(pipe'[d]), pipe'[d][j] = "D"
          PROVE  \/ at'[d] = "report" /\ j = Len(pipe'[d])
                 \/ at'[d] = "exit" /\ j = Len(pipe'[d]) - 1
      <4>1. CASE d # c
        BY <3>2, <3>4, <4>1 DEF Cookies
      <4>2. CASE d = c /\ j \in 1..Len(s)
        BY <2>1, <2>2, <3>1, <3>3, <3>4, <4>2
      <4>3. CASE d = c /\ j = Len(s) + 1
        BY <2>2, <3>1, <3>4, <4>3
      <4> QED BY <2>1, <2>2, <3>1, <3>4, <4>1, <4>2, <4>3
    <3>5. pc = "read" => handling \in Children
      BY DEF Record, TypeOK
    <3>6. (pc = "read" => \/ at[handling] = "report" /\ Len(pipe[handling]) = 0
                          \/ at[handling] = "exit" /\ Len(pipe[handling]) = 1)'
      BY <2>1, <2>2, <3>1, <3>2, <3>5 DEF Cookies, parent, s
    <3>7. \A d \in result' : at'[d] = "exit"
      BY <3>1, <3>2 DEF Cookies, TypeOK, parent
    <3> QED BY <3>4, <3>6, <3>7 DEF Cookies
  <2>6. Outcome'
    BY DEF Outcome, parent
  <2> QED BY <2>3, <2>4, <2>5, <2>6
<1>5. ASSUME NEW c \in Children, Done(c) PROVE IInv'
  <2> USE <1>5 DEF Done, Does, IInv
  <2> DEFINE s == pipe[c]
  <2>1. /\ s \in Seq(Letters) /\ Len(s) \in Nat /\ "D" \in Letters
        /\ pipe' = [pipe EXCEPT ![c] = s \o <<"D">>]
    BY DEF TypeOK
  <2>2. /\ s \o <<"D">> \in Seq(Letters) /\ Len(s \o <<"D">>) = Len(s) + 1
        /\ \A j \in 1..Len(s) : (s \o <<"D">>)[j] = s[j]
        /\ (s \o <<"D">>)[Len(s) + 1] = "D"
    BY <2>1, Written
  <2> HIDE DEF s
  <2>3. TypeOK'
    BY <2>1, <2>2 DEF TypeOK, parent
  <2>4. Record'
    BY DEF Record, parent
  <2>5. Cookies'
    <3>1. pipe'[c] = s \o <<"D">> /\ at'[c] = "report"
      BY <2>1 DEF TypeOK
    <3>2. \A d \in Children \ {c} : pipe'[d] = pipe[d] /\ at'[d] = at[d]
      BY <2>1 DEF TypeOK
    <3>3. \A j \in 1..Len(s) : s[j] = "D" => at[c] = "report" /\ j = Len(s)
      BY DEF Cookies, s
    <3>4. ASSUME NEW d \in Children, NEW j \in 1..Len(pipe'[d]), pipe'[d][j] = "D"
          PROVE  \/ at'[d] = "report" /\ j = Len(pipe'[d])
                 \/ at'[d] = "exit" /\ j = Len(pipe'[d]) - 1
      <4>1. CASE d # c
        BY <3>2, <3>4, <4>1 DEF Cookies
      <4>2. CASE d = c /\ j \in 1..Len(s)
        BY <2>1, <2>2, <3>1, <3>3, <3>4, <4>2
      <4>3. CASE d = c /\ j = Len(s) + 1
        BY <2>2, <3>1, <3>4, <4>3
      <4> QED BY <2>1, <2>2, <3>1, <3>4, <4>1, <4>2, <4>3
    <3>5. pc = "read" => handling \in Children
      BY DEF Record, TypeOK
    <3>6. (pc = "read" => \/ at[handling] = "report" /\ Len(pipe[handling]) = 0
                          \/ at[handling] = "exit" /\ Len(pipe[handling]) = 1)'
      BY <2>1, <2>2, <3>1, <3>2, <3>5 DEF Cookies, parent, s
    <3>7. \A d \in result' : at'[d] = "exit"
      BY <3>1, <3>2 DEF Cookies, TypeOK, parent
    <3> QED BY <3>4, <3>6, <3>7 DEF Cookies
  <2>6. Outcome'
    BY DEF Outcome, parent
  <2> QED BY <2>3, <2>4, <2>5, <2>6
<1>6. ASSUME NEW c \in Children, Report(c) PROVE IInv'
  <2> USE <1>6 DEF Report, Does, IInv
  <2> DEFINE s == pipe[c]
  <2>1. /\ s \in Seq(Letters) /\ Len(s) \in Nat /\ "result" \in Letters
        /\ pipe' = [pipe EXCEPT ![c] = s \o <<"result">>]
    BY DEF TypeOK
  <2>2. /\ s \o <<"result">> \in Seq(Letters) /\ Len(s \o <<"result">>) = Len(s) + 1
        /\ \A j \in 1..Len(s) : (s \o <<"result">>)[j] = s[j]
        /\ (s \o <<"result">>)[Len(s) + 1] = "result"
    BY <2>1, Written
  <2> HIDE DEF s
  <2>3. TypeOK'
    BY <2>1, <2>2 DEF TypeOK, parent
  <2>4. Record'
    BY DEF Record, parent
  <2>5. Cookies'
    <3>1. pipe'[c] = s \o <<"result">> /\ at'[c] = "exit"
      BY <2>1 DEF TypeOK
    <3>2. \A d \in Children \ {c} : pipe'[d] = pipe[d] /\ at'[d] = at[d]
      BY <2>1 DEF TypeOK
    <3>3. \A j \in 1..Len(s) : s[j] = "D" => at[c] = "report" /\ j = Len(s)
      BY DEF Cookies, s
    <3>4. ASSUME NEW d \in Children, NEW j \in 1..Len(pipe'[d]), pipe'[d][j] = "D"
          PROVE  \/ at'[d] = "report" /\ j = Len(pipe'[d])
                 \/ at'[d] = "exit" /\ j = Len(pipe'[d]) - 1
      <4>1. CASE d # c
        BY <3>2, <3>4, <4>1 DEF Cookies
      <4>2. CASE d = c /\ j \in 1..Len(s)
        BY <2>1, <2>2, <3>1, <3>3, <3>4, <4>2
      <4>3. CASE d = c /\ j = Len(s) + 1
        BY <2>2, <3>1, <3>4, <4>3
      <4> QED BY <2>1, <2>2, <3>1, <3>4, <4>1, <4>2, <4>3
    <3>5. pc = "read" => handling \in Children
      BY DEF Record, TypeOK
    <3>6. (pc = "read" => \/ at[handling] = "report" /\ Len(pipe[handling]) = 0
                          \/ at[handling] = "exit" /\ Len(pipe[handling]) = 1)'
      BY <2>1, <2>2, <3>1, <3>2, <3>5 DEF Cookies, parent, s
    <3>7. \A d \in result' : at'[d] = "exit"
      BY <3>1, <3>2 DEF Cookies, TypeOK, parent
    <3> QED BY <3>4, <3>6, <3>7 DEF Cookies
  <2>6. Outcome'
    BY DEF Outcome, parent
  <2> QED BY <2>3, <2>4, <2>5, <2>6
<1>7. ASSUME NEW c \in Children, Exit(c) PROVE IInv'
  <2>1. TypeOK'
    BY <1>7 DEF IInv, Exit, ChildEnds, TypeOK, Record, parent
  <2>2. Record'
    BY <1>7 DEF IInv, Exit, ChildEnds, TypeOK, Record, parent
  <2>3. Cookies'
    BY <1>7 DEF IInv, Exit, ChildEnds, TypeOK, Record, Cookies, parent
  <2>4. Outcome'
    BY <1>7 DEF IInv, Exit, ChildEnds, TypeOK, Record, Outcome, parent
  <2> QED BY <2>1, <2>2, <2>3, <2>4 DEF IInv
<1>8. ASSUME NEW c \in Children, Crash(c) PROVE IInv'
  <2>1. TypeOK'
    BY <1>8 DEF IInv, Crash, ChildEnds, TypeOK, Record, parent
  <2>2. Record'
    BY <1>8 DEF IInv, Crash, ChildEnds, TypeOK, Record, parent
  <2>3. Cookies'
    BY <1>8 DEF IInv, Crash, ChildEnds, TypeOK, Record, Cookies, parent
  <2>4. Outcome'
    BY <1>8 DEF IInv, Crash, ChildEnds, TypeOK, Record, Outcome, parent
  <2> QED BY <2>1, <2>2, <2>3, <2>4 DEF IInv
<1>9. ASSUME NEW c \in Children, Hang(c) PROVE IInv'
  <2>1. TypeOK'
    BY <1>9 DEF IInv, Hang, Does, TypeOK, Record, parent
  <2>2. Record'
    BY <1>9 DEF IInv, Hang, Does, TypeOK, Record, parent
  <2>3. Cookies'
    BY <1>9 DEF IInv, Hang, Does, TypeOK, Record, Cookies, parent
  <2>4. Outcome'
    BY <1>9 DEF IInv, Hang, Does, TypeOK, Record, Outcome, parent
  <2> QED BY <2>1, <2>2, <2>3, <2>4 DEF IInv
<1>10. ASSUME NEW c \in Children, Tick(c) PROVE IInv'
  <2>1. TypeOK'
    BY <1>10 DEF IInv, Tick, TypeOK, Record, parent
  <2>2. Record'
    BY <1>10 DEF IInv, Tick, TypeOK, Record, parent
  <2>3. Cookies'
    BY <1>10 DEF IInv, Tick, TypeOK, Record, Cookies, parent
  <2>4. Outcome'
    BY <1>10 DEF IInv, Tick, TypeOK, Record, Outcome, parent
  <2> QED BY <2>1, <2>2, <2>3, <2>4 DEF IInv
<1>11. CASE Begin
  <2>1. TypeOK'
    BY <1>11 DEF IInv, Begin, Outcome, TypeOK, Record, parent
  <2>2. Record'
    BY <1>11 DEF IInv, Begin, Outcome, TypeOK, Record, parent
  <2>3. Cookies'
    BY <1>11 DEF IInv, Begin, Outcome, TypeOK, Record, Cookies, parent
  <2>4. Outcome'
    BY <1>11 DEF IInv, Begin, Outcome, TypeOK, Record, Outcome, parent
  <2> QED BY <2>1, <2>2, <2>3, <2>4 DEF IInv
<1>12. CASE Poll
  <2>1. TypeOK'
    BY <1>12 DEF IInv, Poll, Limits, TypeOK, Record, parent
  <2>2. Record'
    BY <1>12 DEF IInv, Poll, Limits, TypeOK, Record, parent
  <2>3. Cookies'
    BY <1>12 DEF IInv, Poll, Limits, TypeOK, Record, Cookies, parent
  <2>4. Outcome'
    BY <1>12 DEF IInv, Poll, Limits, TypeOK, Record, Outcome, parent
  <2> QED BY <2>1, <2>2, <2>3, <2>4 DEF IInv
<1>13. CASE PollReturns
  <2>1. TypeOK'
    BY <1>13 DEF IInv, PollReturns, TypeOK, Record, parent
  <2>2. Record'
    BY <1>13 DEF IInv, PollReturns, TypeOK, Record, parent
  <2>3. Cookies'
    BY <1>13 DEF IInv, PollReturns, TypeOK, Record, Cookies, parent
  <2>4. Outcome'
    BY <1>13 DEF IInv, PollReturns, TypeOK, Record, Outcome, parent
  <2> QED BY <2>1, <2>2, <2>3, <2>4 DEF IInv
<1>14. CASE Kill
  <2>1. TypeOK'
    BY <1>14 DEF IInv, Kill, Killed, TypeOK, Record, parent
  <2>2. Record'
    BY <1>14 DEF IInv, Kill, Killed, TypeOK, Record, parent
  <2>3. Cookies'
    BY <1>14 DEF IInv, Kill, Killed, TypeOK, Record, Cookies, parent
  <2>4. Outcome'
    BY <1>14 DEF IInv, Kill, Killed, TypeOK, Record, Outcome, parent
  <2> QED BY <2>1, <2>2, <2>3, <2>4 DEF IInv
<1>15. CASE NextEvent
  <2>1. TypeOK'
    BY <1>15 DEF IInv, NextEvent, TypeOK, Record, parent
  <2>2. Record'
    BY <1>15 DEF IInv, NextEvent, TypeOK, Record, parent
  <2>3. Cookies'
    BY <1>15 DEF IInv, NextEvent, TypeOK, Record, Cookies, parent
  <2>4. Outcome'
    BY <1>15 DEF IInv, NextEvent, TypeOK, Record, Outcome, parent
  <2> QED BY <2>1, <2>2, <2>3, <2>4 DEF IInv
<1>16. CASE Cookie
  <2> DEFINE c == handling
  <2>1. c \in tests \ (events \cup done) /\ c \in Children /\ pc = "cookie"
    BY <1>16 DEF Cookie, IInv, TypeOK, Record
  <2>2. ASSUME pipe[c] # << >>, pipe' = [pipe EXCEPT ![c] = Tail(@)]
        PROVE  /\ pipe'[c] \in Seq(Letters) /\ Len(pipe'[c]) = Len(pipe[c]) - 1
               /\ Len(pipe[c]) \in Nat \ {0} /\ Head(pipe[c]) = pipe[c][1]
               /\ \A j \in 1..Len(pipe'[c]) : pipe'[c][j] = pipe[c][j + 1]
               /\ pipe' \in [Children -> Seq(Letters)]
               /\ \A d \in Children \ {c} : pipe'[d] = pipe[d]
    BY <2>1, <2>2, Taken DEF IInv, TypeOK
  <2>3. TypeOK'
    <3>1. pipe' \in [Children -> Seq(Letters)]
      BY <1>16, <2>2 DEF Cookie, IInv, TypeOK
    <3>2. rv' \in [Children -> {"running"} \cup Statuses]
      BY <1>16, <2>1 DEF Cookie, Reaped, IInv, TypeOK
    <3> QED BY <1>16, <2>1, <3>1, <3>2 DEF Cookie, IInv, TypeOK
  <2>4. Record'
    BY <1>16 DEF IInv, Cookie, Reaped, TypeOK, Record
  <2>5. Cookies'
    <3>1. CASE UNCHANGED pipe /\ pc' = "failed"
      BY <1>16, <3>1 DEF Cookie, IInv, Cookies
    <3>2. CASE pipe[c] # << >> /\ pipe' = [pipe EXCEPT ![c] = Tail(@)]
      <4>1. UNCHANGED <<at, result, handling>> /\ (pc' = "read" => Head(pipe[c]) = "D")
        BY <1>16, <3>2 DEF Cookie
      <4>2. \A d \in Children : \A j \in 1..Len(pipe'[d]) :
              pipe'[d][j] = "D" => \/ at[d] = "report" /\ j = Len(pipe'[d])
                                   \/ at[d] = "exit" /\ j = Len(pipe'[d]) - 1
        <5>1. ASSUME NEW j \in 1..Len(pipe'[c]), pipe'[c][j] = "D"
              PROVE  \/ at[c] = "report" /\ j = Len(pipe'[c])
                     \/ at[c] = "exit" /\ j = Len(pipe'[c]) - 1
          <6>1. j + 1 \in 1..Len(pipe[c]) /\ pipe[c][j + 1] = "D"
            BY <2>2, <3>2, <5>1
          <6> QED BY <2>1, <2>2, <3>2, <6>1 DEF IInv, Cookies
        <5>2. \A d \in Children \ {c} : pipe'[d] = pipe[d]
          BY <2>2, <3>2
        <5> HIDE DEF c
        <5> QED BY <5>1, <5>2 DEF IInv, Cookies
      <4>3. Head(pipe[c]) = "D" => \/ at[c] = "report" /\ Len(pipe'[c]) = 0
                                   \/ at[c] = "exit" /\ Len(pipe'[c]) = 1
        <5>1. 1 \in 1..Len(pipe[c]) /\ Head(pipe[c]) = pipe[c][1]
          BY <2>2, <3>2
        <5>2. pipe[c][1] = "D" => \/ at[c] = "report" /\ 1 = Len(pipe[c])
                                  \/ at[c] = "exit" /\ 1 = Len(pipe[c]) - 1
          BY <2>1, <5>1 DEF IInv, Cookies
        <5> QED BY <2>2, <3>2, <5>1, <5>2
      <4> QED BY <4>1, <4>2, <4>3 DEF IInv, Cookies
    <3> QED BY <1>16, <3>1, <3>2 DEF Cookie
  <2>6. Outcome'
    BY <1>16 DEF IInv, Cookie, Reaped, TypeOK, Record, Outcome
  <2> QED BY <2>3, <2>4, <2>5, <2>6 DEF IInv
<1>17. CASE ReadResult
  <2>1. handling \in tests \ (events \cup done) /\ handling \in Children
    BY <1>17 DEF ReadResult, IInv, TypeOK, Record
  <2>2. TypeOK'
    <3>1. pipe' \in [Children -> Seq(Letters)]
      <4>1. CASE UNCHANGED pipe
        BY <4>1 DEF IInv, TypeOK
      <4>2. CASE pipe[handling] # << >> /\ pipe' = [pipe EXCEPT ![handling] = Tail(@)]
        <5>1. pipe[handling] \in Seq(Letters)
          BY <2>1 DEF IInv, TypeOK
        <5>2. Tail(pipe[handling]) \in Seq(Letters)
          BY <4>2, <5>1, Taken
        <5> QED BY <4>2, <5>2 DEF IInv, TypeOK
      <4> QED BY <1>17, <4>1, <4>2 DEF ReadResult
    <3> QED BY <1>17, <2>1, <3>1 DEF ReadResult, IInv, TypeOK
  <2>3. Record'
    BY <1>17 DEF IInv, ReadResult, TypeOK, Record
  <2>4. Cookies'
    BY <1>17, <2>1, Taken, SMTT(30) DEF IInv, ReadResult, TypeOK, Record, Cookies
  <2>5. Outcome'
    BY <1>17 DEF IInv, ReadResult, TypeOK, Record, Outcome
  <2> QED BY <2>2, <2>3, <2>4, <2>5 DEF IInv
<1>18. CASE WaitExited
  <2>1. TypeOK'
    BY <1>18 DEF IInv, WaitExited, Reaped, TypeOK, Record, parent
  <2>2. Record'
    BY <1>18 DEF IInv, WaitExited, Reaped, TypeOK, Record, parent
  <2>3. Cookies'
    BY <1>18 DEF IInv, WaitExited, Reaped, TypeOK, Record, Cookies, parent
  <2>4. Outcome'
    BY <1>18 DEF IInv, WaitExited, Reaped, TypeOK, Record, Outcome, parent
  <2> QED BY <2>1, <2>2, <2>3, <2>4 DEF IInv
<1>19. CASE Failed
  <2>1. TypeOK'
    BY <1>19 DEF IInv, Failed, TypeOK, Record, parent
  <2>2. Record'
    BY <1>19 DEF IInv, Failed, TypeOK, Record, parent
  <2>3. Cookies'
    BY <1>19 DEF IInv, Failed, TypeOK, Record, Cookies, parent
  <2>4. Outcome'
    BY <1>19 DEF IInv, Failed, TypeOK, Record, Outcome, parent
  <2> QED BY <2>1, <2>2, <2>3, <2>4 DEF IInv
<1>20. CASE UNCHANGED vars
  BY <1>20 DEF vars, parent, IInv, TypeOK, Record, Cookies, Outcome
<1> QED
  BY <1>1, <1>2, <1>3, <1>4, <1>5, <1>6, <1>7, <1>8, <1>9, <1>10,
     <1>11, <1>12, <1>13, <1>14, <1>15, <1>16, <1>17, <1>18, <1>19, <1>20
  DEF Next, Parent, Child

\* Every step of the parent and of a child preserves what the parent knows of its
\* children: their pids, statuses, messages and results.
THEOREM Invariance == Spec => []IInv
  BY Initially, Preserved, PTL DEF Spec

-----------------------------------------------------------------------------
\* When the parent goes on, every child of the test has ended and was waited
\* for: killChild and testExited leave neither a process nor a zombie.
THEOREM LeavesNoChild == Spec => []NoChildLeft
<1>1. IInv => NoChildLeft
  BY DEF IInv, TypeOK, Record, NoChildLeft
<1> QED BY <1>1, Invariance, PTL

\* A result that is kept is of a child that came to the end of endTest, and
\* in a test that is no race waitExited has then seen it exit as it should.
THEOREM ResultsAreComplete == Spec => []MeasuredRanToTheEnd
<1>1. ASSUME IInv, pc = "over", NEW c \in result
      PROVE  at[c] = "exit" /\ (tests = {First} => rv[c] = "success")
  BY <1>1 DEF IInv, TypeOK, Cookies, Outcome
<1>2. IInv => MeasuredRanToTheEnd
  BY <1>1 DEF MeasuredRanToTheEnd
<1> QED BY <1>2, Invariance, PTL
=============================================================================

--------------------------- MODULE TestIsolation ---------------------------
(***************************************************************************)
(* A test runs in a child process (SubprocessTestIsolation,                *)
(* src/runtime/testisolation.cpp), which tells its parent by one-letter    *)
(* cookies on a socket when its time is to be counted and when its result  *)
(* follows.  The parent waits with a timeout, reads, reaps or kills; one   *)
(* test is tried again if it fails (computeWrapper), two tests race        *)
(* (raceConfigs, recvFirstResult).                                         *)
(*                                                                         *)
(* A child may die at any point, and its rule may never end.  Of time only *)
(* matters whether a timeout that is counted has passed.                   *)
(***************************************************************************)
EXTENDS Naturals, Sequences, FiniteSets

CONSTANTS First, Second,  \* the children of a race; First is that of a test
          Retries,        \* RETRIES
          NoChild

ASSUME ChildrenAssumption == First # Second /\ NoChild \notin {First, Second}
ASSUME RetriesAssumption == Retries \in Nat

Children == {First, Second}

VARIABLES tests,    \* the children of this run: {First} or both
          at,       \* what a child does next
          process,  \* "none", "alive", "success", "crash": exit status
          pipe,     \* what a child has written and the parent has not read
          pc,       \* what the parent does next
          limit,    \* what poll was given: "now", "counted" or "none" (no end)
          handling, \* the child whose event it handles
          events,   \* fds[].revents: the children whose events it is to handle
          done,     \* adone, bdone
          rv,       \* _rv: "running", or the exit status
          timer,    \* _timeoutEnabled and timeleft(): "off", "on", "passed"
          result,   \* the children whose result has been read
          tries     \* retries left

parent == <<pc, limit, handling, events, done, rv, timer, result, tries>>
vars == <<tests, at, process, pipe, parent>>

Statuses == {"success", "crash"}

Init ==
  /\ tests \in {{First}, Children}
  /\ at = [c \in Children |-> "start"] /\ process = [c \in Children |-> "none"]
  /\ pipe = [c \in Children |-> << >>]
  /\ pc = "begin" /\ limit = "now" /\ handling = NoChild /\ events = {} /\ done = {}
  /\ rv = [c \in Children |-> "running"] /\ timer = [c \in Children |-> "off"]
  /\ result = {} /\ tries = Retries

-----------------------------------------------------------------------------
(* The child: beginTest, computeWrapperSubproc and endTest.                 *)

Does(c, here, next, what) ==
  /\ process[c] = "alive" /\ at[c] = here
  /\ at' = [at EXCEPT ![c] = next]
  /\ pipe' = [pipe EXCEPT ![c] = @ \o what]
  /\ UNCHANGED <<tests, process, parent>>

Start(c)  == Does(c, "start", "init", <<"R">>)       \* restartTimeout
Load(c)   == Does(c, "init", "load", <<"E">>)        \* disableTimeout
Compute(c) == Does(c, "load", "compute", <<"R">>)
Computed(c) == Does(c, "compute", "computed", <<"E">>)
Done(c)   == Does(c, "computed", "report", <<"D">>)
Report(c) == Does(c, "report", "exit", <<"result">>)

ChildEnds(c, status) ==
  /\ process' = [process EXCEPT ![c] = status]
  /\ UNCHANGED <<tests, at, pipe, parent>>

Exit(c)  == process[c] = "alive" /\ at[c] = "exit" /\ ChildEnds(c, "success")
Crash(c) == process[c] = "alive" /\ ChildEnds(c, "crash")

(* An endless computation, while the time is counted.                       *)
Hang(c) == Does(c, "compute", "hung", << >>)

-----------------------------------------------------------------------------
(* The parent                                                               *)

(* beginTest of every test.                                                 *)
Begin ==
  /\ pc = "begin" /\ pc' = "poll"
  /\ at' = [c \in Children |-> IF c \in tests THEN "start" ELSE at[c]]
  /\ process' = [c \in Children |-> IF c \in tests THEN "alive" ELSE "none"]
  /\ pipe' = [c \in Children |-> << >>]
  /\ rv' = [c \in Children |-> "running"] /\ timer' = [c \in Children |-> "off"]
  /\ UNCHANGED <<tests, limit, handling, events, done, result, tries>>

(* The socket is readable: something was written, or it is at its end.      *)
Readable(c) == pipe[c] # << >> \/ process[c] # "alive"

(* timeleft() <= 0                                                          *)
NoTimeLeft(c) == rv[c] # "running" \/ timer[c] = "passed"
Passed == \A c \in tests : NoTimeLeft(c)
Uncounted == \E c \in tests : rv[c] = "running" /\ timer[c] = "off"

\* Faulty: a race does not clamp what is left either.
UnclampedLimits ==
  IF Uncounted THEN {"none"}
  ELSE IF ~ Passed THEN {"counted"}
  ELSE IF \A c \in tests : rv[c] # "running" THEN {"now"}
  ELSE {"now", "none"}

(* The milliseconds poll is given.  recvFirstResult takes the larger of what*)
(* two children have left, and at least 0.  recvResult takes what is left as*)
(* it is: a deadline that has passed is a negative number, with which poll  *)
(* waits without end, or 0 if it has only just passed (_settimeout rounds). *)
Limits ==
  IF Uncounted THEN {"none"}
  ELSE IF ~ Passed THEN {"counted"}
  ELSE IF tests = Children \/ rv[First] # "running" THEN {"now"}
  ELSE {"now", "none"}

Poll ==
  /\ pc = "poll" /\ pc' = "polling"
  /\ limit' \in Limits
  /\ UNCHANGED <<tests, at, process, pipe, handling, events, done, rv, timer, result, tries>>

(* poll returns what can be read, or at its limit that there is nothing.    *)
PollReturns ==
  LET ready == {c \in tests \ done : Readable(c)}
  IN
  /\ pc = "polling"
  /\ \/ /\ ready # {}
        /\ events' = ready /\ pc' = "next"
     \/ /\ ready = {}
        /\ limit = "now" \/ (limit = "counted" /\ Passed)
        /\ pc' = "kill" /\ UNCHANGED events
  /\ UNCHANGED <<tests, at, process, pipe, limit, handling, done, rv, timer, result, tries>>

(* Time passes.                                                             *)
Tick(c) ==
  /\ timer[c] = "on" /\ timer' = [timer EXCEPT ![c] = "passed"]
  /\ UNCHANGED <<tests, at, process, pipe, pc, limit, handling, events, done, rv, result, tries>>

\* Faulty: the child is killed and not waited for.
KilledOnly(cs) ==
  /\ process' = [c \in Children |-> IF c \in cs /\ rv[c] = "running" /\ process[c] = "alive"
                                    THEN "crash" ELSE process[c]]
  /\ UNCHANGED rv

(* killChild and waitExited                                                 *)
Killed(cs) ==
  /\ process' = [c \in Children |-> IF c \in cs /\ rv[c] = "running" /\ process[c] = "alive"
                                    THEN "crash" ELSE process[c]]
  /\ rv' = [c \in Children |-> IF c \in cs /\ rv[c] = "running" THEN process'[c] ELSE rv[c]]

Kill ==
  /\ pc = "kill" /\ pc' = "over"
  /\ Killed(tests)
  /\ UNCHANGED <<tests, at, pipe, limit, handling, events, done, timer, result, tries>>

(* The loop of recvFirstResult, First before Second; when one is done the   *)
(* other has the time that the result leaves it, which may have passed.     *)
NextEvent ==
  /\ pc = "next"
  /\ \/ \E c \in events : /\ c = First \/ First \notin events
                          /\ handling' = c /\ events' = events \ {c} /\ pc' = "cookie"
                          /\ UNCHANGED timer
     \/ /\ events = {} /\ pc' = (IF done = tests THEN "over" ELSE "poll")
        /\ \/ UNCHANGED timer
           \/ \E c \in tests \ done : /\ done # {} /\ timer[c] = "on"
                                      /\ timer' = [timer EXCEPT ![c] = "passed"]
        /\ UNCHANGED <<handling, events>>
  /\ UNCHANGED <<tests, at, process, pipe, limit, done, rv, result, tries>>

(* testExited: a child that has ended is reaped.                            *)
Reaped(c) == IF rv[c] = "running" /\ process[c] \in Statuses THEN process[c] ELSE rv[c]

(* handleEvent, up to the result.  A child that is dead is a failure when   *)
(* nothing is left to read, and when its result would be next.              *)
Cookie ==
  LET c == handling
      failed == /\ Reaped(c) = "crash"
                /\ pipe[c] # << >> => Head(pipe[c]) = "D"
      kind   == Head(pipe[c])
  IN
  /\ pc = "cookie"
  /\ \/ /\ failed /\ pc' = "failed"
        /\ rv' = [rv EXCEPT ![c] = Reaped(c)]
        /\ UNCHANGED <<pipe, timer>>
     \/ /\ ~ failed /\ pipe[c] # << >>
        /\ rv' = [rv EXCEPT ![c] = Reaped(c)]
        /\ pipe' = [pipe EXCEPT ![c] = Tail(@)]
        /\ \/ kind = "E" /\ timer' = [timer EXCEPT ![c] = "off"] /\ pc' = "next"
           \/ kind = "R" /\ timer' = [timer EXCEPT ![c] = "on"] /\ pc' = "next"
           \/ kind = "D" /\ pc' = "read" /\ UNCHANGED timer
  /\ UNCHANGED <<tests, at, process, limit, handling, events, done, result, tries>>

(* The result follows; the end of the socket instead fails an assertion.    *)
ReadResult ==
  LET c == handling
  IN
  /\ pc = "read"
  /\ \/ /\ pipe[c] # << >>
        /\ pipe' = [pipe EXCEPT ![c] = Tail(@)]
        /\ result' = result \cup {c} /\ pc' = "wait"
     \/ /\ pipe[c] = << >> /\ process[c] # "alive"
        /\ pc' = "assert" /\ UNCHANGED <<pipe, result>>
  /\ UNCHANGED <<tests, at, process, limit, handling, events, done, rv, timer, tries>>

\* Faulty: the exit status is not looked at.
WaitExitedBlind ==
  LET c == handling
  IN
  /\ pc = "wait" /\ Reaped(c) # "running"
  /\ rv' = [rv EXCEPT ![c] = Reaped(c)]
  /\ pc' = "next" /\ done' = done \cup {c}
  /\ UNCHANGED <<tests, at, process, pipe, limit, handling, events, timer, result, tries>>

WaitExited ==
  LET c == handling
  IN
  /\ pc = "wait" /\ Reaped(c) # "running"
  /\ rv' = [rv EXCEPT ![c] = Reaped(c)]
  /\ \/ /\ Reaped(c) = "success" /\ pc' = "next" /\ done' = done \cup {c}
     \/ /\ Reaped(c) = "crash" /\ pc' = "failed" /\ UNCHANGED done
  /\ UNCHANGED <<tests, at, process, pipe, limit, handling, events, timer, result, tries>>

(* UnknownTestFailure: a racer is done, a test is tried again with a new    *)
(* TestResult or ends the program.                                          *)
Failed ==
  LET c == handling
      race == tests = Children
      next == IF race THEN "next" ELSE IF tries > 0 THEN "begin" ELSE "exit"
  IN
  /\ pc = "failed" /\ pc' = next
  /\ done' = IF race THEN done \cup {c} ELSE done
  /\ result' = IF race THEN result ELSE {}
  /\ tries' = IF next = "begin" THEN tries - 1 ELSE tries
  /\ UNCHANGED <<tests, at, process, pipe, limit, handling, events, rv, timer>>

Parent == Begin \/ Poll \/ PollReturns \/ Kill \/ NextEvent \/ Cookie \/ ReadResult \/ WaitExited \/ Failed
Child(c) == Start(c) \/ Load(c) \/ Compute(c) \/ Computed(c) \/ Done(c) \/ Report(c) \/ Exit(c)

Next == Parent \/ \E c \in Children : Child(c) \/ Crash(c) \/ Hang(c) \/ Tick(c)

(* The parent and a child that neither hangs nor dies go on; time passes.   *)
Spec == /\ Init /\ [][Next]_vars
        /\ WF_vars(Parent)
        /\ \A c \in Children : WF_vars(Child(c)) /\ WF_vars(Tick(c))

-----------------------------------------------------------------------------
(* When the parent goes on, no child of the test runs any more, and each    *)
(* has been waited for: none is left as a zombie or slows the next test.    *)
NoChildLeft ==
  pc \in {"begin", "over", "exit"} =>
    \A c \in tests : process[c] # "alive" /\ (process[c] \in Statuses => rv[c] = process[c])

(* A test has a time only if its child computed to the end and said so; a   *)
(* test that is not a race, only if the child then also exited as it should.*)
MeasuredRanToTheEnd ==
  pc = "over" => \A c \in result : at[c] = "exit" /\ (tests = {First} => rv[c] = "success")

(* The poll of recvResult that was given what is left of a passed deadline: *)
(* nothing bounds it.                                                       *)
WaitsWithoutEnd == tests = {First} /\ pc = "polling" /\ limit = "none" /\ timer[First] = "passed"

(* The parent's assertion fails where a child died just before its result.  *)
ResultIsLost == pc = "assert" /\ process[handling] = "crash" /\ at[handling] = "report"

(* A test ends, whether its children answer, die or compute forever, but for*)
(* two ways out: the deadline of a single test passed before recvResult was *)
(* back in poll, or a child died between its last cookie and its result.    *)
(* A race has only the second.                                              *)
TestEnds == <>(pc \in {"over", "exit"} \/ WaitsWithoutEnd \/ ResultIsLost)
=============================================================================

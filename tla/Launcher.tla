------------------------------ MODULE Launcher ------------------------------
(***************************************************************************)
(* The main thread of a load test: Kick2::LaunchHlsLoad and LaunchHttpLoad    *)
(* (kick2.cpp:37-128), and the static counter HlsTask::Concurrency that the    *)
(* constructor and the destructor of a task keep (hls_handler.cpp:14-28).      *)
(*                                                                           *)
(* main creates tasks and hands each to an engine thread, which it chooses by  *)
(* the counter.  An HLS task is deleted by its engine thread when its stream    *)
(* ends (HlsTask), so main and the engine threads both write the counter, and  *)
(* nothing makes ++ or -- atomic.                                             *)
(***************************************************************************)
EXTENDS Integers, FiniteSets, FiniteSetsExt

CONSTANTS
  Configs,      \* settings: [hls, threadNum, concurrency, isDebug]
  Wrap,         \* the counter counts modulo Wrap (2^64)
  MaxLaunches,  \* bound: tasks an HTTP test launches
  MaxEnds       \* bound: tasks that end

\* -D sets the concurrency to 1, before or after -c (main.cpp:69-72, 104-107), and
\* kick2.cpp:40, 89 assert that there is a thread.  The concurrency is a uint64_t, as
\* the counter is; a thread's share is taken to be below 2^32, so that the uint32_t
\* load of line 59 is the quotient.
ASSUME ConstantsAssumption ==
  /\ \A f \in Configs :
       /\ f.hls \in BOOLEAN /\ f.isDebug \in BOOLEAN
       /\ f.threadNum \in Nat \ {0} /\ f.concurrency \in 0 .. (Wrap - 1)
       /\ f.isDebug => f.concurrency = 1
  /\ Wrap \in Nat \ {0, 1}
  /\ MaxLaunches \in Nat /\ MaxEnds \in Nat

VARIABLES
  config,    \* m_config
  counter,   \* HlsTask::Concurrency
  pc,        \* where main is
  index,     \* the thread main has chosen
  launched,  \* tasks ever launched on each thread
  live,      \* tasks each thread runs
  dying,     \* threads in the middle of --, and the value they have read
  ended,     \* how many tasks have ended
  raced      \* history: a store of the counter undid another thread's

vars == <<config, counter, pc, index, launched, live, dying, ended, raced>>

ThreadsOf == 0 .. (config.threadNum - 1)
load == config.concurrency \div config.threadNum
NotDying == -1

Count(f) == MapThenSumSet(LAMBDA t : f[t], ThreadsOf)

Init ==
  /\ config \in Configs
  /\ counter = 0
  /\ pc = [at |-> "loop"]
  /\ index = 0
  /\ launched = [t \in ThreadsOf |-> 0]
  /\ live = [t \in ThreadsOf |-> 0]
  /\ dying = [t \in ThreadsOf |-> NotDying]
  /\ ended = 0
  /\ raced = FALSE
-----------------------------------------------------------------------------
(* main *)

\* Mutants: one task too many, or launching goes on when all tasks run.
LoopWhile(goesOn, after) ==
  /\ pc.at = "loop"
  /\ pc' = [at |-> IF goesOn THEN "choose" ELSE after]
  /\ UNCHANGED <<config, counter, index, launched, live, dying, ended, raced>>
LoopOneMore ==
  LoopWhile(config.hls => (config.concurrency > 0 /\ config.concurrency >= counter), "wait")
LoopForEver ==
  LoopWhile(config.hls => (config.concurrency > 0 /\ config.concurrency > counter), "loop")

\* The condition of the loop (kick2.cpp:61; the HTTP loop has none, line 108).
Loop ==
  /\ pc.at = "loop"
  /\ IF config.hls => (config.concurrency > 0 /\ config.concurrency > counter)
     THEN pc' = [at |-> "choose"]
     ELSE pc' = [at |-> "wait"]
  /\ UNCHANGED <<config, counter, index, launched, live, dying, ended, raced>>

\* The thread of the next task (lines 64, 111).  HttpTask does not count in
\* HlsTask::Concurrency.  A load of 0 is a division by zero.
Choose ==
  /\ pc.at = "choose"
  /\ IF load = 0
     THEN pc' = [at |-> "crashed"] /\ UNCHANGED index
     ELSE /\ index' = (counter \div load) % config.threadNum
          /\ pc' = [at |-> IF config.hls THEN "count" ELSE "launch"]
  /\ UNCHANGED <<config, counter, launched, live, dying, ended, raced>>

\* The counter becomes n, computed from the value read.
Store(read, n) ==
  /\ counter' = n % Wrap
  /\ raced' = (raced \/ counter # read)

\* ++Concurrency in the constructor (hls_handler.cpp:22): a read and a write.
CountTask ==
  /\ \/ /\ pc.at = "count"
        /\ pc' = [at |-> "store", read |-> counter]
        /\ UNCHANGED <<counter, raced>>
     \/ /\ pc.at = "store"
        /\ Store(pc.read, pc.read + 1)
        /\ pc' = [at |-> "launch"]
  /\ UNCHANGED <<config, index, launched, live, dying, ended>>

\* Launch, and the end of a debug run (lines 70-72, 115-117).
Launch ==
  /\ pc.at = "launch"
  /\ config.hls \/ Count(launched) < MaxLaunches
  /\ launched' = [launched EXCEPT ![index] = @ + 1]
  /\ live' = [live EXCEPT ![index] = @ + 1]
  /\ pc' = [at |-> IF config.isDebug THEN "wait" ELSE "loop"]
  /\ UNCHANGED <<config, counter, index, dying, ended, raced>>
-----------------------------------------------------------------------------
(* Engine threads *)

\* Mutant: the destructor does not count.
TaskEndsUncounted(t) ==
  /\ config.hls /\ live[t] > 0 /\ ended < MaxEnds
  /\ live' = [live EXCEPT ![t] = @ - 1]
  /\ ended' = ended + 1
  /\ UNCHANGED <<config, counter, pc, index, launched, dying, raced>>

\* OnTaskComplete deletes the task: --Concurrency (hls_handler.cpp:25-28, 243-248).
TaskEnds(t) ==
  /\ config.hls
  /\ \/ /\ dying[t] = NotDying /\ live[t] > 0 /\ ended < MaxEnds
        /\ live' = [live EXCEPT ![t] = @ - 1]
        /\ dying' = [dying EXCEPT ![t] = counter]
        /\ ended' = ended + 1
        /\ UNCHANGED <<counter, raced>>
     \/ /\ dying[t] # NotDying
        /\ Store(dying[t], dying[t] - 1)
        /\ dying' = [dying EXCEPT ![t] = NotDying]
        /\ UNCHANGED <<live, ended>>
  /\ UNCHANGED <<config, pc, index, launched>>

Main == Loop \/ Choose \/ CountTask \/ Launch
Next == Main \/ \E t \in ThreadsOf : TaskEnds(t)

Spec == Init /\ [][Next]_vars /\ WF_vars(Main)
-----------------------------------------------------------------------------
\* Every variable has its type.
TypeOK ==
  /\ config \in Configs
  /\ counter \in 0 .. (Wrap - 1)
  /\ pc.at \in {"loop", "choose", "count", "store", "launch", "wait", "crashed"}
  /\ index \in ThreadsOf
  /\ launched \in [ThreadsOf -> Nat]
  /\ live \in [ThreadsOf -> Nat]
  /\ dying \in [ThreadsOf -> Int]
  /\ ended \in Nat
  /\ raced \in BOOLEAN

\* Until tasks end no thread has more than twice its share, though the division of
\* kick2.cpp:59 leaves a rest.
FairShares ==
  (config.hls /\ ended = 0) => \A t \in ThreadsOf : launched[t] <= 2 * load

\* An HLS test never runs more tasks than asked for, in all or, but for the rest of a
\* division, on a thread, while tasks end and others are launched.  If main and an
\* engine thread have undone each other's count (kick2.cpp:61-79, hls_handler.cpp:22,
\* 27), each task that ends can make main launch as many again, but no more.
NotTooMany ==
  /\ TypeOK
  /\ config.hls => Count(live) <= config.concurrency * (IF raced THEN ended + 1 ELSE 1)
  /\ FairShares

\* Launching is over only when as many tasks run as were asked for, those on their
\* way out and a debug run included (lines 61, 71-72), unless counts were undone.
StopsWhenFull ==
  [][(config.hls /\ ~raced /\ pc.at # "wait" /\ pc'.at = "wait") =>
       Count(live') + Cardinality({t \in ThreadsOf : dying'[t] # NotDying})
         >= config.concurrency]_vars

\* Launching an HLS test with at least as many tasks as threads, or with none, comes to
\* an end and main waits for its threads, when tasks do not end all the time, whatever
\* counts are undone (kick2.cpp:61, 81-84).  With fewer tasks than threads, and at least
\* one, line 64 divides by zero and the program is killed: of that nothing is claimed.
LaunchingEnds ==
  (config.hls /\ (load > 0 \/ config.concurrency = 0)) => <>(pc.at = "wait")
=============================================================================

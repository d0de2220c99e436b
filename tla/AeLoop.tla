------------------------------- MODULE AeLoop -------------------------------
(***************************************************************************)
(* One event loop thread of kick2: aeMain calling aeProcessEvents for ever   *)
(* (reference/ae.c), with the timers that AeEngine::AddTimerEvent arms.      *)
(*                                                                           *)
(* A round is: search the nearest timer and sleep in epoll_wait until it or  *)
(* a file descriptor is ready, run the file callbacks, then walk the list of *)
(* timers and run the callbacks of those that are due.  The model has one    *)
(* action per step of that round at which the clock is read or a callback    *)
(* runs, so that time may pass, or the clock be set, between any two.        *)
(*                                                                           *)
(* A moment is the pair of longs the code keeps (when_sec, when_ms), and is   *)
(* compared and subtracted field by field, as the code does.  A second has    *)
(* Sec milliseconds.  aeCreateTimeEvent puts a timer at the head of the list  *)
(* and numbers it one more than the last, so the list is ordered by falling   *)
(* number: it is modelled as a function from numbers to moments, and the next *)
(* element of the list is the next smaller number.  Every callback of the      *)
(* program returns AE_NOMORE, so a timer that has fired is always deleted.     *)
(***************************************************************************)
EXTENDS Integers

CONSTANTS
  Sec,        \* milliseconds in a second
  Delays,     \* delays callbacks ask for, as pairs (delay / 1000, delay % 1000)
  MaxSec,     \* bound: the last second of the clock, which starts at second 1
  MaxTimers,  \* bound: timers armed in a behaviour
  MaxJumps    \* bound: how often the clock is set

NIL == -1     \* the end of the list of timers

\* C division rounds to zero, so both parts of a delay have its sign.
ASSUME ConstantsAssumption ==
  /\ Sec \in Nat /\ Sec > 0
  /\ MaxSec \in Nat /\ MaxSec > 0
  /\ MaxTimers \in Nat
  /\ MaxJumps \in Nat
  /\ Delays \subseteq [sec : Int, ms : (1 - Sec) .. (Sec - 1)]

VARIABLES
  now,        \* the system clock
  lastTime,   \* eventLoop->lastTime, in seconds
  nextId,     \* eventLoop->timeEventNextId
  timers,     \* the list at eventLoop->timeEventHead: number -> moment
  pc,         \* where in a round the thread is
  wait,       \* milliseconds left of the sleep in epoll_wait, Forever if no timer
  te,         \* the timer the walk has reached
  maxId,      \* the largest number the walk may fire
  jumps,      \* how often the clock has been set
  setBack,    \* history: the clock was set back since the last walk began
  dueAtWake   \* history: the timers that were due when epoll_wait returned

vars == <<now, lastTime, nextId, timers, pc, wait, te, maxId, jumps, setBack,
          dueAtWake>>

Forever == -1
Clock == [sec : 1 .. MaxSec, ms : 0 .. (Sec - 1)]
Pending == DOMAIN timers

Init ==
  /\ now = [sec |-> 1, ms |-> 0]
  /\ lastTime = now.sec
  /\ nextId = 0
  /\ timers = [i \in {} |-> now]
  /\ pc = "poll"
  /\ wait = 0
  /\ te = NIL
  /\ maxId = -1
  /\ jumps = 0
  /\ setBack = FALSE
  /\ dueAtWake = {}
-----------------------------------------------------------------------------
Before(s, t) == s.sec < t.sec \/ (s.sec = t.sec /\ s.ms < t.ms)

\* Mutant: the milliseconds are not compared.
DueBySecond(w, t) == t.sec >= w.sec

\* The test of processTimeEvents: the clock t has reached moment w.
Due(w, t) == t.sec > w.sec \/ (t.sec = w.sec /\ t.ms >= w.ms)

\* Mutant: the carry is forgotten.
AddMillisecondsUncarried(d) == [sec |-> now.sec + d.sec, ms |-> now.ms + d.ms]

\* aeAddMillisecondsToNow: one carry, and no borrow for a negative delay.
AddMillisecondsToNow(d) ==
  LET ms == now.ms + d.ms
  IN  IF ms >= Sec THEN [sec |-> now.sec + d.sec + 1, ms |-> ms - Sec]
                   ELSE [sec |-> now.sec + d.sec, ms |-> ms]

\* The timers aeSearchNearestTimer may return.
SearchNearestTimer ==
  {i \in Pending : \A j \in Pending : ~Before(timers[j], timers[i])}

AtLeastZero(n) == IF n < 0 THEN 0 ELSE n

\* Mutant: the second borrowed for the milliseconds is not taken off.
TimeoutUnborrowed(w) ==
  AtLeastZero(w.sec - now.sec) * Sec
    + AtLeastZero(w.ms - now.ms + (IF w.ms < now.ms THEN Sec ELSE 0))

\* The timeout of aeProcessEvents: seconds and milliseconds are clamped apart.
Timeout(w) ==
  LET borrow == w.ms < now.ms
      sec    == w.sec - now.sec - (IF borrow THEN 1 ELSE 0)
      ms     == w.ms - now.ms + (IF borrow THEN Sec ELSE 0)
  IN  AtLeastZero(sec) * Sec + AtLeastZero(ms)

\* The head of list T (a set of numbers), as a set with one element at most.
Head(T) == {m \in T : \A i \in T : i <= m}

\* Point the walk at the head of list T.
WalkFrom(T) == \/ T = {} /\ te' = NIL
               \/ te' \in Head(T)

\* aeCreateTimeEvent, on the list f.
WithNewTimer(f, d) ==
  [i \in DOMAIN f \cup {nextId} |->
     IF i = nextId THEN AddMillisecondsToNow(d) ELSE f[i]]

\* Second 0 is 1970: no callback asks for a moment before it.
CanArm(d) == nextId < MaxTimers /\ AddMillisecondsToNow(d).sec \in 0 .. MaxSec

Without(f, i) == [j \in DOMAIN f \ {i} |-> f[j]]
-----------------------------------------------------------------------------
(* aeProcessEvents *)

\* Plan the sleep (lines 336-368) and enter epoll_wait.
StartPoll ==
  /\ pc = "poll"
  /\ \/ Pending = {} /\ wait' = Forever
     \/ \E i \in SearchNearestTimer : wait' = Timeout(timers[i])
  /\ pc' = "waiting"
  /\ UNCHANGED <<now, lastTime, nextId, timers, te, maxId, jumps, setBack,
                 dueAtWake>>

Wake(next) ==
  /\ pc = "waiting"
  /\ pc' = next
  /\ wait' = 0
  /\ dueAtWake' = {i \in Pending : Due(timers[i], now)}
  /\ UNCHANGED <<now, lastTime, nextId, timers, te, maxId, jumps, setBack>>

FileReady == Wake("files")

TimedOut == wait = 0 /\ Wake("time")

\* A file callback that arms a timer.  The others change nothing here.
FileEvent ==
  /\ pc = "files"
  /\ \E d \in Delays :
       /\ CanArm(d)
       /\ timers' = WithNewTimer(timers, d)
  /\ nextId' = nextId + 1
  /\ UNCHANGED <<now, lastTime, pc, wait, te, maxId, jumps, setBack,
                 dueAtWake>>

FilesDone ==
  /\ pc = "files"
  /\ pc' = "time"
  /\ UNCHANGED <<now, lastTime, nextId, timers, wait, te, maxId, jumps,
                 setBack, dueAtWake>>
-----------------------------------------------------------------------------
(* processTimeEvents *)

\* Mutants: the walk leaves out the newest timer, or keeps the maxId of the walk
\* before.
BeginTimeEventsUpTo(max) ==
  /\ pc = "time"
  /\ timers' = IF now.sec < lastTime
               THEN [i \in Pending |-> [timers[i] EXCEPT !.sec = 0]]
               ELSE timers
  /\ lastTime' = now.sec
  /\ WalkFrom(Pending)
  /\ maxId' = max
  /\ pc' = "scan"
  /\ setBack' = FALSE
  /\ UNCHANGED <<now, nextId, wait, jumps, dueAtWake>>
BeginTimeEventsOffByOne == BeginTimeEventsUpTo(IF nextId = 0 THEN -1 ELSE nextId - 2)
BeginTimeEventsStale == BeginTimeEventsUpTo(maxId)

\* Lines 245-265.  A clock behind lastTime makes every pending timer due.
BeginTimeEvents ==
  /\ pc = "time"
  /\ timers' = IF now.sec < lastTime
               THEN [i \in Pending |-> [timers[i] EXCEPT !.sec = 0]]
               ELSE timers
  /\ lastTime' = now.sec
  /\ WalkFrom(Pending)
  /\ maxId' = nextId - 1
  /\ pc' = "scan"
  /\ setBack' = FALSE
  /\ UNCHANGED <<now, nextId, wait, jumps, dueAtWake>>

\* te = te->next, for a timer a callback of this walk armed (lines 270-273)
\* and for one that is not due (line 299).
Advance ==
  /\ pc = "scan"
  /\ te # NIL
  /\ te > maxId \/ ~Due(timers[te], now)
  /\ WalkFrom({i \in Pending : i < te})
  /\ UNCHANGED <<now, lastTime, nextId, timers, pc, wait, maxId, jumps,
                 setBack, dueAtWake>>

\* Mutant: maxId is not looked at.
FireNewOnes ==
  /\ pc = "scan" /\ te # NIL /\ Due(timers[te], now)
  /\ \/ timers' = Without(timers, te) /\ UNCHANGED nextId
     \/ \E d \in Delays :
          /\ CanArm(d)
          /\ timers' = Without(WithNewTimer(timers, d), te)
          /\ nextId' = nextId + 1
  /\ WalkFrom(DOMAIN timers')
  /\ UNCHANGED <<now, lastTime, pc, wait, maxId, jumps, setBack, dueAtWake>>

\* The callback runs, arms one timer or none, and the walk starts again.
Fire ==
  /\ pc = "scan"
  /\ te # NIL
  /\ te <= maxId
  /\ Due(timers[te], now)
  /\ \/ timers' = Without(timers, te) /\ UNCHANGED nextId
     \/ \E d \in Delays :
          /\ CanArm(d)
          /\ timers' = Without(WithNewTimer(timers, d), te)
          /\ nextId' = nextId + 1
  /\ WalkFrom(DOMAIN timers')
  /\ UNCHANGED <<now, lastTime, pc, wait, maxId, jumps, setBack, dueAtWake>>

EndTimeEvents ==
  /\ pc = "scan"
  /\ te = NIL
  /\ pc' = "poll"
  /\ UNCHANGED <<now, lastTime, nextId, timers, wait, te, maxId, jumps,
                 setBack, dueAtWake>>
-----------------------------------------------------------------------------
(* The clock *)

\* A millisecond passes.  The clock stops at its bound, a sleep goes on.
Tick ==
  /\ now' = IF now.ms < Sec - 1 THEN [now EXCEPT !.ms = @ + 1]
            ELSE IF now.sec < MaxSec THEN [sec |-> now.sec + 1, ms |-> 0]
            ELSE now
  /\ wait' = IF wait > 0 THEN wait - 1 ELSE wait
  /\ UNCHANGED <<lastTime, nextId, timers, pc, te, maxId, jumps, setBack,
                 dueAtWake>>

\* Somebody sets the clock.  epoll_wait does not measure its sleep with it.
SetClock ==
  /\ jumps < MaxJumps
  /\ jumps' = jumps + 1
  /\ now' \in Clock
  /\ setBack' = (setBack \/ Before(now', now))
  /\ dueAtWake' = IF Before(now', now) THEN {} ELSE dueAtWake
  /\ UNCHANGED <<lastTime, nextId, timers, pc, wait, te, maxId>>

Step == \/ StartPoll \/ FilesDone \/ TimedOut
        \/ BeginTimeEvents \/ Advance \/ Fire \/ EndTimeEvents

Next == Step \/ FileReady \/ FileEvent \/ Tick \/ SetClock

\* The thread is scheduled and time passes.  Nobody promises any I/O.
Fairness == WF_vars(Step) /\ WF_vars(Tick)

Spec == Init /\ [][Next]_vars /\ Fairness
-----------------------------------------------------------------------------
(* What makes the loop correct *)

\* Every variable has its type, and every timer a number already given out.
TypeOK ==
  /\ now \in Clock
  /\ lastTime \in 1 .. MaxSec
  /\ nextId \in 0 .. MaxTimers
  /\ Pending \subseteq 0 .. (nextId - 1)
  /\ timers \in [Pending -> [sec : 0 .. MaxSec, ms : (1 - Sec) .. (Sec - 1)]]
  /\ pc \in {"poll", "waiting", "files", "time", "scan"}
  /\ wait \in {Forever} \cup Nat
  /\ te \in Pending \cup {NIL}
  /\ maxId \in -1 .. (nextId - 1)
  /\ jumps \in 0 .. MaxJumps
  /\ setBack \in BOOLEAN
  /\ dueAtWake \subseteq 0 .. (nextId - 1)

\* The walk restarts at each callback and the callbacks change the list, and
\* still no timer that was due when epoll_wait returned is left when the next
\* round starts, unless the clock was set back meanwhile.
PassComplete == pc = "poll" => dueAtWake \cap Pending = {}

\* "we make sure to don't process events registered by event handlers itself"
\* (ae.c:285-287): a timer a callback armed is never fired by the same walk,
\* however short its delay, so a callback that arms timers cannot keep the
\* loop from its file descriptors.
NewTimersWait == pc = "scan" => (maxId + 1) .. (nextId - 1) \subseteq Pending

Millis(t) == t.sec * Sec + t.ms
MaxOf(a, b) == IF a > b THEN a ELSE b

\* However the seconds and milliseconds borrow from each other, and however
\* late or early the clock is, a planned sleep runs past no pending timer by a
\* second or more.
OversleepBounded ==
  [][ pc = "poll" /\ pc' = "waiting" =>
        \A i \in Pending :
          wait' < MaxOf(0, Millis(timers[i]) - Millis(now)) + Sec ]_vars

\* Every timer fires in the end, whatever the clock is set to and whatever timers
\* the callbacks go on arming (aeProcessEvents, processTimeEvents).
EventuallyFires ==
  \A i \in 0 .. (MaxTimers - 1) : i \in Pending ~> i \notin Pending

Service == INSTANCE TimerService WITH
  clock <- Millis(now),
  issued <- nextId,
  deadline <- [i \in Pending |-> Millis(timers[i])]

\* The loop is a timer service: no timer fires early, or twice, or changes its
\* moment, unless the clock was set back.
ImplementsTimerService == Service!Spec
=============================================================================

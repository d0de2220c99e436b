---------------------------- MODULE AeLoopProofs ----------------------------
(* Theorems about the event loop, for every value of the constants. *)
EXTENDS AeLoop, TLAPS

Moment == [sec : 0 .. MaxSec, ms : (1 - Sec) .. (Sec - 1)]

LEMMA AddKeepsType ==
  ASSUME TypeOK, NEW d \in Delays, CanArm(d)
  PROVE  AddMillisecondsToNow(d) \in Moment
<1> USE ConstantsAssumption
<1>1. now.sec \in Int /\ now.ms \in 0 .. (Sec - 1)
  BY DEF TypeOK, Clock
<1>2. d.sec \in Int /\ d.ms \in (1 - Sec) .. (Sec - 1)
  OBVIOUS
<1>3. AddMillisecondsToNow(d).ms \in (1 - Sec) .. (Sec - 1)
  BY <1>1, <1>2 DEF AddMillisecondsToNow
<1>4. AddMillisecondsToNow(d) =
        [sec |-> AddMillisecondsToNow(d).sec, ms |-> AddMillisecondsToNow(d).ms]
  BY DEF AddMillisecondsToNow
<1> QED BY <1>3, <1>4 DEF CanArm, Moment

LEMMA IntervalGrows ==
  ASSUME NEW c \in Int, NEW a \in Int, NEW b \in Int, a <= b
  PROVE  c .. (a - 1) \subseteq c .. (b - 1)
<1> SUFFICES ASSUME NEW i \in c .. (a - 1) PROVE i \in c .. (b - 1)
  OBVIOUS
<1> QED OBVIOUS

LEMMA MulMonotone ==
  ASSUME NEW a \in Int, NEW b \in Int, a < b
  PROVE  a * Sec + Sec <= b * Sec
<1>1. PICK k \in Nat : b = a + 1 + k
  <2>1. b - a - 1 \in Nat /\ b = a + 1 + (b - a - 1)
    OBVIOUS
  <2> QED BY <2>1
<1>2. b * Sec = a * Sec + Sec + k * Sec
  BY <1>1, ConstantsAssumption
<1>3. k * Sec \in Nat
  BY <1>1, ConstantsAssumption
<1>4. a * Sec \in Int
  BY ConstantsAssumption
<1> QED BY <1>2, <1>3, <1>4, ConstantsAssumption
-----------------------------------------------------------------------------
\* What a callback that arms a timer does to the list.
LEMMA NewTimerFacts ==
  ASSUME TypeOK, NEW d \in Delays, CanArm(d)
  PROVE  /\ DOMAIN WithNewTimer(timers, d) = Pending \cup {nextId}
         /\ WithNewTimer(timers, d) \in [Pending \cup {nextId} -> Moment]
         /\ nextId \notin Pending
         /\ \A i \in Pending : WithNewTimer(timers, d)[i] = timers[i]
         /\ nextId \in Nat /\ nextId + 1 \in 0 .. MaxTimers
<1>1. AddMillisecondsToNow(d) \in Moment
  BY AddKeepsType
<1>2. nextId \in Nat /\ nextId \notin Pending
  BY ConstantsAssumption DEF TypeOK
<1>3. timers \in [Pending -> Moment]
  BY DEF TypeOK, Moment
<1>4. nextId + 1 \in 0 .. MaxTimers
  BY ConstantsAssumption DEF TypeOK, CanArm
<1> QED BY <1>1, <1>2, <1>3, <1>4 DEF WithNewTimer, Pending

LEMMA WithoutFacts ==
  ASSUME NEW S, NEW f \in [S -> Moment], NEW i
  PROVE  /\ DOMAIN Without(f, i) = S \ {i}
         /\ Without(f, i) \in [S \ {i} -> Moment]
         /\ \A j \in S \ {i} : Without(f, i)[j] = f[j]
BY DEF Without

LEMMA WalkFromFacts ==
  ASSUME NEW T, WalkFrom(T)
  PROVE  te' \in T \cup {NIL} /\ (T # {} => te' \in T /\ \A i \in T : i <= te')
BY DEF WalkFrom, Head

\* What bringing every timer forward does to the list.
LEMMA HastenFacts ==
  ASSUME TypeOK
  PROVE  LET f == [i \in Pending |-> [timers[i] EXCEPT !.sec = 0]]
         IN  f \in [Pending -> Moment] /\ \A i \in Pending : f[i].sec = 0 /\ f[i].ms = timers[i].ms
BY ConstantsAssumption DEF TypeOK, Moment

LEMMA TypeInit == Init => TypeOK
<1> SUFFICES ASSUME Init PROVE TypeOK
  OBVIOUS
<1>1. Pending = {} /\ timers \in [{} -> Moment]
  BY DEF Init, Pending
<1>2. now \in Clock /\ lastTime \in 1 .. MaxSec
  BY ConstantsAssumption DEF Init, Clock
<1>3. wait \in {Forever} \cup Nat /\ te \in Pending \cup {NIL}
  BY DEF Init
<1>4. nextId = 0 /\ maxId = -1 /\ jumps = 0 /\ dueAtWake = {}
  BY DEF Init
<1>5. timers \in [Pending -> [sec : 0 .. MaxSec, ms : (1 - Sec) .. (Sec - 1)]]
  BY <1>1 DEF Moment
<1>6. /\ nextId \in 0 .. MaxTimers /\ jumps \in 0 .. MaxJumps
      /\ maxId \in -1 .. (nextId - 1) /\ dueAtWake \subseteq 0 .. (nextId - 1)
      /\ Pending \subseteq 0 .. (nextId - 1)
  BY <1>1, <1>4, ConstantsAssumption
<1>7. pc = "poll" /\ setBack = FALSE
  BY DEF Init
<1> QED BY <1>2, <1>3, <1>5, <1>6, <1>7 DEF TypeOK

LEMMA TypeStep == TypeOK /\ [Next]_vars => TypeOK'
<1> SUFFICES ASSUME TypeOK, [Next]_vars PROVE TypeOK'
  OBVIOUS
<1> USE ConstantsAssumption
<1>a. nextId \in Nat
  BY DEF TypeOK
<1>1. CASE StartPoll
  <2>1. wait' \in {Forever} \cup Nat
    <3>1. CASE wait' = Forever
      BY <3>1
    <3>2. ASSUME NEW i \in SearchNearestTimer, wait' = Timeout(timers[i])
          PROVE  wait' \in Nat
      <4>1. /\ timers[i].sec \in Int /\ timers[i].ms \in Int
            /\ now.sec \in Int /\ now.ms \in Int
        BY DEF TypeOK, Clock, SearchNearestTimer
      <4>2. \A n \in Int : AtLeastZero(n) \in Nat
        BY DEF AtLeastZero
      <4> DEFINE borrow == timers[i].ms < now.ms
                 sec == timers[i].sec - now.sec - (IF borrow THEN 1 ELSE 0)
                 ms == timers[i].ms - now.ms + (IF borrow THEN Sec ELSE 0)
      <4>3. sec \in Int /\ ms \in Int
        BY <4>1
      <4>4. AtLeastZero(sec) \in Nat /\ AtLeastZero(ms) \in Nat
        BY <4>2, <4>3
      <4>5. Timeout(timers[i]) = AtLeastZero(sec) * Sec + AtLeastZero(ms)
        BY DEF Timeout
      <4> HIDE DEF sec, ms
      <4>6. AtLeastZero(sec) * Sec \in Nat
        BY <4>4
      <4> QED BY <3>2, <4>4, <4>5, <4>6
    <3> QED BY <1>1, <3>1, <3>2 DEF StartPoll
  <2> QED BY <1>1, <2>1 DEF StartPoll, TypeOK, Pending
<1>2. CASE FileReady
  BY <1>2 DEF FileReady, Wake, TypeOK, Pending
<1>3. CASE TimedOut
  BY <1>3 DEF TimedOut, Wake, TypeOK, Pending
<1>4. CASE FileEvent
  <2>1. PICK d \in Delays : CanArm(d) /\ timers' = WithNewTimer(timers, d)
    BY <1>4 DEF FileEvent
  <2>2. timers' \in [Pending' -> Moment] /\ Pending' = Pending \cup {nextId}
    BY <2>1, NewTimerFacts DEF Pending
  <2>3. nextId' = nextId + 1 /\ nextId' \in 0 .. MaxTimers
    BY <1>4, <2>1, NewTimerFacts DEF FileEvent
  <2>4. Pending' \subseteq 0 .. (nextId' - 1)
    BY <1>a, <2>2, <2>3 DEF TypeOK
  <2> QED BY <1>a, <1>4, <2>2, <2>3, <2>4 DEF FileEvent, TypeOK, Moment
<1>5. CASE FilesDone
  BY <1>5 DEF FilesDone, TypeOK, Pending
<1>6. CASE BeginTimeEvents
  <2>1. timers' \in [Pending -> Moment]
    BY <1>6, HastenFacts DEF BeginTimeEvents, TypeOK, Moment
  <2>2. Pending' = Pending
    BY <2>1 DEF Pending
  <2>3. te' \in Pending' \cup {NIL}
    BY <1>6, <2>2, WalkFromFacts DEF BeginTimeEvents
  <2>4. maxId' \in -1 .. (nextId' - 1) /\ lastTime' \in 1 .. MaxSec
    BY <1>6, <1>a DEF BeginTimeEvents, TypeOK, Clock
  <2> QED BY <1>6, <2>1, <2>2, <2>3, <2>4 DEF BeginTimeEvents, TypeOK, Moment
<1>7. CASE Advance
  <2>1. te' \in Pending' \cup {NIL}
    BY <1>7, WalkFromFacts DEF Advance, Pending
  <2> QED BY <1>7, <2>1 DEF Advance, TypeOK, Pending
<1>8. CASE Fire
  <2>1. /\ timers' \in [Pending' -> Moment]
        /\ nextId' \in 0 .. MaxTimers
        /\ nextId' >= nextId
        /\ Pending' \subseteq 0 .. (nextId' - 1)
    <3>1. CASE timers' = Without(timers, te) /\ UNCHANGED nextId
      <4>1. timers \in [Pending -> Moment]
        BY DEF TypeOK, Moment
      <4>2. timers' \in [Pending \ {te} -> Moment] /\ Pending' = Pending \ {te}
        BY <3>1, <4>1, WithoutFacts DEF Pending
      <4> QED BY <1>a, <3>1, <4>2 DEF TypeOK
    <3>2. ASSUME NEW d \in Delays, CanArm(d),
                 timers' = Without(WithNewTimer(timers, d), te),
                 nextId' = nextId + 1
          PROVE  <2>1!1 /\ <2>1!2 /\ <2>1!3 /\ <2>1!4
      <4>1. timers' \in [(Pending \cup {nextId}) \ {te} -> Moment]
            /\ Pending' = (Pending \cup {nextId}) \ {te}
        BY <3>2, NewTimerFacts, WithoutFacts DEF Pending
      <4>2. nextId' \in 0 .. MaxTimers
        BY <3>2, NewTimerFacts
      <4> QED BY <1>a, <3>2, <4>1, <4>2 DEF TypeOK
    <3> QED BY <1>8, <3>1, <3>2 DEF Fire
  <2>2. te' \in Pending' \cup {NIL}
    BY <1>8, WalkFromFacts DEF Fire, Pending
  <2>3. /\ maxId' \in -1 .. (nextId' - 1)
        /\ dueAtWake' \subseteq 0 .. (nextId' - 1)
    <3>1. nextId' \in Int /\ nextId' >= nextId
      BY <2>1
    <3>2. maxId' = maxId /\ dueAtWake' = dueAtWake
      BY <1>8 DEF Fire
    <3>3. maxId \in -1 .. (nextId - 1) /\ dueAtWake \subseteq 0 .. (nextId - 1)
      BY DEF TypeOK
    <3>4. nextId \in Int /\ nextId' \in Int /\ nextId <= nextId'
      BY <1>a, <3>1
    <3>5. \A c \in Int : c .. (nextId - 1) \subseteq c .. (nextId' - 1)
      BY <3>4, IntervalGrows
    <3>6. /\ -1 .. (nextId - 1) \subseteq -1 .. (nextId' - 1)
          /\ 0 .. (nextId - 1) \subseteq 0 .. (nextId' - 1)
      BY <3>5
    <3> QED BY <3>2, <3>3, <3>6
  <2> QED BY <1>8, <2>1, <2>2, <2>3 DEF Fire, TypeOK, Moment
<1>9. CASE EndTimeEvents
  BY <1>9 DEF EndTimeEvents, TypeOK, Pending
<1>10. CASE Tick
  <2>1. now' \in Clock
    BY <1>10 DEF Tick, TypeOK, Clock
  <2>2. wait' \in {Forever} \cup Nat
    BY <1>10 DEF Tick, TypeOK, Forever
  <2> QED BY <1>10, <2>1, <2>2 DEF Tick, TypeOK, Pending
<1>11. CASE SetClock
  BY <1>11 DEF SetClock, TypeOK, Pending
<1>12. CASE UNCHANGED vars
  BY <1>12 DEF vars, TypeOK, Pending, Clock
<1> QED
  BY <1>1, <1>2, <1>3, <1>4, <1>5, <1>6, <1>7, <1>8, <1>9, <1>10, <1>11, <1>12
     DEF Next, Step

\* Whatever the clock does, the loop's state keeps its type.
THEOREM TypeCorrect == Spec => []TypeOK
BY TypeInit, TypeStep, PTL DEF Spec
-----------------------------------------------------------------------------
(* The walk over the timers *)

\* The timers that were due at wake-up and still wait are due, and once the
\* walk has begun it may fire them and has not passed them.
LateDue ==
  /\ PassComplete
  /\ pc \in {"files", "time", "scan"} =>
       \A i \in dueAtWake \cap Pending : Due(timers[i], now)
  /\ pc = "scan" =>
       \A i \in dueAtWake \cap Pending : i <= maxId /\ i <= te

WalkInv == TypeOK /\ NewTimersWait /\ LateDue

\* A due timer stays due while the clock does not go back.
LEMMA DueStaysDue ==
  ASSUME NEW w \in Moment, NEW s \in Clock, NEW t \in Clock,
         Due(w, s), ~Before(t, s)
  PROVE  Due(w, t)
BY ConstantsAssumption DEF Due, Before, Moment, Clock

LEMMA WalkInit == Init => WalkInv
BY TypeInit DEF Init, WalkInv, NewTimersWait, LateDue, PassComplete

LEMMA WalkStep == WalkInv /\ [Next]_vars => WalkInv'
<1> SUFFICES ASSUME WalkInv, [Next]_vars PROVE WalkInv'
  OBVIOUS
<1> USE ConstantsAssumption
<1>a. TypeOK /\ TypeOK'
  BY TypeStep DEF WalkInv
<1>b. SUFFICES NewTimersWait' /\ LateDue'
  BY <1>a DEF WalkInv
<1>c. nextId \in Nat /\ maxId \in Int /\ timers \in [Pending -> Moment]
      /\ now \in Clock /\ dueAtWake \subseteq 0 .. (nextId - 1)
      /\ Pending \subseteq 0 .. (nextId - 1)
  BY <1>a DEF TypeOK, Moment
<1> USE DEF WalkInv, NewTimersWait, LateDue, PassComplete
<1>1. CASE StartPoll
  BY <1>1 DEF StartPoll, Pending
<1>2. CASE FileReady
  BY <1>2 DEF FileReady, Wake, Pending
<1>3. CASE TimedOut
  BY <1>3 DEF TimedOut, Wake, Pending
<1>4. CASE FileEvent
  <2>1. PICK d \in Delays : CanArm(d) /\ timers' = WithNewTimer(timers, d)
    BY <1>4 DEF FileEvent
  <2>2. Pending' = Pending \cup {nextId} /\ \A i \in Pending : timers'[i] = timers[i]
    BY <1>a, <2>1, NewTimerFacts DEF Pending
  <2>3. nextId \notin dueAtWake
    BY <1>c
  <2> QED BY <1>4, <2>2, <2>3 DEF FileEvent
<1>5. CASE FilesDone
  BY <1>5 DEF FilesDone, Pending
<1>6. CASE BeginTimeEvents
  <2>1. Pending' = Pending
    BY <1>6 DEF BeginTimeEvents, Pending
  <2>2. ASSUME NEW i \in dueAtWake' \cap Pending'
        PROVE  Due(timers'[i], now') /\ i <= maxId' /\ i <= te'
    <3>1. i \in dueAtWake \cap Pending /\ Due(timers[i], now)
      BY <1>6, <2>1, <2>2 DEF BeginTimeEvents
    <3>2. Due(timers'[i], now)
      BY <1>6, <1>a, <1>c, <3>1, HastenFacts DEF BeginTimeEvents, Due, Clock
    <3>3. i <= maxId' /\ i <= te'
      BY <1>6, <1>c, <3>1, WalkFromFacts DEF BeginTimeEvents
    <3> QED BY <1>6, <3>2, <3>3 DEF BeginTimeEvents
  <2>3. maxId' + 1 = nextId'
    BY <1>6, <1>c DEF BeginTimeEvents
  <2>4. nextId' = nextId /\ pc' = "scan"
    BY <1>6 DEF BeginTimeEvents
  <2>5. (maxId' + 1) .. (nextId' - 1) = {}
    BY <1>c, <2>3, <2>4
  <2>6. NewTimersWait'
    BY <2>5
  <2> QED BY <2>2, <2>4, <2>6
<1>7. CASE Advance
  <2>1. Pending' = Pending /\ nextId' = nextId /\ maxId' = maxId /\ pc' = "scan"
    BY <1>7 DEF Advance, Pending
  <2>2. ASSUME NEW i \in dueAtWake \cap Pending PROVE i <= te'
    <3>1. i \in Nat /\ i <= te /\ i # te
      BY <1>7, <1>c DEF Advance
    <3>2. te \in Int
      BY <1>7, <1>a, <1>c DEF TypeOK, Advance
    <3>3. i \in {j \in Pending : j < te}
      BY <3>1, <3>2
    <3> QED BY <1>7, <3>3, WalkFromFacts DEF Advance
  <2> QED BY <1>7, <2>1, <2>2 DEF Advance, Pending
<1>8. CASE Fire
  <2>1. /\ Pending' \cap dueAtWake \subseteq Pending \ {te}
        /\ \A i \in Pending' \cap dueAtWake : timers'[i] = timers[i]
        /\ (maxId + 1) .. (nextId' - 1) \subseteq Pending'
    <3>1. te \notin (maxId + 1) .. (nextId - 1)
      BY <1>8, <1>c DEF Fire
    <3>2. CASE timers' = Without(timers, te) /\ UNCHANGED nextId
      <4>1. /\ Pending' = Pending \ {te}
            /\ \A i \in Pending \ {te} : timers'[i] = timers[i]
        BY <3>2 DEF Pending, Without
      <4>2. (maxId + 1) .. (nextId' - 1) \subseteq Pending
        BY <1>8, <3>2 DEF Fire
      <4> QED BY <3>1, <3>2, <4>1, <4>2
    <3>3. ASSUME NEW d \in Delays, CanArm(d),
                 timers' = Without(WithNewTimer(timers, d), te),
                 nextId' = nextId + 1
          PROVE  <2>1!1 /\ <2>1!2 /\ <2>1!3
      <4>1. /\ Pending' = (Pending \cup {nextId}) \ {te}
            /\ \A i \in Pending \ {te} : timers'[i] = timers[i]
        <5> DEFINE f == WithNewTimer(timers, d)
        <5>1. /\ f \in [Pending \cup {nextId} -> Moment]
              /\ \A i \in Pending : f[i] = timers[i]
          BY <1>a, <3>3, NewTimerFacts
        <5>2. timers' = Without(f, te)
          BY <3>3
        <5> HIDE DEF f
        <5>3. /\ DOMAIN timers' = (Pending \cup {nextId}) \ {te}
              /\ \A i \in (Pending \cup {nextId}) \ {te} : timers'[i] = f[i]
          BY <5>1, <5>2 DEF Without
        <5> QED BY <5>1, <5>3 DEF Pending
      <4>2. nextId \notin dueAtWake /\ te # nextId
        BY <1>8, <1>a, <1>c DEF Fire, TypeOK
      <4>3. (maxId + 1) .. (nextId' - 1) \subseteq ((maxId + 1) .. (nextId - 1)) \cup {nextId}
        BY <1>c, <3>3
      <4> QED BY <1>8, <3>1, <4>1, <4>2, <4>3 DEF Fire
    <3> QED BY <1>8, <3>2, <3>3 DEF Fire
  <2>2. \A i \in Pending' : i <= te'
    BY <1>8, WalkFromFacts DEF Fire, Pending
  <2> QED BY <1>8, <2>1, <2>2 DEF Fire
<1>9. CASE EndTimeEvents
  <2>1. dueAtWake \cap Pending = {}
    BY <1>9, <1>c DEF EndTimeEvents, NIL
  <2> QED BY <1>9, <2>1 DEF EndTimeEvents, Pending
<1>10. CASE Tick
  <2>1. now' \in Clock /\ ~Before(now', now)
    BY <1>10, <1>a DEF Tick, TypeOK, Clock, Before
  <2> QED BY <1>10, <1>c, <2>1, DueStaysDue DEF Tick, Pending
<1>11. CASE SetClock
  <2>1. CASE Before(now', now)
    BY <1>11, <2>1 DEF SetClock, Pending
  <2>2. CASE ~Before(now', now)
    BY <1>11, <1>c, <2>2, DueStaysDue DEF SetClock, Pending
  <2> QED BY <2>1, <2>2
<1>12. CASE UNCHANGED vars
  BY <1>12 DEF vars, Pending
<1> QED
  BY <1>1, <1>2, <1>3, <1>4, <1>5, <1>6, <1>7, <1>8, <1>9, <1>10, <1>11, <1>12
     DEF Next, Step

\* No timer that was due when epoll_wait returned survives the round: the walk
\* over a list its callbacks change (ae.c:264-301) loses none.
THEOREM NoDueTimerSurvivesTheRound == Spec => []PassComplete
<1>1. WalkInv => PassComplete
  BY DEF WalkInv, LateDue
<1> QED BY <1>1, WalkInit, WalkStep, PTL DEF Spec

\* A timer armed by a callback of the walk is not fired by that walk
\* (ae.c:285-287).
THEOREM NewTimersAreNotFiredAtOnce == Spec => []NewTimersWait
<1>1. WalkInv => NewTimersWait
  BY DEF WalkInv
<1> QED BY <1>1, WalkInit, WalkStep, PTL DEF Spec
-----------------------------------------------------------------------------
(* The planned sleep *)

\* A timeout is less than a second for a moment already reached, and otherwise
\* the time missing, or less of it if the clamped milliseconds were negative.
LEMMA TimeoutIs ==
  ASSUME NEW w \in Moment, now \in Clock
  PROVE  /\ Timeout(w) \in Nat
         /\ Due(w, now) => Timeout(w) < Sec
         /\ ~Due(w, now) =>
              \/ Timeout(w) = Millis(w) - Millis(now)
              \/ Timeout(w) = w.sec * Sec - now.sec * Sec - Sec
<1> USE ConstantsAssumption
<1> DEFINE borrow == w.ms < now.ms
           sec == w.sec - now.sec - (IF borrow THEN 1 ELSE 0)
           ms == w.ms - now.ms + (IF borrow THEN Sec ELSE 0)
<1>1. /\ w.sec \in Int /\ w.ms \in (1 - Sec) .. (Sec - 1)
      /\ now.sec \in Int /\ now.ms \in 0 .. (Sec - 1)
  BY DEF Moment, Clock
<1>2. sec \in Int /\ ms \in Int /\ ms < Sec
  BY <1>1
<1>3. sec >= 0 \/ sec < 0
  BY <1>2
<1>4. /\ Due(w, now) => sec < 0 \/ (sec = 0 /\ ms = 0)
      /\ ~Due(w, now) => sec >= 0
  BY <1>1 DEF Due
<1>5. ms < 0 => sec = w.sec - now.sec - 1 \/ Due(w, now)
  BY <1>1 DEF Due
<1>6. Timeout(w) = AtLeastZero(sec) * Sec + AtLeastZero(ms)
  BY DEF Timeout
<1>7. sec * Sec + ms = Millis(w) - Millis(now)
  <2>1. CASE borrow
    <3>1. sec = w.sec - now.sec - 1 /\ ms = w.ms - now.ms + Sec
      BY <2>1
    <3>2. (w.sec - now.sec - 1) * Sec = w.sec * Sec - now.sec * Sec - Sec
      BY <1>1
    <3> QED BY <1>1, <3>1, <3>2 DEF Millis
  <2>2. CASE ~borrow
    <3>1. sec = w.sec - now.sec /\ ms = w.ms - now.ms
      BY <1>1, <2>2
    <3>2. (w.sec - now.sec) * Sec = w.sec * Sec - now.sec * Sec
      BY <1>1
    <3> QED BY <1>1, <3>1, <3>2 DEF Millis
  <2> QED BY <2>1, <2>2
<1> HIDE DEF sec, ms
<1>8. CASE Due(w, now)
  <2>1. AtLeastZero(sec) = 0
    BY <1>2, <1>4, <1>8 DEF AtLeastZero
  <2>2. AtLeastZero(ms) \in Nat /\ AtLeastZero(ms) < Sec
    BY <1>2 DEF AtLeastZero
  <2>3. Timeout(w) = AtLeastZero(ms)
    BY <1>6, <2>1, <2>2
  <2> QED BY <1>8, <2>2, <2>3
<1>9. CASE ~Due(w, now)
  <2>1. sec \in Nat
    BY <1>2, <1>4, <1>9
  <2>2. sec * Sec \in Nat
    BY <2>1
  <2>3. CASE ms >= 0
    <3>1. Timeout(w) = sec * Sec + ms
      BY <1>2, <1>6, <2>1, <2>3 DEF AtLeastZero
    <3> QED BY <1>2, <1>7, <1>9, <2>2, <2>3, <3>1
  <2>4. CASE ms < 0
    <3>1. Timeout(w) = sec * Sec
      BY <1>2, <1>6, <2>1, <2>2, <2>4 DEF AtLeastZero
    <3>2. sec = w.sec - now.sec - 1
      BY <1>5, <1>9, <2>4
    <3>3. sec * Sec = w.sec * Sec - now.sec * Sec - Sec
      BY <1>1, <3>2
    <3> QED BY <1>9, <2>2, <3>1, <3>3
  <2> QED BY <1>2, <2>3, <2>4
<1> QED BY <1>8, <1>9

\* Comparing field by field orders moments up to the milliseconds a negative
\* delay has left negative.
LEMMA NotBefore ==
  ASSUME NEW v \in Moment, NEW w \in Moment, ~Before(w, v)
  PROVE  Millis(v) < Millis(w) + Sec
<1> USE ConstantsAssumption
<1>1. /\ v.sec \in Int /\ v.ms \in (1 - Sec) .. (Sec - 1)
      /\ w.sec \in Int /\ w.ms \in (1 - Sec) .. (Sec - 1)
      /\ v.sec * Sec \in Int /\ w.sec * Sec \in Int
  BY DEF Moment
<1>2. CASE v.sec < w.sec
  <2>1. v.sec * Sec + Sec <= w.sec * Sec
    BY <1>1, <1>2, MulMonotone
  <2> QED BY <1>1, <2>1 DEF Millis
<1>3. CASE v.sec = w.sec /\ v.ms <= w.ms
  BY <1>1, <1>3 DEF Millis
<1> QED BY <1>1, <1>2, <1>3 DEF Before

\* What aeProcessEvents plans is never a second or more too long.
THEOREM NeverOversleepsASecond == Spec => OversleepBounded
<1> USE ConstantsAssumption
<1>1. ASSUME TypeOK, [Next]_vars, pc = "poll", pc' = "waiting", NEW i \in Pending
      PROVE  wait' < MaxOf(0, Millis(timers[i]) - Millis(now)) + Sec
  <2>1. StartPoll
    BY <1>1 DEF Next, Step, StartPoll, FileReady, TimedOut, Wake, FileEvent,
         FilesDone, BeginTimeEvents, Advance, Fire, EndTimeEvents, Tick,
         SetClock, vars
  <2>2. PICK j \in SearchNearestTimer : wait' = Timeout(timers[j])
    BY <1>1, <2>1 DEF StartPoll
  <2>3. /\ timers[i] \in Moment /\ timers[j] \in Moment /\ now \in Clock
        /\ ~Before(timers[i], timers[j])
    BY <1>1, <2>2 DEF SearchNearestTimer, TypeOK, Moment
  <2>4. \A w \in Moment : Millis(w) \in Int
    BY DEF Millis, Moment
  <2>5. Millis(now) \in Int
    BY <2>3 DEF Millis, Clock
  <2>6. MaxOf(0, Millis(timers[i]) - Millis(now)) >= 0
        /\ MaxOf(0, Millis(timers[i]) - Millis(now)) >= Millis(timers[i]) - Millis(now)
        /\ MaxOf(0, Millis(timers[i]) - Millis(now)) \in Int
    BY <2>3, <2>4, <2>5 DEF MaxOf
  <2>7. CASE Due(timers[j], now)
    <3>1. Timeout(timers[j]) \in Nat /\ Timeout(timers[j]) < Sec
      BY <2>3, <2>7, TimeoutIs
    <3> QED BY <2>2, <2>6, <3>1
  <2>8. CASE ~Due(timers[j], now)
    <3>1. CASE Timeout(timers[j]) = Millis(timers[j]) - Millis(now)
      <4>1. Millis(timers[j]) < Millis(timers[i]) + Sec
        BY <2>3, NotBefore
      <4> QED BY <2>2, <2>3, <2>4, <2>5, <2>6, <3>1, <4>1
    <3>2. CASE Timeout(timers[j]) = timers[j].sec * Sec - now.sec * Sec - Sec
      <4>1. /\ timers[i].sec \in Int /\ timers[j].sec \in Int
            /\ timers[i].ms \in (1 - Sec) .. (Sec - 1)
            /\ now.sec \in Int /\ now.ms \in 0 .. (Sec - 1)
            /\ timers[j].sec <= timers[i].sec
        BY <2>3 DEF Moment, Clock, Before
      <4>2. timers[j].sec * Sec <= timers[i].sec * Sec
        BY <4>1, MulMonotone
      <4>3. /\ timers[j].sec * Sec \in Int /\ timers[i].sec * Sec \in Int
            /\ now.sec * Sec \in Int
        BY <4>1
      <4>4. Timeout(timers[j]) < Millis(timers[i]) - Millis(now) + Sec
        BY <3>2, <4>1, <4>2, <4>3 DEF Millis
      <4> QED BY <2>2, <2>3, <2>4, <2>5, <2>6, <4>4, TimeoutIs
    <3> QED BY <2>3, <2>8, <3>1, <3>2, TimeoutIs
  <2> QED BY <2>7, <2>8
<1>2. TypeOK /\ [Next]_vars =>
        [pc = "poll" /\ pc' = "waiting" =>
          \A i \in Pending :
            wait' < MaxOf(0, Millis(timers[i]) - Millis(now)) + Sec]_vars
  BY <1>1
<1> QED BY <1>2, TypeInit, TypeStep, PTL DEF Spec, OversleepBounded
-----------------------------------------------------------------------------
(* The loop implements the timer service *)

LEMMA ClockOrder ==
  ASSUME NEW s \in Clock, NEW t \in Clock
  PROVE  Before(s, t) <=> Millis(s) < Millis(t)
<1> USE ConstantsAssumption
<1>1. /\ s.sec \in Int /\ s.ms \in 0 .. (Sec - 1) /\ s.sec * Sec \in Int
      /\ t.sec \in Int /\ t.ms \in 0 .. (Sec - 1) /\ t.sec * Sec \in Int
  BY DEF Clock
<1>2. CASE s.sec < t.sec
  <2>1. s.sec * Sec + Sec <= t.sec * Sec
    BY <1>1, <1>2, MulMonotone
  <2> QED BY <1>1, <1>2, <2>1 DEF Before, Millis
<1>3. CASE t.sec < s.sec
  <2>1. t.sec * Sec + Sec <= s.sec * Sec
    BY <1>1, <1>3, MulMonotone
  <2> QED BY <1>1, <1>3, <2>1 DEF Before, Millis
<1>4. CASE s.sec = t.sec
  BY <1>1, <1>4 DEF Before, Millis
<1> QED BY <1>1, <1>2, <1>3, <1>4

\* A timer that the code finds due has reached its moment.
LEMMA DueReached ==
  ASSUME NEW w \in Moment, NEW t \in Clock, Due(w, t)
  PROVE  Millis(t) >= Millis(w)
<1> USE ConstantsAssumption
<1>1. /\ w.sec \in Int /\ w.ms \in (1 - Sec) .. (Sec - 1) /\ w.sec * Sec \in Int
      /\ t.sec \in Int /\ t.ms \in 0 .. (Sec - 1) /\ t.sec * Sec \in Int
  BY DEF Moment, Clock
<1>2. CASE w.sec < t.sec
  <2>1. w.sec * Sec + Sec <= t.sec * Sec
    BY <1>1, <1>2, MulMonotone
  <2> QED BY <1>1, <2>1 DEF Millis
<1>3. CASE w.sec = t.sec /\ t.ms >= w.ms
  BY <1>1, <1>3 DEF Millis
<1> QED BY <1>2, <1>3 DEF Due

\* A clock that is a second behind lastTime has been set back.
SkewInv == TypeOK /\ (now.sec < lastTime => setBack)

LEMMA SkewInit == Init => SkewInv
BY TypeInit, ConstantsAssumption DEF Init, SkewInv

LEMMA SkewStep == SkewInv /\ [Next]_vars => SkewInv'
<1> SUFFICES ASSUME SkewInv, [Next]_vars PROVE (now.sec < lastTime => setBack)'
  BY TypeStep DEF SkewInv
<1> USE DEF SkewInv
<1>1. CASE Tick
  BY <1>1, ConstantsAssumption DEF Tick, TypeOK, Clock
<1>2. CASE SetClock
  <2>1. now \in Clock /\ now' \in Clock /\ lastTime' = lastTime
        /\ lastTime \in Int
    BY <1>2, ConstantsAssumption DEF SetClock, TypeOK
  <2>2. ~Before(now', now) => now.sec <= now'.sec
    BY <2>1 DEF Before, Clock
  <2>3. now'.sec < lastTime' => now.sec < lastTime \/ Before(now', now)
    <3>1. now.sec \in Int /\ now'.sec \in Int
      BY <2>1 DEF Clock
    <3> QED BY <2>1, <2>2, <3>1
  <2>4. setBack' = (setBack \/ Before(now', now))
    BY <1>2 DEF SetClock
  <2> QED BY <2>3, <2>4
<1>3. CASE BeginTimeEvents
  <2>1. now' = now /\ lastTime' = now.sec /\ now.sec \in Int
    BY <1>3 DEF BeginTimeEvents, TypeOK, Clock
  <2> QED BY <2>1
<1>4. CASE StartPoll \/ FilesDone \/ TimedOut \/ Advance \/ Fire
           \/ EndTimeEvents \/ FileReady \/ FileEvent \/ UNCHANGED vars
  BY <1>4 DEF StartPoll, FilesDone, TimedOut, Advance, Fire, EndTimeEvents,
       FileReady, FileEvent, Wake, vars
<1> QED BY <1>1, <1>2, <1>3, <1>4 DEF Next, Step

LEMMA ServiceStep ==
  ASSUME SkewInv, SkewInv', [Next]_vars PROVE [Service!Next]_(Service!vars)
<1> USE ConstantsAssumption
<1>a. /\ TypeOK /\ TypeOK'
      /\ timers \in [Pending -> Moment] /\ timers' \in [Pending' -> Moment]
      /\ now \in Clock /\ now' \in Clock
  BY DEF SkewInv, TypeOK, Moment
<1>b. /\ \A w \in Moment : Millis(w) \in Int
      /\ \A t \in Clock : Millis(t) \in Int
  BY DEF Millis, Moment, Clock
<1>1. CASE timers' = timers /\ nextId' = nextId /\ now' = now /\ setBack' = setBack
  BY <1>1 DEF Service!vars, Pending
<1>2. CASE FileEvent
  <2>1. PICK d \in Delays : CanArm(d) /\ timers' = WithNewTimer(timers, d)
    BY <1>2 DEF FileEvent
  <2>2. /\ Pending' = Pending \cup {nextId} /\ nextId \notin Pending
        /\ \A i \in Pending : timers'[i] = timers[i]
    BY <1>a, <2>1, NewTimerFacts DEF Pending
  <2>3. Service!Arm
    BY <1>2, <1>a, <1>b, <2>2
       DEF FileEvent, Service!Arm, Service!NewTimer, Service!Armed, Service!Keep
  <2> QED BY <2>3 DEF Service!Next
<1>3. CASE Fire
  <2>1. te \in Pending /\ Millis(now) >= Millis(timers[te])
    BY <1>3, <1>a, DueReached DEF Fire, TypeOK
  <2>2. /\ now' = now /\ setBack' = setBack
        /\ \A i \in Pending \ {te} : i \in Pending' /\ timers'[i] = timers[i]
        /\ \/ nextId' = nextId /\ Pending' = Pending \ {te}
           \/ nextId' = nextId + 1 /\ Pending' = (Pending \ {te}) \cup {nextId}
    <3>1. CASE timers' = Without(timers, te) /\ UNCHANGED nextId
      BY <1>3, <3>1 DEF Fire, Pending, Without
    <3>2. ASSUME NEW d \in Delays, CanArm(d),
                 timers' = Without(WithNewTimer(timers, d), te),
                 nextId' = nextId + 1
          PROVE  /\ \A i \in Pending \ {te} : i \in Pending' /\ timers'[i] = timers[i]
                 /\ Pending' = (Pending \ {te}) \cup {nextId}
      <4>1. nextId \notin Pending
        BY <1>a, <3>2, NewTimerFacts
      <4> QED BY <2>1, <3>2, <4>1 DEF Pending, Without, WithNewTimer
    <3> QED BY <1>3, <3>1, <3>2 DEF Fire
  <2>3. Service!Fire(te)
    BY <1>a, <1>b, <2>1, <2>2
       DEF Service!Fire, Service!NewTimer, Service!Armed, Service!Keep
  <2> QED BY <2>1, <2>3 DEF Service!Next, Service!Armed
<1>4. CASE BeginTimeEvents
  <2>1. now' = now /\ nextId' = nextId /\ Pending' = Pending /\ setBack' = FALSE
    BY <1>4 DEF BeginTimeEvents, Pending
  <2>2. CASE now.sec < lastTime
    <3>1. setBack
      BY <2>2 DEF SkewInv
    <3>2. ASSUME NEW i \in Pending PROVE Millis(timers'[i]) <= Millis(timers[i])
      <4>1. /\ timers[i].sec \in Nat /\ timers[i].ms \in Int
            /\ timers'[i].sec = 0 /\ timers'[i].ms = timers[i].ms
        BY <1>4, <1>a, <2>2, HastenFacts DEF BeginTimeEvents, Moment
      <4>2. timers[i].sec * Sec \in Nat
        BY <4>1
      <4> QED BY <4>1, <4>2 DEF Millis
    <3>3. Service!Hasten
      BY <2>1, <3>1, <3>2 DEF Service!Hasten, Service!Armed
    <3> QED BY <3>3 DEF Service!Next
  <2>3. CASE ~(now.sec < lastTime)
    <3>1. timers' = timers
      BY <1>4, <2>3 DEF BeginTimeEvents
    <3>2. CASE setBack
      <4>1. Service!Hasten
        BY <1>a, <1>b, <2>1, <3>1, <3>2 DEF Service!Hasten, Service!Armed
      <4> QED BY <4>1 DEF Service!Next
    <3>3. CASE ~setBack
      BY <1>1, <1>a, <2>1, <3>1, <3>3 DEF TypeOK
    <3> QED BY <3>2, <3>3
  <2> QED BY <2>2, <2>3
<1>5. CASE Tick
  <2>1. ~Before(now', now) /\ timers' = timers /\ nextId' = nextId
        /\ setBack' = setBack
    BY <1>5, <1>a DEF Tick, Before, Clock
  <2>2. ~(Millis(now') < Millis(now))
    BY <1>a, <2>1, ClockOrder
  <2>3. Service!ClockMoves
    BY <1>a, <1>b, <2>1, <2>2 DEF Service!ClockMoves, TypeOK, Pending
  <2> QED BY <2>3 DEF Service!Next
<1>6. CASE SetClock
  <2>1. setBack' = (setBack \/ Before(now', now)) /\ timers' = timers
        /\ nextId' = nextId
    BY <1>6 DEF SetClock
  <2>2. Before(now', now) <=> Millis(now') < Millis(now)
    BY <1>a, ClockOrder
  <2>3. Service!ClockMoves
    BY <1>a, <1>b, <2>1, <2>2 DEF Service!ClockMoves, Pending
  <2> QED BY <2>3 DEF Service!Next
<1>7. CASE StartPoll \/ FilesDone \/ TimedOut \/ Advance \/ EndTimeEvents
           \/ FileReady \/ UNCHANGED vars
  BY <1>1, <1>7 DEF StartPoll, FilesDone, TimedOut, Advance, EndTimeEvents,
       FileReady, Wake, vars
<1> QED BY <1>2, <1>3, <1>4, <1>5, <1>6, <1>7 DEF Next, Step

\* The event loop is the timer service its callers rely on: no timer fires
\* early, twice, or at another moment than it was armed for, unless the clock
\* was set back.
THEOREM LoopImplementsTimerService == Spec => ImplementsTimerService
<1>1. Init => Service!Init
  BY ConstantsAssumption DEF Init, Service!Init, Pending, Millis
<1>2. SkewInv /\ SkewInv' /\ [Next]_vars => [Service!Next]_(Service!vars)
  BY ServiceStep
<1> QED BY <1>1, <1>2, SkewInit, SkewStep, PTL
        DEF Spec, ImplementsTimerService, Service!Spec
=============================================================================

---------------------------- MODULE TimerService ----------------------------
(***************************************************************************)
(* What the event loop promises the code that arms timers with it           *)
(* (AeEngine::AddTimerEvent): a timer gets a number nobody had before, and   *)
(* its callback runs once and never before the moment it was armed for,      *)
(* unless the system clock has been set back since the loop last looked,     *)
(* when the loop may bring every pending timer forward (ae.c:247-261).       *)
(***************************************************************************)
EXTENDS Integers

VARIABLES
  clock,      \* the system clock, in milliseconds
  setBack,    \* the clock was set back and the loop has not reacted yet
  issued,     \* how many numbers have been given out
  deadline    \* the pending timers: number -> moment it is armed for

vars == <<clock, setBack, issued, deadline>>

Armed == DOMAIN deadline

Init ==
  /\ clock \in Int
  /\ setBack = FALSE
  /\ issued = 0
  /\ deadline = [i \in {} |-> 0]

\* The timers of S keep their moments from this step to the next.
Keep(S) == \A i \in S : deadline'[i] = deadline[i]

\* Number issued is given out, for any moment, a past one included.
NewTimer ==
  /\ issued' = issued + 1
  /\ deadline'[issued] \in Int

Arm ==
  /\ NewTimer
  /\ DOMAIN deadline' = Armed \cup {issued}
  /\ Keep(Armed)
  /\ UNCHANGED <<clock, setBack>>

\* The callback of a due timer runs, and may arm one new timer.
Fire(i) ==
  /\ clock >= deadline[i]
  /\ \/ UNCHANGED issued /\ DOMAIN deadline' = Armed \ {i}
     \/ NewTimer /\ DOMAIN deadline' = (Armed \ {i}) \cup {issued}
  /\ Keep(Armed \ {i})
  /\ UNCHANGED <<clock, setBack>>

\* The loop reacts to a clock that was set back.
Hasten ==
  /\ setBack
  /\ setBack' = FALSE
  /\ DOMAIN deadline' = Armed
  /\ \A i \in Armed : deadline'[i] <= deadline[i]
  /\ UNCHANGED <<clock, issued>>

\* Time passes, or somebody sets the clock.
ClockMoves ==
  /\ clock' \in Int
  /\ setBack' = (setBack \/ clock' < clock)
  /\ UNCHANGED <<issued, deadline>>

Next ==
  \/ Arm
  \/ \E i \in Armed : Fire(i)
  \/ Hasten
  \/ ClockMoves

Spec == Init /\ [][Next]_vars
=============================================================================

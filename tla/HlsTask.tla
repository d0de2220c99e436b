------------------------------ MODULE HlsTask -------------------------------
(***************************************************************************)
(* One simulated HLS player of kick2: an HlsTask and the HlsHandler callbacks *)
(* that drive it on its event loop thread (hls_handler.cpp).                  *)
(*                                                                           *)
(* The task downloads its playlist.  HandleM3u8Resp walks over the entries:   *)
(* one whose moment has come is requested and paid for with a timer at the    *)
(* moment it ends, the others go to TaskQueue.  Each timer (OnTimer,          *)
(* ResumeTask) plays the next queued entry and arms the next timer, or, when   *)
(* the queue is empty, downloads the playlist again, or deletes the task if    *)
(* the playlist had an end.  Nothing else keeps a task going, and nothing      *)
(* stops an answer or a timer from reaching a task that was deleted.           *)
(*                                                                           *)
(* HandleM3u8Resp reads the clock for every entry: the walk is one action per  *)
(* entry.  A timer fires at its moment or later (AeLoop); an answer comes at    *)
(* any time, in any order, or not at all.                                      *)
(***************************************************************************)
EXTENDS Integers, Sequences, FiniteSets, BagsExt, Bags

CONSTANTS
  Playlists,    \* what servers send: records [items, endlist]
  Faulty,       \* whether requests may fail and servers may send anything
  Slack,        \* a timer fires less than Slack late
  Lag,          \* an answer is handled less than Lag after the request
  MaxTime,      \* bound: the last millisecond of the clock
  MaxRequests,  \* bound: requests under way at a time
  MaxTimers,    \* bound: timers pending at a time
  MaxQueue      \* bound: entries queued or about to be

\* An entry is a stream of its own (a line with no #EXTINF before it, which has
\* no duration, hls_handler.cpp:133-139) or a segment with a whole number of
\* seconds (line 143).
Items == [for : {"variant"}, dur : {0}] \cup [for : {"segment"}, dur : Nat]

ASSUME ConstantsAssumption ==
  /\ Playlists \subseteq [items : Seq(Items), endlist : BOOLEAN]
  /\ Faulty \in BOOLEAN
  /\ Slack \in Nat \ {0}
  /\ Lag \in Nat \ {0}
  /\ MaxTime \in Nat
  /\ MaxRequests \in Nat \ {0}
  /\ MaxTimers \in Nat \ {0}
  /\ MaxQueue \in Nat

VARIABLES
  now,         \* DateTime::UnixTimeMs()
  status,      \* live, deleted, or undefined once a callback used it deleted
  nextMoment,  \* task->NextMoment
  queue,       \* task->TaskQueue
  isEndlist,   \* task->IsEndlist
  todo,        \* the entries HandleM3u8Resp has not reached
  busyBy,      \* the moment HandleM3u8Resp returns by
  timers,      \* the task's pending timers: bag of moments
  requests,    \* the task's requests under way: bag of [for, by]
  lost         \* history: a playlist request came to nothing

task == <<nextMoment, queue, isEndlist>>
vars == <<now, status, nextMoment, queue, isEndlist, todo, busyBy, timers,
          requests, lost>>

\* A request, and the moment its answer is handled by, if the clock gets there.
Request(for) ==
  [for |-> for, by |-> IF now + Lag > MaxTime THEN MaxTime + 1 ELSE now + Lag]

\* new HlsTask and Launch (kick2.cpp:65-70).
Init ==
  /\ now = 0
  /\ status = "live"
  /\ nextMoment = now
  /\ queue = <<>>
  /\ isEndlist = FALSE
  /\ todo = <<>>
  /\ busyBy = now
  /\ timers = EmptyBag
  /\ requests = SetToBag({Request("main")})
  /\ lost = FALSE

\* The thread is not in the middle of a callback.
Idle == todo = <<>> /\ status # "undefined"

\* A callback that uses the task after it was deleted.
UseDeleted ==
  /\ status = "deleted"
  /\ status' = "undefined"
  /\ UNCHANGED <<now, task, todo, busyBy, lost>>

\* Download: a request under way.  HttpClient::SendGetReq may also fail at
\* once, which is Lose.
Download(bag, for) ==
  /\ BagCardinality(bag) < MaxRequests
  /\ requests' = BagAdd(bag, Request(for))
\* AddTimerEvent(NextMoment - now): a timer at moment d.
AddTimer(bag, d) ==
  /\ BagCardinality(bag) < MaxTimers
  /\ timers' = BagAdd(bag, d)
-----------------------------------------------------------------------------
(* Handle: an answer *)

\* A playlist.  Text that is none parses as one with no entry and no end
\* (hls_handler.cpp:106-110).
HandleM3u8Resp(r, p) ==
  /\ Idle
  /\ Faulty \/ r.for \in {"main", "variant"}
  /\ requests' = BagRemove(requests, r)
  /\ UNCHANGED timers
  /\ \/ UseDeleted
     \/ /\ status = "live"
        /\ Len(queue) + Len(p.items) <= MaxQueue
        /\ isEndlist' = p.endlist
        /\ todo' = p.items
        /\ busyBy' = r.by
        /\ lost' = (lost \/ (r.for = "main" /\ p.items = <<>>))
        /\ UNCHANGED <<now, status, nextMoment, queue>>

\* Mutant: the timer is armed for the moment the entry begins.
HandleItemEarlyTimer ==
  /\ todo # <<>>
  /\ todo' = Tail(todo)
  /\ IF nextMoment <= now
     THEN /\ nextMoment' = nextMoment + Head(todo).dur
          /\ AddTimer(timers, nextMoment)
          /\ Download(requests, Head(todo).for)
          /\ UNCHANGED queue
     ELSE /\ queue' = Append(queue, Head(todo))
          /\ UNCHANGED <<nextMoment, timers, requests>>
  /\ UNCHANGED <<now, status, isEndlist, busyBy, lost>>

\* The body of the loop of HandleM3u8Resp, for one entry (lines 86-100).
HandleItem ==
  /\ todo # <<>>
  /\ todo' = Tail(todo)
  /\ LET item == Head(todo)
     IN  IF nextMoment <= now
         THEN /\ nextMoment' = nextMoment + item.dur
              /\ AddTimer(timers, nextMoment')
              /\ Download(requests, item.for)
              /\ UNCHANGED queue
         ELSE /\ queue' = Append(queue, item)
              /\ UNCHANGED <<nextMoment, timers, requests>>
  /\ UNCHANGED <<now, status, isEndlist, busyBy, lost>>

\* An answer of another content type is stored as a segment, a playlist sent
\* with an unknown type included.
HandleSegmentResp(r) ==
  /\ Idle
  /\ Faulty \/ r.for = "segment"
  /\ requests' = BagRemove(requests, r)
  /\ UNCHANGED timers
  /\ \/ UseDeleted
     \/ /\ status = "live"
        /\ lost' = (lost \/ r.for = "main")
        /\ UNCHANGED <<now, status, task, todo, busyBy>>

\* The request comes to nothing: a 404, which Handle ignores without looking
\* at the task (lines 40-43), or a connection that fails or is closed, of which
\* HttpClient tells nobody.
Lose(r) ==
  /\ Idle
  /\ Faulty
  /\ requests' = BagRemove(requests, r)
  /\ lost' = (lost \/ r.for = "main")
  /\ UNCHANGED <<now, status, task, todo, busyBy, timers>>
-----------------------------------------------------------------------------
(* OnTimer: a timer armed for moment d fires, and ResumeTask goes on *)

\* Mutants: the next segment is timed from the moment this one begins, its duration
\* is subtracted, the task ends when the last one begins, or it has no timer.
PlayNextAt(rest, next, timer) ==
  /\ queue # <<>>
  /\ queue' = Tail(queue)
  /\ nextMoment' = next
  /\ AddTimer(rest, timer)
  /\ Download(requests, Head(queue).for)
  /\ UNCHANGED <<status, isEndlist>>
PlayNextTooSoon(rest) ==
  queue # <<>> /\ PlayNextAt(rest, nextMoment + Head(queue).dur, nextMoment)
PlayNextSubtract(rest) ==
  queue # <<>> /\ PlayNextAt(rest, nextMoment - Head(queue).dur, now)

PlayNextCompletes(rest) ==
  /\ queue # <<>>
  /\ queue' = Tail(queue)
  /\ nextMoment' = nextMoment + Head(queue).dur
  /\ AddTimer(rest, nextMoment')
  /\ Download(requests, Head(queue).for)
  /\ status' = IF isEndlist /\ queue' = <<>> THEN "deleted" ELSE status
  /\ UNCHANGED isEndlist

PlayNextUntimed(rest) ==
  /\ queue # <<>>
  /\ queue' = Tail(queue)
  /\ nextMoment' = nextMoment + Head(queue).dur
  /\ timers' = rest
  /\ Download(requests, Head(queue).for)
  /\ UNCHANGED <<status, isEndlist>>

PlayNext(rest) ==
  /\ queue # <<>>
  /\ queue' = Tail(queue)
  /\ nextMoment' = nextMoment + Head(queue).dur
  /\ AddTimer(rest, nextMoment')
  /\ Download(requests, Head(queue).for)
  /\ UNCHANGED <<status, isEndlist>>

\* Mutants: a refresh arms a timer to come back, or forgets the request.
RefreshWithTimer(rest) ==
  /\ queue = <<>> /\ ~isEndlist
  /\ AddTimer(rest, nextMoment)
  /\ Download(requests, "main")
  /\ UNCHANGED <<status, task>>
RefreshForgotten(rest) ==
  /\ queue = <<>> /\ ~isEndlist
  /\ timers' = rest
  /\ UNCHANGED <<requests, status, task>>

Refresh(rest) ==
  /\ queue = <<>> /\ ~isEndlist
  /\ timers' = rest
  /\ Download(requests, "main")
  /\ UNCHANGED <<status, task>>

OnTaskComplete(rest) ==
  /\ queue = <<>> /\ isEndlist
  /\ timers' = rest
  /\ status' = "deleted"
  /\ UNCHANGED <<requests, task>>

OnTimer(d) ==
  /\ Idle
  /\ d <= now
  /\ LET rest == BagRemove(timers, d)
     IN  \/ timers' = rest /\ UseDeleted /\ UNCHANGED requests
         \/ /\ status = "live"
            /\ PlayNext(rest) \/ Refresh(rest) \/ OnTaskComplete(rest)
            /\ UNCHANGED <<now, todo, busyBy, lost>>
-----------------------------------------------------------------------------
\* A millisecond passes, if no timer and no answer is later than allowed.
\* The clock stops at its bound.
Tick ==
  /\ \/ now = MaxTime /\ UNCHANGED now
     \/ /\ now' = now + 1 /\ now' <= MaxTime
        /\ \A d \in DOMAIN timers : now' - d < Slack
        /\ \A r \in DOMAIN requests : now' < r.by
        /\ todo # <<>> => now' < busyBy
  /\ UNCHANGED <<status, task, todo, busyBy, timers, requests, lost>>

Callback ==
  \/ \E r \in DOMAIN requests :
       \/ \E p \in Playlists : HandleM3u8Resp(r, p)
       \/ HandleSegmentResp(r)
  \/ HandleItem
  \/ \E d \in DOMAIN timers : OnTimer(d)

Next ==
  \/ Callback
  \/ \E r \in DOMAIN requests : Lose(r)
  \/ Tick

\* The thread is scheduled and time passes; with Tick, that makes every timer
\* fire and every request of a server that is not faulty be answered in time.
Fairness == WF_vars(Callback) /\ WF_vars(Tick)

Spec == Init /\ [][Next]_vars /\ Fairness
-----------------------------------------------------------------------------
(* What keeps a player going *)

Requests == [for : {"main", "variant", "segment"}, by : Nat]

\* Every variable has its type.
TypeOK ==
  /\ now \in 0 .. MaxTime
  /\ status \in {"live", "deleted", "undefined"}
  /\ nextMoment \in Nat
  /\ queue \in Seq(Items)
  /\ isEndlist \in BOOLEAN
  /\ todo \in Seq(Items)
  /\ busyBy \in Nat
  /\ IsABag(timers) /\ DOMAIN timers \subseteq Nat
  /\ IsABag(requests) /\ DOMAIN requests \subseteq Requests
  /\ lost \in BOOLEAN

MainInFlight == \E r \in DOMAIN requests : r.for = "main"

\* A player never stalls by its own doing.  Between callbacks a live task has a
\* timer pending or its playlist on the way; only a playlist that was lost,
\* refused or empty leaves it with neither, for ever (it is not deleted, and
\* HlsTask::Concurrency goes on counting it).
NoStall ==
  status = "live" /\ todo = <<>> => DOMAIN timers # {} \/ MainInFlight \/ lost

\* What NoStall rests on: while the task is ahead of the clock, so that new
\* entries are queued and not played, a timer is pending to come back for them.
QueueIsServed ==
  status = "live" /\ nextMoment > now => \E d \in DOMAIN timers : d >= nextMoment

\* No timer or answer finds its task deleted (hls_handler.cpp:34-56, 211-217).
NoUseAfterDelete == status # "undefined"

\* Timers and refreshes together are one thread of playback: never two, which
\* would play the queue twice as fast and delete the task under each other.
OnePlaybackClock ==
  BagCardinality(timers)
    + Cardinality({r \in DOMAIN requests : r.for = "main"}) <= 1

\* A player plays in real time: it requests the next segment only when the ones
\* before it have ended.
NotAheadOfPlayback ==
  [][ BagCardinality(requests') > BagCardinality(requests)
        => nextMoment <= now ]_vars

\* A player that has the end of its playlist plays its queue out and is deleted, unless
\* the clock ends before the queue.
VodCompletes ==
  (isEndlist /\ status = "live") ~> (status = "deleted" \/ nextMoment > MaxTime)
=============================================================================

---------------------------- MODULE HlsTaskProofs ---------------------------
(* Theorems about one HLS player, for every value of the constants: whatever *)
(* the servers send, and however late timers and answers are.                *)
EXTENDS HlsTask, FiniteSetTheorems, TLAPS

LEMMA BagAddFacts ==
  ASSUME NEW B, IsABag(B), NEW x
  PROVE  IsABag(BagAdd(B, x)) /\ DOMAIN BagAdd(B, x) = DOMAIN B \cup {x}
<1>1. CASE x \in DOMAIN B
  <2>1. \A e \in DOMAIN B : B[e] \in Nat /\ B[e] > 0 /\ B[e] + 1 \in {n \in Nat : n > 0}
    BY DEF IsABag
  <2>2. BagAdd(B, x) = [e \in DOMAIN B |-> IF e = x THEN B[e] + 1 ELSE B[e]]
    BY <1>1 DEF BagAdd
  <2>3. DOMAIN BagAdd(B, x) = DOMAIN B
    BY <2>2
  <2>4. \A e \in DOMAIN B : BagAdd(B, x)[e] \in {n \in Nat : n > 0}
    BY <2>1, <2>2
  <2> QED BY <1>1, <2>2, <2>3, <2>4 DEF IsABag
<1>2. CASE x \notin DOMAIN B
  BY <1>2 DEF BagAdd, IsABag
<1> QED BY <1>1, <1>2

LEMMA BagRemoveFacts ==
  ASSUME NEW B, IsABag(B), NEW x
  PROVE  /\ IsABag(BagRemove(B, x))
         /\ DOMAIN BagRemove(B, x) \subseteq DOMAIN B
         /\ DOMAIN B \ {x} \subseteq DOMAIN BagRemove(B, x)
<1>1. CASE x \in DOMAIN B /\ B[x] = 1
  BY <1>1 DEF BagRemove, IsABag
<1>2. CASE x \in DOMAIN B /\ B[x] # 1
  BY <1>2 DEF BagRemove, IsABag
<1>3. CASE x \notin DOMAIN B
  BY <1>3 DEF BagRemove
<1> QED BY <1>1, <1>2, <1>3

LEMMA RequestFacts ==
  ASSUME TypeOK, NEW for \in {"main", "variant", "segment"}
  PROVE  Request(for) \in Requests /\ Request(for).for = for
BY ConstantsAssumption DEF Request, Requests, TypeOK

\* A download puts one request under way and takes none away.
LEMMA DownloadFacts ==
  ASSUME TypeOK, NEW for \in {"main", "variant", "segment"},
         Download(requests, for)
  PROVE  /\ IsABag(requests') /\ DOMAIN requests' \subseteq Requests
         /\ DOMAIN requests \subseteq DOMAIN requests'
         /\ \E r \in DOMAIN requests' : r.for = for
<1>1. requests' = BagAdd(requests, Request(for)) /\ IsABag(requests)
      /\ DOMAIN requests \subseteq Requests
  BY DEF Download, TypeOK
<1>2. IsABag(requests') /\ DOMAIN requests' = DOMAIN requests \cup {Request(for)}
  BY <1>1, BagAddFacts
<1>3. Request(for) \in Requests /\ Request(for).for = for
  BY RequestFacts
<1> QED BY <1>1, <1>2, <1>3

LEMMA AddTimerFacts ==
  ASSUME NEW bag, IsABag(bag), DOMAIN bag \subseteq Nat, NEW d \in Nat,
         AddTimer(bag, d)
  PROVE  /\ IsABag(timers') /\ DOMAIN timers' \subseteq Nat
         /\ DOMAIN timers' = DOMAIN bag \cup {d}
BY BagAddFacts DEF AddTimer

LEMMA ItemFacts ==
  ASSUME NEW q \in Seq(Items), q # <<>>
  PROVE  /\ Head(q).dur \in Nat /\ Head(q).for \in {"variant", "segment"}
         /\ Head(q) \in Items /\ Tail(q) \in Seq(Items)
BY DEF Items
-----------------------------------------------------------------------------
LEMMA TypeInit == Init => TypeOK
<1> SUFFICES ASSUME Init PROVE TypeOK
  OBVIOUS
<1>1. Request("main") \in Requests
  BY ConstantsAssumption DEF Init, Request, Requests
<1>2. IsABag(timers) /\ DOMAIN timers = {}
  BY DEF Init, EmptyBag, SetToBag, IsABag
<1>3. IsABag(requests) /\ DOMAIN requests = {Request("main")}
  BY DEF Init, SetToBag, IsABag
<1>4. queue \in Seq(Items) /\ todo \in Seq(Items)
  BY DEF Init
<1>5. now \in 0 .. MaxTime /\ nextMoment \in Nat /\ busyBy \in Nat
  BY ConstantsAssumption DEF Init
<1>6. status = "live" /\ isEndlist = FALSE /\ lost = FALSE
  BY DEF Init
<1> QED BY <1>1, <1>2, <1>3, <1>4, <1>5, <1>6 DEF TypeOK

LEMMA TypeStep == TypeOK /\ [Next]_vars => TypeOK'
<1> SUFFICES ASSUME TypeOK, [Next]_vars PROVE TypeOK'
  OBVIOUS
<1> USE ConstantsAssumption
<1>a. \A r \in DOMAIN requests :
        /\ IsABag(BagRemove(requests, r))
        /\ DOMAIN BagRemove(requests, r) \subseteq Requests
        /\ r \in Requests /\ r.by \in Nat
  BY BagRemoveFacts DEF TypeOK, Requests
<1>1. ASSUME NEW r \in DOMAIN requests, NEW p \in Playlists, HandleM3u8Resp(r, p)
      PROVE  TypeOK'
  <2>1. p.items \in Seq(Items) /\ p.endlist \in BOOLEAN
    OBVIOUS
  <2>2. CASE UseDeleted
    BY <1>1, <1>a, <2>2 DEF HandleM3u8Resp, UseDeleted, task, TypeOK
  <2>3. CASE ~UseDeleted
    BY <1>1, <1>a, <2>1, <2>3 DEF HandleM3u8Resp, TypeOK
  <2> QED BY <2>2, <2>3
<1>2. CASE HandleItem
  <2>1. /\ Head(todo).dur \in Nat /\ Head(todo) \in Items
        /\ Head(todo).for \in {"main", "variant", "segment"}
        /\ todo' = Tail(todo) /\ Tail(todo) \in Seq(Items)
    BY <1>2, ItemFacts DEF HandleItem, TypeOK
  <2>2. CASE nextMoment <= now
    <3>1. nextMoment' = nextMoment + Head(todo).dur /\ AddTimer(timers, nextMoment')
          /\ Download(requests, Head(todo).for) /\ UNCHANGED queue
      BY <1>2, <2>2 DEF HandleItem
    <3>2. nextMoment' \in Nat
      BY <2>1, <3>1 DEF TypeOK
    <3>3. IsABag(timers') /\ DOMAIN timers' \subseteq Nat
      BY <3>1, <3>2, AddTimerFacts DEF TypeOK
    <3>4. IsABag(requests') /\ DOMAIN requests' \subseteq Requests
      BY <2>1, <3>1, DownloadFacts
    <3> QED BY <1>2, <2>1, <3>1, <3>2, <3>3, <3>4 DEF HandleItem, TypeOK
  <2>3. CASE ~(nextMoment <= now)
    <3>1. /\ queue' = Append(queue, Head(todo))
          /\ UNCHANGED <<nextMoment, timers, requests>>
      BY <1>2, <2>3 DEF HandleItem
    <3>2. queue' \in Seq(Items)
      BY <2>1, <3>1 DEF TypeOK
    <3> QED BY <1>2, <2>1, <3>1, <3>2 DEF HandleItem, TypeOK
  <2> QED BY <2>2, <2>3
<1>3. ASSUME NEW r \in DOMAIN requests, HandleSegmentResp(r) PROVE TypeOK'
  <2>1. CASE UseDeleted
    BY <1>3, <1>a, <2>1 DEF HandleSegmentResp, UseDeleted, task, TypeOK
  <2>2. CASE ~UseDeleted
    BY <1>3, <1>a, <2>2 DEF HandleSegmentResp, task, TypeOK
  <2> QED BY <2>1, <2>2
<1>4. ASSUME NEW r \in DOMAIN requests, Lose(r) PROVE TypeOK'
  BY <1>4, <1>a DEF Lose, task, TypeOK
<1>5. ASSUME NEW d \in DOMAIN timers, OnTimer(d) PROVE TypeOK'
  <2> DEFINE rest == BagRemove(timers, d)
  <2>1. IsABag(rest) /\ DOMAIN rest \subseteq Nat
    BY BagRemoveFacts DEF TypeOK
  <2>2. \/ timers' = rest /\ UseDeleted /\ UNCHANGED requests
        \/ /\ PlayNext(rest) \/ Refresh(rest) \/ OnTaskComplete(rest)
           /\ status = "live"
           /\ UNCHANGED <<now, todo, busyBy, lost>>
    BY <1>5 DEF OnTimer
  <2> HIDE DEF rest
  <2>3. CASE timers' = rest /\ UseDeleted /\ UNCHANGED requests
    BY <2>1, <2>3 DEF UseDeleted, task, TypeOK
  <2>4. CASE PlayNext(rest) /\ UNCHANGED <<now, todo, busyBy, lost>>
    <3>1. /\ Head(queue).dur \in Nat /\ Tail(queue) \in Seq(Items)
          /\ Head(queue).for \in {"main", "variant", "segment"}
      BY <2>4, ItemFacts DEF PlayNext, TypeOK
    <3>2. nextMoment' \in Nat
      BY <2>4, <3>1 DEF PlayNext, TypeOK
    <3>3. IsABag(timers') /\ DOMAIN timers' \subseteq Nat
      BY <2>1, <2>4, <3>2, AddTimerFacts DEF PlayNext
    <3>4. IsABag(requests') /\ DOMAIN requests' \subseteq Requests
      BY <2>4, <3>1, DownloadFacts DEF PlayNext
    <3> QED BY <2>4, <3>1, <3>2, <3>3, <3>4 DEF PlayNext, TypeOK
  <2>5. CASE Refresh(rest) /\ UNCHANGED <<now, todo, busyBy, lost>>
    <3>1. IsABag(requests') /\ DOMAIN requests' \subseteq Requests
      BY <2>5, DownloadFacts DEF Refresh
    <3> QED BY <2>1, <2>5, <3>1 DEF Refresh, task, TypeOK
  <2>6. CASE OnTaskComplete(rest) /\ UNCHANGED <<now, todo, busyBy, lost>>
    BY <2>1, <2>6 DEF OnTaskComplete, task, TypeOK
  <2> QED BY <2>2, <2>3, <2>4, <2>5, <2>6
<1>6. CASE Tick
  BY <1>6 DEF Tick, task, TypeOK
<1>7. CASE UNCHANGED vars
  BY <1>7 DEF vars, TypeOK
<1> QED BY <1>1, <1>2, <1>3, <1>4, <1>5, <1>6, <1>7 DEF Next, Callback

\* Whatever servers send, a player's state keeps its type.
THEOREM TypeCorrect == Spec => []TypeOK
BY TypeInit, TypeStep, PTL DEF Spec
-----------------------------------------------------------------------------
(* A player does not stall *)

StallInv == TypeOK /\ QueueIsServed /\ NoStall

LEMMA StallInit == Init => StallInv
<1> SUFFICES ASSUME Init PROVE StallInv
  OBVIOUS
<1>1. TypeOK
  BY TypeInit
<1>2. ~(nextMoment > now)
  BY DEF Init
<1>3. Request("main") \in DOMAIN requests /\ Request("main").for = "main"
  BY DEF Init, SetToBag, Request
<1> QED BY <1>1, <1>2, <1>3 DEF StallInv, QueueIsServed, NoStall, MainInFlight

\* Taking one timer or request away leaves every other.
LEMMA OthersStay ==
  ASSUME NEW B, IsABag(B), NEW x, NEW y \in DOMAIN B, y # x
  PROVE  y \in DOMAIN BagRemove(B, x)
BY BagRemoveFacts

LEMMA StallStep == StallInv /\ [Next]_vars => StallInv'
<1> SUFFICES ASSUME StallInv, [Next]_vars PROVE QueueIsServed' /\ NoStall'
  BY TypeStep DEF StallInv
<1>a. TypeOK /\ QueueIsServed /\ NoStall /\ IsABag(timers) /\ IsABag(requests)
      /\ DOMAIN timers \subseteq Nat /\ now \in Nat /\ nextMoment \in Nat
      /\ queue \in Seq(Items) /\ todo \in Seq(Items)
  BY ConstantsAssumption DEF StallInv, TypeOK
\* An answer that is no playlist request's takes no playlist request away.
<1>b. ASSUME NEW r \in DOMAIN requests, r.for # "main", MainInFlight,
             requests' = BagRemove(requests, r)
      PROVE  MainInFlight'
  <2>1. PICK q \in DOMAIN requests : q.for = "main"
    BY <1>b DEF MainInFlight
  <2>2. q \in DOMAIN requests'
    BY <1>a, <1>b, <2>1, OthersStay
  <2> QED BY <2>1, <2>2 DEF MainInFlight
\* A callback that arms a timer where it moves NextMoment to serves the queue.
<1>c. ASSUME NEW d \in Nat, d \in DOMAIN timers', nextMoment' = d, lost' = lost
      PROVE  QueueIsServed' /\ NoStall'
  BY <1>c DEF QueueIsServed, NoStall
<1>1. ASSUME NEW r \in DOMAIN requests, NEW p \in Playlists, HandleM3u8Resp(r, p)
      PROVE  QueueIsServed' /\ NoStall'
  <2>1. CASE UseDeleted
    BY <2>1 DEF UseDeleted, QueueIsServed, NoStall
  <2>2. CASE ~UseDeleted
    <3>1. /\ status' = "live" /\ status = "live" /\ todo = <<>>
          /\ UNCHANGED <<timers, now, nextMoment>>
          /\ requests' = BagRemove(requests, r)
          /\ todo' = p.items
          /\ lost' = (lost \/ (r.for = "main" /\ p.items = <<>>))
      BY <1>1, <2>2 DEF HandleM3u8Resp, Idle
    <3>2. QueueIsServed'
      BY <1>a, <3>1 DEF QueueIsServed
    <3>3. NoStall'
      <4>1. CASE lost' \/ todo' # <<>> \/ DOMAIN timers # {}
        BY <3>1, <4>1 DEF NoStall
      <4>2. CASE ~lost' /\ todo' = <<>> /\ DOMAIN timers = {}
        <5>1. ~lost /\ r.for # "main"
          BY <3>1, <4>2
        <5>2. MainInFlight
          BY <1>a, <3>1, <4>2, <5>1 DEF NoStall
        <5> QED BY <1>b, <3>1, <5>1, <5>2 DEF NoStall
      <4> QED BY <4>1, <4>2
    <3> QED BY <3>2, <3>3
  <2> QED BY <2>1, <2>2
<1>2. CASE HandleItem
  <2>1. status' = status /\ now' = now /\ lost' = lost
    BY <1>2 DEF HandleItem
  <2>2. CASE nextMoment <= now
    <3>1. nextMoment' = nextMoment + Head(todo).dur /\ AddTimer(timers, nextMoment')
      BY <1>2, <2>2 DEF HandleItem
    <3>2. nextMoment' \in Nat
      BY <1>2, <1>a, <3>1, ItemFacts DEF HandleItem
    <3>3. DOMAIN timers' = DOMAIN timers \cup {nextMoment'}
      BY <1>a, <3>1, <3>2, AddTimerFacts
    <3>4. nextMoment' \in DOMAIN timers'
      BY <3>3
    <3> QED BY <1>c, <2>1, <3>2, <3>4
  <2>3. CASE ~(nextMoment <= now)
    <3>1. UNCHANGED <<nextMoment, timers>> /\ nextMoment > now
      BY <1>2, <1>a, <2>3 DEF HandleItem
    <3> QED BY <1>a, <2>1, <3>1 DEF QueueIsServed, NoStall
  <2> QED BY <2>2, <2>3
<1>3. ASSUME NEW r \in DOMAIN requests, HandleSegmentResp(r)
      PROVE  QueueIsServed' /\ NoStall'
  <2>1. CASE UseDeleted
    BY <2>1 DEF UseDeleted, QueueIsServed, NoStall
  <2>2. CASE ~UseDeleted
    <3>1. /\ UNCHANGED <<timers, now, status, nextMoment, todo>>
          /\ requests' = BagRemove(requests, r)
          /\ lost' = (lost \/ r.for = "main")
      BY <1>3, <2>2 DEF HandleSegmentResp, task
    <3> QED BY <1>a, <1>b, <3>1 DEF QueueIsServed, NoStall
  <2> QED BY <2>1, <2>2
<1>4. ASSUME NEW r \in DOMAIN requests, Lose(r)
      PROVE  QueueIsServed' /\ NoStall'
  <2>1. /\ UNCHANGED <<timers, now, status, nextMoment, todo>>
        /\ requests' = BagRemove(requests, r)
        /\ lost' = (lost \/ r.for = "main")
    BY <1>4 DEF Lose, task
  <2> QED BY <1>a, <1>b, <2>1 DEF QueueIsServed, NoStall
<1>5. ASSUME NEW d \in DOMAIN timers, OnTimer(d)
      PROVE  QueueIsServed' /\ NoStall'
  <2> DEFINE rest == BagRemove(timers, d)
  <2>1. IsABag(rest) /\ DOMAIN rest \subseteq Nat /\ d <= now
        /\ \A e \in DOMAIN timers : e # d => e \in DOMAIN rest
    BY <1>5, <1>a, BagRemoveFacts, OthersStay DEF OnTimer
  <2>2. \/ UseDeleted
        \/ /\ PlayNext(rest) \/ Refresh(rest) \/ OnTaskComplete(rest)
           /\ status = "live"
           /\ UNCHANGED <<now, todo, busyBy, lost>>
    BY <1>5 DEF OnTimer
  <2> HIDE DEF rest
  <2>3. CASE UseDeleted
    BY <2>3 DEF UseDeleted, QueueIsServed, NoStall
  <2>4. CASE PlayNext(rest) /\ UNCHANGED <<now, todo, busyBy, lost>>
    <3>1. nextMoment' = nextMoment + Head(queue).dur /\ AddTimer(rest, nextMoment')
      BY <2>4 DEF PlayNext
    <3>2. nextMoment' \in Nat
      BY <1>a, <2>4, <3>1, ItemFacts DEF PlayNext
    <3>3. DOMAIN timers' = DOMAIN rest \cup {nextMoment'}
      BY <2>1, <3>1, <3>2, AddTimerFacts
    <3>4. nextMoment' \in DOMAIN timers'
      BY <3>3
    <3> QED BY <1>c, <2>4, <3>2, <3>4
  <2>5. CASE Refresh(rest) /\ UNCHANGED <<now, todo, busyBy, lost>>
    <3>1. MainInFlight'
      BY <1>a, <2>5, DownloadFacts DEF Refresh, MainInFlight
    <3>2. UNCHANGED <<status, now, nextMoment>> /\ timers' = rest
      BY <2>5 DEF Refresh, task
    <3>3. QueueIsServed'
      <4> SUFFICES ASSUME status = "live", nextMoment > now
                   PROVE  \E e \in DOMAIN rest : e >= nextMoment
        BY <3>2 DEF QueueIsServed
      <4>1. PICK e \in DOMAIN timers : e >= nextMoment
        BY <1>a DEF QueueIsServed
      <4>2. e # d
        BY <1>a, <2>1, <4>1
      <4> QED BY <2>1, <4>1, <4>2
    <3> QED BY <3>1, <3>3 DEF NoStall
  <2>6. CASE OnTaskComplete(rest)
    BY <2>6 DEF OnTaskComplete, QueueIsServed, NoStall
  <2> QED BY <2>2, <2>3, <2>4, <2>5, <2>6
<1>6. CASE Tick
  <2>1. now' \in Nat /\ now' >= now
    BY <1>6, <1>a DEF Tick
  <2>2. UNCHANGED <<status, nextMoment, todo, timers, requests, lost>>
    BY <1>6 DEF Tick, task
  <2>3. QueueIsServed'
    BY <1>a, <2>1, <2>2 DEF QueueIsServed
  <2>4. NoStall'
    BY <1>a, <2>2 DEF NoStall, MainInFlight
  <2> QED BY <2>3, <2>4
<1>7. CASE UNCHANGED vars
  BY <1>7, <1>a DEF vars, QueueIsServed, NoStall, MainInFlight
<1> QED BY <1>1, <1>2, <1>3, <1>4, <1>5, <1>6, <1>7 DEF Next, Callback

\* A live player always has a timer or its playlist to wait for, unless a
\* playlist was lost, refused or empty, however requests and timers interleave.
THEOREM PlayersDoNotStall == Spec => []NoStall
<1>1. StallInv => NoStall
  BY DEF StallInv
<1> QED BY <1>1, StallInit, StallStep, PTL DEF Spec

\* While a player is ahead of the clock, a timer is pending that reaches its
\* NextMoment, so no entry is queued for nobody.
THEOREM QueuesAreServed == Spec => []QueueIsServed
<1>1. StallInv => QueueIsServed
  BY DEF StallInv
<1> QED BY <1>1, StallInit, StallStep, PTL DEF Spec
-----------------------------------------------------------------------------
(* Bags of one element *)

\* The equation of the fold that BagCardinality is.
Partial(B, g) ==
  g = [S \in SUBSET DOMAIN B |->
         LET elt == CHOOSE e \in S : TRUE
         IN  IF S = {} THEN 0 ELSE B[elt] + g[S \ {elt}]]
LEMMA OneInBag ==
  ASSUME NEW x
  PROVE  BagCardinality(SetToBag({x})) = 1
<1> DEFINE B == SetToBag({x})
           h == CHOOSE g : Partial(B, g)
<1>1. BagCardinality(B) = h[DOMAIN B]
  BY DEF BagCardinality, Partial
<1>2. DOMAIN B = {x} /\ B[x] = 1
  BY DEF SetToBag
<1>3. \E g : Partial(B, g)
  <2> DEFINE g == [S \in SUBSET {x} |-> IF S = {} THEN 0 ELSE 1]
  <2>1. \A S \in SUBSET {x} : S # {} => S = {x} /\ (CHOOSE e \in S : TRUE) = x
    OBVIOUS
  <2> HIDE DEF B
  <2>2. Partial(B, g)
    BY <1>2, <2>1 DEF Partial
  <2> QED BY <2>2
<1>4. Partial(B, h)
  BY <1>3
<1> HIDE DEF B, h
<1>5. \A S \in SUBSET {x} : h[S] = LET elt == CHOOSE e \in S : TRUE
         IN  IF S = {} THEN 0 ELSE B[elt] + h[S \ {elt}]
  BY <1>2, <1>4 DEF Partial
<1>6. h[{}] = 0
  BY <1>5
<1>7. (CHOOSE e \in {x} : TRUE) = x /\ {x} \ {x} = {} /\ {x} # {}
  OBVIOUS
<1>8. h[{x}] = B[x] + h[{}]
  BY <1>5, <1>7
<1>9. h[{x}] = 1
  BY <1>2, <1>6, <1>8
<1> QED BY <1>1, <1>2, <1>9 DEF B

LEMMA NoneInBag == BagCardinality(EmptyBag) = 0 /\ DOMAIN EmptyBag = {}
BY DEF BagCardinality, EmptyBag, SetToBag

LEMMA SingleBag ==
  ASSUME NEW x
  PROVE  /\ BagAdd(EmptyBag, x) = SetToBag({x})
         /\ BagRemove(SetToBag({x}), x) = EmptyBag
         /\ DOMAIN SetToBag({x}) = {x}
<1>1. DOMAIN SetToBag({x}) = {x} /\ SetToBag({x})[x] = 1 /\ DOMAIN EmptyBag = {}
  BY DEF SetToBag, EmptyBag
<1>2. BagAdd(EmptyBag, x) = SetToBag({x})
  BY <1>1 DEF BagAdd, SetToBag
<1>3. BagRemove(SetToBag({x}), x) = EmptyBag
  BY <1>1 DEF BagRemove, EmptyBag, SetToBag
<1> QED BY <1>1, <1>2, <1>3
-----------------------------------------------------------------------------
(* A player whose servers and timers are not late *)

\* How late a timer, the playlist it refreshes and a segment of that can be in a row.
Margin == Slack + 2 * Lag - 2
LongSegments == {item \in Items : item.for = "segment" /\ item.dur >= Margin}

\* No request fails, and the playlists list segments, of which each lasts no shorter
\* than what comes after it can be late.
Timely ==
  ~Faulty /\ \A p \in Playlists : p.items \in Seq(LongSegments) /\ p.items # <<>>

\* The playlist is on its way; its entries are being walked over and none is played; a
\* segment plays, and the timer for its end is pending; the task is deleted.
Waiting ==
  /\ timers = EmptyBag /\ todo = <<>> /\ queue = <<>> /\ nextMoment <= now
  /\ \E r \in Requests : /\ requests = SetToBag({r}) /\ r.for = "main"
                         /\ now < r.by /\ r.by <= nextMoment + Slack + Lag - 1
Walking ==
  /\ timers = EmptyBag /\ requests = EmptyBag /\ todo # <<>> /\ queue = <<>>
  /\ nextMoment <= now /\ now < busyBy /\ busyBy <= nextMoment + Slack + Lag - 1
Playing ==
  /\ timers = SetToBag({nextMoment}) /\ now < nextMoment + Slack
  /\ todo # <<>> => now < busyBy /\ busyBy <= nextMoment
  /\ \/ requests = EmptyBag
     \/ \E r \in Requests : /\ requests = SetToBag({r}) /\ r.for = "segment"
                            /\ now < r.by /\ r.by <= nextMoment
Over == timers = EmptyBag /\ requests = EmptyBag /\ todo = <<>>

Clocked ==
  /\ TypeOK
  /\ queue \in Seq(LongSegments) /\ todo \in Seq(LongSegments)
  /\ \/ status = "live" /\ (Waiting \/ Walking \/ Playing)
     \/ status = "deleted" /\ Over

LEMMA LongFacts ==
  ASSUME NEW q \in Seq(LongSegments), q # <<>>
  PROVE  /\ Head(q).dur \in Nat /\ Head(q).dur >= Margin /\ Head(q).for = "segment"
         /\ Head(q) \in LongSegments /\ Tail(q) \in Seq(LongSegments)
<1>1. Head(q) \in LongSegments /\ Tail(q) \in Seq(LongSegments)
  OBVIOUS
<1> QED BY <1>1 DEF LongSegments, Items

LEMMA RequestInTime ==
  ASSUME TypeOK, NEW for \in {"main", "variant", "segment"}
  PROVE  /\ Request(for) \in Requests /\ Request(for).for = for
         /\ now < Request(for).by /\ Request(for).by <= now + Lag
BY ConstantsAssumption DEF Request, Requests, TypeOK

LEMMA Late ==
  ASSUME NEW a \in Nat, NEW b \in Nat, NEW c \in Nat, a - b < c
  PROVE  a < b + c
OBVIOUS

LEMMA ClockedInit == Timely /\ Init => Clocked
<1> SUFFICES ASSUME Timely, Init PROVE Clocked
  OBVIOUS
<1>1. TypeOK
  BY TypeInit
<1>2. requests = SetToBag({Request("main")}) /\ now = 0 /\ nextMoment = 0
  BY DEF Init
<1>3. /\ Request("main") \in Requests /\ Request("main").for = "main"
      /\ now < Request("main").by /\ Request("main").by <= now + Lag
  BY <1>1, RequestInTime
<1>4. Request("main").by <= nextMoment + Slack + Lag - 1
  BY <1>2, <1>3, ConstantsAssumption DEF Requests
<1>5. Waiting
  <2>1. timers = EmptyBag /\ todo = <<>> /\ queue = <<>> /\ nextMoment <= now
    BY <1>2 DEF Init
  <2> QED BY <1>2, <1>3, <1>4, <2>1 DEF Waiting
<1> QED BY <1>1, <1>5 DEF Clocked, Init

LEMMA ClockedStep == Timely /\ Clocked /\ [Next]_vars => Clocked'
<1> SUFFICES ASSUME Timely, Clocked, [Next]_vars
             PROVE  /\ queue' \in Seq(LongSegments) /\ todo' \in Seq(LongSegments)
                    /\ \/ status' = "live" /\ (Waiting \/ Walking \/ Playing)'
                       \/ status' = "deleted" /\ Over'
  BY TypeStep DEF Clocked
<1>a. /\ TypeOK /\ now \in Nat /\ nextMoment \in Nat /\ busyBy \in Nat
      /\ Slack \in Nat \ {0} /\ Lag \in Nat \ {0}
      /\ Margin \in Nat /\ Margin = Slack + 2 * Lag - 2
      /\ queue \in Seq(LongSegments) /\ todo \in Seq(LongSegments)
  BY ConstantsAssumption DEF Clocked, TypeOK, Margin
<1>b. \A r : requests = SetToBag({r}) =>
        DOMAIN requests = {r} /\ BagRemove(requests, r) = EmptyBag
  BY SingleBag
<1>c. requests = EmptyBag => DOMAIN requests = {}
  BY NoneInBag
<1>1. ASSUME NEW r \in DOMAIN requests, NEW p \in Playlists, HandleM3u8Resp(r, p)
      PROVE  /\ queue' \in Seq(LongSegments) /\ todo' \in Seq(LongSegments)
             /\ status' = "live" /\ Walking'
  <2>1. r.for \in {"main", "variant"} /\ todo = <<>>
    BY <1>1 DEF HandleM3u8Resp, Timely, Idle
  <2>2. status = "live" /\ Waiting
    BY <1>b, <1>c, <2>1 DEF Clocked, Walking, Playing, Over
  <2>3. requests = SetToBag({r}) /\ now < r.by /\ r.by <= nextMoment + Slack + Lag - 1
    BY <1>b, <2>2 DEF Waiting
  <2>4. /\ requests' = EmptyBag /\ timers' = timers /\ todo' = p.items /\ busyBy' = r.by
        /\ UNCHANGED <<now, status, nextMoment, queue>>
    BY <1>1, <1>b, <2>2, <2>3 DEF HandleM3u8Resp, UseDeleted
  <2>5. p.items \in Seq(LongSegments) /\ p.items # <<>>
    BY DEF Timely
  <2> QED BY <1>a, <2>2, <2>3, <2>4, <2>5 DEF Waiting, Walking
<1>2. CASE HandleItem
  <2>1. /\ todo # <<>> /\ todo' = Tail(todo) /\ UNCHANGED <<now, status, busyBy>>
    BY <1>2 DEF HandleItem
  <2>2. status = "live" /\ (Walking \/ Playing)
    BY <2>1 DEF Clocked, Waiting, Over
  <2>3. /\ Head(todo).dur \in Nat /\ Head(todo).dur >= Margin /\ Head(todo).for = "segment"
        /\ Head(todo) \in LongSegments /\ Tail(todo) \in Seq(LongSegments)
    BY <1>a, <2>1, LongFacts
  <2>4. CASE Walking
    <3>1. /\ nextMoment' = nextMoment + Head(todo).dur /\ AddTimer(timers, nextMoment')
          /\ Download(requests, Head(todo).for) /\ queue' = queue
      BY <1>2, <2>4 DEF HandleItem, Walking
    <3>2. timers' = SetToBag({nextMoment'}) /\ requests' = SetToBag({Request("segment")})
      BY <2>3, <2>4, <3>1, SingleBag DEF AddTimer, Download, Walking
    <3>3. /\ Request("segment") \in Requests /\ Request("segment").for = "segment"
          /\ now < Request("segment").by /\ Request("segment").by <= now + Lag
          /\ Request("segment").by \in Nat
      BY <1>a, RequestInTime DEF Requests
    <3>4. now < busyBy /\ busyBy <= nextMoment + Slack + Lag - 1
      BY <2>4 DEF Walking
    <3>5. nextMoment' >= nextMoment + Slack + 2 * Lag - 2
      BY <1>a, <2>3, <3>1
    <3>6. busyBy <= nextMoment' /\ Request("segment").by <= nextMoment' /\ now < nextMoment' + Slack
      BY <1>a, <2>3, <3>1, <3>3, <3>4, <3>5
    <3>7. Playing'
      BY <2>1, <3>2, <3>3, <3>4, <3>6 DEF Playing
    <3> QED BY <1>a, <2>1, <2>2, <2>3, <3>1, <3>7
  <2>5. CASE Playing
    <3>1. now < busyBy /\ busyBy <= nextMoment
      BY <2>1, <2>5 DEF Playing
    <3>2. ~(nextMoment <= now)
      BY <1>a, <3>1
    <3>3. queue' = Append(queue, Head(todo)) /\ UNCHANGED <<nextMoment, timers, requests>>
      BY <1>2, <3>2 DEF HandleItem
    <3>4. queue' \in Seq(LongSegments)
      BY <1>a, <2>3, <3>3
    <3>5. Playing'
      BY <2>1, <2>5, <3>1, <3>3 DEF Playing
    <3> QED BY <2>1, <2>2, <2>3, <3>4, <3>5
  <2> QED BY <2>2, <2>4, <2>5
<1>3. ASSUME NEW r \in DOMAIN requests, HandleSegmentResp(r)
      PROVE  /\ queue' = queue /\ todo' = todo
             /\ status' = "live" /\ Playing'
  <2>1. r.for = "segment" /\ todo = <<>>
    BY <1>3 DEF HandleSegmentResp, Timely, Idle
  <2>2. status = "live" /\ Playing
    BY <1>b, <1>c, <2>1 DEF Clocked, Waiting, Walking, Over
  <2>3. requests = SetToBag({r})
    BY <1>b, <1>c, <2>2 DEF Playing
  <2>4. requests' = EmptyBag /\ timers' = timers /\ UNCHANGED <<now, status, task, todo, busyBy>>
    BY <1>3, <1>b, <2>2, <2>3 DEF HandleSegmentResp, UseDeleted
  <2> QED BY <2>2, <2>4 DEF Playing, task
<1>4. ASSUME NEW r \in DOMAIN requests, Lose(r) PROVE FALSE
  BY <1>4 DEF Lose, Timely
<1>5. ASSUME NEW d \in DOMAIN timers, OnTimer(d)
      PROVE  /\ queue' \in Seq(LongSegments) /\ todo' = todo
             /\ \/ status' = "live" /\ (Waiting \/ Playing)'
                \/ status' = "deleted" /\ Over'
  <2>1. status = "live" /\ Playing /\ todo = <<>>
    BY <1>5, NoneInBag DEF Clocked, Waiting, Walking, Over, OnTimer, Idle
  <2>2. d = nextMoment /\ BagRemove(timers, d) = EmptyBag
    BY <2>1, SingleBag DEF Playing
  <2>3. nextMoment <= now /\ now < nextMoment + Slack
    BY <1>5, <2>1, <2>2 DEF OnTimer, Playing
  <2>4. requests = EmptyBag
    <3>1. \A r \in Requests : ~(now < r.by /\ r.by <= nextMoment)
      BY <1>a, <2>3 DEF Requests
    <3> QED BY <2>1, <3>1 DEF Playing
  <2>5. /\ PlayNext(EmptyBag) \/ Refresh(EmptyBag) \/ OnTaskComplete(EmptyBag)
        /\ UNCHANGED <<now, todo, busyBy, lost>>
    BY <1>5, <2>1, <2>2 DEF OnTimer, UseDeleted
  <2>6. CASE PlayNext(EmptyBag)
    <3>1. /\ queue # <<>> /\ queue' = Tail(queue)
          /\ nextMoment' = nextMoment + Head(queue).dur /\ AddTimer(EmptyBag, nextMoment')
          /\ Download(requests, Head(queue).for) /\ status' = status
      BY <2>6 DEF PlayNext
    <3>2. /\ Head(queue).dur \in Nat /\ Head(queue).dur >= Margin
          /\ Head(queue).for = "segment" /\ Tail(queue) \in Seq(LongSegments)
      BY <1>a, <3>1, LongFacts
    <3>3. timers' = SetToBag({nextMoment'}) /\ requests' = SetToBag({Request("segment")})
      BY <2>4, <3>1, <3>2, SingleBag DEF AddTimer, Download
    <3>4. /\ Request("segment") \in Requests /\ Request("segment").for = "segment"
          /\ now < Request("segment").by /\ Request("segment").by <= now + Lag
          /\ Request("segment").by \in Nat
      BY <1>a, RequestInTime DEF Requests
    <3>5. Request("segment").by <= nextMoment' /\ now < nextMoment' + Slack
      BY <1>a, <2>3, <3>1, <3>2, <3>4
    <3>6. Playing'
      BY <2>1, <2>5, <3>3, <3>4, <3>5 DEF Playing
    <3> QED BY <2>1, <2>5, <3>1, <3>2, <3>6
  <2>7. CASE Refresh(EmptyBag)
    <3>1. /\ timers' = EmptyBag /\ requests' = SetToBag({Request("main")})
          /\ queue = <<>> /\ UNCHANGED <<status, nextMoment, queue>>
      BY <2>4, <2>7, SingleBag DEF Refresh, Download, task
    <3>2. /\ Request("main") \in Requests /\ Request("main").for = "main"
          /\ now < Request("main").by /\ Request("main").by <= now + Lag
          /\ Request("main").by \in Nat
      BY <1>a, RequestInTime DEF Requests
    <3>3. Request("main").by <= nextMoment + Slack + Lag - 1
      BY <1>a, <2>3, <3>2
    <3>4. Waiting'
      BY <2>1, <2>3, <2>5, <3>1, <3>2, <3>3 DEF Waiting
    <3> QED BY <1>a, <2>1, <2>5, <3>1, <3>4
  <2>8. CASE OnTaskComplete(EmptyBag)
    BY <1>a, <2>1, <2>4, <2>5, <2>8 DEF OnTaskComplete, Over, task
  <2> QED BY <2>5, <2>6, <2>7, <2>8
<1>6. CASE Tick
  <2>1. UNCHANGED <<status, nextMoment, queue, todo, busyBy, timers, requests>>
    BY <1>6 DEF Tick, task
  <2>2. /\ now' \in Nat /\ now' >= now
        /\ \/ now' = now
           \/ /\ \A d \in DOMAIN timers : now' - d < Slack
              /\ \A r \in DOMAIN requests : now' < r.by
              /\ todo # <<>> => now' < busyBy
    BY <1>6, <1>a DEF Tick
  <2>3. ASSUME NEW r \in Requests, requests = SetToBag({r}), now < r.by PROVE now' < r.by
    BY <1>b, <2>2, <2>3
  <2>4. ASSUME Waiting PROVE Waiting'
    <3>1. nextMoment <= now'
      BY <1>a, <2>2, <2>4 DEF Waiting
    <3> QED BY <2>1, <2>3, <2>4, <3>1 DEF Waiting
  <2>5. ASSUME Walking PROVE Walking'
    <3>1. nextMoment <= now' /\ now' < busyBy
      BY <1>a, <2>2, <2>5 DEF Walking
    <3> QED BY <2>1, <2>5, <3>1 DEF Walking
  <2>6. ASSUME Playing PROVE Playing'
    <3>1. DOMAIN timers = {nextMoment}
      BY <2>6, SingleBag DEF Playing
    <3>2. ASSUME now' # now PROVE now' - nextMoment < Slack
      BY <2>2, <3>1, <3>2
    <3>3. now < nextMoment + Slack
      BY <2>6 DEF Playing
    <3>4. now' < nextMoment + Slack
      <4>1. /\ now' \in Nat /\ now \in Nat /\ nextMoment \in Nat /\ Slack \in Nat
            /\ now' # now => now' - nextMoment < Slack
        BY <1>a, <2>2, <3>2
      <4>2. CASE now' = now
        BY <3>3, <4>2
      <4>3. CASE now' # now
        <5>1. now' - nextMoment < Slack
          BY <4>1, <4>3
        <5> QED BY <4>1, <5>1, Late
      <4> QED BY <4>2, <4>3
    <3>5. todo # <<>> => now' < busyBy
      BY <2>2, <2>6 DEF Playing
    <3> QED BY <2>1, <2>3, <2>6, <3>4, <3>5 DEF Playing
  <2>7. Over => Over'
    BY <2>1 DEF Over
  <2> QED BY <1>a, <2>1, <2>4, <2>5, <2>6, <2>7 DEF Clocked
<1>7. CASE UNCHANGED vars
  BY <1>7, <1>a DEF vars, Clocked, Waiting, Walking, Playing, Over
<1> QED BY <1>1, <1>2, <1>3, <1>4, <1>5, <1>6, <1>7, <1>a DEF Next, Callback

LEMMA PlaysInTime == Timely => (Spec => []Clocked)
<1> SUFFICES ASSUME Timely PROVE Spec => []Clocked
  OBVIOUS
<1>1. Init => Clocked
  BY ClockedInit
<1>2. Clocked /\ [Next]_vars => Clocked'
  BY ClockedStep
<1> QED BY <1>1, <1>2, PTL DEF Spec

\* No answer or timer reaches a task that OnTaskComplete has deleted, when servers and
\* timers are late by less than a segment lasts: what a test sees (hls_handler.cpp:25-56,
\* 211-217, 243-248).
THEOREM TasksOutliveTheirWork == Timely => (Spec => []NoUseAfterDelete)
<1>1. Clocked => NoUseAfterDelete
  BY DEF Clocked, NoUseAfterDelete
<1> QED BY <1>1, PlaysInTime, PTL

LEMMA OneOfTwo == TypeOK /\ Clocked => OnePlaybackClock
<1> SUFFICES ASSUME Clocked PROVE OnePlaybackClock
  OBVIOUS
<1> DEFINE Main == {r \in DOMAIN requests : r.for = "main"}
<1>1. CASE Waiting
  <2>1. PICK r : requests = SetToBag({r}) /\ r.for = "main"
    BY <1>1 DEF Waiting
  <2>2. Main = {r}
    BY <2>1, SingleBag
  <2>3. Cardinality(Main) = 1 /\ BagCardinality(timers) = 0
    BY <1>1, <2>2, FS_Singleton, NoneInBag DEF Waiting
  <2> QED BY <2>3 DEF OnePlaybackClock
<1>2. ASSUME DOMAIN requests = {} \/ \E r : requests = SetToBag({r}) /\ r.for # "main"
      PROVE  Cardinality(Main) = 0
  <2>1. \A q \in DOMAIN requests : q.for # "main"
    <3>1. CASE DOMAIN requests = {}
      BY <3>1
    <3>2. ASSUME NEW r, requests = SetToBag({r}), r.for # "main"
          PROVE  \A q \in DOMAIN requests : q.for # "main"
      <4>1. DOMAIN requests = {r}
        BY <3>2, SingleBag
      <4> QED BY <3>2, <4>1
    <3> QED BY <1>2, <3>1, <3>2
  <2>2. Main = {}
    BY <2>1
  <2> QED BY <2>2, FS_EmptySet
<1>3. CASE Walking \/ Over
  <2>1. BagCardinality(timers) = 0 /\ Cardinality(Main) = 0
    BY <1>2, <1>3, NoneInBag DEF Walking, Over
  <2> QED BY <2>1 DEF OnePlaybackClock
<1>4. CASE Playing
  <2>1. BagCardinality(timers) = 1 /\ Cardinality(Main) = 0
    BY <1>2, <1>4, NoneInBag, OneInBag DEF Playing
  <2> QED BY <2>1 DEF OnePlaybackClock
<1> QED BY <1>1, <1>3, <1>4 DEF Clocked

\* A timer or a playlist request is pending, never two of them (hls_handler.cpp:211-248).
THEOREM OneClock == Timely => (Spec => []OnePlaybackClock)
<1>1. Clocked => OnePlaybackClock
  BY OneOfTwo DEF Clocked
<1> QED BY <1>1, PlaysInTime, PTL

LEMMA RequestsCounted ==
  ASSUME Clocked
  PROVE  /\ \/ requests = EmptyBag
            \/ \E r : requests = SetToBag({r})
         /\ BagCardinality(requests) \in {0, 1}
<1>1. requests = EmptyBag \/ \E r : requests = SetToBag({r})
  BY DEF Clocked, Waiting, Walking, Playing, Over
<1>2. BagCardinality(requests) = 0 \/ BagCardinality(requests) = 1
  BY <1>1, NoneInBag, OneInBag
<1> QED BY <1>1, <1>2

LEMMA PlaysWhenDue ==
  Timely /\ Clocked /\ [Next]_vars =>
    (BagCardinality(requests') > BagCardinality(requests) => nextMoment <= now)
<1> SUFFICES ASSUME Timely, Clocked, [Next]_vars, ~(nextMoment <= now)
             PROVE  ~(BagCardinality(requests') > BagCardinality(requests))
  OBVIOUS
<1>0. BagCardinality(requests) \in Nat
  <2>1. BagCardinality(requests) \in {0, 1}
    BY RequestsCounted
  <2>2. \A n \in {0, 1} : n \in Nat
    OBVIOUS
  <2> QED BY <2>1, <2>2, Zenon
<1>1. requests = EmptyBag \/ \E r : requests = SetToBag({r})
  BY RequestsCounted
<1>2. ASSUME requests' = requests
      PROVE  ~(BagCardinality(requests') > BagCardinality(requests))
  <2>1. BagCardinality(requests') = BagCardinality(requests)
    BY <1>2
  <2>2. BagCardinality(requests) \in Nat
    BY <1>0
  <2> QED BY <2>1, <2>2
<1>3. ASSUME NEW r \in DOMAIN requests, requests' = BagRemove(requests, r)
      PROVE  ~(BagCardinality(requests') > BagCardinality(requests))
  <2>1. requests' = EmptyBag
    BY <1>1, <1>3, SingleBag, NoneInBag
  <2>2. BagCardinality(requests') = 0
    BY <2>1, NoneInBag
  <2>3. BagCardinality(requests) \in Nat
    BY <1>0
  <2> QED BY <2>2, <2>3
<1>4. ASSUME NEW r \in DOMAIN requests,
             (\E p \in Playlists : HandleM3u8Resp(r, p)) \/ HandleSegmentResp(r) \/ Lose(r)
      PROVE  requests' = BagRemove(requests, r)
  BY <1>4 DEF HandleM3u8Resp, HandleSegmentResp, Lose
<1>5. CASE HandleItem
  BY <1>2, <1>5 DEF HandleItem
<1>6. ASSUME NEW d \in DOMAIN timers, OnTimer(d) PROVE FALSE
  <2>1. d <= now /\ DOMAIN timers # {}
    BY <1>6 DEF OnTimer
  <2>2. DOMAIN timers = {nextMoment}
    BY <2>1, NoneInBag, SingleBag DEF Clocked, Waiting, Walking, Playing, Over
  <2> QED BY <2>1, <2>2
<1>7. CASE Tick \/ UNCHANGED vars
  BY <1>2, <1>7 DEF Tick, vars
<1> QED BY <1>3, <1>4, <1>5, <1>6, <1>7, <1>2 DEF Next, Callback

\* A segment is requested only when those before it have been played
\* (hls_handler.cpp:86-100, 219-241).
THEOREM PlaysInRealTime == Timely => (Spec => NotAheadOfPlayback)
<1> SUFFICES ASSUME Timely PROVE Spec => NotAheadOfPlayback
  OBVIOUS
<1> DEFINE A == BagCardinality(requests') > BagCardinality(requests) => nextMoment <= now
<1>1. (Clocked /\ Clocked' /\ [Next]_vars) => A
  BY PlaysWhenDue
<1>2. Spec => []Clocked
  BY PlaysInTime
<1> QED BY <1>1, <1>2, PTL DEF NotAheadOfPlayback, Spec
=============================================================================

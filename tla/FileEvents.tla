----------------------------- MODULE FileEvents -----------------------------
(***************************************************************************)
(* The registration of connections with an event loop: the fd table of the    *)
(* process, what the kernel watches for the loop, the events table of the loop *)
(* (ae.c:105-141, 370-389) and what HttpClient does with them                  *)
(* (http_client.cpp:98-115, 283-325).                                         *)
(*                                                                           *)
(* ae.c is built on one of four backends (ae.c:47-61): epoll on Linux, kqueue  *)
(* on BSD, event ports on Solaris, select elsewhere.  They differ in what the   *)
(* kernel keeps and in what a poll reports; the rest of the loop does not know   *)
(* which one it has.                                                          *)
(*                                                                           *)
(* There are two threads and no lock: the loop's own, which polls and runs     *)
(* the callbacks, and main, whose tasks begin their first download on the      *)
(* loop's tables (kick2.cpp:70, 115).  A thread is a list of operations it     *)
(* has still to do: an access to shared memory, or a system call with what it   *)
(* is given.                                                                  *)
(***************************************************************************)
EXTENDS Integers, Sequences, FiniteSets, FiniteSetsExt, Functions

CONSTANTS
  Fds,          \* descriptors
  SetSize,      \* eventLoop->setsize, 20000 (kick2.cpp:44): the table's entries
  MaxConns,     \* bound: connections ever opened
  MaxOpens,     \* bound: requests one answer leads to
  MaxBatch,     \* bound: descriptors one poll finds ready
  Backends,     \* the backends to check
  Interleaved,  \* bound: FALSE for the behaviours that do not become overlapped
  NULL

Conns == 1 .. MaxConns
Events == {"readable", "writable"}
Threads == {"loop", "main"}
AllBackends == {"epoll", "select", "kqueue", "evport"}

ASSUME ConstantsAssumption ==
  /\ Fds \subseteq Nat /\ IsFiniteSet(Fds)
  /\ {SetSize, MaxConns, MaxOpens, MaxBatch} \subseteq Nat
  /\ Interleaved \in BOOLEAN
  /\ Backends \subseteq AllBackends
  /\ NULL \notin Conns

VARIABLES
  file,       \* the fd table: the connection whose socket a descriptor is
  backend,    \* the backend of this build
  interest,   \* what is watched of a descriptor: epoll's list, the sets of select,
              \* the filters of kqueue, the associations of a port
  pending,    \* pending_fds and pending_masks of ae_evport.c, {} for none
  maxfd,      \* eventLoop->maxfd
  mask,       \* fe->mask
  data,       \* fe->clientData: the connection it belongs to
  opened,     \* connections opened so far
  deleted,    \* connections whose ClientData was deleted
  prog,       \* what each thread has still to do
  reg,        \* the mask a thread has read and is about to write
  misuse,     \* a callback got another's or a deleted ClientData
  early,      \* a callback was due of an entry that has no ClientData yet
  stale,      \* a callback got an event of an earlier connection
  failed,     \* the kernel has refused what aeApiAddEvent asked
  aborted,    \* ae_evport.c has called abort
  overlapped  \* history: a thread has gone on while the other was not done

process == <<file, opened, deleted>>
table == <<mask, data, maxfd>>
kernel == <<backend, interest, pending>>
given == <<misuse, early, stale>>
faults == <<given, failed, aborted>>
vars == <<process, table, kernel, prog, reg, faults, overlapped>>

Init ==
  /\ file = [fd \in Fds |-> NULL]
  /\ backend \in Backends
  /\ interest = [fd \in Fds |-> {}]
  /\ pending = [fd \in Fds |-> {}]
  /\ maxfd = -1
  /\ mask = [fd \in Fds |-> {}]
  /\ data = [fd \in Fds |-> NULL]
  /\ opened = 0
  /\ deleted = {}
  /\ prog = [t \in Threads |-> <<>>]
  /\ reg = [t \in Threads |-> {}]
  /\ misuse = FALSE /\ early = FALSE /\ stale = FALSE
  /\ failed = FALSE /\ aborted = FALSE /\ overlapped = FALSE
-----------------------------------------------------------------------------
(* Programs *)

Op(name, fd, evs, conn) == [op |-> name, fd |-> fd, evs |-> evs, conn |-> conn]

\* aeCreateFileEvent (ae.c:105-123): a descriptor beyond the table is refused, and
\* SendMsgAsync does not look at the result.
CreateFileEvent(fd, e, c) ==
  IF fd >= SetSize THEN <<>>
  ELSE <<Op("add", fd, {e}, c), Op("load", fd, {}, c), Op("or", fd, {e}, c),
         Op("data", fd, {}, c), Op("raise", fd, {}, c)>>

\* Mutant: nobody waits for the answer.
AddWriteEvent(fd, c) == CreateFileEvent(fd, "writable", c)

\* SendMsgAsync (http_client.cpp:107-108).
AddIoEvents(fd, c) ==
  CreateFileEvent(fd, "writable", c) \o CreateFileEvent(fd, "readable", c)

\* aeDeleteFileEvent (ae.c:125-141).
DeleteFileEvent(fd, evs, c) ==
  IF fd >= SetSize THEN <<>>
  ELSE <<Op("load", fd, {}, c), Op("andnot", fd, evs, c), Op("lower", fd, {}, c),
         Op("del", fd, evs, c)>>

\* Mutant: the events are left to the kernel.
CloseSocketOnly(fd, c, canReuse) ==
  (IF canReuse THEN <<>> ELSE <<Op("close", fd, {}, c)>>) \o <<Op("free", fd, {}, c)>>

\* Close (http_client.cpp:283-300), and the callback's delete of its ClientData.
CloseConnection(fd, c, canReuse) ==
  (IF canReuse THEN <<>> ELSE <<Op("close", fd, {}, c)>>)
    \o DeleteFileEvent(fd, Events, c) \o <<Op("free", fd, {}, c)>>

\* SendGetReq, n times.
SendGetReqs(n) == [i \in 1 .. n |-> Op("connect", NULL, {}, NULL)]

\* Mutant: the reads of all entries before the writes.
DispatchReadsFirst(fired) ==
  [i \in DOMAIN fired |-> [fired[i] EXCEPT !.op = "onread"]]
    \o [i \in DOMAIN fired |-> [fired[i] EXCEPT !.op = "onwrite"]]

\* The loop of aeProcessEvents over the fired entries, each of a descriptor, the
\* events reported and the connection they are of.
Dispatch(fired) ==
  [i \in 1 .. 2 * Len(fired) |->
     [fired[(i + 1) \div 2] EXCEPT !.op = IF i % 2 = 1 THEN "onread" ELSE "onwrite"]]

\* Thread t takes a step.
Runs(t) ==
  LET between == \E u \in Threads \ {t} : prog[u] # <<>>
  IN  /\ ~aborted /\ (Interleaved \/ ~between)
      /\ overlapped' = (overlapped \/ between)

\* Thread t is at this operation, and goes on with ops before the rest, or leaves
\* out the next n operations.
This(t) == Head(prog[t])
At(t, name) == prog[t] # <<>> /\ This(t).op = name /\ Runs(t)
Continue(t, ops) == prog' = [prog EXCEPT ![t] = ops \o Tail(@)]
Skip(t, n) == prog' = [prog EXCEPT ![t] = SubSeq(@, n + 2, Len(@))]
-----------------------------------------------------------------------------
(* Operations *)

\* GetConnection and Connect (http_client.cpp:31-45, 117-139): a socket at the
\* lowest free descriptor.  Parked ones are not found: they were put under
\* another key (lines 33, 48).
Connect(t) ==
  LET free == {fd \in Fds : file[fd] = NULL}
      c == opened + 1
  IN  /\ At(t, "connect")
      /\ IF free = {} \/ opened = MaxConns
         THEN Skip(t, 0) /\ UNCHANGED <<file, opened>>
         ELSE /\ opened' = c
              /\ file' = [file EXCEPT ![Min(free)] = c]
              /\ Continue(t, AddIoEvents(Min(free), c))
      /\ UNCHANGED <<deleted, table, kernel, reg, faults>>

\* aeApiAddEvent (ae_epoll.c:66-82): an ADD or a MOD, as the mask says, of a descriptor
\* that must be open.
AddEpoll(fd, evs) ==
  LET refused == file[fd] = NULL \/ (interest[fd] = {}) # (mask[fd] = {})
  IN  /\ failed' = (failed \/ refused)
      /\ interest' = IF refused THEN interest
                     ELSE [interest EXCEPT ![fd] = mask[fd] \cup evs]
      /\ UNCHANGED pending

\* aeApiAddEvent (ae_select.c:55-61): a bit for each event.
AddSelect(fd, evs) ==
  /\ interest' = [interest EXCEPT ![fd] = @ \cup evs]
  /\ UNCHANGED <<pending, failed>>

\* aeApiAddEvent (ae_kqueue.c:69-82): a filter for each event.
AddKqueue(fd, evs) ==
  /\ failed' = (failed \/ file[fd] = NULL)
  /\ interest' = IF file[fd] = NULL THEN interest ELSE [interest EXCEPT ![fd] = @ \cup evs]
  /\ UNCHANGED pending

\* aeApiAddEvent (ae_evport.c:147-176): an association replaces the one there is;
\* a descriptor the last poll returned gets it at the next.
AddEvport(fd, evs) ==
  LET full == mask[fd] \cup evs
      refused == pending[fd] = {} /\ file[fd] = NULL
  IN  /\ failed' = (failed \/ refused)
      /\ pending' = IF pending[fd] = {} THEN pending
                    ELSE [pending EXCEPT ![fd] = @ \cup full]
      /\ interest' = IF pending[fd] # {} \/ refused THEN interest
                     ELSE [interest EXCEPT ![fd] = full]

\* After an error aeCreateFileEvent does nothing more (ae.c:114-115), and
\* SendMsgAsync does not look at the result.
AddEvent(t) ==
  LET fd == This(t).fd
      evs == This(t).evs
  IN  /\ At(t, "add")
      /\ CASE backend = "epoll" -> AddEpoll(fd, evs)
           [] backend = "select" -> AddSelect(fd, evs)
           [] backend = "kqueue" -> AddKqueue(fd, evs)
           [] backend = "evport" -> AddEvport(fd, evs)
      /\ Skip(t, IF failed' # failed THEN 4 ELSE 0)
      /\ UNCHANGED <<process, table, backend, reg, given, aborted>>

\* fe->mask |= mask and fe->mask &= ~mask: a read and a write (ae.c:116, 131).
Load(t) ==
  /\ At(t, "load")
  /\ reg' = [reg EXCEPT ![t] = mask[This(t).fd]]
  /\ Skip(t, 0)
  /\ UNCHANGED <<process, table, kernel, faults>>

StoreOr(t) ==
  /\ At(t, "or")
  /\ mask' = [mask EXCEPT ![This(t).fd] = reg[t] \cup This(t).evs]
  /\ Skip(t, 0)
  /\ UNCHANGED <<process, data, maxfd, kernel, reg, faults>>

\* An empty mask ends aeDeleteFileEvent before it writes (ae.c:130).
StoreAndNot(t) ==
  /\ At(t, "andnot")
  /\ IF reg[t] = {} THEN Skip(t, 2) /\ UNCHANGED mask
     ELSE Skip(t, 0) /\ mask' = [mask EXCEPT ![This(t).fd] = reg[t] \ This(t).evs]
  /\ UNCHANGED <<process, data, maxfd, kernel, reg, faults>>

\* fe->clientData = clientData (ae.c:119).
SetData(t) ==
  /\ At(t, "data")
  /\ data' = [data EXCEPT ![This(t).fd] = This(t).conn]
  /\ Skip(t, 0)
  /\ UNCHANGED <<process, mask, maxfd, kernel, reg, faults>>

\* ae.c:120-121.
RaiseMaxfd(t) ==
  /\ At(t, "raise")
  /\ maxfd' = Max({maxfd, This(t).fd})
  /\ Skip(t, 0)
  /\ UNCHANGED <<process, mask, data, kernel, reg, faults>>

\* The highest descriptor that is left (ae.c:132-139).
LowerMaxfd(t) ==
  /\ At(t, "lower")
  /\ maxfd' = IF This(t).fd = maxfd /\ mask[maxfd] = {}
              THEN Max({-1} \cup {fd \in Fds : fd < maxfd /\ mask[fd] # {}})
              ELSE maxfd
  /\ Skip(t, 0)
  /\ UNCHANGED <<process, mask, data, kernel, reg, faults>>

\* aeApiDelEvent (ae_epoll.c:84-101): no effect on a descriptor not in the list.
DelEpoll(fd, evs) ==
  /\ interest' = IF interest[fd] = {} THEN interest
                 ELSE [interest EXCEPT ![fd] = mask[fd] \ evs]
  /\ UNCHANGED <<pending, aborted>>

\* aeApiDelEvent (ae_select.c:63-68, ae_kqueue.c:84-96).
DelEach(fd, evs) ==
  /\ interest' = [interest EXCEPT ![fd] = @ \ evs]
  /\ UNCHANGED <<pending, aborted>>

\* aeApiDelEvent (ae_evport.c:178-236): the mask has been updated by the caller.
\* Dissociating what is not associated, or associating a closed descriptor, fails,
\* and aborts the program.
DelEvport(fd, evs) ==
  IF pending[fd] # {}
  THEN pending' = [pending EXCEPT ![fd] = @ \ evs] /\ UNCHANGED <<interest, aborted>>
  ELSE /\ interest' = [interest EXCEPT ![fd] = mask[fd]]
       /\ aborted' = IF mask[fd] = {} THEN interest[fd] = {} ELSE file[fd] = NULL
       /\ UNCHANGED pending

DelEvent(t) ==
  LET fd == This(t).fd
      evs == This(t).evs
  IN  /\ At(t, "del")
      /\ CASE backend = "epoll" -> DelEpoll(fd, evs)
           [] backend \in {"select", "kqueue"} -> DelEach(fd, evs)
           [] backend = "evport" -> DelEvport(fd, evs)
      /\ Skip(t, 0)
      /\ UNCHANGED <<process, table, backend, reg, given, failed>>

\* close(fd): the kernel forgets the socket, the sets of select, which are the
\* program's own, do not.
CloseFd(t) ==
  /\ At(t, "close")
  /\ file' = [file EXCEPT ![This(t).fd] = NULL]
  /\ interest' = IF backend = "select" THEN interest ELSE [interest EXCEPT ![This(t).fd] = {}]
  /\ Skip(t, 0)
  /\ UNCHANGED <<opened, deleted, table, backend, pending, reg, faults>>

FreeData(t) ==
  /\ At(t, "free")
  /\ deleted' = deleted \cup {This(t).conn}
  /\ Skip(t, 0)
  /\ UNCHANGED <<file, opened, table, kernel, reg, faults>>
-----------------------------------------------------------------------------
(* The loop (ae.c:370-389) *)

Fired(fd, evs) == Op("fired", fd, evs, file[fd])
Orders(S) == {f \in [1 .. Cardinality(S) -> S] : IsInjective(f)}

\* What one poll may find: some descriptors, with events they are watched for or
\* that are always reported.
Ready(always) ==
  {r \in [Fds -> SUBSET Events] :
     /\ Cardinality({fd \in Fds : r[fd] # {}}) \in 1 .. MaxBatch
     /\ \A fd \in Fds : r[fd] # {} => interest[fd] # {} /\ r[fd] \subseteq interest[fd] \cup always}

\* ae_epoll.c:103-126: in any order; an error or a hangup is reported as writable.
PollEpoll ==
  \E r \in Ready({"writable"}) :
    \E order \in Orders({fd \in Fds : r[fd] # {}}) :
      /\ prog' = [prog EXCEPT !["loop"] =
           Dispatch([i \in DOMAIN order |-> Fired(order[i], r[order[i]])])]
      /\ UNCHANGED <<interest, pending, aborted>>

\* ae_select.c:70-95: every descriptor with a mask, in increasing order, whether it
\* is ready or not.  A closed descriptor in the sets makes select fail.
PollSelect ==
  /\ \A fd \in Fds : interest[fd] # {} => file[fd] # NULL
  /\ \E r \in Ready({}), known \in Orders({fd \in Fds : fd <= maxfd /\ mask[fd] # {}}) :
       /\ \A i, j \in DOMAIN known : i < j => known[i] < known[j]
       /\ prog' = [prog EXCEPT !["loop"] =
            Dispatch([i \in DOMAIN known |-> Fired(known[i], r[known[i]] \cap mask[known[i]])])]
  /\ UNCHANGED <<interest, pending, aborted>>

\* ae_kqueue.c:98-128: an entry for each filter, in any order.
PollKqueue ==
  \E r \in Ready({}) :
    \E order \in Orders({p \in Fds \X Events : p[2] \in r[p[1]]}) :
      /\ prog' = [prog EXCEPT !["loop"] =
           Dispatch([i \in DOMAIN order |-> Fired(order[i][1], {order[i][2]})])]
      /\ UNCHANGED <<interest, pending, aborted>>

\* ae_evport.c:238-311: first the descriptors of the last poll are associated again,
\* a closed one aborts; those that are reported now lose their association.
PollEvport ==
  LET again == [fd \in Fds |-> IF pending[fd] # {} THEN pending[fd] ELSE interest[fd]]
  IN  IF \E fd \in Fds : pending[fd] # {} /\ file[fd] = NULL
      THEN aborted' = TRUE /\ UNCHANGED <<interest, pending, prog>>
      ELSE \E r \in [Fds -> SUBSET Events], reported \in SUBSET Fds :
             /\ Cardinality(reported) <= MaxBatch
             /\ \A fd \in Fds : /\ r[fd] \subseteq again[fd]
                                /\ IF fd \in reported THEN again[fd] # {} ELSE r[fd] = {}
             /\ interest' = [fd \in Fds |-> IF fd \in reported THEN {} ELSE again[fd]]
             /\ pending' = [fd \in Fds |-> IF fd \in reported THEN again[fd] ELSE {}]
             /\ \E order \in Orders(reported) :
                  prog' = [prog EXCEPT !["loop"] =
                    Dispatch([i \in DOMAIN order |-> Fired(order[i], r[order[i]])])]
             /\ UNCHANGED aborted

Poll ==
  /\ prog["loop"] = <<>> /\ Runs("loop")
  /\ CASE backend = "epoll" -> PollEpoll
       [] backend = "select" -> PollSelect
       [] backend = "kqueue" -> PollKqueue
       [] backend = "evport" -> PollEvport
  /\ UNCHANGED <<process, table, backend, reg, given, failed>>

\* The callback of an event that was reported and is still in the mask
\* (ae.c:380, 384): it does one of ops, if the connection it is given is the one
\* it is for.
Callback(e, ops) ==
  LET fd == This("loop").fd
      c == data[fd]
      called == e \in mask[fd] \cap This("loop").evs
      own == c # NULL /\ c \notin deleted /\ file[fd] = c
  IN  /\ misuse' = (misuse \/ (called /\ c # NULL /\ ~own))
      /\ early' = (early \/ (called /\ c = NULL))
      /\ stale' = (stale \/ (called /\ c # This("loop").conn))
      /\ IF called /\ own THEN \E p \in ops : Continue("loop", p)
                         ELSE Skip("loop", 0)
      /\ UNCHANGED <<process, table, kernel, reg, failed, aborted>>

\* OnRead (http_client.cpp:141-212): there is more to read, or the connection is
\* over, and the handler of the answer has sent requests before Close.
ReadOps(fd, c) ==
  {<<>>, CloseConnection(fd, c, FALSE)}
    \cup {SendGetReqs(n) \o CloseConnection(fd, c, r) : n \in 0 .. MaxOpens, r \in BOOLEAN}

\* OnWrite (lines 302-325): there is more to write, all is written, or it failed.
WriteOps(fd, c) ==
  {<<>>, DeleteFileEvent(fd, {"writable"}, c), CloseConnection(fd, c, FALSE)}

OnRead == At("loop", "onread") /\ Callback("readable", ReadOps(This("loop").fd, data[This("loop").fd]))
OnWrite == At("loop", "onwrite") /\ Callback("writable", WriteOps(This("loop").fd, data[This("loop").fd]))

\* A task sends a request: its first from main (kick2.cpp:70, 115), others from a
\* timer (hls_handler.cpp:240).
Launch(t) ==
  /\ prog[t] = <<>> /\ Runs(t)
  /\ opened < MaxConns
  /\ prog' = [prog EXCEPT ![t] = SendGetReqs(1)]
  /\ UNCHANGED <<process, table, kernel, reg, faults>>

Next ==
  \/ \E t \in Threads :
       \/ Launch(t) \/ Connect(t) \/ AddEvent(t) \/ SetData(t)
       \/ RaiseMaxfd(t) \/ LowerMaxfd(t) \/ Load(t) \/ StoreOr(t) \/ StoreAndNot(t) \/ DelEvent(t)
       \/ CloseFd(t) \/ FreeData(t)
  \/ Poll \/ OnRead \/ OnWrite

Spec == Init /\ [][Next]_vars
-----------------------------------------------------------------------------
Link == Conns \cup {NULL}

\* Every variable has its type.
TypeOK ==
  /\ file \in [Fds -> Link]
  /\ backend \in Backends
  /\ interest \in [Fds -> SUBSET Events]
  /\ pending \in [Fds -> SUBSET Events]
  /\ maxfd \in Fds \cup {-1}
  /\ mask \in [Fds -> SUBSET Events]
  /\ data \in [Fds -> Link]
  /\ opened \in 0 .. MaxConns
  /\ deleted \subseteq Conns
  /\ \A t \in Threads : \A i \in DOMAIN prog[t] :
       prog[t][i].fd \in Fds \cup {NULL} /\ prog[t][i].conn \in Link
  /\ reg \in [Threads -> SUBSET Events]
  /\ {misuse, early, stale, failed, aborted, overlapped} \subseteq BOOLEAN

\* "we check if the event is still valid" (ae.c:377-379): a callback is given the
\* connection that is open on the descriptor, not one closed before it ran.
EventStillValid == ~misuse

\* The next three are about the loop and main taking turns: they hold until one of them
\* goes on while the other is in the middle of its operations (kick2.cpp:70), and what
\* may be wrong from then on is EventStillValid's matter.

\* The kernel takes what it is asked.  "If the fd was already monitored for some event,
\* we need a MOD operation. Otherwise we need an ADD operation" (ae_epoll.c:69-70): the
\* mask says which.  "Failure here indicates a bug" (ae_evport.c:216, 286): what Close
\* dissociates after it has closed the descriptor is always one the last poll returned,
\* and no closed descriptor is left for the next poll to associate.
NothingRefused == ~overlapped => ~failed /\ ~aborted

\* A callback runs for an event of the connection it is given, which is the one open
\* on the descriptor.  Only kqueue may break the former: it reports the two filters of
\* a descriptor apart, and between the two a callback may close the one connection and
\* another open the next.
EventIsOwn == ~overlapped => EventStillValid /\ ~early /\ (backend # "kqueue" => ~stale)

\* Between callbacks the kernel, or for event ports the kernel and the pending list,
\* watches what the masks say, and a connection that is not closed is watched for its
\* answer: none is forgotten, none outlives Close; maxfd is the highest of them.  It is
\* otherwise with a connection whose descriptor is beyond the table: it is open, and
\* neither watched nor ever closed (ae.c:108, http_client.cpp:107-108).
Watched ==
  /\ TypeOK
  /\ (\A t \in Threads : prog[t] = <<>>) /\ ~overlapped =>
       /\ \A fd \in Fds : interest[fd] \cup pending[fd] = mask[fd]
       /\ maxfd = Max({-1} \cup {fd \in Fds : mask[fd] # {}})
       /\ \A c \in (1 .. opened) \ deleted :
            \E fd \in Fds :
              /\ file[fd] = c
              /\ fd < SetSize => data[fd] = c /\ "readable" \in mask[fd]
       /\ \A fd \in Fds : mask[fd] # {} => fd < SetSize /\ data[fd] \notin deleted
=============================================================================

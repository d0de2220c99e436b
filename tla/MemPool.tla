------------------------------- MODULE MemPool ------------------------------
(***************************************************************************)
(* The pool of response buffers (mem_pool.cpp) and the way HttpClient::OnRead *)
(* and Close use it, for the connections of one event loop thread.            *)
(*                                                                           *)
(* A buffer is a chain of blocks linked by Block::Next.  A connection takes a  *)
(* block of RecvBuf when its answer begins, hangs a second chain on it when    *)
(* the header says the answer is longer, and gives the chain back when the     *)
(* connection closes.  Allocate links the blocks it takes to one another and   *)
(* Free walks the chain, but neither clears Next: the last block of a chain    *)
(* still points where it pointed in its previous life.                         *)
(*                                                                           *)
(* A callback of one connection is not interrupted by another's: op is the     *)
(* loop of Allocate or Free that is running, one action per iteration.         *)
(***************************************************************************)
EXTENDS Integers, Sequences, FiniteSets, SequencesExt

CONSTANTS
  Connections,  \* connections that may be open at a time
  Classes,      \* the block sizes of MemPool::Initialize
  RecvBuf,      \* RECVBUF, the size of the first block
  Lengths,      \* how long answers are, header included
  MaxMemory,    \* m_maxMemory, 0 for no limit
  MaxBlocks,    \* bound: blocks ever created
  MaxFree,      \* bound: entries of a free list
  NULL

Largest == CHOOSE k \in Classes : \A m \in Classes : m <= k

ASSUME ConstantsAssumption ==
  /\ IsFiniteSet(Classes) /\ Classes \subseteq Nat \ {0}
  /\ RecvBuf \in Classes
  /\ Lengths \subseteq Nat \ {0}
  /\ MaxMemory \in Nat /\ MaxBlocks \in Nat /\ MaxFree \in Nat
  /\ NULL \notin Nat

VARIABLES
  pool,      \* m_pool2: size -> free list of blocks
  cap,       \* Block::Capacity of the blocks created so far
  next,      \* Block::Next
  used,      \* zmalloc_used_memory(), the data of the blocks
  conn,      \* a connection: open, Response->Buf, bytes read, Length (0: unknown)
  op,        \* the running loop of Allocate or Free, and the connection it is for
  aborted,   \* the assertion of ReadToBuffer has failed
  own,       \* history: the blocks Allocate has given a connection, in their order
  forgotten, \* history: the blocks an Allocate that failed had taken (line 37)
  strayed    \* history: Free has gone on from the last block of a buffer (line 74)

history == <<own, forgotten, strayed>>
vars == <<pool, cap, next, used, conn, op, aborted, history>>

Created == DOMAIN cap
Holds(c) == ToSet(own[c])
Closed == [open |-> FALSE, buf |-> NULL, read |-> 0, length |-> 0]
None == [kind |-> "none"]

Init ==
  /\ pool = [k \in Classes |-> <<>>]
  /\ cap = [b \in {} |-> 0]
  /\ next = [b \in {} |-> NULL]
  /\ used = 0
  /\ conn = [c \in Connections |-> Closed]
  /\ op = None
  /\ aborted = FALSE
  /\ own = [c \in Connections |-> <<>>]
  /\ forgotten = {}
  /\ strayed = FALSE

Running == op = None /\ ~aborted

\* m_pool2.lower_bound(left), or the last size.
LowerBound(left) ==
  IF left > Largest THEN Largest
  ELSE CHOOSE k \in Classes : k >= left /\ \A m \in Classes : m >= left => m >= k

\* The block ReadToBuffer reaches off bytes into the chain that begins with b.
BlockAt ==
  LET at[off \in Nat, b \in Created \cup {NULL}] ==
        IF b = NULL THEN NULL
        ELSE IF off < cap[b] THEN b ELSE at[off - cap[b], next[b]]
  IN  at
-----------------------------------------------------------------------------
(* Allocate (mem_pool.cpp:23-56) *)

Allocate(c, size) ==
  op' = [kind |-> "allocate", for |-> c, left |-> size, first |-> NULL,
         last |-> NULL]

\* Block b joins the chain.
Take(b) ==
  /\ op' = [op EXCEPT !.left = IF cap'[b] > @ THEN 0 ELSE @ - cap'[b],
                      !.first = IF @ = NULL THEN b ELSE @,
                      !.last = b]
  /\ own' = [own EXCEPT ![op.for] = Append(@, b)]
  /\ UNCHANGED <<conn, aborted, forgotten, strayed>>

\* Mutant: the blocks are not linked.
Unlinked(f, b) == f

Linked(f, b) == IF op.last = NULL THEN f ELSE [f EXCEPT ![op.last] = b]

\* Mutant: there is no limit.
NeverReached == FALSE

LimitReached == MaxMemory > 0 /\ used > MaxMemory

\* Mutant: the block stays in the free list.
TakeFreeNotPopped ==
  LET k == LowerBound(op.left)
  IN  /\ op.kind = "allocate" /\ op.left > 0
      /\ pool[k] # <<>>
      /\ next' = Linked(next, Head(pool[k]))
      /\ UNCHANGED <<pool, cap, used>>
      /\ Take(Head(pool[k]))

TakeFree ==
  LET k == LowerBound(op.left)
  IN  /\ op.kind = "allocate" /\ op.left > 0
      /\ pool[k] # <<>>
      /\ pool' = [pool EXCEPT ![k] = Tail(@)]
      /\ next' = Linked(next, Head(pool[k]))
      /\ UNCHANGED <<cap, used>>
      /\ Take(Head(pool[k]))

TakeNew ==
  LET k == LowerBound(op.left)
      b == Cardinality(Created) + 1
  IN  /\ op.kind = "allocate" /\ op.left > 0
      /\ pool[k] = <<>> /\ ~LimitReached
      /\ b <= MaxBlocks
      /\ cap' = [x \in Created \cup {b} |-> IF x = b THEN k ELSE cap[x]]
      /\ next' = [x \in Created \cup {b} |->
                    IF x = b THEN NULL ELSE Linked(next, b)[x]]
      /\ used' = used + k
      /\ UNCHANGED pool
      /\ Take(b)

\* Free(c, b): the loop that gives chain b back and closes connection c.
Free(c, b) == op' = [kind |-> "free", for |-> c, at |-> b]

\* Allocate returns to OnRead, which hangs the chain where it belongs.
AllocateReturns ==
  /\ op.kind = "allocate" /\ op.left = 0
  /\ op' = None
  /\ IF conn[op.for].buf = NULL
     THEN conn' = [conn EXCEPT ![op.for].buf = op.first] /\ UNCHANGED next
     ELSE next' = [next EXCEPT ![conn[op.for].buf] = op.first] /\ UNCHANGED conn
  /\ UNCHANGED <<pool, cap, used, aborted, history>>

\* Allocate returns NULL and forgets the blocks it has taken.  OnRead waits for
\* the next event if this was the first block (http_client.cpp:150), and closes
\* the connection otherwise (lines 173-179).
AllocateFails ==
  /\ op.kind = "allocate" /\ op.left > 0
  /\ pool[LowerBound(op.left)] = <<>> /\ LimitReached
  /\ IF conn[op.for].buf = NULL
     THEN op' = None /\ UNCHANGED next
     ELSE /\ next' = [next EXCEPT ![conn[op.for].buf] = NULL]
          /\ Free(op.for, conn[op.for].buf)
  /\ LET kept == IF conn[op.for].buf = NULL THEN <<>> ELSE <<conn[op.for].buf>>
     IN  /\ own' = [own EXCEPT ![op.for] = kept]
         /\ forgotten' = forgotten \cup (Holds(op.for) \ ToSet(kept))
  /\ UNCHANGED <<pool, cap, used, conn, aborted, strayed>>
-----------------------------------------------------------------------------
(* Free (mem_pool.cpp:59-76) *)

\* The block to be freed is the last the buffer was given, and its Next is one it had
\* in an earlier life.
StaleNext == Len(own[op.for]) <= 1 /\ next[op.at] # NULL

FreeBlock ==
  /\ op.kind = "free" /\ op.at # NULL
  /\ Len(pool[cap[op.at]]) < MaxFree
  /\ pool' = [pool EXCEPT ![cap[op.at]] = Append(@, op.at)]
  /\ op' = [op EXCEPT !.at = next[op.at]]
  /\ own' = [own EXCEPT ![op.for] = IF @ = <<>> THEN <<>> ELSE Tail(@)]
  /\ strayed' = (strayed \/ StaleNext)
  /\ UNCHANGED <<cap, next, used, conn, aborted, forgotten>>

FreeReturns ==
  /\ op.kind = "free" /\ op.at = NULL
  /\ op' = None
  /\ conn' = [conn EXCEPT ![op.for] = Closed]
  /\ own' = [own EXCEPT ![op.for] = <<>>]
  /\ UNCHANGED <<pool, cap, next, used, aborted, forgotten, strayed>>
-----------------------------------------------------------------------------
(* OnRead and Close (http_client.cpp:141-212, 283-300) *)

Open(c) ==
  /\ Running /\ ~conn[c].open
  /\ conn' = [conn EXCEPT ![c].open = TRUE]
  /\ UNCHANGED <<pool, cap, next, used, op, aborted, history>>

\* The answer begins.
FirstRead(c) ==
  /\ Running /\ conn[c].open /\ conn[c].buf = NULL
  /\ Allocate(c, RecvBuf)
  /\ UNCHANGED <<pool, cap, next, used, conn, aborted, history>>

\* The header is complete, in the first block, and gives the length.
HeaderRead(c) ==
  /\ Running /\ conn[c].buf # NULL /\ conn[c].length = 0
  /\ \E length \in Lengths :
       \E n \in 1 .. (IF length < RecvBuf THEN length ELSE RecvBuf) :
         /\ conn' = [conn EXCEPT ![c].length = length, ![c].read = n]
         /\ IF length > RecvBuf THEN Allocate(c, length - RecvBuf)
                                ELSE UNCHANGED op
  /\ UNCHANGED <<pool, cap, next, used, aborted, history>>

\* n bytes of the body, to the blocks of the chain; the assertion is that the
\* chain has a block for each (mem_pool.cpp:84-89).
BodyRead(c) ==
  /\ Running /\ conn[c].read < conn[c].length
  /\ \E n \in 1 .. (conn[c].length - conn[c].read) :
       IF BlockAt[conn[c].read + n - 1, conn[c].buf] = NULL
       THEN aborted' = TRUE /\ UNCHANGED conn
       ELSE conn' = [conn EXCEPT ![c].read = @ + n] /\ UNCHANGED aborted
  /\ UNCHANGED <<pool, cap, next, used, op, history>>

\* Close: the answer is complete, or the connection failed at any moment.
Close(c) ==
  /\ Running /\ conn[c].open
  /\ Free(c, conn[c].buf)
  /\ UNCHANGED <<pool, cap, next, used, conn, aborted, history>>

Loop == TakeFree \/ TakeNew \/ AllocateReturns \/ AllocateFails
        \/ FreeBlock \/ FreeReturns

Next ==
  \/ Loop
  \/ \E c \in Connections :
       Open(c) \/ FirstRead(c) \/ HeaderRead(c) \/ BodyRead(c) \/ Close(c)

Spec == Init /\ [][Next]_vars
-----------------------------------------------------------------------------
Link == Created \cup {NULL}

\* Every variable has its type, and a free list holds blocks of its own size.
TypeOK ==
  /\ pool \in [Classes -> Seq(Created)]
  /\ cap \in [Created -> Classes] /\ Created = 1 .. Cardinality(Created)
  /\ next \in [Created -> Link]
  /\ used \in Nat
  /\ conn \in [Connections -> [open : BOOLEAN, buf : Link, read : Nat, length : Nat]]
  /\ \/ op = None
     \/ op \in [kind : {"allocate"}, for : Connections, left : Nat,
                first : Link, last : Link]
     \/ op \in [kind : {"free"}, for : Connections, at : Link]
  /\ aborted \in BOOLEAN /\ strayed \in BOOLEAN
  /\ own \in [Connections -> Seq(Created)] /\ forgotten \subseteq Created
  /\ \A k \in Classes : \A i \in 1 .. Len(pool[k]) : cap[pool[k][i]] = k

FreeBlocks == UNION {ToSet(pool[k]) : k \in Classes}

\* The chain of a connection has the blocks that Allocate gave it, in their order: the
\* last of them may point anywhere.
ChainIsOwn(c) ==
  LET s == own[c]
  IN  /\ conn[c].buf = IF s = <<>> THEN NULL ELSE s[1]
      /\ \A i \in 1 .. (Len(s) - 1) : next[s[i]] = s[i + 1]

\* Between callbacks each buffer is the chain of blocks it was given, and a block belongs
\* to one buffer or to one free list, once, or is one that a failed Allocate has forgotten
\* (mem_pool.cpp:37): none is lost otherwise, whatever chains are taken, freed and taken
\* again with their old Next.  It ends when Free goes on from the last block of a buffer
\* to the block that its Next has left from an earlier life (line 74); what becomes of the
\* pool then is ChainLongEnough's matter.
Exclusive ==
  /\ TypeOK
  /\ op = None /\ ~strayed =>
      /\ \A c \in Connections : ChainIsOwn(c) /\ IsInjective(own[c])
      /\ \A c, d \in Connections : c # d => Holds(c) \cap Holds(d) = {}
      /\ \A c \in Connections : Holds(c) \cap (FreeBlocks \cup forgotten) = {}
      /\ \A k \in Classes : IsInjective(pool[k])
      /\ FreeBlocks \cap forgotten = {}
      /\ Created \subseteq FreeBlocks \cup forgotten \cup UNION {Holds(c) : c \in Connections}

\* The limit is exceeded by one block of the greatest size at most (mem_pool.cpp:25-27, 43).
MemoryBounded == MaxMemory > 0 => used <= MaxMemory + Largest

\* Until Free strays every byte of an answer has its place in a block of its own buffer:
\* the loops of Allocate and ReadToBuffer, which count sizes each in their way
\* (mem_pool.cpp:47-50, 84-91), agree, no answer is read into another's memory, and the
\* assertion of line 88 does not fail.
AnswerHasRoom ==
  op = None /\ ~strayed =>
    \A c \in Connections :
      \A n \in conn[c].read .. (conn[c].length - 1) : BlockAt[n, conn[c].buf] \in Holds(c)

\* "assert(block)" (mem_pool.cpp:88): the chain is as long as the answer.
ChainLongEnough == ~aborted
=============================================================================

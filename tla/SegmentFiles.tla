---------------------------- MODULE SegmentFiles ----------------------------
(***************************************************************************)
(* The saving of segments: HlsHandler::HandleSegmentResp                       *)
(* (hls_handler.cpp:177-209), File::Create and File::WriteSync                 *)
(* (file.cpp:93-120, 454-483).                                                *)
(*                                                                           *)
(* An answer lies in a chain of blocks, one of RECVBUF and those of             *)
(* MemPool::Allocate.  What is behind its header is written block by block, each *)
(* with an open, an lseek and a write of its own, at an offset that is the       *)
(* result of the write before.  Engine threads save at the same time, and two    *)
(* tasks may save to the same file: a task is named by rand() after a srand     *)
(* with the clock (kick2.cpp:66-67), and a segment by the end of its URI.       *)
(***************************************************************************)
EXTENDS Integers, Sequences, FiniteSets, SequencesExt

CONSTANTS
  Savers,      \* engine threads
  Paths,       \* names of files
  SavedAnswers,\* [head, body]: the lengths of header and body
  FirstBlock,  \* RECVBUF
  LargestBlock,\* the largest block of MemPool
  Rooms,       \* units of disk that are free
  MaxFds,      \* descriptors the process may open
  MaxSaves,    \* bound: segments saved
  ABSENT

ASSUME SegmentAssumption ==
  /\ {FirstBlock, LargestBlock} \subseteq Nat \ {0} /\ {MaxFds, MaxSaves} \subseteq Nat
  /\ Rooms \subseteq Nat
  /\ \A a \in SavedAnswers : a.head \in 1 .. (FirstBlock - 1) /\ a.body \in Nat
  /\ ABSENT \notin Seq(Nat \X Nat)

VARIABLES
  files,    \* the disk: the units of a file, or ABSENT
  room,     \* units of disk that are free
  fds,      \* descriptors that were opened and never closed
  saves,    \* all savings so far: path, answer, and what is known of them
  work      \* a thread: the saving it is in, the block it is at, writen

segments == <<files, room, fds, saves, work>>

Idle == [save |-> 0]

SegmentInit ==
  /\ files = [p \in Paths |-> ABSENT]
  /\ room \in Rooms
  /\ fds = 0
  /\ saves = <<>>
  /\ work = [t \in Savers |-> Idle]
-----------------------------------------------------------------------------
Total(a) == a.head + a.body

\* The Sizes of the blocks of an answer: the first is filled before another is used.
Sizes(a) ==
  LET left == Total(a) - FirstBlock
      full == left \div LargestBlock
      last == left % LargestBlock
  IN  IF left <= 0 THEN <<Total(a)>>
      ELSE <<FirstBlock>> \o [i \in 1 .. full |-> LargestBlock]
             \o (IF last = 0 THEN <<>> ELSE <<last>>)

\* Mutant: the offset is that of the text.
BodyOffsetNone(a) == 0

\* Response->Body.Offset: an answer without a body never had the callback that sets it.
BodyOffset(a) == IF a.body = 0 THEN 0 ELSE a.head

\* Unit k of the answer that is saved as number n, and what lies in a hole.
Unit(n, k) == <<n, k>>
Hole == <<0, 0>>

\* The units of block b behind the first off.
BlockData(n, a, b, off) ==
  LET before == IF b = 1 THEN 0 ELSE FirstBlock + (b - 2) * LargestBlock
  IN  [i \in 1 .. Sizes(a)[b] - off |-> Unit(n, before + off + i)]

\* The content f with data written at off.
Overlay(f, off, data) ==
  LET len == IF off + Len(data) > Len(f) THEN off + Len(data) ELSE Len(f)
  IN  [i \in 1 .. len |-> IF i \in off + 1 .. off + Len(data) THEN data[i - off]
                          ELSE IF i <= Len(f) THEN f[i] ELSE Hole]

\* How many units a write of len at off takes off the disk, and how many it can write.
Taken(f, off, len) ==
  Cardinality({i \in off + 1 .. off + len : i > Len(f) \/ f[i] = Hole})
Fits(f, off, len) ==
  CHOOSE n \in 0 .. len : /\ Taken(f, off, n) <= room
                          /\ n < len => Taken(f, off, n + 1) > room

\* The result of WriteSync: the descriptor is never closed, a negative offset is
\* refused by lseek, and write tells how much it wrote.
Result(path, off, data) ==
  IF fds = MaxFds \/ files[path] = ABSENT \/ off < 0 THEN -1
  ELSE LET n == Fits(files[path], off, Len(data))
       IN  IF n = 0 /\ data # <<>> THEN -1 ELSE n

WriteSync(path, off, data) ==
  LET n == Result(path, off, data)
      done == SubSeq(data, 1, n)
  IN  /\ fds' = IF fds = MaxFds \/ files[path] = ABSENT THEN fds ELSE fds + 1
      /\ IF n <= 0 THEN UNCHANGED <<files, room>>
         ELSE /\ files' = [files EXCEPT ![path] = Overlay(@, off, done)]
              /\ room' = room - Taken(files[path], off, n)
-----------------------------------------------------------------------------
(* HandleSegmentResp *)

Busy(t) == work[t] # Idle
Now(t) == saves[work[t].save]

\* Lines 180-192: File::Create makes the file if there is none.  It closes what it
\* opens; an error is not looked at.
Create(t) ==
  /\ ~Busy(t) /\ Len(saves) < MaxSaves
  /\ \E path \in Paths, a \in SavedAnswers :
       LET n == Len(saves) + 1
           created == files[path] = ABSENT /\ fds < MaxFds
           others == {work[u].save : u \in {v \in Savers : Busy(v) /\ Now(v).path = path}}
       IN  /\ files' = IF created THEN [files EXCEPT ![path] = <<>>] ELSE files
           /\ saves' = Append([i \in DOMAIN saves |->
                         IF i \in others THEN [saves[i] EXCEPT !.alone = FALSE] ELSE saves[i]],
                         [path |-> path, answer |-> a, fresh |-> created,
                          alone |-> others = {}, failed |-> FALSE])
           /\ work' = [work EXCEPT ![t] = [save |-> n, block |-> 1, writen |-> 0]]
  /\ UNCHANGED <<room, fds>>

\* Mutant: the second block is written where the first began.
NextOffsetSame(t, result) == work[t].writen

\* writen: the result of a write is the offset of the next.
NextOffset(t, result) == result

\* Lines 195-206: the header is passed over in the first block, where it always ends.
WriteBlock(t) ==
  LET n == work[t].save
      a == Now(t).answer
      b == work[t].block
      data == BlockData(n, a, b, IF b = 1 THEN BodyOffset(a) ELSE 0)
      result == Result(Now(t).path, work[t].writen, data)
  IN  /\ Busy(t)
      /\ WriteSync(Now(t).path, work[t].writen, data)
      /\ saves' = [saves EXCEPT ![n].failed = @ \/ result # Len(data)]
      /\ work' = [work EXCEPT ![t] =
                    IF b = Len(Sizes(a)) THEN Idle
                    ELSE [save |-> n, block |-> b + 1, writen |-> NextOffset(t, result)]]

HandleSegmentResp == \E t \in Savers : Create(t) \/ WriteBlock(t)
-----------------------------------------------------------------------------
SegmentTypeOK ==
  /\ \A p \in Paths : files[p] # ABSENT =>
       \A i \in DOMAIN files[p] : files[p][i][1] \in 0 .. Len(saves)
  /\ room \in Nat /\ fds \in 0 .. MaxFds
  /\ Len(saves) <= MaxSaves
  /\ \A t \in Savers : work[t].save \in 0 .. Len(saves)

Body(n) == LET a == saves[n].answer IN [i \in 1 .. a.body |-> Unit(n, a.head + i)]

\* Of the savings to a path, the ones that were last and met no other.
Latest(n) ==
  /\ saves[n].alone
  /\ \A m \in (n + 1) .. Len(saves) : saves[m].path # saves[n].path
Over(n) == \A t \in Savers : work[t].save # n
TwoBlocks(n) == Len(Sizes(saves[n].answer)) <= 2

\* A segment of at most two blocks that was written without an error and with no other
\* thread writing to its file is there, whole and from the first unit on, also where the
\* file had been there before.  (The third block of a longer one is written over the
\* second, lines 202-206.)
SavedWhole ==
  \A n \in DOMAIN saves :
    (Latest(n) /\ Over(n) /\ TwoBlocks(n) /\ ~saves[n].failed /\ saves[n].answer.body > 0) =>
      IsPrefix(Body(n), files[saves[n].path])

\* A new file that no other thread writes to holds the beginning of its segment at any
\* time, with no gap and nothing of the header, whatever fails: a disk that is full in the
\* middle of a block, or descriptors that run out, as each write leaves one open
\* (file.cpp:459, 482).  It is about segments of at most two blocks: the third is written
\* over the second (lines 202-206).
PrefixKept ==
  /\ SegmentTypeOK
  /\ \A n \in DOMAIN saves :
       (Latest(n) /\ TwoBlocks(n) /\ saves[n].fresh /\ saves[n].answer.body > 0) =>
         IsPrefix(files[saves[n].path], Body(n))
=============================================================================

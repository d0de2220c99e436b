--------------------------- MODULE HttpConnection ---------------------------
(***************************************************************************)
(* One exchange of HttpClient: a request written and an answer read by the    *)
(* callbacks of one connection (http_client.cpp:141-212, 283-325), with the   *)
(* part of the parser they depend on (http_parser_ext.cpp).                   *)
(*                                                                           *)
(* OnRead works in two phases.  While the length of the answer is unknown     *)
(* (Length = 0) it reads into the first block, of RecvBuf, and parses all it   *)
(* has from the start.  A parse that meets the body sets Length; from then on  *)
(* OnRead only reads what is missing.  The answer is handled when Read =       *)
(* Length, or when the parser says that it is done, which it only does on a    *)
(* connection that is not kept alive (State = 1, s_dead).                      *)
(*                                                                           *)
(* Poll is level triggered: a callback may run whenever its event is in the    *)
(* mask and the socket is ready.  Data are counted in units that a read may    *)
(* end after; nothing but their number matters, and where the value of the     *)
(* Content-Type header is among them.                                          *)
(***************************************************************************)
EXTENDS Integers

CONSTANTS
  RecvBuf,      \* RECVBUF: the capacity of the first block
  RequestLen,   \* length of the request
  Answers,      \* the answers servers send
  Unknown,      \* length of a body without Content-Length: it ends with the stream
  Worlds        \* what may go wrong: [faulty, memoryShort, interrupts, cuts]

\* faulty: servers break connections off; memoryShort: Allocate may return NULL;
\* interrupts: errno may be EINTR when nothing was read; cuts: the network may deliver
\* a header in pieces.  typeAt: the value of Content-Type is in units typeAt and
\* typeAt + 1.  sent: the units of body that follow if the length is Unknown.
ASSUME ConstantsAssumption ==
  /\ RecvBuf \in Nat \ {0} /\ RequestLen \in Nat \ {0}
  /\ Unknown \notin Nat
  /\ \A a \in Answers :
       /\ a.head \in Nat \ {0} /\ a.typeAt \in 1 .. (a.head - 2)
       /\ a.body \in Nat \cup {Unknown} /\ a.sent \in Nat
       /\ a.close \in BOOLEAN /\ a.redirect \in BOOLEAN
  /\ Worlds \subseteq [faulty : BOOLEAN, memoryShort : BOOLEAN, interrupts : BOOLEAN,
                       cuts : BOOLEAN]

VARIABLES
  world,      \* what may go wrong in this behaviour
  answer,     \* the answer of the server
  arrived,    \* units of it that have arrived
  over,       \* the server has ended the stream: no, fin, reset
  mask,       \* the events the connection is registered for: {} once closed
  written,    \* connection->Written
  buffer,     \* connection->Response exists
  read,       \* connection->Read
  length,     \* response->Length, 0 while unknown
  dead,       \* response->State = 1
  type,       \* Headers["Content-Type"]: none, cut or whole
  fd,         \* the socket: open, parked in the connection pool, or closed
  handled     \* how HandleResponse took the answer: no, handler, redirect

client == <<mask, written, buffer, read, length, dead, type, fd, handled>>
vars == <<world, answer, arrived, over, client>>

BodyLen(a) == IF a.body = Unknown THEN a.sent ELSE a.body
Total(a) == a.head + BodyLen(a)
KeepAlive(a) == ~a.close /\ a.body # Unknown
Lesser(m, n) == IF m <= n THEN m ELSE n

\* SendMsgAsync (http_client.cpp:98-115): registered for both events.
Init ==
  /\ world \in Worlds
  /\ answer \in Answers
  /\ arrived = 0
  /\ over = "no"
  /\ mask = {"writable", "readable"}
  /\ written = 0
  /\ buffer = FALSE
  /\ read = 0
  /\ length = 0
  /\ dead = FALSE
  /\ type = "none"
  /\ fd = "open"
  /\ handled = "no"
-----------------------------------------------------------------------------
(* The server *)

\* It answers when it has the request.
Arrive ==
  /\ written = RequestLen /\ over = "no"
  /\ arrived' \in (arrived + 1) .. Total(answer)
  /\ world.cuts \/ arrived' >= answer.head
  /\ UNCHANGED <<world, answer, over, client>>

\* It ends the stream when the answer is out, at once if not kept alive.
End ==
  /\ over = "no"
  /\ arrived = Total(answer) \/ world.faulty
  /\ over' = "fin"
  /\ UNCHANGED <<world, answer, arrived, client>>

\* What was not read is gone.
Reset ==
  /\ world.faulty /\ over # "reset"
  /\ over' = "reset"
  /\ arrived' = read
  /\ UNCHANGED <<world, answer, client>>
-----------------------------------------------------------------------------
(* The parser, on the first r units *)

\* Mutant: the header is not counted.
ParsedLengthBody(r) ==
  IF r <= answer.head \/ answer.body = Unknown THEN 0 ELSE answer.body

\* body (http_parser_ext.cpp:93-99).  Content-Length is ULLONG_MAX if there is
\* none, and Offset + ULLONG_MAX wraps.
ParsedLength(r) ==
  IF r <= answer.head THEN 0
  ELSE answer.head + (IF answer.body = Unknown THEN -1 ELSE answer.body)

\* NEW_MESSAGE (http_parser.c:449) after the last unit: s_dead, or the start state.
ParsedDead(r) == ~KeepAlive(answer) /\ answer.body # Unknown /\ r >= Total(answer)

\* header_value (http_parser_ext.cpp:72-78): a value the read cut short is
\* inserted as it is, and insert does not replace it when the rest is parsed.
ParsedType(r) ==
  IF type # "none" \/ r < answer.typeAt THEN type
  ELSE IF r = answer.typeAt THEN "cut" ELSE "whole"
-----------------------------------------------------------------------------
(* Close (http_client.cpp:283-300) *)

Close(canReuse) ==
  /\ fd' = IF canReuse THEN "parked" ELSE "closed"
  /\ mask' = {}

\* Mutants: the answer counts as complete when at least Length was read, or only by
\* its length.
FinishIf(complete, r) ==
  IF complete
  THEN /\ handled' = IF answer.redirect /\ r > 0 THEN "redirect" ELSE "handler"
       /\ Close(~(answer.close /\ r > 0))
  ELSE UNCHANGED <<handled, fd, mask>>
FinishAtLeast(r, l, d) == FinishIf(r >= l \/ d, r)
FinishByLength(r, l, d) == FinishIf(r = l, r)

\* The end of OnRead (lines 196-209), with r units read, length l and state d:
\* the answer is handled if complete, and the connection closed.
Finish(r, l, d) ==
  IF r = l \/ d
  THEN /\ handled' = IF answer.redirect /\ r > 0 THEN "redirect" ELSE "handler"
       /\ Close(~(answer.close /\ r > 0))
  ELSE UNCHANGED <<handled, fd, mask>>

\* Mutant: all that is missing is taken to have come.
ReadBodyAll(r, l, d) ==
  /\ read' = IF l > r /\ arrived > r THEN l ELSE r
  /\ Finish(read', l, d)

\* Phase two (lines 182-193), then the end.  ReadToBuffer reads what there is.
ReadBody(r, l, d) ==
  /\ read' = IF l > r /\ arrived > r THEN Lesser(arrived, l) ELSE r
  /\ Finish(read', l, d)

\* The parse of the first block, and what follows it (lines 168-209).
Parse(r) ==
  /\ length' = ParsedLength(r)
  /\ dead' = ParsedDead(r)
  /\ type' = ParsedType(r)
  /\ \/ ReadBody(r, length', dead')
     \/ /\ world.memoryShort /\ length' > RecvBuf   \* the second Allocate, lines 169-180
        /\ read' = r
        /\ Close(FALSE)
        /\ UNCHANGED handled


Readable == "readable" \in mask /\ (arrived > read \/ over # "no")

\* Mutant: a read takes one unit.
AvailableOne == IF arrived > read /\ read < RecvBuf THEN 1 ELSE 0

\* What the read of phase one gets (line 158).
Available == Lesser(arrived, RecvBuf) - read

\* OnRead with a block to read into (lines 156-209).
ReadResponse ==
  /\ buffer' = TRUE
  /\ LET n == Available
     IN  \/ /\ length = 0 /\ n > 0
            /\ Parse(read + n)
         \/ /\ length = 0 /\ n = 0           \* nothing to read, or no room
            /\ Close(FALSE)
            /\ UNCHANGED <<read, length, dead, type, handled>>
         \/ /\ length = 0 /\ n = 0 /\ world.interrupts
            /\ Parse(read)
         \/ /\ length # 0
            /\ ReadBody(read, length, dead)
            /\ UNCHANGED <<length, dead, type>>
  /\ UNCHANGED <<world, answer, arrived, over, written>>

\* The first Allocate has no block to give (lines 149-151): OnRead breaks off, the event
\* is still there and the connection as it was.
NoFirstBlock == ~buffer /\ world.memoryShort /\ UNCHANGED vars

OnRead ==
  /\ Readable
  /\ NoFirstBlock \/ ReadResponse

\* OnWrite (lines 302-325).
OnWrite ==
  /\ "writable" \in mask
  /\ \/ /\ over # "reset"
        /\ written' \in (written + 1) .. RequestLen
        /\ mask' = IF written' = RequestLen THEN mask \ {"writable"} ELSE mask
        /\ UNCHANGED fd
     \/ /\ over = "reset"
        /\ Close(FALSE)
        /\ UNCHANGED written
  /\ UNCHANGED <<world, answer, arrived, over, buffer, read, length, dead, type, handled>>

Next == Arrive \/ End \/ Reset \/ OnRead \/ OnWrite

\* A connection whose OnRead has its first block, or is sure to get it.
HasBlock == buffer \/ ~world.memoryShort

\* The loop serves a ready socket; the server sends what it has begun to send.  That
\* the pool ever has a first block again is not assumed.
Fairness == WF_vars(HasBlock /\ OnRead) /\ WF_vars(OnWrite) /\ WF_vars(Arrive)

Spec == Init /\ [][Next]_vars /\ Fairness
-----------------------------------------------------------------------------
\* Every variable has its type.
TypeOK ==
  /\ world \in Worlds
  /\ answer \in Answers
  /\ arrived \in 0 .. Total(answer)
  /\ over \in {"no", "fin", "reset"}
  /\ mask \subseteq {"readable", "writable"}
  /\ written \in 0 .. RequestLen
  /\ buffer \in BOOLEAN
  /\ read \in 0 .. arrived
  /\ length \in 0 .. Total(answer)
  /\ dead \in BOOLEAN
  /\ type \in {"none", "cut", "whole"}
  /\ fd \in {"open", "parked", "closed"}
  /\ handled \in {"no", "handler", "redirect"}

\* An answer handed to a handler, or followed as a redirect, has been read to its
\* last unit: HandleM3u8Resp never walks over half a playlist (OnRead, lines 196-205).
\* Only a stale EINTR in errno when the stream ends before any data makes OnRead go
\* on, with Read = Length = 0, and hand over an answer with nothing in it.
HandledWhole ==
  handled # "no" => read = Total(answer) \/ (world.interrupts /\ read = 0)

\* A socket parked for reuse has nothing left in it that the next exchange would
\* take for its own answer (lines 198-207).
ParkedIsDrained == fd = "parked" => arrived = read

\* The handler sees the whole Content-Type of an answer whose header came in one piece,
\* however its body is cut and however often the header is parsed again
\* (http_parser_ext.cpp:50-58, 72-78).  Where a read may end in the header this is
\* false: insert keeps the value that the first parse found cut.
TypeIsWhole == (~world.cuts /\ handled # "no" /\ read > 0) => type = "whole"

\* The answers this client can take: a header that leaves room in the first block, a
\* Content-Length, and a body unless the server closes.
Supported(a) ==
  /\ a.head < RecvBuf
  /\ a.body # Unknown
  /\ a.body > 0 \/ a.close

\* A supported answer of a server that keeps its side is handled, however it is cut
\* into reads (OnRead).
AnswerHandled ==
  (Supported(answer) /\ ~world.faulty /\ ~world.memoryShort) => <>(handled # "no")

=============================================================================

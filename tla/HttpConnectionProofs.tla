------------------------ MODULE HttpConnectionProofs ------------------------
(***************************************************************************)
(* An answer is handled whole: proofs for every answer, every size of the      *)
(* first block and every way the stream is cut, broken off or interrupted.     *)
(*                                                                           *)
(* The inductive invariant says what Length and State mean once they are set:  *)
(* the body has been met, and nothing but the whole answer is as long as       *)
(* Length says or has brought the parser to its end.                          *)
(***************************************************************************)
EXTENDS HttpConnection, TLAPS

\* Length is set by a parse that met the body.
LengthMeans ==
  length # 0 =>
    /\ read > answer.head
    /\ length = answer.head + (IF answer.body = Unknown THEN -1 ELSE answer.body)

\* s_dead is reached behind the last unit.
DeadMeans == dead => read = Total(answer)

\* A connection that is not open has no events, and a handled one is not open.
ClosedMeans ==
  /\ fd # "open" <=> mask = {}
  /\ fd = "open" => "readable" \in mask
  /\ fd = "open" => handled = "no"

\* What is handed over is the whole answer, or nothing at all after an interrupt
\* at the end of the stream.
HandledMeans ==
  handled # "no" =>
    \/ read = Total(answer)
    \/ world.interrupts /\ read = 0 /\ arrived = 0 /\ over # "no"

ParkedMeans == fd = "parked" => handled # "no"

IInv ==
  TypeOK /\ LengthMeans /\ DeadMeans /\ ClosedMeans /\ HandledMeans /\ ParkedMeans

-----------------------------------------------------------------------------
\* The sizes of an answer.
LEMMA Sizes ==
  ASSUME NEW a \in Answers
  PROVE  /\ a.head \in Nat \ {0} /\ a.head >= 3
         /\ a.typeAt \in Nat
         /\ BodyLen(a) \in Nat
         /\ Total(a) \in Nat /\ Total(a) >= a.head
         /\ a.body # Unknown => a.body \in Nat /\ Total(a) = a.head + a.body
BY ConstantsAssumption DEF BodyLen, Total

LEMMA InitHolds == Init => IInv
<1> SUFFICES ASSUME Init PROVE IInv
  OBVIOUS
<1> USE DEF Init
<1>1. answer \in Answers /\ Total(answer) \in Nat
  BY Sizes
<1>2. RequestLen \in Nat
  BY ConstantsAssumption
<1>3. arrived \in 0 .. Total(answer) /\ read \in 0 .. arrived
      /\ length \in 0 .. Total(answer) /\ written \in 0 .. RequestLen
  BY <1>1, <1>2
<1>4. TypeOK
  BY <1>1, <1>3 DEF TypeOK
<1>5. ClosedMeans
  BY DEF ClosedMeans
<1> QED
  BY <1>4, <1>5 DEF IInv, LengthMeans, DeadMeans, HandledMeans, ParkedMeans
-----------------------------------------------------------------------------
(* The server *)

LEMMA ArrivePreserves == ASSUME IInv, Arrive PROVE IInv'
<1> USE DEF IInv, Arrive, client
<1>1. Total(answer) \in Nat /\ RequestLen \in Nat
  BY Sizes, ConstantsAssumption DEF TypeOK
<1>2. TypeOK'
  BY <1>1 DEF TypeOK
<1>3. HandledMeans'
  BY <1>1 DEF HandledMeans, TypeOK
<1> QED
  BY <1>2, <1>3 DEF LengthMeans, DeadMeans, ClosedMeans, ParkedMeans

LEMMA EndPreserves == ASSUME IInv, End PROVE IInv'
<1> USE DEF IInv, End, client
<1>1. TypeOK'
  BY DEF TypeOK
<1>2. HandledMeans'
  BY DEF HandledMeans
<1> QED
  BY <1>1, <1>2 DEF LengthMeans, DeadMeans, ClosedMeans, ParkedMeans

\* What a reset throws away had not been read.
LEMMA ResetPreserves == ASSUME IInv, Reset PROVE IInv'
<1> USE DEF IInv, Reset, client
<1>1. Total(answer) \in Nat
  BY Sizes DEF TypeOK
<1>2. TypeOK'
  BY <1>1 DEF TypeOK
<1>3. HandledMeans'
  BY DEF HandledMeans
<1> QED
  BY <1>2, <1>3 DEF LengthMeans, DeadMeans, ClosedMeans, ParkedMeans
-----------------------------------------------------------------------------
(* OnWrite *)

LEMMA OnWritePreserves == ASSUME IInv, OnWrite PROVE IInv'
<1> USE DEF IInv, OnWrite
<1>1. RequestLen \in Nat
  BY ConstantsAssumption
<1>2. written' \in 0 .. RequestLen
  <2>1. written \in 0 .. RequestLen
    BY DEF TypeOK
  <2>2. written' = written \/ written' \in (written + 1) .. RequestLen
    OBVIOUS
  <2> HIDE DEF IInv, OnWrite
  <2> QED
    BY <1>1, <2>1, <2>2
<1>3. fd = "open" /\ handled = "no"
  BY DEF ClosedMeans
<1>4. \/ fd' = "open" /\ "readable" \in mask'
      \/ fd' = "closed" /\ mask' = {}
  BY <1>3 DEF Close, ClosedMeans
<1>5. TypeOK'
  BY <1>2, <1>4 DEF TypeOK, Close
<1>6. ClosedMeans'
  BY <1>3, <1>4 DEF ClosedMeans
<1> QED
  BY <1>3, <1>4, <1>5, <1>6 DEF LengthMeans, DeadMeans, HandledMeans, ParkedMeans
-----------------------------------------------------------------------------
(* OnRead *)

\* What a parse of the first r units finds.
LEMMA ParseFacts ==
  ASSUME IInv, NEW r \in 0 .. arrived
  PROVE  /\ ParsedLength(r) \in 0 .. Total(answer)
         /\ ParsedLength(r) = 0 => r <= answer.head
         /\ ParsedLength(r) # 0 =>
              /\ r > answer.head
              /\ ParsedLength(r) =
                   answer.head + (IF answer.body = Unknown THEN -1 ELSE answer.body)
         /\ ParsedDead(r) \in BOOLEAN
         /\ ParsedDead(r) => r = Total(answer)
         /\ ParsedType(r) \in {"none", "cut", "whole"}
<1>1. answer \in Answers /\ arrived \in 0 .. Total(answer)
      /\ type \in {"none", "cut", "whole"}
  BY DEF IInv, TypeOK
<1>2. /\ answer.head \in Nat /\ answer.head >= 3
      /\ Total(answer) \in Nat /\ Total(answer) >= answer.head
      /\ answer.body # Unknown => answer.body \in Nat /\ Total(answer) = answer.head + answer.body
  BY <1>1, Sizes
<1>3. ParsedDead(r) \in BOOLEAN
  BY DEF ParsedDead
<1>4. ParsedDead(r) => r = Total(answer)
  BY <1>1, <1>2 DEF ParsedDead
<1>5. ParsedType(r) \in {"none", "cut", "whole"}
  BY <1>1 DEF ParsedType
<1> QED
  BY <1>1, <1>2, <1>3, <1>4, <1>5 DEF ParsedLength

\* Phase two and the end of OnRead, whatever phase one left.
LEMMA ReadBodyPreserves ==
  ASSUME IInv, Readable,
         NEW r \in 0 .. arrived, NEW l \in 0 .. Total(answer), NEW d \in BOOLEAN,
         UNCHANGED <<world, answer, arrived, over, written>>,
         buffer' = TRUE, length' = l, dead' = d, type' \in {"none", "cut", "whole"},
         l # 0 => r > answer.head
                  /\ l = answer.head + (IF answer.body = Unknown THEN -1 ELSE answer.body),
         d => r = Total(answer),
         r = 0 => world.interrupts /\ arrived = 0 /\ over # "no",
         ReadBody(r, l, d)
  PROVE  IInv'
<1>1. answer \in Answers /\ arrived \in 0 .. Total(answer) /\ answer' = answer
  BY DEF IInv, TypeOK
<1>2. /\ answer.head \in Nat /\ answer.head >= 3
      /\ Total(answer) \in Nat /\ Total(answer) >= answer.head
      /\ answer.body # Unknown => answer.body \in Nat /\ Total(answer) = answer.head + answer.body
  BY <1>1, Sizes
<1>3. fd = "open" /\ handled = "no"
  BY DEF IInv, ClosedMeans, Readable
<1>4. read' \in r .. arrived /\ (read' # r => l > r)
  BY <1>1, <1>2 DEF ReadBody, Lesser
<1>5. d => read' = Total(answer)
  BY <1>1, <1>2, <1>4
<1>6. read' = l => read' = Total(answer) \/ read' = 0
  BY <1>1, <1>2, <1>4
<1>7. read' = 0 => world.interrupts /\ arrived = 0 /\ over # "no"
  BY <1>1, <1>4
<1>8. \/ /\ fd' = "open" /\ mask' = mask /\ handled' = "no"
      \/ /\ read' = l \/ d
         /\ fd' \in {"parked", "closed"} /\ mask' = {}
         /\ handled' \in {"handler", "redirect"}
  BY <1>3 DEF ReadBody, Finish, Close
<1>9. TypeOK'
  <2>1. read' \in 0 .. arrived'
    BY <1>1, <1>2, <1>4
  <2>2. mask' \subseteq {"readable", "writable"}
    BY <1>8 DEF IInv, TypeOK
  <2> QED
    BY <1>1, <1>8, <2>1, <2>2 DEF IInv, TypeOK
<1>10. LengthMeans'
  BY <1>1, <1>2, <1>4 DEF LengthMeans
<1>11. DeadMeans'
  BY <1>1, <1>5 DEF DeadMeans
<1>12. ClosedMeans' /\ ParkedMeans'
  BY <1>8 DEF ClosedMeans, ParkedMeans, Readable
<1>13. HandledMeans'
  BY <1>1, <1>5, <1>6, <1>7, <1>8 DEF HandledMeans
<1> QED
  BY <1>9, <1>10, <1>11, <1>12, <1>13 DEF IInv

\* A connection closed before the end of its answer.
LEMMA ClosePreserves ==
  ASSUME IInv, Readable, Close(FALSE),
         UNCHANGED <<world, answer, arrived, over, written, handled>>,
         read' \in read .. arrived, buffer' = TRUE,
         length' \in 0 .. Total(answer), dead' \in BOOLEAN,
         type' \in {"none", "cut", "whole"}, LengthMeans', DeadMeans'
  PROVE  IInv'
<1>1. answer \in Answers /\ arrived \in 0 .. Total(answer) /\ read \in 0 .. arrived
  BY DEF IInv, TypeOK
<1>2. Total(answer) \in Nat
  BY <1>1, Sizes
<1>3. handled = "no" /\ fd' = "closed" /\ mask' = {}
  BY DEF IInv, ClosedMeans, Readable, Close
<1>4. read' \in 0 .. arrived'
  BY <1>1, <1>2
<1>5. TypeOK'
  BY <1>1, <1>3, <1>4 DEF IInv, TypeOK
<1> QED
  BY <1>3, <1>5 DEF IInv, ClosedMeans, HandledMeans, ParkedMeans

LEMMA StutterPreserves == ASSUME IInv, UNCHANGED vars PROVE IInv'
BY DEF IInv, vars, client, TypeOK, LengthMeans, DeadMeans, ClosedMeans, HandledMeans,
       ParkedMeans, Total, BodyLen

LEMMA ReadResponsePreserves == ASSUME IInv, Readable, ReadResponse PROVE IInv'
<1> DEFINE n == Lesser(arrived, RecvBuf) - read
<1>0. n = Available
  BY DEF Available
<1>1. /\ answer \in Answers /\ arrived \in 0 .. Total(answer) /\ read \in 0 .. arrived
      /\ length \in 0 .. Total(answer) /\ dead \in BOOLEAN
      /\ type \in {"none", "cut", "whole"}
  BY DEF IInv, TypeOK
<1>2. Total(answer) \in Nat /\ RecvBuf \in Nat \ {0} /\ answer.head \in Nat
  BY <1>1, Sizes, ConstantsAssumption
<1>3. Readable /\ buffer' = TRUE /\ UNCHANGED <<world, answer, arrived, over, written>>
  BY DEF ReadResponse
<1>4. n \in Int /\ read + n <= arrived
  BY <1>1, <1>2 DEF Lesser
\* A parse of r units, read so far or just now.
<1>5. ASSUME NEW r \in read .. arrived, Parse(r),
             r = 0 => world.interrupts /\ arrived = 0 /\ over # "no"
      PROVE  IInv'
  <2>1. r \in 0 .. arrived
    BY <1>1, <1>2
  <2>2. length' = ParsedLength(r) /\ dead' = ParsedDead(r) /\ type' = ParsedType(r)
    BY <1>5 DEF Parse
  <2>3. CASE ReadBody(r, length', dead')
    BY <1>3, <1>5, <2>1, <2>2, <2>3, ParseFacts, ReadBodyPreserves
  <2>4. CASE read' = r /\ Close(FALSE) /\ UNCHANGED handled
    <3>1. LengthMeans' /\ DeadMeans'
      BY <1>3, <2>1, <2>2, <2>4, ParseFacts DEF LengthMeans, DeadMeans, Total, BodyLen
    <3> QED
      BY <1>3, <2>1, <2>2, <2>4, <3>1, ParseFacts, ClosePreserves
  <2> QED
    BY <1>5, <2>3, <2>4 DEF Parse
<1>6. CASE length = 0 /\ n > 0 /\ Parse(read + n)
  <2>1. read + n \in read .. arrived /\ read + n # 0
    BY <1>1, <1>2, <1>4, <1>6
  <2> QED
    BY <1>5, <1>6, <2>1
<1>7. CASE n = 0 /\ Close(FALSE) /\ UNCHANGED <<read, length, dead, type, handled>>
  <2>1. LengthMeans' /\ DeadMeans'
    BY <1>3, <1>7 DEF IInv, LengthMeans, DeadMeans, Total, BodyLen
  <2>2. read' \in read .. arrived
    BY <1>1, <1>2, <1>7
  <2> QED
    BY <1>1, <1>3, <1>7, <2>1, <2>2, ClosePreserves
<1>8. CASE length = 0 /\ n = 0 /\ world.interrupts /\ Parse(read)
  <2>1. read = 0 => arrived = 0
    BY <1>1, <1>2, <1>8 DEF Lesser
  <2>2. read = 0 => over # "no"
    BY <1>3, <2>1 DEF Readable
  <2>3. read \in read .. arrived
    BY <1>1, <1>2
  <2> QED
    BY <1>5, <1>8, <2>1, <2>2, <2>3
<1>9. CASE length # 0 /\ ReadBody(read, length, dead) /\ UNCHANGED <<length, dead, type>>
  <2>1. read > answer.head
        /\ length = answer.head + (IF answer.body = Unknown THEN -1 ELSE answer.body)
    BY <1>9 DEF IInv, LengthMeans
  <2>2. read # 0
    BY <1>1, <1>2, <2>1
  <2>3. dead => read = Total(answer)
    BY DEF IInv, DeadMeans
  <2> QED
    BY <1>1, <1>3, <1>9, <2>1, <2>2, <2>3, ReadBodyPreserves
<1> QED
  BY <1>0, <1>6, <1>7, <1>8, <1>9 DEF ReadResponse

\* Without a first block nothing happens.
LEMMA OnReadPreserves == ASSUME IInv, OnRead PROVE IInv'
<1>1. CASE UNCHANGED vars
  BY <1>1, StutterPreserves
<1> QED
  BY <1>1, ReadResponsePreserves DEF OnRead, NoFirstBlock
-----------------------------------------------------------------------------
LEMMA Inductive == IInv /\ [Next]_vars => IInv'
BY ArrivePreserves, EndPreserves, ResetPreserves, OnReadPreserves, OnWritePreserves,
   StutterPreserves DEF Next

LEMMA Invariance == Spec => []IInv
BY InitHolds, Inductive, PTL DEF Spec

\* Every variable keeps its type; in particular OnRead never reads more than came.
THEOREM TypeCorrect == Spec => []TypeOK
<1>1. IInv => TypeOK
  BY DEF IInv
<1> QED
  BY <1>1, Invariance, PTL

\* However the answer arrives, and whatever the server, the memory or a signal do,
\* OnRead hands over the whole answer or, after an interrupt, an empty one.
THEOREM WholeAnswers == Spec => []HandledWhole
<1>1. IInv => HandledWhole
  BY DEF IInv, HandledMeans, HandledWhole
<1> QED
  BY <1>1, Invariance, PTL

\* A socket goes back to the pool with nothing of the old answer left in it.
THEOREM ParkedSocketsAreDrained == Spec => []ParkedIsDrained
<1>1. ASSUME IInv PROVE ParkedIsDrained
  <2>1. arrived \in 0 .. Total(answer) /\ read \in 0 .. arrived /\ Total(answer) \in Nat
    BY <1>1, Sizes DEF IInv, TypeOK
  <2> QED
    BY <1>1, <2>1 DEF IInv, ParkedMeans, HandledMeans, ParkedIsDrained
<1> QED
  BY <1>1, Invariance, PTL
-----------------------------------------------------------------------------
(* The Content-Type of a header that comes in one piece *)

\* A read that finds data finds the header, or as much of it as the block holds; and a
\* header that does not fit is never got past, so that nothing with a cut type is handled.
TypeMeans ==
  ~world.cuts =>
    /\ arrived > 0 => arrived >= Lesser(answer.head, RecvBuf)
    /\ read > 0 => read >= Lesser(answer.head, RecvBuf)
    /\ IF read = 0 THEN type = "none" ELSE type = "whole" \/ RecvBuf <= answer.typeAt
    /\ IF length = 0 THEN read <= RecvBuf ELSE answer.head < RecvBuf

LEMMA TypeMeansInit == Init => TypeMeans
BY ConstantsAssumption DEF Init, TypeMeans

\* The numbers behind it.
LEMMA HeaderFacts ==
  ASSUME IInv
  PROVE  /\ answer \in Answers /\ arrived \in Nat /\ read \in Nat /\ read <= arrived
         /\ length \in Nat /\ type \in {"none", "cut", "whole"}
         /\ answer.head \in Nat /\ answer.typeAt \in Nat
         /\ answer.typeAt > 0 /\ answer.typeAt < answer.head
         /\ answer.body # Unknown => answer.body \in Nat
         /\ RecvBuf \in Nat /\ RecvBuf > 0
<1>1. answer \in Answers /\ arrived \in 0 .. Total(answer) /\ read \in 0 .. arrived
      /\ length \in 0 .. Total(answer) /\ type \in {"none", "cut", "whole"}
  BY DEF IInv, TypeOK
<1>2. Total(answer) \in Nat /\ answer.head \in Nat
  BY <1>1, Sizes
<1>3. answer.typeAt \in 1 .. (answer.head - 2) /\ answer.body \in Nat \cup {Unknown}
      /\ RecvBuf \in Nat \ {0}
  BY <1>1, ConstantsAssumption
<1> QED
  BY <1>1, <1>2, <1>3

\* A parse of what phase one has read.
LEMMA ParseKeepsType ==
  ASSUME IInv, TypeMeans, ~world.cuts, UNCHANGED <<world, answer, arrived>>,
         NEW r \in read .. arrived, r <= RecvBuf, Parse(r),
         r = read \/ r = Lesser(arrived, RecvBuf)
  PROVE  TypeMeans'
<1> USE HeaderFacts
<1>1. r \in Nat /\ r >= read /\ r <= arrived
  OBVIOUS
<1>2. r > 0 => r >= Lesser(answer.head, RecvBuf)
  BY <1>1 DEF TypeMeans, Lesser
<1>3. length' = ParsedLength(r) /\ type' = ParsedType(r)
  BY DEF Parse
<1>4. IF length' = 0 THEN TRUE ELSE r > answer.head
  BY <1>3 DEF ParsedLength
<1>5. r > answer.head => length' \in Nat /\ length' >= answer.head - 1
  BY <1>1, <1>3 DEF ParsedLength
<1>6. /\ read' \in Nat /\ read' >= r /\ (read' # r => length' > r)
  <2>1. CASE ReadBody(r, length', dead')
    BY <1>1, <1>3, <1>4, <1>5, <2>1 DEF ReadBody, Lesser, ParsedLength
  <2>2. CASE read' = r
    BY <1>1, <2>2
  <2> QED
    BY <2>1, <2>2 DEF Parse
<1>7. IF r = 0 THEN type' = "none" ELSE type' = "whole" \/ RecvBuf <= answer.typeAt
  BY <1>1, <1>2, <1>3 DEF ParsedType, TypeMeans, Lesser
<1>8. read' > 0 => r > 0
  BY <1>1, <1>4, <1>6
<1>9. IF length' = 0 THEN read' <= RecvBuf ELSE answer.head < RecvBuf
  BY <1>1, <1>4, <1>6
<1>10. read' > 0 => read' >= Lesser(answer.head, RecvBuf)
  BY <1>1, <1>2, <1>6, <1>8 DEF Lesser
<1> QED
  BY <1>6, <1>7, <1>8, <1>9, <1>10 DEF TypeMeans

\* A read of phase two.
LEMMA ReadOnKeepsType ==
  ASSUME IInv, TypeMeans, ~world.cuts, UNCHANGED <<world, answer, arrived, length, type>>,
         length # 0, ReadBody(read, length, dead)
  PROVE  TypeMeans'
<1> USE HeaderFacts
<1>1. read > answer.head
  BY DEF IInv, LengthMeans
<1>2. read' \in Nat /\ read' >= read
  BY DEF ReadBody, Lesser
<1> QED
  BY <1>1, <1>2 DEF TypeMeans, Lesser

LEMMA ReadResponseKeepsType ==
  ASSUME IInv, TypeMeans, ReadResponse, ~world.cuts PROVE TypeMeans'
<1> USE HeaderFacts
<1>1. UNCHANGED <<world, answer, arrived>>
  BY DEF ReadResponse
<1>2. CASE length = 0 /\ Available > 0 /\ Parse(read + Available)
  <2>1. read + Available \in read .. arrived /\ read + Available <= RecvBuf
        /\ read + Available = Lesser(arrived, RecvBuf)
    BY <1>2 DEF Available, Lesser
  <2> QED
    BY <1>1, <1>2, <2>1, ParseKeepsType
<1>3. CASE UNCHANGED <<read, length, type>>
  BY <1>1, <1>3 DEF TypeMeans
<1>4. CASE length # 0 /\ ReadBody(read, length, dead) /\ UNCHANGED <<length, dead, type>>
  BY <1>1, <1>4, ReadOnKeepsType
<1>5. CASE length = 0 /\ Parse(read)
  <2>1. read \in read .. arrived /\ read <= RecvBuf
    BY <1>5 DEF TypeMeans
  <2> QED
    BY <1>1, <1>5, <2>1, ParseKeepsType
<1> QED
  BY <1>2, <1>3, <1>4, <1>5 DEF ReadResponse

LEMMA OnReadKeepsType == ASSUME IInv, TypeMeans, OnRead, ~world.cuts PROVE TypeMeans'
<1>1. CASE UNCHANGED vars
  BY <1>1 DEF TypeMeans, vars, client
<1> QED
  BY <1>1, ReadResponseKeepsType DEF OnRead, NoFirstBlock

LEMMA TypeMeansKept == ASSUME IInv, TypeMeans, [Next]_vars PROVE TypeMeans'
<1> USE HeaderFacts
<1> SUFFICES ASSUME ~world'.cuts PROVE TypeMeans'
  BY DEF TypeMeans
<1>1. world' = world /\ answer' = answer
  BY DEF Next, Arrive, End, Reset, OnRead, ReadResponse, NoFirstBlock, OnWrite, vars
<1>2. CASE Arrive
  <2>1. arrived' \in Int /\ arrived' > arrived /\ arrived' >= answer.head
    BY <1>1, <1>2, Sizes DEF Arrive
  <2> QED
    BY <1>1, <1>2, <2>1 DEF Arrive, TypeMeans, client, Lesser
<1>3. CASE Reset
  BY <1>1, <1>3 DEF Reset, TypeMeans, client
<1>4. CASE OnRead
  BY <1>1, <1>4, OnReadKeepsType
<1>5. CASE End \/ OnWrite \/ UNCHANGED vars
  BY <1>1, <1>5 DEF End, OnWrite, TypeMeans, client, vars
<1> QED
  BY <1>2, <1>3, <1>4, <1>5 DEF Next

\* A header that came in one piece is understood as a whole: the answer goes to the
\* handler its Content-Type is for, for every answer, every cut of its body and every
\* size of the first block.
THEOREM WholeTypes == Spec => []TypeIsWhole
<1>1. ASSUME IInv, TypeMeans PROVE TypeIsWhole
  <2> SUFFICES ASSUME ~world.cuts, handled # "no", read > 0 PROVE type = "whole"
    BY DEF TypeIsWhole
  <2>1. read = Total(answer)
    BY <1>1 DEF IInv, HandledMeans
  <2>2. read >= answer.head
    BY <1>1, <2>1, HeaderFacts, Sizes
  <2> QED
    BY <1>1, <2>2, HeaderFacts DEF TypeMeans
<1>2. Init => IInv /\ TypeMeans
  BY InitHolds, TypeMeansInit
<1>3. (IInv /\ TypeMeans) /\ [Next]_vars => (IInv /\ TypeMeans)'
  BY Inductive, TypeMeansKept
<1> QED
  BY <1>1, <1>2, <1>3, PTL DEF Spec
=============================================================================

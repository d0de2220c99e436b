-------------------------- MODULE HlsAnswersProofs --------------------------
(***************************************************************************)
(* Proofs about what HlsHandler does with an answer and about the requests that *)
(* come of it, for every set of answers, sizes of blocks, threads, names of     *)
(* files and free space, and for every text that is a URL or an entry: a segment *)
(* of at most two blocks that was saved without an error is whole, and a new    *)
(* file never holds anything but the beginning of its segment; a URL is taken    *)
(* apart without loss, its request is read back as it was written, and an entry   *)
(* is asked for where its playlist came from; every line of a playlist becomes    *)
(* the entry it is, over however many blocks it came.                          *)
(***************************************************************************)
EXTENDS HlsAnswers, Requests, FiniteSetTheorems, SequenceTheorems, TLAPS

-----------------------------------------------------------------------------
(* Segments: the blocks of an answer and what a write does to a file *)

Units == Nat \X Nat
Contents == Seq(Units)

\* A block, full ones and what is left.
Joined(first, more, full, last) ==
  <<first>> \o [i \in 1 .. full |-> more] \o (IF last = 0 THEN <<>> ELSE <<last>>)

WellJoined(z, first, more, full, last) ==
  /\ z \in Seq(Nat) /\ Len(z) > 1 /\ z[1] = first
  /\ Len(z) = 2 => \/ full = 0 /\ z[2] = last
                   \/ full = 1 /\ last = 0 /\ z[2] = more
  /\ \A b \in 1 .. Len(z) : z[b] # 0

LEMMA BlocksJoined ==
  ASSUME NEW first \in Nat, first # 0, NEW more \in Nat, more # 0, NEW full \in Nat,
         NEW last \in Nat, full = 0 => last # 0
  PROVE  WellJoined(Joined(first, more, full, last), first, more, full, last)
<1> SUFFICES ASSUME NEW z, z = Joined(first, more, full, last)
             PROVE  WellJoined(z, first, more, full, last)
  OBVIOUS
<1>0. PICK m : m = [i \in 1 .. full |-> more]
  OBVIOUS
<1>1. m \in Seq(Nat) /\ Len(m) = full /\ \A i \in 1 .. full : m[i] = more
  BY <1>0
<1>2. <<first>> \in Seq(Nat) /\ Len(<<first>>) = 1 /\ <<first>>[1] = first
  OBVIOUS
<1>3. <<first>> \o m \in Seq(Nat)
  BY <1>1, <1>2, ConcatProperties
<1>4. PICK s \in Seq(Nat) : s = <<first>> \o m
  BY <1>3
<1>5. /\ Len(s) = 1 + full /\ s[1] = first
      /\ \A i \in 1 .. full : s[1 + i] = more
  BY <1>1, <1>4
<1>6. \A b \in 1 .. Len(s) : s[b] # 0
  <2>1. \A b \in 1 .. Len(s) : b = 1 \/ (b - 1 \in 1 .. full /\ 1 + (b - 1) = b)
    BY <1>5
  <2> QED BY <1>5, <2>1
<1>7. full = 1 => s[2] = more
  BY <1>5
<1>8. CASE last = 0
  <2>1. z = s
    BY <1>0, <1>4, <1>8 DEF Joined
  <2>2. Len(s) > 1 /\ (Len(s) = 2 => full = 1)
    BY <1>5, <1>8
  <2> QED BY <1>5, <1>6, <1>7, <1>8, <2>1, <2>2 DEF WellJoined
<1>9. CASE last # 0
  <2>1. z = s \o <<last>>
    BY <1>0, <1>4, <1>9 DEF Joined
  <2>2. PICK y : y = s \o <<last>>
    OBVIOUS
  <2>3. /\ y \in Seq(Nat) /\ Len(y) = Len(s) + 1 /\ y[Len(s) + 1] = last
        /\ \A b \in 1 .. Len(s) : y[b] = s[b]
    BY <2>2
  <2>4. Len(y) = 2 + full /\ (full = 0 => y[2] = last) /\ y[1] = first
    BY <1>5, <2>3
  <2>5. \A b \in 1 .. Len(y) : b \in 1 .. Len(s) \/ b = Len(s) + 1
    BY <1>5, <2>3
  <2>6. \A b \in 1 .. Len(y) : y[b] # 0
    BY <1>6, <1>9, <2>3, <2>5
  <2>7. Len(y) > 1 /\ (Len(y) = 2 => full = 0)
    BY <2>4
  <2>8. z = y
    BY <2>1, <2>2
  <2> QED BY <2>3, <2>4, <2>6, <2>7, <2>8 DEF WellJoined
<1> QED BY <1>8, <1>9

LEMMA SizesAre ==
  ASSUME NEW a \in SavedAnswers
  PROVE  /\ Len(Sizes(a)) \in Nat \ {0}
         /\ \A b \in 1 .. Len(Sizes(a)) : Sizes(a)[b] \in Nat \ {0}
         /\ Sizes(a)[1] = IF Total(a) <= FirstBlock THEN Total(a) ELSE FirstBlock
         /\ Len(Sizes(a)) = 1 <=> Total(a) <= FirstBlock
         /\ Len(Sizes(a)) = 2 => Sizes(a)[2] = Total(a) - FirstBlock
<1>1. /\ a.head \in Nat \ {0} /\ a.head < FirstBlock /\ a.body \in Nat
      /\ FirstBlock \in Nat \ {0} /\ LargestBlock \in Nat \ {0}
  BY SegmentAssumption
<1>2. PICK left \in Int : left = Total(a) - FirstBlock
  BY <1>1 DEF Total
<1>3. Total(a) \in Nat \ {0} /\ (left <= 0 <=> Total(a) <= FirstBlock)
  BY <1>1, <1>2 DEF Total
<1>4. CASE left <= 0
  <2>1. Sizes(a) = <<Total(a)>>
    BY <1>2, <1>4 DEF Sizes
  <2> QED BY <1>3, <1>4, <2>1
<1>5. CASE ~(left <= 0)
  <2>1. PICK full, last : full = left \div LargestBlock /\ last = left % LargestBlock
    OBVIOUS
  <2>2. /\ full \in Nat /\ last \in Nat /\ last < LargestBlock
        /\ full = 0 => left = last
        /\ full = 1 => left = LargestBlock + last
        /\ full = 0 => last # 0
    BY <1>1, <1>5, <2>1
  <2>3. PICK z : z = Joined(FirstBlock, LargestBlock, full, last)
    OBVIOUS
  <2>4. Sizes(a) = z
    BY <1>2, <1>5, <2>1, <2>3 DEF Sizes, Joined
  <2>5. /\ z \in Seq(Nat) /\ Len(z) > 1 /\ z[1] = FirstBlock
        /\ Len(z) = 2 => \/ full = 0 /\ z[2] = last
                         \/ full = 1 /\ last = 0 /\ z[2] = LargestBlock
        /\ \A b \in 1 .. Len(z) : z[b] # 0
    <3>1. WellJoined(z, FirstBlock, LargestBlock, full, last)
      BY <1>1, <2>2, <2>3, BlocksJoined
    <3> QED BY <3>1 DEF WellJoined
  <2>6. /\ Len(z) \in Nat \ {0} /\ Len(z) # 1
        /\ \A b \in 1 .. Len(z) : z[b] \in Nat \ {0}
    BY <2>5
  <2>7. ASSUME Len(z) = 2 PROVE z[2] = left
    <3>1. CASE full = 0 /\ z[2] = last
      BY <2>2, <3>1
    <3>2. CASE full = 1 /\ last = 0 /\ z[2] = LargestBlock
      BY <1>1, <2>2, <3>2
    <3> QED BY <2>5, <2>7, <3>1, <3>2
  <2> QED BY <1>2, <1>3, <1>5, <2>4, <2>5, <2>6, <2>7
<1> QED BY <1>4, <1>5

\* What is written of block b of an answer: something, and of that answer.
Written(n, a, b) == BlockData(n, a, b, IF b = 1 THEN BodyOffset(a) ELSE 0)

LEMMA WrittenIs ==
  ASSUME NEW n \in Nat, NEW a \in SavedAnswers, NEW b \in 1 .. Len(Sizes(a))
  PROVE  /\ Written(n, a, b) \in Contents
         /\ Len(Written(n, a, b)) >= 1
         /\ \A i \in 1 .. Len(Written(n, a, b)) : Written(n, a, b)[i][1] = n
         /\ a.body > 0 /\ b = 1 =>
              /\ Len(Written(n, a, b)) = Sizes(a)[1] - a.head
              /\ \A i \in 1 .. Len(Written(n, a, b)) : Written(n, a, b)[i] = Unit(n, a.head + i)
         /\ b = 2 /\ Len(Sizes(a)) = 2 =>
              /\ Len(Written(n, a, b)) = Total(a) - FirstBlock
              /\ \A i \in 1 .. Len(Written(n, a, b)) : Written(n, a, b)[i] = Unit(n, FirstBlock + i)
<1>1. /\ a.head \in Nat \ {0} /\ a.head < FirstBlock /\ a.body \in Nat
      /\ FirstBlock \in Nat \ {0} /\ LargestBlock \in Nat \ {0}
  BY SegmentAssumption
<1>2. PICK off : off = IF b = 1 THEN BodyOffset(a) ELSE 0
  OBVIOUS
<1>3. PICK before : before = IF b = 1 THEN 0 ELSE FirstBlock + (b - 2) * LargestBlock
  OBVIOUS
<1>4. PICK z : z = Sizes(a)[b] - off
  OBVIOUS
<1>5. Written(n, a, b) = [i \in 1 .. z |-> Unit(n, before + off + i)]
  BY <1>2, <1>3, <1>4 DEF Written, BlockData
<1>6. Sizes(a)[b] \in Nat \ {0}
  BY SizesAre
<1>7. off \in Nat /\ z \in Nat \ {0}
  <2>1. CASE b = 1 /\ a.body > 0
    <3>1. off = a.head
      BY <1>1, <1>2, <2>1 DEF BodyOffset
    <3>2. Sizes(a)[1] > a.head
      BY <1>1, <2>1, SizesAre DEF Total
    <3> QED BY <1>1, <1>4, <1>6, <2>1, <3>1, <3>2
  <2>2. CASE ~(b = 1 /\ a.body > 0)
    <3>1. off = 0
      BY <1>1, <1>2, <2>2 DEF BodyOffset
    <3> QED BY <1>4, <1>6, <3>1
  <2> QED BY <2>1, <2>2
<1>8. before \in Nat
  <2>1. CASE b = 1
    BY <1>3, <2>1
  <2>2. CASE b # 1
    <3>1. b - 2 \in Nat
      BY <2>2, SizesAre
    <3>2. (b - 2) * LargestBlock \in Nat
      BY <1>1, <3>1
    <3> QED BY <1>1, <1>3, <2>2, <3>2
  <2> QED BY <2>1, <2>2
<1>9. \A i \in 1 .. z : Unit(n, before + off + i) \in Units /\ Unit(n, before + off + i)[1] = n
  BY <1>7, <1>8 DEF Unit, Units
<1>10. /\ Written(n, a, b) \in Contents /\ Len(Written(n, a, b)) = z
       /\ \A i \in 1 .. z : Written(n, a, b)[i] = Unit(n, before + off + i)
  BY <1>5, <1>7, <1>9 DEF Contents
<1>11. ASSUME a.body > 0, b = 1
       PROVE  before = 0 /\ off = a.head /\ z = Sizes(a)[1] - a.head
  BY <1>1, <1>2, <1>3, <1>4, <1>11 DEF BodyOffset
<1>12. ASSUME b = 2, Len(Sizes(a)) = 2
       PROVE  before = FirstBlock /\ off = 0 /\ z = Total(a) - FirstBlock
  <2>1. (b - 2) * LargestBlock = 0
    BY <1>1, <1>12
  <2>2. Sizes(a)[2] = Total(a) - FirstBlock
    BY <1>12, SizesAre
  <2> QED BY <1>1, <1>2, <1>3, <1>4, <1>12, <2>1, <2>2, SizesAre
<1>13. \A i \in 1 .. z : 0 + a.head + i = a.head + i /\ FirstBlock + 0 + i = FirstBlock + i
  BY <1>1, <1>7
<1> QED BY <1>7, <1>9, <1>10, <1>11, <1>12, <1>13

LEMMA TakenIs ==
  ASSUME NEW f \in Contents, NEW off \in Nat, NEW k \in Nat
  PROVE  /\ Taken(f, off, k) \in Nat
         /\ k = 0 => Taken(f, off, k) = 0
         /\ off = Len(f) => Taken(f, off, k) = k
<1> DEFINE S == {i \in off + 1 .. off + k : i > Len(f) \/ f[i] = Hole}
<1>1. IsFiniteSet(off + 1 .. off + k)
  BY FS_Interval
<1>2. IsFiniteSet(S)
  BY <1>1, FS_Subset
<1>3. k = 0 => S = {}
  OBVIOUS
<1>4. ASSUME off = Len(f) PROVE Cardinality(S) = k
  <2>1. S = off + 1 .. off + k
    BY <1>4
  <2>2. Cardinality(off + 1 .. off + k) = IF off + 1 > off + k THEN 0 ELSE off + k - (off + 1) + 1
    BY FS_Interval
  <2> HIDE DEF S
  <2> QED BY <2>1, <2>2
<1>5. Taken(f, off, k) = Cardinality(S)
  BY DEF Taken
<1> HIDE DEF S
<1> QED BY <1>2, <1>3, <1>4, <1>5, FS_CardinalityType, FS_EmptySet

\* A set of numbers has a least element.
Below == {p \in Nat \X Nat : p[1] < p[2]}

LEMMA NatLeast ==
  ASSUME NEW T, T \subseteq Nat, T # {}
  PROVE  \E n \in T : \A m \in T : n <= m
<1>1. IsWellFoundedOn(Below, Nat)
  BY NatLessThanWellFounded DEF OpToRel, Below
<1>2. PICK n \in T : \A m \in T : <<m, n>> \notin Below
  BY <1>1, WFMin
<1>3. \A m \in T : ~(m < n)
  BY <1>2 DEF Below
<1> QED BY <1>3

LEMMA FitsIs ==
  ASSUME NEW f \in Contents, NEW off \in Nat, NEW k \in Nat, room \in Nat
  PROVE  /\ Fits(f, off, k) \in 0 .. k
         /\ Taken(f, off, Fits(f, off, k)) <= room
         /\ Fits(f, off, k) < k => Taken(f, off, Fits(f, off, k) + 1) > room
<1> DEFINE Full(m) == m < k => Taken(f, off, m + 1) > room
           T == {m \in 0 .. k : Full(m)}
<1>1. \A m \in Nat : Taken(f, off, m) \in Nat
  BY TakenIs
<1>2. k \in T /\ T \subseteq Nat
  OBVIOUS
<1>3. PICK m \in T : \A j \in T : m <= j
  <2> HIDE DEF T
  <2> QED BY <1>2, NatLeast
<1>4. Taken(f, off, m) <= room
  <2>1. CASE m = 0
    BY <2>1, TakenIs
  <2>2. CASE m # 0
    <3>1. m - 1 \in 0 .. k /\ m - 1 < k /\ m - 1 + 1 = m /\ ~(m <= m - 1)
      BY <2>2
    <3>2. m - 1 \notin T
      BY <1>3, <3>1
    <3>3. ~(Taken(f, off, m) > room)
      BY <3>1, <3>2
    <3> QED BY <1>1, <1>3, <3>3
  <2> QED BY <2>1, <2>2
<1>5. \E n \in 0 .. k : /\ Taken(f, off, n) <= room
                        /\ n < k => Taken(f, off, n + 1) > room
  BY <1>3, <1>4
<1> QED BY <1>5 DEF Fits

LEMMA OverlayIs ==
  ASSUME NEW f \in Contents, NEW off \in Nat, NEW data \in Contents,
         NEW z, z = Overlay(f, off, data)
  PROVE  /\ z \in Contents
         /\ Len(z) >= Len(f) /\ Len(z) >= off + Len(data)
         /\ Len(z) = Len(f) \/ Len(z) = off + Len(data)
         /\ \A i \in 1 .. Len(data) : z[off + i] = data[i]
         /\ \A i \in 1 .. Len(f) : i \notin off + 1 .. off + Len(data) => z[i] = f[i]
         /\ \A i \in 1 .. Len(z) : \/ z[i] = Hole
                                   \/ \E j \in 1 .. Len(f) : z[i] = f[j]
                                   \/ \E j \in 1 .. Len(data) : z[i] = data[j]
<1>1. PICK len : len = IF off + Len(data) > Len(f) THEN off + Len(data) ELSE Len(f)
  OBVIOUS
<1>2. /\ Len(f) \in Nat /\ Len(data) \in Nat
      /\ \A i \in 1 .. Len(f) : f[i] \in Units
      /\ \A i \in 1 .. Len(data) : data[i] \in Units
  BY ElementOfSeq DEF Contents
<1>3. /\ len \in Nat /\ len >= Len(f) /\ len >= off + Len(data)
      /\ len = Len(f) \/ len = off + Len(data)
  BY <1>1, <1>2
<1> DEFINE At1(i) == IF i \in off + 1 .. off + Len(data) THEN data[i - off]
                     ELSE IF i <= Len(f) THEN f[i] ELSE Hole
<1>4. z = [i \in 1 .. len |-> At1(i)]
  BY <1>1 DEF Overlay
<1>5. \A i \in 1 .. len :
        \/ /\ i \in off + 1 .. off + Len(data) /\ i - off \in 1 .. Len(data)
           /\ At1(i) = data[i - off]
        \/ i \notin off + 1 .. off + Len(data) /\ i \in 1 .. Len(f) /\ At1(i) = f[i]
        \/ i \notin off + 1 .. off + Len(data) /\ ~(i <= Len(f)) /\ At1(i) = Hole
  BY <1>2, <1>3
<1>6. Hole \in Units
  BY DEF Hole, Units
<1>7. \A i \in 1 .. Len(data) :
        /\ off + i \in 1 .. len /\ off + i \in off + 1 .. off + Len(data)
        /\ off + i - off = i
  BY <1>2, <1>3
<1>8. \A i \in 1 .. len : At1(i) \in Units
  BY <1>2, <1>5, <1>6
<1> HIDE DEF At1
<1>9. z \in Contents /\ Len(z) = len /\ \A i \in 1 .. len : z[i] = At1(i)
  BY <1>3, <1>4, <1>8 DEF Contents
<1>10. \A i \in 1 .. Len(data) : z[off + i] = data[i]
  <2>1. SUFFICES ASSUME NEW i \in 1 .. Len(data) PROVE z[off + i] = data[i]
    OBVIOUS
  <2>2. PICK k \in 1 .. len : k = off + i
    BY <1>7
  <2>3. k \in off + 1 .. off + Len(data) /\ k - off = i
    BY <1>7, <2>2
  <2>4. z[k] = data[i]
    BY <1>5, <1>9, <2>3
  <2> QED BY <2>2, <2>4
<1>11. \A i \in 1 .. Len(f) : i \notin off + 1 .. off + Len(data) => z[i] = f[i]
  <2>1. \A i \in 1 .. Len(f) : i \in 1 .. len /\ i <= Len(f)
    BY <1>2, <1>3
  <2> QED BY <1>5, <1>9, <2>1
<1>12. \A i \in 1 .. len : \/ z[i] = Hole
                           \/ \E j \in 1 .. Len(f) : z[i] = f[j]
                           \/ \E j \in 1 .. Len(data) : z[i] = data[j]
  BY <1>5, <1>9
<1>13. Len(z) = len /\ z \in Contents
  BY <1>9
<1>14. /\ Len(z) >= Len(f) /\ Len(z) >= off + Len(data)
       /\ Len(z) = Len(f) \/ Len(z) = off + Len(data)
  BY <1>3, <1>13
<1>15. \A i \in 1 .. Len(z) : \/ z[i] = Hole
                              \/ \E j \in 1 .. Len(f) : z[i] = f[j]
                              \/ \E j \in 1 .. Len(data) : z[i] = data[j]
  BY Zenon, <1>12, <1>13
<1> QED BY Zenon, <1>10, <1>11, <1>13, <1>14, <1>15

\* What a write leaves: nothing has changed, or the first r units are written.
LEMMA WriteIs ==
  ASSUME files \in [Paths -> Contents \cup {ABSENT}], room \in Nat, fds \in 0 .. MaxFds,
         NEW path \in Paths, NEW off \in Int, NEW data \in Contents, Len(data) >= 1,
         WriteSync(path, off, data), NEW r, r = Result(path, off, data)
  PROVE  /\ r \in Int /\ fds' \in 0 .. MaxFds
         /\ \/ r < 0 /\ UNCHANGED <<files, room>>
            \/ /\ r \in 1 .. Len(data) /\ off \in Nat /\ files[path] \in Contents
               /\ files' = [files EXCEPT ![path] = Overlay(files[path], off, SubSeq(data, 1, r))]
               /\ room' \in Nat /\ room' <= room
               /\ off = Len(files[path]) =>
                    /\ r <= room
                    /\ r < Len(data) => room' = 0
<1>1. MaxFds \in Nat
  BY SegmentAssumption
<1>2. /\ fds' = IF fds = MaxFds \/ files[path] = ABSENT THEN fds ELSE fds + 1
      /\ IF r <= 0 THEN UNCHANGED <<files, room>>
         ELSE /\ files' = [files EXCEPT ![path] = Overlay(files[path], off, SubSeq(data, 1, r))]
              /\ room' = room - Taken(files[path], off, r)
  BY DEF WriteSync
<1>3. fds' \in 0 .. MaxFds
  BY <1>1, <1>2
<1>4. CASE fds = MaxFds \/ files[path] = ABSENT \/ off < 0
  <2>1. r = -1
    BY <1>4 DEF Result
  <2> QED BY <1>2, <1>3, <2>1
<1>5. CASE ~(fds = MaxFds \/ files[path] = ABSENT \/ off < 0)
  <2>1. off \in Nat /\ files[path] \in Contents
    BY <1>5
  <2>2. PICK f \in Contents : f = files[path]
    BY <2>1
  <2>3. PICK k \in Nat : k = Len(data)
    BY DEF Contents
  <2>4. PICK n : n = Fits(f, off, k)
    OBVIOUS
  <2>5. /\ n \in 0 .. k /\ Taken(f, off, n) <= room
        /\ n < k => Taken(f, off, n + 1) > room
    BY <2>1, <2>4, FitsIs
  <2>6. r = IF n = 0 /\ data # <<>> THEN -1 ELSE n
    BY <1>5, <2>2, <2>3, <2>4 DEF Result
  <2>7. data # <<>>
    BY DEF Contents
  <2>8. CASE n = 0
    BY <1>2, <1>3, <2>6, <2>7, <2>8
  <2>9. CASE n # 0
    <3>1. r = n /\ r \in 1 .. k
      BY <2>3, <2>5, <2>6, <2>9
    <3>9. r \in Nat
      BY <3>1
    <3>2. /\ files' = [files EXCEPT ![path] = Overlay(files[path], off, SubSeq(data, 1, r))]
          /\ room' = room - Taken(f, off, r)
      BY <1>2, <2>2, <3>1
    <3>3. Taken(f, off, r) \in Nat /\ (off = Len(f) => Taken(f, off, r) = r)
      BY <2>1, <2>2, <3>1, <3>9, TakenIs
    <3>4. room' \in Nat /\ room' <= room
      BY <2>5, <3>1, <3>2, <3>3
    <3>5. ASSUME off = Len(f) PROVE r <= room /\ (r < k => room' = 0)
      <4>1. Taken(f, off, r + 1) = r + 1
        BY <2>1, <3>1, <3>5, TakenIs
      <4>2. r < k => r + 1 > room
        BY <2>5, <3>1, <4>1
      <4> QED BY <2>5, <3>1, <3>2, <3>3, <3>5, <4>2
    <3> QED BY <1>3, <2>1, <2>2, <2>3, <3>1, <3>2, <3>4, <3>5
  <2> QED BY <2>8, <2>9
<1> QED BY <1>4, <1>5

-----------------------------------------------------------------------------
(* How far a saving has come.  n is its number, s what is known of it, f the     *)
(* file, r the room on the disk and w the offset of the next write.               *)

\* The first k units of the body are where they belong; and there is nothing else.
StartsWith(n, s, f, k) ==
  f \in Contents /\ k <= Len(f) /\ \A i \in 1 .. k : f[i] = Unit(n, s.answer.head + i)
IsStart(n, s, f, k) == StartsWith(n, s, f, k) /\ Len(f) = k

FirstPart(s) == Sizes(s.answer)[1] - s.answer.head

Begun(n, s, f, w) == w = 0 /\ ~s.failed /\ (s.fresh => IsStart(n, s, f, 0))

\* After the first of two blocks: one that was cut short has filled the disk.
Halfway(n, s, f, r, w) ==
  /\ ~s.failed => w = FirstPart(s) /\ StartsWith(n, s, f, w)
  /\ s.fresh => \/ w < 0 /\ IsStart(n, s, f, 0)
                \/ /\ w \in 1 .. FirstPart(s) /\ IsStart(n, s, f, w)
                   /\ w < FirstPart(s) => r = 0

Ended(n, s, f) ==
  /\ ~s.failed => StartsWith(n, s, f, s.answer.body)
  /\ s.fresh => \E k \in 0 .. s.answer.body : IsStart(n, s, f, k)

\* What a write of data at off makes of the file: e is the file, q the room after it.
Wrote(f, off, data, res, e, q) ==
  /\ res \in Int
  /\ \/ res < 0 /\ e = f
     \/ /\ res \in 1 .. Len(data) /\ off \in Nat /\ f \in Contents
        /\ e = Overlay(f, off, SubSeq(data, 1, res))
        /\ off = Len(f) /\ res < Len(data) => q = 0

Noted(s, data, res, z) ==
  /\ z.answer = s.answer /\ (z.fresh => s.fresh)
  /\ ~z.failed => ~s.failed /\ res = Len(data)

LEMMA PartIs ==
  ASSUME NEW data \in Contents, NEW res \in 1 .. Len(data)
  PROVE  /\ SubSeq(data, 1, res) \in Contents /\ Len(SubSeq(data, 1, res)) = res
         /\ \A i \in 1 .. res : SubSeq(data, 1, res)[i] = data[i]
<1>1. Len(data) \in Nat
  BY DEF Contents
<1>2. res \in Nat /\ \A i \in 1 .. res : i \in 1 .. Len(data)
  BY <1>1
<1>3. SubSeq(data, 1, res) = [i \in 1 .. res |-> data[i]]
  BY <1>1, <1>2 DEF Contents
<1>4. \A i \in 1 .. res : data[i] \in Units
  BY <1>2, ElementOfSeq DEF Contents
<1>5. PICK z : z = [i \in 1 .. res |-> data[i]]
  OBVIOUS
<1>6. z \in Seq(Units) /\ Len(z) = res /\ \A i \in 1 .. res : z[i] = data[i]
  BY <1>2, <1>4, <1>5
<1> QED BY <1>3, <1>5, <1>6 DEF Contents

Continues(n, s, data, k) ==
  \A i \in 1 .. Len(data) : data[i] = Unit(n, s.answer.head + (k + i))

Fitting(n, s, f, k, data) ==
  /\ s.answer.head \in Nat /\ StartsWith(n, s, f, k)
  /\ data \in Contents /\ Continues(n, s, data, k)
Grown(n, s, f, k, res, e) ==
  StartsWith(n, s, e, k + res) /\ (Len(f) = k => Len(e) = k + res)
Cut(f, k, data, res) == Overlay(f, k, SubSeq(data, 1, res))

\* A write behind the first k units of the body that goes on with them.
LEMMA WritesOn ==
  ASSUME NEW n, NEW s, NEW f, NEW k \in Nat, NEW data, Fitting(n, s, f, k, data),
         NEW res \in 1 .. Len(data)
  PROVE  Grown(n, s, f, k, res, Cut(f, k, data, res))
<1>0. PICK e : e = Cut(f, k, data, res)
  OBVIOUS
<1>1. /\ f \in Contents /\ k <= Len(f) /\ s.answer.head \in Nat /\ StartsWith(n, s, f, k)
      /\ data \in Contents /\ Continues(n, s, data, k)
  BY DEF StartsWith, Fitting
<1>2. PICK d \in Contents : d = SubSeq(data, 1, res)
  BY <1>1, PartIs
<1>3. Len(d) = res /\ \A i \in 1 .. res : d[i] = data[i]
  BY <1>1, <1>2, PartIs
<1>4. res \in Nat /\ Len(data) \in Nat /\ Len(f) \in Nat
  BY <1>1 DEF Contents
<1>5. /\ e \in Contents /\ Len(e) >= Len(f) /\ Len(e) >= k + res
      /\ Len(e) = Len(f) \/ Len(e) = k + res
      /\ \A i \in 1 .. res : e[k + i] = d[i]
      /\ \A i \in 1 .. Len(f) : i \notin k + 1 .. k + res => e[i] = f[i]
  <2>1. e = Overlay(f, k, d)
    BY <1>0, <1>2 DEF Cut
  <2>2. /\ e \in Contents /\ Len(e) >= Len(f) /\ Len(e) >= k + Len(d)
        /\ Len(e) = Len(f) \/ Len(e) = k + Len(d)
        /\ \A i \in 1 .. Len(d) : e[k + i] = d[i]
        /\ \A i \in 1 .. Len(f) : i \notin k + 1 .. k + Len(d) => e[i] = f[i]
    BY ONLY <1>1, <2>1, k \in Nat, d \in Contents, OverlayIs
  <2> QED BY <1>3, <2>2
<1>6. \A i \in 1 .. k : e[i] = Unit(n, s.answer.head + i)
  <2>1. \A i \in 1 .. k : i \in 1 .. Len(f) /\ i \notin k + 1 .. k + res
    BY <1>1, <1>4
  <2> QED BY <1>1, <1>5, <2>1 DEF StartsWith
<1>7. \A i \in 1 .. res : e[k + i] = Unit(n, s.answer.head + (k + i))
  <2>1. \A i \in 1 .. res : i \in 1 .. Len(data)
    BY <1>4
  <2> QED BY <1>1, <1>3, <1>5, <2>1 DEF Continues
<1>8. \A i \in 1 .. k + res : e[i] = Unit(n, s.answer.head + i)
  <2>1. SUFFICES ASSUME NEW i \in 1 .. k + res, ~(i \in 1 .. k)
                 PROVE  e[i] = Unit(n, s.answer.head + i)
    BY <1>6
  <2>2. i - k \in 1 .. res /\ k + (i - k) = i
    BY <1>4, <2>1
  <2> QED BY <1>7, <2>2
<1>9. Len(f) = k => Len(e) = k + res
  BY <1>4, <1>5
<1> QED BY <1>0, <1>5, <1>8, <1>9 DEF StartsWith, Grown

LEMMA FirstWritten ==
  ASSUME NEW n \in Nat, NEW s, s.answer \in SavedAnswers, s.answer.body > 0,
         NEW f, NEW w, Begun(n, s, f, w),
         NEW data, data = Written(n, s.answer, 1),
         NEW res, NEW e, NEW q, Wrote(f, w, data, res, e, q),
         NEW z, Noted(s, data, res, z)
  PROVE  /\ Len(Sizes(s.answer)) = 1 => Ended(n, z, e)
         /\ Len(Sizes(s.answer)) = 2 => Halfway(n, z, e, q, res)
<1>1. PICK a \in SavedAnswers : a = s.answer
  OBVIOUS
<1>2. /\ a.head \in Nat /\ a.body \in Nat /\ a.body > 0 /\ a.head < FirstBlock /\ FirstBlock \in Nat
      /\ Total(a) \in Nat /\ a.body = Total(a) - a.head
  <2>1. a.head \in Nat /\ a.body \in Nat /\ a.head < FirstBlock /\ FirstBlock \in Nat
    BY SegmentAssumption
  <2> QED BY <1>1, <2>1 DEF Total
<1>3. 1 \in 1 .. Len(Sizes(a))
  BY <1>1, SizesAre
<1>4. /\ data \in Contents /\ Len(data) >= 1
      /\ Len(data) = FirstPart(s)
      /\ \A i \in 1 .. Len(data) : data[i] = Unit(n, a.head + i)
  BY <1>1, <1>2, <1>3, WrittenIs DEF FirstPart
<1>5. Len(data) \in Nat /\ FirstPart(s) <= a.body /\ (Len(Sizes(a)) = 1 => FirstPart(s) = a.body)
  <2>1. Len(data) \in Nat
    BY <1>4 DEF Contents
  <2>2. /\ Sizes(a)[1] = IF Total(a) <= FirstBlock THEN Total(a) ELSE FirstBlock
        /\ Len(Sizes(a)) = 1 <=> Total(a) <= FirstBlock
    BY <1>1, SizesAre
  <2> QED BY <1>1, <1>2, <2>1, <2>2 DEF FirstPart
<1>6. w = 0 /\ (s.fresh => IsStart(n, s, f, 0))
  BY DEF Begun
<1>7. /\ \A g, k : StartsWith(n, z, g, k) <=> StartsWith(n, s, g, k)
      /\ \A g, k : IsStart(n, z, g, k) <=> IsStart(n, s, g, k)
      /\ FirstPart(z) = FirstPart(s) /\ z.answer = a
  BY <1>1 DEF Noted, StartsWith, IsStart, FirstPart
<1>8. CASE res < 0 /\ e = f
  <2>1. z.failed
    <3>1. res # Len(data)
      BY <1>4, <1>5, <1>8 DEF Wrote
    <3> QED BY <3>1 DEF Noted
  <2>2. z.fresh => IsStart(n, z, e, 0)
    BY <1>6, <1>7, <1>8 DEF Noted
  <2>3. 0 \in 0 .. a.body
    BY <1>2
  <2> QED BY <1>1, <1>7, <1>8, <2>1, <2>2, <2>3 DEF Ended, Halfway
<1>9. CASE /\ res \in 1 .. Len(data) /\ w \in Nat /\ f \in Contents
           /\ e = Overlay(f, w, SubSeq(data, 1, res))
           /\ w = Len(f) /\ res < Len(data) => q = 0
  <2>1. StartsWith(n, s, f, 0)
    BY <1>9 DEF StartsWith, Contents
  <2>2. Continues(n, s, data, 0)
    <3>1. \A i \in 1 .. Len(data) : 0 + i = i
      BY <1>5
    <3> QED BY <1>1, <1>4, <3>1 DEF Continues
  <2>3. s.answer.head \in Nat /\ 0 \in Nat /\ e = Overlay(f, 0, SubSeq(data, 1, res))
    BY <1>1, <1>2, <1>6, <1>9
  <2>4. StartsWith(n, s, e, 0 + res) /\ (Len(f) = 0 => Len(e) = 0 + res)
    <3>1. res \in 1 .. Len(data) /\ Fitting(n, s, f, 0, data)
      BY <1>4, <1>9, <2>1, <2>2, <2>3 DEF Fitting
    <3>2. Grown(n, s, f, 0, res, Cut(f, 0, data, res))
      BY <2>3, <3>1, WritesOn
    <3> QED BY <2>3, <3>2 DEF Grown, Cut
  <2>5. res \in Nat /\ 0 + res = res
    BY <1>5, <1>9
  <2>6. StartsWith(n, z, e, res)
    BY <1>7, <2>4, <2>5
  <2>7. z.fresh => Len(f) = 0 /\ IsStart(n, z, e, res)
    BY <1>6, <2>4, <2>5, <2>6 DEF Noted, IsStart
  <2>8. ~z.failed => res = FirstPart(z)
    BY <1>4, <1>7 DEF Noted
  <2>9. ASSUME Len(Sizes(a)) = 1 PROVE Ended(n, z, e)
    <3>1. res \in 0 .. a.body
      BY <1>2, <1>4, <1>5, <1>9
    <3>2. ~z.failed => res = a.body
      BY <1>5, <1>7, <2>8, <2>9
    <3> QED BY <1>7, <2>6, <2>7, <3>1, <3>2 DEF Ended
  <2>10. Halfway(n, z, e, q, res)
    <3>1. res \in 1 .. FirstPart(z)
      BY <1>4, <1>7, <1>9
    <3>2. z.fresh /\ res < FirstPart(z) => q = 0
      BY <1>4, <1>6, <1>7, <1>9, <2>7
    <3> QED BY <2>6, <2>7, <2>8, <3>1, <3>2 DEF Halfway
  <2> QED BY <1>1, <2>9, <2>10
<1> QED BY <1>8, <1>9 DEF Wrote

LEMMA SecondWritten ==
  ASSUME NEW n \in Nat, NEW s, s.answer \in SavedAnswers, s.answer.body > 0,
         Len(Sizes(s.answer)) = 2,
         NEW f, NEW r \in Nat, NEW w, Halfway(n, s, f, r, w),
         NEW data, data = Written(n, s.answer, 2),
         NEW res, NEW e, NEW q, Wrote(f, w, data, res, e, q),
         res \in 1 .. Len(data) /\ w = Len(f) => res <= r,
         NEW z, Noted(s, data, res, z)
  PROVE  Ended(n, z, e)
<1>1. PICK a \in SavedAnswers : a = s.answer
  OBVIOUS
<1>2. /\ a.head \in Nat /\ a.body \in Nat /\ a.head < FirstBlock /\ FirstBlock \in Nat
      /\ Total(a) \in Nat /\ a.body = Total(a) - a.head
  <2>1. a.head \in Nat /\ a.body \in Nat /\ a.head < FirstBlock /\ FirstBlock \in Nat
    BY SegmentAssumption
  <2> QED BY <1>1, <2>1 DEF Total
<1>3. /\ data \in Contents /\ Len(data) >= 1 /\ Len(data) = Total(a) - FirstBlock
      /\ \A i \in 1 .. Len(data) : data[i] = Unit(n, FirstBlock + i)
  <2>1. PICK k \in Nat : k = Len(Sizes(a)) /\ k = 2
    BY <1>1
  <2>2. 2 \in 1 .. Len(Sizes(a))
    BY ONLY <2>1
  <2> QED BY <1>1, <2>2, WrittenIs
<1>4. /\ Len(data) \in Nat /\ FirstPart(s) \in Nat /\ FirstPart(s) = FirstBlock - a.head
      /\ FirstPart(s) + Len(data) = a.body
  <2>1. Len(data) \in Nat
    BY <1>3 DEF Contents
  <2>2. Sizes(a)[1] = FirstBlock
    BY <1>1, SizesAre
  <2>3. FirstPart(s) = FirstBlock - a.head
    BY <1>1, <2>2 DEF FirstPart
  <2>4. PICK h \in Nat, m \in Nat, l \in Nat, b \in Nat, c \in Nat :
          h = a.head /\ m = Total(a) /\ l = Len(data) /\ b = FirstBlock /\ c = a.body
    BY <1>2, <2>1
  <2>5. h < b /\ l = m - b /\ c = m - h
    BY <1>2, <1>3, <2>4
  <2>6. b - h \in Nat /\ b - h + l = c
    BY <2>5
  <2> QED BY <2>1, <2>3, <2>4, <2>6
<1>5. /\ \A g, k : StartsWith(n, z, g, k) <=> StartsWith(n, s, g, k)
      /\ \A g, k : IsStart(n, z, g, k) <=> IsStart(n, s, g, k)
      /\ z.answer = a
  BY <1>1 DEF Noted, StartsWith, IsStart
<1>6. CASE res < 0 /\ e = f
  <2>1. z.failed
    <3>1. res # Len(data)
      BY <1>3, <1>4, <1>6 DEF Wrote
    <3> QED BY <3>1 DEF Noted
  <2>2. ASSUME z.fresh PROVE \E k \in 0 .. a.body : IsStart(n, z, e, k)
    <3>1. IsStart(n, s, f, 0) \/ (w \in 1 .. FirstPart(s) /\ IsStart(n, s, f, w))
      BY <2>2 DEF Halfway, Noted
    <3>2. 0 \in 0 .. a.body /\ (w \in 1 .. FirstPart(s) => w \in 0 .. a.body)
      <4>1. PICK h \in Nat, c \in Nat : h = FirstPart(s) /\ c = a.body /\ h <= c
        BY <1>2, <1>4
      <4> QED BY <4>1
    <3> QED BY <1>5, <1>6, <3>1, <3>2
  <2> QED BY <1>5, <2>1, <2>2 DEF Ended
<1>7. CASE /\ res \in 1 .. Len(data) /\ w \in Nat /\ f \in Contents
           /\ e = Overlay(f, w, SubSeq(data, 1, res))
  <2>1. ASSUME w = FirstPart(s), StartsWith(n, s, f, w)
        PROVE  StartsWith(n, z, e, w + res) /\ (Len(f) = w => Len(e) = w + res)
    <3>1. \A i \in 1 .. Len(data) : a.head + (w + i) = FirstBlock + i
      <4>1. PICK h \in Nat, c \in Nat : h = a.head /\ c = FirstBlock /\ w = c - h
        BY <1>2, <1>4, <2>1
      <4>2. \A i \in Nat : h + (w + i) = c + i
        BY <4>1
      <4> QED BY <1>4, <4>1, <4>2
    <3>2. Continues(n, s, data, w)
      BY <1>1, <1>3, <3>1 DEF Continues
    <3>3. s.answer.head \in Nat
      BY <1>1, <1>2
    <3>4. StartsWith(n, s, e, w + res) /\ (Len(f) = w => Len(e) = w + res)
      <4>1. res \in 1 .. Len(data) /\ w \in Nat /\ Fitting(n, s, f, w, data)
        BY <1>3, <1>7, <2>1, <3>2, <3>3 DEF Fitting
      <4>2. Grown(n, s, f, w, res, Cut(f, w, data, res))
        BY <4>1, WritesOn
      <4> QED BY <1>7, <4>2 DEF Grown, Cut
    <3> QED BY <1>5, <3>4
  <2>2. ASSUME ~z.failed PROVE StartsWith(n, z, e, a.body)
    <3>1. ~s.failed /\ res = Len(data)
      BY <2>2 DEF Noted
    <3>2. w = FirstPart(s) /\ StartsWith(n, s, f, w)
      BY <3>1 DEF Halfway
    <3>3. w + res = a.body
      BY <1>4, <3>1, <3>2
    <3> QED BY <2>1, <3>2, <3>3
  <2>3. ASSUME z.fresh PROVE \E k \in 0 .. a.body : IsStart(n, z, e, k)
    <3>1. s.fresh
      BY <2>3 DEF Noted
    <3>2. w \in 1 .. FirstPart(s) /\ IsStart(n, s, f, w) /\ (w < FirstPart(s) => r = 0)
      <4>1. ~(w < 0)
        BY <1>7
      <4> QED BY <3>1, <4>1 DEF Halfway
    <3>3. Len(f) = w /\ StartsWith(n, s, f, w)
      BY <3>2 DEF IsStart
    <3>4. w = FirstPart(s)
      <4>1. res <= r /\ res >= 1
        BY <1>4, <1>7, <3>3
      <4> QED BY <1>4, <1>7, <3>2, <4>1
    <3>5. StartsWith(n, z, e, w + res) /\ Len(e) = w + res
      BY <2>1, <3>3, <3>4
    <3>6. w + res \in 0 .. a.body
      BY <1>4, <1>7, <3>4
    <3> QED BY <3>5, <3>6 DEF IsStart
  <2> QED BY <1>5, <2>2, <2>3 DEF Ended
<1> QED BY <1>6, <1>7 DEF Wrote

-----------------------------------------------------------------------------
(* The invariant of the saving of segments *)

Saves == [path : Paths, answer : SavedAnswers, fresh : BOOLEAN, alone : BOOLEAN, failed : BOOLEAN]

\* A thread that saves is at a block of the answer it saves.
AtWork(t) ==
  /\ work[t].save \in 1 .. Len(saves)
  /\ work[t].block \in 1 .. Len(Sizes(saves[work[t].save].answer))
  /\ work[t].writen \in Int

Typed ==
  /\ saves \in Seq(Saves) /\ Len(saves) <= MaxSaves
  /\ files \in [Paths -> Contents \cup {ABSENT}]
  /\ room \in Nat /\ fds \in 0 .. MaxFds
  /\ DOMAIN work = Savers
  /\ \A t \in Savers : Busy(t) => AtWork(t)

Signed(f, n) == f = ABSENT \/ \A i \in 1 .. Len(f) : f[i][1] \in 0 .. n
AllSigned == \A p \in Paths : Signed(files[p], Len(saves))

OneWorker ==
  \A t, u \in Savers : Busy(t) /\ Busy(u) /\ work[t].save = work[u].save => t = u

\* Nobody else writes to the file of a saving that was last and met no other.
Apart ==
  \A n \in 1 .. Len(saves), t \in Savers :
    Latest(n) /\ Busy(t) /\ Now(t).path = saves[n].path => work[t].save = n

Judged(n) == Latest(n) /\ TwoBlocks(n) /\ saves[n].answer.body > 0

Stage(n, s, f) ==
  /\ \A t \in Savers : Busy(t) /\ work[t].save = n =>
       /\ work[t].block = 1 => Begun(n, s, f, work[t].writen)
       /\ work[t].block = 2 => Halfway(n, s, f, room, work[t].writen)
  /\ Over(n) => Ended(n, s, f)
Staged == \A n \in 1 .. Len(saves) : Judged(n) => Stage(n, saves[n], files[saves[n].path])

SavingInv == Typed /\ AllSigned /\ OneWorker /\ Apart /\ Staged

\* A saving of which no more becomes known than that it met another, or failed.
SameSaving(s, z) ==
  /\ z.path = s.path /\ z.answer = s.answer /\ z.fresh = s.fresh
  /\ z.alone => s.alone
Unharmed(s, z) == SameSaving(s, z) /\ z.failed = s.failed

LEMMA StagesSame ==
  ASSUME NEW n, NEW s, NEW z, Unharmed(s, z), NEW f, NEW r, NEW w
  PROVE  /\ Begun(n, s, f, w) => Begun(n, z, f, w)
         /\ Halfway(n, s, f, r, w) => Halfway(n, z, f, r, w)
         /\ Ended(n, s, f) => Ended(n, z, f)
<1>1. /\ z.answer = s.answer /\ z.fresh = s.fresh /\ z.failed = s.failed
  BY DEF Unharmed, SameSaving
<1>2. /\ \A k : StartsWith(n, z, f, k) <=> StartsWith(n, s, f, k)
      /\ \A k : IsStart(n, z, f, k) <=> IsStart(n, s, f, k)
      /\ FirstPart(z) = FirstPart(s)
  BY <1>1 DEF StartsWith, IsStart, FirstPart
<1>3. Begun(n, s, f, w) => Begun(n, z, f, w)
  BY Zenon, <1>1, <1>2 DEF Begun
<1>4. Halfway(n, s, f, r, w) => Halfway(n, z, f, r, w)
  BY Zenon, <1>1, <1>2 DEF Halfway
<1>5. Ended(n, s, f) => Ended(n, z, f)
  BY Zenon, <1>1, <1>2 DEF Ended
<1> QED BY Zenon, <1>3, <1>4, <1>5

Met(s) == [s EXCEPT !.alone = FALSE]
LEMMA MetIs ==
  ASSUME NEW s \in Saves
  PROVE  Met(s) \in Saves /\ Unharmed(s, Met(s))
BY DEF Saves, Met, Unharmed, SameSaving

Marked(others) == [i \in DOMAIN saves |-> IF i \in others THEN [saves[i] EXCEPT !.alone = FALSE] ELSE saves[i]]

LEMMA SavesGrown ==
  ASSUME saves \in Seq(Saves), NEW others, NEW new \in Saves,
         NEW y, y = Append(Marked(others), new)
  PROVE  /\ y \in Seq(Saves) /\ Len(y) = Len(saves) + 1 /\ y[Len(saves) + 1] = new
         /\ \A i \in 1 .. Len(saves) : Unharmed(saves[i], y[i])
<1>1. Len(saves) \in Nat /\ DOMAIN saves = 1 .. Len(saves)
  OBVIOUS
<1>2. PICK m : m = Marked(others)
  OBVIOUS
<1>3. m = [i \in 1 .. Len(saves) |-> IF i \in others THEN Met(saves[i]) ELSE saves[i]]
  BY <1>1, <1>2 DEF Marked, Met
<1>4. \A i \in 1 .. Len(saves) : saves[i] \in Saves
  BY ElementOfSeq
<1>5. \A s \in Saves : Unharmed(s, s)
  BY DEF Unharmed, SameSaving
<1>6. \A i \in 1 .. Len(saves) : m[i] = Met(saves[i]) \/ m[i] = saves[i]
  BY <1>3
<1>7. \A i \in 1 .. Len(saves) : m[i] \in Saves /\ Unharmed(saves[i], m[i])
  BY <1>4, <1>5, <1>6, MetIs
<1>8. m \in Seq(Saves) /\ Len(m) = Len(saves)
  <2>1. PICK k \in Nat : k = Len(saves)
    BY <1>1
  <2>2. m \in [1 .. k -> Saves]
    BY <1>3, <1>7, <2>1
  <2> QED BY <2>1, <2>2
<1>9. y = Append(m, new)
  BY <1>2
<1>10. /\ y \in Seq(Saves) /\ Len(y) = Len(saves) + 1 /\ y[Len(saves) + 1] = new
       /\ \A i \in 1 .. Len(saves) : y[i] = m[i]
  BY <1>8, <1>9
<1> QED BY <1>7, <1>10

\* One more number, and the files of before: every unit still is of a saving.
LEMMA SignedMore ==
  ASSUME NEW f, NEW n \in Nat, NEW m \in Nat, n <= m, Signed(f, n)
  PROVE  Signed(f, m)
<1>1. 0 .. n \subseteq 0 .. m
  OBVIOUS
<1> QED BY <1>1 DEF Signed

LEMMA SavingInit == SegmentInit => SavingInv
<1> SUFFICES ASSUME SegmentInit PROVE SavingInv
  OBVIOUS
<1>1. /\ files = [p \in Paths |-> ABSENT] /\ room \in Nat /\ fds = 0 /\ saves = <<>>
      /\ work = [t \in Savers |-> Idle]
  BY SegmentAssumption DEF SegmentInit
<1>2. \A t \in Savers : ~Busy(t)
  BY <1>1 DEF Busy
<1>3. Len(saves) = 0 /\ saves \in Seq(Saves) /\ 1 .. Len(saves) = {}
  BY <1>1
<1>4. Typed
  <2>1. MaxSaves \in Nat /\ 0 \in 0 .. MaxFds
    BY SegmentAssumption
  <2> QED BY <1>1, <1>2, <1>3, <2>1 DEF Typed
<1>5. AllSigned
  BY <1>1 DEF AllSigned, Signed
<1> QED BY <1>2, <1>3, <1>4, <1>5 DEF SavingInv, OneWorker, Apart, Staged

\* What Create makes of the state: saving n is to path, and t is at its first block.
Created(t, path, n) ==
  /\ ~Busy(t) /\ n = Len(saves) + 1 /\ n <= MaxSaves
  /\ saves' \in Seq(Saves) /\ Len(saves') = n
  /\ \A i \in 1 .. Len(saves) : Unharmed(saves[i], saves'[i])
  /\ saves'[n].path = path /\ saves'[n].answer \in SavedAnswers /\ ~saves'[n].failed
  /\ saves'[n].alone => \A u \in Savers : Busy(u) => Now(u).path # path
  /\ saves'[n].fresh => files'[path] = <<>>
  /\ files' = files \/ files' = [files EXCEPT ![path] = <<>>]
  /\ work' = [work EXCEPT ![t] = [save |-> n, block |-> 1, writen |-> 0]]
  /\ UNCHANGED <<room, fds>>

LEMMA CreateIs ==
  ASSUME Typed, NEW t \in Savers, Create(t)
  PROVE  \E path \in Paths, n \in Nat : Created(t, path, n)
<1>1. /\ saves \in Seq(Saves) /\ Len(saves) \in Nat /\ MaxSaves \in Nat
      /\ files \in [Paths -> Contents \cup {ABSENT}]
  BY SegmentAssumption DEF Typed
<1>2. PICK path \in Paths, a \in SavedAnswers :
        LET n == Len(saves) + 1
            created == files[path] = ABSENT /\ fds < MaxFds
            others == {work[u].save : u \in {v \in Savers : Busy(v) /\ Now(v).path = path}}
        IN  /\ files' = IF created THEN [files EXCEPT ![path] = <<>>] ELSE files
            /\ saves' = Append([i \in DOMAIN saves |->
                          IF i \in others THEN [saves[i] EXCEPT !.alone = FALSE] ELSE saves[i]],
                          [path |-> path, answer |-> a, fresh |-> created,
                           alone |-> others = {}, failed |-> FALSE])
            /\ work' = [work EXCEPT ![t] = [save |-> n, block |-> 1, writen |-> 0]]
  BY DEF Create
<1>3. PICK n \in Nat : n = Len(saves) + 1
  BY <1>1
<1>4. PICK others : others = {work[u].save : u \in {v \in Savers : Busy(v) /\ Now(v).path = path}}
  OBVIOUS
<1>5. PICK created \in BOOLEAN : created <=> files[path] = ABSENT /\ fds < MaxFds
  OBVIOUS
<1>6. PICK alone \in BOOLEAN : alone <=> others = {}
  OBVIOUS
<1>7. PICK new : new = [path |-> path, answer |-> a, fresh |-> created, alone |-> alone, failed |-> FALSE]
  OBVIOUS
<1>8. /\ new \in Saves /\ new.path = path /\ new.answer = a /\ new.failed = FALSE
      /\ new.fresh = created /\ new.alone = alone
  BY <1>7 DEF Saves
<1>9. created = (files[path] = ABSENT /\ fds < MaxFds) /\ alone = (others = {})
  BY <1>5, <1>6
<1>10. saves' = Append(Marked(others), new)
  BY <1>2, <1>4, <1>7, <1>9 DEF Marked
<1>11. /\ saves' \in Seq(Saves) /\ Len(saves') = n /\ saves'[n] = new
       /\ \A i \in 1 .. Len(saves) : Unharmed(saves[i], saves'[i])
  <2>1. PICK y : y = Append(Marked(others), new)
    OBVIOUS
  <2>0. saves \in Seq(Saves) /\ new \in Saves
    BY <1>1, <1>8
  <2>2. /\ y \in Seq(Saves) /\ Len(y) = Len(saves) + 1 /\ y[Len(saves) + 1] = new
        /\ \A i \in 1 .. Len(saves) : Unharmed(saves[i], y[i])
    BY ONLY <2>0, <2>1, SavesGrown
  <2>3. saves' = y
    BY <1>10, <2>1
  <2> QED BY Zenon, <1>3, <2>2, <2>3
<1>12. ASSUME alone PROVE \A u \in Savers : Busy(u) => Now(u).path # path
  <2>1. others = {}
    BY <1>6, <1>12
  <2>2. ASSUME NEW u \in Savers, Busy(u), Now(u).path = path PROVE FALSE
    <3>1. work[u].save \in others
      BY Zenon, <1>4, <2>2
    <3> QED BY Zenon, <2>1, <3>1
  <2> QED BY <2>2
<1>13. /\ created => files' = [files EXCEPT ![path] = <<>>]
       /\ ~created => files' = files
  BY <1>2, <1>5
<1>14. created => files'[path] = <<>>
  BY <1>1, <1>13
<1>15. ~Busy(t) /\ Len(saves) < MaxSaves /\ UNCHANGED <<room, fds>>
  BY DEF Create
<1>16. n <= MaxSaves
  BY <1>1, <1>3, <1>15
<1>17. work' = [work EXCEPT ![t] = [save |-> n, block |-> 1, writen |-> 0]]
  BY <1>2, <1>3
<1> QED
  BY <1>3, <1>8, <1>11, <1>12, <1>13, <1>14, <1>15, <1>16, <1>17 DEF Created

LEMMA CreateKeeps ==
  ASSUME SavingInv, NEW t \in Savers, Create(t)
  PROVE  SavingInv'
<1> USE DEF SavingInv
<1>1. PICK path \in Paths, n \in Nat : Created(t, path, n)
  BY CreateIs
<1>2. /\ n = Len(saves) + 1 /\ n <= MaxSaves
      /\ saves' \in Seq(Saves) /\ Len(saves') = n
      /\ \A i \in 1 .. Len(saves) : Unharmed(saves[i], saves'[i])
      /\ saves'[n].path = path /\ saves'[n].answer \in SavedAnswers /\ ~saves'[n].failed
      /\ saves'[n].alone => \A u \in Savers : Busy(u) => Now(u).path # path
      /\ saves'[n].fresh => files'[path] = <<>>
      /\ files' = files \/ files' = [files EXCEPT ![path] = <<>>]
      /\ UNCHANGED <<room, fds>> /\ ~Busy(t)
  BY <1>1 DEF Created
<1>3. /\ Len(saves) \in Nat /\ \A i \in 1 .. n : i = n \/ i \in 1 .. Len(saves)
      /\ n \in 1 .. n /\ \A i \in 1 .. Len(saves) : i \in 1 .. n /\ i # n
  BY <1>2 DEF Typed
<1>4. /\ work'[t].save = n /\ work'[t].block = 1 /\ work'[t].writen = 0
      /\ DOMAIN work' = Savers
      /\ \A u \in Savers : u # t => work'[u] = work[u]
  <2>1. work' = [work EXCEPT ![t] = [save |-> n, block |-> 1, writen |-> 0]] /\ DOMAIN work = Savers
    BY <1>1 DEF Created, Typed
  <2> QED BY <2>1
<1>5. /\ Busy(t)' /\ \A u \in Savers : u # t => (Busy(u)' <=> Busy(u))
  <2>1. work'[t] # Idle
    <3>1. n # 0
      BY <1>2, <1>3
    <3> QED BY <1>4, <3>1 DEF Idle
  <2> QED BY <1>4, <2>1 DEF Busy
<1>6. /\ files \in [Paths -> Contents \cup {ABSENT}]
      /\ files' \in [Paths -> Contents \cup {ABSENT}]
      /\ \A p \in Paths : p # path => files'[p] = files[p]
      /\ files'[path] = files[path] \/ files'[path] = <<>>
  <2>1. files \in [Paths -> Contents \cup {ABSENT}] /\ <<>> \in Contents
    BY DEF Typed, Contents
  <2> QED BY <1>2, <2>1
<1>7. \A i \in 1 .. Len(saves) : /\ saves'[i].path = saves[i].path
                                 /\ saves'[i].answer = saves[i].answer
                                 /\ saves'[i].alone => saves[i].alone
  BY <1>2 DEF Unharmed, SameSaving
<1>8. \A u \in Savers : Busy(u) => AtWork(u)
  BY DEF Typed
<1>9. \A u \in Savers : u # t /\ Busy(u) =>
        /\ work'[u].save = work[u].save /\ work[u].save \in 1 .. Len(saves)
        /\ AtWork(u)'
  <2>1. SUFFICES ASSUME NEW u \in Savers, u # t, Busy(u)
                 PROVE  work[u].save \in 1 .. Len(saves) /\ AtWork(u)'
    BY <1>4
  <2>2. /\ work[u].save \in 1 .. Len(saves)
        /\ work[u].block \in 1 .. Len(Sizes(saves[work[u].save].answer)) /\ work[u].writen \in Int
    BY <1>8, <2>1 DEF AtWork
  <2>3. PICK m \in 1 .. Len(saves) : m = work[u].save
    BY <2>2
  <2>4. work'[u] = work[u] /\ saves'[m].answer = saves[m].answer /\ m \in 1 .. Len(saves')
    BY <1>2, <1>3, <1>4, <1>7, <2>1
  <2> QED BY Zenon, <2>2, <2>3, <2>4 DEF AtWork
<1>10. AtWork(t)'
  <2>1. 1 \in 1 .. Len(Sizes(saves'[n].answer))
    BY <1>2, SizesAre
  <2> QED BY <1>2, <1>3, <1>4, <2>1 DEF AtWork
<1>11. Typed'
  <2>1. \A u \in Savers : Busy(u)' => AtWork(u)'
    BY <1>5, <1>9, <1>10
  <2> QED BY <1>2, <1>4, <1>6, <2>1 DEF Typed
<1>12. AllSigned'
  <2>1. SUFFICES ASSUME NEW p \in Paths PROVE Signed(files'[p], n)
    BY <1>2 DEF AllSigned, Signed
  <2>2. CASE files'[p] = <<>>
    BY <2>2 DEF Signed
  <2>3. CASE files'[p] = files[p]
    <3>1. Signed(files[p], Len(saves)) /\ Len(saves) <= n
      BY <1>2, <1>3 DEF AllSigned
    <3> QED BY <1>3, <2>3, <3>1, SignedMore
  <2> QED BY <1>6, <2>2, <2>3
<1>13. OneWorker'
  <2>1. SUFFICES ASSUME NEW u \in Savers, NEW v \in Savers, Busy(u)', Busy(v)',
                        work'[u].save = work'[v].save
                 PROVE  u = v
    BY DEF OneWorker
  <2>2. CASE u # t /\ v # t
    BY <1>4, <1>5, <2>1, <2>2 DEF OneWorker
  <2>3. \A x \in Savers : x # t /\ Busy(x)' => work'[x].save # n
    BY <1>3, <1>5, <1>9
  <2> QED BY <1>4, <2>1, <2>2, <2>3
<1>14. \A i \in 1 .. Len(saves) : Latest(i)' => Latest(i) /\ saves[i].path # path
  <2>1. SUFFICES ASSUME NEW i \in 1 .. Len(saves), Latest(i)'
                 PROVE  Latest(i) /\ saves[i].path # path
    OBVIOUS
  <2>2. /\ saves'[i].alone
        /\ \A m \in (i + 1) .. n : saves'[m].path # saves'[i].path
    BY <1>2, <2>1 DEF Latest
  <2>3. n \in (i + 1) .. n /\ \A m \in (i + 1) .. Len(saves) : m \in (i + 1) .. n /\ m \in 1 .. Len(saves)
    BY <1>2, <1>3
  <2>4. saves[i].path # path
    BY <1>2, <1>7, <2>2, <2>3
  <2>5. \A m \in (i + 1) .. Len(saves) : saves[m].path # saves[i].path
    BY <1>7, <2>2, <2>3
  <2> QED BY <1>7, <2>2, <2>4, <2>5 DEF Latest
<1>15. \A u \in Savers : u # t /\ Busy(u) => Now(u)'.path = Now(u).path
  BY <1>4, <1>7, <1>9 DEF Now
<1>16. Now(t)'.path = path
  BY <1>2, <1>4 DEF Now
<1>17. Apart'
  <2>1. SUFFICES ASSUME NEW i \in 1 .. n, NEW u \in Savers, Latest(i)', Busy(u)',
                        Now(u)'.path = saves'[i].path
                 PROVE  work'[u].save = i
    BY <1>2 DEF Apart
  <2>2. CASE i = n
    <3>1. saves'[n].alone
      BY <2>1, <2>2 DEF Latest
    <3>2. u = t
      BY <1>2, <1>5, <1>15, <2>1, <2>2, <3>1
    <3> QED BY <1>4, <2>2, <3>2
  <2>3. CASE i \in 1 .. Len(saves)
    <3>1. Latest(i) /\ saves[i].path # path /\ saves'[i].path = saves[i].path
      BY <1>7, <1>14, <2>1, <2>3
    <3>2. u # t
      BY <1>16, <2>1, <3>1
    <3>3. Busy(u) /\ Now(u).path = saves[i].path /\ work'[u] = work[u]
      BY <1>4, <1>5, <1>15, <2>1, <3>1, <3>2
    <3> QED BY <2>3, <3>1, <3>3 DEF Apart
  <2> QED BY <1>3, <2>2, <2>3
<1>18. Staged'
  <2>1. SUFFICES ASSUME NEW i \in 1 .. n, Judged(i)'
                 PROVE  Stage(i, saves[i], files[saves[i].path])'
    BY <1>2 DEF Staged
  <2>2. CASE i = n
    <3>1. \A u \in Savers : Busy(u)' /\ work'[u].save = n => u = t
      BY <1>3, <1>5, <1>9
    <3>2. saves'[n].fresh => IsStart(n, saves'[n], files'[path], 0)
      <4>1. PICK e : e = <<>>
        OBVIOUS
      <4>2. e \in Contents /\ Len(e) = 0
        BY <4>1 DEF Contents
      <4>3. IsStart(n, saves'[n], e, 0)
        BY <4>2 DEF IsStart, StartsWith
      <4> QED BY <1>2, <4>1, <4>3
    <3>3. Begun(n, saves'[n], files'[path], work'[t].writen)
      BY <1>2, <1>4, <3>2 DEF Begun
    <3>4. ~Over(n)'
      BY <1>4 DEF Over
    <3> QED BY <1>2, <1>4, <2>2, <3>1, <3>3, <3>4 DEF Stage
  <2>3. CASE i \in 1 .. Len(saves)
    <3>1. /\ Judged(i) /\ saves[i].path # path
          /\ saves'[i].path = saves[i].path /\ Unharmed(saves[i], saves'[i])
      <4>1. Latest(i)' /\ TwoBlocks(i)' /\ saves'[i].answer.body > 0
        BY <2>1 DEF Judged
      <4>2. TwoBlocks(i)
        BY <1>7, <2>3, <4>1 DEF TwoBlocks
      <4> QED BY <1>2, <1>7, <1>14, <2>3, <4>1, <4>2 DEF Judged
    <3>2. saves[i].path \in Paths
      <4>1. saves[i] \in Saves
        BY <2>3, ElementOfSeq DEF Typed
      <4> QED BY <4>1 DEF Saves
    <3>3. files'[saves'[i].path] = files[saves[i].path]
      BY <1>6, <3>1, <3>2
    <3>4. Stage(i, saves[i], files[saves[i].path])
      BY <2>3, <3>1 DEF Staged
    <3>5. ASSUME NEW u \in Savers, Busy(u)', work'[u].save = i
          PROVE  /\ work'[u].block = 1 => Begun(i, saves'[i], files'[saves'[i].path], work'[u].writen)
                 /\ work'[u].block = 2 => Halfway(i, saves'[i], files'[saves'[i].path], room', work'[u].writen)
      <4>1. u # t
        BY <1>3, <1>4, <2>3, <3>5
      <4>2. Busy(u) /\ work'[u] = work[u]
        BY <1>4, <1>5, <3>5, <4>1
      <4>3. /\ work[u].block = 1 => Begun(i, saves[i], files[saves[i].path], work[u].writen)
            /\ work[u].block = 2 => Halfway(i, saves[i], files[saves[i].path], room, work[u].writen)
        BY <3>4, <3>5, <4>2 DEF Stage
      <4> QED BY Zenon, <1>2, <3>1, <3>3, <4>2, <4>3, StagesSame
    <3>6. ASSUME Over(i)' PROVE Ended(i, saves'[i], files'[saves'[i].path])
      <4>1. \A u \in Savers : work[u].save # i
        <5>1. work[t].save # i
          <6>1. work[t].save = 0
            BY <1>2 DEF Busy, Idle
          <6> QED BY <1>3, <2>3, <6>1
        <5>2. \A u \in Savers : u # t => work[u].save # i
          BY <1>4, <3>6 DEF Over
        <5> QED BY <5>1, <5>2
      <4>2. Ended(i, saves[i], files[saves[i].path])
        BY <3>4, <4>1 DEF Stage, Over
      <4> QED BY <3>1, <3>3, <4>2, StagesSame
    <3> QED BY <3>5, <3>6 DEF Stage
  <2> QED BY <1>3, <2>2, <2>3
<1> QED BY <1>11, <1>12, <1>13, <1>17, <1>18

Judging(n, x) == [saves EXCEPT ![n].failed = @ \/ x]

LEMMA SavesNoted ==
  ASSUME saves \in Seq(Saves), NEW n \in 1 .. Len(saves), NEW x \in BOOLEAN,
         NEW y, y = Judging(n, x)
  PROVE  /\ y \in Seq(Saves) /\ Len(y) = Len(saves)
         /\ \A i \in 1 .. Len(saves) : i # n => y[i] = saves[i]
         /\ SameSaving(saves[n], y[n]) /\ (~y[n].failed => ~saves[n].failed /\ ~x)
<1>1. PICK s \in Saves : s = saves[n]
  BY ElementOfSeq
<1>2. PICK b \in BOOLEAN : b = (s.failed \/ x)
  BY Zenon
<1>3. PICK z : z = [s EXCEPT !.failed = b]
  OBVIOUS
<1>4. z \in Saves /\ SameSaving(s, z) /\ z.failed = b
  BY <1>3 DEF Saves, SameSaving
<1>5. y = [saves EXCEPT ![n] = z]
  BY <1>1, <1>2, <1>3 DEF Judging
<1>6. /\ y \in Seq(Saves) /\ Len(y) = Len(saves) /\ y[n] = z
      /\ \A i \in 1 .. Len(saves) : i # n => y[i] = saves[i]
  <2>1. PICK k \in Nat : k = Len(saves)
    OBVIOUS
  <2>2. saves \in [1 .. k -> Saves]
    BY <2>1
  <2>3. y \in [1 .. k -> Saves] /\ y[n] = z /\ \A i \in 1 .. k : i # n => y[i] = saves[i]
    BY <1>4, <1>5, <2>1, <2>2
  <2> QED BY <2>1, <2>3
<1>7. ~b => ~s.failed /\ ~x
  BY Zenon, <1>2
<1> QED BY Zenon, <1>1, <1>4, <1>6, <1>7

\* What WriteBlock makes of the state: block b of saving n is written by t, with result r.
BlockWritten(t, n, b, data, r) ==
  /\ Busy(t) /\ n = work[t].save /\ b = work[t].block
  /\ data = Written(n, saves[n].answer, b)
  /\ r = Result(saves[n].path, work[t].writen, data)
  /\ WriteSync(saves[n].path, work[t].writen, data)
  /\ saves' \in Seq(Saves) /\ Len(saves') = Len(saves)
  /\ \A i \in 1 .. Len(saves) : i # n => saves'[i] = saves[i]
  /\ SameSaving(saves[n], saves'[n]) /\ Noted(saves[n], data, r, saves'[n])
  /\ work' = [work EXCEPT ![t] = IF b = Len(Sizes(saves[n].answer)) THEN Idle
                                 ELSE [save |-> n, block |-> b + 1, writen |-> r]]

LEMMA WriteBlockIs ==
  ASSUME Typed, NEW t \in Savers, WriteBlock(t)
  PROVE  \E n \in 1 .. Len(saves) : \E b \in 1 .. Len(Sizes(saves[n].answer)) :
           \E data, r : BlockWritten(t, n, b, data, r)
<1>1. Busy(t)
  BY DEF WriteBlock
<1>2. AtWork(t) /\ saves \in Seq(Saves)
  BY <1>1 DEF Typed
<1>3. PICK n \in 1 .. Len(saves) : n = work[t].save
  BY <1>2 DEF AtWork
<1>4. PICK b \in 1 .. Len(Sizes(saves[n].answer)) : b = work[t].block
  BY <1>2, <1>3 DEF AtWork
<1>5. PICK data : data = Written(n, saves[n].answer, b)
  OBVIOUS
<1>6. PICK r : r = Result(saves[n].path, work[t].writen, data)
  OBVIOUS
<1>7. PICK x \in BOOLEAN : x = (r # Len(data))
  BY Zenon
<1>8. /\ WriteSync(saves[n].path, work[t].writen, data)
      /\ saves' = [saves EXCEPT ![n].failed = @ \/ r # Len(data)]
      /\ work' = [work EXCEPT ![t] = IF b = Len(Sizes(saves[n].answer)) THEN Idle
                                     ELSE [save |-> n, block |-> b + 1, writen |-> NextOffset(t, r)]]
  BY <1>3, <1>4, <1>5, <1>6 DEF WriteBlock, Now, Written
<1>9. saves' = [saves EXCEPT ![n].failed = @ \/ x]
  BY Zenon, <1>7, <1>8
<1>10. /\ saves' \in Seq(Saves) /\ Len(saves') = Len(saves)
       /\ \A i \in 1 .. Len(saves) : i # n => saves'[i] = saves[i]
       /\ SameSaving(saves[n], saves'[n]) /\ (~saves'[n].failed => ~saves[n].failed /\ ~x)
  <2>1. PICK y : y = Judging(n, x)
    OBVIOUS
  <2>2. /\ y \in Seq(Saves) /\ Len(y) = Len(saves)
        /\ \A i \in 1 .. Len(saves) : i # n => y[i] = saves[i]
        /\ SameSaving(saves[n], y[n]) /\ (~y[n].failed => ~saves[n].failed /\ ~x)
    BY ONLY <1>2, <2>1, n \in 1 .. Len(saves), x \in BOOLEAN, SavesNoted
  <2>3. saves' = y
    BY Zenon, <1>9, <2>1 DEF Judging
  <2> QED BY Zenon, <2>2, <2>3
<1>11. Noted(saves[n], data, r, saves'[n])
  <2>1. ~x => r = Len(data)
    BY Zenon, <1>7
  <2> QED BY Zenon, <1>10, <2>1 DEF SameSaving, Noted
<1> QED BY Zenon, <1>1, <1>3, <1>4, <1>5, <1>6, <1>8, <1>10, <1>11 DEF NextOffset, BlockWritten

\* What is in a file a saving has written to is of it, or was there, or is a hole.
LEMMA SignedOverlay ==
  ASSUME NEW f \in Contents, NEW m \in Nat, Signed(f, m), ABSENT \notin Contents,
         NEW off \in Nat, NEW n \in 0 .. m, NEW data \in Contents,
         \A i \in 1 .. Len(data) : data[i][1] = n,
         NEW e, e = Overlay(f, off, data)
  PROVE  Signed(e, m)
<1>1. \A i \in 1 .. Len(e) : \/ e[i] = Hole
                             \/ \E j \in 1 .. Len(f) : e[i] = f[j]
                             \/ \E j \in 1 .. Len(data) : e[i] = data[j]
  BY OverlayIs
<1>2. Hole[1] \in 0 .. m
  BY DEF Hole
<1>3. \A j \in 1 .. Len(f) : f[j][1] \in 0 .. m
  BY DEF Signed
<1> QED BY <1>1, <1>2, <1>3 DEF Signed

LEMMA WriteKeeps ==
  ASSUME SavingInv, NEW t \in Savers, WriteBlock(t)
  PROVE  SavingInv'
<1> USE DEF SavingInv
<1>1. PICK n \in 1 .. Len(saves) : \E b \in 1 .. Len(Sizes(saves[n].answer)) :
             \E data, r : BlockWritten(t, n, b, data, r)
  BY WriteBlockIs
<1>0. PICK b \in 1 .. Len(Sizes(saves[n].answer)) : \E data, r : BlockWritten(t, n, b, data, r)
  BY <1>1
<1>2. PICK data, r : BlockWritten(t, n, b, data, r)
  BY <1>0
<1>3. /\ Busy(t) /\ n = work[t].save /\ b = work[t].block
      /\ data = Written(n, saves[n].answer, b)
      /\ r = Result(saves[n].path, work[t].writen, data)
      /\ WriteSync(saves[n].path, work[t].writen, data)
      /\ saves' \in Seq(Saves) /\ Len(saves') = Len(saves)
      /\ \A i \in 1 .. Len(saves) : i # n => saves'[i] = saves[i]
      /\ SameSaving(saves[n], saves'[n]) /\ Noted(saves[n], data, r, saves'[n])
  BY <1>2 DEF BlockWritten
<1>4. /\ saves \in Seq(Saves) /\ Len(saves) \in Nat /\ n \in Nat
      /\ \A i \in 1 .. Len(saves) : saves[i] \in Saves
  BY ElementOfSeq DEF Typed
<1>5. \A i \in 1 .. Len(saves) : saves[i].path \in Paths /\ saves[i].answer \in SavedAnswers
  BY <1>4 DEF Saves
<1>6. PICK path \in Paths : path = saves[n].path
  BY <1>5
<1>7. PICK a \in SavedAnswers : a = saves[n].answer
  BY <1>5
<1>8. AtWork(t) /\ work[t].writen \in Int
  BY <1>3 DEF Typed, AtWork
<1>9. PICK off \in Int : off = work[t].writen
  BY <1>8
<1>10. data \in Contents /\ Len(data) >= 1 /\ \A i \in 1 .. Len(data) : data[i][1] = n
  <2>1. data = Written(n, a, b) /\ b \in 1 .. Len(Sizes(a))
    BY <1>3, <1>7
  <2>2. /\ Written(n, a, b) \in Contents /\ Len(Written(n, a, b)) >= 1
        /\ \A i \in 1 .. Len(Written(n, a, b)) : Written(n, a, b)[i][1] = n
    BY <1>4, <2>1, WrittenIs
  <2> QED BY Zenon, <2>1, <2>2
<1>11. /\ r \in Int /\ fds' \in 0 .. MaxFds
       /\ \/ r < 0 /\ UNCHANGED <<files, room>>
          \/ /\ r \in 1 .. Len(data) /\ off \in Nat /\ files[path] \in Contents
             /\ files' = [files EXCEPT ![path] = Overlay(files[path], off, SubSeq(data, 1, r))]
             /\ room' \in Nat /\ room' <= room
             /\ off = Len(files[path]) =>
                  /\ r <= room
                  /\ r < Len(data) => room' = 0
  <2>1. files \in [Paths -> Contents \cup {ABSENT}] /\ room \in Nat /\ fds \in 0 .. MaxFds
    BY DEF Typed
  <2>2. WriteSync(path, off, data) /\ r = Result(path, off, data)
    BY <1>3, <1>6, <1>9
  <2> QED BY ONLY <1>10, <2>1, <2>2, WriteIs
<1>12. files \in [Paths -> Contents \cup {ABSENT}] /\ room \in Nat
  BY DEF Typed
<1>13. /\ files' \in [Paths -> Contents \cup {ABSENT}]
       /\ \A p \in Paths : p # path => files'[p] = files[p]
       /\ files'[path] = files[path] \/ files'[path] = Overlay(files[path], off, SubSeq(data, 1, r))
       /\ Signed(files'[path], Len(saves))
       /\ room' \in Nat /\ room' <= room
       /\ Wrote(files[path], off, data, r, files'[path], room')
  <2>1. Signed(files[path], Len(saves))
    BY DEF AllSigned
  <2>2. CASE r < 0 /\ UNCHANGED <<files, room>>
    BY <1>11, <1>12, <2>1, <2>2 DEF Wrote
  <2>3. CASE /\ r \in 1 .. Len(data) /\ off \in Nat /\ files[path] \in Contents
             /\ files' = [files EXCEPT ![path] = Overlay(files[path], off, SubSeq(data, 1, r))]
             /\ room' \in Nat /\ room' <= room
             /\ off = Len(files[path]) =>
                  /\ r <= room
                  /\ r < Len(data) => room' = 0
    <3>1. PICK d \in Contents : d = SubSeq(data, 1, r) /\ Len(d) = r /\ \A i \in 1 .. r : d[i] = data[i]
      BY <1>10, <2>3, PartIs
    <3>2. PICK f \in Contents : f = files[path]
      BY <2>3
    <3>3. PICK e : e = Overlay(f, off, d)
      OBVIOUS
    <3>4. e \in Contents
      BY <2>3, <3>3, OverlayIs
    <3>5. Signed(e, Len(saves))
      <4>1. \A i \in 1 .. Len(d) : d[i][1] = n
        <5>1. Len(data) \in Nat
          BY <1>10 DEF Contents
        <5>2. \A i \in 1 .. r : i \in 1 .. Len(data)
          BY <2>3, <5>1
        <5> QED BY <1>10, <3>1, <5>2
      <4>2. ABSENT \notin Contents /\ n \in 0 .. Len(saves)
        BY <1>4, SegmentAssumption DEF Contents, Units
      <4> QED BY <1>4, <2>1, <2>3, <3>2, <3>3, <4>1, <4>2, SignedOverlay
    <3>6. files' = [files EXCEPT ![path] = e]
      BY <2>3, <3>1, <3>2, <3>3
    <3>7. /\ files' \in [Paths -> Contents \cup {ABSENT}] /\ files'[path] = e
          /\ \A p \in Paths : p # path => files'[p] = files[p]
      BY <1>12, <3>4, <3>6
    <3>8. e = Overlay(files[path], off, SubSeq(data, 1, r))
      BY <3>1, <3>2, <3>3
    <3>9. Wrote(files[path], off, data, r, files'[path], room')
      BY <1>11, <2>3, <3>7, <3>8 DEF Wrote
    <3> QED BY <2>3, <3>5, <3>7, <3>8, <3>9
  <2> QED BY <1>11, <2>2, <2>3
<1>14. /\ \A u \in Savers : u # t => work'[u] = work[u]
       /\ DOMAIN work' = Savers
       /\ b = Len(Sizes(a)) => work'[t] = Idle
       /\ b # Len(Sizes(a)) => work'[t] = [save |-> n, block |-> b + 1, writen |-> r]
  <2>1. work' = [work EXCEPT ![t] = IF b = Len(Sizes(a)) THEN Idle
                                    ELSE [save |-> n, block |-> b + 1, writen |-> r]]
    BY <1>2, <1>7 DEF BlockWritten
  <2>2. DOMAIN work = Savers
    BY DEF Typed
  <2> QED BY <2>1, <2>2
<1>15. /\ b = Len(Sizes(a)) => ~Busy(t)' /\ work'[t].save = 0
       /\ b # Len(Sizes(a)) => /\ Busy(t)' /\ work'[t].save = n
                               /\ work'[t].block = b + 1 /\ work'[t].writen = r
       /\ \A u \in Savers : u # t => (Busy(u)' <=> Busy(u))
  <2>1. n # 0
    BY <1>4
  <2> QED BY <1>14, <2>1 DEF Busy, Idle
<1>16. \A i \in 1 .. Len(saves) : /\ saves'[i].path = saves[i].path
                                  /\ saves'[i].answer = saves[i].answer
                                  /\ saves'[i].alone => saves[i].alone
  BY <1>3 DEF SameSaving
<1>17. \A u \in Savers : Busy(u) => AtWork(u)
  BY DEF Typed
<1>18. \A u \in Savers : u # t /\ Busy(u) => work[u].save \in 1 .. Len(saves) /\ AtWork(u)'
  <2>1. SUFFICES ASSUME NEW u \in Savers, u # t, Busy(u)
                 PROVE  work[u].save \in 1 .. Len(saves) /\ AtWork(u)'
    OBVIOUS
  <2>2. /\ work[u].save \in 1 .. Len(saves)
        /\ work[u].block \in 1 .. Len(Sizes(saves[work[u].save].answer)) /\ work[u].writen \in Int
    BY <1>17, <2>1 DEF AtWork
  <2>3. PICK m \in 1 .. Len(saves) : m = work[u].save
    BY <2>2
  <2>4. work'[u] = work[u] /\ saves'[m].answer = saves[m].answer /\ m \in 1 .. Len(saves')
    BY <1>3, <1>14, <1>16, <2>1
  <2> QED BY Zenon, <2>2, <2>3, <2>4 DEF AtWork
<1>19. Typed'
  <2>1. Busy(t)' => AtWork(t)'
    <3>1. SUFFICES ASSUME b # Len(Sizes(a)) PROVE AtWork(t)'
      BY <1>15
    <3>2. Len(Sizes(a)) \in Nat
      BY SizesAre
    <3>3. b + 1 \in 1 .. Len(Sizes(a))
      BY <1>7, <3>1, <3>2
    <3> QED BY <1>3, <1>7, <1>11, <1>15, <1>16, <3>1, <3>3 DEF AtWork
  <2>2. \A u \in Savers : Busy(u)' => AtWork(u)'
    BY <1>15, <1>18, <2>1
  <2>3. Len(saves') <= MaxSaves
    BY <1>3 DEF Typed
  <2> QED BY <1>3, <1>11, <1>13, <1>14, <2>2, <2>3 DEF Typed
<1>20. AllSigned'
  <2>1. SUFFICES ASSUME NEW p \in Paths PROVE Signed(files'[p], Len(saves))
    BY <1>3 DEF AllSigned, Signed
  <2> QED BY <1>13 DEF AllSigned
<1>21. \A u \in Savers : Busy(u)' => Busy(u) /\ work'[u].save = work[u].save
  BY <1>3, <1>14, <1>15
<1>22. OneWorker'
  <2>1. SUFFICES ASSUME NEW u \in Savers, NEW v \in Savers, Busy(u)', Busy(v)',
                        work'[u].save = work'[v].save
                 PROVE  u = v
    BY DEF OneWorker
  <2> QED BY <1>21, <2>1 DEF OneWorker
<1>23. \A i \in 1 .. Len(saves) : Latest(i)' => Latest(i)
  <2>1. SUFFICES ASSUME NEW i \in 1 .. Len(saves), Latest(i)' PROVE Latest(i)
    OBVIOUS
  <2>2. saves'[i].alone /\ \A m \in (i + 1) .. Len(saves) : saves'[m].path # saves'[i].path
    BY <1>3, <2>1 DEF Latest
  <2>3. \A m \in (i + 1) .. Len(saves) : m \in 1 .. Len(saves)
    BY <1>4
  <2> QED BY <1>16, <2>2, <2>3 DEF Latest
<1>24. \A u \in Savers : Busy(u)' => Now(u)'.path = Now(u).path
  <2>1. \A u \in Savers : Busy(u) => work[u].save \in 1 .. Len(saves)
    BY <1>17 DEF AtWork
  <2> QED BY <1>16, <1>21, <2>1 DEF Now
<1>25. Apart'
  <2>1. SUFFICES ASSUME NEW i \in 1 .. Len(saves), NEW u \in Savers, Latest(i)', Busy(u)',
                        Now(u)'.path = saves'[i].path
                 PROVE  work'[u].save = i
    BY <1>3 DEF Apart
  <2> QED BY <1>16, <1>21, <1>23, <1>24, <2>1 DEF Apart
<1>26. Staged'
  <2>1. SUFFICES ASSUME NEW i \in 1 .. Len(saves), Judged(i)'
                 PROVE  Stage(i, saves[i], files[saves[i].path])'
    BY <1>3 DEF Staged
  <2>2. Judged(i)
    <3>1. Latest(i)' /\ TwoBlocks(i)' /\ saves'[i].answer.body > 0
      BY <2>1 DEF Judged
    <3>2. TwoBlocks(i)
      BY <1>16, <3>1 DEF TwoBlocks
    <3> QED BY <1>16, <1>23, <3>1, <3>2 DEF Judged
  <2>3. Stage(i, saves[i], files[saves[i].path])
    BY <2>2 DEF Staged
  <2>4. CASE i = n
    <3>1. /\ saves[n].answer \in SavedAnswers /\ saves[n].answer.body > 0
          /\ Len(Sizes(a)) \in Nat \ {0} /\ Len(Sizes(a)) <= 2
      BY <1>7, <2>2, <2>4, SizesAre DEF Judged, TwoBlocks
    <3>2. \A u \in Savers : Busy(u)' /\ work'[u].save = n => u = t
      BY <1>3, <1>21 DEF OneWorker
    <3>3. /\ b = 1 => Begun(n, saves[n], files[path], off)
          /\ b = 2 => Halfway(n, saves[n], files[path], room, off)
      BY <1>3, <1>6, <1>9, <2>3, <2>4 DEF Stage
    <3>4. /\ saves'[n].path = path /\ Noted(saves[n], data, r, saves'[n])
          /\ Wrote(files[path], off, data, r, files'[path], room')
          /\ data = Written(n, saves[n].answer, b)
      BY <1>3, <1>6, <1>13, <1>16
    <3>5. CASE b = 1
      <4>1. /\ Len(Sizes(a)) = 1 => Ended(n, saves'[n], files'[path])
            /\ Len(Sizes(a)) = 2 => Halfway(n, saves'[n], files'[path], room', r)
        BY <1>4, <1>7, <3>1, <3>3, <3>4, <3>5, FirstWritten
      <4>2. CASE Len(Sizes(a)) = 1
        <5>1. ~Busy(t)'
          BY <1>15, <3>5, <4>2
        <5> QED BY <2>4, <3>2, <3>4, <4>1, <4>2, <5>1 DEF Stage
      <4>3. CASE Len(Sizes(a)) = 2
        <5>1. work'[t].save = n /\ work'[t].block = 2 /\ work'[t].writen = r
          BY <1>15, <3>5, <4>3
        <5>2. ~Over(n)'
          BY <5>1 DEF Over
        <5>3. /\ work'[t].block = 1 => Begun(n, saves'[n], files'[path], work'[t].writen)
              /\ work'[t].block = 2 => Halfway(n, saves'[n], files'[path], room', work'[t].writen)
          BY <4>1, <4>3, <5>1
        <5> QED BY <2>4, <3>2, <3>4, <5>2, <5>3 DEF Stage
      <4> QED
        <5>1. PICK k \in Nat : k = Len(Sizes(a))
          BY <3>1
        <5>2. k # 0 /\ k <= 2
          BY <3>1, <5>1
        <5>3. k = 1 \/ k = 2
          BY <5>2
        <5> QED BY <4>2, <4>3, <5>1, <5>3
    <3>6. CASE b = 2
      <4>1. Len(Sizes(a)) = 2
        <5>1. PICK k \in Nat : k = Len(Sizes(a))
          BY <3>1
        <5>2. b \in 1 .. k /\ k <= 2
          BY <1>7, <3>1, <5>1
        <5> QED BY <3>6, <5>1, <5>2
      <4>2. r \in 1 .. Len(data) /\ off = Len(files[path]) => r <= room
        BY <1>10, <1>11 DEF Contents
      <4>3. Ended(n, saves'[n], files'[path])
        <5>1. /\ saves[n].answer \in SavedAnswers /\ saves[n].answer.body > 0
              /\ Len(Sizes(saves[n].answer)) = 2 /\ data = Written(n, saves[n].answer, 2)
              /\ Halfway(n, saves[n], files[path], room, off)
          BY <1>7, <3>1, <3>3, <3>4, <3>6, <4>1
        <5>2. Wrote(files[path], off, data, r, files'[path], room') /\ Noted(saves[n], data, r, saves'[n])
          BY <3>4
        <5>3. n \in Nat /\ room \in Nat
          BY <1>4, <1>12
        <5> QED BY ONLY <4>2, <5>1, <5>2, <5>3, SecondWritten
      <4>4. ~Busy(t)'
        BY <1>15, <3>6, <4>1
      <4> QED BY <2>4, <3>2, <3>4, <4>3, <4>4 DEF Stage
    <3> QED BY <1>7, <3>1, <3>5, <3>6
  <2>5. CASE i # n
    <3>1. saves'[i] = saves[i] /\ saves[i].path \in Paths
      BY <1>3, <1>5, <2>5
    <3>2. saves[i].path # path
      <4>1. Latest(i)
        BY <2>2 DEF Judged
      <4>2. Now(t).path = path
        BY <1>3, <1>6 DEF Now
      <4> QED BY <1>3, <2>5, <4>1, <4>2 DEF Apart
    <3>3. files'[saves'[i].path] = files[saves[i].path]
      BY <1>13, <3>1, <3>2
    <3>4. \A w : Halfway(i, saves[i], files[saves[i].path], room, w)
                   => Halfway(i, saves[i], files[saves[i].path], room', w)
      <4>1. room = 0 => room' = 0
        BY <1>12, <1>13
      <4> QED BY Zenon, <4>1 DEF Halfway
    <3>5. ASSUME NEW u \in Savers, Busy(u)', work'[u].save = i
          PROVE  /\ work'[u].block = 1 => Begun(i, saves'[i], files'[saves'[i].path], work'[u].writen)
                 /\ work'[u].block = 2 => Halfway(i, saves'[i], files'[saves'[i].path], room', work'[u].writen)
      <4>1. u # t
        BY <1>15, <2>5, <3>5
      <4>2. Busy(u) /\ work'[u] = work[u]
        BY <1>14, <1>21, <3>5, <4>1
      <4>3. /\ work[u].block = 1 => Begun(i, saves[i], files[saves[i].path], work[u].writen)
            /\ work[u].block = 2 => Halfway(i, saves[i], files[saves[i].path], room, work[u].writen)
        BY <2>3, <3>5, <4>2 DEF Stage
      <4> QED BY Zenon, <3>1, <3>3, <3>4, <4>2, <4>3
    <3>6. ASSUME Over(i)' PROVE Ended(i, saves'[i], files'[saves'[i].path])
      <4>1. Over(i)
        <5>1. \A u \in Savers : u # t => work[u].save # i
          BY <1>14, <3>6 DEF Over
        <5> QED BY <1>3, <2>5, <5>1 DEF Over
      <4> QED BY <2>3, <3>1, <3>3, <4>1 DEF Stage
    <3> QED BY <3>5, <3>6 DEF Stage
  <2> QED BY <2>4, <2>5
<1> QED BY <1>19, <1>20, <1>22, <1>25, <1>26

\* A property of the segments that every step of a saving keeps holds in every state.
LEMMA Remembered == Spec => []SavingInv
<1>1. Init => SavingInv
  BY SavingInit DEF Init
<1>2. SavingInv /\ [Handle]_vars => SavingInv'
  <2> SUFFICES ASSUME SavingInv, [Handle]_vars PROVE SavingInv'
    OBVIOUS
  <2>1. CASE HandleSegmentResp
    BY <2>1, CreateKeeps, WriteKeeps DEF HandleSegmentResp
  <2>2. CASE UNCHANGED segments
    <3>1. UNCHANGED <<files, room, fds, saves, work>>
      BY <2>2 DEF segments
    <3>2. /\ Typed' = Typed /\ AllSigned' = AllSigned /\ OneWorker' = OneWorker
          /\ Apart' = Apart /\ Staged' = Staged
      BY <3>1 DEF Typed, AtWork, Busy, AllSigned, Signed, OneWorker, Apart, Latest, Now,
                  Staged, Stage, Over, Judged, TwoBlocks
    <3> QED BY <3>2 DEF SavingInv
  <2> QED BY <2>1, <2>2 DEF Handle, vars
<1> QED BY <1>1, <1>2, PTL DEF Spec

\* The body of a saving, and what a prefix is.
LEMMA BodyIs ==
  ASSUME NEW n \in Nat, saves[n].answer \in SavedAnswers
  PROVE  /\ Body(n) \in Contents /\ Len(Body(n)) = saves[n].answer.body
         /\ \A i \in 1 .. Len(Body(n)) : Body(n)[i] = Unit(n, saves[n].answer.head + i)
<1>1. PICK a \in SavedAnswers : a = saves[n].answer
  OBVIOUS
<1>2. a.head \in Nat /\ a.body \in Nat
  BY SegmentAssumption
<1>3. PICK h \in Nat, m \in Nat : h = a.head /\ m = a.body
  BY <1>2
<1>4. Body(n) = [i \in 1 .. m |-> Unit(n, h + i)]
  BY <1>1, <1>3 DEF Body
<1>5. \A i \in 1 .. m : Unit(n, h + i) \in Units
  BY DEF Unit, Units
<1>6. PICK y : y = [i \in 1 .. m |-> Unit(n, h + i)]
  OBVIOUS
<1>7. y \in Contents /\ Len(y) = m /\ \A i \in 1 .. m : y[i] = Unit(n, h + i)
  BY <1>5, <1>6 DEF Contents
<1> QED BY <1>1, <1>3, <1>4, <1>6, <1>7

LEMMA PrefixIs ==
  ASSUME NEW s \in Contents, NEW t \in Contents, Len(s) <= Len(t),
         \A i \in 1 .. Len(s) : s[i] = t[i]
  PROVE  IsPrefix(s, t)
<1>1. Len(s) \in Nat /\ Len(t) \in Nat
  BY DEF Contents
<1>2. \A i \in 1 .. Len(s) : i \in 1 .. Len(t)
  BY <1>1
<1>3. SubSeq(s, 1, Len(s)) = [i \in 1 .. Len(s) |-> s[i]]
  BY <1>1 DEF Contents
<1>4. SubSeq(t, 1, Len(s)) = [i \in 1 .. Len(s) |-> t[i]]
  BY <1>1, <1>2 DEF Contents
<1>5. SubSeq(s, 1, Len(s)) = SubSeq(t, 1, Len(s))
  BY <1>3, <1>4
<1> QED BY <1>5 DEF IsPrefix

LEMMA SavedIsThere == SavingInv => SavedWhole
<1> SUFFICES ASSUME SavingInv, NEW n \in DOMAIN saves,
                    Latest(n), Over(n), TwoBlocks(n), ~saves[n].failed, saves[n].answer.body > 0
             PROVE  IsPrefix(Body(n), files[saves[n].path])
  BY DEF SavedWhole
<1>1. n \in 1 .. Len(saves) /\ n \in Nat /\ saves[n] \in Saves
  BY ElementOfSeq DEF SavingInv, Typed
<1>2. saves[n].answer \in SavedAnswers
  BY <1>1 DEF Saves
<1>3. PICK f : f = files[saves[n].path]
  OBVIOUS
<1>4. StartsWith(n, saves[n], f, saves[n].answer.body)
  BY <1>1, <1>3 DEF SavingInv, Staged, Judged, Stage, Ended
<1>5. /\ f \in Contents /\ saves[n].answer.body <= Len(f)
      /\ \A i \in 1 .. saves[n].answer.body : f[i] = Unit(n, saves[n].answer.head + i)
  BY <1>4 DEF StartsWith
<1>6. /\ Body(n) \in Contents /\ Len(Body(n)) = saves[n].answer.body
      /\ \A i \in 1 .. Len(Body(n)) : Body(n)[i] = Unit(n, saves[n].answer.head + i)
  BY <1>1, <1>2, BodyIs
<1> QED BY <1>3, <1>5, <1>6, PrefixIs

LEMMA StartIsPrefix ==
  ASSUME NEW n \in Nat, saves[n].answer \in SavedAnswers, NEW f,
         NEW k \in 0 .. saves[n].answer.body, IsStart(n, saves[n], f, k)
  PROVE  IsPrefix(f, Body(n))
<1>1. /\ f \in Contents /\ Len(f) = k
      /\ \A i \in 1 .. k : f[i] = Unit(n, saves[n].answer.head + i)
  BY DEF IsStart, StartsWith
<1>2. /\ Body(n) \in Contents /\ Len(Body(n)) = saves[n].answer.body
      /\ \A i \in 1 .. Len(Body(n)) : Body(n)[i] = Unit(n, saves[n].answer.head + i)
  BY BodyIs
<1>3. saves[n].answer.body \in Nat
  BY SegmentAssumption
<1>4. k <= saves[n].answer.body /\ \A i \in 1 .. k : i \in 1 .. saves[n].answer.body
  BY <1>3
<1> QED BY <1>1, <1>2, <1>4, PrefixIs

LEMMA NewIsPrefix == SavingInv => PrefixKept
<1> SUFFICES ASSUME SavingInv PROVE PrefixKept
  OBVIOUS
<1>1. SegmentTypeOK
  <2>1. \A p \in Paths : files[p] # ABSENT =>
          \A i \in DOMAIN files[p] : files[p][i][1] \in 0 .. Len(saves)
    <3>1. SUFFICES ASSUME NEW p \in Paths, files[p] # ABSENT
                   PROVE  \A i \in DOMAIN files[p] : files[p][i][1] \in 0 .. Len(saves)
      OBVIOUS
    <3>2. files[p] \in Contents /\ Signed(files[p], Len(saves))
      BY <3>1 DEF SavingInv, Typed, AllSigned
    <3> QED BY <3>1, <3>2 DEF Signed, Contents
  <2>2. \A t \in Savers : work[t].save \in 0 .. Len(saves)
    <3>1. SUFFICES ASSUME NEW t \in Savers PROVE work[t].save \in 0 .. Len(saves)
      OBVIOUS
    <3>2. Len(saves) \in Nat
      BY DEF SavingInv, Typed
    <3>3. Busy(t) => work[t].save \in 1 .. Len(saves)
      BY DEF SavingInv, Typed, AtWork
    <3>4. ~Busy(t) => work[t].save = 0
      BY DEF Busy, Idle
    <3> QED BY <3>2, <3>3, <3>4
  <2> QED BY <2>1, <2>2 DEF SegmentTypeOK, SavingInv, Typed
<1>2. SUFFICES ASSUME NEW n \in DOMAIN saves, Latest(n), TwoBlocks(n), saves[n].fresh,
                      saves[n].answer.body > 0
               PROVE  IsPrefix(files[saves[n].path], Body(n))
  BY <1>1 DEF PrefixKept
<1>3. n \in 1 .. Len(saves) /\ n \in Nat /\ n # 0 /\ saves[n] \in Saves
  BY ElementOfSeq DEF SavingInv, Typed
<1>4. saves[n].answer \in SavedAnswers
  BY <1>3 DEF Saves
<1>5. PICK f : f = files[saves[n].path]
  OBVIOUS
<1>6. Stage(n, saves[n], f)
  BY <1>2, <1>3, <1>5 DEF SavingInv, Staged, Judged
<1>7. PICK a \in SavedAnswers : a = saves[n].answer
  BY <1>4
<1>8. a.head \in Nat /\ a.body \in Nat /\ a.body > 0 /\ FirstBlock \in Nat
  BY <1>2, <1>7, SegmentAssumption
<1>9. \E k \in 0 .. a.body : IsStart(n, saves[n], f, k)
  <2>1. CASE Over(n)
    BY <1>2, <1>6, <1>7, <2>1 DEF Stage, Ended
  <2>2. ASSUME NEW t \in Savers, work[t].save = n PROVE \E k \in 0 .. a.body : IsStart(n, saves[n], f, k)
    <3>1. Busy(t)
      BY <1>3, <2>2 DEF Busy, Idle
    <3>2. work[t].block \in 1 .. Len(Sizes(a))
      BY <1>7, <2>2, <3>1 DEF SavingInv, Typed, AtWork
    <3>3. PICK m \in Nat : m = Len(Sizes(a)) /\ m <= 2
      BY <1>2, <1>7, SizesAre DEF TwoBlocks
    <3>4. work[t].block = 1 \/ (work[t].block = 2 /\ m = 2)
      BY <3>2, <3>3
    <3>5. CASE work[t].block = 1
      <4>1. IsStart(n, saves[n], f, 0)
        BY <1>2, <1>6, <2>2, <3>1, <3>5 DEF Stage, Begun
      <4> QED BY <1>8, <4>1
    <3>6. CASE work[t].block = 2 /\ m = 2
      <4>1. \/ IsStart(n, saves[n], f, 0)
            \/ /\ work[t].writen \in 1 .. FirstPart(saves[n])
               /\ IsStart(n, saves[n], f, work[t].writen)
        BY <1>2, <1>6, <2>2, <3>1, <3>6 DEF Stage, Halfway
      <4>2. FirstPart(saves[n]) \in Int /\ FirstPart(saves[n]) <= a.body
        <5>1. Sizes(a)[1] = FirstBlock /\ Total(a) > FirstBlock
          <6>1. Len(Sizes(a)) # 1
            BY <3>3, <3>6
          <6>2. ~(Total(a) <= FirstBlock) /\ Sizes(a)[1] = FirstBlock
            BY ONLY <6>1, a \in SavedAnswers, SizesAre
          <6>3. Total(a) \in Nat
            BY <1>8 DEF Total
          <6> QED BY <1>8, <6>2, <6>3
        <5>2. FirstPart(saves[n]) = FirstBlock - a.head
          BY <1>7, <5>1 DEF FirstPart
        <5> QED BY <1>8, <5>1, <5>2 DEF Total
      <4>3. 0 \in 0 .. a.body
        BY <1>8
      <4>4. work[t].writen \in 1 .. FirstPart(saves[n]) => work[t].writen \in 0 .. a.body
        BY <1>8, <4>2
      <4> QED BY <4>1, <4>3, <4>4
    <3> QED BY <3>4, <3>5, <3>6
  <2> QED BY <2>1, <2>2 DEF Over
<1> QED BY <1>3, <1>4, <1>5, <1>7, <1>9, StartIsPrefix

\* HandleSegmentResp (hls_handler.cpp:177-209): a segment of at most two blocks that was
\* written without an error, last of the savings to its file and with no other thread at
\* it meanwhile, is in the file whole and from its first unit on.
THEOREM Whole == Spec => []SavedWhole
BY Remembered, SavedIsThere, PTL

\* The same saving into a file it made: whatever fails, the file holds the beginning of
\* the segment, with no gap and nothing of the header.
THEOREM Prefix == Spec => []PrefixKept
BY Remembered, NewIsPrefix, PTL

\* Induction over the natural numbers.
LEMMA NatSetInduction ==
  ASSUME NEW P, 0 \in P, \A n \in Nat : n \in P => n + 1 \in P
  PROVE  \A n \in Nat : n \in P
<1> DEFINE Bad == Nat \ P
<1>1. SUFFICES ASSUME Bad # {} PROVE FALSE
  OBVIOUS
<1>2. PICK n \in Bad : \A m \in Bad : n <= m
  BY <1>1, NatLeast
<1>3. n - 1 \in Nat /\ n - 1 \notin Bad
  BY <1>2
<1>4. n - 1 + 1 \in P
  BY <1>3
<1> QED BY <1>2, <1>4

-----------------------------------------------------------------------------
(* URLs: fields that lie one behind the other *)

Rank == [UF_SCHEMA |-> 1, UF_USERINFO |-> 2, UF_HOST |-> 3, UF_PORT |-> 4, UF_PATH |-> 5,
         UF_QUERY |-> 6, UF_FRAGMENT |-> 7]

LEMMA RankIs ==
  /\ \A f \in Fields : Rank[f] \in 1 .. 7
  /\ \A f, g \in Fields : Rank[f] = Rank[g] => f = g
  /\ Rank["UF_SCHEMA"] = 1 /\ Rank["UF_USERINFO"] = 2 /\ Rank["UF_HOST"] = 3
  /\ Rank["UF_PORT"] = 4 /\ Rank["UF_PATH"] = 5 /\ Rank["UF_QUERY"] = 6
  /\ Rank["UF_FRAGMENT"] = 7
BY DEF Rank, Fields

Lengths == [Fields -> Nat]

\* The fields S lie in t from place a to place k, and what they leave are delimiters.
Inside(S, off, len, a, k) ==
  \A f \in S : a <= off[f] /\ len[f] >= 1 /\ off[f] + len[f] <= k + 1
InOrder(S, off, len) ==
  \A f, g \in S : Rank[f] < Rank[g] => off[f] + len[f] <= off[g]
Covered(t, S, off, len, a, k) ==
  \A p \in a .. k : t[p] \in Delimiters \/ \E f \in S : off[f] <= p /\ p < off[f] + len[f]
Laid(t, S, off, len, a, k) ==
  /\ S \subseteq Fields /\ off \in Lengths /\ len \in Lengths
  /\ Inside(S, off, len, a, k) /\ InOrder(S, off, len) /\ Covered(t, S, off, len, a, k)

\* A delimiter.
LEMMA Passes ==
  ASSUME NEW t, NEW S, NEW off, NEW len, NEW a \in Nat, NEW k \in Nat,
         Laid(t, S, off, len, a, k), t[k + 1] \in Delimiters
  PROVE  Laid(t, S, off, len, a, k + 1)
<1> USE DEF Laid, Lengths
<1>1. \A f \in S : off[f] \in Nat /\ len[f] \in Nat
  OBVIOUS
<1>2. Inside(S, off, len, a, k + 1)
  BY <1>1 DEF Inside
<1>3. Covered(t, S, off, len, a, k + 1)
  <2>1. \A p \in a .. k + 1 : p \in a .. k \/ p = k + 1
    OBVIOUS
  <2> QED BY <2>1 DEF Covered
<1> QED BY <1>2, <1>3

\* One more symbol of the last field.
LEMMA Grows ==
  ASSUME NEW t, NEW S, NEW off, NEW len, NEW a \in Nat, NEW k \in Nat,
         Laid(t, S, off, len, a, k),
         NEW f \in S, off[f] + len[f] = k + 1, \A g \in S : Rank[g] <= Rank[f],
         NEW e, e = [len EXCEPT ![f] = len[f] + 1]
  PROVE  Laid(t, S, off, e, a, k + 1)
<1>1. S \subseteq Fields /\ off \in [Fields -> Nat] /\ len \in [Fields -> Nat]
  BY DEF Laid, Lengths
<1>2. \A g \in S : off[g] \in Nat /\ len[g] \in Nat /\ Rank[g] \in Nat
  BY <1>1, RankIs
<1>3. e \in [Fields -> Nat] /\ e[f] = len[f] + 1 /\ \A g \in S : g # f => e[g] = len[g]
  BY <1>1
<1>4. Inside(S, off, e, a, k + 1)
  <2>1. Inside(S, off, len, a, k)
    BY DEF Laid
  <2>2. SUFFICES ASSUME NEW g \in S
                 PROVE  a <= off[g] /\ e[g] >= 1 /\ off[g] + e[g] <= k + 1 + 1
    BY DEF Inside
  <2>3. a <= off[g] /\ len[g] >= 1 /\ off[g] + len[g] <= k + 1
    BY <2>1 DEF Inside
  <2> QED BY <1>2, <1>3, <2>3
<1>5. InOrder(S, off, e)
  <2>1. SUFFICES ASSUME NEW g \in S, NEW h \in S, Rank[g] < Rank[h]
                 PROVE  off[g] + e[g] <= off[h]
    BY DEF InOrder
  <2>2. g # f
    BY <1>2, <2>1
  <2> QED BY <1>3, <2>1, <2>2 DEF Laid, InOrder
<1>6. Covered(t, S, off, e, a, k + 1)
  <2>1. SUFFICES ASSUME NEW p \in a .. k + 1
                 PROVE  t[p] \in Delimiters \/ \E g \in S : off[g] <= p /\ p < off[g] + e[g]
    BY DEF Covered
  <2>2. CASE p = k + 1
    <3>1. off[f] <= p /\ p < off[f] + e[f]
      <4>1. len[f] >= 1
        BY DEF Laid, Inside
      <4> QED BY <1>2, <1>3, <2>2, <4>1
    <3> QED BY <3>1
  <2>3. CASE p \in a .. k
    <3>1. t[p] \in Delimiters \/ \E g \in S : off[g] <= p /\ p < off[g] + len[g]
      BY <2>3 DEF Laid, Covered
    <3>2. \A g \in S : p < off[g] + len[g] => p < off[g] + e[g]
      BY <1>2, <1>3, <2>3
    <3> QED BY <3>1, <3>2
  <2> QED BY <2>2, <2>3
<1> QED BY <1>1, <1>3, <1>4, <1>5, <1>6 DEF Laid, Lengths

\* The first symbol of the next field.
LEMMA Opens ==
  ASSUME NEW t, NEW S, NEW off, NEW len, NEW a \in Nat, NEW k \in Nat, a <= k + 1,
         Laid(t, S, off, len, a, k),
         NEW f \in Fields, \A g \in S : Rank[g] < Rank[f],
         NEW d, d = [off EXCEPT ![f] = k + 1], NEW e, e = [len EXCEPT ![f] = 1]
  PROVE  Laid(t, S \cup {f}, d, e, a, k + 1)
<1>1. S \subseteq Fields /\ off \in [Fields -> Nat] /\ len \in [Fields -> Nat]
  BY DEF Laid, Lengths
<1>2. /\ Rank[f] \in Nat
      /\ \A g \in S : off[g] \in Nat /\ len[g] \in Nat /\ Rank[g] \in Nat
  BY <1>1, RankIs
<1>3. f \notin S
  BY <1>2
<1>4. /\ d \in [Fields -> Nat] /\ d[f] = k + 1 /\ \A g \in S : d[g] = off[g]
      /\ e \in [Fields -> Nat] /\ e[f] = 1 /\ \A g \in S : e[g] = len[g]
  BY <1>1, <1>3
<1>5. /\ \A g \in S : a <= off[g] /\ len[g] >= 1 /\ off[g] + len[g] <= k + 1
  BY DEF Laid, Inside
<1>6. Inside(S \cup {f}, d, e, a, k + 1)
  <2>1. \A g \in S : off[g] + len[g] <= k + 1 + 1
    BY <1>2, <1>5
  <2> QED BY <1>4, <1>5, <2>1 DEF Inside
<1>7. InOrder(S \cup {f}, d, e)
  <2>1. SUFFICES ASSUME NEW g \in S \cup {f}, NEW h \in S \cup {f}, Rank[g] < Rank[h]
                 PROVE  d[g] + e[g] <= d[h]
    BY DEF InOrder
  <2>2. g \in S
    BY <1>2, <2>1
  <2>3. CASE h = f
    BY <1>4, <1>5, <2>2, <2>3
  <2>4. CASE h \in S
    BY <1>4, <2>1, <2>2, <2>4 DEF Laid, InOrder
  <2> QED BY <2>3, <2>4
<1>8. Covered(t, S \cup {f}, d, e, a, k + 1)
  <2>1. SUFFICES ASSUME NEW p \in a .. k + 1
                 PROVE  t[p] \in Delimiters \/ \E g \in S \cup {f} : d[g] <= p /\ p < d[g] + e[g]
    BY DEF Covered
  <2>2. CASE p = k + 1
    BY <1>4, <2>2
  <2>3. CASE p \in a .. k
    BY <1>4, <2>3 DEF Laid, Covered
  <2> QED BY <2>2, <2>3
<1> QED BY <1>1, <1>4, <1>6, <1>7, <1>8 DEF Laid, Lengths

-----------------------------------------------------------------------------
(* The loop of http_parser_parse_url *)

\* The rank of the last field a state may have passed.
Reach == [s_req_spaces_before_url |-> 0, s_req_schema |-> 1, s_req_schema_slash |-> 1,
          s_req_schema_slash_slash |-> 1, s_req_server_start |-> 1, s_req_server |-> 3,
          s_req_server_with_at |-> 3, s_req_path |-> 5, s_req_query_string_start |-> 5,
          s_req_query_string |-> 6, s_req_fragment_start |-> 6, s_req_fragment |-> 7]

FieldStates == {"s_req_schema", "s_req_server", "s_req_server_with_at", "s_req_path",
                "s_req_query_string", "s_req_fragment"}

LEMMA FieldStatesAre == DOMAIN FieldOf = FieldStates
BY DEF FieldOf, FieldStates

LEMMA FollowIs ==
  ASSUME NEW arcs, NEW s, NEW ch, NEW dead
  PROVE  \/ Follow(arcs, s, ch, dead) = dead
         \/ \E arc \in arcs : s \in arc[1] /\ ch \in arc[2] /\ Follow(arcs, s, ch, dead) = arc[3]
BY DEF Follow

\* A step from s to r with ch.
GoodStep(s, ch, r) ==
  /\ r \in UrlStates /\ Reach[r] \in 0 .. 7
  /\ r \in FieldStates => /\ FieldOf[r] \in Fields /\ Reach[r] = Rank[FieldOf[r]]
                          /\ \/ s \in FieldStates /\ FieldOf[s] = FieldOf[r]
                             \/ Reach[s] < Rank[FieldOf[r]]
                          /\ FieldOf[r] \notin {"UF_USERINFO", "UF_PORT"}
  /\ r \notin FieldStates => ch \in Delimiters /\ Reach[s] <= Reach[r]

LEMMA UrlStatesAre ==
  UrlStates = FieldStates \cup {"s_req_spaces_before_url", "s_req_schema_slash",
    "s_req_schema_slash_slash", "s_req_server_start", "s_req_query_string_start",
    "s_req_fragment_start"}
BY DEF UrlStates, UrlArcs, FieldStates

LEMMA UrlSteps ==
  ASSUME NEW s \in UrlStates, NEW ch
  PROVE  parse_url_char(s, ch) = "s_dead" \/ GoodStep(s, ch, parse_url_char(s, ch))
<1> DEFINE r == Follow(UrlArcs, s, ch, "s_dead")
<1>1. ch \in UrlAlphabet => UrlTable[s][ch] = r
  BY DEF UrlTable
<1>2. parse_url_char(s, ch) \in {r, "s_dead"}
  BY <1>1 DEF parse_url_char
<1>3. r = "s_dead" \/ \E arc \in UrlArcs : s \in arc[1] /\ ch \in arc[2] /\ r = arc[3]
  BY FollowIs
<1>4. ASSUME NEW arc \in UrlArcs, s \in arc[1], ch \in arc[2] PROVE GoodStep(s, ch, arc[3])
  BY <1>4, UrlStatesAre
     DEF UrlArcs, GoodStep, FieldStates, Reach, Rank, FieldOf, Fields, Delimiters, IS_ALPHA,
         IS_USERINFO_CHAR, IS_HOST_CHAR, IS_NUM, IS_URL_CHAR, UrlAlphabet
<1> QED BY <1>2, <1>3, <1>4

States == UrlStates \cup {"s_dead"}
Scans == [s : States, old_uf : Fields \cup {"UF_MAX"}, found_at : BOOLEAN,
          field_set : SUBSET Fields, off : Lengths, len : Lengths]

\* Places and lengths of a text with fewer symbols than a uint16_t has numbers.
LEMMA PlacesAre ==
  ASSUME NEW p \in Nat \ {0}
  PROVE  Off(p) \in Nat /\ (p <= Word => Off(p) = p)
<1>1. p - 1 \in Int /\ Word \in Nat /\ Word > 1
  BY WordAssumption
<1>2. (p - 1) % Word \in 0 .. Word - 1
  BY <1>1
<1>3. p <= Word => (p - 1) % Word = p - 1
  BY <1>1
<1> QED BY <1>1, <1>2, <1>3 DEF Off

LEMMA LengthsAre ==
  ASSUME NEW n \in Nat
  PROVE  OneMore(n) \in Nat /\ (n + 1 < Word => OneMore(n) = n + 1)
<1>1. n + 1 \in Int /\ Word \in Nat /\ Word > 1
  BY WordAssumption
<1>2. (n + 1) % Word \in 0 .. Word - 1
  BY <1>1
<1>3. n + 1 < Word => (n + 1) % Word = n + 1
  BY <1>1
<1> QED BY <1>1, <1>2, <1>3 DEF OneMore

\* What UrlStep makes of u at place p, s being the state it goes to.
Stepped(u, p, s, z) ==
  /\ z \in Scans /\ z.s = s
  /\ s \notin FieldStates =>
       /\ z.field_set = u.field_set /\ z.off = u.off /\ z.len = u.len /\ z.old_uf = u.old_uf
  /\ s \in FieldStates /\ FieldOf[s] = u.old_uf =>
       /\ z.field_set = u.field_set /\ z.off = u.off /\ z.old_uf = u.old_uf
       /\ z.len = [u.len EXCEPT ![u.old_uf] = OneMore(u.len[u.old_uf])]
  /\ s \in FieldStates /\ FieldOf[s] # u.old_uf =>
       /\ z.field_set = u.field_set \cup {FieldOf[s]} /\ z.old_uf = FieldOf[s]
       /\ z.off = [u.off EXCEPT ![FieldOf[s]] = Off(p)]
       /\ z.len = [u.len EXCEPT ![FieldOf[s]] = 1]

LEMMA UrlStepIs ==
  ASSUME NEW u \in Scans, NEW p \in Nat \ {0}, NEW ch, parse_url_char(u.s, ch) \in States
  PROVE  Stepped(u, p, parse_url_char(u.s, ch), UrlStep(u, p, ch))
<1>1. PICK s \in States : s = parse_url_char(u.s, ch)
  OBVIOUS
<1>2. PICK at \in BOOLEAN : at = (u.found_at \/ s = "s_req_server_with_at")
  BY Zenon DEF Scans
<1>3. PICK v : v = [u EXCEPT !.s = s, !.found_at = at]
  OBVIOUS
<1>4. /\ v \in Scans /\ v.s = s /\ v.field_set = u.field_set /\ v.off = u.off
      /\ v.len = u.len /\ v.old_uf = u.old_uf
  BY <1>3 DEF Scans
<1>5. v = [u EXCEPT !.s = s, !.found_at = u.found_at \/ s = "s_req_server_with_at"]
  BY Zenon, <1>2, <1>3
<1>6. UrlStep(u, p, ch) =
        IF s \notin FieldStates THEN v
        ELSE IF FieldOf[s] = u.old_uf THEN [v EXCEPT !.len[u.old_uf] = OneMore(@)]
        ELSE [v EXCEPT !.off[FieldOf[s]] = Off(p), !.len[FieldOf[s]] = 1,
                       !.field_set = @ \cup {FieldOf[s]}, !.old_uf = FieldOf[s]]
  BY Zenon, <1>1, <1>5, FieldStatesAre DEF UrlStep
<1>7. PICK z : z = UrlStep(u, p, ch)
  OBVIOUS
<1>8. CASE s \notin FieldStates
  <2>1. z = v
    BY <1>6, <1>7, <1>8
  <2> QED BY Zenon, <1>1, <1>4, <1>7, <1>8, <2>1 DEF Stepped
<1>9. s \in FieldStates => FieldOf[s] \in Fields
  BY DEF FieldStates, FieldOf, Fields
<1>10. CASE s \in FieldStates /\ FieldOf[s] = u.old_uf
  <2>1. PICK f \in Fields : f = u.old_uf
    BY <1>9, <1>10
  <2>3. u.len \in [Fields -> Nat]
    BY DEF Scans, Lengths
  <2>2. PICK e : e = [u.len EXCEPT ![f] = OneMore(u.len[f])]
    OBVIOUS
  <2>4. e \in Lengths
    <3>1. OneMore(u.len[f]) \in Nat
      BY <2>3, LengthsAre
    <3> QED BY <2>2, <2>3, <3>1 DEF Lengths
  <2>5. z = [v EXCEPT !.len = e]
    BY <1>4, <1>6, <1>7, <1>10, <2>1, <2>2
  <2>6. /\ z \in Scans /\ z.s = v.s /\ z.field_set = v.field_set /\ z.off = v.off
        /\ z.len = e /\ z.old_uf = v.old_uf
    BY <1>4, <2>4, <2>5 DEF Scans
  <2> QED BY Zenon, <1>1, <1>4, <1>7, <1>10, <2>1, <2>2, <2>6 DEF Stepped
<1>11. CASE s \in FieldStates /\ FieldOf[s] # u.old_uf
  <2>1. PICK f \in Fields : f = FieldOf[s]
    BY <1>9, <1>11
  <2>2. PICK e : e = [u.len EXCEPT ![f] = 1]
    OBVIOUS
  <2>9. PICK b \in Nat : b = Off(p)
    BY PlacesAre
  <2>3. PICK d : d = [u.off EXCEPT ![f] = b]
    OBVIOUS
  <2>4. e \in Lengths /\ d \in Lengths
    <3>1. u.len \in [Fields -> Nat] /\ u.off \in [Fields -> Nat]
      BY DEF Scans, Lengths
    <3> QED BY <2>2, <2>3, <3>1 DEF Lengths
  <2>5. PICK g : g = u.field_set \cup {f}
    OBVIOUS
  <2>6. g \in SUBSET Fields
    BY <2>5 DEF Scans
  <2>7. z = [v EXCEPT !.off = d, !.len = e, !.field_set = g, !.old_uf = f]
    <3>1. z = [v EXCEPT !.off[f] = b, !.len[f] = 1, !.field_set = @ \cup {f}, !.old_uf = f]
      BY Zenon, <1>6, <1>7, <1>11, <2>1, <2>9
    <3>2. /\ d = [v.off EXCEPT ![f] = b] /\ e = [v.len EXCEPT ![f] = 1]
          /\ g = v.field_set \cup {f}
      BY <1>4, <2>2, <2>3, <2>5
    <3>3. v = [s |-> v.s, old_uf |-> v.old_uf, found_at |-> v.found_at,
               field_set |-> v.field_set, off |-> v.off, len |-> v.len]
      BY <1>4 DEF Scans
    <3> QED BY <3>1, <3>2, <3>3
  <2>8. /\ z \in Scans /\ z.s = v.s /\ z.field_set = g /\ z.off = d
        /\ z.len = e /\ z.old_uf = f
    BY <1>4, <2>4, <2>6, <2>7 DEF Scans
  <2> QED BY Zenon, <1>1, <1>4, <1>7, <1>11, <2>1, <2>2, <2>3, <2>5, <2>8, <2>9 DEF Stepped
<1> QED BY <1>8, <1>10, <1>11

\* What the loop knows of the first k symbols of t.
ScanInv(t, k, u) ==
  /\ u \in Scans
  /\ u.s # "s_dead" =>
       /\ Laid(t, u.field_set, u.off, u.len, 1, k)
       /\ u.field_set \cap {"UF_USERINFO", "UF_PORT"} = {}
       /\ \A f \in u.field_set : Rank[f] <= Reach[u.s]
       /\ u.old_uf \in u.field_set \cup {"UF_MAX"}
       /\ u.s \in FieldStates => /\ u.old_uf = FieldOf[u.s] /\ u.old_uf \in u.field_set
                                 /\ u.off[u.old_uf] + u.len[u.old_uf] = k + 1

LEMMA ScanBegins == ASSUME NEW t PROVE ScanInv(t, 0, UrlStart)
<1>1. "s_req_spaces_before_url" \in UrlStates /\ "s_req_spaces_before_url" \notin FieldStates
  BY UrlStatesAre DEF FieldStates
<1>2. NoFields \in Lengths
  BY DEF NoFields, Lengths
<1>3. PICK u : u = UrlStart
  OBVIOUS
<1>4. /\ u \in Scans /\ u.s = "s_req_spaces_before_url" /\ u.field_set = {}
      /\ u.off = NoFields /\ u.len = NoFields /\ u.old_uf = "UF_MAX"
  BY <1>1, <1>2, <1>3 DEF UrlStart, Scans, States
<1>5. Laid(t, {}, NoFields, NoFields, 1, 0)
  BY <1>2 DEF Laid, Inside, InOrder, Covered
<1> QED BY <1>1, <1>3, <1>4, <1>5 DEF ScanInv

LEMMA ScanGoesOn ==
  ASSUME NEW t, NEW k \in Nat, k + 1 < Word, NEW u, ScanInv(t, k, u)
  PROVE  ScanInv(t, k + 1, UrlStep(u, k + 1, t[k + 1]))
<1>1. u \in Scans /\ u.s \in States
  BY DEF ScanInv, Scans
<1>2. PICK s : s = parse_url_char(u.s, t[k + 1])
  OBVIOUS
<1>3. "s_dead" \notin UrlStates /\ FieldStates \subseteq UrlStates /\ "s_dead" \notin FieldStates
  BY UrlStatesAre DEF FieldStates
<1>4. s = "s_dead" \/ (u.s \in UrlStates /\ GoodStep(u.s, t[k + 1], s))
  <2>1. CASE u.s \in UrlStates
    BY <1>2, <2>1, UrlSteps
  <2>2. CASE u.s = "s_dead"
    BY <1>2, <1>3, <2>2 DEF parse_url_char
  <2> QED BY <1>1, <2>1, <2>2 DEF States
<1>5. s \in States
  BY <1>4 DEF States, GoodStep
<1>6. PICK z : z = UrlStep(u, k + 1, t[k + 1])
  OBVIOUS
<1>7. Stepped(u, k + 1, s, z)
  BY <1>1, <1>2, <1>5, <1>6, UrlStepIs
<1>11. Off(k + 1) = k + 1
  <2>1. k + 1 \in Nat \ {0} /\ k + 1 <= Word
    BY WordAssumption
  <2> QED BY <2>1, PlacesAre
<1>8. z \in Scans /\ z.s = s
  BY <1>7 DEF Stepped
<1>9. CASE s = "s_dead"
  BY <1>6, <1>8, <1>9 DEF ScanInv
<1>10. CASE s # "s_dead"
  <2>1. /\ u.s # "s_dead" /\ GoodStep(u.s, t[k + 1], s)
    BY <1>3, <1>4, <1>10
  <2>2. /\ Laid(t, u.field_set, u.off, u.len, 1, k)
        /\ u.field_set \cap {"UF_USERINFO", "UF_PORT"} = {}
        /\ \A f \in u.field_set : Rank[f] <= Reach[u.s]
        /\ u.old_uf \in u.field_set \cup {"UF_MAX"}
        /\ u.s \in FieldStates => /\ u.old_uf = FieldOf[u.s] /\ u.old_uf \in u.field_set
                                  /\ u.off[u.old_uf] + u.len[u.old_uf] = k + 1
    BY <2>1 DEF ScanInv
  <2>3. \A f \in u.field_set : f \in Fields /\ Rank[f] \in 1 .. 7
    BY <1>1, RankIs DEF Scans
  <2>4. Reach[u.s] \in 0 .. 7
    BY <1>4, <1>10, UrlStatesAre DEF Reach, FieldStates
  <2>5. CASE s \notin FieldStates
    <3>1. /\ z.field_set = u.field_set /\ z.off = u.off /\ z.len = u.len /\ z.old_uf = u.old_uf
      BY <1>7, <2>5 DEF Stepped
    <3>2. t[k + 1] \in Delimiters /\ Reach[u.s] <= Reach[s] /\ Reach[s] \in 0 .. 7
      BY <2>1, <2>5 DEF GoodStep
    <3>3. Laid(t, u.field_set, u.off, u.len, 1, k + 1)
      BY <2>2, <3>2, Passes
    <3>4. \A f \in u.field_set : Rank[f] <= Reach[s]
      BY <2>2, <2>3, <2>4, <3>2
    <3> QED BY <1>6, <1>8, <2>2, <2>5, <3>1, <3>3, <3>4 DEF ScanInv
  <2>6. CASE s \in FieldStates /\ FieldOf[s] = u.old_uf
    <3>1. PICK f \in Fields : f = FieldOf[s]
      BY <2>1, <2>6 DEF GoodStep
    <3>2. /\ z.field_set = u.field_set /\ z.off = u.off /\ z.old_uf = f
          /\ z.len = [u.len EXCEPT ![f] = OneMore(u.len[f])] /\ f = u.old_uf
      BY <1>7, <2>6, <3>1 DEF Stepped
    <3>3. f \in u.field_set
      BY <2>2, <3>2, RankIs DEF Fields
    <3>4. /\ Reach[s] = Rank[f]
          /\ (u.s \in FieldStates /\ FieldOf[u.s] = f) \/ Reach[u.s] < Rank[f]
      BY <2>1, <2>6, <3>1 DEF GoodStep
    <3>5. u.s \in FieldStates /\ FieldOf[u.s] = f
      BY <2>2, <2>3, <2>4, <3>3, <3>4
    <3>6. u.off[f] + u.len[f] = k + 1 /\ \A g \in u.field_set : Rank[g] <= Rank[f]
      <4>1. Reach[u.s] = Rank[f]
        BY <3>5 DEF FieldStates, Reach, FieldOf, Rank
      <4> QED BY <2>2, <3>2, <3>5, <4>1
    <3>9. OneMore(u.len[f]) = u.len[f] + 1 /\ u.len[f] \in Nat /\ u.off[f] \in Nat
      <4>1. u.len[f] \in Nat /\ u.off[f] \in Nat
        BY <1>1 DEF Scans, Lengths
      <4>2. u.off[f] >= 1
        BY <2>2, <3>3 DEF Laid, Inside
      <4>3. u.len[f] + 1 < Word
        BY <3>6, <4>1, <4>2, WordAssumption
      <4> QED BY <4>1, <4>3, LengthsAre
    <3>7. Laid(t, u.field_set, u.off, z.len, 1, k + 1)
      <4>1. z.len = [u.len EXCEPT ![f] = u.len[f] + 1]
        BY <3>2, <3>9
      <4> QED BY <2>2, <3>3, <3>6, <4>1, Grows
    <3>8. z.off[f] + z.len[f] = k + 1 + 1
      <4>1. z.len[f] = u.len[f] + 1
        BY <1>1, <3>2, <3>9 DEF Scans, Lengths
      <4> QED BY <3>2, <3>6, <3>9, <4>1
    <3> QED BY <1>6, <1>8, <2>2, <3>1, <3>2, <3>3, <3>4, <3>6, <3>7, <3>8 DEF ScanInv
  <2>7. CASE s \in FieldStates /\ FieldOf[s] # u.old_uf
    <3>1. PICK f \in Fields : f = FieldOf[s] /\ f \notin {"UF_USERINFO", "UF_PORT"}
      BY <2>1, <2>7 DEF GoodStep
    <3>2. /\ z.field_set = u.field_set \cup {f} /\ z.old_uf = f
          /\ z.off = [u.off EXCEPT ![f] = k + 1]
          /\ z.len = [u.len EXCEPT ![f] = 1]
      BY <1>7, <1>11, <2>7, <3>1 DEF Stepped
    <3>3. Reach[s] = Rank[f] /\ Reach[u.s] < Rank[f]
      BY <2>1, <2>2, <2>7, <3>1 DEF GoodStep
    <3>4. \A g \in u.field_set : Rank[g] < Rank[f]
      <4>1. Rank[f] \in 1 .. 7
        BY RankIs
      <4> QED BY <2>2, <2>3, <2>4, <3>3, <4>1
    <3>5. Laid(t, z.field_set, z.off, z.len, 1, k + 1)
      <4>1. PICK S, o, l, d, e :
              S = u.field_set /\ o = u.off /\ l = u.len /\ d = z.off /\ e = z.len
        OBVIOUS
      <4>2. /\ Laid(t, S, o, l, 1, k)
            /\ \A g \in S : Rank[g] < Rank[f]
            /\ d = [o EXCEPT ![f] = k + 1] /\ e = [l EXCEPT ![f] = 1]
            /\ z.field_set = S \cup {f}
        BY ONLY <2>2, <3>2, <3>4, <4>1
      <4>3. 1 \in Nat /\ 1 <= k + 1
        OBVIOUS
      <4>4. Laid(t, S \cup {f}, d, e, 1, k + 1)
        BY ONLY <4>2, <4>3, Opens, f \in Fields, k \in Nat
      <4> QED BY ONLY <4>1, <4>2, <4>4
    <3>6. \A g \in z.field_set : Rank[g] <= Reach[s]
      <4>1. Rank[f] \in 1 .. 7
        BY RankIs
      <4> QED BY <2>3, <3>2, <3>3, <3>4, <4>1
    <3>7. z.off[f] + z.len[f] = k + 1 + 1
      <4>1. z.off[f] = k + 1 /\ z.len[f] = 1
        BY <1>1, <3>2 DEF Scans, Lengths
      <4> QED BY <4>1
    <3>8. z.field_set \cap {"UF_USERINFO", "UF_PORT"} = {}
      BY <2>2, <3>1, <3>2
    <3> QED BY <1>6, <1>8, <3>1, <3>2, <3>5, <3>6, <3>7, <3>8 DEF ScanInv
  <2> QED BY <2>5, <2>6, <2>7
<1> QED BY <1>9, <1>10

\* What the last three fields are made of, and what they begin with.
Chars == [UF_PATH |-> IS_URL_CHAR, UF_QUERY |-> IS_URL_CHAR \cup {"?"},
          UF_FRAGMENT |-> IS_URL_CHAR \cup {"?", "#"}]
Firsts == [UF_PATH |-> {"/", "*"}, UF_QUERY |-> IS_URL_CHAR \cup {"?"},
           UF_FRAGMENT |-> IS_URL_CHAR \cup {"?"}]
LastFields == {"UF_PATH", "UF_QUERY", "UF_FRAGMENT"}

Worded(t, u) ==
  \A f \in u.field_set \cap LastFields :
    /\ t[u.off[f]] \in Firsts[f]
    /\ \A p \in u.off[f] .. u.off[f] + u.len[f] - 1 : t[p] \in Chars[f]

ScanText(t, k, u) == ScanInv(t, k, u) /\ (u.s # "s_dead" => Worded(t, u))

\* A step with ch that comes to s from r.
GoodWord(s, ch, r) ==
  r \in FieldStates /\ FieldOf[r] \in LastFields =>
    /\ ch \in Chars[FieldOf[r]]
    /\ (s \in FieldStates /\ FieldOf[s] = FieldOf[r]) \/ ch \in Firsts[FieldOf[r]]

LEMMA UrlWords ==
  ASSUME NEW s \in UrlStates, NEW ch, parse_url_char(s, ch) # "s_dead"
  PROVE  GoodWord(s, ch, parse_url_char(s, ch))
<1> DEFINE r == Follow(UrlArcs, s, ch, "s_dead")
<1>1. ch \in UrlAlphabet => UrlTable[s][ch] = r
  BY DEF UrlTable
<1>2. parse_url_char(s, ch) \in {r, "s_dead"}
  BY <1>1 DEF parse_url_char
<1>3. r = "s_dead" \/ \E arc \in UrlArcs : s \in arc[1] /\ ch \in arc[2] /\ r = arc[3]
  BY FollowIs
<1>4. ASSUME NEW arc \in UrlArcs, s \in arc[1], ch \in arc[2] PROVE GoodWord(s, ch, arc[3])
  BY <1>4, UrlStatesAre
     DEF UrlArcs, GoodWord, FieldStates, FieldOf, LastFields, Chars, Firsts, IS_ALPHA,
         IS_USERINFO_CHAR, IS_HOST_CHAR, IS_NUM, IS_URL_CHAR, UrlAlphabet
<1> QED BY <1>2, <1>3, <1>4

LEMMA FirstsAreChars == \A f \in LastFields : Firsts[f] \subseteq Chars[f]
BY DEF LastFields, Firsts, Chars, IS_URL_CHAR, UrlAlphabet

LEMMA TextBegins == ASSUME NEW t PROVE ScanText(t, 0, UrlStart)
<1>1. UrlStart.field_set = {}
  BY DEF UrlStart
<1> QED BY <1>1, ScanBegins DEF ScanText, Worded

LEMMA TextGoesOn ==
  ASSUME NEW t, NEW k \in Nat, k + 1 < Word, NEW u, ScanText(t, k, u)
  PROVE  ScanText(t, k + 1, UrlStep(u, k + 1, t[k + 1]))
<1>1. PICK z : z = UrlStep(u, k + 1, t[k + 1])
  OBVIOUS
<1>2. PICK s : s = parse_url_char(u.s, t[k + 1])
  OBVIOUS
<1>3. ScanInv(t, k + 1, z)
  BY <1>1, ScanGoesOn DEF ScanText
<1>4. u \in Scans /\ u.s \in States /\ u.off \in [Fields -> Nat] /\ u.len \in [Fields -> Nat]
  BY DEF ScanText, ScanInv, Scans, Lengths
<1>5. s = "s_dead" \/ (u.s \in UrlStates /\ s \in UrlStates)
  <2>1. CASE u.s \in UrlStates
    BY <1>2, <2>1, UrlSteps DEF GoodStep
  <2>2. CASE u.s = "s_dead"
    <3>1. "s_dead" \notin UrlStates
      BY UrlStatesAre DEF FieldStates
    <3> QED BY <1>2, <2>2, <3>1 DEF parse_url_char
  <2> QED BY <1>4, <2>1, <2>2 DEF States
<1>6. Stepped(u, k + 1, s, z) /\ z.s = s
  <2>1. s \in States
    BY <1>5 DEF States
  <2>3. k + 1 \in Nat \ {0}
    OBVIOUS
  <2>2. Stepped(u, k + 1, parse_url_char(u.s, t[k + 1]), UrlStep(u, k + 1, t[k + 1]))
    BY <1>2, <1>4, <2>1, <2>3, UrlStepIs
  <2> QED BY <1>1, <1>2, <2>2 DEF Stepped
<1>7. ASSUME s # "s_dead" PROVE Worded(t, z)
  <2>1. u.s \in UrlStates /\ s \in UrlStates /\ GoodWord(u.s, t[k + 1], s)
    BY <1>2, <1>5, <1>7, UrlWords
  <2>2. u.s # "s_dead" /\ Worded(t, u)
    <3>1. "s_dead" \notin UrlStates
      BY UrlStatesAre DEF FieldStates
    <3> QED BY <2>1, <3>1 DEF ScanText
  <2>3. u.s \in FieldStates => u.old_uf = FieldOf[u.s]
    BY <2>2 DEF ScanText, ScanInv
  <2>4. CASE s \notin FieldStates
    <3>1. z.field_set = u.field_set /\ z.off = u.off /\ z.len = u.len
      BY <1>6, <2>4 DEF Stepped
    <3> QED BY <2>2, <3>1 DEF Worded
  <2>5. CASE s \in FieldStates /\ FieldOf[s] = u.old_uf
    <3>1. PICK f \in Fields : f = FieldOf[s]
      BY <2>5 DEF FieldStates, FieldOf, Fields
    <3>2. /\ z.field_set = u.field_set /\ z.off = u.off
          /\ z.len = [u.len EXCEPT ![f] = OneMore(u.len[f])]
      BY <1>6, <2>5, <3>1 DEF Stepped
    <3>10. OneMore(u.len[f]) = u.len[f] + 1
      <4>1. f \in u.field_set /\ Laid(t, u.field_set, u.off, u.len, 1, k)
        BY <2>2, <2>5, <3>1, <3>2, RankIs DEF ScanText, ScanInv, Fields
      <4>2. u.off[f] >= 1 /\ u.off[f] + u.len[f] <= k + 1
        BY <4>1 DEF Laid, Inside
      <4>3. u.len[f] \in Nat /\ u.off[f] \in Nat
        BY <1>4
      <4>4. u.len[f] + 1 < Word
        BY <4>2, <4>3, WordAssumption
      <4> QED BY <4>3, <4>4, LengthsAre
    <3>3. z.len[f] = u.len[f] + 1 /\ \A g \in Fields : g # f => z.len[g] = u.len[g]
      BY <1>4, <3>2, <3>10
    <3>4. z.off[f] + z.len[f] = k + 1 + 1
      BY <1>3, <1>6, <1>7, <2>5, <3>1 DEF ScanInv
    <3>5. SUFFICES ASSUME NEW g \in z.field_set \cap LastFields
                   PROVE  /\ t[z.off[g]] \in Firsts[g]
                          /\ \A p \in z.off[g] .. z.off[g] + z.len[g] - 1 : t[p] \in Chars[g]
      BY DEF Worded
    <3>6. /\ t[u.off[g]] \in Firsts[g]
          /\ \A p \in u.off[g] .. u.off[g] + u.len[g] - 1 : t[p] \in Chars[g]
      BY <2>2, <3>2 DEF Worded
    <3>7. g \in Fields
      BY DEF LastFields, Fields
    <3>8. CASE g # f
      <4>1. z.off[g] = u.off[g] /\ z.len[g] = u.len[g]
        BY <3>2, <3>3, <3>7, <3>8
      <4> QED BY <3>6, <4>1
    <3>9. CASE g = f
      <4>1. t[k + 1] \in Chars[g]
        BY <2>1, <2>5, <3>1, <3>9 DEF GoodWord
      <4>2. u.off[g] \in Nat /\ u.len[g] \in Nat /\ z.off[g] = u.off[g]
        BY <1>4, <3>2, <3>7
      <4>3. \A p \in z.off[g] .. z.off[g] + z.len[g] - 1 :
              p \in u.off[g] .. u.off[g] + u.len[g] - 1 \/ p = k + 1
        BY <3>3, <3>4, <3>9, <4>2
      <4> QED BY <3>6, <4>1, <4>2, <4>3
    <3> QED BY <3>8, <3>9
  <2>6. CASE s \in FieldStates /\ FieldOf[s] # u.old_uf
    <3>1. PICK f \in Fields : f = FieldOf[s]
      BY <2>6 DEF FieldStates, FieldOf, Fields
    <3>2. /\ z.field_set = u.field_set \cup {f}
          /\ z.off = [u.off EXCEPT ![f] = k + 1] /\ z.len = [u.len EXCEPT ![f] = 1]
      <4>1. Off(k + 1) = k + 1
        <5>1. k + 1 \in Nat \ {0} /\ k + 1 <= Word
          BY WordAssumption
        <5> QED BY <5>1, PlacesAre
      <4> QED BY <1>6, <2>6, <3>1, <4>1 DEF Stepped
    <3>3. /\ z.off[f] = k + 1 /\ z.len[f] = 1
          /\ \A g \in Fields : g # f => z.off[g] = u.off[g] /\ z.len[g] = u.len[g]
      BY <1>4, <3>2
    <3>4. SUFFICES ASSUME NEW g \in z.field_set \cap LastFields
                   PROVE  /\ t[z.off[g]] \in Firsts[g]
                          /\ \A p \in z.off[g] .. z.off[g] + z.len[g] - 1 : t[p] \in Chars[g]
      BY DEF Worded
    <3>5. g \in Fields
      BY DEF LastFields, Fields
    <3>6. CASE g # f
      <4>1. z.off[g] = u.off[g] /\ z.len[g] = u.len[g] /\ g \in u.field_set
        BY <3>2, <3>3, <3>5, <3>6
      <4> QED BY <2>2, <4>1 DEF Worded
    <3>7. CASE g = f
      <4>1. t[k + 1] \in Firsts[g]
        BY <2>1, <2>3, <2>6, <3>1, <3>7 DEF GoodWord
      <4>2. t[k + 1] \in Chars[g]
        BY <4>1, FirstsAreChars
      <4>3. \A p \in z.off[g] .. z.off[g] + z.len[g] - 1 : p = k + 1
        BY <3>3, <3>7
      <4> QED BY <3>3, <3>7, <4>1, <4>2, <4>3
    <3> QED BY <3>6, <3>7
  <2> QED BY <2>4, <2>5, <2>6
<1> QED BY <1>1, <1>3, <1>6, <1>7 DEF ScanText

\* The loop over the first n symbols of t has the states g.
IsScan(t, n, g) ==
  g = [p \in 0 .. n |-> IF p = 0 THEN UrlStart ELSE UrlStep(g[p - 1], p, t[p])]

LEMMA ScansExist == ASSUME NEW t PROVE \A n \in Nat : \E g : IsScan(t, n, g)
<1> DEFINE Good == {n \in Nat : \E g : IsScan(t, n, g)}
<1>1. 0 \in Good
  <2>1. PICK g : g = [p \in 0 .. 0 |-> UrlStart]
    OBVIOUS
  <2>2. IsScan(t, 0, g)
    BY <2>1 DEF IsScan
  <2> QED BY <2>2
<1>2. ASSUME NEW n \in Nat, n \in Good PROVE n + 1 \in Good
  <2>1. PICK h : IsScan(t, n, h)
    BY <1>2
  <2>2. PICK g : g = [p \in 0 .. n + 1 |-> IF p = 0 THEN UrlStart ELSE UrlStep(h[p - 1], p, t[p])]
    OBVIOUS
  <2>3. \A p \in 0 .. n : g[p] = h[p]
    <3>1. \A p \in 0 .. n : h[p] = IF p = 0 THEN UrlStart ELSE UrlStep(h[p - 1], p, t[p])
      BY <2>1 DEF IsScan
    <3>2. \A p \in 0 .. n : p \in 0 .. n + 1
      OBVIOUS
    <3> QED BY <2>2, <3>1, <3>2
  <2>4. \A p \in 0 .. n + 1 : p # 0 => g[p - 1] = h[p - 1]
    <3>1. \A p \in 0 .. n + 1 : p # 0 => p - 1 \in 0 .. n
      OBVIOUS
    <3> QED BY <2>3, <3>1
  <2>5. g = [p \in 0 .. n + 1 |-> IF p = 0 THEN UrlStart ELSE UrlStep(g[p - 1], p, t[p])]
    BY <2>2, <2>4
  <2> QED BY <2>5 DEF IsScan
<1>3. \A n \in Nat : n \in Good
  <2> HIDE DEF Good
  <2> QED BY <1>1, <1>2, NatSetInduction
<1> QED BY <1>3

LEMMA ScanUrlIs ==
  ASSUME NEW t, Len(t) \in Nat
  PROVE  \E g : IsScan(t, Len(t), g) /\ ScanUrl(t) = g[Len(t)]
<1>1. \E g : IsScan(t, Len(t), g)
  BY ScansExist
<1>2. PICK g : g = CHOOSE h : IsScan(t, Len(t), h)
  OBVIOUS
<1>3. ScanUrl(t) = g[Len(t)]
  BY <1>2 DEF ScanUrl, IsScan
<1> QED BY <1>1, <1>2, <1>3

LEMMA ScanTyped ==
  ASSUME NEW u \in Scans, NEW p \in Nat \ {0}, NEW ch
  PROVE  UrlStep(u, p, ch) \in Scans
<1>1. u.s \in States /\ "s_dead" \notin UrlStates
  BY UrlStatesAre DEF Scans, FieldStates
<1>2. parse_url_char(u.s, ch) \in States
  <2>1. CASE u.s \in UrlStates
    BY <2>1, UrlSteps DEF GoodStep, States
  <2>2. CASE u.s = "s_dead"
    BY <1>1, <2>2 DEF parse_url_char, States
  <2> QED BY <1>1, <2>1, <2>2 DEF States
<1> QED BY <1>2, UrlStepIs DEF Stepped

\* What is known of the loop after n symbols.
ScanKnown(t, n, u) == u \in Scans /\ (n < Word => ScanText(t, n, u))

LEMMA KnownGoesOn ==
  ASSUME NEW t, NEW n \in Nat, NEW u, ScanKnown(t, n, u)
  PROVE  ScanKnown(t, n + 1, UrlStep(u, n + 1, t[n + 1]))
<1>1. UrlStep(u, n + 1, t[n + 1]) \in Scans
  <2>1. n + 1 \in Nat \ {0}
    OBVIOUS
  <2> QED BY <2>1, ScanTyped DEF ScanKnown
<1>2. ASSUME n + 1 < Word PROVE ScanText(t, n + 1, UrlStep(u, n + 1, t[n + 1]))
  <2>1. n < Word
    BY <1>2, WordAssumption
  <2> QED BY <1>2, <2>1, TextGoesOn DEF ScanKnown
<1> QED BY <1>1, <1>2 DEF ScanKnown

LEMMA ScanKnownIs ==
  ASSUME NEW t, Len(t) \in Nat
  PROVE  ScanKnown(t, Len(t), ScanUrl(t))
<1>1. PICK g : IsScan(t, Len(t), g) /\ ScanUrl(t) = g[Len(t)]
  BY ScanUrlIs
<1> DEFINE Good == {n \in Nat : n <= Len(t) => ScanKnown(t, n, g[n])}
<1>2. 0 \in Good
  <2>1. g[0] = UrlStart
    BY <1>1 DEF IsScan
  <2> QED BY <2>1, TextBegins DEF ScanKnown, ScanText, ScanInv
<1>3. ASSUME NEW n \in Nat, n \in Good PROVE n + 1 \in Good
  <2>1. CASE n + 1 <= Len(t)
    <3>1. n + 1 \in 0 .. Len(t) /\ n + 1 # 0 /\ n + 1 - 1 = n
      BY <2>1
    <3>2. g[n + 1] = UrlStep(g[n], n + 1, t[n + 1])
      BY <1>1, <3>1 DEF IsScan
    <3>3. ScanKnown(t, n, g[n])
      BY <1>3, <2>1
    <3>4. ScanKnown(t, n + 1, UrlStep(g[n], n + 1, t[n + 1]))
      BY <3>3, KnownGoesOn
    <3> QED BY <3>2, <3>4
  <2>2. CASE ~(n + 1 <= Len(t))
    BY <2>2
  <2> QED BY <2>1, <2>2
<1>4. Len(t) \in Good
  <2> HIDE DEF Good
  <2> QED BY <1>2, <1>3, NatSetInduction
<1> QED BY <1>1, <1>4

LEMMA ScanHolds ==
  ASSUME NEW t, Len(t) \in Nat, Len(t) < Word
  PROVE  ScanText(t, Len(t), ScanUrl(t))
BY ScanKnownIs DEF ScanKnown

-----------------------------------------------------------------------------
(* The loop of http_parse_host *)

HostParts == {"UF_USERINFO", "UF_HOST", "UF_PORT"}

HReach == [s_http_userinfo_start |-> 0, s_http_userinfo |-> 2, s_http_host_start |-> 2,
           s_http_host_v6_start |-> 2, s_http_host_v6 |-> 3, s_http_host |-> 3,
           s_http_host_v6_end |-> 3, s_http_host_port_start |-> 3, s_http_host_port |-> 4]

HFieldStates == {"s_http_host", "s_http_host_v6", "s_http_host_port", "s_http_userinfo"}
HostStates == HFieldStates \cup {"s_http_userinfo_start", "s_http_host_start",
                "s_http_host_v6_start", "s_http_host_v6_end", "s_http_host_port_start"}

\* In these states the host has a symbol.
HostKnown == {"s_http_host_v6", "s_http_host", "s_http_host_v6_end", "s_http_host_port_start",
              "s_http_host_port"}

LEMMA HFieldStatesAre == DOMAIN HostFieldOf = HFieldStates
BY DEF HostFieldOf, HFieldStates

GoodHostStep(s, ch, r) ==
  /\ r \in HostStates /\ HReach[r] \in 0 .. 7
  /\ r \in HFieldStates => /\ HostFieldOf[r] \in HostParts /\ HReach[r] = Rank[HostFieldOf[r]]
                           /\ \/ s = r
                              \/ HReach[s] < Rank[HostFieldOf[r]]
  /\ r \notin HFieldStates => ch \in Delimiters /\ HReach[s] <= HReach[r]
  /\ r \in HostKnown => s \in HostKnown \/ (r \in HFieldStates /\ HostFieldOf[r] = "UF_HOST")

LEMMA HostSteps ==
  ASSUME NEW s, NEW ch
  PROVE  \/ http_parse_host_char(s, ch) = "s_http_host_dead"
         \/ s \in HostStates /\ GoodHostStep(s, ch, http_parse_host_char(s, ch))
<1> DEFINE r == Follow(HostArcs, s, ch, "s_http_host_dead")
<1>1. r = "s_http_host_dead" \/ \E arc \in HostArcs : s \in arc[1] /\ ch \in arc[2] /\ r = arc[3]
  BY FollowIs
<1>2. ASSUME NEW arc \in HostArcs, s \in arc[1], ch \in arc[2]
      PROVE s \in HostStates /\ GoodHostStep(s, ch, arc[3])
  BY <1>2
     DEF HostArcs, GoodHostStep, HFieldStates, HostStates, HReach, Rank, HostFieldOf, HostParts,
         Delimiters, IS_ALPHA, IS_USERINFO_CHAR, IS_HOST_CHAR, IS_NUM, IS_HEX, HostKnown
<1> QED BY <1>1, <1>2 DEF http_parse_host_char

HStates == HostStates \cup {"s_http_host_dead"}
Hosts == [s : HStates, old_uf : Fields \cup {"UF_MAX"}, found_at : BOOLEAN,
          field_set : SUBSET Fields, off : Lengths, len : Lengths]

\* What HostStep makes of u at place p, s being the state it goes to.
HStepped(u, p, s, z) ==
  /\ z \in Hosts /\ z.s = s
  /\ s \notin HFieldStates => z.field_set = u.field_set /\ z.off = u.off /\ z.len = u.len
  /\ s \in HFieldStates =>
       /\ z.field_set = u.field_set \cup {HostFieldOf[s]}
       /\ z.off = [u.off EXCEPT ![HostFieldOf[s]] =
                     IF s # u.s THEN Off(p) ELSE u.off[HostFieldOf[s]]]
       /\ z.len = [u.len EXCEPT ![HostFieldOf[s]] =
                     IF s # u.s /\ HostFieldOf[s] # "UF_HOST" THEN 1
                     ELSE OneMore(u.len[HostFieldOf[s]])]

LEMMA HostStepIs ==
  ASSUME NEW u \in Hosts, NEW p \in Nat \ {0}, NEW ch, http_parse_host_char(u.s, ch) \in HStates
  PROVE  HStepped(u, p, http_parse_host_char(u.s, ch), HostStep(u, p, ch))
<1>1. PICK s \in HStates : s = http_parse_host_char(u.s, ch)
  OBVIOUS
<1>2. HostStep(u, p, ch) =
        IF s \notin HFieldStates THEN [u EXCEPT !.s = s]
        ELSE [u EXCEPT !.s = s, !.field_set = @ \cup {HostFieldOf[s]},
                       !.off[HostFieldOf[s]] = IF s # u.s THEN Off(p) ELSE @,
                       !.len[HostFieldOf[s]] = IF s # u.s /\ HostFieldOf[s] # "UF_HOST"
                                               THEN 1 ELSE OneMore(@)]
  BY Zenon, <1>1, HFieldStatesAre DEF HostStep
<1>3. PICK z : z = HostStep(u, p, ch)
  OBVIOUS
<1>4. CASE s \notin HFieldStates
  <2>1. z = [u EXCEPT !.s = s]
    BY <1>2, <1>3, <1>4
  <2>2. /\ z \in Hosts /\ z.s = s /\ z.field_set = u.field_set /\ z.off = u.off /\ z.len = u.len
    BY <2>1 DEF Hosts
  <2> QED BY Zenon, <1>1, <1>3, <1>4, <2>2 DEF HStepped
<1>5. CASE s \in HFieldStates
  <2>1. PICK f \in Fields : f = HostFieldOf[s]
    BY <1>5 DEF HFieldStates, HostFieldOf, Fields
  <2>2. u.len \in [Fields -> Nat] /\ u.off \in [Fields -> Nat]
    BY DEF Hosts, Lengths
  <2>3. PICK m \in Nat : m = IF s # u.s /\ f # "UF_HOST" THEN 1 ELSE OneMore(u.len[f])
    <3>1. OneMore(u.len[f]) \in Nat
      BY <2>2, LengthsAre
    <3> QED BY <3>1
  <2>4. PICK b \in Nat : b = IF s # u.s THEN Off(p) ELSE u.off[f]
    <3>1. Off(p) \in Nat /\ u.off[f] \in Nat
      BY <2>2, PlacesAre
    <3> QED BY <3>1
  <2>5. PICK e : e = [u.len EXCEPT ![f] = m]
    OBVIOUS
  <2>6. PICK d : d = [u.off EXCEPT ![f] = b]
    OBVIOUS
  <2>7. e \in Lengths /\ d \in Lengths
    BY <2>2, <2>5, <2>6 DEF Lengths
  <2>8. PICK g : g = u.field_set \cup {f}
    OBVIOUS
  <2>9. g \in SUBSET Fields
    BY <2>8 DEF Hosts
  <2>10. z = [u EXCEPT !.s = s, !.off = d, !.len = e, !.field_set = g]
    <3>1. z = [u EXCEPT !.s = s, !.field_set = @ \cup {f}, !.off[f] = IF s # u.s THEN Off(p) ELSE @,
                        !.len[f] = IF s # u.s /\ f # "UF_HOST" THEN 1 ELSE OneMore(@)]
      BY Zenon, <1>2, <1>3, <1>5, <2>1
    <3>2. u = [s |-> u.s, old_uf |-> u.old_uf, found_at |-> u.found_at,
               field_set |-> u.field_set, off |-> u.off, len |-> u.len]
      BY DEF Hosts
    <3> QED BY <2>3, <2>4, <2>5, <2>6, <2>8, <3>1, <3>2
  <2>11. /\ z \in Hosts /\ z.s = s /\ z.field_set = g /\ z.off = d /\ z.len = e
    BY <2>7, <2>9, <2>10 DEF Hosts
  <2> QED BY Zenon, <1>1, <1>3, <1>5, <2>1, <2>3, <2>4, <2>5, <2>6, <2>8, <2>11 DEF HStepped
<1> QED BY <1>4, <1>5

\* The parts of the host that were found.
Found(h) == (h.field_set \cap {"UF_USERINFO", "UF_PORT"})
              \cup (IF h.len["UF_HOST"] > 0 THEN {"UF_HOST"} ELSE {})

\* What the loop leaves of what u was.
SameRest(u, h) ==
  /\ "UF_HOST" \in h.field_set
  /\ \A f \in Fields \ HostParts :
       (f \in h.field_set <=> f \in u.field_set) /\ h.off[f] = u.off[f] /\ h.len[f] = u.len[f]

\* What the loop knows of the symbols a .. k of t.
HostInv(t, u, a, k, h) ==
  /\ h \in Hosts /\ SameRest(u, h)
  /\ h.s # "s_http_host_dead" =>
       /\ Laid(t, Found(h), h.off, h.len, a, k)
       /\ \A f \in Found(h) : Rank[f] <= HReach[h.s]
       /\ h.s \in HFieldStates => /\ HostFieldOf[h.s] \in Found(h)
                                  /\ h.off[HostFieldOf[h.s]] + h.len[HostFieldOf[h.s]] = k + 1
       /\ h.s \in HostKnown => "UF_HOST" \in Found(h)

LEMMA RestStays ==
  ASSUME NEW u, NEW h \in Hosts, SameRest(u, h), NEW p, NEW s, NEW z, HStepped(h, p, s, z)
  PROVE  SameRest(u, z)
<1>1. h.off \in [Fields -> Nat] /\ h.len \in [Fields -> Nat]
  BY DEF Hosts, Lengths
<1>2. CASE s \notin HFieldStates
  BY <1>2 DEF HStepped, SameRest
<1>3. CASE s \in HFieldStates
  <2>1. PICK f \in HostParts : f = HostFieldOf[s]
    BY <1>3 DEF HFieldStates, HostFieldOf, HostParts
  <2>2. PICK b, m : /\ z.field_set = h.field_set \cup {f}
                    /\ z.off = [h.off EXCEPT ![f] = b] /\ z.len = [h.len EXCEPT ![f] = m]
    <3>1. PICK b : b = IF s # h.s THEN Off(p) ELSE h.off[f]
      OBVIOUS
    <3>2. PICK m : m = IF s # h.s /\ f # "UF_HOST" THEN 1 ELSE OneMore(h.len[f])
      OBVIOUS
    <3>3. /\ z.field_set = h.field_set \cup {f}
          /\ z.off = [h.off EXCEPT ![f] = IF s # h.s THEN Off(p) ELSE h.off[f]]
          /\ z.len = [h.len EXCEPT ![f] = IF s # h.s /\ f # "UF_HOST" THEN 1
                                          ELSE OneMore(h.len[f])]
      BY <1>3, <2>1 DEF HStepped
    <3>4. z.off = [h.off EXCEPT ![f] = b] /\ z.len = [h.len EXCEPT ![f] = m]
      BY <3>1, <3>2, <3>3
    <3> QED BY ONLY Zenon, <3>3, <3>4
  <2>3. \A g \in Fields \ HostParts : /\ g \in z.field_set <=> g \in h.field_set
                                      /\ z.off[g] = h.off[g] /\ z.len[g] = h.len[g]
    BY <1>1, <2>1, <2>2
  <2> QED BY <2>2, <2>3 DEF SameRest
<1> QED BY <1>2, <1>3

LEMMA HostGoesOn ==
  ASSUME NEW t, NEW a \in Nat \ {0}, NEW k \in Nat, a <= k + 1, k + 1 < Word, NEW u, NEW h,
         HostInv(t, u, a, k, h)
  PROVE  HostInv(t, u, a, k + 1, HostStep(h, k + 1, t[k + 1]))
<1>1. h \in Hosts /\ SameRest(u, h) /\ h.off \in [Fields -> Nat] /\ h.len \in [Fields -> Nat]
  BY DEF HostInv, Hosts, Lengths
<1>2. PICK s : s = http_parse_host_char(h.s, t[k + 1])
  OBVIOUS
<1>3. "s_http_host_dead" \notin HostStates
  BY DEF HostStates, HFieldStates
<1>4. s = "s_http_host_dead" \/ (h.s \in HostStates /\ GoodHostStep(h.s, t[k + 1], s))
  BY <1>2, HostSteps
<1>5. s \in HStates
  BY <1>4 DEF HStates, GoodHostStep
<1>6. PICK z : z = HostStep(h, k + 1, t[k + 1])
  OBVIOUS
<1>7. HStepped(h, k + 1, s, z)
  BY <1>1, <1>2, <1>5, <1>6, HostStepIs
<1>11. Off(k + 1) = k + 1 /\ OneMore(0) = 1
  <2>1. k + 1 \in Nat \ {0} /\ k + 1 <= Word /\ 0 + 1 < Word
    BY WordAssumption
  <2> QED BY <2>1, PlacesAre, LengthsAre
<1>8. z \in Hosts /\ z.s = s /\ SameRest(u, z)
  BY <1>1, <1>7, RestStays DEF HStepped
<1>9. CASE s = "s_http_host_dead"
  BY <1>6, <1>8, <1>9 DEF HostInv
<1>10. CASE s # "s_http_host_dead"
  <2>1. h.s # "s_http_host_dead" /\ h.s \in HostStates /\ GoodHostStep(h.s, t[k + 1], s)
    BY <1>3, <1>4, <1>10
  <2>2. /\ Laid(t, Found(h), h.off, h.len, a, k)
        /\ \A f \in Found(h) : Rank[f] <= HReach[h.s]
        /\ h.s \in HFieldStates => /\ HostFieldOf[h.s] \in Found(h)
                                   /\ h.off[HostFieldOf[h.s]] + h.len[HostFieldOf[h.s]] = k + 1
        /\ h.s \in HostKnown => "UF_HOST" \in Found(h)
    BY <2>1 DEF HostInv
  <2>3. \A f \in Found(h) : f \in Fields /\ Rank[f] \in 1 .. 7
    BY RankIs DEF Found, Fields
  <2>4. HReach[h.s] \in 0 .. 7
    BY <2>1 DEF HReach, HostStates, HFieldStates
  <2>5. CASE s \notin HFieldStates
    <3>1. /\ z.field_set = h.field_set /\ z.off = h.off /\ z.len = h.len
      BY <1>7, <2>5 DEF HStepped
    <3>2. Found(z) = Found(h)
      BY <3>1 DEF Found
    <3>3. t[k + 1] \in Delimiters /\ HReach[h.s] <= HReach[s] /\ HReach[s] \in 0 .. 7
      BY <2>1, <2>5 DEF GoodHostStep
    <3>4. Laid(t, Found(h), h.off, h.len, a, k + 1)
      BY <2>2, <3>3, Passes
    <3>5. \A f \in Found(h) : Rank[f] <= HReach[s]
      BY <2>2, <2>3, <2>4, <3>3
    <3>6. s \in HostKnown => "UF_HOST" \in Found(h)
      BY <2>1, <2>2, <2>5 DEF GoodHostStep
    <3> QED BY <1>6, <1>8, <2>5, <3>1, <3>2, <3>4, <3>5, <3>6 DEF HostInv
  <2>6. CASE s \in HFieldStates
    <3>1. PICK f \in Fields : /\ f = HostFieldOf[s] /\ f \in HostParts /\ HReach[s] = Rank[f]
                              /\ (s = h.s) \/ HReach[h.s] < Rank[f]
      BY <2>1, <2>6 DEF GoodHostStep, HostParts, Fields
    <3>2. /\ z.field_set = h.field_set \cup {f}
          /\ z.off = [h.off EXCEPT ![f] = IF s # h.s THEN k + 1 ELSE h.off[f]]
          /\ z.len = [h.len EXCEPT ![f] = IF s # h.s /\ f # "UF_HOST" THEN 1
                                          ELSE OneMore(h.len[f])]
      BY <1>7, <1>11, <2>6, <3>1 DEF HStepped
    <3>3. f = "UF_HOST" \/ f \in {"UF_USERINFO", "UF_PORT"}
      BY <3>1 DEF HostParts
    <3>4. s \in HostKnown => h.s \in HostKnown \/ f = "UF_HOST"
      BY <2>1, <3>1 DEF GoodHostStep
    <3>5. CASE s = h.s
      <4>1. z.off = h.off
        BY <1>1, <3>2, <3>5
      <4>3. f \in Found(h) /\ h.off[f] + h.len[f] = k + 1
        BY <2>2, <2>6, <3>1, <3>5
      <4>2. z.len = [h.len EXCEPT ![f] = h.len[f] + 1]
        <5>1. h.len[f] \in Nat /\ h.off[f] \in Nat
          BY <1>1
        <5>2. h.off[f] >= a
          BY <2>2, <4>3 DEF Laid, Inside
        <5>3. h.len[f] + 1 < Word
          BY <4>3, <5>1, <5>2, WordAssumption
        <5>4. OneMore(h.len[f]) = h.len[f] + 1
          BY <5>1, <5>3, LengthsAre
        <5> QED BY <3>2, <3>5, <5>4
      <4>4. \A g \in Found(h) : Rank[g] <= Rank[f]
        BY <2>2, <3>1, <3>5
      <4>5. Laid(t, Found(h), h.off, z.len, a, k + 1)
        <5>1. PICK S, o, l, e : S = Found(h) /\ o = h.off /\ l = h.len /\ e = z.len
          OBVIOUS
        <5>2. /\ Laid(t, S, o, l, a, k) /\ f \in S /\ o[f] + l[f] = k + 1
              /\ \A g \in S : Rank[g] <= Rank[f]
              /\ e = [l EXCEPT ![f] = l[f] + 1]
          BY ONLY <2>2, <4>2, <4>3, <4>4, <5>1
        <5>3. Laid(t, S, o, e, a, k + 1)
          BY ONLY <5>2, Grows, k \in Nat, a \in Nat
        <5> QED BY ONLY <5>1, <5>3
      <4>6. z.len[f] = h.len[f] + 1 /\ h.len[f] \in Nat /\ h.off[f] \in Nat
        BY <1>1, <4>2
      <4>7. Found(z) = Found(h)
        <5>1. CASE f = "UF_HOST"
          <6>1. h.len["UF_HOST"] > 0
            BY <4>3, <5>1 DEF Found
          <6>2. z.len["UF_HOST"] > 0
            BY <4>6, <5>1, <6>1
          <6> QED BY <3>2, <5>1, <6>1, <6>2 DEF Found
        <5>2. CASE f # "UF_HOST"
          <6>1. z.len["UF_HOST"] = h.len["UF_HOST"]
            BY <1>1, <4>2, <5>2 DEF Fields
          <6>2. f \in h.field_set
            BY <4>3, <5>2 DEF Found
          <6> QED BY <3>2, <6>1, <6>2 DEF Found
        <5> QED BY <5>1, <5>2
      <4>8. z.off[f] + z.len[f] = k + 1 + 1
        BY <4>1, <4>3, <4>6
      <4> QED BY <1>6, <1>8, <2>2, <2>6, <3>1, <3>5, <4>1, <4>3, <4>4, <4>5, <4>7, <4>8 DEF HostInv
    <3>6. CASE s # h.s
      <4>1. \A g \in Found(h) : Rank[g] < Rank[f]
        <5>1. Rank[f] \in 1 .. 7 /\ HReach[h.s] < Rank[f]
          BY <3>1, <3>6, RankIs
        <5> QED BY <2>2, <2>3, <2>4, <5>1
      <4>2. f \notin Found(h)
        <5>1. Rank[f] \in Nat
          BY RankIs
        <5> QED BY <4>1, <5>1
      <4>3. z.off = [h.off EXCEPT ![f] = k + 1]
        BY <3>2, <3>6
      <4>4. f = "UF_HOST" => h.len[f] = 0
        <5>1. h.len[f] \in Nat
          BY <1>1
        <5> QED BY <4>2, <5>1 DEF Found
      <4>5. z.len = [h.len EXCEPT ![f] = 1]
        BY <1>11, <3>2, <3>6, <4>4
      <4>6. z.len[f] = 1 /\ z.off[f] = k + 1
        BY <1>1, <4>3, <4>5
      <4>7. Found(z) = Found(h) \cup {f}
        <5>1. CASE f = "UF_HOST"
          <6>1. ~(h.len["UF_HOST"] > 0) /\ z.len["UF_HOST"] > 0
            BY <4>4, <4>6, <5>1
          <6> QED BY <3>2, <5>1, <6>1 DEF Found
        <5>2. CASE f # "UF_HOST"
          <6>1. z.len["UF_HOST"] = h.len["UF_HOST"]
            BY <1>1, <4>5, <5>2 DEF Fields
          <6> QED BY <3>2, <3>3, <5>2, <6>1 DEF Found
        <5> QED BY <5>1, <5>2
      <4>8. Laid(t, Found(z), z.off, z.len, a, k + 1)
        <5>1. PICK S, o, l, d, e :
                S = Found(h) /\ o = h.off /\ l = h.len /\ d = z.off /\ e = z.len
          OBVIOUS
        <5>2. /\ Laid(t, S, o, l, a, k)
              /\ \A g \in S : Rank[g] < Rank[f]
              /\ d = [o EXCEPT ![f] = k + 1] /\ e = [l EXCEPT ![f] = 1]
              /\ Found(z) = S \cup {f}
          BY ONLY <2>2, <4>1, <4>3, <4>5, <4>7, <5>1
        <5>3. Laid(t, S \cup {f}, d, e, a, k + 1)
          BY ONLY <5>2, Opens, f \in Fields, k \in Nat, a \in Nat, a <= k + 1
        <5> QED BY ONLY <5>1, <5>2, <5>3
      <4>9. \A g \in Found(z) : Rank[g] <= HReach[s]
        <5>1. Rank[f] \in Nat
          BY RankIs
        <5> QED BY <2>3, <3>1, <4>1, <4>7, <5>1
      <4>10. s \in HostKnown => "UF_HOST" \in Found(z)
        BY <2>2, <3>4, <4>7
      <4>11. z.off[f] + z.len[f] = k + 1 + 1
        BY <4>6
      <4> QED BY <1>6, <1>8, <2>6, <3>1, <4>7, <4>8, <4>9, <4>10, <4>11 DEF HostInv
    <3> QED BY <3>5, <3>6
  <2> QED BY <2>5, <2>6
<1> QED BY <1>9, <1>10

LEMMA HostBegins ==
  ASSUME NEW t, NEW a \in Nat, NEW k \in Nat, a = k + 1, NEW u \in Scans, "UF_HOST" \in u.field_set,
         NEW h, h = [u EXCEPT !.len["UF_HOST"] = 0,
                       !.s = IF u.found_at THEN "s_http_userinfo_start" ELSE "s_http_host_start"],
         u.field_set \cap {"UF_USERINFO", "UF_PORT"} = {}
  PROVE  HostInv(t, u, a, k, h)
<1>1. PICK s : s = IF u.found_at THEN "s_http_userinfo_start" ELSE "s_http_host_start"
  OBVIOUS
<1>2. s \in {"s_http_userinfo_start", "s_http_host_start"}
  BY <1>1
<1>3. PICK e : e = [u.len EXCEPT !["UF_HOST"] = 0]
  OBVIOUS
<1>4. u.len \in [Fields -> Nat]
  BY DEF Scans, Lengths
<1>5. /\ e \in Lengths /\ e["UF_HOST"] = 0
      /\ \A f \in Fields : f # "UF_HOST" => e[f] = u.len[f]
  BY <1>3, <1>4 DEF Lengths, Fields
<1>6. h = [u EXCEPT !.len = e, !.s = s]
  <2>1. h = [u EXCEPT !.len["UF_HOST"] = 0, !.s = s]
    BY Zenon, <1>1
  <2>2. u = [s |-> u.s, old_uf |-> u.old_uf, found_at |-> u.found_at,
             field_set |-> u.field_set, off |-> u.off, len |-> u.len]
    BY DEF Scans
  <2> QED BY <1>3, <2>1, <2>2
<1>7. s \in HStates
  BY <1>2 DEF HStates, HostStates
<1>8. h \in Hosts /\ h.s = s /\ h.field_set = u.field_set /\ h.off = u.off /\ h.len = e
  BY <1>5, <1>6, <1>7 DEF Hosts, Scans
<1>9. SameRest(u, h)
  BY <1>5, <1>8 DEF SameRest, HostParts
<1>10. Found(h) = {}
  <2>1. ~(h.len["UF_HOST"] > 0)
    BY ONLY <1>5, <1>8
  <2>2. h.field_set \cap {"UF_USERINFO", "UF_PORT"} = {}
    BY <1>8
  <2> QED BY ONLY <2>1, <2>2 DEF Found
<1>11. Laid(t, {}, h.off, h.len, a, k)
  <2>1. h.off \in Lengths /\ h.len \in Lengths
    BY <1>8 DEF Hosts
  <2>2. \A p \in a .. k : FALSE
    OBVIOUS
  <2> QED BY <2>1, <2>2 DEF Laid, Inside, InOrder, Covered
<1>12. s \notin HFieldStates /\ s \notin HostKnown
  BY <1>2 DEF HFieldStates, HostKnown
<1> QED BY <1>8, <1>9, <1>10, <1>11, <1>12 DEF HostInv

\* The loop over n symbols of t from place a on has the states g, h being the first.
IsHost(t, a, n, h, g) ==
  g = [p \in 0 .. n |-> IF p = 0 THEN h ELSE HostStep(g[p - 1], a + p - 1, t[a + p - 1])]

LEMMA HostsExist == ASSUME NEW t, NEW a, NEW h PROVE \A n \in Nat : \E g : IsHost(t, a, n, h, g)
<1> DEFINE Good == {n \in Nat : \E g : IsHost(t, a, n, h, g)}
<1>1. 0 \in Good
  <2>1. PICK g : g = [p \in 0 .. 0 |-> h]
    OBVIOUS
  <2>2. IsHost(t, a, 0, h, g)
    BY <2>1 DEF IsHost
  <2> QED BY <2>2
<1>2. ASSUME NEW n \in Nat, n \in Good PROVE n + 1 \in Good
  <2>1. PICK f : IsHost(t, a, n, h, f)
    BY <1>2
  <2>2. PICK g : g = [p \in 0 .. n + 1 |->
                        IF p = 0 THEN h ELSE HostStep(f[p - 1], a + p - 1, t[a + p - 1])]
    OBVIOUS
  <2>3. \A p \in 0 .. n : g[p] = f[p]
    <3>1. \A p \in 0 .. n : f[p] = IF p = 0 THEN h ELSE HostStep(f[p - 1], a + p - 1, t[a + p - 1])
      BY <2>1 DEF IsHost
    <3>2. \A p \in 0 .. n : p \in 0 .. n + 1
      OBVIOUS
    <3> QED BY <2>2, <3>1, <3>2
  <2>4. \A p \in 0 .. n + 1 : p # 0 => g[p - 1] = f[p - 1]
    <3>1. \A p \in 0 .. n + 1 : p # 0 => p - 1 \in 0 .. n
      OBVIOUS
    <3> QED BY <2>3, <3>1
  <2>5. g = [p \in 0 .. n + 1 |->
               IF p = 0 THEN h ELSE HostStep(g[p - 1], a + p - 1, t[a + p - 1])]
    BY <2>2, <2>4
  <2> QED BY <2>5 DEF IsHost
<1>3. \A n \in Nat : n \in Good
  <2> HIDE DEF Good
  <2> QED BY <1>1, <1>2, NatSetInduction
<1> QED BY <1>3

HostStart(u) ==
  [u EXCEPT !.len["UF_HOST"] = 0,
            !.s = IF u.found_at THEN "s_http_userinfo_start" ELSE "s_http_host_start"]

LEMMA HostIs ==
  ASSUME NEW t, NEW u, u.len["UF_HOST"] \in Nat
  PROVE  \E g : /\ IsHost(t, u.off["UF_HOST"], u.len["UF_HOST"], HostStart(u), g)
                /\ http_parse_host(t, u) = g[u.len["UF_HOST"]]
<1> DEFINE a == u.off["UF_HOST"]
           n == u.len["UF_HOST"]
           h == HostStart(u)
<1>1. \E g : IsHost(t, a, n, h, g)
  BY HostsExist
<1>2. PICK g : g = CHOOSE f : IsHost(t, a, n, h, f)
  OBVIOUS
<1>3. http_parse_host(t, u) = g[n]
  BY <1>2 DEF http_parse_host, IsHost, HostStart
<1> QED BY <1>1, <1>2, <1>3

LEMMA HostHolds ==
  ASSUME NEW t, NEW u, NEW a \in Nat, NEW n \in Nat, NEW h, NEW g, IsHost(t, a, n, h, g),
         1 <= a, a + n <= Word, HostInv(t, u, a, a - 1, h)
  PROVE  HostInv(t, u, a, a + n - 1, g[n])
<1> DEFINE Good == {m \in Nat : m <= n => HostInv(t, u, a, a + m - 1, g[m])}
<1>1. 0 \in Good
  <2>1. g[0] = h
    BY DEF IsHost
  <2>2. a + 0 - 1 = a - 1
    OBVIOUS
  <2>3. HostInv(t, u, a, a + 0 - 1, g[0])
    BY <2>1, <2>2
  <2> QED BY <2>3
<1>2. ASSUME NEW m \in Nat, m \in Good PROVE m + 1 \in Good
  <2>1. CASE m + 1 <= n
    <3>1. m + 1 \in 0 .. n /\ m + 1 # 0 /\ m + 1 - 1 = m
      BY <2>1
    <3>2. g[m + 1] = HostStep(g[m], a + (m + 1) - 1, t[a + (m + 1) - 1])
      BY <3>1 DEF IsHost
    <3>3. HostInv(t, u, a, a + m - 1, g[m])
      BY <1>2, <2>1
    <3>4. PICK k \in Nat : k = a + m - 1
      OBVIOUS
    <3>5. a <= k + 1 /\ a + (m + 1) - 1 = k + 1
      BY <3>4
    <3>8. a \in Nat \ {0} /\ k + 1 < Word
      BY <2>1, <3>4, WordAssumption
    <3>6. HostInv(t, u, a, k + 1, HostStep(g[m], k + 1, t[k + 1]))
      BY <3>3, <3>4, <3>5, <3>8, HostGoesOn
    <3>7. HostInv(t, u, a, a + (m + 1) - 1, g[m + 1])
      BY <3>2, <3>5, <3>6
    <3> QED BY <3>7
  <2>2. CASE ~(m + 1 <= n)
    BY <2>2
  <2> QED BY <2>1, <2>2
<1>3. n \in Good
  <2> HIDE DEF Good
  <2> QED BY <1>1, <1>2, NatSetInduction
<1> QED BY <1>3

-----------------------------------------------------------------------------
(* FieldsTile *)

LEMMA ScanAgrees ==
  ASSUME NEW t, NEW z, NEW k \in Nat, NEW u, \A p \in 1 .. k : t[p] = z[p], ScanText(t, k, u)
  PROVE  ScanText(z, k, u)
<1>1. Laid(t, u.field_set, u.off, u.len, 1, k) => Laid(z, u.field_set, u.off, u.len, 1, k)
  BY DEF Laid, Covered
<1>2. ScanInv(z, k, u)
  BY <1>1 DEF ScanText, ScanInv
<1>3. ASSUME u.s # "s_dead" PROVE Worded(z, u)
  <2>1. Worded(t, u) /\ Laid(t, u.field_set, u.off, u.len, 1, k)
    BY <1>3 DEF ScanText, ScanInv
  <2>2. SUFFICES ASSUME NEW f \in u.field_set \cap LastFields
                 PROVE  /\ z[u.off[f]] \in Firsts[f]
                        /\ \A p \in u.off[f] .. u.off[f] + u.len[f] - 1 : z[p] \in Chars[f]
    BY DEF Worded
  <2>3. u.off[f] \in Nat /\ u.len[f] \in Nat
    BY <2>1 DEF Laid, Lengths
  <2>4. 1 <= u.off[f] /\ u.len[f] >= 1 /\ u.off[f] + u.len[f] <= k + 1
    BY <2>1 DEF Laid, Inside
  <2>5. \A p \in u.off[f] .. u.off[f] + u.len[f] - 1 : p \in 1 .. k
    BY <2>3, <2>4
  <2>6. u.off[f] \in u.off[f] .. u.off[f] + u.len[f] - 1
    BY <2>3, <2>4
  <2> QED BY <2>1, <2>5, <2>6 DEF Worded
<1> QED BY <1>2, <1>3 DEF ScanText

Scanned ==
  /\ text \in Seq(UrlAlphabet) /\ grown \in 0 .. MaxTail
  /\ ScanKnown(text, Len(text), scan)

LEMMA ScannedAtFirst == RequestsInit => Scanned
<1>1. <<>> \in Seq(UrlAlphabet)
  OBVIOUS
<1>2. SUFFICES ASSUME RequestsInit PROVE Scanned
  OBVIOUS
<1>3. text \in Seq(UrlAlphabet)
  BY <1>1, <1>2, RequestsConstants DEF RequestsInit
<1>4. Len(text) \in Nat /\ scan = ScanUrl(text) /\ grown \in 0 .. MaxTail
  BY <1>2, <1>3, RequestsConstants DEF RequestsInit
<1> QED BY <1>3, <1>4, ScanKnownIs DEF Scanned

LEMMA ScannedAlways == Scanned /\ [RequestsNext]_requests => Scanned'
<1>1. ASSUME Scanned, NEW ch \in UrlSymbols, Read(ch) PROVE Scanned'
  <2>1. text \in Seq(UrlAlphabet) /\ ch \in UrlAlphabet /\ text' = Append(text, ch)
    BY <1>1, RequestsConstants DEF Scanned, Read
  <2>2. PICK k \in Nat : k = Len(text)
    BY <2>1
  <2>3. /\ text' \in Seq(UrlAlphabet) /\ Len(text') = k + 1 /\ text'[k + 1] = ch
        /\ \A p \in 1 .. k : text[p] = text'[p]
    BY <2>1, <2>2
  <2>4. ScanKnown(text', k, scan)
    BY <1>1, <2>2, <2>3, ScanAgrees DEF Scanned, ScanKnown
  <2>5. ScanKnown(text', k + 1, UrlStep(scan, k + 1, text'[k + 1]))
    BY <2>4, KnownGoesOn
  <2>6. scan' = UrlStep(scan, k + 1, ch)
    BY <1>1, <2>2 DEF Read
  <2>7. grown' \in 0 .. MaxTail
    BY <1>1, RequestsConstants DEF Read, Scanned
  <2> QED BY <2>3, <2>5, <2>6, <2>7 DEF Scanned
<1>2. ASSUME Scanned, UNCHANGED requests PROVE Scanned'
  BY <1>2 DEF Scanned, requests
<1> QED BY <1>1, <1>2 DEF RequestsNext

LEMMA AlwaysScanned == RequestsSpec => []Scanned
BY ScannedAtFirst, ScannedAlways, PTL DEF RequestsSpec

\* What a URL that is accepted consists of: h is what was made of its host.
UrlJoined(t, u, h) ==
  /\ ScanInv(t, Len(t), u) /\ u.s # "s_dead" /\ Url \subseteq u.field_set
  /\ u.off["UF_HOST"] \in Nat /\ u.len["UF_HOST"] \in Nat
  /\ HostInv(t, u, u.off["UF_HOST"], u.off["UF_HOST"] + u.len["UF_HOST"] - 1, h)
  /\ h.s \in HostEnds

LEMMA HostJoins ==
  ASSUME NEW t, NEW u, ScanInv(t, Len(t), u), u.s # "s_dead", "UF_HOST" \in u.field_set, Len(t) \in Nat, Len(t) < Word
  PROVE  /\ u.off["UF_HOST"] \in Nat /\ u.len["UF_HOST"] \in Nat
         /\ HostInv(t, u, u.off["UF_HOST"], u.off["UF_HOST"] + u.len["UF_HOST"] - 1,
                    http_parse_host(t, u))
<1>1. u \in Scans /\ Laid(t, u.field_set, u.off, u.len, 1, Len(t))
      /\ u.field_set \cap {"UF_USERINFO", "UF_PORT"} = {}
  BY DEF ScanInv
<1>2. "UF_HOST" \in Fields /\ u.off \in [Fields -> Nat] /\ u.len \in [Fields -> Nat]
  BY <1>1 DEF Fields, Laid, Lengths
<1>3. PICK a \in Nat, n \in Nat : a = u.off["UF_HOST"] /\ n = u.len["UF_HOST"]
  BY <1>2
<1>4. 1 <= a
  BY <1>1, <1>3 DEF Laid, Inside
<1>5. PICK g : IsHost(t, a, n, HostStart(u), g) /\ http_parse_host(t, u) = g[n]
  BY <1>3, HostIs
<1>6. PICK k \in Nat : a = k + 1 /\ k = a - 1
  BY <1>4
<1>7. HostInv(t, u, a, k, HostStart(u))
  BY <1>1, <1>6, HostBegins DEF HostStart
<1>9. a + n <= Word
  <2>1. a + n <= Len(t) + 1
    BY <1>1, <1>3 DEF Laid, Inside
  <2> QED BY <2>1, WordAssumption
<1>8. HostInv(t, u, a, a + n - 1, g[n])
  BY <1>4, <1>5, <1>6, <1>7, <1>9, HostHolds
<1> QED BY <1>3, <1>5, <1>8

LEMMA ParsedIsJoined ==
  ASSUME NEW t, NEW u, ScanInv(t, Len(t), u), Len(t) \in Nat, Len(t) < Word,
         NEW h \in ParsedUrls(t, u), Url \subseteq h.field_set
  PROVE  UrlJoined(t, u, h)
<1>1. u.s # "s_dead"
  BY DEF ParsedUrls
<1>2. u \in Scans
  BY DEF ScanInv
<1>3. "UF_HOST" \in u.field_set
  <2>1. SUFFICES ASSUME "UF_HOST" \notin u.field_set PROVE FALSE
    OBVIOUS
  <2>2. h = u \/ \E found \in SUBSET {"UF_PORT", "UF_USERINFO"} :
                   h = [u EXCEPT !.field_set = @ \cup found]
    BY <1>1, <2>1 DEF ParsedUrls
  <2>3. "UF_HOST" \notin h.field_set
    <3>1. ASSUME NEW found \in SUBSET {"UF_PORT", "UF_USERINFO"},
                 h = [u EXCEPT !.field_set = @ \cup found]
          PROVE  h.field_set = u.field_set \cup found
      BY <1>2, <3>1 DEF Scans
    <3>2. CASE h = u
      BY <2>1, <3>2
    <3>3. CASE \E found \in SUBSET {"UF_PORT", "UF_USERINFO"} :
                 h = [u EXCEPT !.field_set = @ \cup found]
      <4>1. PICK found \in SUBSET {"UF_PORT", "UF_USERINFO"} :
                   h = [u EXCEPT !.field_set = @ \cup found]
        BY <3>3
      <4>2. h.field_set = u.field_set \cup found
        BY <3>1, <4>1
      <4> QED BY <2>1, <4>2
    <3> QED BY <2>2, <3>2, <3>3
  <2> QED BY <2>3 DEF Url
<1>4. h = http_parse_host(t, u) /\ h.s \in HostEnds
  BY <1>1, <1>3 DEF ParsedUrls
<1>5. /\ u.off["UF_HOST"] \in Nat /\ u.len["UF_HOST"] \in Nat
      /\ HostInv(t, u, u.off["UF_HOST"], u.off["UF_HOST"] + u.len["UF_HOST"] - 1, h)
  BY <1>1, <1>3, <1>4, HostJoins
<1>6. Url \subseteq u.field_set
  <2>1. "UF_SCHEMA" \in Fields \ HostParts
    BY DEF Fields, HostParts
  <2> QED BY <1>3, <1>5, <2>1 DEF HostInv, SameRest, Url
<1> QED BY <1>1, <1>4, <1>5, <1>6 DEF UrlJoined

\* The fields that the host leaves as they were.
Kept(u) == u.field_set \ HostParts

LEMMA FieldsOfJoined ==
  ASSUME NEW t, NEW u, NEW h, Len(t) \in Nat, UrlJoined(t, u, h)
  PROVE  /\ h.field_set = Kept(u) \cup Found(h) /\ h.field_set \subseteq Fields
         /\ \A f \in Kept(u) : /\ f \in Fields /\ h.off[f] = u.off[f] /\ h.len[f] = u.len[f]
                               /\ Rank[f] = 1 \/ Rank[f] \in 5 .. 7
         /\ \A f \in Found(h) : Rank[f] \in 2 .. 4
         /\ "UF_HOST" \in Found(h)
         /\ h.off \in [Fields -> Nat] /\ h.len \in [Fields -> Nat]
<1>1. /\ u.field_set \subseteq Fields /\ h \in Hosts /\ SameRest(u, h)
      /\ "UF_HOST" \in u.field_set
  BY DEF UrlJoined, ScanInv, HostInv, Scans, Url
<1>2. "UF_HOST" \in Found(h)
  <2>1. h.s # "s_http_host_dead" /\ h.s \in HostKnown
    BY DEF UrlJoined, HostEnds, HostKnown
  <2> QED BY <2>1 DEF UrlJoined, HostInv
<1>3. h.field_set \subseteq Fields /\ h.off \in [Fields -> Nat] /\ h.len \in [Fields -> Nat]
  BY <1>1 DEF Hosts, Lengths
<1>4. h.field_set = Kept(u) \cup Found(h)
  <2>1. Found(h) \subseteq h.field_set
    BY <1>1 DEF Found, SameRest
  <2>2. h.field_set \cap HostParts \subseteq Found(h)
    BY <1>2 DEF Found, HostParts
  <2>3. h.field_set \ HostParts = Kept(u)
    BY <1>1, <1>3 DEF SameRest, Kept
  <2> QED BY <2>1, <2>2, <2>3
<1>5. \A f \in Kept(u) : /\ f \in Fields /\ h.off[f] = u.off[f] /\ h.len[f] = u.len[f]
                         /\ Rank[f] = 1 \/ Rank[f] \in 5 .. 7
  <2>1. \A f \in Fields \ HostParts : Rank[f] = 1 \/ Rank[f] \in 5 .. 7
    BY RankIs DEF Fields, HostParts
  <2> QED BY <1>1, <2>1 DEF SameRest, Kept
<1>6. \A f \in Found(h) : Rank[f] \in 2 .. 4
  BY RankIs DEF Found
<1> QED BY <1>2, <1>3, <1>4, <1>5, <1>6

\* The fields of a URL that is accepted lie one behind the other in it.
LEMMA JoinedIsLaid ==
  ASSUME NEW t, NEW u, NEW h, Len(t) \in Nat, UrlJoined(t, u, h)
  PROVE  Laid(t, h.field_set, h.off, h.len, 1, Len(t))
<1> USE FieldsOfJoined
<1>1. PICK a \in Nat, n \in Nat, m \in Nat :
        a = u.off["UF_HOST"] /\ n = u.len["UF_HOST"] /\ m = Len(t)
  BY DEF UrlJoined
<1>2. PICK k \in Int : k = a + n - 1
  OBVIOUS
<1>3. "UF_HOST" \in u.field_set /\ Kept(u) \subseteq u.field_set
  BY DEF UrlJoined, Url, Kept
<1>4. /\ Inside(u.field_set, u.off, u.len, 1, m)
      /\ InOrder(u.field_set, u.off, u.len)
      /\ Covered(t, u.field_set, u.off, u.len, 1, m)
  BY <1>1 DEF UrlJoined, ScanInv, Laid
<1>5. /\ Inside(Found(h), h.off, h.len, a, k)
      /\ InOrder(Found(h), h.off, h.len)
      /\ Covered(t, Found(h), h.off, h.len, a, k)
  <2>1. h.s # "s_http_host_dead"
    BY DEF UrlJoined, HostEnds
  <2> QED BY <1>1, <1>2, <2>1 DEF UrlJoined, HostInv, Laid
<1>6. 1 <= a /\ k <= m
  <2>1. 1 <= a /\ a + n <= m + 1
    BY <1>1, <1>3, <1>4 DEF Inside
  <2> QED BY <1>2, <2>1
<1>7. Inside(h.field_set, h.off, h.len, 1, m)
  <2>1. SUFFICES ASSUME NEW f \in h.field_set
                 PROVE  1 <= h.off[f] /\ h.len[f] >= 1 /\ h.off[f] + h.len[f] <= m + 1
    BY DEF Inside
  <2>2. CASE f \in Kept(u)
    <3>1. 1 <= u.off[f] /\ u.len[f] >= 1 /\ u.off[f] + u.len[f] <= m + 1
      BY <1>3, <1>4, <2>2 DEF Inside
    <3>2. h.off[f] = u.off[f] /\ h.len[f] = u.len[f]
      BY <2>2
    <3> QED BY <3>1, <3>2
  <2>3. CASE f \in Found(h)
    <3>1. a <= h.off[f] /\ h.len[f] >= 1 /\ h.off[f] + h.len[f] <= k + 1
      BY <1>5, <2>3 DEF Inside
    <3>2. h.off[f] \in Nat /\ h.len[f] \in Nat
      OBVIOUS
    <3> QED BY <1>6, <3>1, <3>2
  <2> QED BY <2>2, <2>3
<1>8. InOrder(h.field_set, h.off, h.len)
  <2>1. SUFFICES ASSUME NEW f \in h.field_set, NEW g \in h.field_set, Rank[f] < Rank[g]
                 PROVE  h.off[f] + h.len[f] <= h.off[g]
    BY DEF InOrder
  <2>2. CASE f \in Kept(u) /\ g \in Kept(u)
    BY <1>3, <1>4, <2>1, <2>2 DEF InOrder
  <2>3. CASE f \in Found(h) /\ g \in Found(h)
    BY <1>5, <2>1, <2>3 DEF InOrder
  <2>4. CASE f \in Kept(u) /\ g \in Found(h)
    <3>1. Rank[f] < Rank["UF_HOST"]
      <4>1. Rank[g] \in 2 .. 4 /\ (Rank[f] = 1 \/ Rank[f] \in 5 .. 7)
        BY <2>4
      <4> QED BY <2>1, <4>1, RankIs
    <3>2. h.off[f] + h.len[f] <= a
      BY <1>1, <1>3, <1>4, <2>4, <3>1 DEF InOrder
    <3>3. a <= h.off[g]
      BY <1>5, <2>4 DEF Inside
    <3>4. h.off[f] \in Nat /\ h.len[f] \in Nat /\ h.off[g] \in Nat
      OBVIOUS
    <3> QED BY <3>2, <3>3, <3>4
  <2>5. CASE f \in Found(h) /\ g \in Kept(u)
    <3>1. Rank["UF_HOST"] < Rank[g]
      <4>1. Rank[f] \in 2 .. 4 /\ (Rank[g] = 1 \/ Rank[g] \in 5 .. 7)
        BY <2>5
      <4> QED BY <2>1, <4>1, RankIs
    <3>2. a + n <= h.off[g]
      BY <1>1, <1>3, <1>4, <2>5, <3>1 DEF InOrder
    <3>3. h.off[f] + h.len[f] <= k + 1
      BY <1>5, <2>5 DEF Inside
    <3>4. h.off[f] \in Nat /\ h.len[f] \in Nat /\ h.off[g] \in Nat
      OBVIOUS
    <3> QED BY <1>2, <3>2, <3>3, <3>4
  <2> QED BY <2>2, <2>3, <2>4, <2>5
<1>9. Covered(t, h.field_set, h.off, h.len, 1, m)
  <2>1. SUFFICES ASSUME NEW p \in 1 .. m, t[p] \notin Delimiters
                 PROVE  \E f \in h.field_set : h.off[f] <= p /\ p < h.off[f] + h.len[f]
    BY DEF Covered
  <2>2. PICK f \in u.field_set : u.off[f] <= p /\ p < u.off[f] + u.len[f]
    BY <1>4, <2>1 DEF Covered
  <2>3. CASE f \in Kept(u)
    <3>1. f \in h.field_set /\ h.off[f] = u.off[f] /\ h.len[f] = u.len[f]
      BY <2>3
    <3> QED BY <2>2, <3>1
  <2>4. CASE f = "UF_HOST"
    <3>1. p \in a .. k
      <4>1. a <= p /\ p < a + n
        BY <1>1, <2>2, <2>4
      <4> QED BY ONLY <1>2, <4>1, a \in Nat, n \in Nat, p \in 1 .. m, m \in Nat, k \in Int
    <3>2. \E g \in Found(h) : h.off[g] <= p /\ p < h.off[g] + h.len[g]
      BY <1>5, <2>1, <3>1 DEF Covered
    <3> QED BY <3>2
  <2>5. f \in Kept(u) \/ f = "UF_HOST"
    BY DEF UrlJoined, ScanInv, Kept, HostParts
  <2> QED BY <2>3, <2>4, <2>5
<1> QED BY <1>1, <1>7, <1>8, <1>9 DEF Laid, Lengths

LEMMA LaidTiles ==
  ASSUME NEW t, NEW h, NEW m \in Nat, DOMAIN t = 1 .. m,
         Laid(t, h.field_set, h.off, h.len, 1, m)
  PROVE  /\ \A f \in h.field_set : h.len[f] > 0 /\ Extent(h, f) \subseteq DOMAIN t
         /\ \A i, j \in DOMAIN FieldOrder : i < j =>
              \A p \in Extent(h, FieldOrder[i]), q \in Extent(h, FieldOrder[j]) : p < q
         /\ \A p \in DOMAIN t : (\A f \in Fields : p \notin Extent(h, f)) => t[p] \in Delimiters
<1>1. \A f \in h.field_set : f \in Fields /\ h.off[f] \in Nat /\ h.len[f] \in Nat
  BY DEF Laid, Lengths
<1>2. \A f \in h.field_set : 1 <= h.off[f] /\ h.len[f] >= 1 /\ h.off[f] + h.len[f] <= m + 1
  BY DEF Laid, Inside
<1>3. \A f \in h.field_set : Extent(h, f) = h.off[f] .. h.off[f] + h.len[f] - 1
  BY DEF Extent
<1>4. \A f : f \notin h.field_set => Extent(h, f) = {}
  BY DEF Extent
<1>5. ASSUME NEW f \in h.field_set PROVE h.len[f] > 0 /\ Extent(h, f) \subseteq DOMAIN t
  <2>1. h.off[f] \in Nat /\ h.len[f] \in Nat
    BY <1>1
  <2>2. 1 <= h.off[f] /\ h.len[f] >= 1 /\ h.off[f] + h.len[f] <= m + 1
    BY <1>2
  <2>3. h.off[f] .. h.off[f] + h.len[f] - 1 \subseteq 1 .. m
    BY <2>1, <2>2
  <2>4. Extent(h, f) \subseteq DOMAIN t
    BY ONLY <1>3, <2>3, f \in h.field_set, DOMAIN t = 1 .. m
  <2>5. h.len[f] > 0
    BY ONLY <2>1, <2>2
  <2> QED BY <2>4, <2>5
<1>6. ASSUME NEW i \in DOMAIN FieldOrder, NEW j \in DOMAIN FieldOrder, i < j,
             NEW p \in Extent(h, FieldOrder[i]), NEW q \in Extent(h, FieldOrder[j])
      PROVE  p < q
  <2>1. FieldOrder[i] \in h.field_set /\ FieldOrder[j] \in h.field_set
    BY <1>4
  <2>2. Rank[FieldOrder[i]] = i /\ Rank[FieldOrder[j]] = j
    <3>1. DOMAIN FieldOrder = 1 .. 7
      BY DEF FieldOrder
    <3>2. \A l \in 1 .. 7 : l \in {1, 2, 3, 4, 5, 6, 7}
      OBVIOUS
    <3>3. \A l \in {1, 2, 3, 4, 5, 6, 7} : Rank[FieldOrder[l]] = l
      BY RankIs DEF FieldOrder
    <3> QED BY <3>1, <3>2, <3>3
  <2>3. PICK f \in h.field_set, g \in h.field_set : f = FieldOrder[i] /\ g = FieldOrder[j]
    BY <2>1
  <2>4. h.off[f] + h.len[f] <= h.off[g]
    BY <1>6, <2>2, <2>3 DEF Laid, InOrder
  <2>5. p \in h.off[f] .. h.off[f] + h.len[f] - 1 /\ q \in h.off[g] .. h.off[g] + h.len[g] - 1
    BY <1>3, <2>3
  <2>6. h.off[f] \in Nat /\ h.len[f] \in Nat /\ h.off[g] \in Nat /\ h.len[g] \in Nat
    BY <1>1
  <2>7. p < h.off[f] + h.len[f] /\ h.off[g] <= q /\ p \in Int /\ q \in Int
    BY ONLY <2>5, <2>6
  <2> QED BY ONLY <2>4, <2>6, <2>7
<1>7. ASSUME NEW p \in DOMAIN t, \A f \in Fields : p \notin Extent(h, f)
      PROVE  t[p] \in Delimiters
  <2>1. ASSUME NEW f \in h.field_set, h.off[f] <= p, p < h.off[f] + h.len[f] PROVE FALSE
    <3>1. h.off[f] \in Nat /\ h.len[f] \in Nat /\ p \in Nat
      BY <1>1
    <3>2. p \in h.off[f] .. h.off[f] + h.len[f] - 1
      BY <2>1, <3>1
    <3> QED BY <1>1, <1>3, <1>7, <3>2
  <2>2. t[p] \in Delimiters \/ \E f \in h.field_set : h.off[f] <= p /\ p < h.off[f] + h.len[f]
    BY DEF Laid, Covered
  <2> QED BY <2>1, <2>2
<1> QED BY <1>5, <1>6, <1>7

LEMMA ScannedTiles == Scanned => FieldsTile
<1>1. SUFFICES ASSUME Scanned PROVE FieldsTile
  OBVIOUS
<1>2. PICK m \in Nat : m = Len(text) /\ DOMAIN text = 1 .. m
  BY <1>1 DEF Scanned
<1>3. RequestsTypeOK
  <2>1. \A i \in DOMAIN text : text[i] \in UrlAlphabet
    BY <1>1, <1>2 DEF Scanned
  <2> QED BY <1>1, <2>1 DEF RequestsTypeOK, Scanned, ScanKnown, Scans, States
<1>4. ASSUME Len(text) < Word, NEW u \in ParsedUrls(text, scan), Url \subseteq u.field_set
      PROVE  Laid(text, u.field_set, u.off, u.len, 1, m)
  <2>1. ScanInv(text, Len(text), scan) /\ Len(text) \in Nat
    BY <1>1, <1>2, <1>4 DEF Scanned, ScanKnown, ScanText
  <2>2. UrlJoined(text, scan, u)
    BY <1>4, <2>1, ParsedIsJoined
  <2> QED BY <1>2, <2>2, JoinedIsLaid
<1>5. ASSUME Len(text) < Word,
             NEW u \in {v \in ParsedUrls(text, scan) : Url \subseteq v.field_set}
      PROVE  /\ \A f \in u.field_set : u.len[f] > 0 /\ Extent(u, f) \subseteq DOMAIN text
             /\ \A i, j \in DOMAIN FieldOrder : i < j =>
                  \A p \in Extent(u, FieldOrder[i]), q \in Extent(u, FieldOrder[j]) : p < q
             /\ \A p \in DOMAIN text :
                  (\A f \in Fields : p \notin Extent(u, f)) => text[p] \in Delimiters
  <2>1. Laid(text, u.field_set, u.off, u.len, 1, m)
    BY <1>4, <1>5
  <2> QED BY ONLY <1>2, <2>1, LaidTiles, m \in Nat
<1> QED BY <1>3, <1>5 DEF FieldsTile

\* http_parser_parse_url and http_parse_host (http_parser.c:2216-2386): the fields of a URL
\* that is accepted, and shorter than the numbers of a uint16_t, lie in it one behind the
\* other, none empty, and what none of them has is a delimiter.
THEOREM Tiling == RequestsSpec => []FieldsTile
BY AlwaysScanned, ScannedTiles, PTL

-----------------------------------------------------------------------------
(* RequestIsRead *)

\* The arcs from s with ch are there, and all lead to r.
LeadTo(arcs, s, ch, r) ==
  /\ \E arc \in arcs : s \in arc[1] /\ ch \in arc[2]
  /\ \A arc \in arcs : s \in arc[1] /\ ch \in arc[2] => arc[3] = r

LEMMA FollowTo ==
  ASSUME NEW arcs, NEW s, NEW ch, NEW dead, NEW r, LeadTo(arcs, s, ch, r)
  PROVE  Follow(arcs, s, ch, dead) = r
BY DEF Follow, LeadTo

LEMMA UrlGoesTo ==
  ASSUME NEW s \in UrlStates, NEW ch \in UrlAlphabet, NEW r,
         \E arc \in UrlArcs : s \in arc[1] /\ ch \in arc[2],
         \A arc \in UrlArcs : s \in arc[1] /\ ch \in arc[2] => arc[3] = r
  PROVE  parse_url_char(s, ch) = r
<1>1. Follow(UrlArcs, s, ch, "s_dead") = r
  <2>1. LeadTo(UrlArcs, s, ch, r)
    BY DEF LeadTo
  <2> QED BY ONLY <2>1, FollowTo
<1> QED BY <1>1 DEF parse_url_char, UrlTable

\* The arcs of a request's URL.
LEMMA UriSteps ==
  /\ \A ch \in {"/", "*"} : parse_url_char("s_req_spaces_before_url", ch) = "s_req_path"
  /\ \A ch \in IS_URL_CHAR : parse_url_char("s_req_path", ch) = "s_req_path"
  /\ parse_url_char("s_req_path", "?") = "s_req_query_string_start"
  /\ \A s \in {"s_req_query_string_start", "s_req_query_string"} :
       \A ch \in IS_URL_CHAR \cup {"?"} : parse_url_char(s, ch) = "s_req_query_string"
  /\ \A s \in {"s_req_path", "s_req_query_string"} :
       parse_url_char(s, "#") = "s_req_fragment_start"
  /\ \A ch \in IS_URL_CHAR \cup {"?"} :
       parse_url_char("s_req_fragment_start", ch) = "s_req_fragment"
  /\ \A ch \in IS_URL_CHAR \cup {"?", "#"} :
       parse_url_char("s_req_fragment", ch) = "s_req_fragment"
<1> USE UrlGoesTo, UrlStatesAre
    DEF UrlArcs, FieldStates, IS_ALPHA, IS_USERINFO_CHAR, IS_HOST_CHAR, IS_NUM, IS_URL_CHAR,
        UrlAlphabet
<1>1. \A ch \in {"/", "*"} : parse_url_char("s_req_spaces_before_url", ch) = "s_req_path"
  OBVIOUS
<1>2. \A ch \in IS_URL_CHAR : parse_url_char("s_req_path", ch) = "s_req_path"
  OBVIOUS
<1>3. parse_url_char("s_req_path", "?") = "s_req_query_string_start"
  OBVIOUS
<1>4. \A s \in {"s_req_query_string_start", "s_req_query_string"} :
        \A ch \in IS_URL_CHAR \cup {"?"} : parse_url_char(s, ch) = "s_req_query_string"
  OBVIOUS
<1>5. \A s \in {"s_req_path", "s_req_query_string"} :
        parse_url_char(s, "#") = "s_req_fragment_start"
  OBVIOUS
<1>6. \A ch \in IS_URL_CHAR \cup {"?"} :
        parse_url_char("s_req_fragment_start", ch) = "s_req_fragment"
  OBVIOUS
<1>7. \A ch \in IS_URL_CHAR \cup {"?", "#"} :
        parse_url_char("s_req_fragment", ch) = "s_req_fragment"
  OBVIOUS
<1> QED BY ONLY <1>1, <1>2, <1>3, <1>4, <1>5, <1>6, <1>7

LEMMA ScanStep ==
  ASSUME NEW x, NEW n \in Nat, NEW g, IsScan(x, n, g), NEW d \in Nat, d + 1 <= n
  PROVE  g[d + 1] = UrlStep(g[d], d + 1, x[d + 1])
<1>1. d + 1 \in 0 .. n /\ d + 1 # 0 /\ d + 1 - 1 = d
  OBVIOUS
<1> QED BY <1>1 DEF IsScan

\* z is what m symbols behind the d-th, in state s, make of u.
ReadOn(u, d, m, s, z) ==
  /\ z \in Scans /\ z.s = s /\ z.old_uf = FieldOf[s]
  /\ z.field_set = u.field_set \cup {FieldOf[s]}
  /\ z.off = [u.off EXCEPT ![FieldOf[s]] = d + 1]
  /\ z.len = [u.len EXCEPT ![FieldOf[s]] = m]

LEMMA FieldIsRead ==
  ASSUME NEW x, NEW n \in Nat, NEW g, IsScan(x, n, g), NEW d \in Nat, NEW l \in Nat, d + l <= n,
         n < Word, l >= 1, NEW s \in FieldStates, g[d] \in Scans, g[d].old_uf # FieldOf[s],
         parse_url_char(g[d].s, x[d + 1]) = s,
         \A i \in 2 .. l : parse_url_char(s, x[d + i]) = s
  PROVE  ReadOn(g[d], d, l, s, g[d + l])
<1> DEFINE Good == {m \in Nat : m + 1 <= l => ReadOn(g[d], d, m + 1, s, g[d + (m + 1)])}
<1>1. PICK f \in Fields : f = FieldOf[s]
  BY DEF FieldStates, FieldOf, Fields
<1>2. s \in States
  BY UrlStatesAre DEF States
<1>3. PICK u \in Scans : u = g[d]
  OBVIOUS
<1>4. 0 \in Good
  <2>1. g[d + 1] = UrlStep(u, d + 1, x[d + 1])
    BY <1>3, ScanStep
  <2>2. Stepped(u, d + 1, s, g[d + 1])
    <3>1. Stepped(u, d + 1, parse_url_char(u.s, x[d + 1]), UrlStep(u, d + 1, x[d + 1]))
      BY <1>2, <1>3, UrlStepIs
    <3> QED BY <1>3, <2>1, <3>1
  <2>6. Off(d + 1) = d + 1
    <3>1. d + 1 \in Nat \ {0} /\ d + 1 <= Word
      BY WordAssumption
    <3> QED BY <3>1, PlacesAre
  <2>3. ReadOn(u, d, 1, s, g[d + 1])
    BY <1>3, <2>2, <2>6 DEF Stepped, ReadOn
  <2>4. 0 + 1 = 1
    OBVIOUS
  <2>5. ReadOn(g[d], d, 0 + 1, s, g[d + (0 + 1)])
    BY ONLY <1>3, <2>3, <2>4
  <2> QED BY <2>5
<1>5. ASSUME NEW m \in Nat, m \in Good PROVE m + 1 \in Good
  <2>1. SUFFICES ASSUME m + 1 + 1 <= l
                 PROVE  ReadOn(g[d], d, m + 1 + 1, s, g[d + (m + 1 + 1)])
    OBVIOUS
  <2>2. PICK k \in Nat, j \in Nat : k = d + (m + 1) /\ j = m + 1
    OBVIOUS
  <2>3. d + (m + 1 + 1) = k + 1 /\ k + 1 <= n /\ m + 1 + 1 = j + 1 /\ m + 1 <= l
        /\ j + 1 \in 2 .. l /\ d + (j + 1) = k + 1
    BY <2>1, <2>2
  <2>4. ReadOn(u, d, j, s, g[k])
    BY <1>3, <1>5, <2>2, <2>3
  <2>5. PICK v \in Scans : v = g[k]
    BY <2>4 DEF ReadOn
  <2>6. /\ v.s = s /\ v.old_uf = f /\ v.field_set = u.field_set \cup {f}
        /\ v.off = [u.off EXCEPT ![f] = d + 1] /\ v.len = [u.len EXCEPT ![f] = j]
    BY <1>1, <2>4, <2>5 DEF ReadOn
  <2>7. parse_url_char(v.s, x[k + 1]) = s
    BY <2>3, <2>6
  <2>8. g[k + 1] = UrlStep(v, k + 1, x[k + 1])
    BY <2>3, <2>5, ScanStep
  <2>9. Stepped(v, k + 1, s, g[k + 1])
    <3>1. Stepped(v, k + 1, parse_url_char(v.s, x[k + 1]), UrlStep(v, k + 1, x[k + 1]))
      BY <1>2, <2>7, UrlStepIs
    <3> QED BY <2>7, <2>8, <3>1
  <2>10. PICK z : z = g[k + 1]
    OBVIOUS
  <2>11. /\ z \in Scans /\ z.s = s /\ z.field_set = v.field_set /\ z.off = v.off /\ z.old_uf = f
         /\ z.len = [v.len EXCEPT ![f] = OneMore(v.len[f])]
    BY <1>1, <2>6, <2>9, <2>10 DEF Stepped
  <2>12. u.len \in [Fields -> Nat]
    BY DEF Scans, Lengths
  <2>15. OneMore(j) = j + 1
    <3>1. j + 1 < Word
      BY <2>2, <2>3, WordAssumption
    <3> QED BY <3>1, LengthsAre
  <2>13. z.len = [u.len EXCEPT ![f] = j + 1]
    BY ONLY <2>6, <2>11, <2>12, <2>15, f \in Fields, j \in Nat
  <2>14. ReadOn(u, d, j + 1, s, z)
    BY ONLY <1>1, <2>6, <2>11, <2>13 DEF ReadOn
  <2> QED BY <1>3, <2>3, <2>10, <2>14
<1>6. l - 1 \in Good
  <2>1. \A m \in Nat : m \in Good
    <3> HIDE DEF Good
    <3> QED BY <1>4, <1>5, NatSetInduction
  <2>2. l - 1 \in Nat
    OBVIOUS
  <2> QED BY <2>1, <2>2
<1>7. l - 1 + 1 = l
  OBVIOUS
<1> QED BY <1>6, <1>7

LEMMA DelimIsRead ==
  ASSUME NEW x, NEW n \in Nat, NEW g, IsScan(x, n, g), NEW d \in Nat, d + 1 <= n,
         g[d] \in Scans, NEW s \in States \ FieldStates, parse_url_char(g[d].s, x[d + 1]) = s
  PROVE  /\ g[d + 1] \in Scans /\ g[d + 1].s = s /\ g[d + 1].old_uf = g[d].old_uf
         /\ g[d + 1].field_set = g[d].field_set /\ g[d + 1].off = g[d].off
         /\ g[d + 1].len = g[d].len
<1>2. d + 1 \in Nat \ {0}
  OBVIOUS
<1>1. Stepped(g[d], d + 1, s, UrlStep(g[d], d + 1, x[d + 1]))
  BY <1>2, UrlStepIs
<1> QED BY <1>1, ScanStep DEF Stepped

UriText(path, args, fragment) ==
  path \o (IF args = <<>> THEN <<>> ELSE <<"?">> \o args)
       \o (IF fragment = <<>> THEN <<>> ELSE <<"#">> \o fragment)

Letters == IS_URL_CHAR \cup {"?", "#"}

\* The parts of w behind a mark.
LEMMA MarkedIs ==
  ASSUME NEW w \in Seq(Letters), NEW mark \in Letters, NEW y,
         y = IF w = <<>> THEN <<>> ELSE <<mark>> \o w
  PROVE  /\ y \in Seq(Letters)
         /\ w = <<>> => Len(y) = 0
         /\ w # <<>> => /\ Len(y) = Len(w) + 1 /\ y[1] = mark
                        /\ \A i \in 1 .. Len(w) : y[i + 1] = w[i]
<1>1. CASE w = <<>>
  BY <1>1
<1>2. CASE w # <<>>
  <2>1. PICK v : v = <<mark>>
    OBVIOUS
  <2>2. v \in Seq(Letters) /\ Len(v) = 1 /\ v[1] = mark
    BY <2>1
  <2>3. y = v \o w
    BY <1>2, <2>1
  <2> QED BY <1>2, <2>2, <2>3
<1> QED BY <1>1, <1>2

\* P, A and F are words of which a URL may consist.
UriWords(P, A, F) ==
  /\ P \in Seq(IS_URL_CHAR) /\ P # <<>> /\ P[1] \in {"/", "*"}
  /\ A \in Seq(IS_URL_CHAR \cup {"?"})
  /\ F \in Seq(Letters) /\ (F # <<>> => F[1] # "#")

\* Where the words are in x, of which the arguments end at e.
Layout(x, P, A, F, e) ==
  /\ x \in Seq(Letters) /\ e \in Nat /\ e <= Len(x)
  /\ \A i \in 1 .. Len(P) : x[i] = P[i]
  /\ A = <<>> => e = Len(P)
  /\ A # <<>> => /\ e = Len(P) + 1 + Len(A) /\ x[Len(P) + 1] = "?"
                 /\ \A i \in 1 .. Len(A) : x[Len(P) + 1 + i] = A[i]
  /\ F = <<>> => Len(x) = e
  /\ F # <<>> => /\ Len(x) = e + 1 + Len(F) /\ x[e + 1] = "#"
                 /\ \A i \in 1 .. Len(F) : x[e + 1 + i] = F[i]

LEMMA SeqsOfMore ==
  ASSUME NEW S, NEW T, S \subseteq T, NEW w \in Seq(S)
  PROVE  w \in Seq(T)
OBVIOUS

LEMMA ConcatIs ==
  ASSUME NEW S, NEW v \in Seq(S), NEW w \in Seq(S), NEW z, z = v \o w
  PROVE  /\ z \in Seq(S) /\ Len(z) = Len(v) + Len(w)
         /\ \A i \in 1 .. Len(v) : z[i] = v[i]
         /\ \A i \in 1 .. Len(w) : z[Len(v) + i] = w[i]
<1>1. z \in Seq(S) /\ Len(z) = Len(v) + Len(w)
  OBVIOUS
<1>2. \A i \in 1 .. Len(v) : z[i] = v[i]
  OBVIOUS
<1>3. \A i \in 1 .. Len(w) : z[Len(v) + i] = w[i]
  OBVIOUS
<1> QED BY <1>1, <1>2, <1>3

LEMMA UriLayout ==
  ASSUME NEW P, NEW A, NEW F, UriWords(P, A, F)
  PROVE  \E e : Layout(UriText(P, A, F), P, A, F, e)
<1>1. PICK q : q = IF A = <<>> THEN <<>> ELSE <<"?">> \o A
  OBVIOUS
<1>2. PICK r : r = IF F = <<>> THEN <<>> ELSE <<"#">> \o F
  OBVIOUS
<1>3. P \in Seq(Letters) /\ A \in Seq(Letters) /\ F \in Seq(Letters)
  <2>1. IS_URL_CHAR \subseteq Letters /\ IS_URL_CHAR \cup {"?"} \subseteq Letters
    BY DEF Letters
  <2> QED BY <2>1, SeqsOfMore DEF UriWords
<1>4. "?" \in Letters /\ "#" \in Letters
  BY DEF Letters
<1>5. /\ q \in Seq(Letters)
      /\ A = <<>> => Len(q) = 0
      /\ A # <<>> => /\ Len(q) = Len(A) + 1 /\ q[1] = "?"
                     /\ \A i \in 1 .. Len(A) : q[i + 1] = A[i]
  BY <1>1, <1>3, <1>4, MarkedIs
<1>6. /\ r \in Seq(Letters)
      /\ F = <<>> => Len(r) = 0
      /\ F # <<>> => /\ Len(r) = Len(F) + 1 /\ r[1] = "#"
                     /\ \A i \in 1 .. Len(F) : r[i + 1] = F[i]
  BY <1>2, <1>3, <1>4, MarkedIs
<1>7. PICK y : y = P \o q
  OBVIOUS
<1>8. PICK x : x = y \o r
  OBVIOUS
<1>9. UriText(P, A, F) = x
  BY <1>1, <1>2, <1>7, <1>8 DEF UriText
<1>10. PICK p \in Nat, a \in Nat, f \in Nat, e \in Nat :
         p = Len(P) /\ a = Len(A) /\ f = Len(F) /\ e = p + Len(q)
  BY <1>3, <1>5
<1>11. /\ y \in Seq(Letters) /\ Len(y) = e
       /\ \A i \in 1 .. p : y[i] = P[i]
       /\ \A i \in 1 .. Len(q) : y[p + i] = q[i]
  <2>1. /\ y \in Seq(Letters) /\ Len(y) = Len(P) + Len(q)
        /\ \A i \in 1 .. Len(P) : y[i] = P[i]
        /\ \A i \in 1 .. Len(q) : y[Len(P) + i] = q[i]
    BY ONLY <1>3, <1>5, <1>7, ConcatIs
  <2> QED BY ONLY <1>10, <2>1
<1>12. /\ x \in Seq(Letters) /\ Len(x) = e + Len(r)
       /\ \A i \in 1 .. e : x[i] = y[i]
       /\ \A i \in 1 .. Len(r) : x[e + i] = r[i]
  <2>1. /\ x \in Seq(Letters) /\ Len(x) = Len(y) + Len(r)
        /\ \A i \in 1 .. Len(y) : x[i] = y[i]
        /\ \A i \in 1 .. Len(r) : x[Len(y) + i] = r[i]
    <3>1. r \in Seq(Letters) /\ y \in Seq(Letters)
      BY ONLY <1>6, <1>11
    <3> QED BY ONLY <1>8, <3>1, ConcatIs
  <2> QED BY ONLY <1>11, <2>1
<1>13. \A i \in 1 .. p : x[i] = P[i]
  <2>1. \A i \in 1 .. p : i \in 1 .. e
    BY <1>5, <1>10
  <2> QED BY <1>11, <1>12, <2>1
<1>14. A = <<>> => e = p
  BY <1>5, <1>10
<1>15. ASSUME A # <<>>
       PROVE  /\ e = p + 1 + a /\ x[p + 1] = "?"
              /\ \A i \in 1 .. a : x[p + 1 + i] = A[i]
  <2>1. Len(q) = a + 1 /\ q[1] = "?" /\ (\A i \in 1 .. a : q[i + 1] = A[i]) /\ e = p + 1 + a
    <3>1. Len(q) = Len(A) + 1 /\ q[1] = "?" /\ \A i \in 1 .. Len(A) : q[i + 1] = A[i]
      BY ONLY <1>5, <1>15
    <3> QED BY ONLY <1>10, <3>1
  <2>2. \A i \in 1 .. a + 1 : x[p + i] = q[i]
    <3>1. \A i \in 1 .. a + 1 : p + i \in 1 .. e
      BY <2>1
    <3> QED BY <1>11, <1>12, <2>1, <3>1
  <2>3. \A i \in 1 .. a : i + 1 \in 1 .. a + 1 /\ p + (i + 1) = p + 1 + i
    OBVIOUS
  <2>4. 1 \in 1 .. a + 1
    OBVIOUS
  <2> QED BY <2>1, <2>2, <2>3, <2>4
<1>16. F = <<>> => Len(x) = e
  BY <1>6, <1>12
<1>17. ASSUME F # <<>>
       PROVE  /\ Len(x) = e + 1 + f /\ x[e + 1] = "#"
              /\ \A i \in 1 .. f : x[e + 1 + i] = F[i]
  <2>1. Len(r) = f + 1 /\ r[1] = "#" /\ \A i \in 1 .. f : r[i + 1] = F[i]
    <3>1. Len(r) = Len(F) + 1 /\ r[1] = "#" /\ \A i \in 1 .. Len(F) : r[i + 1] = F[i]
      BY ONLY <1>6, <1>17
    <3> QED BY ONLY <1>10, <3>1
  <2>2. \A i \in 1 .. f : i + 1 \in 1 .. f + 1 /\ e + (i + 1) = e + 1 + i
    OBVIOUS
  <2>3. 1 \in 1 .. f + 1
    OBVIOUS
  <2> QED BY <1>12, <2>1, <2>2, <2>3
<1>18. e <= Len(x)
  BY <1>6, <1>12
<1>19. Layout(x, P, A, F, e)
  BY ONLY <1>10, <1>12, <1>13, <1>14, <1>15, <1>16, <1>17, <1>18 DEF Layout
<1> QED BY <1>9, <1>19

\* What the loop knows behind the path, and behind the arguments.
PathRead(u, P) ==
  /\ u \in Scans /\ u.s = "s_req_path" /\ u.old_uf = "UF_PATH" /\ u.field_set = {"UF_PATH"}
  /\ u.off["UF_PATH"] = 1 /\ u.len["UF_PATH"] = Len(P)

ArgsRead(u, P, A) ==
  /\ u \in Scans /\ u.s \in {"s_req_path", "s_req_query_string"}
  /\ u.old_uf \in {"UF_PATH", "UF_QUERY"}
  /\ u.off["UF_PATH"] = 1 /\ u.len["UF_PATH"] = Len(P)
  /\ A = <<>> => u.field_set = {"UF_PATH"}
  /\ A # <<>> => /\ u.field_set = {"UF_PATH", "UF_QUERY"}
                 /\ u.off["UF_QUERY"] = Len(P) + 2 /\ u.len["UF_QUERY"] = Len(A)

UriRead(u, P, A, F, e) ==
  /\ u \in Scans /\ u.s \in UriEnds
  /\ u.off["UF_PATH"] = 1 /\ u.len["UF_PATH"] = Len(P)
  /\ u.field_set = {"UF_PATH"} \cup (IF A = <<>> THEN {} ELSE {"UF_QUERY"})
                      \cup (IF F = <<>> THEN {} ELSE {"UF_FRAGMENT"})
  /\ A # <<>> => u.off["UF_QUERY"] = Len(P) + 2 /\ u.len["UF_QUERY"] = Len(A)
  /\ F # <<>> => u.off["UF_FRAGMENT"] = e + 2 /\ u.len["UF_FRAGMENT"] = Len(F)

\* A field of its own leaves the others.
LEMMA ReadOnLeaves ==
  ASSUME NEW u \in Scans, NEW d \in Nat, NEW m \in Nat, NEW s \in FieldStates, NEW z,
         ReadOn(u, d, m, s, z)
  PROVE  /\ z.off[FieldOf[s]] = d + 1 /\ z.len[FieldOf[s]] = m
         /\ \A f \in Fields : f # FieldOf[s] => z.off[f] = u.off[f] /\ z.len[f] = u.len[f]
<1>1. u.off \in [Fields -> Nat] /\ u.len \in [Fields -> Nat]
  BY DEF Scans, Lengths
<1>2. PICK f \in Fields : f = FieldOf[s]
  BY DEF FieldStates, FieldOf, Fields
<1>3. z.off = [u.off EXCEPT ![f] = d + 1] /\ z.len = [u.len EXCEPT ![f] = m]
  BY <1>2 DEF ReadOn
<1> QED BY <1>1, <1>2, <1>3

LEMMA PathIsRead ==
  ASSUME NEW x, NEW P, NEW A, NEW F, NEW e, UriWords(P, A, F), Layout(x, P, A, F, e),
         Len(x) < Word, NEW g, IsScan(x, Len(x), g)
  PROVE  PathRead(g[Len(P)], P)
<1>1. PICK p \in Nat : p = Len(P) /\ p >= 1
  BY DEF UriWords
<1>2. PICK n \in Nat : n = Len(x) /\ p <= n
  BY <1>1 DEF Layout, UriWords
<1>3. UrlStart \in Scans /\ UrlStart.s = "s_req_spaces_before_url" /\ UrlStart.old_uf = "UF_MAX"
      /\ UrlStart.field_set = {}
  BY ScanBegins DEF ScanInv, UrlStart
<1>4. g[0] = UrlStart
  BY <1>2 DEF IsScan
<1>5. x[1] = P[1] /\ \A i \in 2 .. p : x[i] = P[i] /\ P[i] \in IS_URL_CHAR
  BY <1>1 DEF Layout, UriWords
<1>6. parse_url_char("s_req_spaces_before_url", x[1]) = "s_req_path"
  BY <1>5, UriSteps DEF UriWords
<1>7. \A i \in 2 .. p : parse_url_char("s_req_path", x[i]) = "s_req_path"
  BY <1>5, UriSteps
<1>8. "s_req_path" \in FieldStates /\ FieldOf["s_req_path"] = "UF_PATH" /\ "UF_PATH" \in Fields
  BY DEF FieldStates, FieldOf, Fields
<1>9. ReadOn(UrlStart, 0, p, "s_req_path", g[p])
  <2>1. 0 + p = p /\ 0 + 1 = 1 /\ \A i \in 2 .. p : 0 + i = i
    OBVIOUS
  <2>2. ReadOn(g[0], 0, p, "s_req_path", g[0 + p])
    <3>1. UrlStart.old_uf # FieldOf["s_req_path"]
      BY <1>3, <1>8
    <3>2. parse_url_char(g[0].s, x[0 + 1]) = "s_req_path"
      BY <1>3, <1>4, <1>6, <2>1
    <3>3. \A i \in 2 .. p : parse_url_char("s_req_path", x[0 + i]) = "s_req_path"
      BY <1>7, <2>1
    <3>4. IsScan(x, n, g) /\ p >= 1 /\ 0 + p <= n /\ 0 \in Nat /\ n < Word
      BY <1>1, <1>2
    <3>5. "s_req_path" \in FieldStates /\ g[0] \in Scans /\ g[0].old_uf # FieldOf["s_req_path"]
      BY <1>3, <1>4, <1>8, <3>1
    <3> QED BY ONLY <3>2, <3>3, <3>4, <3>5, n \in Nat, p \in Nat, FieldIsRead
  <2> QED BY <1>4, <2>1, <2>2
<1>10. PICK z : z = g[p]
  OBVIOUS
<1>11. z.off["UF_PATH"] = 1 /\ z.len["UF_PATH"] = p
  <2>1. z.off["UF_PATH"] = 0 + 1 /\ z.len["UF_PATH"] = p
    BY <1>3, <1>8, <1>9, <1>10, ReadOnLeaves
  <2> QED BY <2>1
<1> QED BY <1>1, <1>3, <1>8, <1>9, <1>10, <1>11 DEF PathRead, ReadOn

LEMMA ArgsAreRead ==
  ASSUME NEW x, NEW P, NEW A, NEW F, NEW e, UriWords(P, A, F), Layout(x, P, A, F, e),
         Len(x) < Word, NEW g, IsScan(x, Len(x), g), PathRead(g[Len(P)], P)
  PROVE  ArgsRead(g[e], P, A)
<1>1. PICK p \in Nat, a \in Nat, n \in Nat : p = Len(P) /\ a = Len(A) /\ n = Len(x)
  BY DEF UriWords, Layout
<1>2. PICK u \in Scans : u = g[p]
  BY <1>1 DEF PathRead
<1>3. /\ u.s = "s_req_path" /\ u.old_uf = "UF_PATH" /\ u.field_set = {"UF_PATH"}
      /\ u.off["UF_PATH"] = 1 /\ u.len["UF_PATH"] = p
  BY <1>1, <1>2 DEF PathRead
<1>4. CASE A = <<>>
  <2>1. g[e] = u
    BY <1>1, <1>2, <1>4 DEF Layout
  <2> QED BY <1>1, <1>3, <1>4, <2>1 DEF ArgsRead
<1>5. CASE A # <<>>
  <2>1. /\ e = p + 1 + a /\ e <= n /\ x[p + 1] = "?"
        /\ \A i \in 1 .. a : x[p + 1 + i] = A[i]
    BY <1>1, <1>5 DEF Layout
  <2>2. a >= 1 /\ \A i \in 1 .. a : A[i] \in IS_URL_CHAR \cup {"?"}
    BY <1>1, <1>5 DEF UriWords
  <2>3. "s_req_query_string_start" \in States \ FieldStates
    BY UrlStatesAre DEF States, FieldStates
  <2>4. PICK v : v = g[p + 1]
    OBVIOUS
  <2>5. /\ v \in Scans /\ v.s = "s_req_query_string_start" /\ v.old_uf = "UF_PATH"
        /\ v.field_set = {"UF_PATH"} /\ v.off = u.off /\ v.len = u.len
    <3>1. parse_url_char(g[p].s, x[p + 1]) = "s_req_query_string_start"
      BY <1>2, <1>3, <2>1, UriSteps
    <3>2. p + 1 <= n
      BY <2>1
    <3>3. /\ g[p + 1] \in Scans /\ g[p + 1].s = "s_req_query_string_start"
          /\ g[p + 1].old_uf = g[p].old_uf /\ g[p + 1].field_set = g[p].field_set
          /\ g[p + 1].off = g[p].off /\ g[p + 1].len = g[p].len
      BY <1>1, <1>2, <2>3, <3>1, <3>2, DelimIsRead
    <3> QED BY <1>2, <1>3, <2>4, <3>3
  <2>6. /\ "s_req_query_string" \in FieldStates /\ FieldOf["s_req_query_string"] = "UF_QUERY"
        /\ "UF_QUERY" \in Fields /\ "UF_PATH" \in Fields
    BY DEF FieldStates, FieldOf, Fields
  <2>7. PICK d \in Nat : d = p + 1
    OBVIOUS
  <2>8. ReadOn(v, d, a, "s_req_query_string", g[e])
    <3>1. x[d + 1] = A[1] /\ \A i \in 2 .. a : x[d + i] = A[i]
      BY <2>1, <2>2, <2>7
    <3>2. parse_url_char(g[d].s, x[d + 1]) = "s_req_query_string"
      <4>1. A[1] \in IS_URL_CHAR \cup {"?"}
        BY <2>2
      <4> QED BY <2>4, <2>5, <2>7, <3>1, <4>1, UriSteps
    <3>3. \A i \in 2 .. a : parse_url_char("s_req_query_string", x[d + i]) = "s_req_query_string"
      <4>1. \A i \in 2 .. a : A[i] \in IS_URL_CHAR \cup {"?"}
        BY <2>2
      <4> QED BY <3>1, <4>1, UriSteps
    <3>4. g[d] \in Scans /\ g[d].old_uf # FieldOf["s_req_query_string"]
      BY <2>4, <2>5, <2>6, <2>7
    <3>5. d + a = e /\ d + a <= n
      BY <2>1, <2>7
    <3>6. ReadOn(g[d], d, a, "s_req_query_string", g[d + a])
      BY <1>1, <2>2, <2>6, <3>2, <3>3, <3>4, <3>5, FieldIsRead
    <3> QED BY <2>4, <2>7, <3>5, <3>6
  <2>9. PICK z : z = g[e]
    OBVIOUS
  <2>10. /\ z.off["UF_QUERY"] = d + 1 /\ z.len["UF_QUERY"] = a
         /\ \A f \in Fields : f # "UF_QUERY" => z.off[f] = v.off[f] /\ z.len[f] = v.len[f]
    BY <2>5, <2>6, <2>8, <2>9, ReadOnLeaves
  <2>11. z.off["UF_PATH"] = 1 /\ z.len["UF_PATH"] = p
    BY <1>3, <2>5, <2>6, <2>10
  <2>12. /\ z \in Scans /\ z.s = "s_req_query_string" /\ z.old_uf = "UF_QUERY"
         /\ z.field_set = {"UF_PATH", "UF_QUERY"}
    BY <2>5, <2>6, <2>8, <2>9 DEF ReadOn
  <2>13. d + 1 = p + 2
    BY <2>7
  <2> QED BY ONLY <1>1, <1>5, <2>9, <2>10, <2>11, <2>12, <2>13 DEF ArgsRead
<1> QED BY <1>4, <1>5

LEMMA FragmentIsRead ==
  ASSUME NEW x, NEW P, NEW A, NEW F, NEW e, UriWords(P, A, F), Layout(x, P, A, F, e),
         Len(x) < Word, NEW g, IsScan(x, Len(x), g), ArgsRead(g[e], P, A)
  PROVE  UriRead(g[Len(x)], P, A, F, e)
<1>1. PICK l \in Nat, n \in Nat, b \in Nat : l = Len(F) /\ n = Len(x) /\ b = e
  BY DEF UriWords, Layout
<1>2. PICK u \in Scans : u = g[b]
  BY <1>1 DEF ArgsRead
<1>3. /\ u.s \in {"s_req_path", "s_req_query_string"} /\ u.old_uf \in {"UF_PATH", "UF_QUERY"}
      /\ u.off["UF_PATH"] = 1 /\ u.len["UF_PATH"] = Len(P)
      /\ u.field_set = {"UF_PATH"} \cup (IF A = <<>> THEN {} ELSE {"UF_QUERY"})
      /\ A # <<>> => u.off["UF_QUERY"] = Len(P) + 2 /\ u.len["UF_QUERY"] = Len(A)
  BY <1>1, <1>2 DEF ArgsRead
<1>4. CASE F = <<>>
  <2>1. g[n] = u
    BY <1>1, <1>2, <1>4 DEF Layout
  <2> QED BY <1>1, <1>3, <1>4, <2>1 DEF UriRead, UriEnds
<1>5. CASE F # <<>>
  <2>1. /\ n = b + 1 + l /\ x[b + 1] = "#"
        /\ \A i \in 1 .. l : x[b + 1 + i] = F[i]
    BY <1>1, <1>5 DEF Layout
  <2>2. /\ l >= 1 /\ F[1] \in IS_URL_CHAR \cup {"?"}
        /\ \A i \in 1 .. l : F[i] \in IS_URL_CHAR \cup {"?", "#"}
    BY <1>1, <1>5 DEF UriWords, Letters
  <2>3. "s_req_fragment_start" \in States \ FieldStates
    BY UrlStatesAre DEF States, FieldStates
  <2>4. PICK v : v = g[b + 1]
    OBVIOUS
  <2>5. /\ v \in Scans /\ v.s = "s_req_fragment_start" /\ v.old_uf = u.old_uf
        /\ v.field_set = u.field_set /\ v.off = u.off /\ v.len = u.len
    <3>1. parse_url_char(g[b].s, x[b + 1]) = "s_req_fragment_start"
      BY <1>2, <1>3, <2>1, UriSteps
    <3>2. b + 1 <= n
      BY <2>1
    <3>3. /\ g[b + 1] \in Scans /\ g[b + 1].s = "s_req_fragment_start"
          /\ g[b + 1].old_uf = g[b].old_uf /\ g[b + 1].field_set = g[b].field_set
          /\ g[b + 1].off = g[b].off /\ g[b + 1].len = g[b].len
      BY <1>1, <1>2, <2>3, <3>1, <3>2, DelimIsRead
    <3> QED BY <1>2, <2>4, <3>3
  <2>6. /\ "s_req_fragment" \in FieldStates /\ FieldOf["s_req_fragment"] = "UF_FRAGMENT"
        /\ {"UF_FRAGMENT", "UF_QUERY", "UF_PATH"} \subseteq Fields
    BY DEF FieldStates, FieldOf, Fields
  <2>7. PICK d \in Nat : d = b + 1
    OBVIOUS
  <2>8. ReadOn(v, d, l, "s_req_fragment", g[n])
    <3>1. x[d + 1] = F[1] /\ \A i \in 2 .. l : x[d + i] = F[i]
      BY <2>1, <2>2, <2>7
    <3>2. parse_url_char(g[d].s, x[d + 1]) = "s_req_fragment"
      BY <2>2, <2>4, <2>5, <2>7, <3>1, UriSteps
    <3>3. \A i \in 2 .. l : parse_url_char("s_req_fragment", x[d + i]) = "s_req_fragment"
      <4>1. \A i \in 2 .. l : F[i] \in IS_URL_CHAR \cup {"?", "#"}
        BY <2>2
      <4> QED BY <3>1, <4>1, UriSteps
    <3>4. g[d] \in Scans /\ g[d].old_uf # FieldOf["s_req_fragment"]
      BY <1>3, <2>4, <2>5, <2>6, <2>7
    <3>5. d + l = n /\ d + l <= n
      BY <2>1, <2>7
    <3>6. ReadOn(g[d], d, l, "s_req_fragment", g[d + l])
      <4>1. IsScan(x, n, g) /\ n < Word
        BY <1>1
      <4>2. l >= 1 /\ "s_req_fragment" \in FieldStates
        BY <2>2, <2>6
      <4> QED BY ONLY <3>2, <3>3, <3>4, <3>5, <4>1, <4>2, n \in Nat, d \in Nat, l \in Nat,
                      FieldIsRead
    <3> QED BY <2>4, <2>7, <3>5, <3>6
  <2>9. PICK z : z = g[n]
    OBVIOUS
  <2>10. /\ z.off["UF_FRAGMENT"] = d + 1 /\ z.len["UF_FRAGMENT"] = l
         /\ \A f \in Fields : f # "UF_FRAGMENT" => z.off[f] = v.off[f] /\ z.len[f] = v.len[f]
    BY <2>5, <2>6, <2>8, <2>9, ReadOnLeaves
  <2>11. /\ z.off["UF_PATH"] = u.off["UF_PATH"] /\ z.len["UF_PATH"] = u.len["UF_PATH"]
         /\ z.off["UF_QUERY"] = u.off["UF_QUERY"] /\ z.len["UF_QUERY"] = u.len["UF_QUERY"]
    BY <2>5, <2>6, <2>10
  <2>12. /\ z \in Scans /\ z.s \in UriEnds
         /\ z.field_set = u.field_set \cup {"UF_FRAGMENT"}
    BY <2>5, <2>6, <2>8, <2>9 DEF ReadOn, UriEnds
  <2>13. d + 1 = b + 2
    BY <2>7
  <2>14. UriRead(z, P, A, F, b)
    BY ONLY <1>1, <1>3, <1>5, <2>10, <2>11, <2>12, <2>13 DEF UriRead
  <2> QED BY <1>1, <2>9, <2>14
<1> QED BY <1>4, <1>5

LEMMA UriPartIs ==
  ASSUME NEW S, NEW x \in Seq(S), NEW a \in Nat, NEW m \in Nat, a >= 1, a + m - 1 <= Len(x),
         NEW w \in Seq(S), Len(w) = m, \A i \in 1 .. m : x[a + i - 1] = w[i]
  PROVE  SubSeq(x, a, a + m - 1) = w
<1>1. PICK y : y = SubSeq(x, a, a + m - 1)
  OBVIOUS
<1>2. y \in Seq(S) /\ Len(y) = m /\ \A i \in 1 .. m : y[i] = x[a + i - 1]
  BY <1>1
<1>3. y = w
  <2>1. Len(y) = Len(w) /\ \A i \in 1 .. Len(y) : y[i] = w[i]
    BY <1>2
  <2> QED BY ONLY <1>2, <2>1, SeqEqual, w \in Seq(S)
<1> QED BY <1>1, <1>3

\* A path, arguments and a fragment are what the parser makes of them.
LEMMA UriIsRead ==
  ASSUME NEW P, NEW A, NEW F, UriWords(P, A, F), Len(UriText(P, A, F)) < Word
  PROVE  ReadsAs(UriText(P, A, F), P, A, F)
<1>1. PICK x : x = UriText(P, A, F)
  OBVIOUS
<1>2. PICK e : Layout(x, P, A, F, e)
  BY <1>1, UriLayout
<1>3. x \in Seq(Letters) /\ Len(x) \in Nat /\ e \in Nat /\ e <= Len(x)
  BY <1>2 DEF Layout
<1>15. Len(x) < Word
  BY <1>1
<1>4. PICK g : IsScan(x, Len(x), g) /\ ScanUrl(x) = g[Len(x)]
  BY <1>3, ScanUrlIs
<1>5. PathRead(g[Len(P)], P)
  BY <1>2, <1>4, <1>15, PathIsRead
<1>6. ArgsRead(g[e], P, A)
  BY <1>2, <1>4, <1>5, <1>15, ArgsAreRead
<1>7. PICK v : v = ScanUrl(x)
  OBVIOUS
<1>8. UriRead(v, P, A, F, e)
  BY <1>2, <1>4, <1>6, <1>7, <1>15, FragmentIsRead
<1>9. P \in Seq(Letters) /\ A \in Seq(Letters) /\ F \in Seq(Letters)
  <2>1. IS_URL_CHAR \subseteq Letters /\ IS_URL_CHAR \cup {"?"} \subseteq Letters
    BY DEF Letters
  <2> QED BY <2>1, SeqsOfMore DEF UriWords
<1>10. PICK p \in Nat, a \in Nat, l \in Nat : p = Len(P) /\ a = Len(A) /\ l = Len(F)
  BY <1>9
<1>11. Field(x, v, "UF_PATH") = P
  <2>1. Field(x, v, "UF_PATH") = SubSeq(x, 1, 1 + p - 1)
    BY <1>8, <1>10 DEF UriRead, Field
  <2>2. \A i \in 1 .. p : x[1 + i - 1] = P[i]
    <3>1. \A i \in 1 .. p : x[i] = P[i]
      BY <1>2, <1>10 DEF Layout
    <3>2. \A i \in 1 .. p : 1 + i - 1 = i
      OBVIOUS
    <3> QED BY <3>1, <3>2
  <2>3. 1 + p - 1 <= Len(x)
    <3>1. p <= e
      <4>1. A # <<>> => e = p + 1 + a
        BY <1>2, <1>10 DEF Layout
      <4>2. A = <<>> => e = p
        BY <1>2, <1>10 DEF Layout
      <4> QED BY <4>1, <4>2
    <3> QED BY <1>3, <3>1
  <2>4. SubSeq(x, 1, 1 + p - 1) = P
    BY ONLY <1>3, <1>9, <1>10, <2>2, <2>3, UriPartIs
  <2> QED BY <2>1, <2>4
<1>12. Field(x, v, "UF_QUERY") = A
  <2>1. CASE A = <<>>
    <3>1. "UF_QUERY" \notin v.field_set
      BY <1>8, <2>1 DEF UriRead
    <3> QED BY <2>1, <3>1 DEF Field
  <2>2. CASE A # <<>>
    <3>1. v.off["UF_QUERY"] = p + 2 /\ v.len["UF_QUERY"] = a /\ "UF_QUERY" \in v.field_set
      BY <1>8, <1>10, <2>2 DEF UriRead
    <3>2. PICK o \in Nat : o = p + 2
      OBVIOUS
    <3>3. Field(x, v, "UF_QUERY") = SubSeq(x, o, o + a - 1)
      BY <3>1, <3>2 DEF Field
    <3>4. e = p + 1 + a /\ \A i \in 1 .. a : x[p + 1 + i] = A[i]
      BY <1>2, <1>10, <2>2 DEF Layout
    <3>5. \A i \in 1 .. a : x[o + i - 1] = A[i]
      <4>1. \A i \in 1 .. a : o + i - 1 = p + 1 + i
        BY <3>2
      <4> QED BY <3>4, <4>1
    <3>6. o >= 1 /\ o + a - 1 <= Len(x)
      BY <1>3, <3>2, <3>4
    <3>7. SubSeq(x, o, o + a - 1) = A
      BY ONLY <1>3, <1>9, <1>10, <3>5, <3>6, UriPartIs, o \in Nat
    <3> QED BY <3>3, <3>7
  <2> QED BY <2>1, <2>2
<1>13. Field(x, v, "UF_FRAGMENT") = F
  <2>1. CASE F = <<>>
    <3>1. "UF_FRAGMENT" \notin v.field_set
      BY <1>8, <2>1 DEF UriRead
    <3> QED BY <2>1, <3>1 DEF Field
  <2>2. CASE F # <<>>
    <3>1. v.off["UF_FRAGMENT"] = e + 2 /\ v.len["UF_FRAGMENT"] = l
          /\ "UF_FRAGMENT" \in v.field_set
      BY <1>8, <1>10, <2>2 DEF UriRead
    <3>2. PICK o \in Nat : o = e + 2
      BY <1>3
    <3>3. Field(x, v, "UF_FRAGMENT") = SubSeq(x, o, o + l - 1)
      BY <3>1, <3>2 DEF Field
    <3>4. Len(x) = e + 1 + l /\ \A i \in 1 .. l : x[e + 1 + i] = F[i]
      BY <1>2, <1>10, <2>2 DEF Layout
    <3>5. \A i \in 1 .. l : x[o + i - 1] = F[i]
      <4>1. \A i \in 1 .. l : o + i - 1 = e + 1 + i
        BY <1>3, <3>2
      <4> QED BY <3>4, <4>1
    <3>6. o >= 1 /\ o + l - 1 <= Len(x)
      BY <1>3, <3>2, <3>4
    <3>7. SubSeq(x, o, o + l - 1) = F
      BY ONLY <1>3, <1>9, <1>10, <3>5, <3>6, UriPartIs, o \in Nat
    <3> QED BY <3>3, <3>7
  <2> QED BY <2>1, <2>2
<1>14. v.s \in UriEnds
  BY <1>8 DEF UriRead
<1> QED BY <1>1, <1>7, <1>11, <1>12, <1>13, <1>14 DEF ReadsAs

\* A part of a text.
LEMMA PartOf ==
  ASSUME NEW t \in Seq(UrlAlphabet), NEW o \in Nat, NEW l \in Nat, o >= 1, l >= 1, o + l <= Len(t) + 1,
         NEW S, \A p \in o .. o + l - 1 : t[p] \in S
  PROVE  /\ SubSeq(t, o, o + l - 1) \in Seq(S) /\ SubSeq(t, o, o + l - 1) # <<>>
         /\ SubSeq(t, o, o + l - 1)[1] = t[o]
<1>1. PICK y : y = SubSeq(t, o, o + l - 1)
  OBVIOUS
<1>2. y \in Seq(UrlAlphabet) /\ Len(y) = l /\ \A i \in 1 .. l : y[i] = t[o + i - 1]
  BY <1>1
<1>3. \A i \in 1 .. l : o + i - 1 \in o .. o + l - 1
  OBVIOUS
<1>4. \A i \in 1 .. l : y[i] \in S
  BY <1>2, <1>3
<1>5. y \in Seq(S)
  BY ONLY <1>2, <1>4, l \in Nat
<1>6. y # <<>> /\ y[1] = t[o]
  <2>1. 1 \in 1 .. l /\ o + 1 - 1 = o
    OBVIOUS
  <2>2. y[1] = t[o]
    BY <1>2, <2>1
  <2>3. Len(<<>>) = 0
    OBVIOUS
  <2> QED BY <1>2, <2>2, <2>3
<1> QED BY <1>1, <1>5, <1>6

LEMMA FieldOfUrl ==
  ASSUME NEW t \in Seq(UrlAlphabet), NEW u, NEW h, UrlJoined(t, u, h), NEW f \in h.field_set
  PROVE  Field(t, h, f) # <<>>
<1>1. PICK m \in Nat : m = Len(t)
  OBVIOUS
<1>2. Laid(t, h.field_set, h.off, h.len, 1, m)
  BY <1>1, JoinedIsLaid
<1>3. f \in Fields /\ h.off \in [Fields -> Nat] /\ h.len \in [Fields -> Nat]
  BY <1>2 DEF Laid, Lengths
<1>4. PICK o \in Nat, l \in Nat : o = h.off[f] /\ l = h.len[f]
  BY <1>3
<1>5. o >= 1 /\ l >= 1 /\ o + l <= m + 1
  BY <1>2, <1>4 DEF Laid, Inside
<1>6. \A p \in o .. o + l - 1 : t[p] \in UrlAlphabet
  <2>1. \A p \in o .. o + l - 1 : p \in 1 .. m
    BY <1>5
  <2> QED BY <1>1, <2>1
<1>7. SubSeq(t, o, o + l - 1) # <<>>
  BY ONLY <1>1, <1>5, <1>6, PartOf, t \in Seq(UrlAlphabet), o \in Nat, l \in Nat
<1> QED BY <1>4, <1>7 DEF Field

LEMMA WordOfUrl ==
  ASSUME NEW t \in Seq(UrlAlphabet), NEW u, NEW h, UrlJoined(t, u, h), Worded(t, u),
         NEW f \in h.field_set \cap LastFields
  PROVE  Field(t, h, f) \in Seq(Chars[f]) /\ Field(t, h, f)[1] \in Firsts[f]
<1>1. PICK m \in Nat : m = Len(t)
  OBVIOUS
<1>2. Laid(t, h.field_set, h.off, h.len, 1, m)
  BY <1>1, JoinedIsLaid
<1>3. f \in Fields /\ h.off \in [Fields -> Nat] /\ h.len \in [Fields -> Nat]
  BY <1>2 DEF Laid, Lengths
<1>4. PICK o \in Nat, l \in Nat : o = h.off[f] /\ l = h.len[f]
  BY <1>3
<1>5. o >= 1 /\ l >= 1 /\ o + l <= m + 1
  BY <1>2, <1>4 DEF Laid, Inside
<1>6. f \in u.field_set /\ u.off[f] = o /\ u.len[f] = l
  <2>1. f \in Fields \ HostParts
    BY <1>3 DEF LastFields, HostParts
  <2> QED BY <1>4, <2>1 DEF UrlJoined, HostInv, SameRest
<1>7. t[o] \in Firsts[f] /\ \A p \in o .. o + l - 1 : t[p] \in Chars[f]
  BY <1>6 DEF Worded
<1>8. /\ SubSeq(t, o, o + l - 1) \in Seq(Chars[f])
      /\ SubSeq(t, o, o + l - 1)[1] = t[o]
  BY ONLY <1>1, <1>5, <1>7, PartOf, t \in Seq(UrlAlphabet), o \in Nat, l \in Nat
<1>9. Field(t, h, f) = SubSeq(t, o, o + l - 1)
  BY <1>4 DEF Field
<1> QED BY <1>7, <1>8, <1>9

LEMMA UrlHasWords ==
  ASSUME NEW t \in Seq(UrlAlphabet), NEW u, NEW h, UrlJoined(t, u, h), Worded(t, u),
         NEW url, url = UrlOf(t, h)
  PROVE  UriWords(url.Path, url.Args, url.Fragment)
<1>1. /\ Chars["UF_PATH"] = IS_URL_CHAR /\ Firsts["UF_PATH"] = {"/", "*"}
      /\ Chars["UF_QUERY"] = IS_URL_CHAR \cup {"?"}
      /\ Chars["UF_FRAGMENT"] = Letters /\ "#" \notin Firsts["UF_FRAGMENT"]
      /\ {"UF_PATH", "UF_QUERY", "UF_FRAGMENT"} = LastFields
  BY DEF Chars, Firsts, LastFields, Letters, IS_URL_CHAR
<1>2. /\ url.Path = IF "UF_PATH" \in h.field_set THEN Field(t, h, "UF_PATH") ELSE <<"/">>
      /\ url.Args = Field(t, h, "UF_QUERY") /\ url.Fragment = Field(t, h, "UF_FRAGMENT")
  BY DEF UrlOf
<1>3. url.Path \in Seq(IS_URL_CHAR) /\ url.Path # <<>> /\ url.Path[1] \in {"/", "*"}
  <2>1. CASE "UF_PATH" \in h.field_set
    <3>1. Field(t, h, "UF_PATH") \in Seq(IS_URL_CHAR) /\ Field(t, h, "UF_PATH")[1] \in {"/", "*"}
      BY <1>1, <2>1, WordOfUrl
    <3>2. Field(t, h, "UF_PATH") # <<>>
      BY <2>1, FieldOfUrl
    <3> QED BY <1>2, <2>1, <3>1, <3>2
  <2>2. CASE "UF_PATH" \notin h.field_set
    <3>1. "/" \in IS_URL_CHAR
      BY DEF IS_URL_CHAR, UrlAlphabet
    <3>2. PICK w : w = <<"/">>
      OBVIOUS
    <3>3. w \in Seq(IS_URL_CHAR) /\ w # <<>> /\ w[1] = "/"
      BY <3>1, <3>2
    <3> QED BY <1>2, <2>2, <3>2, <3>3
  <2> QED BY <2>1, <2>2
<1>4. url.Args \in Seq(IS_URL_CHAR \cup {"?"})
  <2>1. CASE "UF_QUERY" \in h.field_set
    BY <1>1, <1>2, <2>1, WordOfUrl
  <2>2. CASE "UF_QUERY" \notin h.field_set
    BY <1>2, <2>2 DEF Field
  <2> QED BY <2>1, <2>2
<1>5. url.Fragment \in Seq(Letters) /\ (url.Fragment # <<>> => url.Fragment[1] # "#")
  <2>1. CASE "UF_FRAGMENT" \in h.field_set
    BY <1>1, <1>2, <2>1, WordOfUrl
  <2>2. CASE "UF_FRAGMENT" \notin h.field_set
    BY <1>2, <2>2 DEF Field
  <2> QED BY <2>1, <2>2
<1> QED BY ONLY <1>3, <1>4, <1>5 DEF UriWords

\* What goes out whole was not cut.
LEMMA SentIs ==
  ASSUME NEW url, ToUri(url) \in Seq(Letters), NEW a \in Addresses, Sent(url, a).whole
  PROVE  Sent(url, a).Uri = ToUri(url) /\ Len(ToUri(url)) < Word
<1>1. PICK w \in Seq(Letters) : w = ToUri(url)
  OBVIOUS
<1>2. PICK l \in Nat, m \in Nat : l = Len(w) /\ m = MaxRequest - BeforeUri
  BY RequestsConstants
<1>3. PICK x : x = BuildGetReq(w, Len(url.Host)).Uri
  OBVIOUS
<1>4. /\ l <= m => x = w
      /\ ~(l <= m) => x = SubSeq(w, 1, m)
  BY <1>2, <1>3 DEF BuildGetReq
<1>5. Sent(url, a) = BuildGetReq(x, a)
  BY Zenon, <1>1, <1>3 DEF Sent
<1>6. BeforeUri + Len(x) + AfterUri + a <= MaxRequest
  <2>1. PICK b \in BOOLEAN : b = (BeforeUri + Len(x) + AfterUri + a <= MaxRequest)
    <3>1. (BeforeUri + Len(x) + AfterUri + a <= MaxRequest) \in BOOLEAN
      <4>1. /\ BeforeUri \in Nat /\ AfterUri \in Nat /\ MaxRequest \in Nat
            /\ Addresses \subseteq Nat
        BY RequestsConstants
      <4>2. Len(x) \in Nat
        <5>1. CASE l <= m
          BY <1>2, <1>4, <5>1
        <5>2. CASE ~(l <= m)
          BY <1>2, <1>4, <5>2
        <5> QED BY <5>1, <5>2
      <4> QED BY ONLY <4>1, <4>2, a \in Addresses
    <3> QED BY <3>1, Zenon
  <2>2. PICK y : y = IF Len(x) <= MaxRequest - BeforeUri THEN x
                     ELSE SubSeq(x, 1, MaxRequest - BeforeUri)
    OBVIOUS
  <2>3. Sent(url, a) = [Uri |-> y, whole |-> b]
    BY Zenon, <1>5, <2>1, <2>2 DEF BuildGetReq
  <2>4. Sent(url, a).whole = b /\ Sent(url, a).whole
    BY <2>3
  <2> QED BY Zenon, <2>1, <2>4
<1>7. /\ BeforeUri \in Nat /\ AfterUri \in Nat \ {0} /\ a \in Nat /\ MaxRequest \in Nat
      /\ MaxRequest < Word /\ Word \in Nat
  <2>1. /\ BeforeUri \in Nat /\ AfterUri \in Nat \ {0} /\ MaxRequest \in Nat
        /\ MaxRequest < Word /\ Addresses \subseteq Nat
    BY RequestsConstants
  <2>2. Word \in Nat
    BY WordAssumption
  <2> QED BY ONLY <2>1, <2>2, a \in Addresses
<1>8. l <= m
  <2>1. SUFFICES ASSUME ~(l <= m) PROVE FALSE
    OBVIOUS
  <2>2. x = SubSeq(w, 1, m)
    BY <1>4, <2>1
  <2>3. Len(x) = m
    BY <1>2, <2>1, <2>2
  <2> QED BY ONLY <1>2, <1>6, <1>7, <2>3
<1>9. x = w
  BY <1>4, <1>8
<1>10. BuildGetReq(x, a).Uri = x
  BY <1>2, <1>8, <1>9 DEF BuildGetReq
<1>11. l < Word
  BY ONLY <1>2, <1>7, <1>8
<1> QED BY <1>1, <1>2, <1>5, <1>9, <1>10, <1>11

LEMMA UrlIsRead ==
  ASSUME NEW t \in Seq(UrlAlphabet), NEW u, ScanText(t, Len(t), u), NEW url \in ParseUrl(t, u),
         Len(t) < Word
  PROVE  /\ url.Scheme # <<>> /\ url.Host # <<>>
         /\ UriWords(url.Path, url.Args, url.Fragment)
<1>1. PICK h \in ParsedUrls(t, u) : Url \subseteq h.field_set /\ url = UrlOf(t, h)
  BY DEF ParseUrl, Url
<1>2. Len(t) \in Nat /\ ScanInv(t, Len(t), u)
  BY DEF ScanText
<1>3. UrlJoined(t, u, h)
  BY <1>1, <1>2, ParsedIsJoined
<1>4. Worded(t, u)
  BY <1>3 DEF UrlJoined, ScanText
<1>5. UriWords(url.Path, url.Args, url.Fragment)
  BY <1>1, <1>3, <1>4, UrlHasWords
<1>6. url.Scheme # <<>> /\ url.Host # <<>>
  <2>1. Field(t, h, "UF_SCHEMA") # <<>> /\ Field(t, h, "UF_HOST") # <<>>
    BY <1>1, <1>3, FieldOfUrl DEF Url
  <2> QED BY <1>1, <2>1 DEF UrlOf
<1> QED BY <1>5, <1>6

LEMMA SentIsRead ==
  ASSUME NEW url, UriWords(url.Path, url.Args, url.Fragment), NEW a \in Addresses,
         Sent(url, a).whole
  PROVE  ReadsAs(Sent(url, a).Uri, url.Path, url.Args, url.Fragment)
<1>1. ToUri(url) = UriText(url.Path, url.Args, url.Fragment)
  BY DEF ToUri, UriText
<1>2. ToUri(url) \in Seq(Letters)
  <2>1. PICK e : Layout(UriText(url.Path, url.Args, url.Fragment), url.Path, url.Args,
                        url.Fragment, e)
    BY UriLayout
  <2> QED BY <1>1, <2>1 DEF Layout
<1>3. Sent(url, a).Uri = ToUri(url) /\ Len(ToUri(url)) < Word
  BY <1>2, SentIs
<1>4. ReadsAs(UriText(url.Path, url.Args, url.Fragment), url.Path, url.Args, url.Fragment)
  BY <1>1, <1>3, UriIsRead
<1> QED BY <1>1, <1>3, <1>4

LEMMA ScannedIsRead == Scanned => RequestIsRead
<1>1. SUFFICES ASSUME Scanned, Len(text) < Word, NEW url \in ParseUrl(text, scan)
               PROVE  /\ url.Scheme # <<>> /\ url.Host # <<>>
                      /\ \A a \in Addresses : Sent(url, a).whole =>
                           ReadsAs(Sent(url, a).Uri, url.Path, url.Args, url.Fragment)
  BY DEF RequestIsRead
<1>2. text \in Seq(UrlAlphabet) /\ ScanText(text, Len(text), scan)
  BY <1>1 DEF Scanned, ScanKnown
<1>3. /\ url.Scheme # <<>> /\ url.Host # <<>>
      /\ UriWords(url.Path, url.Args, url.Fragment)
  BY <1>1, <1>2, UrlIsRead
<1> QED BY <1>3, SentIsRead

\* HttpHelper::BuildGetReq, HttpParser::ParseUrl and Url::ToUri (http_helper.cpp:13-36,
\* http_parser_ext.cpp:21-48, http.h:29-37): a request that goes out whole for a URL, which
\* is shorter than the numbers of a uint16_t, is read by the parser with the URL's path,
\* arguments and fragment; no Uri that the buffer cut off goes out in a request that looks
\* whole; and no URL is taken that lacks its scheme or its host.
THEOREM RequestRead == RequestsSpec => []RequestIsRead
BY AlwaysScanned, ScannedIsRead, PTL

-----------------------------------------------------------------------------
(* EntryResolves *)

\* The arcs of the origin, and of what follows it.
LEMMA OriginSteps ==
  /\ parse_url_char("s_req_spaces_before_url", "c") = "s_req_schema"
  /\ parse_url_char("s_req_schema", ":") = "s_req_schema_slash"
  /\ parse_url_char("s_req_schema_slash", "/") = "s_req_schema_slash_slash"
  /\ parse_url_char("s_req_schema_slash_slash", "/") = "s_req_server_start"
  /\ \A s \in {"s_req_server_start", "s_req_server"} : \A ch \in {"1", ":"} :
       parse_url_char(s, ch) = "s_req_server"
  /\ parse_url_char("s_req_server", "/") = "s_req_path"
<1> USE UrlGoesTo, UrlStatesAre
    DEF UrlArcs, FieldStates, IS_ALPHA, IS_USERINFO_CHAR, IS_HOST_CHAR, IS_NUM, IS_URL_CHAR,
        UrlAlphabet
<1>1. parse_url_char("s_req_spaces_before_url", "c") = "s_req_schema"
  OBVIOUS
<1>2. parse_url_char("s_req_schema", ":") = "s_req_schema_slash"
  OBVIOUS
<1>3. parse_url_char("s_req_schema_slash", "/") = "s_req_schema_slash_slash"
  OBVIOUS
<1>4. parse_url_char("s_req_schema_slash_slash", "/") = "s_req_server_start"
  OBVIOUS
<1>5. \A s \in {"s_req_server_start", "s_req_server"} : \A ch \in {"1", ":"} :
        parse_url_char(s, ch) = "s_req_server"
  OBVIOUS
<1>6. parse_url_char("s_req_server", "/") = "s_req_path"
  OBVIOUS
<1> QED BY ONLY <1>1, <1>2, <1>3, <1>4, <1>5, <1>6

LEMMA FollowIn ==
  ASSUME NEW arcs, NEW s, NEW ch, NEW dead, \E arc \in arcs : s \in arc[1] /\ ch \in arc[2]
  PROVE  \E arc \in arcs : s \in arc[1] /\ ch \in arc[2] /\ Follow(arcs, s, ch, dead) = arc[3]
BY DEF Follow

\* What comes behind the host is read to its end, if it has no carriage return.
LEMMA EndSteps ==
  ASSUME NEW s \in UriEnds, NEW ch \in UrlAlphabet \ {"CR"}
  PROVE  /\ parse_url_char(s, ch) \in UriEnds
         /\ parse_url_char(s, ch) \in FieldStates => FieldOf[parse_url_char(s, ch)] \in LastFields
<1> DEFINE r == Follow(UrlArcs, s, ch, "s_dead")
<1>1. s \in UrlStates
  BY UrlStatesAre DEF UriEnds, FieldStates
<1>2. parse_url_char(s, ch) = r
  BY <1>1 DEF parse_url_char, UrlTable
<1>3. \E arc \in UrlArcs : s \in arc[1] /\ ch \in arc[2]
  BY DEF UrlArcs, UriEnds, IS_URL_CHAR, UrlAlphabet
<1>4. \E arc \in UrlArcs : s \in arc[1] /\ ch \in arc[2] /\ r = arc[3]
  BY <1>3, FollowIn
<1>5. ASSUME NEW arc \in UrlArcs, s \in arc[1], ch \in arc[2]
      PROVE  arc[3] \in UriEnds /\ (arc[3] \in FieldStates => FieldOf[arc[3]] \in LastFields)
  BY <1>5 DEF UrlArcs, UriEnds, FieldStates, FieldOf, LastFields
<1> QED BY <1>2, <1>4, <1>5

LEMMA OriginIs ==
  ASSUME NEW y \in Seq(UrlAlphabet)
  PROVE  /\ Origin \o y \in Seq(UrlAlphabet) /\ Len(Origin \o y) = Len(y) + 7
         /\ (Origin \o y)[1] = "c" /\ (Origin \o y)[2] = ":" /\ (Origin \o y)[3] = "/"
         /\ (Origin \o y)[4] = "/" /\ (Origin \o y)[5] = "1" /\ (Origin \o y)[6] = ":"
         /\ (Origin \o y)[7] = "1"
         /\ \A i \in 1 .. Len(y) : (Origin \o y)[7 + i] = y[i]
<1>1. PICK o : o = Origin
  OBVIOUS
<1>2. /\ o \in Seq(UrlAlphabet) /\ Len(o) = 7
      /\ o[1] = "c" /\ o[2] = ":" /\ o[3] = "/" /\ o[4] = "/" /\ o[5] = "1" /\ o[6] = ":"
      /\ o[7] = "1"
  BY <1>1 DEF Origin, UrlAlphabet
<1>3. PICK z : z = o \o y
  OBVIOUS
<1>4. /\ z \in Seq(UrlAlphabet) /\ Len(z) = Len(o) + Len(y)
      /\ \A i \in 1 .. Len(o) : z[i] = o[i]
      /\ \A i \in 1 .. Len(y) : z[Len(o) + i] = y[i]
  <2>1. o \in Seq(UrlAlphabet)
    BY <1>2
  <2> QED BY ONLY <1>3, <2>1, ConcatIs, y \in Seq(UrlAlphabet)
<1>5. \A i \in {1, 2, 3, 4, 5, 6, 7} : z[i] = o[i]
  <2>1. {1, 2, 3, 4, 5, 6, 7} \subseteq 1 .. Len(o)
    BY <1>2
  <2> QED BY <1>4, <2>1
<1>6. z[1] = "c" /\ z[2] = ":" /\ z[3] = "/" /\ z[4] = "/" /\ z[5] = "1" /\ z[6] = ":" /\ z[7] = "1"
  BY <1>2, <1>5
<1>7. Len(z) = Len(y) + 7 /\ \A i \in 1 .. Len(y) : z[7 + i] = y[i]
  BY <1>2, <1>4
<1> QED BY <1>1, <1>3, <1>4, <1>6, <1>7

\* The loop has not met a user.
LEMMA StaysWithoutAt ==
  ASSUME NEW u \in Scans, NEW p \in Nat, NEW ch, ~u.found_at,
         parse_url_char(u.s, ch) # "s_req_server_with_at"
  PROVE  ~UrlStep(u, p, ch).found_at
<1>1. PICK s : s = parse_url_char(u.s, ch)
  OBVIOUS
<1>2. PICK v : v = [u EXCEPT !.s = s, !.found_at = FALSE]
  OBVIOUS
<1>3. v = [u EXCEPT !.s = s, !.found_at = u.found_at \/ s = "s_req_server_with_at"]
  <2>1. (u.found_at \/ s = "s_req_server_with_at") = FALSE
    BY <1>1
  <2> QED BY Zenon, <1>2, <2>1
<1>4. UrlStep(u, p, ch) =
        IF s \notin DOMAIN FieldOf THEN v
        ELSE IF FieldOf[s] = u.old_uf THEN [v EXCEPT !.len[u.old_uf] = OneMore(@)]
        ELSE [v EXCEPT !.off[FieldOf[s]] = Off(p), !.len[FieldOf[s]] = 1,
                       !.field_set = @ \cup {FieldOf[s]}, !.old_uf = FieldOf[s]]
  BY Zenon, <1>1, <1>3 DEF UrlStep
<1>5. v = [s |-> s, old_uf |-> u.old_uf, found_at |-> FALSE,
           field_set |-> u.field_set, off |-> u.off, len |-> u.len]
  BY <1>2 DEF Scans
<1>6. PICK z : z = UrlStep(u, p, ch)
  OBVIOUS
<1>7. z.found_at = FALSE
  <2>1. CASE z = v
    BY <1>5, <2>1
  <2>2. CASE z = [v EXCEPT !.len[u.old_uf] = OneMore(@)]
    BY <1>5, <2>2
  <2>3. CASE z = [v EXCEPT !.off[FieldOf[s]] = Off(p), !.len[FieldOf[s]] = 1,
                           !.field_set = @ \cup {FieldOf[s]}, !.old_uf = FieldOf[s]]
    BY <1>5, <2>3
  <2> QED BY Zenon, <1>4, <1>6, <2>1, <2>2, <2>3
<1> QED BY <1>6, <1>7

\* Places and lengths of the origin are what they seem if its URL is no longer.
SmallWords ==
  /\ Off(1) = 1 /\ Off(5) = 5 /\ Off(7) = 7 /\ Off(8) = 8
  /\ OneMore(0) = 1 /\ OneMore(1) = 2 /\ OneMore(2) = 3

LEMMA WordsAreSmall == ASSUME 8 < Word PROVE SmallWords
<1>1. PICK w \in Nat : w = Word /\ 8 < w
  BY WordAssumption
<1>2. \A i \in {1, 5, 7, 8} : i \in Nat \ {0} /\ i <= w
  BY <1>1
<1>3. \A i \in {0, 1, 2} : i \in Nat /\ i + 1 < w
  BY <1>1
<1>4. \A i \in {1, 5, 7, 8} : Off(i) = i
  BY <1>1, <1>2, PlacesAre
<1>5. \A i \in {0, 1, 2} : OneMore(i) = i + 1
  BY <1>1, <1>3, LengthsAre
<1>6. OneMore(0) = 1 /\ OneMore(1) = 2 /\ OneMore(2) = 3
  BY <1>5
<1> QED BY <1>4, <1>6 DEF SmallWords

\* What the loop knows behind the origin.
OriginRead(u) ==
  /\ u \in Scans /\ ~u.found_at /\ u.s = "s_req_server" /\ u.old_uf = "UF_HOST"
  /\ u.field_set = {"UF_SCHEMA", "UF_HOST"} /\ u.off["UF_HOST"] = 5 /\ u.len["UF_HOST"] = 3

LEMMA OriginIsRead ==
  ASSUME NEW z, NEW n \in Nat, n >= 7, NEW g, IsScan(z, n, g), SmallWords,
         z[1] = "c", z[2] = ":", z[3] = "/", z[4] = "/", z[5] = "1", z[6] = ":", z[7] = "1"
  PROVE  OriginRead(g[7])
<1>1. PICK u0 \in Scans : /\ u0 = g[0] /\ ~u0.found_at /\ u0.s = "s_req_spaces_before_url"
                          /\ u0.old_uf = "UF_MAX" /\ u0.field_set = {}
  <2>1. UrlStart \in Scans
    BY ScanBegins DEF ScanInv
  <2>2. g[0] = UrlStart
    BY DEF IsScan
  <2> QED BY <2>1, <2>2 DEF UrlStart
<1>2. /\ g[0 + 1] = UrlStep(g[0], 0 + 1, z[0 + 1]) /\ g[1 + 1] = UrlStep(g[1], 1 + 1, z[1 + 1])
      /\ g[2 + 1] = UrlStep(g[2], 2 + 1, z[2 + 1]) /\ g[3 + 1] = UrlStep(g[3], 3 + 1, z[3 + 1])
      /\ g[4 + 1] = UrlStep(g[4], 4 + 1, z[4 + 1]) /\ g[5 + 1] = UrlStep(g[5], 5 + 1, z[5 + 1])
      /\ g[6 + 1] = UrlStep(g[6], 6 + 1, z[6 + 1])
  BY ScanStep
<1>3. /\ 0 + 1 = 1 /\ 1 + 1 = 2 /\ 2 + 1 = 3 /\ 3 + 1 = 4 /\ 4 + 1 = 5 /\ 5 + 1 = 6 /\ 6 + 1 = 7
  OBVIOUS
<1>4. /\ g[1] = UrlStep(g[0], 1, "c") /\ g[2] = UrlStep(g[1], 2, ":")
      /\ g[3] = UrlStep(g[2], 3, "/") /\ g[4] = UrlStep(g[3], 4, "/")
      /\ g[5] = UrlStep(g[4], 5, "1") /\ g[6] = UrlStep(g[5], 6, ":")
      /\ g[7] = UrlStep(g[6], 7, "1")
  BY <1>2, <1>3
<1>5. {"s_req_schema", "s_req_schema_slash", "s_req_schema_slash_slash", "s_req_server_start",
       "s_req_server"} \subseteq States
  BY UrlStatesAre DEF States, FieldStates
<1>6. /\ {"s_req_schema", "s_req_server"} \subseteq FieldStates
      /\ {"s_req_schema_slash", "s_req_schema_slash_slash", "s_req_server_start"}
           \cap FieldStates = {}
      /\ FieldOf["s_req_schema"] = "UF_SCHEMA" /\ FieldOf["s_req_server"] = "UF_HOST"
      /\ {"UF_SCHEMA", "UF_HOST"} \subseteq Fields
  BY DEF FieldStates, FieldOf, Fields
<1>7. PICK u1 : u1 = g[1]
  OBVIOUS
<1>8. /\ u1 \in Scans /\ ~u1.found_at /\ u1.s = "s_req_schema" /\ u1.old_uf = "UF_SCHEMA"
      /\ u1.field_set = {"UF_SCHEMA"}
  <2>1. Stepped(u0, 1, "s_req_schema", u1)
    BY <1>1, <1>4, <1>5, <1>7, OriginSteps, UrlStepIs
  <2>2. ~u1.found_at
    BY <1>1, <1>4, <1>7, OriginSteps, StaysWithoutAt
  <2> QED BY <1>1, <1>6, <2>1, <2>2 DEF Stepped
<1>9. PICK u2 : u2 = g[2]
  OBVIOUS
<1>10. /\ u2 \in Scans /\ ~u2.found_at /\ u2.s = "s_req_schema_slash" /\ u2.old_uf = "UF_SCHEMA"
       /\ u2.field_set = {"UF_SCHEMA"}
  <2>1. Stepped(u1, 2, "s_req_schema_slash", u2)
    BY <1>4, <1>5, <1>7, <1>8, <1>9, OriginSteps, UrlStepIs
  <2>2. ~u2.found_at
    BY <1>4, <1>7, <1>8, <1>9, OriginSteps, StaysWithoutAt
  <2> QED BY <1>6, <1>8, <2>1, <2>2 DEF Stepped
<1>11. PICK u3 : u3 = g[3]
  OBVIOUS
<1>12. /\ u3 \in Scans /\ ~u3.found_at /\ u3.s = "s_req_schema_slash_slash"
       /\ u3.old_uf = "UF_SCHEMA" /\ u3.field_set = {"UF_SCHEMA"}
  <2>1. Stepped(u2, 3, "s_req_schema_slash_slash", u3)
    BY <1>4, <1>5, <1>9, <1>10, <1>11, OriginSteps, UrlStepIs
  <2>2. ~u3.found_at
    BY <1>4, <1>9, <1>10, <1>11, OriginSteps, StaysWithoutAt
  <2> QED BY <1>6, <1>10, <2>1, <2>2 DEF Stepped
<1>13. PICK u4 : u4 = g[4]
  OBVIOUS
<1>14. /\ u4 \in Scans /\ ~u4.found_at /\ u4.s = "s_req_server_start"
       /\ u4.old_uf = "UF_SCHEMA" /\ u4.field_set = {"UF_SCHEMA"}
  <2>1. Stepped(u3, 4, "s_req_server_start", u4)
    BY <1>4, <1>5, <1>11, <1>12, <1>13, OriginSteps, UrlStepIs
  <2>2. ~u4.found_at
    BY <1>4, <1>11, <1>12, <1>13, OriginSteps, StaysWithoutAt
  <2> QED BY <1>6, <1>12, <2>1, <2>2 DEF Stepped
<1>15. PICK u5 : u5 = g[5]
  OBVIOUS
<1>16. /\ u5 \in Scans /\ ~u5.found_at /\ u5.s = "s_req_server" /\ u5.old_uf = "UF_HOST"
       /\ u5.field_set = {"UF_SCHEMA", "UF_HOST"}
       /\ u5.off["UF_HOST"] = 5 /\ u5.len["UF_HOST"] = 1
  <2>1. Stepped(u4, 5, "s_req_server", u5)
    BY <1>4, <1>5, <1>13, <1>14, <1>15, OriginSteps, UrlStepIs
  <2>2. ~u5.found_at
    BY <1>4, <1>13, <1>14, <1>15, OriginSteps, StaysWithoutAt
  <2>3. /\ u5.off = [u4.off EXCEPT !["UF_HOST"] = 5] /\ u5.len = [u4.len EXCEPT !["UF_HOST"] = 1]
        /\ u5.field_set = u4.field_set \cup {"UF_HOST"} /\ u5.old_uf = "UF_HOST"
    <3>1. Off(5) = 5
      BY DEF SmallWords
    <3> QED BY <1>6, <1>14, <2>1, <3>1 DEF Stepped
  <2>4. u4.off \in [Fields -> Nat] /\ u4.len \in [Fields -> Nat]
    BY <1>14 DEF Scans, Lengths
  <2>5. u5.off["UF_HOST"] = 5 /\ u5.len["UF_HOST"] = 1
    BY <1>6, <2>3, <2>4
  <2> QED BY <1>14, <2>1, <2>2, <2>3, <2>5 DEF Stepped
<1>17. PICK u6 : u6 = g[6]
  OBVIOUS
<1>18. /\ u6 \in Scans /\ ~u6.found_at /\ u6.s = "s_req_server" /\ u6.old_uf = "UF_HOST"
       /\ u6.field_set = {"UF_SCHEMA", "UF_HOST"}
       /\ u6.off["UF_HOST"] = 5 /\ u6.len["UF_HOST"] = 2
  <2>1. Stepped(u5, 6, "s_req_server", u6)
    BY <1>4, <1>5, <1>15, <1>16, <1>17, OriginSteps, UrlStepIs
  <2>2. ~u6.found_at
    BY <1>4, <1>15, <1>16, <1>17, OriginSteps, StaysWithoutAt
  <2>3. /\ u6.off = u5.off /\ u6.len = [u5.len EXCEPT !["UF_HOST"] = OneMore(u5.len["UF_HOST"])]
        /\ u6.field_set = u5.field_set /\ u6.old_uf = "UF_HOST"
    BY <1>6, <1>16, <2>1 DEF Stepped
  <2>4. u5.len \in [Fields -> Nat]
    BY <1>16 DEF Scans, Lengths
  <2>5. u6.len["UF_HOST"] = 2
    <3>1. OneMore(1) = 2
      BY DEF SmallWords
    <3> QED BY <1>6, <1>16, <2>3, <2>4, <3>1
  <2> QED BY <1>16, <2>1, <2>2, <2>3, <2>5 DEF Stepped
<1>19. PICK u7 : u7 = g[7]
  OBVIOUS
<1>20. /\ u7 \in Scans /\ ~u7.found_at /\ u7.s = "s_req_server" /\ u7.old_uf = "UF_HOST"
       /\ u7.field_set = {"UF_SCHEMA", "UF_HOST"}
       /\ u7.off["UF_HOST"] = 5 /\ u7.len["UF_HOST"] = 3
  <2>1. Stepped(u6, 7, "s_req_server", u7)
    BY <1>4, <1>5, <1>17, <1>18, <1>19, OriginSteps, UrlStepIs
  <2>2. ~u7.found_at
    BY <1>4, <1>17, <1>18, <1>19, OriginSteps, StaysWithoutAt
  <2>3. /\ u7.off = u6.off /\ u7.len = [u6.len EXCEPT !["UF_HOST"] = OneMore(u6.len["UF_HOST"])]
        /\ u7.field_set = u6.field_set /\ u7.old_uf = "UF_HOST"
    BY <1>6, <1>18, <2>1 DEF Stepped
  <2>4. u6.len \in [Fields -> Nat]
    BY <1>18 DEF Scans, Lengths
  <2>5. u7.len["UF_HOST"] = 3
    <3>1. OneMore(2) = 3
      BY DEF SmallWords
    <3> QED BY <1>6, <1>18, <2>3, <2>4, <3>1
  <2> QED BY <1>18, <2>1, <2>2, <2>3, <2>5 DEF Stepped
<1> QED BY <1>19, <1>20 DEF OriginRead

\* v is what the loop knows of a request, u what it knows of the same behind the origin.
Shifted(v, u) ==
  /\ v \in Scans /\ u \in Scans /\ ~u.found_at
  /\ v.s \in UriEnds /\ u.s = v.s
  /\ v.old_uf \in v.field_set /\ u.old_uf = v.old_uf
  /\ v.field_set \subseteq LastFields /\ "UF_PATH" \in v.field_set
  /\ u.field_set = v.field_set \cup {"UF_SCHEMA", "UF_HOST"}
  /\ u.off["UF_HOST"] = 5 /\ u.len["UF_HOST"] = 3
  /\ \A f \in v.field_set : u.off[f] = v.off[f] + 7 /\ u.len[f] = v.len[f]

LEMMA LastAreFields ==
  /\ LastFields \subseteq Fields /\ {"UF_HOST", "UF_SCHEMA"} \subseteq Fields
  /\ "UF_HOST" \notin LastFields /\ "UF_SCHEMA" \notin LastFields
  /\ UriEnds \subseteq States /\ "s_dead" \notin UriEnds /\ "s_req_server_with_at" \notin UriEnds
BY UrlStatesAre DEF LastFields, Fields, UriEnds, States, FieldStates

LEMMA ShiftBegins ==
  ASSUME NEW u, OriginRead(u), SmallWords
  PROVE  Shifted(UrlStep(UrlStart, 1, "/"), UrlStep(u, 8, "/"))
<1>1. PICK o \in Scans : /\ o = UrlStart /\ o.s = "s_req_spaces_before_url"
                         /\ o.old_uf = "UF_MAX" /\ o.field_set = {}
  BY ScanBegins DEF ScanInv, UrlStart
<1>2. /\ u \in Scans /\ ~u.found_at /\ u.s = "s_req_server" /\ u.old_uf = "UF_HOST"
      /\ u.field_set = {"UF_SCHEMA", "UF_HOST"} /\ u.off["UF_HOST"] = 5 /\ u.len["UF_HOST"] = 3
  BY DEF OriginRead
<1>3. PICK v, w : v = UrlStep(o, 1, "/") /\ w = UrlStep(u, 8, "/")
  OBVIOUS
<1>4. /\ "s_req_path" \in States /\ "s_req_path" \in FieldStates /\ FieldOf["s_req_path"] = "UF_PATH"
      /\ {"UF_PATH", "UF_HOST"} \subseteq Fields
  BY UrlStatesAre DEF States, FieldStates, FieldOf, Fields
<1>5. parse_url_char(o.s, "/") = "s_req_path" /\ parse_url_char(u.s, "/") = "s_req_path"
  BY <1>1, <1>2, UriSteps, OriginSteps
<1>6. Stepped(o, 1, "s_req_path", v) /\ Stepped(u, 8, "s_req_path", w)
  BY <1>1, <1>2, <1>3, <1>4, <1>5, UrlStepIs
<1>7. /\ v \in Scans /\ v.s = "s_req_path" /\ v.old_uf = "UF_PATH" /\ v.field_set = {"UF_PATH"}
      /\ v.off = [o.off EXCEPT !["UF_PATH"] = 1] /\ v.len = [o.len EXCEPT !["UF_PATH"] = 1]
  <2>1. Off(1) = 1
    BY DEF SmallWords
  <2> QED BY <1>1, <1>4, <1>6, <2>1 DEF Stepped
<1>8. /\ w \in Scans /\ w.s = "s_req_path" /\ w.old_uf = "UF_PATH"
      /\ w.field_set = {"UF_SCHEMA", "UF_HOST", "UF_PATH"}
      /\ w.off = [u.off EXCEPT !["UF_PATH"] = 8] /\ w.len = [u.len EXCEPT !["UF_PATH"] = 1]
  <2>1. Off(8) = 8
    BY DEF SmallWords
  <2> QED BY <1>2, <1>4, <1>6, <2>1 DEF Stepped
<1>9. /\ o.off \in [Fields -> Nat] /\ o.len \in [Fields -> Nat]
      /\ u.off \in [Fields -> Nat] /\ u.len \in [Fields -> Nat]
  BY <1>2 DEF Scans, Lengths
<1>10. v.off["UF_PATH"] = 1 /\ v.len["UF_PATH"] = 1
  BY <1>4, <1>7, <1>9
<1>11. /\ w.off["UF_PATH"] = 8 /\ w.len["UF_PATH"] = 1
       /\ w.off["UF_HOST"] = 5 /\ w.len["UF_HOST"] = 3
  BY <1>2, <1>4, <1>8, <1>9
<1>12. ~w.found_at
  BY <1>2, <1>3, <1>5, StaysWithoutAt
<1>13. "s_req_path" \in UriEnds /\ "UF_PATH" \in LastFields
  BY DEF UriEnds, LastFields
<1>14. \A f \in v.field_set : w.off[f] = v.off[f] + 7 /\ w.len[f] = v.len[f]
  BY <1>7, <1>10, <1>11
<1>15. Shifted(v, w)
  BY ONLY <1>7, <1>8, <1>11, <1>12, <1>13, <1>14 DEF Shifted
<1> QED BY <1>1, <1>3, <1>15

LEMMA ShiftGoesOn ==
  ASSUME NEW v, NEW u, Shifted(v, u), NEW p \in Nat \ {0}, p + 7 < Word,
         NEW ch \in UrlAlphabet \ {"CR"}
  PROVE  Shifted(UrlStep(v, p, ch), UrlStep(u, p + 7, ch))
<1>1. /\ v \in Scans /\ u \in Scans /\ ~u.found_at
      /\ v.s \in UriEnds /\ u.s = v.s
      /\ v.old_uf \in v.field_set /\ u.old_uf = v.old_uf
      /\ v.field_set \subseteq LastFields /\ "UF_PATH" \in v.field_set
      /\ u.field_set = v.field_set \cup {"UF_SCHEMA", "UF_HOST"}
      /\ u.off["UF_HOST"] = 5 /\ u.len["UF_HOST"] = 3
  BY DEF Shifted
<1>2. \A f \in v.field_set : u.off[f] = v.off[f] + 7 /\ u.len[f] = v.len[f]
  BY DEF Shifted
<1>3. PICK s \in UriEnds : /\ s = parse_url_char(v.s, ch)
                           /\ s \in FieldStates => FieldOf[s] \in LastFields
  BY <1>1, EndSteps
<1>4. PICK q \in Nat \ {0} : q = p + 7 /\ Off(q) = q /\ Off(p) = p
  <2>1. Word \in Nat
    BY WordAssumption
  <2>2. p + 7 \in Nat \ {0} /\ p + 7 <= Word /\ p <= Word
    BY <2>1
  <2> QED BY <2>2, PlacesAre
<1>5. PICK y, z : y = UrlStep(v, p, ch) /\ z = UrlStep(u, q, ch)
  OBVIOUS
<1>6. Stepped(v, p, s, y) /\ Stepped(u, q, s, z)
  BY <1>1, <1>3, <1>5, LastAreFields, UrlStepIs
<1>7. ~z.found_at
  BY <1>1, <1>3, <1>5, LastAreFields, StaysWithoutAt
<1>8. y \in Scans /\ z \in Scans /\ y.s = s /\ z.s = s
  BY <1>6 DEF Stepped
<1>9. /\ v.off \in [Fields -> Nat] /\ v.len \in [Fields -> Nat]
      /\ u.off \in [Fields -> Nat] /\ u.len \in [Fields -> Nat]
  BY <1>1 DEF Scans, Lengths
<1>10. CASE s \notin FieldStates
  <2>1. /\ y.field_set = v.field_set /\ y.off = v.off /\ y.len = v.len /\ y.old_uf = v.old_uf
        /\ z.field_set = u.field_set /\ z.off = u.off /\ z.len = u.len /\ z.old_uf = u.old_uf
    BY <1>6, <1>10 DEF Stepped
  <2>2. Shifted(y, z)
    BY ONLY <1>1, <1>2, <1>3, <1>7, <1>8, <2>1 DEF Shifted
  <2> QED BY <1>4, <1>5, <2>2
<1>11. CASE s \in FieldStates
  <2>1. PICK f \in LastFields : f = FieldOf[s] /\ f \in Fields /\ f # "UF_HOST" /\ f # "UF_SCHEMA"
    BY <1>3, <1>11, LastAreFields
  <2>2. CASE f = v.old_uf
    <3>1. /\ y.field_set = v.field_set /\ y.off = v.off /\ y.old_uf = f
          /\ y.len = [v.len EXCEPT ![f] = OneMore(v.len[f])]
      BY <1>6, <1>11, <2>1, <2>2 DEF Stepped
    <3>2. /\ z.field_set = u.field_set /\ z.off = u.off /\ z.old_uf = f
          /\ z.len = [u.len EXCEPT ![f] = OneMore(u.len[f])]
      BY <1>1, <1>6, <1>11, <2>1, <2>2 DEF Stepped
    <3>3. z.len["UF_HOST"] = 3
      BY <1>1, <1>9, <2>1, <3>2
    <3>4. \A g \in v.field_set : z.off[g] = y.off[g] + 7 /\ z.len[g] = y.len[g]
      <4>1. y.len[f] = OneMore(v.len[f]) /\ \A g \in v.field_set : g # f => y.len[g] = v.len[g]
        BY <1>9, <2>1, <3>1
      <4>2. z.len[f] = OneMore(u.len[f]) /\ \A g \in v.field_set : g # f => z.len[g] = u.len[g]
        BY <1>9, <2>1, <3>2
      <4> QED BY <1>1, <1>2, <3>1, <3>2, <4>1, <4>2
    <3>5. Shifted(y, z)
      BY ONLY <1>1, <1>3, <1>7, <1>8, <2>2, <3>1, <3>2, <3>3, <3>4 DEF Shifted
    <3> QED BY <1>4, <1>5, <3>5
  <2>3. CASE f # v.old_uf
    <3>1. /\ y.field_set = v.field_set \cup {f} /\ y.old_uf = f
          /\ y.off = [v.off EXCEPT ![f] = p] /\ y.len = [v.len EXCEPT ![f] = 1]
      BY <1>4, <1>6, <1>11, <2>1, <2>3 DEF Stepped
    <3>2. /\ z.field_set = u.field_set \cup {f} /\ z.old_uf = f
          /\ z.off = [u.off EXCEPT ![f] = q] /\ z.len = [u.len EXCEPT ![f] = 1]
      BY <1>1, <1>4, <1>6, <1>11, <2>1, <2>3 DEF Stepped
    <3>3. z.len["UF_HOST"] = 3 /\ z.off["UF_HOST"] = 5
      BY <1>1, <1>9, <2>1, <3>2
    <3>4. \A g \in y.field_set : z.off[g] = y.off[g] + 7 /\ z.len[g] = y.len[g]
      <4>1. /\ y.off[f] = p /\ y.len[f] = 1
            /\ \A g \in v.field_set : g # f => y.off[g] = v.off[g] /\ y.len[g] = v.len[g]
        BY <1>9, <2>1, <3>1
      <4>2. /\ z.off[f] = q /\ z.len[f] = 1
            /\ \A g \in v.field_set : g # f => z.off[g] = u.off[g] /\ z.len[g] = u.len[g]
        BY <1>9, <2>1, <3>2
      <4> QED BY <1>2, <1>4, <3>1, <4>1, <4>2
    <3>5. /\ y.field_set \subseteq LastFields /\ "UF_PATH" \in y.field_set
          /\ z.field_set = y.field_set \cup {"UF_SCHEMA", "UF_HOST"}
      BY <1>1, <2>1, <3>1, <3>2
    <3>6. y.old_uf \in y.field_set /\ z.old_uf = y.old_uf
      BY <3>1, <3>2
    <3>7. Shifted(y, z)
      BY ONLY <1>3, <1>7, <1>8, <3>3, <3>4, <3>5, <3>6 DEF Shifted
    <3> QED BY <1>4, <1>5, <3>7
  <2> QED BY <2>2, <2>3
<1> QED BY <1>10, <1>11

\* z is y behind the origin.
Behind(z, y) ==
  /\ z \in Seq(UrlAlphabet) /\ Len(z) = Len(y) + 7
  /\ z[1] = "c" /\ z[2] = ":" /\ z[3] = "/" /\ z[4] = "/" /\ z[5] = "1" /\ z[6] = ":"
  /\ z[7] = "1"
  /\ \A i \in 1 .. Len(y) : z[7 + i] = y[i]

LEMMA OriginBehind ==
  ASSUME NEW y \in Seq(UrlAlphabet)
  PROVE  Behind(Origin \o y, y)
BY OriginIs DEF Behind

\* A request behind the origin is read as the request is.
LEMMA ScansShifted ==
  ASSUME NEW y \in Seq(UrlAlphabet), y # <<>>, y[1] = "/", \A i \in 1 .. Len(y) : y[i] # "CR",
         NEW z, Behind(z, y), Len(z) < Word
  PROVE  Shifted(ScanUrl(y), ScanUrl(z))
<1>1. PICK n \in Nat : n = Len(y) /\ n >= 1
  OBVIOUS
<1>2. PICK m \in Nat : m = n + 7
  OBVIOUS
<1>3. /\ Len(z) = m /\ m < Word
      /\ z[1] = "c" /\ z[2] = ":" /\ z[3] = "/" /\ z[4] = "/" /\ z[5] = "1" /\ z[6] = ":"
      /\ z[7] = "1"
      /\ \A i \in 1 .. n : z[7 + i] = y[i]
      /\ z \in Seq(UrlAlphabet)
  BY <1>1, <1>2 DEF Behind
<1>4. PICK g : IsScan(y, n, g) /\ ScanUrl(y) = g[n]
  BY <1>1, ScanUrlIs
<1>5. PICK h : IsScan(z, m, h) /\ ScanUrl(z) = h[m]
  BY <1>3, ScanUrlIs
<1>12. SmallWords
  <2>1. Word \in Nat
    BY WordAssumption
  <2>2. 8 < Word
    BY ONLY <1>1, <1>2, <1>3, <2>1
  <2> QED BY <2>2, WordsAreSmall
<1>6. OriginRead(h[7])
  <2>1. m >= 7
    BY <1>2
  <2> QED BY <1>3, <1>5, <1>12, <2>1, OriginIsRead
<1> DEFINE Good == {k \in Nat : k + 1 <= n => Shifted(g[k + 1], h[7 + (k + 1)])}
<1>7. 0 \in Good
  <2>1. g[0] = UrlStart
    BY <1>4 DEF IsScan
  <2>2. g[0 + 1] = UrlStep(g[0], 0 + 1, y[0 + 1])
    BY <1>1, <1>4, ScanStep
  <2>3. h[7 + 1] = UrlStep(h[7], 7 + 1, z[7 + 1])
    <3>1. 7 + 1 <= m
      BY <1>1, <1>2
    <3> QED BY <1>5, <3>1, ScanStep
  <2>4. z[7 + 1] = "/" /\ 0 + 1 = 1 /\ 7 + 1 = 8
    BY <1>1, <1>3
  <2>5. Shifted(g[0 + 1], h[7 + (0 + 1)])
    BY <1>6, <1>12, <2>1, <2>2, <2>3, <2>4, ShiftBegins
  <2> QED BY <2>5
<1>8. ASSUME NEW k \in Nat, k \in Good PROVE k + 1 \in Good
  <2>1. SUFFICES ASSUME k + 1 + 1 <= n PROVE Shifted(g[k + 1 + 1], h[7 + (k + 1 + 1)])
    OBVIOUS
  <2>2. PICK j \in Nat, l \in Nat : j = k + 1 /\ l = 7 + (k + 1)
    OBVIOUS
  <2>3. j + 1 \in 1 .. n /\ l + 1 <= m /\ l + 1 = (j + 1) + 7 /\ 7 + (j + 1) = l + 1
    BY <1>2, <2>1, <2>2
  <2>4. Shifted(g[j], h[l])
    BY <1>8, <2>1, <2>2
  <2>5. g[j + 1] = UrlStep(g[j], j + 1, y[j + 1])
    BY <1>4, <2>3, ScanStep
  <2>6. h[l + 1] = UrlStep(h[l], l + 1, z[l + 1])
    BY <1>5, <2>3, ScanStep
  <2>7. z[l + 1] = y[j + 1] /\ y[j + 1] \in UrlAlphabet \ {"CR"}
    BY <1>1, <1>3, <2>3
  <2>8. Shifted(g[j + 1], h[l + 1])
    <3>1. j + 1 \in Nat \ {0} /\ (j + 1) + 7 < Word
      <4>1. Word \in Nat /\ m < Word
        BY <1>3, WordAssumption
      <4> QED BY ONLY <2>2, <2>3, <4>1, m \in Nat
    <3> QED BY <2>3, <2>4, <2>5, <2>6, <2>7, <3>1, ShiftGoesOn
  <2>9. k + 1 + 1 = j + 1 /\ 7 + (k + 1 + 1) = l + 1
    BY <2>2
  <2> QED BY <2>8, <2>9
<1>9. n - 1 \in Good
  <2>1. \A k \in Nat : k \in Good
    <3> HIDE DEF Good
    <3> QED BY <1>7, <1>8, NatSetInduction
  <2>2. n - 1 \in Nat
    BY <1>1
  <2> QED BY <2>1, <2>2
<1>10. n - 1 + 1 = n /\ 7 + (n - 1 + 1) = m
  BY <1>2
<1>11. Shifted(g[n], h[m])
  BY <1>9, <1>10
<1> QED BY <1>4, <1>5, <1>11

LEMMA HostGoesTo ==
  ASSUME NEW s, NEW ch, NEW r, \E arc \in HostArcs : s \in arc[1] /\ ch \in arc[2],
         \A arc \in HostArcs : s \in arc[1] /\ ch \in arc[2] => arc[3] = r
  PROVE  http_parse_host_char(s, ch) = r
BY FollowIn DEF http_parse_host_char

LEMMA HostOfOriginSteps ==
  /\ http_parse_host_char("s_http_host_start", "1") = "s_http_host"
  /\ http_parse_host_char("s_http_host", ":") = "s_http_host_port_start"
  /\ http_parse_host_char("s_http_host_port_start", "1") = "s_http_host_port"
<1> USE HostGoesTo DEF HostArcs, IS_ALPHA, IS_USERINFO_CHAR, IS_HOST_CHAR, IS_NUM, IS_HEX
<1>1. http_parse_host_char("s_http_host_start", "1") = "s_http_host"
  OBVIOUS
<1>2. http_parse_host_char("s_http_host", ":") = "s_http_host_port_start"
  OBVIOUS
<1>3. http_parse_host_char("s_http_host_port_start", "1") = "s_http_host_port"
  OBVIOUS
<1> QED BY ONLY <1>1, <1>2, <1>3

LEMMA HostStarts ==
  ASSUME NEW u \in Scans, ~u.found_at
  PROVE  \E e : /\ e = [u.len EXCEPT !["UF_HOST"] = 0]
                /\ HostStart(u) \in Hosts /\ HostStart(u).s = "s_http_host_start"
                /\ HostStart(u).field_set = u.field_set
                /\ HostStart(u).off = u.off /\ HostStart(u).len = e
<1>1. PICK e : e = [u.len EXCEPT !["UF_HOST"] = 0]
  OBVIOUS
<1>2. u.len \in [Fields -> Nat]
  BY DEF Scans, Lengths
<1>3. e \in Lengths
  BY <1>1, <1>2 DEF Lengths, Fields
<1>4. PICK h : h = HostStart(u)
  OBVIOUS
<1>5. h = [u EXCEPT !.len = e, !.s = "s_http_host_start"]
  <2>1. h = [u EXCEPT !.len["UF_HOST"] = 0, !.s = "s_http_host_start"]
    BY Zenon, <1>4 DEF HostStart
  <2>2. u = [s |-> u.s, old_uf |-> u.old_uf, found_at |-> u.found_at,
             field_set |-> u.field_set, off |-> u.off, len |-> u.len]
    BY DEF Scans
  <2> QED BY <1>1, <2>1, <2>2
<1>6. "s_http_host_start" \in HStates
  BY DEF HStates, HostStates
<1>7. /\ h \in Hosts /\ h.s = "s_http_host_start" /\ h.field_set = u.field_set /\ h.off = u.off
      /\ h.len = e
  BY <1>3, <1>5, <1>6 DEF Hosts, Scans
<1> QED BY <1>1, <1>4, <1>7

\* What http_parse_host makes of the origin.
OriginHost(u, h) ==
  /\ h \in Hosts /\ h.s = "s_http_host_port"
  /\ h.field_set = u.field_set \cup {"UF_HOST", "UF_PORT"}
  /\ h.off["UF_HOST"] = 5 /\ h.len["UF_HOST"] = 1
  /\ h.off["UF_PORT"] = 7 /\ h.len["UF_PORT"] = 1
  /\ \A f \in Fields \ HostParts : h.off[f] = u.off[f] /\ h.len[f] = u.len[f]

LEMMA HostLoopStep ==
  ASSUME NEW t, NEW a \in Nat, NEW n \in Nat, NEW h, NEW g, IsHost(t, a, n, h, g),
         NEW k \in Nat, NEW q \in Nat, q = k + 1, q <= n, NEW p, p = a + q - 1
  PROVE  g[q] = HostStep(g[k], p, t[p])
<1>1. q \in 0 .. n /\ q # 0 /\ q - 1 = k
  OBVIOUS
<1>2. \A i \in 0 .. n : g[i] = IF i = 0 THEN h ELSE HostStep(g[i - 1], a + i - 1, t[a + i - 1])
  BY DEF IsHost
<1> QED BY <1>1, <1>2

LEMMA HostOfOrigin ==
  ASSUME NEW z, z[5] = "1", z[6] = ":", z[7] = "1",
         NEW u \in Scans, ~u.found_at, u.off["UF_HOST"] = 5, u.len["UF_HOST"] = 3,
         "UF_HOST" \in u.field_set, SmallWords
  PROVE  OriginHost(u, http_parse_host(z, u))
<1>1. PICK g : IsHost(z, 5, 3, HostStart(u), g) /\ http_parse_host(z, u) = g[3]
  <2>1. u.len["UF_HOST"] \in Nat
    OBVIOUS
  <2> QED BY <2>1, HostIs
<1>2. PICK h0 : h0 = HostStart(u)
  OBVIOUS
<1>3. PICK e : /\ e = [u.len EXCEPT !["UF_HOST"] = 0]
               /\ h0 \in Hosts /\ h0.s = "s_http_host_start" /\ h0.field_set = u.field_set
               /\ h0.off = u.off /\ h0.len = e
  BY <1>2, HostStarts
<1>4. g[0] = h0
  BY <1>1, <1>2 DEF IsHost
<1>5. /\ g[1] = HostStep(h0, 5, "1")
      /\ g[2] = HostStep(g[1], 6, ":")
      /\ g[3] = HostStep(g[2], 7, "1")
  <2>1. PICK a \in Nat, n \in Nat : a = 5 /\ n = 3 /\ IsHost(z, a, n, h0, g)
    BY <1>1, <1>2
  <2>2. g[1] = HostStep(g[0], 5, z[5])
    <3>1. 1 = 0 + 1 /\ 1 <= n /\ 5 = a + 1 - 1 /\ 0 \in Nat /\ 1 \in Nat
      BY <2>1
    <3> QED BY ONLY <2>1, <3>1, HostLoopStep
  <2>3. g[2] = HostStep(g[1], 6, z[6])
    <3>1. 2 = 1 + 1 /\ 2 <= n /\ 6 = a + 2 - 1 /\ 1 \in Nat /\ 2 \in Nat
      BY <2>1
    <3> QED BY ONLY <2>1, <3>1, HostLoopStep
  <2>4. g[3] = HostStep(g[2], 7, z[7])
    <3>1. 3 = 2 + 1 /\ 3 <= n /\ 7 = a + 3 - 1 /\ 2 \in Nat /\ 3 \in Nat
      BY <2>1
    <3> QED BY ONLY <2>1, <3>1, HostLoopStep
  <2> QED BY <1>4, <2>2, <2>3, <2>4
<1>6. PICK h1, h2, h3 : h1 = g[1] /\ h2 = g[2] /\ h3 = g[3]
  OBVIOUS
<1>7. /\ {"s_http_host", "s_http_host_port_start", "s_http_host_port"} \subseteq HStates
      /\ {"s_http_host", "s_http_host_port"} \subseteq HFieldStates
      /\ "s_http_host_port_start" \notin HFieldStates
      /\ HostFieldOf["s_http_host"] = "UF_HOST" /\ HostFieldOf["s_http_host_port"] = "UF_PORT"
      /\ {"UF_HOST", "UF_PORT"} \subseteq Fields /\ {"UF_HOST", "UF_PORT"} \subseteq HostParts
  BY DEF HStates, HostStates, HFieldStates, HostFieldOf, Fields, HostParts
<1>8. u.off \in [Fields -> Nat] /\ u.len \in [Fields -> Nat]
  BY DEF Scans, Lengths
<1>9. /\ h1 \in Hosts /\ h1.s = "s_http_host" /\ h1.field_set = u.field_set \cup {"UF_HOST"}
      /\ h1.off = [u.off EXCEPT !["UF_HOST"] = 5] /\ h1.len = [e EXCEPT !["UF_HOST"] = 1]
  <2>1. HStepped(h0, 5, "s_http_host", h1)
    BY <1>3, <1>5, <1>6, <1>7, HostOfOriginSteps, HostStepIs
  <2>2. e["UF_HOST"] = 0
    BY <1>3, <1>7, <1>8
  <2>3. PICK b : b = h0.off["UF_HOST"]
    OBVIOUS
  <2>4. /\ h1.off = [u.off EXCEPT !["UF_HOST"] = IF "s_http_host" # h0.s THEN Off(5) ELSE b]
        /\ h1.len = [e EXCEPT !["UF_HOST"] = IF "s_http_host" # h0.s /\ "UF_HOST" # "UF_HOST"
                                             THEN 1 ELSE OneMore(e["UF_HOST"])]
        /\ h1.field_set = u.field_set \cup {"UF_HOST"} /\ h1 \in Hosts /\ h1.s = "s_http_host"
    BY <1>3, <1>7, <2>1, <2>3 DEF HStepped
  <2>5. "s_http_host" # h0.s
    BY <1>3
  <2>6. OneMore(e["UF_HOST"]) = 1 /\ Off(5) = 5
    BY <2>2 DEF SmallWords
  <2> QED BY Zenon, <2>4, <2>5, <2>6
<1>10. /\ h2 \in Hosts /\ h2.s = "s_http_host_port_start" /\ h2.field_set = h1.field_set
       /\ h2.off = h1.off /\ h2.len = h1.len
  <2>1. HStepped(h1, 6, "s_http_host_port_start", h2)
    BY <1>5, <1>6, <1>7, <1>9, HostOfOriginSteps, HostStepIs
  <2> QED BY <1>7, <2>1 DEF HStepped
<1>11. /\ h3 \in Hosts /\ h3.s = "s_http_host_port"
       /\ h3.field_set = u.field_set \cup {"UF_HOST"} \cup {"UF_PORT"}
       /\ h3.off = [h1.off EXCEPT !["UF_PORT"] = 7] /\ h3.len = [h1.len EXCEPT !["UF_PORT"] = 1]
  <2>1. HStepped(h2, 7, "s_http_host_port", h3)
    BY <1>5, <1>6, <1>7, <1>10, HostOfOriginSteps, HostStepIs
  <2>2. PICK b, c : b = h2.off["UF_PORT"] /\ c = h2.len["UF_PORT"]
    OBVIOUS
  <2>3. /\ h3.off = [h1.off EXCEPT !["UF_PORT"] = IF "s_http_host_port" # h2.s THEN Off(7) ELSE b]
        /\ h3.len = [h1.len EXCEPT !["UF_PORT"] =
                       IF "s_http_host_port" # h2.s /\ "UF_PORT" # "UF_HOST" THEN 1 ELSE OneMore(c)]
        /\ h3.field_set = u.field_set \cup {"UF_HOST"} \cup {"UF_PORT"}
        /\ h3 \in Hosts /\ h3.s = "s_http_host_port"
    BY <1>7, <1>9, <1>10, <2>1, <2>2 DEF HStepped
  <2>4. "s_http_host_port" # h2.s /\ "UF_PORT" # "UF_HOST" /\ Off(7) = 7
    BY <1>10 DEF SmallWords
  <2> QED BY Zenon, <2>3, <2>4
<1>12. h1.off \in [Fields -> Nat] /\ h1.len \in [Fields -> Nat] /\ e \in [Fields -> Nat]
  BY <1>3, <1>8, <1>9 DEF Hosts, Lengths
<1>13. /\ h1.off["UF_HOST"] = 5 /\ h1.len["UF_HOST"] = 1
       /\ \A f \in Fields \ HostParts : h1.off[f] = u.off[f] /\ h1.len[f] = u.len[f]
  <2>1. h1.off["UF_HOST"] = 5 /\ h1.len["UF_HOST"] = 1
    BY <1>7, <1>8, <1>9, <1>12
  <2>2. \A f \in Fields \ HostParts : h1.off[f] = u.off[f] /\ h1.len[f] = e[f]
    BY <1>7, <1>8, <1>9, <1>12
  <2>3. \A f \in Fields \ HostParts : e[f] = u.len[f]
    BY <1>3, <1>7, <1>8
  <2> QED BY <2>1, <2>2, <2>3
<1>14. /\ h3.off["UF_HOST"] = 5 /\ h3.len["UF_HOST"] = 1
       /\ h3.off["UF_PORT"] = 7 /\ h3.len["UF_PORT"] = 1
       /\ \A f \in Fields \ HostParts : h3.off[f] = u.off[f] /\ h3.len[f] = u.len[f]
  <2>1. /\ h3.off["UF_HOST"] = 5 /\ h3.len["UF_HOST"] = 1
        /\ h3.off["UF_PORT"] = 7 /\ h3.len["UF_PORT"] = 1
    BY <1>7, <1>11, <1>12, <1>13
  <2>2. \A f \in Fields \ HostParts : h3.off[f] = h1.off[f] /\ h3.len[f] = h1.len[f]
    BY <1>7, <1>11, <1>12
  <2> QED BY <1>13, <2>1, <2>2
<1>15. h3.field_set = u.field_set \cup {"UF_HOST", "UF_PORT"}
  BY <1>11
<1>16. OriginHost(u, h3)
  BY ONLY <1>11, <1>14, <1>15 DEF OriginHost
<1> QED BY <1>1, <1>6, <1>16

\* One symbol of a text.
LEMMA OneSymbol ==
  ASSUME NEW t \in Seq(UrlAlphabet), NEW o \in 1 .. Len(t)
  PROVE  SubSeq(t, o, o + 1 - 1) = <<t[o]>> /\ Len(SubSeq(t, o, o + 1 - 1)) = 1
<1>1. PICK y : y = SubSeq(t, o, o + 1 - 1)
  OBVIOUS
<1>2. y \in Seq(UrlAlphabet) /\ Len(y) = 1 /\ y[1] = t[o]
  BY <1>1
<1>3. y = <<t[o]>>
  BY <1>2
<1> QED BY <1>1, <1>2, <1>3

LEMMA PortIs ==
  ASSUME NEW t \in Seq(UrlAlphabet), NEW h, "UF_PORT" \in h.field_set, h.off["UF_PORT"] = 7,
         8 <= Len(t), t[7] = "1", t[8] = "/"
  PROVE  PortOf(t, h) = 1
<1> DEFINE Digits(n) == \A i \in 0 .. n : i < n <=> 7 + i \in DOMAIN t /\ t[7 + i] \in IS_NUM
<1>11. DOMAIN t = 1 .. Len(t) /\ Len(t) \in Nat
  OBVIOUS
<1>12. /\ 7 + 0 \in DOMAIN t /\ t[7 + 0] \in IS_NUM
       /\ 7 + 1 \in DOMAIN t /\ t[7 + 1] \notin IS_NUM
  BY <1>11 DEF IS_NUM
<1>13. Digits(1) /\ 1 \in 0 .. Len(t)
  <2>1. 0 .. 1 = {0, 1} /\ 0 < 1 /\ ~(1 < 1)
    OBVIOUS
  <2> QED BY <1>11, <1>12, <2>1
<1>14. ASSUME NEW n \in 0 .. Len(t), Digits(n) PROVE n = 1
  <2>1. n # 0
    <3>1. SUFFICES ASSUME n = 0 PROVE FALSE
      OBVIOUS
    <3>2. 0 \in 0 .. n /\ ~(0 < n)
      BY <3>1
    <3> QED BY <1>12, <1>14, <3>2
  <2>2. ~(n > 1)
    <3>1. SUFFICES ASSUME n > 1 PROVE FALSE
      OBVIOUS
    <3>2. 1 \in 0 .. n /\ 1 < n
      BY <3>1
    <3> QED BY <1>12, <1>14, <3>2
  <2> QED BY <1>11, <2>1, <2>2
<1>15. (CHOOSE n \in 0 .. Len(t) : Digits(n)) = 1
  <2>1. PICK d : d = CHOOSE n \in 0 .. Len(t) : Digits(n)
    OBVIOUS
  <2>2. d \in 0 .. Len(t) /\ Digits(d)
    BY <1>13, <2>1
  <2> QED BY <1>14, <2>1, <2>2
<1> DEFINE IsPort(v) == v = [n \in 0 .. 1 |-> IF n = 0 THEN 0 ELSE 10 * v[n - 1] + 1]
<1>1. PICK w : w = [n \in 0 .. 1 |-> n]
  OBVIOUS
<1>2. w[0] = 0 /\ w[1] = 1 /\ 0 .. 1 = {0, 1}
  BY <1>1
<1>3. \A n \in 0 .. 1 : w[n] = IF n = 0 THEN 0 ELSE 10 * w[n - 1] + 1
  BY <1>2
<1>4. IsPort(w)
  BY <1>1, <1>3
<1>5. PICK v : v = CHOOSE f : IsPort(f)
  OBVIOUS
<1>6. IsPort(v)
  BY <1>4, <1>5
<1>7. \A n \in 0 .. 1 : v[n] = IF n = 0 THEN 0 ELSE 10 * v[n - 1] + 1
  BY <1>6
<1>8. v[0] = 0
  BY <1>2, <1>7
<1>9. v[1] = 1
  <2>1. v[1] = 10 * v[1 - 1] + 1
    BY <1>2, <1>7
  <2>2. 1 - 1 = 0
    OBVIOUS
  <2> QED BY <1>8, <2>1, <2>2
<1>10. PortOf(t, h) = v[1]
  <2>1. PICK d : d = CHOOSE n \in 0 .. Len(t) : Digits(n)
    OBVIOUS
  <2>2. d = 1
    BY <1>15, <2>1
  <2>3. PortOf(t, h) = (CHOOSE w2 : w2 = [n \in 0 .. d |-> IF n = 0 THEN 0
                                                           ELSE 10 * w2[n - 1] + 1])[d]
    BY <2>1 DEF PortOf
  <2> QED BY <1>5, <2>2, <2>3
<1> QED BY <1>9, <1>10

\* A part of what is behind the origin.
LEMMA PartShifted ==
  ASSUME NEW y \in Seq(UrlAlphabet), NEW z, Behind(z, y),
         NEW o \in Nat, NEW l \in Nat, o >= 1, l >= 1, o + l <= Len(y) + 1
  PROVE  SubSeq(z, o + 7, o + 7 + l - 1) = SubSeq(y, o, o + l - 1)
<1>1. PICK a, b : a = SubSeq(z, o + 7, o + 7 + l - 1) /\ b = SubSeq(y, o, o + l - 1)
  OBVIOUS
<1>2. z \in Seq(UrlAlphabet) /\ Len(z) = Len(y) + 7 /\ \A i \in 1 .. Len(y) : z[7 + i] = y[i]
  BY DEF Behind
<1>3. b \in Seq(UrlAlphabet) /\ Len(b) = l /\ \A i \in 1 .. l : b[i] = y[o + i - 1]
  BY <1>1
<1>4. a \in Seq(UrlAlphabet) /\ Len(a) = l /\ \A i \in 1 .. l : a[i] = z[o + 7 + i - 1]
  BY <1>1, <1>2
<1>5. \A i \in 1 .. l : o + i - 1 \in 1 .. Len(y) /\ o + 7 + i - 1 = 7 + (o + i - 1)
  OBVIOUS
<1>6. ASSUME NEW i \in 1 .. l PROVE a[i] = b[i]
  <2>1. z[7 + (o + i - 1)] = y[o + i - 1]
    BY ONLY <1>2, <1>5, i \in 1 .. l
  <2>2. a[i] = z[7 + (o + i - 1)]
    BY ONLY <1>4, <1>5, i \in 1 .. l
  <2> QED BY ONLY <1>3, <2>1, <2>2, i \in 1 .. l
<1>7. a = b
  BY ONLY <1>3, <1>4, <1>6, SeqEqual, l \in Nat
<1> QED BY <1>1, <1>7

\* A request behind the origin, read as an URL.
LEMMA BehindIsParsed ==
  ASSUME NEW y \in Seq(UrlAlphabet), y # <<>>, y[1] = "/", \A i \in 1 .. Len(y) : y[i] # "CR",
         NEW z, Behind(z, y), Len(z) < Word
  PROVE  \E h : /\ ParseUrl(z, ScanUrl(z)) = {UrlOf(z, h)}
                /\ UrlOf(z, h).Host = <<"1">> /\ UrlOf(z, h).Port = <<"1">>
                /\ ReadsAs(y, UrlOf(z, h).Path, UrlOf(z, h).Args, UrlOf(z, h).Fragment)
<1>1. PICK v, u : v = ScanUrl(y) /\ u = ScanUrl(z) /\ Shifted(v, u)
  BY ScansShifted
<1>2. /\ z \in Seq(UrlAlphabet) /\ Len(z) = Len(y) + 7
      /\ z[5] = "1" /\ z[6] = ":" /\ z[7] = "1"
  BY DEF Behind
<1>15. PICK m \in Nat : m = Len(y) /\ m >= 1 /\ Len(z) = m + 7 /\ m + 7 < Word
  BY <1>2
<1>16. z[8] = "/"
  <2>1. \A i \in 1 .. m : z[7 + i] = y[i]
    BY <1>15 DEF Behind
  <2>2. 1 \in 1 .. m /\ 7 + 1 = 8
    BY <1>15
  <2> QED BY <2>1, <2>2
<1>17. SmallWords /\ Len(y) < Word
  <2>1. Word \in Nat
    BY WordAssumption
  <2>2. 8 < Word /\ m < Word
    BY ONLY <1>15, <2>1
  <2> QED BY <1>15, <2>2, WordsAreSmall
<1>3. /\ u \in Scans /\ ~u.found_at /\ u.s \in UriEnds /\ v.s \in UriEnds
      /\ v.field_set \subseteq LastFields /\ "UF_PATH" \in v.field_set
      /\ u.field_set = v.field_set \cup {"UF_SCHEMA", "UF_HOST"}
      /\ u.off["UF_HOST"] = 5 /\ u.len["UF_HOST"] = 3
  BY <1>1 DEF Shifted
<1>4. PICK h : h = http_parse_host(z, u) /\ OriginHost(u, h)
  BY <1>2, <1>3, <1>17, HostOfOrigin
<1>5. /\ h.s = "s_http_host_port"
      /\ h.field_set = v.field_set \cup {"UF_SCHEMA", "UF_HOST", "UF_PORT"}
      /\ h.off["UF_HOST"] = 5 /\ h.len["UF_HOST"] = 1
      /\ h.off["UF_PORT"] = 7 /\ h.len["UF_PORT"] = 1
  BY <1>3, <1>4 DEF OriginHost
<1>6. Field(z, h, "UF_HOST") = <<"1">>
  <2>1. 5 \in 1 .. Len(z)
    BY <1>2
  <2>2. SubSeq(z, 5, 5 + 1 - 1) = <<"1">>
    BY <1>2, <2>1, OneSymbol
  <2> QED BY <1>5, <2>2 DEF Field
<1>7. Field(z, h, "UF_PORT") = <<"1">> /\ Len(Field(z, h, "UF_PORT")) = 1
  <2>1. 7 \in 1 .. Len(z)
    BY <1>2
  <2>2. SubSeq(z, 7, 7 + 1 - 1) = <<"1">> /\ Len(SubSeq(z, 7, 7 + 1 - 1)) = 1
    BY <1>2, <2>1, OneSymbol
  <2> QED BY <1>5, <2>2 DEF Field
<1>8. ParsedUrls(z, u) = {h}
  <2>1. PortOf(z, h) <= MaxPort
    <3>1. "UF_PORT" \in h.field_set /\ 8 <= Len(z)
      BY <1>5, <1>15
    <3>2. PortOf(z, h) = 1
      BY ONLY <1>2, <1>5, <1>16, <3>1, PortIs
    <3> QED BY <3>2, MaxPortAssumption
  <2>2. h.s \in HostEnds /\ u.s # "s_dead" /\ "UF_HOST" \in u.field_set
    BY <1>3, <1>5, LastAreFields DEF HostEnds
  <2> QED BY <1>4, <2>1, <2>2 DEF ParsedUrls
<1>9. ParseUrl(z, u) = {UrlOf(z, h)}
  <2>1. {"UF_SCHEMA", "UF_HOST"} \subseteq h.field_set
    BY <1>5
  <2> QED BY <1>8, <2>1 DEF ParseUrl
<1>10. ASSUME NEW f \in LastFields
       PROVE  (f \in h.field_set <=> f \in v.field_set) /\ Field(z, h, f) = Field(y, v, f)
  <2>1. f \in Fields \ HostParts /\ f \notin {"UF_SCHEMA", "UF_HOST", "UF_PORT"}
    BY DEF LastFields, Fields, HostParts
  <2>2. f \in h.field_set <=> f \in v.field_set
    BY <1>5, <2>1
  <2>3. CASE f \notin v.field_set
    BY <2>2, <2>3 DEF Field
  <2>4. CASE f \in v.field_set
    <3>1. Laid(y, v.field_set, v.off, v.len, 1, Len(y)) /\ v \in Scans
      <4>1. ScanText(y, Len(y), v) /\ v.s # "s_dead"
        BY <1>1, <1>3, <1>17, ScanHolds, LastAreFields
      <4> QED BY <4>1 DEF ScanText, ScanInv
    <3>2. v.off \in [Fields -> Nat] /\ v.len \in [Fields -> Nat]
      BY <3>1 DEF Scans, Lengths
    <3>3. PICK o \in Nat, l \in Nat : o = v.off[f] /\ l = v.len[f]
      BY <2>1, <3>2
    <3>4. o >= 1 /\ l >= 1 /\ o + l <= Len(y) + 1
      BY <2>4, <3>1, <3>3 DEF Laid, Inside
    <3>5. h.off[f] = o + 7 /\ h.len[f] = l
      <4>1. h.off[f] = u.off[f] /\ h.len[f] = u.len[f]
        BY <1>4, <2>1 DEF OriginHost
      <4>2. u.off[f] = v.off[f] + 7 /\ u.len[f] = v.len[f]
        BY <1>1, <2>4 DEF Shifted
      <4> QED BY <3>3, <4>1, <4>2
    <3>6. SubSeq(z, o + 7, o + 7 + l - 1) = SubSeq(y, o, o + l - 1)
      BY <3>4, PartShifted
    <3>7. Field(z, h, f) = SubSeq(z, o + 7, o + 7 + l - 1)
      BY <2>2, <2>4, <3>5 DEF Field
    <3>8. Field(y, v, f) = SubSeq(y, o, o + l - 1)
      BY <2>4, <3>3 DEF Field
    <3> QED BY <2>2, <3>6, <3>7, <3>8
  <2> QED BY <2>3, <2>4
<1>11. {"UF_PATH", "UF_QUERY", "UF_FRAGMENT"} = LastFields
  BY DEF LastFields
<1>12. PICK url : url = UrlOf(z, h)
  OBVIOUS
<1>13. /\ url.Host = <<"1">> /\ url.Port = <<"1">>
       /\ url.Path = Field(y, v, "UF_PATH") /\ url.Args = Field(y, v, "UF_QUERY")
       /\ url.Fragment = Field(y, v, "UF_FRAGMENT")
  <2>1. "UF_PATH" \in h.field_set
    BY <1>5, <1>3
  <2>2. url.Host = Field(z, h, "UF_HOST") /\ url.Port = OrElse(Field(z, h, "UF_PORT"), <<"80">>)
        /\ url.Path = Field(z, h, "UF_PATH") /\ url.Args = Field(z, h, "UF_QUERY")
        /\ url.Fragment = Field(z, h, "UF_FRAGMENT")
    BY <1>12, <2>1 DEF UrlOf
  <2>3. OrElse(Field(z, h, "UF_PORT"), <<"80">>) = Field(z, h, "UF_PORT")
    <3>1. Field(z, h, "UF_PORT") # <<>>
      <4>1. <<"1">> # <<>>
        BY ONLY Zenon
      <4> QED BY Zenon, <1>7, <4>1
    <3> QED BY <3>1 DEF OrElse
  <2> QED BY <1>6, <1>7, <1>10, <1>11, <2>2, <2>3
<1>14. ReadsAs(y, url.Path, url.Args, url.Fragment)
  BY <1>1, <1>3, <1>13 DEF ReadsAs
<1> QED BY <1>1, <1>9, <1>12, <1>13, <1>14

\* The directory of a request: a "/" is the last one.
LEMMA LastSlash ==
  ASSUME NEW t \in Seq(UrlAlphabet), t # <<>>, t[1] = "/"
  PROVE  \E m \in 1 .. Len(t) : t[m] = "/" /\ \A j \in 1 .. Len(t) : t[j] = "/" => j <= m
<1>1. PICK n \in Nat : n = Len(t) /\ n >= 1
  OBVIOUS
<1>2. PICK T : T = {k \in 0 .. n - 1 : t[n - k] = "/"}
  OBVIOUS
<1>3. n - 1 \in 0 .. n - 1 /\ n - (n - 1) = 1
  BY <1>1
<1>4. n - 1 \in T /\ T \subseteq Nat
  BY <1>2, <1>3
<1>5. PICK k \in T : \A j \in T : k <= j
  BY <1>4, NatLeast
<1>6. k \in 0 .. n - 1 /\ t[n - k] = "/"
  BY <1>2, <1>5
<1>7. ASSUME NEW j \in 1 .. n, t[j] = "/" PROVE j <= n - k
  <2>1. n - j \in 0 .. n - 1 /\ n - (n - j) = j
    OBVIOUS
  <2>2. n - j \in T
    BY <1>2, <1>7, <2>1
  <2>3. k <= n - j
    BY <1>5, <2>2
  <2> QED BY <1>6, <2>1, <2>3
<1>8. n - k \in 1 .. n
  BY <1>6
<1> QED BY <1>1, <1>6, <1>7, <1>8

LEMMA DirectoryIs ==
  ASSUME NEW t \in Seq(UrlAlphabet), t # <<>>, t[1] = "/", \A i \in QueryPart(t) : t[i] # "/"
  PROVE  /\ UpToLastSlash(t) \in Seq(UrlAlphabet)
         /\ Directory(t) = UpToLastSlash(t) \o <<"/">>
         /\ Directory(t) \in Seq(UrlAlphabet) /\ Directory(t) # <<>> /\ Directory(t)[1] = "/"
         /\ \A i \in 1 .. Len(Directory(t)) : \E j \in 1 .. Len(t) : Directory(t)[i] = t[j]
<1>1. PICK n \in Nat : n = Len(t) /\ n >= 1
  OBVIOUS
<1>2. PICK m \in 1 .. n : t[m] = "/" /\ \A j \in 1 .. n : t[j] = "/" => j <= m
  BY <1>1, LastSlash
<1>3. PICK U, D : U = SubSeq(t, 1, m - 1) /\ D = SubSeq(t, 1, m)
  OBVIOUS
<1>4. UpToLastSlash(t) = U
  <2>1. PICK slashes : slashes = {i \in DOMAIN t : t[i] = "/"}
    OBVIOUS
  <2>2. m \in slashes /\ \A j \in slashes : j <= m /\ j \in Nat
    BY <1>1, <1>2, <2>1
  <2>3. PICK i : i = CHOOSE g \in slashes : \A j \in slashes : j <= g
    OBVIOUS
  <2>4. i \in slashes /\ \A j \in slashes : j <= i
    BY <2>2, <2>3
  <2>5. i = m
    BY <2>2, <2>4
  <2>6. slashes # {}
    BY <2>2
  <2>7. UpToLastSlash(t) = IF slashes = {} THEN t ELSE SubSeq(t, 1, i - 1)
    BY <2>1, <2>3 DEF UpToLastSlash
  <2> QED BY <1>3, <2>5, <2>6, <2>7
<1>5. Directory(t) = D
  <2> DEFINE P(k) == /\ \A i \in (k + 1) .. Len(t) : t[i] # "/" \/ i \in QueryPart(t)
                     /\ k > 0 => t[k] = "/" /\ k \notin QueryPart(t)
  <2>1. P(m)
    <3>1. \A i \in (m + 1) .. Len(t) : i \in 1 .. n /\ ~(i <= m)
      BY <1>1
    <3> QED BY <1>2, <3>1
  <2>2. m \in 0 .. Len(t)
    BY <1>1
  <2>3. PICK k : k = CHOOSE j \in 0 .. Len(t) : P(j)
    OBVIOUS
  <2>4. k \in 0 .. Len(t) /\ P(k)
    BY <2>1, <2>2, <2>3
  <2>5. k >= m
    <3>1. SUFFICES ASSUME k < m PROVE FALSE
      BY <2>4
    <3>2. m \in (k + 1) .. Len(t)
      BY <1>1, <2>4, <3>1
    <3>3. t[m] # "/" \/ m \in QueryPart(t)
      BY <2>4, <3>2
    <3> QED BY <1>2, <3>3
  <2>6. k <= m
    <3>1. k > 0 /\ k \in 1 .. n
      BY <1>1, <2>4, <2>5
    <3> QED BY <1>2, <2>4, <3>1
  <2>7. k = m
    BY <2>4, <2>5, <2>6
  <2>8. Directory(t) = SubSeq(t, 1, k)
    BY <2>3 DEF Directory
  <2> QED BY <1>3, <2>7, <2>8
<1>6. /\ U \in Seq(UrlAlphabet) /\ Len(U) = m - 1 /\ \A i \in 1 .. m - 1 : U[i] = t[i]
      /\ D \in Seq(UrlAlphabet) /\ Len(D) = m /\ \A i \in 1 .. m : D[i] = t[i]
  BY <1>1, <1>3
<1>7. PICK s : s = <<"/">>
  OBVIOUS
<1>8. s \in Seq(UrlAlphabet) /\ Len(s) = 1 /\ s[1] = "/"
  <2>1. "/" \in UrlAlphabet
    BY DEF UrlAlphabet
  <2> QED BY <1>7, <2>1
<1>9. PICK E : E = U \o s
  OBVIOUS
<1>10. /\ E \in Seq(UrlAlphabet) /\ Len(E) = Len(U) + Len(s)
       /\ \A i \in 1 .. Len(U) : E[i] = U[i]
       /\ \A i \in 1 .. Len(s) : E[Len(U) + i] = s[i]
  <2>1. U \in Seq(UrlAlphabet) /\ s \in Seq(UrlAlphabet)
    BY <1>6, <1>8
  <2> QED BY ONLY <1>9, <2>1, ConcatIs
<1>11. Len(E) = m /\ \A i \in 1 .. m : E[i] = D[i]
  <2>1. Len(E) = m
    BY <1>6, <1>8, <1>10
  <2>2. E[m] = "/" /\ D[m] = "/"
    <3>1. 1 \in 1 .. Len(s) /\ Len(U) + 1 = m
      BY <1>6, <1>8
    <3>2. E[m] = s[1]
      BY <1>10, <3>1
    <3> QED BY <1>2, <1>6, <1>8, <3>2
  <2>3. \A i \in 1 .. m : i \in 1 .. m - 1 \/ i = m
    OBVIOUS
  <2>4. \A i \in 1 .. m - 1 : E[i] = t[i] /\ D[i] = t[i]
    BY <1>6, <1>10
  <2> QED BY <2>1, <2>2, <2>3, <2>4
<1>12. E = D
  BY ONLY <1>6, <1>10, <1>11, SeqEqual, m \in Nat
<1>13. D # <<>> /\ D[1] = "/"
  <2>1. Len(<<>>) = 0
    OBVIOUS
  <2> QED BY <1>6, <2>1
<1>14. \A i \in 1 .. Len(D) : \E j \in 1 .. Len(t) : D[i] = t[j]
  <2>1. \A i \in 1 .. m : i \in 1 .. Len(t)
    BY <1>1
  <2> QED BY <1>6, <2>1
<1> QED BY <1>4, <1>5, <1>6, <1>7, <1>9, <1>12, <1>13, <1>14

\* What an entry of the playlist that answers b asks for.
IsTarget(y, t, b) == y = IF t[1] = "/" THEN t ELSE Directory(b) \o t

Targeted(y, t, b) ==
  /\ y \in Seq(UrlAlphabet) /\ y # <<>> /\ y[1] = "/" /\ \A i \in 1 .. Len(y) : y[i] # "CR"
  /\ RequestUrl(t, b) = Origin \o y

\* It is behind the origin.
\* Joining is associative.
IsJoint(z, x, y) == z = x \o y

LEMMA Regroups ==
  ASSUME NEW S, NEW x \in Seq(S), NEW y \in Seq(S), NEW z \in Seq(S), NEW l, IsJoint(l, x, y),
         NEW r, IsJoint(r, y, z), NEW v, IsJoint(v, l, z), NEW w, IsJoint(w, x, r)
  PROVE  v = w
<1>1. l = x \o y /\ r = y \o z /\ v = l \o z /\ w = x \o r
  BY DEF IsJoint
<1>2. (x \o y) \o z = x \o (y \o z)
  BY ONLY x \in Seq(S), y \in Seq(S), z \in Seq(S), ConcatAssociative
<1> QED BY ONLY <1>1, <1>2, Zenon

Regrouped(o, u, s, t) == ((o \o u) \o s) \o t = o \o ((u \o s) \o t)

LEMMA UrlRegroups ==
  ASSUME NEW o \in Seq(UrlAlphabet), NEW u \in Seq(UrlAlphabet), NEW s \in Seq(UrlAlphabet),
         NEW t \in Seq(UrlAlphabet)
  PROVE  Regrouped(o, u, s, t)
<1>1. PICK l : l = o \o u
  OBVIOUS
<1>2. PICK e : e = u \o s
  OBVIOUS
<1>3. e \in Seq(UrlAlphabet)
  BY ONLY <1>2, u \in Seq(UrlAlphabet), s \in Seq(UrlAlphabet), ConcatIs
<1>4. PICK x, y : x = l \o s /\ y = o \o e
  OBVIOUS
<1>5. PICK r, v, w : r = e \o t /\ v = x \o t /\ w = o \o r
  OBVIOUS
<1>6. IsJoint(l, o, u) /\ IsJoint(e, u, s) /\ IsJoint(x, l, s) /\ IsJoint(y, o, e)
  BY ONLY <1>1, <1>2, <1>4, Zenon DEF IsJoint
<1>7. o \in Seq(UrlAlphabet) /\ u \in Seq(UrlAlphabet) /\ s \in Seq(UrlAlphabet)
      /\ t \in Seq(UrlAlphabet)
  OBVIOUS
<1>8. x = y
  BY ONLY <1>6, <1>7, Regroups
<1>9. IsJoint(y, o, e) /\ IsJoint(r, e, t) /\ IsJoint(v, y, t) /\ IsJoint(w, o, r)
  BY ONLY <1>4, <1>5, <1>8, Zenon DEF IsJoint
<1>10. v = w
  BY ONLY <1>3, <1>7, <1>9, Regroups
<1>11. v = ((o \o u) \o s) \o t /\ w = o \o ((u \o s) \o t)
  BY ONLY <1>1, <1>2, <1>4, <1>5, Zenon
<1> QED BY ONLY <1>10, <1>11, Zenon DEF Regrouped

LEMMA TargetIs ==
  ASSUME NEW t \in Seq(UrlAlphabet), t # <<>>, \A i \in 1 .. Len(t) : t[i] # "CR", ~HasScheme(t),
         NEW b \in Seq(UrlAlphabet), b # <<>>, b[1] = "/", \A i \in 1 .. Len(b) : b[i] # "CR",
         \A i \in QueryPart(b) : b[i] # "/",
         NEW y, IsTarget(y, t, b)
  PROVE  Targeted(y, t, b)
<1>1. CASE t[1] = "/"
  BY <1>1 DEF RequestUrl, IsTarget, Targeted
<1>2. CASE t[1] # "/"
  <2>1. PICK D, U, s, o : /\ D = Directory(b) /\ U = UpToLastSlash(b) /\ s = <<"/">> /\ o = Origin
    OBVIOUS
  <2>2. /\ U \in Seq(UrlAlphabet) /\ D = U \o s
        /\ D \in Seq(UrlAlphabet) /\ D # <<>> /\ D[1] = "/"
        /\ \A i \in 1 .. Len(D) : \E j \in 1 .. Len(b) : D[i] = b[j]
    BY <2>1, DirectoryIs
  <2>3. PICK x : x = D \o t
    OBVIOUS
  <2>4. /\ x \in Seq(UrlAlphabet) /\ Len(x) = Len(D) + Len(t)
        /\ \A i \in 1 .. Len(D) : x[i] = D[i]
        /\ \A i \in 1 .. Len(t) : x[Len(D) + i] = t[i]
    <3>1. D \in Seq(UrlAlphabet) /\ t \in Seq(UrlAlphabet)
      BY <2>2
    <3> QED BY ONLY <2>3, <3>1, ConcatIs
  <2>5. PICK d \in Nat, k \in Nat : d = Len(D) /\ k = Len(t) /\ d >= 1
    BY <2>2
  <2>6. \A i \in 1 .. d + k : i \in 1 .. d \/ (i - d \in 1 .. k /\ d + (i - d) = i)
    OBVIOUS
  <2>7. \A i \in 1 .. Len(x) : x[i] # "CR"
    <3>1. \A i \in 1 .. d : x[i] # "CR"
      <4>1. SUFFICES ASSUME NEW i \in 1 .. Len(D) PROVE x[i] # "CR"
        BY <2>5
      <4>2. PICK j \in 1 .. Len(b) : D[i] = b[j]
        BY <2>2
      <4>3. x[i] = D[i]
        BY ONLY <2>4, i \in 1 .. Len(D)
      <4> QED BY <4>2, <4>3
    <3>2. \A i \in 1 .. k : x[d + i] # "CR"
      BY <2>4, <2>5
    <3>3. Len(x) = d + k
      BY <2>4, <2>5
    <3>4. SUFFICES ASSUME NEW i \in 1 .. d + k PROVE x[i] # "CR"
      BY <3>3
    <3>5. CASE i \in 1 .. d
      BY <3>1, <3>5
    <3>6. CASE i - d \in 1 .. k /\ d + (i - d) = i
      <4>1. x[d + (i - d)] # "CR"
        BY <3>2, <3>6
      <4> QED BY <3>6, <4>1
    <3> QED BY <2>6, <3>5, <3>6
  <2>8. x # <<>> /\ x[1] = "/"
    <3>1. Len(<<>>) = 0 /\ 1 \in 1 .. Len(D) /\ Len(x) >= 1
      BY <2>4, <2>5
    <3>2. x[1] = D[1]
      BY ONLY <2>4, <3>1
    <3>3. x # <<>>
      BY ONLY <3>1
    <3> QED BY ONLY <2>2, <3>2, <3>3
  <2>9. s \in Seq(UrlAlphabet) /\ o \in Seq(UrlAlphabet)
    BY <2>1 DEF Origin, UrlAlphabet
  <2>10. ((o \o U) \o s) \o t = o \o ((U \o s) \o t)
    <3>1. /\ s \in Seq(UrlAlphabet) /\ o \in Seq(UrlAlphabet)
          /\ U \in Seq(UrlAlphabet) /\ t \in Seq(UrlAlphabet)
      BY <2>2, <2>9
    <3>2. Regrouped(o, U, s, t)
      BY ONLY <3>1, UrlRegroups
    <3> QED BY ONLY <3>2, Zenon DEF Regrouped
  <2>11. RequestUrl(t, b) = ((o \o U) \o s) \o t
    BY <1>2, <2>1 DEF RequestUrl
  <2>12. y = x
    BY <1>2, <2>1, <2>3 DEF IsTarget
  <2>13. RequestUrl(t, b) = o \o x
    BY <2>2, <2>3, <2>10, <2>11
  <2> QED BY <2>1, <2>4, <2>7, <2>8, <2>12, <2>13 DEF Targeted
<1> QED BY <1>1, <1>2

BaseGiven == base \in {<<>>} \cup Bases

LEMMA BaseAlways == RequestsSpec => []BaseGiven
<1>1. RequestsInit => BaseGiven
  BY DEF RequestsInit, BaseGiven
<1>2. BaseGiven /\ [RequestsNext]_requests => BaseGiven'
  BY DEF BaseGiven, RequestsNext, Read, requests
<1> QED BY <1>1, <1>2, PTL DEF RequestsSpec

LEMMA EntryIsResolved == Scanned /\ BaseGiven => EntryResolves
<1>1. SUFFICES ASSUME Scanned, BaseGiven, base # <<>>, text # <<>>,
                      ~HasScheme(text), ~Contains(text, "CR"),
                      \A i \in QueryPart(base) : base[i] # "/",
                      NEW y, y = IF Head(text) = "/" THEN text ELSE Directory(base) \o text,
                      NEW z, z = RequestUrl(text, base), Len(z) < Word
               PROVE  /\ ParseUrl(z, ScanUrl(z)) # {}
                      /\ \A url \in ParseUrl(z, ScanUrl(z)) :
                           /\ url.Host = <<"1">> /\ url.Port = <<"1">>
                           /\ ReadsAs(y, url.Path, url.Args, url.Fragment)
  BY Zenon DEF EntryResolves
<1>2. base \in Bases
  BY <1>1 DEF BaseGiven
<1>3. base \in Seq(UrlAlphabet) /\ base[1] = "/" /\ \A i \in 1 .. Len(base) : base[i] # "CR"
  BY <1>1, <1>2, RequestsConstants DEF Contains
<1>4. /\ text \in Seq(UrlAlphabet) /\ Head(text) = text[1]
      /\ \A i \in 1 .. Len(text) : text[i] # "CR"
  BY <1>1 DEF Scanned, Contains
<1>5. /\ y \in Seq(UrlAlphabet) /\ y # <<>> /\ y[1] = "/" /\ \A i \in 1 .. Len(y) : y[i] # "CR"
      /\ z = Origin \o y
  <2>1. IsTarget(y, text, base)
    BY <1>1, <1>4 DEF IsTarget
  <2>2. text # <<>> /\ ~HasScheme(text) /\ base # <<>>
    BY <1>1
  <2>3. \A i \in QueryPart(base) : base[i] # "/"
    BY <1>1
  <2>4. base \in Seq(UrlAlphabet) /\ text \in Seq(UrlAlphabet)
    BY <1>3, <1>4
  <2>5. Targeted(y, text, base)
    BY ONLY <1>3, <1>4, <2>1, <2>2, <2>3, <2>4, TargetIs
  <2> QED BY <1>1, <2>5 DEF Targeted
<1>6. Behind(z, y)
  BY <1>5, OriginBehind
<1>7. PICK h : /\ ParseUrl(z, ScanUrl(z)) = {UrlOf(z, h)}
               /\ UrlOf(z, h).Host = <<"1">> /\ UrlOf(z, h).Port = <<"1">>
               /\ ReadsAs(y, UrlOf(z, h).Path, UrlOf(z, h).Args, UrlOf(z, h).Fragment)
  BY <1>1, <1>5, <1>6, BehindIsParsed
<1> QED BY <1>7

\* HandleM3u8Resp (hls_handler.cpp:66-84): an entry that is no URL of its own is asked for
\* at the host and port of its playlist, at its own path or in the playlist's directory, if
\* the URL is shorter than the numbers of a uint16_t.
THEOREM Resolution == RequestsSpec => []EntryResolves
BY AlwaysScanned, BaseAlways, EntryIsResolved, PTL

-----------------------------------------------------------------------------
(* Playlists: the text that the blocks of a chain make together *)

\* The text t of a chain c: block b is what follows its first off[b] symbols.
LaysOut(c, t, off) ==
  /\ t \in Seq(STRING) /\ off \in [1 .. Len(c) -> Nat] /\ off[1] = 0
  /\ \A b \in 1 .. Len(c) : b + 1 <= Len(c) => off[b + 1] = off[b] + Len(c[b])
  /\ Len(t) = off[Len(c)] + Len(c[Len(c)])
  /\ \A b \in 1 .. Len(c) : off[b] + Len(c[b]) <= Len(t)
  /\ \A b \in 1 .. Len(c) : \A i \in 1 .. Len(c[b]) : t[off[b] + i] = c[b][i]

\* The blocks of a chain joined one after the other.
IsFlat(c, n, f) == f = [i \in 1 .. n |-> IF i = 1 THEN c[i] ELSE f[i - 1] \o c[i]]

LEMMA FlatsExist == ASSUME NEW c PROVE \A n \in Nat : \E f : IsFlat(c, n, f)
<1> DEFINE Good == {n \in Nat : \E f : IsFlat(c, n, f)}
<1>1. 0 \in Good
  <2>1. PICK f : f = [i \in 1 .. 0 |-> c[i]]
    OBVIOUS
  <2>2. \A i \in 1 .. 0 : FALSE
    OBVIOUS
  <2>3. f = [i \in 1 .. 0 |-> IF i = 1 THEN c[i] ELSE f[i - 1] \o c[i]]
    BY <2>1, <2>2
  <2>4. IsFlat(c, 0, f)
    BY <2>3 DEF IsFlat
  <2> QED BY <2>4
<1>2. ASSUME NEW n \in Nat, n \in Good PROVE n + 1 \in Good
  <2>1. PICK g : IsFlat(c, n, g)
    BY <1>2
  <2>2. PICK f : f = [i \in 1 .. n + 1 |-> IF i = 1 THEN c[i] ELSE g[i - 1] \o c[i]]
    OBVIOUS
  <2>3. \A i \in 1 .. n : f[i] = g[i]
    <3>1. \A i \in 1 .. n : g[i] = IF i = 1 THEN c[i] ELSE g[i - 1] \o c[i]
      BY <2>1 DEF IsFlat
    <3>2. \A i \in 1 .. n : i \in 1 .. n + 1
      OBVIOUS
    <3> QED BY <2>2, <3>1, <3>2
  <2>4. \A i \in 1 .. n + 1 : i # 1 => f[i - 1] = g[i - 1]
    <3>1. \A i \in 1 .. n + 1 : i # 1 => i - 1 \in 1 .. n
      OBVIOUS
    <3> QED BY <2>3, <3>1
  <2>5. f = [i \in 1 .. n + 1 |-> IF i = 1 THEN c[i] ELSE f[i - 1] \o c[i]]
    BY <2>2, <2>4
  <2>6. IsFlat(c, n + 1, f)
    BY <2>5 DEF IsFlat
  <2> QED BY <2>6
<1>3. \A n \in Nat : n \in Good
  <2> HIDE DEF Good
  <2> QED BY <1>1, <1>2, NatSetInduction
<1> QED BY <1>3

LEMMA FlattenIs ==
  ASSUME NEW c, Len(c) \in Nat, Len(c) # 0
  PROVE  \E f : IsFlat(c, Len(c), f) /\ FlattenSeq(c) = f[Len(c)]
<1>1. \E f : IsFlat(c, Len(c), f)
  BY FlatsExist
<1>2. PICK f : f = CHOOSE g : IsFlat(c, Len(c), g)
  OBVIOUS
<1>3. FlattenSeq(c) = f[Len(c)]
  BY <1>2 DEF FlattenSeq, IsFlat
<1> QED BY <1>1, <1>2, <1>3

\* The first n blocks make t.
PartLaid(c, n, t, off) ==
  /\ t \in Seq(STRING) /\ Len(t) = off[n] + Len(c[n])
  /\ \A b \in 1 .. n : off[b] + Len(c[b]) <= Len(t)
  /\ \A b \in 1 .. n : \A i \in 1 .. Len(c[b]) : t[off[b] + i] = c[b][i]

LEMMA BlockJoins ==
  ASSUME NEW c \in Seq(Seq(STRING)), NEW n \in Nat, 1 <= n, n + 1 <= Len(c),
         NEW off \in [1 .. Len(c) -> Nat], NEW t, PartLaid(c, n, t, off), off[n + 1] = Len(t)
  PROVE  PartLaid(c, n + 1, t \o c[n + 1], off)
<1>1. PICK w \in Seq(STRING) : w = c[n + 1]
  OBVIOUS
<1>2. PICK z : z = t \o w
  OBVIOUS
<1>3. /\ t \in Seq(STRING) /\ Len(t) = off[n] + Len(c[n])
      /\ \A b \in 1 .. n : off[b] + Len(c[b]) <= Len(t)
      /\ \A b \in 1 .. n : \A i \in 1 .. Len(c[b]) : t[off[b] + i] = c[b][i]
  BY DEF PartLaid
<1>4. /\ z \in Seq(STRING) /\ Len(z) = Len(t) + Len(w)
      /\ \A i \in 1 .. Len(t) : z[i] = t[i]
      /\ \A i \in 1 .. Len(w) : z[Len(t) + i] = w[i]
  <2>1. t \in Seq(STRING) /\ w \in Seq(STRING)
    BY <1>1, <1>3
  <2> QED BY ONLY <1>2, <2>1, ConcatIs
<1>5. \A b \in 1 .. n + 1 : b \in 1 .. n \/ b = n + 1
  OBVIOUS
<1>6. \A b \in 1 .. n + 1 : off[b] \in Nat /\ Len(c[b]) \in Nat
  <2>1. SUFFICES ASSUME NEW b \in 1 .. n + 1 PROVE off[b] \in Nat /\ Len(c[b]) \in Nat
    OBVIOUS
  <2>2. b \in 1 .. Len(c)
    OBVIOUS
  <2>3. c[b] \in Seq(STRING)
    BY ONLY <2>2, c \in Seq(Seq(STRING))
  <2>4. Len(c[b]) \in Nat
    BY ONLY <2>3
  <2> QED BY <2>2, <2>4
<1>7. Len(t) \in Nat /\ Len(w) \in Nat
  BY <1>1, <1>3
<1>8. Len(z) = off[n + 1] + Len(c[n + 1])
  BY <1>1, <1>4
<1>9. \A b \in 1 .. n + 1 : off[b] + Len(c[b]) <= Len(z)
  <2>1. SUFFICES ASSUME NEW b \in 1 .. n + 1 PROVE off[b] + Len(c[b]) <= Len(z)
    OBVIOUS
  <2>2. off[b] \in Nat /\ Len(c[b]) \in Nat
    BY ONLY <1>6, b \in 1 .. n + 1
  <2>3. CASE b \in 1 .. n
    <3>1. off[b] + Len(c[b]) <= Len(t)
      BY ONLY <1>3, <2>3
    <3> QED BY ONLY <1>4, <1>7, <2>2, <3>1
  <2>4. CASE b = n + 1
    BY ONLY <1>4, <1>7, <1>8, <2>2, <2>4
  <2> QED BY <1>5, <2>3, <2>4
<1>10. ASSUME NEW b \in 1 .. n + 1, NEW i \in 1 .. Len(c[b]) PROVE z[off[b] + i] = c[b][i]
  <2>1. CASE b \in 1 .. n
    <3>1. off[b] + i \in 1 .. Len(t)
      <4>1. off[b] + Len(c[b]) <= Len(t)
        BY ONLY <1>3, <2>1
      <4>2. off[b] \in Nat /\ Len(c[b]) \in Nat
        BY ONLY <1>6, b \in 1 .. n + 1
      <4> QED BY ONLY <1>7, <4>1, <4>2, i \in 1 .. Len(c[b])
    <3>2. t[off[b] + i] = c[b][i]
      BY <1>3, <2>1
    <3> QED BY <1>4, <3>1, <3>2
  <2>2. CASE b = n + 1
    BY <1>1, <1>4, <2>2
  <2> QED BY <1>5, <2>1, <2>2
<1>11. PartLaid(c, n + 1, z, off)
  BY <1>4, <1>8, <1>9, <1>10 DEF PartLaid
<1> QED BY <1>1, <1>2, <1>11

LEMMA TextIs ==
  ASSUME NEW c \in Seq(Seq(STRING)), c # <<>>
  PROVE  \E off : LaysOut(c, FlattenSeq(c), off)
<1>1. PICK n \in Nat : n = Len(c) /\ n >= 1
  OBVIOUS
<1>2. PICK f : IsFlat(c, n, f) /\ FlattenSeq(c) = f[n]
  BY <1>1, FlattenIs
<1>3. f[1] = c[1] /\ \A i \in 1 .. n, j \in 1 .. n : i = j + 1 => f[i] = f[j] \o c[i]
  <2>1. \A i \in 1 .. n : f[i] = IF i = 1 THEN c[i] ELSE f[i - 1] \o c[i]
    BY <1>2 DEF IsFlat
  <2>2. 1 \in 1 .. n /\ \A i \in 1 .. n, j \in 1 .. n : i = j + 1 => i # 1 /\ i - 1 = j
    BY <1>1
  <2>3. f[1] = c[1]
    BY ONLY <2>1, <2>2
  <2>4. ASSUME NEW i \in 1 .. n, NEW j \in 1 .. n, i = j + 1 PROVE f[i] = f[j] \o c[i]
    <3>1. i # 1 /\ i - 1 = j
      BY ONLY <2>2, <2>4, i \in 1 .. n, j \in 1 .. n
    <3>2. f[i] = IF i = 1 THEN c[i] ELSE f[i - 1] \o c[i]
      BY ONLY <2>1, i \in 1 .. n
    <3> QED BY ONLY <3>1, <3>2
  <2> QED BY <2>3, <2>4
<1>4. PICK off : off = [b \in 1 .. n |-> IF b = 1 THEN 0 ELSE Len(f[b - 1])]
  OBVIOUS
<1>5. \A b \in 1 .. n : c[b] \in Seq(STRING) /\ Len(c[b]) \in Nat
  BY <1>1
<1> DEFINE Good == {k \in Nat : k + 1 <= n => f[k + 1] \in Seq(STRING)}
<1>6. \A k \in Nat : k \in Good
  <2>1. 0 \in Good
    <3>1. 0 + 1 = 1 /\ 1 \in 1 .. n
      BY <1>1
    <3>2. f[1] = c[1]
      BY <1>3
    <3> QED BY <1>5, <3>1, <3>2
  <2>2. ASSUME NEW k \in Nat, k \in Good PROVE k + 1 \in Good
    <3>1. SUFFICES ASSUME k + 1 + 1 <= n PROVE f[k + 1 + 1] \in Seq(STRING)
      OBVIOUS
    <3>2. k + 1 + 1 \in 1 .. n /\ k + 1 \in 1 .. n /\ k + 1 <= n
      BY <3>1
    <3>3. f[k + 1 + 1] = f[k + 1] \o c[k + 1 + 1]
      BY ONLY <1>3, <3>2
    <3>4. f[k + 1] \in Seq(STRING) /\ c[k + 1 + 1] \in Seq(STRING)
      BY <1>5, <2>2, <3>2
    <3>5. \A v, w : v \in Seq(STRING) /\ w \in Seq(STRING) => v \o w \in Seq(STRING)
      OBVIOUS
    <3> QED BY ONLY <3>3, <3>4, <3>5
  <2> HIDE DEF Good
  <2> QED BY <2>1, <2>2, NatSetInduction
<1>7. \A b \in 1 .. n : f[b] \in Seq(STRING) /\ Len(f[b]) \in Nat
  <2>1. SUFFICES ASSUME NEW b \in 1 .. n PROVE f[b] \in Seq(STRING)
    OBVIOUS
  <2>2. b - 1 \in Nat /\ b - 1 + 1 = b /\ b <= n
    OBVIOUS
  <2> QED BY <1>6, <2>2
<1>8. off \in [1 .. n -> Nat]
  <2>1. \A b \in 1 .. n : b # 1 => b - 1 \in 1 .. n
    OBVIOUS
  <2> QED BY <1>4, <1>7, <2>1
<1>9. off[1] = 0 /\ \A b \in 1 .. n : b + 1 <= n => off[b + 1] = Len(f[b])
  <2>1. 1 \in 1 .. n /\ \A b \in 1 .. n : b + 1 <= n => b + 1 \in 1 .. n /\ b + 1 # 1 /\ b + 1 - 1 = b
    BY <1>1
  <2> QED BY <1>4, <2>1
<1> DEFINE Fine == {k \in Nat : k + 1 <= n => PartLaid(c, k + 1, f[k + 1], off)}
<1>10. \A k \in Nat : k \in Fine
  <2>1. 0 \in Fine
    <3>1. 0 + 1 = 1 /\ 1 \in 1 .. n /\ 1 .. 1 = {1}
      BY <1>1
    <3>2. f[1] = c[1]
      BY <1>3
    <3>3. PICK w \in Seq(STRING) : w = c[1]
      BY <1>5, <3>1
    <3>4. PartLaid(c, 1, w, off)
      <4>1. \A i \in 1 .. Len(w) : 0 + i = i
        OBVIOUS
      <4>2. Len(w) = 0 + Len(w) /\ Len(w) \in Nat
        OBVIOUS
      <4> QED BY <1>9, <3>1, <3>3, <4>1, <4>2 DEF PartLaid
    <3> QED BY <3>1, <3>2, <3>3, <3>4
  <2>2. ASSUME NEW k \in Nat, k \in Fine PROVE k + 1 \in Fine
    <3>1. SUFFICES ASSUME k + 1 + 1 <= n PROVE PartLaid(c, k + 1 + 1, f[k + 1 + 1], off)
      OBVIOUS
    <3>2. PICK j \in Nat : j = k + 1
      OBVIOUS
    <3>3. j \in 1 .. n /\ j >= 1 /\ j + 1 <= n /\ j + 1 \in 1 .. n /\ j + 1 # 1 /\ j + 1 - 1 = j
      BY <3>1, <3>2
    <3>4. PartLaid(c, j, f[j], off)
      BY <2>2, <3>2, <3>3
    <3>5. off[j + 1] = Len(f[j])
      BY <1>9, <3>3
    <3>6. PartLaid(c, j + 1, f[j] \o c[j + 1], off)
      BY <1>1, <1>8, <3>3, <3>4, <3>5, BlockJoins
    <3>7. f[j + 1] = f[j] \o c[j + 1]
      BY ONLY <1>3, <3>3
    <3> QED BY <3>2, <3>6, <3>7
  <2> HIDE DEF Fine
  <2> QED BY <2>1, <2>2, NatSetInduction
<1>11. \A b \in 1 .. n : PartLaid(c, b, f[b], off)
  <2>1. SUFFICES ASSUME NEW b \in 1 .. n PROVE PartLaid(c, b, f[b], off)
    OBVIOUS
  <2>2. b - 1 \in Nat /\ b - 1 + 1 = b /\ b <= n
    OBVIOUS
  <2> QED BY <1>10, <2>2
<1>12. PartLaid(c, n, f[n], off)
  BY <1>1, <1>11
<1>13. \A b \in 1 .. n : b + 1 <= n => off[b + 1] = off[b] + Len(c[b])
  BY <1>9, <1>11 DEF PartLaid
<1>14. LaysOut(c, f[n], off)
  BY <1>1, <1>8, <1>9, <1>12, <1>13 DEF LaysOut, PartLaid
<1> QED BY <1>2, <1>14

\* A block and the memory it stands in: its text, and up to a NUL what lies behind.
Backed(w, m) ==
  /\ w \in Seq(STRING) /\ m \in Seq(STRING) /\ Len(w) < Len(m)
  /\ \A i \in 1 .. Len(w) : m[i] = w[i]
  /\ \A i \in Len(w) + 1 .. Len(m) : m[i] = "NUL" <=> i = Len(m)

LEMMA MemoryIs ==
  ASSUME chain \in Chains, rest \in Remains, NEW b \in 1 .. Len(chain)
  PROVE  Backed(chain[b], Memory(b))
<1>1. chain \in Seq(Seq(STRING)) /\ rest \in Seq(STRING)
  BY PlaylistAssumption
<1>2. PICK w \in Seq(STRING) : w = chain[b]
  BY <1>1
<1>3. PICK r \in Seq(STRING) : r = rest
  BY <1>1
<1>4. r # <<>> /\ \A i \in 1 .. Len(r) : r[i] = "NUL" <=> i = Len(r)
  <2>1. r \in Remains
    BY <1>3
  <2>2. r # <<>> /\ \A i \in DOMAIN r : (r[i] = "NUL") = (i = Len(r))
    BY ONLY <2>1, PlaylistAssumption
  <2>3. \A i \in 1 .. Len(r) : i \in DOMAIN r
    OBVIOUS
  <2>4. \A i \in 1 .. Len(r) : (r[i] = "NUL") = (i = Len(r))
    BY ONLY <2>2, <2>3
  <2>5. \A i \in 1 .. Len(r) : r[i] = "NUL" <=> i = Len(r)
    BY ONLY <2>4, Zenon
  <2> QED BY <2>2, <2>5
<1>5. PICK m : m = w \o r
  OBVIOUS
<1>6. /\ m \in Seq(STRING) /\ Len(m) = Len(w) + Len(r)
      /\ \A i \in 1 .. Len(w) : m[i] = w[i]
      /\ \A i \in 1 .. Len(r) : m[Len(w) + i] = r[i]
  <2>1. w \in Seq(STRING) /\ r \in Seq(STRING)
    OBVIOUS
  <2> QED BY ONLY <1>5, <2>1, ConcatIs
<1>7. Len(r) \in Nat /\ Len(r) > 0 /\ Len(w) \in Nat
  BY ONLY <1>4, r \in Seq(STRING), w \in Seq(STRING)
<1>8. ASSUME NEW i \in Len(w) + 1 .. Len(m) PROVE m[i] = "NUL" <=> i = Len(m)
  <2>1. PICK j \in 1 .. Len(r) : i = Len(w) + j
    <3>1. i - Len(w) \in 1 .. Len(r) /\ i = Len(w) + (i - Len(w))
      BY ONLY <1>6, <1>7, i \in Len(w) + 1 .. Len(m)
    <3> QED BY <3>1
  <2>2. m[i] = r[j]
    BY ONLY <1>6, <2>1, j \in 1 .. Len(r)
  <2>3. (i = Len(m)) <=> (j = Len(r))
    <3>1. i = Len(m) => j = Len(r)
      BY ONLY <1>6, <1>7, <2>1, j \in 1 .. Len(r)
    <3>2. j = Len(r) => i = Len(m)
      BY ONLY <1>6, <1>7, <2>1, j \in 1 .. Len(r)
    <3> QED BY <3>1, <3>2
  <2>4. r[j] = "NUL" <=> j = Len(r)
    BY ONLY <1>4, j \in 1 .. Len(r)
  <2> QED BY ONLY <2>2, <2>3, <2>4
<1>9. Backed(w, m)
  <2>1. Len(w) < Len(m)
    BY ONLY <1>6, <1>7
  <2> QED BY ONLY <1>6, <1>8, <2>1, w \in Seq(STRING) DEF Backed
<1> QED BY <1>2, <1>3, <1>5, <1>9 DEF Memory

\* The first newline from p on.
FirstNewline(w, p, k) == k \in p .. Len(w) /\ w[k] = "\n" /\ \A j \in p .. k - 1 : w[j] # "\n"

LEMMA NewlineIs ==
  ASSUME NEW b, NEW w, NEW m, Backed(w, m), m = Memory(b), NEW p \in Nat, p >= 1,
         NEW k, FirstNewline(w, p, k), \A i \in 1 .. Len(w) : w[i] # "NUL"
  PROVE  NextNewline(b, p) = k
<1>1. Len(w) \in Nat /\ Len(m) \in Nat /\ Len(w) < Len(m)
  BY DEF Backed
<1>2. k \in p .. Len(w) /\ k \in Nat /\ k \in p .. Len(m) /\ k # 0
  BY <1>1 DEF FirstNewline
<1>3. \A j \in p .. k : j \in 1 .. Len(w)
  BY <1>1, <1>2
<1>4. m[k] = "\n" /\ \A j \in p .. k : m[j] # "NUL"
  BY <1>2, <1>3 DEF Backed, FirstNewline
<1>5. \A j \in p .. k - 1 : m[j] # "\n"
  <2>1. \A j \in p .. k - 1 : j \in p .. k
    BY <1>2
  <2> QED BY <1>3, <2>1 DEF Backed, FirstNewline
<1>6. PICK at : at = {i \in p .. Len(m) : m[i] = "\n" /\ \A j \in p .. i : m[j] # "NUL"}
  OBVIOUS
<1>7. k \in at /\ at # {}
  BY <1>2, <1>4, <1>6
<1>8. \A i \in at : k <= i
  <2>1. SUFFICES ASSUME NEW i \in at, i < k PROVE FALSE
    BY <1>2, <1>6
  <2>2. i \in p .. k - 1 /\ m[i] = "\n"
    BY <1>2, <1>6, <2>1
  <2> QED BY <1>5, <2>2
<1>9. \A i \in at : (\A j \in at : i <= j) => i = k
  BY <1>2, <1>6, <1>7, <1>8
<1>10. NextNewline(b, p) = IF at = {} THEN None ELSE CHOOSE i \in at : \A j \in at : i <= j
  BY <1>6 DEF NextNewline
<1>11. (CHOOSE i \in at : \A j \in at : i <= j) = k
  BY <1>7, <1>8, <1>9
<1> QED BY <1>7, <1>10, <1>11

LEMMA NewlineWithin ==
  ASSUME NEW b, NEW m \in Seq(STRING), m = Memory(b), NEW p \in Nat, p >= 1
  PROVE  NextNewline(b, p) = None \/ (NextNewline(b, p) \in p .. Len(m) /\ m[NextNewline(b, p)] = "\n")
<1>1. PICK at : at = {i \in p .. Len(m) : m[i] = "\n" /\ \A j \in p .. i : m[j] # "NUL"}
  OBVIOUS
<1>2. NextNewline(b, p) = IF at = {} THEN None ELSE CHOOSE i \in at : \A j \in at : i <= j
  BY <1>1 DEF NextNewline
<1>3. CASE at = {}
  BY <1>2, <1>3
<1>4. CASE at # {}
  <2>1. at \subseteq Nat
    BY <1>1
  <2>2. \E i \in at : \A j \in at : i <= j
    BY <1>4, <2>1, NatLeast
  <2>3. (CHOOSE i \in at : \A j \in at : i <= j) \in at
    BY <2>2
  <2> QED BY <1>1, <1>2, <1>4, <2>3
<1> QED BY <1>3, <1>4

LEMMA NewlineExists ==
  ASSUME NEW w \in Seq(STRING), NEW p \in 1 .. Len(w), w[Len(w)] = "\n"
  PROVE  \E k : FirstNewline(w, p, k)
<1>1. PICK T : T = {i \in p .. Len(w) : w[i] = "\n"}
  OBVIOUS
<1>2. T \subseteq Nat /\ T # {}
  BY <1>1
<1>3. PICK k \in T : \A i \in T : k <= i
  BY <1>2, NatLeast
<1>4. k \in p .. Len(w) /\ w[k] = "\n"
  BY <1>1
<1>5. \A j \in p .. k - 1 : w[j] # "\n"
  <2>1. SUFFICES ASSUME NEW j \in p .. k - 1, w[j] = "\n" PROVE FALSE
    OBVIOUS
  <2>2. j \in T /\ j < k
    BY <1>1, <1>4, <2>1
  <2> QED BY <1>3, <2>2
<1> QED BY <1>4, <1>5 DEF FirstNewline

\* A block that ends with a line, all of whose line ends are whole.
Solid(w) ==
  /\ w \in Seq(STRING) /\ Len(w) > 1 /\ w[Len(w)] = "\n"
  /\ \A i \in 1 .. Len(w) : w[i] # "NUL" /\ (w[i] = "\r" => i < Len(w) /\ w[i + 1] = "\n")
  /\ \E e \in 1 .. Len(w) - 1 : w[e] \notin Ends /\ \A i \in e + 1 .. Len(w) - 1 : w[i] = "\r"
  /\ \A i \in Starts(w) : (\A j \in Starts(w) : j <= i) => w[i] # "#EXTINF"

LEMMA SolidIs ==
  ASSUME NEW w \in Seq(STRING), Plain(w), EndsALine(w)
  PROVE  Solid(w)
<1>1. PICK n \in Nat : n = Len(w)
  OBVIOUS
<1>2. PICK e : e = IF n > 1 /\ w[n - 1] = "\r" THEN n - 2 ELSE n - 1
  OBVIOUS
<1>3. w[n] = "\n" /\ e > 0 /\ w[e] \notin Ends
  BY <1>1, <1>2 DEF EndsALine
<1>4. e \in 1 .. n - 1 /\ n > 1
  BY <1>2, <1>3
<1>5. \A i \in e + 1 .. n - 1 : w[i] = "\r"
  <2>1. SUFFICES ASSUME NEW i \in e + 1 .. n - 1 PROVE w[i] = "\r"
    OBVIOUS
  <2>2. CASE w[n - 1] = "\r"
    <3>1. e = n - 2
      BY <1>2, <1>4, <2>2
    <3>2. i = n - 1
      BY <3>1
    <3> QED BY <2>2, <3>2
  <2>3. CASE w[n - 1] # "\r"
    <3>1. e = n - 1
      BY <1>2, <1>4, <2>3
    <3> QED BY <3>1
  <2> QED BY <2>2, <2>3
<1>6. w[CHOOSE i \in Starts(w) : \A j \in Starts(w) : j <= i] # "#EXTINF"
  BY DEF EndsALine
<1>7. \A i \in Starts(w) : i \in Nat
  BY DEF Starts
<1>8. ASSUME NEW a \in Starts(w), \A j \in Starts(w) : j <= a PROVE w[a] # "#EXTINF"
  <2>1. \A i \in Starts(w) : (\A j \in Starts(w) : j <= i) => i = a
    BY <1>7, <1>8
  <2>2. (CHOOSE i \in Starts(w) : \A j \in Starts(w) : j <= i) = a
    BY <1>8, <2>1
  <2> QED BY <1>6, <2>2
<1>9. \A i \in 1 .. Len(w) : w[i] # "NUL" /\ (w[i] = "\r" => i < Len(w) /\ w[i + 1] = "\n")
  BY DEF Plain
<1> QED BY <1>1, <1>3, <1>4, <1>5, <1>8, <1>9 DEF Solid

\* From a newline that is not the last of its block, or from the block's beginning, the
\* line ends give way to a line.
LEMMA TextFollows ==
  ASSUME NEW w, Solid(w), NEW p \in 1 .. Len(w), p = 1 \/ (p < Len(w) /\ w[p] = "\n")
  PROVE  \E i \in p .. Len(w) :
           /\ w[i] \notin Ends /\ \A j \in p .. i - 1 : w[j] \in Ends
           /\ i = 1 \/ w[i - 1] = "\n"
<1>1. w \in Seq(STRING) /\ Len(w) > 1 /\ Len(w) \in Nat
  BY DEF Solid
<1>2. PICK e \in 1 .. Len(w) - 1 : w[e] \notin Ends /\ \A i \in e + 1 .. Len(w) - 1 : w[i] = "\r"
  BY DEF Solid
<1>3. p <= e
  <2>1. SUFFICES ASSUME p > e PROVE FALSE
    BY <1>1, <1>2
  <2>2. p # 1 /\ p \in e + 1 .. Len(w) - 1 /\ w[p] = "\n"
    BY <1>1, <2>1
  <2> QED BY <1>2, <2>2
<1>4. PICK T : T = {i \in p .. Len(w) : w[i] \notin Ends}
  OBVIOUS
<1>5. T \subseteq Nat /\ e \in T
  BY <1>1, <1>2, <1>3, <1>4
<1>6. PICK i \in T : \A j \in T : i <= j
  BY <1>5, NatLeast
<1>7. i \in p .. Len(w) /\ w[i] \notin Ends
  BY <1>4
<1>8. \A j \in p .. i - 1 : w[j] \in Ends
  <2>1. SUFFICES ASSUME NEW j \in p .. i - 1, w[j] \notin Ends PROVE FALSE
    OBVIOUS
  <2>2. j \in T /\ j < i
    BY <1>1, <1>4, <1>7, <2>1
  <2> QED BY <1>6, <2>2
<1>9. i = 1 \/ w[i - 1] = "\n"
  <2>1. SUFFICES ASSUME i # 1 PROVE w[i - 1] = "\n"
    OBVIOUS
  <2>2. i # p
    <3>1. p # 1 => w[p] \in Ends
      BY DEF Ends
    <3> QED BY <1>7, <2>1, <3>1
  <2>3. i - 1 \in p .. i - 1 /\ i - 1 \in 1 .. Len(w) /\ i - 1 + 1 = i
    BY <1>1, <1>7, <2>2
  <2>4. w[i - 1] \in Ends
    BY <1>8, <2>3
  <2>5. w[i - 1] # "\r"
    <3>1. w[i - 1] = "\r" => w[i] = "\n"
      BY <2>3 DEF Solid
    <3> QED BY <1>7, <3>1 DEF Ends
  <2> QED BY <2>4, <2>5 DEF Ends
<1> QED BY <1>7, <1>8, <1>9

LEMMA StepIs ==
  ASSUME NEW b, NEW w, NEW m, Backed(w, m), m = Memory(b), NEW p \in 1 .. Len(w),
         NEW i \in p .. Len(w), w[i] \notin Ends, \A j \in p .. i - 1 : w[j] \in Ends,
         w[i] # "NUL", StepTo(b, p)
  PROVE  block' = b /\ pos' = i /\ parsing' = TRUE
<1>1. Len(w) \in Nat /\ Len(m) \in Nat /\ Len(w) < Len(m)
  BY DEF Backed
<1>2. i \in p .. Len(m) /\ i \in 1 .. Len(w) /\ \A j \in p .. i - 1 : j \in 1 .. Len(w)
  BY <1>1
<1>3. m[i] = w[i] /\ \A j \in p .. i - 1 : m[j] = w[j]
  BY <1>2 DEF Backed
<1>4. m[i] \notin Ends /\ \A j \in p .. (i - 1) : m[j] \in Ends
  BY <1>3
<1>5. \A h \in p .. Len(m) : (m[h] \notin Ends /\ \A j \in p .. (h - 1) : m[j] \in Ends) => h = i
  <2>1. SUFFICES ASSUME NEW h \in p .. Len(m), m[h] \notin Ends, \A j \in p .. (h - 1) : m[j] \in Ends,
                        h # i
                 PROVE  FALSE
    OBVIOUS
  <2>2. h \in p .. (i - 1) \/ i \in p .. (h - 1)
    BY <1>1, <1>2, <2>1
  <2> QED BY <1>4, <2>1, <2>2
<1>6. (CHOOSE h \in p .. Len(m) : m[h] \notin Ends /\ \A j \in p .. (h - 1) : m[j] \in Ends) = i
  BY <1>2, <1>4, <1>5
<1>7. PICK to : to = CHOOSE h \in p .. Len(m) : m[h] \notin Ends /\ \A j \in p .. (h - 1) : m[j] \in Ends
  OBVIOUS
<1>8. block' = b /\ pos' = to /\ parsing' = (m[to] # "NUL")
  BY <1>7 DEF StepTo
<1> QED BY <1>3, <1>6, <1>7, <1>8

\* Symbol p of block b begins line q of the text.
Stands(c, t, off, b, p, q) ==
  /\ b \in 1 .. Len(c) /\ p \in 1 .. Len(c[b]) /\ c[b][p] \notin Ends
  /\ q \in Nat /\ q = off[b] + p /\ q \in Starts(t)

\* Between P and q begins nothing but line ends.
Gap(t, P, q) == P < q /\ \A i \in Starts(t) : P < i /\ i < q => t[i] \in Ends

SolidText(c, t, off) ==
  /\ Len(c) \in Nat /\ LaysOut(c, t, off) /\ \A b \in 1 .. Len(c) : Solid(c[b])
InMemory(c) == \A b \in 1 .. Len(c) : Backed(c[b], Memory(b))

LEMMA Placed ==
  ASSUME NEW c, NEW t, NEW off, SolidText(c, t, off), NEW b \in 1 .. Len(c)
  PROVE  /\ off[b] \in Nat /\ Len(c[b]) \in Nat /\ Len(t) \in Nat /\ off[b] + Len(c[b]) <= Len(t)
         /\ Len(c[b]) > 1 /\ c[b][Len(c[b])] = "\n" /\ c[b] \in Seq(STRING)
         /\ \A i \in 1 .. Len(c[b]) : t[off[b] + i] = c[b][i] /\ c[b][i] # "NUL"
<1>1. off[b] \in Nat /\ Len(t) \in Nat
  <2>1. off \in [1 .. Len(c) -> Nat] /\ t \in Seq(STRING)
    BY DEF SolidText, LaysOut
  <2>2. off[b] \in Nat
    BY ONLY <2>1, b \in 1 .. Len(c)
  <2>3. Len(t) \in Nat
    BY ONLY <2>1
  <2> QED BY <2>2, <2>3
<1>2. PICK w : w = c[b]
  OBVIOUS
<1>3. Solid(w)
  BY <1>2 DEF SolidText
<1>4. /\ w \in Seq(STRING) /\ Len(w) > 1 /\ w[Len(w)] = "\n"
      /\ \A i \in 1 .. Len(w) : w[i] # "NUL"
  BY <1>3 DEF Solid
<1>5. off[b] + Len(c[b]) <= Len(t) /\ \A i \in 1 .. Len(c[b]) : t[off[b] + i] = c[b][i]
  BY DEF SolidText, LaysOut
<1>6. Len(w) \in Nat
  BY <1>4
<1> QED BY <1>1, <1>2, <1>4, <1>5, <1>6

\* Into block b, which begins behind symbol P of the text, or on from symbol P, a newline
\* in it.
Leaves(c, t, off, b, p, P) ==
  \/ p = 1 /\ P = off[b] /\ (P = 0 \/ t[P] = "\n")
  \/ p < Len(c[b]) /\ c[b][p] = "\n" /\ P = off[b] + p

LEMMA StepsOn ==
  ASSUME NEW c, NEW t, NEW off, SolidText(c, t, off), InMemory(c), NEW b \in 1 .. Len(c),
         NEW p \in 1 .. Len(c[b]), NEW P \in Nat, Leaves(c, t, off, b, p, P), StepTo(b, p)
  PROVE  \E q : Gap(t, P, q) /\ Stands(c, t, off, block', pos', q) /\ parsing' = TRUE
<1>1. PICK w : w = c[b]
  OBVIOUS
<1>2. PICK o \in Nat : o = off[b]
  BY Placed
<1>3. /\ Len(w) \in Nat /\ Len(t) \in Nat /\ o + Len(w) <= Len(t)
      /\ \A i \in 1 .. Len(w) : t[o + i] = w[i] /\ w[i] # "NUL"
  BY <1>1, <1>2, Placed
<1>4. Solid(w)
  BY <1>1 DEF SolidText
<1>5. PICK i \in p .. Len(w) : /\ w[i] \notin Ends /\ \A j \in p .. i - 1 : w[j] \in Ends
                               /\ i = 1 \/ w[i - 1] = "\n"
  <2>1. p = 1 \/ (p < Len(w) /\ w[p] = "\n")
    BY <1>1 DEF Leaves
  <2>2. p \in 1 .. Len(w)
    BY <1>1
  <2> QED BY ONLY <1>4, <2>1, <2>2, TextFollows
<1>6. p \in 1 .. Len(w) /\ i \in 1 .. Len(w)
  <2>1. p \in 1 .. Len(w)
    BY <1>1
  <2> QED BY ONLY <1>3, <2>1, i \in p .. Len(w)
<1>7. block' = b /\ pos' = i /\ parsing' = TRUE
  <2>1. PICK m : m = Memory(b)
    OBVIOUS
  <2>2. Backed(w, m)
    BY <1>1, <2>1 DEF InMemory
  <2>3. w[i] # "NUL"
    BY <1>3, <1>6
  <2> QED BY <1>5, <1>6, <2>1, <2>2, <2>3, StepIs
<1>8. PICK q \in Nat : q = o + i
  BY <1>6
<1>9. (P = o \/ (P = o + p /\ w[p] = "\n")) /\ P <= o + p
  <2>1. P = o \/ (P = o + p /\ w[p] = "\n")
    BY <1>1, <1>2 DEF Leaves
  <2> QED BY ONLY <1>6, <2>1, o \in Nat, P \in Nat
<1>10. P = o + p => i # p
  <2>1. SUFFICES ASSUME P = o + p PROVE i # p
    OBVIOUS
  <2>2. P # o
    BY ONLY <2>1, <1>6, o \in Nat
  <2>3. w[p] \in Ends
    BY <1>9, <2>2 DEF Ends
  <2> QED BY <1>5, <2>3
<1>11. q \in 1 .. Len(t) /\ P < q
  BY ONLY <1>3, <1>6, <1>8, <1>9, <1>10, o \in Nat, P \in Nat, i \in p .. Len(w)
<1>12. q \in Starts(t)
  <2>1. t \in Seq(STRING)
    BY DEF SolidText, LaysOut
  <2>2. q \in DOMAIN t
    BY ONLY <1>11, <2>1
  <2>3. q = 1 \/ t[q - 1] = "\n"
    <3>1. CASE i = 1
      <4>1. p = 1 /\ P = o /\ q - 1 = P
        BY ONLY <1>6, <1>8, <1>9, <1>10, <3>1, i \in p .. Len(w), o \in Nat
      <4>2. ~(p < Len(c[b]) /\ c[b][p] = "\n" /\ P = off[b] + p)
        BY ONLY <1>2, <4>1, o \in Nat
      <4>3. P = 0 \/ t[P] = "\n"
        BY <4>2 DEF Leaves
      <4>4. P = 0 => q = 1
        BY ONLY <1>8, <3>1, <4>1, o \in Nat
      <4> QED BY <4>1, <4>3, <4>4
    <3>2. CASE i # 1
      <4>1. i - 1 \in 1 .. Len(w) /\ q - 1 = o + (i - 1)
        BY ONLY <1>3, <1>6, <1>8, <3>2, o \in Nat
      <4>2. t[q - 1] = w[i - 1]
        BY <1>3, <4>1
      <4> QED BY <1>5, <3>2, <4>2
    <3> QED BY <3>1, <3>2
  <2> QED BY <2>2, <2>3 DEF Starts
<1>13. Stands(c, t, off, b, i, q)
  BY <1>1, <1>2, <1>5, <1>6, <1>8, <1>12 DEF Stands
<1>14. ASSUME NEW x \in Starts(t), P < x, x < q PROVE t[x] \in Ends
  <2>1. x \in Nat
    <3>1. t \in Seq(STRING)
      BY DEF SolidText, LaysOut
    <3>2. x \in DOMAIN t
      BY DEF Starts
    <3> QED BY ONLY <3>1, <3>2
  <2>2. P = o => o + p <= x
    <3>1. SUFFICES ASSUME P = o PROVE o + p <= x
      OBVIOUS
    <3>2. p = 1
      BY <1>2, <3>1, <1>6 DEF Leaves
    <3> QED BY ONLY <1>14, <2>1, <3>1, <3>2, o \in Nat
  <2>3. x - o \in p .. i - 1 /\ x = o + (x - o)
    BY ONLY <1>6, <1>8, <1>9, <1>14, <2>1, <2>2, o \in Nat, P \in Nat
  <2>4. PICK j \in p .. i - 1 : x = o + j
    BY <2>3
  <2>5. j \in 1 .. Len(w)
    BY ONLY <1>3, <1>6, j \in p .. i - 1
  <2> QED BY <1>3, <1>5, <2>4, <2>5
<1>15. Gap(t, P, q)
  BY <1>11, <1>14 DEF Gap
<1> QED BY <1>7, <1>13, <1>15

\* Where the walk is: at a line, or at the end of the text.
AtLine(c, t, off, b, p, on, q) ==
  /\ on \in BOOLEAN /\ q \in Nat
  /\ on => Stands(c, t, off, b, p, q)
  /\ ~on => q = Len(t) + 1

LEMMA AdvancesTo ==
  ASSUME NEW t, NEW off, SolidText(chain, t, off), InMemory(chain), block \in 1 .. Len(chain),
         NEW k \in 1 .. Len(chain[block]), chain[block][k] = "\n", Advance(k)
  PROVE  \E q : Gap(t, off[block] + k, q) /\ AtLine(chain, t, off, block', pos', parsing', q)
<1>1. PICK w : w = chain[block]
  OBVIOUS
<1>2. PICK o \in Nat : o = off[block]
  BY Placed
<1>3. /\ Len(w) \in Nat /\ Len(t) \in Nat /\ o + Len(w) <= Len(t)
      /\ \A i \in 1 .. Len(w) : t[o + i] = w[i]
  BY <1>1, <1>2, Placed
<1>4. k \in 1 .. Len(w) /\ w[k] = "\n"
  BY <1>1
<1>5. PICK P \in Nat : P = o + k
  BY <1>4
<1>6. t[P] = "\n" /\ k # None
  BY <1>3, <1>4, <1>5 DEF None
<1>7. \A x : Stands(chain, t, off, block', pos', x) /\ parsing' = TRUE
             => AtLine(chain, t, off, block', pos', parsing', x)
  BY DEF AtLine, Stands
<1>8. CASE k # Len(w)
  <2>1. StepTo(block, k)
    BY <1>1, <1>6, <1>8 DEF Advance
  <2>2. k < Len(w)
    BY ONLY <1>3, <1>4, <1>8
  <2>3. Leaves(chain, t, off, block, k, P)
    BY <1>1, <1>2, <1>4, <1>5, <2>2 DEF Leaves
  <2>4. \E q : Gap(t, P, q) /\ Stands(chain, t, off, block', pos', q) /\ parsing' = TRUE
    BY <2>1, <2>3, StepsOn
  <2> QED BY <1>2, <1>5, <1>7, <2>4
<1>9. CASE k = Len(w) /\ block < Len(chain)
  <2>1. PICK b : b = block + 1
    OBVIOUS
  <2>2. Len(chain) \in Nat
    BY DEF SolidText
  <2>3. b \in 1 .. Len(chain) /\ block + 1 <= Len(chain)
    BY ONLY <1>9, <2>1, <2>2, block \in 1 .. Len(chain)
  <2>4. StepTo(b, 1)
    BY <1>1, <1>9, <2>1 DEF Advance
  <2>5. off[b] = P
    <3>1. off[block + 1] = off[block] + Len(chain[block])
      BY <2>3 DEF SolidText, LaysOut
    <3> QED BY <1>1, <1>2, <1>5, <1>9, <2>1, <3>1
  <2>6. Leaves(chain, t, off, b, 1, P)
    BY <1>6, <2>5 DEF Leaves
  <2>7. 1 \in 1 .. Len(chain[b])
    <3>1. Len(chain[b]) \in Nat /\ Len(chain[b]) > 1
      BY ONLY <2>3, Placed, SolidText(chain, t, off)
    <3> QED BY ONLY <3>1
  <2>8. \E q : Gap(t, P, q) /\ Stands(chain, t, off, block', pos', q) /\ parsing' = TRUE
    BY <2>3, <2>4, <2>6, <2>7, StepsOn
  <2> QED BY <1>2, <1>5, <1>7, <2>8
<1>10. CASE k = Len(w) /\ ~(block < Len(chain))
  <2>1. Stop
    BY <1>1, <1>10 DEF Advance
  <2>2. block = Len(chain)
    <3>1. Len(chain) \in Nat
      BY DEF SolidText
    <3> QED BY ONLY <1>10, <3>1, block \in 1 .. Len(chain)
  <2>3. P = Len(t)
    <3>1. Len(t) = off[block] + Len(chain[block])
      BY <2>2 DEF SolidText, LaysOut
    <3> QED BY <1>1, <1>2, <1>5, <1>10, <3>1
  <2>4. PICK q \in Nat : q = P + 1
    OBVIOUS
  <2>5. AtLine(chain, t, off, block', pos', parsing', q)
    BY <2>1, <2>3, <2>4 DEF AtLine, Stop
  <2>6. Gap(t, P, q)
    <3>1. P < q
      BY <2>4
    <3>2. \A i \in Starts(t) : i \in Nat
      <4>1. t \in Seq(STRING)
        BY DEF SolidText, LaysOut
      <4>2. \A i \in Starts(t) : i \in DOMAIN t
        BY DEF Starts
      <4> QED BY ONLY <4>1, <4>2
    <3>3. \A i \in Starts(t) : ~(P < i /\ i < q)
      BY ONLY <2>4, <3>2, P \in Nat
    <3> QED BY <3>1, <3>3 DEF Gap
  <2> QED BY <1>2, <1>5, <2>5, <2>6
<1> QED BY <1>8, <1>9, <1>10

\* What a line of the text t comes to, and what an entry says of one.
UrisIn(t) == {i \in Starts(t) : t[i] \notin Tags \cup Ends}
TimedIn(t, j) ==
  \E i \in Starts(t) : i < j /\ t[i] = "#EXTINF" /\ \A k \in Starts(t) : ~(i < k /\ k < j)
UrisBefore(t, P) == {i \in UrisIn(t) : i < P}
UrisTo(t, i) == {j \in UrisIn(t) : j <= i}
IsEntry(t, i, entry) ==
  entry.timed = TimedIn(t, i) /\ Trim(entry.uri) = Trim(LineAt(t, i))

\* The entries are those of the lines before P.
Listed(t, P, srcs) ==
  /\ \E S : srcs \in Seq(S)
  /\ Len(srcs) = Cardinality(UrisBefore(t, P))
  /\ \A i \in UrisBefore(t, P) : IsEntry(t, i, srcs[Cardinality(UrisTo(t, i))])

LEMMA StartsAre ==
  ASSUME NEW t \in Seq(STRING)
  PROVE  /\ Starts(t) \subseteq 1 .. Len(t) /\ IsFiniteSet(Starts(t))
         /\ UrisIn(t) \subseteq Starts(t)
<1>1. Len(t) \in Nat /\ DOMAIN t = 1 .. Len(t)
  OBVIOUS
<1>2. Starts(t) \subseteq 1 .. Len(t)
  BY <1>1 DEF Starts
<1>3. IsFiniteSet(1 .. Len(t))
  BY <1>1, FS_Interval
<1>4. IsFiniteSet(Starts(t))
  BY <1>2, <1>3, FS_Subset
<1> QED BY <1>2, <1>4 DEF UrisIn

LEMMA Appended ==
  ASSUME NEW S, NEW v \in Seq(S), NEW e, NEW z, z = Append(v, e)
  PROVE  /\ \E T : z \in Seq(T)
         /\ Len(z) = Len(v) + 1 /\ z[Len(v) + 1] = e /\ \A i \in 1 .. Len(v) : z[i] = v[i]
<1>1. PICK T : T = S \cup {e}
  OBVIOUS
<1>2. S \subseteq T /\ e \in T
  BY <1>1
<1>3. v \in Seq(T)
  BY <1>2, SeqMonotonic
<1>4. z \in Seq(T)
  BY <1>2, <1>3
<1>5. Len(z) = Len(v) + 1 /\ z[Len(v) + 1] = e /\ \A i \in 1 .. Len(v) : z[i] = v[i]
  BY <1>2, <1>3
<1> QED BY <1>4, <1>5

LEMMA ListsOn ==
  ASSUME NEW t \in Seq(STRING), NEW P \in Nat, NEW Q \in Nat, NEW srcs, Listed(t, P, srcs),
         NEW u \in UrisIn(t), P <= u, UrisBefore(t, Q) = UrisBefore(t, P) \cup {u}, NEW e,
         IsEntry(t, u, e)
  PROVE  Listed(t, Q, Append(srcs, e))
<1>1. PICK S : srcs \in Seq(S)
  BY DEF Listed
<1>2. PICK z : z = Append(srcs, e)
  OBVIOUS
<1>3. PICK n \in Nat : n = Len(srcs)
  BY <1>1
<1>4. /\ \E T : z \in Seq(T)
      /\ Len(z) = n + 1 /\ z[n + 1] = e /\ \A i \in 1 .. n : z[i] = srcs[i]
  <2>1. /\ \E T : z \in Seq(T)
        /\ Len(z) = Len(srcs) + 1 /\ z[Len(srcs) + 1] = e
        /\ \A i \in 1 .. Len(srcs) : z[i] = srcs[i]
    BY ONLY <1>1, <1>2, Appended
  <2> QED BY ONLY <1>3, <2>1
<1>5. Starts(t) \subseteq 1 .. Len(t) /\ IsFiniteSet(Starts(t)) /\ UrisIn(t) \subseteq Starts(t)
  BY StartsAre
<1>6. \A i \in UrisIn(t) : i \in Nat
  <2>1. \A i \in 1 .. Len(t) : i \in Nat
    OBVIOUS
  <2> QED BY <1>5, <2>1
<1>7. PICK B : B = UrisBefore(t, P)
  OBVIOUS
<1>8. B \subseteq Starts(t) /\ u \notin B /\ \A i \in B : i \in UrisIn(t) /\ i < P
  BY <1>5, <1>6, <1>7 DEF UrisBefore
<1>9. IsFiniteSet(B) /\ n = Cardinality(B)
  <2>1. IsFiniteSet(B)
    BY <1>5, <1>8, FS_Subset
  <2> QED BY <1>3, <1>7, <2>1 DEF Listed
<1>10. Cardinality(UrisBefore(t, Q)) = n + 1
  <2>1. Cardinality(B \cup {u}) = IF u \in B THEN Cardinality(B) ELSE Cardinality(B) + 1
    BY <1>9, FS_AddElement
  <2> QED BY <1>7, <1>8, <1>9, <2>1
<1>11. UrisTo(t, u) = UrisBefore(t, Q)
  <2>1. u \in UrisBefore(t, Q) /\ u < Q
    BY DEF UrisBefore
  <2>2. \A j \in UrisTo(t, u) : j \in UrisBefore(t, Q)
    BY <1>6, <2>1 DEF UrisTo, UrisBefore
  <2>3. \A j \in UrisBefore(t, Q) : j \in UrisTo(t, u)
    <3>1. \A j \in UrisBefore(t, Q) : j \in UrisIn(t)
      BY DEF UrisBefore
    <3>2. \A j \in UrisBefore(t, Q) : j = u \/ j < P
      BY <1>7, <1>8
    <3>3. \A j \in UrisBefore(t, Q) : j <= u
      BY <1>6, <3>1, <3>2
    <3> QED BY <3>1, <3>3 DEF UrisTo
  <2> QED BY <2>2, <2>3
<1>12. ASSUME NEW i \in UrisBefore(t, Q) PROVE IsEntry(t, i, z[Cardinality(UrisTo(t, i))])
  <2>1. CASE i = u
    BY <1>4, <1>10, <1>11, <2>1
  <2>2. CASE i # u
    <3>1. i \in B
      BY <1>7, <2>2
    <3>2. IsEntry(t, i, srcs[Cardinality(UrisTo(t, i))])
      BY <1>7, <3>1 DEF Listed
    <3>3. UrisTo(t, i) \subseteq B /\ i \in UrisTo(t, i)
      BY <1>6, <1>7, <1>8, <3>1 DEF UrisTo, UrisBefore
    <3>4. PICK T : T = UrisTo(t, i)
      OBVIOUS
    <3>5. T \subseteq B /\ T # {}
      BY <3>3, <3>4
    <3>6. IsFiniteSet(T) /\ Cardinality(T) <= n
      BY ONLY <1>9, <3>5, FS_Subset
    <3>7. Cardinality(T) \in Nat
      BY ONLY <3>6, FS_CardinalityType
    <3>8. Cardinality(T) # 0
      BY ONLY <3>5, <3>6, FS_EmptySet
    <3>9. Cardinality(T) \in 1 .. n
      BY ONLY <3>6, <3>7, <3>8, n \in Nat
    <3> QED BY <1>4, <3>2, <3>4, <3>9
  <2> QED BY <2>1, <2>2
<1>13. Listed(t, Q, z)
  BY <1>4, <1>10, <1>12 DEF Listed
<1> QED BY <1>2, <1>13

LEMMA SliceIs ==
  ASSUME NEW S, NEW s \in Seq(S), NEW a \in Nat, NEW z \in Nat, 1 <= a, z <= Len(s),
         NEW v, v = SubSeq(s, a, z)
  PROVE  /\ v \in Seq(S) /\ Len(v) = IF a <= z THEN z - a + 1 ELSE 0
         /\ \A i \in 1 .. z - a + 1 : v[i] = s[a + i - 1]
<1>1. \A i \in a .. z : i \in 1 .. Len(s)
  OBVIOUS
<1>2. \A i \in a .. z : s[i] \in S
  BY <1>1, ElementOfSeq
<1> QED BY <1>2, SubSeqProperties

\* A line read from the memory is the line of the text.
LEMMA LineIs ==
  ASSUME NEW c, NEW t, NEW off, SolidText(c, t, off), InMemory(c), NEW b \in 1 .. Len(c),
         NEW p \in 1 .. Len(c[b]), NEW k, FirstNewline(c[b], p, k)
  PROVE  /\ NextNewline(b, p) = k /\ LineFrom(b, p) = LineAt(t, off[b] + p)
         /\ LineFrom(b, p) \in Seq(STRING)
<1>1. PICK w : w = c[b]
  OBVIOUS
<1>2. PICK o \in Nat : o = off[b]
  BY Placed
<1>3. /\ Len(w) \in Nat /\ Len(t) \in Nat /\ o + Len(w) <= Len(t)
      /\ \A i \in 1 .. Len(w) : t[o + i] = w[i]
      /\ \A i \in 1 .. Len(w) : w[i] # "NUL"
  BY <1>1, <1>2, Placed
<1>4. PICK m : m = Memory(b)
  OBVIOUS
<1>5. Backed(w, m) /\ t \in Seq(STRING)
  BY <1>1, <1>4 DEF InMemory, SolidText, LaysOut
<1>6. p \in 1 .. Len(w) /\ FirstNewline(w, p, k)
  BY <1>1
<1>7. NextNewline(b, p) = k
  BY <1>3, <1>4, <1>5, <1>6, NewlineIs
<1>8. /\ k \in p .. Len(w) /\ k \in 1 .. Len(w) /\ w[k] = "\n"
      /\ \A j \in p .. k - 1 : j \in 1 .. Len(w) /\ w[j] # "\n"
  BY <1>3, <1>6 DEF FirstNewline
<1>9. PICK q \in Nat : q = o + p
  BY <1>6
<1>10. PICK h \in Nat : h = o + k
  BY <1>8
<1>11. h \in q .. Len(t) /\ t[h] = "\n"
  <2>1. h \in q .. Len(t)
    BY ONLY <1>3, <1>6, <1>8, <1>9, <1>10, o \in Nat
  <2>2. t[o + k] = w[k]
    BY ONLY <1>3, <1>8
  <2> QED BY <1>8, <1>10, <2>1, <2>2
<1>12. \A x \in q .. h - 1 : t[x] # "\n"
  <2>1. SUFFICES ASSUME NEW x \in q .. h - 1 PROVE t[x] # "\n"
    OBVIOUS
  <2>2. x - o \in p .. k - 1 /\ x = o + (x - o)
    BY ONLY <1>6, <1>8, <1>9, <1>10, x \in q .. h - 1, o \in Nat
  <2>3. PICK j \in p .. k - 1 : x = o + j
    BY <2>2
  <2> QED BY <1>3, <1>8, <2>3
<1>13. \A x \in q .. Len(t) : (t[x] = "\n" /\ \A y \in q .. (x - 1) : t[y] # "\n") => x = h
  <2>1. SUFFICES ASSUME NEW x \in q .. Len(t), t[x] = "\n", \A y \in q .. (x - 1) : t[y] # "\n",
                        x # h
                 PROVE  FALSE
    OBVIOUS
  <2>2. x \in q .. h - 1 \/ h \in q .. (x - 1)
    BY ONLY <1>3, <1>11, <2>1, x \in q .. Len(t), q \in Nat, h \in Nat
  <2> QED BY <1>11, <1>12, <2>1, <2>2
<1>14. (CHOOSE x \in q .. Len(t) : t[x] = "\n" /\ \A y \in q .. (x - 1) : t[y] # "\n") = h
  BY ONLY <1>11, <1>12, <1>13
<1>15. LineAt(t, q) = SubSeq(t, q, h - 1)
  BY <1>14 DEF LineAt
<1>16. LineFrom(b, p) = SubSeq(m, p, k - 1)
  <2>1. k # None
    BY <1>8 DEF None
  <2> QED BY <1>4, <1>7, <2>1 DEF LineFrom
<1>17. PICK x : x = SubSeq(m, p, k - 1)
  OBVIOUS
<1>18. PICK y : y = SubSeq(t, q, h - 1)
  OBVIOUS
<1>19. /\ x \in Seq(STRING) /\ Len(x) = k - p
       /\ \A i \in 1 .. k - p : x[i] = m[p + i - 1]
  <2>1. PICK z \in Nat : z = k - 1
    BY <1>8
  <2>2. m \in Seq(STRING) /\ p \in Nat /\ 1 <= p /\ z <= Len(m) /\ x = SubSeq(m, p, z)
    <3>1. m \in Seq(STRING) /\ Len(m) \in Nat /\ Len(w) < Len(m)
      BY <1>5 DEF Backed
    <3> QED BY <1>3, <1>6, <1>8, <1>17, <2>1, <3>1
  <2>3. /\ x \in Seq(STRING) /\ Len(x) = IF p <= z THEN z - p + 1 ELSE 0
        /\ \A i \in 1 .. z - p + 1 : x[i] = m[p + i - 1]
    BY ONLY <2>2, z \in Nat, SliceIs
  <2>4. z - p + 1 = k - p /\ (IF p <= z THEN z - p + 1 ELSE 0) = k - p
    BY ONLY <1>3, <1>6, <1>8, <2>1
  <2> QED BY <2>3, <2>4
<1>20. /\ y \in Seq(STRING) /\ Len(y) = k - p
       /\ \A i \in 1 .. k - p : y[i] = t[q + i - 1]
  <2>1. PICK z \in Nat : z = h - 1
    BY <1>8, <1>10
  <2>2. t \in Seq(STRING) /\ 1 <= q /\ z <= Len(t) /\ y = SubSeq(t, q, z)
    BY <1>3, <1>5, <1>6, <1>9, <1>11, <1>18, <2>1
  <2>3. /\ y \in Seq(STRING) /\ Len(y) = IF q <= z THEN z - q + 1 ELSE 0
        /\ \A i \in 1 .. z - q + 1 : y[i] = t[q + i - 1]
    BY ONLY <2>2, z \in Nat, q \in Nat, SliceIs
  <2>4. z - q + 1 = k - p /\ (IF q <= z THEN z - q + 1 ELSE 0) = k - p
    BY ONLY <1>3, <1>6, <1>8, <1>9, <1>10, <2>1, o \in Nat
  <2> QED BY <2>3, <2>4
<1>21. ASSUME NEW i \in 1 .. k - p PROVE x[i] = y[i]
  <2>1. p + i - 1 \in 1 .. Len(w) /\ q + i - 1 = o + (p + i - 1)
    BY ONLY <1>3, <1>6, <1>8, <1>9, o \in Nat, i \in 1 .. k - p
  <2>2. m[p + i - 1] = w[p + i - 1]
    BY <1>5, <2>1 DEF Backed
  <2>3. t[o + (p + i - 1)] = w[p + i - 1]
    BY ONLY <1>3, <2>1
  <2> QED BY ONLY <1>19, <1>20, <2>1, <2>2, <2>3, i \in 1 .. k - p
<1>22. x = y
  BY ONLY <1>19, <1>20, <1>21, SeqEqual
<1> QED BY <1>2, <1>7, <1>9, <1>15, <1>16, <1>17, <1>18, <1>19, <1>22

LEMMA Greatest ==
  ASSUME NEW n \in Nat, NEW T, T \subseteq 1 .. n, T # {}
  PROVE  \E i \in T : \A j \in T : j <= i
<1>1. PICK U : U = {j \in 0 .. n : n - j \in T}
  OBVIOUS
<1>2. U \subseteq Nat
  BY <1>1
<1>3. U # {}
  <2>1. PICK i \in T : TRUE
    OBVIOUS
  <2>2. n - i \in 0 .. n /\ n - (n - i) = i
    BY <2>1
  <2> QED BY <1>1, <2>1, <2>2
<1>4. PICK u \in U : \A j \in U : u <= j
  BY <1>2, <1>3, NatLeast
<1>5. n - u \in T
  BY <1>1
<1>6. \A j \in T : j <= n - u
  <2>1. SUFFICES ASSUME NEW j \in T PROVE j <= n - u
    OBVIOUS
  <2>2. n - j \in 0 .. n /\ n - (n - j) = j
    OBVIOUS
  <2>3. n - j \in U
    BY <1>1, <2>2
  <2>4. u <= n - j /\ u \in 0 .. n /\ j \in 1 .. n
    BY <1>1, <1>4, <2>3
  <2> QED BY ONLY <2>4, n \in Nat
<1> QED BY <1>5, <1>6

LEMMA TrimTwice == ASSUME NEW w \in Seq(STRING) PROVE Trim(Trim(w)) = Trim(w)
<1>1. PICK T : T = {i \in DOMAIN w : w[i] \notin Ends}
  OBVIOUS
<1>2. Len(w) \in Nat /\ DOMAIN w = 1 .. Len(w)
  OBVIOUS
<1>3. T \subseteq 1 .. Len(w) /\ T \subseteq Nat
  BY <1>1, <1>2
<1>4. CASE T = {}
  <2>1. Trim(w) = <<>>
    BY <1>1, <1>4 DEF Trim
  <2>2. Trim(<<>>) = <<>>
    <3>1. \A i \in DOMAIN <<>> : FALSE
      OBVIOUS
    <3>2. {i \in DOMAIN <<>> : <<>>[i] \notin Ends} = {}
      BY <3>1
    <3> QED BY <3>2 DEF Trim
  <2> QED BY <2>1, <2>2
<1>5. CASE T # {}
  <2>1. PICK a \in T : \A j \in T : a <= j
    BY <1>3, <1>5, NatLeast
  <2>2. PICK z \in T : \A j \in T : j <= z
    BY <1>2, <1>3, <1>5, Greatest
  <2>3. a \in 1 .. Len(w) /\ z \in 1 .. Len(w) /\ a <= z /\ w[a] \notin Ends /\ w[z] \notin Ends
    BY <1>1, <1>2, <2>1
  <2>4. (CHOOSE i \in T : \A j \in T : i <= j) = a
    <3>1. \A i \in T : (\A j \in T : i <= j) => i = a
      BY <1>3, <2>1
    <3> QED BY <2>1, <3>1
  <2>5. (CHOOSE i \in T : \A j \in T : j <= i) = z
    <3>1. \A i \in T : (\A j \in T : j <= i) => i = z
      BY <1>3, <2>2
    <3> QED BY <2>2, <3>1
  <2>6. Trim(w) = SubSeq(w, a, z)
    BY <1>1, <1>5, <2>4, <2>5 DEF Trim
  <2>7. PICK v : v = SubSeq(w, a, z)
    OBVIOUS
  <2>8. PICK n \in Nat : n = z - a + 1
    BY <2>3
  <2>9. v \in Seq(STRING) /\ Len(v) = n /\ \A i \in 1 .. n : v[i] = w[a + i - 1]
    <3>1. a \in Nat /\ z \in Nat /\ 1 <= a /\ z <= Len(w) /\ a <= z
      BY ONLY <1>2, <2>3
    <3>2. /\ v \in Seq(STRING) /\ Len(v) = IF a <= z THEN z - a + 1 ELSE 0
          /\ \A i \in 1 .. z - a + 1 : v[i] = w[a + i - 1]
      BY ONLY <2>7, <3>1, w \in Seq(STRING), SliceIs
    <3> QED BY ONLY <2>8, <3>1, <3>2
  <2>10. 1 \in 1 .. n /\ n \in 1 .. n /\ a + 1 - 1 = a /\ a + n - 1 = z
    BY ONLY <1>2, <2>3, <2>8
  <2>11. v[1] \notin Ends /\ v[n] \notin Ends
    BY <2>3, <2>9, <2>10
  <2>12. PICK U : U = {i \in DOMAIN v : v[i] \notin Ends}
    OBVIOUS
  <2>13. DOMAIN v = 1 .. n
    BY <2>9
  <2>14. 1 \in U /\ n \in U /\ U # {} /\ U \subseteq 1 .. n
    BY <2>10, <2>11, <2>12, <2>13
  <2>15. (CHOOSE i \in U : \A j \in U : i <= j) = 1
    <3>1. \A j \in U : 1 <= j
      BY <2>14
    <3>2. \A i \in U : (\A j \in U : i <= j) => i = 1
      BY <2>14
    <3> QED BY <2>14, <3>1, <3>2
  <2>16. (CHOOSE i \in U : \A j \in U : j <= i) = n
    <3>1. \A j \in U : j <= n
      BY <2>14
    <3>2. \A i \in U : (\A j \in U : j <= i) => i = n
      BY <2>14
    <3> QED BY <2>14, <3>1, <3>2
  <2>17. Trim(v) = SubSeq(v, 1, n)
    BY <2>12, <2>14, <2>15, <2>16 DEF Trim
  <2>18. SubSeq(v, 1, n) = v
    <3>1. PICK y : y = SubSeq(v, 1, n)
      OBVIOUS
    <3>2. /\ y \in Seq(STRING) /\ Len(y) = IF 1 <= n THEN n - 1 + 1 ELSE 0
          /\ \A i \in 1 .. n - 1 + 1 : y[i] = v[1 + i - 1]
      BY ONLY <2>9, <2>10, <3>1, n \in Nat, SliceIs
    <3>3. Len(y) = n /\ \A i \in 1 .. n : y[i] = v[i]
      BY ONLY <2>10, <3>2, n \in Nat
    <3> QED BY ONLY <2>9, <3>1, <3>2, <3>3, SeqEqual
  <2> QED BY <2>6, <2>7, <2>17, <2>18
<1> QED BY <1>4, <1>5

\* Of the lines that begin from P on and before Q, one begins at P, one at S, and what
\* others there are is line ends behind S.
Between(t, P, S, Q) ==
  /\ P \in Starts(t) /\ S \in Starts(t) /\ P <= S /\ S < Q
  /\ \A x \in Starts(t) : P <= x /\ x < Q => x = P \/ x = S \/ (S < x /\ t[x] \in Ends)

LEMMA LineSpan ==
  ASSUME NEW c, NEW t, NEW off, SolidText(c, t, off), NEW b \in 1 .. Len(c),
         NEW p \in 1 .. Len(c[b]), NEW k, FirstNewline(c[b], p, k), NEW q, q = off[b] + p,
         NEW r, r = off[b] + k
  PROVE  q \in Nat /\ r \in Nat /\ q <= r /\ \A x \in Starts(t) : ~(q < x /\ x <= r)
<1>1. PICK w : w = c[b]
  OBVIOUS
<1>2. PICK o \in Nat : o = off[b]
  BY Placed
<1>3. /\ Len(w) \in Nat /\ Len(t) \in Nat /\ o + Len(w) <= Len(t)
      /\ \A i \in 1 .. Len(w) : t[o + i] = w[i]
  BY <1>1, <1>2, Placed
<1>4. /\ p \in 1 .. Len(w) /\ k \in p .. Len(w)
      /\ \A j \in p .. k - 1 : j \in 1 .. Len(w) /\ w[j] # "\n"
  BY <1>1, <1>3 DEF FirstNewline
<1>5. q \in Nat /\ r \in Nat /\ q = o + p /\ r = o + k /\ q <= r /\ q >= 1
  <2>1. q = o + p /\ r = o + k
    BY <1>2
  <2> QED BY ONLY <1>3, <1>4, <2>1, o \in Nat
<1>6. ASSUME NEW x \in Starts(t), q < x, x <= r PROVE FALSE
  <2>1. x \in 1 .. Len(t)
    BY StartsAre DEF SolidText, LaysOut
  <2>2. x # 1
    BY ONLY <1>5, <1>6, <2>1
  <2>3. t[x - 1] = "\n"
    BY <2>2 DEF Starts
  <2>4. x - 1 - o \in p .. k - 1 /\ x - 1 = o + (x - 1 - o)
    BY ONLY <1>4, <1>5, <1>6, <2>1, o \in Nat
  <2>5. PICK j \in p .. k - 1 : x - 1 = o + j
    BY <2>4
  <2>6. t[o + j] = w[j] /\ w[j] # "\n"
    BY <1>3, <1>4
  <2> QED BY <2>3, <2>5, <2>6
<1> QED BY <1>5, <1>6

LEMMA SpanEnds ==
  ASSUME NEW t \in Seq(STRING), NEW P \in Starts(t), NEW r \in Nat, P <= r,
         \A x \in Starts(t) : ~(P < x /\ x <= r), NEW Q \in Nat, Gap(t, r, Q)
  PROVE  Between(t, P, P, Q)
<1>1. Starts(t) \subseteq 1 .. Len(t)
  BY StartsAre
<1>2. \A x \in Starts(t) : x \in Nat
  BY <1>1
<1>3. r < Q /\ \A x \in Starts(t) : r < x /\ x < Q => t[x] \in Ends
  BY DEF Gap
<1>4. P <= P /\ P < Q
  BY ONLY <1>2, <1>3, P \in Starts(t), r \in Nat, P <= r, Q \in Nat
<1>5. ASSUME NEW x \in Starts(t), P <= x, x < Q, x # P PROVE P < x /\ t[x] \in Ends
  <2>1. P < x
    BY <1>2, <1>5
  <2>2. r < x
    BY <1>2, <2>1
  <2> QED BY <1>3, <1>5, <2>1, <2>2
<1> QED BY <1>4, <1>5 DEF Between

LEMMA TwoSpans ==
  ASSUME NEW t \in Seq(STRING), NEW P \in Starts(t), NEW S \in Starts(t), P < S,
         \A x \in Starts(t) : ~(P < x /\ x < S), NEW Q \in Nat, Between(t, S, S, Q)
  PROVE  Between(t, P, S, Q)
<1>1. Starts(t) \subseteq 1 .. Len(t)
  BY StartsAre
<1>2. \A x \in Starts(t) : x \in Nat
  BY <1>1
<1>3. S < Q /\ \A x \in Starts(t) : S <= x /\ x < Q => x = S \/ (S < x /\ t[x] \in Ends)
  BY DEF Between
<1>4. ASSUME NEW x \in Starts(t), P <= x, x < Q, x # P, x # S PROVE S < x /\ t[x] \in Ends
  <2>1. P < x
    BY <1>2, <1>4
  <2>2. S <= x
    BY <1>2, <2>1
  <2> QED BY <1>3, <1>4, <2>2
<1>5. P <= S
  BY <1>2
<1> QED BY <1>3, <1>4, <1>5 DEF Between

LEMMA SymbolsApart ==
  /\ "#EXTINF" \in Tags /\ "#EXTINF" \notin Ends /\ "#EXT-X-ENDLIST" \in Tags
  /\ "#EXT-X-ENDLIST" \notin Ends /\ "#EXTM3U" \in Tags /\ "#EXTM3U" \notin Ends
  /\ "#EXTM3U" # "#EXTINF" /\ "#EXTINF" # "#EXT-X-ENDLIST" /\ \A x \in Tags : x \notin Ends
BY DEF Tags, Ends

\* A read line that is no #EXTINF leaves none to wait for its line.
LEMMA NoneWaits ==
  ASSUME NEW t \in Seq(STRING), NEW P, NEW S, NEW Q \in Nat, Between(t, P, S, Q),
         t[S] # "#EXTINF"
  PROVE  ~TimedIn(t, Q)
<1>1. Starts(t) \subseteq 1 .. Len(t)
  BY StartsAre
<1>2. \A x \in Starts(t) : x \in Nat
  BY <1>1
<1>3. SUFFICES ASSUME NEW i \in Starts(t), i < Q, t[i] = "#EXTINF",
                      \A k \in Starts(t) : ~(i < k /\ k < Q)
               PROVE  FALSE
  BY DEF TimedIn
<1>4. /\ P \in Starts(t) /\ S \in Starts(t) /\ P <= S /\ S < Q
      /\ \A x \in Starts(t) : P <= x /\ x < Q => x = P \/ x = S \/ (S < x /\ t[x] \in Ends)
  BY DEF Between
<1>5. S <= i
  BY <1>2, <1>3, <1>4
<1>6. P <= i
  BY <1>2, <1>4, <1>5
<1>7. i = S \/ t[i] \in Ends
  <2>1. i = P => i = S
    BY <1>2, <1>4, <1>5
  <2> QED BY <1>3, <1>4, <1>6, <2>1
<1> QED BY <1>3, <1>7, SymbolsApart

LEMMA UrisRead ==
  ASSUME NEW t \in Seq(STRING), NEW P, NEW S, NEW Q \in Nat, Between(t, P, S, Q)
  PROVE  UrisBefore(t, Q) = UrisBefore(t, P) \cup ({P, S} \cap UrisIn(t))
<1>1. Starts(t) \subseteq 1 .. Len(t)
  BY StartsAre
<1>2. \A x \in Starts(t) : x \in Nat
  BY <1>1
<1>3. /\ P \in Starts(t) /\ S \in Starts(t) /\ P <= S /\ S < Q
      /\ \A x \in Starts(t) : P <= x /\ x < Q => x = P \/ x = S \/ (S < x /\ t[x] \in Ends)
  BY DEF Between
<1>4. \A x \in UrisIn(t) : x \in Starts(t) /\ t[x] \notin Ends
  BY DEF UrisIn
<1>5. ASSUME NEW x \in UrisBefore(t, Q)
      PROVE  x \in UrisBefore(t, P) \cup ({P, S} \cap UrisIn(t))
  <2>1. x \in UrisIn(t) /\ x < Q
    BY DEF UrisBefore
  <2>2. x < P \/ P <= x
    BY <1>2, <1>3, <1>4, <2>1
  <2>3. P <= x => x \in {P, S}
    BY <1>3, <1>4, <2>1
  <2> QED BY <2>1, <2>2, <2>3 DEF UrisBefore
<1>6. ASSUME NEW x \in UrisBefore(t, P) \cup ({P, S} \cap UrisIn(t))
      PROVE  x \in UrisBefore(t, Q)
  <2>1. x \in UrisIn(t) /\ (x < P \/ x = P \/ x = S)
    BY <1>6 DEF UrisBefore
  <2>2. x < Q
    BY <1>2, <1>3, <1>4, <2>1
  <2> QED BY <2>1, <2>2 DEF UrisBefore
<1> QED BY <1>5, <1>6

LEMMA EndRead ==
  ASSUME NEW t \in Seq(STRING), NEW P, NEW S, NEW Q \in Nat, Between(t, P, S, Q)
  PROVE  (\E i \in Starts(t) : i < Q /\ t[i] = "#EXT-X-ENDLIST")
         <=> \/ \E i \in Starts(t) : i < P /\ t[i] = "#EXT-X-ENDLIST"
             \/ t[P] = "#EXT-X-ENDLIST" \/ t[S] = "#EXT-X-ENDLIST"
<1>1. Starts(t) \subseteq 1 .. Len(t)
  BY StartsAre
<1>2. \A x \in Starts(t) : x \in Nat
  BY <1>1
<1>3. /\ P \in Starts(t) /\ S \in Starts(t) /\ P <= S /\ S < Q
      /\ \A x \in Starts(t) : P <= x /\ x < Q => x = P \/ x = S \/ (S < x /\ t[x] \in Ends)
  BY DEF Between
<1>4. P < Q
  BY <1>2, <1>3
<1>5. ASSUME NEW i \in Starts(t), i < Q, t[i] = "#EXT-X-ENDLIST" PROVE i < P \/ i = P \/ i = S
  <2>1. i < P \/ P <= i
    BY <1>2, <1>3
  <2> QED BY <1>3, <1>5, <2>1, SymbolsApart
<1>6. \A i \in Starts(t) : i < P => i < Q
  BY <1>2, <1>3, <1>4
<1> QED BY <1>3, <1>4, <1>5, <1>6

EndSeen(t, P, el) ==
  el \in BOOLEAN /\ (el <=> \E i \in Starts(t) : i < P /\ t[i] = "#EXT-X-ENDLIST")

\* What is known of the lines before P.
Told(t, P, srcs, el) == Listed(t, P, srcs) /\ EndSeen(t, P, el) /\ ~TimedIn(t, P)

LEMMA TagTold ==
  ASSUME NEW t \in Seq(STRING), NEW P, NEW Q \in Nat, Between(t, P, P, Q), NEW srcs, NEW el,
         Told(t, P, srcs, el), t[P] \in Tags, t[P] # "#EXTINF", NEW e \in BOOLEAN,
         e <=> (el \/ t[P] = "#EXT-X-ENDLIST")
  PROVE  Told(t, Q, srcs, e)
<1>1. P \notin UrisIn(t)
  BY DEF UrisIn
<1>2. UrisBefore(t, Q) = UrisBefore(t, P)
  <2>1. {P, P} \cap UrisIn(t) = {}
    BY <1>1
  <2>2. UrisBefore(t, Q) = UrisBefore(t, P) \cup ({P, P} \cap UrisIn(t))
    BY UrisRead
  <2> QED BY <2>1, <2>2
<1>3. Listed(t, Q, srcs)
  BY <1>2 DEF Told, Listed
<1>4. ~TimedIn(t, Q)
  BY NoneWaits
<1>5. EndSeen(t, Q, e)
  BY EndRead DEF Told, EndSeen
<1> QED BY <1>3, <1>4, <1>5 DEF Told

LEMMA UriTold ==
  ASSUME NEW t \in Seq(STRING), NEW P \in Nat, NEW S \in Nat, NEW Q \in Nat,
         Between(t, P, S, Q), NEW srcs, NEW el, Told(t, P, srcs, el),
         P = S \/ t[P] = "#EXTINF", t[S] \notin Tags \cup Ends, NEW e, IsEntry(t, S, e)
  PROVE  Told(t, Q, Append(srcs, e), el)
<1>1. P \in Starts(t) /\ S \in Starts(t) /\ P <= S
  BY DEF Between
<1>2. S \in UrisIn(t)
  BY <1>1 DEF UrisIn
<1>3. {P, S} \cap UrisIn(t) = {S}
  <2>1. P # S => P \notin UrisIn(t)
    BY SymbolsApart DEF UrisIn
  <2> QED BY <1>2, <2>1
<1>4. UrisBefore(t, Q) = UrisBefore(t, P) \cup {S}
  BY <1>3, UrisRead
<1>5. Listed(t, Q, Append(srcs, e))
  <2>1. Listed(t, P, srcs)
    BY DEF Told
  <2> QED BY <1>1, <1>2, <1>4, <2>1, ListsOn
<1>6. t[S] # "#EXTINF" /\ t[S] # "#EXT-X-ENDLIST" /\ t[P] # "#EXT-X-ENDLIST"
  BY SymbolsApart
<1>7. ~TimedIn(t, Q)
  BY <1>6, NoneWaits
<1>8. EndSeen(t, Q, el)
  BY <1>6, EndRead DEF Told, EndSeen
<1> QED BY <1>5, <1>7, <1>8 DEF Told

\* A line that is read, and the line the walk then comes to.
LEMMA ReadsLine ==
  ASSUME NEW t, NEW off, SolidText(chain, t, off), InMemory(chain), NEW q,
         Stands(chain, t, off, block, pos, q), Advance(NextNewline(block, pos))
  PROVE  /\ \E Q : AtLine(chain, t, off, block', pos', parsing', Q) /\ Between(t, q, q, Q)
         /\ LineFrom(block, pos) = LineAt(t, q) /\ LineFrom(block, pos) \in Seq(STRING)
<1>1. /\ block \in 1 .. Len(chain) /\ pos \in 1 .. Len(chain[block]) /\ q \in Nat
      /\ q = off[block] + pos /\ q \in Starts(t)
  BY DEF Stands
<1>2. PICK k : FirstNewline(chain[block], pos, k)
  <2>1. chain[block] \in Seq(STRING) /\ chain[block][Len(chain[block])] = "\n"
    BY <1>1, Placed
  <2> QED BY <1>1, <2>1, NewlineExists
<1>3. /\ NextNewline(block, pos) = k /\ LineFrom(block, pos) = LineAt(t, q)
      /\ LineFrom(block, pos) \in Seq(STRING)
  <2>1. /\ NextNewline(block, pos) = k /\ LineFrom(block, pos) = LineAt(t, off[block] + pos)
        /\ LineFrom(block, pos) \in Seq(STRING)
    <3>1. block \in 1 .. Len(chain) /\ pos \in 1 .. Len(chain[block])
      BY <1>1
    <3> QED BY ONLY <1>2, <3>1, SolidText(chain, t, off), InMemory(chain), LineIs
  <2> QED BY <1>1, <2>1
<1>4. k \in 1 .. Len(chain[block]) /\ chain[block][k] = "\n"
  BY <1>1, <1>2 DEF FirstNewline
<1>5. PICK r : r = off[block] + k
  OBVIOUS
<1>6. r \in Nat /\ q <= r /\ \A x \in Starts(t) : ~(q < x /\ x <= r)
  BY <1>1, <1>2, <1>5, LineSpan
<1>7. Advance(k)
  BY <1>3
<1>8. PICK Q : Gap(t, r, Q) /\ AtLine(chain, t, off, block', pos', parsing', Q)
  BY <1>1, <1>4, <1>5, <1>7, AdvancesTo
<1>9. Q \in Nat /\ t \in Seq(STRING)
  BY <1>8 DEF AtLine, SolidText, LaysOut
<1>10. Between(t, q, q, Q)
  BY <1>1, <1>6, <1>8, <1>9, SpanEnds
<1> QED BY <1>3, <1>8, <1>10

\* The line behind a duration is in the same block.
LEMMA DurationWithin ==
  ASSUME NEW c, NEW t, NEW off, SolidText(c, t, off), NEW b, NEW p, NEW q,
         Stands(c, t, off, b, p, q), c[b][p] = "#EXTINF", NEW k, FirstNewline(c[b], p, k)
  PROVE  k < Len(c[b])
<1>1. b \in 1 .. Len(c) /\ p \in 1 .. Len(c[b]) /\ q \in Nat /\ q = off[b] + p /\ q \in Starts(t)
  BY DEF Stands
<1>2. PICK w : w = c[b]
  OBVIOUS
<1>3. PICK o \in Nat : o = off[b]
  BY <1>1, Placed
<1>4. /\ Len(w) \in Nat /\ w \in Seq(STRING) /\ \A i \in 1 .. Len(w) : t[o + i] = w[i]
  BY <1>1, <1>2, <1>3, Placed
<1>5. p \in 1 .. Len(w) /\ k \in p .. Len(w) /\ \A j \in p .. k - 1 : w[j] # "\n"
  BY <1>1, <1>2 DEF FirstNewline
<1>6. p \in Starts(w)
  <2>1. p \in DOMAIN w
    BY ONLY <1>4, <1>5
  <2>2. p = 1 \/ w[p - 1] = "\n"
    <3>1. SUFFICES ASSUME p # 1 PROVE w[p - 1] = "\n"
      OBVIOUS
    <3>2. p - 1 \in 1 .. Len(w) /\ o + (p - 1) = q - 1 /\ q # 1
      <4>1. q = o + p
        BY <1>1, <1>3
      <4> QED BY ONLY <1>4, <1>5, <3>1, <4>1, o \in Nat
    <3>3. t[q - 1] = "\n"
      BY <1>1, <3>2 DEF Starts
    <3> QED BY <1>4, <3>2, <3>3
  <2> QED BY <2>1, <2>2 DEF Starts
<1>7. SUFFICES ASSUME k = Len(w) PROVE FALSE
  BY <1>2, <1>4, <1>5
<1>8. ASSUME NEW j \in Starts(w), p < j PROVE FALSE
  <2>1. j \in 1 .. Len(w)
    BY <1>4, StartsAre
  <2>2. j - 1 \in p .. k - 1 /\ j # 1
    BY ONLY <1>4, <1>5, <1>7, <1>8, <2>1
  <2>3. w[j - 1] = "\n"
    BY <2>2 DEF Starts
  <2> QED BY <1>5, <2>2, <2>3
<1>9. \A j \in Starts(w) : j <= p
  <2>1. \A j \in Starts(w) : j \in 1 .. Len(w)
    BY <1>4, StartsAre
  <2>2. \A j \in Starts(w) : ~(p < j)
    BY <1>8
  <2> QED BY ONLY <1>4, <1>5, <2>1, <2>2
<1>10. w[p] # "#EXTINF"
  <2>1. Solid(w)
    BY <1>1, <1>2 DEF SolidText
  <2> QED BY <1>6, <1>9, <2>1 DEF Solid
<1> QED BY <1>2, <1>10

\* A duration and the line behind it are read together.
LEMMA ReadsTwo ==
  ASSUME NEW t, NEW off, SolidText(chain, t, off), InMemory(chain), NEW q,
         Stands(chain, t, off, block, pos, q), chain[block][pos] = "#EXTINF",
         NEW next, next = NextNewline(block, pos),
         NEW after, after = NextNewline(block, next + 1)
  PROVE  /\ next # None /\ Memory(block)[next + 1] # "NUL" /\ after # None
         /\ Advance(after) =>
              \E Q, S : /\ AtLine(chain, t, off, block', pos', parsing', Q) /\ Between(t, q, S, Q)
                        /\ S \in Nat /\ q < S /\ \A x \in Starts(t) : ~(q < x /\ x < S)
                        /\ LineFrom(block, next + 1) = LineAt(t, S)
<1>1. /\ block \in 1 .. Len(chain) /\ pos \in 1 .. Len(chain[block]) /\ q \in Nat
      /\ q = off[block] + pos /\ q \in Starts(t)
  BY DEF Stands
<1>2. PICK w : w = chain[block]
  OBVIOUS
<1>3. PICK o \in Nat : o = off[block]
  BY <1>1, Placed
<1>4. /\ Len(w) \in Nat /\ Len(t) \in Nat /\ o + Len(w) <= Len(t)
      /\ w \in Seq(STRING) /\ w[Len(w)] = "\n"
      /\ \A i \in 1 .. Len(w) : t[o + i] = w[i] /\ w[i] # "NUL"
  BY <1>1, <1>2, <1>3, Placed
<1>5. PICK k : FirstNewline(w, pos, k)
  BY <1>1, <1>2, <1>4, NewlineExists
<1>6. next = k /\ pos \in 1 .. Len(w) /\ k \in pos .. Len(w) /\ w[k] = "\n"
  <2>1. NextNewline(block, pos) = k
    BY <1>1, <1>2, <1>5, LineIs
  <2> QED BY <1>1, <1>2, <1>5, <2>1 DEF FirstNewline
<1>7. k < Len(w)
  BY <1>2, <1>5, DurationWithin
<1>8. PICK p \in Nat : p = next + 1
  BY <1>6
<1>9. p \in 1 .. Len(w) /\ p = k + 1 /\ next # None
  BY ONLY <1>4, <1>6, <1>7, <1>8 DEF None
<1>10. Memory(block)[next + 1] # "NUL"
  <2>1. PICK m : m = Memory(block)
    OBVIOUS
  <2>2. Backed(w, m)
    BY <1>1, <1>2, <2>1 DEF InMemory
  <2>3. m[p] = w[p]
    BY <1>9, <2>2 DEF Backed
  <2> QED BY <1>4, <1>8, <1>9, <2>1, <2>3
<1>11. PICK h : FirstNewline(w, p, h)
  BY <1>4, <1>9, NewlineExists
<1>12. PICK S \in Nat : S = o + p
  OBVIOUS
<1>13. after = h /\ LineFrom(block, next + 1) = LineAt(t, S)
  <2>1. FirstNewline(chain[block], p, h) /\ p \in 1 .. Len(chain[block])
    BY <1>2, <1>9, <1>11
  <2>2. NextNewline(block, p) = h /\ LineFrom(block, p) = LineAt(t, off[block] + p)
    <3>1. block \in 1 .. Len(chain) /\ p \in 1 .. Len(chain[block])
      BY <1>1, <2>1
    <3>2. FirstNewline(chain[block], p, h)
      BY <2>1
    <3>3. /\ NextNewline(block, p) = h /\ LineFrom(block, p) = LineAt(t, off[block] + p)
          /\ LineFrom(block, p) \in Seq(STRING)
      BY ONLY <3>1, <3>2, SolidText(chain, t, off), InMemory(chain), LineIs
    <3> QED BY <3>3
  <2> QED BY <1>3, <1>8, <1>12, <2>2
<1>14. h \in 1 .. Len(chain[block]) /\ chain[block][h] = "\n" /\ h # None
  BY <1>2, <1>4, <1>9, <1>11 DEF FirstNewline, None
<1>15. q < S /\ S = o + k + 1 /\ S \in 1 .. Len(t) /\ t[S - 1] = "\n"
  <2>1. q = o + pos /\ S = o + k + 1 /\ S - 1 = o + k /\ k \in 1 .. Len(w)
    <3>1. q = o + pos
      BY <1>1, <1>3
    <3>2. k \in 1 .. Len(w)
      BY ONLY <1>4, <1>6
    <3> QED BY ONLY <1>9, <1>12, <3>1, <3>2, <1>4, o \in Nat
  <2>2. q < S /\ S \in 1 .. Len(t)
    BY ONLY <1>4, <1>6, <1>7, <2>1, o \in Nat
  <2>3. t[o + k] = "\n"
    BY <1>4, <1>6, <2>1
  <2> QED BY <2>1, <2>2, <2>3
<1>16. t \in Seq(STRING)
  BY DEF SolidText, LaysOut
<1>17. S \in Starts(t)
  <2>1. S \in DOMAIN t
    BY <1>15, <1>16
  <2> QED BY <1>15, <2>1 DEF Starts
<1>18. \A x \in Starts(t) : ~(q < x /\ x < S)
  <2>1. PICK r : r = off[block] + k
    OBVIOUS
  <2>2. FirstNewline(chain[block], pos, k)
    BY <1>2, <1>5
  <2>3. r \in Nat /\ \A x \in Starts(t) : ~(q < x /\ x <= r)
    BY <1>1, <2>1, <2>2, LineSpan
  <2>4. S = r + 1
    BY <1>3, <1>6, <1>15, <2>1
  <2>5. \A x \in Starts(t) : x \in 1 .. Len(t)
    BY <1>16, StartsAre
  <2> QED BY ONLY <1>4, <2>3, <2>4, <2>5
<1>19. ASSUME Advance(after)
       PROVE  \E Q : AtLine(chain, t, off, block', pos', parsing', Q) /\ Between(t, q, S, Q)
  <2>1. PICK r : r = off[block] + h
    OBVIOUS
  <2>2. FirstNewline(chain[block], p, h) /\ p \in 1 .. Len(chain[block]) /\ S = off[block] + p
    BY <1>2, <1>3, <1>9, <1>11, <1>12
  <2>3. r \in Nat /\ S <= r /\ \A x \in Starts(t) : ~(S < x /\ x <= r)
    BY <1>1, <2>1, <2>2, LineSpan
  <2>4. Advance(h)
    BY <1>13, <1>19
  <2>5. PICK Q : Gap(t, r, Q) /\ AtLine(chain, t, off, block', pos', parsing', Q)
    BY <1>1, <1>14, <2>1, <2>4, AdvancesTo
  <2>6. Q \in Nat
    BY <2>5 DEF AtLine
  <2>7. Between(t, S, S, Q)
    BY <1>16, <1>17, <2>3, <2>5, <2>6, SpanEnds
  <2>8. Between(t, q, S, Q)
    BY <1>1, <1>15, <1>16, <1>17, <1>18, <2>6, <2>7, TwoSpans
  <2> QED BY <2>5, <2>8
<1> QED BY <1>9, <1>10, <1>13, <1>14, <1>15, <1>18, <1>19

\* Where the walk is stays in the memory, however the answer is divided.
InTheMemory(b, p, on) == b \in DOMAIN chain /\ p \in DOMAIN Memory(b) /\ on \in BOOLEAN

LEMMA StepStays ==
  ASSUME chain \in Chains, rest \in Remains, NEW b \in 1 .. Len(chain), NEW p \in Nat, p >= 1,
         p <= Len(Memory(b)), StepTo(b, p)
  PROVE  InTheMemory(block', pos', parsing')
<1>1. PICK m : m = Memory(b)
  OBVIOUS
<1>2. PICK w : w = chain[b]
  OBVIOUS
<1>3. Backed(w, m)
  BY <1>1, <1>2, MemoryIs
<1>4. /\ m \in Seq(STRING) /\ Len(m) \in Nat /\ DOMAIN m = 1 .. Len(m) /\ p <= Len(m)
      /\ m[Len(m)] = "NUL"
  <2>1. m \in Seq(STRING) /\ w \in Seq(STRING) /\ Len(w) < Len(m)
    BY <1>3 DEF Backed
  <2>2. Len(m) \in Len(w) + 1 .. Len(m)
    BY <2>1
  <2> QED BY <1>1, <1>3, <2>1, <2>2 DEF Backed
<1>5. PICK T : T = {i \in p .. Len(m) : m[i] \notin Ends}
  OBVIOUS
<1>6. T \subseteq Nat /\ Len(m) \in T
  BY <1>4, <1>5 DEF Ends
<1>7. PICK i \in T : \A j \in T : i <= j
  BY <1>6, NatLeast
<1>8. i \in p .. Len(m) /\ m[i] \notin Ends
  BY <1>5
<1>9. \A j \in p .. (i - 1) : m[j] \in Ends
  <2>1. SUFFICES ASSUME NEW j \in p .. (i - 1), m[j] \notin Ends PROVE FALSE
    OBVIOUS
  <2>2. j \in T /\ j < i
    BY <1>4, <1>5, <1>8, <2>1
  <2> QED BY <1>7, <2>2
<1>10. PICK to : to = CHOOSE h \in p .. Len(m) : m[h] \notin Ends /\ \A j \in p .. (h - 1) : m[j] \in Ends
  OBVIOUS
<1>11. to \in p .. Len(m)
  BY <1>8, <1>9, <1>10
<1>12. block' = b /\ pos' = to /\ parsing' = (m[to] # "NUL")
  BY <1>1, <1>10 DEF StepTo
<1>13. to \in DOMAIN m
  BY ONLY <1>4, <1>11, p \in Nat, p >= 1
<1>14. b \in DOMAIN chain
  OBVIOUS
<1>15. (m[to] # "NUL") \in BOOLEAN
  OBVIOUS
<1> QED BY <1>1, <1>12, <1>13, <1>14, <1>15 DEF InTheMemory

LEMMA MemoryHas ==
  ASSUME chain \in Chains, rest \in Remains, NEW b \in 1 .. Len(chain)
  PROVE  Memory(b) \in Seq(STRING) /\ Len(Memory(b)) \in Nat /\ Len(Memory(b)) >= 1
<1>1. PICK m : m = Memory(b)
  OBVIOUS
<1>2. PICK w : w = chain[b]
  OBVIOUS
<1>3. Backed(w, m)
  BY <1>1, <1>2, MemoryIs
<1>4. m \in Seq(STRING) /\ w \in Seq(STRING) /\ Len(w) < Len(m)
  BY <1>3 DEF Backed
<1>5. Len(m) \in Nat /\ Len(m) >= 1
  BY ONLY <1>4
<1> QED BY <1>1, <1>4, <1>5

LEMMA AdvanceStays ==
  ASSUME chain \in Chains, rest \in Remains, block \in 1 .. Len(chain), InTheMemory(block, pos, TRUE),
         NEW p \in Nat, p >= 1, NEW k, k = NextNewline(block, p), Advance(k)
  PROVE  InTheMemory(block', pos', parsing')
<1>1. Memory(block) \in Seq(STRING) /\ Len(Memory(block)) \in Nat
  BY MemoryHas
<1>2. k = None \/ k \in p .. Len(Memory(block))
  BY <1>1, NewlineWithin
<1>3. CASE k # None /\ k # Len(chain[block])
  <2>1. StepTo(block, k)
    BY <1>3 DEF Advance
  <2>2. k \in Nat /\ k >= 1 /\ k <= Len(Memory(block))
    BY <1>1, <1>2, <1>3
  <2> QED BY <2>1, <2>2, StepStays
<1>4. CASE ~(k # None /\ k # Len(chain[block])) /\ block < Len(chain)
  <2>1. StepTo(block + 1, 1)
    BY <1>4 DEF Advance
  <2>2. Len(chain) \in Nat
    BY PlaylistAssumption
  <2>3. PICK b : b = block + 1
    OBVIOUS
  <2>4. b \in 1 .. Len(chain)
    BY ONLY <1>4, <2>2, <2>3, block \in 1 .. Len(chain)
  <2>5. 1 <= Len(Memory(b))
    BY <2>4, MemoryHas
  <2> QED BY <2>1, <2>3, <2>4, <2>5, StepStays
<1>5. CASE ~(k # None /\ k # Len(chain[block])) /\ ~(block < Len(chain))
  <2>1. Stop
    BY <1>5 DEF Advance
  <2> QED BY <2>1 DEF Stop, InTheMemory
<1> QED BY <1>3, <1>4, <1>5

LEMMA TypedStep ==
  ASSUME chain \in Chains, rest \in Remains, PlaylistTypeOK, ParseM3u8
  PROVE  PlaylistTypeOK'
<1>1. chain' = chain /\ rest' = rest
  BY DEF ParseM3u8, UriLine, ExtInf, OtherTag
<1>2. InTheMemory(block', pos', parsing') /\ endlist' \in BOOLEAN => PlaylistTypeOK'
  BY <1>1 DEF InTheMemory, PlaylistTypeOK, Memory
<1>3. chain \in Seq(Seq(STRING))
  BY PlaylistAssumption
<1>4. block \in 1 .. Len(chain) /\ InTheMemory(block, pos, TRUE)
  BY <1>3 DEF PlaylistTypeOK, InTheMemory
<1>5. Memory(block) \in Seq(STRING) /\ Len(Memory(block)) \in Nat
  BY <1>4, MemoryHas
<1>6. pos \in Nat /\ pos >= 1
  <2>1. pos \in DOMAIN Memory(block)
    BY DEF PlaylistTypeOK
  <2> QED BY ONLY <1>5, <2>1
<1>7. endlist' \in BOOLEAN
  <2>1. UriLine \/ ExtInf => endlist' = endlist
    BY DEF UriLine, ExtInf
  <2>2. OtherTag => endlist' \in BOOLEAN
    BY Zenon DEF OtherTag
  <2> QED BY <2>1, <2>2 DEF ParseM3u8, PlaylistTypeOK
<1>8. CASE UriLine \/ OtherTag
  <2>1. Advance(NextNewline(block, pos))
    BY <1>8 DEF UriLine, OtherTag
  <2>2. InTheMemory(block', pos', parsing')
    BY <1>4, <1>6, <2>1, AdvanceStays
  <2> QED BY <1>2, <1>7, <2>2
<1>9. CASE ExtInf
  <2>1. PICK next : next = NextNewline(block, pos)
    OBVIOUS
  <2>2. PICK after : after = NextNewline(block, next + 1)
    OBVIOUS
  <2>3. Stop \/ (next # None /\ Advance(after))
    BY <1>9, <2>1, <2>2 DEF ExtInf
  <2>4. CASE Stop
    <3>1. InTheMemory(block', pos', parsing')
      BY <1>4, <2>4 DEF Stop, InTheMemory
    <3> QED BY <1>2, <1>7, <3>1
  <2>5. CASE next # None /\ Advance(after)
    <3>1. next = None \/ next \in pos .. Len(Memory(block))
      BY <1>5, <1>6, <2>1, NewlineWithin
    <3>2. PICK p \in Nat : p = next + 1 /\ p >= 1
      BY <1>5, <1>6, <2>5, <3>1
    <3>3. InTheMemory(block', pos', parsing')
      BY <1>4, <2>2, <2>5, <3>2, AdvanceStays
    <3> QED BY <1>2, <1>7, <3>3
  <2> QED BY <2>3, <2>4, <2>5
<1> QED BY <1>8, <1>9 DEF ParseM3u8

DividedIn(c) == \A b \in DOMAIN c : Plain(c[b]) /\ EndsALine(c[b])
PairedIn(t) ==
  \A i \in Starts(t) : t[i] = "#EXTINF" =>
    \E j \in Starts(t) : j > i /\ t[j] \notin Tags \cup Ends
                         /\ \A k \in Starts(t) : ~(i < k /\ k < j)

\* The walk over the text of a chain has told of the lines before the one it is at.
Walked(c, t, b, p, on, srcs, el) ==
  \E off, q : /\ SolidText(c, t, off) /\ AtLine(c, t, off, b, p, on, q)
              /\ PairedIn(t) => Told(t, q, srcs, el)

\* The invariant of the loop of ParseM3u8: whatever the answer, the walk stays in the
\* memory, and over blocks of whole lines it is at a line and has told of those before.
WalkInv ==
  /\ chain \in Chains /\ rest \in Remains /\ PlaylistTypeOK
  /\ DividedIn(chain) =>
       Walked(chain, FlattenSeq(chain), block, pos, parsing, sources, endlist)

LEMMA InMemories == ASSUME chain \in Chains, rest \in Remains PROVE InMemory(chain)
BY MemoryIs DEF InMemory

LEMMA HereIs ==
  ASSUME NEW t, NEW off, SolidText(chain, t, off), InMemory(chain), NEW q,
         Stands(chain, t, off, block, pos, q)
  PROVE  /\ Memory(block)[pos] = t[q] /\ chain[block][pos] = t[q] /\ t[q] \notin Ends
         /\ q \in Nat /\ q \in Starts(t) /\ t \in Seq(STRING)
<1>1. /\ block \in 1 .. Len(chain) /\ pos \in 1 .. Len(chain[block])
      /\ chain[block][pos] \notin Ends /\ q \in Nat /\ q = off[block] + pos /\ q \in Starts(t)
  BY DEF Stands
<1>2. t[off[block] + pos] = chain[block][pos]
  BY <1>1, Placed
<1>3. PICK m : m = Memory(block)
  OBVIOUS
<1>4. Backed(chain[block], m)
  BY <1>1, <1>3 DEF InMemory
<1>5. m[pos] = chain[block][pos]
  BY <1>1, <1>4 DEF Backed
<1>6. t \in Seq(STRING)
  BY DEF SolidText, LaysOut
<1> QED BY <1>1, <1>2, <1>3, <1>5, <1>6

LEMMA EntryIs ==
  ASSUME NEW t, NEW i, NEW x \in BOOLEAN, x <=> TimedIn(t, i), NEW u,
         Trim(u) = Trim(LineAt(t, i)), NEW e, e = [timed |-> x, uri |-> u]
  PROVE  IsEntry(t, i, e)
<1>1. e.timed = x /\ e.uri = u
  OBVIOUS
<1>2. x = TimedIn(t, i)
  <2>1. CASE TimedIn(t, i)
    <3>1. TimedIn(t, i) = TRUE
      BY <2>1, Zenon DEF TimedIn
    <3>2. x = TRUE
      BY <2>1
    <3> QED BY ONLY <3>1, <3>2, Zenon
  <2>2. CASE ~TimedIn(t, i)
    <3>1. TimedIn(t, i) = FALSE
      BY <2>2, Zenon DEF TimedIn
    <3>2. x = FALSE
      BY <2>2
    <3> QED BY ONLY <3>1, <3>2, Zenon
  <2> QED BY <2>1, <2>2
<1>3. e.timed = TimedIn(t, i)
  BY ONLY <1>1, <1>2, Zenon
<1> QED BY <1>1, <1>3 DEF IsEntry

LEMMA UriLineTells ==
  ASSUME NEW t, InMemory(chain), UriLine,
         Walked(chain, t, block, pos, parsing, sources, endlist)
  PROVE  Walked(chain, t, block', pos', parsing', sources', endlist')
<1>1. PICK off, q : /\ SolidText(chain, t, off) /\ AtLine(chain, t, off, block, pos, parsing, q)
                    /\ PairedIn(t) => Told(t, q, sources, endlist)
  BY DEF Walked
<1>2. Stands(chain, t, off, block, pos, q)
  BY <1>1 DEF UriLine, AtLine
<1>3. /\ Memory(block)[pos] = t[q] /\ t[q] \notin Ends
      /\ q \in Nat /\ q \in Starts(t) /\ t \in Seq(STRING)
  BY <1>1, <1>2, HereIs
<1>4. /\ Advance(NextNewline(block, pos)) /\ t[q] \notin Tags /\ endlist' = endlist
      /\ sources' = Append(sources, [timed |-> FALSE, uri |-> Trim(LineFrom(block, pos))])
  BY <1>3 DEF UriLine, Push
<1>5. PICK L : L = LineFrom(block, pos) /\ L = LineAt(t, q) /\ L \in Seq(STRING)
  BY <1>1, <1>2, <1>4, ReadsLine
<1>6. PICK Q : AtLine(chain, t, off, block', pos', parsing', Q) /\ Between(t, q, q, Q)
  BY <1>1, <1>2, <1>4, ReadsLine
<1>7. ASSUME PairedIn(t) PROVE Told(t, Q, sources', endlist')
  <2>1. Told(t, q, sources, endlist) /\ ~TimedIn(t, q)
    BY <1>1, <1>7 DEF Told
  <2>2. PICK e : e = [timed |-> FALSE, uri |-> Trim(L)]
    OBVIOUS
  <2>3. IsEntry(t, q, e)
    <3>1. Trim(Trim(L)) = Trim(LineAt(t, q))
      BY <1>5, TrimTwice
    <3>2. PICK x \in BOOLEAN : x = FALSE
      OBVIOUS
    <3>3. (x <=> TimedIn(t, q)) /\ e = [timed |-> x, uri |-> Trim(L)]
      BY <2>1, <2>2, <3>2
    <3> QED BY ONLY <3>1, <3>3, x \in BOOLEAN, EntryIs
  <2>4. Q \in Nat
    BY <1>6 DEF AtLine
  <2>5. t[q] \notin Tags \cup Ends
    BY <1>3, <1>4
  <2>6. Told(t, Q, Append(sources, e), endlist)
    BY <1>3, <1>6, <2>1, <2>3, <2>4, <2>5, UriTold
  <2>7. sources' = Append(sources, e)
    BY <1>4, <1>5, <2>2
  <2> QED BY <1>4, <2>6, <2>7
<1> QED BY <1>1, <1>6, <1>7 DEF Walked

LEMMA OtherTagTells ==
  ASSUME NEW t, InMemory(chain), OtherTag, endlist \in BOOLEAN,
         Walked(chain, t, block, pos, parsing, sources, endlist)
  PROVE  Walked(chain, t, block', pos', parsing', sources', endlist')
<1>1. PICK off, q : /\ SolidText(chain, t, off) /\ AtLine(chain, t, off, block, pos, parsing, q)
                    /\ PairedIn(t) => Told(t, q, sources, endlist)
  BY DEF Walked
<1>2. parsing /\ Memory(block)[pos] \in Tags \ {"#EXTINF"}
  BY DEF OtherTag, At
<1>3. Stands(chain, t, off, block, pos, q)
  BY <1>1, <1>2 DEF AtLine
<1>4. Memory(block)[pos] = t[q] /\ t \in Seq(STRING)
  BY <1>1, <1>3, HereIs
<1>5. Advance(NextNewline(block, pos)) /\ sources' = sources
  BY DEF OtherTag
<1>6. PICK Q : AtLine(chain, t, off, block', pos', parsing', Q) /\ Between(t, q, q, Q)
  BY <1>1, <1>3, <1>5, ReadsLine
<1>7. PICK e \in BOOLEAN : e = endlist' /\ (e <=> (endlist \/ t[q] = "#EXT-X-ENDLIST"))
  <2>1. endlist' = (endlist \/ At({"#EXT-X-ENDLIST"}))
    BY DEF OtherTag
  <2>2. At({"#EXT-X-ENDLIST"}) <=> t[q] = "#EXT-X-ENDLIST"
    BY <1>2, <1>4 DEF At
  <2>3. endlist' \in BOOLEAN
    BY <2>1, Zenon
  <2>4. endlist' <=> (endlist \/ t[q] = "#EXT-X-ENDLIST")
    BY ONLY <2>1, <2>2, Zenon
  <2> QED BY <2>3, <2>4
<1>8. ASSUME PairedIn(t) PROVE Told(t, Q, sources', endlist')
  <2>1. Told(t, q, sources, endlist)
    BY <1>1, <1>8
  <2>2. Q \in Nat
    BY <1>6 DEF AtLine
  <2>3. t[q] \in Tags /\ t[q] # "#EXTINF"
    BY <1>2, <1>4
  <2>4. Told(t, Q, sources, e)
    BY <1>4, <1>6, <1>7, <2>1, <2>2, <2>3, TagTold
  <2> QED BY <1>5, <1>7, <2>4
<1> QED BY <1>1, <1>6, <1>8 DEF Walked

LEMMA ExtInfTells ==
  ASSUME NEW t, InMemory(chain), ExtInf,
         Walked(chain, t, block, pos, parsing, sources, endlist)
  PROVE  Walked(chain, t, block', pos', parsing', sources', endlist')
<1>1. PICK off, q : /\ SolidText(chain, t, off) /\ AtLine(chain, t, off, block, pos, parsing, q)
                    /\ PairedIn(t) => Told(t, q, sources, endlist)
  BY DEF Walked
<1>2. parsing /\ Memory(block)[pos] = "#EXTINF"
  BY DEF ExtInf, At
<1>3. Stands(chain, t, off, block, pos, q)
  BY <1>1, <1>2 DEF AtLine
<1>4. /\ Memory(block)[pos] = t[q] /\ chain[block][pos] = t[q]
      /\ q \in Nat /\ q \in Starts(t) /\ t \in Seq(STRING)
  BY <1>1, <1>3, HereIs
<1>5. PICK next : next = NextNewline(block, pos)
  OBVIOUS
<1>6. PICK after : after = NextNewline(block, next + 1)
  OBVIOUS
<1>7. chain[block][pos] = "#EXTINF"
  BY <1>2, <1>4
<1>8. next # None /\ Memory(block)[next + 1] # "NUL" /\ after # None
  BY <1>1, <1>3, <1>5, <1>6, <1>7, ReadsTwo
<1>9. /\ sources' = Append(sources, [timed |-> TRUE, uri |-> LineFrom(block, next + 1)])
      /\ Advance(after) /\ endlist' = endlist
  BY <1>5, <1>6, <1>8 DEF ExtInf, Push
<1>10. PICK Q, S : /\ AtLine(chain, t, off, block', pos', parsing', Q) /\ Between(t, q, S, Q)
                   /\ S \in Nat /\ q < S /\ \A x \in Starts(t) : ~(q < x /\ x < S)
                   /\ LineFrom(block, next + 1) = LineAt(t, S)
  BY <1>1, <1>3, <1>5, <1>6, <1>7, <1>9, ReadsTwo
<1>11. ASSUME PairedIn(t) PROVE Told(t, Q, sources', endlist')
  <2>1. Told(t, q, sources, endlist)
    BY <1>1, <1>11
  <2>2. S \in Starts(t) /\ \A x \in Starts(t) : x \in Nat
    <3>1. \A x \in Starts(t) : x \in 1 .. Len(t)
      BY <1>4, StartsAre
    <3> QED BY <1>10, <3>1 DEF Between
  <2>3. t[q] = "#EXTINF"
    BY <1>2, <1>4
  <2>4. PICK j \in Starts(t) : j > q /\ t[j] \notin Tags \cup Ends
                               /\ \A k \in Starts(t) : ~(q < k /\ k < j)
    BY <1>4, <1>11, <2>3 DEF PairedIn
  <2>5. j = S
    <3>1. ~(S < j) /\ ~(j < S)
      BY <1>10, <2>2, <2>4
    <3> QED BY <2>2, <3>1
  <2>6. TimedIn(t, S)
    BY <1>4, <1>10, <2>3 DEF TimedIn
  <2>7. PICK e : e = [timed |-> TRUE, uri |-> LineFrom(block, next + 1)]
    OBVIOUS
  <2>8. IsEntry(t, S, e)
    <3>1. PICK x \in BOOLEAN : x = TRUE
      OBVIOUS
    <3>2. (x <=> TimedIn(t, S)) /\ e = [timed |-> x, uri |-> LineFrom(block, next + 1)]
      BY <2>6, <2>7, <3>1
    <3>3. Trim(LineFrom(block, next + 1)) = Trim(LineAt(t, S))
      BY <1>10
    <3> QED BY ONLY <3>2, <3>3, x \in BOOLEAN, EntryIs
  <2>9. Q \in Nat
    BY <1>10 DEF AtLine
  <2>10. Told(t, Q, Append(sources, e), endlist)
    BY <1>4, <1>10, <2>1, <2>3, <2>4, <2>5, <2>8, <2>9, UriTold
  <2>11. sources' = Append(sources, e)
    BY <1>9, <2>7
  <2> QED BY <1>9, <2>10, <2>11
<1> QED BY <1>1, <1>10, <1>11 DEF Walked

LEMMA SolidWhenDivided ==
  ASSUME chain \in Chains, DividedIn(chain)
  PROVE  \E off : SolidText(chain, FlattenSeq(chain), off)
<1>1. chain \in Seq(Seq(STRING)) /\ chain # <<>>
  BY PlaylistAssumption
<1>2. PICK off : LaysOut(chain, FlattenSeq(chain), off)
  BY <1>1, TextIs
<1>3. Len(chain) \in Nat /\ \A b \in 1 .. Len(chain) : b \in DOMAIN chain /\ chain[b] \in Seq(STRING)
  BY <1>1
<1>4. \A b \in 1 .. Len(chain) : Solid(chain[b])
  BY <1>3, SolidIs DEF DividedIn
<1> QED BY <1>2, <1>3, <1>4 DEF SolidText

LEMMA WalkBegins == PlaylistInit => WalkInv
<1> SUFFICES ASSUME PlaylistInit PROVE WalkInv
  OBVIOUS
<1>1. /\ chain \in Chains /\ rest \in Remains /\ block = 1 /\ pos = 1 /\ sources = <<>>
      /\ endlist = FALSE /\ parsing = TRUE
  BY DEF PlaylistInit
<1>2. chain \in Seq(Seq(STRING)) /\ chain # <<>> /\ chain[1] # <<>> /\ chain[1][1] = "#EXTM3U"
  BY <1>1, PlaylistAssumption
<1>3. 1 \in 1 .. Len(chain) /\ 1 \in DOMAIN chain
  BY <1>2
<1>4. PlaylistTypeOK
  <2>1. Memory(1) \in Seq(STRING) /\ Len(Memory(1)) \in Nat /\ Len(Memory(1)) >= 1
    BY <1>1, <1>3, MemoryHas
  <2>2. 1 \in DOMAIN Memory(1)
    BY ONLY <2>1
  <2> QED BY <1>1, <1>3, <2>2 DEF PlaylistTypeOK
<1>5. ASSUME DividedIn(chain)
      PROVE  Walked(chain, FlattenSeq(chain), block, pos, parsing, sources, endlist)
  <2>1. PICK t : t = FlattenSeq(chain)
    OBVIOUS
  <2>2. PICK off : SolidText(chain, t, off)
    BY <1>1, <1>5, <2>1, SolidWhenDivided
  <2>3. t \in Seq(STRING) /\ off[1] = 0
    BY <2>2 DEF SolidText, LaysOut
  <2>4. Len(chain[1]) > 1 /\ Len(chain[1]) \in Nat /\ off[1] + Len(chain[1]) <= Len(t)
    BY <1>3, <2>2, Placed
  <2>5. 1 \in Starts(t)
    <3>1. 1 \in 1 .. Len(t)
      BY <2>3, <2>4
    <3>2. 1 \in DOMAIN t
      BY ONLY <2>3, <3>1
    <3> QED BY <3>2 DEF Starts
  <2>6. Stands(chain, t, off, 1, 1, 1)
    <3>1. 1 \in 1 .. Len(chain[1]) /\ 1 = off[1] + 1
      BY <2>3, <2>4
    <3>2. chain[1][1] \notin Ends
      BY <1>2, SymbolsApart
    <3> QED BY <1>3, <2>5, <3>1, <3>2 DEF Stands
  <2>7. AtLine(chain, t, off, 1, 1, TRUE, 1)
    BY <2>6 DEF AtLine
  <2>8. \A x \in Starts(t) : ~(x < 1)
    <3>1. \A x \in Starts(t) : x \in 1 .. Len(t)
      BY <2>3, StartsAre
    <3> QED BY <3>1
  <2>9. UrisBefore(t, 1) = {}
    BY <2>8 DEF UrisBefore, UrisIn
  <2>10. Listed(t, 1, <<>>)
    <3>1. \E S : <<>> \in Seq(S)
      BY EmptySeq
    <3>2. Len(<<>>) = 0 /\ Cardinality({}) = 0
      BY FS_EmptySet
    <3> QED BY <2>9, <3>1, <3>2 DEF Listed
  <2>11. EndSeen(t, 1, FALSE) /\ ~TimedIn(t, 1)
    BY <2>8 DEF EndSeen, TimedIn
  <2>12. Told(t, 1, <<>>, FALSE)
    BY <2>10, <2>11 DEF Told
  <2>13. Walked(chain, t, 1, 1, TRUE, <<>>, FALSE)
    BY <2>2, <2>7, <2>12 DEF Walked
  <2> QED BY <1>1, <2>1, <2>13
<1> QED BY <1>1, <1>4, <1>5 DEF WalkInv

LEMMA WalkGoesOn == WalkInv /\ ParseM3u8 => WalkInv'
<1> SUFFICES ASSUME WalkInv, ParseM3u8 PROVE WalkInv'
  OBVIOUS
<1>1. chain' = chain /\ rest' = rest
  BY DEF ParseM3u8, UriLine, ExtInf, OtherTag
<1>2. chain \in Chains /\ rest \in Remains /\ PlaylistTypeOK
  BY DEF WalkInv
<1>3. PlaylistTypeOK'
  BY <1>2, TypedStep
<1>4. ASSUME DividedIn(chain)
      PROVE  Walked(chain, FlattenSeq(chain), block', pos', parsing', sources', endlist')
  <2>1. PICK t : t = FlattenSeq(chain)
    OBVIOUS
  <2>2. Walked(chain, t, block, pos, parsing, sources, endlist)
    BY <1>4, <2>1 DEF WalkInv
  <2>3. InMemory(chain) /\ endlist \in BOOLEAN
    BY <1>2, InMemories DEF PlaylistTypeOK
  <2>4. CASE UriLine
    BY <2>1, <2>2, <2>3, <2>4, UriLineTells
  <2>5. CASE ExtInf
    BY <2>1, <2>2, <2>3, <2>5, ExtInfTells
  <2>6. CASE OtherTag
    BY <2>1, <2>2, <2>3, <2>6, OtherTagTells
  <2> QED BY <2>4, <2>5, <2>6 DEF ParseM3u8
<1> QED BY <1>1, <1>2, <1>3, <1>4 DEF WalkInv

LEMMA Listens == Spec => []WalkInv
<1>1. Init => WalkInv
  BY WalkBegins DEF Init
<1>2. WalkInv /\ [Handle]_vars => WalkInv'
  <2> SUFFICES ASSUME WalkInv, [Handle]_vars PROVE WalkInv'
    OBVIOUS
  <2>1. CASE isPlaylist /\ ParseM3u8
    BY <2>1, WalkGoesOn
  <2>2. CASE UNCHANGED playlist
    BY <2>2 DEF playlist, WalkInv, PlaylistTypeOK, Memory
  <2>3. UNCHANGED vars => UNCHANGED playlist
    BY DEF vars
  <2> QED BY <2>1, <2>2, <2>3 DEF Handle
<1> QED BY <1>1, <1>2, PTL DEF Spec

LEMMA ToldWhole ==
  ASSUME NEW t \in Seq(STRING), Told(t, Len(t) + 1, sources, endlist), t = Text
  PROVE  /\ Len(sources) = Cardinality(UriLines)
         /\ \A i \in UriLines :
              LET entry == sources[Cardinality({j \in UriLines : j <= i})]
              IN  entry.timed = Timed(i) /\ Trim(entry.uri) = Trim(LineAt(Text, i))
         /\ endlist = \E i \in Starts(Text) : Text[i] = "#EXT-X-ENDLIST"
<1>1. UriLines = UrisIn(t)
  BY DEF UriLines, UrisIn
<1>2. \A x \in Starts(t) : x < Len(t) + 1
  <2>1. \A x \in Starts(t) : x \in 1 .. Len(t)
    BY StartsAre
  <2> QED BY <2>1
<1>3. UrisBefore(t, Len(t) + 1) = UriLines
  BY <1>1, <1>2 DEF UrisBefore, UrisIn
<1>4. Len(sources) = Cardinality(UriLines)
  BY <1>3 DEF Told, Listed
<1>5. ASSUME NEW i \in UriLines
      PROVE  LET entry == sources[Cardinality({j \in UriLines : j <= i})]
             IN  entry.timed = Timed(i) /\ Trim(entry.uri) = Trim(LineAt(Text, i))
  <2>1. PICK n : n = Cardinality(UrisTo(t, i))
    OBVIOUS
  <2>2. n = Cardinality({j \in UriLines : j <= i})
    BY <1>1, <2>1 DEF UrisTo
  <2>3. IsEntry(t, i, sources[n])
    BY <1>3, <2>1 DEF Told, Listed
  <2>4. sources[n].timed = TimedIn(t, i) /\ Trim(sources[n].uri) = Trim(LineAt(t, i))
    BY <2>3 DEF IsEntry
  <2>5. TimedIn(t, i) = Timed(i)
    BY DEF TimedIn, Timed
  <2> QED BY <2>2, <2>4, <2>5, Zenon
<1>6. endlist = \E i \in Starts(Text) : Text[i] = "#EXT-X-ENDLIST"
  <2>1. endlist \in BOOLEAN
        /\ (endlist <=> \E i \in Starts(t) : i < Len(t) + 1 /\ t[i] = "#EXT-X-ENDLIST")
    BY DEF Told, EndSeen
  <2>2. endlist <=> \E i \in Starts(t) : t[i] = "#EXT-X-ENDLIST"
    BY <1>2, <2>1
  <2> QED BY <2>1, <2>2, Zenon
<1> QED BY <1>4, <1>5, <1>6

LEMMA WalkIsWhole == WalkInv => EntriesWhole
<1> SUFFICES ASSUME WalkInv PROVE EntriesWhole
  OBVIOUS
<1>1. PlaylistTypeOK
  BY DEF WalkInv
<1>2. SUFFICES ASSUME Divided
               PROVE  /\ parsing => pos <= Len(chain[block])
                      /\ Paired /\ ~parsing =>
                           /\ Len(sources) = Cardinality(UriLines)
                           /\ \A i \in UriLines :
                                LET entry == sources[Cardinality({j \in UriLines : j <= i})]
                                IN  entry.timed = Timed(i) /\ Trim(entry.uri) = Trim(LineAt(Text, i))
                           /\ endlist = \E i \in Starts(Text) : Text[i] = "#EXT-X-ENDLIST"
  BY <1>1 DEF EntriesWhole
<1>3. PICK t : t = Text
  OBVIOUS
<1>4. DividedIn(chain) /\ t = FlattenSeq(chain)
  BY <1>2, <1>3 DEF Divided, DividedIn, Text
<1>5. PICK off, q : /\ SolidText(chain, t, off) /\ AtLine(chain, t, off, block, pos, parsing, q)
                    /\ PairedIn(t) => Told(t, q, sources, endlist)
  BY <1>4 DEF WalkInv, Walked
<1>6. parsing => pos <= Len(chain[block])
  <2>1. SUFFICES ASSUME parsing PROVE pos <= Len(chain[block])
    OBVIOUS
  <2>2. block \in 1 .. Len(chain) /\ pos \in 1 .. Len(chain[block])
    BY <1>5, <2>1 DEF AtLine, Stands
  <2> QED BY <2>2
<1>7. ASSUME Paired, ~parsing PROVE Told(t, Len(t) + 1, sources, endlist) /\ t \in Seq(STRING)
  <2>1. PairedIn(t)
    BY <1>3, <1>7 DEF Paired, PairedIn
  <2>2. q = Len(t) + 1
    BY <1>5, <1>7 DEF AtLine
  <2> QED BY <1>5, <2>1, <2>2 DEF SolidText, LaysOut
<1> QED BY <1>3, <1>6, <1>7, ToldWhole

\* HlsHandler::ParseM3u8 (hls_handler.cpp:104-175): of a playlist whose blocks end where
\* lines end and whose durations have their lines, it makes one entry of every line that is
\* no tag, in the order of the lines, with a duration if there is one, sees ENDLIST in
\* whichever line it stands, and reads nothing that lies behind a block, whatever that is.
THEOREM Entries == Spec => []EntriesWhole
BY Listens, WalkIsWhole, PTL
=============================================================================

-------------------------- MODULE FileEventsProofs --------------------------
(***************************************************************************)
(* Proofs about the registration of connections, for any number of            *)
(* descriptors and connections and any size of the table: every variable has    *)
(* its type, whatever the interleaving; and until the threads overlap the kernel  *)
(* watches what the masks say, refuses nothing it is asked, and a callback runs    *)
(* for an event of the connection it is given.  The invariant follows the program   *)
(* that is under way operation by operation; once `overlapped` is TRUE it says no     *)
(* more than the types.                                                               *)
(***************************************************************************)
EXTENDS FileEvents, FiniteSetTheorems, SequenceTheorems, TLAPS

-----------------------------------------------------------------------------
(* The inductive invariant *)

Names == {"connect", "add", "load", "or", "andnot", "data", "raise", "lower", "del",
          "close", "free", "onread", "onwrite"}

Ops == {o \in [op : Names, fd : Fds \cup {NULL}, evs : SUBSET Events, conn : Link] :
          /\ o.op # "connect" => o.fd \in Fds
          /\ o.op = "free" => o.conn \in Conns}

\* What is left of a poll.
Entries == [op : {"onread", "onwrite"}, fd : Fds, evs : SUBSET Events, conn : Link]

Cells ==
  /\ file \in [Fds -> Link]
  /\ backend \in Backends
  /\ interest \in [Fds -> SUBSET Events]
  /\ pending \in [Fds -> SUBSET Events]
  /\ maxfd \in Fds \cup {-1}
  /\ mask \in [Fds -> SUBSET Events]
  /\ data \in [Fds -> Link]
  /\ opened \in 0 .. MaxConns
  /\ deleted \subseteq Conns
  /\ reg \in [Threads -> SUBSET Events]
  /\ misuse \in BOOLEAN /\ early \in BOOLEAN /\ stale \in BOOLEAN
  /\ failed \in BOOLEAN /\ aborted \in BOOLEAN

Typed == Cells /\ prog \in [Threads -> Seq(Ops)]

\* What one descriptor looks like when no operation on it is under way: open and not
\* closed by its client, it is in the table and watched; otherwise, or if the table has
\* no entry for it, it is in neither.
Sound(b, gone, f, i, p, m, d) ==
  /\ i \cup p = m
  /\ i = {} \/ p = {}
  /\ b # "evport" => p = {}
  /\ m # {} <=> f # NULL /\ f \notin gone
  /\ m # {} => d = f /\ "readable" \in m

Seat(fd, f) == IF fd < SetSize THEN f ELSE NULL

Well(fd) ==
  Sound(backend, deleted, Seat(fd, file[fd]), interest[fd], pending[fd], mask[fd], data[fd])

AllWell(X) == \A fd \in Fds \ X : Well(fd)

\* Connections not closed have a descriptor.
Homes(X) == \A c \in (1 .. opened) \ (deleted \cup X) : \E fd \in Fds : file[fd] = c

IsTop(m, S) == m \in S \cup {-1} /\ \A fd \in S : fd <= m
Masked == {fd \in Fds : mask[fd] # {}}

Steady == AllWell({}) /\ Homes({}) /\ IsTop(maxfd, Masked)

\* An event of the connection that is open on its descriptor.
Fresh(b, p, m, d, c) == m # {} /\ d = c /\ (b = "evport" => p # {})
Live(e) == Fresh(backend, pending[e.fd], mask[e.fd], data[e.fd], e.conn)

\* At most two entries of a descriptor, the read and then the write.
Apart(D) ==
  \A i, j \in DOMAIN D :
    i < j /\ D[i].fd = D[j].fd => j = i + 1 /\ D[i].op = "onread" /\ D[j].op = "onwrite"

\* The rest D of a poll, none of whose entries is of X, or only the first, the write of
\* a descriptor whose read is under way.
Away(D, X) ==
  backend # "kqueue" => Apart(D) /\ \A i \in DOMAIN D : D[i].fd \notin X /\ Live(D[i])
Spares(D, fd, X) ==
  backend # "kqueue" =>
    /\ Apart(D)
    /\ \A i \in DOMAIN D :
         \/ D[i].fd \notin X \cup {fd} /\ Live(D[i])
         \/ i = 1 /\ D[1].fd = fd /\ D[1].op = "onwrite"

Alone(t, p) == prog[t] = p /\ \A u \in Threads \ {t} : prog[u] = <<>>

\* The operations of s from the k-th on, and then those of q.
From(s, k, q) == SubSeq(s, k, Len(s)) \o q

\* Nothing is under way.
Resting ==
  \E D \in Seq(Entries) :
    /\ Alone("loop", D) /\ Steady
    /\ Away(D, {}) \/ \E fd \in Fds : mask[fd] = {} /\ Spares(D, fd, {})

\* After the requests of a handler comes the Close of its own connection.
Owned(fd) == mask[fd] # {} /\ (backend = "evport" => pending[fd] # {})
Follows(t, R, X) ==
  \/ R = <<>>
  \/ /\ t = "loop"
     /\ \E fd \in Fds \ X, k \in 1 .. 2, D \in Seq(Entries) :
          /\ R = From(CloseConnection(fd, file[fd], FALSE), k, D)
          /\ Owned(fd) /\ Spares(D, fd, X)

Requesting(t, n, R) ==
  /\ Alone(t, SendGetReqs(n) \o R)
  /\ Steady /\ Follows(t, R, {})

\* Before the k-th operation of AddIoEvents.
AddPoint(t, fd, c, k) ==
  /\ fd < SetSize
  /\ file[fd] = c /\ c \in Conns /\ c \notin deleted
  /\ pending[fd] = {}
  /\ interest[fd] = IF k = 1 THEN {} ELSE IF k <= 6 THEN {"writable"} ELSE Events
  /\ mask[fd] = IF k <= 3 THEN {} ELSE IF k <= 8 THEN {"writable"} ELSE Events
  /\ k >= 5 => data[fd] = c
  /\ k \in {3, 8} => reg[t] = mask[fd]
  /\ IsTop(maxfd, IF k <= 5 THEN Masked \ {fd} ELSE Masked)

Adding(t, fd, c, k, n, R) ==
  /\ Alone(t, From(AddIoEvents(fd, c), k, SendGetReqs(n) \o R))
  /\ AddPoint(t, fd, c, k) /\ AllWell({fd}) /\ Homes({}) /\ Follows(t, R, {fd})

\* Before the k-th operation of CloseConnection.
ClosePoint(fd, c, k) ==
  /\ fd < SetSize
  /\ file[fd] \in {c, NULL} /\ \A f \in Fds \ {fd} : file[f] # c
  /\ c \in 1 .. opened /\ c \notin deleted
  /\ k = 1 => file[fd] = c
  /\ IF backend = "evport" THEN interest[fd] = {} ELSE pending[fd] = {}
  /\ IF k <= 5 THEN backend = "evport" => pending[fd] # {}
               ELSE interest[fd] = {} /\ pending[fd] = {}
  /\ k <= 3 <=> mask[fd] # {}
  /\ k = 3 => reg["loop"] = mask[fd]
  /\ IsTop(maxfd, IF k = 4 THEN Masked \cup {fd} ELSE Masked)

Closing(fd, c, k, D) ==
  /\ Alone("loop", From(CloseConnection(fd, c, FALSE), k, D))
  /\ ClosePoint(fd, c, k) /\ AllWell({fd}) /\ Homes({c}) /\ Spares(D, fd, {})

\* Before the k-th operation of the DeleteFileEvent of OnWrite.
WritePoint(fd, c, k) ==
  /\ fd < SetSize
  /\ file[fd] = c /\ data[fd] = c /\ c \in Conns /\ c \notin deleted
  /\ IF backend = "evport" THEN pending[fd] = Events /\ interest[fd] = {}
                           ELSE pending[fd] = {} /\ interest[fd] = Events
  /\ mask[fd] = IF k <= 2 THEN Events ELSE {"readable"}
  /\ k = 2 => reg["loop"] = mask[fd]
  /\ IsTop(maxfd, Masked)

Writing(fd, c, k, D) ==
  /\ Alone("loop", From(DeleteFileEvent(fd, {"writable"}, c), k, D))
  /\ WritePoint(fd, c, k) /\ AllWell({fd}) /\ Homes({}) /\ Away(D, {fd})

Phase ==
  \/ Resting
  \/ \E t \in Threads, n \in Nat \ {0}, R \in Seq(Ops) : Requesting(t, n, R)
  \/ \E t \in Threads, fd \in Fds, c \in Conns, k \in 1 .. 10, n \in Nat, R \in Seq(Ops) :
       Adding(t, fd, c, k, n, R)
  \/ \E fd \in Fds, c \in Conns, k \in 1 .. 6, D \in Seq(Entries) : Closing(fd, c, k, D)
  \/ \E fd \in Fds, c \in Conns, k \in 1 .. 4, D \in Seq(Entries) : Writing(fd, c, k, D)

\* The descriptors of two connections are two; no call has failed so far.
Sane ==
  /\ \A fd \in Fds : file[fd] # NULL => file[fd] <= opened
  /\ \A f, g \in Fds : file[f] = file[g] /\ file[f] # NULL => f = g
  /\ deleted \subseteq 1 .. opened
  /\ ~misuse /\ ~early /\ ~failed /\ ~aborted /\ (backend # "kqueue" => ~stale)

IInv == Typed /\ overlapped \in BOOLEAN /\ (~overlapped => Sane /\ Phase)
-----------------------------------------------------------------------------
(* Programs as sequences *)

\* Taking the first operation, or the first few, off a program.
LEMMA TailTyped ==
  ASSUME NEW s \in Seq(Ops), s # <<>>, NEW n \in Nat
  PROVE  /\ Head(s) \in Ops
         /\ Tail(s) \in Seq(Ops)
         /\ SubSeq(s, n + 2, Len(s)) \in Seq(Ops)
<1>1. Len(s) \in Nat /\ n + 2 \in Int
  BY LenProperties
<1>2. \A i \in (n + 2) .. Len(s) : s[i] \in Ops
  BY <1>1, ElementOfSeq
<1> QED BY <1>1, <1>2, SubSeqProperties, HeadTailProperties

LEMMA FromIs ==
  ASSUME NEW s \in Seq(Ops), NEW q \in Seq(Ops), NEW k \in 1 .. Len(s)
  PROVE  /\ From(s, k, q) \in Seq(Ops)
         /\ From(s, k, q) # <<>>
         /\ Head(From(s, k, q)) = s[k]
         /\ SubSeq(From(s, k, q), 2, Len(From(s, k, q))) = From(s, k + 1, q)
<1> DEFINE n == Len(s)
           a == SubSeq(s, k, n)
           p == a \o q
           b == SubSeq(s, k + 1, n)
<1>1. n \in Nat /\ k \in Int /\ n \in Int /\ k + 1 \in Int /\ Len(q) \in Nat
  BY LenProperties
<1>2. \A i \in k .. n : s[i] \in Ops
  BY <1>1, ElementOfSeq
<1>3. /\ a \in Seq(Ops) /\ Len(a) = n - k + 1
      /\ \A i \in 1 .. n - k + 1 : a[i] = s[k + i - 1]
  BY <1>1, <1>2, SubSeqProperties
<1>4. \A i \in k + 1 .. n : s[i] \in Ops
  BY <1>1, <1>2
<1>5. /\ b \in Seq(Ops) /\ Len(b) = n - k
      /\ \A i \in 1 .. n - k : b[i] = s[k + i]
  <2>1. /\ b \in Seq(Ops) /\ Len(b) = IF k + 1 <= n THEN n - (k + 1) + 1 ELSE 0
        /\ \A i \in 1 .. n - (k + 1) + 1 : b[i] = s[(k + 1) + i - 1]
    BY <1>1, <1>4, SubSeqProperties
  <2>2. \A i \in 1 .. n - k : i \in 1 .. n - (k + 1) + 1 /\ (k + 1) + i - 1 = k + i
    BY <1>1
  <2>3. Len(b) = n - k
    BY <1>1, <2>1
  <2> QED BY <2>1, <2>2, <2>3
<1> HIDE DEF a, b, n
<1>6. /\ p \in Seq(Ops) /\ Len(p) = Len(a) + Len(q)
      /\ \A i \in 1 .. Len(a) + Len(q) : p[i] = IF i <= Len(a) THEN a[i] ELSE q[i - Len(a)]
  BY <1>3, ConcatProperties
<1>7. /\ b \o q \in Seq(Ops) /\ Len(b \o q) = Len(b) + Len(q)
      /\ \A i \in 1 .. Len(b) + Len(q) :
           (b \o q)[i] = IF i <= Len(b) THEN b[i] ELSE q[i - Len(b)]
  BY <1>5, ConcatProperties
<1> HIDE DEF p
<1>8. p # <<>> /\ Len(p) >= 1 /\ p[1] = s[k]
  <2>1. 1 \in 1 .. Len(a) /\ 1 \in 1 .. Len(a) + Len(q) /\ 1 \in 1 .. n - k + 1 /\ k + 1 - 1 = k
    BY <1>1, <1>3 DEF n
  <2>2. p[1] = a[1] /\ a[1] = s[k]
    BY <1>3, <1>6, <2>1
  <2>3. Len(p) >= 1
    BY <1>6, <2>1, <1>1
  <2>4. p # <<>>
    BY <2>3, EmptySeq
  <2> QED BY <2>2, <2>3, <2>4
<1>9. Tail(p) = b \o q
  <2>1. /\ Tail(p) \in Seq(Ops) /\ Len(Tail(p)) = Len(p) - 1
        /\ \A i \in 1 .. Len(Tail(p)) : Tail(p)[i] = p[i + 1]
    BY <1>6, <1>8, HeadTailProperties
  <2>2. Len(Tail(p)) = Len(b \o q)
    BY <1>1, <1>3, <1>5, <1>6, <1>7, <2>1 DEF n
  <2>3. ASSUME NEW i \in 1 .. Len(Tail(p)) PROVE Tail(p)[i] = (b \o q)[i]
    <3>1. i \in 1 .. Len(b) + Len(q) /\ i + 1 \in 1 .. Len(a) + Len(q)
      BY <1>1, <1>3, <1>5, <1>7, <2>2 DEF n
    <3>2. CASE i <= Len(b)
      <4>1. i + 1 <= Len(a) /\ i + 1 \in 1 .. n - k + 1 /\ i \in 1 .. n - k
            /\ k + (i + 1) - 1 = k + i
        BY <1>1, <1>3, <1>5, <3>1, <3>2 DEF n
      <4>2. a[i + 1] = s[k + i] /\ b[i] = s[k + i]
        BY <1>3, <1>5, <4>1
      <4>3. p[i + 1] = a[i + 1] /\ (b \o q)[i] = b[i]
        BY <1>6, <1>7, <3>1, <3>2, <4>1
      <4> QED BY <2>1, <4>2, <4>3
    <3>3. CASE ~(i <= Len(b))
      <4>1. ~(i + 1 <= Len(a)) /\ i + 1 - Len(a) = i - Len(b)
        BY <1>1, <1>3, <1>5, <3>1, <3>3 DEF n
      <4> QED BY <1>6, <1>7, <2>1, <3>1, <3>3, <4>1
    <3> QED BY <3>2, <3>3
  <2> QED BY <1>7, <2>1, <2>2, <2>3, SeqEqual
<1>10. Head(p) = s[k]
  BY <1>8
<1>11. SubSeq(p, 2, Len(p)) = Tail(p)
  BY <1>6, <1>8, TailIsSubSeq
<1> QED BY <1>6, <1>8, <1>9, <1>10, <1>11 DEF From, p, a, b, n

\* At both ends.
LEMMA FromEnds ==
  ASSUME NEW s \in Seq(Ops), NEW q \in Seq(Ops)
  PROVE  /\ From(s, 1, q) = s \o q
         /\ From(s, Len(s) + 1, q) = q
<1>1. Len(s) \in Nat
  BY LenProperties
<1>2. SubSeq(s, 1, Len(s)) = s
  BY SubSeqFull
<1>3. SubSeq(s, Len(s) + 1, Len(s)) = <<>>
  BY <1>1, SubSeqEmpty
<1>4. <<>> \o q = q
  BY ConcatEmptySeq
<1> QED BY <1>2, <1>3, <1>4 DEF From

\* What two programs of known length make.
LEMMA ConcatOf ==
  ASSUME NEW a \in Seq(Ops), NEW b \in Seq(Ops)
  PROVE  /\ a \o b \in Seq(Ops) /\ Len(a \o b) = Len(a) + Len(b)
         /\ \A i \in 1 .. Len(a) : (a \o b)[i] = a[i]
         /\ \A i \in 1 .. Len(b) : (a \o b)[Len(a) + i] = b[i]
<1> DEFINE m == Len(a)
           n == Len(b)
<1>1. /\ a \o b \in Seq(Ops) /\ Len(a \o b) = m + n
      /\ \A i \in 1 .. m + n : (a \o b)[i] = IF i <= m THEN a[i] ELSE b[i - m]
  BY ConcatProperties
<1>2. m \in Nat /\ n \in Nat
  BY LenProperties
<1> HIDE DEF m, n
<1>3. ASSUME NEW i \in 1 .. m PROVE (a \o b)[i] = a[i]
  <2>1. i \in 1 .. m + n /\ i <= m
    BY <1>2
  <2> QED BY <1>1, <2>1, Zenon
<1>4. ASSUME NEW i \in 1 .. n PROVE (a \o b)[m + i] = b[i]
  <2>1. m + i \in 1 .. m + n /\ ~(m + i <= m) /\ m + i - m = i
    BY <1>2
  <2> DEFINE x == m + i
  <2>2. x \in 1 .. m + n /\ ~(x <= m)
    BY <2>1
  <2> HIDE DEF x
  <2>3. (a \o b)[x] = b[x - m]
    BY <1>1, <2>2, Zenon
  <2>4. x - m = i
    BY <1>2 DEF x
  <2>5. (a \o b)[x] = b[i]
    BY <2>3, <2>4
  <2> QED BY <2>5 DEF x
<1> QED BY <1>1, <1>3, <1>4 DEF m, n

\* Two halves of five.
LEMMA ConcatOfFives ==
  ASSUME NEW a \in Seq(Ops), NEW b \in Seq(Ops), Len(a) = 5, Len(b) = 5
  PROVE  /\ a \o b \in Seq(Ops) /\ Len(a \o b) = 10
         /\ (a \o b)[1] = a[1] /\ (a \o b)[2] = a[2] /\ (a \o b)[3] = a[3]
         /\ (a \o b)[4] = a[4] /\ (a \o b)[5] = a[5]
         /\ (a \o b)[6] = b[1] /\ (a \o b)[7] = b[2] /\ (a \o b)[8] = b[3]
         /\ (a \o b)[9] = b[4] /\ (a \o b)[10] = b[5]
<1> DEFINE p == a \o b
<1>0. /\ p \in Seq(Ops) /\ Len(p) = Len(a) + Len(b)
      /\ \A i \in 1 .. Len(a) : p[i] = a[i]
      /\ \A i \in 1 .. Len(b) : p[Len(a) + i] = b[i]
  BY ConcatOf
<1>1. /\ p \in Seq(Ops) /\ Len(p) = 5 + 5
      /\ \A i \in 1 .. 5 : p[i] = a[i]
      /\ \A i \in 1 .. 5 : p[5 + i] = b[i]
  BY <1>0, Zenon
<1> HIDE DEF p
<1>2. p[1] = a[1] /\ p[2] = a[2] /\ p[3] = a[3] /\ p[4] = a[4] /\ p[5] = a[5]
  BY ONLY <1>1
<1>3. /\ p[5 + 1] = b[1] /\ p[5 + 2] = b[2] /\ p[5 + 3] = b[3] /\ p[5 + 4] = b[4]
      /\ p[5 + 5] = b[5]
  BY ONLY <1>1
<1>4. p[6] = b[1] /\ p[7] = b[2] /\ p[8] = b[3] /\ p[9] = b[4] /\ p[10] = b[5]
  BY ONLY <1>3
<1> QED BY <1>1, <1>2, <1>4 DEF p

\* One before five, and four between one and one.
LEMMA ConcatThrice ==
  ASSUME NEW a \in Seq(Ops), NEW b \in Seq(Ops), NEW f \in Seq(Ops)
  PROVE  (a \o b) \o f = a \o (b \o f)
BY ConcatAssociative

LEMMA ConcatOfOnes ==
  ASSUME NEW a \in Seq(Ops), NEW b \in Seq(Ops), NEW f \in Seq(Ops),
         Len(a) = 1, Len(b) = 4, Len(f) = 1
  PROVE  LET s == (a \o b) \o f
         IN  /\ s \in Seq(Ops) /\ Len(s) = 6
             /\ s[1] = a[1] /\ s[2] = b[1] /\ s[3] = b[2] /\ s[4] = b[3] /\ s[5] = b[4]
             /\ s[6] = f[1]
             /\ b \o f \in Seq(Ops)
             /\ SubSeq(s, 2, 6) = b \o f
<1> DEFINE p == a \o b
           s == p \o f
           t == b \o f
<1>0. /\ p \in Seq(Ops) /\ Len(p) = Len(a) + Len(b)
      /\ \A i \in 1 .. Len(a) : p[i] = a[i]
      /\ \A i \in 1 .. Len(b) : p[Len(a) + i] = b[i]
  BY ConcatOf
<1>1. /\ p \in Seq(Ops) /\ Len(p) = 1 + 4
      /\ \A i \in 1 .. 1 : p[i] = a[i]
      /\ \A i \in 1 .. 4 : p[1 + i] = b[i]
  BY <1>0, Zenon
<1>2. s = a \o t
  BY ConcatThrice, Zenon
<1>3. t \in Seq(Ops) /\ Len(t) = 4 + 1
  <2>1. t \in Seq(Ops) /\ Len(t) = Len(b) + Len(f)
    BY ConcatOf
  <2> QED BY <2>1, Zenon
<1> HIDE DEF p
<1>4. Len(p) = 5 /\ p[1] = a[1] /\ p[1 + 1] = b[1] /\ p[1 + 2] = b[2]
      /\ p[1 + 3] = b[3] /\ p[1 + 4] = b[4]
  BY ONLY <1>1
<1>5. /\ s \in Seq(Ops) /\ Len(s) = 5 + 1
      /\ \A i \in 1 .. 5 : s[i] = p[i]
      /\ \A i \in 1 .. 1 : s[5 + i] = f[i]
  <2>1. /\ s \in Seq(Ops) /\ Len(s) = Len(p) + Len(f)
        /\ \A i \in 1 .. Len(p) : s[i] = p[i]
        /\ \A i \in 1 .. Len(f) : s[Len(p) + i] = f[i]
    BY <1>1, ConcatOf
  <2> QED BY <1>4, <2>1, Zenon
<1> HIDE DEF s, t
<1>6. /\ Len(s) = 6 /\ s[1] = p[1] /\ s[2] = p[1 + 1] /\ s[3] = p[1 + 2]
      /\ s[4] = p[1 + 3] /\ s[5] = p[1 + 4] /\ s[5 + 1] = f[1]
  BY ONLY <1>5
<1>7. s[6] = f[1]
  BY ONLY <1>6
<1>8. SubSeq(s, 2, 6) = t
  <2>1. From(a, 1, t) = s /\ From(a, Len(a) + 1, t) = t
    BY <1>2, <1>3, FromEnds
  <2>2. SubSeq(From(a, 1, t), 2, Len(From(a, 1, t))) = From(a, 1 + 1, t)
    <3>1. 1 \in 1 .. Len(a)
      OBVIOUS
    <3> QED BY <1>3, <3>1, FromIs
  <2>3. Len(a) + 1 = 1 + 1
    OBVIOUS
  <2>4. Len(s) = 6
    BY <1>6
  <2> QED BY <2>1, <2>2, <2>3, <2>4
<1> QED BY <1>3, <1>4, <1>5, <1>6, <1>7, <1>8 DEF s, t, p

LEMMA OpTyped ==
  ASSUME NEW fd \in Fds, NEW evs \in SUBSET Events, NEW c \in Conns
  PROVE  /\ Op("add", fd, evs, c) \in Ops /\ Op("load", fd, evs, c) \in Ops
         /\ Op("or", fd, evs, c) \in Ops /\ Op("andnot", fd, evs, c) \in Ops
         /\ Op("data", fd, evs, c) \in Ops /\ Op("raise", fd, evs, c) \in Ops
         /\ Op("lower", fd, evs, c) \in Ops /\ Op("del", fd, evs, c) \in Ops
         /\ Op("close", fd, evs, c) \in Ops /\ Op("free", fd, evs, c) \in Ops
<1>1. \A name \in Names : Op(name, fd, evs, c) \in
        [op : Names, fd : Fds \cup {NULL}, evs : SUBSET Events, conn : Link]
  BY Zenon DEF Op, Link
<1>2. \A name \in Names : Op(name, fd, evs, c).fd = fd /\ Op(name, fd, evs, c).conn = c
  BY DEF Op
<1>3. \A name \in Names : Op(name, fd, evs, c) \in Ops
  BY <1>1, <1>2, Zenon DEF Ops
<1> QED BY <1>3, Zenon DEF Names

LEMMA CreateOps ==
  ASSUME NEW fd \in Fds, fd < SetSize, NEW e \in Events, NEW c \in Conns
  PROVE  LET s == CreateFileEvent(fd, e, c)
         IN  /\ s \in Seq(Ops) /\ Len(s) = 5
             /\ s[1] = Op("add", fd, {e}, c)
             /\ s[2] = Op("load", fd, {}, c)
             /\ s[3] = Op("or", fd, {e}, c)
             /\ s[4] = Op("data", fd, {}, c)
             /\ s[5] = Op("raise", fd, {}, c)
<1>1. {e} \in SUBSET Events /\ {} \in SUBSET Events
  OBVIOUS
<1>2. /\ Op("add", fd, {e}, c) \in Ops /\ Op("load", fd, {}, c) \in Ops
      /\ Op("or", fd, {e}, c) \in Ops /\ Op("data", fd, {}, c) \in Ops
      /\ Op("raise", fd, {}, c) \in Ops
  BY <1>1, OpTyped
<1>3. ~(fd >= SetSize)
  BY ConstantsAssumption
<1> QED BY <1>2, <1>3 DEF CreateFileEvent

LEMMA AddOps ==
  ASSUME NEW fd \in Fds, fd < SetSize, NEW c \in Conns
  PROVE  LET s == AddIoEvents(fd, c)
         IN  /\ s \in Seq(Ops) /\ Len(s) = 10
             /\ s[1] = Op("add", fd, {"writable"}, c)
             /\ s[2] = Op("load", fd, {}, c)
             /\ s[3] = Op("or", fd, {"writable"}, c)
             /\ s[4] = Op("data", fd, {}, c)
             /\ s[5] = Op("raise", fd, {}, c)
             /\ s[6] = Op("add", fd, {"readable"}, c)
             /\ s[7] = Op("load", fd, {}, c)
             /\ s[8] = Op("or", fd, {"readable"}, c)
             /\ s[9] = Op("data", fd, {}, c)
             /\ s[10] = Op("raise", fd, {}, c)
<1> DEFINE a == CreateFileEvent(fd, "writable", c)
           b == CreateFileEvent(fd, "readable", c)
<1>1. "writable" \in Events /\ "readable" \in Events
  BY DEF Events
<1>2. /\ a \in Seq(Ops) /\ Len(a) = 5
      /\ a[1] = Op("add", fd, {"writable"}, c) /\ a[2] = Op("load", fd, {}, c)
      /\ a[3] = Op("or", fd, {"writable"}, c) /\ a[4] = Op("data", fd, {}, c)
      /\ a[5] = Op("raise", fd, {}, c)
  BY <1>1, CreateOps
<1>3. /\ b \in Seq(Ops) /\ Len(b) = 5
      /\ b[1] = Op("add", fd, {"readable"}, c) /\ b[2] = Op("load", fd, {}, c)
      /\ b[3] = Op("or", fd, {"readable"}, c) /\ b[4] = Op("data", fd, {}, c)
      /\ b[5] = Op("raise", fd, {}, c)
  BY <1>1, CreateOps
<1>4. AddIoEvents(fd, c) = a \o b
  BY DEF AddIoEvents
<1> HIDE DEF a, b
<1> QED BY <1>2, <1>3, <1>4, ConcatOfFives

LEMMA DeleteOps ==
  ASSUME NEW fd \in Fds, fd < SetSize, NEW evs \in SUBSET Events, NEW c \in Conns
  PROVE  LET s == DeleteFileEvent(fd, evs, c)
         IN  /\ s \in Seq(Ops) /\ Len(s) = 4
             /\ s[1] = Op("load", fd, {}, c)
             /\ s[2] = Op("andnot", fd, evs, c)
             /\ s[3] = Op("lower", fd, {}, c)
             /\ s[4] = Op("del", fd, evs, c)
<1>1. /\ Op("load", fd, {}, c) \in Ops /\ Op("andnot", fd, evs, c) \in Ops
      /\ Op("lower", fd, {}, c) \in Ops /\ Op("del", fd, evs, c) \in Ops
  BY OpTyped
<1>2. ~(fd >= SetSize)
  BY ConstantsAssumption
<1> QED BY <1>1, <1>2 DEF DeleteFileEvent

LEMMA CloseOps ==
  ASSUME NEW fd \in Fds, fd < SetSize, NEW c \in Conns
  PROVE  LET s == CloseConnection(fd, c, FALSE)
         IN  /\ s \in Seq(Ops) /\ Len(s) = 6
             /\ s[1] = Op("close", fd, {}, c)
             /\ s[2] = Op("load", fd, {}, c)
             /\ s[3] = Op("andnot", fd, Events, c)
             /\ s[4] = Op("lower", fd, {}, c)
             /\ s[5] = Op("del", fd, Events, c)
             /\ s[6] = Op("free", fd, {}, c)
             /\ CloseConnection(fd, c, TRUE) \in Seq(Ops)
             /\ CloseConnection(fd, c, TRUE) = SubSeq(s, 2, 6)
<1> DEFINE a == <<Op("close", fd, {}, c)>>
           b == DeleteFileEvent(fd, Events, c)
           f == <<Op("free", fd, {}, c)>>
<1>1. Op("close", fd, {}, c) \in Ops /\ Op("free", fd, {}, c) \in Ops
  BY OpTyped
<1>2. /\ a \in Seq(Ops) /\ Len(a) = 1 /\ a[1] = Op("close", fd, {}, c)
      /\ f \in Seq(Ops) /\ Len(f) = 1 /\ f[1] = Op("free", fd, {}, c)
  BY <1>1
<1>3. /\ b \in Seq(Ops) /\ Len(b) = 4
      /\ b[1] = Op("load", fd, {}, c) /\ b[2] = Op("andnot", fd, Events, c)
      /\ b[3] = Op("lower", fd, {}, c) /\ b[4] = Op("del", fd, Events, c)
  <2>1. Events \in SUBSET Events
    OBVIOUS
  <2> QED BY <2>1, DeleteOps
<1>4. CloseConnection(fd, c, FALSE) = (a \o b) \o f /\ CloseConnection(fd, c, TRUE) = (<<>> \o b) \o f
  BY DEF CloseConnection
<1> HIDE DEF a, b, f
<1>5. <<>> \o b = b
  BY <1>3, ConcatEmptySeq
<1>6. LET s == (a \o b) \o f
      IN  /\ s \in Seq(Ops) /\ Len(s) = 6
          /\ s[1] = a[1] /\ s[2] = b[1] /\ s[3] = b[2] /\ s[4] = b[3] /\ s[5] = b[4]
          /\ s[6] = f[1]
          /\ b \o f \in Seq(Ops)
          /\ SubSeq(s, 2, 6) = b \o f
  BY <1>2, <1>3, ConcatOfOnes
<1> QED BY <1>2, <1>3, <1>4, <1>5, <1>6

\* Requests that are still to be sent, and then q.
LEMMA GetReqs ==
  ASSUME NEW n \in Nat, NEW q \in Seq(Ops)
  PROVE  /\ SendGetReqs(n) \in Seq(Ops) /\ SendGetReqs(n) \o q \in Seq(Ops)
         /\ n = 0 => SendGetReqs(n) \o q = q
         /\ n # 0 => LET p == SendGetReqs(n) \o q
                     IN  /\ p # <<>> /\ Head(p) = Op("connect", NULL, {}, NULL)
                         /\ Tail(p) = SendGetReqs(n - 1) \o q
                         /\ SubSeq(p, 2, Len(p)) = SendGetReqs(n - 1) \o q
<1> DEFINE o == Op("connect", NULL, {}, NULL)
<1>1. o \in Ops
  <2>1. o \in [op : Names, fd : Fds \cup {NULL}, evs : SUBSET Events, conn : Link]
    BY Zenon DEF Op, Link, Names
  <2>2. o.op = "connect"
    BY DEF Op
  <2> QED BY <2>1, <2>2 DEF Ops
<1>2. \A m \in Nat : /\ SendGetReqs(m) \in Seq(Ops) /\ Len(SendGetReqs(m)) = m
                     /\ \A i \in 1 .. m : SendGetReqs(m)[i] = o
  BY <1>1 DEF SendGetReqs
<1>3. SendGetReqs(n) \o q \in Seq(Ops)
  BY <1>2, ConcatProperties
<1>4. CASE n = 0
  <2>1. SendGetReqs(n) = <<>>
    BY <1>2, <1>4, EmptySeq
  <2> QED BY <1>2, <1>3, <1>4, <2>1, ConcatEmptySeq
<1>5. CASE n # 0
  <2> DEFINE s == SendGetReqs(n)
             p == s \o q
             r == SendGetReqs(n - 1)
  <2>1. n - 1 \in Nat /\ 1 \in 1 .. n
    BY <1>5
  <2>2. /\ s \in Seq(Ops) /\ Len(s) = n /\ s[1] = o
        /\ r \in Seq(Ops) /\ Len(r) = n - 1
    BY <1>2, <2>1
  <2>3. \A i \in 1 .. n - 1 : r[i] = s[i + 1]
    <3>1. \A i \in 1 .. n - 1 : i + 1 \in 1 .. n /\ r[i] = o
      BY <1>2, <2>1
    <3> QED BY <1>2, <3>1
  <2> HIDE DEF s, r
  <2>4. Tail(s) = r /\ s # <<>>
    <3>1. s # <<>>
      BY <2>1, <2>2, EmptySeq
    <3>2. /\ Tail(s) \in Seq(Ops) /\ Len(Tail(s)) = n - 1
          /\ \A i \in 1 .. n - 1 : Tail(s)[i] = s[i + 1]
      BY <2>2, <3>1, HeadTailProperties
    <3> QED BY <2>2, <2>3, <3>1, <3>2, SeqEqual
  <2>5. From(s, 1, q) = p /\ From(s, 2, q) = r \o q
    <3>1. From(s, 1, q) = p
      BY <2>2, FromEnds
    <3>2. SubSeq(s, 2, Len(s)) = r
      BY <2>2, <2>4, TailIsSubSeq
    <3> QED BY <3>1, <3>2 DEF From
  <2>6. 1 \in 1 .. Len(s) /\ 1 + 1 = 2
    BY <2>1, <2>2
  <2>7. p # <<>> /\ Head(p) = o /\ SubSeq(p, 2, Len(p)) = r \o q
    <3> DEFINE u == From(s, 1, q)
    <3>1. u # <<>> /\ Head(u) = s[1] /\ SubSeq(u, 2, Len(u)) = From(s, 1 + 1, q)
      BY <2>2, <2>6, FromIs
    <3> QED BY <2>2, <2>5, <2>6, <3>1
  <2>8. Tail(p) = SubSeq(p, 2, Len(p))
    BY <1>3, <2>7, TailIsSubSeq DEF s
  <2> QED BY <1>2, <1>3, <1>5, <2>7, <2>8 DEF s, r
<1> QED BY <1>4, <1>5
-----------------------------------------------------------------------------
(* Every variable has its type *)

LEMMA TypedIsTypeOK == Typed /\ overlapped \in BOOLEAN => TypeOK
<1> SUFFICES ASSUME Typed, overlapped \in BOOLEAN PROVE TypeOK
  OBVIOUS
<1>1. ASSUME NEW t \in Threads, NEW i \in DOMAIN prog[t]
      PROVE  prog[t][i].fd \in Fds \cup {NULL} /\ prog[t][i].conn \in Link
  <2>1. prog[t] \in Seq(Ops)
    BY DEF Typed
  <2>2. i \in 1 .. Len(prog[t])
    BY <2>1, LenProperties
  <2>3. prog[t][i] \in Ops
    BY <2>1, <2>2, ElementOfSeq
  <2>4. prog[t][i] \in [op : Names, fd : Fds \cup {NULL}, evs : SUBSET Events, conn : Link]
    BY <2>3, Zenon DEF Ops
  <2> HIDE DEF Ops
  <2> QED BY <2>4
<1>2. {misuse, early, stale, failed, aborted, overlapped} \subseteq BOOLEAN
  BY DEF Typed, Cells
<1> QED BY <1>1, <1>2 DEF Typed, Cells, TypeOK

\* What an operation is made of.
LEMMA OpParts ==
  ASSUME NEW o \in Ops
  PROVE  /\ o.op \in Names /\ o.fd \in Fds \cup {NULL} /\ o.evs \in SUBSET Events
         /\ o.conn \in Link
         /\ o.op # "connect" => o.fd \in Fds
         /\ o.op = "free" => o.conn \in Conns
<1>1. o \in [op : Names, fd : Fds \cup {NULL}, evs : SUBSET Events, conn : Link]
  BY Zenon DEF Ops
<1>2. /\ o.op # "connect" => o.fd \in Fds
      /\ o.op = "free" => o.conn \in Conns
  BY Zenon DEF Ops
<1> QED BY <1>1, <1>2

LEMMA ThisTyped ==
  ASSUME Typed, NEW t \in Threads, prog[t] # <<>>
  PROVE  prog[t] \in Seq(Ops) /\ This(t) \in Ops
<1>1. prog[t] \in Seq(Ops)
  BY DEF Typed
<1> QED BY <1>1, TailTyped DEF This

LEMMA SkipTyped ==
  ASSUME Typed, NEW t \in Threads, prog[t] # <<>>, NEW n \in Nat, Skip(t, n)
  PROVE  prog' \in [Threads -> Seq(Ops)]
<1>1. prog[t] \in Seq(Ops) /\ prog \in [Threads -> Seq(Ops)]
  BY DEF Typed
<1>2. SubSeq(prog[t], n + 2, Len(prog[t])) \in Seq(Ops)
  BY <1>1, TailTyped
<1>3. prog' = [prog EXCEPT ![t] = SubSeq(prog[t], n + 2, Len(prog[t]))]
  BY DEF Skip
<1> QED BY <1>1, <1>2, <1>3

LEMMA ContinueTyped ==
  ASSUME Typed, NEW t \in Threads, prog[t] # <<>>, NEW ops \in Seq(Ops), Continue(t, ops)
  PROVE  prog' \in [Threads -> Seq(Ops)]
<1>1. prog[t] \in Seq(Ops) /\ prog \in [Threads -> Seq(Ops)]
  BY DEF Typed
<1>2. Tail(prog[t]) \in Seq(Ops)
  BY <1>1, TailTyped
<1>3. ops \o Tail(prog[t]) \in Seq(Ops)
  BY <1>2, ConcatProperties
<1>4. prog' = [prog EXCEPT ![t] = ops \o Tail(prog[t])]
  BY DEF Continue
<1> QED BY <1>1, <1>3, <1>4

\* The entries of a poll.
LEMMA DispatchTyped ==
  ASSUME NEW n \in Nat, NEW fired, DOMAIN fired = 1 .. n, Len(fired) = n,
         \A i \in 1 .. n : \E fd \in Fds, evs \in SUBSET Events : fired[i] = Fired(fd, evs),
         file \in [Fds -> Link]
  PROVE  /\ Dispatch(fired) \in Seq(Entries)
         /\ Len(Dispatch(fired)) = 2 * n
         /\ \A i \in 1 .. 2 * n : \E j \in 1 .. n :
              /\ j = (i + 1) \div 2
              /\ Dispatch(fired)[i].fd = fired[j].fd /\ Dispatch(fired)[i].conn = fired[j].conn
              /\ Dispatch(fired)[i].op = IF i % 2 = 1 THEN "onread" ELSE "onwrite"
<1> DEFINE e(i) == [fired[(i + 1) \div 2] EXCEPT !.op = IF i % 2 = 1 THEN "onread" ELSE "onwrite"]
           D == [i \in 1 .. 2 * n |-> e(i)]
<1>1. \A i \in 1 .. 2 * n : (i + 1) \div 2 \in 1 .. n
  OBVIOUS
<1>2. ASSUME NEW i \in 1 .. 2 * n
      PROVE  /\ e(i) \in Entries
             /\ e(i).fd = fired[(i + 1) \div 2].fd /\ e(i).conn = fired[(i + 1) \div 2].conn
             /\ e(i).op = IF i % 2 = 1 THEN "onread" ELSE "onwrite"
  <2> DEFINE o == IF i % 2 = 1 THEN "onread" ELSE "onwrite"
  <2>1. PICK fd \in Fds, evs \in SUBSET Events : fired[(i + 1) \div 2] = Fired(fd, evs)
    BY <1>1
  <2>2. e(i) = [op |-> o, fd |-> fd, evs |-> evs, conn |-> file[fd]]
    BY <2>1 DEF Fired, Op
  <2>3. o \in {"onread", "onwrite"}
    OBVIOUS
  <2>4. file[fd] \in Link
    OBVIOUS
  <2>5. fired[(i + 1) \div 2].fd = fd /\ fired[(i + 1) \div 2].conn = file[fd]
    BY <2>1 DEF Fired, Op
  <2> HIDE DEF o, e
  <2>6. [op |-> o, fd |-> fd, evs |-> evs, conn |-> file[fd]] \in Entries
    BY <2>3, <2>4, Zenon DEF Entries
  <2>7. e(i).op = o /\ e(i).fd = fd /\ e(i).conn = file[fd]
    BY <2>2
  <2> QED BY <2>2, <2>5, <2>6, <2>7 DEF o
<1>3. Dispatch(fired) = D
  BY DEF Dispatch
<1> HIDE DEF e
<1>4. D \in Seq(Entries) /\ Len(D) = 2 * n /\ \A i \in 1 .. 2 * n : D[i] = e(i)
  BY <1>2
<1> QED BY <1>1, <1>2, <1>3, <1>4

LEMMA EntriesAreOps == Seq(Entries) \subseteq Seq(Ops)
<1>1. ASSUME NEW o \in Entries PROVE o \in Ops
  <2>1. o.op \in {"onread", "onwrite"} /\ o.fd \in Fds
    BY DEF Entries
  <2>2. o \in [op : Names, fd : Fds \cup {NULL}, evs : SUBSET Events, conn : Link]
    <3>1. PICK a \in {"onread", "onwrite"}, fd \in Fds, evs \in SUBSET Events, c \in Link :
            o = [op |-> a, fd |-> fd, evs |-> evs, conn |-> c]
      <4>1. /\ o.op \in {"onread", "onwrite"} /\ o.fd \in Fds /\ o.evs \in SUBSET Events
            /\ o.conn \in Link
            /\ o = [op |-> o.op, fd |-> o.fd, evs |-> o.evs, conn |-> o.conn]
        BY DEF Entries
      <4> QED BY <4>1, Zenon
    <3>2. a \in Names
      BY <3>1 DEF Names
    <3> QED BY <3>1, <3>2, Zenon
  <2> QED BY <2>1, <2>2 DEF Ops
<1> QED BY <1>1

\* Whether or not the table has an entry for the descriptor.
LEMMA AddTyped ==
  ASSUME NEW fd \in Fds, NEW c \in Conns
  PROVE  AddIoEvents(fd, c) \in Seq(Ops)
<1>1. fd < SetSize \/ fd >= SetSize
  BY ConstantsAssumption
<1>2. CASE fd < SetSize
  BY <1>2, AddOps
<1>3. CASE fd >= SetSize
  <2>1. CreateFileEvent(fd, "writable", c) = <<>> /\ CreateFileEvent(fd, "readable", c) = <<>>
    BY <1>3 DEF CreateFileEvent
  <2>2. <<>> \in Seq(Ops)
    BY EmptySeq
  <2> QED BY <2>1, <2>2, ConcatProperties DEF AddIoEvents
<1> QED BY <1>1, <1>2, <1>3

LEMMA DeleteTyped ==
  ASSUME NEW fd \in Fds, NEW evs \in SUBSET Events, NEW c \in Conns
  PROVE  DeleteFileEvent(fd, evs, c) \in Seq(Ops)
<1>1. fd < SetSize \/ fd >= SetSize
  BY ConstantsAssumption
<1>2. CASE fd < SetSize
  BY <1>2, DeleteOps
<1>3. CASE fd >= SetSize
  BY <1>3, EmptySeq DEF DeleteFileEvent
<1> QED BY <1>1, <1>2, <1>3

LEMMA CloseTyped ==
  ASSUME NEW fd \in Fds, NEW c \in Conns, NEW r \in BOOLEAN
  PROVE  CloseConnection(fd, c, r) \in Seq(Ops)
<1> DEFINE a == IF r THEN <<>> ELSE <<Op("close", fd, {}, c)>>
           b == DeleteFileEvent(fd, Events, c)
           f == <<Op("free", fd, {}, c)>>
<1>1. a \in Seq(Ops) /\ f \in Seq(Ops)
  BY OpTyped, EmptySeq
<1>2. b \in Seq(Ops)
  BY DeleteTyped
<1>3. CloseConnection(fd, c, r) = (a \o b) \o f
  BY DEF CloseConnection
<1> HIDE DEF a, b, f
<1> QED BY <1>1, <1>2, <1>3, ConcatProperties

\* What OnRead may do.
LEMMA ReadOpsAre ==
  ASSUME NEW fd, NEW c
  PROVE  \A p \in ReadOps(fd, c) :
           \/ p = <<>>
           \/ p = CloseConnection(fd, c, FALSE)
           \/ \E n \in 0 .. MaxOpens, r \in BOOLEAN :
                p = SendGetReqs(n) \o CloseConnection(fd, c, r)
<1> DEFINE A == {<<>>, CloseConnection(fd, c, FALSE)}
           B == {SendGetReqs(n) \o CloseConnection(fd, c, r) : n \in 0 .. MaxOpens, r \in BOOLEAN}
<1>1. ReadOps(fd, c) = A \cup B
  BY SMT DEF ReadOps
<1>2. ASSUME NEW p, p \in B
      PROVE  \E n \in 0 .. MaxOpens, r \in BOOLEAN :
               p = SendGetReqs(n) \o CloseConnection(fd, c, r)
  BY ONLY <1>2
<1>3. \A p \in A : p = <<>> \/ p = CloseConnection(fd, c, FALSE)
  OBVIOUS
<1> HIDE DEF A, B
<1>4. \A p \in ReadOps(fd, c) : p \in A \/ p \in B
  BY <1>1
<1> QED BY <1>2, <1>3, <1>4, Zenon

LEMMA CallbackOpsTyped ==
  ASSUME NEW fd \in Fds, NEW c \in Conns
  PROVE  ReadOps(fd, c) \subseteq Seq(Ops) /\ WriteOps(fd, c) \subseteq Seq(Ops)
<1>1. <<>> \in Seq(Ops)
  BY EmptySeq
<1>2. CloseConnection(fd, c, FALSE) \in Seq(Ops)
  BY CloseTyped
<1>3. DeleteFileEvent(fd, {"writable"}, c) \in Seq(Ops)
  <2>1. {"writable"} \in SUBSET Events
    BY DEF Events
  <2> QED BY <2>1, DeleteTyped
<1>4. ASSUME NEW n \in 0 .. MaxOpens, NEW r \in BOOLEAN
      PROVE  SendGetReqs(n) \o CloseConnection(fd, c, r) \in Seq(Ops)
  <2>1. n \in Nat
    <3>1. MaxOpens \in Nat
      BY ConstantsAssumption
    <3> QED BY <3>1
  <2>3. CloseConnection(fd, c, r) \in Seq(Ops)
    BY CloseTyped
  <2>2. \A q \in Seq(Ops) : SendGetReqs(n) \o q \in Seq(Ops)
    BY <2>1, GetReqs
  <2> QED BY <2>2, <2>3, Zenon
<1>5. ASSUME NEW p \in ReadOps(fd, c) PROVE p \in Seq(Ops)
  <2>1. \/ p = <<>> \/ p = CloseConnection(fd, c, FALSE)
        \/ \E n \in 0 .. MaxOpens, r \in BOOLEAN :
             p = SendGetReqs(n) \o CloseConnection(fd, c, r)
    BY ReadOpsAre
  <2> QED BY <1>1, <1>2, <1>4, <2>1, Zenon
<1>6. \A p \in WriteOps(fd, c) : p \in Seq(Ops)
  BY <1>1, <1>2, <1>3, Zenon DEF WriteOps
<1> QED BY <1>5, <1>6

\* A set of numbers has a least element.
Below == {p \in Nat \X Nat : p[1] < p[2]}

LEMMA NatLeast ==
  ASSUME NEW T, T \subseteq Nat, T # {}
  PROVE  \E n \in T : \A m \in T : n <= m
<1>1. IsWellFoundedOn(Below, Nat)
  BY NatLessThanWellFounded DEF OpToRel, Below
<1>2. PICK n \in T : \A m \in T : <<m, n>> \notin Below
  BY <1>1, WFMin
<1>3. \A m \in T : ~(m < n)
  BY <1>2 DEF Below
<1> QED BY <1>3

\* A finite set of numbers has a greatest element: the one the fewest are above.
LEMMA FiniteGreatest ==
  ASSUME NEW S, IsFiniteSet(S), S \subseteq Int, S # {}
  PROVE  \E k \in S : \A m \in S : m <= k
<1> DEFINE Above(k) == {m \in S : m > k}
           Counts == {Cardinality(Above(k)) : k \in S}
<1>1. \A k \in S : IsFiniteSet(Above(k)) /\ Cardinality(Above(k)) \in Nat
  BY FS_Subset, FS_CardinalityType
<1>2. PICK n \in Counts : \A m \in Counts : n <= m
  <2>1. Counts \subseteq Nat /\ Counts # {}
    BY <1>1
  <2> HIDE DEF Counts
  <2> QED BY <2>1, NatLeast
<1>3. PICK k \in S : \A m \in S : Cardinality(Above(k)) <= Cardinality(Above(m))
  BY <1>2
<1>4. ASSUME NEW m \in S, m > k PROVE FALSE
  <2>0. m \in Int /\ k \in Int /\ \A x \in S : x \in Int
    OBVIOUS
  <2>1. Above(m) \subseteq Above(k) /\ m \in Above(k) /\ m \notin Above(m)
    <3>1. (\A x \in S : x > m => x > k) /\ ~(m > m)
      BY <1>4, <2>0
    <3> QED BY Zenon, <1>4, <3>1
  <2> HIDE DEF Above
  <2>2. /\ Cardinality(Above(m)) <= Cardinality(Above(k))
        /\ Cardinality(Above(m)) # Cardinality(Above(k))
    BY <1>1, <2>1, FS_Subset
  <2>3. Cardinality(Above(k)) <= Cardinality(Above(m))
    BY <1>3
  <2> QED BY <1>1, <2>2, <2>3
<1> QED BY <1>4

\* The least descriptor, the greatest of a few.
LEMMA LeastFree ==
  ASSUME NEW S, S \subseteq Fds, S # {}
  PROVE  Min(S) \in S
<1>1. S \subseteq Nat
  BY ConstantsAssumption
<1>2. PICK n \in S : \A m \in S : n <= m
  BY <1>1, NatLeast
<1> QED BY <1>2 DEF Min

LEMMA MaxIsTop ==
  ASSUME NEW S, S \subseteq Fds
  PROVE  IsTop(Max({-1} \cup S), S) /\ \A m : IsTop(m, S) => m = Max({-1} \cup S)
<1>1. S \subseteq Nat /\ IsFiniteSet(S)
  BY ConstantsAssumption, FS_Subset
<1>2. IsFiniteSet({-1} \cup S)
  BY <1>1, FS_Singleton, FS_Union
<1>3. {-1} \cup S \subseteq Int /\ {-1} \cup S # {}
  BY <1>1
<1>4. PICK k \in {-1} \cup S : \A m \in {-1} \cup S : m <= k
  BY <1>2, <1>3, FiniteGreatest
<1>5. Max({-1} \cup S) \in {-1} \cup S /\ \A m \in {-1} \cup S : Max({-1} \cup S) >= m
  BY <1>4, <1>3 DEF Max
<1>6. \A m \in {-1} \cup S : (\A n \in {-1} \cup S : n <= m) => m = Max({-1} \cup S)
  BY <1>3, <1>5
<1>7. \A m : IsTop(m, S) => m \in {-1} \cup S /\ \A n \in {-1} \cup S : n <= m
  BY <1>1 DEF IsTop
<1> QED BY <1>1, <1>5, <1>6, <1>7 DEF IsTop

LEMMA MaxOfTwo ==
  ASSUME NEW a \in Int, NEW b \in Int
  PROVE  Max({a, b}) = IF a >= b THEN a ELSE b
<1>1. CASE a >= b
  BY <1>1 DEF Max
<1>2. CASE ~(a >= b)
  BY <1>2 DEF Max
<1> QED BY <1>1, <1>2

LEMMA TypedInit == Init => Typed
<1> SUFFICES ASSUME Init PROVE Typed
  OBVIOUS
<1>1. <<>> \in Seq(Ops)
  BY EmptySeq
<1>2. prog \in [Threads -> Seq(Ops)]
  BY <1>1 DEF Init
<1>3. Cells
  <2>1. maxfd \in Fds \cup {-1} /\ opened \in 0 .. MaxConns
    BY ConstantsAssumption DEF Init
  <2>2. /\ file \in [Fds -> Link] /\ data \in [Fds -> Link]
        /\ interest \in [Fds -> SUBSET Events] /\ pending \in [Fds -> SUBSET Events]
        /\ mask \in [Fds -> SUBSET Events] /\ reg \in [Threads -> SUBSET Events]
    BY DEF Init, Link
  <2> QED BY <2>1, <2>2 DEF Init, Cells
<1> QED BY <1>2, <1>3 DEF Typed

\* The thread, its descriptor and what it does with it, at an operation.
LEMMA AtTyped ==
  ASSUME Typed, NEW t \in Threads, NEW name, At(t, name)
  PROVE  /\ prog[t] # <<>> /\ This(t).op = name /\ Runs(t)
         /\ This(t) \in Ops
         /\ name # "connect" => This(t).fd \in Fds
         /\ This(t).evs \in SUBSET Events /\ This(t).conn \in Link
         /\ name = "free" => This(t).conn \in Conns
<1>1. prog[t] # <<>> /\ This(t).op = name /\ Runs(t)
  BY DEF At
<1>2. This(t) \in Ops
  BY <1>1, ThisTyped
<1> QED BY <1>1, <1>2, OpParts

LEMMA TypedKernel ==
  ASSUME Typed, NEW t \in Threads, AddEvent(t) \/ DelEvent(t)
  PROVE  Typed'
<1> DEFINE fd == This(t).fd
           evs == This(t).evs
<1>1. CASE AddEvent(t)
  <2>1. At(t, "add")
    BY <1>1 DEF AddEvent
  <2>2. fd \in Fds /\ evs \in SUBSET Events /\ prog[t] # <<>>
    BY <2>1, AtTyped
  <2>3. prog' \in [Threads -> Seq(Ops)]
    <3>1. PICK n \in {0, 4} : Skip(t, n)
      BY <1>1, Zenon DEF AddEvent
    <3>2. n \in Nat
      OBVIOUS
    <3> QED BY <2>2, <3>1, <3>2, SkipTyped
  <2>4. /\ UNCHANGED <<process, table, backend, reg, given, aborted>>
        /\ \/ backend = "epoll" /\ AddEpoll(fd, evs)
           \/ backend = "select" /\ AddSelect(fd, evs)
           \/ backend = "kqueue" /\ AddKqueue(fd, evs)
           \/ backend = "evport" /\ AddEvport(fd, evs)
    <3>1. backend \in AllBackends
      BY ConstantsAssumption DEF Typed, Cells
    <3> QED BY <1>1, <3>1 DEF AddEvent, AllBackends
  <2> HIDE DEF fd, evs
  <2>5. Cells'
    <3>1. CASE AddEpoll(fd, evs)
      BY <2>2, <2>4, <3>1 DEF AddEpoll, Typed, Cells, process, table, given
    <3>2. CASE AddSelect(fd, evs)
      BY <2>2, <2>4, <3>2 DEF AddSelect, Typed, Cells, process, table, given
    <3>3. CASE AddKqueue(fd, evs)
      BY <2>2, <2>4, <3>3 DEF AddKqueue, Typed, Cells, process, table, given
    <3>4. CASE AddEvport(fd, evs)
      BY <2>2, <2>4, <3>4 DEF AddEvport, Typed, Cells, process, table, given
    <3> QED BY <2>4, <3>1, <3>2, <3>3, <3>4
  <2> QED BY <2>3, <2>5 DEF Typed
<1>2. CASE DelEvent(t)
  <2>1. At(t, "del")
    BY <1>2 DEF DelEvent
  <2>2. fd \in Fds /\ evs \in SUBSET Events /\ prog[t] # <<>>
    BY <2>1, AtTyped
  <2>3. prog' \in [Threads -> Seq(Ops)]
    BY <1>2, <2>2, SkipTyped DEF DelEvent
  <2>4. /\ UNCHANGED <<process, table, backend, reg, given, failed>>
        /\ \/ backend = "epoll" /\ DelEpoll(fd, evs)
           \/ backend \in {"select", "kqueue"} /\ DelEach(fd, evs)
           \/ backend = "evport" /\ DelEvport(fd, evs)
    <3>1. backend \in AllBackends
      BY ConstantsAssumption DEF Typed, Cells
    <3> QED BY <1>2, <3>1 DEF DelEvent, AllBackends
  <2> HIDE DEF fd, evs
  <2>5. Cells'
    <3>1. CASE DelEpoll(fd, evs)
      BY <2>2, <2>4, <3>1 DEF DelEpoll, Typed, Cells, process, table, given
    <3>2. CASE DelEach(fd, evs)
      BY <2>2, <2>4, <3>2 DEF DelEach, Typed, Cells, process, table, given
    <3>3. CASE DelEvport(fd, evs)
      BY <2>2, <2>4, <3>3 DEF DelEvport, Typed, Cells, process, table, given
    <3> QED BY <2>4, <3>1, <3>2, <3>3
  <2> QED BY <2>3, <2>5 DEF Typed
<1> QED BY <1>1, <1>2

LEMMA TypedTable ==
  ASSUME Typed, NEW t \in Threads,
         \/ Load(t) \/ StoreOr(t) \/ StoreAndNot(t) \/ SetData(t)
         \/ RaiseMaxfd(t) \/ LowerMaxfd(t) \/ CloseFd(t) \/ FreeData(t)
  PROVE  Typed'
<1> DEFINE fd == This(t).fd
<1>1. PICK name \in {"load", "or", "andnot", "data", "raise", "lower", "close", "free"} :
        /\ At(t, name)
        /\ FreeData(t) => name = "free"
  BY Zenon DEF Load, StoreOr, StoreAndNot, SetData, RaiseMaxfd, LowerMaxfd, CloseFd, FreeData
<1>2. /\ prog[t] # <<>> /\ fd \in Fds /\ This(t).evs \in SUBSET Events /\ This(t).conn \in Link
      /\ name = "free" => This(t).conn \in Conns
  BY <1>1, AtTyped
<1>3. prog' \in [Threads -> Seq(Ops)]
  <2>1. PICK n \in {0, 2} : Skip(t, n)
    BY Zenon DEF Load, StoreOr, StoreAndNot, SetData, RaiseMaxfd, LowerMaxfd, CloseFd, FreeData
  <2>2. n \in Nat
    OBVIOUS
  <2> QED BY <1>2, <2>1, <2>2, SkipTyped
<1>4. Cells
  BY DEF Typed
<1>5. Cells'
  <2>1. CASE Load(t)
    BY <1>2, <1>4, <2>1 DEF Load, Cells, process, table, kernel, faults, given
  <2>2. CASE StoreOr(t)
    BY <1>2, <1>4, <2>2 DEF StoreOr, Cells, process, kernel, faults, given
  <2>3. CASE StoreAndNot(t)
    BY <1>2, <1>4, <2>3 DEF StoreAndNot, Cells, process, kernel, faults, given
  <2>4. CASE SetData(t)
    BY <1>2, <1>4, <2>4 DEF SetData, Cells, process, kernel, faults, given
  <2>5. CASE RaiseMaxfd(t)
    <3>1. maxfd' = Max({maxfd, fd})
      BY <2>5 DEF RaiseMaxfd
    <3>2. maxfd \in Int /\ fd \in Int
      BY <1>2, <1>4, ConstantsAssumption DEF Cells
    <3>3. maxfd' \in {maxfd, fd}
      BY <3>1, <3>2, MaxOfTwo
    <3> QED BY <1>2, <1>4, <2>5, <3>3 DEF RaiseMaxfd, Cells, process, kernel, faults, given
  <2>6. CASE LowerMaxfd(t)
    <3> DEFINE S == {g \in Fds : g < maxfd /\ mask[g] # {}}
    <3>1. maxfd' \in {maxfd, Max({-1} \cup S)}
      BY <2>6, Zenon DEF LowerMaxfd
    <3>2. Max({-1} \cup S) \in S \cup {-1}
      <4>1. S \subseteq Fds
        OBVIOUS
      <4> HIDE DEF S
      <4> QED BY <4>1, MaxIsTop DEF IsTop
    <3>3. maxfd' \in Fds \cup {-1}
      BY <1>4, <3>1, <3>2 DEF Cells
    <3> HIDE DEF S
    <3> QED BY <1>4, <2>6, <3>3 DEF LowerMaxfd, Cells, process, kernel, faults, given
  <2>7. CASE CloseFd(t)
    BY <1>2, <1>4, <2>7 DEF CloseFd, Cells, Link, table, faults, given
  <2>8. CASE FreeData(t)
    <3>1. This(t).conn \in Conns
      BY <1>1, <1>2, <2>8
    <3> QED BY <1>4, <2>8, <3>1 DEF FreeData, Cells, table, kernel, faults, given
  <2> QED BY <2>1, <2>2, <2>3, <2>4, <2>5, <2>6, <2>7, <2>8
<1> QED BY <1>3, <1>5 DEF Typed

LEMMA TypedCallback ==
  ASSUME Typed, OnRead \/ OnWrite
  PROVE  Typed'
<1> DEFINE t == "loop"
           fd == This(t).fd
           c == data[fd]
<1>1. PICK name \in {"onread", "onwrite"}, e \in Events, ops \in {ReadOps(fd, c), WriteOps(fd, c)} :
        At(t, name) /\ Callback(e, ops)
  <2>1. "readable" \in Events /\ "writable" \in Events
    BY DEF Events
  <2> QED BY <2>1, Zenon DEF OnRead, OnWrite
<1>2. t \in Threads
  BY DEF Threads
<1>3. prog[t] # <<>> /\ fd \in Fds
  BY <1>1, <1>2, AtTyped
<1>4. c \in Link
  BY <1>3 DEF Typed, Cells
<1>5. Cells'
  <2>1. misuse' \in BOOLEAN /\ early' \in BOOLEAN /\ stale' \in BOOLEAN
    BY <1>1 DEF Callback
  <2>2. UNCHANGED <<process, table, kernel, reg, failed, aborted>>
    BY <1>1 DEF Callback
  <2> QED BY <2>1, <2>2 DEF Typed, Cells, process, table, kernel
<1>6. prog' \in [Threads -> Seq(Ops)]
  <2> DEFINE own == c # NULL /\ c \notin deleted /\ file[fd] = c
  <2>1. \/ Skip(t, 0)
        \/ own /\ \E p \in ops : Continue(t, p)
    BY <1>1, Zenon DEF Callback
  <2>2. CASE Skip(t, 0)
    BY <1>2, <1>3, <2>2, SkipTyped
  <2>3. CASE own /\ \E p \in ops : Continue(t, p)
    <3>1. c \in Conns
      BY <1>4, <2>3 DEF Link
    <3>2. ops \subseteq Seq(Ops)
      BY <1>1, <1>3, <3>1, CallbackOpsTyped
    <3>3. PICK p \in ops : Continue(t, p)
      BY <2>3
    <3>4. p \in Seq(Ops)
      BY <3>2, <3>3
    <3> QED BY <1>2, <1>3, <3>3, <3>4, ContinueTyped
  <2> QED BY <2>1, <2>2, <2>3
<1> QED BY <1>5, <1>6 DEF Typed

LEMMA TypedConnect ==
  ASSUME Typed, NEW t \in Threads, Connect(t)
  PROVE  Typed'
<1> DEFINE free == {fd \in Fds : file[fd] = NULL}
<1>1. At(t, "connect") /\ UNCHANGED <<deleted, table, kernel, reg, faults>>
  BY DEF Connect
<1>2. prog[t] # <<>>
  BY <1>1, AtTyped
<1>3. CASE free = {} \/ opened = MaxConns
  <2>1. Skip(t, 0) /\ UNCHANGED <<file, opened>>
    BY <1>3 DEF Connect
  <2>2. prog' \in [Threads -> Seq(Ops)]
    BY <1>2, <2>1, SkipTyped
  <2> QED BY <1>1, <2>1, <2>2 DEF Typed, Cells, table, kernel, faults, given
<1>4. CASE ~(free = {} \/ opened = MaxConns)
  <2>1. /\ opened' = opened + 1
        /\ file' = [file EXCEPT ![Min(free)] = opened + 1]
        /\ Continue(t, AddIoEvents(Min(free), opened + 1))
    BY <1>4 DEF Connect
  <2>2. opened + 1 \in Conns /\ opened + 1 \in 0 .. MaxConns
    BY <1>4, ConstantsAssumption DEF Typed, Cells, Conns
  <2>3. Min(free) \in Fds
    BY <1>4, LeastFree
  <2> HIDE DEF free
  <2>4. AddIoEvents(Min(free), opened + 1) \in Seq(Ops)
    BY <2>2, <2>3, AddTyped
  <2>5. prog' \in [Threads -> Seq(Ops)]
    BY <1>2, <2>1, <2>4, ContinueTyped
  <2>6. file' \in [Fds -> Link] /\ opened' \in 0 .. MaxConns
    BY <2>1, <2>2 DEF Typed, Cells, Link
  <2> QED BY <1>1, <2>5, <2>6 DEF Typed, Cells, table, kernel, faults, given
<1> QED BY <1>3, <1>4

LEMMA TypedLaunch ==
  ASSUME Typed, NEW t \in Threads, Launch(t)
  PROVE  Typed'
<1>1. SendGetReqs(1) \in Seq(Ops)
  <2>1. 1 \in Nat /\ <<>> \in Seq(Ops)
    BY EmptySeq
  <2> QED BY <2>1, GetReqs
<1>2. prog' \in [Threads -> Seq(Ops)]
  BY <1>1 DEF Launch, Typed
<1> QED BY <1>2 DEF Launch, Typed, Cells, process, table, kernel, faults, given

\* The fired entries of a poll: of descriptors of X, of each one unless the backend
\* reports filters.
FiredOf(fired, n, X) ==
  /\ DOMAIN fired = 1 .. n /\ Len(fired) = n
  /\ \A i \in 1 .. n : \E fd \in X, evs \in SUBSET Events : fired[i] = Fired(fd, evs)
  /\ backend # "kqueue" => \A i, j \in 1 .. n : fired[i].fd = fired[j].fd => i = j
Reports(X) ==
  \E n \in Nat : \E fired :
    FiredOf(fired, n, X) /\ prog' = [prog EXCEPT !["loop"] = Dispatch(fired)]

LEMMA OrderIs ==
  ASSUME NEW S, IsFiniteSet(S), NEW order \in Orders(S)
  PROVE  \E n \in Nat : order \in [1 .. n -> S] /\ \A i, j \in 1 .. n : order[i] = order[j] => i = j
<1>1. Cardinality(S) \in Nat
  BY FS_CardinalityType
<1> QED BY <1>1 DEF Orders, IsInjective

LEMMA FiredIs ==
  ASSUME NEW S, S \subseteq Fds, IsFiniteSet(S), NEW order \in Orders(S), NEW evs,
         \A fd \in S : evs[fd] \in SUBSET Events,
         NEW fired, fired = [i \in DOMAIN order |-> Fired(order[i], evs[order[i]])]
  PROVE  \E n \in Nat : FiredOf(fired, n, S)
<1>1. PICK n \in Nat : /\ order \in [1 .. n -> S]
                       /\ \A i, j \in 1 .. n : order[i] = order[j] => i = j
  BY OrderIs
<1>2. fired = [i \in 1 .. n |-> Fired(order[i], evs[order[i]])]
  BY <1>1
<1>3. DOMAIN fired = 1 .. n /\ Len(fired) = n
  BY <1>2
<1>4. \A i \in 1 .. n : fired[i] = Fired(order[i], evs[order[i]]) /\ order[i] \in S
  BY <1>1, <1>2
<1>5. \A i \in 1 .. n : fired[i].fd = order[i]
  <2>1. \A fd, e : Fired(fd, e).fd = fd
    BY DEF Fired, Op
  <2> QED BY <1>4, <2>1
<1> QED BY <1>1, <1>3, <1>4, <1>5 DEF FiredOf

\* What a poll does.
LEMMA PollIs ==
  ASSUME Typed, Poll
  PROVE  /\ UNCHANGED <<process, table, backend, reg, given, failed>>
         /\ prog["loop"] = <<>> /\ Runs("loop")
         /\ \/ /\ backend # "evport"
               /\ Reports({fd \in Fds : interest[fd] # {} \/ mask[fd] # {}})
               /\ UNCHANGED <<interest, pending, aborted>>
            \/ /\ backend = "evport"
               /\ \E fd \in Fds : pending[fd] # {} /\ file[fd] = NULL
               /\ aborted' = TRUE /\ UNCHANGED <<interest, pending, prog>>
            \/ /\ backend = "evport"
               /\ \E reported \in SUBSET Fds :
                    LET again == [fd \in Fds |-> IF pending[fd] # {} THEN pending[fd] ELSE interest[fd]]
                    IN  /\ \A fd \in reported : again[fd] # {}
                        /\ interest' = [fd \in Fds |-> IF fd \in reported THEN {} ELSE again[fd]]
                        /\ pending' = [fd \in Fds |-> IF fd \in reported THEN again[fd] ELSE {}]
                        /\ Reports(reported)
               /\ UNCHANGED aborted
<1> DEFINE X == {fd \in Fds : interest[fd] # {} \/ mask[fd] # {}}
<1>1. /\ UNCHANGED <<process, table, backend, reg, given, failed>>
      /\ prog["loop"] = <<>> /\ Runs("loop")
      /\ \/ backend = "epoll" /\ PollEpoll
         \/ backend = "select" /\ PollSelect
         \/ backend = "kqueue" /\ PollKqueue
         \/ backend = "evport" /\ PollEvport
  <2>1. backend \in AllBackends
    BY ConstantsAssumption DEF Typed, Cells
  <2> QED BY <2>1 DEF Poll, AllBackends
<1>2. \A S \in SUBSET Fds : IsFiniteSet(S)
  BY ConstantsAssumption, FS_Subset
<1>3. \A n \in Nat, S \in SUBSET X : \A fired :
        FiredOf(fired, n, S) => FiredOf(fired, n, X)
  BY DEF FiredOf
<1>4. \A a : \A r \in Ready(a) : r \in [Fds -> SUBSET Events] /\ \A fd \in Fds : r[fd] # {} => interest[fd] # {}
  BY DEF Ready
<1>5. CASE backend = "epoll" /\ PollEpoll
  <2>1. PICK r \in Ready({"writable"}) : \E order \in Orders({fd \in Fds : r[fd] # {}}) :
      /\ prog' = [prog EXCEPT !["loop"] =
           Dispatch([i \in DOMAIN order |-> Fired(order[i], r[order[i]])])]
      /\ UNCHANGED <<interest, pending, aborted>>
    BY <1>5 DEF PollEpoll
  <2> DEFINE S == {fd \in Fds : r[fd] # {}}
  <2>2. PICK order \in Orders(S) :
      /\ prog' = [prog EXCEPT !["loop"] =
           Dispatch([i \in DOMAIN order |-> Fired(order[i], r[order[i]])])]
      /\ UNCHANGED <<interest, pending, aborted>>
    BY <2>1
  <2>3. S \in SUBSET Fds /\ S \in SUBSET X /\ \A fd \in S : r[fd] \in SUBSET Events
    BY <1>4, <2>1
  <2> HIDE DEF S, X
  <2>4. PICK fired : fired = [i \in DOMAIN order |-> Fired(order[i], r[order[i]])]
    OBVIOUS
  <2>5. PICK n \in Nat : FiredOf(fired, n, S)
    BY <1>2, <2>2, <2>3, <2>4, FiredIs
  <2>6. Reports(X)
    <3>1. FiredOf(fired, n, X)
      BY <1>3, <2>3, <2>5, Zenon
    <3> QED BY <2>2, <2>4, <3>1, Zenon DEF Reports
  <2> QED BY <1>1, <1>5, <2>2, <2>6 DEF X
<1>6. CASE backend = "select" /\ PollSelect
  <2>1. PICK r \in Ready({}), order \in Orders({fd \in Fds : fd <= maxfd /\ mask[fd] # {}}) :
        prog' = [prog EXCEPT !["loop"] =
            Dispatch([i \in DOMAIN order |-> Fired(order[i], r[order[i]] \cap mask[order[i]])])]
    BY <1>6 DEF PollSelect
  <2> DEFINE S == {fd \in Fds : fd <= maxfd /\ mask[fd] # {}}
             evs == [fd \in Fds |-> r[fd] \cap mask[fd]]
  <2>2. S \in SUBSET Fds /\ S \in SUBSET X /\ order \in Orders(S)
    BY <2>1
  <2>3. \A fd \in S : evs[fd] \in SUBSET Events
    BY <1>4, <2>1
  <2>4. [i \in DOMAIN order |-> Fired(order[i], r[order[i]] \cap mask[order[i]])]
          = [i \in DOMAIN order |-> Fired(order[i], evs[order[i]])]
    <3>1. \A i \in DOMAIN order : order[i] \in Fds
      BY <1>2, <2>2, OrderIs
    <3> QED BY <3>1
  <2> HIDE DEF S, X, evs
  <2>5. PICK fired : fired = [i \in DOMAIN order |-> Fired(order[i], evs[order[i]])]
    OBVIOUS
  <2>6. PICK n \in Nat : FiredOf(fired, n, S)
    BY <1>2, <2>2, <2>3, <2>5, FiredIs
  <2>7. Reports(X)
    <3>1. FiredOf(fired, n, X)
      BY <1>3, <2>2, <2>6, Zenon
    <3>2. prog' = [prog EXCEPT !["loop"] = Dispatch(fired)]
      BY <2>1, <2>4, <2>5
    <3> QED BY <3>1, <3>2, Zenon DEF Reports
  <2>8. UNCHANGED <<interest, pending, aborted>>
    BY <1>6 DEF PollSelect
  <2> QED BY <1>1, <1>6, <2>7, <2>8 DEF X
<1>7. CASE backend = "kqueue" /\ PollKqueue
  <2>1. PICK r \in Ready({}) : \E order \in Orders({p \in Fds \X Events : p[2] \in r[p[1]]}) :
      /\ prog' = [prog EXCEPT !["loop"] =
           Dispatch([i \in DOMAIN order |-> Fired(order[i][1], {order[i][2]})])]
      /\ UNCHANGED <<interest, pending, aborted>>
    BY <1>7 DEF PollKqueue
  <2> DEFINE S == {p \in Fds \X Events : p[2] \in r[p[1]]}
  <2>0. PICK order \in Orders(S) :
      /\ prog' = [prog EXCEPT !["loop"] =
           Dispatch([i \in DOMAIN order |-> Fired(order[i][1], {order[i][2]})])]
      /\ UNCHANGED <<interest, pending, aborted>>
    BY <2>1
  <2>2. IsFiniteSet(S)
    <3>1. IsFiniteSet(Events)
      <4>1. IsFiniteSet({"readable"}) /\ IsFiniteSet({"writable"})
        BY FS_Singleton
      <4>2. Events = {"readable"} \cup {"writable"}
        BY DEF Events
      <4> QED BY <4>1, <4>2, FS_Union
    <3>2. IsFiniteSet(Fds \X Events)
      BY <3>1, ConstantsAssumption, FS_Product
    <3>3. S \subseteq Fds \X Events
      OBVIOUS
    <3> QED BY <3>2, <3>3, FS_Subset
  <2>3. \A p \in S : p[1] \in X /\ {p[2]} \in SUBSET Events
    BY <1>4, <2>1
  <2> HIDE DEF S
  <2>4. PICK n \in Nat : order \in [1 .. n -> S]
    BY <2>0, <2>2, OrderIs
  <2>5. PICK fired : fired = [i \in 1 .. n |-> Fired(order[i][1], {order[i][2]})]
    OBVIOUS
  <2>6. DOMAIN fired = 1 .. n /\ Len(fired) = n
    BY <2>5
  <2>7. \A i \in 1 .. n : fired[i] = Fired(order[i][1], {order[i][2]}) /\ order[i] \in S
    BY <2>4, <2>5
  <2> HIDE DEF X
  <2>8. FiredOf(fired, n, X)
    <3>1. ASSUME NEW i \in 1 .. n PROVE \E fd \in X, evs \in SUBSET Events : fired[i] = Fired(fd, evs)
      <4>1. order[i] \in S /\ fired[i] = Fired(order[i][1], {order[i][2]})
        BY <2>7
      <4>2. order[i][1] \in X /\ {order[i][2]} \in SUBSET Events
        BY <2>3, <4>1
      <4> QED BY <4>1, <4>2, Zenon
    <3> QED BY <1>7, <2>6, <3>1 DEF FiredOf
  <2>9. Reports(X)
    BY <2>0, <2>4, <2>5, <2>8 DEF Reports
  <2> QED BY <1>1, <1>7, <2>0, <2>9 DEF X
<1>8. CASE backend = "evport" /\ PollEvport
  <2> DEFINE again == [fd \in Fds |-> IF pending[fd] # {} THEN pending[fd] ELSE interest[fd]]
  <2>1. CASE \E fd \in Fds : pending[fd] # {} /\ file[fd] = NULL
    BY <1>1, <1>8, <2>1 DEF PollEvport
  <2>2. CASE ~(\E fd \in Fds : pending[fd] # {} /\ file[fd] = NULL)
    <3>1. PICK r \in [Fds -> SUBSET Events], reported \in SUBSET Fds :
             /\ \A fd \in Fds : fd \in reported => again[fd] # {}
             /\ interest' = [fd \in Fds |-> IF fd \in reported THEN {} ELSE again[fd]]
             /\ pending' = [fd \in Fds |-> IF fd \in reported THEN again[fd] ELSE {}]
             /\ \E order \in Orders(reported) :
                  prog' = [prog EXCEPT !["loop"] =
                    Dispatch([i \in DOMAIN order |-> Fired(order[i], r[order[i]])])]
             /\ UNCHANGED aborted
      BY <1>8, <2>2, Zenon DEF PollEvport
    <3>2. PICK order \in Orders(reported) :
                  prog' = [prog EXCEPT !["loop"] =
                    Dispatch([i \in DOMAIN order |-> Fired(order[i], r[order[i]])])]
      BY <3>1
    <3> HIDE DEF again
    <3>3. PICK fired : fired = [i \in DOMAIN order |-> Fired(order[i], r[order[i]])]
      OBVIOUS
    <3>4. \A fd \in reported : r[fd] \in SUBSET Events
      BY <3>1
    <3>5. PICK n \in Nat : FiredOf(fired, n, reported)
      BY <1>2, <3>1, <3>2, <3>3, <3>4, FiredIs
    <3>6. Reports(reported)
      BY <3>2, <3>3, <3>5 DEF Reports
    <3> QED BY <1>1, <1>8, <3>1, <3>6, Zenon DEF again
  <2> QED BY <2>1, <2>2
<1> QED BY <1>1, <1>5, <1>6, <1>7, <1>8

LEMMA TypedPoll ==
  ASSUME Typed, Poll
  PROVE  Typed'
<1>1. Cells /\ prog \in [Threads -> Seq(Ops)]
  BY DEF Typed
<1>2. UNCHANGED <<process, table, backend, reg, given, failed>>
  BY PollIs
<1>3. ASSUME NEW X, X \subseteq Fds, Reports(X) PROVE prog' \in [Threads -> Seq(Ops)]
  <2>0. PICK n \in Nat : \E fired :
          FiredOf(fired, n, X) /\ prog' = [prog EXCEPT !["loop"] = Dispatch(fired)]
    BY <1>3, Zenon DEF Reports
  <2>1. PICK fired :
          FiredOf(fired, n, X) /\ prog' = [prog EXCEPT !["loop"] = Dispatch(fired)]
    BY <2>0
  <2>2. \A i \in 1 .. n : \E fd \in Fds, evs \in SUBSET Events : fired[i] = Fired(fd, evs)
    BY <1>3, <2>1 DEF FiredOf
  <2>3. DOMAIN fired = 1 .. n /\ Len(fired) = n /\ file \in [Fds -> Link]
    BY <1>1, <2>1 DEF FiredOf, Cells
  <2>4. Dispatch(fired) \in Seq(Entries)
    BY <2>2, <2>3, DispatchTyped
  <2>5. Dispatch(fired) \in Seq(Ops)
    BY <2>4, EntriesAreOps
  <2> QED BY <1>1, <2>1, <2>5
<1> DEFINE again == [fd \in Fds |-> IF pending[fd] # {} THEN pending[fd] ELSE interest[fd]]
           X == {fd \in Fds : interest[fd] # {} \/ mask[fd] # {}}
<1>4. \/ Reports(X) /\ UNCHANGED <<interest, pending, aborted>>
      \/ aborted' = TRUE /\ UNCHANGED <<interest, pending, prog>>
      \/ /\ \E reported \in SUBSET Fds :
              /\ interest' = [fd \in Fds |-> IF fd \in reported THEN {} ELSE again[fd]]
              /\ pending' = [fd \in Fds |-> IF fd \in reported THEN again[fd] ELSE {}]
              /\ Reports(reported)
         /\ UNCHANGED aborted
  BY PollIs
<1>5. X \subseteq Fds /\ again \in [Fds -> SUBSET Events]
  BY <1>1 DEF Cells
<1> HIDE DEF again, X
<1>6. CASE Reports(X) /\ UNCHANGED <<interest, pending, aborted>>
  <2>1. prog' \in [Threads -> Seq(Ops)]
    BY <1>3, <1>5, <1>6
  <2> QED BY <1>1, <1>2, <1>6, <2>1 DEF Typed, Cells, process, table, given
<1>7. CASE aborted' = TRUE /\ UNCHANGED <<interest, pending, prog>>
  BY <1>1, <1>2, <1>7 DEF Typed, Cells, process, table, given
<1>8. CASE /\ \E reported \in SUBSET Fds :
                /\ interest' = [fd \in Fds |-> IF fd \in reported THEN {} ELSE again[fd]]
                /\ pending' = [fd \in Fds |-> IF fd \in reported THEN again[fd] ELSE {}]
                /\ Reports(reported)
           /\ UNCHANGED aborted
  <2>1. PICK reported \in SUBSET Fds :
                /\ interest' = [fd \in Fds |-> IF fd \in reported THEN {} ELSE again[fd]]
                /\ pending' = [fd \in Fds |-> IF fd \in reported THEN again[fd] ELSE {}]
                /\ Reports(reported)
    BY <1>8
  <2>2. prog' \in [Threads -> Seq(Ops)]
    BY <1>3, <2>1
  <2>3. interest' \in [Fds -> SUBSET Events] /\ pending' \in [Fds -> SUBSET Events]
    BY <1>5, <2>1
  <2> QED BY <1>1, <1>2, <1>8, <2>2, <2>3 DEF Typed, Cells, process, table, given
<1> QED BY <1>4, <1>6, <1>7, <1>8

LEMMA TypedStep == Typed /\ [Next]_vars => Typed'
<1> SUFFICES ASSUME Typed, [Next]_vars PROVE Typed'
  OBVIOUS
<1>1. CASE UNCHANGED vars
  BY <1>1 DEF vars, Typed, Cells, process, table, kernel, faults, given
<1>2. CASE \E t \in Threads : Launch(t)
  BY <1>2, TypedLaunch
<1>3. CASE \E t \in Threads : Connect(t)
  BY <1>3, TypedConnect
<1>4. CASE \E t \in Threads : AddEvent(t) \/ DelEvent(t)
  BY <1>4, TypedKernel
<1>5. CASE \E t \in Threads :
         \/ Load(t) \/ StoreOr(t) \/ StoreAndNot(t) \/ SetData(t)
         \/ RaiseMaxfd(t) \/ LowerMaxfd(t) \/ CloseFd(t) \/ FreeData(t)
  BY <1>5, TypedTable
<1>6. CASE OnRead \/ OnWrite
  BY <1>6, TypedCallback
<1>7. CASE Poll
  BY <1>7, TypedPoll
<1> QED BY <1>1, <1>2, <1>3, <1>4, <1>5, <1>6, <1>7, Zenon DEF Next

\* Once the threads have overlapped they have.
LEMMA OverlapStays ==
  ASSUME overlapped \in BOOLEAN, [Next]_vars
  PROVE  overlapped' \in BOOLEAN /\ (overlapped => overlapped')
<1>1. CASE UNCHANGED vars
  BY <1>1 DEF vars
<1>2. ASSUME NEW t, Runs(t) PROVE overlapped' \in BOOLEAN /\ (overlapped => overlapped')
  <2>1. PICK b \in BOOLEAN : overlapped' = (overlapped \/ b)
    BY <1>2, Zenon DEF Runs
  <2> QED BY <2>1
<1>3. CASE Next
  <2>1. \E t \in Threads \cup {"loop"} : Runs(t)
    BY <1>3, Zenon DEF Next, Launch, Connect, AddEvent, SetData, RaiseMaxfd, LowerMaxfd, Load, StoreOr,
                       StoreAndNot, DelEvent, CloseFd, FreeData, Poll, OnRead, OnWrite, At
  <2> QED BY <1>2, <2>1
<1> QED BY <1>1, <1>3

\* Every variable has its type, whether the threads overlap or not.
THEOREM Typing == Spec => []TypeOK
<1> DEFINE T == Typed /\ overlapped \in BOOLEAN
<1>1. Init => T
  BY TypedInit DEF Init
<1>2. T /\ [Next]_vars => T'
  BY TypedStep, OverlapStays
<1>3. T => TypeOK
  BY TypedIsTypeOK
<1> QED BY <1>1, <1>2, <1>3, PTL DEF Spec
-----------------------------------------------------------------------------
(* Steps of a thread while the other has nothing to do *)

LEMMA Turns ==
  ASSUME ~overlapped', NEW t \in Threads, Runs(t)
  PROVE  \A u \in Threads \ {t} : prog[u] = <<>>
<1>1. overlapped' = (overlapped \/ \E u \in Threads \ {t} : prog[u] # <<>>)
  BY Zenon DEF Runs
<1> QED BY <1>1, Zenon

\* The operation at hand decides which action there is.
LEMMA OneOperation ==
  ASSUME ~overlapped', NEW t \in Threads, NEW p, Alone(t, p), p # <<>>, Next
  PROVE  /\ \A u \in Threads : prog[u] # <<>> => u = t
         /\ This(t) = Head(p)
         /\ \/ Head(p).op = "connect" /\ Connect(t)
            \/ Head(p).op = "add" /\ AddEvent(t)
            \/ Head(p).op = "load" /\ Load(t)
            \/ Head(p).op = "or" /\ StoreOr(t)
            \/ Head(p).op = "andnot" /\ StoreAndNot(t)
            \/ Head(p).op = "data" /\ SetData(t)
            \/ Head(p).op = "raise" /\ RaiseMaxfd(t)
            \/ Head(p).op = "lower" /\ LowerMaxfd(t)
            \/ Head(p).op = "del" /\ DelEvent(t)
            \/ Head(p).op = "close" /\ CloseFd(t)
            \/ Head(p).op = "free" /\ FreeData(t)
            \/ Head(p).op = "onread" /\ t = "loop" /\ OnRead
            \/ Head(p).op = "onwrite" /\ t = "loop" /\ OnWrite
<1>1. \A u \in Threads : prog[u] # <<>> => u = t
  BY Zenon DEF Alone
<1>2. This(t) = Head(p)
  BY DEF Alone, This
<1>3. "loop" \in Threads /\ prog[t] # <<>>
  BY Zenon DEF Threads, Alone
<1>4. \A u \in Threads : \A name : At(u, name) => u = t /\ Head(p).op = name
  BY <1>1, <1>2, Zenon DEF At
<1>5. ASSUME NEW u \in Threads, Launch(u) PROVE FALSE
  <2>1. prog[u] = <<>> /\ \A v \in Threads \ {u} : prog[v] = <<>>
    BY <1>5, Turns, Zenon DEF Launch
  <2> QED BY <1>3, <2>1, Zenon
<1>6. ASSUME Poll PROVE FALSE
  <2>1. prog["loop"] = <<>> /\ \A v \in Threads \ {"loop"} : prog[v] = <<>>
    BY <1>3, <1>6, Turns, Zenon DEF Poll
  <2> QED BY <1>3, <2>1, Zenon
<1>7. CASE OnRead \/ OnWrite
  <2>1. \/ At("loop", "onread") /\ OnRead
        \/ At("loop", "onwrite") /\ OnWrite
    BY <1>7, Zenon DEF OnRead, OnWrite
  <2>2. /\ t = "loop"
        /\ \/ Head(p).op = "onread" /\ OnRead
           \/ Head(p).op = "onwrite" /\ OnWrite
    BY <1>3, <1>4, <2>1, Zenon
  <2> QED BY <1>1, <1>2, <2>2, Zenon
<1>8. ASSUME NEW u \in Threads,
             \/ Connect(u) \/ AddEvent(u) \/ SetData(u)
             \/ RaiseMaxfd(u) \/ LowerMaxfd(u) \/ Load(u) \/ StoreOr(u) \/ StoreAndNot(u)
             \/ DelEvent(u) \/ CloseFd(u) \/ FreeData(u)
      PROVE  \/ Head(p).op = "connect" /\ Connect(t)
             \/ Head(p).op = "add" /\ AddEvent(t)
             \/ Head(p).op = "load" /\ Load(t)
             \/ Head(p).op = "or" /\ StoreOr(t)
             \/ Head(p).op = "andnot" /\ StoreAndNot(t)
             \/ Head(p).op = "data" /\ SetData(t)
             \/ Head(p).op = "raise" /\ RaiseMaxfd(t)
             \/ Head(p).op = "lower" /\ LowerMaxfd(t)
             \/ Head(p).op = "del" /\ DelEvent(t)
             \/ Head(p).op = "close" /\ CloseFd(t)
             \/ Head(p).op = "free" /\ FreeData(t)
  <2>1. /\ Connect(u) => At(u, "connect")
        /\ AddEvent(u) => At(u, "add")
        /\ Load(u) => At(u, "load")
        /\ StoreOr(u) => At(u, "or")
        /\ StoreAndNot(u) => At(u, "andnot")
        /\ SetData(u) => At(u, "data")
        /\ RaiseMaxfd(u) => At(u, "raise")
        /\ LowerMaxfd(u) => At(u, "lower")
        /\ DelEvent(u) => At(u, "del")
        /\ CloseFd(u) => At(u, "close")
        /\ FreeData(u) => At(u, "free")
    BY Zenon DEF Connect, AddEvent, Load, StoreOr, StoreAndNot, SetData, RaiseMaxfd, LowerMaxfd,
                 DelEvent, CloseFd, FreeData
  <2>2. u = t
    BY <1>4, <1>8, <2>1, Zenon
  <2>3. \/ Connect(t) \/ AddEvent(t) \/ SetData(t)
        \/ RaiseMaxfd(t) \/ LowerMaxfd(t) \/ Load(t) \/ StoreOr(t) \/ StoreAndNot(t)
        \/ DelEvent(t) \/ CloseFd(t) \/ FreeData(t)
    BY <1>8, <2>2, Zenon
  <2>4. /\ Connect(t) => Head(p).op = "connect"
        /\ AddEvent(t) => Head(p).op = "add"
        /\ Load(t) => Head(p).op = "load"
        /\ StoreOr(t) => Head(p).op = "or"
        /\ StoreAndNot(t) => Head(p).op = "andnot"
        /\ SetData(t) => Head(p).op = "data"
        /\ RaiseMaxfd(t) => Head(p).op = "raise"
        /\ LowerMaxfd(t) => Head(p).op = "lower"
        /\ DelEvent(t) => Head(p).op = "del"
        /\ CloseFd(t) => Head(p).op = "close"
        /\ FreeData(t) => Head(p).op = "free"
    <3>1. \A name : At(t, name) => Head(p).op = name
      BY <1>4, Zenon
    <3> QED BY <3>1, Zenon DEF Connect, AddEvent, Load, StoreOr, StoreAndNot, SetData, RaiseMaxfd,
                                LowerMaxfd, DelEvent, CloseFd, FreeData
  <2> QED BY <2>3, <2>4, Zenon
<1> QED BY <1>1, <1>2, <1>5, <1>6, <1>7, <1>8, Zenon DEF Next

\* What a step leaves as it is, away from one descriptor.
Elsewhere(fd) ==
  /\ UNCHANGED <<backend, deleted>>
  /\ \A f \in Fds \ {fd} :
       /\ file'[f] = file[f] /\ interest'[f] = interest[f] /\ pending'[f] = pending[f]
       /\ mask'[f] = mask[f] /\ data'[f] = data[f]

LEMMA KeptElsewhere ==
  ASSUME NEW fd, Elsewhere(fd)
  PROVE  /\ AllWell({fd}) => AllWell({fd})'
         /\ \A t, R : Follows(t, R, {fd}) => Follows(t, R, {fd})'
         /\ \A D \in Seq(Entries) : Away(D, {fd}) => Away(D, {fd})'
         /\ \A D \in Seq(Entries) : Spares(D, fd, {}) => Spares(D, fd, {})'
<1>1. ASSUME NEW f \in Fds \ {fd}
      PROVE  /\ Well(f) => Well(f)'
             /\ Owned(f) => Owned(f)'
             /\ file'[f] = file[f]
             /\ \A e : e.fd = f /\ Live(e) => Live(e)'
  <2>1. /\ backend' = backend /\ deleted' = deleted /\ file'[f] = file[f]
        /\ interest'[f] = interest[f] /\ pending'[f] = pending[f] /\ mask'[f] = mask[f]
        /\ data'[f] = data[f]
    BY DEF Elsewhere
  <2>2. Well(f) => Well(f)'
    BY <2>1, Zenon DEF Well, Seat
  <2>3. Owned(f) => Owned(f)'
    BY <2>1, Zenon DEF Owned
  <2>4. ASSUME NEW e, e.fd = f, Live(e) PROVE Live(e)'
    BY <2>1, <2>4, Zenon DEF Live
  <2> QED BY <2>1, <2>2, <2>3, <2>4
<1>2. backend' = backend
  BY DEF Elsewhere
<1>3. ASSUME NEW D \in Seq(Entries), NEW i \in DOMAIN D PROVE D[i] \in Entries /\ D[i].fd \in Fds
  <2>1. D[i] \in Entries
    BY LenProperties, ElementOfSeq
  <2> QED BY <2>1 DEF Entries
<1>4. AllWell({fd}) => AllWell({fd})'
  BY <1>1, Zenon DEF AllWell
<1>5. ASSUME NEW D \in Seq(Entries), Away(D, {fd}) PROVE Away(D, {fd})'
  <2>1. SUFFICES ASSUME backend # "kqueue"
                 PROVE  Apart(D) /\ \A i \in DOMAIN D : D[i].fd \notin {fd} /\ Live(D[i])'
    BY <1>2, Zenon DEF Away, Apart
  <2>2. Apart(D) /\ \A i \in DOMAIN D : D[i].fd \notin {fd} /\ Live(D[i])
    BY <1>5, <2>1, Zenon DEF Away
  <2>3. \A i \in DOMAIN D : Live(D[i])'
    BY <1>1, <1>3, <2>2, Zenon
  <2> QED BY <2>2, <2>3
<1>6. ASSUME NEW D \in Seq(Entries), NEW f, NEW X, Spares(D, f, X), fd \in X \cup {f}
      PROVE  Spares(D, f, X)'
  <2>1. SUFFICES ASSUME backend # "kqueue"
                 PROVE  /\ Apart(D)
                        /\ \A i \in DOMAIN D :
                             \/ D[i].fd \notin X \cup {f} /\ Live(D[i])'
                             \/ i = 1 /\ D[1].fd = f /\ D[1].op = "onwrite"
    BY <1>2, Zenon DEF Spares, Apart
  <2>2. /\ Apart(D)
        /\ \A i \in DOMAIN D :
             \/ D[i].fd \notin X \cup {f} /\ Live(D[i])
             \/ i = 1 /\ D[1].fd = f /\ D[1].op = "onwrite"
    BY <1>6, <2>1, Zenon DEF Spares
  <2>3. \A i \in DOMAIN D : D[i].fd \notin X \cup {f} /\ Live(D[i]) => Live(D[i])'
    <3>1. \A i \in DOMAIN D : D[i].fd \notin X \cup {f} => D[i].fd \in Fds \ {fd}
      BY <1>3, <1>6
    <3> QED BY <1>1, <3>1, Zenon
  <2> QED BY <2>2, <2>3, Zenon
<1>7. ASSUME NEW t, NEW R, Follows(t, R, {fd}) PROVE Follows(t, R, {fd})'
  <2>1. CASE R = <<>>
    BY <2>1, Zenon DEF Follows
  <2>2. CASE R # <<>>
    <3>1. /\ t = "loop"
          /\ \E f \in Fds \ {fd}, k \in 1 .. 2, D \in Seq(Entries) :
               /\ R = From(CloseConnection(f, file[f], FALSE), k, D)
               /\ Owned(f) /\ Spares(D, f, {fd})
      BY <1>7, <2>2, Zenon DEF Follows
    <3>2. PICK f \in Fds \ {fd}, k \in 1 .. 2, D \in Seq(Entries) :
               /\ R = From(CloseConnection(f, file[f], FALSE), k, D)
               /\ Owned(f) /\ Spares(D, f, {fd})
      BY <3>1
    <3>3. Owned(f)' /\ file'[f] = file[f]
      BY <1>1, <3>2
    <3>4. Spares(D, f, {fd})'
      <4>1. fd \in {fd} \cup {f}
        OBVIOUS
      <4> QED BY <1>6, <3>2, <4>1
    <3>5. R = From(CloseConnection(f, file'[f], FALSE), k, D)
      BY <3>2, <3>3
    <3> QED BY <3>1, <3>3, <3>4, <3>5, Zenon DEF Follows
  <2> QED BY <2>1, <2>2
<1>8. \A D \in Seq(Entries) : Spares(D, fd, {}) => Spares(D, fd, {})'
  <2>1. fd \in {} \cup {fd}
    OBVIOUS
  <2> QED BY <1>6, <2>1
<1> QED BY <1>4, <1>5, <1>7, <1>8

LEMMA SkipAlone ==
  ASSUME Typed, NEW t \in Threads, NEW s \in Seq(Ops), NEW q \in Seq(Ops),
         NEW k \in 1 .. Len(s), Alone(t, From(s, k, q)), Skip(t, 0)
  PROVE  Alone(t, From(s, k + 1, q))'
<1> DEFINE p == From(s, k, q)
<1>1. SubSeq(p, 2, Len(p)) = From(s, k + 1, q)
  BY FromIs
<1>2. prog[t] = p /\ \A u \in Threads \ {t} : prog[u] = <<>>
  BY DEF Alone
<1>3. prog' = [prog EXCEPT ![t] = SubSeq(p, 2, Len(p))] /\ prog \in [Threads -> Seq(Ops)]
  BY <1>2 DEF Skip, Typed
<1> HIDE DEF p
<1>4. prog'[t] = From(s, k + 1, q) /\ \A u \in Threads \ {t} : prog'[u] = <<>>
  BY <1>1, <1>2, <1>3
<1> QED BY <1>4 DEF Alone

\* The flags, and what they are raised for.
Untouched == UNCHANGED <<backend, file, opened, deleted, misuse, early, stale, failed, aborted>>

LEMMA SaneKept ==
  ASSUME Sane, Untouched
  PROVE  Sane' /\ \A X : Homes(X) => Homes(X)'
BY DEF Sane, Untouched, Homes

LEMMA ElsewhereIs ==
  ASSUME Typed, NEW fd, UNCHANGED <<backend, deleted>>,
         \/ file' = file
         \/ \E a : file' = [file EXCEPT ![fd] = a],
         interest' = interest \/ \E a : interest' = [interest EXCEPT ![fd] = a],
         pending' = pending \/ \E a : pending' = [pending EXCEPT ![fd] = a],
         mask' = mask \/ \E a : mask' = [mask EXCEPT ![fd] = a],
         data' = data \/ \E a : data' = [data EXCEPT ![fd] = a]
  PROVE  Elsewhere(fd)
<1> SUFFICES ASSUME NEW f \in Fds \ {fd}
             PROVE  /\ file'[f] = file[f] /\ interest'[f] = interest[f]
                    /\ pending'[f] = pending[f] /\ mask'[f] = mask[f] /\ data'[f] = data[f]
  BY DEF Elsewhere
<1>1. file'[f] = file[f]
  BY DEF Typed, Cells
<1>2. interest'[f] = interest[f]
  BY DEF Typed, Cells
<1>3. pending'[f] = pending[f]
  BY DEF Typed, Cells
<1>4. mask'[f] = mask[f]
  BY DEF Typed, Cells
<1>5. data'[f] = data[f]
  BY DEF Typed, Cells
<1> QED BY <1>1, <1>2, <1>3, <1>4, <1>5

\* aeApiAddEvent for a descriptor whose mask is what the kernel watches: the kernel
\* does not refuse it, and watches one event more.
LEMMA AddIs ==
  ASSUME Typed, NEW t \in Threads, AddEvent(t), NEW fd, NEW e, NEW c,
         This(t) = Op("add", fd, {e}, c), file[fd] # NULL,
         interest[fd] = mask[fd], pending[fd] = {},
         NEW new, new = mask[fd] \cup {e}
  PROVE  /\ fd \in Fds /\ Skip(t, 0) /\ Untouched
         /\ Elsewhere(fd) /\ interest'[fd] = new
         /\ UNCHANGED <<pending, mask, data, maxfd, reg>>
<1>1. At(t, "add")
  BY DEF AddEvent
<1>2. This(t).fd = fd /\ This(t).evs = {e}
  BY DEF Op
<1>3. fd \in Fds
  BY <1>1, <1>2, AtTyped
<1>4. /\ UNCHANGED <<process, table, backend, reg, given, aborted>>
      /\ Skip(t, IF failed' # failed THEN 4 ELSE 0)
      /\ \/ backend = "epoll" /\ AddEpoll(fd, {e})
         \/ backend = "select" /\ AddSelect(fd, {e})
         \/ backend = "kqueue" /\ AddKqueue(fd, {e})
         \/ backend = "evport" /\ AddEvport(fd, {e})
  <2>1. backend \in AllBackends
    BY ConstantsAssumption DEF Typed, Cells
  <2> QED BY <1>2, <2>1 DEF AddEvent, AllBackends
<1>5. interest \in [Fds -> SUBSET Events] /\ failed \in BOOLEAN
  BY DEF Typed, Cells
<1>6. /\ interest' = [interest EXCEPT ![fd] = mask[fd] \cup {e}]
      /\ UNCHANGED <<pending, failed>>
  <2>1. CASE AddEpoll(fd, {e})
    <3>1. ~((interest[fd] = {}) # (mask[fd] = {}))
      OBVIOUS
    <3> QED BY <1>5, <2>1, <3>1 DEF AddEpoll
  <2>2. CASE AddSelect(fd, {e})
    BY <1>3, <1>5, <2>2 DEF AddSelect
  <2>3. CASE AddKqueue(fd, {e})
    BY <1>3, <1>5, <2>3 DEF AddKqueue
  <2>4. CASE AddEvport(fd, {e})
    BY <1>3, <1>5, <2>4 DEF AddEvport
  <2> QED BY <1>4, <2>1, <2>2, <2>3, <2>4
<1>7. Skip(t, 0)
  BY <1>4, <1>6
<1>8. Elsewhere(fd)
  BY <1>4, <1>6, ElsewhereIs DEF process, table
<1>9. interest'[fd] = mask[fd] \cup {e}
  BY <1>3, <1>5, <1>6
<1> QED BY <1>3, <1>4, <1>6, <1>7, <1>8, <1>9 DEF process, table, given, Untouched

\* The steps on the table.
LEMMA TableIs ==
  ASSUME Typed, NEW t \in Threads, NEW name, NEW fd, NEW evs, NEW c,
         This(t) = Op(name, fd, evs, c), prog[t] # <<>>, fd \in Fds
  PROVE  /\ Load(t) => /\ Skip(t, 0) /\ Untouched
                       /\ reg' = [reg EXCEPT ![t] = mask[fd]]
                       /\ UNCHANGED <<interest, pending, mask, data, maxfd>>
         /\ StoreOr(t) => /\ Skip(t, 0) /\ Untouched
                          /\ mask' = [mask EXCEPT ![fd] = reg[t] \cup evs]
                          /\ UNCHANGED <<interest, pending, data, maxfd, reg>>
         /\ StoreAndNot(t) /\ reg[t] # {} =>
              /\ Skip(t, 0) /\ Untouched
              /\ mask' = [mask EXCEPT ![fd] = reg[t] \ evs]
              /\ UNCHANGED <<interest, pending, data, maxfd, reg>>
         /\ SetData(t) => /\ Skip(t, 0) /\ Untouched
                          /\ data' = [data EXCEPT ![fd] = c]
                          /\ UNCHANGED <<interest, pending, mask, maxfd, reg>>
         /\ RaiseMaxfd(t) => /\ Skip(t, 0) /\ Untouched
                             /\ maxfd' = IF maxfd >= fd THEN maxfd ELSE fd
                             /\ UNCHANGED <<interest, pending, mask, data, reg>>
<1>1. This(t).fd = fd /\ This(t).evs = evs /\ This(t).conn = c
  BY DEF Op
<1>2. maxfd \in Int /\ fd \in Int
  BY ConstantsAssumption DEF Typed, Cells
<1>3. Max({maxfd, fd}) = IF maxfd >= fd THEN maxfd ELSE fd
  BY <1>2, MaxOfTwo
<1> QED BY <1>1, <1>3 DEF Load, StoreOr, StoreAndNot, SetData, RaiseMaxfd, process, table, kernel,
                           faults, given, Untouched

\* What there is to do when the handler's requests are sent.
LEMMA AfterRequests ==
  ASSUME NEW t \in Threads, NEW R \in Seq(Ops),
         Typed', Sane', Steady', Alone(t, R)', Follows(t, R, {})'
  PROVE  Phase'
<1>1. CASE R = <<>>
  <2>1. Alone("loop", <<>>)'
    BY <1>1 DEF Alone, Threads
  <2>2. <<>> \in Seq(Entries) /\ Away(<<>>, {})'
    BY EmptySeq DEF Away, Apart
  <2>3. Resting'
    BY <2>1, <2>2, Zenon DEF Resting
  <2> QED BY <2>3, Zenon DEF Phase
<1>2. CASE R # <<>>
  <2>1. /\ t = "loop"
        /\ \E f \in Fds \ {}, k \in 1 .. 2, D \in Seq(Entries) :
             /\ R = From(CloseConnection(f, file'[f], FALSE), k, D)
             /\ Owned(f)' /\ Spares(D, f, {})'
    BY <1>2, Zenon DEF Follows
  <2>2. PICK f \in Fds, k \in 1 .. 2, D \in Seq(Entries) :
             /\ R = From(CloseConnection(f, file'[f], FALSE), k, D)
             /\ Owned(f)' /\ Spares(D, f, {})'
    BY <2>1
  <2>0. PICK c : c = file'[f]
    OBVIOUS
  <2>3. Well(f)' /\ AllWell({f})' /\ Homes({c})' /\ IsTop(maxfd, Masked)'
    BY <2>0, <2>2 DEF Steady, AllWell, Homes
  <2>4. /\ mask'[f] # {} /\ (backend' = "evport" => pending'[f] # {})
        /\ interest'[f] = {} \/ pending'[f] = {}
        /\ backend' # "evport" => pending'[f] = {}
        /\ c # NULL /\ c \notin deleted'
    BY <2>0, <2>2, <2>3 DEF Owned, Well, Sound, Seat
  <2>5. c \in Conns
    BY <2>0, <2>2, <2>4 DEF Typed, Cells, Link
  <2>9. (\A g \in Fds \ {f} : file'[g] # c) /\ c \in 1 .. opened'
    BY <2>0, <2>2, <2>4, <2>5, ConstantsAssumption DEF Sane, Conns, Typed, Cells
  <2>10. f < SetSize /\ file'[f] = c
    BY <2>0, <2>2, <2>3 DEF Owned, Well, Sound, Seat
  <2>6. ClosePoint(f, c, k)'
    BY <2>0, <2>2, <2>3, <2>4, <2>9, <2>10 DEF ClosePoint
  <2>7. k \in 1 .. 6
    OBVIOUS
  <2>8. Closing(f, c, k, D)'
    <3>1. Alone("loop", From(CloseConnection(f, c, FALSE), k, D))'
      BY <2>0, <2>1, <2>2 DEF Alone
    <3> QED BY <2>2, <2>3, <2>6, <3>1, Zenon DEF Closing
  <2> QED BY <2>2, <2>5, <2>7, <2>8, Zenon DEF Phase
<1> QED BY <1>1, <1>2

\* Between two requests.
LEMMA BetweenRequests ==
  ASSUME NEW t \in Threads, NEW n \in Nat, NEW R \in Seq(Ops),
         Typed', Sane', Steady', Alone(t, SendGetReqs(n) \o R)', Follows(t, R, {})'
  PROVE  Phase'
<1>1. CASE n = 0
  <2>1. Alone(t, R)'
    BY <1>1, GetReqs
  <2> QED BY <2>1, AfterRequests
<1>2. CASE n # 0
  <2>1. Requesting(t, n, R)' /\ n \in Nat \ {0}
    BY <1>2, Zenon DEF Requesting
  <2> QED BY <2>1, Zenon DEF Phase
<1> QED BY <1>1, <1>2

\* A step of AddIoEvents, but the last.
LEMMA AddPointStep ==
  ASSUME ~overlapped', Typed, NEW t \in Threads, NEW fd \in Fds, NEW c \in Conns,
         NEW k \in 1 .. 10, AddPoint(t, fd, c, k), NEW p, Alone(t, p), p # <<>>,
         Head(p) = AddIoEvents(fd, c)[k], Next
  PROVE  Skip(t, 0) /\ Untouched /\ Elsewhere(fd) /\ AddPoint(t, fd, c, k + 1)'
<1> DEFINE s == AddIoEvents(fd, c)
<1>1. /\ s[1] = Op("add", fd, {"writable"}, c)
      /\ s[2] = Op("load", fd, {}, c)
      /\ s[3] = Op("or", fd, {"writable"}, c)
      /\ s[4] = Op("data", fd, {}, c)
      /\ s[5] = Op("raise", fd, {}, c)
      /\ s[6] = Op("add", fd, {"readable"}, c)
      /\ s[7] = Op("load", fd, {}, c)
      /\ s[8] = Op("or", fd, {"readable"}, c)
      /\ s[9] = Op("data", fd, {}, c)
      /\ s[10] = Op("raise", fd, {}, c)
  <2>1. fd < SetSize
    BY DEF AddPoint
  <2> QED BY <2>1, AddOps
<1>2. This(t) = s[k] /\ prog[t] # <<>>
  BY OneOperation DEF Alone
<1>3. \A name, evs : Op(name, fd, evs, c).op = name
  BY DEF Op
<1>4. /\ s[k].op = "add" => AddEvent(t)
      /\ s[k].op = "load" => Load(t)
      /\ s[k].op = "or" => StoreOr(t)
      /\ s[k].op = "data" => SetData(t)
      /\ s[k].op = "raise" => RaiseMaxfd(t)
  BY OneOperation
<1> HIDE DEF s
<1>5. /\ k \in {1, 6} => AddEvent(t)
      /\ k \in {2, 7} => Load(t)
      /\ k \in {3, 8} => StoreOr(t)
      /\ k \in {4, 9} => SetData(t)
      /\ k \in {5, 10} => RaiseMaxfd(t)
  BY <1>1, <1>3, <1>4
<1>6. /\ fd < SetSize /\ c \in Conns /\ c # NULL
      /\ file[fd] = c /\ c \notin deleted /\ pending[fd] = {}
      /\ interest[fd] = IF k = 1 THEN {} ELSE IF k <= 6 THEN {"writable"} ELSE Events
      /\ mask[fd] = IF k <= 3 THEN {} ELSE IF k <= 8 THEN {"writable"} ELSE Events
      /\ k >= 5 => data[fd] = c
      /\ k \in {3, 8} => reg[t] = mask[fd]
      /\ IsTop(maxfd, IF k <= 5 THEN Masked \ {fd} ELSE Masked)
  BY ConstantsAssumption DEF AddPoint
<1>7. /\ interest \in [Fds -> SUBSET Events] /\ mask \in [Fds -> SUBSET Events]
      /\ reg \in [Threads -> SUBSET Events] /\ data \in [Fds -> Link]
  BY DEF Typed, Cells
<1>8. CASE k \in {1, 6}
  <2>0. PICK e : e = IF k = 1 THEN "writable" ELSE "readable"
    OBVIOUS
  <2>1. This(t) = Op("add", fd, {e}, c)
    BY <1>1, <1>2, <1>8, <2>0
  <2>2. interest[fd] = mask[fd]
    BY <1>6, <1>8
  <2>3. AddEvent(t)
    BY <1>5, <1>8
  <2>4. PICK new : new = IF k = 1 THEN {"writable"} ELSE Events
    OBVIOUS
  <2>5. new = mask[fd] \cup {e} /\ pending[fd] = {}
    BY <1>6, <1>8, <2>0, <2>4 DEF Events
  <2>9. file[fd] # NULL
    BY <1>6
  <2>6. /\ Skip(t, 0) /\ Untouched /\ Elsewhere(fd) /\ interest'[fd] = new
        /\ UNCHANGED <<pending, mask, data, maxfd, reg>>
    BY <2>1, <2>2, <2>3, <2>5, <2>9, AddIs, Zenon
  <2>7. IsTop(maxfd, IF k + 1 <= 5 THEN Masked \ {fd} ELSE Masked)'
    BY <1>6, <1>8, <2>6 DEF IsTop, Masked
  <2>8. AddPoint(t, fd, c, k + 1)'
    <3>1. CASE k = 1
      BY <1>6, <2>4, <2>6, <2>7, <3>1 DEF AddPoint, Untouched
    <3>2. CASE k = 6
      BY <1>6, <2>4, <2>6, <2>7, <3>2 DEF AddPoint, Untouched
    <3> QED BY <1>8, <3>1, <3>2
  <2> QED BY <2>6, <2>8
<1>9. CASE k \in {2, 7}
  <2>1. /\ Skip(t, 0) /\ Untouched /\ reg' = [reg EXCEPT ![t] = mask[fd]]
        /\ UNCHANGED <<interest, pending, mask, data, maxfd>>
    BY <1>1, <1>2, <1>5, <1>9, TableIs
  <2>2. Elsewhere(fd)
    BY <2>1, ElsewhereIs DEF Untouched
  <2>3. reg'[t] = mask'[fd]
    BY <1>7, <2>1
  <2>4. IsTop(maxfd, IF k + 1 <= 5 THEN Masked \ {fd} ELSE Masked)'
    BY <1>6, <1>9, <2>1 DEF IsTop, Masked
  <2>5. AddPoint(t, fd, c, k + 1)'
    BY <1>6, <1>9, <2>1, <2>3, <2>4 DEF AddPoint, Untouched
  <2> QED BY <2>1, <2>2, <2>5
<1>10. CASE k \in {3, 8}
  <2>10. PICK e : e = IF k = 3 THEN "writable" ELSE "readable"
    OBVIOUS
  <2>0. This(t) = Op("or", fd, {e}, c)
    BY <1>1, <1>2, <1>10, <2>10
  <2>1. /\ Skip(t, 0) /\ Untouched /\ mask' = [mask EXCEPT ![fd] = reg[t] \cup {e}]
        /\ UNCHANGED <<interest, pending, data, maxfd, reg>>
    BY <1>2, <1>5, <1>10, <2>0, TableIs
  <2>2. Elsewhere(fd)
    BY <2>1, ElsewhereIs DEF Untouched
  <2>3. mask'[fd] = IF k = 3 THEN {"writable"} ELSE Events
    <3>1. mask'[fd] = reg[t] \cup {e}
      BY <1>7, <2>1
    <3> QED BY <1>6, <1>10, <2>10, <3>1 DEF Events
  <2>4. Masked' \ {fd} = Masked \ {fd} /\ (k = 8 => Masked' = Masked)
    <3>1. \A f \in Fds \ {fd} : mask'[f] = mask[f]
      BY <2>2 DEF Elsewhere
    <3>2. k = 8 => mask[fd] # {} /\ mask'[fd] # {}
      BY <1>6, <2>3 DEF Events
    <3> QED BY <3>1, <3>2 DEF Masked
  <2>5. IsTop(maxfd', IF k + 1 <= 5 THEN Masked' \ {fd} ELSE Masked')
    <3>1. CASE k = 3
      <4>1. IsTop(maxfd, Masked \ {fd})
        BY <1>6, <3>1
      <4>2. IsTop(maxfd', Masked' \ {fd})
        BY <2>1, <2>4, <4>1
      <4> QED BY <3>1, <4>2
    <3>2. CASE k = 8
      BY <1>6, <2>1, <2>4, <3>2
    <3> QED BY <1>10, <3>1, <3>2
  <2>6. AddPoint(t, fd, c, k + 1)'
    BY <1>6, <1>10, <2>1, <2>3, <2>5 DEF AddPoint, Untouched
  <2> QED BY <2>1, <2>2, <2>6
<1>11. CASE k \in {4, 9}
  <2>1. /\ Skip(t, 0) /\ Untouched /\ data' = [data EXCEPT ![fd] = c]
        /\ UNCHANGED <<interest, pending, mask, maxfd, reg>>
    BY <1>1, <1>2, <1>5, <1>11, TableIs
  <2>2. Elsewhere(fd)
    BY <2>1, ElsewhereIs DEF Untouched
  <2>3. data'[fd] = c
    BY <1>7, <2>1
  <2>4. IsTop(maxfd, IF k + 1 <= 5 THEN Masked \ {fd} ELSE Masked)'
    BY <1>6, <1>11, <2>1 DEF IsTop, Masked
  <2>5. AddPoint(t, fd, c, k + 1)'
    BY <1>6, <1>11, <2>1, <2>3, <2>4 DEF AddPoint, Untouched
  <2> QED BY <2>1, <2>2, <2>5
<1>12. CASE k \in {5, 10}
  <2>1. /\ Skip(t, 0) /\ Untouched /\ maxfd' = IF maxfd >= fd THEN maxfd ELSE fd
        /\ UNCHANGED <<interest, pending, mask, data, reg>>
    BY <1>1, <1>2, <1>5, <1>12, TableIs
  <2>2. Elsewhere(fd)
    BY <2>1, ElsewhereIs DEF Untouched
  <2>3. fd \in Masked /\ Masked' = Masked /\ Masked \subseteq Fds
    <3>1. "writable" \in mask[fd]
      BY <1>6, <1>12 DEF Events
    <3> QED BY <2>1, <3>1 DEF Masked
  <2>4. IsTop(maxfd', Masked)
    <3>1. maxfd \in Int /\ fd \in Int /\ Masked \subseteq Int
      BY <2>3, ConstantsAssumption DEF Typed, Cells
    <3>2. IsTop(maxfd, Masked \ {fd}) \/ IsTop(maxfd, Masked)
      BY <1>6
    <3> QED BY <2>1, <2>3, <3>1, <3>2 DEF IsTop
  <2>5. AddPoint(t, fd, c, k + 1)'
    BY <1>6, <1>12, <2>1, <2>3, <2>4 DEF AddPoint, Untouched
  <2> QED BY <2>1, <2>2, <2>5
<1> QED BY <1>8, <1>9, <1>10, <1>11, <1>12

LEMMA NextIsTyped ==
  ASSUME Typed, Next
  PROVE  Typed'
BY TypedStep

LEMMA FollowsAny ==
  ASSUME NEW t, NEW R, NEW X, Follows(t, R, X)'
  PROVE  Follows(t, R, {})'
<1>1. CASE R = <<>>
  BY <1>1, Zenon DEF Follows
<1>2. CASE R # <<>>
  <2>1. /\ t = "loop"
        /\ \E f \in Fds \ X, k \in 1 .. 2, D \in Seq(Entries) :
             /\ R = From(CloseConnection(f, file'[f], FALSE), k, D)
             /\ Owned(f)' /\ Spares(D, f, X)'
    BY <1>2, Zenon DEF Follows
  <2>2. PICK f \in Fds \ X, k \in 1 .. 2, D \in Seq(Entries) :
             /\ R = From(CloseConnection(f, file'[f], FALSE), k, D)
             /\ Owned(f)' /\ Spares(D, f, X)'
    BY <2>1
  <2>3. Spares(D, f, {})'
    <3>1. \A g : g \notin X \cup {f} => g \notin {} \cup {f}
      OBVIOUS
    <3> QED BY <2>2, <3>1, Zenon DEF Spares
  <2>4. f \in Fds \ {}
    BY <2>2
  <2> QED BY <2>1, <2>2, <2>3, <2>4, Zenon DEF Follows
<1> QED BY <1>1, <1>2

LEMMA AddingStep ==
  ASSUME ~overlapped', Typed, Sane, NEW t \in Threads, NEW fd \in Fds, NEW c \in Conns,
         NEW k \in 1 .. 10, NEW n \in Nat, NEW R \in Seq(Ops), Adding(t, fd, c, k, n, R), Next
  PROVE  Sane' /\ Phase'
<1> DEFINE s == AddIoEvents(fd, c)
           q == SendGetReqs(n) \o R
           p == From(s, k, q)
<1>0. fd < SetSize
  BY DEF Adding, AddPoint
<1>1. s \in Seq(Ops) /\ Len(s) = 10 /\ q \in Seq(Ops)
  BY <1>0, AddOps, GetReqs
<1>2. Alone(t, p) /\ AddPoint(t, fd, c, k) /\ AllWell({fd}) /\ Homes({}) /\ Follows(t, R, {fd})
  BY DEF Adding
<1> HIDE DEF s, q
<1>3. k \in 1 .. Len(s) /\ p # <<>> /\ Head(p) = s[k]
  BY <1>1, FromIs
<1> HIDE DEF p
<1>4. Skip(t, 0) /\ Untouched /\ Elsewhere(fd) /\ AddPoint(t, fd, c, k + 1)'
  BY <1>2, <1>3, AddPointStep DEF s
<1>5. Alone(t, From(s, k + 1, q))'
  BY <1>1, <1>2, <1>3, <1>4, SkipAlone DEF p
<1>6. AllWell({fd})' /\ Follows(t, R, {fd})'
  BY <1>2, <1>4, KeptElsewhere
<1>7. Sane' /\ Homes({})'
  BY <1>2, <1>4, SaneKept
<1>8. CASE k # 10
  <2>1. k + 1 \in 1 .. 10
    BY <1>8
  <2>2. Adding(t, fd, c, k + 1, n, R)'
    BY <1>4, <1>5, <1>6, <1>7, Zenon DEF Adding, s, q
  <2>3. Phase'
    BY <2>1, <2>2, Zenon DEF Phase
  <2> QED BY <1>7, <2>3
<1>9. CASE k = 10
  <2>1. From(s, k + 1, q) = q
    <3>1. k + 1 = Len(s) + 1
      BY <1>1, <1>9
    <3>2. From(s, Len(s) + 1, q) = q
      BY <1>1, FromEnds
    <3> QED BY <3>1, <3>2
  <2>2. Alone(t, SendGetReqs(n) \o R)'
    BY <1>5, <2>1 DEF q
  <2>3. /\ file'[fd] = c /\ c \notin deleted' /\ pending'[fd] = {} /\ interest'[fd] = Events
        /\ mask'[fd] = Events /\ data'[fd] = c /\ IsTop(maxfd', Masked')
    BY <1>4, <1>9 DEF AddPoint
  <2>4. c # NULL
    BY ConstantsAssumption
  <2>5. Well(fd)'
    BY <1>0, <2>3, <2>4 DEF Well, Seat, Sound, Events
  <2>6. Steady'
    BY <1>6, <1>7, <2>3, <2>5 DEF Steady, AllWell
  <2>7. Follows(t, R, {})'
    BY <1>6, FollowsAny
  <2>8. Phase'
    BY <1>7, <2>2, <2>6, <2>7, BetweenRequests, NextIsTyped
  <2> QED BY <1>7, <2>8
<1> QED BY <1>8, <1>9

LEMMA FollowsKept ==
  ASSUME NEW t, NEW R, NEW X, Follows(t, R, X),
         UNCHANGED <<file, deleted, mask, data, backend, pending>>
  PROVE  Follows(t, R, X)'
<1>1. CASE R = <<>>
  BY <1>1, Zenon DEF Follows
<1>2. CASE R # <<>>
  <2>1. PICK f \in Fds \ X, k \in 1 .. 2, D \in Seq(Entries) :
             /\ R = From(CloseConnection(f, file[f], FALSE), k, D)
             /\ Owned(f) /\ Spares(D, f, X)
    BY <1>2, Zenon DEF Follows
  <2>2. t = "loop"
    BY <1>2, Zenon DEF Follows
  <2>3. Owned(f)' /\ R = From(CloseConnection(f, file'[f], FALSE), k, D)
    BY <2>1 DEF Owned
  <2>4. \A e : Live(e) => Live(e)'
    BY DEF Live
  <2>5. Spares(D, f, X)'
    <3> SUFFICES ASSUME backend # "kqueue"
                 PROVE  /\ Apart(D)
                        /\ \A i \in DOMAIN D :
                             \/ D[i].fd \notin X \cup {f} /\ Live(D[i])'
                             \/ i = 1 /\ D[1].fd = f /\ D[1].op = "onwrite"
      BY Zenon DEF Spares, Apart
    <3> QED BY <2>1, <2>4, Zenon DEF Spares
  <2> QED BY <2>1, <2>2, <2>3, <2>5, Zenon DEF Follows
<1> QED BY <1>1, <1>2

\* A request: a connection at a free descriptor, or none.
LEMMA RequestingStep ==
  ASSUME ~overlapped', Typed, Sane, NEW t \in Threads, NEW n \in Nat \ {0}, NEW R \in Seq(Ops),
         Requesting(t, n, R), Next
  PROVE  Sane' /\ Phase'
<1> DEFINE q == SendGetReqs(n - 1) \o R
           p == SendGetReqs(n) \o R
           free == {fd \in Fds : file[fd] = NULL}
<1>0. PICK c : c = opened + 1
  OBVIOUS
<1>1. n - 1 \in Nat /\ n \in Nat
  OBVIOUS
<1>2. /\ p \in Seq(Ops) /\ p # <<>> /\ Head(p) = Op("connect", NULL, {}, NULL)
      /\ q \in Seq(Ops) /\ Tail(p) = q /\ SubSeq(p, 2, Len(p)) = q
  BY <1>1, GetReqs
<1>3. Alone(t, p) /\ Steady /\ Follows(t, R, {})
  BY DEF Requesting
<1> HIDE DEF p, q
<1>4. Connect(t)
  <2>1. Head(p).op = "connect"
    BY <1>2 DEF Op
  <2> QED BY <1>2, <1>3, <2>1, OneOperation
<1>5. UNCHANGED <<deleted, table, kernel, reg, faults>>
  BY <1>4 DEF Connect
<1>6. prog[t] = p /\ \A u \in Threads \ {t} : prog[u] = <<>>
  BY <1>3 DEF Alone
<1>7. prog \in [Threads -> Seq(Ops)]
  BY DEF Typed
<1>8. CASE free = {} \/ opened = MaxConns
  <2>1. Skip(t, 0) /\ UNCHANGED <<file, opened>>
    BY <1>4, <1>8 DEF Connect
  <2>2. prog' = [prog EXCEPT ![t] = SubSeq(p, 2, Len(p))]
    <3>1. prog' = [prog EXCEPT ![t] = SubSeq(prog[t], 0 + 2, Len(prog[t]))]
      BY <1>7, <2>1 DEF Skip
    <3> QED BY <1>6, <3>1
  <2>3. Alone(t, q)'
    <3>1. prog'[t] = q /\ \A u \in Threads \ {t} : prog'[u] = <<>>
      BY <1>2, <1>6, <1>7, <2>2
    <3> QED BY <3>1 DEF Alone
  <2>4. UNCHANGED <<file, opened, deleted, mask, data, maxfd, backend, interest, pending,
                    misuse, early, stale, failed, aborted>>
    BY <1>5, <2>1 DEF table, kernel, faults, given
  <2>5. Sane'
    BY <2>4 DEF Sane
  <2>6. Steady'
    BY <1>3, <2>4 DEF Steady, AllWell, Well, Seat, Homes, IsTop, Masked
  <2>7. Follows(t, R, {})'
    BY <1>3, <2>4, FollowsKept
  <2>8. Phase'
    BY <1>1, <2>3, <2>5, <2>6, <2>7, BetweenRequests, NextIsTyped DEF q
  <2> QED BY <2>5, <2>8
<1>9. CASE ~(free = {} \/ opened = MaxConns)
  <2>1. PICK fd : fd = Min(free)
    OBVIOUS
  <2>2. /\ opened' = c
        /\ file' = [file EXCEPT ![fd] = c]
        /\ Continue(t, AddIoEvents(fd, c))
    BY <1>0, <1>4, <1>9, <2>1 DEF Connect
  <2>3. fd \in Fds /\ file[fd] = NULL
    <3>1. free \subseteq Fds /\ free # {}
      BY <1>9
    <3> HIDE DEF free
    <3>2. fd \in free
      BY <2>1, <3>1, LeastFree
    <3> QED BY <3>2 DEF free
  <2>4. c \in Conns /\ c \in Nat /\ opened \in Nat
    BY <1>0, <1>9, ConstantsAssumption DEF Typed, Cells, Conns
  <2> HIDE DEF free
  <2>5. \A f \in Fds : file[f] # c
    BY <1>0, <2>4, ConstantsAssumption DEF Sane, Typed, Cells, Link, Conns
  <2>6. c \notin deleted /\ c # NULL
    BY <1>0, <2>4, ConstantsAssumption DEF Sane
  <2>7. file \in [Fds -> Link]
    BY DEF Typed, Cells
  <2>8. file'[fd] = c /\ \A f \in Fds \ {fd} : file'[f] = file[f]
    BY <2>2, <2>3, <2>7
  <2>9. UNCHANGED <<deleted, mask, data, maxfd, backend, interest, pending,
                    misuse, early, stale, failed, aborted>>
    BY <1>5 DEF table, kernel, faults, given
  <2>10. Elsewhere(fd)
    BY <2>8, <2>9 DEF Elsewhere
  <2> DEFINE s == AddIoEvents(fd, c)
  <2>11. s \in Seq(Ops)
    BY <2>3, <2>4, AddTyped
  <2>12. Alone(t, From(s, 1, q))'
    <3>1. From(s, 1, q) = s \o q
      BY <1>2, <2>11, FromEnds
    <3>2. prog' = [prog EXCEPT ![t] = s \o q]
      BY <1>2, <1>6, <2>2 DEF Continue
    <3> HIDE DEF s
    <3>3. prog'[t] = s \o q /\ \A u \in Threads \ {t} : prog'[u] = <<>>
      BY <1>6, <1>7, <3>2
    <3> QED BY <3>1, <3>3 DEF Alone
  <2>13. Sane'
    <3>1. \A f \in Fds : file'[f] # NULL => file'[f] <= opened'
      BY <1>0, <2>2, <2>4, <2>7, <2>8, ConstantsAssumption DEF Sane, Link, Conns
    <3>2. \A f, g \in Fds : file'[f] = file'[g] /\ file'[f] # NULL => f = g
      BY <2>5, <2>8 DEF Sane
    <3>3. deleted' \subseteq 1 .. opened'
      BY <1>0, <2>2, <2>4, <2>9 DEF Sane
    <3> QED BY <2>9, <3>1, <3>2, <3>3 DEF Sane
  <2>14. Homes({})'
    <3> SUFFICES ASSUME NEW d \in (1 .. opened') \ deleted' PROVE \E f \in Fds : file'[f] = d
      BY DEF Homes
    <3>1. CASE d = c
      BY <2>3, <2>8, <3>1
    <3>2. CASE d # c
      <4>1. d \in (1 .. opened) \ (deleted \cup {})
        BY <1>0, <2>2, <2>4, <2>9, <3>2
      <4>2. PICK f \in Fds : file[f] = d
        BY <1>3, <4>1 DEF Steady, Homes
      <4>3. f # fd
        <5>1. d \in Conns
          BY <1>0, <2>4, <4>1, ConstantsAssumption DEF Conns
        <5> QED BY <2>3, <4>2, <5>1, ConstantsAssumption
      <4> QED BY <2>8, <4>2, <4>3
    <3> QED BY <3>1, <3>2
  <2>15. /\ Well(fd) /\ mask[fd] = {} /\ pending[fd] = {} /\ interest[fd] = {}
    <3>1. Well(fd)
      BY <1>3, <2>3 DEF Steady, AllWell
    <3> QED BY <2>3, <3>1 DEF Well, Seat, Sound
  <2>16. AllWell({fd})'
    BY <1>3, <2>10, KeptElsewhere DEF Steady, AllWell
  <2>17. Follows(t, R, {fd})
    <3>1. CASE R = <<>>
      BY <3>1, Zenon DEF Follows
    <3>2. CASE R # <<>>
      <4>1. /\ t = "loop"
            /\ \E f \in Fds \ {}, k \in 1 .. 2, D \in Seq(Entries) :
                 /\ R = From(CloseConnection(f, file[f], FALSE), k, D)
                 /\ Owned(f) /\ Spares(D, f, {})
        BY <1>3, <3>2, Zenon DEF Follows
      <4>2. PICK f \in Fds, k \in 1 .. 2, D \in Seq(Entries) :
                 /\ R = From(CloseConnection(f, file[f], FALSE), k, D)
                 /\ Owned(f) /\ Spares(D, f, {})
        BY <4>1
      <4>3. f # fd
        BY <2>15, <4>2 DEF Owned
      <4>4. \A e : Live(e) => e.fd # fd
        BY <2>15 DEF Live, Fresh
      <4>5. Spares(D, f, {fd})
        <5> SUFFICES ASSUME backend # "kqueue"
                     PROVE  /\ Apart(D)
                            /\ \A i \in DOMAIN D :
                                 \/ D[i].fd \notin {fd} \cup {f} /\ Live(D[i])
                                 \/ i = 1 /\ D[1].fd = f /\ D[1].op = "onwrite"
          BY DEF Spares
        <5>1. /\ Apart(D)
              /\ \A i \in DOMAIN D :
                   \/ D[i].fd \notin {} \cup {f} /\ Live(D[i])
                   \/ i = 1 /\ D[1].fd = f /\ D[1].op = "onwrite"
          BY <4>2 DEF Spares
        <5> QED BY <4>4, <5>1
      <4>6. f \in Fds \ {fd}
        BY <4>3
      <4> QED BY <4>1, <4>2, <4>5, <4>6, Zenon DEF Follows
    <3> QED BY <3>1, <3>2
  <2>18. Follows(t, R, {fd})'
    BY <2>10, <2>17, KeptElsewhere
  <2>19. ASSUME fd < SetSize PROVE Phase'
    <3>1. IsTop(maxfd', Masked' \ {fd})
      BY <1>3, <2>9, <2>15 DEF Steady, IsTop, Masked
    <3>2. /\ file'[fd] = c /\ c \in Conns /\ c \notin deleted' /\ pending'[fd] = {}
          /\ interest'[fd] = {} /\ mask'[fd] = {}
      BY <2>4, <2>6, <2>8, <2>9, <2>15
    <3>3. AddPoint(t, fd, c, 1)'
      BY <2>19, <3>1, <3>2 DEF AddPoint
    <3>4. Adding(t, fd, c, 1, n - 1, R)'
      BY <2>12, <2>14, <2>16, <2>18, <3>3, Zenon DEF Adding, s, q
    <3>5. 1 \in 1 .. 10
      OBVIOUS
    <3> QED BY <1>1, <2>3, <2>4, <3>4, <3>5, Zenon DEF Phase
  <2>20. ASSUME ~(fd < SetSize) PROVE Phase'
    <3>1. fd >= SetSize
      BY <2>3, <2>20, ConstantsAssumption
    <3>2. s = <<>> \o <<>>
      BY <3>1 DEF AddIoEvents, CreateFileEvent
    <3>3. s = <<>>
      BY <3>2, EmptySeq, ConcatEmptySeq
    <3>4. From(s, 1, q) = q
      <4>1. From(s, 1, q) = s \o q
        BY <1>2, <2>11, FromEnds
      <4> QED BY <1>2, <3>3, <4>1, ConcatEmptySeq
    <3>5. Alone(t, SendGetReqs(n - 1) \o R)'
      BY <2>12, <3>4 DEF q
    <3> HIDE DEF s
    <3>6. Well(fd)'
      <4>1. Seat(fd, file'[fd]) = Seat(fd, file[fd])
        BY <2>20 DEF Seat
      <4> QED BY <2>9, <2>15, <4>1 DEF Well
    <3>7. Steady'
      <4>1. IsTop(maxfd', Masked')
        BY <1>3, <2>9 DEF Steady, Masked
      <4> QED BY <2>14, <2>16, <3>6, <4>1 DEF Steady, AllWell
    <3>8. Follows(t, R, {})'
      BY <2>18, FollowsAny
    <3> QED BY <1>1, <2>13, <3>5, <3>7, <3>8, BetweenRequests, NextIsTyped
  <2> QED BY <2>13, <2>19, <2>20
<1> QED BY <1>8, <1>9

\* aeApiDelEvent for a descriptor that a poll of an event port has returned, or that the
\* other backends watch: it does not abort, and new is what is still watched.
LEMMA DelIs ==
  ASSUME Typed, NEW t \in Threads, DelEvent(t), NEW fd \in Fds, NEW evs, NEW c,
         This(t) = Op("del", fd, evs, c), backend = "evport" => pending[fd] # {},
         NEW new, mask[fd] \ evs = new,
         IF backend = "evport" THEN pending[fd] \ evs = new ELSE interest[fd] \ evs = new
  PROVE  /\ Skip(t, 0) /\ Untouched /\ Elsewhere(fd)
         /\ interest'[fd] = IF backend = "evport" THEN interest[fd] ELSE new
         /\ pending'[fd] = IF backend = "evport" THEN new ELSE pending[fd]
         /\ UNCHANGED <<mask, data, maxfd, reg>>
<1>1. This(t).fd = fd /\ This(t).evs = evs
  BY DEF Op
<1>2. /\ UNCHANGED <<process, table, backend, reg, given, failed>>
      /\ Skip(t, 0)
      /\ \/ backend = "epoll" /\ DelEpoll(fd, evs)
         \/ backend \in {"select", "kqueue"} /\ DelEach(fd, evs)
         \/ backend = "evport" /\ DelEvport(fd, evs)
  <2>1. backend \in AllBackends
    BY ConstantsAssumption DEF Typed, Cells
  <2> QED BY <1>1, <2>1 DEF DelEvent, AllBackends
<1>3. interest \in [Fds -> SUBSET Events] /\ pending \in [Fds -> SUBSET Events]
  BY DEF Typed, Cells
<1>4. CASE backend = "epoll" /\ DelEpoll(fd, evs)
  <2>1. /\ interest' = IF interest[fd] = {} THEN interest
                       ELSE [interest EXCEPT ![fd] = mask[fd] \ evs]
        /\ UNCHANGED <<pending, aborted>>
    BY <1>4 DEF DelEpoll
  <2>2. interest[fd] = {} => new = {}
    BY <1>4
  <2>3. interest'[fd] = new
    BY <1>3, <2>1, <2>2
  <2>4. Elsewhere(fd)
    BY <1>2, <2>1, ElsewhereIs DEF process, table
  <2> QED BY <1>2, <1>4, <2>1, <2>3, <2>4 DEF process, table, given, Untouched
<1>5. CASE backend \in {"select", "kqueue"} /\ DelEach(fd, evs)
  <2>1. /\ interest' = [interest EXCEPT ![fd] = interest[fd] \ evs]
        /\ UNCHANGED <<pending, aborted>>
    BY <1>3, <1>5 DEF DelEach
  <2>2. interest'[fd] = new
    BY <1>3, <1>5, <2>1
  <2>3. Elsewhere(fd)
    BY <1>2, <2>1, ElsewhereIs DEF process, table
  <2> QED BY <1>2, <1>5, <2>1, <2>2, <2>3 DEF process, table, given, Untouched
<1>6. CASE backend = "evport" /\ DelEvport(fd, evs)
  <2>1. /\ pending' = [pending EXCEPT ![fd] = pending[fd] \ evs]
        /\ UNCHANGED <<interest, aborted>>
    BY <1>3, <1>6 DEF DelEvport
  <2>2. pending'[fd] = new
    BY <1>3, <1>6, <2>1
  <2>3. Elsewhere(fd)
    BY <1>2, <2>1, ElsewhereIs DEF process, table
  <2> QED BY <1>2, <1>6, <2>1, <2>2, <2>3 DEF process, table, given, Untouched
<1> QED BY <1>2, <1>4, <1>5, <1>6

\* LowerMaxfd when no other descriptor than fd lies above the ones with a mask.
LEMMA LowerIs ==
  ASSUME Typed, NEW t \in Threads, LowerMaxfd(t), NEW fd \in Fds, NEW c,
         This(t) = Op("lower", fd, {}, c), IsTop(maxfd, Masked \cup {fd})
  PROVE  /\ Skip(t, 0) /\ Untouched /\ Elsewhere(fd)
         /\ UNCHANGED <<interest, pending, mask, data, reg>>
         /\ IsTop(maxfd, Masked)'
<1>1. This(t).fd = fd
  BY DEF Op
<1>2. /\ maxfd' = IF fd = maxfd /\ mask[maxfd] = {}
                  THEN Max({-1} \cup {f \in Fds : f < maxfd /\ mask[f] # {}})
                  ELSE maxfd
      /\ Skip(t, 0) /\ Untouched
      /\ UNCHANGED <<interest, pending, mask, data, reg>>
  BY <1>1 DEF LowerMaxfd, process, kernel, faults, given, Untouched
<1>3. Elsewhere(fd)
  BY <1>2, ElsewhereIs DEF Untouched
<1>4. CASE fd = maxfd /\ mask[maxfd] = {}
  <2>1. {f \in Fds : f < maxfd /\ mask[f] # {}} = Masked
    <3>1. \A f \in Fds : mask[f] # {} => f <= maxfd /\ f # maxfd
      BY <1>4 DEF IsTop, Masked
    <3>2. \A f \in Fds : f \in Int
      BY ConstantsAssumption
    <3> QED BY <1>4, <3>1, <3>2 DEF Masked
  <2>2. Masked \subseteq Fds
    BY DEF Masked
  <2>3. maxfd' = Max({-1} \cup Masked)
    BY <1>2, <1>4, <2>1
  <2> HIDE DEF Masked
  <2>4. IsTop(maxfd', Masked)
    BY <2>2, <2>3, MaxIsTop
  <2>5. Masked' = Masked
    BY <1>2 DEF Masked
  <2> QED BY <1>2, <1>3, <2>4, <2>5
<1>5. CASE ~(fd = maxfd /\ mask[maxfd] = {})
  <2>1. IsTop(maxfd, Masked)
    BY <1>5 DEF IsTop, Masked
  <2>2. maxfd' = maxfd /\ Masked' = Masked
    BY <1>2, <1>5 DEF Masked
  <2> QED BY <1>2, <1>3, <2>1, <2>2
<1> QED BY <1>4, <1>5

\* The load and the store of a DeleteFileEvent.
LEMMA LoadIs ==
  ASSUME Typed, NEW t \in Threads, NEW fd \in Fds, NEW evs, NEW c, prog[t] # <<>>,
         This(t) = Op("load", fd, evs, c), Load(t)
  PROVE  /\ Skip(t, 0) /\ Untouched /\ Elsewhere(fd) /\ reg'[t] = mask[fd]
         /\ UNCHANGED <<interest, pending, mask, data, maxfd>>
<1>1. reg \in [Threads -> SUBSET Events]
  BY DEF Typed, Cells
<1>2. /\ Skip(t, 0) /\ Untouched /\ reg' = [reg EXCEPT ![t] = mask[fd]]
      /\ UNCHANGED <<interest, pending, mask, data, maxfd>>
  BY TableIs
<1>3. Elsewhere(fd)
  BY <1>2, ElsewhereIs DEF Untouched
<1> QED BY <1>1, <1>2, <1>3

LEMMA AndNotIs ==
  ASSUME Typed, NEW t \in Threads, NEW fd \in Fds, NEW evs, NEW c, prog[t] # <<>>,
         This(t) = Op("andnot", fd, evs, c), StoreAndNot(t), reg[t] # {},
         NEW new, reg[t] \ evs = new
  PROVE  /\ Skip(t, 0) /\ Untouched /\ Elsewhere(fd) /\ mask'[fd] = new
         /\ UNCHANGED <<interest, pending, data, maxfd, reg>>
<1>1. mask \in [Fds -> SUBSET Events]
  BY DEF Typed, Cells
<1>2. /\ Skip(t, 0) /\ Untouched /\ mask' = [mask EXCEPT ![fd] = reg[t] \ evs]
      /\ UNCHANGED <<interest, pending, data, maxfd, reg>>
  BY TableIs
<1>3. Elsewhere(fd)
  BY <1>2, ElsewhereIs DEF Untouched
<1> QED BY <1>1, <1>2, <1>3

\* close(fd).
LEMMA CloseIs ==
  ASSUME Typed, NEW t \in Threads, CloseFd(t), NEW fd \in Fds, NEW c,
         This(t) = Op("close", fd, {}, c)
  PROVE  /\ Skip(t, 0) /\ Elsewhere(fd) /\ file'[fd] = NULL
         /\ interest'[fd] = IF backend = "select" THEN interest[fd] ELSE {}
         /\ UNCHANGED <<backend, opened, deleted, pending, mask, data, maxfd, reg,
                        misuse, early, stale, failed, aborted>>
<1>1. This(t).fd = fd
  BY DEF Op
<1>2. /\ file' = [file EXCEPT ![fd] = NULL]
      /\ interest' = IF backend = "select" THEN interest ELSE [interest EXCEPT ![fd] = {}]
      /\ Skip(t, 0)
      /\ UNCHANGED <<backend, opened, deleted, pending, mask, data, maxfd, reg,
                     misuse, early, stale, failed, aborted>>
  BY <1>1 DEF CloseFd, table, faults, given
<1>3. file \in [Fds -> Link] /\ interest \in [Fds -> SUBSET Events]
  BY DEF Typed, Cells
<1>4. file'[fd] = NULL
  BY <1>2, <1>3
<1>5. interest'[fd] = IF backend = "select" THEN interest[fd] ELSE {}
  BY <1>2, <1>3
<1>6. Elsewhere(fd)
  <2>1. interest' = interest \/ \E a : interest' = [interest EXCEPT ![fd] = a]
    BY <1>2
  <2> QED BY <1>2, <2>1, ElsewhereIs
<1> QED BY <1>2, <1>4, <1>5, <1>6

\* A step of CloseConnection, but the last.
LEMMA ClosePointStep ==
  ASSUME ~overlapped', Typed, Sane, NEW fd \in Fds, NEW c \in Conns, NEW k \in 1 .. 5,
         ClosePoint(fd, c, k), Homes({c}), NEW p, Alone("loop", p), p # <<>>,
         Head(p) = CloseConnection(fd, c, FALSE)[k], Next
  PROVE  /\ Skip("loop", 0) /\ Elsewhere(fd) /\ ClosePoint(fd, c, k + 1)'
         /\ Sane' /\ Homes({c})'
<1> DEFINE s == CloseConnection(fd, c, FALSE)
           t == "loop"
<1>1. /\ s[1] = Op("close", fd, {}, c)
      /\ s[2] = Op("load", fd, {}, c)
      /\ s[3] = Op("andnot", fd, Events, c)
      /\ s[4] = Op("lower", fd, {}, c)
      /\ s[5] = Op("del", fd, Events, c)
  <2>1. fd < SetSize
    BY DEF ClosePoint
  <2> QED BY <2>1, CloseOps
<1>0. t \in Threads
  BY DEF Threads
<1> HIDE DEF t
<1>2. This(t) = s[k] /\ prog[t] # <<>>
  BY <1>0, OneOperation DEF Alone, t
<1>3. \A name, evs : Op(name, fd, evs, c).op = name
  BY DEF Op
<1>4. /\ s[k].op = "close" => CloseFd(t)
      /\ s[k].op = "load" => Load(t)
      /\ s[k].op = "andnot" => StoreAndNot(t)
      /\ s[k].op = "lower" => LowerMaxfd(t)
      /\ s[k].op = "del" => DelEvent(t)
  BY <1>0, OneOperation DEF t
<1> HIDE DEF s
<1>5. /\ k = 1 => CloseFd(t)
      /\ k = 2 => Load(t)
      /\ k = 3 => StoreAndNot(t)
      /\ k = 4 => LowerMaxfd(t)
      /\ k = 5 => DelEvent(t)
  BY <1>1, <1>3, <1>4
<1>6. /\ fd < SetSize
      /\ file[fd] \in {c, NULL} /\ \A f \in Fds \ {fd} : file[f] # c
      /\ c \in 1 .. opened /\ c \notin deleted
      /\ k = 1 => file[fd] = c
      /\ IF backend = "evport" THEN interest[fd] = {} ELSE pending[fd] = {}
      /\ backend = "evport" => pending[fd] # {}
      /\ k <= 3 <=> mask[fd] # {}
      /\ k = 3 => reg[t] = mask[fd]
      /\ IsTop(maxfd, IF k = 4 THEN Masked \cup {fd} ELSE Masked)
  BY DEF ClosePoint, t
<1>7. /\ mask[fd] \subseteq Events /\ interest[fd] \subseteq Events /\ pending[fd] \subseteq Events
      /\ reg[t] \subseteq Events
  BY <1>0 DEF Typed, Cells
<1>8. ASSUME Untouched, Elsewhere(fd)
      PROVE  /\ file'[fd] = file[fd] /\ opened' = opened /\ deleted' = deleted
             /\ backend' = backend /\ \A f \in Fds \ {fd} : file'[f] # c
             /\ Sane' /\ Homes({c})'
  BY <1>6, <1>8, SaneKept DEF Untouched
<1>9. CASE k = 1
  <2>1. /\ Skip(t, 0) /\ Elsewhere(fd) /\ file'[fd] = NULL
        /\ interest'[fd] = IF backend = "select" THEN interest[fd] ELSE {}
        /\ UNCHANGED <<backend, opened, deleted, pending, mask, data, maxfd, reg,
                       misuse, early, stale, failed, aborted>>
    BY <1>0, <1>1, <1>2, <1>5, <1>9, CloseIs
  <2>2. \A f \in Fds \ {fd} : file'[f] = file[f]
    BY <2>1 DEF Elsewhere
  <2>3. Sane'
    <3>1. \A f \in Fds : file'[f] # NULL => f # fd /\ file[f] = file'[f]
      BY <2>1, <2>2
    <3> QED BY <2>1, <3>1 DEF Sane
  <2>4. Homes({c})'
    <3> SUFFICES ASSUME NEW d \in (1 .. opened) \ (deleted \cup {c})
                 PROVE  \E f \in Fds : file'[f] = d
      BY <2>1 DEF Homes
    <3>1. PICK f \in Fds : file[f] = d
      BY DEF Homes
    <3> QED BY <1>6, <1>9, <2>2, <3>1
  <2>5. IsTop(maxfd', Masked')
    BY <1>6, <1>9, <2>1 DEF Masked, IsTop
  <2>6. ClosePoint(fd, c, k + 1)'
    BY <1>6, <1>9, <2>1, <2>2, <2>5 DEF ClosePoint
  <2> QED BY <2>1, <2>3, <2>4, <2>6 DEF t
<1>10. CASE k = 2
  <2>1. /\ Skip(t, 0) /\ Untouched /\ Elsewhere(fd) /\ reg'[t] = mask[fd]
        /\ UNCHANGED <<interest, pending, mask, data, maxfd>>
    BY <1>0, <1>1, <1>2, <1>5, <1>10, LoadIs
  <2>2. IsTop(maxfd', Masked')
    BY <1>6, <1>10, <2>1 DEF Masked, IsTop
  <2>3. ClosePoint(fd, c, k + 1)'
    BY <1>6, <1>8, <1>10, <2>1, <2>2 DEF ClosePoint, t
  <2> QED BY <1>8, <2>1, <2>3 DEF t
<1>11. CASE k = 3
  <2>1. reg[t] \ Events = {} /\ reg[t] # {}
    BY <1>6, <1>7, <1>11
  <2>2. /\ Skip(t, 0) /\ Untouched /\ Elsewhere(fd) /\ mask'[fd] = {}
        /\ UNCHANGED <<interest, pending, data, maxfd, reg>>
    <3>1. This(t) = Op("andnot", fd, Events, c) /\ StoreAndNot(t)
      BY <1>1, <1>2, <1>5, <1>11
    <3>2. PICK new : new = {}
      OBVIOUS
    <3>3. reg[t] \ Events = new
      BY <2>1, <3>2
    <3>4. /\ Skip(t, 0) /\ Untouched /\ Elsewhere(fd) /\ mask'[fd] = new
          /\ UNCHANGED <<interest, pending, data, maxfd, reg>>
      BY <1>0, <1>2, <2>1, <3>1, <3>3, AndNotIs, Zenon
    <3> QED BY <3>2, <3>4
  <2>3. IsTop(maxfd', Masked' \cup {fd})
    <3>1. \A f \in Fds \ {fd} : mask'[f] = mask[f]
      BY <2>2 DEF Elsewhere
    <3>2. Masked' \cup {fd} = Masked
      BY <1>6, <1>11, <3>1 DEF Masked
    <3> QED BY <1>6, <1>11, <2>2, <3>2
  <2>4. ClosePoint(fd, c, k + 1)'
    BY <1>6, <1>8, <1>11, <2>2, <2>3 DEF ClosePoint
  <2> QED BY <1>8, <2>2, <2>4 DEF t
<1>12. CASE k = 4
  <2>1. /\ Skip(t, 0) /\ Untouched /\ Elsewhere(fd)
        /\ UNCHANGED <<interest, pending, mask, data, reg>>
        /\ IsTop(maxfd, Masked)'
    BY <1>0, <1>1, <1>2, <1>5, <1>6, <1>12, LowerIs
  <2>2. ClosePoint(fd, c, k + 1)'
    BY <1>6, <1>8, <1>12, <2>1 DEF ClosePoint
  <2> QED BY <1>8, <2>1, <2>2 DEF t
<1>13. CASE k = 5
  <2>1. /\ mask[fd] \ Events = {} /\ pending[fd] \ Events = {} /\ interest[fd] \ Events = {}
    BY <1>7
  <2>2. /\ Skip(t, 0) /\ Untouched /\ Elsewhere(fd)
        /\ interest'[fd] = IF backend = "evport" THEN interest[fd] ELSE {}
        /\ pending'[fd] = IF backend = "evport" THEN {} ELSE pending[fd]
        /\ UNCHANGED <<mask, data, maxfd, reg>>
    <3>1. This(t) = Op("del", fd, Events, c) /\ DelEvent(t)
      BY <1>1, <1>2, <1>5, <1>13
    <3>2. PICK new : new = {}
      OBVIOUS
    <3>3. /\ mask[fd] \ Events = new
          /\ IF backend = "evport" THEN pending[fd] \ Events = new ELSE interest[fd] \ Events = new
      BY <2>1, <3>2
    <3>4. /\ Skip(t, 0) /\ Untouched /\ Elsewhere(fd)
          /\ interest'[fd] = IF backend = "evport" THEN interest[fd] ELSE new
          /\ pending'[fd] = IF backend = "evport" THEN new ELSE pending[fd]
          /\ UNCHANGED <<mask, data, maxfd, reg>>
      <4>1. backend = "evport" => pending[fd] # {}
        BY <1>6
      <4> QED BY ONLY Typed, t \in Threads, fd \in Fds, <1>0, <3>1, <3>3, <4>1, DelIs, ZenonT(40)
    <3> QED BY <3>2, <3>4
  <2>3. IsTop(maxfd', Masked')
    BY <1>6, <1>13, <2>2 DEF Masked, IsTop
  <2>4. ClosePoint(fd, c, k + 1)'
    BY <1>6, <1>8, <1>13, <2>2, <2>3 DEF ClosePoint
  <2> QED BY <1>8, <2>2, <2>4 DEF t
<1> QED BY <1>9, <1>10, <1>11, <1>12, <1>13

LEMMA ClosingStep ==
  ASSUME ~overlapped', Typed, Sane, NEW fd \in Fds, NEW c \in Conns, NEW k \in 1 .. 6,
         NEW D \in Seq(Entries), Closing(fd, c, k, D), Next
  PROVE  Sane' /\ Phase'
<1> DEFINE s == CloseConnection(fd, c, FALSE)
           p == From(s, k, D)
<1>0. "loop" \in Threads /\ D \in Seq(Ops)
  BY EntriesAreOps DEF Threads
<1>1. s \in Seq(Ops) /\ Len(s) = 6 /\ s[6] = Op("free", fd, {}, c)
  <2>1. fd < SetSize
    BY DEF Closing, ClosePoint
  <2> QED BY <2>1, CloseOps
<1>2. Alone("loop", p) /\ ClosePoint(fd, c, k) /\ AllWell({fd}) /\ Homes({c}) /\ Spares(D, fd, {})
  BY DEF Closing
<1> HIDE DEF s
<1>3. k \in 1 .. Len(s) /\ p # <<>> /\ Head(p) = s[k]
  BY <1>0, <1>1, FromIs
<1> HIDE DEF p
<1>4. CASE k # 6
  <2>0. k \in 1 .. 5
    BY <1>4
  <2>1. /\ Skip("loop", 0) /\ Elsewhere(fd) /\ ClosePoint(fd, c, k + 1)'
        /\ Sane' /\ Homes({c})'
    BY <1>2, <1>3, <2>0, ClosePointStep DEF s
  <2>2. Alone("loop", From(s, k + 1, D))'
    BY <1>0, <1>1, <1>2, <1>3, <2>1, SkipAlone DEF p
  <2>3. AllWell({fd})' /\ Spares(D, fd, {})'
    BY <1>2, <2>1, KeptElsewhere
  <2>4. k + 1 \in 1 .. 6
    BY <1>4
  <2>5. Closing(fd, c, k + 1, D)'
    BY <2>1, <2>2, <2>3, Zenon DEF Closing, s
  <2> QED BY <2>1, <2>4, <2>5, Zenon DEF Phase
<1>5. CASE k = 6
  <2>1. This("loop") = Op("free", fd, {}, c) /\ FreeData("loop")
    <3>1. Head(p) = Op("free", fd, {}, c)
      BY <1>1, <1>3, <1>5
    <3>2. Head(p).op = "free"
      BY <3>1 DEF Op
    <3> QED BY <1>0, <1>2, <1>3, <3>1, <3>2, OneOperation
  <2>2. /\ Skip("loop", 0) /\ deleted' = deleted \cup {c}
        /\ UNCHANGED <<file, opened, mask, data, maxfd, backend, interest, pending,
                       misuse, early, stale, failed, aborted>>
    <3>1. This("loop").conn = c
      BY <2>1 DEF Op
    <3> QED BY <2>1, <3>1 DEF FreeData, table, kernel, faults, given
  <2>3. Alone("loop", D)'
    <3>1. Alone("loop", From(s, k + 1, D))'
      BY <1>0, <1>1, <1>2, <1>3, <2>2, SkipAlone DEF p
    <3>2. k + 1 = Len(s) + 1
      BY <1>1, <1>5
    <3>3. From(s, Len(s) + 1, D) = D
      BY <1>0, <1>1, FromEnds
    <3> QED BY <3>1, <3>2, <3>3
  <2>4. /\ file[fd] \in {c, NULL} /\ \A f \in Fds \ {fd} : file[f] # c
        /\ c \in 1 .. opened /\ interest[fd] = {} /\ pending[fd] = {} /\ mask[fd] = {}
        /\ IsTop(maxfd, Masked)
    BY <1>2, <1>5 DEF ClosePoint
  <2>5. Sane'
    BY <2>2, <2>4 DEF Sane
  <2>6. Well(fd)'
    <3>1. Seat(fd, file'[fd]) \in {c, NULL} /\ c \in deleted'
      BY <2>2, <2>4 DEF Seat
    <3>2. /\ interest'[fd] = {} /\ pending'[fd] = {} /\ mask'[fd] = {}
      BY <2>2, <2>4
    <3> QED BY <3>1, <3>2 DEF Well, Sound
  <2>7. ASSUME NEW f \in Fds \ {fd} PROVE Well(f)'
    <3>1. Well(f) /\ file[f] # c
      BY <1>2, <2>4 DEF AllWell
    <3>2. Seat(f, file'[f]) = Seat(f, file[f])
      BY <2>2 DEF Seat
    <3>3. c # NULL
      BY ConstantsAssumption
    <3>4. Seat(f, file[f]) # c
      BY <3>1, <3>3 DEF Seat
    <3> QED BY <2>2, <3>1, <3>2, <3>4 DEF Well, Sound
  <2>8. Homes({})'
    BY <1>2, <2>2 DEF Homes
  <2>9. IsTop(maxfd, Masked)'
    BY <2>2, <2>4 DEF Masked, IsTop
  <2>10. Steady'
    BY <2>6, <2>7, <2>8, <2>9 DEF Steady, AllWell
  <2>11. Spares(D, fd, {})' /\ mask'[fd] = {}
    BY <1>2, <2>2, <2>4, Zenon DEF Spares, Live, Apart
  <2>12. Resting'
    BY <2>3, <2>10, <2>11, Zenon DEF Resting
  <2> QED BY <2>5, <2>12, Zenon DEF Phase
<1> QED BY <1>4, <1>5

LEMMA WritingStep ==
  ASSUME ~overlapped', Typed, Sane, NEW fd \in Fds, NEW c \in Conns, NEW k \in 1 .. 4,
         NEW D \in Seq(Entries), Writing(fd, c, k, D), Next
  PROVE  Sane' /\ Phase'
<1> DEFINE s == DeleteFileEvent(fd, {"writable"}, c)
           p == From(s, k, D)
           t == "loop"
<1>0. t \in Threads /\ D \in Seq(Ops) /\ {"writable"} \in SUBSET Events
  BY EntriesAreOps DEF Threads, Events
<1>1. /\ s \in Seq(Ops) /\ Len(s) = 4
      /\ s[1] = Op("load", fd, {}, c)
      /\ s[2] = Op("andnot", fd, {"writable"}, c)
      /\ s[3] = Op("lower", fd, {}, c)
      /\ s[4] = Op("del", fd, {"writable"}, c)
  <2>1. fd < SetSize
    BY DEF Writing, WritePoint
  <2> QED BY <1>0, <2>1, DeleteOps
<1>2. Alone(t, p) /\ WritePoint(fd, c, k) /\ AllWell({fd}) /\ Homes({}) /\ Away(D, {fd})
  BY DEF Writing
<1> HIDE DEF s, t
<1>3. k \in 1 .. Len(s) /\ p # <<>> /\ Head(p) = s[k]
  BY <1>0, <1>1, FromIs
<1> HIDE DEF p
<1>4. This(t) = s[k] /\ prog[t] # <<>>
  BY <1>0, <1>2, <1>3, OneOperation DEF Alone
<1>5. \A name, evs : Op(name, fd, evs, c).op = name
  BY DEF Op
<1>6. /\ s[k].op = "load" => Load(t)
      /\ s[k].op = "andnot" => StoreAndNot(t)
      /\ s[k].op = "lower" => LowerMaxfd(t)
      /\ s[k].op = "del" => DelEvent(t)
  BY <1>0, <1>2, <1>3, OneOperation
<1>7. /\ k = 1 => Load(t)
      /\ k = 2 => StoreAndNot(t)
      /\ k = 3 => LowerMaxfd(t)
      /\ k = 4 => DelEvent(t)
  BY <1>1, <1>5, <1>6
<1>8. /\ fd < SetSize /\ file[fd] = c /\ data[fd] = c /\ c \notin deleted
      /\ IF backend = "evport" THEN pending[fd] = Events /\ interest[fd] = {}
                               ELSE pending[fd] = {} /\ interest[fd] = Events
      /\ mask[fd] = IF k <= 2 THEN Events ELSE {"readable"}
      /\ k = 2 => reg[t] = mask[fd]
      /\ IsTop(maxfd, Masked)
  BY <1>2 DEF WritePoint, t
<1>9. "readable" \in mask[fd] /\ "readable" \in Events
  BY <1>8 DEF Events
<1>10. PICK new : new = {"readable"}
  OBVIOUS
<1>11. Events \ {"writable"} = new /\ new \ {"writable"} = new
  BY <1>10 DEF Events
<1>12. ASSUME Skip(t, 0), Untouched, Elsewhere(fd), UNCHANGED data, NEW m, k + 1 = m
       PROVE  /\ Alone(t, From(s, m, D))'
              /\ file'[fd] = c /\ data'[fd] = c /\ c \notin deleted' /\ backend' = backend
              /\ AllWell({fd})' /\ Away(D, {fd})' /\ Sane' /\ Homes({})'
  <2>1. Alone(t, From(s, k + 1, D))'
    BY <1>0, <1>1, <1>2, <1>3, <1>12, SkipAlone DEF p
  <2>2. AllWell({fd})' /\ Away(D, {fd})'
    BY <1>2, <1>12, KeptElsewhere
  <2>3. Sane' /\ Homes({})'
    BY <1>2, <1>12, SaneKept
  <2> QED BY <1>8, <1>12, <2>1, <2>2, <2>3 DEF Untouched
<1>13. CASE k = 1
  <2>1. /\ Skip(t, 0) /\ Untouched /\ Elsewhere(fd) /\ reg'[t] = mask[fd]
        /\ UNCHANGED <<interest, pending, mask, data, maxfd>>
    BY <1>0, <1>1, <1>4, <1>7, <1>13, LoadIs
  <2>2. IsTop(maxfd, Masked)'
    BY <1>8, <2>1 DEF Masked, IsTop
  <2>3. k + 1 = 2
    BY <1>13
  <2>4. /\ Alone(t, From(s, 2, D))'
        /\ file'[fd] = c /\ data'[fd] = c /\ c \notin deleted' /\ backend' = backend
        /\ AllWell({fd})' /\ Away(D, {fd})' /\ Sane' /\ Homes({})'
    BY <1>12, <2>1, <2>3
  <2>5. WritePoint(fd, c, 2)'
    BY <1>8, <1>13, <2>1, <2>2, <2>4 DEF WritePoint, t
  <2>6. Writing(fd, c, 2, D)'
    BY <2>4, <2>5, Zenon DEF Writing, s, t
  <2>7. 2 \in 1 .. 4
    OBVIOUS
  <2> QED BY <2>4, <2>6, <2>7, Zenon DEF Phase
<1>14. CASE k = 2
  <2>1. reg[t] # {} /\ reg[t] \ {"writable"} = new
    BY <1>8, <1>9, <1>11, <1>14
  <2>2. /\ Skip(t, 0) /\ Untouched /\ Elsewhere(fd) /\ mask'[fd] = new
        /\ UNCHANGED <<interest, pending, data, maxfd, reg>>
    <3>1. This(t) = Op("andnot", fd, {"writable"}, c) /\ StoreAndNot(t)
      BY <1>1, <1>4, <1>7, <1>14
    <3> QED BY <1>0, <1>4, <2>1, <3>1, AndNotIs, Zenon
  <2>3. IsTop(maxfd', Masked')
    <3>1. \A f \in Fds \ {fd} : mask'[f] = mask[f]
      BY <2>2 DEF Elsewhere
    <3>2. "readable" \in mask'[fd]
      BY <1>10, <2>2
    <3>3. Masked' = Masked
      BY <1>9, <3>1, <3>2 DEF Masked
    <3> QED BY <1>8, <2>2, <3>3
  <2>4. k + 1 = 3
    BY <1>14
  <2>5. /\ Alone(t, From(s, 3, D))'
        /\ file'[fd] = c /\ data'[fd] = c /\ c \notin deleted' /\ backend' = backend
        /\ AllWell({fd})' /\ Away(D, {fd})' /\ Sane' /\ Homes({})'
    BY <1>12, <2>2, <2>4
  <2>6. WritePoint(fd, c, 3)'
    BY <1>8, <1>10, <1>14, <2>2, <2>3, <2>5 DEF WritePoint, t
  <2>7. Writing(fd, c, 3, D)'
    BY <2>5, <2>6, Zenon DEF Writing, s, t
  <2>8. 3 \in 1 .. 4
    OBVIOUS
  <2> QED BY <2>5, <2>7, <2>8, Zenon DEF Phase
<1>15. CASE k = 3
  <2>1. IsTop(maxfd, Masked \cup {fd})
    <3>1. fd \in Masked
      BY <1>9 DEF Masked
    <3>2. Masked \cup {fd} = Masked
      BY <3>1
    <3> QED BY <1>8, <3>2
  <2>2. /\ Skip(t, 0) /\ Untouched /\ Elsewhere(fd)
        /\ UNCHANGED <<interest, pending, mask, data, reg>>
        /\ IsTop(maxfd, Masked)'
    BY <1>0, <1>1, <1>4, <1>7, <1>15, <2>1, LowerIs
  <2>3. k + 1 = 4
    BY <1>15
  <2>4. /\ Alone(t, From(s, 4, D))'
        /\ file'[fd] = c /\ data'[fd] = c /\ c \notin deleted' /\ backend' = backend
        /\ AllWell({fd})' /\ Away(D, {fd})' /\ Sane' /\ Homes({})'
    BY <1>12, <2>2, <2>3
  <2>5. WritePoint(fd, c, 4)'
    BY <1>8, <1>15, <2>2, <2>4 DEF WritePoint, t
  <2>6. Writing(fd, c, 4, D)'
    BY <2>4, <2>5, Zenon DEF Writing, s, t
  <2>7. 4 \in 1 .. 4
    OBVIOUS
  <2> QED BY <2>4, <2>6, <2>7, Zenon DEF Phase
<1>16. CASE k = 4
  <2>1. /\ mask[fd] \ {"writable"} = new
        /\ IF backend = "evport" THEN pending[fd] \ {"writable"} = new
                                 ELSE interest[fd] \ {"writable"} = new
    BY <1>8, <1>9, <1>10, <1>11, <1>16
  <2>0. backend = "evport" => pending[fd] # {}
    BY <1>8, <1>9
  <2>2. /\ Skip(t, 0) /\ Untouched /\ Elsewhere(fd)
        /\ interest'[fd] = IF backend = "evport" THEN interest[fd] ELSE new
        /\ pending'[fd] = IF backend = "evport" THEN new ELSE pending[fd]
        /\ UNCHANGED <<mask, data, maxfd, reg>>
    <3>1. This(t) = Op("del", fd, {"writable"}, c) /\ DelEvent(t)
      BY <1>1, <1>4, <1>7, <1>16
    <3> QED BY <1>0, <2>0, <2>1, <3>1, DelIs, Zenon
  <2>3. k + 1 = Len(s) + 1
    BY <1>1, <1>16
  <2>4. /\ Alone(t, From(s, Len(s) + 1, D))'
        /\ file'[fd] = c /\ data'[fd] = c /\ c \notin deleted' /\ backend' = backend
        /\ AllWell({fd})' /\ Away(D, {fd})' /\ Sane' /\ Homes({})'
    BY <1>12, <2>2, <2>3
  <2>5. Alone("loop", D)'
    <3>1. From(s, Len(s) + 1, D) = D
      BY <1>0, <1>1, FromEnds
    <3> QED BY <2>4, <3>1 DEF t
  <2>6. Well(fd)'
    <3>1. mask'[fd] = {"readable"} /\ c # NULL
      BY <1>8, <1>16, <2>2, ConstantsAssumption
    <3>2. /\ interest'[fd] = IF backend = "evport" THEN {} ELSE {"readable"}
          /\ pending'[fd] = IF backend = "evport" THEN {"readable"} ELSE {}
      BY <1>8, <1>10, <2>2
    <3>3. Seat(fd, file'[fd]) = c
      BY <1>8, <2>4 DEF Seat
    <3> QED BY <2>4, <3>1, <3>2, <3>3 DEF Well, Sound
  <2>7. IsTop(maxfd, Masked)'
    BY <1>8, <2>2 DEF Masked, IsTop
  <2>8. Steady'
    BY <2>4, <2>6, <2>7 DEF Steady, AllWell
  <2>9. Away(D, {})'
    BY <2>4, Zenon DEF Away
  <2>10. Resting'
    BY <2>5, <2>8, <2>9, Zenon DEF Resting
  <2> QED BY <2>4, <2>10, Zenon DEF Phase
<1> QED BY <1>13, <1>14, <1>15, <1>16

\* A step that only replaces what a thread has to do.
Still ==
  /\ UNCHANGED <<process, table, backend, interest, pending, reg, misuse, early, failed, aborted>>
  /\ backend # "kqueue" => stale' = stale

LEMMA StillIs ==
  ASSUME Still
  PROVE  /\ Sane => Sane'
         /\ Steady => Steady'
         /\ \A fd : Owned(fd) => Owned(fd)'
         /\ \A D, X : Away(D, X) => Away(D, X)'
         /\ \A D, fd, X : Spares(D, fd, X) => Spares(D, fd, X)'
<1>1. /\ UNCHANGED <<file, opened, deleted, mask, data, maxfd, backend, interest, pending, reg,
                     misuse, early, failed, aborted>>
      /\ backend # "kqueue" => stale' = stale
  BY DEF Still, process, table
<1>2. Sane => Sane'
  BY <1>1 DEF Sane
<1>3. Steady => Steady'
  BY <1>1 DEF Steady, AllWell, Well, Seat, Homes, IsTop, Masked
<1>4. \A fd : Owned(fd) => Owned(fd)'
  BY <1>1 DEF Owned
<1>5. \A e : Live(e) => Live(e)'
  BY <1>1 DEF Live
<1>6. ASSUME NEW D, NEW X, Away(D, X) PROVE Away(D, X)'
  BY <1>1, <1>5, <1>6, Zenon DEF Away, Apart
<1>7. ASSUME NEW D, NEW fd, NEW X, Spares(D, fd, X) PROVE Spares(D, fd, X)'
  BY <1>1, <1>5, <1>7, Zenon DEF Spares, Apart
<1> QED BY <1>2, <1>3, <1>4, <1>6, <1>7

\* What a poll leaves to do, once the masks are what the kernel watches.
LEMMA FiredAreLive ==
  ASSUME Typed, NEW X, X \subseteq Fds, NEW n \in Nat, NEW fired, FiredOf(fired, n, X),
         backend' = backend, UNCHANGED <<file, mask, data>>,
         \A fd \in X : mask[fd] # {} /\ data[fd] = file[fd]
                       /\ (backend = "evport" => pending'[fd] # {})
  PROVE  \E D \in Seq(Entries) : D = Dispatch(fired) /\ Away(D, {})'
<1>1. /\ DOMAIN fired = 1 .. n /\ Len(fired) = n
      /\ \A i \in 1 .. n : \E fd \in X, evs \in SUBSET Events : fired[i] = Fired(fd, evs)
      /\ backend # "kqueue" => \A i, j \in 1 .. n : fired[i].fd = fired[j].fd => i = j
  BY DEF FiredOf
<1>2. file \in [Fds -> Link]
  BY DEF Typed, Cells
<1> DEFINE d == Dispatch(fired)
<1>0. /\ d \in Seq(Entries) /\ Len(d) = 2 * n
      /\ \A i \in 1 .. 2 * n : \E j \in 1 .. n :
           /\ j = (i + 1) \div 2
           /\ d[i].fd = fired[j].fd /\ d[i].conn = fired[j].conn
           /\ d[i].op = IF i % 2 = 1 THEN "onread" ELSE "onwrite"
  BY <1>1, <1>2, DispatchTyped
<1> HIDE DEF d
<1>10. PICK D : D = d
  OBVIOUS
<1>3. /\ D \in Seq(Entries) /\ Len(D) = 2 * n
      /\ \A i \in 1 .. 2 * n : \E j \in 1 .. n :
           /\ j = (i + 1) \div 2
           /\ D[i].fd = fired[j].fd /\ D[i].conn = fired[j].conn
           /\ D[i].op = IF i % 2 = 1 THEN "onread" ELSE "onwrite"
  BY <1>0, <1>10
<1>4. DOMAIN D = 1 .. 2 * n
  BY <1>3, LenProperties
<1>5. ASSUME backend # "kqueue" PROVE Apart(D)
  <2> SUFFICES ASSUME NEW i \in 1 .. 2 * n, NEW j \in 1 .. 2 * n, i < j, D[i].fd = D[j].fd
               PROVE  j = i + 1 /\ D[i].op = "onread" /\ D[j].op = "onwrite"
    BY <1>4 DEF Apart
  <2>1. /\ (i + 1) \div 2 \in 1 .. n /\ (j + 1) \div 2 \in 1 .. n
        /\ fired[(i + 1) \div 2].fd = fired[(j + 1) \div 2].fd
    BY <1>3
  <2>2. (i + 1) \div 2 = (j + 1) \div 2
    BY <1>1, <1>5, <2>1
  <2>3. j = i + 1 /\ i % 2 = 1 /\ j % 2 # 1
    BY <2>2
  <2> QED BY <1>3, <2>3
<1>6. ASSUME NEW i \in 1 .. 2 * n PROVE D[i].fd \in X /\ D[i].conn = file[D[i].fd]
  <2>1. PICK j \in 1 .. n : D[i].fd = fired[j].fd /\ D[i].conn = fired[j].conn
    BY <1>3
  <2>2. PICK fd \in X, evs \in SUBSET Events : fired[j] = Fired(fd, evs)
    BY <1>1
  <2>3. fired[j].fd = fd /\ fired[j].conn = file[fd]
    BY <2>2 DEF Fired, Op
  <2> QED BY <2>1, <2>3
<1>7. \A i \in 1 .. 2 * n : Live(D[i])'
  BY <1>6 DEF Live, Fresh
<1>8. Away(D, {})'
  <2>1. \A i \in DOMAIN D : D[i].fd \notin {}
    OBVIOUS
  <2>2. backend' # "kqueue" => backend # "kqueue"
    OBVIOUS
  <2> QED BY <1>4, <1>5, <1>7, <2>1, <2>2, Zenon DEF Away, Apart
<1> QED BY <1>3, <1>8, <1>10 DEF d

\* Nothing under way and nothing left of a poll: a request, or a poll.
LEMMA IdleStep ==
  ASSUME ~overlapped', Typed, Sane, Steady, \A t \in Threads : prog[t] = <<>>, Next
  PROVE  Sane' /\ Phase'
<1>1. Typed'
  BY NextIsTyped
<1>2. (\E t \in Threads : Launch(t)) \/ Poll
  <2>1. \A t \in Threads : \A name : ~At(t, name)
    BY Zenon DEF At
  <2>2. "loop" \in Threads
    BY DEF Threads
  <2> QED BY <2>1, <2>2, Zenon DEF Next, Connect, AddEvent, SetData, RaiseMaxfd, LowerMaxfd, Load,
                                   StoreOr, StoreAndNot, DelEvent, CloseFd, FreeData, OnRead, OnWrite
<1>3. prog \in [Threads -> Seq(Ops)]
  BY DEF Typed
<1>4. ASSUME NEW t \in Threads, Launch(t) PROVE Sane' /\ Phase'
  <2>1. Still /\ prog' = [prog EXCEPT ![t] = SendGetReqs(1)]
    BY <1>4 DEF Launch, Still, kernel, faults, given
  <2>2. <<>> \in Seq(Ops) /\ SendGetReqs(1) \in Seq(Ops)
    BY EmptySeq, GetReqs
  <2>3. SendGetReqs(1) \o <<>> = SendGetReqs(1)
    BY <2>2, ConcatEmptySeq
  <2>4. prog'[t] = SendGetReqs(1) \o <<>> /\ \A u \in Threads \ {t} : prog'[u] = <<>>
    BY <1>3, <2>1, <2>3
  <2>5. Alone(t, SendGetReqs(1) \o <<>>)'
    BY <2>4 DEF Alone
  <2>6. Follows(t, <<>>, {})'
    BY Zenon DEF Follows
  <2>7. Sane' /\ Steady'
    BY <2>1, StillIs
  <2>8. 1 \in Nat
    OBVIOUS
  <2>9. Phase'
    BY <1>1, <2>2, <2>5, <2>6, <2>7, <2>8, BetweenRequests
  <2> QED BY <2>7, <2>9
<1>5. ASSUME Poll PROVE Sane' /\ Phase'
  <2> DEFINE again == [fd \in Fds |-> IF pending[fd] # {} THEN pending[fd] ELSE interest[fd]]
             X == {fd \in Fds : interest[fd] # {} \/ mask[fd] # {}}
  <2>1. /\ UNCHANGED <<process, table, backend, reg, given, failed>>
        /\ \/ /\ Reports(X) /\ backend # "evport"
              /\ UNCHANGED <<interest, pending, aborted>>
           \/ \E fd \in Fds : pending[fd] # {} /\ file[fd] = NULL
           \/ /\ \E reported \in SUBSET Fds :
                   /\ \A fd \in reported : again[fd] # {}
                   /\ interest' = [fd \in Fds |-> IF fd \in reported THEN {} ELSE again[fd]]
                   /\ pending' = [fd \in Fds |-> IF fd \in reported THEN again[fd] ELSE {}]
                   /\ Reports(reported)
              /\ UNCHANGED aborted /\ backend = "evport"
    BY <1>5, PollIs
  <2>2. \A fd \in Fds : Well(fd)
    BY DEF Steady, AllWell
  <2>3. \A fd \in Fds : /\ again[fd] = mask[fd]
                        /\ interest[fd] \cup pending[fd] = mask[fd]
                        /\ mask[fd] # {} => file[fd] # NULL /\ data[fd] = file[fd]
    BY <2>2 DEF Well, Seat, Sound
  <2>4. UNCHANGED <<file, opened, deleted, mask, data, maxfd, backend, misuse, early, stale, failed>>
    BY <2>1 DEF process, table, given
  <2> HIDE DEF again
  <2>5. ASSUME NEW S \in SUBSET Fds, Reports(S), Steady', Sane',
               \A fd \in S : mask[fd] # {} /\ (backend = "evport" => pending'[fd] # {})
        PROVE  Sane' /\ Phase'
    <3>1. PICK n \in Nat : \E fired :
            FiredOf(fired, n, S) /\ prog' = [prog EXCEPT !["loop"] = Dispatch(fired)]
      BY <2>5 DEF Reports
    <3>2. PICK fired : FiredOf(fired, n, S) /\ prog' = [prog EXCEPT !["loop"] = Dispatch(fired)]
      BY <3>1
    <3>3. \A fd \in S : mask[fd] # {} /\ data[fd] = file[fd] /\ (backend = "evport" => pending'[fd] # {})
      BY <2>3, <2>5
    <3>5. PICK D \in Seq(Entries) : D = Dispatch(fired) /\ Away(D, {})'
      BY <2>4, <3>2, <3>3, FiredAreLive
    <3>7. Alone("loop", D)'
      <4>1. "loop" \in Threads
        BY DEF Threads
      <4>2. prog'["loop"] = D /\ \A u \in Threads \ {"loop"} : prog'[u] = <<>>
        BY <1>3, <3>2, <3>5, <4>1
      <4> QED BY <4>2 DEF Alone
    <3>8. Resting'
      BY <2>5, <3>5, <3>7, Zenon DEF Resting
    <3> QED BY <2>5, <3>8, Zenon DEF Phase
  <2>6. CASE /\ Reports(X) /\ backend # "evport"
             /\ UNCHANGED <<interest, pending, aborted>>
    <3>1. Still
      BY <2>1, <2>6 DEF Still, given
    <3>2. Sane' /\ Steady'
      BY <3>1, StillIs
    <3>3. \A fd \in X : mask[fd] # {}
      BY <2>3
    <3>4. X \in SUBSET Fds
      OBVIOUS
    <3> HIDE DEF X
    <3> QED BY <2>5, <2>6, <3>2, <3>3, <3>4
  <2>7. CASE \E fd \in Fds : pending[fd] # {} /\ file[fd] = NULL
    BY <2>3, <2>7
  <2>8. CASE /\ \E reported \in SUBSET Fds :
                  /\ \A fd \in reported : again[fd] # {}
                  /\ interest' = [fd \in Fds |-> IF fd \in reported THEN {} ELSE again[fd]]
                  /\ pending' = [fd \in Fds |-> IF fd \in reported THEN again[fd] ELSE {}]
                  /\ Reports(reported)
             /\ UNCHANGED aborted /\ backend = "evport"
    <3>1. PICK reported \in SUBSET Fds :
                  /\ \A fd \in reported : again[fd] # {}
                  /\ interest' = [fd \in Fds |-> IF fd \in reported THEN {} ELSE again[fd]]
                  /\ pending' = [fd \in Fds |-> IF fd \in reported THEN again[fd] ELSE {}]
                  /\ Reports(reported)
      BY <2>8
    <3>2. \A fd \in Fds : /\ interest'[fd] = IF fd \in reported THEN {} ELSE mask[fd]
                          /\ pending'[fd] = IF fd \in reported THEN mask[fd] ELSE {}
      BY <2>3, <3>1
    <3>3. \A fd \in reported : mask[fd] # {} /\ (backend = "evport" => pending'[fd] # {})
      BY <2>3, <3>1, <3>2
    <3>4. Sane'
      BY <2>4, <2>8 DEF Sane
    <3>5. \A fd \in Fds : Well(fd)'
      <4> SUFFICES ASSUME NEW fd \in Fds PROVE Well(fd)'
        OBVIOUS
      <4>1. Well(fd)
        BY <2>2
      <4> QED BY <2>4, <2>8, <3>2, <4>1 DEF Well, Seat, Sound
    <3>6. Steady'
      BY <2>4, <3>5 DEF Steady, AllWell, Homes, IsTop, Masked
    <3> QED BY <2>5, <3>1, <3>3, <3>4, <3>6
  <2> QED BY <2>1, <2>6, <2>7, <2>8
<1> QED BY <1>2, <1>4, <1>5

\* The rest of a poll, once its first entry is dispatched.
LEMMA RestOf ==
  ASSUME NEW D \in Seq(Entries), D # <<>>
  PROVE  /\ Head(D) \in Entries /\ Tail(D) \in Seq(Entries)
         /\ SubSeq(D, 2, Len(D)) = Tail(D)
         /\ 1 \in DOMAIN D /\ Head(D) = D[1]
         /\ \A i \in DOMAIN Tail(D) : i + 1 \in DOMAIN D /\ Tail(D)[i] = D[i + 1] /\ i \in Nat \ {0}
<1>1. /\ Head(D) \in Entries /\ Tail(D) \in Seq(Entries) /\ Len(Tail(D)) = Len(D) - 1
      /\ \A i \in 1 .. Len(Tail(D)) : Tail(D)[i] = D[i + 1]
  BY HeadTailProperties
<1>2. DOMAIN D = 1 .. Len(D) /\ Len(D) \in Nat /\ DOMAIN Tail(D) = 1 .. Len(Tail(D))
  BY <1>1, LenProperties
<1>3. Len(D) # 0
  BY EmptySeq
<1> QED BY <1>1, <1>2, <1>3, TailIsSubSeq

LEMMA RestIs ==
  ASSUME NEW D \in Seq(Entries), D # <<>>,
         Away(D, {}) \/ \E fd \in Fds : mask[fd] = {} /\ Spares(D, fd, {})
  PROVE  /\ Away(Tail(D), {})
         /\ backend # "kqueue" => mask[D[1].fd] = {} \/ Live(D[1])
         /\ Spares(Tail(D), D[1].fd, {})
         /\ D[1].op = "onwrite" => Away(Tail(D), {D[1].fd})
<1> DEFINE T == Tail(D)
<1>1. \A i \in DOMAIN T : i + 1 \in DOMAIN D /\ T[i] = D[i + 1] /\ i \in Nat \ {0}
  BY RestOf
<1>2. 1 \in DOMAIN D
  BY RestOf
<1> HIDE DEF T
<1>3. SUFFICES ASSUME backend # "kqueue"
               PROVE  /\ Apart(T)
                      /\ mask[D[1].fd] = {} \/ Live(D[1])
                      /\ \A i \in DOMAIN T :
                           /\ Live(T[i])
                           /\ T[i].fd # D[1].fd \/ (i = 1 /\ T[1].op = "onwrite" /\ D[1].op = "onread")
  BY DEF Away, Spares, T
<1>4. PICK g : /\ Apart(D)
               /\ \A i \in DOMAIN D : Live(D[i]) \/ (i = 1 /\ D[1].fd = g /\ mask[g] = {})
  BY <1>3 DEF Away, Spares
<1>5. Apart(T)
  <2> SUFFICES ASSUME NEW i \in DOMAIN T, NEW j \in DOMAIN T, i < j, T[i].fd = T[j].fd
               PROVE  j = i + 1 /\ T[i].op = "onread" /\ T[j].op = "onwrite"
    BY DEF Apart
  <2>1. i + 1 < j + 1 /\ i + 1 \in DOMAIN D /\ j + 1 \in DOMAIN D
    BY <1>1
  <2>2. j + 1 = i + 1 + 1 /\ D[i + 1].op = "onread" /\ D[j + 1].op = "onwrite"
    BY <1>1, <1>4, <2>1 DEF Apart
  <2> QED BY <1>1, <2>2
<1>6. ASSUME NEW i \in DOMAIN T
      PROVE  /\ Live(T[i])
             /\ T[i].fd # D[1].fd \/ (i = 1 /\ T[1].op = "onwrite" /\ D[1].op = "onread")
  <2>1. i + 1 # 1 /\ 1 < i + 1
    BY <1>1
  <2>2. Live(D[i + 1])
    BY <1>1, <1>4, <2>1
  <2>3. D[1].fd = D[i + 1].fd => i + 1 = 1 + 1 /\ D[1].op = "onread" /\ D[i + 1].op = "onwrite"
    BY <1>1, <1>2, <1>4, <2>1, Zenon DEF Apart
  <2> QED BY <1>1, <2>2, <2>3
<1> QED BY <1>2, <1>4, <1>5, <1>6

\* What a callback does when the entry is of the connection that is open.
LEMMA CallbackIs ==
  ASSUME Typed, Sane, Steady, NEW D \in Seq(Entries), D # <<>>, Alone("loop", D), NEW e, NEW ops,
         Callback(e, ops), backend # "kqueue" => mask[D[1].fd] = {} \/ Live(D[1])
  PROVE  /\ Still
         /\ \/ Alone("loop", Tail(D))'
            \/ /\ e \in mask[D[1].fd] /\ D[1].fd \in Fds
               /\ \E p \in ops : /\ prog'["loop"] = p \o Tail(D)
                                 /\ \A u \in Threads \ {"loop"} : prog'[u] = <<>>
<1> DEFINE fd == D[1].fd
           c == data[fd]
           called == e \in mask[fd] \cap D[1].evs
           own == c # NULL /\ c \notin deleted /\ file[fd] = c
<1>1. /\ prog["loop"] = D /\ \A u \in Threads \ {"loop"} : prog[u] = <<>>
      /\ This("loop") = D[1]
  BY RestOf DEF Alone, This
<1>2. fd \in Fds
  BY RestOf DEF Entries
<1>3. prog \in [Threads -> Seq(Ops)] /\ "loop" \in Threads
  BY DEF Typed, Threads
<1>4. /\ misuse' = (misuse \/ (called /\ c # NULL /\ ~own))
      /\ early' = (early \/ (called /\ c = NULL))
      /\ stale' = (stale \/ (called /\ c # D[1].conn))
      /\ IF called /\ own THEN \E p \in ops : Continue("loop", p) ELSE Skip("loop", 0)
      /\ UNCHANGED <<process, table, kernel, reg, failed, aborted>>
  BY <1>1 DEF Callback
<1>5. called => own /\ c # NULL
  <2>1. Well(fd)
    BY <1>2 DEF Steady, AllWell
  <2> QED BY <2>1 DEF Well, Seat, Sound
<1>6. called /\ backend # "kqueue" => c = D[1].conn
  BY DEF Live, Fresh
<1>7. e \in mask[fd] \/ ~called
  OBVIOUS
<1> HIDE DEF own, called
<1>8. ~misuse /\ ~early /\ misuse \in BOOLEAN /\ early \in BOOLEAN /\ stale \in BOOLEAN
  BY DEF Sane, Typed, Cells
<1>9. misuse' = misuse /\ early' = early
  BY <1>4, <1>5, <1>8
<1>10. backend # "kqueue" => stale' = stale
  BY <1>4, <1>6, <1>8
<1>11. Still
  BY <1>4, <1>9, <1>10 DEF Still, kernel
<1>12. CASE called
  <2>1. PICK p \in ops : prog' = [prog EXCEPT !["loop"] = p \o Tail(prog["loop"])]
    BY <1>4, <1>5, <1>12 DEF Continue
  <2>2. prog'["loop"] = p \o Tail(D) /\ \A u \in Threads \ {"loop"} : prog'[u] = <<>>
    BY <1>1, <1>3, <2>1
  <2> QED BY <1>2, <1>7, <1>11, <1>12, <2>2
<1>13. CASE ~called
  <2>1. prog' = [prog EXCEPT !["loop"] = SubSeq(prog["loop"], 0 + 2, Len(prog["loop"]))]
    BY <1>3, <1>4, <1>13 DEF Skip
  <2>2. SubSeq(D, 2, Len(D)) = Tail(D)
    BY RestOf
  <2>3. prog'["loop"] = Tail(D) /\ \A u \in Threads \ {"loop"} : prog'[u] = <<>>
    BY <1>1, <1>3, <2>1, <2>2
  <2> QED BY <1>11, <2>3 DEF Alone
<1> QED BY <1>12, <1>13

\* What a handler and the Close after it do.
LEMMA HandlerOps ==
  ASSUME NEW fd \in Fds, fd < SetSize, NEW c \in Conns, NEW T \in Seq(Entries), NEW n \in Nat,
         NEW r \in BOOLEAN
  PROVE  \E k \in 1 .. 2 :
           /\ From(CloseConnection(fd, c, FALSE), k, T) \in Seq(Ops)
           /\ (SendGetReqs(n) \o CloseConnection(fd, c, r)) \o T
                = SendGetReqs(n) \o From(CloseConnection(fd, c, FALSE), k, T)
<1> DEFINE s == CloseConnection(fd, c, FALSE)
           u == CloseConnection(fd, c, TRUE)
           g == SendGetReqs(n)
<1>1. T \in Seq(Ops)
  BY EntriesAreOps
<1>2. s \in Seq(Ops) /\ Len(s) = 6 /\ u \in Seq(Ops) /\ u = SubSeq(s, 2, 6)
  BY CloseOps
<1>3. g \in Seq(Ops)
  BY <1>1, GetReqs
<1> HIDE DEF s, u, g
<1>4. CASE r
  <2>1. u \o T = From(s, 2, T)
    BY <1>2 DEF From
  <2>2. 2 \in 1 .. Len(s) /\ 2 \in 1 .. 2
    BY <1>2
  <2>3. From(s, 2, T) \in Seq(Ops)
    BY <1>1, <1>2, <2>2, FromIs
  <2>4. (g \o u) \o T = g \o From(s, 2, T)
    <3>0. u \in Seq(Ops)
      BY <1>2
    <3>1. (g \o u) \o T = g \o (u \o T)
      BY <1>1, <1>3, <3>0, ConcatThrice, Zenon
    <3> QED BY <2>1, <3>1, Zenon
  <2>5. CloseConnection(fd, c, r) = u
    BY <1>4 DEF u
  <2> QED BY <2>2, <2>3, <2>4, <2>5, Zenon DEF s, g
<1>5. CASE ~r
  <2>1. s \o T = From(s, 1, T)
    BY <1>1, <1>2, FromEnds
  <2>2. 1 \in 1 .. Len(s) /\ 1 \in 1 .. 2
    BY <1>2
  <2>3. From(s, 1, T) \in Seq(Ops)
    BY <1>1, <1>2, <2>2, FromIs
  <2>4. (g \o s) \o T = g \o From(s, 1, T)
    <3>1. (g \o s) \o T = g \o (s \o T)
      BY <1>1, <1>2, <1>3, ConcatThrice, Zenon
    <3> QED BY <2>1, <3>1, Zenon
  <2>5. CloseConnection(fd, c, r) = s
    BY <1>5 DEF s
  <2> QED BY <2>2, <2>3, <2>4, <2>5, Zenon DEF s, g
<1> QED BY <1>4, <1>5

\* The callback of D[1] does p, the rest of the poll is T.
LEMMA HandlerStep ==
  ASSUME Typed', Sane, Steady, Still, NEW fd \in Fds, Owned(fd), NEW c \in Conns, c = file[fd],
         NEW T \in Seq(Entries), Spares(T, fd, {}), NEW n \in Nat, NEW r \in BOOLEAN,
         Alone("loop", (SendGetReqs(n) \o CloseConnection(fd, c, r)) \o T)'
  PROVE  Phase'
<1>1. Sane' /\ Steady' /\ Owned(fd)' /\ Spares(T, fd, {})'
  BY StillIs, Zenon
<1>2. c = file'[fd]
  BY DEF Still, process
<1>3. PICK k \in 1 .. 2 :
           /\ From(CloseConnection(fd, c, FALSE), k, T) \in Seq(Ops)
           /\ (SendGetReqs(n) \o CloseConnection(fd, c, r)) \o T
                = SendGetReqs(n) \o From(CloseConnection(fd, c, FALSE), k, T)
  <2>1. fd < SetSize
    BY DEF Owned, Steady, AllWell, Well, Seat, Sound
  <2> QED BY <2>1, HandlerOps
<1>4. PICK R : R = From(CloseConnection(fd, c, FALSE), k, T)
  OBVIOUS
<1>5. R \in Seq(Ops) /\ Alone("loop", SendGetReqs(n) \o R)'
  BY <1>3, <1>4 DEF Alone
<1>6. R = From(CloseConnection(fd, file'[fd], FALSE), k, T)
  BY <1>2, <1>4
<1>7. Follows("loop", R, {})'
  <2>1. fd \in Fds \ {}
    OBVIOUS
  <2> QED BY <1>1, <1>6, <2>1, Zenon DEF Follows
<1>8. "loop" \in Threads
  BY DEF Threads
<1> QED BY <1>1, <1>5, <1>7, <1>8, BetweenRequests

LEMMA RestingStep ==
  ASSUME ~overlapped', Typed, Sane, Resting, Next
  PROVE  Sane' /\ Phase'
<1>0. Typed'
  BY NextIsTyped
<1>1. PICK D \in Seq(Entries) :
        /\ Alone("loop", D) /\ Steady
        /\ Away(D, {}) \/ \E fd \in Fds : mask[fd] = {} /\ Spares(D, fd, {})
  BY DEF Resting
<1>2. CASE D = <<>>
  <2>1. \A t \in Threads : prog[t] = <<>>
    BY <1>1, <1>2, Zenon DEF Alone
  <2> QED BY <1>1, <2>1, IdleStep
<1>3. CASE D # <<>>
  <2> DEFINE fd == D[1].fd
  <2>1. "loop" \in Threads /\ Head(D) = D[1] /\ D[1] \in Entries
    BY <1>3, RestOf DEF Threads
  <2>2. fd \in Fds /\ D[1].op \in {"onread", "onwrite"}
    BY <2>1 DEF Entries
  <2>3. PICK T \in Seq(Entries) : T = Tail(D)
    BY <1>3, RestOf
  <2>4. /\ Away(T, {})
        /\ backend # "kqueue" => mask[fd] = {} \/ Live(D[1])
        /\ Spares(T, fd, {})
        /\ D[1].op = "onwrite" => Away(T, {fd})
    BY <1>1, <1>3, <2>3, RestIs
  <2>5. This("loop") = D[1] /\ \/ D[1].op = "onread" /\ OnRead
                               \/ D[1].op = "onwrite" /\ OnWrite
    <3>1. /\ This("loop") = Head(D)
          /\ \/ Head(D).op = "onread" /\ OnRead
             \/ Head(D).op = "onwrite" /\ OnWrite
             \/ Head(D).op \notin {"onread", "onwrite"}
      BY <1>1, <1>3, <2>1, OneOperation
    <3> QED BY <2>1, <2>2, <3>1
  <2>6. Well(fd)
    BY <1>1, <2>2 DEF Steady, AllWell
  <2>7. PICK c : c = data[fd]
    OBVIOUS
  <2>8. mask[fd] # {} => /\ c \in Conns /\ c = file[fd] /\ c \notin deleted
                         /\ (backend = "evport" => pending[fd] # {})
    <3>1. data[fd] \in Link
      BY <2>2 DEF Typed, Cells
    <3>2. mask[fd] # {} /\ backend = "evport" => pending[fd] # {}
      BY <2>4 DEF Live, Fresh
    <3> QED BY <2>6, <2>7, <3>1, <3>2 DEF Well, Seat, Sound, Link
  <2>9. ASSUME NEW e, NEW ops, Callback(e, ops)
        PROVE  /\ Still
               /\ \/ Alone("loop", T)'
                  \/ /\ e \in mask[fd]
                     /\ \E p \in ops : /\ prog'["loop"] = p \o T
                                       /\ \A u \in Threads \ {"loop"} : prog'[u] = <<>>
    BY <1>1, <1>3, <2>3, <2>4, <2>9, CallbackIs
  <2>10. ASSUME Still, Alone("loop", T)' PROVE Sane' /\ Phase'
    <3>1. Sane' /\ Steady' /\ Away(T, {})'
      BY <1>1, <2>4, <2>10, StillIs, Zenon
    <3>2. Resting'
      BY <2>10, <3>1, Zenon DEF Resting
    <3> QED BY <3>1, <3>2, Zenon DEF Phase
  <2>11. ASSUME Still PROVE Sane'
    BY <2>11, StillIs
  <2>12. <<>> \o T = T
    BY ConcatEmptySeq
  <2>13. ASSUME Still, mask[fd] # {}, NEW n \in Nat, NEW r \in BOOLEAN,
                Alone("loop", (SendGetReqs(n) \o CloseConnection(fd, c, r)) \o T)'
         PROVE  Phase'
    <3>1. Owned(fd)
      BY <2>8, <2>13 DEF Owned
    <3> HIDE DEF fd
    <3> QED BY <1>0, <1>1, <2>2, <2>4, <2>8, <2>13, <3>1, HandlerStep
  <2>14. ASSUME Still, mask[fd] # {}, Alone("loop", CloseConnection(fd, c, FALSE) \o T)' PROVE Phase'
    <3>1. CloseConnection(fd, c, FALSE) \in Seq(Ops) /\ 0 \in Nat
      BY <2>2, <2>8, <2>14, CloseTyped
    <3>2. SendGetReqs(0) \o CloseConnection(fd, c, FALSE) = CloseConnection(fd, c, FALSE)
      BY <3>1, GetReqs
    <3> QED BY <2>13, <2>14, <3>1, <3>2
  <2>15. ASSUME OnRead PROVE Sane' /\ Phase'
    <3>1. Callback("readable", ReadOps(fd, c))
      BY <2>5, <2>7, <2>15 DEF OnRead
    <3>2. Still
      BY <2>9, <3>1
    <3>3. CASE Alone("loop", T)'
      BY <2>10, <3>2, <3>3
    <3>4. ASSUME mask[fd] # {}, NEW p \in ReadOps(fd, c), prog'["loop"] = p \o T,
                 \A u \in Threads \ {"loop"} : prog'[u] = <<>>
          PROVE  Phase'
      <4>1. Alone("loop", p \o T)'
        BY <3>4 DEF Alone
      <4>2. \/ p = <<>> \/ p = CloseConnection(fd, c, FALSE)
            \/ \E n \in 0 .. MaxOpens, r \in BOOLEAN :
                 p = SendGetReqs(n) \o CloseConnection(fd, c, r)
        BY ReadOpsAre
      <4>3. CASE p = <<>>
        BY <2>10, <2>12, <3>2, <4>1, <4>3
      <4>4. CASE p = CloseConnection(fd, c, FALSE)
        BY <2>14, <3>2, <3>4, <4>1, <4>4
      <4>5. CASE \E n \in 0 .. MaxOpens, r \in BOOLEAN :
                   p = SendGetReqs(n) \o CloseConnection(fd, c, r)
        <5>1. PICK n \in 0 .. MaxOpens, r \in BOOLEAN :
                p = SendGetReqs(n) \o CloseConnection(fd, c, r)
          BY <4>5
        <5>2. n \in Nat
          BY ConstantsAssumption
        <5>3. Alone("loop", (SendGetReqs(n) \o CloseConnection(fd, c, r)) \o T)'
          BY <4>1, <5>1
        <5> QED BY <2>13, <3>2, <3>4, <5>2, <5>3
      <4> QED BY <4>2, <4>3, <4>4, <4>5
    <3> QED BY <2>9, <2>11, <3>1, <3>2, <3>3, <3>4
  <2>16. ASSUME OnWrite, D[1].op = "onwrite" PROVE Sane' /\ Phase'
    <3>1. Callback("writable", WriteOps(fd, c))
      BY <2>5, <2>7, <2>16 DEF OnWrite
    <3>2. Still
      BY <2>9, <3>1
    <3>3. CASE Alone("loop", T)'
      BY <2>10, <3>2, <3>3
    <3>4. ASSUME "writable" \in mask[fd], NEW p \in WriteOps(fd, c), prog'["loop"] = p \o T,
                 \A u \in Threads \ {"loop"} : prog'[u] = <<>>
          PROVE  Phase'
      <4>1. Alone("loop", p \o T)' /\ mask[fd] # {}
        BY <3>4 DEF Alone
      <4>2. \/ p = <<>> \/ p = CloseConnection(fd, c, FALSE)
            \/ p = DeleteFileEvent(fd, {"writable"}, c)
        BY DEF WriteOps
      <4>3. CASE p = <<>>
        BY <2>10, <2>12, <3>2, <4>1, <4>3
      <4>4. CASE p = CloseConnection(fd, c, FALSE)
        BY <2>14, <3>2, <4>1, <4>4
      <4>5. CASE p = DeleteFileEvent(fd, {"writable"}, c)
        <5>1. /\ fd < SetSize
              /\ mask[fd] = Events /\ c \in Conns /\ file[fd] = c /\ data[fd] = c /\ c \notin deleted
              /\ IF backend = "evport" THEN pending[fd] = Events /\ interest[fd] = {}
                                       ELSE pending[fd] = {} /\ interest[fd] = Events
          <6>1. mask[fd] \subseteq Events /\ "readable" \in mask[fd]
            BY <2>2, <2>6, <3>4 DEF Well, Sound, Typed, Cells
          <6>2. mask[fd] = Events
            BY <3>4, <6>1 DEF Events
          <6>3. fd < SetSize
            BY <2>6, <4>1 DEF Well, Seat, Sound
          <6> QED BY <2>6, <2>7, <2>8, <4>1, <6>2, <6>3 DEF Well, Sound
        <5>2. WritePoint(fd, c, 1)'
          <6>1. IsTop(maxfd, Masked)'
            BY <1>1, <3>2 DEF Steady, IsTop, Masked, Still, table
          <6> QED BY <3>2, <5>1, <6>1 DEF WritePoint, Still, process, table
        <5>3. Alone("loop", From(DeleteFileEvent(fd, {"writable"}, c), 1, T))'
          <6>1. T \in Seq(Ops) /\ {"writable"} \in SUBSET Events
            BY EntriesAreOps DEF Events
          <6>2. DeleteFileEvent(fd, {"writable"}, c) \in Seq(Ops)
            BY <2>2, <5>1, <6>1, DeleteTyped
          <6>3. From(DeleteFileEvent(fd, {"writable"}, c), 1, T) = p \o T
            BY <4>5, <6>1, <6>2, FromEnds
          <6> QED BY <4>1, <6>3
        <5>4. AllWell({fd})' /\ Homes({})' /\ Away(T, {fd})'
          <6>1. Steady' /\ Away(T, {fd})'
            BY <1>1, <2>4, <2>16, <3>2, StillIs, Zenon
          <6> QED BY <6>1 DEF Steady, AllWell
        <5>5. Writing(fd, c, 1, T)' /\ 1 \in 1 .. 4
          BY <5>2, <5>3, <5>4 DEF Writing
        <5> HIDE DEF fd
        <5> QED BY <2>2, <5>1, <5>5, Zenon DEF Phase
      <4> QED BY <4>2, <4>3, <4>4, <4>5
    <3> QED BY <2>9, <2>11, <3>1, <3>2, <3>3, <3>4
  <2> QED BY <2>5, <2>15, <2>16
<1> QED BY <1>2, <1>3

LEMMA InvInit == Init => IInv
<1> SUFFICES ASSUME Init PROVE IInv
  OBVIOUS
<1>1. Typed
  BY TypedInit
<1>2. /\ \A fd \in Fds : /\ file[fd] = NULL /\ interest[fd] = {} /\ pending[fd] = {}
                         /\ mask[fd] = {} /\ data[fd] = NULL
      /\ maxfd = -1 /\ opened = 0 /\ deleted = {}
      /\ ~misuse /\ ~early /\ ~stale /\ ~failed /\ ~aborted /\ ~overlapped
      /\ \A t \in Threads : prog[t] = <<>>
  BY DEF Init
<1>3. Sane
  BY <1>2 DEF Sane
<1>4. Steady
  <2>1. Masked = {}
    BY <1>2 DEF Masked
  <2>2. IsTop(maxfd, Masked)
    BY <1>2, <2>1 DEF IsTop
  <2>3. ASSUME NEW fd \in Fds PROVE Well(fd)
    <3>1. Seat(fd, file[fd]) = NULL
      BY <1>2 DEF Seat
    <3> QED BY <1>2, <3>1 DEF Well, Sound
  <2>4. 1 .. opened = {}
    BY <1>2
  <2> QED BY <2>2, <2>3, <2>4 DEF Steady, AllWell, Homes
<1>5. Alone("loop", <<>>)
  BY <1>2 DEF Alone, Threads
<1>6. <<>> \in Seq(Entries) /\ Away(<<>>, {})
  BY EmptySeq DEF Away, Apart
<1>7. Resting
  BY <1>4, <1>5, <1>6, Zenon DEF Resting
<1>8. overlapped \in BOOLEAN
  BY DEF Init
<1> QED BY <1>1, <1>3, <1>7, <1>8, Zenon DEF IInv, Phase

\* A step after which the threads have not overlapped.
LEMMA PhaseStep ==
  ASSUME ~overlapped', Typed, Sane, Phase, [Next]_vars
  PROVE  Sane' /\ Phase'
<1>1. Typed /\ Sane /\ Phase
  OBVIOUS
<1>3. CASE Next
  <2>1. ASSUME Resting PROVE Sane' /\ Phase'
    BY <1>1, <1>3, <2>1, RestingStep
  <2>2. ASSUME NEW t \in Threads, NEW n \in Nat \ {0}, NEW R \in Seq(Ops), Requesting(t, n, R)
        PROVE  Sane' /\ Phase'
    BY <1>1, <1>3, <2>2, RequestingStep
  <2>3. ASSUME NEW t \in Threads, NEW fd \in Fds, NEW c \in Conns, NEW k \in 1 .. 10, NEW n \in Nat,
               NEW R \in Seq(Ops), Adding(t, fd, c, k, n, R)
        PROVE  Sane' /\ Phase'
    BY <1>1, <1>3, <2>3, AddingStep
  <2>4. ASSUME NEW fd \in Fds, NEW c \in Conns, NEW k \in 1 .. 6, NEW D \in Seq(Entries),
               Closing(fd, c, k, D)
        PROVE  Sane' /\ Phase'
    BY <1>1, <1>3, <2>4, ClosingStep
  <2>5. ASSUME NEW fd \in Fds, NEW c \in Conns, NEW k \in 1 .. 4, NEW D \in Seq(Entries),
               Writing(fd, c, k, D)
        PROVE  Sane' /\ Phase'
    BY <1>1, <1>3, <2>5, WritingStep
  <2> QED BY <1>1, <2>1, <2>2, <2>3, <2>4, <2>5, Zenon DEF Phase
<1>4. CASE UNCHANGED vars
  <2>1. /\ UNCHANGED <<file, opened, deleted, mask, data, maxfd, backend, interest, pending, reg, prog>>
        /\ Still
    BY <1>4 DEF vars, kernel, process, table, Still, faults, given
  <2>2. Sane'
    BY <1>1, <2>1, StillIs
  <2>3. \A t, p : Alone(t, p) => Alone(t, p)'
    BY <2>1 DEF Alone
  <2>4. \A X : (AllWell(X) => AllWell(X)') /\ (Homes(X) => Homes(X)')
    BY <2>1 DEF AllWell, Well, Seat, Homes
  <2>5. /\ Steady => Steady'
        /\ \A D, X : Away(D, X) => Away(D, X)'
        /\ \A D, fd, X : Spares(D, fd, X) => Spares(D, fd, X)'
    BY <2>1, StillIs
  <2>6. ASSUME NEW t, NEW R, NEW X, Follows(t, R, X) PROVE Follows(t, R, X)'
    BY <2>1, <2>6, FollowsKept
  <2>7. Masked' = Masked
    BY <2>1 DEF Masked
  <2>8. ASSUME Resting PROVE Phase'
    <3>1. PICK D \in Seq(Entries) :
            /\ Alone("loop", D) /\ Steady
            /\ Away(D, {}) \/ \E fd \in Fds : mask[fd] = {} /\ Spares(D, fd, {})
      BY <2>8 DEF Resting
    <3>2. Away(D, {})' \/ \E fd \in Fds : mask'[fd] = {} /\ Spares(D, fd, {})'
      BY <2>1, <2>5, <3>1
    <3>3. Resting'
      BY <2>3, <2>5, <3>1, <3>2, Zenon DEF Resting
    <3> QED BY <3>3, Zenon DEF Phase
  <2>9. ASSUME NEW t \in Threads, NEW n \in Nat \ {0}, NEW R \in Seq(Ops), Requesting(t, n, R)
        PROVE  Phase'
    <3>1. Requesting(t, n, R)'
      BY <2>3, <2>5, <2>6, <2>9, Zenon DEF Requesting
    <3> QED BY <3>1, Zenon DEF Phase
  <2>10. ASSUME NEW t \in Threads, NEW fd \in Fds, NEW c \in Conns, NEW k \in 1 .. 10, NEW n \in Nat,
                NEW R \in Seq(Ops), Adding(t, fd, c, k, n, R)
         PROVE  Phase'
    <3>1. AddPoint(t, fd, c, k)'
      BY <2>1, <2>7, <2>10 DEF Adding, AddPoint, IsTop
    <3>2. Adding(t, fd, c, k, n, R)'
      BY <2>3, <2>4, <2>6, <2>10, <3>1, Zenon DEF Adding
    <3> QED BY <3>2, Zenon DEF Phase
  <2>11. ASSUME NEW fd \in Fds, NEW c \in Conns, NEW k \in 1 .. 6, NEW D \in Seq(Entries),
                Closing(fd, c, k, D)
         PROVE  Phase'
    <3>1. ClosePoint(fd, c, k)'
      BY <2>1, <2>7, <2>11 DEF Closing, ClosePoint, IsTop
    <3>2. Closing(fd, c, k, D)'
      BY <2>3, <2>4, <2>5, <2>11, <3>1, Zenon DEF Closing
    <3> QED BY <3>2, Zenon DEF Phase
  <2>12. ASSUME NEW fd \in Fds, NEW c \in Conns, NEW k \in 1 .. 4, NEW D \in Seq(Entries),
                Writing(fd, c, k, D)
         PROVE  Phase'
    <3>1. WritePoint(fd, c, k)'
      BY <2>1, <2>7, <2>12 DEF Writing, WritePoint, IsTop
    <3>2. Writing(fd, c, k, D)'
      BY <2>3, <2>4, <2>5, <2>12, <3>1, Zenon DEF Writing
    <3> QED BY <3>2, Zenon DEF Phase
  <2>13. Phase'
    BY <1>1, <2>8, <2>9, <2>10, <2>11, <2>12, Zenon DEF Phase
  <2> QED BY <2>2, <2>13
<1> QED BY <1>3, <1>4

LEMMA InvStep == IInv /\ [Next]_vars => IInv'
<1> SUFFICES ASSUME IInv, [Next]_vars PROVE IInv'
  OBVIOUS
<1>1. Typed /\ overlapped \in BOOLEAN /\ (~overlapped => Sane /\ Phase)
  BY DEF IInv
<1>2. Typed'
  BY <1>1, TypedStep
<1>3. overlapped' \in BOOLEAN /\ (overlapped => overlapped')
  BY <1>1, OverlapStays
<1>4. ASSUME ~overlapped' PROVE Sane' /\ Phase'
  <2>1. Sane /\ Phase
    BY <1>1, <1>3, <1>4
  <2> QED BY <1>1, <1>4, <2>1, PhaseStep
<1> QED BY <1>2, <1>3, <1>4 DEF IInv

\* With every thread done, nothing is under way.
LEMMA DoneIsResting ==
  ASSUME Typed, Phase, \A t \in Threads : prog[t] = <<>>
  PROVE  Steady
<1>1. \A t \in Threads : \A p : Alone(t, p) => p = <<>>
  BY Zenon DEF Alone
<1>2. "loop" \in Threads
  BY DEF Threads
<1>3. ASSUME NEW t \in Threads, NEW n \in Nat \ {0}, NEW R \in Seq(Ops), Requesting(t, n, R)
      PROVE  FALSE
  <2>1. SendGetReqs(n) \o R # <<>>
    BY GetReqs
  <2> QED BY <1>1, <1>3, <2>1, Zenon DEF Requesting
<1>4. ASSUME NEW t \in Threads, NEW fd \in Fds, NEW c \in Conns, NEW k \in 1 .. 10, NEW n \in Nat,
             NEW R \in Seq(Ops), Adding(t, fd, c, k, n, R)
      PROVE  FALSE
  <2>0. fd < SetSize
    BY <1>4 DEF Adding, AddPoint
  <2>1. /\ AddIoEvents(fd, c) \in Seq(Ops) /\ Len(AddIoEvents(fd, c)) = 10
        /\ SendGetReqs(n) \o R \in Seq(Ops)
    BY <2>0, AddOps, GetReqs
  <2>2. k \in 1 .. Len(AddIoEvents(fd, c))
    BY <2>1
  <2>3. From(AddIoEvents(fd, c), k, SendGetReqs(n) \o R) # <<>>
    BY <2>1, <2>2, FromIs
  <2> QED BY <1>1, <1>4, <2>3, Zenon DEF Adding
<1>5. ASSUME NEW fd \in Fds, NEW c \in Conns, NEW k \in 1 .. 6, NEW D \in Seq(Entries),
             Closing(fd, c, k, D)
      PROVE  FALSE
  <2>0. fd < SetSize
    BY <1>5 DEF Closing, ClosePoint
  <2>1. /\ CloseConnection(fd, c, FALSE) \in Seq(Ops) /\ Len(CloseConnection(fd, c, FALSE)) = 6
        /\ D \in Seq(Ops)
    BY <2>0, CloseOps, EntriesAreOps
  <2>2. k \in 1 .. Len(CloseConnection(fd, c, FALSE))
    BY <2>1
  <2>3. From(CloseConnection(fd, c, FALSE), k, D) # <<>>
    BY <2>1, <2>2, FromIs
  <2> QED BY <1>1, <1>2, <1>5, <2>3, Zenon DEF Closing
<1>6. ASSUME NEW fd \in Fds, NEW c \in Conns, NEW k \in 1 .. 4, NEW D \in Seq(Entries),
             Writing(fd, c, k, D)
      PROVE  FALSE
  <2>1. {"writable"} \in SUBSET Events /\ fd < SetSize
    BY <1>6 DEF Events, Writing, WritePoint
  <2>2. /\ DeleteFileEvent(fd, {"writable"}, c) \in Seq(Ops)
        /\ Len(DeleteFileEvent(fd, {"writable"}, c)) = 4 /\ D \in Seq(Ops)
    BY <2>1, DeleteOps, EntriesAreOps
  <2>3. k \in 1 .. Len(DeleteFileEvent(fd, {"writable"}, c))
    BY <2>2
  <2>4. From(DeleteFileEvent(fd, {"writable"}, c), k, D) # <<>>
    BY <2>2, <2>3, FromIs
  <2> QED BY <1>1, <1>2, <1>6, <2>4, Zenon DEF Writing
<1>7. Resting
  BY <1>3, <1>4, <1>5, <1>6, Zenon DEF Phase
<1> QED BY <1>7, Zenon DEF Resting

LEMMA WatchedThen ==
  ASSUME IInv
  PROVE  Watched
<1>1. Typed /\ overlapped \in BOOLEAN /\ (~overlapped => Sane /\ Phase)
  BY DEF IInv
<1>2. TypeOK
  BY <1>1, TypedIsTypeOK
<1>3. SUFFICES ASSUME \A t \in Threads : prog[t] = <<>>, ~overlapped
               PROVE  /\ \A fd \in Fds : interest[fd] \cup pending[fd] = mask[fd]
                      /\ maxfd = Max({-1} \cup Masked)
                      /\ \A c \in (1 .. opened) \ deleted :
                           \E fd \in Fds :
                             /\ file[fd] = c
                             /\ fd < SetSize => data[fd] = c /\ "readable" \in mask[fd]
                      /\ \A fd \in Fds : mask[fd] # {} => fd < SetSize /\ data[fd] \notin deleted
  BY <1>2 DEF Watched, Masked
<1>4. Steady
  BY <1>1, <1>3, DoneIsResting
<1>5. \A fd \in Fds : Well(fd)
  BY <1>4 DEF Steady, AllWell
<1>6. \A fd \in Fds : interest[fd] \cup pending[fd] = mask[fd]
  BY <1>5 DEF Well, Sound
<1>7. \A fd \in Fds : mask[fd] # {} => fd < SetSize /\ data[fd] \notin deleted
  BY <1>5 DEF Well, Seat, Sound
<1>8. ASSUME NEW c \in (1 .. opened) \ deleted
      PROVE  \E fd \in Fds :
               /\ file[fd] = c
               /\ fd < SetSize => data[fd] = c /\ "readable" \in mask[fd]
  <2>1. c \in Conns
    BY <1>1, ConstantsAssumption DEF Typed, Cells, Conns
  <2>2. PICK fd \in Fds : file[fd] = c
    BY <1>4 DEF Steady, Homes
  <2>3. c # NULL
    BY <2>1, ConstantsAssumption
  <2>4. Well(fd)
    BY <1>5
  <2>5. fd < SetSize => data[fd] = c /\ "readable" \in mask[fd]
    BY <2>2, <2>3, <2>4 DEF Well, Seat, Sound
  <2> QED BY <2>2, <2>5
<1>9. maxfd = Max({-1} \cup Masked)
  <2>1. Masked \subseteq Fds /\ IsTop(maxfd, Masked)
    BY <1>4 DEF Steady, Masked
  <2> HIDE DEF Masked
  <2> QED BY <2>1, MaxIsTop
<1> QED BY <1>6, <1>7, <1>8, <1>9
-----------------------------------------------------------------------------
(* What holds until a thread goes on while the other is in the middle of its operations *)

\* Between callbacks the kernel, or for event ports the kernel and the pending list,
\* watches what the masks say (ae.c:105-141), no connection whose descriptor has an
\* entry in the table is forgotten and none outlives Close (http_client.cpp:283-300),
\* and maxfd is the highest descriptor with a mask: with each backend, however many
\* descriptors and connections, whatever the size of the table.  A connection beyond
\* the table is refused (ae.c:108-111): it stays open, and nobody waits for its answer.
THEOREM KernelWatchesTheMasks == Spec => []Watched
<1>1. IInv => Watched
  BY WatchedThen
<1> QED BY InvInit, InvStep, <1>1, PTL DEF Spec

\* The kernel takes every ADD, MOD and DEL that aeApiAddEvent and aeApiDelEvent ask
\* for (ae_epoll.c:66-101), and ae_evport.c never aborts (lines 216, 286), although
\* Close takes the descriptor from the kernel before it takes its events from the table.
THEOREM KernelNeverRefuses == Spec => []NothingRefused
<1>1. IInv => NothingRefused
  BY DEF IInv, Sane, NothingRefused
<1> QED BY InvInit, InvStep, <1>1, PTL DEF Spec

\* A callback is given the connection that is open on its descriptor (ae.c:377-386),
\* though callbacks before it in the same round close connections and open others on
\* their descriptors.  The event is of that connection too with every backend but
\* kqueue, where it may be of the connection that had the descriptor before.
THEOREM EventsAreOwn == Spec => []EventIsOwn
<1>1. IInv => EventIsOwn
  BY DEF IInv, Sane, EventIsOwn, EventStillValid
<1> QED BY InvInit, InvStep, <1>1, PTL DEF Spec
=============================================================================

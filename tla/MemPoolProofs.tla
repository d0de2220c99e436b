---------------------------- MODULE MemPoolProofs ---------------------------
(***************************************************************************)
(* Theorems about the buffer pool, for every value of the constants.         *)
(*                                                                           *)
(* The first part is about lists of blocks: free lists, and what a connection  *)
(* owns.  The second is types and the limit, the third the inductive invariant *)
(* and its preservation.                                                      *)
(***************************************************************************)
EXTENDS MemPool, FiniteSetTheorems, SequenceTheorems, TLAPS

(* The free lists *)

FreeIn(p) == UNION {ToSet(p[k]) : k \in Classes}

OnceEach(p) == \A k \in Classes : IsInjective(p[k])

\* List k of p has lost its head in q, or has got b at its end.
Popped(D, p, q, k) ==
  /\ p \in [Classes -> Seq(D)] /\ q \in [Classes -> Seq(D)]
  /\ p[k] # <<>> /\ q[k] = Tail(p[k])
  /\ \A j \in Classes : j # k => q[j] = p[j]

Pushed(D, p, q, k, b) ==
  /\ p \in [Classes -> Seq(D)] /\ q \in [Classes -> Seq(D)]
  /\ b \in D /\ q[k] = Append(p[k], b)
  /\ \A j \in Classes : j # k => q[j] = p[j]

OwnSize(p, sizes) ==
  \A k \in Classes : \A i \in 1 .. Len(p[k]) : sizes[p[k][i]] = k

LEMMA InFreeList ==
  ASSUME NEW D, NEW p \in [Classes -> Seq(D)]
  PROVE  \A b : b \in FreeIn(p) <=>
                  \E k \in Classes : \E i \in 1 .. Len(p[k]) : p[k][i] = b
<1>1. \A k \in Classes : DOMAIN p[k] = 1 .. Len(p[k])
  BY LenProperties
<1> QED BY <1>1 DEF FreeIn, ToSet

LEMMA ListPopped ==
  ASSUME NEW D, NEW p, NEW q, NEW k \in Classes, Popped(D, p, q, k),
         NEW sizes, OwnSize(p, sizes), OnceEach(p)
  PROVE  /\ Head(p[k]) \in FreeIn(p) /\ sizes[Head(p[k])] = k
         /\ OwnSize(q, sizes)
         /\ OnceEach(q)
         /\ FreeIn(q) = FreeIn(p) \ {Head(p[k])}
<1> DEFINE h == Head(p[k])
<1>0. p \in [Classes -> Seq(D)] /\ p[k] # <<>>
  BY DEF Popped
<1>1. /\ p[k] \in Seq(D) /\ Len(p[k]) \in Nat \ {0}
      /\ h = p[k][1]
      /\ Tail(p[k]) \in Seq(D) /\ Len(Tail(p[k])) = Len(p[k]) - 1
      /\ \A i \in 1 .. Len(Tail(p[k])) : Tail(p[k])[i] = p[k][i + 1]
  BY <1>0, HeadTailProperties, EmptySeq
<1>2. q \in [Classes -> Seq(D)] /\ q[k] = Tail(p[k])
      /\ \A j \in Classes : j # k => q[j] = p[j]
  BY DEF Popped
<1>3. \A j \in Classes : DOMAIN p[j] = 1 .. Len(p[j]) /\ DOMAIN q[j] = 1 .. Len(q[j])
  BY <1>0, <1>2, LenProperties
<1> HIDE DEF h
<1>4. h \in FreeIn(p) /\ sizes[h] = k
  BY <1>1, <1>0, InFreeList DEF OwnSize
<1>5. OwnSize(q, sizes)
  <2> SUFFICES ASSUME NEW j \in Classes, NEW i \in 1 .. Len(q[j])
               PROVE  sizes[q[j][i]] = j
    BY DEF OwnSize
  <2>1. CASE j = k
    <3>1. i \in 1 .. Len(Tail(p[k])) /\ q[j][i] = Tail(p[k])[i]
      BY <1>2, <2>1
    <3>2. i + 1 \in 1 .. Len(p[k]) /\ q[j][i] = p[k][i + 1]
      BY <1>1, <3>1
    <3> QED BY <2>1, <3>2 DEF OwnSize
  <2>2. CASE j # k
    BY <1>2, <2>2 DEF OwnSize
  <2> QED BY <2>1, <2>2
<1>6. OnceEach(q)
  <2> SUFFICES ASSUME NEW j \in Classes, NEW a \in DOMAIN q[j], NEW b \in DOMAIN q[j],
                      q[j][a] = q[j][b]
               PROVE  a = b
    BY DEF IsInjective, OnceEach
  <2>1. CASE j = k
    <3>1. /\ a \in 1 .. Len(Tail(p[k])) /\ b \in 1 .. Len(Tail(p[k]))
          /\ Tail(p[k])[a] = Tail(p[k])[b]
      BY <1>2, <1>3, <2>1
    <3>2. /\ a \in Int /\ b \in Int
          /\ a + 1 \in 1 .. Len(p[k]) /\ b + 1 \in 1 .. Len(p[k])
          /\ p[k][a + 1] = p[k][b + 1]
      BY <1>1, <3>1
    <3>3. a + 1 = b + 1
      BY <1>3, <3>2 DEF IsInjective, OnceEach
    <3> QED BY <3>2, <3>3
  <2>2. CASE j # k
    BY <1>2, <2>2 DEF IsInjective, OnceEach
  <2> QED BY <2>1, <2>2
<1>7. \A b : b \in FreeIn(q) <=> b \in FreeIn(p) /\ b # h
  <2> TAKE b
  <2>1. ASSUME b \in FreeIn(q) PROVE b \in FreeIn(p) /\ b # h
    <3>1. PICK j \in Classes : \E i \in 1 .. Len(q[j]) : q[j][i] = b
      BY <1>2, <2>1, <1>0, InFreeList
    <3>2. PICK i \in 1 .. Len(q[j]) : q[j][i] = b
      BY <3>1
    <3>3. CASE j = k
      <4>0. i \in 1 .. Len(Tail(p[k])) /\ Tail(p[k])[i] = b
        BY <1>2, <3>2, <3>3
      <4>1. /\ i + 1 \in 1 .. Len(p[k]) /\ p[k][i + 1] = b
            /\ i + 1 # 1 /\ 1 \in 1 .. Len(p[k])
        BY <1>1, <4>0
      <4>2. b # h
        BY <1>1, <1>3, <4>1 DEF IsInjective, OnceEach
      <4> QED BY <4>1, <4>2, <1>0, InFreeList
    <3>4. CASE j # k
      <4>1. i \in 1 .. Len(p[j]) /\ p[j][i] = b
        BY <1>2, <3>2, <3>4
      <4>2. sizes[b] = j
        BY <4>1 DEF OwnSize
      <4> QED BY <1>4, <3>4, <4>1, <4>2, <1>0, InFreeList
    <3> QED BY <3>3, <3>4
  <2>2. ASSUME b \in FreeIn(p), b # h PROVE b \in FreeIn(q)
    <3>1. PICK j \in Classes : \E i \in 1 .. Len(p[j]) : p[j][i] = b
      BY <2>2, <1>0, InFreeList
    <3>2. PICK i \in 1 .. Len(p[j]) : p[j][i] = b
      BY <3>1
    <3>3. CASE j = k
      <4>1. i # 1
        BY <1>1, <2>2, <3>2, <3>3
      <4>2. i - 1 \in 1 .. Len(q[k]) /\ q[k][i - 1] = p[k][i - 1 + 1]
        BY <1>1, <1>2, <3>2, <3>3, <4>1
      <4>3. q[k][i - 1] = b
        BY <3>2, <3>3, <4>2
      <4> QED BY <1>2, <4>2, <4>3, <1>0, InFreeList
    <3>4. CASE j # k
      BY <1>2, <3>2, <3>4, <1>0, InFreeList
    <3> QED BY <3>3, <3>4
  <2> QED BY <2>1, <2>2
<1>8. FreeIn(q) = FreeIn(p) \ {h}
  BY <1>7
<1> QED BY <1>2, <1>4, <1>5, <1>6, <1>8 DEF h

LEMMA ListPushed ==
  ASSUME NEW D, NEW p, NEW q, NEW k \in Classes, NEW b, Pushed(D, p, q, k, b),
         NEW sizes, OwnSize(p, sizes), sizes[b] = k
  PROVE  /\ OwnSize(q, sizes)
         /\ FreeIn(q) = FreeIn(p) \cup {b}
         /\ b \notin FreeIn(p) /\ OnceEach(p) => OnceEach(q)
<1>0. p \in [Classes -> Seq(D)] /\ b \in D
  BY DEF Pushed
<1>1. /\ p[k] \in Seq(D) /\ Len(p[k]) \in Nat
      /\ Append(p[k], b) \in Seq(D) /\ Len(Append(p[k], b)) = Len(p[k]) + 1
      /\ \A i \in 1 .. Len(p[k]) : Append(p[k], b)[i] = p[k][i]
      /\ Append(p[k], b)[Len(p[k]) + 1] = b
  BY <1>0, AppendProperties, LenProperties
<1>2. q \in [Classes -> Seq(D)] /\ q[k] = Append(p[k], b)
      /\ \A j \in Classes : j # k => q[j] = p[j]
  BY DEF Pushed
<1>3. \A j \in Classes : DOMAIN p[j] = 1 .. Len(p[j]) /\ DOMAIN q[j] = 1 .. Len(q[j])
  BY <1>0, <1>2, LenProperties
<1>4. \A i \in 1 .. Len(q[k]) : \/ i \in 1 .. Len(p[k]) /\ q[k][i] = p[k][i]
                                \/ i = Len(p[k]) + 1 /\ q[k][i] = b
  BY <1>1, <1>2
<1>5. OwnSize(q, sizes)
  <2> SUFFICES ASSUME NEW j \in Classes, NEW i \in 1 .. Len(q[j])
               PROVE  sizes[q[j][i]] = j
    BY DEF OwnSize
  <2>1. CASE j = k
    BY <1>4, <2>1 DEF OwnSize
  <2>2. CASE j # k
    BY <1>2, <2>2 DEF OwnSize
  <2> QED BY <2>1, <2>2
<1>6. \A x : x \in FreeIn(q) <=> x \in FreeIn(p) \/ x = b
  <2> TAKE x
  <2>1. ASSUME x \in FreeIn(q) PROVE x \in FreeIn(p) \/ x = b
    <3>1. PICK j \in Classes : \E i \in 1 .. Len(q[j]) : q[j][i] = x
      BY <1>2, <2>1, <1>0, InFreeList
    <3>2. CASE j = k
      BY <1>4, <3>1, <3>2, <1>0, InFreeList
    <3>3. CASE j # k
      BY <1>2, <3>1, <3>3, <1>0, InFreeList
    <3> QED BY <3>2, <3>3
  <2>2. ASSUME x \in FreeIn(p) PROVE x \in FreeIn(q)
    <3>1. PICK j \in Classes : \E i \in 1 .. Len(p[j]) : p[j][i] = x
      BY <2>2, <1>0, InFreeList
    <3>2. CASE j = k
      <4>1. PICK i \in 1 .. Len(p[k]) : p[k][i] = x
        BY <3>1, <3>2
      <4>2. i \in 1 .. Len(q[k]) /\ q[k][i] = x
        BY <1>1, <1>2, <4>1
      <4> QED BY <1>2, <4>2, <1>0, InFreeList
    <3>3. CASE j # k
      BY <1>2, <3>1, <3>3, <1>0, InFreeList
    <3> QED BY <3>2, <3>3
  <2>3. b \in FreeIn(q)
    <3>1. Len(p[k]) + 1 \in 1 .. Len(q[k]) /\ q[k][Len(p[k]) + 1] = b
      BY <1>1, <1>2
    <3> QED BY <1>2, <3>1, <1>0, InFreeList
  <2> QED BY <2>1, <2>2, <2>3
<1>7. ASSUME b \notin FreeIn(p), OnceEach(p) PROVE OnceEach(q)
  <2> SUFFICES ASSUME NEW j \in Classes, NEW x \in DOMAIN q[j], NEW y \in DOMAIN q[j],
                      q[j][x] = q[j][y]
               PROVE  x = y
    BY DEF IsInjective, OnceEach
  <2>1. CASE j = k
    <3>1. \A i \in 1 .. Len(p[k]) : p[k][i] # b
      BY <1>7, <1>0, InFreeList
    <3>2. \A i, m \in 1 .. Len(p[k]) : p[k][i] = p[k][m] => i = m
      BY <1>3, <1>7 DEF IsInjective, OnceEach
    <3> QED BY <1>3, <1>4, <2>1, <3>1, <3>2
  <2>2. CASE j # k
    BY <1>2, <1>7, <2>2 DEF IsInjective, OnceEach
  <2> QED BY <2>1, <2>2
<1> QED BY <1>2, <1>5, <1>6, <1>7
-----------------------------------------------------------------------------
(* What a connection owns *)

\* A list with b at its end.
LEMMA ListGrows ==
  ASSUME NEW D, NEW s \in Seq(D), NEW b \in D
  PROVE  /\ Append(s, b) \in Seq(D) /\ Len(Append(s, b)) = Len(s) + 1 /\ Len(s) \in Nat
         /\ \A i \in 1 .. Len(s) : Append(s, b)[i] = s[i]
         /\ Append(s, b)[Len(s) + 1] = b /\ Append(s, b) # <<>>
         /\ ToSet(Append(s, b)) = ToSet(s) \cup {b}
         /\ IsInjective(s) /\ b \notin ToSet(s) => IsInjective(Append(s, b))
<1>1. /\ Append(s, b) \in Seq(D) /\ Len(Append(s, b)) = Len(s) + 1 /\ Len(s) \in Nat
      /\ \A i \in 1 .. Len(s) : Append(s, b)[i] = s[i]
      /\ Append(s, b)[Len(s) + 1] = b
  BY AppendProperties, LenProperties
<1>2. PICK t : t = Append(s, b)
  OBVIOUS
<1>3. DOMAIN s = 1 .. Len(s) /\ DOMAIN t = 1 .. (Len(s) + 1)
  BY <1>1, <1>2, LenProperties
<1>4. \A i \in 1 .. (Len(s) + 1) :
        \/ i \in 1 .. Len(s) /\ t[i] = s[i]
        \/ i = Len(s) + 1 /\ t[i] = b
  BY <1>1, <1>2
<1>5. \A x : x \in ToSet(t) <=> x \in ToSet(s) \/ x = b
  <2>1. \A x : x \in ToSet(s) <=> \E i \in 1 .. Len(s) : s[i] = x
    BY <1>3 DEF ToSet
  <2>2. \A x : x \in ToSet(t) <=> \E i \in 1 .. (Len(s) + 1) : t[i] = x
    BY <1>3 DEF ToSet
  <2>3. Len(s) + 1 \in 1 .. (Len(s) + 1) /\ t[Len(s) + 1] = b
        /\ \A i \in 1 .. Len(s) : i \in 1 .. (Len(s) + 1) /\ t[i] = s[i]
    BY <1>1, <1>2
  <2> QED BY <1>4, <2>1, <2>2, <2>3
<1>6. ASSUME IsInjective(s), b \notin ToSet(s) PROVE IsInjective(t)
  <2>1. \A i \in 1 .. Len(s) : s[i] # b
    BY <1>3, <1>6 DEF ToSet
  <2>2. \A i, m \in 1 .. Len(s) : s[i] = s[m] => i = m
    BY <1>3, <1>6 DEF IsInjective
  <2>3. \A i, m \in 1 .. (Len(s) + 1) : t[i] = t[m] => i = m
    BY <1>4, <2>1, <2>2
  <2> QED BY <1>3, <2>3 DEF IsInjective
<1>7. t # <<>>
  BY <1>1, <1>2, EmptySeq
<1> QED BY <1>1, <1>2, <1>5, <1>6, <1>7

\* A list without its head.
LEMMA ListShrinks ==
  ASSUME NEW D, NEW s \in Seq(D), s # <<>>
  PROVE  /\ Tail(s) \in Seq(D) /\ Len(s) \in Nat \ {0} /\ Len(Tail(s)) = Len(s) - 1
         /\ \A i \in 1 .. (Len(s) - 1) : Tail(s)[i] = s[i + 1]
         /\ s[1] \in D /\ s[1] \in ToSet(s)
         /\ IsInjective(s) => IsInjective(Tail(s)) /\ ToSet(Tail(s)) = ToSet(s) \ {s[1]}
<1>1. /\ Tail(s) \in Seq(D) /\ Len(s) \in Nat \ {0} /\ Len(Tail(s)) = Len(s) - 1
      /\ \A i \in 1 .. (Len(s) - 1) : Tail(s)[i] = s[i + 1]
      /\ s[1] \in D
  BY HeadTailProperties, EmptySeq, ElementOfSeq, LenProperties
<1>2. PICK t : t = Tail(s)
  OBVIOUS
<1>3. DOMAIN s = 1 .. Len(s) /\ DOMAIN t = 1 .. (Len(s) - 1)
  BY <1>1, <1>2, LenProperties
<1>4. \A i \in 1 .. (Len(s) - 1) : t[i] = s[i + 1]
  BY <1>1, <1>2
<1>5. \A x : x \in ToSet(s) <=> \E i \in 1 .. Len(s) : s[i] = x
  BY <1>3 DEF ToSet
<1>6. \A x : x \in ToSet(t) <=> \E i \in 1 .. (Len(s) - 1) : t[i] = x
  BY <1>3 DEF ToSet
<1>7. ASSUME IsInjective(s) PROVE IsInjective(t) /\ ToSet(t) = ToSet(s) \ {s[1]}
  <2>1. \A i, m \in 1 .. Len(s) : s[i] = s[m] => i = m
    BY <1>3, <1>7 DEF IsInjective
  <2>2. \A i, m \in 1 .. (Len(s) - 1) : t[i] = t[m] => i = m
    <3> TAKE i, m \in 1 .. (Len(s) - 1)
    <3>1. i + 1 \in 1 .. Len(s) /\ m + 1 \in 1 .. Len(s) /\ i \in Int /\ m \in Int
      BY <1>1
    <3>2. t[i] = s[i + 1] /\ t[m] = s[m + 1]
      BY <1>4
    <3>3. s[i + 1] = s[m + 1] => i + 1 = m + 1
      BY <2>1, <3>1
    <3> QED BY <3>1, <3>2, <3>3
  <2>3. IsInjective(t)
    BY <1>3, <2>2 DEF IsInjective
  <2>4. \A x : x \in ToSet(t) => x \in ToSet(s) /\ x # s[1]
    <3> SUFFICES ASSUME NEW i \in 1 .. (Len(s) - 1)
                 PROVE  t[i] \in ToSet(s) /\ t[i] # s[1]
      BY <1>6
    <3>1. i + 1 \in 1 .. Len(s) /\ 1 \in 1 .. Len(s) /\ i + 1 # 1 /\ t[i] = s[i + 1]
      BY <1>1, <1>4
    <3> QED BY <1>5, <2>1, <3>1
  <2>5. \A x : x \in ToSet(s) /\ x # s[1] => x \in ToSet(t)
    <3> SUFFICES ASSUME NEW i \in 1 .. Len(s), s[i] # s[1] PROVE s[i] \in ToSet(t)
      BY <1>5
    <3>1. i # 1 /\ i - 1 \in 1 .. (Len(s) - 1)
      BY <1>1
    <3>2. t[i - 1] = s[i - 1 + 1]
      BY <1>4, <3>1
    <3>3. i - 1 + 1 = i
      BY <1>1
    <3> QED BY <1>6, <3>1, <3>2, <3>3
  <2> QED BY <2>3, <2>4, <2>5
<1>8. s[1] \in ToSet(s)
  BY <1>1, <1>5
<1> QED BY <1>1, <1>2, <1>7, <1>8
-----------------------------------------------------------------------------
(* The sizes *)

\* A set of numbers has a least element.
Below == {p \in Nat \X Nat : p[1] < p[2]}

LEMMA NatLeast ==
  ASSUME NEW T, T \subseteq Nat, T # {}
  PROVE  \E n \in T : \A m \in T : n <= m
<1>1. IsWellFoundedOn(Below, Nat)
  BY NatLessThanWellFounded DEF OpToRel, Below
<1>2. PICK n \in T : \A m \in T : <<m, n>> \notin Below
  BY <1>1, WFMin
<1>3. \A m \in T : ~(m < n)
  BY <1>2 DEF Below
<1> QED BY <1>3

\* A finite set of numbers has a greatest element: the one the fewest are above.
LEMMA FiniteGreatest ==
  ASSUME NEW S, IsFiniteSet(S), S \subseteq Int, S # {}
  PROVE  \E k \in S : \A m \in S : m <= k
<1> DEFINE Above(k) == {m \in S : m > k}
           Counts == {Cardinality(Above(k)) : k \in S}
<1>1. \A k \in S : IsFiniteSet(Above(k)) /\ Cardinality(Above(k)) \in Nat
  BY FS_Subset, FS_CardinalityType
<1>2. PICK n \in Counts : \A m \in Counts : n <= m
  <2>1. Counts \subseteq Nat /\ Counts # {}
    BY <1>1
  <2> HIDE DEF Counts
  <2> QED BY <2>1, NatLeast
<1>3. PICK k \in S : \A m \in S : Cardinality(Above(k)) <= Cardinality(Above(m))
  BY <1>2
<1>4. ASSUME NEW m \in S, m > k PROVE FALSE
  <2>0. m \in Int /\ k \in Int /\ \A x \in S : x \in Int
    OBVIOUS
  <2>1. Above(m) \subseteq Above(k) /\ m \in Above(k) /\ m \notin Above(m)
    <3>1. (\A x \in S : x > m => x > k) /\ ~(m > m)
      BY <1>4, <2>0
    <3> QED BY Zenon, <1>4, <3>1
  <2> HIDE DEF Above
  <2>2. /\ Cardinality(Above(m)) <= Cardinality(Above(k))
        /\ Cardinality(Above(m)) # Cardinality(Above(k))
    BY <1>1, <2>1, FS_Subset
  <2>3. Cardinality(Above(k)) <= Cardinality(Above(m))
    BY <1>3
  <2> QED BY <1>1, <2>2, <2>3
<1> QED BY <1>4

LEMMA LargestIsGreatest == Largest \in Classes /\ \A m \in Classes : m <= Largest
<1>1. IsFiniteSet(Classes) /\ Classes \subseteq Int /\ Classes # {}
  BY ConstantsAssumption
<1>2. \E k \in Classes : \A m \in Classes : m <= k
  BY <1>1, FiniteGreatest
<1> QED BY <1>2 DEF Largest

LEMMA LowerBoundIsClass ==
  ASSUME NEW left \in Nat
  PROVE  LowerBound(left) \in Classes
<1>1. CASE left > Largest
  BY <1>1, LargestIsGreatest DEF LowerBound
<1>2. CASE ~(left > Largest)
  <2> DEFINE Enough == {k \in Classes : k >= left}
  <2>0. Largest \in Classes /\ Classes \subseteq Nat
    BY LargestIsGreatest, ConstantsAssumption
  <2>1. Largest >= left
    BY <1>2, <2>0
  <2>2. Enough \subseteq Nat /\ Enough # {}
    BY <2>0, <2>1
  <2>3. PICK k \in Enough : \A m \in Enough : k <= m
    BY <2>2, NatLeast
  <2>4. k \in Classes /\ k >= left /\ \A m \in Classes : m >= left => m >= k
    BY <2>0, <2>3
  <2> QED BY <1>2, <2>4 DEF LowerBound
<1> QED BY <1>1, <1>2

LEMMA LowerBoundOfFirst == LowerBound(RecvBuf) = RecvBuf
<1>1. RecvBuf \in Classes /\ ~(RecvBuf > Largest)
  BY LargestIsGreatest, ConstantsAssumption
<1>2. \A k \in Classes :
        k >= RecvBuf /\ (\A m \in Classes : m >= RecvBuf => m >= k) <=> k = RecvBuf
  BY <1>1, ConstantsAssumption
<1> QED BY <1>1, <1>2 DEF LowerBound
-----------------------------------------------------------------------------
(* Types, and the limit *)

Typed == TypeOK /\ IsFiniteSet(Created)

\* The types of what is not history.
Plain ==
  /\ pool \in [Classes -> Seq(Created)]
  /\ cap \in [Created -> Classes] /\ Created = 1 .. Cardinality(Created)
  /\ next \in [Created -> Link]
  /\ used \in Nat
  /\ conn \in [Connections -> [open : BOOLEAN, buf : Link, read : Nat, length : Nat]]
  /\ \/ op = None
     \/ op \in [kind : {"allocate"}, for : Connections, left : Nat,
                first : Link, last : Link]
     \/ op \in [kind : {"free"}, for : Connections, at : Link]
  /\ aborted \in BOOLEAN
  /\ \A k \in Classes : \A i \in 1 .. Len(pool[k]) : cap[pool[k][i]] = k
  /\ IsFiniteSet(Created)

LEMMA TypingInit == Init => Typed
<1> SUFFICES ASSUME Init PROVE Typed
  OBVIOUS
<1> USE DEF Init, Created, Closed, None, Link
<1>1. Created = {} /\ Cardinality(Created) = 0 /\ IsFiniteSet(Created)
  BY FS_EmptySet
<1>2. Created = 1 .. Cardinality(Created)
  BY <1>1
<1>3. pool \in [Classes -> Seq(Created)]
  BY EmptySeq
<1>4. \A k \in Classes : Len(pool[k]) = 0
  OBVIOUS
<1>5. own \in [Connections -> Seq(Created)]
  BY EmptySeq
<1> QED BY <1>1, <1>2, <1>3, <1>4, <1>5 DEF TypeOK, Typed

LEMMA LoopTypes ==
  /\ None.kind # "allocate" /\ None.kind # "free"
  /\ TypeOK => /\ op.kind = "allocate" =>
                    op \in [kind : {"allocate"}, for : Connections, left : Nat,
                            first : Link, last : Link]
               /\ op.kind = "free" =>
                    op \in [kind : {"free"}, for : Connections, at : Link]
BY DEF None, TypeOK

LEMMA CreatedGrows ==
  ASSUME Typed
  PROVE  LET b == Cardinality(Created) + 1
         IN  /\ b \notin Created /\ b \in Nat /\ b # NULL
             /\ IsFiniteSet(Created \cup {b})
             /\ Created \cup {b} = 1 .. Cardinality(Created \cup {b})
<1> DEFINE n == Cardinality(Created)
<1>1. Created = 1 .. n /\ n \in Nat
  BY FS_CardinalityType DEF Typed, TypeOK
<1>2. n + 1 \notin Created /\ n + 1 # NULL
  BY <1>1, ConstantsAssumption
<1>3. /\ IsFiniteSet(Created \cup {n + 1})
      /\ Cardinality(Created \cup {n + 1}) = n + 1
  BY <1>2, FS_AddElement DEF Typed
<1>4. Created \cup {n + 1} = 1 .. Cardinality(Created \cup {n + 1})
  BY <1>1, <1>3
<1>5. n + 1 \in Nat
  BY <1>1
<1> HIDE DEF n
<1> QED BY <1>2, <1>3, <1>4, <1>5 DEF n

LEMMA TakeTypes ==
  ASSUME TypeOK, op.kind = "allocate", NEW b, b \in Created', Take(b),
         Created \subseteq Created', cap' \in [Created' -> Classes]
  PROVE  op' \in [kind : {"allocate"}, for : Connections, left : Nat,
                  first : Link', last : Link']
<1>1. op \in [kind : {"allocate"}, for : Connections, left : Nat,
              first : Link, last : Link]
  BY LoopTypes
<1>2. cap'[b] \in Nat
  BY ConstantsAssumption
<1>3. (IF cap'[b] > op.left THEN 0 ELSE op.left - cap'[b]) \in Nat
  BY <1>1, <1>2
<1>4. (IF op.first = NULL THEN b ELSE op.first) \in Link' /\ b \in Link'
  BY <1>1 DEF Link
<1> QED BY <1>1, <1>3, <1>4 DEF Take

LEMMA PlainNext == ASSUME Typed, [Next]_vars PROVE Plain'
<1>0. TypeOK /\ IsFiniteSet(Created)
  BY DEF Typed
<1>1. CASE UNCHANGED vars
  BY <1>0, <1>1 DEF vars, Plain, Typed, TypeOK, Created, Link, None
<1>2. CASE TakeFree
  <2> DEFINE k == LowerBound(op.left)
             b == Head(pool[k])
  <2>1. op.left \in Nat /\ k \in Classes /\ op.last \in Link
    BY <1>0, <1>2, LoopTypes, LowerBoundIsClass DEF TakeFree
  <2>2. b \in Created
    BY <1>0, <1>2, <2>1, HeadTailProperties DEF TakeFree, TypeOK
  <2>3. /\ pool' \in [Classes -> Seq(Created)]
        /\ \A j \in Classes : \A i \in 1 .. Len(pool'[j]) : cap[pool'[j][i]] = j
    <3> HIDE DEF k
    <3>1. pool \in [Classes -> Seq(Created)] /\ pool[k] # <<>>
      BY <1>0, <1>2 DEF TakeFree, TypeOK, k
    <3>2. pool' = [pool EXCEPT ![k] = Tail(@)]
      BY <1>2 DEF TakeFree, k
    <3>3. pool[k] \in Seq(Created) /\ Tail(pool[k]) \in Seq(Created)
          /\ Len(Tail(pool[k])) = Len(pool[k]) - 1 /\ Len(pool[k]) \in Nat
          /\ \A i \in 1 .. Len(Tail(pool[k])) : Tail(pool[k])[i] = pool[k][i + 1]
      BY <2>1, <3>1, HeadTailProperties, LenProperties
    <3>4. pool' \in [Classes -> Seq(Created)]
      BY <3>1, <3>2, <3>3
    <3> SUFFICES ASSUME NEW j \in Classes, NEW i \in 1 .. Len(pool'[j])
                 PROVE  cap[pool'[j][i]] = j
      BY <3>4
    <3>5. CASE j = k
      <4>1. i + 1 \in 1 .. Len(pool[k]) /\ pool'[j][i] = pool[k][i + 1]
        BY <3>1, <3>2, <3>3, <3>5
      <4> QED BY <1>0, <3>5, <4>1 DEF TypeOK
    <3>6. CASE j # k
      BY <1>0, <3>1, <3>2, <3>6 DEF TypeOK
    <3> QED BY <3>5, <3>6
  <2>4. next' \in [Created -> Link]
    BY <1>0, <1>2, <2>1, <2>2 DEF TakeFree, Linked, TypeOK, Link
  <2>5. UNCHANGED <<cap, used, conn, aborted>> /\ Take(b)
    BY <1>2 DEF TakeFree, Take
  <2>6. op' \in [kind : {"allocate"}, for : Connections, left : Nat,
                 first : Link', last : Link']
    BY <1>0, <1>2, <2>2, <2>5, TakeTypes DEF TakeFree, TypeOK, Created
  <2> QED BY <1>0, <2>3, <2>4, <2>5, <2>6 DEF Plain, Typed, TypeOK, Created, Link
<1>3. CASE TakeNew
  <2> DEFINE k == LowerBound(op.left)
             b == Cardinality(Created) + 1
  <2>1. op.left \in Nat /\ k \in Classes /\ k \in Nat
    BY <1>0, <1>3, LoopTypes, LowerBoundIsClass, ConstantsAssumption DEF TakeNew
  <2>2. /\ cap' = [x \in Created \cup {b} |-> IF x = b THEN k ELSE cap[x]]
        /\ next' = [x \in Created \cup {b} |->
                      IF x = b THEN NULL ELSE Linked(next, b)[x]]
        /\ used' = used + k
        /\ UNCHANGED <<pool, conn, aborted>> /\ Take(b)
    BY <1>3 DEF TakeNew, Take
  <2>3. /\ Created' = Created \cup {b} /\ b \notin Created
        /\ IsFiniteSet(Created') /\ Created' = 1 .. Cardinality(Created')
    BY <2>2, CreatedGrows DEF Created
  <2> HIDE DEF b, k
  <2>4. cap' \in [Created' -> Classes]
    BY <1>0, <2>1, <2>2, <2>3 DEF TypeOK
  <2>5. next' \in [Created' -> Link']
    BY <1>0, <2>2, <2>3 DEF TypeOK, Link, Linked
  <2>6. pool' \in [Classes -> Seq(Created')]
    BY <1>0, <2>2, <2>3, SeqMonotonic DEF TypeOK
  <2>7. \A j \in Classes : \A i \in 1 .. Len(pool'[j]) : cap'[pool'[j][i]] = j
    <3> SUFFICES ASSUME NEW j \in Classes, NEW i \in 1 .. Len(pool[j])
                 PROVE  cap'[pool[j][i]] = j
      BY <2>2
    <3>1. pool[j] \in Seq(Created) /\ cap[pool[j][i]] = j
      BY <1>0 DEF TypeOK
    <3>2. pool[j][i] \in Created
      BY <3>1, ElementOfSeq
    <3> QED BY <2>2, <2>3, <3>1, <3>2
  <2>8. op' \in [kind : {"allocate"}, for : Connections, left : Nat,
                 first : Link', last : Link']
    BY <1>0, <1>3, <2>2, <2>3, <2>4, TakeTypes DEF TakeNew
  <2>9. conn' \in [Connections -> [open : BOOLEAN, buf : Link', read : Nat, length : Nat]]
    BY <1>0, <2>2, <2>3 DEF TypeOK, Link
  <2>10. used' \in Nat /\ aborted' \in BOOLEAN
    BY <1>0, <2>1, <2>2 DEF TypeOK
  <2> QED BY <2>3, <2>4, <2>5, <2>6, <2>7, <2>8, <2>9, <2>10 DEF Plain, Typed, TypeOK
<1>4. CASE AllocateReturns
  <2>1. op.for \in Connections /\ op.first \in Link /\ conn[op.for].buf \in Link
    BY <1>0, <1>4, LoopTypes DEF AllocateReturns, TypeOK
  <2>2. conn' \in [Connections -> [open : BOOLEAN, buf : Link, read : Nat, length : Nat]]
    <3>1. CASE conn[op.for].buf = NULL
      <4>1. conn' = [conn EXCEPT ![op.for].buf = op.first]
        BY <1>4, <3>1 DEF AllocateReturns
      <4>2. conn \in [Connections -> [open : BOOLEAN, buf : Link, read : Nat, length : Nat]]
        BY <1>0 DEF TypeOK
      <4> QED BY <2>1, <4>1, <4>2
    <3>2. CASE conn[op.for].buf # NULL
      BY <1>0, <1>4, <3>2 DEF AllocateReturns, TypeOK
    <3> QED BY <3>1, <3>2
  <2>3. next' \in [Created -> Link]
    BY <1>0, <1>4, <2>1 DEF AllocateReturns, TypeOK
  <2>4. op' = None /\ UNCHANGED <<pool, cap, used, aborted>>
    BY <1>4 DEF AllocateReturns
  <2> QED BY <1>0, <2>2, <2>3, <2>4 DEF Plain, Typed, TypeOK, Created, Link, None
<1>5. CASE AllocateFails
  <2>1. op.for \in Connections /\ op.first \in Link /\ conn[op.for].buf \in Link
    BY <1>0, <1>5, LoopTypes DEF AllocateFails, TypeOK
  <2>2. next' \in [Created -> Link]
    BY <1>0, <1>5, <2>1 DEF AllocateFails, TypeOK, Link
  <2>3. \/ op' = None
        \/ op' \in [kind : {"free"}, for : Connections, at : Link]
    BY <1>5, <2>1 DEF AllocateFails, Free
  <2>4. UNCHANGED <<pool, cap, used, conn, aborted>>
    BY <1>0, <1>5 DEF AllocateFails, TypeOK
  <2> QED BY <1>0, <2>2, <2>3, <2>4 DEF Plain, Typed, TypeOK, Created, Link
<1>6. CASE FreeBlock
  <2>1. op \in [kind : {"free"}, for : Connections, at : Link] /\ op.at # NULL
    BY <1>0, <1>6, LoopTypes DEF FreeBlock
  <2>2. op.at \in Created /\ cap[op.at] \in Classes /\ next[op.at] \in Link
    BY <1>0, <2>1 DEF TypeOK, Link
  <2>3. OwnSize(pool, cap) /\ pool \in [Classes -> Seq(Created)]
    BY <1>0 DEF TypeOK, OwnSize
  <2>4. /\ pool' \in [Classes -> Seq(Created)]
        /\ Pushed(Created, pool, pool', cap[op.at], op.at)
    BY <1>6, <2>2, <2>3, AppendProperties DEF FreeBlock, Pushed
  <2>7. OwnSize(pool', cap)
    <3>1. PICK k \in Classes, b \in Created : k = cap[b] /\ b = op.at
      BY <2>2
    <3>2. Pushed(Created, pool, pool', k, b) /\ cap[b] = k
      BY <2>4, <3>1
    <3>3. OwnSize(pool, cap)
      BY <2>3
    <3> QED BY <3>2, <3>3, ListPushed
  <2>5. op' \in [kind : {"free"}, for : Connections, at : Link]
    BY <1>6, <2>1, <2>2 DEF FreeBlock
  <2>6. UNCHANGED <<cap, next, used, conn, aborted>>
    BY <1>0, <1>6 DEF FreeBlock, TypeOK
  <2> QED BY <1>0, <2>4, <2>5, <2>6, <2>7 DEF Plain, Typed, TypeOK, Created, Link, OwnSize
<1>7. CASE FreeReturns
  <2>1. op.for \in Connections /\ Closed \in [open : BOOLEAN, buf : Link, read : Nat, length : Nat]
    BY <1>0, <1>7, LoopTypes DEF FreeReturns, Closed, Link
  <2>2. conn' \in [Connections -> [open : BOOLEAN, buf : Link, read : Nat, length : Nat]]
    BY <1>0, <1>7, <2>1 DEF FreeReturns, TypeOK
  <2>3. op' = None /\ UNCHANGED <<pool, cap, next, used, aborted>>
    BY <1>7 DEF FreeReturns
  <2> QED BY <1>0, <2>2, <2>3 DEF Plain, Typed, TypeOK, Created, Link
<1>8. ASSUME NEW c \in Connections,
             Open(c) \/ FirstRead(c) \/ HeaderRead(c) \/ BodyRead(c) \/ Close(c)
      PROVE  Plain'
  <2>1. UNCHANGED <<pool, cap, next, used>>
    BY <1>8 DEF Open, FirstRead, HeaderRead, BodyRead, Close
  <2>2. aborted' \in BOOLEAN
    BY <1>0, <1>8 DEF Open, FirstRead, HeaderRead, BodyRead, Close, TypeOK
  <2>3. conn[c] \in [open : BOOLEAN, buf : Link, read : Nat, length : Nat]
    BY <1>0 DEF TypeOK
  <2>4. conn' \in [Connections -> [open : BOOLEAN, buf : Link, read : Nat, length : Nat]]
    <3>1. CASE UNCHANGED conn
      BY <1>0, <3>1 DEF TypeOK
    <3>2. CASE Open(c)
      BY <1>0, <2>3, <3>2 DEF Open, TypeOK
    <3>3. CASE HeaderRead(c)
      <4>1. PICK length \in Lengths :
              \E n \in 1 .. (IF length < RecvBuf THEN length ELSE RecvBuf) :
                conn' = [conn EXCEPT ![c].length = length, ![c].read = n]
        BY <3>3 DEF HeaderRead
      <4>2. PICK n \in 1 .. (IF length < RecvBuf THEN length ELSE RecvBuf) :
              conn' = [conn EXCEPT ![c].length = length, ![c].read = n]
        BY <4>1
      <4>3. length \in Nat /\ RecvBuf \in Nat
        BY ConstantsAssumption
      <4>4. n \in Nat
        BY <4>3
      <4> QED BY <1>0, <2>3, <4>2, <4>3, <4>4 DEF TypeOK
    <3>4. CASE BodyRead(c)
      <4>1. CASE UNCHANGED conn
        BY <3>1, <4>1
      <4>2. CASE ~UNCHANGED conn
        <5>1. PICK n \in 1 .. (conn[c].length - conn[c].read) :
                conn' = [conn EXCEPT ![c].read = @ + n]
          BY <3>4, <4>2 DEF BodyRead
        <5>2. conn[c].read + n \in Nat
          BY <2>3, <5>1
        <5> QED BY <1>0, <2>3, <5>1, <5>2 DEF TypeOK
      <4> QED BY <4>1, <4>2
    <3> QED BY <1>8, <3>1, <3>2, <3>3, <3>4 DEF FirstRead, Close
  <2>5. \/ op' = None
        \/ op' \in [kind : {"allocate"}, for : Connections, left : Nat,
                    first : Link, last : Link]
        \/ op' \in [kind : {"free"}, for : Connections, at : Link]
    <3>1. CASE UNCHANGED op
      BY <1>0, <3>1 DEF TypeOK
    <3>2. CASE FirstRead(c)
      BY <3>2, ConstantsAssumption DEF FirstRead, Allocate, Link
    <3>3. CASE HeaderRead(c)
      <4>1. PICK length \in Lengths :
              IF length > RecvBuf THEN Allocate(c, length - RecvBuf) ELSE UNCHANGED op
        BY <3>3 DEF HeaderRead
      <4>2. CASE length > RecvBuf
        <5>1. length - RecvBuf \in Nat
          BY <4>2, ConstantsAssumption
        <5> QED BY <4>1, <4>2, <5>1 DEF Allocate, Link
      <4> QED BY <3>1, <4>1, <4>2
    <3>4. CASE Close(c)
      BY <2>3, <3>4 DEF Close, Free
    <3> QED BY <1>8, <3>1, <3>2, <3>3, <3>4 DEF Open, BodyRead
  <2> QED BY <1>0, <2>1, <2>2, <2>4, <2>5 DEF Plain, Typed, TypeOK, Created, Link
<1> QED BY <1>1, <1>2, <1>3, <1>4, <1>5, <1>6, <1>7, <1>8 DEF Next, Loop

\* What Take adds to own, for a block free or new.
LEMMA OwnGrows ==
  ASSUME Typed, op.kind = "allocate", NEW b, b \in Created', Take(b), Created \subseteq Created'
  PROVE  own' \in [Connections -> Seq(Created')]
<1>1. op.for \in Connections
  BY LoopTypes DEF Typed
<1>2. own \in [Connections -> Seq(Created)]
  BY DEF Typed, TypeOK
<1>3. own' = [own EXCEPT ![op.for] = Append(own[op.for], b)]
  BY DEF Take
<1>4. \A c \in Connections : own[c] \in Seq(Created')
  BY <1>2, SeqMonotonic
<1>5. Append(own[op.for], b) \in Seq(Created')
  BY <1>1, <1>4, AppendProperties
<1> QED BY <1>1, <1>2, <1>3, <1>4, <1>5

LEMMA HistoryNext ==
  ASSUME Typed, Plain', [Next]_vars
  PROVE  own' \in [Connections -> Seq(Created')] /\ forgotten' \subseteq Created'
         /\ strayed' \in BOOLEAN
<1>1. own \in [Connections -> Seq(Created)] /\ forgotten \subseteq Created /\ strayed \in BOOLEAN
      /\ conn \in [Connections -> [open : BOOLEAN, buf : Link, read : Nat, length : Nat]]
  BY DEF Typed, TypeOK
<1>2. <<>> \in Seq(Created)
  BY EmptySeq
<1>3. CASE cap' = cap /\ UNCHANGED history
  BY <1>1, <1>3 DEF history, Created
<1>4. CASE TakeFree
  <2>1. op.kind = "allocate" /\ Head(pool[LowerBound(op.left)]) \in Created
    <3>1. op.kind = "allocate" /\ pool[LowerBound(op.left)] # <<>> /\ op.left \in Nat
      BY <1>4, LoopTypes DEF TakeFree, Typed
    <3>2. pool[LowerBound(op.left)] \in Seq(Created)
      BY <3>1, LowerBoundIsClass DEF Typed, TypeOK
    <3> QED BY <3>1, <3>2, HeadTailProperties
  <2>2. Created' = Created /\ Take(Head(pool[LowerBound(op.left)]))
    BY <1>4 DEF TakeFree, Created
  <2>3. UNCHANGED <<forgotten, strayed>>
    BY <2>2 DEF Take
  <2> QED BY <1>1, <2>1, <2>2, <2>3, OwnGrows
<1>5. CASE TakeNew
  <2>1. op.kind = "allocate" /\ Take(Cardinality(Created) + 1)
        /\ Created' = Created \cup {Cardinality(Created) + 1}
    BY <1>5 DEF TakeNew, Created
  <2>2. UNCHANGED <<forgotten, strayed>>
    BY <2>1 DEF Take
  <2>3. own' \in [Connections -> Seq(Created')]
    BY <2>1, OwnGrows
  <2> QED BY <1>1, <2>1, <2>2, <2>3
<1>6. CASE AllocateFails
  <2>1. op.for \in Connections /\ cap' = cap /\ strayed' = strayed
    BY <1>6, LoopTypes DEF AllocateFails, Typed
  <2>2. PICK kept : /\ kept = IF conn[op.for].buf = NULL THEN <<>> ELSE <<conn[op.for].buf>>
                    /\ own' = [own EXCEPT ![op.for] = kept]
                    /\ forgotten' = forgotten \cup (Holds(op.for) \ ToSet(kept))
    BY <1>6 DEF AllocateFails
  <2>3. kept \in Seq(Created)
    <3>1. conn[op.for].buf \in Link
      BY <1>1, <2>1
    <3> QED BY <1>2, <2>2, <3>1 DEF Link
  <2>4. Holds(op.for) \subseteq Created
    <3>1. own[op.for] \in Seq(Created)
      BY <1>1, <2>1
    <3>2. DOMAIN own[op.for] = 1 .. Len(own[op.for])
      BY <3>1, LenProperties
    <3> QED BY <3>1, <3>2, ElementOfSeq DEF Holds, ToSet
  <2>5. own' \in [Connections -> Seq(Created)]
    BY <1>1, <2>1, <2>2, <2>3
  <2> QED BY <1>1, <2>1, <2>2, <2>4, <2>5 DEF Created
<1>7. CASE FreeBlock
  <2>1. op.for \in Connections /\ cap' = cap /\ UNCHANGED forgotten
        /\ strayed' = (strayed \/ StaleNext)
        /\ own' = [own EXCEPT ![op.for] = IF own[op.for] = <<>> THEN <<>> ELSE Tail(own[op.for])]
    BY <1>7, LoopTypes DEF FreeBlock, Typed
  <2>2. own[op.for] # <<>> => Tail(own[op.for]) \in Seq(Created)
    BY <1>1, <2>1, HeadTailProperties
  <2>3. (IF own[op.for] = <<>> THEN <<>> ELSE Tail(own[op.for])) \in Seq(Created)
    BY <1>2, <2>2
  <2>4. own' \in [Connections -> Seq(Created)]
    BY <1>1, <2>1, <2>3
  <2>5. strayed' \in BOOLEAN
    BY <1>1, <2>1
  <2> QED BY <1>1, <2>1, <2>4, <2>5 DEF Created
<1>8. CASE FreeReturns
  <2>1. cap' = cap /\ UNCHANGED <<forgotten, strayed>> /\ own' = [own EXCEPT ![op.for] = <<>>]
    BY <1>8 DEF FreeReturns
  <2>2. own' \in [Connections -> Seq(Created)]
    BY <1>1, <1>2, <2>1
  <2> QED BY <1>1, <2>1, <2>2 DEF Created
<1>9. CASE UNCHANGED vars
  BY <1>3, <1>9 DEF vars
<1>10. CASE AllocateReturns
  BY <1>3, <1>10 DEF AllocateReturns
<1>11. CASE \E c \in Connections :
              Open(c) \/ FirstRead(c) \/ HeaderRead(c) \/ BodyRead(c) \/ Close(c)
  BY <1>3, <1>11 DEF Open, FirstRead, HeaderRead, BodyRead, Close
<1> QED BY <1>4, <1>5, <1>6, <1>7, <1>8, <1>9, <1>10, <1>11 DEF Next, Loop

LEMMA TypingNext == Typed /\ [Next]_vars => Typed'
BY PlainNext, HistoryNext DEF Plain, Typed, TypeOK

LEMMA LimitNext == Typed /\ MemoryBounded /\ [Next]_vars => MemoryBounded'
<1> SUFFICES ASSUME Typed, MemoryBounded, [Next]_vars PROVE MemoryBounded'
  OBVIOUS
<1>1. CASE TakeNew
  <2> DEFINE k == LowerBound(op.left)
  <2>1. used \in Nat /\ op.left \in Nat
    BY <1>1, LoopTypes DEF Typed, TypeOK, TakeNew
  <2>2. k \in Classes /\ k <= Largest /\ k \in Nat /\ Largest \in Nat
    BY <2>1, LowerBoundIsClass, LargestIsGreatest, ConstantsAssumption
  <2>3. used' = used + k /\ (MaxMemory > 0 => ~(used > MaxMemory))
    BY <1>1 DEF TakeNew, LimitReached
  <2> QED BY <2>1, <2>2, <2>3, ConstantsAssumption DEF MemoryBounded
<1>2. CASE ~TakeNew
  <2>1. used' = used
    BY <1>2 DEF Next, Loop, vars, TakeFree, AllocateReturns, AllocateFails, FreeBlock,
                FreeReturns, Open, FirstRead, HeaderRead, BodyRead, Close
  <2> QED BY <2>1 DEF MemoryBounded
<1> QED BY <1>1, <1>2
-----------------------------------------------------------------------------
(* The inductive invariant: who has which block, in the loops too *)

Allocating == op.kind = "allocate"
Freeing == op.kind = "free"

\* Block i of a list, and the links f from the i-th on.
Nth(s, i) == IF Len(s) >= i THEN s[i] ELSE NULL
Links(f, s, i) == \A j \in i .. (Len(s) - 1) : f[s[j]] = s[j + 1]

\* What connection x owns when no loop works for it: until the header is read, one block.
Resting(s, f, x) ==
  /\ x.buf = Nth(s, 1)
  /\ Links(f, s, 1)
  /\ x.buf # NULL /\ x.length = 0 => Len(s) = 1

\* While Allocate, o, fetches its first block, or hangs more on the first.
FirstBlock(s, x, o) ==
  /\ x.buf = NULL
  /\ IF o.left = 0 THEN Len(s) = 1
     ELSE s = <<>> /\ o.left = RecvBuf /\ o.last = NULL
  /\ o.first = Nth(s, 1)
MoreBlocks(s, f, x, o) ==
  /\ x.buf # NULL /\ x.length # 0
  /\ Len(s) >= 1 /\ s[1] = x.buf
  /\ Links(f, s, 2)
  /\ o.first = Nth(s, 2)
  /\ o.last = IF Len(s) = 1 THEN NULL ELSE s[Len(s)]
  /\ o.left = 0 => Len(s) >= 2

\* While Free, o, gives it back.
Emptying(s, f, o) == o.at = Nth(s, 1) /\ Links(f, s, 1)

Idle(c) == ~((Allocating \/ Freeing) /\ op.for = c)

Held(c) ==
  /\ Allocating /\ op.for = c =>
       FirstBlock(own[c], conn[c], op) \/ MoreBlocks(own[c], next, conn[c], op)
  /\ Freeing /\ op.for = c => Emptying(own[c], next, op)
  /\ Idle(c) => Resting(own[c], next, conn[c])

Apart ==
  /\ OnceEach(pool)
  /\ \A c \in Connections : IsInjective(own[c])
  /\ \A c \in Connections : Holds(c) \cap (FreeBlocks \cup forgotten) = {}
  /\ \A c, d \in Connections : c # d => Holds(c) \cap Holds(d) = {}
  /\ FreeBlocks \cap forgotten = {}

NothingLost ==
  Created \subseteq FreeBlocks \cup forgotten \cup UNION {Holds(c) : c \in Connections}

Structure == Apart /\ NothingLost /\ \A c \in Connections : Held(c)

IInv == Typed /\ (~strayed => Structure)
-----------------------------------------------------------------------------
LEMMA StateFacts ==
  ASSUME Typed
  PROVE  /\ next \in [Created -> Created \cup {NULL}] /\ NULL \notin Created
         /\ cap \in [Created -> Classes]
         /\ pool \in [Classes -> Seq(Created)] /\ OwnSize(pool, cap)
         /\ FreeBlocks = FreeIn(pool) /\ FreeBlocks \subseteq Created
         /\ own \in [Connections -> Seq(Created)] /\ forgotten \subseteq Created
         /\ conn \in [Connections -> [open : BOOLEAN, buf : Link, read : Nat, length : Nat]]
         /\ \A c \in Connections : Holds(c) \subseteq Created
<1>1. /\ next \in [Created -> Created \cup {NULL}] /\ cap \in [Created -> Classes]
      /\ own \in [Connections -> Seq(Created)] /\ forgotten \subseteq Created
      /\ conn \in [Connections -> [open : BOOLEAN, buf : Link, read : Nat, length : Nat]]
  BY DEF Typed, TypeOK, Link
<1>2. NULL \notin Created
  <2>1. Created \subseteq Nat
    BY FS_CardinalityType DEF Typed, TypeOK
  <2> QED BY <2>1, ConstantsAssumption
<1>3. pool \in [Classes -> Seq(Created)] /\ OwnSize(pool, cap)
  BY DEF Typed, TypeOK, OwnSize
<1>4. FreeBlocks = FreeIn(pool)
  BY DEF FreeBlocks, FreeIn
<1>5. FreeBlocks \subseteq Created
  <2>1. \A k \in Classes : \A i \in 1 .. Len(pool[k]) : pool[k][i] \in Created
    BY <1>3, ElementOfSeq
  <2> QED BY <1>3, <1>4, <2>1, InFreeList
<1>6. \A c \in Connections : Holds(c) \subseteq Created
  <2> TAKE c \in Connections
  <2>1. own[c] \in Seq(Created)
    BY <1>1
  <2>2. DOMAIN own[c] = 1 .. Len(own[c])
    BY <2>1, LenProperties
  <2> QED BY <2>1, <2>2, ElementOfSeq DEF Holds, ToSet
<1> QED BY <1>1, <1>2, <1>3, <1>4, <1>5, <1>6

\* The blocks of a list, by their places.
LEMMA PlacesOf ==
  ASSUME NEW D, NEW s \in Seq(D)
  PROVE  /\ Len(s) \in Nat /\ (s = <<>> <=> Len(s) = 0)
         /\ \A i \in 1 .. Len(s) : s[i] \in D /\ s[i] \in ToSet(s)
         /\ IsInjective(s) => \A i, j \in 1 .. Len(s) : s[i] = s[j] => i = j
<1>1. Len(s) \in Nat /\ DOMAIN s = 1 .. Len(s)
  BY LenProperties
<1>2. s = <<>> <=> Len(s) = 0
  BY EmptySeq
<1>3. \A i \in 1 .. Len(s) : s[i] \in D
  BY ElementOfSeq
<1> QED BY <1>1, <1>2, <1>3 DEF ToSet, IsInjective

\* Links that are the same along a list.
LEMMA LinksKept ==
  ASSUME NEW D, NEW s \in Seq(D), NEW f, NEW g, NEW i \in {1, 2}, Links(f, s, i),
         \A x \in ToSet(s) : g[x] = f[x]
  PROVE  Links(g, s, i)
<1>1. \A j \in i .. (Len(s) - 1) : j \in 1 .. Len(s)
  BY PlacesOf
<1>2. \A j \in i .. (Len(s) - 1) : g[s[j]] = f[s[j]]
  BY <1>1, PlacesOf
<1> QED BY <1>2 DEF Links

\* The connections no loop works for, before or after.
LEMMA OthersHeld ==
  ASSUME Typed, Structure, NEW d \in Connections, Idle(d), Idle(d)',
         own'[d] = own[d], conn'[d].buf = conn[d].buf,
         conn'[d].length # 0 \/ conn'[d].length = conn[d].length,
         \A x \in Holds(d) : next'[x] = next[x]
  PROVE  Held(d)'
<1>1. Resting(own[d], next, conn[d]) /\ own[d] \in Seq(Created)
  BY StateFacts DEF Structure, Held
<1>2. Links(next', own[d], 1)
  BY <1>1, LinksKept DEF Resting, Holds
<1>3. Resting(own'[d], next', conn'[d])
  BY <1>1, <1>2 DEF Resting
<1> QED BY <1>3 DEF Held, Idle

\* FreeBlocks and Holds, as the primed state has them.
LEMMA HoldsOf ==
  /\ \A c : Holds(c) = ToSet(own[c]) /\ Holds(c)' = ToSet(own'[c])
  /\ FreeBlocks' = FreeIn(pool')
BY DEF Holds, FreeBlocks, FreeIn

LEMMA SmallLists ==
  /\ ToSet(<<>>) = {} /\ IsInjective(<<>>)
  /\ \A x : ToSet(<<x>>) = {x} /\ IsInjective(<<x>>) /\ Len(<<x>>) = 1 /\ <<x>>[1] = x
BY DEF ToSet, IsInjective
-----------------------------------------------------------------------------
(* Allocate *)

\* Block b goes to the end of a list: the links before it are as they were.
LEMMA LinksGrow ==
  ASSUME NEW D, NEW s \in Seq(D), NEW b \in D, IsInjective(s), b \notin ToSet(s),
         NEW f, NEW g, Links(f, s, 2),
         NEW last, last = (IF Len(s) <= 1 THEN NULL ELSE s[Len(s)]),
         \A x \in ToSet(s) : g[x] = IF x = last THEN b ELSE f[x]
  PROVE  Links(g, Append(s, b), 2)
<1>1. PICK t : t = Append(s, b)
  OBVIOUS
<1>2. /\ Len(s) \in Nat /\ Len(t) = Len(s) + 1 /\ t[Len(s) + 1] = b
      /\ \A i \in 1 .. Len(s) : t[i] = s[i]
  BY <1>1, ListGrows
<1> SUFFICES ASSUME NEW j \in 2 .. (Len(t) - 1) PROVE g[t[j]] = t[j + 1]
  BY <1>1 DEF Links
<1>3. j \in 1 .. Len(s) /\ t[j] = s[j] /\ s[j] \in ToSet(s) /\ j \in Int /\ j >= 2
  BY <1>2, PlacesOf
<1>4. g[s[j]] = IF s[j] = last THEN b ELSE f[s[j]]
  BY <1>3
<1>5. CASE j = Len(s)
  <2>1. s[j] = last /\ t[j + 1] = b
    BY <1>2, <1>3, <1>5
  <2> QED BY <1>3, <1>4, <2>1
<1>6. CASE j # Len(s)
  <2>1. Len(s) \in 1 .. Len(s) /\ Len(s) > 1
    BY <1>2, <1>3
  <2>2. last = s[Len(s)]
    BY <2>1
  <2>3. s[j] # last
    BY <1>3, <1>6, <2>1, <2>2, PlacesOf
  <2>4. j + 1 \in 1 .. Len(s) /\ j \in 2 .. (Len(s) - 1)
    BY <1>2, <1>3, <1>6
  <2>5. f[s[j]] = s[j + 1] /\ t[j + 1] = s[j + 1]
    BY <1>2, <2>4 DEF Links
  <2> QED BY <1>3, <1>4, <2>3, <2>5
<1> QED BY <1>5, <1>6

LEMMA OneOrMore ==
  ASSUME NEW n \in Nat, n >= 1
  PROVE  (n = 1 <=> n <= 1) /\ (n # 1 => n >= 2 /\ 2 \in 1 .. n)
OBVIOUS

\* What Take makes of the running Allocate.
LEMMA TakeFacts ==
  ASSUME Typed, Allocating, NEW b, Take(b)
  PROVE  /\ op'.kind = "allocate" /\ op'.for = op.for /\ op'.last = b
         /\ op'.left = (IF cap'[b] > op.left THEN 0 ELSE op.left - cap'[b])
         /\ op'.first = (IF op.first = NULL THEN b ELSE op.first)
         /\ op.for \in Connections /\ op.left \in Nat /\ op.last \in Link
         /\ own' = [own EXCEPT ![op.for] = Append(@, b)]
         /\ UNCHANGED <<conn, aborted, forgotten, strayed>>
<1>1. op \in [kind : {"allocate"}, for : Connections, left : Nat,
              first : Link, last : Link]
  BY LoopTypes DEF Allocating, Typed
<1> QED BY <1>1 DEF Take

\* The connection that Allocate works for, with one block more.
LEMMA TakerHeld ==
  ASSUME Typed, Typed', Structure, Allocating, op.left > 0,
         NEW b, b # NULL, b \in Created', Take(b), Created \subseteq Created',
         b \notin Holds(op.for), cap'[b] = LowerBound(op.left),
         \A x \in Created : x # b => next'[x] = IF x = op.last THEN b ELSE next[x]
  PROVE  Held(op.for)'
<1>0. PICK c, s, t : c = op.for /\ s = own[c] /\ t = Append(s, b)
  OBVIOUS
<1>1. /\ op'.kind = "allocate" /\ op'.for = c /\ op'.last = b /\ c \in Connections
      /\ op'.left = (IF cap'[b] > op.left THEN 0 ELSE op.left - cap'[b])
      /\ op'.first = (IF op.first = NULL THEN b ELSE op.first)
      /\ own'[c] = t /\ conn' = conn /\ op.left \in Nat
  <2>1. own \in [Connections -> Seq(Created)]
    BY StateFacts
  <2> QED BY <1>0, <2>1, TakeFacts
<1>2. FirstBlock(s, conn[c], op) \/ MoreBlocks(s, next, conn[c], op)
  BY <1>0, <1>1 DEF Structure, Held
<1>3. IsInjective(s) /\ s \in Seq(Created) /\ s \in Seq(Created') /\ b \notin ToSet(s)
      /\ ToSet(s) \subseteq Created
  <2>1. s \in Seq(Created) /\ ToSet(s) \subseteq Created
    BY <1>0, <1>1, StateFacts DEF Holds
  <2>2. s \in Seq(Created')
    BY <2>1, SeqMonotonic
  <2> QED BY <1>0, <1>1, <2>1, <2>2 DEF Structure, Apart, Holds
<1>4. /\ Len(s) \in Nat /\ Len(t) = Len(s) + 1 /\ t[Len(s) + 1] = b
      /\ \A i \in 1 .. Len(s) : t[i] = s[i]
  BY <1>0, <1>3, ListGrows
<1>5. NULL \notin Created
  BY StateFacts
<1>6. CASE FirstBlock(s, conn[c], op)
  <2>1. s = <<>> /\ op.left = RecvBuf /\ op.first = NULL /\ conn[c].buf = NULL
    BY <1>1, <1>6, SmallLists, EmptySeq DEF FirstBlock, Nth
  <2>2. Len(s) = 0 /\ Len(t) = 1 /\ t[1] = b
    BY <1>4, <2>1, EmptySeq
  <2>3. cap'[b] = RecvBuf /\ RecvBuf \in Nat
    BY <2>1, LowerBoundOfFirst, ConstantsAssumption
  <2>4. op'.left = 0 /\ op'.first = b
    BY <1>1, <2>1, <2>3
  <2>5. FirstBlock(t, conn[c], op')
    BY <2>1, <2>2, <2>4 DEF FirstBlock, Nth
  <2> QED BY <1>0, <1>1, <2>5 DEF Held, Allocating, Freeing, Idle
<1>7. CASE MoreBlocks(s, next, conn[c], op)
  <2>1. /\ conn[c].buf # NULL /\ conn[c].length # 0
        /\ Len(s) >= 1 /\ s[1] = conn[c].buf
        /\ Links(next, s, 2)
        /\ op.first = Nth(s, 2)
        /\ op.last = IF Len(s) = 1 THEN NULL ELSE s[Len(s)]
    BY <1>7 DEF MoreBlocks
  <2>0. Len(s) \in Nat /\ Len(s) >= 1
    BY <1>7, <1>4 DEF MoreBlocks
  <2>9. (Len(s) = 1 <=> Len(s) <= 1) /\ (Len(s) # 1 => Len(s) >= 2 /\ 2 \in 1 .. Len(s))
    BY <2>0, OneOrMore
  <2>2. op.last = IF Len(s) <= 1 THEN NULL ELSE s[Len(s)]
    BY <2>9, <2>1
  <2>3. \A x \in ToSet(s) : next'[x] = IF x = op.last THEN b ELSE next[x]
    BY <1>3
  <2>4. Links(next', t, 2)
    BY <1>0, <1>3, <2>1, <2>2, <2>3, LinksGrow
  <2>5. op'.first = Nth(t, 2)
    <3>1. CASE Len(s) = 1
      BY <1>1, <1>4, <2>1, <3>1 DEF Nth
    <3>2. CASE Len(s) # 1
      <4>1. Len(s) >= 2 /\ 2 \in 1 .. Len(s)
        BY <2>9, <3>2
      <4>2. s[2] \in Created /\ op.first = s[2] /\ t[2] = s[2]
        BY <1>3, <1>4, <2>1, <4>1, PlacesOf DEF Nth
      <4> QED BY <1>1, <1>4, <1>5, <4>1, <4>2 DEF Nth
    <3> QED BY <3>1, <3>2
  <2>6. t[1] = s[1] /\ Len(t) >= 2
    BY <1>4, <2>1
  <2>7. op'.last = IF Len(t) = 1 THEN NULL ELSE t[Len(t)]
    BY <1>1, <1>4, <2>6
  <2>8. MoreBlocks(t, next', conn[c], op')
    BY <2>1, <2>4, <2>5, <2>6, <2>7 DEF MoreBlocks
  <2> QED BY <1>0, <1>1, <2>8 DEF Held, Allocating, Freeing, Idle
<1> QED BY <1>2, <1>6, <1>7

\* An iteration of Allocate, for a block that no connection owns.
LEMMA TakeHeld ==
  ASSUME Typed, Typed', Structure, Allocating, op.left > 0,
         NEW b, b # NULL, b \in Created', Take(b), Created \subseteq Created',
         \A c \in Connections : b \notin Holds(c), b \notin forgotten,
         cap'[b] = LowerBound(op.left),
         \A x \in Created : x # b => next'[x] = IF x = op.last THEN b ELSE next[x]
  PROVE  /\ \A c \in Connections : Held(c)'
         /\ \A c \in Connections : IsInjective(own'[c])
         /\ \A c \in Connections :
              Holds(c)' = IF c = op.for THEN Holds(c) \cup {b} ELSE Holds(c)
         /\ op.for \in Connections /\ forgotten' = forgotten
<1>1. /\ op'.kind = "allocate" /\ op'.for = op.for /\ op.for \in Connections
      /\ conn' = conn /\ forgotten' = forgotten
      /\ own' = [own EXCEPT ![op.for] = Append(own[op.for], b)] /\ op.last \in Link
  BY TakeFacts
<1>2. own \in [Connections -> Seq(Created)] /\ NULL \notin Created
      /\ \A c \in Connections : Holds(c) \subseteq Created
  BY StateFacts
<1>3. \A c \in Connections : own'[c] = IF c = op.for THEN Append(own[c], b) ELSE own[c]
  BY <1>1, <1>2
<1>4. \A c \in Connections :
        /\ IsInjective(own'[c])
        /\ Holds(c)' = IF c = op.for THEN Holds(c) \cup {b} ELSE Holds(c)
  <2> TAKE c \in Connections
  <2>1. IsInjective(own[c]) /\ b \notin ToSet(own[c])
    BY HoldsOf DEF Structure, Apart
  <2>2. own[c] \in Seq(Created')
    BY <1>2, SeqMonotonic
  <2>3. ToSet(Append(own[c], b)) = ToSet(own[c]) \cup {b} /\ IsInjective(Append(own[c], b))
    BY <2>1, <2>2, ListGrows
  <2> QED BY <1>3, <2>1, <2>3, HoldsOf
<1>5. op.last = NULL \/ op.last \in Holds(op.for)
  <2>1. PICK s : s = own[op.for]
    OBVIOUS
  <2>2. FirstBlock(s, conn[op.for], op) \/ MoreBlocks(s, next, conn[op.for], op)
    BY <1>1, <2>1 DEF Structure, Held
  <2>3. s \in Seq(Created)
    BY <1>1, <1>2, <2>1
  <2>4. CASE MoreBlocks(s, next, conn[op.for], op)
    <3>1. Len(s) \in 1 .. Len(s)
      BY <2>3, <2>4, PlacesOf DEF MoreBlocks
    <3> QED BY <2>1, <2>3, <2>4, <3>1, PlacesOf, HoldsOf DEF MoreBlocks
  <2>5. CASE FirstBlock(s, conn[op.for], op)
    <3>1. s = <<>> /\ op.last = NULL
      BY <2>5 DEF FirstBlock
    <3> QED BY <3>1
  <2> QED BY <2>2, <2>4, <2>5
<1>6. ASSUME NEW d \in Connections, d # op.for PROVE Held(d)'
  <2>1. \A x \in Holds(d) : next'[x] = next[x]
    <3>1. \A x \in Holds(d) : x \in Created /\ x # b /\ x # op.last
      BY <1>1, <1>2, <1>5, <1>6 DEF Structure, Apart
    <3> QED BY <3>1
  <2>2. Idle(d) /\ Idle(d)'
    BY <1>1, <1>6 DEF Idle
  <2> QED BY <1>1, <1>3, <1>6, <2>1, <2>2, OthersHeld
<1>7. Held(op.for)'
  BY <1>1, TakerHeld
<1> QED BY <1>1, <1>4, <1>6, <1>7

LEMMA TakeFreeStep ==
  ASSUME Typed, Typed', Structure, TakeFree
  PROVE  Structure'
<1> DEFINE k == LowerBound(op.left)
           b == Head(pool[k])
<1>1. /\ op.kind = "allocate" /\ op.left > 0 /\ pool[k] # <<>>
      /\ pool' = [pool EXCEPT ![k] = Tail(@)]
      /\ next' = Linked(next, b)
      /\ UNCHANGED <<cap, used>> /\ Take(b)
  BY DEF TakeFree
<1>2. /\ k \in Classes /\ op.last \in Link
  BY <1>1, LoopTypes, LowerBoundIsClass DEF Typed
<1> HIDE DEF k
<1>3. /\ b \in FreeBlocks /\ cap[b] = k
      /\ FreeBlocks' = FreeBlocks \ {b}
      /\ OnceEach(pool')
  <2>1. OnceEach(pool)
    BY DEF Structure, Apart
  <2>2. FreeBlocks' = FreeIn(pool')
    BY HoldsOf
  <2>3. /\ pool \in [Classes -> Seq(Created)] /\ OwnSize(pool, cap)
        /\ FreeBlocks = FreeIn(pool)
    BY StateFacts
  <2>5. Popped(Created, pool, pool', k)
    BY <1>1, <1>2, <2>3, HeadTailProperties DEF Popped
  <2>4. pool[k] # <<>> /\ k \in Classes
    BY <1>1, <1>2
  <2>6. /\ b \in FreeIn(pool) /\ cap[b] = k
        /\ OnceEach(pool')
        /\ FreeIn(pool') = FreeIn(pool) \ {b}
    BY <2>1, <2>3, <2>4, <2>5, ListPopped
  <2> QED BY <2>2, <2>3, <2>6
<1> HIDE DEF b
<1>4. b \in Created /\ Created' = Created /\ b # NULL
  BY <1>1, <1>3, StateFacts DEF Created
<1>5. \A x \in Created : next'[x] = IF x = op.last THEN b ELSE next[x]
  BY <1>1, <1>2, StateFacts DEF Linked, Link
<1>6. b \notin forgotten /\ \A c \in Connections : b \notin Holds(c)
  BY <1>3 DEF Structure, Apart
<1>7. /\ \A c \in Connections : Held(c)'
      /\ \A c \in Connections : IsInjective(own'[c])
      /\ \A c \in Connections :
           Holds(c)' = IF c = op.for THEN Holds(c) \cup {b} ELSE Holds(c)
      /\ op.for \in Connections /\ forgotten' = forgotten
  <2>1. cap'[b] = LowerBound(op.left) /\ b \in Created' /\ Created \subseteq Created'
    BY <1>1, <1>3, <1>4 DEF k
  <2> QED BY <1>1, <1>4, <1>5, <1>6, <2>1, TakeHeld DEF Allocating
<1>8. Apart'
  BY <1>3, <1>6, <1>7 DEF Structure, Apart
<1>9. NothingLost'
  BY <1>3, <1>4, <1>7 DEF Structure, NothingLost
<1> QED BY <1>7, <1>8, <1>9 DEF Structure

LEMMA TakeNewStep ==
  ASSUME Typed, Typed', Structure, TakeNew
  PROVE  Structure'
<1> DEFINE k == LowerBound(op.left)
           b == Cardinality(Created) + 1
<1>1. /\ op.kind = "allocate" /\ op.left > 0
      /\ cap' = [x \in Created \cup {b} |-> IF x = b THEN k ELSE cap[x]]
      /\ next' = [x \in Created \cup {b} |->
                    IF x = b THEN NULL ELSE Linked(next, b)[x]]
      /\ UNCHANGED pool /\ Take(b)
  BY DEF TakeNew
<1>2. b \notin Created /\ Created' = Created \cup {b} /\ b # NULL
  BY <1>1, CreatedGrows DEF Created
<1>3. op.last \in Link
  BY <1>1, LoopTypes DEF Typed
<1> HIDE DEF k, b
<1>4. cap'[b] = k
  BY <1>1
<1>5. \A x \in Created : next'[x] = IF x = op.last THEN b ELSE next[x]
  BY <1>1, <1>2, <1>3, StateFacts DEF Linked, Link
<1>6. b \notin forgotten /\ b \notin FreeBlocks /\ \A c \in Connections : b \notin Holds(c)
  BY <1>2, StateFacts
<1>7. /\ \A c \in Connections : Held(c)'
      /\ \A c \in Connections : IsInjective(own'[c])
      /\ \A c \in Connections :
           Holds(c)' = IF c = op.for THEN Holds(c) \cup {b} ELSE Holds(c)
      /\ op.for \in Connections /\ forgotten' = forgotten
  <2>1. cap'[b] = LowerBound(op.left) /\ b \in Created' /\ Created \subseteq Created'
    BY <1>2, <1>4 DEF k
  <2> QED BY <1>1, <1>2, <1>5, <1>6, <2>1, TakeHeld DEF Allocating
<1>8. FreeBlocks' = FreeBlocks /\ pool' = pool
  BY <1>1 DEF FreeBlocks
<1>9. Apart'
  BY <1>6, <1>7, <1>8 DEF Structure, Apart
<1>10. NothingLost'
  BY <1>2, <1>7, <1>8 DEF Structure, NothingLost
<1> QED BY <1>7, <1>9, <1>10 DEF Structure

LEMMA AllocateReturnsStep ==
  ASSUME Typed, Typed', Structure, AllocateReturns
  PROVE  Structure'
<1>0. PICK c, s, x : c = op.for /\ s = own[c] /\ x = conn[c]
  OBVIOUS
<1>1. /\ op.kind = "allocate" /\ op.left = 0 /\ op' = None /\ c \in Connections
      /\ UNCHANGED <<pool, cap, used, aborted, history>>
  BY <1>0, LoopTypes DEF AllocateReturns, Typed
<1>2. /\ FreeBlocks' = FreeBlocks /\ Created' = Created /\ own' = own
      /\ forgotten' = forgotten
      /\ \A d \in Connections : Holds(d)' = Holds(d)
  BY <1>1 DEF FreeBlocks, Created, history, Holds
<1>3. Apart' /\ NothingLost'
  BY <1>1, <1>2 DEF Structure, Apart, NothingLost
<1>4. \A d \in Connections : Idle(d)' /\ (d # c => Idle(d))
  BY <1>0, <1>1 DEF Idle, Allocating, Freeing, None
<1>5. FirstBlock(s, x, op) \/ MoreBlocks(s, next, x, op)
  BY <1>0, <1>1 DEF Structure, Held, Allocating
<1>6. /\ s \in Seq(Created) /\ IsInjective(s) /\ s = own'[c] /\ ToSet(s) = Holds(c)
      /\ next \in [Created -> Created \cup {NULL}]
      /\ conn \in [Connections -> [open : BOOLEAN, buf : Link, read : Nat, length : Nat]]
  BY <1>0, <1>1, <1>2, StateFacts, HoldsOf DEF Structure, Apart
<1>7. CASE FirstBlock(s, x, op)
  <2>0. op.left = 0 /\ x.buf = NULL /\ Len(s) = 1 /\ op.first = Nth(s, 1)
    BY <1>1, <1>7 DEF FirstBlock
  <2>1. x.buf = NULL /\ Len(s) = 1 /\ op.first = s[1]
    BY <2>0 DEF Nth
  <2>2. next' = next /\ conn' = [conn EXCEPT ![c].buf = s[1]]
    BY <1>0, <2>1 DEF AllocateReturns
  <2>3. \A d \in Connections : conn'[d].buf = (IF d = c THEN s[1] ELSE conn[d].buf)
                               /\ conn'[d].length = conn[d].length
    BY <1>6, <2>2
  <2>4. Links(next, s, 1)
    BY <2>1 DEF Links
  <2>5. Resting(s, next', conn'[c])
    BY <1>1, <2>1, <2>2, <2>3, <2>4 DEF Resting, Nth
  <2>6. Held(c)'
    BY <1>1, <1>4, <1>6, <2>5 DEF Held, Idle
  <2>7. ASSUME NEW d \in Connections, d # c PROVE Held(d)'
    BY <1>2, <1>4, <2>2, <2>3, <2>7, OthersHeld
  <2> QED BY <1>3, <2>6, <2>7 DEF Structure
<1>8. CASE MoreBlocks(s, next, x, op)
  <2>1. /\ x.buf # NULL /\ x.length # 0 /\ Len(s) >= 1 /\ s[1] = x.buf
        /\ Links(next, s, 2) /\ op.first = Nth(s, 2) /\ Len(s) >= 2
    BY <1>1, <1>8 DEF MoreBlocks
  <2>2. op.first = s[2]
    BY <2>1 DEF Nth
  <2>3. next' = [next EXCEPT ![s[1]] = s[2]] /\ conn' = conn
    BY <1>0, <2>1, <2>2 DEF AllocateReturns
  <2>4. Len(s) \in Nat /\ (\A i \in 1 .. Len(s) : s[i] \in Created /\ s[i] \in ToSet(s))
        /\ \A i, j \in 1 .. Len(s) : s[i] = s[j] => i = j
    BY <1>6, PlacesOf
  <2>5. 1 \in 1 .. Len(s) /\ 2 \in 1 .. Len(s) /\ s[1] \in Created /\ s[1] \in Holds(c)
    BY <1>6, <2>1, <2>4
  <2>6. \A y \in Created : next'[y] = IF y = s[1] THEN s[2] ELSE next[y]
    BY <1>6, <2>3, <2>5
  <2>7. Links(next', s, 1)
    <3> SUFFICES ASSUME NEW j \in 1 .. (Len(s) - 1) PROVE next'[s[j]] = s[j + 1]
      BY DEF Links
    <3>0. j \in 1 .. Len(s) /\ s[j] \in Created
      BY <2>4
    <3>1. CASE j = 1
      BY <2>5, <2>6, <3>1
    <3>2. CASE j # 1
      <4>1. s[j] # s[1] /\ j \in 2 .. (Len(s) - 1)
        BY <2>4, <2>5, <3>0, <3>2
      <4> QED BY <2>1, <2>6, <3>0, <4>1 DEF Links
    <3> QED BY <3>1, <3>2
  <2>8. x.buf = Nth(s, 1)
    BY <2>1 DEF Nth
  <2>9. Resting(s, next', conn'[c])
    BY <1>0, <2>1, <2>3, <2>7, <2>8 DEF Resting
  <2>10. Held(c)'
    BY <1>1, <1>4, <1>6, <2>9 DEF Held, Idle
  <2>11. ASSUME NEW d \in Connections, d # c PROVE Held(d)'
    <3>1. \A y \in Holds(d) : y \in Created /\ y # s[1]
      BY <1>1, <2>5, <2>11, StateFacts DEF Structure, Apart
    <3>2. \A y \in Holds(d) : next'[y] = next[y]
      BY <2>6, <3>1
    <3> QED BY <1>2, <1>4, <2>3, <2>11, <3>2, OthersHeld
  <2> QED BY <1>3, <2>10, <2>11 DEF Structure
<1> QED BY <1>5, <1>7, <1>8

\* What has been taken is forgotten; a first block goes back by Free.
LEMMA AllocateFailsStep ==
  ASSUME Typed, Typed', Structure, AllocateFails
  PROVE  Structure'
<1>0. PICK c, s, x, kept : /\ c = op.for /\ s = own[c] /\ x = conn[c]
                           /\ kept = IF x.buf = NULL THEN <<>> ELSE <<x.buf>>
  OBVIOUS
<1>1. /\ op.kind = "allocate" /\ op.left > 0 /\ c \in Connections
      /\ op.left \in Nat
      /\ UNCHANGED <<pool, cap, used, conn, aborted>>
      /\ own' = [own EXCEPT ![c] = kept]
      /\ forgotten' = forgotten \cup (Holds(c) \ ToSet(kept))
  BY <1>0, LoopTypes DEF AllocateFails, Typed
<1>2. FirstBlock(s, x, op) \/ MoreBlocks(s, next, x, op)
  BY <1>0, <1>1 DEF Structure, Held, Allocating
<1>3. /\ s \in Seq(Created) /\ ToSet(s) = Holds(c)
      /\ next \in [Created -> Created \cup {NULL}]
      /\ own \in [Connections -> Seq(Created)]
  BY <1>0, <1>1, StateFacts, HoldsOf
<1>4. \A d \in Connections : own'[d] = IF d = c THEN kept ELSE own[d]
  BY <1>1, <1>3
<1>5. IsInjective(kept) /\ ToSet(kept) \subseteq Holds(c)
  <2>1. CASE x.buf = NULL
    BY <1>0, <2>1, SmallLists
  <2>2. CASE x.buf # NULL
    <3>1. MoreBlocks(s, next, x, op)
      BY <1>2, <2>2 DEF FirstBlock
    <3>2. s[1] = x.buf /\ Len(s) >= 1
      BY <3>1 DEF MoreBlocks
    <3>3. x.buf \in ToSet(s)
      BY <1>3, <3>2, PlacesOf
    <3> QED BY <1>0, <1>3, <2>2, <3>3, SmallLists
  <2> QED BY <2>1, <2>2
<1>6. /\ \A d \in Connections : Holds(d)' = IF d = c THEN ToSet(kept) ELSE Holds(d)
      /\ FreeBlocks' = FreeBlocks /\ Created' = Created /\ pool' = pool
  BY <1>1, <1>4, HoldsOf DEF FreeBlocks, Created
<1>7. Apart'
  <2>1. \A d \in Connections : IsInjective(own'[d])
    BY <1>4, <1>5 DEF Structure, Apart
  <2>2. \A d \in Connections : Holds(d)' \cap (FreeBlocks' \cup forgotten') = {}
    BY <1>1, <1>5, <1>6 DEF Structure, Apart
  <2>3. \A d, e \in Connections : d # e => Holds(d)' \cap Holds(e)' = {}
    BY <1>5, <1>6 DEF Structure, Apart
  <2>4. FreeBlocks' \cap forgotten' = {}
    BY <1>1, <1>6 DEF Structure, Apart
  <2>5. OnceEach(pool')
    BY <1>6 DEF Structure, Apart
  <2> QED BY <2>1, <2>2, <2>3, <2>4, <2>5 DEF Apart
<1>8. NothingLost'
  BY <1>1, <1>5, <1>6 DEF Structure, NothingLost
<1>9. \A d \in Connections : d # c => Idle(d) /\ Idle(d)'
  BY <1>0, <1>1 DEF Idle, Allocating, Freeing, None, AllocateFails, Free
<1>10. ASSUME NEW d \in Connections, d # c PROVE Held(d)'
  <2>1. \A y \in Holds(d) : next'[y] = next[y]
    <3>1. CASE x.buf = NULL
      BY <1>0, <3>1 DEF AllocateFails
    <3>2. CASE x.buf # NULL
      <4>1. next' = [next EXCEPT ![x.buf] = NULL]
        BY <1>0, <3>2 DEF AllocateFails
      <4>2. x.buf \in Holds(c)
        BY <1>0, <1>5, <3>2, SmallLists
      <4>3. \A y \in Holds(d) : y # x.buf /\ y \in Created
        BY <1>1, <1>10, <4>2, StateFacts DEF Structure, Apart
      <4> QED BY <1>3, <4>1, <4>3
    <3> QED BY <3>1, <3>2
  <2> QED BY <1>1, <1>4, <1>9, <1>10, <2>1, OthersHeld
<1>11. Held(c)'
  <2>1. CASE x.buf = NULL
    <3>1. op' = None /\ next' = next /\ kept = <<>>
      BY <1>0, <2>1 DEF AllocateFails
    <3>2. Resting(kept, next', conn[c])
      BY <1>0, <2>1, <3>1, EmptySeq DEF Resting, Links, Nth
    <3> QED BY <1>1, <1>4, <3>1, <3>2 DEF Held, Idle, Allocating, Freeing, None
  <2>2. CASE x.buf # NULL
    <3>1. op' = [kind |-> "free", for |-> c, at |-> x.buf] /\ kept = <<x.buf>>
      BY <1>0, <2>2 DEF AllocateFails, Free
    <3>2. op'.kind = "free" /\ op'.for = c /\ op'.at = x.buf
      BY <3>1
    <3>3. Emptying(kept, next', op')
      BY <3>1, <3>2, SmallLists DEF Emptying, Links, Nth
    <3> QED BY <1>1, <1>4, <3>2, <3>3 DEF Held, Idle, Allocating, Freeing
  <2> QED BY <2>1, <2>2
<1> QED BY <1>7, <1>8, <1>10, <1>11 DEF Structure
-----------------------------------------------------------------------------
(* Free, and the callbacks *)

\* A buffer without the first of its blocks.
LEMMA EmptyingGoesOn ==
  ASSUME NEW D, NULL \notin D, NEW s \in Seq(D), s # <<>>, NEW f, Links(f, s, 1),
         ~(Len(s) <= 1 /\ f[s[1]] # NULL)
  PROVE  f[s[1]] = Nth(Tail(s), 1) /\ Links(f, Tail(s), 1)
<1>1. PICK t, n : t = Tail(s) /\ n = Len(s)
  OBVIOUS
<1>2. /\ n \in Nat \ {0} /\ Len(t) = n - 1 /\ Len(s) = n
      /\ \A i \in 1 .. (n - 1) : t[i] = s[i + 1]
  BY <1>1, ListShrinks
<1>3. \A j \in 1 .. (n - 1) : f[s[j]] = s[j + 1]
  BY <1>2 DEF Links
<1>4. f[s[1]] = Nth(t, 1)
  <2>1. CASE n = 1
    <3>1. f[s[1]] = NULL /\ ~(Len(t) >= 1)
      BY <1>2, <2>1
    <3> QED BY <3>1 DEF Nth
  <2>2. CASE n # 1
    <3>1. 1 \in 1 .. (n - 1) /\ Len(t) >= 1
      BY <1>2, <2>2
    <3>2. f[s[1]] = s[1 + 1] /\ t[1] = s[1 + 1]
      BY <1>2, <1>3, <3>1
    <3> QED BY <3>1, <3>2 DEF Nth
  <2> QED BY <2>1, <2>2
<1>5. Links(f, t, 1)
  <2> SUFFICES ASSUME NEW j \in 1 .. (Len(t) - 1) PROVE f[t[j]] = t[j + 1]
    BY DEF Links
  <2>1. j \in 1 .. (n - 1) /\ j + 1 \in 1 .. (n - 1)
    BY <1>2
  <2>2. t[j] = s[j + 1] /\ t[j + 1] = s[j + 1 + 1] /\ f[s[j + 1]] = s[j + 1 + 1]
    BY <1>2, <1>3, <2>1
  <2> QED BY <2>2
<1> QED BY <1>1, <1>4, <1>5

LEMMA FreeBlockStep ==
  ASSUME Typed, Typed', Structure, FreeBlock, ~strayed'
  PROVE  Structure'
<1>0. PICK c, s, b : c = op.for /\ s = own[c] /\ b = op.at
  OBVIOUS
<1>1. /\ op.kind = "free" /\ b # NULL /\ c \in Connections
      /\ op \in [kind : {"free"}, for : Connections, at : Link]
      /\ op' = [op EXCEPT !.at = next[b]]
      /\ own' = [own EXCEPT ![c] = IF s = <<>> THEN <<>> ELSE Tail(s)]
      /\ pool' = [pool EXCEPT ![cap[b]] = Append(@, b)]
      /\ ~(Len(s) <= 1 /\ next[b] # NULL)
      /\ UNCHANGED <<cap, next, used, conn, aborted, forgotten>>
  BY <1>0, LoopTypes DEF FreeBlock, StaleNext, Typed
<1>2. Emptying(s, next, op)
  BY <1>0, <1>1 DEF Structure, Held, Freeing
<1>3. /\ s \in Seq(Created) /\ IsInjective(s) /\ ToSet(s) = Holds(c) /\ NULL \notin Created
      /\ own \in [Connections -> Seq(Created)]
  BY <1>0, <1>1, StateFacts, HoldsOf DEF Structure, Apart
<1>4. Len(s) \in Nat /\ Len(s) >= 1 /\ s # <<>> /\ b = s[1] /\ b \in Created
      /\ b \in Holds(c) /\ Links(next, s, 1)
  <2>1. b = Nth(s, 1) /\ Links(next, s, 1)
    BY <1>0, <1>2 DEF Emptying
  <2>2. Len(s) >= 1 /\ b = s[1]
    BY <1>1, <2>1 DEF Nth
  <2>3. Len(s) \in Nat /\ s # <<>>
    BY <1>3, <2>2, PlacesOf
  <2> QED BY <1>3, <2>1, <2>2, <2>3, ListShrinks
<1>5. IsInjective(Tail(s)) /\ ToSet(Tail(s)) = Holds(c) \ {b}
  BY <1>3, <1>4, ListShrinks
<1>6. \A d \in Connections : own'[d] = IF d = c THEN Tail(s) ELSE own[d]
  BY <1>1, <1>3, <1>4
<1>7. \A d \in Connections :
        /\ IsInjective(own'[d])
        /\ Holds(d)' = IF d = c THEN Holds(d) \ {b} ELSE Holds(d)
  BY <1>5, <1>6, HoldsOf DEF Structure, Apart
<1>8. OnceEach(pool') /\ FreeBlocks' = FreeBlocks \cup {b}
  <2>1. /\ pool \in [Classes -> Seq(Created)] /\ OwnSize(pool, cap) /\ OnceEach(pool)
        /\ FreeBlocks = FreeIn(pool) /\ FreeBlocks' = FreeIn(pool')
        /\ cap \in [Created -> Classes]
    BY StateFacts, HoldsOf DEF Structure, Apart
  <2>2. PICK k \in Classes : k = cap[b]
    BY <1>4, <2>1
  <2>3. Pushed(Created, pool, pool', k, b)
    BY <1>1, <1>4, <2>1, <2>2, AppendProperties DEF Pushed
  <2>4. b \notin FreeIn(pool)
    BY <1>1, <1>4, <2>1 DEF Structure, Apart
  <2>5. OwnSize(pool, cap) /\ cap[b] = k
    BY <2>1, <2>2
  <2>6. FreeIn(pool') = FreeIn(pool) \cup {b} /\ OnceEach(pool')
    <3>1. /\ OwnSize(pool', cap)
          /\ FreeIn(pool') = FreeIn(pool) \cup {b}
          /\ (b \notin FreeIn(pool) /\ OnceEach(pool) => OnceEach(pool'))
      BY ONLY <2>3, <2>5, ListPushed, k \in Classes
    <3> QED BY <2>1, <2>4, <3>1
  <2> QED BY <2>1, <2>6
<1>9. forgotten' = forgotten /\ Created' = Created /\ b \notin forgotten
      /\ \A d \in Connections : d # c => b \notin Holds(d)
  BY <1>1, <1>4 DEF Structure, Apart, Created
<1>10. Apart'
  BY <1>1, <1>4, <1>7, <1>8, <1>9 DEF Structure, Apart
<1>11. NothingLost'
  <2>1. \A y \in Created : \/ y \in FreeBlocks \cup forgotten
                           \/ \E d \in Connections : y \in Holds(d)
    BY DEF Structure, NothingLost
  <2>2. \A y \in Created : \/ y \in FreeBlocks' \cup forgotten'
                           \/ \E d \in Connections : y \in Holds(d)'
    BY <1>7, <1>8, <1>9, <2>1
  <2> QED BY <1>9, <2>2 DEF NothingLost
<1>12. op'.kind = "free" /\ op'.for = c /\ op'.at = next[b]
  BY <1>0, <1>1
<1>13. ASSUME NEW d \in Connections, d # c PROVE Held(d)'
  <2>1. Idle(d) /\ Idle(d)'
    BY <1>0, <1>12, <1>13 DEF Idle
  <2> QED BY <1>1, <1>6, <1>13, <2>1, OthersHeld
<1>14. Held(c)'
  <2>1. next[b] = Nth(Tail(s), 1) /\ Links(next, Tail(s), 1)
    BY <1>1, <1>3, <1>4, EmptyingGoesOn
  <2>2. Emptying(own'[c], next', op')
    BY <1>1, <1>6, <1>12, <2>1 DEF Emptying
  <2> QED BY <1>12, <2>2 DEF Held, Allocating, Freeing, Idle
<1> QED BY <1>10, <1>11, <1>13, <1>14 DEF Structure

LEMMA FreeReturnsStep ==
  ASSUME Typed, Typed', Structure, FreeReturns
  PROVE  Structure'
<1>0. PICK c, s : c = op.for /\ s = own[c]
  OBVIOUS
<1>1. /\ op.kind = "free" /\ op.at = NULL /\ c \in Connections /\ op' = None
      /\ conn' = [conn EXCEPT ![c] = Closed] /\ own' = [own EXCEPT ![c] = <<>>]
      /\ UNCHANGED <<pool, cap, next, used, aborted, forgotten>>
  BY <1>0, LoopTypes DEF FreeReturns, Typed
<1>2. /\ s \in Seq(Created) /\ NULL \notin Created
      /\ own \in [Connections -> Seq(Created)]
      /\ conn \in [Connections -> [open : BOOLEAN, buf : Link, read : Nat, length : Nat]]
  BY <1>0, <1>1, StateFacts
<1>3. s = <<>>
  <2>1. Nth(s, 1) = NULL
    BY <1>0, <1>1 DEF Structure, Held, Freeing, Emptying
  <2>2. Len(s) \in Nat /\ (Len(s) >= 1 => s[1] # NULL) /\ (s = <<>> <=> Len(s) = 0)
    BY <1>2, PlacesOf
  <2>3. ~(Len(s) >= 1)
    BY <2>1, <2>2 DEF Nth
  <2> QED BY <2>2, <2>3
<1>4. own' = own
  BY <1>0, <1>1, <1>2, <1>3
<1>5. /\ FreeBlocks' = FreeBlocks /\ Created' = Created /\ forgotten' = forgotten
      /\ \A d \in Connections : Holds(d)' = Holds(d)
  BY <1>1, <1>4 DEF FreeBlocks, Created, Holds
<1>6. Apart' /\ NothingLost'
  BY <1>1, <1>4, <1>5 DEF Structure, Apart, NothingLost
<1>7. \A d \in Connections : Idle(d)' /\ (d # c => Idle(d))
  BY <1>0, <1>1 DEF Idle, Allocating, Freeing, None
<1>8. \A d \in Connections : conn'[d] = IF d = c THEN Closed ELSE conn[d]
  BY <1>1, <1>2
<1>9. ASSUME NEW d \in Connections, d # c PROVE Held(d)'
  BY <1>1, <1>4, <1>7, <1>8, <1>9, OthersHeld
<1>10. Held(c)'
  <2>0. own'[c] = <<>>
    BY <1>0, <1>3, <1>4
  <2>3. conn'[c] = Closed /\ Closed.buf = NULL
    BY <1>1, <1>8 DEF Closed
  <2>1. own'[c] = <<>> /\ conn'[c].buf = NULL
    BY <2>0, <2>3
  <2>2. Resting(own'[c], next', conn'[c])
    BY <2>1, EmptySeq DEF Resting, Links, Nth
  <2> QED BY <1>1, <1>7, <2>2 DEF Held, Idle
<1> QED BY <1>6, <1>9, <1>10 DEF Structure

\* A callback moves no block: it starts a loop, or reads.
LEMMA CallbackStep ==
  ASSUME Typed, Typed', Structure, NEW c \in Connections,
         Open(c) \/ FirstRead(c) \/ HeaderRead(c) \/ BodyRead(c) \/ Close(c)
  PROVE  Structure'
<1>1. op = None /\ UNCHANGED <<pool, cap, next, used, history>>
  BY DEF Open, FirstRead, HeaderRead, BodyRead, Close, Running
<1>2. /\ FreeBlocks' = FreeBlocks /\ Created' = Created /\ own' = own
      /\ forgotten' = forgotten /\ next' = next
      /\ \A d \in Connections : Holds(d)' = Holds(d)
  BY <1>1 DEF FreeBlocks, Created, history, Holds
<1>3. Apart' /\ NothingLost'
  BY <1>1, <1>2 DEF Structure, Apart, NothingLost
<1>4. \A d \in Connections : Idle(d)
  BY <1>1 DEF Idle, Allocating, Freeing, None
<1>5. /\ own[c] \in Seq(Created) /\ NULL \notin Created
      /\ conn \in [Connections -> [open : BOOLEAN, buf : Link, read : Nat, length : Nat]]
  BY StateFacts
<1>6. Resting(own[c], next, conn[c])
  BY <1>4 DEF Structure, Held
<1>7. \A d \in Connections : d # c => conn'[d] = conn[d]
  BY <1>5 DEF Open, FirstRead, HeaderRead, BodyRead, Close
<1>8. \A d \in Connections : d # c => Idle(d)'
  <2>1. op' = None \/ op'.for = c
    <3>1. \A size : Allocate(c, size) => op'.for = c
      BY DEF Allocate
    <3>2. \A b : Free(c, b) => op'.for = c
      BY DEF Free
    <3>3. UNCHANGED op \/ (\E size : Allocate(c, size)) \/ (\E b : Free(c, b))
      BY DEF Open, FirstRead, HeaderRead, BodyRead, Close
    <3> QED BY <1>1, <3>1, <3>2, <3>3
  <2> QED BY <2>1 DEF Idle, Allocating, Freeing, None
<1>9. ASSUME NEW d \in Connections, d # c PROVE Held(d)'
  BY <1>2, <1>4, <1>7, <1>8, <1>9, OthersHeld
<1>10. Held(c)'
  <2>1. CASE Open(c) \/ BodyRead(c)
    <3>1. op' = None /\ conn'[c].buf = conn[c].buf /\ conn'[c].length = conn[c].length
      BY <1>1, <1>5, <2>1 DEF Open, BodyRead
    <3>2. Idle(c)'
      BY <3>1 DEF Idle, Allocating, Freeing, None
    <3> QED BY <1>2, <1>4, <3>1, <3>2, OthersHeld
  <2>2. CASE FirstRead(c)
    <3>1. /\ op'.kind = "allocate" /\ op'.for = c /\ op'.left = RecvBuf
          /\ op'.first = NULL /\ op'.last = NULL
      BY <2>2 DEF FirstRead, Allocate
    <3>2. conn' = conn /\ conn[c].buf = NULL
      BY <2>2 DEF FirstRead
    <3>3. own[c] = <<>> /\ Nth(own[c], 1) = NULL
      <4>1. Nth(own[c], 1) = NULL
        BY <1>6, <3>2 DEF Resting
      <4>2. Len(own[c]) \in Nat /\ (Len(own[c]) >= 1 => own[c][1] # NULL)
            /\ (own[c] = <<>> <=> Len(own[c]) = 0)
        BY <1>5, PlacesOf
      <4>3. ~(Len(own[c]) >= 1)
        BY <4>1, <4>2 DEF Nth
      <4> QED BY <4>1, <4>2, <4>3
    <3>4. RecvBuf # 0
      BY ConstantsAssumption
    <3>5. FirstBlock(own'[c], conn'[c], op')
      BY <1>2, <3>1, <3>2, <3>3, <3>4 DEF FirstBlock
    <3> QED BY <3>1, <3>5 DEF Held, Allocating, Freeing, Idle
  <2>3. CASE HeaderRead(c)
    <3>1. PICK length \in Lengths :
            \E n \in 1 .. (IF length < RecvBuf THEN length ELSE RecvBuf) :
              /\ conn' = [conn EXCEPT ![c].length = length, ![c].read = n]
              /\ IF length > RecvBuf THEN Allocate(c, length - RecvBuf)
                                     ELSE UNCHANGED op
      BY <2>3 DEF HeaderRead
    <3>2. conn[c].buf # NULL /\ conn[c].length = 0
      BY <2>3 DEF HeaderRead
    <3>3. length \in Nat \ {0} /\ RecvBuf \in Nat \ {0}
      BY ConstantsAssumption
    <3>4. conn'[c].buf = conn[c].buf /\ conn'[c].length = length
      BY <1>5, <3>1
    <3>5. conn'[c].length # 0
      BY <3>3, <3>4
    <3>6. CASE length > RecvBuf
      <4>1. /\ op'.kind = "allocate" /\ op'.for = c /\ op'.left = length - RecvBuf
            /\ op'.first = NULL /\ op'.last = NULL
        BY <3>1, <3>6 DEF Allocate
      <4>2. op'.left # 0
        BY <3>3, <3>6, <4>1
      <4>3. Len(own[c]) = 1 /\ conn[c].buf = Nth(own[c], 1)
        BY <1>6, <3>2 DEF Resting
      <4>4. own[c][1] = conn[c].buf /\ Nth(own[c], 2) = NULL /\ Links(next, own[c], 2)
        BY <4>3 DEF Nth, Links
      <4>5. MoreBlocks(own'[c], next', conn'[c], op')
        BY <1>2, <3>2, <3>4, <3>5, <4>1, <4>2, <4>3, <4>4 DEF MoreBlocks
      <4> QED BY <4>1, <4>5 DEF Held, Allocating, Freeing, Idle
    <3>7. CASE ~(length > RecvBuf)
      <4>1. op' = None
        BY <1>1, <3>1, <3>7
      <4>2. Idle(c)'
        BY <4>1 DEF Idle, Allocating, Freeing, None
      <4> QED BY <1>2, <1>4, <3>4, <3>5, <4>2, OthersHeld
    <3> QED BY <3>6, <3>7
  <2>4. CASE Close(c)
    <3>1. op'.kind = "free" /\ op'.for = c /\ op'.at = conn[c].buf
      BY <2>4 DEF Close, Free
    <3>2. Emptying(own'[c], next', op')
      BY <1>2, <1>6, <3>1 DEF Emptying, Resting
    <3> QED BY <3>1, <3>2 DEF Held, Allocating, Freeing, Idle
  <2> QED BY <2>1, <2>2, <2>3, <2>4
<1> QED BY <1>3, <1>9, <1>10 DEF Structure
-----------------------------------------------------------------------------
LEMMA InvariantInit == Init => IInv
<1> SUFFICES ASSUME Init PROVE Typed /\ Structure
  BY DEF IInv
<1>1. Typed
  BY TypingInit
<1>2. /\ pool = [k \in Classes |-> <<>>] /\ own = [c \in Connections |-> <<>>]
      /\ conn = [c \in Connections |-> Closed] /\ op = None /\ forgotten = {}
      /\ Created = {}
  BY DEF Init, Created
<1>3. \A c \in Connections : Holds(c) = {} /\ IsInjective(own[c])
  BY <1>2, SmallLists, HoldsOf
<1>4. OnceEach(pool)
  BY <1>2, SmallLists DEF OnceEach
<1>5. FreeBlocks = {}
  BY <1>1, <1>2, StateFacts
<1>6. Apart /\ NothingLost
  BY <1>2, <1>3, <1>4, <1>5 DEF Apart, NothingLost
<1>7. ASSUME NEW c \in Connections PROVE Held(c)
  <2>1. own[c] = <<>> /\ conn[c] = Closed /\ Closed.buf = NULL
    BY <1>2 DEF Closed
  <2>2. Resting(own[c], next, conn[c])
    BY <2>1, EmptySeq DEF Resting, Links, Nth
  <2>3. Idle(c)
    BY <1>2 DEF Idle, Allocating, Freeing, None
  <2> QED BY <2>2, <2>3 DEF Held, Idle
<1> QED BY <1>1, <1>6, <1>7 DEF Structure

LEMMA InvariantNext == IInv /\ [Next]_vars => IInv'
<1> SUFFICES ASSUME IInv, [Next]_vars PROVE IInv'
  OBVIOUS
<1>1. Typed /\ Typed'
  BY TypingNext DEF IInv
<1> SUFFICES ASSUME ~strayed' PROVE Structure'
  BY <1>1 DEF IInv
<1>2. ~strayed
  <2>1. strayed \in BOOLEAN
    BY <1>1 DEF Typed, TypeOK
  <2>2. UNCHANGED strayed \/ strayed' = (strayed \/ StaleNext)
    BY DEF Next, Loop, vars, history, TakeFree, TakeNew, Take, AllocateReturns,
           AllocateFails, FreeBlock, FreeReturns, Open, FirstRead, HeaderRead, BodyRead,
           Close
  <2> QED BY <2>1, <2>2
<1>3. Structure
  BY <1>2 DEF IInv
<1>4. CASE UNCHANGED vars
  <2>1. UNCHANGED <<pool, cap, next, used, conn, op, aborted, own, forgotten>>
    BY <1>4 DEF vars, history
  <2> QED BY <1>3, <2>1 DEF Structure, Apart, NothingLost, Held, FreeBlocks, Created,
                         Holds, Idle, Allocating, Freeing
<1>5. CASE TakeFree
  BY <1>1, <1>3, <1>5, TakeFreeStep
<1>6. CASE TakeNew
  BY <1>1, <1>3, <1>6, TakeNewStep
<1>7. CASE AllocateReturns
  BY <1>1, <1>3, <1>7, AllocateReturnsStep
<1>8. CASE AllocateFails
  BY <1>1, <1>3, <1>8, AllocateFailsStep
<1>9. CASE FreeBlock
  BY <1>1, <1>3, <1>9, FreeBlockStep
<1>10. CASE FreeReturns
  BY <1>1, <1>3, <1>10, FreeReturnsStep
<1>11. ASSUME NEW c \in Connections,
              Open(c) \/ FirstRead(c) \/ HeaderRead(c) \/ BodyRead(c) \/ Close(c)
       PROVE  Structure'
  BY <1>1, <1>3, <1>11, CallbackStep
<1> QED BY <1>4, <1>5, <1>6, <1>7, <1>8, <1>9, <1>10, <1>11 DEF Next, Loop

LEMMA InvariantIsExclusive == IInv => Exclusive
<1> SUFFICES ASSUME IInv, op = None, ~strayed
             PROVE  /\ \A c \in Connections : ChainIsOwn(c)
                    /\ Apart /\ NothingLost
  <2>1. \A k \in Classes : OnceEach(pool) => IsInjective(pool[k])
    BY DEF OnceEach
  <2> QED BY <2>1 DEF IInv, Typed, Exclusive, Apart, NothingLost
<1>1. Typed /\ Structure
  BY DEF IInv
<1>2. ASSUME NEW c \in Connections PROVE ChainIsOwn(c)
  <2>1. Resting(own[c], next, conn[c])
    BY <1>1, <1>2 DEF Structure, Held, Idle, Allocating, Freeing, None
  <2>2. Len(own[c]) \in Nat /\ (own[c] = <<>> <=> Len(own[c]) = 0)
    BY <1>1, StateFacts, PlacesOf
  <2>3. Nth(own[c], 1) = IF own[c] = <<>> THEN NULL ELSE own[c][1]
    BY <2>2 DEF Nth
  <2> QED BY <2>1, <2>3 DEF ChainIsOwn, Resting, Links
<1> QED BY <1>1, <1>2 DEF Structure
-----------------------------------------------------------------------------
(* The theorems *)

\* MemPool.TypeOK: the pool's variables have their types, and a free list holds blocks of
\* its own size.
THEOREM Typing == Spec => []TypeOK
<1>1. Init => Typed
  BY TypingInit
<1>2. Typed /\ [Next]_vars => Typed'
  BY TypingNext
<1>3. Typed => TypeOK
  BY DEF Typed
<1> QED BY <1>1, <1>2, <1>3, PTL DEF Spec

\* MemPool.MemoryBounded: Allocate asks for the limit before each block, so that the
\* pool never holds more than the limit and one block of the greatest size.
THEOREM Bounded == Spec => []MemoryBounded
<1>1. Init => Typed /\ MemoryBounded
  <2>1. Largest \in Nat
    BY LargestIsGreatest, ConstantsAssumption
  <2> QED BY <2>1, TypingInit, ConstantsAssumption DEF Init, MemoryBounded
<1>2. Typed /\ MemoryBounded /\ [Next]_vars => Typed' /\ MemoryBounded'
  BY TypingNext, LimitNext
<1> QED BY <1>1, <1>2, PTL DEF Spec

\* MemPool.Exclusive: between callbacks every buffer is the chain of the blocks it was
\* given, and each block is in one buffer or in one free list, once, or was forgotten by an
\* Allocate that failed, through any sequence of answers of one block or many, until Free
\* goes on from the last block of a buffer along a Next of an earlier life.
THEOREM Exclusivity == Spec => []Exclusive
BY InvariantInit, InvariantNext, InvariantIsExclusive, PTL DEF Spec
=============================================================================

---------------------------- MODULE LauncherProofs --------------------------
(* Theorems about the launcher, for every setting and every width of the counter. *)
EXTENDS Launcher, FiniteSetTheorems, TLAPS

-----------------------------------------------------------------------------
(* Sums over the threads.  The library's induction theorems take an operator as a *)
(* parameter; here what is shown by induction is a set of numbers, or of subsets, *)
(* and the set of the others would have a least element.                          *)

Below == {p \in Nat \X Nat : p[1] < p[2]}

LEMMA NatLeast ==
  ASSUME NEW T, T \subseteq Nat, T # {}
  PROVE  \E n \in T : \A m \in T : n <= m
<1>1. IsWellFoundedOn(Below, Nat)
  BY NatLessThanWellFounded DEF OpToRel, Below
<1>2. PICK n \in T : \A m \in T : <<m, n>> \notin Below
  BY <1>1, WFMin
<1>3. \A m \in T : ~(m < n)
  BY <1>2 DEF Below
<1> QED BY <1>3

\* Induction over the natural numbers.
LEMMA NatSetInduction ==
  ASSUME NEW P, 0 \in P, \A n \in Nat : n \in P => n + 1 \in P
  PROVE  \A n \in Nat : n \in P
<1> DEFINE Bad == Nat \ P
<1>1. SUFFICES ASSUME Bad # {} PROVE FALSE
  OBVIOUS
<1>2. PICK n \in Bad : \A m \in Bad : n <= m
  BY <1>1, NatLeast
<1>3. n - 1 \in Nat /\ n - 1 \notin Bad
  BY <1>2
<1>4. n - 1 + 1 \in P
  BY <1>3
<1> QED BY <1>2, <1>4

Chosen(s) == CHOOSE x \in s : TRUE

\* Induction over the subsets of a finite set.
LEMMA SubsetInduction ==
  ASSUME NEW S, IsFiniteSet(S), NEW P, {} \in P,
         \A s \in SUBSET S : s # {} /\ s \ {Chosen(s)} \in P => s \in P
  PROVE  \A s \in SUBSET S : s \in P
<1> DEFINE Good == {n \in Nat : \A s \in SUBSET S : Cardinality(s) = n => s \in P}
<1>1. \A s \in SUBSET S : IsFiniteSet(s) /\ Cardinality(s) \in Nat
  BY FS_Subset, FS_CardinalityType
<1>2. 0 \in Good
  BY <1>1, FS_EmptySet
<1>3. ASSUME NEW n \in Nat, n \in Good PROVE n + 1 \in Good
  <2> SUFFICES ASSUME NEW s \in SUBSET S, Cardinality(s) = n + 1 PROVE s \in P
    OBVIOUS
  <2>1. s # {}
    BY FS_EmptySet
  <2>2. Chosen(s) \in s
    BY <2>1 DEF Chosen
  <2>3. Cardinality(s \ {Chosen(s)}) = n
    BY <1>1, <2>2, FS_RemoveElement
  <2>4. s \ {Chosen(s)} \in P
    BY <1>3, <2>3
  <2> QED BY <2>1, <2>4
<1> HIDE DEF Good
<1>4. \A n \in Nat : n \in Good
  BY <1>2, <1>3, NatSetInduction
<1> QED BY <1>1, <1>4 DEF Good

Total(f, S) == MapThenSumSet(LAMBDA x : f[x], S)

\* The equation of the fold that Total is, on the sets of D.
Sums(f, D, g) ==
  g = [s \in D |-> IF s = {} THEN 0
                   ELSE LET x == CHOOSE x \in s : TRUE IN f[x] + g[s \ {x}]]

LEMMA SumsExist ==
  ASSUME NEW S, IsFiniteSet(S), NEW f \in [S -> Int]
  PROVE  \E g \in [SUBSET S -> Int] : Sums(f, SUBSET S, g)
<1> DEFINE UpTo(n) == {s \in SUBSET S : Cardinality(s) <= n}
           Good == {n \in Nat : \E g \in [UpTo(n) -> Int] : Sums(f, UpTo(n), g)}
<1>1. \A s \in SUBSET S : IsFiniteSet(s) /\ Cardinality(s) \in Nat
  BY FS_Subset, FS_CardinalityType
<1>2. \A s \in SUBSET S : s # {} =>
        /\ Chosen(s) \in s /\ s \ {Chosen(s)} \in SUBSET S
        /\ Cardinality(s \ {Chosen(s)}) = Cardinality(s) - 1
  BY <1>1, FS_RemoveElement DEF Chosen
<1>3. \A s \in SUBSET S : Cardinality(s) = 0 <=> s = {}
  BY <1>1, FS_EmptySet
<1>4. 0 \in Good
  <2>1. UpTo(0) = {{}}
    BY <1>1, <1>3, FS_EmptySet
  <2> DEFINE g == [s \in UpTo(0) |-> 0]
  <2>2. g \in [UpTo(0) -> Int] /\ Sums(f, UpTo(0), g)
    BY <2>1 DEF Sums
  <2> QED BY <2>2
<1>5. ASSUME NEW n \in Nat, n \in Good PROVE n + 1 \in Good
  <2>1. PICK h \in [UpTo(n) -> Int] : Sums(f, UpTo(n), h)
    BY <1>5
  <2>2. \A s \in UpTo(n) :
          h[s] = IF s = {} THEN 0 ELSE f[Chosen(s)] + h[s \ {Chosen(s)}]
    BY <2>1 DEF Sums, Chosen
  <2> DEFINE g == [s \in UpTo(n + 1) |->
                     IF s = {} THEN 0 ELSE f[Chosen(s)] + h[s \ {Chosen(s)}]]
  <2>3. UpTo(n) \subseteq UpTo(n + 1)
    BY <1>1
  <2>4. \A s \in UpTo(n + 1) : s # {} => s \ {Chosen(s)} \in UpTo(n)
    BY <1>1, <1>2
  <2>5. \A s \in UpTo(n + 1) : s # {} => f[Chosen(s)] \in Int
    BY <1>2
  <2> HIDE DEF UpTo
  <2>6. g \in [UpTo(n + 1) -> Int]
    BY <2>1, <2>4, <2>5
  <2>7. \A s \in UpTo(n) : g[s] = h[s]
    BY <2>2, <2>3
  <2>8. \A s \in UpTo(n + 1) :
          g[s] = IF s = {} THEN 0 ELSE f[Chosen(s)] + g[s \ {Chosen(s)}]
    BY <2>4, <2>7
  <2> HIDE DEF g
  <2>9. Sums(f, UpTo(n + 1), g)
    BY <2>6, <2>8 DEF Sums, Chosen
  <2> QED BY <2>6, <2>9
<1>6. Cardinality(S) \in Nat /\ UpTo(Cardinality(S)) = SUBSET S
  BY <1>1, FS_Subset
<1> HIDE DEF Good
<1>7. Cardinality(S) \in Good
  BY <1>4, <1>5, <1>6, NatSetInduction
<1> QED BY <1>6, <1>7 DEF Good

\* The sums over the subsets of S.
PartialSums(g, f, S) ==
  /\ g \in [SUBSET S -> Int]
  /\ g[{}] = 0
  /\ \A s \in SUBSET S : s # {} => /\ Chosen(s) \in s
                                   /\ g[s] = f[Chosen(s)] + g[s \ {Chosen(s)}]

LEMMA TotalIsFold ==
  ASSUME NEW S, IsFiniteSet(S), NEW f \in [S -> Int]
  PROVE  \E g : PartialSums(g, f, S) /\ Total(f, S) = g[S]
<1> DEFINE g == CHOOSE h : Sums(f, SUBSET S, h)
<1>1. Total(f, S) = g[S]
  BY DEF Total, MapThenSumSet, MapThenFoldSet, Sums
<1>2. PICK h \in [SUBSET S -> Int] : Sums(f, SUBSET S, h)
  BY SumsExist
<1>3. Sums(f, SUBSET S, g)
  BY <1>2
<1> HIDE DEF g
<1>4. DOMAIN g = SUBSET S /\ \A s \in SUBSET S :
        g[s] = IF s = {} THEN 0 ELSE f[Chosen(s)] + g[s \ {Chosen(s)}]
  BY <1>3 DEF Sums, Chosen
<1>5. \A s \in SUBSET S :
        h[s] = IF s = {} THEN 0 ELSE f[Chosen(s)] + h[s \ {Chosen(s)}]
  BY <1>2 DEF Sums, Chosen
<1> DEFINE P == {s \in SUBSET S : g[s] = h[s]}
<1>6. {} \in P
  BY <1>4, <1>5
<1>7. ASSUME NEW s \in SUBSET S, s # {}, s \ {Chosen(s)} \in P PROVE s \in P
  BY <1>4, <1>5, <1>7
<1> HIDE DEF P
<1>8. \A s \in SUBSET S : s \in P
  BY <1>6, <1>7, SubsetInduction
<1>9. \A s \in SUBSET S : g[s] = h[s]
  BY <1>8 DEF P
<1>10. \A s \in SUBSET S : s # {} => Chosen(s) \in s
  BY DEF Chosen
<1>11. S \in SUBSET S /\ {} \in SUBSET S
  OBVIOUS
<1> QED BY <1>1, <1>2, <1>5, <1>9, <1>10, <1>11 DEF PartialSums

LEMMA TotalIsNat ==
  ASSUME NEW S, IsFiniteSet(S), NEW f \in [S -> Nat]
  PROVE  Total(f, S) \in Nat
<1>0. f \in [S -> Int]
  OBVIOUS
<1>1. PICK g : PartialSums(g, f, S) /\ Total(f, S) = g[S]
  BY <1>0, TotalIsFold
<1> DEFINE P == {s \in SUBSET S : g[s] \in Nat}
<1>2. {} \in P
  BY <1>1 DEF PartialSums
<1>3. ASSUME NEW s \in SUBSET S, s # {}, s \ {Chosen(s)} \in P PROVE s \in P
  <2>1. f[Chosen(s)] \in Nat /\ g[s \ {Chosen(s)}] \in Nat
    BY <1>1, <1>3 DEF PartialSums
  <2> QED BY <1>1, <1>3, <2>1 DEF PartialSums
<1> HIDE DEF P
<1>4. S \in P
  BY <1>2, <1>3, SubsetInduction
<1> QED BY <1>1, <1>4 DEF P

LEMMA TotalOfZeros ==
  ASSUME NEW S, IsFiniteSet(S), NEW f \in [S -> Int], \A x \in S : f[x] = 0
  PROVE  Total(f, S) = 0
<1>1. PICK g : PartialSums(g, f, S) /\ Total(f, S) = g[S]
  BY TotalIsFold
<1> DEFINE P == {s \in SUBSET S : g[s] = 0}
<1>2. {} \in P
  BY <1>1 DEF PartialSums
<1>3. ASSUME NEW s \in SUBSET S, s # {}, s \ {Chosen(s)} \in P PROVE s \in P
  <2>1. f[Chosen(s)] = 0 /\ g[s \ {Chosen(s)}] = 0
    BY <1>1, <1>3 DEF PartialSums
  <2> QED BY <1>1, <1>3, <2>1 DEF PartialSums
<1> HIDE DEF P
<1>4. S \in P
  BY <1>2, <1>3, SubsetInduction
<1> QED BY <1>1, <1>4 DEF P

\* What a sum becomes when one of its terms changes.
LEMMA TotalOfChanged ==
  ASSUME NEW S, IsFiniteSet(S), NEW f \in [S -> Int], NEW e \in [S -> Int],
         NEW i \in S, NEW d \in Int,
         \A x \in S : e[x] = IF x = i THEN f[x] + d ELSE f[x]
  PROVE  Total(e, S) = Total(f, S) + d
<1>1. PICK g : PartialSums(g, f, S) /\ Total(f, S) = g[S]
  BY TotalIsFold
<1>2. PICK h : PartialSums(h, e, S) /\ Total(e, S) = h[S]
  BY TotalIsFold
<1> DEFINE P == {s \in SUBSET S : h[s] = IF i \in s THEN g[s] + d ELSE g[s]}
<1>3. {} \in P
  BY <1>1, <1>2 DEF PartialSums
<1>4. ASSUME NEW s \in SUBSET S, s # {}, s \ {Chosen(s)} \in P PROVE s \in P
  <2> DEFINE x == Chosen(s)
             r == s \ {x}
  <2>1. /\ x \in S /\ x \in s /\ r \in SUBSET S
        /\ g[s] = f[x] + g[r] /\ h[s] = e[x] + h[r]
        /\ h[r] = IF i \in r THEN g[r] + d ELSE g[r]
    BY <1>1, <1>2, <1>4 DEF PartialSums
  <2>2. i \in r <=> i \in s /\ x # i
    OBVIOUS
  <2>3. f[x] \in Int /\ g[r] \in Int /\ g[s] \in Int
    BY <1>1, <2>1 DEF PartialSums
  <2>4. e[x] = IF x = i THEN f[x] + d ELSE f[x]
    BY <2>1
  <2> HIDE DEF x, r
  <2>5. h[s] = IF i \in s THEN g[s] + d ELSE g[s]
    BY <2>1, <2>2, <2>3, <2>4
  <2> QED BY <2>5
<1> HIDE DEF P
<1>5. S \in P
  BY <1>3, <1>4, SubsetInduction
<1> QED BY <1>1, <1>2, <1>5 DEF P
-----------------------------------------------------------------------------
(* The inductive invariant *)

C == config.concurrency
T == config.threadNum
Dying == {t \in ThreadsOf : dying[t] # NotDying}

Launched == Total(launched, ThreadsOf)
Live == Total(live, ThreadsOf)
Leaving == Cardinality(Dying)

\* Tasks counted by main, and ends counted by the engine threads.
Counted == Launched + (IF pc.at = "launch" THEN 1 ELSE 0)
Stored == ended - Leaving

Committed == pc.at \in {"choose", "count", "store"}

Typed ==
  /\ TypeOK
  /\ pc.at = "store" => pc.read \in 0 .. (Wrap - 1)
  /\ dying \in [ThreadsOf -> -1 .. (Wrap - 1)]

Conserved == Live + ended = Launched /\ Leaving <= ended

\* An engine thread's store can set the counter back to nothing, and main may then
\* launch as many again: the tasks counted since the last such store are no more than
\* the counter shows.
Within(allowed) ==
  /\ Counted + (IF Committed THEN 1 ELSE 0) <= allowed + C
  /\ pc.at # "store" => Counted <= allowed + counter
  /\ pc.at = "store" => /\ Counted <= allowed + pc.read
                        /\ Counted + 1 <= allowed + ((pc.read + 1) % Wrap)
  /\ pc.at \in {"choose", "count"} /\ counter = Wrap - 1 => Counted + 1 <= allowed
Budget == Within(C * Stored)

\* While no store undid another the counter is exact.
Exact ==
  ~raced => /\ counter = Live + Leaving + (IF pc.at = "launch" THEN 1 ELSE 0)
            /\ counter <= C
            /\ Committed => counter < C

\* The tasks of thread t when q whole shares and r tasks more are launched.
Share(q, r, t) ==
  IF q < t THEN 0
  ELSE IF q = t THEN r
  ELSE IF q < t + T THEN load
  ELSE IF q = t + T THEN load + r
  ELSE 2 * load

\* The thread whose share comes after q whole ones.
Owner(q) == IF q < T THEN q ELSE q - T

At(q, r) ==
  /\ Launched = q * load + r
  /\ \A t \in ThreadsOf : launched[t] = Share(q, r, t)

Shares ==
  IF load = 0
  THEN Launched = 0 /\ launched = [t \in ThreadsOf |-> 0]
       /\ pc.at \in {"loop", "choose", "wait", "crashed"}
  ELSE \E q \in 0 .. (2 * T - 1), r \in 0 .. (load - 1) :
         /\ At(q, r)
         /\ pc.at \in {"count", "store", "launch"} => index = Owner(q)

InTurn ==
  ended = 0 => ~raced /\ (pc.at = "store" => pc.read = counter) /\ Shares

IInv == Typed /\ Conserved /\ (config.hls => Budget /\ Exact /\ InTurn)
-----------------------------------------------------------------------------
(* Numbers *)

LEMMA Quotient ==
  ASSUME NEW a \in Nat, NEW b \in Nat \ {0}
  PROVE  /\ a \div b \in Nat
         /\ b * (a \div b) <= a
         /\ a < b * (a \div b) + b
BY Z3

LEMMA QuotientIs ==
  ASSUME NEW q \in Nat, NEW b \in Nat \ {0}, NEW r \in 0 .. (b - 1)
  PROVE  (q * b + r) \div b = q
BY Z3

LEMMA Wraps ==
  ASSUME NEW n \in Nat, NEW w \in Nat \ {0}, n < w
  PROVE  n % w = n
BY Z3

LEMMA TakesTurn ==
  ASSUME NEW t \in Nat \ {0}, NEW q \in 0 .. (2 * t - 1)
  PROVE  q % t = IF q < t THEN q ELSE q - t
BY Z3

LEMMA Remainder ==
  ASSUME NEW n \in Int, NEW w \in Nat \ {0}
  PROVE  n % w \in 0 .. (w - 1)
BY Z3

LEMMA Times ==
  ASSUME NEW c \in Nat, NEW s \in Int
  PROVE  c * s \in Int /\ c * (s + 1) = c * s + c
OBVIOUS

LEMMA TimesGrows ==
  ASSUME NEW c \in Nat, NEW s \in Nat, NEW u \in Nat, s <= u
  PROVE  c * s <= c * u
BY Z3
-----------------------------------------------------------------------------
(* Threads and their tasks *)

LEMMA Setting ==
  ASSUME Typed
  PROVE  /\ C \in 0 .. (Wrap - 1) /\ T \in Nat \ {0} /\ Wrap \in Nat \ {0, 1}
         /\ config.hls \in BOOLEAN /\ (config.isDebug => C = 1)
         /\ IsFiniteSet(ThreadsOf)
<1>1. /\ C \in 0 .. (Wrap - 1) /\ T \in Nat \ {0} /\ Wrap \in Nat \ {0, 1}
      /\ config.hls \in BOOLEAN /\ (config.isDebug => C = 1)
  BY ConstantsAssumption DEF Typed, TypeOK, C, T
<1>2. IsFiniteSet(0 .. (T - 1))
  BY <1>1, FS_Interval
<1> QED BY <1>1, <1>2 DEF ThreadsOf, T

LEMMA CountIsTotal ==
  \A f : Count(f) = Total(f, ThreadsOf)
BY DEF Count, Total

LEMMA SumsAreNats ==
  ASSUME Typed
  PROVE  Launched \in Nat /\ Live \in Nat
BY Setting, TotalIsNat DEF Typed, TypeOK, Launched, Live

\* The sum of the tasks when one thread has d more.
LEMMA OneThreadChanges ==
  ASSUME NEW S, IsFiniteSet(S), NEW f \in [S -> Nat], NEW i \in S, NEW d \in {-1, 1},
         NEW e, e = [f EXCEPT ![i] = @ + d]
  PROVE  Total(e, S) = Total(f, S) + d
<1>1. f \in [S -> Int] /\ e \in [S -> Int] /\ d \in Int
  OBVIOUS
<1>2. \A x \in S : e[x] = IF x = i THEN f[x] + d ELSE f[x]
  OBVIOUS
<1> QED BY ONLY <1>1, <1>2, IsFiniteSet(S), i \in S, TotalOfChanged

LEMMA LeavingIsNat ==
  ASSUME Typed
  PROVE  IsFiniteSet(Dying) /\ Leaving \in Nat
BY Setting, FS_Subset, FS_CardinalityType DEF Dying, Leaving

LEMMA NoneLeaving ==
  ASSUME Typed, Leaving <= 0
  PROVE  \A t \in ThreadsOf : dying[t] = NotDying
<1>1. IsFiniteSet(Dying) /\ Leaving \in Nat
  BY LeavingIsNat
<1>2. Dying = {}
  BY <1>1, FS_EmptySet DEF Leaving
<1> QED BY <1>2 DEF Dying
-----------------------------------------------------------------------------
(* The steps, the two halves of each count apart *)

CountReads == CountTask /\ pc.at = "count"
CountStores == CountTask /\ pc.at = "store"
EndReads(t) == TaskEnds(t) /\ dying[t] = NotDying
EndStores(t) == TaskEnds(t) /\ dying[t] # NotDying

LEMMA Kinds ==
  ASSUME Next
  PROVE  \/ Loop \/ Choose \/ CountReads \/ CountStores \/ Launch
         \/ \E t \in ThreadsOf : EndReads(t) \/ EndStores(t)
BY DEF Next, Main, CountReads, CountStores, EndReads, EndStores, CountTask

LEMMA SettingKept ==
  ASSUME [Next]_vars
  PROVE  config' = config /\ C' = C /\ T' = T /\ load' = load /\ ThreadsOf' = ThreadsOf
<1>1. config' = config
  BY DEF Next, Main, Loop, Choose, CountTask, Launch, TaskEnds, vars
<1> QED BY <1>1 DEF C, T, load, ThreadsOf

LEMMA TypedInit ==
  ASSUME Init
  PROVE  Typed
<1>1. config.threadNum \in Nat \ {0} /\ Wrap \in Nat \ {0, 1}
  BY ConstantsAssumption DEF Init
<1>2. 0 \in ThreadsOf
  BY <1>1 DEF ThreadsOf
<1>3. -1 \in -1 .. (Wrap - 1) /\ 0 \in 0 .. (Wrap - 1)
  BY <1>1
<1>4. dying = [t \in ThreadsOf |-> -1]
  BY DEF Init, NotDying
<1>5. dying \in [ThreadsOf -> -1 .. (Wrap - 1)]
  BY <1>3, <1>4
<1>6. TypeOK
  <2>1. /\ launched \in [ThreadsOf -> Nat] /\ live \in [ThreadsOf -> Nat]
        /\ dying \in [ThreadsOf -> Int]
    BY <1>4 DEF Init
  <2>2. pc.at = "loop"
    BY DEF Init
  <2> QED BY <1>2, <1>3, <2>1, <2>2 DEF Init, TypeOK
<1> QED BY <1>5, <1>6 DEF Init, Typed

LEMMA TypedStep ==
  ASSUME Typed, [Next]_vars
  PROVE  Typed'
<1> USE DEF Typed, TypeOK
<1>0. config' = config /\ T' = T /\ ThreadsOf' = ThreadsOf
  BY SettingKept
<1>1. Wrap \in Nat \ {0, 1} /\ T \in Nat \ {0} /\ C \in 0 .. (Wrap - 1)
  BY Setting
<1>2. CASE Loop
  BY <1>0, <1>2 DEF Loop
<1>3. CASE Choose
  <2>1. CASE load = 0
    BY <1>0, <1>3, <2>1 DEF Choose
  <2>2. CASE load # 0
    <3>1. load \in Nat \ {0}
      BY <1>1, <2>2, Quotient DEF load, C, T
    <3>2. counter \div load \in Nat
      BY <3>1, Quotient
    <3>3. PICK n \in Nat : n = counter \div load
      BY <3>2, Zenon
    <3>4. (n % T) \in 0 .. (T - 1)
      BY <1>1, Remainder
    <3>5. index' \in ThreadsOf
      BY <1>3, <2>2, <3>3, <3>4 DEF Choose, ThreadsOf, T
    <3> QED BY <1>0, <1>3, <2>2, <3>5 DEF Choose
  <2> QED BY <2>1, <2>2
<1>4. CASE CountReads
  BY <1>0, <1>4 DEF CountReads, CountTask
<1>5. CASE CountStores
  <2>1. pc.read + 1 \in Int
    BY <1>1, <1>5 DEF CountStores
  <2>2. (pc.read + 1) % Wrap \in 0 .. (Wrap - 1)
    BY <1>1, <2>1, Remainder
  <2> QED BY <1>0, <1>5, <2>2 DEF CountStores, CountTask, Store
<1>6. CASE Launch
  BY <1>0, <1>6 DEF Launch
<1>7. ASSUME NEW t \in ThreadsOf, EndReads(t) PROVE Typed'
  BY <1>0, <1>7 DEF EndReads, TaskEnds
<1>8. ASSUME NEW t \in ThreadsOf, EndStores(t) PROVE Typed'
  <2>1. dying[t] - 1 \in Int
    BY <1>1
  <2>2. (dying[t] - 1) % Wrap \in 0 .. (Wrap - 1)
    BY <1>1, <2>1, Remainder
  <2>3. /\ counter' \in 0 .. (Wrap - 1) /\ raced' \in BOOLEAN
        /\ pc' = pc /\ index' = index /\ launched' = launched /\ live' = live
        /\ ended' = ended
    BY <1>8, <2>2 DEF EndStores, TaskEnds, Store
  <2>4. dying' = [dying EXCEPT ![t] = -1] /\ -1 \in -1 .. (Wrap - 1)
    BY <1>1, <1>8 DEF EndStores, TaskEnds, NotDying
  <2>5. dying' \in [ThreadsOf -> -1 .. (Wrap - 1)] /\ dying' \in [ThreadsOf -> Int]
    BY <2>4
  <2> QED BY <1>0, <2>3, <2>5
<1>9. CASE UNCHANGED vars
  BY <1>0, <1>9 DEF vars
<1> QED BY <1>2, <1>3, <1>4, <1>5, <1>6, <1>7, <1>8, <1>9, Kinds
-----------------------------------------------------------------------------
(* What each step does to the numbers *)

LEMMA LaunchAdds ==
  ASSUME Typed, [Next]_vars, Launch
  PROVE  Launched' = Launched + 1 /\ Live' = Live + 1 /\ Leaving' = Leaving
<1>0. ThreadsOf' = ThreadsOf
  BY SettingKept
<1>1. IsFiniteSet(ThreadsOf) /\ index \in ThreadsOf
  BY Setting DEF Typed, TypeOK
<1>2. launched \in [ThreadsOf -> Nat] /\ live \in [ThreadsOf -> Nat]
  BY DEF Typed, TypeOK
<1>3. launched' = [launched EXCEPT ![index] = @ + 1]
  BY DEF Launch
<1>4. live' = [live EXCEPT ![index] = @ + 1]
  BY DEF Launch
<1>5. Total(launched', ThreadsOf) = Total(launched, ThreadsOf) + 1
  BY <1>1, <1>2, <1>3, OneThreadChanges
<1>6. Total(live', ThreadsOf) = Total(live, ThreadsOf) + 1
  BY <1>1, <1>2, <1>4, OneThreadChanges
<1>7. dying' = dying
  BY DEF Launch
<1> QED BY <1>0, <1>5, <1>6, <1>7 DEF Launched, Live, Leaving, Dying

LEMMA EndBegins ==
  ASSUME Typed, [Next]_vars, NEW t \in ThreadsOf, EndReads(t)
  PROVE  /\ Launched' = Launched /\ Live' = Live - 1 /\ Leaving' = Leaving + 1
         /\ ended' = ended + 1
<1>0. ThreadsOf' = ThreadsOf
  BY SettingKept
<1>1. IsFiniteSet(ThreadsOf) /\ live \in [ThreadsOf -> Nat]
  BY Setting DEF Typed, TypeOK
<1>2. live' = [live EXCEPT ![t] = @ + -1]
  BY <1>1 DEF EndReads, TaskEnds
<1>3. Total(live', ThreadsOf) = Total(live, ThreadsOf) - 1
  <2>1. Total(live', ThreadsOf) = Total(live, ThreadsOf) + -1
    BY <1>1, <1>2, OneThreadChanges
  <2>2. Total(live, ThreadsOf) \in Nat
    BY SumsAreNats DEF Live
  <2> QED BY <2>1, <2>2
<1>4. Dying' = Dying \cup {t} /\ t \notin Dying
  BY <1>0 DEF EndReads, TaskEnds, Dying, Typed, TypeOK, NotDying
<1>5. Leaving' = Leaving + 1
  BY <1>4, LeavingIsNat, FS_AddElement DEF Leaving
<1>6. launched' = launched /\ ended' = ended + 1
  BY DEF EndReads, TaskEnds
<1> QED BY <1>0, <1>3, <1>5, <1>6 DEF Launched, Live

LEMMA EndFinishes ==
  ASSUME Typed, [Next]_vars, NEW t \in ThreadsOf, EndStores(t)
  PROVE  /\ Launched' = Launched /\ Live' = Live /\ Leaving' = Leaving - 1
         /\ Leaving >= 1 /\ ended' = ended
<1>0. ThreadsOf' = ThreadsOf
  BY SettingKept
<1>1. launched' = launched /\ live' = live /\ ended' = ended
  BY DEF EndStores, TaskEnds
<1>2. Dying' = Dying \ {t} /\ t \in Dying
  BY <1>0 DEF EndStores, TaskEnds, Dying, Typed, TypeOK, NotDying
<1>3. Leaving' = Leaving - 1
  BY <1>2, LeavingIsNat, FS_RemoveElement DEF Leaving
<1>4. Leaving >= 1
  <2>1. Leaving \in Nat
    BY LeavingIsNat
  <2>2. Leaving # 0
    BY <1>2, LeavingIsNat, FS_EmptySet DEF Leaving
  <2> QED BY <2>1, <2>2
<1> QED BY <1>0, <1>1, <1>3, <1>4 DEF Launched, Live

LEMMA OthersKeep ==
  ASSUME [Next]_vars, Loop \/ Choose \/ CountReads \/ CountStores \/ UNCHANGED vars
  PROVE  /\ Launched' = Launched /\ Live' = Live /\ Leaving' = Leaving
         /\ ended' = ended /\ launched' = launched /\ dying' = dying
<1>0. ThreadsOf' = ThreadsOf
  BY SettingKept
<1>1. launched' = launched /\ live' = live /\ dying' = dying /\ ended' = ended
  BY DEF Loop, Choose, CountReads, CountStores, CountTask, vars
<1> QED BY <1>0, <1>1 DEF Launched, Live, Leaving, Dying

LEMMA ConservedStep ==
  ASSUME Typed, Conserved, [Next]_vars
  PROVE  Conserved'
<1> USE DEF Conserved
<1>0. Launched \in Nat /\ Live \in Nat /\ Leaving \in Nat /\ ended \in Nat
  BY SumsAreNats, LeavingIsNat DEF Typed, TypeOK
<1>1. CASE Launch
  <2>1. ended' = ended
    BY <1>1 DEF Launch
  <2> QED BY <1>0, <1>1, <2>1, LaunchAdds
<1>2. ASSUME NEW t \in ThreadsOf, EndReads(t) PROVE Conserved'
  BY <1>0, <1>2, EndBegins
<1>3. ASSUME NEW t \in ThreadsOf, EndStores(t) PROVE Conserved'
  BY <1>0, <1>3, EndFinishes
<1>4. CASE Loop \/ Choose \/ CountReads \/ CountStores \/ UNCHANGED vars
  BY <1>4, OthersKeep
<1> QED BY <1>1, <1>2, <1>3, <1>4, Kinds

LEMMA Numbers ==
  ASSUME Typed
  PROVE  /\ Launched \in Nat /\ Live \in Nat /\ Leaving \in Nat /\ ended \in Nat
         /\ Counted \in Nat /\ Stored \in Int
         /\ counter \in 0 .. (Wrap - 1)
         /\ pc.at = "store" => pc.read \in 0 .. (Wrap - 1)
         /\ C \in 0 .. (Wrap - 1) /\ Wrap \in Nat /\ Wrap > 1
         /\ \A n \in 0 .. (Wrap - 1) : n % Wrap = n
         /\ \A n \in Int : n % Wrap \in 0 .. (Wrap - 1)
<1>1. /\ Launched \in Nat /\ Live \in Nat /\ Leaving \in Nat /\ ended \in Nat
      /\ counter \in 0 .. (Wrap - 1)
      /\ pc.at = "store" => pc.read \in 0 .. (Wrap - 1)
  BY SumsAreNats, LeavingIsNat DEF Typed, TypeOK
<1>2. C \in 0 .. (Wrap - 1) /\ Wrap \in Nat /\ Wrap > 1
  BY Setting
<1>3. \A n \in 0 .. (Wrap - 1) : n % Wrap = n
  BY <1>2, Wraps
<1>4. \A n \in Int : n % Wrap \in 0 .. (Wrap - 1)
  BY <1>2, Remainder
<1>5. Counted \in Nat /\ Stored \in Int
  BY <1>1 DEF Counted, Stored
<1> QED BY <1>1, <1>2, <1>3, <1>4, <1>5

LEMMA NumbersInit ==
  ASSUME Init
  PROVE  Launched = 0 /\ Live = 0 /\ Leaving = 0 /\ ended = 0
<1>1. Typed
  BY TypedInit
<1>2. launched \in [ThreadsOf -> Int] /\ live \in [ThreadsOf -> Int]
  BY <1>1 DEF Typed, TypeOK
<1>3. (\A t \in ThreadsOf : launched[t] = 0) /\ (\A t \in ThreadsOf : live[t] = 0)
  BY DEF Init
<1>4. Launched = 0 /\ Live = 0
  BY <1>1, <1>2, <1>3, Setting, TotalOfZeros DEF Launched, Live
<1>5. Dying = {}
  BY DEF Init, Dying
<1>6. Leaving = 0
  BY <1>5, FS_EmptySet DEF Leaving
<1> QED BY <1>4, <1>6 DEF Init

LEMMA BudgetInit ==
  ASSUME Init
  PROVE  Budget
<1>1. Typed
  BY TypedInit
<1>2. Launched = 0
  BY NumbersInit
<1>3. Stored = 0
  BY NumbersInit DEF Stored
<1>4. C * Stored = 0 /\ C \in Nat
  BY <1>1, <1>3, Setting
<1>5. Counted = 0 /\ ~Committed /\ pc.at = "loop" /\ counter = 0
  BY <1>2 DEF Counted, Committed, Init
<1> QED BY <1>4, <1>5 DEF Budget, Within

LEMMA BudgetStep ==
  ASSUME Typed, Budget, config.hls, [Next]_vars
  PROVE  Budget'
<1>0. TypeOK /\ C' = C
  BY SettingKept DEF Typed
<1>1. PICK p \in Int : p = C * Stored
  BY Numbers, Times
<1>2. Within(p)
  BY <1>1 DEF Budget
<1>3. Stored' = Stored => C' * Stored' = p
  BY <1>0, <1>1
<1>4. Stored' = Stored + 1 => C' * Stored' = p + C
  BY <1>0, <1>1, Numbers, Times
<1>5. CASE Loop
  <2>1. Counted' = Counted /\ Stored' = Stored
    BY <1>5, OthersKeep DEF Counted, Stored, Loop
  <2>2. Within(p)'
    <3>1. pc.at = "loop" /\ counter' = counter
      BY <1>5 DEF Loop
    <3>2. pc'.at = "wait" \/ (pc'.at = "choose" /\ counter < C)
      BY <1>5 DEF Loop, C
    <3>3. ~Committed /\ (Committed' <=> pc'.at = "choose")
      BY <3>1, <3>2 DEF Committed
    <3>4. /\ Counted \in Nat /\ counter \in Nat /\ C \in Nat /\ Wrap \in Nat
          /\ C < Wrap
      BY Numbers
    <3>5. Counted <= p + C /\ Counted <= p + counter
      BY <1>2, <3>1, <3>3, <3>4 DEF Within
    <3>6. CASE pc'.at = "wait"
      BY <1>0, <2>1, <3>1, <3>3, <3>4, <3>5, <3>6 DEF Within
    <3>7. CASE pc'.at = "choose" /\ counter < C
      BY <1>0, <2>1, <3>1, <3>3, <3>4, <3>5, <3>7 DEF Within
    <3> QED BY <3>2, <3>6, <3>7
  <2> QED BY <1>3, <2>1, <2>2 DEF Budget
<1>6. CASE Choose
  <2>1. Counted' = Counted /\ Stored' = Stored
    BY <1>6, OthersKeep DEF Counted, Stored, Choose
  <2>2. Within(p)'
    BY <1>0, <1>2, <1>6, <2>1, Numbers DEF Within, Committed, Choose
  <2> QED BY <1>3, <2>1, <2>2 DEF Budget
<1>7. CASE CountReads
  <2>1. Counted' = Counted /\ Stored' = Stored
    BY <1>7, OthersKeep DEF Counted, Stored, CountReads, CountTask
  <2>2. counter # Wrap - 1 => (counter + 1) % Wrap = counter + 1
    BY Numbers
  <2>3. (counter + 1) % Wrap \in 0 .. (Wrap - 1)
    BY Numbers
  <2>4. pc.at = "count" /\ pc' = [at |-> "store", read |-> counter] /\ counter' = counter
    BY <1>7 DEF CountReads, CountTask
  <2>5. Within(p)'
    BY <1>0, <1>2, <2>1, <2>2, <2>3, <2>4, Numbers DEF Within, Committed
  <2> QED BY <1>3, <2>1, <2>5 DEF Budget
<1>8. CASE CountStores
  <2>1. Counted' = Counted + 1 /\ Stored' = Stored
    BY <1>8, OthersKeep, Numbers DEF Counted, Stored, CountStores, CountTask
  <2>2. pc.at = "store" /\ pc' = [at |-> "launch"] /\ counter' = (pc.read + 1) % Wrap
    BY <1>8 DEF CountStores, CountTask, Store
  <2>3. Within(p)'
    BY <1>0, <1>2, <2>1, <2>2, Numbers DEF Within, Committed
  <2> QED BY <1>3, <2>1, <2>3 DEF Budget
<1>9. CASE Launch
  <2>1. pc.at = "launch" /\ pc'.at \in {"wait", "loop"} /\ counter' = counter
    BY <1>9 DEF Launch
  <2>2. ended' = ended
    BY <1>9 DEF Launch
  <2>3. Counted' = Counted /\ Stored' = Stored
    BY <1>9, <2>1, <2>2, LaunchAdds, Numbers DEF Counted, Stored
  <2>4. Within(p)'
    BY <1>0, <1>2, <2>1, <2>3, Numbers DEF Within, Committed
  <2> QED BY <1>3, <2>3, <2>4 DEF Budget
<1>10. ASSUME NEW t \in ThreadsOf, EndReads(t) PROVE Budget'
  <2>1. pc' = pc /\ counter' = counter
    BY <1>10 DEF EndReads, TaskEnds
  <2>2. Counted' = Counted /\ Stored' = Stored
    <3>1. Launched' = Launched /\ Leaving' = Leaving + 1 /\ ended' = ended + 1
      BY <1>10, EndBegins
    <3>2. Leaving \in Nat /\ ended \in Nat
      BY Numbers
    <3> QED BY <2>1, <3>1, <3>2 DEF Counted, Stored
  <2>3. Within(p)'
    BY <1>0, <1>2, <2>1, <2>2 DEF Within, Committed
  <2> QED BY <1>3, <2>2, <2>3 DEF Budget
<1>11. ASSUME NEW t \in ThreadsOf, EndStores(t) PROVE Budget'
  <2>1. pc' = pc /\ counter' \in 0 .. (Wrap - 1)
    <3>1. Typed'
      BY TypedStep
    <3> QED BY <1>11, <3>1 DEF EndStores, TaskEnds, Typed, TypeOK
  <2>2. Counted' = Counted /\ Stored' = Stored + 1
    <3>1. Launched' = Launched /\ Leaving' = Leaving - 1 /\ ended' = ended
      BY <1>11, EndFinishes
    <3>2. Leaving \in Nat /\ ended \in Nat
      BY Numbers
    <3> QED BY <2>1, <3>1, <3>2 DEF Counted, Stored
  <2>3. Within(p + C)'
    BY <1>0, <1>2, <2>1, <2>2, Numbers DEF Within, Committed
  <2>4. Within(C * Stored)'
    BY <1>0, <1>4, <2>2, <2>3
  <2> QED BY <2>4 DEF Budget
<1>12. CASE UNCHANGED vars
  <2>1. pc' = pc /\ counter' = counter
    BY <1>12 DEF vars
  <2>2. Counted' = Counted /\ Stored' = Stored
    BY <1>12, <2>1, OthersKeep DEF Counted, Stored
  <2>3. Within(p)'
    BY <1>0, <1>2, <2>1, <2>2 DEF Within, Committed
  <2> QED BY <1>3, <2>2, <2>3 DEF Budget
<1> QED BY <1>5, <1>6, <1>7, <1>8, <1>9, <1>10, <1>11, <1>12, Kinds

LEMMA ExactInit ==
  ASSUME Init
  PROVE  Exact
<1>1. C \in Nat
  BY TypedInit, Setting
<1>2. pc.at = "loop" /\ counter = 0
  BY DEF Init
<1> QED BY <1>1, <1>2, NumbersInit DEF Exact, Committed

LEMMA ExactStep ==
  ASSUME Typed, Exact, config.hls, [Next]_vars
  PROVE  Exact'
<1>0. /\ Live \in Nat /\ Leaving \in Nat /\ counter \in Nat
      /\ C \in Nat /\ C < Wrap /\ Wrap \in Nat
  BY Numbers
<1>1. C' = C
  BY SettingKept
<1>2. CASE Loop
  <2>1. pc.at = "loop" /\ counter' = counter /\ raced' = raced
    BY <1>2 DEF Loop
  <2>2. pc'.at = "wait" \/ (pc'.at = "choose" /\ counter < C)
    BY <1>2 DEF Loop, C
  <2>3. Live' = Live /\ Leaving' = Leaving
    BY <1>2, OthersKeep
  <2> QED BY <1>0, <1>1, <2>1, <2>2, <2>3 DEF Exact, Committed
<1>3. CASE Choose
  <2>1. /\ pc.at = "choose" /\ counter' = counter /\ raced' = raced
        /\ pc'.at \in {"crashed", "count"}
    BY <1>3 DEF Choose
  <2>2. Live' = Live /\ Leaving' = Leaving
    BY <1>3, OthersKeep
  <2> QED BY <1>0, <1>1, <2>1, <2>2 DEF Exact, Committed
<1>4. CASE CountReads
  <2>1. pc.at = "count" /\ counter' = counter /\ raced' = raced /\ pc'.at = "store"
    BY <1>4 DEF CountReads, CountTask
  <2>2. Live' = Live /\ Leaving' = Leaving
    BY <1>4, OthersKeep
  <2> QED BY <1>0, <1>1, <2>1, <2>2 DEF Exact, Committed
<1>5. CASE CountStores
  <2>1. /\ pc.at = "store" /\ pc'.at = "launch"
        /\ counter' = (pc.read + 1) % Wrap
        /\ ~raced' => ~raced /\ counter = pc.read
    <3>1. pc.at = "store" /\ pc' = [at |-> "launch"] /\ Store(pc.read, pc.read + 1)
      BY <1>5 DEF CountStores, CountTask
    <3> QED BY <3>1 DEF Store
  <2>2. Live' = Live /\ Leaving' = Leaving
    BY <1>5, OthersKeep
  <2>3. counter + 1 < Wrap => (counter + 1) % Wrap = counter + 1
    BY <1>0, Wraps
  <2>4. ASSUME ~raced' PROVE counter < C /\ counter' = counter + 1
    BY <1>0, <2>1, <2>3, <2>4 DEF Exact, Committed
  <2>5. ASSUME ~raced' PROVE counter = Live + Leaving
    BY <1>0, <2>1, <2>5 DEF Exact
  <2>6. ~Committed'
    BY <2>1 DEF Committed
  <2> QED BY <1>0, <1>1, <2>1, <2>2, <2>4, <2>5, <2>6 DEF Exact
<1>6. CASE Launch
  <2>1. /\ pc.at = "launch" /\ pc'.at \in {"wait", "loop"} /\ counter' = counter
        /\ raced' = raced
    BY <1>6 DEF Launch
  <2>2. Live' = Live + 1 /\ Leaving' = Leaving
    BY <1>6, LaunchAdds
  <2> QED BY <1>0, <1>1, <2>1, <2>2 DEF Exact, Committed
<1>7. ASSUME NEW t \in ThreadsOf, EndReads(t) PROVE Exact'
  <2>1. pc' = pc /\ counter' = counter /\ raced' = raced
    BY <1>7 DEF EndReads, TaskEnds
  <2>2. Live' = Live - 1 /\ Leaving' = Leaving + 1
    BY <1>7, EndBegins
  <2> QED BY <1>0, <1>1, <2>1, <2>2 DEF Exact, Committed
<1>8. ASSUME NEW t \in ThreadsOf, EndStores(t) PROVE Exact'
  <2>1. /\ pc' = pc
        /\ counter' = (dying[t] - 1) % Wrap
        /\ ~raced' => ~raced /\ counter = dying[t]
    BY <1>8 DEF EndStores, TaskEnds, Store
  <2>2. Live' = Live /\ Leaving' = Leaving - 1 /\ Leaving' \in Nat
    <3>1. Leaving >= 1
      BY <1>8, EndFinishes
    <3> QED BY <1>0, <1>8, <3>1, EndFinishes
  <2>3. counter \in 1 .. (Wrap - 1) => (counter - 1) % Wrap = counter - 1
    BY <1>0, Wraps
  <2>4. ASSUME ~raced' PROVE /\ counter \in 1 .. C /\ counter' = counter - 1
    <3>1. /\ counter = Live + Leaving + (IF pc.at = "launch" THEN 1 ELSE 0)
          /\ counter <= C
      BY <2>1, <2>4 DEF Exact
    <3>2. counter >= 1
      BY <1>0, <2>2, <3>1
    <3> QED BY <1>0, <2>1, <2>3, <2>4, <3>1, <3>2
  <2> QED BY <1>0, <1>1, <2>1, <2>2, <2>4 DEF Exact, Committed
<1>9. CASE UNCHANGED vars
  <2>1. pc' = pc /\ counter' = counter /\ raced' = raced
    BY <1>9 DEF vars
  <2>2. Live' = Live /\ Leaving' = Leaving
    BY <1>9, OthersKeep
  <2> QED BY <1>1, <2>1, <2>2 DEF Exact, Committed
<1> QED BY <1>2, <1>3, <1>4, <1>5, <1>6, <1>7, <1>8, <1>9, Kinds
-----------------------------------------------------------------------------
(* Taking turns *)

LEMMA Loads ==
  ASSUME Typed
  PROVE  load \in Nat /\ (load # 0 => C < 2 * T * load)
<1>1. C \in Nat /\ T \in Nat \ {0}
  BY Setting
<1>2. PICK n \in Nat : n = load
  BY <1>1, Quotient DEF load, C, T
<1>3. C < T * n + T
  BY <1>1, <1>2, Quotient DEF load, C, T
<1>4. ASSUME n # 0 PROVE T * n + T <= 2 * T * n
  <2>1. T * 1 <= T * n
    BY <1>1, <1>4, TimesGrows
  <2> QED BY <1>1, <2>1
<1>5. T * n \in Nat /\ 2 * T * n \in Nat
  BY <1>1
<1> QED BY <1>1, <1>2, <1>3, <1>4, <1>5

LEMMA SharesInit ==
  ASSUME Init
  PROVE  Shares
<1>1. Typed
  BY TypedInit
<1>2. Launched = 0
  BY NumbersInit
<1>3. load \in Nat /\ T \in Nat \ {0}
  BY <1>1, Loads, Setting
<1>4. CASE load = 0
  BY <1>2, <1>4 DEF Shares, Init
<1>5. CASE load # 0
  <2>1. 0 \in 0 .. (2 * T - 1) /\ 0 \in 0 .. (load - 1)
    BY <1>3, <1>5
  <2>2. Launched = 0 * load + 0
    BY <1>2, <1>3
  <2>3. \A t \in ThreadsOf : launched[t] = Share(0, 0, t)
    BY <1>3 DEF Init, Share, ThreadsOf, T
  <2>4. pc.at = "loop"
    BY DEF Init
  <2> QED BY <1>5, <2>1, <2>2, <2>3, <2>4 DEF Shares, At
<1> QED BY <1>4, <1>5

\* The next task is one more of thread q's share, or the first of the next thread's.
LEMMA ShareGrows ==
  ASSUME Typed, load # 0,
         NEW q \in 0 .. (2 * T - 1), NEW r \in 0 .. (load - 1), NEW t \in ThreadsOf
  PROVE  /\ Owner(q) \in ThreadsOf
         /\ r + 1 < load =>
              Share(q, r + 1, t) = Share(q, r, t) + (IF t = Owner(q) THEN 1 ELSE 0)
         /\ r + 1 = load =>
              Share(q + 1, 0, t) = Share(q, r, t) + (IF t = Owner(q) THEN 1 ELSE 0)
<1>1. load \in Nat /\ T \in Nat \ {0} /\ t \in 0 .. (T - 1) /\ ThreadsOf = 0 .. (T - 1)
  BY Loads, Setting DEF ThreadsOf, T
<1> QED BY <1>1 DEF Share, Owner

\* A share ended before the last of two rounds leaves room for the next.
LEMMA RoomForMore ==
  ASSUME NEW b \in Nat \ {0}, NEW u \in Nat, NEW q \in 0 .. (u - 1), NEW r \in 0 .. (b - 1),
         NEW c \in Nat, q * b + r + 1 <= c, c < u * b
  PROVE  /\ r + 1 = b => (q + 1) * b = q * b + r + 1 /\ q + 1 \in 0 .. (u - 1)
         /\ r + 1 < b => r + 1 \in 0 .. (b - 1) /\ q * b + (r + 1) = q * b + r + 1
<1>1. q * b \in Nat /\ (q + 1) * b = q * b + b
  OBVIOUS
<1>2. ASSUME q + 1 = u PROVE u * b = q * b + b
  BY <1>1, <1>2
<1> QED BY <1>1, <1>2

LEMMA LaunchTurn ==
  ASSUME Typed, [Next]_vars, Launch, load # 0, Launched + 1 <= C,
         NEW q \in 0 .. (2 * T - 1), NEW r \in 0 .. (load - 1),
         At(q, r), index = Owner(q)
  PROVE  \E q2 \in 0 .. (2 * T - 1), r2 \in 0 .. (load - 1) : At(q2, r2)'
<1>1. /\ load \in Nat \ {0} /\ T \in Nat \ {0} /\ C \in Nat
      /\ 2 * T \in Nat /\ C < 2 * T * load
  BY Loads, Setting
<1>2. Launched = q * load + r
  BY DEF At
<1>3. q * load + r + 1 <= C
  BY <1>2
<1>4. /\ r + 1 = load => (q + 1) * load = q * load + r + 1 /\ q + 1 \in 0 .. (2 * T - 1)
      /\ r + 1 < load => r + 1 \in 0 .. (load - 1) /\ q * load + (r + 1) = q * load + r + 1
  BY <1>1, <1>3, RoomForMore
<1>5. Launched' = Launched + 1
  BY LaunchAdds
<1>6. /\ load' = load /\ T' = T /\ ThreadsOf' = ThreadsOf
  BY SettingKept
<1>7. \A t \in ThreadsOf :
        launched'[t] = Share(q, r, t) + (IF t = Owner(q) THEN 1 ELSE 0)
  <2>1. launched \in [ThreadsOf -> Nat] /\ launched' = [launched EXCEPT ![index] = @ + 1]
    BY DEF Launch, Typed, TypeOK
  <2>2. \A t \in ThreadsOf : launched'[t] = launched[t] + (IF t = index THEN 1 ELSE 0)
    BY <2>1
  <2> QED BY <2>2 DEF At
<1>8. \A n, m, t : Share(n, m, t)' = Share(n, m, t)
  BY <1>6 DEF Share
<1>9. CASE r + 1 = load
  <2>1. \A t \in ThreadsOf : launched'[t] = Share(q + 1, 0, t)
    BY <1>7, <1>9, ShareGrows
  <2>2. Launched' = (q + 1) * load + 0
    BY <1>1, <1>2, <1>4, <1>5, <1>9
  <2>3. At(q + 1, 0)'
    BY <1>6, <1>8, <2>1, <2>2 DEF At
  <2>4. 0 \in 0 .. (load - 1)
    BY <1>1
  <2> QED BY <1>4, <1>9, <2>3, <2>4
<1>10. CASE r + 1 # load
  <2>1. r + 1 < load
    BY <1>1, <1>10
  <2>2. \A t \in ThreadsOf : launched'[t] = Share(q, r + 1, t)
    BY <1>7, <2>1, ShareGrows
  <2>3. Launched' = q * load + (r + 1)
    BY <1>2, <1>4, <1>5, <2>1
  <2>4. At(q, r + 1)'
    BY <1>6, <1>8, <2>2, <2>3 DEF At
  <2> QED BY <1>4, <2>1, <2>4
<1> QED BY <1>9, <1>10

LEMMA InTurnStep ==
  ASSUME Typed, Conserved, Exact, InTurn, config.hls, [Next]_vars
  PROVE  InTurn'
<1>0. /\ Live \in Nat /\ Leaving \in Nat /\ Launched \in Nat /\ ended \in Nat
      /\ counter \in Nat /\ C \in Nat /\ T \in Nat \ {0} /\ load \in Nat
  BY Numbers, Setting, Loads
<1> SUFFICES ASSUME ended' = 0 PROVE InTurn'
  BY DEF InTurn
<1>1. ended = 0
  BY <1>0 DEF Next, Main, Loop, Choose, CountTask, Launch, TaskEnds, vars
<1>2. ~raced /\ (pc.at = "store" => pc.read = counter) /\ Shares
  BY <1>1 DEF InTurn
<1>3. Leaving = 0 /\ Launched = Live
  BY <1>0, <1>1 DEF Conserved
<1>4. /\ counter = Launched + (IF pc.at = "launch" THEN 1 ELSE 0)
      /\ counter <= C
  BY <1>0, <1>2, <1>3 DEF Exact
<1>5. load' = load /\ T' = T /\ C' = C /\ ThreadsOf' = ThreadsOf
  BY SettingKept
<1>6. \A q, r : Launched' = Launched /\ launched' = launched => (At(q, r)' <=> At(q, r))
  BY <1>5 DEF At, Share
<1>7. \A q : Owner(q)' = Owner(q)
  BY <1>5 DEF Owner
<1>8. CASE Loop
  <2>1. Launched' = Launched /\ launched' = launched
    BY <1>8, OthersKeep
  <2>2. /\ pc.at = "loop" /\ pc'.at \in {"choose", "wait"} /\ raced' = raced
    BY <1>8 DEF Loop
  <2>3. Shares'
    BY <1>2, <1>5, <1>6, <2>1, <2>2 DEF Shares
  <2> QED BY <1>2, <2>2, <2>3 DEF InTurn
<1>9. CASE Choose
  <2>1. Launched' = Launched /\ launched' = launched
    BY <1>9, OthersKeep
  <2>2. pc.at = "choose" /\ raced' = raced
    BY <1>9 DEF Choose
  <2>3. CASE load = 0
    <3>1. pc'.at = "crashed"
      BY <1>9, <2>3 DEF Choose
    <3>2. Shares'
      BY <1>2, <1>5, <2>1, <2>3, <3>1 DEF Shares
    <3> QED BY <1>2, <2>2, <3>1, <3>2 DEF InTurn
  <2>4. CASE load # 0
    <3>1. pc'.at = "count" /\ index' = (counter \div load) % T
      BY <1>9, <2>4 DEF Choose, T
    <3>2. PICK q \in 0 .. (2 * T - 1), r \in 0 .. (load - 1) : At(q, r)
      BY <1>2, <2>4 DEF Shares
    <3>3. counter = q * load + r
      BY <1>4, <2>2, <3>2 DEF At
    <3>4. counter \div load = q
      BY <1>0, <2>4, <3>3, QuotientIs
    <3>5. index' = Owner(q)
      BY <1>0, <3>1, <3>4, TakesTurn DEF Owner
    <3>6. Shares'
      BY <1>5, <1>6, <1>7, <2>1, <2>4, <3>2, <3>5 DEF Shares
    <3> QED BY <1>2, <2>2, <3>1, <3>6 DEF InTurn
  <2> QED BY <2>3, <2>4
<1>10. CASE CountReads
  <2>1. Launched' = Launched /\ launched' = launched
    BY <1>10, OthersKeep
  <2>2. /\ pc.at = "count" /\ pc' = [at |-> "store", read |-> counter]
        /\ counter' = counter /\ raced' = raced /\ index' = index
    BY <1>10 DEF CountReads, CountTask
  <2>3. Shares'
    BY <1>2, <1>5, <1>6, <1>7, <2>1, <2>2 DEF Shares
  <2> QED BY <1>2, <2>2, <2>3 DEF InTurn
<1>11. CASE CountStores
  <2>1. Launched' = Launched /\ launched' = launched
    BY <1>11, OthersKeep
  <2>2. pc.at = "store" /\ pc'.at = "launch" /\ index' = index
    BY <1>11 DEF CountStores, CountTask
  <2>3. ~raced'
    <3>1. raced' = (raced \/ counter # pc.read)
      BY <1>11 DEF CountStores, CountTask, Store
    <3> QED BY <1>2, <2>2, <3>1
  <2>4. Shares'
    BY <1>2, <1>5, <1>6, <1>7, <2>1, <2>2 DEF Shares
  <2> QED BY <2>2, <2>3, <2>4 DEF InTurn
<1>12. CASE Launch
  <2>1. pc.at = "launch" /\ pc'.at \in {"wait", "loop"} /\ raced' = raced
    BY <1>12 DEF Launch
  <2>2. load # 0
    BY <1>2, <2>1 DEF Shares
  <2>3. PICK q \in 0 .. (2 * T - 1), r \in 0 .. (load - 1) : At(q, r) /\ index = Owner(q)
    BY <1>2, <2>1, <2>2 DEF Shares
  <2>4. Launched + 1 <= C
    BY <1>4, <2>1
  <2>5. \E q2 \in 0 .. (2 * T - 1), r2 \in 0 .. (load - 1) : At(q2, r2)'
    BY <1>12, <2>2, <2>3, <2>4, LaunchTurn
  <2>6. Shares'
    BY <1>5, <2>1, <2>2, <2>5 DEF Shares
  <2> QED BY <1>2, <2>1, <2>6 DEF InTurn
<1>13. ASSUME NEW t \in ThreadsOf, EndReads(t) PROVE FALSE
  BY <1>1, <1>13, EndBegins
<1>14. ASSUME NEW t \in ThreadsOf, EndStores(t) PROVE FALSE
  BY <1>3, <1>14, EndFinishes
<1>15. CASE UNCHANGED vars
  <2>1. Launched' = Launched /\ launched' = launched
    BY <1>15, OthersKeep
  <2>2. pc' = pc /\ counter' = counter /\ raced' = raced /\ index' = index
    BY <1>15 DEF vars
  <2>3. Shares'
    BY <1>2, <1>5, <1>6, <1>7, <2>1, <2>2 DEF Shares
  <2> QED BY <1>2, <2>2, <2>3 DEF InTurn
<1> QED BY <1>8, <1>9, <1>10, <1>11, <1>12, <1>13, <1>14, <1>15, Kinds
-----------------------------------------------------------------------------
LEMMA IInvInit == Init => IInv
<1> SUFFICES ASSUME Init PROVE IInv
  OBVIOUS
<1>1. Typed
  BY TypedInit
<1>2. Conserved
  BY NumbersInit DEF Conserved
<1>3. InTurn
  <2>1. ~raced /\ pc.at = "loop"
    BY DEF Init
  <2> QED BY <2>1, SharesInit DEF InTurn
<1> QED BY <1>1, <1>2, <1>3, BudgetInit, ExactInit DEF IInv

LEMMA IInvStep == IInv /\ [Next]_vars => IInv'
<1> SUFFICES ASSUME IInv, [Next]_vars PROVE IInv'
  OBVIOUS
<1>1. Typed /\ Conserved /\ (config.hls => Budget /\ Exact /\ InTurn)
  BY DEF IInv
<1>2. Typed'
  BY <1>1, TypedStep
<1>3. Conserved'
  BY <1>1, ConservedStep
<1>4. config.hls => (Budget /\ Exact /\ InTurn)'
  BY <1>1, BudgetStep, ExactStep, InTurnStep
<1>5. config' = config
  BY SettingKept
<1> QED BY <1>2, <1>3, <1>4, <1>5 DEF IInv

LEMMA Invariant == Spec => []IInv
BY IInvInit, IInvStep, PTL DEF Spec

LEMMA SharesAreFair ==
  ASSUME Typed, Shares
  PROVE  \A t \in ThreadsOf : launched[t] <= 2 * load
<1>1. load \in Nat
  BY Loads
<1>2. CASE load = 0
  BY <1>2 DEF Shares
<1>3. CASE load # 0
  <2>1. PICK q \in 0 .. (2 * T - 1), r \in 0 .. (load - 1) : At(q, r)
    BY <1>3 DEF Shares
  <2>2. \A t \in ThreadsOf : Share(q, r, t) <= 2 * load
    BY <1>1 DEF Share
  <2> QED BY <2>1, <2>2 DEF At
<1> QED BY <1>2, <1>3

LEMMA IInvBounds == IInv => NotTooMany
<1> SUFFICES ASSUME IInv PROVE NotTooMany
  OBVIOUS
<1>1. Typed /\ TypeOK /\ Conserved /\ (config.hls => Budget /\ Exact /\ InTurn)
  BY DEF IInv, Typed
<1>2. /\ Live \in Nat /\ Leaving \in Nat /\ Launched \in Nat /\ ended \in Nat
      /\ counter \in Nat /\ C \in Nat /\ Count(live) = Live
  BY <1>1, Numbers, CountIsTotal DEF Live
<1>3. ASSUME config.hls, ~raced PROVE Live <= C * 1
  <2>1. counter >= Live /\ counter <= C
    BY <1>1, <1>2, <1>3 DEF Exact
  <2> QED BY <1>2, <2>1
<1>4. ASSUME config.hls PROVE Live <= C * (ended + 1)
  <2>1. Counted <= C * Stored + C
    BY <1>1, <1>2, <1>4, Numbers, Times DEF Budget, Within
  <2>2. Stored \in Nat /\ Stored <= ended
    BY <1>1, <1>2 DEF Conserved, Stored
  <2>3. C * (Stored + 1) <= C * (ended + 1) /\ C * (Stored + 1) = C * Stored + C
    BY <1>2, <2>2, TimesGrows, Times
  <2>4. Live <= Counted
    BY <1>1, <1>2 DEF Conserved, Counted
  <2>5. C * Stored \in Nat /\ C * (ended + 1) \in Nat /\ Counted \in Nat
    BY <1>1, <1>2, <2>2, Numbers
  <2> QED BY <1>2, <2>1, <2>3, <2>4, <2>5
<1>5. FairShares
  <2> SUFFICES ASSUME config.hls, ended = 0, NEW t \in ThreadsOf
               PROVE  launched[t] <= 2 * load
    BY DEF FairShares
  <2>1. Shares
    BY <1>1 DEF InTurn
  <2> QED BY <1>1, <2>1, SharesAreFair
<1>6. config.hls => Count(live) <= config.concurrency * (IF raced THEN ended + 1 ELSE 1)
  BY <1>2, <1>3, <1>4 DEF C
<1> QED BY <1>1, <1>5, <1>6 DEF NotTooMany

\* An HLS test never runs more tasks than asked for, and while no task has ended no
\* thread has more than twice its share; a count that main and an engine thread undo
\* (hls_handler.cpp:22, 27) lets main launch at most as many again for each task that
\* ends, on any number of threads and whatever the width of the counter.
THEOREM Bounded == Spec => []NotTooMany
<1>1. IInv => NotTooMany
  BY IInvBounds
<1> QED BY Invariant, <1>1, PTL

\* Where main stops launching (kick2.cpp:61, 71), as many tasks run or are on their way
\* out as were asked for, unless a count was undone.
THEOREM FullAtTheEnd == Spec => StopsWhenFull
<1> DEFINE A == (config.hls /\ ~raced /\ pc.at # "wait" /\ pc'.at = "wait") =>
       Count(live') + Cardinality({t \in ThreadsOf : dying'[t] # NotDying})
         >= config.concurrency
<1>1. ASSUME IInv, [Next]_vars PROVE A
  <2> SUFFICES ASSUME config.hls, ~raced, pc.at # "wait", pc'.at = "wait"
               PROVE  Count(live') + Cardinality({t \in ThreadsOf : dying'[t] # NotDying})
                        >= C
    BY DEF C
  <2>1. Typed /\ Exact
    BY <1>1 DEF IInv
  <2>2. ThreadsOf' = ThreadsOf
    BY <1>1, SettingKept
  <2>3. Count(live') = Live'
    BY <2>2, CountIsTotal DEF Live
  <2>4. Cardinality({t \in ThreadsOf : dying'[t] # NotDying}) = Leaving'
    BY <2>2 DEF Leaving, Dying
  <2>5. Live \in Nat /\ Leaving \in Nat /\ counter \in Nat /\ C \in Nat
    BY <2>1, Numbers
  <2>6. CASE Loop
    <3>1. Live' = Live /\ Leaving' = Leaving
      BY <1>1, <2>6, OthersKeep
    <3>2. pc.at = "loop" /\ (C > 0 => C <= counter)
      BY <2>5, <2>6 DEF Loop, C
    <3>3. counter = Live + Leaving
      BY <2>1, <2>5, <3>2 DEF Exact
    <3> QED BY <2>3, <2>4, <2>5, <3>1, <3>2, <3>3
  <2>7. CASE Launch
    <3>1. Live' = Live + 1 /\ Leaving' = Leaving
      BY <1>1, <2>1, <2>7, LaunchAdds
    <3>2. C = 1
      BY <2>1, <2>7, Setting DEF Launch
    <3> QED BY <2>3, <2>4, <2>5, <3>1, <3>2
  <2>8. CASE Choose \/ CountReads \/ CountStores \/ UNCHANGED vars
    BY <2>8 DEF Choose, CountReads, CountStores, CountTask, vars
  <2>9. ASSUME NEW t \in ThreadsOf, EndReads(t) \/ EndStores(t) PROVE FALSE
    BY <2>9 DEF EndReads, EndStores, TaskEnds
  <2> QED BY <1>1, <2>6, <2>7, <2>8, <2>9, Kinds
<1>2. Spec => [][IInv /\ IInv' /\ [Next]_vars]_vars
  BY Invariant, PTL DEF Spec
<1>3. (IInv /\ IInv' /\ [Next]_vars) => A
  BY <1>1
<1> QED BY <1>2, <1>3, PTL DEF StopsWhenFull
=============================================================================

------------------------ MODULE UsageAccountingProofs ------------------------
(***************************************************************************)
(* Usage accounting, for any number of buckets, keys, users, subscriptions *)
(* and control-plane requests, any period length and any bounds.           *)
(*                                                                         *)
(* Sums over buckets, rows and users come first: a sum is a number, moves  *)
(* by what one term moves, and sums add up.  That is induction over the    *)
(* set summed; finiteness is stated by places in a list (FitsIn), so that  *)
(* induction on numbers is enough.                                         *)
(*                                                                         *)
(* BytesConserved is not inductive by itself: a drain overwrites           *)
(* drained[b], so it also needs to know that the batch is empty where the  *)
(* flusher has not drained yet, and everywhere once the pass has written   *)
(* or requeued it.                                                         *)
(*                                                                         *)
(* The types of all the state are proved next: every change of a row of    *)
(* subscriptions is a RowStep, and a row keeps its owner.  The last part   *)
(* is what a user was charged, as a sum over the rows.                     *)
(***************************************************************************)
EXTENDS UsageAccounting, Sequences, TLAPS

\* The time the provers get for a leaf that does not say otherwise.
USE SMTT(30), ZenonT(30)

\* Induction on the natural numbers, with a set in place of a predicate.
Induction ==
    \A Good : 0 \in Good /\ (\A n \in Nat : n \in Good => n + 1 \in Good) => Nat \subseteq Good

\* n places are enough to list the elements of T.
FitsIn(T, n) == \E q : \A x \in T : \E i \in 1..n : q[i] = x

\* The sets one sums over.
Finite(S) == \E n \in Nat : FitsIn(S, n)

\* One element less, as the sums take it off.
Pick1(T) == CHOOSE x \in T : TRUE

\* The library's finite sets, and their parts, are such sets.
LEMMA FiniteParts == \A S, T : IsFiniteSet(S) /\ T \subseteq S => Finite(T)
<1> SUFFICES ASSUME NEW S, NEW T, IsFiniteSet(S), T \subseteq S PROVE Finite(T)
  OBVIOUS
<1>1. PICK q \in Seq(S) : \A s \in S : \E n \in 1..Len(q) : q[n] = s
  BY DEF IsFiniteSet
<1>2. FitsIn(T, Len(q))
  BY <1>1 DEF FitsIn
<1> QED BY <1>1, <1>2 DEF Finite

\* One element less needs one place less, and one element needs a place.
LEMMA FitsInLess ==
    ASSUME NEW T, NEW n \in Nat, FitsIn(T, n + 1), NEW x \in T
    PROVE  FitsIn(T \ {x}, n)
<1>1. PICK q : \A y \in T : \E i \in 1..(n + 1) : q[i] = y
  BY DEF FitsIn
<1>2. PICK k \in 1..(n + 1) : q[k] = x
  BY <1>1
<1> DEFINE r == [i \in 1..n |-> IF i < k THEN q[i] ELSE q[i + 1]]
<1>3. ASSUME NEW y \in T \ {x} PROVE \E i \in 1..n : r[i] = y
  <2>1. PICK j \in 1..(n + 1) : q[j] = y
    BY <1>1
  <2>2. j # k
    BY <1>2, <1>3, <2>1
  <2>3. CASE j < k
    <3>1. j \in 1..n /\ r[j] = y
      BY <2>1, <2>3
    <3> QED BY <3>1
  <2>4. CASE j > k
    <3>1. j - 1 \in 1..n /\ ~ (j - 1 < k) /\ (j - 1) + 1 = j
      BY <2>4
    <3>2. r[j - 1] = y
      BY <2>1, <3>1
    <3> QED BY <3>1, <3>2
  <2> QED BY <2>2, <2>3, <2>4
<1> HIDE DEF r
<1> QED BY <1>3 DEF FitsIn

\* No place is needed for the empty set, and more places do no harm.
LEMMA FitsInNone ==
    ASSUME NEW T
    PROVE  /\ FitsIn(T, 0) <=> T = {}
           /\ \A n \in Nat : (FitsIn(T, n) => FitsIn(T, n + 1)) /\ FitsIn({}, n)
           /\ \A n \in Nat, x \in T : FitsIn(T, n + 1) => FitsIn(T \ {x}, n)
<1>1. FitsIn(T, 0) <=> T = {}
  BY DEF FitsIn
<1>2. ASSUME NEW n \in Nat PROVE (FitsIn(T, n) => FitsIn(T, n + 1)) /\ FitsIn({}, n)
  <2>1. \A i \in 1..n : i \in 1..(n + 1)
    OBVIOUS
  <2> QED BY <2>1, ZenonT(40) DEF FitsIn
<1> QED BY <1>1, <1>2, FitsInLess, ZenonT(40)

\* Induction on finite sets: what holds of the empty set, and of a set when it
\* holds of the set without its chosen element, holds of every subset.
LEMMA SetInduction ==
    ASSUME Induction, NEW S, Finite(S), NEW Good, {} \in Good,
           \A T \in SUBSET S : T # {} /\ T \ {Pick1(T)} \in Good => T \in Good
    PROVE  SUBSET S \subseteq Good
<1> DEFINE N == {n \in Nat : \A T \in SUBSET S : FitsIn(T, n) => T \in Good}
<1>1. 0 \in N
  BY FitsInNone
<1>2. ASSUME NEW n \in Nat, n \in N PROVE n + 1 \in N
  <2>1. ASSUME NEW T \in SUBSET S, FitsIn(T, n + 1), T # {} PROVE T \in Good
    <3>1. Pick1(T) \in T
      BY <2>1 DEF Pick1
    <3>2. FitsIn(T \ {Pick1(T)}, n)
      BY <2>1, <3>1, FitsInLess
    <3>3. T \ {Pick1(T)} \in Good
      BY <1>2, <3>2
    <3> QED BY <2>1, <3>3
  <2> QED BY <2>1
<1>3. Nat \subseteq N
  <2> HIDE DEF N
  <2> QED BY <1>1, <1>2, ZenonT(40) DEF Induction
<1>4. PICK n \in Nat : FitsIn(S, n)
  BY DEF Finite
<1>5. ASSUME NEW T \in SUBSET S PROVE T \in Good
  <2>1. FitsIn(T, n)
    BY <1>4, ZenonT(40) DEF FitsIn
  <2> QED BY <1>3, <2>1
<1> QED BY <1>5

\* The partial sums of f over the subsets of S.
IsSum(it, f, S) ==
    /\ it \in [SUBSET S -> Nat]
    /\ it[{}] = 0
    /\ \A T \in SUBSET S : T # {} => it[T] = f[Pick1(T)] + it[T \ {Pick1(T)}]

\* Such sums exist ...
LEMMA SumExists ==
    ASSUME Induction, NEW S, Finite(S), NEW f, \A x \in S : f[x] \in Nat
    PROVE  \E it : IsSum(it, f, S)
<1> DEFINE D(n) == {T \in SUBSET S : FitsIn(T, n)}
           Partial(it, n) ==
              /\ it \in [D(n) -> Nat] /\ it[{}] = 0
              /\ \A T \in D(n) : T # {} => it[T] = f[Pick1(T)] + it[T \ {Pick1(T)}]
           Good == {n \in Nat : \E it : Partial(it, n)}
<1>3. ASSUME NEW T \in SUBSET S, T # {}
      PROVE  Pick1(T) \in T /\ Pick1(T) \in S /\ T \ {Pick1(T)} \in SUBSET S
  BY <1>3 DEF Pick1
<1>4. 0 \in Good
  <2> DEFINE it == [T \in D(0) |-> 0]
  <2>1. \A T \in D(0) : T = {}
    BY FitsInNone
  <2>2. {} \in D(0)
    BY FitsInNone
  <2>3. Partial(it, 0)
    BY <2>1, <2>2
  <2> HIDE DEF it, Partial
  <2> QED BY <2>3
<1>5. ASSUME NEW n \in Nat, n \in Good PROVE n + 1 \in Good
  <2>1. PICK it : Partial(it, n)
    BY <1>5, ZenonT(40)
  <2> DEFINE next == [T \in D(n + 1) |-> IF T = {} THEN 0 ELSE f[Pick1(T)] + it[T \ {Pick1(T)}]]
  <2>2. ASSUME NEW T \in D(n + 1), T # {}
        PROVE  /\ T \ {Pick1(T)} \in D(n) /\ Pick1(T) \in S
    BY <1>3, <2>2, FitsInLess
  <2>3. D(n) \subseteq D(n + 1) /\ {} \in D(n) /\ {} \in D(n + 1)
    <3>1. n + 1 \in Nat
      OBVIOUS
    <3> QED BY <3>1, FitsInNone, ZenonT(40)
  <2>4. ASSUME NEW T \in D(n) PROVE next[T] = it[T]
    BY <2>1, <2>3, ZenonT(40)
  <2>5. next \in [D(n + 1) -> Nat] /\ next[{}] = 0
    <3>1. ASSUME NEW T \in D(n + 1) PROVE next[T] \in Nat
      <4>1. CASE T = {}
        BY <4>1
      <4>2. CASE T # {}
        <5>1. f[Pick1(T)] \in Nat /\ it[T \ {Pick1(T)}] \in Nat
          BY <2>1, <2>2, <4>2, ZenonT(40)
        <5> QED BY <4>2, <5>1
      <4> QED BY <4>1, <4>2
    <3> QED BY <2>3, <3>1, ZenonT(40)
  <2>6. ASSUME NEW T \in D(n + 1), T # {}
        PROVE  next[T] = f[Pick1(T)] + next[T \ {Pick1(T)}]
    <3>1. T \ {Pick1(T)} \in D(n)
      BY <2>2, <2>6
    <3>2. next[T \ {Pick1(T)}] = it[T \ {Pick1(T)}]
      BY <2>4, <3>1, ZenonT(40)
    <3>3. next[T] = f[Pick1(T)] + it[T \ {Pick1(T)}]
      BY <2>6
    <3> QED BY <3>2, <3>3
  <2>7. Partial(next, n + 1)
    BY <2>5, <2>6, ZenonT(40)
  <2> HIDE DEF next, Partial
  <2> QED BY <2>7
<1>6. Nat \subseteq Good
  <2> HIDE DEF Good
  <2> QED BY <1>4, <1>5, ZenonT(40) DEF Induction
<1>7. PICK n \in Nat : FitsIn(S, n)
  BY DEF Finite
<1>8. PICK it : Partial(it, n)
  BY <1>6, <1>7, ZenonT(40)
<1>9. D(n) = SUBSET S
  BY <1>7, ZenonT(40) DEF FitsIn
<1> QED BY <1>8, <1>9, ZenonT(40) DEF IsSum

\* ... and SumOver, which takes the elements off one by one, is one of them.
LEMMA SumIs ==
    ASSUME Induction, NEW S, Finite(S), NEW f, \A x \in S : f[x] \in Nat
    PROVE  \E it : IsSum(it, f, S) /\ SumOver(f, S) = it[S]
<1> DEFINE Eq(h) == h = [T \in SUBSET S |-> IF T = {} THEN 0 ELSE f[Pick1(T)] + h[T \ {Pick1(T)}]]
           h == CHOOSE h : Eq(h)
<1>1. SumOver(f, S) = h[S]
  BY DEF SumOver, MapThenSumSet, MapThenFoldSet, Pick1
<1>2. PICK it : IsSum(it, f, S)
  BY SumExists
<1>3. Eq(it)
  BY <1>2, ZenonT(40) DEF IsSum
<1>4. Eq(h)
  <2> HIDE DEF Eq
  <2> QED BY <1>3
<1> HIDE DEF h
<1> DEFINE Good == {T \in SUBSET S : h[T] = it[T]}
<1>5. {} \in Good
  BY <1>2, <1>4 DEF IsSum
<1>6. ASSUME NEW T \in SUBSET S, T # {}, T \ {Pick1(T)} \in Good PROVE T \in Good
  <2>1. it[T] = f[Pick1(T)] + it[T \ {Pick1(T)}]
    BY <1>2, <1>6 DEF IsSum
  <2>2. h[T] = f[Pick1(T)] + h[T \ {Pick1(T)}]
    BY <1>4, <1>6, ZenonT(40)
  <2> QED BY <1>6, <2>1, <2>2
<1>7. SUBSET S \subseteq Good
  <2> HIDE DEF Good
  <2> QED BY <1>5, <1>6, SetInduction
<1>8. h[S] = it[S]
  BY <1>7
<1> QED BY <1>1, <1>2, <1>8

\* A sum of numbers is a number.
LEMMA SumType ==
    ASSUME Induction, NEW S, Finite(S), NEW f, \A x \in S : f[x] \in Nat
    PROVE  SumOver(f, S) \in Nat
<1>1. PICK it : IsSum(it, f, S) /\ SumOver(f, S) = it[S]
  BY SumIs
<1> QED BY <1>1 DEF IsSum

\* A sum whose terms change at one place changes by as much.
LEMMA SumChanges ==
    ASSUME Induction, NEW S, Finite(S), NEW f, NEW g, NEW x \in S,
           \A y \in S : f[y] \in Nat /\ g[y] \in Nat,
           \A y \in S : y # x => g[y] = f[y]
    PROVE  SumOver(g, S) + f[x] = SumOver(f, S) + g[x]
<1>1. PICK F : IsSum(F, f, S) /\ SumOver(f, S) = F[S]
  BY SumIs
<1>2. PICK G : IsSum(G, g, S) /\ SumOver(g, S) = G[S]
  BY SumIs
<1> DEFINE Good == {T \in SUBSET S : IF x \in T THEN G[T] + f[x] = F[T] + g[x] ELSE G[T] = F[T]}
<1>3. {} \in Good
  BY <1>1, <1>2 DEF IsSum
<1>4. ASSUME NEW T \in SUBSET S, T # {}, T \ {Pick1(T)} \in Good PROVE T \in Good
  <2> DEFINE c == Pick1(T)
             R == T \ {c}
  <2>1. c \in T /\ R \in SUBSET S
    BY <1>4 DEF Pick1
  <2>2. F[T] = f[c] + F[R] /\ G[T] = g[c] + G[R] /\ F[R] \in Nat /\ G[R] \in Nat
    BY <1>1, <1>2, <1>4, <2>1 DEF IsSum
  <2>3. IF x \in R THEN G[R] + f[x] = F[R] + g[x] ELSE G[R] = F[R]
    BY <1>4
  <2>4. f[c] \in Nat /\ g[c] \in Nat /\ f[x] \in Nat /\ g[x] \in Nat /\ (c # x => g[c] = f[c])
    BY <2>1
  <2>5. (x \in R <=> x \in T /\ x # c) /\ (x \notin T => x # c)
    BY <2>1
  <2> HIDE DEF c, R
  <2>6. IF x \in T THEN G[T] + f[x] = F[T] + g[x] ELSE G[T] = F[T]
    <3>1. CASE x = c
      BY <2>1, <2>2, <2>3, <2>4, <2>5, <3>1
    <3>2. CASE x # c
      BY <2>2, <2>3, <2>4, <2>5, <3>2
    <3> QED BY <3>1, <3>2
  <2> QED BY <2>6
<1>5. SUBSET S \subseteq Good
  <2> HIDE DEF Good
  <2> QED BY <1>3, <1>4, SetInduction
<1>6. S \in Good
  BY <1>5
<1> QED BY <1>1, <1>2, <1>6

\* Sums are added term by term.
LEMMA SumAdds ==
    ASSUME Induction, NEW S, Finite(S), NEW f, NEW g, NEW h,
           \A y \in S : f[y] \in Nat /\ g[y] \in Nat /\ h[y] = f[y] + g[y]
    PROVE  SumOver(h, S) = SumOver(f, S) + SumOver(g, S)
<1>1. PICK F : IsSum(F, f, S) /\ SumOver(f, S) = F[S]
  BY SumIs
<1>2. PICK G : IsSum(G, g, S) /\ SumOver(g, S) = G[S]
  BY SumIs
<1>3. PICK H : IsSum(H, h, S) /\ SumOver(h, S) = H[S]
  <2>1. \A y \in S : h[y] \in Nat
    OBVIOUS
  <2> QED BY <2>1, SumIs
<1> DEFINE Good == {T \in SUBSET S : H[T] = F[T] + G[T]}
<1>4. {} \in Good
  BY <1>1, <1>2, <1>3 DEF IsSum
<1>5. ASSUME NEW T \in SUBSET S, T # {}, T \ {Pick1(T)} \in Good PROVE T \in Good
  <2> DEFINE c == Pick1(T)
             R == T \ {c}
  <2>1. c \in S /\ R \in SUBSET S
    BY <1>5 DEF Pick1
  <2>2. /\ F[T] = f[c] + F[R] /\ G[T] = g[c] + G[R] /\ H[T] = h[c] + H[R]
        /\ F[R] \in Nat /\ G[R] \in Nat
    BY <1>1, <1>2, <1>3, <1>5, <2>1, ZenonT(40) DEF IsSum
  <2>3. H[R] = F[R] + G[R]
    BY <1>5
  <2>4. f[c] \in Nat /\ g[c] \in Nat /\ h[c] = f[c] + g[c]
    BY <2>1
  <2> HIDE DEF c, R
  <2> QED BY <2>2, <2>3, <2>4
<1>6. SUBSET S \subseteq Good
  <2> HIDE DEF Good
  <2> QED BY <1>4, <1>5, SetInduction, ZenonT(40)
<1>7. S \in Good
  BY <1>6
<1> QED BY <1>1, <1>2, <1>3, <1>7

\* A sum is at least as large as one with smaller terms, and as each of its terms.
LEMMA SumGrows ==
    ASSUME Induction, NEW S, Finite(S), NEW f, NEW g,
           \A y \in S : f[y] \in Nat /\ g[y] \in Nat /\ f[y] <= g[y]
    PROVE  SumOver(f, S) <= SumOver(g, S)
<1> DEFINE d == [y \in S |-> g[y] - f[y]]
<1>1. \A y \in S : d[y] \in Nat /\ g[y] = f[y] + d[y]
  OBVIOUS
<1> HIDE DEF d
<1>2. SumOver(g, S) = SumOver(f, S) + SumOver(d, S)
  BY <1>1, SumAdds
<1>3. SumOver(f, S) \in Nat /\ SumOver(d, S) \in Nat
  BY <1>1, SumType
<1> QED BY <1>2, <1>3

\* Equal terms have equal sums.
LEMMA SumSame ==
    ASSUME Induction, NEW S, Finite(S), NEW f, NEW g, \A y \in S : f[y] \in Nat /\ g[y] = f[y]
    PROVE  SumOver(g, S) = SumOver(f, S)
<1>1. SumOver(f, S) <= SumOver(g, S) /\ SumOver(g, S) <= SumOver(f, S)
  <2>1. \A y \in S : f[y] \in Nat /\ g[y] \in Nat /\ f[y] <= g[y] /\ g[y] <= f[y]
    OBVIOUS
  <2> QED BY <2>1, SumGrows
<1>2. SumOver(f, S) \in Nat /\ SumOver(g, S) \in Nat
  BY SumType
<1> QED BY <1>1, <1>2

\* A sum of zeros is zero.
LEMMA SumZero ==
    ASSUME Induction, NEW S, Finite(S), NEW f, \A y \in S : f[y] = 0
    PROVE  SumOver(f, S) = 0
<1>1. SumOver(f, S) = SumOver(f, S) + SumOver(f, S)
  <2>1. \A y \in S : f[y] \in Nat /\ f[y] \in Nat /\ f[y] = f[y] + f[y]
    OBVIOUS
  <2> QED BY <2>1, SumAdds
<1>2. SumOver(f, S) \in Nat
  BY SumType
<1>3. \A n \in Nat : n = n + n => n = 0
  OBVIOUS
<1> QED BY <1>1, <1>2, <1>3, ZenonT(40)

\* A term is no larger than the sum.
LEMMA SumCovers ==
    ASSUME Induction, NEW S, Finite(S), NEW f, NEW x \in S, \A y \in S : f[y] \in Nat
    PROVE  f[x] <= SumOver(f, S)
<1> DEFINE g == [y \in S |-> IF y = x THEN 0 ELSE f[y]]
<1>1. \A y \in S : g[y] \in Nat /\ (y # x => g[y] = f[y])
  OBVIOUS
<1>2. g[x] = 0 /\ f[x] \in Nat
  OBVIOUS
<1> HIDE DEF g
<1>3. SumOver(g, S) + f[x] = SumOver(f, S) + g[x]
  BY <1>1, SumChanges
<1>4. SumOver(f, S) \in Nat /\ SumOver(g, S) \in Nat
  BY <1>1, SumType
<1> QED BY <1>2, <1>3, <1>4

-----------------------------------------------------------------------------
\* Sums over the buckets of a user or of a key.
LEMMA BucketSets ==
    ASSUME NEW u
    PROVE  Finite(OfUser(u)) /\ Finite(OfKey(u))
BY BucketsAssumption, FiniteParts DEF OfUser, OfKey

\* There are finitely many subscriptions.
LEMMA RowsFinite == Finite(SubIds)
BY AccountingAssumption, FiniteParts

\* f and g count bytes per bucket, and differ at b alone.
OnlyAt(b, f, g) ==
    /\ f \in [Buckets -> Nat] /\ g \in [Buckets -> Nat] /\ b \in Buckets
    /\ \A c \in Buckets : c # b => g[c] = f[c]

\* What a set of buckets holds, after one bucket changes.
LEMMA OneBucket ==
    ASSUME Induction, NEW S, Finite(S), S \subseteq Buckets, NEW f, NEW g, NEW b, OnlyAt(b, f, g)
    PROVE  /\ SumOver(f, S) \in Nat /\ SumOver(g, S) \in Nat
           /\ b \in S => SumOver(g, S) + f[b] = SumOver(f, S) + g[b]
           /\ b \notin S => SumOver(g, S) = SumOver(f, S)
<1>1. \A y \in S : f[y] \in Nat /\ g[y] \in Nat /\ (y # b => g[y] = f[y])
  BY DEF OnlyAt
<1>2. SumOver(f, S) \in Nat /\ SumOver(g, S) \in Nat
  BY <1>1, SumType
<1>3. ASSUME b \in S PROVE SumOver(g, S) + f[b] = SumOver(f, S) + g[b]
  BY <1>1, <1>3, SumChanges
<1>4. ASSUME b \notin S PROVE SumOver(g, S) = SumOver(f, S)
  <2>1. \A y \in S : f[y] \in Nat /\ g[y] = f[y]
    BY <1>1, <1>4
  <2> QED BY <2>1, SumSame
<1> QED BY <1>2, <1>3, <1>4

\* What a user's buckets hold, after one of them changes.
LEMMA UserBucket ==
    ASSUME Induction, NEW f, NEW g, NEW b, OnlyAt(b, f, g)
    PROVE  \A u : /\ SumOver(f, OfUser(u)) \in Nat /\ SumOver(g, OfUser(u)) \in Nat
                  /\ UserOf[b] = u =>
                        SumOver(g, OfUser(u)) + f[b] = SumOver(f, OfUser(u)) + g[b]
                  /\ UserOf[b] # u => SumOver(g, OfUser(u)) = SumOver(f, OfUser(u))
<1> TAKE u
<1>1. Finite(OfUser(u)) /\ OfUser(u) \subseteq Buckets /\ (b \in OfUser(u) <=> UserOf[b] = u)
  BY BucketSets, ZenonT(40) DEF OfUser, OnlyAt
<1> DEFINE S == OfUser(u)
<1>2. Finite(S) /\ S \subseteq Buckets
  BY <1>1
<1> HIDE DEF S
<1>3. /\ SumOver(f, S) \in Nat /\ SumOver(g, S) \in Nat
      /\ b \in S => SumOver(g, S) + f[b] = SumOver(f, S) + g[b]
      /\ b \notin S => SumOver(g, S) = SumOver(f, S)
  BY <1>2, OneBucket
<1> QED BY <1>1, <1>3, ZenonT(40) DEF S

\* ... by what that one changes.
MovesAt(u, b, f, g) ==
    IF UserOf[b] = u THEN SumOver(g, OfUser(u)) + f[b] = SumOver(f, OfUser(u)) + g[b]
    ELSE SumOver(g, OfUser(u)) = SumOver(f, OfUser(u))

\* The change of one bucket moves the sum of its user alone.
LEMMA UserMoves ==
    ASSUME Induction, NEW f, NEW g, NEW b, OnlyAt(b, f, g)
    PROVE  \A u : MovesAt(u, b, f, g)
BY UserBucket DEF MovesAt

\* What a user's buckets hold is a number.
LEMMA UserSum ==
    ASSUME Induction, NEW u, NEW f \in [Buckets -> Nat]
    PROVE  SumOver(f, OfUser(u)) \in Nat
<1>1. Finite(OfUser(u)) /\ \A b \in OfUser(u) : f[b] \in Nat
  BY BucketSets, ZenonT(40) DEF OfUser
<1> QED BY <1>1, SumType

\* ... and zero when every bucket is empty.
LEMMA UserNothing ==
    ASSUME Induction, NEW u, NEW f \in [Buckets -> Nat], \A b \in Buckets : f[b] = 0
    PROVE  SumOver(f, OfUser(u)) = 0
<1>1. Finite(OfUser(u)) /\ \A b \in OfUser(u) : f[b] = 0
  BY BucketSets, ZenonT(40) DEF OfUser
<1> QED BY <1>1, SumZero

-----------------------------------------------------------------------------
bytesVars == <<buckets, drained, hourly, lost, moved, fkeys, fpc>>

BytesType ==
    /\ buckets \in [Buckets -> Nat]
    /\ drained \in [Buckets -> Nat]
    /\ hourly \in [Buckets -> Nat]
    /\ lost \in [Buckets -> Nat]
    /\ moved \in [Buckets -> Nat]

\* Where the batch is, by the flusher's place in FlushOnce.
BatchShape ==
    /\ fpc = "drain" => \A b \in fkeys : drained[b] = 0
    /\ fpc = "requeue" => \A b \in Buckets \ fkeys : drained[b] = 0
    /\ fpc \notin {"drain", "requeue"} => \A b \in Buckets : drained[b] = 0

BytesInv == BytesType /\ BatchShape /\ BytesConserved

\* No byte has moved at the start.
LEMMA BytesInit == Init => BytesInv
BY DEF Init, NewCounters, BytesInv, BytesType, BatchShape, BytesConserved

\* A restart moves what is in memory to the lost bytes.
LEMMA BytesRestart ==
    ASSUME BytesInv, NEW ok, Restart(ok)
    PROVE  BytesInv'
BY DEF BytesInv, BytesType, BatchShape, BytesConserved, Restart, diskVars

\* A step that leaves the byte counts alone keeps their invariant.
LEMMA BytesStutter ==
    ASSUME BytesInv, UNCHANGED bytesVars
    PROVE  BytesInv'
BY DEF BytesInv, BytesType, BatchShape, BytesConserved, bytesVars

\* So does a step of FlushOnce.
LEMMA BytesFlusher ==
    ASSUME BytesInv, Flusher
    PROVE  BytesInv'
<1> USE DEF BytesInv, BytesType, BatchShape, BytesConserved
<1>1. CASE FlushBegin
  BY <1>1 DEF FlushBegin, counterVars, diskVars, lifeVars
<1>2. ASSUME NEW b \in Buckets, FlushDrain(b) PROVE BytesInv'
  BY <1>2 DEF FlushDrain, drainOne, diskVars, lifeVars
<1>3. ASSUME NEW b \in Buckets, FlushRequeue(b) PROVE BytesInv'
  BY <1>3 DEF FlushRequeue, Requeue, addToBuckets, diskVars, lifeVars
<1>4. CASE FlushWrite
  BY <1>4 DEF FlushWrite, counterVars, lifeVars
<1>5. CASE FlushWriteFails
  BY <1>5 DEF FlushWriteFails, Fault, counterVars, diskVars
<1>6. ASSUME NEW u \in Users, FlushLookup(u) PROVE BytesInv'
  BY <1>6 DEF FlushLookup, counterVars, diskVars
<1>7. ASSUME NEW u \in Users, FlushRecheck(u) PROVE BytesInv'
  BY <1>7 DEF FlushRecheck, counterVars, diskVars
<1>8. CASE FlushAdd
  BY <1>8 DEF FlushAdd, counterVars
<1>9. CASE FlushMark
  BY <1>9 DEF FlushMark, diskVars, lifeVars
<1>10. CASE FlushEnd
  BY <1>10 DEF FlushEnd, counterVars, diskVars, lifeVars
<1> QED
  BY <1>1, <1>2, <1>3, <1>4, <1>5, <1>6, <1>7, <1>8, <1>9, <1>10 DEF Flusher

\* What a control-plane step leaves alone.
LEMMA ControlFrame ==
    ASSUME ControlPlane
    PROVE  /\ UNCHANGED <<buckets, keyBytes, known, hourly, clock, adding, flushVars,
                          periodVars, seedVars, stopping, crashes, lost, lostClean, moved>>
           /\ UNCHANGED users \/ \E u : resetAggregate(u)
           /\ UNCHANGED faults \/ Fault
           /\ UNCHANGED requests \/ requests' = requests + 1
<1> USE DEF counterVars, diskVars, lifeVars
<1>1. PICK a \in Admins :
         \/ \E u \in Users : Purchase(a, u) \/ AssignList(a, u)
         \/ \E i \in SubIds : \/ RenewRead(a, i) \/ ReactivateList(a, i)
                              \/ PatchRead(a, i) \/ RevokeUserSubscription(a, i)
         \/ RenewWrite(a) \/ ExpireListed(a) \/ AssignInsert(a) \/ TermsWrite(a)
         \/ RequestFails(a) \/ AdminResetUsers(a) \/ AdminResetMark(a)
  BY ZenonT(40) DEF ControlPlane
<1>2. ASSUME NEW u \in Users, Purchase(a, u) \/ AssignList(a, u)
      PROVE  /\ UNCHANGED <<counterVars, hourly, clock, adding, flushVars, periodVars,
                            seedVars, stopping, faults, crashes, lost, lostClean, moved>>
             /\ requests' = requests + 1
  BY <1>2, ZenonT(40) DEF Purchase, AssignList, Request
<1>3. ASSUME NEW i \in SubIds, \/ RenewRead(a, i) \/ ReactivateList(a, i)
                               \/ PatchRead(a, i) \/ RevokeUserSubscription(a, i)
      PROVE  /\ UNCHANGED <<counterVars, hourly, clock, adding, flushVars, periodVars,
                            seedVars, stopping, faults, crashes, lost, lostClean, moved>>
             /\ requests' = requests + 1
  BY <1>3, ZenonT(40)
     DEF RenewRead, ReactivateList, PatchRead, RevokeUserSubscription, Request
<1>4. CASE RenewWrite(a) \/ ExpireListed(a) \/ AssignInsert(a) \/ TermsWrite(a)
  <2>1. UNCHANGED <<counterVars, hourly, clock, adding, flushVars, periodVars,
                    seedVars, lifeVars, moved>>
    BY <1>4, ZenonT(40) DEF RenewWrite, ExpireListed, AssignInsert, TermsWrite
  <2> QED BY <2>1, ZenonT(40)
<1>5. CASE RequestFails(a)
  BY <1>5, ZenonT(40) DEF RequestFails
<1>6. CASE AdminResetUsers(a)
  BY <1>6, ZenonT(40) DEF AdminResetUsers
<1>7. CASE AdminResetMark(a)
  BY <1>7, ZenonT(40) DEF AdminResetMark
<1>8. ASSUME UNCHANGED <<counterVars, hourly, clock, adding, flushVars, periodVars,
                         seedVars, stopping, faults, crashes, lost, lostClean, moved>>,
             requests' = requests + 1
      PROVE  /\ UNCHANGED <<buckets, keyBytes, known, hourly, clock, adding, flushVars,
                            periodVars, seedVars, stopping, crashes, lost, lostClean, moved>>
             /\ UNCHANGED users \/ \E u : resetAggregate(u)
             /\ UNCHANGED faults \/ Fault
             /\ UNCHANGED requests \/ requests' = requests + 1
  BY <1>8, ZenonT(40)
<1> QED
  BY <1>1, <1>2, <1>3, <1>4, <1>5, <1>6, <1>7, <1>8, ZenonT(60)

\* What it does to the counters: nothing, or one of the stores of ResetUser.
LEMMA ControlCounters ==
    ASSUME ControlPlane
    PROVE  \/ UNCHANGED counterVars
           \/ \E u : resetAggregate(u) /\ UNCHANGED <<buckets, keyBytes, known, persisted>>
           \/ \E u : resetMark(u) /\ UNCHANGED <<buckets, keyBytes, users, known>>
BY ZenonT(60)
   DEF ControlPlane, Purchase, AssignList, RenewRead, ReactivateList, PatchRead,
       RevokeUserSubscription, RenewWrite, ExpireListed, AssignInsert, TermsWrite,
       RequestFails, AdminResetUsers, AdminResetMark

\* The end of a row's term touches the row and nothing else.
LEMMA ExpiryFrame ==
    ASSUME Expiry
    PROVE  UNCHANGED <<counterVars, hourly, clock, adding, flushVars, periodVars,
                       seedVars, adm, lifeVars, moved>>
BY ZenonT(40) DEF Expiry, Lapse, ExpireStaleSubscriptions

\* So does every step.
LEMMA BytesNext ==
    ASSUME BytesInv, [Next]_vars
    PROVE  BytesInv'
<1>1. CASE Tick
  BY <1>1, BytesStutter DEF Tick, bytesVars, counterVars, diskVars, flushVars, lifeVars
<1>2. ASSUME NEW b \in Buckets, AddBucket(b) PROVE BytesInv'
  BY <1>2 DEF AddBucket, addToBuckets, BytesInv, BytesType, BatchShape, BytesConserved,
              diskVars, flushVars, lifeVars
<1>3. ASSUME NEW u \in Users, AddAggregate(u) PROVE BytesInv'
  BY <1>3, BytesStutter DEF AddAggregate, bytesVars, diskVars, flushVars, lifeVars
<1>4. CASE Flusher
  BY <1>4, BytesFlusher
<1>5. CASE PeriodWorker
  BY <1>5, BytesStutter
     DEF PeriodWorker, PeriodList, PeriodWrite, PeriodResetUsers, PeriodResetMark,
         PeriodEnd, bytesVars, counterVars, diskVars, flushVars, lifeVars
<1>6. CASE ControlPlane
  BY <1>6, BytesStutter, ControlFrame DEF bytesVars, flushVars
<1>7. CASE Reseed
  BY <1>7, BytesStutter
     DEF Reseed, ReseedList, ReseedFilter, SeedLoad, SeedAdd, SeedStore,
         bytesVars, counterVars, diskVars, flushVars, lifeVars
<1>8. CASE Crash \/ Exit
  BY <1>8, BytesRestart DEF Crash, Exit
<1>9. CASE Shutdown
  BY <1>9, BytesStutter DEF Shutdown, bytesVars, counterVars, diskVars, flushVars
<1>10. CASE UNCHANGED vars
  BY <1>10, BytesStutter DEF vars, bytesVars, counterVars, diskVars, flushVars, lifeVars
<1>11. CASE Expiry
  BY <1>11, BytesStutter, ExpiryFrame DEF bytesVars, counterVars, flushVars, lifeVars
<1> QED
  BY <1>1, <1>2, <1>3, <1>4, <1>5, <1>6, <1>7, <1>8, <1>9, <1>10, <1>11 DEF Next, DataPlane

\* Every byte the data plane ever counted is in exactly one of its bucket, the
\* flusher's batch, usage_hourly and the bytes lost with a process: draining,
\* a failed write, its requeue and a restart at any point drop or repeat none.
THEOREM BytesAreConserved == Spec => []BytesConserved
<1>1. BytesInv => BytesConserved
  BY DEF BytesInv
<1> QED
  BY BytesInit, BytesNext, <1>1, PTL DEF Spec

-----------------------------------------------------------------------------
\* Type correctness.  TypeOK needs to know that the rows in use, and the users
\* the loops carry from one step to the next, are accounts, and that a listed
\* period started in the past.
RowInUse(i) == i \in SubIds /\ subs[i].status # "none"
RequestOwned(r) ==
    /\ r.pc \in {"expire", "insert"} => r.user \in Users
    /\ r.pc = "expire" => RowInUse(r.old) /\ (r.sub = NoSub \/ RowInUse(r.sub))
    /\ r.pc \in {"activate", "patch", "renew"} => RowInUse(r.sub)
RowsOwned ==
    /\ \A i \in SubIds : subs[i].status # "none" => subs[i].user \in Users
    /\ \A a \in Admins : RequestOwned(adm[a])
CarriedUsers ==
    /\ fpc \in {"add", "mark"} => fuser \in Users
    /\ \A r \in slist : r.user \in Users
    /\ spc \in {"add", "store"} => scur.user \in Users
ListedInThePast == \A r \in plist : r.start <= clock

TypeInv == TypeOK /\ RowsOwned /\ CarriedUsers /\ ListedInThePast

\* The types hold at the start.
LEMMA TypeInit == Init => TypeInv
<1> SUFFICES ASSUME Init PROVE TypeInv
  OBVIOUS
<1>1. subs \in [SubIds -> {NoRow} \cup {FirstRow(u, st) : u \in Users, st \in {"active", "expired"}}]
  BY DEF Init
<1>2. \A i \in SubIds :
         /\ subs[i] \in Row
         /\ subs[i].status # "none" => subs[i].user \in Users
  BY <1>1 DEF NoRow, FirstRow, Row, Statuses, Lives
<1>3. subs \in [SubIds -> Row]
  BY <1>1, <1>2
<1>4. CountersType
  BY DEF Init, CountersType, NewCounters
<1>5. DiskType
  BY <1>3 DEF Init, DiskType
<1>6. FlushType
  BY DEF Init, FlushType, NoWindow, Window
<1>7. LoopsType
  BY DEF Init, LoopsType, NoRollover, Rollover, NoSeed, Seed, IdleAdmin, Admin
<1>8. LifeType
  BY ZenonT(40) DEF Init, LifeType
<1> QED
  BY <1>2, <1>4, <1>5, <1>6, <1>7, <1>8
     DEF Init, TypeInv, TypeOK, RowsOwned, RequestOwned, CarriedUsers, ListedInThePast, IdleAdmin

\* The names of the tuples of variables, which every frame below expands.
LEMMA Windows ==
    ASSUME TypeInv, NEW u \in Users
    PROVE  GetActiveUserSubscription(u) \in Window
BY DEF TypeInv, TypeOK, DiskType, GetActiveUserSubscription, ActiveRows, NoWindow,
       Window, Row

\* A seed from disk is a number.
LEMMA SeedIsNat ==
    ASSUME TypeInv, NEW u \in Users
    PROVE  SeedFromDisk(u) \in Nat
BY DEF TypeInv, TypeOK, DiskType, SeedFromDisk, Seedable, Row

\* Every step keeps the types of the counters in memory.
LEMMA CountersTypeNext ==
    ASSUME TypeInv, [Next]_vars
    PROVE  CountersType'
<1> USE BucketsAssumption DEF TypeInv, TypeOK, CountersType, counterVars
<1>1. ASSUME NEW b \in Buckets, AddBucket(b) PROVE CountersType'
  BY <1>1 DEF AddBucket, addToBuckets
<1>2. ASSUME NEW u \in Users, AddAggregate(u) PROVE CountersType'
  BY <1>2 DEF AddAggregate, addToUser
<1>3. ASSUME NEW b \in Buckets, FlushDrain(b) PROVE CountersType'
  BY <1>3 DEF FlushDrain, drainOne
<1>4. ASSUME NEW b \in Buckets, FlushRequeue(b) PROVE CountersType'
  BY <1>4 DEF FlushRequeue, Requeue, addToBuckets, FlushType
<1>5. CASE FlushMark
  BY <1>5 DEF FlushMark, MarkPersisted, FlushType, CarriedUsers
<1>6. ASSUME NEW u, resetAggregate(u), UNCHANGED <<buckets, keyBytes, known, persisted>>
      PROVE  CountersType'
  BY <1>6 DEF resetAggregate
<1>7. ASSUME NEW u, resetMark(u), UNCHANGED <<buckets, keyBytes, users, known>>
      PROVE  CountersType'
  BY <1>7 DEF resetMark
<1>8. CASE SeedAdd
  BY <1>8 DEF SeedAdd, addToUser, CarriedUsers, LoopsType
<1>9. CASE SeedStore
  BY <1>9, ZenonT(40) DEF SeedStore, LoopsType, Seed
<1>10. ASSUME NEW ok, Restart(ok) PROVE CountersType'
  <2>1. /\ buckets' = [b \in Buckets |-> 0] /\ keyBytes' = [k \in Keys |-> 0]
        /\ users' = [u \in Users |-> IF ok THEN SeedFromDisk(u) ELSE 0]
        /\ persisted' = users' /\ known' = {u \in Users : users'[u] > 0}
    BY <1>10 DEF Restart
  <2>2. users' \in [Users -> Nat]
    BY <2>1, SeedIsNat
  <2> QED BY <2>1, <2>2
<1>11. CASE UNCHANGED counterVars
  BY <1>11
<1>12. CASE Tick \/ Shutdown \/ UNCHANGED vars
  BY <1>11, <1>12 DEF Tick, Shutdown, vars
<1>13. CASE FlushBegin \/ FlushWrite \/ FlushWriteFails \/ FlushAdd \/ FlushEnd
  BY <1>11, <1>13 DEF FlushBegin, FlushWrite, FlushWriteFails, FlushAdd, FlushEnd
<1>14. ASSUME NEW u \in Users, FlushLookup(u) \/ FlushRecheck(u) PROVE CountersType'
  BY <1>11, <1>14 DEF FlushLookup, FlushRecheck
<1>15. CASE PeriodWorker
  BY <1>6, <1>7, <1>11, <1>15, ZenonT(40)
     DEF PeriodWorker, PeriodList, PeriodEnd, PeriodWrite, PeriodResetUsers, PeriodResetMark
<1>16. CASE ControlPlane
  BY <1>6, <1>7, <1>11, <1>16, ControlCounters, ZenonT(40)
<1>17. CASE Expiry
  BY <1>11, <1>17, ExpiryFrame
<1>19. CASE ReseedList \/ ReseedFilter \/ \E r \in slist : SeedLoad(r)
  BY <1>11, <1>19, ZenonT(40) DEF ReseedList, ReseedFilter, SeedLoad
<1> QED
  BY <1>1, <1>2, <1>3, <1>4, <1>5, <1>6, <1>7, <1>8, <1>9, <1>10, <1>12, <1>13, <1>14,
     <1>15, <1>16, <1>17, <1>19
     DEF Next, DataPlane, Flusher, Reseed, Crash, Exit

\* Rows rewritten field by field stay rows, and what changes a row leaves it
\* with an owner.
RowStep(old, new) ==
    /\ new \in Row
    /\ new.status # "none" => new.user \in Users
    /\ old.status # "none" => new.status # "none"
SubsStep ==
    /\ subs' \in [SubIds -> Row]
    /\ \A i \in SubIds : RowStep(subs[i], subs'[i])

\* The subscriptions are rows.
LEMMA RowsAreRows == ASSUME TypeInv PROVE subs \in [SubIds -> Row]
BY DEF TypeInv, TypeOK, DiskType

\* One row that may change as it does is a step of the rows.
LEMMA OneRowChanges ==
    ASSUME TypeInv, NEW i \in SubIds, NEW new, RowStep(subs[i], new),
           subs' = [subs EXCEPT ![i] = new]
    PROVE  SubsStep
BY DEF TypeInv, TypeOK, DiskType, RowsOwned, SubsStep, RowStep

\* So are rows that do not change.
LEMMA SameRows == ASSUME TypeInv, UNCHANGED subs PROVE SubsStep
BY DEF TypeInv, TypeOK, DiskType, RowsOwned, SubsStep, RowStep

\* A row may be charged,
LEMMA ChargedRow ==
    ASSUME TypeInv, NEW i \in SubIds, NEW n \in Nat
    PROVE  RowStep(subs[i], [subs[i] EXCEPT !.used = @ + n])
<1>1. subs[i] \in Row
  BY DEF TypeInv, TypeOK, DiskType
<1>2. subs[i].used + n \in Nat
  BY <1>1 DEF Row
<1>3. [subs[i] EXCEPT !.used = @ + n] =
          [user |-> subs[i].user, status |-> subs[i].status, life |-> subs[i].life,
           start |-> subs[i].start, used |-> subs[i].used + n]
  BY <1>1 DEF Row
<1> QED
  BY <1>1, <1>2, <1>3 DEF RowStep, Row, TypeInv, RowsOwned

\* ... may begin a new period,
LEMMA MovedRow ==
    ASSUME TypeInv, NEW i \in SubIds, NEW n \in Nat
    PROVE  RowStep(subs[i], NewPeriod(subs[i], n))
<1>1. subs[i] \in Row
  BY DEF TypeInv, TypeOK, DiskType
<1>2. NewPeriod(subs[i], n) =
          [user |-> subs[i].user, status |-> subs[i].status, life |-> subs[i].life,
           start |-> n, used |-> 0]
  BY DEF NewPeriod
<1> QED
  BY <1>1, <1>2 DEF RowStep, Row, TypeInv, RowsOwned

\* ... and a request, or the end of its term, may give it other terms, or make
\* it a new row.
RowTerms(old, new) ==
    /\ old.status # "none"
    /\ \E st \in Statuses \ {"none"}, l \in Lives : new = Terms(old, st, l)
RowNew(old, new) ==
    \E u \in Users, n \in Nat : (old.status = "none" \/ old.user = u) /\ new = NewRow(u, n)
RowMoves(old, new) == new = old \/ RowTerms(old, new) \/ RowNew(old, new)
RowsMove == subs' \in [SubIds -> Row] /\ \A i \in SubIds : RowMoves(subs[i], subs'[i])

\* What changes a row keeps its user, and only a charge makes a total grow.
RowKept(old, new) ==
    /\ old.status # "none" => new.user = old.user
    /\ new.used = 0 \/ (new.user = old.user /\ new.used = old.used)
RowsKept == \A i \in SubIds : RowKept(subs[i], subs'[i])

\* Such a row is a row, with an owner, and charges no more than it did.
LEMMA MovesKeep ==
    ASSUME TypeInv, NEW i \in SubIds, NEW new, RowMoves(subs[i], new)
    PROVE  RowStep(subs[i], new) /\ RowKept(subs[i], new)
<1>1. subs[i] \in Row /\ (subs[i].status # "none" => subs[i].user \in Users)
  BY DEF TypeInv, TypeOK, DiskType, RowsOwned
<1>2. CASE new = subs[i]
  BY <1>1, <1>2 DEF RowStep, RowKept
<1>3. CASE RowTerms(subs[i], new)
  <2>1. PICK st \in Statuses \ {"none"}, l \in Lives : new = Terms(subs[i], st, l)
    BY <1>3 DEF RowTerms
  <2>2. subs[i].status # "none"
    BY <1>3 DEF RowTerms
  <2> QED BY <1>1, <2>1, <2>2 DEF RowStep, RowKept, Terms, Row
<1>4. CASE RowNew(subs[i], new)
  <2>1. PICK u \in Users, n \in Nat :
           (subs[i].status = "none" \/ subs[i].user = u) /\ new = NewRow(u, n)
    BY <1>4 DEF RowNew
  <2> QED BY <1>1, <2>1 DEF RowStep, RowKept, NewRow, Row, Statuses, Lives
<1> QED BY <1>2, <1>3, <1>4 DEF RowMoves

\* One row that moves, and rows that move, each on its own.
LEMMA OneRowMoves ==
    ASSUME TypeInv, NEW i \in SubIds, NEW new, RowMoves(subs[i], new),
           subs' = [subs EXCEPT ![i] = new]
    PROVE  RowsMove
<1>1. new \in Row /\ subs \in [SubIds -> Row]
  BY MovesKeep DEF RowStep, TypeInv, TypeOK, DiskType
<1> QED BY <1>1 DEF RowsMove, RowMoves

\* Rows rewritten in one statement move when each does.
LEMMA AllRowsMove ==
    ASSUME TypeInv, NEW f, subs' = f, f = [i \in SubIds |-> f[i]],
           \A i \in SubIds : RowMoves(subs[i], f[i])
    PROVE  RowsMove
<1>1. \A i \in SubIds : f[i] \in Row
  BY MovesKeep DEF RowStep
<1> QED BY <1>1 DEF RowsMove

\* A change of one or both of a row's terms.
LEMMA StatusMoves ==
    ASSUME TypeInv, NEW i, RowInUse(i), NEW st \in Statuses \ {"none"}, NEW l \in Lives
    PROVE  /\ RowMoves(subs[i], [subs[i] EXCEPT !.status = st])
           /\ RowMoves(subs[i], [subs[i] EXCEPT !.life = l])
           /\ RowMoves(subs[i], Terms(subs[i], st, l))
<1>1. subs[i] \in Row /\ subs[i].status # "none"
  BY DEF RowInUse, TypeInv, TypeOK, DiskType
<1>2. subs[i].status \in Statuses \ {"none"} /\ subs[i].life \in Lives
  BY <1>1 DEF Row
<1>3. [subs[i] EXCEPT !.status = st] = Terms(subs[i], st, subs[i].life)
  BY <1>1 DEF Row, Terms
<1>4. [subs[i] EXCEPT !.life = l] = Terms(subs[i], subs[i].status, l)
  BY <1>1 DEF Row, Terms
<1> QED
  BY <1>1, <1>2, <1>3, <1>4, ZenonT(40) DEF RowMoves, RowTerms

\* The end of a term moves the rows so,
LEMMA ExpiryRows == ASSUME TypeInv, Expiry PROVE RowsMove
<1>0. "expired" \in Statuses \ {"none"} /\ "over" \in Lives
  BY DEF Statuses, Lives
<1>1. ASSUME NEW i \in SubIds, Lapse(i) PROVE RowsMove
  <2> DEFINE t == [subs[i] EXCEPT !.life = "over"]
  <2>1. RowInUse(i) /\ subs' = [subs EXCEPT ![i] = t]
    BY <1>1 DEF Lapse, RowInUse
  <2>2. RowMoves(subs[i], t)
    BY <1>0, <2>1, StatusMoves
  <2> HIDE DEF t
  <2> QED BY <2>1, <2>2, OneRowMoves, ZenonT(40)
<1>2. CASE ExpireStaleSubscriptions
  <2> DEFINE f == [i \in SubIds |->
                     IF subs[i].status = "active" /\ subs[i].life = "over"
                     THEN [subs[i] EXCEPT !.status = "expired"] ELSE subs[i]]
  <2>1. subs' = f
    BY <1>2 DEF ExpireStaleSubscriptions
  <2>2. ASSUME NEW i \in SubIds PROVE RowMoves(subs[i], f[i])
    <3>1. CASE subs[i].status = "active" /\ subs[i].life = "over"
      BY <1>0, <3>1, StatusMoves DEF RowInUse
    <3>2. CASE ~(subs[i].status = "active" /\ subs[i].life = "over")
      BY <3>2 DEF RowMoves
    <3> QED BY <3>1, <3>2
  <2>3. f = [i \in SubIds |-> f[i]]
    OBVIOUS
  <2> HIDE DEF f
  <2> QED BY <2>1, <2>2, <2>3, AllRowsMove
<1> QED BY <1>1, <1>2 DEF Expiry

\* ... and so does a purchase,
LEMMA PurchaseRows ==
    ASSUME TypeInv, NEW a \in Admins, NEW u \in Users, Purchase(a, u)
    PROVE  RowsMove
<1>1. PICK i \in FreeIds : subs' = [ExpireActive(u) EXCEPT ![i] = NewRow(u, clock)]
  BY ZenonT(40) DEF Purchase
<1> DEFINE f == [ExpireActive(u) EXCEPT ![i] = NewRow(u, clock)]
<1>2. i \in SubIds /\ subs[i].status = "none" /\ clock \in Nat
  BY DEF FreeIds, TypeInv, TypeOK, DiskType
<1>3. f = [j \in SubIds |-> f[j]]
  BY DEF ExpireActive
<1>4. \A j \in SubIds : f[j] = IF j = i THEN NewRow(u, clock) ELSE ExpireActive(u)[j]
  BY <1>2 DEF ExpireActive
<1>5. ASSUME NEW j \in SubIds PROVE RowMoves(subs[j], f[j])
  <2>1. CASE j = i
    BY <1>2, <1>4, <2>1 DEF RowMoves, RowNew
  <2>2. CASE j # i /\ j \in ActiveRows(u)
    <3>1. f[j] = [subs[j] EXCEPT !.status = "expired"]
      BY <1>4, <2>2 DEF ExpireActive
    <3>2. RowInUse(j) /\ "expired" \in Statuses \ {"none"} /\ "over" \in Lives
      BY <2>2 DEF RowInUse, ActiveRows, Statuses, Lives
    <3>3. RowMoves(subs[j], [subs[j] EXCEPT !.status = "expired"])
      BY <3>2, StatusMoves, ZenonT(40)
    <3> HIDE DEF f
    <3> QED BY <3>1, <3>3, ZenonT(40)
  <2>3. CASE j # i /\ j \notin ActiveRows(u)
    BY <1>4, <2>3 DEF ExpireActive, RowMoves
  <2> QED BY <2>1, <2>2, <2>3
<1>6. subs' = f
  BY <1>1
<1> HIDE DEF f
<1> QED BY <1>3, <1>5, <1>6, AllRowsMove

\* ... the write of a request that was begun before,
LEMMA ContinuedRows ==
    ASSUME TypeInv, NEW a \in Admins,
           RenewWrite(a) \/ ExpireListed(a) \/ AssignInsert(a) \/ TermsWrite(a)
    PROVE  RowsMove
<1>0. /\ adm[a] \in Admin /\ RequestOwned(adm[a]) /\ adm[a].at \in Nat
      /\ \A i \in SubIds : RowInUse(i) => subs[i].user \in Users
  BY DEF TypeInv, TypeOK, LoopsType, RowsOwned, Admin, RowInUse
<1>1. CASE UNCHANGED subs
  BY <1>1 DEF RowsMove, RowMoves, TypeInv, TypeOK, DiskType
<1>2. ASSUME NEW i \in SubIds, NEW u \in Users, subs[i].status = "none" \/ subs[i].user = u,
             subs' = [subs EXCEPT ![i] = NewRow(u, adm[a].at)]
      PROVE  RowsMove
  <2>1. RowMoves(subs[i], NewRow(u, adm[a].at))
    BY <1>0, <1>2, ZenonT(40) DEF RowMoves, RowNew
  <2> QED BY <1>2, <2>1, OneRowMoves, ZenonT(40)
<1>3. CASE RenewWrite(a)
  <2>1. RowInUse(adm[a].sub)
    BY <1>0, <1>3, ZenonT(40) DEF RenewWrite, RequestOwned
  <2>2. adm[a].sub \in SubIds /\ subs[adm[a].sub].user \in Users
    BY <1>0, <2>1, ZenonT(40) DEF RowInUse
  <2> QED BY <1>1, <1>2, <1>3, <2>2, ZenonT(40) DEF RenewWrite
<1>4. CASE ExpireListed(a)
  <2> DEFINE i == adm[a].old
             t == [subs[i] EXCEPT !.status = "expired"]
  <2>1. RowInUse(i) /\ i \in SubIds /\ "expired" \in Statuses \ {"none"} /\ "over" \in Lives
    BY <1>0, <1>4 DEF ExpireListed, RequestOwned, RowInUse, Statuses, Lives
  <2>2. RowMoves(subs[i], t)
    BY <2>1, StatusMoves
  <2>3. subs' = [subs EXCEPT ![i] = t]
    BY <1>4 DEF ExpireListed
  <2> HIDE DEF i, t
  <2> QED BY <2>1, <2>2, <2>3, OneRowMoves, ZenonT(40)
<1>5. CASE AssignInsert(a)
  <2>1. adm[a].user \in Users
    BY <1>0, <1>5, ZenonT(40) DEF AssignInsert, RequestOwned
  <2>2. \A i \in FreeIds : i \in SubIds /\ subs[i].status = "none"
    BY DEF FreeIds
  <2> QED BY <1>1, <1>2, <1>5, <2>1, <2>2, ZenonT(40) DEF AssignInsert
<1>6. CASE TermsWrite(a)
  <2> DEFINE i == adm[a].sub
  <2>1. RowInUse(i) /\ i \in SubIds
    BY <1>0, <1>6, ZenonT(40) DEF TermsWrite, RequestOwned, RowInUse
  <2>2. PICK st \in Statuses \ {"none"}, l \in Lives :
           \/ subs' = [subs EXCEPT ![i] = Terms(@, st, l)]
           \/ UNCHANGED subs
    BY <1>6, ZenonT(40) DEF TermsWrite
  <2>3. RowMoves(subs[i], Terms(subs[i], st, l))
    BY <2>1, StatusMoves
  <2> HIDE DEF i
  <2> QED BY <1>1, <2>1, <2>2, <2>3, OneRowMoves, ZenonT(40)
<1> QED BY <1>3, <1>4, <1>5, <1>6

\* ... and every step of the control plane.
LEMMA ControlRows == ASSUME TypeInv, ControlPlane PROVE RowsMove
<1>1. CASE UNCHANGED subs
  BY <1>1 DEF RowsMove, RowMoves, TypeInv, TypeOK, DiskType
<1>2. ASSUME NEW a \in Admins, NEW i \in SubIds, RevokeUserSubscription(a, i)
      PROVE  RowsMove
  <2> DEFINE t == [subs[i] EXCEPT !.status = "suspended"]
  <2>1. RowInUse(i) /\ "suspended" \in Statuses \ {"none"} /\ "over" \in Lives
    BY <1>2 DEF RevokeUserSubscription, RowInUse, Statuses, Lives
  <2>2. RowMoves(subs[i], t)
    BY <2>1, StatusMoves
  <2>3. subs' = [subs EXCEPT ![i] = t]
    BY <1>2 DEF RevokeUserSubscription
  <2> HIDE DEF t
  <2> QED BY <2>2, <2>3, OneRowMoves, ZenonT(40)
<1>3. ASSUME NEW a \in Admins, NEW u \in Users, AssignList(a, u) PROVE UNCHANGED subs
  BY <1>3, ZenonT(40) DEF AssignList, diskVars
<1>4. ASSUME NEW a \in Admins, NEW i \in SubIds,
             RenewRead(a, i) \/ ReactivateList(a, i) \/ PatchRead(a, i)
      PROVE  UNCHANGED subs
  BY <1>4, ZenonT(40) DEF RenewRead, ReactivateList, PatchRead, diskVars
<1>5. ASSUME NEW a \in Admins, RequestFails(a) \/ AdminResetUsers(a) \/ AdminResetMark(a)
      PROVE  UNCHANGED subs
  BY <1>5, ZenonT(40) DEF RequestFails, AdminResetUsers, AdminResetMark, diskVars
<1> QED
  BY <1>1, <1>2, <1>3, <1>4, <1>5, PurchaseRows, ContinuedRows, ZenonT(60) DEF ControlPlane

\* advancePeriod moves a period forward in time.
LEMMA Advance ==
    ASSUME TypeInv, NEW start \in Nat, start <= clock
    PROVE  advancePeriod(start) \in Nat
<1>1. clock - start \in Nat
  BY DEF TypeInv, TypeOK, DiskType
<1> DEFINE q == (clock - start) \div PeriodLength
<1>2. q \in Nat
  BY <1>1, AccountingAssumption
<1>3. q * PeriodLength \in Nat
  <2> HIDE DEF q
  <2> QED
    BY <1>2, AccountingAssumption
<1> QED
  BY <1>3 DEF advancePeriod

\* So is the charge of FlushOnce,
LEMMA FlushAddRows == ASSUME TypeInv, FlushAdd PROVE SubsStep
<1>1. fuser \in Users /\ perUser[fuser] \in Nat /\ window[fuser].id \in SubIds \cup {NoSub}
  BY DEF FlushAdd, TypeInv, TypeOK, FlushType, CarriedUsers, Window
<1>2. CASE /\ AddSubscriptionUsedBytes(window[fuser].id, perUser[fuser])
           /\ window[fuser].id \in SubIds
  <2> DEFINE i == window[fuser].id
             t == [subs[i] EXCEPT !.used = @ + perUser[fuser]]
  <2>1. RowStep(subs[i], t)
    BY <1>1, <1>2, ChargedRow
  <2>2. subs' = [subs EXCEPT ![i] = t]
    BY <1>2 DEF AddSubscriptionUsedBytes
  <2> HIDE DEF t
  <2> QED
    BY <1>2, <2>1, <2>2, OneRowChanges, ZenonT(40)
<1>3. CASE /\ AddSubscriptionUsedBytes(window[fuser].id, perUser[fuser])
           /\ window[fuser].id \notin SubIds
  <2>1. UNCHANGED subs
    BY <1>3 DEF AddSubscriptionUsedBytes, TypeInv, TypeOK, DiskType
  <2> QED
    BY <2>1, SameRows
<1> QED
  BY <1>2, <1>3, SameRows DEF FlushAdd

\* ... the rollover,
LEMMA PeriodWriteRows ==
    ASSUME TypeInv, NEW r \in plist, PeriodWrite(r)
    PROVE  SubsStep
<1>1. r.id \in SubIds \cup {NoSub} /\ r.start \in Nat /\ r.start <= clock
  BY DEF TypeInv, TypeOK, LoopsType, Rollover, ListedInThePast
<1>2. advancePeriod(r.start) \in Nat
  BY <1>1, Advance
<1>3. CASE UNCHANGED subs
  BY <1>3, SameRows
<1>4. CASE subs' = [subs EXCEPT ![r.id] = NewPeriod(@, advancePeriod(r.start))]
  <2>1. CASE r.id \in SubIds
    BY <1>2, <1>4, <2>1, MovedRow, OneRowChanges, ZenonT(40)
  <2>2. CASE r.id \notin SubIds
    BY <1>3, <1>4, <2>2 DEF TypeInv, TypeOK, DiskType
  <2> QED
    BY <2>1, <2>2
<1> QED
  BY <1>3, <1>4 DEF PeriodWrite, ResetSubscriptionPeriod

\* Every step of the accounting leaves the rows in order.
LEMMA SubsNext == ASSUME TypeInv, [Next]_vars PROVE SubsStep
<1>1. CASE UNCHANGED subs
  BY <1>1, SameRows
<1>2. CASE Tick \/ Shutdown \/ Crash \/ Exit \/ DataPlane \/ Reseed \/ UNCHANGED vars
  BY <1>1, <1>2, ZenonT(40) DEF Tick, Shutdown, Crash, Exit, Restart, DataPlane, AddBucket,
         AddAggregate, Reseed, ReseedList, ReseedFilter, SeedLoad, SeedAdd, SeedStore,
         vars, diskVars
<1>3. CASE Flusher
  BY <1>1, <1>3, FlushAddRows, ZenonT(40) DEF Flusher, FlushBegin, FlushDrain, FlushRequeue,
         FlushWrite, FlushWriteFails, FlushLookup, FlushRecheck, FlushMark, FlushEnd,
         diskVars
<1>4. CASE PeriodWorker
  BY <1>1, <1>4, PeriodWriteRows, ZenonT(40) DEF PeriodWorker, PeriodList, PeriodResetUsers,
         PeriodResetMark, PeriodEnd, diskVars
<1>5. CASE ControlPlane
  BY <1>5, ControlRows, MovesKeep DEF RowsMove, SubsStep
<1>6. CASE Expiry
  BY <1>6, ExpiryRows, MovesKeep DEF RowsMove, SubsStep
<1> QED
  BY <1>2, <1>3, <1>4, <1>5, <1>6 DEF Next

\* Every step keeps the types of what is on disk.
LEMMA DiskTypeNext == ASSUME TypeInv, [Next]_vars PROVE DiskType'
<1>1. clock' \in Nat
  <2>1. CASE Tick
    BY <2>1 DEF Tick, TypeInv, TypeOK, DiskType
  <2>2. CASE UNCHANGED clock
    BY <2>2 DEF TypeInv, TypeOK, DiskType
  <2> QED
    BY <2>1, <2>2, ControlFrame, ExpiryFrame, ZenonT(40) DEF Next, Shutdown, Crash, Exit, Restart, DataPlane,
         AddBucket, AddAggregate, Reseed, ReseedList, ReseedFilter, SeedLoad, SeedAdd,
         SeedStore, Flusher, FlushBegin, FlushDrain, FlushRequeue, FlushWrite,
         FlushWriteFails, FlushLookup, FlushRecheck, FlushAdd, FlushMark, FlushEnd,
         PeriodWorker, PeriodList, PeriodWrite, PeriodResetUsers, PeriodResetMark,
         PeriodEnd, vars
<1>2. hourly' \in [Buckets -> Nat]
  <2>1. CASE FlushWrite
    BY <2>1 DEF FlushWrite, TypeInv, TypeOK, DiskType, FlushType
  <2>2. CASE UNCHANGED hourly
    BY <2>2 DEF TypeInv, TypeOK, DiskType
  <2> QED
    BY <2>1, <2>2, ControlFrame, ExpiryFrame, ZenonT(40) DEF Next, Tick, Shutdown, Crash, Exit, Restart, DataPlane,
         AddBucket, AddAggregate, Reseed, ReseedList, ReseedFilter, SeedLoad, SeedAdd,
         SeedStore, Flusher, FlushBegin, FlushDrain, FlushRequeue,
         FlushWriteFails, FlushLookup, FlushRecheck, FlushAdd, FlushMark, FlushEnd,
         PeriodWorker, PeriodList, PeriodWrite, PeriodResetUsers, PeriodResetMark,
         PeriodEnd, vars, diskVars
<1> QED
  BY <1>1, <1>2, SubsNext DEF DiskType, SubsStep

\* The period worker's list.
LEMMA PeriodTypeNext ==
    ASSUME TypeInv, [Next]_vars
    PROVE  /\ ppc' \in {"idle", "scan", "users", "mark"}
           /\ plist' \in SUBSET Rollover
           /\ pcur' \in Rollover
           /\ ListedInThePast'
<1> DEFINE P == /\ ppc \in {"idle", "scan", "users", "mark"}
                /\ plist \in SUBSET Rollover
                /\ pcur \in Rollover
                /\ ListedInThePast
<1>0. P /\ clock \in Nat
  BY DEF TypeInv, TypeOK, LoopsType, DiskType
<1>1. CASE UNCHANGED periodVars /\ UNCHANGED clock
  BY <1>0, <1>1 DEF periodVars, ListedInThePast
<1>2. CASE Tick
  BY <1>0, <1>2 DEF Tick, periodVars, ListedInThePast, Rollover
<1>3. CASE PeriodList
  <2>1. \A i \in SubIds : subs[i] \in Row
    BY DEF TypeInv, TypeOK, DiskType
  <2>2. plist' \in SUBSET Rollover
    BY <1>3, <2>1 DEF PeriodList, Rollover, Row
  <2>3. \A r \in plist' : r.start <= clock
    BY <1>0, <1>3, <2>1, AccountingAssumption DEF PeriodList, Due, Row
  <2> QED
    BY <1>0, <1>3, <2>2, <2>3 DEF PeriodList, ListedInThePast
<1>4. ASSUME NEW r \in plist, PeriodWrite(r) PROVE P'
  <2>1. r \in Rollover
    BY <1>0
  <2>2. pcur' \in Rollover
    BY <1>0, <1>4, <2>1 DEF PeriodWrite, Rollover
  <2> QED
    BY <1>0, <1>4, <2>2 DEF PeriodWrite, ListedInThePast
<1>5. CASE PeriodResetUsers \/ PeriodResetMark \/ PeriodEnd
  <2>1. NoRollover \in Rollover
    BY DEF NoRollover, Rollover
  <2>2. CASE PeriodResetUsers
    BY <1>0, <2>2, ZenonT(40) DEF PeriodResetUsers, ListedInThePast
  <2>3. CASE PeriodResetMark
    BY <1>0, <2>1, <2>3, ZenonT(40) DEF PeriodResetMark, ListedInThePast
  <2>4. CASE PeriodEnd
    BY <1>0, <2>1, <2>4, ZenonT(40) DEF PeriodEnd, ListedInThePast
  <2> QED BY <1>5, <2>2, <2>3, <2>4, ZenonT(40)
<1>6. ASSUME NEW ok, Restart(ok) PROVE P'
  BY <1>6, ZenonT(40) DEF Restart, NoRollover, Rollover, ListedInThePast
<1>7. CASE Shutdown \/ DataPlane \/ Reseed \/ UNCHANGED vars
  BY <1>1, <1>7, ZenonT(40) DEF Shutdown, DataPlane, AddBucket, AddAggregate, Reseed, ReseedList,
         ReseedFilter, SeedLoad, SeedAdd, SeedStore, vars
<1>8. CASE Flusher
  BY <1>1, <1>8, ZenonT(40) DEF Flusher, FlushBegin, FlushDrain, FlushRequeue, FlushWrite,
         FlushWriteFails, FlushLookup, FlushRecheck, FlushAdd, FlushMark, FlushEnd
<1>9. CASE ControlPlane \/ Expiry
  BY <1>1, <1>9, ControlFrame, ExpiryFrame, ZenonT(40)
<1> QED
  BY <1>2, <1>3, <1>4, <1>5, <1>6, <1>7, <1>8, <1>9
     DEF Next, PeriodWorker, Crash, Exit

\* The re-seed loop.
LEMMA SeedTypeNext ==
    ASSUME TypeInv, [Next]_vars
    PROVE  /\ spc' \in {"off", "wait", "filter", "seed", "add", "store"}
           /\ slist' \in SUBSET Seed
           /\ scur' \in Seed
           /\ restore' \in Int /\ starts' \in {"seeded", "unseeded"}
           /\ \A r \in slist' : r.user \in Users
           /\ spc' \in {"add", "store"} => scur'.user \in Users
<1> DEFINE P == /\ spc \in {"off", "wait", "filter", "seed", "add", "store"}
                /\ slist \in SUBSET Seed
                /\ scur \in Seed
                /\ restore \in Int /\ starts \in {"seeded", "unseeded"}
                /\ \A r \in slist : r.user \in Users
                /\ spc \in {"add", "store"} => scur.user \in Users
<1>0. P
  BY DEF TypeInv, TypeOK, LoopsType, CarriedUsers
<1>1. CASE UNCHANGED seedVars
  BY <1>0, <1>1 DEF seedVars
<1>2. CASE ReseedList
  <2>1. \A i \in Seedable : subs[i] \in Row /\ subs[i].user \in Users
    BY DEF Seedable, TypeInv, TypeOK, DiskType, RowsOwned
  <2>2. \A r \in Listed : r \in Seed /\ r.user \in Users
    BY <2>1 DEF Listed, Seed, Row
  <2>3. UNCHANGED <<scur, restore, starts>>
    BY <1>2, ZenonT(40) DEF ReseedList
  <2>4. CASE slist' = Listed /\ spc' = "filter"
    BY <1>0, <2>2, <2>3, <2>4
  <2>5. CASE UNCHANGED <<slist, spc>>
    BY <1>0, <2>3, <2>5
  <2> QED
    BY <1>2, <2>4, <2>5, ZenonT(40) DEF ReseedList
<1>3. CASE ReseedFilter
  BY <1>0, <1>3, ZenonT(40) DEF ReseedFilter
<1>4. ASSUME NEW r \in slist, SeedLoad(r) PROVE P'
  <2>1. r \in Seed /\ r.user \in Users
    BY <1>0
  <2>2. r.used - persisted[r.user] \in Int
    BY <2>1 DEF Seed, TypeInv, TypeOK, CountersType
  <2> QED
    BY <1>0, <1>4, <2>1, <2>2 DEF SeedLoad
<1>5. CASE SeedAdd \/ SeedStore
  <2>1. NoSeed \in Seed /\ 0 \in Int
    BY DEF NoSeed, Seed
  <2>2. CASE SeedAdd
    BY <1>0, <2>2, ZenonT(40) DEF SeedAdd
  <2>3. CASE SeedStore
    BY <1>0, <2>1, <2>3, ZenonT(40) DEF SeedStore
  <2> QED BY <1>5, <2>2, <2>3, ZenonT(40)
<1>6. ASSUME NEW ok, Restart(ok) PROVE P'
  BY <1>0, <1>6 DEF Restart, NoSeed, Seed
<1>7. CASE Tick \/ Shutdown \/ DataPlane \/ UNCHANGED vars
  BY <1>1, <1>7 DEF Tick, Shutdown, DataPlane, AddBucket, AddAggregate, vars
<1>8. CASE Flusher
  BY <1>1, <1>8, ZenonT(40) DEF Flusher, FlushBegin, FlushDrain, FlushRequeue, FlushWrite,
         FlushWriteFails, FlushLookup, FlushRecheck, FlushAdd, FlushMark, FlushEnd
<1>9. CASE ControlPlane \/ Expiry
  BY <1>1, <1>9, ControlFrame, ExpiryFrame, ZenonT(40)
<1>10. CASE PeriodWorker
  BY <1>1, <1>10, ZenonT(40) DEF PeriodWorker, PeriodList, PeriodWrite, PeriodResetUsers,
         PeriodResetMark, PeriodEnd
<1> QED
  BY <1>2, <1>3, <1>4, <1>5, <1>6, <1>7, <1>8, <1>9, <1>10
     DEF Next, Reseed, Crash, Exit

\* The control-plane requests.
LEMMA AdminTypeNext ==
    ASSUME TypeInv, [Next]_vars
    PROVE  adm' \in [Admins -> Admin] /\ RowsOwned'
<1>0. SubsStep /\ adm \in [Admins -> Admin] /\ RowsOwned
  BY SubsNext DEF TypeInv, TypeOK, LoopsType
<1> DEFINE P == adm \in [Admins -> Admin] /\ RowsOwned
<1>1. CASE UNCHANGED adm
  <2>1. \A i : RowInUse(i) => RowInUse(i)'
    BY <1>0 DEF RowInUse, SubsStep, RowStep
  <2> QED
    BY <1>0, <1>1, <2>1, ZenonT(40) DEF RowsOwned, RequestOwned, SubsStep, RowStep
<1>2. ASSUME NEW a \in Admins, NEW t \in Admin, RequestOwned(t), adm' = [adm EXCEPT ![a] = t]
      PROVE  P'
  <2>1. adm' \in [Admins -> Admin] /\ \A c \in Admins : adm'[c] = IF c = a THEN t ELSE adm[c]
    BY <1>0, <1>2
  <2>2. \A i : RowInUse(i) => RowInUse(i)'
    BY <1>0 DEF RowInUse, SubsStep, RowStep
  <2>3. ASSUME NEW r, RequestOwned(r)
        PROVE  /\ r.pc \in {"expire", "insert"} => r.user \in Users
               /\ r.pc = "expire" => RowInUse(r.old)' /\ (r.sub = NoSub \/ RowInUse(r.sub)')
               /\ r.pc \in {"activate", "patch", "renew"} => RowInUse(r.sub)'
    BY <2>2, <2>3, ZenonT(40) DEF RequestOwned
  <2> QED
    BY <1>0, <1>2, <2>1, <2>2, <2>3, ZenonT(40) DEF RowsOwned, RequestOwned, SubsStep, RowStep
<1>3. ASSUME NEW a \in Admins, EndRequest(a) PROVE P'
  <2>1. IdleAdmin \in Admin /\ RequestOwned(IdleAdmin)
    BY DEF IdleAdmin, Admin, RequestOwned
  <2> QED
    BY <1>2, <1>3, <2>1, ZenonT(40) DEF EndRequest
<1>4. ASSUME NEW a \in Admins,
             NEW pc \in {"idle", "expire", "insert", "activate", "patch", "renew", "users", "mark"},
             NEW u \in Users \cup {NoUser}, NEW i \in SubIds \cup {NoSub},
             NEW old \in SubIds \cup {NoSub}, NEW at \in Nat,
             pc \in {"expire", "insert"} => u \in Users,
             pc = "expire" => RowInUse(old) /\ (i = NoSub \/ RowInUse(i)),
             pc \in {"activate", "patch", "renew"} => RowInUse(i),
             SetAdmin(a, pc, u, i, old, at)
      PROVE  P'
  <2> DEFINE t == [pc |-> pc, user |-> u, sub |-> i, old |-> old, at |-> at]
  <2>1. t \in Admin /\ t.pc = pc /\ t.user = u /\ t.sub = i /\ t.old = old
    BY DEF Admin
  <2>2. adm' = [adm EXCEPT ![a] = t]
    BY <1>4 DEF SetAdmin
  <2> HIDE DEF t
  <2>3. RequestOwned(t)
    BY <1>4, <2>1 DEF RequestOwned
  <2> QED
    BY <1>2, <2>1, <2>2, <2>3
<1>5. CASE ControlPlane
  <2>0. /\ \A a \in Admins : /\ adm[a].user \in Users \cup {NoUser} /\ adm[a].at \in Nat
                             /\ adm[a].sub \in SubIds \cup {NoSub} /\ RequestOwned(adm[a])
        /\ \A i \in SubIds : subs[i].status # "none" => subs[i].user \in Users /\ RowInUse(i)
        /\ clock \in Nat /\ 0 \in Nat
    BY <1>0 DEF Admin, RowsOwned, RowInUse, TypeInv, TypeOK, DiskType
  <2>1. ASSUME NEW a \in Admins, NEW u \in Users, Purchase(a, u) PROVE P'
    BY <1>4, <2>0, <2>1, ZenonT(40) DEF Purchase
  <2>2. ASSUME NEW a \in Admins, NEW u \in Users, NEW i \in SubIds \cup {NoSub}, NEW at \in Nat,
               i = NoSub \/ RowInUse(i), NEW pc \in {"insert", "activate"},
               pc = "activate" => RowInUse(i),
               SetAdmin(a, IF GetActiveUserSubscription(u).id = NoSub THEN pc ELSE "expire",
                        u, i, GetActiveUserSubscription(u).id, at)
        PROVE  P'
    <3> DEFINE old == GetActiveUserSubscription(u).id
    <3>1. old \in SubIds \cup {NoSub}
      BY Windows DEF Window
    <3>2. old = NoSub \/ RowInUse(old)
      BY DEF GetActiveUserSubscription, NoWindow, ActiveRows, RowInUse
    <3>3. SetAdmin(a, IF old = NoSub THEN pc ELSE "expire", u, i, old, at)
      BY <2>2
    <3> HIDE DEF old
    <3>4. CASE old = NoSub
      <4>1. SetAdmin(a, pc, u, i, old, at)
        BY <3>3, <3>4
      <4>2. pc # "expire" /\ pc # "patch" /\ pc # "renew"
        BY <2>2
      <4> QED
        BY <1>4, <2>2, <3>1, <4>1, <4>2
    <3>5. CASE old # NoSub
      <4>1. SetAdmin(a, "expire", u, i, old, at)
        BY <3>3, <3>5
      <4> QED
        BY <1>4, <2>2, <3>1, <3>2, <3>5, <4>1
    <3> QED BY <3>4, <3>5
  <2>3. ASSUME NEW a \in Admins, NEW u \in Users, AssignList(a, u) PROVE P'
    <3>1. "insert" \in {"insert", "activate"} /\ "insert" # "activate"
      OBVIOUS
    <3> QED BY <2>0, <2>2, <2>3, <3>1, ZenonT(40) DEF AssignList
  <2>4. ASSUME NEW a \in Admins, NEW i \in SubIds, ReactivateList(a, i) PROVE P'
    <3>1. subs[i].user \in Users /\ RowInUse(i)
      BY <2>0, <2>4 DEF ReactivateList
    <3>2. "activate" \in {"insert", "activate"}
      OBVIOUS
    <3> QED BY <2>0, <2>2, <2>4, <3>1, <3>2, ZenonT(40) DEF ReactivateList
  <2>5. ASSUME NEW a \in Admins, NEW i \in SubIds, RenewRead(a, i) \/ PatchRead(a, i) PROVE P'
    <3>1. subs[i].user \in Users /\ RowInUse(i)
      BY <2>0, <2>5 DEF RenewRead, PatchRead
    <3>2. PICK pc \in {"renew", "patch"}, at \in Nat : SetAdmin(a, pc, subs[i].user, i, NoSub, at)
      <4>0. "renew" \in {"renew", "patch"} /\ "patch" \in {"renew", "patch"}
            /\ clock .. clock + 1 \subseteq Nat
        BY <2>0
      <4>1. CASE RenewRead(a, i)
        BY <4>0, <4>1, ZenonT(40) DEF RenewRead
      <4>2. CASE PatchRead(a, i)
        BY <2>0, <4>0, <4>2, ZenonT(40) DEF PatchRead
      <4> QED BY <2>5, <4>1, <4>2
    <3>3. /\ pc \in {"idle", "expire", "insert", "activate", "patch", "renew", "users", "mark"}
          /\ pc \notin {"expire", "insert"} /\ pc # "expire"
          /\ NoSub \in SubIds \cup {NoSub} /\ i \in SubIds \cup {NoSub}
          /\ subs[i].user \in Users \cup {NoUser}
      BY <3>1, <3>2
    <3> QED BY <1>4, <3>1, <3>2, <3>3, ZenonT(40)
  <2>6. ASSUME NEW a \in Admins, NEW i \in SubIds, RevokeUserSubscription(a, i) PROVE P'
    BY <1>1, <2>6, ZenonT(40) DEF RevokeUserSubscription
  <2>7. ASSUME NEW a \in Admins, ExpireListed(a) PROVE P'
    <3>1. /\ adm[a].user \in Users /\ (adm[a].sub = NoSub \/ RowInUse(adm[a].sub))
          /\ SetAdmin(a, IF adm[a].sub = NoSub THEN "insert" ELSE "activate",
                      adm[a].user, adm[a].sub, NoSub, adm[a].at)
      BY <2>0, <2>7, ZenonT(40) DEF ExpireListed, RequestOwned
    <3>2. PICK pc \in {"insert", "activate"} :
             /\ pc = "activate" => RowInUse(adm[a].sub)
             /\ SetAdmin(a, pc, adm[a].user, adm[a].sub, NoSub, adm[a].at)
      BY <3>1
    <3>3. /\ pc \in {"idle", "expire", "insert", "activate", "patch", "renew", "users", "mark"}
          /\ pc # "expire" /\ pc # "patch" /\ pc # "renew"
          /\ NoSub \in SubIds \cup {NoSub} /\ adm[a].user \in Users \cup {NoUser}
      BY <3>1, <3>2
    <3>4. pc \in {"activate", "patch", "renew"} => RowInUse(adm[a].sub)
      BY <3>2, <3>3
    <3> QED BY <1>4, <2>0, <3>1, <3>2, <3>3, <3>4, ZenonT(40)
  <2>8. ASSUME NEW a \in Admins, NEW pc \in {"users", "mark"},
               SetAdmin(a, pc, adm[a].user, NoSub, NoSub, 0)
        PROVE  P'
    <3>1. /\ pc \in {"idle", "expire", "insert", "activate", "patch", "renew", "users", "mark"}
          /\ pc \notin {"expire", "insert"} /\ pc # "expire"
          /\ pc \notin {"activate", "patch", "renew"} /\ NoSub \in SubIds \cup {NoSub}
      OBVIOUS
    <3> QED BY <1>4, <2>0, <2>8, <3>1, ZenonT(40)
  <2>9. ASSUME NEW a \in Admins,
               \/ RenewWrite(a) \/ AssignInsert(a) \/ TermsWrite(a)
               \/ RequestFails(a) \/ AdminResetUsers(a) \/ AdminResetMark(a)
        PROVE  P'
    <3>1. "users" \in {"users", "mark"} /\ "mark" \in {"users", "mark"}
      OBVIOUS
    <3> QED
      BY <1>3, <2>8, <2>9, <3>1, ZenonT(40) DEF RenewWrite, AssignInsert, TermsWrite,
         RequestFails, AdminResetUsers, AdminResetMark
  <2> QED
    BY <1>5, <2>1, <2>3, <2>4, <2>5, <2>6, <2>7, <2>9, ZenonT(60) DEF ControlPlane
<1>7. ASSUME NEW ok, Restart(ok) PROVE P'
  <2>1. IdleAdmin \in Admin /\ ~(IdleAdmin.pc \in {"expire", "insert", "activate", "patch", "renew"})
    BY DEF IdleAdmin, Admin
  <2>2. adm' = [a \in Admins |-> IdleAdmin]
    BY <1>7, ZenonT(40) DEF Restart
  <2>3. adm' \in [Admins -> Admin] /\ \A a \in Admins : adm'[a] = IdleAdmin
    BY <2>1, <2>2
  <2>4. IdleAdmin.pc = "idle"
    BY DEF IdleAdmin
  <2> QED
    BY <1>0, <2>3, <2>4 DEF RowsOwned, RequestOwned, SubsStep, RowStep
<1>8. CASE Tick \/ Expiry \/ Shutdown \/ DataPlane \/ UNCHANGED vars
  BY <1>1, <1>8, ExpiryFrame, ZenonT(40)
     DEF Tick, Shutdown, DataPlane, AddBucket, AddAggregate, vars
<1>9. CASE Flusher
  BY <1>1, <1>9, ZenonT(40) DEF Flusher, FlushBegin, FlushDrain, FlushRequeue, FlushWrite,
         FlushWriteFails, FlushLookup, FlushRecheck, FlushAdd, FlushMark, FlushEnd
<1>10. CASE PeriodWorker
  BY <1>1, <1>10, ZenonT(40) DEF PeriodWorker, PeriodList, PeriodWrite, PeriodResetUsers,
         PeriodResetMark, PeriodEnd
<1>11. CASE Reseed
  BY <1>1, <1>11 DEF Reseed, ReseedList, ReseedFilter, SeedLoad, SeedAdd, SeedStore
<1> QED
  BY <1>5, <1>7, <1>8, <1>9, <1>10, <1>11 DEF Next, Crash, Exit

\* The flusher.
LEMMA FlushTypeNext ==
    ASSUME TypeInv, [Next]_vars
    PROVE  FlushType' /\ (fpc' \in {"add", "mark"} => fuser' \in Users)
<1> DEFINE P == FlushType /\ (fpc \in {"add", "mark"} => fuser \in Users)
<1>0. P
  BY ZenonT(40) DEF TypeInv, TypeOK, CarriedUsers
<1>1. CASE UNCHANGED flushVars
  BY <1>0, <1>1 DEF flushVars, FlushType
<1>2. CASE FlushBegin
  BY <1>0, <1>2, Windows DEF FlushBegin, FlushType
<1>3. ASSUME NEW b \in Buckets, FlushDrain(b) PROVE P'
  <2>1. buckets[b] \in Nat /\ UserOf[b] \in Users \cup {NoUser}
    BY BucketsAssumption DEF TypeInv, TypeOK, CountersType
  <2>2. drained' \in [Buckets -> Nat] /\ fkeys' \in SUBSET Buckets
    BY <1>0, <1>3, <2>1, ZenonT(40) DEF FlushDrain, FlushType
  <2>3. perUser' \in [Users -> Nat]
    <3>1. perUser \in [Users -> Nat]
      BY <1>0, ZenonT(40) DEF FlushType
    <3>2. CASE UserOf[b] = NoUser
      BY <1>3, <3>1, <3>2, ZenonT(40) DEF FlushDrain
    <3>3. CASE UserOf[b] # NoUser
      <4>1. perUser' = [perUser EXCEPT ![UserOf[b]] = @ + buckets[b]]
        BY <1>3, <3>3, ZenonT(40) DEF FlushDrain
      <4> QED BY <2>1, <3>1, <3>3, <4>1
    <3> QED BY <3>2, <3>3, ZenonT(40)
  <2>4. UNCHANGED <<fpc, fusers, window, fuser, batchRow>>
    BY <1>3, ZenonT(40) DEF FlushDrain
  <2> QED
    BY <1>0, <2>2, <2>3, <2>4 DEF FlushType
<1>4. ASSUME NEW b \in Buckets, FlushRequeue(b) PROVE P'
  BY <1>0, <1>4 DEF FlushRequeue, FlushType
<1>5. CASE FlushWrite \/ FlushWriteFails
  <2>1. CASE FlushWrite
    BY <1>0, <2>1 DEF FlushWrite, FlushType
  <2>2. CASE FlushWriteFails
    BY <1>0, <2>2 DEF FlushWriteFails, FlushType, NoWindow, Window
  <2> QED BY <1>5, <2>1, <2>2
<1>6. ASSUME NEW u \in Users, FlushLookup(u) PROVE P'
  BY <1>0, <1>6, Windows DEF FlushLookup, FlushType
<1>7. ASSUME NEW u \in Users, FlushRecheck(u) PROVE P'
  BY <1>0, <1>7 DEF FlushRecheck, FlushType
<1>8. CASE FlushAdd \/ FlushMark
  BY <1>0, <1>8 DEF FlushAdd, FlushMark, FlushType
<1>9. CASE FlushEnd
  BY <1>0, <1>9 DEF FlushEnd, FlushType, NoWindow, Window
<1>10. ASSUME NEW ok, Restart(ok) PROVE P'
  BY <1>10, ZenonT(40) DEF Restart, FlushType, NoWindow, Window
<1>11. CASE Tick \/ Shutdown \/ DataPlane \/ UNCHANGED vars
  BY <1>1, <1>11 DEF Tick, Shutdown, DataPlane, AddBucket, AddAggregate, vars
<1>12. CASE ControlPlane \/ Expiry
  BY <1>1, <1>12, ControlFrame, ExpiryFrame, ZenonT(40)
<1>13. CASE PeriodWorker
  BY <1>1, <1>13, ZenonT(40) DEF PeriodWorker, PeriodList, PeriodWrite, PeriodResetUsers,
         PeriodResetMark, PeriodEnd
<1>14. CASE Reseed
  BY <1>1, <1>14 DEF Reseed, ReseedList, ReseedFilter, SeedLoad, SeedAdd, SeedStore
<1> QED
  BY <1>2, <1>3, <1>4, <1>5, <1>6, <1>7, <1>8, <1>9, <1>10, <1>11, <1>12, <1>13, <1>14, ZenonT(40)
     DEF Next, Flusher, Crash, Exit

\* The environment: faults, requests, crashes, and what is in flight.
LEMMA LifeTypeNext == ASSUME TypeInv, [Next]_vars PROVE LifeType'
<1>0. LifeType /\ buckets \in [Buckets -> Nat] /\ drained \in [Buckets -> Nat]
  BY DEF TypeInv, TypeOK, CountersType, FlushType
<1> USE DEF LifeType
<1>1. CASE UNCHANGED <<lifeVars, adding, moved>>
  BY <1>0, <1>1 DEF lifeVars
<1>2. ASSUME NEW b \in Buckets, AddBucket(b) PROVE LifeType'
  <2>1. UserOf[b] \in Users \cup {NoUser}
    BY BucketsAssumption
  <2> QED
    BY <1>0, <1>2, <2>1 DEF AddBucket, lifeVars
<1>3. ASSUME NEW u \in Users, AddAggregate(u) PROVE LifeType'
  BY <1>0, <1>3 DEF AddAggregate, lifeVars
<1>4. ASSUME UNCHANGED <<adding, stopping, crashes, moved, lost, lostClean>>,
             faults' \in Nat, requests' \in Nat
      PROVE  LifeType'
  BY <1>0, <1>4
<1>5. CASE Flusher
  <2>1. UNCHANGED <<adding, stopping, crashes, moved, lost, lostClean, requests>>
    BY <1>5, ZenonT(40) DEF Flusher, FlushBegin, FlushDrain, FlushRequeue, FlushWrite,
         FlushWriteFails, FlushLookup, FlushRecheck, FlushAdd, FlushMark, FlushEnd,
         lifeVars
  <2>2. faults' = faults \/ Fault
    BY <1>5, ZenonT(40) DEF Flusher, FlushBegin, FlushDrain, FlushRequeue, FlushWrite,
         FlushWriteFails, FlushLookup, FlushRecheck, FlushAdd, FlushMark, FlushEnd,
         lifeVars
  <2>3. faults' \in Nat /\ requests' \in Nat
    BY <1>0, <2>1, <2>2 DEF Fault
  <2> QED
    BY <1>4, <2>1, <2>3
<1>6. CASE PeriodWorker
  <2>1. UNCHANGED <<adding, stopping, crashes, moved, lost, lostClean, requests>>
    BY <1>6, ZenonT(40) DEF PeriodWorker, PeriodList, PeriodWrite, PeriodResetUsers,
         PeriodResetMark, PeriodEnd, lifeVars
  <2>2. faults' = faults \/ Fault
    BY <1>6, ZenonT(40) DEF PeriodWorker, PeriodList, PeriodWrite, PeriodResetUsers,
         PeriodResetMark, PeriodEnd, lifeVars
  <2>3. faults' \in Nat /\ requests' \in Nat
    BY <1>0, <2>1, <2>2 DEF Fault
  <2> QED
    BY <1>4, <2>1, <2>3
<1>7. CASE ControlPlane
  <2>1. UNCHANGED <<adding, stopping, crashes, moved, lost, lostClean>>
    BY <1>7, ControlFrame, ZenonT(40)
  <2>2. requests' = requests \/ requests' = requests + 1
    BY <1>7, ControlFrame, ZenonT(40)
  <2>3. faults' = faults \/ Fault
    BY <1>7, ControlFrame, ZenonT(40)
  <2>4. faults' \in Nat /\ requests' \in Nat
    BY <1>0, <2>2, <2>3 DEF Fault
  <2> QED
    BY <1>4, <2>1, <2>4
<1>8. CASE Tick \/ Expiry \/ UNCHANGED vars
  BY <1>1, <1>8, ExpiryFrame, ZenonT(40) DEF Tick, vars
<1>11. CASE Reseed
  <2>1. UNCHANGED <<adding, stopping, crashes, moved, lost, lostClean, requests>>
    BY <1>11, ZenonT(40) DEF Reseed, ReseedList, ReseedFilter, SeedLoad, SeedAdd,
         SeedStore, lifeVars
  <2>2. faults' = faults \/ Fault
    BY <1>11, ZenonT(40) DEF Reseed, ReseedList, ReseedFilter, SeedLoad, SeedAdd,
         SeedStore, lifeVars
  <2>3. faults' \in Nat /\ requests' \in Nat
    BY <1>0, <2>1, <2>2 DEF Fault
  <2> QED
    BY <1>4, <2>1, <2>3
<1>9. CASE Shutdown
  BY <1>0, <1>9 DEF Shutdown
<1>10. CASE Crash \/ Exit
  <2>1. PICK ok : Restart(ok)
    BY <1>10 DEF Crash, Exit
  <2>2. /\ lost' = [b \in Buckets |-> lost[b] + buckets[b] + drained[b]]
        /\ adding' = [u \in Users |-> 0] /\ stopping' = FALSE /\ crashes' = crashes + 1
        /\ UNCHANGED <<faults, requests, moved>>
    BY <2>1, ZenonT(40) DEF Restart
  <2>3. \/ lostClean' = lostClean
        \/ lostClean' = [b \in Buckets |-> lostClean[b] + buckets[b] + drained[b]]
    BY <1>10 DEF Crash, Exit
  <2>4. lost' \in [Buckets -> Nat]
    BY <1>0, <2>2
  <2>5. lostClean' \in [Buckets -> Nat]
    BY <1>0, <2>3
  <2>6. adding' \in [Users -> Nat] /\ crashes' \in Nat
    BY <1>0, <2>2
  <2> QED
    BY <1>0, <2>2, <2>4, <2>5, <2>6, ZenonT(40)
<1> QED
  BY <1>2, <1>3, <1>5, <1>6, <1>7, <1>8, <1>9, <1>10, <1>11 DEF Next, DataPlane

\* Every step keeps the types.
LEMMA TypeNext == ASSUME TypeInv, [Next]_vars PROVE TypeInv'
<1>1. LoopsType'
  BY PeriodTypeNext, SeedTypeNext, AdminTypeNext DEF LoopsType
<1>2. CarriedUsers'
  BY SeedTypeNext, FlushTypeNext DEF CarriedUsers
<1> QED
  BY <1>1, <1>2, CountersTypeNext, DiskTypeNext, FlushTypeNext, LifeTypeNext,
     AdminTypeNext, PeriodTypeNext DEF TypeInv, TypeOK

\* Type correctness of the accounting, whatever its constants.
THEOREM TypeCorrect == Spec => []TypeOK
<1>1. TypeInv => TypeOK
  BY DEF TypeInv
<1> QED
  BY TypeInit, TypeNext, <1>1, PTL DEF Spec

-----------------------------------------------------------------------------
\* A step that keeps the one row it writes keeps them all.
LEMMA OneRowKept ==
    ASSUME TypeInv, NEW i \in SubIds, NEW new, RowKept(subs[i], new),
           subs' = [subs EXCEPT ![i] = new]
    PROVE  RowsKept
BY RowsAreRows DEF RowsKept, RowKept

\* A reset keeps the row: its total is zero and its user is the same.
LEMMA PeriodKept == ASSUME NEW row, NEW n PROVE RowKept(row, NewPeriod(row, n))
BY DEF RowKept, NewPeriod

\* Every step but the flusher's charge keeps the rows so.
LEMMA KeptNext == ASSUME TypeInv, [Next]_vars, ~FlushAdd PROVE RowsKept
<1>1. CASE UNCHANGED subs
  BY <1>1 DEF RowsKept, RowKept
<1>2. CASE Tick \/ Shutdown \/ Crash \/ Exit \/ DataPlane \/ Reseed \/ UNCHANGED vars
  BY <1>1, <1>2, ZenonT(40) DEF Tick, Shutdown, Crash, Exit, Restart, DataPlane, AddBucket,
         AddAggregate, Reseed, ReseedList, ReseedFilter, SeedLoad, SeedAdd, SeedStore,
         vars, diskVars
<1>3. CASE Flusher
  BY <1>1, <1>3, ZenonT(40) DEF Flusher, FlushBegin, FlushDrain, FlushRequeue,
         FlushWrite, FlushWriteFails, FlushLookup, FlushRecheck, FlushMark, FlushEnd,
         diskVars
<1>4. ASSUME NEW r \in plist, PeriodWrite(r) PROVE RowsKept
  <2>1. CASE subs' = [subs EXCEPT ![r.id] = NewPeriod(@, advancePeriod(r.start))]
    <3> DEFINE t == NewPeriod(subs[r.id], advancePeriod(r.start))
    <3>1. RowKept(subs[r.id], t)
      BY PeriodKept, ZenonT(40)
    <3>2. subs' = [subs EXCEPT ![r.id] = t]
      BY <2>1
    <3> HIDE DEF t
    <3>3. CASE r.id \in SubIds
      BY <3>1, <3>2, <3>3, OneRowKept, ZenonT(40)
    <3>4. CASE r.id \notin SubIds
      BY <1>1, <3>2, <3>4, RowsAreRows
    <3> QED BY <3>3, <3>4
  <2> QED BY <1>1, <1>4, <2>1, ZenonT(40) DEF PeriodWrite, ResetSubscriptionPeriod
<1>5. CASE PeriodWorker
  BY <1>1, <1>4, <1>5, ZenonT(40) DEF PeriodWorker, PeriodList, PeriodResetUsers,
         PeriodResetMark, PeriodEnd, diskVars
<1>6. CASE ControlPlane \/ Expiry
  <2>1. RowsMove
    BY <1>6, ControlRows, ExpiryRows
  <2> QED BY <2>1, MovesKeep DEF RowsMove, RowsKept
<1> QED
  BY <1>2, <1>3, <1>5, <1>6 DEF Next

\* A step is the flusher's, a restart, or leaves the flusher and its table alone.
LEMMA FlushFrame ==
    ASSUME [Next]_vars, ~Flusher
    PROVE  (\E ok \in BOOLEAN : Restart(ok)) \/ UNCHANGED <<flushVars, hourly>>
<1>1. CASE Crash \/ Exit
  BY <1>1 DEF Crash, Exit
<1>2. CASE Tick \/ Shutdown \/ DataPlane \/ Reseed \/ UNCHANGED vars
  BY <1>2, ZenonT(40) DEF Tick, Shutdown, DataPlane, AddBucket, AddAggregate, Reseed, ReseedList,
         ReseedFilter, SeedLoad, SeedAdd, SeedStore, vars, diskVars
<1>3. CASE PeriodWorker \/ ControlPlane \/ Expiry
  BY <1>3, ControlFrame, ExpiryFrame, ZenonT(40) DEF PeriodWorker, PeriodList, PeriodWrite,
         PeriodResetUsers, PeriodResetMark, PeriodEnd, diskVars
<1> QED
  BY <1>1, <1>2, <1>3 DEF Next

\* The windows stay with their users.
LEMMA WindowFound ==
    ASSUME TypeInv, NEW u \in Users, GetActiveUserSubscription(u) # NoWindow
    PROVE  GetActiveUserSubscription(u).id \in ActiveRows(u)
BY ZenonT(40) DEF GetActiveUserSubscription

\* What a step does to an aggregate, apart from a restart and the re-seed loop.
LEMMA AggregateSteps ==
    ASSUME [Next]_vars
    PROVE  \/ \E ok \in BOOLEAN : Restart(ok)
           \/ Reseed
           \/ \E b \in Buckets : AddBucket(b)
           \/ \E u \in Users : AddAggregate(u)
           \/ \E u : resetAggregate(u) /\ UNCHANGED <<adding, moved, starts, spc>>
           \/ UNCHANGED <<users, adding, moved, starts, spc>>
<1> USE DEF seedVars, counterVars
<1>1. CASE Crash \/ Exit
  BY <1>1 DEF Crash, Exit
<1>2. CASE Tick \/ Shutdown \/ DataPlane \/ Reseed \/ UNCHANGED vars
  BY <1>2 DEF Tick, Shutdown, DataPlane, vars
<1>3. CASE PeriodWorker
  BY <1>3, ZenonT(40) DEF PeriodWorker, PeriodList, PeriodWrite, PeriodResetUsers,
         PeriodResetMark, PeriodEnd
<1>4. CASE ControlPlane \/ Expiry
  BY <1>4, ControlFrame, ExpiryFrame, ZenonT(40)
<1>5. CASE Flusher
  BY <1>5, ZenonT(40) DEF Flusher, FlushBegin, FlushDrain, FlushRequeue, Requeue, FlushWrite, FlushWriteFails,
             FlushLookup, FlushRecheck, FlushAdd, FlushMark, FlushEnd
<1> QED
  BY <1>1, <1>2, <1>3, <1>4, <1>5 DEF Next

\* The first period of a process that was seeded, before anybody asks for anything.
Early == starts = "seeded" /\ clock <= PeriodLength /\ requests = 0

\* Until the first rollover or request, a row's total and what is still on its
\* way to it are within the aggregate.
LEMMA EarlyBefore == ASSUME TypeInv, [Next]_vars, Early' PROVE Early
<1>1. clock <= clock' /\ clock \in Nat /\ clock' \in Nat
  <2>1. clock' = clock \/ clock' = clock + 1
    BY ControlFrame, ExpiryFrame, ZenonT(40) DEF Next, Tick, Shutdown, Crash, Exit, Restart, DataPlane,
         AddBucket, AddAggregate, Reseed, ReseedList, ReseedFilter, SeedLoad, SeedAdd,
         SeedStore, Flusher, FlushBegin, FlushDrain, FlushRequeue, FlushWrite,
         FlushWriteFails, FlushLookup, FlushRecheck, FlushAdd, FlushMark, FlushEnd,
         PeriodWorker, PeriodList, PeriodWrite, PeriodResetUsers, PeriodResetMark,
         PeriodEnd, vars
  <2> QED BY <2>1 DEF TypeInv, TypeOK, DiskType
<1>2. starts' = starts \/ starts' = "unseeded"
  BY AggregateSteps, ZenonT(40) DEF Restart, Reseed, ReseedList, ReseedFilter, SeedLoad, SeedAdd,
         SeedStore, AddBucket, AddAggregate, seedVars
<1>3. requests' = requests \/ requests' = requests + 1
  BY ControlFrame, ExpiryFrame, ZenonT(40) DEF Next, Tick, Shutdown, Crash, Exit, Restart, DataPlane, Request,
         AddBucket, AddAggregate, Reseed, ReseedList, ReseedFilter, SeedLoad, SeedAdd,
         SeedStore, Flusher, FlushBegin, FlushDrain, FlushRequeue, FlushWrite,
         FlushWriteFails, FlushLookup, FlushRecheck, FlushAdd, FlushMark, FlushEnd,
         PeriodWorker, PeriodList, PeriodWrite, PeriodResetUsers, PeriodResetMark,
         PeriodEnd, vars, lifeVars
<1>4. requests \in Nat /\ PeriodLength \in Nat
  BY AccountingAssumption DEF TypeInv, TypeOK, LifeType
<1> QED BY <1>1, <1>2, <1>3, <1>4 DEF Early

-----------------------------------------------------------------------------
\* The charges of a user: numbers, smaller while the rows are kept, and more
\* by what is charged.
LEMMA ChargesType ==
    ASSUME Induction, TypeInv, NEW u
    PROVE  /\ \A i \in SubIds : ChargedTo(u)[i] \in Nat
           /\ SumOver(ChargedTo(u), SubIds) \in Nat
<1>1. \A i \in SubIds : ChargedTo(u)[i] \in Nat
  BY RowsAreRows DEF ChargedTo, Row
<1> QED BY <1>1, RowsFinite, SumType

\* A step that keeps the rows adds nothing to what a user was charged.
LEMMA ChargesShrink ==
    ASSUME Induction, TypeInv, TypeInv', RowsKept, NEW u
    PROVE  SumOver(ChargedTo(u), SubIds)' <= SumOver(ChargedTo(u), SubIds)
<1> DEFINE f == ChargedTo(u)'
           g == ChargedTo(u)
<1>1. \A i \in SubIds : f[i] \in Nat /\ g[i] \in Nat
  <2>1. subs \in [SubIds -> Row] /\ subs' \in [SubIds -> Row]
    BY DEF TypeInv, TypeOK, DiskType
  <2> QED BY <2>1 DEF ChargedTo, Row
<1>2. \A i \in SubIds : f[i] <= g[i]
  <2> TAKE i \in SubIds
  <2>1. RowKept(subs[i], subs'[i])
    BY DEF RowsKept
  <2>2. f[i] = IF subs'[i].user = u THEN subs'[i].used ELSE 0
    BY DEF ChargedTo
  <2>3. g[i] = IF subs[i].user = u THEN subs[i].used ELSE 0
    BY DEF ChargedTo
  <2>4. f[i] \in Nat /\ g[i] \in Nat
    BY <1>1
  <2> HIDE DEF f, g
  <2> QED BY <2>1, <2>2, <2>3, <2>4 DEF RowKept
<1> HIDE DEF f, g
<1>3. SumOver(f, SubIds) <= SumOver(g, SubIds)
  BY <1>1, <1>2, RowsFinite, SumGrows
<1> QED BY <1>3 DEF f, g

\* A charge adds what is charged to the total of the row's user, and nothing to
\* anybody else's.
LEMMA ChargesGrow ==
    ASSUME Induction, TypeInv, TypeInv', NEW i \in SubIds, NEW n \in Nat, NEW u,
           \A j \in SubIds :
              /\ subs'[j].user = subs[j].user
              /\ subs'[j].used = subs[j].used + (IF j = i THEN n ELSE 0)
    PROVE  SumOver(ChargedTo(u), SubIds)' =
              SumOver(ChargedTo(u), SubIds) + (IF subs[i].user = u THEN n ELSE 0)
<1> DEFINE f == ChargedTo(u)
           g == ChargedTo(u)'
           m == IF subs[i].user = u THEN n ELSE 0
<1>1. \A j \in SubIds : f[j] \in Nat /\ g[j] \in Nat
  <2>1. subs \in [SubIds -> Row] /\ subs' \in [SubIds -> Row]
    BY DEF TypeInv, TypeOK, DiskType
  <2> QED BY <2>1 DEF ChargedTo, Row
<1>2. \A j \in SubIds : j # i => g[j] = f[j]
  <2> TAKE j \in SubIds
  <2>1. subs[j].used \in Nat
    BY RowsAreRows DEF Row
  <2> QED BY <2>1 DEF ChargedTo
<1>3. g[i] = f[i] + m /\ m \in Nat
  BY DEF ChargedTo
<1> HIDE DEF f, g, m
<1> DEFINE F == SumOver(f, SubIds)
           G == SumOver(g, SubIds)
           fi == f[i]
           gi == g[i]
<1>4. G + fi = F + gi
  BY <1>1, <1>2, RowsFinite, SumChanges
<1>5. F \in Nat /\ G \in Nat
  BY <1>1, RowsFinite, SumType, ZenonT(40)
<1>6. fi \in Nat
  BY <1>1, ZenonT(40)
<1>7. G = F + m
  <2>1. gi = fi + m /\ m \in Nat
    BY <1>3, ZenonT(40)
  <2> HIDE DEF F, G, fi, gi
  <2> QED BY <1>4, <1>5, <1>6, <2>1
<1> QED BY <1>7 DEF f, g, m
=============================================================================

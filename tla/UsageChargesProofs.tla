------------------------ MODULE UsageChargesProofs -------------------------
(***************************************************************************)
(* What the flusher charges, what the quota layer counts in memory and     *)
(* what is on disk, for any number of buckets, users, subscriptions and    *)
(* requests.                                                               *)
(*                                                                         *)
(* The properties compare sums, which the code keeps in different places:  *)
(* a user's total over the hourly rows, over the charges of their rows,    *)
(* and the aggregate in memory.  UsageAccountingProofs has the laws of     *)
(* sums; they rest on Induction, the principle of induction for numbers    *)
(* with a set in place of a predicate.  Induction is an assumption of the  *)
(* lemmas; the first part proves it from the library's theorems on         *)
(* well-founded relations, and the theorems rest on nothing else.  The     *)
(* running total of a key comes next.                                      *)
(*                                                                         *)
(* ChargeInv is the strengthening for the charges.  A pass first writes    *)
(* the hourly rows and then charges one user after another, so between the *)
(* two the disk is ahead of the charges by Outstanding, the part of the    *)
(* batch that is still to be charged.  ChargesFit keeps that room free     *)
(* across a window that is looked up before the row is charged and across  *)
(* a row that is reset or handed on in between.                            *)
(*                                                                         *)
(* AggregateFits bounds a user's aggregate by what the user's buckets      *)
(* moved, as long as every start could read the subscriptions: a seed is   *)
(* the charges on disk, which ChargesFit bounds by the hourly rows.        *)
(*                                                                         *)
(* EarlyInv is the strengthening for the other direction: the aggregate    *)
(* bounds what is on disk only while the first period runs and nobody has  *)
(* asked for anything (Early).  A user's one row, what memory and the      *)
(* batch hold and what is still to be charged then fit into it: the        *)
(* flusher moves bytes between these places, the data plane adds to two of *)
(* them, and a restart reads one of them back.                             *)
(***************************************************************************)
EXTENDS UsageAccountingProofs

\* The time the provers get for a leaf that does not say otherwise.
USE SMTT(30), ZenonT(30)

INSTANCE WellFoundedInduction

\* Every non-empty set of numbers has a least one.
LEMMA LeastNumber ==
    ASSUME NEW T, T \subseteq Nat, T # {}
    PROVE  \E n \in T : \A m \in T : n <= m
<1> DEFINE R == OpToRel(<, Nat)
<1>1. IsWellFoundedOn(R, Nat)
  BY NatLessThanWellFounded, ZenonT(40)
<1>2. \A m, n \in Nat : <<m, n>> \in R <=> m < n
  BY DEF OpToRel
<1> HIDE DEF R
<1>3. PICK n \in T : \A m \in T : ~ (<<m, n>> \in R)
  BY <1>1, WFMin, ZenonT(40)
<1>4. ASSUME NEW m \in T PROVE n <= m
  <2>1. m \in Nat /\ n \in Nat /\ ~ (<<m, n>> \in R)
    BY <1>3
  <2>2. ~ (m < n)
    BY <1>2, <2>1
  <2> QED BY <2>1, <2>2
<1> QED BY <1>4

\* The principle of induction holds: a least number outside the set would be
\* neither zero nor a successor.
LEMMA InductionHolds == Induction
<1> SUFFICES ASSUME NEW Good, 0 \in Good, \A n \in Nat : n \in Good => n + 1 \in Good,
                    NEW k \in Nat, k \notin Good
             PROVE  FALSE
  BY DEF Induction
<1> DEFINE Bad == {n \in Nat : n \notin Good}
<1>1. PICK n \in Bad : \A m \in Bad : n <= m
  <2>1. Bad \subseteq Nat /\ Bad # {}
    OBVIOUS
  <2> HIDE DEF Bad
  <2> QED BY <2>1, LeastNumber, ZenonT(40)
<1>2. n \in Nat /\ n \notin Good /\ n # 0
  BY <1>1
<1>3. n - 1 \in Nat /\ n - 1 \in Good
  BY <1>1, <1>2
<1> QED BY <1>2, <1>3

-----------------------------------------------------------------------------
\* The running total of a key.
LEMMA KeyBucket ==
    ASSUME Induction, TypeInv, KeyTotalIsSumOfBuckets, NEW b \in Buckets, NEW n \in Int,
           OnlyAt(b, buckets, buckets'), buckets'[b] = buckets[b] + n,
           keyBytes' = [keyBytes EXCEPT ![KeyOf[b]] = @ + n]
    PROVE  KeyTotalIsSumOfBuckets'
<1> SUFFICES ASSUME NEW k \in Keys PROVE keyBytes'[k] = SumOver(buckets', OfKey(k))
  BY ZenonT(40) DEF KeyTotalIsSumOfBuckets
<1>1. /\ OnlyAt(b, buckets, buckets') /\ buckets'[b] = buckets[b] + n
      /\ buckets[b] \in Nat /\ buckets'[b] \in Nat
  BY DEF OnlyAt
<1>2. Finite(OfKey(k)) /\ OfKey(k) \subseteq Buckets /\ (b \in OfKey(k) <=> KeyOf[b] = k)
  BY BucketSets, ZenonT(40) DEF OfKey
<1>3. /\ SumOver(buckets, OfKey(k)) \in Nat /\ SumOver(buckets', OfKey(k)) \in Nat
      /\ KeyOf[b] = k =>
            SumOver(buckets', OfKey(k)) + buckets[b] = SumOver(buckets, OfKey(k)) + buckets'[b]
      /\ KeyOf[b] # k => SumOver(buckets', OfKey(k)) = SumOver(buckets, OfKey(k))
  BY <1>1, <1>2, OneBucket
<1>4. keyBytes[k] = SumOver(buckets, OfKey(k))
  BY ZenonT(40) DEF KeyTotalIsSumOfBuckets
<1>5. keyBytes'[k] = IF KeyOf[b] = k THEN keyBytes[k] + n ELSE keyBytes[k]
  BY BucketsAssumption DEF TypeInv, TypeOK, CountersType
<1> QED BY <1>1, <1>3, <1>4, <1>5

\* Every step keeps a key's total the sum of its buckets.
LEMMA KeyTotalNext ==
    ASSUME Induction, TypeInv, TypeInv', [Next]_vars, KeyTotalIsSumOfBuckets
    PROVE  KeyTotalIsSumOfBuckets'
<1>0. /\ buckets \in [Buckets -> Nat] /\ buckets' \in [Buckets -> Nat]
      /\ drained \in [Buckets -> Nat] /\ keyBytes \in [Keys -> Int]
  BY DEF TypeInv, TypeOK, CountersType, FlushType
<1>1. CASE UNCHANGED <<buckets, keyBytes>>
  BY <1>1 DEF KeyTotalIsSumOfBuckets
<1>2. ASSUME NEW b \in Buckets, AddBucket(b) PROVE KeyTotalIsSumOfBuckets'
  <2>1. OnlyAt(b, buckets, buckets') /\ buckets'[b] = buckets[b] + 1
    BY <1>0, <1>2, ZenonT(40) DEF AddBucket, addToBuckets, OnlyAt
  <2>2. keyBytes' = [keyBytes EXCEPT ![KeyOf[b]] = @ + 1]
    BY <1>2 DEF AddBucket, addToBuckets
  <2>3. 1 \in Int
    OBVIOUS
  <2> QED BY <2>1, <2>2, <2>3, KeyBucket, ZenonT(40)
<1>3. ASSUME NEW b \in Buckets, FlushRequeue(b) PROVE KeyTotalIsSumOfBuckets'
  <2>1. OnlyAt(b, buckets, buckets') /\ buckets'[b] = buckets[b] + drained[b] /\ drained[b] \in Int
    BY <1>0, <1>3 DEF FlushRequeue, Requeue, addToBuckets, OnlyAt
  <2>2. keyBytes' = [keyBytes EXCEPT ![KeyOf[b]] = @ + drained[b]]
    BY <1>3 DEF FlushRequeue, Requeue, addToBuckets
  <2> QED BY <2>1, <2>2, KeyBucket, ZenonT(40)
<1>4. ASSUME NEW b \in Buckets, FlushDrain(b) PROVE KeyTotalIsSumOfBuckets'
  <2>1. - buckets[b] \in Int /\ KeyOf[b] \in Keys
    BY <1>0, BucketsAssumption
  <2>2. OnlyAt(b, buckets, buckets') /\ buckets'[b] = buckets[b] + (- buckets[b])
    BY <1>0, <1>4 DEF FlushDrain, drainOne, OnlyAt
  <2>3. keyBytes' = [keyBytes EXCEPT ![KeyOf[b]] = @ - buckets[b]]
    BY <1>4 DEF FlushDrain, drainOne
  <2>4. keyBytes[KeyOf[b]] - buckets[b] = keyBytes[KeyOf[b]] + (- buckets[b])
    BY <1>0, <2>1
  <2>5. keyBytes' = [keyBytes EXCEPT ![KeyOf[b]] = @ + (- buckets[b])]
    BY <2>3, <2>4, ZenonT(40)
  <2> QED BY <2>1, <2>2, <2>5, KeyBucket, ZenonT(40)
<1>5. ASSUME NEW ok, Restart(ok) PROVE KeyTotalIsSumOfBuckets'
  <2>1. keyBytes' = [k \in Keys |-> 0] /\ \A b \in Buckets : buckets'[b] = 0
    BY <1>5, ZenonT(40) DEF Restart
  <2>2. ASSUME NEW k \in Keys PROVE keyBytes'[k] = SumOver(buckets', OfKey(k))
    <3>1. Finite(OfKey(k)) /\ \A b \in OfKey(k) : buckets'[b] = 0
      BY <2>1, BucketSets DEF OfKey
    <3>2. SumOver(buckets', OfKey(k)) = 0
      BY <3>1, SumZero
    <3> QED BY <2>1, <3>2
  <2> QED BY <2>2 DEF KeyTotalIsSumOfBuckets
<1>6. CASE Crash \/ Exit
  BY <1>5, <1>6 DEF Crash, Exit
<1>7. CASE Tick \/ Shutdown \/ Reseed \/ UNCHANGED vars \/ \E u \in Users : AddAggregate(u)
  BY <1>1, <1>7, ZenonT(40) DEF Tick, Shutdown, Reseed, ReseedList, ReseedFilter, SeedLoad, SeedAdd,
         SeedStore, AddAggregate, vars, counterVars
<1>8. CASE PeriodWorker \/ ControlPlane \/ Expiry
  BY <1>1, <1>8, ControlFrame, ExpiryFrame, ZenonT(40) DEF PeriodWorker, PeriodList,
         PeriodWrite, PeriodResetUsers, PeriodResetMark, PeriodEnd, counterVars
<1>9. CASE Flusher
  BY <1>1, <1>3, <1>4, <1>9, ZenonT(40) DEF Flusher, FlushBegin, FlushWrite, FlushWriteFails,
         FlushLookup, FlushRecheck, FlushAdd, FlushMark, FlushEnd, counterVars
<1> QED
  BY <1>2, <1>6, <1>7, <1>8, <1>9 DEF Next, DataPlane

\* The quota of a key that no account owns reads its buckets' sum without
\* walking them, whatever is drained, requeued or lost in a restart.
THEOREM KeyTotals == Spec => []KeyTotalIsSumOfBuckets
<1>1. Init => KeyTotalIsSumOfBuckets
  <2> SUFFICES ASSUME Init, NEW k \in Keys PROVE keyBytes[k] = SumOver(buckets, OfKey(k))
    BY DEF KeyTotalIsSumOfBuckets
  <2>1. Finite(OfKey(k)) /\ \A b \in OfKey(k) : buckets[b] = 0
    BY BucketSets, ZenonT(40) DEF OfKey, Init, NewCounters
  <2>2. SumOver(buckets, OfKey(k)) = 0
    BY <2>1, InductionHolds, SumZero
  <2> QED BY <2>2 DEF Init, NewCounters
<1>2. TypeInv /\ KeyTotalIsSumOfBuckets /\ [Next]_vars => (TypeInv /\ KeyTotalIsSumOfBuckets)'
  BY InductionHolds, TypeNext, KeyTotalNext
<1> QED
  BY TypeInit, <1>1, <1>2, PTL DEF Spec

-----------------------------------------------------------------------------
\* The users of the batch whose rows FlushOnce has still to charge, once the hourly
\* rows are written.
Uncharged(u) ==
    \/ fpc = "lookup"
    \/ fpc \in {"charge", "add"} /\ u \in fusers
    \/ fpc = "mark" /\ u \in fusers \ {fuser}

\* What is still to be charged to the user.
Outstanding(u) == IF Uncharged(u) THEN perUser[u] ELSE 0

\* A window that was looked up belongs to the user it was looked up for.
WindowsOwned ==
    \A u \in Users : window[u] # NoWindow =>
        /\ window[u].id \in SubIds
        /\ subs[window[u].id].status # "none" /\ subs[window[u].id].user = u

\* The batch per user is the batch per bucket, and whom the second loop has left.
BatchCounted ==
    /\ fpc \in {"idle", "requeue"} => \A u \in Users : perUser[u] = 0
    /\ fpc = "drain" => \A u \in Users : perUser[u] = SumOver(drained, OfUser(u))
    /\ fpc \in {"charge", "add", "mark"} => \A u \in fusers : window[u] # NoWindow
    /\ fpc \in {"add", "mark"} => fuser \in fusers

\* The charges of a user, with those to come, are covered by the rows on disk.
ChargesFit ==
    \A u \in Users :
        SumOver(ChargedTo(u), SubIds) + Outstanding(u) <= SumOver(hourly, OfUser(u))

ChargeInv == WindowsOwned /\ BatchCounted /\ ChargesFit

-----------------------------------------------------------------------------
\* A charge, when its window is its user's.
LEMMA ChargeRow ==
    ASSUME TypeInv, FlushAdd, WindowsOwned, BatchCounted
    PROVE  LET i == window[fuser].id IN
           /\ fuser \in fusers /\ fuser \in Users /\ i \in SubIds
           /\ subs[i].user = fuser /\ perUser[fuser] \in Nat
           /\ \/ UNCHANGED subs /\ fpc' = "charge" /\ fusers' = fusers \ {fuser}
              \/ /\ fpc' = "mark" /\ UNCHANGED <<fusers, fuser>>
                 /\ \A j \in SubIds :
                       /\ subs'[j].user = subs[j].user /\ subs'[j].status = subs[j].status
                       /\ subs'[j].life = subs[j].life
                       /\ subs'[j].used =
                             subs[j].used + (IF j = i THEN perUser[fuser] ELSE 0)
<1>1. fuser \in fusers /\ fuser \in Users /\ perUser[fuser] \in Nat
  BY DEF FlushAdd, BatchCounted, TypeInv, TypeOK, FlushType
<1>2. window[fuser] # NoWindow
  BY <1>1 DEF FlushAdd, BatchCounted
<1> DEFINE i == window[fuser].id
<1>3. i \in SubIds /\ subs[i].user = fuser
  BY <1>1, <1>2 DEF WindowsOwned
<1>4. CASE AddSubscriptionUsedBytes(i, perUser[fuser]) /\ fpc' = "mark" /\ UNCHANGED <<fusers, fuser>>
  <2> DEFINE t == [subs[i] EXCEPT !.used = @ + perUser[fuser]]
  <2>1. subs[i] \in Row
    BY <1>3, RowsAreRows
  <2>2. /\ t.user = subs[i].user /\ t.status = subs[i].status /\ t.life = subs[i].life
        /\ t.used = subs[i].used + perUser[fuser]
    BY <2>1 DEF Row
  <2>3. subs' = [subs EXCEPT ![i] = t]
    BY <1>4 DEF AddSubscriptionUsedBytes
  <2> HIDE DEF t
  <2>4. \A j \in SubIds : subs'[j] = IF j = i THEN t ELSE subs[j]
    BY <2>3, RowsAreRows
  <2>5. \A j \in SubIds : subs[j].used \in Nat
    BY RowsAreRows DEF Row
  <2>6. \A j \in SubIds :
           /\ subs'[j].user = subs[j].user /\ subs'[j].status = subs[j].status
           /\ subs'[j].life = subs[j].life
           /\ subs'[j].used = subs[j].used + (IF j = i THEN perUser[fuser] ELSE 0)
    BY <2>2, <2>4, <2>5
  <2> QED BY <1>1, <1>3, <1>4, <2>6
<1> QED BY <1>1, <1>3, <1>4, ZenonT(40) DEF FlushAdd

-----------------------------------------------------------------------------
\* Every step keeps the windows with their users: a row in use never changes hands.
LEMMA WindowsNext ==
    ASSUME TypeInv, [Next]_vars, WindowsOwned, BatchCounted
    PROVE  WindowsOwned'
<1>1. \A i \in SubIds : subs[i].status # "none" =>
         subs'[i].status # "none" /\ subs'[i].user = subs[i].user
  <2>1. SubsStep
    BY SubsNext
  <2>2. CASE FlushAdd
    BY <2>1, <2>2, ChargeRow DEF SubsStep, RowStep
  <2>3. CASE ~FlushAdd
    BY <2>1, <2>3, KeptNext DEF SubsStep, RowStep, RowsKept, RowKept
  <2> QED BY <2>2, <2>3
<1>2. CASE UNCHANGED window
  BY <1>1, <1>2 DEF WindowsOwned
<1>3. CASE window' = [u \in Users |-> NoWindow]
  BY <1>3 DEF WindowsOwned
<1>4. ASSUME NEW u \in Users, FlushLookup(u) PROVE WindowsOwned'
  <2>1. UNCHANGED subs
    BY <1>4 DEF FlushLookup, diskVars
  <2>2. CASE window' = [window EXCEPT ![u] = GetActiveUserSubscription(u)]
    <3> SUFFICES ASSUME NEW v \in Users, window'[v] # NoWindow
                 PROVE  /\ window'[v].id \in SubIds
                        /\ subs[window'[v].id].status # "none" /\ subs[window'[v].id].user = v
      BY <2>1 DEF WindowsOwned
    <3>1. window \in [Users -> Window]
      BY DEF TypeInv, TypeOK, FlushType
    <3>2. CASE v = u
      <4>1. window'[v] = GetActiveUserSubscription(u)
        BY <2>2, <3>1, <3>2
      <4>2. window'[v].id \in ActiveRows(u)
        BY <4>1, WindowFound
      <4> QED BY <3>2, <4>2 DEF ActiveRows
    <3>3. CASE v # u
      BY <2>2, <3>1, <3>3 DEF WindowsOwned
    <3> QED BY <3>2, <3>3
  <2> QED BY <1>2, <1>4, <2>2 DEF FlushLookup
<1>5. CASE Flusher
  BY <1>2, <1>3, <1>4, <1>5, ZenonT(40) DEF Flusher, FlushBegin, FlushDrain, FlushRequeue, FlushWrite,
         FlushWriteFails, FlushRecheck, FlushAdd, FlushMark, FlushEnd
<1>6. CASE ~Flusher
  BY <1>2, <1>3, <1>6, FlushFrame, ZenonT(40) DEF Restart, flushVars
<1> QED
  BY <1>5, <1>6

\* The batch per user follows the batch per bucket.
LEMMA BatchNext ==
    ASSUME Induction, TypeInv, TypeInv', BytesInv, [Next]_vars, BatchCounted
    PROVE  BatchCounted'
<1>0. /\ buckets \in [Buckets -> Nat] /\ drained \in [Buckets -> Nat]
      /\ perUser \in [Users -> Nat] /\ fusers \subseteq Users
  BY DEF TypeInv, TypeOK, CountersType, FlushType
<1>1. CASE FlushBegin
  <2>1. \A b \in Buckets : drained[b] = 0
    BY <1>1, ZenonT(40) DEF FlushBegin, BytesInv, BatchShape
  <2>2. \A u \in Users : SumOver(drained, OfUser(u)) = 0 /\ perUser[u] = 0
    BY <1>0, <1>1, <2>1, UserNothing DEF FlushBegin, BatchCounted
  <2>3. fpc' = "drain" /\ UNCHANGED <<drained, perUser>>
    BY <1>1 DEF FlushBegin
  <2> QED BY <2>2, <2>3 DEF BatchCounted
<1>2. ASSUME NEW b \in Buckets, FlushDrain(b) PROVE BatchCounted'
  <2>1. /\ fpc = "drain" /\ fpc' = "drain" /\ drained[b] = 0 /\ buckets[b] \in Nat
        /\ drained' = [drained EXCEPT ![b] = buckets[b]]
        /\ perUser' = IF UserOf[b] = NoUser THEN perUser
                      ELSE [perUser EXCEPT ![UserOf[b]] = @ + buckets[b]]
    BY <1>0, <1>2 DEF FlushDrain, BytesInv, BatchShape
  <2>2. ASSUME NEW u \in Users PROVE perUser'[u] = SumOver(drained', OfUser(u))
    <3>1. perUser[u] = SumOver(drained, OfUser(u)) /\ perUser[u] \in Nat
      BY <1>0, <2>1 DEF BatchCounted
    <3>2. /\ SumOver(drained', OfUser(u)) \in Nat
          /\ UserOf[b] = u => SumOver(drained', OfUser(u)) + drained[b]
                                 = SumOver(drained, OfUser(u)) + buckets[b]
          /\ UserOf[b] # u => SumOver(drained', OfUser(u)) = SumOver(drained, OfUser(u))
      <4>1. OnlyAt(b, drained, drained') /\ drained'[b] = buckets[b]
        BY <1>0, <2>1 DEF OnlyAt
      <4>2. MovesAt(u, b, drained, drained')
        BY <4>1, UserMoves, ZenonT(40)
      <4>3. SumOver(drained', OfUser(u)) \in Nat
        BY <4>1, UserSum, ZenonT(40) DEF OnlyAt
      <4> QED BY <4>1, <4>2, <4>3, ZenonT(40) DEF MovesAt
    <3>3. UserOf[b] = u => perUser'[u] = perUser[u] + buckets[b]
      BY <1>0, <2>1, BucketsAssumption
    <3>4. UserOf[b] # u => perUser'[u] = perUser[u]
      BY <1>0, <2>1, BucketsAssumption
    <3> QED BY <2>1, <3>1, <3>2, <3>3, <3>4
  <2> QED BY <2>1, <2>2, ZenonT(40) DEF BatchCounted
<1>3. ASSUME NEW b \in Buckets, FlushRequeue(b) PROVE BatchCounted'
  BY <1>3 DEF FlushRequeue, BatchCounted
<1>4. CASE FlushWrite
  <2>1. fpc' = "lookup" \/ (fpc' = "charge" /\ fusers' = {})
    BY <1>4 DEF FlushWrite
  <2> QED BY <2>1 DEF BatchCounted
<1>5. CASE FlushWriteFails
  BY <1>5 DEF FlushWriteFails, BatchCounted
<1>6. ASSUME NEW u \in Users, FlushLookup(u) PROVE BatchCounted'
  <2>1. fpc' = "lookup" \/ (fpc' = "charge" /\ fusers' = {v \in Users : window'[v] # NoWindow})
    BY <1>6 DEF FlushLookup
  <2> QED BY <2>1 DEF BatchCounted
<1>7. ASSUME NEW u \in Users, FlushRecheck(u) PROVE BatchCounted'
  <2>1. fpc = "charge" /\ u \in fusers /\ UNCHANGED window
    BY <1>7 DEF FlushRecheck
  <2>2. \/ fpc' = "add" /\ fuser' = u /\ fusers' = fusers
        \/ fpc' = "charge" /\ fusers' = fusers \ {u}
    BY <1>7 DEF FlushRecheck
  <2> QED BY <2>1, <2>2 DEF BatchCounted
<1>8. CASE FlushAdd \/ FlushMark
  <2>1. fpc \in {"add", "mark"} /\ UNCHANGED window
    BY <1>8, ZenonT(40) DEF FlushAdd, FlushMark
  <2>2. \/ fpc' = "mark" /\ UNCHANGED <<fusers, fuser>>
        \/ fpc' = "charge" /\ fusers' = fusers \ {fuser}
    BY <1>8 DEF FlushAdd, FlushMark
  <2> QED BY <2>1, <2>2 DEF BatchCounted
<1>9. CASE FlushEnd
  BY <1>9 DEF FlushEnd, BatchCounted
<1>10. CASE ~Flusher
  <2>1. CASE \E ok \in BOOLEAN : Restart(ok)
    BY <2>1, ZenonT(40) DEF Restart, BatchCounted
  <2>2. CASE UNCHANGED flushVars
    BY <2>2 DEF flushVars, BatchCounted
  <2> QED BY <1>10, <2>1, <2>2, FlushFrame
<1> QED
  BY <1>1, <1>2, <1>3, <1>4, <1>5, <1>6, <1>7, <1>8, <1>9, <1>10 DEF Flusher

\* What is outstanding is charged, forgotten, or waits.
LEMMA OutstandingNext ==
    ASSUME TypeInv, [Next]_vars, BatchCounted, ~FlushWrite, NEW u \in Users
    PROVE  Outstanding(u)' = 0 \/ Outstanding(u)' = Outstanding(u)
<1> USE DEF Outstanding, Uncharged
<1>1. ASSUME NEW b \in Buckets, FlushDrain(b) \/ FlushRequeue(b)
      PROVE  Outstanding(u)' = 0 
  BY <1>1, ZenonT(40) DEF FlushDrain, FlushRequeue
<1>2. CASE FlushBegin \/ FlushWriteFails \/ FlushEnd
  BY <1>2, ZenonT(40) DEF FlushBegin, FlushWriteFails, FlushEnd
<1>3. ASSUME NEW v \in Users, FlushLookup(v)
      PROVE  Outstanding(u)' = 0 \/ Outstanding(u)' = Outstanding(u)
  BY <1>3 DEF FlushLookup
<1>4. ASSUME NEW v \in Users, FlushRecheck(v)
      PROVE  Outstanding(u)' = 0 \/ Outstanding(u)' = Outstanding(u)
  BY <1>4 DEF FlushRecheck
<1>5. CASE FlushAdd
  BY <1>5, ZenonT(40) DEF FlushAdd
<1>6. CASE FlushMark
  BY <1>6 DEF FlushMark
<1>7. CASE ~Flusher
  <2>1. CASE \E ok \in BOOLEAN : Restart(ok)
    BY <2>1 DEF Restart
  <2>2. CASE UNCHANGED flushVars
    BY <2>2 DEF flushVars
  <2> QED BY <1>7, <2>1, <2>2, FlushFrame
<1> QED
  BY <1>1, <1>2, <1>3, <1>4, <1>5, <1>6, <1>7, ZenonT(40) DEF Flusher

\* What is still to be charged is a number.
LEMMA OutstandingType ==
    ASSUME TypeInv, NEW u \in Users
    PROVE  Outstanding(u) \in Nat
BY DEF Outstanding, TypeInv, TypeOK, FlushType

\* The write moves the batch to the table and leaves it to be charged.
LEMMA WriteCounts ==
    ASSUME Induction, TypeInv, BatchCounted, FlushWrite, NEW u \in Users
    PROVE  /\ SumOver(hourly, OfUser(u))' =
                 SumOver(hourly, OfUser(u)) + SumOver(drained, OfUser(u))
           /\ Outstanding(u) = 0 /\ Outstanding(u)' \in {0, SumOver(drained, OfUser(u))}
<1>1. \A b \in OfUser(u) : hourly[b] \in Nat /\ drained[b] \in Nat
                           /\ hourly'[b] = hourly[b] + drained[b]
  BY DEF FlushWrite, OfUser, TypeInv, TypeOK, DiskType, FlushType
<1>2. SumOver(hourly', OfUser(u)) = SumOver(hourly, OfUser(u)) + SumOver(drained, OfUser(u))
  BY <1>1, BucketSets, SumAdds
<1>3. perUser[u] = SumOver(drained, OfUser(u)) /\ UNCHANGED perUser
  BY DEF FlushWrite, BatchCounted
<1>4. Outstanding(u) = 0
  BY DEF FlushWrite, Outstanding, Uncharged
<1>5. Outstanding(u)' \in {0, perUser'[u]}
  BY DEF Outstanding
<1> QED BY <1>2, <1>3, <1>4, <1>5

\* Every step leaves room on disk for what is still to be charged.
LEMMA FitNext ==
    ASSUME Induction, TypeInv, TypeInv', [Next]_vars, ChargeInv, NEW u \in Users
    PROVE  SumOver(ChargedTo(u), SubIds)' + Outstanding(u)' <= SumOver(hourly, OfUser(u))'
<1> DEFINE c == SumOver(ChargedTo(u), SubIds)
           cn == SumOver(ChargedTo(u), SubIds)'
           h == SumOver(hourly, OfUser(u))
           hn == SumOver(hourly, OfUser(u))'
           o == Outstanding(u)
           on == Outstanding(u)'
           d == SumOver(drained, OfUser(u))
<1> SUFFICES cn + on <= hn
  OBVIOUS
<1>1. c \in Nat /\ cn \in Nat
  <2>1. subs \in [SubIds -> Row] /\ subs' \in [SubIds -> Row]
    BY DEF TypeInv, TypeOK, DiskType
  <2>2. \A i \in SubIds : ChargedTo(u)[i] \in Nat /\ ChargedTo(u)'[i] \in Nat
    BY <2>1 DEF ChargedTo, Row
  <2> QED BY <2>2, RowsFinite, SumType
<1>2. h \in Nat /\ hn \in Nat /\ d \in Nat
  <2>1. hourly \in [Buckets -> Nat] /\ hourly' \in [Buckets -> Nat] /\ drained \in [Buckets -> Nat]
    BY DEF TypeInv, TypeOK, DiskType, FlushType
  <2> QED BY <2>1, UserSum
<1>3. o \in Nat /\ on \in Nat
  BY DEF Outstanding, TypeInv, TypeOK, FlushType
<1>4. c + o <= h
  BY DEF ChargeInv, ChargesFit
<1>5. CASE FlushWrite
  <2>1. hn = h + d /\ o = 0 /\ on \in {0, d}
    BY <1>5, WriteCounts DEF ChargeInv
  <2>2. cn <= c
    <3>1. ~FlushAdd
      BY <1>5, ZenonT(40) DEF FlushWrite, FlushAdd
    <3> QED BY <3>1, KeptNext, ChargesShrink
  <2> HIDE DEF c, cn, h, hn, o, on, d
  <2> QED BY <1>1, <1>2, <1>4, <2>1, <2>2
<1>6. CASE FlushAdd
  <2>0. hn = h
    BY <1>6 DEF FlushAdd
  <2>1. CASE UNCHANGED subs
    <3>1. RowsKept
      BY <2>1 DEF RowsKept, RowKept
    <3>2. cn <= c
      BY <3>1, ChargesShrink
    <3>3. ~FlushWrite
      BY <1>6 DEF FlushWrite, FlushAdd
    <3>4. on = 0 \/ on = o
      BY <3>3, OutstandingNext DEF ChargeInv
    <3> HIDE DEF c, cn, h, hn, o, on, d
    <3> QED BY <1>1, <1>2, <1>3, <1>4, <2>0, <3>2, <3>4
  <2>2. CASE subs' # subs
    <3> DEFINE i == window[fuser].id
    <3>1. /\ fuser \in fusers /\ fuser \in Users /\ i \in SubIds
          /\ subs[i].user = fuser /\ perUser[fuser] \in Nat
          /\ fpc' = "mark" /\ UNCHANGED <<fusers, fuser>>
          /\ \A j \in SubIds :
                /\ subs'[j].user = subs[j].user
                /\ subs'[j].used = subs[j].used + (IF j = i THEN perUser[fuser] ELSE 0)
      BY <1>6, <2>2, ChargeRow DEF ChargeInv
    <3>2. cn = c + (IF subs[i].user = u THEN perUser[fuser] ELSE 0)
      <4> HIDE DEF i
      <4> QED BY <3>1, ChargesGrow
    <3>3. fpc = "add" /\ UNCHANGED perUser
      BY <1>6, ZenonT(40) DEF FlushAdd
    <3>4. IF u = fuser THEN o = perUser[fuser] /\ on = 0 ELSE on = o
      BY <3>1, <3>3, ZenonT(40) DEF Outstanding, Uncharged
    <3>5. subs[i].user = fuser /\ perUser[fuser] \in Nat
      BY <3>1, ZenonT(40)
    <3> HIDE DEF c, cn, h, hn, o, on, d, i
    <3> QED BY <1>1, <1>2, <1>3, <1>4, <2>0, <3>2, <3>4, <3>5
  <2> QED BY <2>1, <2>2
<1>7. CASE ~FlushWrite /\ ~FlushAdd
  <2>1. cn <= c
    BY <1>7, KeptNext, ChargesShrink
  <2>2. on = 0 \/ on = o
    BY <1>7, OutstandingNext DEF ChargeInv
  <2>3. hn = h
    <3>1. CASE Flusher
      BY <1>7, <3>1, ZenonT(40) DEF Flusher, FlushBegin, FlushDrain, FlushRequeue, FlushWriteFails,
             FlushLookup, FlushRecheck, FlushMark, FlushEnd, diskVars
    <3>2. CASE ~Flusher
      BY <3>2, FlushFrame, ZenonT(40) DEF Restart, diskVars
    <3> QED BY <3>1, <3>2
  <2> HIDE DEF c, cn, h, hn, o, on, d
  <2> QED BY <1>1, <1>2, <1>3, <1>4, <2>1, <2>2, <2>3
<1> QED BY <1>5, <1>6, <1>7

\* ChargeInv is kept by every step ...
LEMMA ChargeNext ==
    ASSUME Induction, TypeInv, TypeInv', BytesInv, [Next]_vars, ChargeInv
    PROVE  ChargeInv'
<1>1. WindowsOwned'
  BY WindowsNext DEF ChargeInv
<1>2. BatchCounted'
  BY BatchNext DEF ChargeInv
<1>3. ChargesFit'
  BY FitNext DEF ChargesFit
<1> QED BY <1>1, <1>2, <1>3 DEF ChargeInv

\* ... and holds at the start.
LEMMA ChargeInit == ASSUME Induction PROVE Init => ChargeInv
<1> SUFFICES ASSUME Init PROVE ChargeInv
  OBVIOUS
<1>1. WindowsOwned /\ BatchCounted
  BY DEF Init, WindowsOwned, BatchCounted
<1>2. ASSUME NEW u \in Users
      PROVE  SumOver(ChargedTo(u), SubIds) + Outstanding(u) <= SumOver(hourly, OfUser(u))
  <2>1. \A i \in SubIds : subs[i].used = 0
    BY DEF Init, NoRow, FirstRow
  <2>2. \A i \in SubIds : ChargedTo(u)[i] = 0
    BY <2>1 DEF ChargedTo
  <2>3. SumOver(ChargedTo(u), SubIds) = 0
    BY <2>2, RowsFinite, SumZero
  <2>4. hourly \in [Buckets -> Nat] /\ \A b \in Buckets : hourly[b] = 0
    BY DEF Init
  <2>5. SumOver(hourly, OfUser(u)) = 0
    BY <2>4, UserNothing
  <2>6. Outstanding(u) = 0
    BY DEF Init, Outstanding, Uncharged
  <2> QED BY <2>3, <2>5, <2>6
<1> QED BY <1>1, <1>2 DEF ChargeInv, ChargesFit
\* The aggregate of a user has no byte that did not move: a seed counts rows on
\* disk, and the data plane adds what it moves.
AggregateFits ==
    starts = "seeded" =>
        /\ spc = "off"
        /\ \A u \in Users : users[u] + adding[u] <= SumOver(moved, OfUser(u))

\* What memory and the batch hold of the user's bytes.
Held(u) == SumOver(buckets, OfUser(u)) + SumOver(drained, OfUser(u))

\* Then a user's one row, with all that will be charged to it, is in the
\* aggregate, until its term is over.
Running(u) == {i \in ActiveRows(u) : subs[i].life = "runs"}
EarlyInv ==
    Early =>
        /\ ppc = "idle" /\ \A a \in Admins : adm[a].pc = "idle"
        /\ \A u \in Users : \A i, j \in ActiveRows(u) : i = j
        /\ \A u \in Users : \A i \in Running(u) :
              subs[i].used + Held(u) + Outstanding(u) <= users[u] + adding[u]

\* EarlyInv holds at the start ...
LEMMA EarlyInit == ASSUME Induction PROVE Init => EarlyInv
<1> SUFFICES ASSUME Init PROVE EarlyInv
  OBVIOUS
<1>1. ppc = "idle" /\ \A a \in Admins : adm[a].pc = "idle"
  BY DEF Init, IdleAdmin
<1>2. \A u \in Users : \A i, j \in ActiveRows(u) : i = j
  BY DEF Init
<1>3. ASSUME NEW u \in Users, NEW i \in Running(u)
      PROVE  subs[i].used + Held(u) + Outstanding(u) <= users[u] + adding[u]
  <2>1. subs[i].used = 0
    BY DEF Init, NoRow, FirstRow, Running, ActiveRows
  <2>2. /\ buckets \in [Buckets -> Nat] /\ drained \in [Buckets -> Nat]
        /\ \A b \in Buckets : buckets[b] = 0 /\ drained[b] = 0
    BY DEF Init, NewCounters
  <2>3. SumOver(buckets, OfUser(u)) = 0 /\ SumOver(drained, OfUser(u)) = 0
    BY <2>2, UserNothing
  <2>4. Outstanding(u) = 0 /\ users[u] = 0 /\ adding[u] = 0
    BY DEF Init, NewCounters, Outstanding, Uncharged
  <2>5. Held(u) = 0
    BY <2>3 DEF Held
  <2> QED BY <2>1, <2>4, <2>5
<1> QED BY <1>1, <1>2, <1>3, ZenonT(40) DEF EarlyInv

-----------------------------------------------------------------------------
\* The quota aggregate.  A seed is what one row charges, and what a user is
\* charged has moved.
LEMMA SeedIsCharged ==
    ASSUME Induction, TypeInv, NEW u \in Users
    PROVE  SeedFromDisk(u) <= SumOver(ChargedTo(u), SubIds)
<1> DEFINE i == GetActiveUserSubscription(u).id
<1>1. SumOver(ChargedTo(u), SubIds) \in Nat
  BY ChargesType
<1>2. CASE i \in Seedable
  <2>1. i \in SubIds /\ SeedFromDisk(u) = subs[i].used
    BY <1>2 DEF SeedFromDisk, Seedable
  <2>2. GetActiveUserSubscription(u) # NoWindow
    BY <2>1, AccountingAssumption DEF NoWindow
  <2>3. i \in ActiveRows(u)
    BY <2>2, WindowFound
  <2>4. ChargedTo(u)[i] = subs[i].used
    BY <2>1, <2>3 DEF ChargedTo, ActiveRows
  <2>5. ChargedTo(u)[i] <= SumOver(ChargedTo(u), SubIds)
    BY <2>1, ChargesType, RowsFinite, SumCovers
  <2> QED BY <2>1, <2>4, <2>5
<1>3. CASE i \notin Seedable
  BY <1>1, <1>3 DEF SeedFromDisk
<1> QED BY <1>2, <1>3

\* What was charged was written, and what was written has moved.
LEMMA ChargedHasMoved ==
    ASSUME Induction, TypeInv, BytesInv, ChargeInv, NEW u \in Users
    PROVE  SumOver(ChargedTo(u), SubIds) <= SumOver(moved, OfUser(u))
<1>1. \A b \in OfUser(u) : hourly[b] \in Nat /\ moved[b] \in Nat /\ hourly[b] <= moved[b]
  <2> TAKE b \in OfUser(u)
  <2>1. b \in Buckets
    BY DEF OfUser
  <2>2. /\ moved[b] = buckets[b] + drained[b] + hourly[b] + lost[b]
        /\ moved[b] \in Nat /\ buckets[b] \in Nat /\ drained[b] \in Nat
        /\ hourly[b] \in Nat /\ lost[b] \in Nat
    BY <2>1 DEF BytesInv, BytesType, BytesConserved
  <2> QED BY <2>2
<1>2. SumOver(hourly, OfUser(u)) <= SumOver(moved, OfUser(u))
  BY <1>1, BucketSets, SumGrows
<1>3. SumOver(hourly, OfUser(u)) \in Nat /\ SumOver(moved, OfUser(u)) \in Nat
  BY UserSum DEF BytesInv, BytesType
<1>4. SumOver(ChargedTo(u), SubIds) + Outstanding(u) <= SumOver(hourly, OfUser(u))
  BY DEF ChargeInv, ChargesFit
<1>5. SumOver(ChargedTo(u), SubIds) \in Nat /\ Outstanding(u) \in Nat
  BY ChargesType, OutstandingType
<1> QED BY <1>2, <1>3, <1>4, <1>5

\* The aggregate counts no byte that has not moved: every step keeps that ...
LEMMA AggregateNext ==
    ASSUME Induction, TypeInv, TypeInv', BytesInv, ChargeInv, [Next]_vars, AggregateFits
    PROVE  AggregateFits'
<1> SUFFICES ASSUME starts' = "seeded"
             PROVE  /\ spc' = "off"
                    /\ \A u \in Users : users'[u] + adding'[u] <= SumOver(moved', OfUser(u))
  BY DEF AggregateFits
<1>0. /\ users \in [Users -> Nat] /\ adding \in [Users -> Nat] /\ moved \in [Buckets -> Nat]
      /\ users' \in [Users -> Nat] /\ moved' \in [Buckets -> Nat]
  BY DEF TypeInv, TypeOK, CountersType, LifeType
<1>1. CASE \E ok \in BOOLEAN : Restart(ok)
  <2>1. /\ spc' = "off" /\ UNCHANGED moved
        /\ users' = [u \in Users |-> SeedFromDisk(u)] /\ adding' = [u \in Users |-> 0]
    BY <1>1 DEF Restart
  <2>2. ASSUME NEW u \in Users PROVE users'[u] + adding'[u] <= SumOver(moved', OfUser(u))
    <3>1. users'[u] = SeedFromDisk(u) /\ adding'[u] = 0
      BY <2>1
    <3>2. SeedFromDisk(u) \in Nat /\ SumOver(ChargedTo(u), SubIds) \in Nat
          /\ SumOver(moved, OfUser(u)) \in Nat
      BY <1>0, SeedIsNat, ChargesType, UserSum
    <3>3. SeedFromDisk(u) <= SumOver(ChargedTo(u), SubIds)
      BY SeedIsCharged
    <3>4. SumOver(ChargedTo(u), SubIds) <= SumOver(moved, OfUser(u))
      BY ChargedHasMoved
    <3>5. SumOver(moved', OfUser(u)) = SumOver(moved, OfUser(u))
      BY <2>1
    <3> QED BY <3>1, <3>2, <3>3, <3>4, <3>5
  <2> QED BY <2>1, <2>2
<1>2. CASE ~(\E ok \in BOOLEAN : Restart(ok))
  <2>1. starts = "seeded" /\ UNCHANGED spc
    <3>1. CASE Reseed
      <4>1. starts = "seeded" /\ spc # "off"
        BY <3>1 DEF Reseed, ReseedList, ReseedFilter, SeedLoad, SeedAdd, SeedStore
      <4> QED BY <4>1 DEF AggregateFits
    <3>2. CASE ~Reseed
      BY <1>2, <3>2, AggregateSteps, ZenonT(40) DEF AddBucket, AddAggregate, seedVars
    <3> QED BY <3>1, <3>2
  <2>2. spc = "off" /\ \A u \in Users : users[u] + adding[u] <= SumOver(moved, OfUser(u))
    BY <2>1, ZenonT(40) DEF AggregateFits
  <2>3. ~Reseed
    BY <2>2 DEF Reseed, ReseedList, ReseedFilter, SeedLoad, SeedAdd, SeedStore
  <2>4. ASSUME NEW u \in Users PROVE users'[u] + adding'[u] <= SumOver(moved', OfUser(u))
    <3>1. users[u] \in Nat /\ adding[u] \in Nat /\ SumOver(moved, OfUser(u)) \in Nat
          /\ users[u] + adding[u] <= SumOver(moved, OfUser(u))
      BY <1>0, <2>2, UserSum
    <3>2. ASSUME NEW b \in Buckets, AddBucket(b)
          PROVE  users'[u] + adding'[u] <= SumOver(moved', OfUser(u))
      <4>1. OnlyAt(b, moved, moved') /\ moved'[b] = moved[b] + 1 /\ moved[b] \in Nat
        BY <1>0, <3>2 DEF AddBucket, OnlyAt
      <4>2. /\ SumOver(moved', OfUser(u)) \in Nat
            /\ UserOf[b] = u => SumOver(moved', OfUser(u)) + moved[b]
                                   = SumOver(moved, OfUser(u)) + moved'[b]
            /\ UserOf[b] # u => SumOver(moved', OfUser(u)) = SumOver(moved, OfUser(u))
        <5>1. MovesAt(u, b, moved, moved')
          BY <4>1, UserMoves, ZenonT(40)
        <5>2. SumOver(moved', OfUser(u)) \in Nat
          BY <1>0, UserSum, ZenonT(40)
        <5> QED BY <5>1, <5>2, ZenonT(40) DEF MovesAt
      <4>3. users' = users
        BY <3>2 DEF AddBucket
      <4>4. adding'[u] = IF UserOf[b] = u THEN adding[u] + 1 ELSE adding[u]
        BY <1>0, <3>2, BucketsAssumption DEF AddBucket
      <4> DEFINE c == users[u]
                 a == adding[u]
                 an == adding'[u]
                 m == SumOver(moved, OfUser(u))
                 mn == SumOver(moved', OfUser(u))
                 x == moved[b]
                 xn == moved'[b]
      <4>5. c \in Nat /\ a \in Nat /\ m \in Nat /\ mn \in Nat /\ x \in Nat /\ c + a <= m
        BY <3>1, <4>1, <4>2, ZenonT(40)
      <4>6. (an = a + 1 /\ mn + x = m + xn /\ xn = x + 1) \/ (an = a /\ mn = m)
        BY <4>1, <4>2, <4>4, ZenonT(40)
      <4> HIDE DEF c, a, an, m, mn, x, xn
      <4>7. c + an <= mn
        BY <4>5, <4>6
      <4> QED BY <4>3, <4>7, ZenonT(40) DEF c, an, mn
    <3>3. ASSUME NEW v \in Users, AddAggregate(v)
          PROVE  users'[u] + adding'[u] <= SumOver(moved', OfUser(u))
      <4>1. users'[u] + adding'[u] = users[u] + adding[u]
        BY <1>0, <3>3 DEF AddAggregate, addToUser
      <4>2. moved' = moved
        BY <3>3 DEF AddAggregate
      <4> QED BY <3>1, <4>1, <4>2, ZenonT(40)
    <3>4. ASSUME NEW v, resetAggregate(v), UNCHANGED <<adding, moved>>
          PROVE  users'[u] + adding'[u] <= SumOver(moved', OfUser(u))
      <4>1. users'[u] = users[u] \/ users'[u] = 0
        BY <1>0, <3>4 DEF resetAggregate
      <4> QED BY <3>1, <3>4, <4>1
    <3> QED BY <1>2, <2>3, <3>1, <3>2, <3>3, <3>4, AggregateSteps, ZenonT(40)
  <2> QED BY <2>1, <2>2, <2>4
<1> QED BY <1>1, <1>2

\* ... and it holds at the start.
LEMMA AggregateInit == ASSUME Induction PROVE Init => AggregateFits
<1> SUFFICES ASSUME Init PROVE AggregateFits
  OBVIOUS
<1>1. ASSUME NEW u \in Users PROVE users[u] + adding[u] <= SumOver(moved, OfUser(u))
  <2>1. users[u] = 0 /\ adding[u] = 0
    BY DEF Init, NewCounters
  <2>2. moved \in [Buckets -> Nat] /\ \A b \in Buckets : moved[b] = 0
    BY DEF Init
  <2>3. SumOver(moved, OfUser(u)) = 0
    BY <2>2, UserNothing
  <2> QED BY <2>1, <2>3
<1> QED BY <1>1 DEF Init, AggregateFits

\* The invariants that the theorems share.
AccountInv == TypeInv /\ BytesInv /\ ChargeInv /\ AggregateFits

\* The invariants together hold at the start ...
LEMMA AccountInit == ASSUME Induction PROVE Init => AccountInv
BY TypeInit, BytesInit, ChargeInit, AggregateInit DEF AccountInv

\* ... and are kept together.
LEMMA AccountNext == ASSUME Induction, AccountInv, [Next]_vars PROVE AccountInv'
<1>1. TypeInv' /\ BytesInv'
  BY TypeNext, BytesNext DEF AccountInv
<1> QED BY <1>1, ChargeNext, AggregateNext DEF AccountInv

-----------------------------------------------------------------------------
\* Nobody but the flusher, the data plane, the clock and a restart acts then.
LEMMA EarlySteps ==
    ASSUME AccountInv, [Next]_vars, EarlyInv, Early, Early'
    PROVE  \/ \E ok \in BOOLEAN : ok /\ Restart(ok)
           \/ Flusher /\ UNCHANGED <<ppc, adm>>
           \/ DataPlane /\ UNCHANGED <<ppc, adm, subs, drained, flushVars>>
           \/ /\ Expiry \/ UNCHANGED subs
              /\ UNCHANGED <<ppc, adm, buckets, drained, flushVars, users, adding>>
<1>0. /\ ppc = "idle" /\ \A a \in Admins : adm[a].pc = "idle"
      /\ spc = "off" /\ requests = 0 /\ requests' = 0 /\ clock <= PeriodLength
  BY ZenonT(40) DEF EarlyInv, Early, AccountInv, AggregateFits
<1>1. CASE Crash \/ Exit
  BY <1>1, ZenonT(40) DEF Crash, Exit, Restart, Early
<1>2. CASE Tick \/ Shutdown \/ UNCHANGED vars
  BY <1>2 DEF Tick, Shutdown, vars, counterVars, diskVars, flushVars, periodVars
<1>3. CASE Reseed
  BY <1>0, <1>3, ZenonT(40) DEF Reseed, ReseedList, ReseedFilter, SeedLoad, SeedAdd, SeedStore
<1>4. CASE DataPlane
  BY <1>4, ZenonT(40) DEF DataPlane, AddBucket, AddAggregate, diskVars, flushVars, periodVars
<1>5. CASE Flusher
  BY <1>5, ZenonT(40) DEF Flusher, FlushBegin, FlushDrain, FlushRequeue, FlushWrite, FlushWriteFails,
             FlushLookup, FlushRecheck, FlushAdd, FlushMark, FlushEnd, periodVars
<1>6. CASE PeriodWorker
  <2>1. PeriodList
    BY <1>0, <1>6, ZenonT(40) DEF PeriodWorker, PeriodWrite, PeriodResetUsers, PeriodResetMark, PeriodEnd
  <2>2. PICK i \in SubIds : Due(i)
    BY <2>1, ZenonT(40) DEF PeriodList
  <2>3. subs[i].start \in Nat /\ clock \in Nat
    BY RowsAreRows DEF Row, AccountInv, TypeInv, TypeOK, DiskType
  <2>4. subs[i].start > 0 /\ clock - subs[i].start >= PeriodLength /\ PeriodLength \in Nat
    BY <2>2, AccountingAssumption, ZenonT(40) DEF Due
  <2> DEFINE st == subs[i].start
             len == PeriodLength
             now == clock
  <2>5. st \in Nat /\ now \in Nat /\ len \in Nat /\ now <= len /\ st > 0 /\ now - st >= len
    BY <1>0, <2>3, <2>4, ZenonT(40)
  <2> HIDE DEF st, len, now
  <2>6. FALSE
    BY <2>5
  <2> QED BY <2>6
<1>7. CASE ControlPlane
  <2>1. requests' = requests + 1
    <3>1. ASSUME NEW a \in Admins,
                 \/ RenewWrite(a) \/ ExpireListed(a) \/ AssignInsert(a) \/ TermsWrite(a)
                 \/ RequestFails(a) \/ AdminResetUsers(a) \/ AdminResetMark(a)
          PROVE  adm[a].pc # "idle"
      <4>1. \/ adm[a].pc \in {"activate", "patch"} \/ adm[a].pc = "renew" \/ adm[a].pc = "expire"
            \/ adm[a].pc = "insert" \/ adm[a].pc = "users" \/ adm[a].pc = "mark"
            \/ adm[a].pc \in {"expire", "insert", "activate", "patch", "renew"}
        BY <3>1, ZenonT(40) DEF RenewWrite, ExpireListed, AssignInsert, TermsWrite, RequestFails,
           AdminResetUsers, AdminResetMark
      <4> QED BY <4>1
    <3> QED
      BY <1>0, <1>7, <3>1, ZenonT(40) DEF ControlPlane, Purchase, AssignList, RenewRead,
         ReactivateList, PatchRead, RevokeUserSubscription, Request
  <2>2. requests = 0 /\ requests' = 0
    BY <1>0
  <2>3. FALSE
    BY <2>1, <2>2
  <2> QED BY <2>3
<1>8. CASE Expiry
  BY <1>8, ExpiryFrame, ZenonT(40) DEF counterVars, flushVars, periodVars
<1> QED
  BY <1>1, <1>2, <1>3, <1>4, <1>5, <1>6, <1>7, <1>8 DEF Next

\* A step of the flusher or of the data plane adds nothing to what is held or
\* outstanding that it does not add to the aggregate; the charge is apart.
LEMMA HeldNext ==
    ASSUME Induction, AccountInv, TypeInv', [Next]_vars, Flusher \/ DataPlane, ~FlushAdd,
           NEW u \in Users
    PROVE  /\ UNCHANGED subs
           /\ Held(u)' + Outstanding(u)' + users[u] + adding[u]
                 <= Held(u) + Outstanding(u) + users'[u] + adding'[u]
<1> DEFINE w == SumOver(buckets, OfUser(u))
           wn == SumOver(buckets', OfUser(u))
           d == SumOver(drained, OfUser(u))
           dn == SumOver(drained', OfUser(u))
           o == Outstanding(u)
           on == Outstanding(u)'
           c == users[u]
           cn == users'[u]
           a == adding[u]
           an == adding'[u]
<1>0. /\ buckets \in [Buckets -> Nat] /\ buckets' \in [Buckets -> Nat]
      /\ drained \in [Buckets -> Nat] /\ drained' \in [Buckets -> Nat]
      /\ users \in [Users -> Nat] /\ users' \in [Users -> Nat]
      /\ adding \in [Users -> Nat] /\ adding' \in [Users -> Nat]
  BY DEF AccountInv, TypeInv, TypeOK, CountersType, FlushType, LifeType
<1>1. w \in Nat /\ wn \in Nat /\ d \in Nat /\ dn \in Nat
  BY <1>0, UserSum
<1>2. o \in Nat /\ on \in Nat
  BY DEF Outstanding, AccountInv, TypeInv, TypeOK, FlushType
<1>3. c \in Nat /\ cn \in Nat /\ a \in Nat /\ an \in Nat
  BY <1>0, ZenonT(40)
<1>4. ~FlushWrite => on = 0 \/ on = o
  BY OutstandingNext DEF AccountInv, ChargeInv
<1>5. UNCHANGED subs
  BY ZenonT(40) DEF Flusher, FlushBegin, FlushDrain, FlushRequeue, FlushWrite, FlushWriteFails,
         FlushLookup, FlushRecheck, FlushMark, FlushEnd, DataPlane, AddBucket,
         AddAggregate, diskVars
<1> DEFINE Kept == wn + dn + on <= w + d + o
           Covered == wn + dn + on + c + a <= w + d + o + cn + an
<1> SUFFICES Covered
  BY <1>1, <1>2, <1>3, <1>5, ZenonT(40) DEF Held
<1>6. ASSUME NEW b \in Buckets, AddBucket(b)
      PROVE  Covered
  <2>1. OnlyAt(b, buckets, buckets') /\ buckets'[b] = buckets[b] + 1 /\ buckets[b] \in Nat
    BY <1>0, <1>6, ZenonT(40) DEF AddBucket, addToBuckets, OnlyAt
  <2>2. IF UserOf[b] = u THEN wn + buckets[b] = w + buckets'[b] ELSE wn = w
    <3>1. MovesAt(u, b, buckets, buckets')
      BY <2>1, UserMoves, ZenonT(40)
    <3> QED BY <3>1, ZenonT(40) DEF MovesAt
  <2>3. cn = c /\ dn = d /\ on = o
    BY <1>6, ZenonT(40) DEF AddBucket, flushVars, Outstanding, Uncharged
  <2>4. an = IF UserOf[b] = u THEN a + 1 ELSE a
    BY <1>0, <1>6, BucketsAssumption DEF AddBucket
  <2> DEFINE x == buckets[b]
             xn == buckets'[b]
             mine == UserOf[b] = u
  <2>5. (mine => wn + x = w + xn) /\ (~mine => wn = w) /\ xn = x + 1 /\ x \in Nat
    BY <2>1, <2>2, ZenonT(40)
  <2>6. (mine => an = a + 1) /\ (~mine => an = a)
    BY <2>4, ZenonT(40)
  <2> HIDE DEF w, wn, d, dn, o, on, c, cn, a, an, x, xn, mine
  <2> QED BY <1>1, <1>2, <1>3, <2>3, <2>5, <2>6
<1>7. ASSUME NEW v \in Users, AddAggregate(v)
      PROVE  Covered
  <2>1. cn + an = c + a
    BY <1>0, <1>7 DEF AddAggregate, addToUser
  <2>2. wn = w /\ dn = d /\ on = o
    BY <1>7 DEF AddAggregate, flushVars, Outstanding, Uncharged
  <2> HIDE DEF w, wn, d, dn, o, on, c, cn, a, an
  <2> QED BY <1>1, <1>2, <1>3, <2>1, <2>2
<1>8. CASE Flusher
  <2>0. UNCHANGED <<users, adding>>
    BY <1>8, ZenonT(40) DEF Flusher, FlushBegin, FlushDrain, FlushRequeue, Requeue, FlushWrite,
         FlushWriteFails, FlushLookup, FlushRecheck, FlushAdd, FlushMark, FlushEnd,
         counterVars
  <2>1. ASSUME NEW b \in Buckets, FlushDrain(b)
        PROVE  Kept
    <3>1. /\ OnlyAt(b, buckets, buckets') /\ buckets'[b] = 0 /\ buckets[b] \in Nat
          /\ OnlyAt(b, drained, drained') /\ drained'[b] = buckets[b]
      BY <1>0, <2>1, ZenonT(40) DEF FlushDrain, drainOne, OnlyAt
    <3>2. drained[b] = 0
      BY <2>1, ZenonT(40) DEF FlushDrain, AccountInv, BytesInv, BatchShape
    <3>3. IF UserOf[b] = u THEN wn + buckets[b] = w + buckets'[b] ELSE wn = w
      <4>1. MovesAt(u, b, buckets, buckets')
        BY <3>1, UserMoves, ZenonT(40)
      <4> QED BY <4>1, ZenonT(40) DEF MovesAt
    <3>4. IF UserOf[b] = u THEN dn + drained[b] = d + drained'[b] ELSE dn = d
      <4>1. MovesAt(u, b, drained, drained')
        BY <3>1, UserMoves, ZenonT(40)
      <4> QED BY <4>1, ZenonT(40) DEF MovesAt
    <3>5. ~FlushWrite
      BY <2>1, ZenonT(40) DEF FlushDrain, FlushWrite
    <3> DEFINE x == buckets[b]
    <3>6. \/ wn + x = w /\ dn = d + x /\ x \in Nat
          \/ wn = w /\ dn = d
      <4>1. CASE UserOf[b] = u
        <5>1. wn + x = w + 0 /\ dn + 0 = d + x /\ x \in Nat
          BY <3>1, <3>2, <3>3, <3>4, <4>1, ZenonT(40)
        <5> HIDE DEF w, wn, d, dn, x
        <5> QED BY <1>1, <5>1
      <4> QED BY <3>3, <3>4, <4>1, ZenonT(40)
    <3>7. on = 0 \/ on = o
      BY <1>4, <3>5, ZenonT(40)
    <3> HIDE DEF w, wn, d, dn, o, on, x
    <3> QED BY <1>1, <1>2, <3>6, <3>7
  <2>2. ASSUME NEW b \in Buckets, FlushRequeue(b)
        PROVE  Kept
    <3>1. /\ OnlyAt(b, buckets, buckets') /\ buckets'[b] = buckets[b] + drained[b]
          /\ OnlyAt(b, drained, drained') /\ drained'[b] = 0
          /\ buckets[b] \in Nat /\ drained[b] \in Nat
      BY <1>0, <2>2 DEF FlushRequeue, Requeue, addToBuckets, OnlyAt
    <3>3. IF UserOf[b] = u THEN wn + buckets[b] = w + buckets'[b] ELSE wn = w
      <4>1. MovesAt(u, b, buckets, buckets')
        BY <3>1, UserMoves, ZenonT(40)
      <4> QED BY <4>1, ZenonT(40) DEF MovesAt
    <3>4. IF UserOf[b] = u THEN dn + drained[b] = d + drained'[b] ELSE dn = d
      <4>1. MovesAt(u, b, drained, drained')
        BY <3>1, UserMoves, ZenonT(40)
      <4> QED BY <4>1, ZenonT(40) DEF MovesAt
    <3>5. ~FlushWrite
      BY <2>2, ZenonT(40) DEF FlushRequeue, FlushWrite
    <3> DEFINE x == buckets[b]
               y == drained[b]
    <3>6. \/ wn + x = w + (x + y) /\ dn + y = d + 0 /\ x \in Nat /\ y \in Nat
          \/ wn = w /\ dn = d
      BY <3>1, <3>3, <3>4, ZenonT(40)
    <3>7. on = 0 \/ on = o
      BY <1>4, <3>5, ZenonT(40)
    <3> HIDE DEF w, wn, d, dn, o, on, x, y
    <3> QED BY <1>1, <1>2, <3>6, <3>7
  <2>3. ASSUME FlushWrite PROVE Kept
    <3>1. o = 0 /\ on \in {0, d}
      BY <2>3, WriteCounts DEF AccountInv, ChargeInv
    <3>2. drained' = [b \in Buckets |-> 0]
      BY <2>3, ZenonT(40) DEF FlushWrite
    <3>3. \A b \in Buckets : drained'[b] = 0
      BY <3>2
    <3>4. dn = 0
      BY <1>0, <3>3, UserNothing
    <3>5. wn = w
      BY <2>3, ZenonT(40) DEF FlushWrite, counterVars
    <3> HIDE DEF w, wn, d, dn, o, on
    <3> QED BY <1>1, <1>2, <3>1, <3>4, <3>5
  <2>4. ASSUME ~FlushWrite, UNCHANGED <<buckets, drained>> PROVE Kept
    <3>1. wn = w /\ dn = d
      BY <2>4
    <3> HIDE DEF w, wn, d, dn, o, on
    <3>2. on = 0 \/ on = o
      BY <1>4, <2>4, ZenonT(40)
    <3> QED BY <1>1, <1>2, <3>1, <3>2
  <2>5. Kept
    <3> HIDE DEF Kept
    <3>1. CASE FlushBegin \/ FlushWriteFails \/ FlushMark \/ FlushEnd
      BY <2>3, <2>4, <3>1, ZenonT(40) DEF FlushBegin, FlushWriteFails, FlushMark, FlushEnd, counterVars
    <3>2. ASSUME NEW v \in Users, FlushLookup(v) \/ FlushRecheck(v)
          PROVE  Kept
      BY <2>3, <2>4, <3>2 DEF FlushLookup, FlushRecheck, counterVars
    <3> QED BY <1>8, <2>1, <2>2, <2>3, <3>1, <3>2 DEF Flusher
  <2>6. cn = c /\ an = a
    BY <2>0, ZenonT(40)
  <2> HIDE DEF w, wn, d, dn, o, on, c, cn, a, an
  <2> QED BY <1>1, <1>2, <1>3, <2>5, <2>6
<1> HIDE DEF Covered
<1> QED BY <1>6, <1>7, <1>8 DEF DataPlane

\* A seeded restart starts the aggregate at what the running row charges.
LEMMA SeedIsExact ==
    ASSUME TypeInv, NEW u \in Users, NEW i \in Running(u),
           \A j, k \in ActiveRows(u) : j = k
    PROVE  SeedFromDisk(u) = subs[i].used
<1>0. i \in ActiveRows(u) /\ subs[i].life = "runs"
  BY DEF Running
<1>1. GetActiveUserSubscription(u).id = i
  BY <1>0 DEF GetActiveUserSubscription
<1>2. i \in SubIds /\ subs[i].used \in Nat /\ subs[i].status = "active"
  BY <1>0, RowsAreRows DEF ActiveRows, Row
<1> QED BY <1>0, <1>1, <1>2 DEF SeedFromDisk, Seedable

\* The end of a term ends rows, and charges nothing.
LEMMA ExpiryEnds ==
    ASSUME TypeInv, Expiry, NEW i \in SubIds
    PROVE  /\ subs'[i].user = subs[i].user /\ subs'[i].used = subs[i].used
           /\ subs'[i].status = "active" => subs[i].status = "active"
           /\ subs'[i].life = "runs" => subs[i].life = "runs"
<1>0. subs[i] \in Row /\ subs \in [SubIds -> Row]
  BY RowsAreRows
<1>1. /\ [subs[i] EXCEPT !.life = "over"] = Terms(subs[i], subs[i].status, "over")
      /\ [subs[i] EXCEPT !.status = "expired"] = Terms(subs[i], "expired", subs[i].life)
  BY <1>0 DEF Row, Terms
<1>2. \/ subs'[i] = subs[i]
      \/ subs'[i] = Terms(subs[i], subs[i].status, "over")
      \/ subs'[i] = Terms(subs[i], "expired", subs[i].life)
  <2>1. ASSUME NEW j \in SubIds, Lapse(j)
        PROVE  subs'[i] = subs[i] \/ subs'[i] = Terms(subs[i], subs[i].status, "over")
    <3>1. subs'[i] = subs[i] \/ subs'[i] = [subs[i] EXCEPT !.life = "over"]
      BY <1>0, <2>1 DEF Lapse
    <3> QED BY <1>1, <3>1
  <2>2. CASE ExpireStaleSubscriptions
    BY <1>0, <1>1, <2>2 DEF ExpireStaleSubscriptions
  <2> QED BY <2>1, <2>2, ZenonT(40) DEF Expiry
<1>3. ASSUME NEW st, NEW life, subs'[i] = Terms(subs[i], st, life)
      PROVE  /\ subs'[i].user = subs[i].user /\ subs'[i].used = subs[i].used
             /\ subs'[i].status = st /\ subs'[i].life = life
  BY <1>3 DEF Terms
<1>4. "expired" # "active" /\ "over" # "runs"
  OBVIOUS
<1> QED BY <1>2, <1>3, <1>4, ZenonT(40)

\* ... and is kept by every step.
LEMMA EarlyNext ==
    ASSUME Induction, AccountInv, TypeInv', [Next]_vars, EarlyInv
    PROVE  EarlyInv'
<1> SUFFICES ASSUME Early' PROVE
        /\ ppc' = "idle" /\ \A a \in Admins : adm'[a].pc = "idle"
        /\ \A u \in Users : \A i, j \in ActiveRows(u)' : i = j
        /\ \A u \in Users : \A i \in Running(u)' :
              subs'[i].used + Held(u)' + Outstanding(u)' <= users'[u] + adding'[u]
  BY DEF EarlyInv
<1>1. Early
  BY EarlyBefore DEF AccountInv
<1>2. /\ ppc = "idle" /\ \A a \in Admins : adm[a].pc = "idle"
      /\ \A u \in Users : \A i, j \in ActiveRows(u) : i = j
      /\ \A u \in Users : \A i \in Running(u) :
            subs[i].used + Held(u) + Outstanding(u) <= users[u] + adding[u]
  BY <1>1 DEF EarlyInv
<1>3. ppc' = "idle" /\ \A a \in Admins : adm'[a].pc = "idle"
  <2>1. \/ UNCHANGED <<ppc, adm>>
        \/ ppc' = "idle" /\ adm' = [a \in Admins |-> IdleAdmin]
    BY <1>1, EarlySteps, ZenonT(40) DEF Restart
  <2> QED BY <1>2, <2>1 DEF IdleAdmin
<1>4. FlushAdd \/ Expiry \/ UNCHANGED subs
  <2>1. CASE Flusher
    BY <2>1, ZenonT(40) DEF Flusher, FlushBegin, FlushDrain, FlushRequeue, FlushWrite, FlushWriteFails,
         FlushLookup, FlushRecheck, FlushMark, FlushEnd, diskVars
  <2> QED BY <1>1, <2>1, EarlySteps, ZenonT(40) DEF Restart, diskVars
<1>5. \A i \in SubIds : /\ subs'[i].user = subs[i].user
                        /\ subs'[i].status = "active" => subs[i].status = "active"
                        /\ subs'[i].life = "runs" => subs[i].life = "runs"
  BY <1>4, ChargeRow, ExpiryEnds, ZenonT(40) DEF AccountInv, ChargeInv
<1>6. \A u : ActiveRows(u)' \subseteq ActiveRows(u) /\ Running(u)' \subseteq Running(u)
  BY <1>5, ZenonT(40) DEF ActiveRows, Running
<1>7. ASSUME NEW u \in Users, NEW i \in Running(u)
      PROVE  subs'[i].used + Held(u)' + Outstanding(u)' <= users'[u] + adding'[u]
  <2> DEFINE h == Held(u)
             hn == Held(u)'
             o == Outstanding(u)
             on == Outstanding(u)'
             r == subs[i].used
             rn == subs'[i].used
             c == users[u]
             cn == users'[u]
             a == adding[u]
             an == adding'[u]
  <2>0. i \in SubIds /\ r \in Nat /\ rn \in Nat
    BY DEF Running, ActiveRows, AccountInv, TypeInv, TypeOK, DiskType, Row
  <2>1. h \in Nat /\ hn \in Nat
    <3>1. /\ buckets \in [Buckets -> Nat] /\ buckets' \in [Buckets -> Nat]
          /\ drained \in [Buckets -> Nat] /\ drained' \in [Buckets -> Nat]
      BY DEF AccountInv, TypeInv, TypeOK, CountersType, FlushType
    <3>2. /\ SumOver(buckets, OfUser(u)) \in Nat /\ SumOver(buckets', OfUser(u)) \in Nat
          /\ SumOver(drained, OfUser(u)) \in Nat /\ SumOver(drained', OfUser(u)) \in Nat
      BY <3>1, UserSum
    <3> QED BY <3>2 DEF Held
  <2>2. o \in Nat /\ on \in Nat
    BY DEF Outstanding, AccountInv, TypeInv, TypeOK, FlushType
  <2>3. c \in Nat /\ cn \in Nat /\ a \in Nat /\ an \in Nat
    BY DEF AccountInv, TypeInv, TypeOK, CountersType, LifeType
  <2>4. r + h + o <= c + a
    BY <1>2, ZenonT(40)
  <2> DEFINE Fits == rn + hn + on <= cn + an
  <2> SUFFICES Fits
    OBVIOUS
  <2>5. CASE \E ok \in BOOLEAN : ok /\ Restart(ok)
    <3>1. /\ UNCHANGED subs /\ users'[u] = SeedFromDisk(u) /\ adding'[u] = 0
          /\ \A b \in Buckets : buckets'[b] = 0 /\ drained'[b] = 0
      BY <2>5, ZenonT(40) DEF Restart, diskVars
    <3>2. SeedFromDisk(u) = subs[i].used
      BY <1>2, SeedIsExact, ZenonT(40) DEF AccountInv
    <3>3. SumOver(buckets', OfUser(u)) = 0 /\ SumOver(drained', OfUser(u)) = 0
      <4>1. buckets' \in [Buckets -> Nat] /\ drained' \in [Buckets -> Nat]
        BY DEF TypeInv, TypeOK, CountersType, FlushType
      <4> QED BY <3>1, <4>1, UserNothing, ZenonT(40)
    <3>4. hn = 0
      BY <3>3 DEF Held
    <3>5. on = 0
      BY <2>5, ZenonT(40) DEF Restart, Outstanding, Uncharged
    <3>6. rn = r /\ cn = r /\ an = 0
      BY <3>1, <3>2, ZenonT(40)
    <3> HIDE DEF h, hn, o, on, r, rn, c, cn, a, an
    <3> QED BY <2>0, <3>4, <3>5, <3>6
  <2>6. CASE (Flusher \/ DataPlane) /\ ~FlushAdd
    <3>1. UNCHANGED subs /\ hn + on + c + a <= h + o + cn + an
      BY <2>6, HeldNext, ZenonT(40)
    <3>2. rn = r
      BY <3>1, ZenonT(40)
    <3>3. hn + on + c + a <= h + o + cn + an
      BY <3>1, ZenonT(40)
    <3> HIDE DEF h, hn, o, on, r, rn, c, cn, a, an
    <3> QED BY <2>0, <2>1, <2>2, <2>3, <2>4, <3>2, <3>3
  <2>7. CASE FlushAdd
    <3>1. UNCHANGED <<buckets, drained, users, adding, perUser>> /\ fpc = "add"
      BY <2>7, ZenonT(40) DEF FlushAdd, counterVars
    <3>2. hn = h
      BY <3>1 DEF Held
    <3>3. on = 0 \/ on = o
      <4>1. ~FlushWrite
        BY <2>7, ZenonT(40) DEF FlushAdd, FlushWrite
      <4> QED BY <4>1, OutstandingNext, ZenonT(40) DEF AccountInv, ChargeInv
    <3>4. rn = r \/ (rn = r + o /\ on = 0)
      <4> DEFINE k == window[fuser].id
                 p == perUser[fuser]
      <4>1. /\ fuser \in fusers /\ fuser \in Users /\ k \in SubIds
            /\ subs[k].user = fuser /\ p \in Nat
            /\ \/ UNCHANGED subs
               \/ /\ fpc' = "mark" /\ UNCHANGED <<fusers, fuser>>
                  /\ rn = r + (IF i = k THEN p ELSE 0)
        BY <2>0, <2>7, ChargeRow, ZenonT(40) DEF AccountInv, ChargeInv
      <4>2. CASE UNCHANGED subs
        BY <4>2, ZenonT(40)
      <4>3. CASE subs' # subs
        <5>1. rn = r + (IF i = k THEN p ELSE 0)
          BY <4>1, <4>3, ZenonT(40)
        <5>2. ASSUME i = k PROVE o = p /\ on = 0
          <6>1. u = fuser
            BY <4>1, <5>2, ZenonT(40) DEF Running, ActiveRows
          <6> QED BY <3>1, <4>1, <4>3, <6>1, ZenonT(40) DEF Outstanding, Uncharged
        <5> HIDE DEF k, p, o, on, r, rn
        <5> QED BY <2>0, <5>1, <5>2
      <4> QED BY <4>2, <4>3, ZenonT(40)
    <3>5. cn = c /\ an = a
      BY <3>1, ZenonT(40)
    <3> HIDE DEF h, hn, o, on, r, rn, c, cn, a, an
    <3> QED BY <2>0, <2>1, <2>2, <2>3, <2>4, <3>2, <3>3, <3>4, <3>5
  <2>8. CASE /\ Expiry \/ UNCHANGED subs
             /\ UNCHANGED <<buckets, drained, flushVars, users, adding>>
    <3>0. rn = r
      BY <2>0, <2>8, ExpiryEnds, ZenonT(40) DEF AccountInv
    <3>1. hn = h /\ on = o /\ rn = r /\ cn = c /\ an = a
      BY <2>8, <3>0, ZenonT(40) DEF Held, Outstanding, Uncharged, flushVars
    <3> HIDE DEF h, hn, o, on, r, rn, c, cn, a, an
    <3> QED BY <2>4, <3>1, ZenonT(40)
  <2> HIDE DEF Fits
  <2> QED BY <1>1, <2>5, <2>6, <2>7, <2>8, EarlySteps
<1> QED BY <1>2, <1>3, <1>6, <1>7, ZenonT(40)

-----------------------------------------------------------------------------
\* Nobody is billed for more than moved: while every start could read the
\* subscriptions the quota aggregate stays within the bytes of the user's
\* buckets, and the period totals within usage_hourly.
THEOREM NoOverbilling == Spec => [](NeverOverbilled /\ ChargesAreRecorded)
<1>1. AccountInv => NeverOverbilled /\ ChargesAreRecorded
  <2> SUFFICES ASSUME AccountInv PROVE NeverOverbilled /\ ChargesAreRecorded
    OBVIOUS
  <2>1. ASSUME NEW u \in Users
        PROVE  SumOver(ChargedTo(u), SubIds) <= SumOver(hourly, OfUser(u))
    <3>1. SumOver(ChargedTo(u), SubIds) \in Nat /\ Outstanding(u) \in Nat
      BY InductionHolds, ChargesType, OutstandingType DEF AccountInv
    <3>2. SumOver(hourly, OfUser(u)) \in Nat
      BY InductionHolds, UserSum DEF AccountInv, BytesInv, BytesType
    <3>3. SumOver(ChargedTo(u), SubIds) + Outstanding(u) <= SumOver(hourly, OfUser(u))
      BY DEF AccountInv, ChargeInv, ChargesFit
    <3> QED BY <3>1, <3>2, <3>3
  <2> QED BY <2>1 DEF NeverOverbilled, ChargesAreRecorded, AccountInv, AggregateFits
<1>2. Init => AccountInv
  BY InductionHolds, AccountInit
<1>3. AccountInv /\ [Next]_vars => AccountInv'
  BY InductionHolds, AccountNext
<1> QED
  BY <1>1, <1>2, <1>3, PTL DEF Spec

\* Until the first rollover or request of an operator the quota never forgets
\* what the disk has charged: whatever the flusher is in the middle of, and
\* whenever the process restarts, provided the start can read the subscriptions.
THEOREM QuotaCoversDisk == Spec => []AggregateCoversDisk
<1>1. AccountInv /\ EarlyInv => AggregateCoversDisk
  <2> SUFFICES ASSUME AccountInv, EarlyInv, Early, NEW u \in Users, NEW i \in Running(u)
               PROVE  users[u] + adding[u] >= subs[i].used
    BY DEF AggregateCoversDisk, Early, Running
  <2>1. subs[i].used + Held(u) + Outstanding(u) <= users[u] + adding[u]
    BY DEF EarlyInv
  <2>2. subs[i].used \in Nat /\ users[u] \in Nat /\ adding[u] \in Nat
    BY DEF Running, ActiveRows, AccountInv, TypeInv, TypeOK, DiskType, Row, CountersType, LifeType
  <2>3. SumOver(buckets, OfUser(u)) \in Nat /\ SumOver(drained, OfUser(u)) \in Nat
    BY InductionHolds, UserSum DEF AccountInv, BytesInv, BytesType
  <2>4. Held(u) \in Nat
    BY <2>3 DEF Held
  <2>5. Outstanding(u) \in Nat
    BY OutstandingType DEF AccountInv
  <2> QED BY <2>1, <2>2, <2>4, <2>5
<1>2. AccountInv /\ EarlyInv /\ [Next]_vars => (AccountInv /\ EarlyInv)'
  BY InductionHolds, AccountNext, EarlyNext DEF AccountInv
<1>3. Init => AccountInv /\ EarlyInv
  BY InductionHolds, AccountInit, EarlyInit
<1> QED
  BY <1>1, <1>2, <1>3, PTL DEF Spec
=============================================================================

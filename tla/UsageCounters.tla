---------------------------- MODULE UsageCounters ----------------------------
(***************************************************************************)
(* The in-memory usage counters (internal/usage/counters.go).              *)
(*                                                                         *)
(* A CounterKey (key, user, platform) is an element of Buckets; KeyOf and  *)
(* UserOf project it on its key and on its owner, NoUser for a key that no *)
(* account owns.  A Delta is the number of bytes it moves: the request and *)
(* error counts travel with the bytes and no property tells them apart.    *)
(*                                                                         *)
(* Each operator below is one critical section of the code, so that the    *)
(* modules that use it interleave exactly where the code can.  Counters    *)
(* that LoadOrCompute creates are zero before they exist; the one place    *)
(* that tells "absent" from "zero" (UserBytesPresent) reads `known'.       *)
(***************************************************************************)
EXTENDS Integers, FiniteSets, FiniteSetsExt

CONSTANTS
    Buckets,    \* the CounterKeys the data plane can report traffic on
    Keys,       \* access keys
    Users,      \* accounts
    NoUser,     \* the empty user id
    KeyOf,      \* [Buckets -> Keys]
    UserOf      \* [Buckets -> Users \cup {NoUser}]

ASSUME BucketsAssumption ==
    /\ IsFiniteSet(Buckets)
    /\ NoUser \notin Users
    /\ KeyOf \in [Buckets -> Keys]
    /\ UserOf \in [Buckets -> Users \cup {NoUser}]

VARIABLES
    buckets,    \* Counters.entries: bytes not yet drained, per bucket
    keyBytes,   \* Counters.keyBytes: running total of a key's buckets
    users,      \* Counters.users: the aggregate the quota reads
    known,      \* the users that have an aggregate at all
    persisted   \* Counters.persisted: the water mark of the aggregate

counterVars == <<buckets, keyBytes, users, known, persisted>>

CountersType ==
    /\ buckets \in [Buckets -> Nat]
    /\ keyBytes \in [Keys -> Int]
    /\ users \in [Users -> Nat]
    /\ known \in SUBSET Users
    /\ persisted \in [Users -> Nat]

NewCounters ==
    /\ buckets = [b \in Buckets |-> 0]
    /\ keyBytes = [k \in Keys |-> 0]
    /\ users = [u \in Users |-> 0]
    /\ known = {}
    /\ persisted = [u \in Users |-> 0]

\* The sum of f over a set of buckets; the buckets of one user and of one key.
SumOver(f, S) == MapThenSumSet(LAMBDA b : f[b], S)
OfUser(u) == {b \in Buckets : UserOf[b] = u}
OfKey(k) == {b \in Buckets : KeyOf[b] = k}

-----------------------------------------------------------------------------
\* The bucket and the key's running total move in one critical section.
addToBuckets(b, n) ==
    /\ buckets' = [buckets EXCEPT ![b] = @ + n]
    /\ keyBytes' = [keyBytes EXCEPT ![KeyOf[b]] = @ + n]

\* The second half of Add: the aggregate, after the bucket.
addToUser(u, n) ==
    /\ users' = [users EXCEPT ![u] = @ + n]
    /\ known' = known \cup {u}

\* Slips for the mutation runs: a requeue that drops the delta, one that
\* forgets the key's total, one that counts it again, and a mark that falls.
RequeueNothing(b, n) == UNCHANGED <<buckets, keyBytes, users, known>>
RequeueBucketOnly(b, n) ==
    /\ buckets' = [buckets EXCEPT ![b] = @ + n]
    /\ UNCHANGED <<keyBytes, users, known>>
RequeueWithAdd(b, n) ==
    /\ addToBuckets(b, n)
    /\ IF UserOf[b] = NoUser THEN UNCHANGED <<users, known>> ELSE addToUser(UserOf[b], n)
MarkBackwards(u, n) == persisted' = [persisted EXCEPT ![u] = @ - n]

\* One delta of a drained batch goes back to the bucket it came from, and only
\* there: the aggregate counted it when it arrived.
Requeue(b, n) ==
    /\ addToBuckets(b, n)
    /\ UNCHANGED <<users, known>>

\* Read, remove and uncount one bucket, atomically for that bucket.
drainOne(b) ==
    /\ buckets' = [buckets EXCEPT ![b] = 0]
    /\ keyBytes' = [keyBytes EXCEPT ![KeyOf[b]] = @ - buckets[b]]

MarkPersisted(u, n) == persisted' = [persisted EXCEPT ![u] = @ + n]

\* ResetUser is two stores, one after the other.
resetAggregate(u) == users' = [users EXCEPT ![u] = 0]
resetMark(u) == persisted' = [persisted EXCEPT ![u] = 0]

\* UserBytesPresent, and what the quota counts as used for a bucket's key.
UserBytesPresent(u) == u \in known
usedBytes(b) ==
    IF UserOf[b] # NoUser /\ UserBytesPresent(UserOf[b])
    THEN users[UserOf[b]]
    ELSE keyBytes[KeyOf[b]]

-----------------------------------------------------------------------------
\* A key's running total is the sum of its undrained buckets, so the quota
\* fallback answers without walking them (counters.go:202, limiter.go:146).
KeyTotalIsSumOfBuckets ==
    \A k \in Keys : keyBytes[k] = SumOver(buckets, OfKey(k))
=============================================================================

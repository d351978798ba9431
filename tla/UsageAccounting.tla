--------------------------- MODULE UsageAccounting ---------------------------
(***************************************************************************)
(* Usage accounting: the data plane counts bytes in memory, the flusher    *)
(* moves them to the usage tables and to the period total of the user's    *)
(* subscription, the period worker starts new billing periods, the control *)
(* plane replaces and renews subscriptions, and a restart rebuilds the     *)
(* quota aggregate from the period totals                                  *)
(* (internal/usage, internal/state/repo_user.go, cmd/prism/app_runtime.go).*)
(*                                                                         *)
(* Every goroutine is a small state machine whose steps are the critical   *)
(* sections and database statements of the code; StateRepo serialises each *)
(* statement under its own lock and nothing wider.                         *)
(*                                                                         *)
(* The clock counts instants; PeriodLength of them make a billing period.  *)
(* Every plan here recurs, and calendar months are left out.  Of a row's    *)
(* expiry the model keeps whether it has passed (life), and lets it pass    *)
(* whenever it likes (Lapse): plans last for any number of instants.        *)
(***************************************************************************)
EXTENDS UsageCounters

CONSTANTS
    SubIds,         \* rows user_subscriptions can hold
    NoSub,          \* no subscription
    Admins,         \* concurrent control-plane requests
    PeriodLength,   \* instants in one billing period
    MaxMoved,       \* bound: bytes moved on one bucket
    MaxClock,       \* bound: instants
    MaxCrashes,     \* bound: restarts
    MaxRequests,    \* bound: control-plane requests
    MaxFaults       \* bound: failed database calls

ASSUME AccountingAssumption ==
    /\ IsFiniteSet(SubIds) /\ NoSub \notin SubIds
    /\ PeriodLength \in Nat \ {0}
    /\ {MaxMoved, MaxClock, MaxCrashes, MaxRequests, MaxFaults} \subseteq Nat

VARIABLES
    subs,       \* user_subscriptions
    hourly,     \* usage_hourly, summed per bucket
    clock,
    adding,     \* bytes of Add calls between the bucket and the aggregate
    fpc,        \* the flusher's place in FlushOnce
    fkeys,      \* the buckets its Drain has left
    fusers,     \* the users its current loop has left
    drained,    \* the drained batch, until it is written or requeued
    perUser,    \* the same bytes summed per user, until they are charged
    window,     \* the subscription window looked up per user
    fuser,      \* the user chargeSubscription is working on
    ppc, plist, pcur,           \* the period worker
    spc, slist, scur, restore,  \* the re-seed loop
    starts,         \* "seeded", or "unseeded" once a start failed to read the subscriptions
    adm,        \* the control-plane requests
    stopping,   \* shutdown() has begun
    faults, crashes, requests,
    \* What an observer knows and the program does not:
    moved,      \* bytes ever counted per bucket
    lost,       \* bytes a crash or an exit took with the process
    lostClean,  \* the part of it a clean shutdown took
    batchRow    \* the window that was open when the batch was drained

diskVars == <<subs, hourly>>
flushVars == <<fpc, fkeys, fusers, drained, perUser, window, fuser, batchRow>>
periodVars == <<ppc, plist, pcur>>
seedVars == <<spc, slist, scur, restore, starts>>
lifeVars == <<stopping, faults, crashes, requests, lost, lostClean>>
vars == <<counterVars, diskVars, clock, adding, flushVars, periodVars,
          seedVars, adm, lifeVars, moved>>

-----------------------------------------------------------------------------
\* user_subscriptions.
Statuses == {"none", "active", "expired", "suspended"}
Lives == {"runs", "over"}   \* expires_at_ns lies ahead (or is 0), or has passed
Row == [user : Users \cup {NoUser}, status : Statuses, life : Lives, start : Nat, used : Nat]
NoRow == [user |-> NoUser, status |-> "none", life |-> "runs", start |-> 0, used |-> 0]
Window == [id : SubIds \cup {NoSub}, start : Nat]
NoWindow == [id |-> NoSub, start |-> 0]

ActiveRows(u) == {i \in SubIds : subs[i].user = u /\ subs[i].status = "active"}
FreeIds == {i \in SubIds : subs[i].status = "none"}

\* GetActiveUserSubscription, reduced to the window a caller keeps of the row.
\* It does not look at the expiry.
GetActiveUserSubscription(u) ==
    IF ActiveRows(u) = {} THEN NoWindow
    ELSE LET i == CHOOSE i \in ActiveRows(u) : TRUE
         IN [id |-> i, start |-> subs[i].start]

\* Add to the period total of a row, whatever its period or status is by now.
AddSubscriptionUsedBytes(i, n) ==
    subs' = [subs EXCEPT ![i].used = @ + n]

\* A period that starts with nothing used.
NewPeriod(row, start) ==
    [user |-> row.user, status |-> row.status, life |-> row.life, start |-> start, used |-> 0]

\* A slip for the mutation runs: the guard tests the wrong way round.
ResetOtherPeriods(i, from, to) ==
    subs' = IF subs[i].start # from
            THEN [subs EXCEPT ![i] = NewPeriod(@, to)]
            ELSE subs

\* Zero the total and move the period, unless the period has moved already.
ResetSubscriptionPeriod(i, from, to) ==
    subs' = IF subs[i].start = from
            THEN [subs EXCEPT ![i] = NewPeriod(@, to)]
            ELSE subs

\* UpdateUserSubscriptionTerms leaves the period and its total alone.
Terms(row, status, life) ==
    [user |-> row.user, status |-> status, life |-> life, start |-> row.start, used |-> row.used]

\* A row sold at an instant; a renewal makes its row a new one as well.
NewRow(u, at) == [user |-> u, status |-> "active", life |-> "runs", start |-> at, used |-> 0]

-----------------------------------------------------------------------------
\* Subscription windows the period worker finds due, with the row as listed.
advancePeriod(start) == start + ((clock - start) \div PeriodLength) * PeriodLength
Due(i) ==
    /\ subs[i].status = "active"
    /\ subs[i].start > 0
    /\ clock - subs[i].start >= PeriodLength
NoRollover == [id |-> NoSub, user |-> NoUser, start |-> 0, write |-> "open"]
Rollover == [id : SubIds \cup {NoSub}, user : Users \cup {NoUser}, start : Nat,
             write : {"open", "won", "lost"}]

\* Subscriptions SeedFromSubscriptions restores from: a row past its expiry is
\* skipped even before anything has ended it.
Seedable ==
    {i \in SubIds : subs[i].status = "active" /\ subs[i].used > 0 /\ subs[i].life = "runs"}
Listed == {[user |-> subs[i].user, used |-> subs[i].used] : i \in Seedable}
NoSeed == [user |-> NoUser, used |-> 0]
Seed == [user : Users \cup {NoUser}, used : Nat]

\* A control-plane request: its user, the row it will write, the row it found
\* active and has to expire first, and the instant it writes.
IdleAdmin == [pc |-> "idle", user |-> NoUser, sub |-> NoSub, old |-> NoSub, at |-> 0]
Admin == [pc : {"idle", "expire", "insert", "activate", "patch", "renew", "users", "mark"},
          user : Users \cup {NoUser}, sub : SubIds \cup {NoSub},
          old : SubIds \cup {NoSub}, at : Nat]

DiskType ==
    /\ subs \in [SubIds -> Row]
    /\ hourly \in [Buckets -> Nat]
    /\ clock \in Nat
FlushType ==
    /\ fpc \in {"idle", "drain", "requeue", "lookup", "charge", "add", "mark"}
    /\ fkeys \in SUBSET Buckets
    /\ fusers \in SUBSET Users
    /\ drained \in [Buckets -> Nat]
    /\ perUser \in [Users -> Nat]
    /\ window \in [Users -> Window]
    /\ batchRow \in [Users -> Window]
    /\ fuser \in Users \cup {NoUser}
LoopsType ==
    /\ ppc \in {"idle", "scan", "users", "mark"}
    /\ plist \in SUBSET Rollover
    /\ pcur \in Rollover
    /\ spc \in {"off", "wait", "filter", "seed", "add", "store"}
    /\ slist \in SUBSET Seed
    /\ scur \in Seed
    /\ restore \in Int /\ starts \in {"seeded", "unseeded"}
    /\ adm \in [Admins -> Admin]
LifeType ==
    /\ adding \in [Users -> Nat]
    /\ stopping \in BOOLEAN
    /\ faults \in Nat /\ crashes \in Nat /\ requests \in Nat
    /\ moved \in [Buckets -> Nat]
    /\ lost \in [Buckets -> Nat]
    /\ lostClean \in [Buckets -> Nat]

TypeOK == CountersType /\ DiskType /\ FlushType /\ LoopsType /\ LifeType

\* Accounts with or without a running subscription, and with or without one
\* that has ended.
FirstRow(u, st) == [user |-> u, status |-> st, life |-> "runs", start |-> 1, used |-> 0]

Init ==
    /\ NewCounters
    /\ subs \in [SubIds -> {NoRow} \cup {FirstRow(u, st) : u \in Users, st \in {"active", "expired"}}]
    /\ \A u \in Users : \A i, j \in ActiveRows(u) : i = j
    /\ hourly = [b \in Buckets |-> 0]
    /\ clock = 1
    /\ adding = [u \in Users |-> 0]
    /\ fpc = "idle" /\ fkeys = {} /\ fusers = {} /\ fuser = NoUser
    /\ drained = [b \in Buckets |-> 0]
    /\ perUser = [u \in Users |-> 0]
    /\ window = [u \in Users |-> NoWindow]
    /\ batchRow = [u \in Users |-> NoWindow]
    /\ ppc = "idle" /\ plist = {} /\ pcur = NoRollover
    /\ spc = "off" /\ slist = {} /\ scur = NoSeed /\ restore = 0
    /\ starts = "seeded"
    /\ adm = [a \in Admins |-> IdleAdmin]
    /\ stopping = FALSE
    /\ faults = 0 /\ crashes = 0 /\ requests = 0
    /\ moved = [b \in Buckets |-> 0]
    /\ lost = [b \in Buckets |-> 0]
    /\ lostClean = [b \in Buckets |-> 0]

\* One more database call fails.
Fault == faults < MaxFaults /\ faults' = faults + 1

Tick ==
    /\ clock < MaxClock
    /\ clock' = clock + 1
    /\ UNCHANGED <<counterVars, diskVars, adding, flushVars, periodVars, seedVars,
                   adm, lifeVars, moved>>

\* The expiry of an active row passes.
Lapse(i) ==
    /\ subs[i].status = "active" /\ subs[i].life = "runs"
    /\ subs' = [subs EXCEPT ![i].life = "over"]
    /\ UNCHANGED <<counterVars, hourly, clock, adding, flushVars, periodVars, seedVars,
                   adm, lifeVars, moved>>

-----------------------------------------------------------------------------
\* The data plane.  Add counts a byte in its bucket first and in its owner's
\* aggregate second.
AddBucket(b) ==
    /\ ~stopping
    /\ moved[b] < MaxMoved
    /\ addToBuckets(b, 1)
    /\ moved' = [moved EXCEPT ![b] = @ + 1]
    /\ adding' = IF UserOf[b] = NoUser THEN adding
                 ELSE [adding EXCEPT ![UserOf[b]] = @ + 1]
    /\ UNCHANGED <<users, known, persisted, diskVars, clock, flushVars,
                   periodVars, seedVars, adm, lifeVars>>

AddAggregate(u) ==
    /\ adding[u] > 0
    /\ adding' = [adding EXCEPT ![u] = @ - 1]
    /\ addToUser(u, 1)
    /\ UNCHANGED <<buckets, keyBytes, persisted, diskVars, clock, flushVars,
                   periodVars, seedVars, adm, lifeVars, moved>>

-----------------------------------------------------------------------------
\* FlushOnce.  Keys() lists the buckets; each is drained on its own.
FlushBegin ==
    /\ fpc = "idle"
    /\ fkeys' = {b \in Buckets : buckets[b] > 0}
    /\ fkeys' # {}
    /\ fpc' = "drain"
    /\ batchRow' = [u \in Users |-> GetActiveUserSubscription(u)]
    /\ UNCHANGED <<counterVars, diskVars, clock, adding, fusers, drained, perUser,
                   window, fuser, periodVars, seedVars, adm, lifeVars, moved>>

FlushDrain(b) ==
    /\ fpc = "drain"
    /\ b \in fkeys
    /\ drainOne(b)
    /\ drained' = [drained EXCEPT ![b] = buckets[b]]
    /\ perUser' = IF UserOf[b] = NoUser THEN perUser
                  ELSE [perUser EXCEPT ![UserOf[b]] = @ + buckets[b]]
    /\ fkeys' = fkeys \ {b}
    /\ UNCHANGED <<users, known, persisted, diskVars, clock, adding, fpc, fusers,
                   window, fuser, batchRow, periodVars, seedVars, adm,
                   lifeVars, moved>>

\* The hourly rows are one transaction: all of the batch, or none of it.
FlushWrite ==
    /\ fpc = "drain" /\ fkeys = {}
    /\ hourly' = [b \in Buckets |-> hourly[b] + drained[b]]
    /\ drained' = [b \in Buckets |-> 0]
    /\ fusers' = {u \in Users : perUser[u] > 0}
    /\ fpc' = IF fusers' = {} THEN "charge" ELSE "lookup"
    /\ UNCHANGED <<counterVars, subs, clock, adding, fkeys, perUser, window, fuser,
                   batchRow, periodVars, seedVars, adm, lifeVars, moved>>

\* A failed write puts the batch back, bucket by bucket, and ends the pass.
FlushWriteFails ==
    /\ fpc = "drain" /\ fkeys = {}
    /\ Fault
    /\ fpc' = "requeue"
    /\ fkeys' = {b \in Buckets : drained[b] > 0}
    /\ perUser' = [u \in Users |-> 0]
    /\ batchRow' = [u \in Users |-> NoWindow]
    /\ UNCHANGED <<counterVars, diskVars, clock, adding, fusers, drained, window, fuser,
                   periodVars, seedVars, adm, stopping, crashes, requests, lost,
                   lostClean, moved>>

\* A slip: the failed pass returns without releasing the flusher.
FlushRequeueHeld(b) ==
    /\ fpc = "requeue"
    /\ b \in fkeys
    /\ Requeue(b, drained[b])
    /\ drained' = [drained EXCEPT ![b] = 0]
    /\ fkeys' = fkeys \ {b}
    /\ UNCHANGED <<persisted, diskVars, clock, adding, fpc, fusers, perUser, window, fuser,
                   batchRow, periodVars, seedVars, adm, lifeVars, moved>>

FlushRequeue(b) ==
    /\ fpc = "requeue"
    /\ b \in fkeys
    /\ Requeue(b, drained[b])
    /\ drained' = [drained EXCEPT ![b] = 0]
    /\ fkeys' = fkeys \ {b}
    /\ fpc' = IF fkeys' = {} THEN "idle" ELSE "requeue"
    /\ UNCHANGED <<persisted, diskVars, clock, adding, fusers, perUser, window, fuser,
                   batchRow, periodVars, seedVars, adm, lifeVars, moved>>

\* First loop: remember the window of every user that moved bytes.  A failed
\* lookup leaves the user without one, as a user without a subscription.
FlushLookup(u) ==
    /\ fpc = "lookup"
    /\ u \in fusers
    /\ \/ /\ window' = [window EXCEPT ![u] = GetActiveUserSubscription(u)]
          /\ UNCHANGED faults
       \/ /\ Fault
          /\ UNCHANGED window
    /\ LET left == fusers \ {u} IN
          IF left # {} THEN fusers' = left /\ UNCHANGED fpc
          ELSE /\ fusers' = {v \in Users : window'[v] # NoWindow}
               /\ fpc' = "charge"
    /\ UNCHANGED <<counterVars, diskVars, clock, adding, fkeys, drained, perUser,
                   fuser, batchRow, periodVars, seedVars, adm, stopping, crashes,
                   requests, lost, lostClean, moved>>

\* Second loop, chargeSubscription: re-read the window (no store implements
\* PeriodGuardedFlushStore) and give up on a user whose window has moved.
FlushRecheck(u) ==
    /\ fpc = "charge"
    /\ u \in fusers
    /\ \/ /\ GetActiveUserSubscription(u) = window[u]
          /\ fpc' = "add" /\ fuser' = u
          /\ UNCHANGED <<fusers, faults>>
       \/ /\ GetActiveUserSubscription(u) # window[u]
          /\ fusers' = fusers \ {u}
          /\ UNCHANGED <<fpc, fuser, faults>>
       \/ /\ Fault
          /\ fusers' = fusers \ {u}
          /\ UNCHANGED <<fpc, fuser>>
    /\ UNCHANGED <<counterVars, diskVars, clock, adding, fkeys, drained, perUser,
                   window, batchRow, periodVars, seedVars, adm, stopping, crashes,
                   requests, lost, lostClean, moved>>

FlushAdd ==
    /\ fpc = "add"
    /\ \/ /\ AddSubscriptionUsedBytes(window[fuser].id, perUser[fuser])
          /\ fpc' = "mark"
          /\ UNCHANGED <<fusers, fuser, faults>>
       \/ /\ Fault
          /\ fpc' = "charge" /\ fusers' = fusers \ {fuser} /\ fuser' = NoUser
          /\ UNCHANGED subs
    /\ UNCHANGED <<counterVars, hourly, clock, adding, fkeys, drained, perUser,
                   window, batchRow, periodVars, seedVars, adm, stopping, crashes,
                   requests, lost, lostClean, moved>>

\* A slip: the charged user stays in the loop.
FlushMarkKeepsUser ==
    /\ fpc = "mark"
    /\ MarkPersisted(fuser, perUser[fuser])
    /\ fpc' = "charge" /\ fuser' = NoUser
    /\ UNCHANGED <<buckets, keyBytes, users, known, diskVars, clock, adding, fkeys,
                   fusers, drained, perUser, window, batchRow, periodVars, seedVars,
                   adm, lifeVars, moved>>

FlushMark ==
    /\ fpc = "mark"
    /\ MarkPersisted(fuser, perUser[fuser])
    /\ fpc' = "charge" /\ fusers' = fusers \ {fuser} /\ fuser' = NoUser
    /\ UNCHANGED <<buckets, keyBytes, users, known, diskVars, clock, adding, fkeys,
                   drained, perUser, window, batchRow, periodVars, seedVars, adm,
                   lifeVars, moved>>

FlushEnd ==
    /\ fpc = "charge" /\ fusers = {}
    /\ fpc' = "idle"
    /\ perUser' = [u \in Users |-> 0]
    /\ window' = [u \in Users |-> NoWindow]
    /\ batchRow' = [u \in Users |-> NoWindow]
    /\ UNCHANGED <<counterVars, diskVars, clock, adding, fkeys, fusers, drained,
                   fuser, periodVars, seedVars, adm, lifeVars, moved>>

-----------------------------------------------------------------------------
\* PeriodReset.RunOnce.  The pass works from the rows as it listed them.
PeriodList ==
    /\ ppc = "idle"
    /\ plist' = {[id |-> i, user |-> subs[i].user, start |-> subs[i].start,
                  write |-> "open"] : i \in {j \in SubIds : Due(j)}}
    /\ plist' # {}
    /\ ppc' = "scan"
    /\ UNCHANGED <<counterVars, diskVars, clock, adding, flushVars, pcur, seedVars,
                   adm, lifeVars, moved>>

\* The guarded write answers nil to the writer that lost the race as well, so
\* the aggregate is cleared either way; only a failed call skips the row.
PeriodWrite(r) ==
    /\ ppc = "scan"
    /\ r \in plist
    /\ plist' = plist \ {r}
    /\ \/ /\ ResetSubscriptionPeriod(r.id, r.start, advancePeriod(r.start))
          /\ pcur' = [id |-> r.id, user |-> r.user, start |-> r.start,
                      write |-> IF subs[r.id].start = r.start THEN "won" ELSE "lost"]
          /\ ppc' = "users"
          /\ UNCHANGED faults
       \/ /\ Fault
          /\ UNCHANGED <<subs, pcur, ppc>>
    /\ UNCHANGED <<counterVars, hourly, clock, adding, flushVars, seedVars, adm,
                   stopping, crashes, requests, lost, lostClean, moved>>

PeriodResetUsers ==
    /\ ppc = "users"
    /\ resetAggregate(pcur.user)
    /\ ppc' = "mark"
    /\ UNCHANGED <<buckets, keyBytes, known, persisted, diskVars, clock, adding,
                   flushVars, plist, pcur, seedVars, adm, lifeVars, moved>>

PeriodResetMark ==
    /\ ppc = "mark"
    /\ resetMark(pcur.user)
    /\ ppc' = "scan"
    /\ pcur' = NoRollover
    /\ UNCHANGED <<buckets, keyBytes, users, known, diskVars, clock, adding,
                   flushVars, plist, seedVars, adm, lifeVars, moved>>

PeriodEnd ==
    /\ ppc = "scan" /\ plist = {}
    /\ ppc' = "idle"
    /\ UNCHANGED <<counterVars, diskVars, clock, adding, flushVars, plist, pcur,
                   seedVars, adm, lifeVars, moved>>

-----------------------------------------------------------------------------
\* Control-plane requests that change which window is open.  Each is a list of
\* database calls, and only a call is atomic.
SetAdmin(a, pc, u, i, old, at) ==
    adm' = [adm EXCEPT ![a] = [pc |-> pc, user |-> u, sub |-> i, old |-> old, at |-> at]]
EndRequest(a) == adm' = [adm EXCEPT ![a] = IdleAdmin]

\* A request arrives on a free worker.
Request(a) ==
    /\ adm[a].pc = "idle"
    /\ requests < MaxRequests
    /\ requests' = requests + 1

\* Rows of u that are active, ended; every other row as it was.
ExpireActive(u) ==
    [i \in SubIds |-> IF i \in ActiveRows(u) THEN [subs[i] EXCEPT !.status = "expired"]
                      ELSE subs[i]]

\* SelfPurchase: one transaction expires the old row and inserts the new one.
Purchase(a, u) ==
    /\ Request(a)
    /\ \E i \in FreeIds : subs' = [ExpireActive(u) EXCEPT ![i] = NewRow(u, clock)]
    /\ SetAdmin(a, "users", u, NoSub, NoSub, 0)
    /\ UNCHANGED <<counterVars, hourly, clock, adding, flushVars, periodVars,
                   seedVars, stopping, faults, crashes, lost, lostClean, moved>>

\* A renewal reads an active row, and will start its next period at the old
\* expiry or now, whichever is later: up to an instant ahead here.
RenewRead(a, i) ==
    /\ Request(a)
    /\ subs[i].status = "active"
    /\ \E base \in clock .. clock + 1 : SetAdmin(a, "renew", subs[i].user, i, NoSub, base)
    /\ UNCHANGED <<counterVars, diskVars, clock, adding, flushVars, periodVars,
                   seedVars, stopping, faults, crashes, lost, lostClean, moved>>

\* RenewSubscriptionWithBalance guards on period_index alone: a row that has
\* ended since the read is active again, unless another row of the user is.
\* Refused as well when the index has moved or the balance is short.
RenewWrite(a) ==
    /\ adm[a].pc = "renew"
    /\ \/ LET i == adm[a].sub
          IN /\ ActiveRows(subs[i].user) \subseteq {i}
             /\ subs' = [subs EXCEPT ![i] = NewRow(subs[i].user, adm[a].at)]
             /\ SetAdmin(a, "users", adm[a].user, NoSub, NoSub, 0)
       \/ EndRequest(a) /\ UNCHANGED subs
    /\ UNCHANGED <<counterVars, hourly, clock, adding, flushVars, periodVars,
                   seedVars, lifeVars, moved>>

\* The two requests that end what runs before they write, in separate calls,
\* start with a listing.  AssignSubscription will insert a row of its own ...
AssignList(a, u) ==
    /\ Request(a)
    /\ FreeIds # {}
    /\ LET old == GetActiveUserSubscription(u).id
       IN SetAdmin(a, IF old = NoSub THEN "insert" ELSE "expire", u, NoSub, old, clock)
    /\ UNCHANGED <<counterVars, diskVars, clock, adding, flushVars, periodVars,
                   seedVars, stopping, faults, crashes, lost, lostClean, moved>>

\* ... and UpdateTenantSubscription will set an ended row active again.
ReactivateList(a, i) ==
    /\ Request(a)
    /\ subs[i].status \in {"expired", "suspended"}
    /\ LET old == GetActiveUserSubscription(subs[i].user).id
       IN SetAdmin(a, IF old = NoSub THEN "activate" ELSE "expire", subs[i].user, i, old, 0)
    /\ UNCHANGED <<counterVars, diskVars, clock, adding, flushVars, periodVars,
                   seedVars, stopping, faults, crashes, lost, lostClean, moved>>

\* expireActiveSubscriptions writes the row it listed, whatever it is by now.
ExpireListed(a) ==
    /\ adm[a].pc = "expire"
    /\ subs' = [subs EXCEPT ![adm[a].old].status = "expired"]
    /\ SetAdmin(a, IF adm[a].sub = NoSub THEN "insert" ELSE "activate",
                adm[a].user, adm[a].sub, NoSub, adm[a].at)
    /\ UNCHANGED <<counterVars, hourly, clock, adding, flushVars, periodVars,
                   seedVars, lifeVars, moved>>

\* The unique index refuses the row while another of the user's is active.
AssignInsert(a) ==
    /\ adm[a].pc = "insert"
    /\ LET u == adm[a].user IN
          \/ /\ ActiveRows(u) = {}
             /\ \E i \in FreeIds : subs' = [subs EXCEPT ![i] = NewRow(u, adm[a].at)]
             /\ SetAdmin(a, "users", u, NoSub, NoSub, 0)
          \/ /\ ActiveRows(u) # {} \/ FreeIds = {}
             /\ UNCHANGED subs
             /\ EndRequest(a)
    /\ UNCHANGED <<counterVars, hourly, clock, adding, flushVars, periodVars,
                   seedVars, lifeVars, moved>>

\* UpdateTenantSubscription of an active row reads it, and writes any terms.
PatchRead(a, i) ==
    /\ Request(a)
    /\ subs[i].status = "active"
    /\ SetAdmin(a, "patch", subs[i].user, i, NoSub, 0)
    /\ UNCHANGED <<counterVars, diskVars, clock, adding, flushVars, periodVars,
                   seedVars, stopping, faults, crashes, lost, lostClean, moved>>

\* The terms are written over the row as it is by now; the index may refuse to
\* have it active.  The aggregate is left alone.
TermsWrite(a) ==
    /\ adm[a].pc \in {"activate", "patch"}
    /\ LET i == adm[a].sub IN
          \E st \in Statuses \ {"none"}, life \in Lives :
             /\ adm[a].pc = "activate" => st = "active"
             /\ subs' = IF st # "active" \/ ActiveRows(subs[i].user) \subseteq {i}
                        THEN [subs EXCEPT ![i] = Terms(@, st, life)] ELSE subs
    /\ EndRequest(a)
    /\ UNCHANGED <<counterVars, hourly, clock, adding, flushVars, periodVars,
                   seedVars, lifeVars, moved>>

\* RevokeUserSubscription.
RevokeUserSubscription(a, i) ==
    /\ Request(a)
    /\ subs[i].status # "none"
    /\ subs' = [subs EXCEPT ![i].status = "suspended"]
    /\ UNCHANGED <<counterVars, hourly, clock, adding, flushVars, periodVars,
                   seedVars, adm, stopping, faults, crashes, lost, lostClean, moved>>

\* ExpireStaleSubscriptions, from the sweep: every active row past its expiry.
ExpireStaleSubscriptions ==
    /\ subs' = [i \in SubIds |->
                  IF subs[i].status = "active" /\ subs[i].life = "over"
                  THEN [subs[i] EXCEPT !.status = "expired"] ELSE subs[i]]
    /\ UNCHANGED <<counterVars, hourly, clock, adding, flushVars, periodVars,
                   seedVars, adm, lifeVars, moved>>

\* A call of a request fails, and the calls after it are not made.
RequestFails(a) ==
    /\ adm[a].pc \in {"expire", "insert", "activate", "patch", "renew"}
    /\ Fault
    /\ EndRequest(a)
    /\ UNCHANGED <<counterVars, diskVars, clock, adding, flushVars, periodVars,
                   seedVars, stopping, crashes, requests, lost, lostClean, moved>>

AdminResetUsers(a) ==
    /\ adm[a].pc = "users"
    /\ resetAggregate(adm[a].user)
    /\ SetAdmin(a, "mark", adm[a].user, NoSub, NoSub, 0)
    /\ UNCHANGED <<buckets, keyBytes, known, persisted, diskVars, clock, adding,
                   flushVars, periodVars, seedVars, lifeVars, moved>>

AdminResetMark(a) ==
    /\ adm[a].pc = "mark"
    /\ resetMark(adm[a].user)
    /\ EndRequest(a)
    /\ UNCHANGED <<buckets, keyBytes, users, known, diskVars, clock, adding,
                   flushVars, periodVars, seedVars, lifeVars, moved>>

-----------------------------------------------------------------------------
\* reseedUsageUntilApplied, which runs only after a failed startup seed.  A
\* listing that fails is tried again on the next tick.
ReseedList ==
    /\ spc = "wait"
    /\ \/ slist' = Listed /\ spc' = "filter" /\ UNCHANGED faults
       \/ Fault /\ UNCHANGED <<slist, spc>>
    /\ UNCHANGED <<starts, counterVars, diskVars, clock, adding, flushVars, periodVars,
                   scur, restore, adm, stopping, crashes, requests, lost, lostClean, moved>>

\* A slip: a row that equals its water mark is still pending.
ReseedFilterInclusive ==
    /\ spc = "filter"
    /\ slist' = {r \in slist : r.used >= persisted[r.user]}
    /\ spc' = IF slist' = {} THEN "off" ELSE "seed"
    /\ UNCHANGED <<starts, counterVars, diskVars, clock, adding, flushVars, periodVars,
                   scur, restore, adm, lifeVars, moved>>

\* pendingUsageSeed: nothing above its water mark ends the loop.
ReseedFilter ==
    /\ spc = "filter"
    /\ slist' = {r \in slist : r.used > persisted[r.user]}
    /\ spc' = IF slist' = {} THEN "off" ELSE "seed"
    /\ UNCHANGED <<starts, counterVars, diskVars, clock, adding, flushVars, periodVars,
                   scur, restore, adm, lifeVars, moved>>

\* SeedFromSubscriptions, one listed row: read the mark, add what is missing,
\* move the mark.
SeedLoad(r) ==
    /\ spc = "seed"
    /\ r \in slist
    /\ slist' = slist \ {r}
    /\ scur' = r
    /\ restore' = r.used - persisted[r.user]
    /\ spc' = "add"
    /\ UNCHANGED <<starts, counterVars, diskVars, clock, adding, flushVars, periodVars,
                   adm, lifeVars, moved>>

SeedAdd ==
    /\ spc = "add"
    /\ IF restore > 0 THEN addToUser(scur.user, restore) ELSE UNCHANGED <<users, known>>
    /\ spc' = "store"
    /\ UNCHANGED <<starts, buckets, keyBytes, persisted, diskVars, clock, adding, flushVars,
                   periodVars, slist, scur, restore, adm, lifeVars, moved>>

SeedStore ==
    /\ spc = "store"
    /\ persisted' = [persisted EXCEPT ![scur.user] = scur.used]
    /\ spc' = IF slist = {} THEN "wait" ELSE "seed"
    /\ scur' = NoSeed /\ restore' = 0
    /\ UNCHANGED <<starts, buckets, keyBytes, users, known, diskVars, clock, adding,
                   flushVars, periodVars, slist, adm, lifeVars, moved>>

-----------------------------------------------------------------------------
\* The process ends and starts again: memory is gone, the counters are new,
\* and seedUsage runs before anything else does.  When every read of the
\* subscriptions fails the process serves from zero and the re-seed loop runs.

\* A slip: the restart starts every aggregate at zero.
SeedNothing(u) == 0
SeedFromDisk(u) ==
    LET w == GetActiveUserSubscription(u)
    IN IF w.id \in Seedable THEN subs[w.id].used ELSE 0
Restart(ok) ==
    /\ lost' = [b \in Buckets |-> lost[b] + buckets[b] + drained[b]]
    /\ buckets' = [b \in Buckets |-> 0]
    /\ keyBytes' = [k \in Keys |-> 0]
    /\ users' = [u \in Users |-> IF ok THEN SeedFromDisk(u) ELSE 0]
    /\ persisted' = users'
    /\ known' = {u \in Users : users'[u] > 0}
    /\ spc' = IF ok THEN "off" ELSE "wait"
    /\ starts' = IF ok THEN starts ELSE "unseeded"
    /\ slist' = {} /\ scur' = NoSeed /\ restore' = 0
    /\ adding' = [u \in Users |-> 0]
    /\ fpc' = "idle" /\ fkeys' = {} /\ fusers' = {} /\ fuser' = NoUser
    /\ drained' = [b \in Buckets |-> 0]
    /\ perUser' = [u \in Users |-> 0]
    /\ window' = [u \in Users |-> NoWindow]
    /\ batchRow' = [u \in Users |-> NoWindow]
    /\ ppc' = "idle" /\ plist' = {} /\ pcur' = NoRollover
    /\ adm' = [a \in Admins |-> IdleAdmin]
    /\ stopping' = FALSE
    /\ crashes' = crashes + 1
    /\ UNCHANGED <<diskVars, clock, faults, requests, moved>>

Crash ==
    /\ crashes < MaxCrashes
    /\ \E ok \in BOOLEAN : Restart(ok)
    /\ UNCHANGED lostClean

\* shutdown() closes the listeners, cancels the accounting context and goes
\* on: the flusher's last pass and the end of the process are not ordered.
Shutdown ==
    /\ ~stopping
    /\ crashes < MaxCrashes
    /\ stopping' = TRUE
    /\ UNCHANGED <<counterVars, diskVars, clock, adding, flushVars, periodVars,
                   seedVars, adm, faults, crashes, requests, lost, lostClean, moved>>

Exit ==
    /\ stopping
    /\ crashes < MaxCrashes
    /\ \E ok \in BOOLEAN : Restart(ok)
    /\ lostClean' = [b \in Buckets |-> lostClean[b] + buckets[b] + drained[b]]

-----------------------------------------------------------------------------
DataPlane == (\E b \in Buckets : AddBucket(b)) \/ (\E u \in Users : AddAggregate(u))

Flusher ==
    \/ FlushBegin
    \/ \E b \in Buckets : FlushDrain(b) \/ FlushRequeue(b)
    \/ FlushWrite \/ FlushWriteFails
    \/ \E u \in Users : FlushLookup(u) \/ FlushRecheck(u)
    \/ FlushAdd \/ FlushMark \/ FlushEnd

PeriodWorker ==
    \/ PeriodList
    \/ \E r \in plist : PeriodWrite(r)
    \/ PeriodResetUsers \/ PeriodResetMark \/ PeriodEnd

ControlPlane == \E a \in Admins :
    \/ \E u \in Users : Purchase(a, u) \/ AssignList(a, u)
    \/ \E i \in SubIds : \/ RenewRead(a, i) \/ ReactivateList(a, i)
                         \/ PatchRead(a, i) \/ RevokeUserSubscription(a, i)
    \/ RenewWrite(a) \/ ExpireListed(a) \/ AssignInsert(a) \/ TermsWrite(a)
    \/ RequestFails(a) \/ AdminResetUsers(a) \/ AdminResetMark(a)

Expiry == (\E i \in SubIds : Lapse(i)) \/ ExpireStaleSubscriptions

Reseed ==
    \/ ReseedList \/ ReseedFilter
    \/ \E r \in slist : SeedLoad(r)
    \/ SeedAdd \/ SeedStore

Next ==
    \/ Tick \/ Expiry \/ DataPlane \/ Flusher \/ PeriodWorker \/ ControlPlane \/ Reseed
    \/ Crash \/ Shutdown \/ Exit

Spec == Init /\ [][Next]_vars

\* Each loop runs on a ticker until its context is cancelled, so a step it can
\* take is taken until shutdown() begins, and shutdown() goes on to the end of
\* the process whether or not a loop takes another; an Add that has reached its
\* bucket finishes.  Nothing obliges the users, the operators or the clock to
\* act, or a database call to fail.
Fairness ==
    /\ WF_vars(\E u \in Users : AddAggregate(u))
    /\ WF_vars(~stopping /\ Flusher)
    /\ WF_vars(~stopping /\ PeriodWorker)
    /\ WF_vars(~stopping /\ Reseed)
    /\ WF_vars(Exit)

FairSpec == Spec /\ Fairness

-----------------------------------------------------------------------------
\* Every byte the data plane counted is in exactly one place: its bucket, the
\* flusher's batch, the hourly table, or lost with a process that died; a
\* failed write that requeues neither drops nor repeats a byte (FlushOnce).
BytesConserved ==
    \A b \in Buckets : moved[b] = buckets[b] + drained[b] + hourly[b] + lost[b]

\* What the rows of a user charge.
ChargedTo(u) == [i \in SubIds |-> IF subs[i].user = u THEN subs[i].used ELSE 0]

\* No period total holds a byte that usage_hourly does not: the charge is the
\* second write of the same bytes, never a second accounting (flush.go:181).
ChargesAreRecorded ==
    \A u \in Users : SumOver(ChargedTo(u), SubIds) <= SumOver(hourly, OfUser(u))

\* As long as every start could read the subscriptions, the quota never reads
\* more than the user's keys have moved: a requeue, a rollover, a renewal or a
\* restart adds nothing to the aggregate twice (counters.go:156).  The condition
\* is needed: after a start that could not, the re-seed loop reads totals and
\* marks that the flusher is moving, and counts a byte again although "the
\* second changes nothing" (flush.go:356).
NeverOverbilled ==
    starts = "seeded" =>
        \A u \in Users : users[u] + adding[u] <= SumOver(moved, OfUser(u))

\* Until the first rollover or control-plane request, and as long as every start
\* could read the subscriptions, the quota never reads less than the disk has
\* charged to a row that has not expired: a restart does not hand the allowance
\* out again (SeedFromSubscriptions).  A start that could not read them serves
\* from zero until the re-seed loop catches up.
AggregateCoversDisk ==
    starts = "seeded" /\ clock <= PeriodLength /\ requests = 0 =>
        \A u \in Users : \A i \in ActiveRows(u) :
            subs[i].life = "runs" => users[u] + adding[u] >= subs[i].used

\* A batch is charged to the window that was open when it was drained, or to
\* none (flush.go:187).  The code does not guarantee it: FlushLookup reads the
\* window after the drain.
ChargeStaysInDrainedPeriod ==
    [][\A i \in SubIds : subs'[i].used > subs[i].used =>
           batchRow[fuser] = [id |-> i, start |-> subs[i].start]]_vars

\* The period worker clears an aggregate only for a period it moved itself
\* (repo_user.go:668).  The code does not guarantee it: PeriodWrite does not
\* learn whether its guard held.
WorkerClearsOnlyItsOwnRollover ==
    [][ppc = "users" /\ ppc' = "mark" => pcur.write = "won"]_vars

\* A clean shutdown loses nothing (flush.go:310).
CleanShutdownLosesNothing == \A b \in Buckets : lostClean[b] = 0

\* Counted bytes do not stay in memory: the flusher records them, or the
\* process dies with them (Flusher.Start).
CountedIsEventuallyRecorded ==
    \A b \in Buckets : buckets[b] + drained[b] > 0 ~> buckets[b] + drained[b] = 0

\* A subscription whose period has elapsed gets its new period
\* (PeriodReset.Start).
DuePeriodsRollOver == \A i \in SubIds : Due(i) ~> ~Due(i)

\* The re-seed loop ends: seeding moves the mark to the total, and nothing
\* keeps a total above its mark for good (app_runtime.go:1140).
ReseedEnds == spc # "off" ~> spc = "off"
=============================================================================

------------------------------- MODULE Leases -------------------------------
(***************************************************************************)
(* Sticky leases of one platform (internal/routing), with the dirty set    *)
(* and the flush that keep them in cache.db (internal/state).              *)
(*                                                                         *)
(* xsync.Map.Compute runs its function under a lock of the owner's key and *)
(* stores the result when the function returns.  A request that creates a  *)
(* lease therefore picks a node, moves the load counters and reports its   *)
(* event before the lease is visible; those are steps of their own, since  *)
(* the flush reads the table without the lock and nodes change meanwhile.  *)
(* Operations of the control plane and of the rotator report their event   *)
(* after the lock is gone.                                                 *)
(*                                                                         *)
(* LastAccessedNs, which is only reported, and the latency scores, which   *)
(* only rank candidates, are left out: any candidate may win.              *)
(***************************************************************************)
EXTENDS Integers, Sequences, FiniteSets

CONSTANTS
    Owners,         \* leaseOwner: [user, account]
    NoUser,         \* the empty UserID
    Nodes, IPs,
    None,           \* no owner, lease, node or valid address
    Requests,       \* requests in flight
    StickyTTL,      \* plat.StickyTTLNs
    Interval,       \* plat.ScheduledRotationIntervalNs
    AvoidPreviousIP,    \* plat.RotationAvoidPreviousIP
    MaxTombstones,  \* rotationTombstoneMaxEntries
    OnLeaseEvent,   \* whether the router reports its events to the state engine
    BulkDelete,     \* whether the operator clears whole platforms
    MaxDelay,       \* bound: instants between a call's clock read and its lock
    MaxClock,       \* bound: instants
    MaxChurn,       \* bound: changes of the nodes
    MaxFaults,      \* bound: failed flushes
    MaxRestarts     \* bound: restarts

SingleTenant(o) == [user |-> NoUser, account |-> o.account]

ASSUME LeasesAssumption ==
    /\ \A o \in Owners : SingleTenant(o) \in Owners
    /\ None \notin IPs \cup Nodes \cup Owners
    /\ {StickyTTL, Interval, MaxTombstones} \subseteq Nat \ {0}
    /\ {MaxDelay, MaxClock, MaxChurn, MaxFaults, MaxRestarts} \subseteq Nat
    /\ AvoidPreviousIP \in BOOLEAN /\ {OnLeaseEvent, BulkDelete} \subseteq BOOLEAN

VARIABLES
    leases,     \* LeaseTable.leases
    load,       \* IPLoadStats.counts
    tombs,      \* rotationTombstones, most recently used first
    egress, view, pool,     \* the node entries and the platform's routable view
    clock,
    req,        \* the requests
    op,         \* the control-plane call
    rot,        \* the scheduled rotator
    dirty,      \* dirtyLeases
    drained,    \* the snapshot the running flush drained
    batch,      \* the rows read for it, None before classifyDirtySet
    disk,       \* the leases table of cache.db
    churn, faults, restarts,
    rotated     \* what an observer knows: the last rotation

nodeVars == <<egress, view, pool, churn>>
flushVars == <<drained, batch, disk, faults>>
vars == <<leases, load, tombs, nodeVars, clock, req, op, rot, dirty,
          flushVars, restarts, rotated>>

-----------------------------------------------------------------------------
Lease == [node : Nodes, ip : IPs, created : Int, expiry : Int]
Entry == Lease \cup {None}
Marks == {"clean", "upsert", "delete"}
Tombstone == [owner : Owners, ip : IPs, until : Int]

IdleRequest == [pc |-> "idle", owner |-> None, now |-> 0, node |-> None,
                lease |-> None]
IdleOp == [pc |-> "idle", owner |-> None, lease |-> None, mark |-> "clean",
           left |-> {}]
IdleRotator == [pc |-> "idle", owner |-> None, now |-> 0, left |-> {}]
Clean == [o \in Owners |-> "clean"]
NoRows == [o \in Owners |-> None]

\* One type invariant for the routing state, its actors and the flush.
TypeOK ==
    /\ leases \in [Owners -> Entry] /\ disk \in [Owners -> Entry]
    /\ load \in [IPs -> Int]
    /\ tombs \in Seq(Tombstone) /\ Len(tombs) <= MaxTombstones
    /\ egress \in [Nodes -> IPs] /\ view \subseteq Nodes /\ pool \subseteq Nodes
    /\ {clock, churn, faults, restarts} \subseteq Nat
    /\ req \in [Requests -> [pc : {"idle", "begun", "picked", "storing"}, owner : Owners \cup {None},
                             now : Nat, node : Nodes \cup {None}, lease : Entry]]
    /\ op \in [pc : {"idle", "upsert", "event", "all"}, owner : Owners \cup {None},
               lease : Entry, mark : Marks, left : SUBSET Owners]
    /\ rot \in [pc : {"idle", "sweep", "event"}, owner : Owners \cup {None}, now : Nat,
                left : SUBSET Owners]
    /\ dirty \in [Owners -> Marks] /\ drained \in [Owners -> Marks]
    /\ batch \in [Owners -> Entry] \cup {None}
    /\ rotated \in [owner : Owners, ip : IPs, at : Nat] \cup {None}

-----------------------------------------------------------------------------
\* IPLoadStats.  A table entry that gives way to another, either may be none.
OnIP(l, i) == l # None /\ l.ip = i
\* A slip for the mutation runs: the replaced lease stays counted.
ShiftedUp(old, new) ==
    [i \in IPs |-> load[i] + (IF OnIP(new, i) THEN 1 ELSE 0)
                           - (IF OnIP(old, i) /\ new = None THEN 1 ELSE 0)]
Shifted(old, new) ==
    [i \in IPs |-> load[i] + (IF OnIP(new, i) THEN 1 ELSE 0)
                           - (IF OnIP(old, i) THEN 1 ELSE 0)]

\* The counters a restored table starts with.
Counted(table) == [i \in IPs |-> Cardinality({o \in Owners : OnIP(table[o], i)})]

IsExpired(l, now) == l.expiry < now

\* rotationTombstoneCache.
Without(o) == SelectSeq(tombs, LAMBDA t : t.owner # o)
TombsOf(o) == {tombs[j] : j \in {k \in DOMAIN tombs : tombs[k].owner = o}}
\* A slip for the mutation runs: nothing is evicted.
BoundedNever(s) == s
Bounded(s) == SubSeq(s, 1, IF Len(s) < MaxTombstones THEN Len(s) ELSE MaxTombstones)
rotationTombstoneTTL == IF StickyTTL > Interval THEN StickyTTL ELSE Interval
Stored(o, ip, now) ==
    Bounded(<<[owner |-> o, ip |-> ip, until |-> now + rotationTombstoneTTL]>> \o Without(o))

\* The address a tombstone tells the owner's next lease to avoid.
rotationAvoidIP(o, now) ==
    LET live == {t \in TombsOf(o) : t.until > now} IN
    IF AvoidPreviousIP /\ live # {} THEN (CHOOSE t \in live : TRUE).ip ELSE None

\* What the lookup does to the cache: drop it when expired, else use it.
LookedUp(o, now) ==
    IF ~AvoidPreviousIP THEN tombs
    ELSE SelectSeq(tombs, LAMBDA t : t.owner = o /\ t.until > now) \o Without(o)

\* randomRouteAvoiding: the nodes a pick may return.  A node that has left the
\* pool and not yet the view has no address to compare.
Others(avoid) == {n \in view : ~(n \in pool /\ egress[n] = avoid)}
Candidates(avoid) == IF Others(avoid) # {} THEN Others(avoid) ELSE view

\* A routable node shows this address.
Served(ip) == \E n \in view \cap pool : egress[n] = ip

Locked(o) == \E r \in Requests : req[r].owner = o /\ req[r].pc \in {"picked", "storing"}
\* emitLeaseEvent, and the callback that marks the key in the dirty set.
Mark(o, mark) == dirty' = IF OnLeaseEvent THEN [dirty EXCEPT ![o] = mark] ELSE dirty
PutRequest(r, pc, n, l) ==
    req' = [req EXCEPT ![r] = [pc |-> pc, owner |-> @.owner, now |-> @.now,
                               node |-> n, lease |-> l]]
EndRequest(r) == req' = [req EXCEPT ![r] = IdleRequest]

Init ==
    /\ leases = NoRows /\ disk = NoRows
    /\ load = [i \in IPs |-> 0]
    /\ tombs = <<>>
    /\ egress \in [Nodes -> IPs] /\ view = Nodes /\ pool = Nodes
    /\ clock = 0 /\ churn = 0 /\ faults = 0 /\ restarts = 0
    /\ req = [r \in Requests |-> IdleRequest]
    /\ op = IdleOp /\ rot = IdleRotator
    /\ dirty = Clean /\ drained = Clean /\ batch = None
    /\ rotated = None

-----------------------------------------------------------------------------
\* RouteRequest: the platform state is found and the clock read before the lock.
RouteBegin(r, o) ==
    /\ req[r].pc = "idle"
    /\ req' = [req EXCEPT ![r] = [IdleRequest EXCEPT !.pc = "begun", !.owner = o,
                                                     !.now = clock]]
    /\ UNCHANGED <<leases, load, tombs, nodeVars, clock, op, rot, dirty,
                   flushVars, restarts, rotated>>

\* decideStickyLease starts once the owner's lock is free.
Deciding(r) == req[r].pc = "begun" /\ ~Locked(req[r].owner)
Valid(r) == LET l == leases[req[r].owner] IN l # None /\ ~IsExpired(l, req[r].now)
Hit(l) == l.node \in pool /\ l.node \in view /\ egress[l.node] = l.ip

\* A lease whose node still shows its address is touched; its expiry stays.
tryLeaseHit(r) ==
    LET o == req[r].owner IN
    /\ Deciding(r) /\ Valid(r) /\ Hit(leases[o])
    /\ Mark(o, "upsert")
    /\ EndRequest(r)
    /\ UNCHANGED <<leases, load, tombs, nodeVars, clock, op, rot, flushVars,
                   restarts, rotated>>

\* Otherwise it moves to another routable node with the same address; the event
\* is out before Compute stores the lease.
tryLeaseSameIPRotation(r, n) ==
    LET o == req[r].owner
        l == leases[o] IN
    /\ Deciding(r) /\ Valid(r) /\ ~Hit(l)
    /\ n \in view \cap pool /\ egress[n] = l.ip
    /\ Mark(o, "upsert")
    /\ PutRequest(r, "storing", n, [node |-> n, ip |-> l.ip, created |-> l.created,
                                    expiry |-> l.expiry])
    /\ UNCHANGED <<leases, load, tombs, nodeVars, clock, op, rot, flushVars, restarts,
                   rotated>>

\* A slip for the mutation runs: the address is given up with the node.
NeedsLeaseAtOnce(r) == Deciding(r) /\ (Valid(r) => ~Hit(leases[req[r].owner]))

\* No lease, an expired one, or one whose address nobody serves.
NeedsLease(r) ==
    /\ Deciding(r)
    /\ Valid(r) => ~Hit(leases[req[r].owner]) /\ ~Served(leases[req[r].owner].ip)

\* createLease up to the pick, under the lock.
createLease(r, n) ==
    LET o == req[r].owner IN
    /\ NeedsLease(r)
    /\ n \in Candidates(rotationAvoidIP(o, req[r].now)) \cap pool
    /\ tombs' = LookedUp(o, req[r].now)
    /\ PutRequest(r, "picked", n, None)
    /\ UNCHANGED <<leases, load, nodeVars, clock, op, rot, dirty, flushVars,
                   restarts, rotated>>

\* The view is empty, or both picks hit nodes that have left the pool: the
\* previous lease, if any, is reported and deleted, and nothing replaces it.
abortLeaseCreate(r) ==
    LET o == req[r].owner IN
    /\ NeedsLease(r)
    /\ view = {} \/ Candidates(rotationAvoidIP(o, req[r].now)) \ pool # {}
    /\ tombs' = LookedUp(o, req[r].now)
    /\ load' = Shifted(leases[o], None)
    /\ IF leases[o] = None THEN EndRequest(r) /\ UNCHANGED dirty
       ELSE PutRequest(r, "storing", None, None) /\ Mark(o, "delete")
    /\ UNCHANGED <<leases, nodeVars, clock, op, rot, flushVars, restarts, rotated>>

\* The lease takes the address its node shows by now; counters and event.
createOrAbortStickyLease(r) ==
    LET o == req[r].owner
        l == [node |-> req[r].node, ip |-> egress[req[r].node],
              created |-> req[r].now, expiry |-> req[r].now + StickyTTL] IN
    /\ req[r].pc = "picked"
    /\ load' = Shifted(leases[o], l)
    /\ Mark(o, "upsert")
    /\ PutRequest(r, "storing", req[r].node, l)
    /\ UNCHANGED <<leases, tombs, nodeVars, clock, op, rot, flushVars, restarts,
                   rotated>>

\* Compute returns: the lease is visible, or gone.
routeSticky(r) ==
    /\ req[r].pc = "storing"
    /\ leases' = [leases EXCEPT ![req[r].owner] = req[r].lease]
    /\ EndRequest(r)
    /\ UNCHANGED <<load, tombs, nodeVars, clock, op, rot, dirty, flushVars,
                   restarts, rotated>>

-----------------------------------------------------------------------------
\* LeaseTable.DeleteLease.
Remove(o) ==
    /\ load' = Shifted(leases[o], None)
    /\ leases' = [leases EXCEPT ![o] = None]

Rotation(o, now) == [owner |-> o, ip |-> leases[o].ip, at |-> now]

SetOp(pc, o, l, mark, left) ==
    op' = [pc |-> pc, owner |-> o, lease |-> l, mark |-> mark, left |-> left]

\* Router.DeleteLease, by an operator or by the tenant.
DeleteLease(o) ==
    /\ op.pc = "idle" /\ leases[o] # None /\ ~Locked(o)
    /\ Remove(o)
    /\ SetOp("event", o, None, "delete", {})
    /\ UNCHANGED <<tombs, nodeVars, clock, req, rot, dirty, flushVars, restarts,
                   rotated>>

\* A slip for the mutation runs: a rotation that leaves no tombstone.
RotateUnrecorded(o) ==
    /\ op.pc = "idle" /\ leases[o] # None /\ ~Locked(o)
    /\ Remove(o)
    /\ rotated' = Rotation(o, clock)
    /\ SetOp("event", o, None, "delete", {})
    /\ UNCHANGED <<tombs, nodeVars, clock, req, rot, dirty, flushVars, restarts>>

\* The tombstone is written under the lock that removes the lease, with a time
\* that was read before it.
RotateLease(o) ==
    /\ op.pc = "idle" /\ leases[o] # None /\ ~Locked(o)
    /\ Remove(o)
    /\ \E now \in {t \in 0 .. clock : clock - t <= MaxDelay} :
          /\ tombs' = Stored(o, leases[o].ip, now)
          /\ rotated' = Rotation(o, now)
    /\ SetOp("event", o, None, "delete", {})
    /\ UNCHANGED <<nodeVars, clock, req, rot, dirty, flushVars, restarts>>

\* InheritLeaseByPlatformName copies what it read of the parent's lease.
InheritLease(p, o) ==
    /\ op.pc = "idle"
    /\ p # o /\ p.user = NoUser /\ o.user = NoUser
    /\ leases[p] # None /\ ~IsExpired(leases[p], clock)
    /\ SetOp("upsert", o, leases[p], "clean", {})
    /\ UNCHANGED <<leases, load, tombs, nodeVars, clock, req, rot, dirty,
                   flushVars, restarts, rotated>>
UpsertLease ==
    LET o == op.owner IN
    /\ op.pc = "upsert" /\ ~Locked(o)
    /\ load' = Shifted(leases[o], op.lease)
    /\ leases' = [leases EXCEPT ![o] = op.lease]
    /\ SetOp("event", o, None, "upsert", {})
    /\ rotated' = None
    /\ UNCHANGED <<tombs, nodeVars, clock, req, rot, dirty, flushVars, restarts>>

\* DeleteAllLeases: the range visits every owner; its events name no user.
DeleteAllLeases ==
    /\ BulkDelete /\ op.pc = "idle"
    /\ SetOp("all", None, None, "clean", Owners)
    /\ UNCHANGED <<leases, load, tombs, nodeVars, clock, req, rot, dirty,
                   flushVars, restarts, rotated>>
DeleteNext(o) ==
    /\ op.pc = "all" /\ o \in op.left /\ ~Locked(o)
    /\ IF leases[o] = None
       THEN /\ SetOp("all", None, None, "clean", op.left \ {o})
            /\ UNCHANGED <<leases, load>>
       ELSE /\ SetOp("event", SingleTenant(o), None, "delete", op.left \ {o})
            /\ Remove(o)
    /\ UNCHANGED <<tombs, nodeVars, clock, req, rot, dirty, flushVars, restarts,
                   rotated>>
DeleteAllEnd ==
    /\ op.pc = "all" /\ op.left = {}
    /\ op' = IdleOp
    /\ UNCHANGED <<leases, load, tombs, nodeVars, clock, req, rot, dirty,
                   flushVars, restarts, rotated>>

\* emitLeaseEvent, after the lock: OnLeaseEvent marks the key.
OperatorEvent ==
    /\ op.pc = "event"
    /\ Mark(op.owner, op.mark)
    /\ op' = IF op.left = {} THEN IdleOp
             ELSE [pc |-> "all", owner |-> None, lease |-> None, mark |-> "clean",
                   left |-> op.left]
    /\ UNCHANGED <<leases, load, tombs, nodeVars, clock, req, rot, flushVars,
                   restarts, rotated>>

-----------------------------------------------------------------------------
\* ScheduledRotator.
OldEnough(o, now) == leases[o] # None /\ now - leases[o].created >= Interval
SetRotator(pc, o, now, left) ==
    rot' = [pc |-> pc, owner |-> o, now |-> now, left |-> left]

RotatorSweep ==
    /\ rot.pc = "idle" /\ \E o \in Owners : OldEnough(o, clock)
    /\ SetRotator("sweep", None, clock, {o \in Owners : OldEnough(o, clock)})
    /\ UNCHANGED <<leases, load, tombs, nodeVars, clock, req, op, dirty,
                   flushVars, restarts, rotated>>

\* A slip for the mutation runs: the age is not checked again.
RotateWhatIsThere(o) == leases[o] # None

\* DeleteLeaseIfOlderThan checks the lease that is stored by now.
IfOlderThan(o) == leases[o] # None /\ leases[o].created <= rot.now - Interval

rotatePlatformLeases(o) ==
    /\ rot.pc = "sweep" /\ o \in rot.left /\ ~Locked(o)
    /\ IF IfOlderThan(o)
       THEN /\ Remove(o)
            /\ tombs' = Stored(o, leases[o].ip, rot.now)
            /\ SetRotator("event", o, rot.now, rot.left \ {o})
            /\ rotated' = Rotation(o, rot.now)
       ELSE /\ SetRotator("sweep", None, rot.now, rot.left \ {o})
            /\ UNCHANGED <<leases, load, tombs, rotated>>
    /\ UNCHANGED <<nodeVars, clock, req, op, dirty, flushVars, restarts>>
RotatorEvent ==
    /\ rot.pc = "event"
    /\ Mark(rot.owner, "delete")
    /\ SetRotator("sweep", None, rot.now, rot.left)
    /\ UNCHANGED <<leases, load, tombs, nodeVars, clock, req, op, flushVars,
                   restarts, rotated>>
RotatorEnd ==
    /\ rot.pc = "sweep" /\ rot.left = {}
    /\ rot' = IdleRotator
    /\ UNCHANGED <<leases, load, tombs, nodeVars, clock, req, op, dirty,
                   flushVars, restarts, rotated>>

\* A slip for the mutation runs: the sweep looks one lifetime too far back.
sweepPlatformStateLate(o) ==
    /\ leases[o] # None /\ IsExpired(leases[o], clock - StickyTTL) /\ ~Locked(o)
    /\ Remove(o)
    /\ Mark(o, "delete")
    /\ UNCHANGED <<tombs, nodeVars, clock, req, op, rot, flushVars, restarts,
                   rotated>>

\* LeaseCleaner: the expiry is checked again under the lock.  A sweep whose
\* clock is older expires less than one that has just begun.
sweepPlatformState(o) ==
    /\ leases[o] # None /\ IsExpired(leases[o], clock) /\ ~Locked(o)
    /\ Remove(o)
    /\ Mark(o, "delete")
    /\ UNCHANGED <<tombs, nodeVars, clock, req, op, rot, flushVars, restarts,
                   rotated>>

-----------------------------------------------------------------------------
\* FlushDirtySets, for the lease set.
Flushing == drained # Clean

\* A slip for the mutation runs: only upserts make a flush due.
FlushDrainUpserts ==
    /\ ~Flushing /\ \E o \in Owners : dirty[o] = "upsert"
    /\ drained' = dirty
    /\ dirty' = Clean
    /\ UNCHANGED <<leases, load, tombs, nodeVars, clock, req, op, rot, batch, disk,
                   faults, restarts, rotated>>

\* Drain: the marks are taken and the set is empty again.
FlushDrain ==
    /\ ~Flushing /\ dirty # Clean
    /\ drained' = dirty
    /\ dirty' = Clean
    /\ UNCHANGED <<leases, load, tombs, nodeVars, clock, req, op, rot, batch, disk,
                   faults, restarts, rotated>>

\* classifyDirtySet: what memory holds by now, or a delete.  Owners are read
\* one after another; what one of them shows does not depend on the others.
classifyDirtySet ==
    /\ Flushing /\ batch = None
    /\ batch' = [o \in Owners |-> IF drained[o] = "upsert" THEN leases[o] ELSE None]
    /\ UNCHANGED <<leases, load, tombs, nodeVars, clock, req, op, rot, dirty, drained,
                   disk, faults, restarts, rotated>>

FlushTx ==
    /\ Flushing /\ batch # None
    /\ disk' = [o \in Owners |-> IF drained[o] = "clean" THEN disk[o] ELSE batch[o]]
    /\ drained' = Clean /\ batch' = None
    /\ UNCHANGED <<leases, load, tombs, nodeVars, clock, req, op, rot, dirty,
                   faults, restarts, rotated>>

\* A slip for the mutation runs: the marks of a failed flush are dropped.
MergeNothing == dirty
\* Merge: the drained marks come back unless newer ones exist.
Merge == [o \in Owners |-> IF dirty[o] = "clean" THEN drained[o] ELSE dirty[o]]
FlushFails ==
    /\ Flushing /\ batch # None /\ faults < MaxFaults
    /\ faults' = faults + 1
    /\ dirty' = Merge
    /\ drained' = Clean /\ batch' = None
    /\ UNCHANGED <<leases, load, tombs, nodeVars, clock, req, op, rot, disk,
                   restarts, rotated>>

\* The process ends, and RestoreLeases fills the table of the next one.
RestoreLeases ==
    /\ restarts < MaxRestarts
    /\ restarts' = restarts + 1
    /\ leases' = disk
    /\ load' = Counted(disk)
    /\ tombs' = <<>>
    /\ req' = [r \in Requests |-> IdleRequest]
    /\ op' = IdleOp /\ rot' = IdleRotator
    /\ dirty' = Clean /\ drained' = Clean /\ batch' = None
    /\ rotated' = None
    /\ UNCHANGED <<nodeVars, clock, disk, faults>>

-----------------------------------------------------------------------------
\* The nodes: a probe finds another address, health moves a node in or out of
\* the view, a subscription drops an entry, which leaves the view afterwards.
Churn ==
    /\ churn < MaxChurn
    /\ churn' = churn + 1
    /\ \E n \in Nodes :
        \/ \E i \in IPs \ {egress[n]} : egress' = [egress EXCEPT ![n] = i]
                                        /\ UNCHANGED <<view, pool>>
        \/ n \in view /\ view' = view \ {n} /\ UNCHANGED <<egress, pool>>
        \/ n \in pool \ view /\ view' = view \cup {n} /\ UNCHANGED <<egress, pool>>
        \/ n \in pool /\ pool' = pool \ {n} /\ UNCHANGED <<egress, view>>
    /\ UNCHANGED <<leases, load, tombs, clock, req, op, rot, dirty, flushVars,
                   restarts, rotated>>

Tick ==
    /\ clock < MaxClock
    /\ \A r \in Requests : req[r].pc = "begun" => clock - req[r].now < MaxDelay
    /\ clock' = clock + 1
    /\ UNCHANGED <<leases, load, tombs, nodeVars, req, op, rot, dirty,
                   flushVars, restarts, rotated>>

Route(r) ==
    \/ \E o \in Owners : RouteBegin(r, o)
    \/ tryLeaseHit(r)
    \/ \E n \in Nodes : tryLeaseSameIPRotation(r, n)
    \/ \E n \in Nodes : createLease(r, n)
    \/ abortLeaseCreate(r)
    \/ createOrAbortStickyLease(r)
    \/ routeSticky(r)
Operator ==
    \/ \E o \in Owners : DeleteLease(o) \/ RotateLease(o) \/ DeleteNext(o)
    \/ \E p, o \in Owners : InheritLease(p, o)
    \/ UpsertLease \/ DeleteAllLeases \/ DeleteAllEnd \/ OperatorEvent
Rotator ==
    \/ RotatorSweep \/ RotatorEvent \/ RotatorEnd
    \/ \E o \in Owners : rotatePlatformLeases(o)
Cleaner == \E o \in Owners : sweepPlatformState(o)
Flush == FlushDrain \/ classifyDirtySet \/ FlushTx \/ FlushFails
Next ==
    \/ \E r \in Requests : Route(r)
    \/ Operator \/ Rotator \/ Cleaner \/ Flush \/ RestoreLeases \/ Churn \/ Tick

Spec == Init /\ [][Next]_vars

\* Goroutines that have begun a critical section or owe an event go on, and
\* the cleaner and the flush worker are tickers that run until the process ends.
Fairness ==
    /\ \A r \in Requests : WF_vars(createOrAbortStickyLease(r)) /\ WF_vars(routeSticky(r))
    /\ WF_vars(OperatorEvent) /\ WF_vars(RotatorEvent)
    /\ \A o \in Owners : WF_vars(sweepPlatformState(o))
    /\ WF_vars(FlushDrain) /\ WF_vars(classifyDirtySet) /\ WF_vars(FlushTx)
FairSpec == Spec /\ Fairness

-----------------------------------------------------------------------------
\* The lease an owner has once the stores in flight have landed.
Landing(o) == {req[r].lease : r \in {s \in Requests : req[s].owner = o /\ req[s].pc = "storing"}}
Settled(o) == IF Landing(o) = {} THEN leases[o] ELSE CHOOSE l \in Landing(o) : TRUE

\* The per-address load the scores use counts exactly the leases on it: every
\* path that drops or replaces a lease gives back what its creation took,
\* whichever of request, cleaner, rotator or operator gets there first.
LoadMatchesLeases ==
    \A i \in IPs : load[i] = Cardinality({o \in Owners : OnIP(Settled(o), i)})

\* An account whose lease is valid keeps its address as long as one routable
\* node shows it (decideStickyLease).
StickyEgress ==
    [][\A r \in Requests : LET o == req[r].owner IN
         Deciding(r) /\ Valid(r) /\ Served(leases[o].ip) /\ req'[r] # req[r]
           /\ restarts' = restarts
         => LET l == IF req'[r].pc = "storing" THEN req'[r].lease ELSE leases'[o]
            IN req'[r].pc # "picked" /\ l # None /\ l.ip = leases[o].ip]_vars

\* While the last rotation's tombstone would still apply, its account is given
\* a node with another address whenever there is one, however requests and
\* rotations interleave (RotateLease, router.go:722).
RotatedIPAvoided ==
    [][\A r \in Requests :
         /\ req[r].pc = "begun" /\ req'[r].pc = "picked" /\ AvoidPreviousIP
         /\ rotated # None /\ rotated.owner = req[r].owner
         /\ req[r].now < rotated.at + rotationTombstoneTTL
         /\ Others(rotated.ip) # {}
         => egress[req'[r].node] # rotated.ip]_vars

\* The scheduled rotator does not rotate an account within an interval of its
\* previous rotation: the age it checks is that of the lease stored by then
\* (scheduled_rotator.go:159).
NotRotatedTwice ==
    [][rotated # None /\ rot.pc = "sweep" /\ rot'.pc = "event" /\ rot'.owner = rotated.owner
         => rot.now - rotated.at >= Interval - MaxDelay]_vars

\* A row outlives its lease only while a mark, a flush or an event that will
\* remove it is outstanding (FlushDirtySets).
Outstanding(o) ==
    \/ dirty[o] # "clean" \/ drained[o] # "clean" \/ Landing(o) # {}
    \/ op.pc = "event" /\ op.owner = o
    \/ rot.pc = "event" /\ rot.owner = o
NoGhostRows ==
    \A o \in Owners : disk[o] # None /\ leases[o] = None => Outstanding(o)

\* An expired lease goes, although no request comes for its owner.
ExpiredLeaseGoes ==
    \A o \in Owners : (leases[o] # None /\ IsExpired(leases[o], clock)) ~>
                      ~(leases[o] # None /\ IsExpired(leases[o], clock))

\* A removed lease leaves the disk, or its owner gets another one.
RemovedLeavesDisk ==
    \A o \in Owners : (disk[o] # None /\ leases[o] = None) ~>
                      (disk[o] = None \/ leases[o] # None)
=============================================================================

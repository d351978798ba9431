------------------------------ MODULE Billing -------------------------------
(***************************************************************************)
(* The account of one customer: balance, ledger and subscriptions          *)
(* (state/repo_balance.go, repo_purchase.go, repo_redeem_code.go, the      *)
(* subscription writes of repo_user.go, and the service methods that call  *)
(* them).  Every statement is keyed by user_id, so accounts do not meet.   *)
(*                                                                         *)
(* Four parties write: the customer's client, which may retry a request,   *)
(* the renewal sweep, the expiry sweep and an operator.  A repository      *)
(* method is one transaction under StateRepo.mu and so one step; a service *)
(* method that reads a row and writes it back is two, and what it read is  *)
(* kept in the meantime.  Time is counted in days of a plan's duration.    *)
(* One plan is sold; the snapshot of a subscription carries its price.     *)
(***************************************************************************)
EXTENDS Integers, FiniteSets, Sequences

CONSTANTS
    SubIds,        \* identifiers newID can hand out
    NoSub,
    Requests,      \* request_ids the customer's client mints
    Codes,         \* redeem codes
    Price,         \* PriceMicro of the plan and its snapshots
    Duration,      \* DurationDays
    Lead,          \* renewalLeadTimeNs, in days
    CodeAmount,    \* AmountMicro of a redeem code
    MaxUses,       \* max_uses, by code; 0 means unlimited
    Adjustments,   \* deltas of an operator's AdjustBalance
    Patches,       \* bodies of PATCH /admin/subscriptions/{id}
    Revocations,   \* bound: DELETE requests of the operator
    Assignments,   \* bound: assign and PATCH requests of the operator
    MaxLedger,     \* bound: movements
    MaxClock       \* bound: days

ASSUME BillingAssumption ==
    /\ NoSub \notin SubIds
    /\ {Price, Duration, Lead, CodeAmount} \subseteq Nat \ {0}
    /\ MaxUses \in [Codes -> Nat]
    /\ Adjustments \subseteq Int
    /\ Patches \subseteq [field : {"status"}, value : {"active", "expired", "suspended"}]
                         \cup [field : {"extend_days", "expires_at_ns"}, value : Nat]
    /\ {Revocations, Assignments, MaxLedger, MaxClock} \subseteq Nat

VARIABLES
    clock,
    balance,       \* user_balance
    ledger,        \* balance_ledger, oldest first
    rows,          \* user_subscriptions, by id
    uses,          \* redeem_codes.used_count
    codes,         \* redeem_codes: unborn, live or deleted
    client,        \* by request_id: the row SelfRenew has read
    sweep,         \* the row and time the renewal sweep has read
    op,            \* the operator's request
    revoked,       \* revocations so far
    assigned       \* assign and PATCH requests so far

dbVars == <<balance, ledger, rows, uses, codes>>
countVars == <<revoked, assigned>>
vars == <<clock, dbVars, client, sweep, op, countVars>>

-----------------------------------------------------------------------------
Statuses == {"none", "active", "expired", "suspended"}
Row == [status : Statuses, starts : Nat, expires : Nat, idx : Nat, auto : {"on", "off"}]
Terms(r, status, expires, idx) ==
    [status |-> status, starts |-> r.starts, expires |-> expires, idx |-> idx, auto |-> r.auto]
NoRow == [status |-> "none", starts |-> 0, expires |-> 0, idx |-> 0, auto |-> "off"]

\* A row as a service method has read it.
Nothing == [id |-> NoSub, row |-> NoRow, now |-> 0]
Read == [id : SubIds, row : Row, now : Nat] \cup {Nothing}
ReadRow(id) == [id |-> id, row |-> rows[id], now |-> clock]

Active == {id \in SubIds : rows[id].status = "active"}
OtherActive(id) == \E j \in Active : j # id     \* ux_user_subscriptions_active refuses
Unused == {id \in SubIds : rows[id].status = "none" /\ id # op.new.id}

Init ==
    /\ clock = 1
    /\ balance = 0 /\ ledger = <<>>
    /\ rows = [id \in SubIds |-> NoRow]
    /\ uses = [c \in Codes |-> 0] /\ codes = [c \in Codes |-> "unborn"]
    /\ client = [r \in Requests |-> Nothing]
    /\ sweep = Nothing
    /\ op = [pc |-> "idle", old |-> Nothing, new |-> Nothing]
    /\ revoked = 0 /\ assigned = 0

-----------------------------------------------------------------------------
(* Balance and ledger. *)

NoRequest == <<"none", NoSub, 0>>
ClientRequest(r) == <<"client", r, 0>>
\* A slip: the key names the subscription and not the period.
renewalRequestPerSub(s) == <<"renew", s.id, 0>>
renewalRequestID(s) == <<"renew", s.id, s.row.idx>>

\* A slip: no request is ever recognised.
SettledNever(req) == FALSE
\* ledgerEntryByRequest
Settled(req) == req # NoRequest /\ \E k \in DOMAIN ledger : ledger[k].request = req

\* A slip: the ledger records the balance before the movement.
MoveBefore(delta, reason, ref, req, now) ==
    /\ balance' = balance + delta
    /\ ledger' = Append(ledger, [delta |-> delta, after |-> balance, reason |-> reason,
                                 ref |-> ref, request |-> req, at |-> now])

\* balanceForUpdate, the no-overdraft rule, and both writes of a movement.
MayMove(delta) == balance + delta >= 0 /\ Len(ledger) < MaxLedger
Move(delta, reason, ref, req, now) ==
    /\ balance' = balance + delta
    /\ ledger' = Append(ledger, [delta |-> delta, after |-> balance + delta, reason |-> reason,
                                 ref |-> ref, request |-> req, at |-> now])

\* AdjustBalance, ApplyBalanceDelta
AdjustBalance(delta) ==
    /\ delta # 0
    /\ MayMove(delta)
    /\ Move(delta, "admin_adjust", NoSub, NoRequest, clock)
    /\ UNCHANGED <<clock, rows, uses, codes, client, sweep, op, countVars>>

\* A slip: the bound on uses is one too generous.
ClaimOnceMore(c) == MaxUses[c] = 0 \/ uses[c] <= MaxUses[c]
Claimable(c) == MaxUses[c] = 0 \/ uses[c] < MaxUses[c]

\* Redeem, RedeemCodeAndCredit: the claim and the credit commit together.
Redeem(c) ==
    /\ codes[c] = "live"
    /\ Claimable(c)
    /\ MayMove(CodeAmount)
    /\ uses' = [uses EXCEPT ![c] = @ + 1]
    /\ Move(CodeAmount, "redeem", c, NoRequest, clock)
    /\ UNCHANGED <<clock, rows, codes, client, sweep, op, countVars>>

CreateRedeemCodes(c) ==
    /\ codes[c] = "unborn"
    /\ codes' = [codes EXCEPT ![c] = "live"]
    /\ UNCHANGED <<clock, balance, ledger, rows, uses, client, sweep, op, countVars>>

\* The code is deleted; one that is past its expiry is refused the same way.
DeleteRedeemCode(c) ==
    /\ codes[c] = "live"
    /\ codes' = [codes EXCEPT ![c] = "deleted"]
    /\ UNCHANGED <<clock, balance, ledger, rows, uses, client, sweep, op, countVars>>

-----------------------------------------------------------------------------
(* Purchases and renewals. *)

expiryFromDays(days, base) == base + days
NewRow(now) == [status |-> "active", starts |-> now, expires |-> expiryFromDays(Duration, now),
                idx |-> 0, auto |-> "off"]
Expired(r) == Terms(r, "expired", r.expires, r.idx)

\* SelfPurchase, PurchasePlanWithBalance: charge, expire what runs, insert.  A
\* settled request_id changes nothing.
SelfPurchase(r, id) ==
    /\ id \in Unused
    /\ ~ Settled(ClientRequest(r))
    /\ MayMove(-Price)
    /\ Move(-Price, "purchase", NoSub, ClientRequest(r), clock)
    /\ rows' = [j \in SubIds |-> IF j = id THEN NewRow(clock)
                                 ELSE IF j \in Active THEN Expired(rows[j]) ELSE rows[j]]
    /\ UNCHANGED <<clock, uses, codes, client, sweep, op, countVars>>

Later(a, b) == IF a > b THEN a ELSE b

\* A slip: the new period starts now, whatever is left of the old one.
RenewedExpiryFromNow(s, now) == expiryFromDays(Duration, now)
\* The new period starts at the later of now and the expiry that was read.
RenewedExpiry(s, now) == expiryFromDays(Duration, Later(s.row.expires, now))

\* A slip: the row is extended whatever period it carries by now.
ExtendsAny(s) == ~ OtherActive(s.id)
\* UPDATE ... WHERE id = ? AND period_index = ?
Extends(s) == rows[s.id].idx = s.row.idx /\ ~ OtherActive(s.id)

\* RenewSubscriptionWithBalance: a settled request is a replay, and a row that
\* is not extended rolls the charge back.  The UPDATE writes the terms the caller
\* computed and an active status, and leaves starts_at_ns and auto_renew alone.
RenewSubscriptionWithBalance(s, now, req) ==
    IF ~ Settled(req) /\ MayMove(-Price) /\ Extends(s)
    THEN /\ Move(-Price, "renew", s.id, req, now)
         /\ rows' = [rows EXCEPT ![s.id] = Terms(rows[s.id], "active", RenewedExpiry(s, now), s.row.idx + 1)]
    ELSE UNCHANGED <<balance, ledger, rows>>

\* SelfRenew, first half: read the row through the customer's own id.
SelfRenewRead(r, id) ==
    /\ client[r] = Nothing
    /\ id \in Active
    /\ client' = [client EXCEPT ![r] = ReadRow(id)]
    /\ UNCHANGED <<clock, dbVars, sweep, op, countVars>>

SelfRenew(r) ==
    /\ client[r] # Nothing
    /\ RenewSubscriptionWithBalance(client[r], client[r].now, ClientRequest(r))
    /\ client' = [client EXCEPT ![r] = Nothing]
    /\ UNCHANGED <<clock, uses, codes, sweep, op, countVars>>

\* SetAutoRenew writes one column.  A row that ends between the check and the
\* write keeps a flag no sweep reads.
SetAutoRenew(id, auto) ==
    /\ rows[id].status # "none"
    /\ rows[id].auto # auto
    /\ auto = "on" => rows[id].status = "active" /\ rows[id].expires > 0
    /\ rows' = [rows EXCEPT ![id] = [status |-> @.status, starts |-> @.starts, expires |-> @.expires,
                                      idx |-> @.idx, auto |-> auto]]
    /\ UNCHANGED <<clock, balance, ledger, uses, codes, client, sweep, op, countVars>>

\* A slip: the window is the lead time, however short the period.
LeadOnly == Lead
renewalWindow == IF Duration < Lead THEN Duration ELSE Lead
renewalDue(r, now) == r.expires > 0 /\ r.expires - now <= renewalWindow

\* RenewDueSubscriptions, first half: ListRenewableSubscriptions and renewalDue.
\* A user has at most one active row, so the list has at most one entry here.
SweepList(id) ==
    /\ sweep = Nothing
    /\ id \in Active
    /\ rows[id].auto = "on" /\ rows[id].expires > 0 /\ rows[id].expires <= clock + Lead
    /\ renewalDue(rows[id], clock)
    /\ sweep' = ReadRow(id)
    /\ UNCHANGED <<clock, dbVars, client, op, countVars>>

SweepRenew ==
    /\ sweep # Nothing
    /\ RenewSubscriptionWithBalance(sweep, sweep.now, renewalRequestID(sweep))
    /\ sweep' = Nothing
    /\ UNCHANGED <<clock, uses, codes, client, op, countVars>>

\* SweepExpiredSubscriptions, ExpireStaleSubscriptions: one UPDATE.
Stale(r) == r.status = "active" /\ r.expires > 0 /\ r.expires <= clock
SweepExpiredSubscriptions ==
    /\ \E id \in SubIds : Stale(rows[id])
    /\ rows' = [id \in SubIds |-> IF Stale(rows[id]) THEN Expired(rows[id]) ELSE rows[id]]
    /\ UNCHANGED <<clock, balance, ledger, uses, codes, client, sweep, op, countVars>>

-----------------------------------------------------------------------------
(* The operator. *)

\* A slip: the partial unique index is missing.
WritableAlways(s) == TRUE
\* UpdateUserSubscriptionTerms: every term as the caller holds it; a second
\* active row is ErrConflict and writes nothing.
Writable(s) == s.row.status = "active" => ~ OtherActive(s.id)
UpdateUserSubscriptionTerms(s) == rows' = [rows EXCEPT ![s.id] = s.row]

\* expireActiveSubscriptions, its read.
RunningRow == IF Active = {} THEN Nothing ELSE ReadRow(CHOOSE id \in Active : TRUE)

\* AssignSubscription up to the list of what runs.
AssignSubscription(id) ==
    /\ op.pc = "idle"
    /\ assigned < Assignments
    /\ id \in Unused
    /\ op' = [pc |-> IF Active = {} THEN "insert" ELSE "expire", old |-> RunningRow,
              new |-> [id |-> id, row |-> NewRow(clock), now |-> clock]]
    /\ assigned' = assigned + 1
    /\ UNCHANGED <<clock, dbVars, client, sweep, revoked>>

\* The patched row: a status, an extension, or an explicit expiry.
Patched(r, p) ==
    CASE p.field = "status" -> Terms(r, p.value, r.expires, r.idx)
      [] p.field = "extend_days" ->
            Terms(r, r.status, expiryFromDays(p.value, Later(r.expires, clock)), r.idx)
      [] p.field = "expires_at_ns" -> Terms(r, r.status, p.value, r.idx)

\* UpdateTenantSubscription up to the write; a reactivation lists what runs first.
UpdateTenantSubscription(id, p) ==
    /\ op.pc = "idle"
    /\ assigned < Assignments
    /\ rows[id].status # "none"
    /\ LET new == Patched(rows[id], p)
           reactivating == new.status = "active" /\ rows[id].status # "active"
       IN  op' = [pc |-> IF reactivating THEN "list" ELSE "write", old |-> Nothing,
                  new |-> [id |-> id, row |-> new, now |-> clock]]
    /\ assigned' = assigned + 1
    /\ UNCHANGED <<clock, dbVars, client, sweep, revoked>>

ReactivateList ==
    /\ op.pc = "list"
    /\ op' = [pc |-> IF Active = {} THEN "write" ELSE "expire", old |-> RunningRow, new |-> op.new]
    /\ UNCHANGED <<clock, dbVars, client, sweep, countVars>>

\* expireActiveSubscriptions, its write of the row it read.
ExpireRunning ==
    /\ op.pc = "expire"
    /\ UpdateUserSubscriptionTerms([id |-> op.old.id, row |-> Expired(op.old.row), now |-> op.old.now])
    /\ op' = [pc |-> IF rows[op.new.id].status = "none" THEN "insert" ELSE "write",
              old |-> op.old, new |-> op.new]
    /\ UNCHANGED <<clock, balance, ledger, uses, codes, client, sweep, countVars>>

\* UpsertUserSubscription or UpdateUserSubscriptionTerms, or ErrConflict.
OperatorWrite ==
    /\ op.pc \in {"insert", "write"}
    /\ IF Writable(op.new) THEN UpdateUserSubscriptionTerms(op.new) ELSE UNCHANGED rows
    /\ op' = [pc |-> "idle", old |-> Nothing, new |-> Nothing]
    /\ UNCHANGED <<clock, balance, ledger, uses, codes, client, sweep, countVars>>

\* DeleteTenantSubscription, RevokeUserSubscription: the status only.
DeleteTenantSubscription(id) ==
    /\ rows[id].status # "none"
    /\ revoked < Revocations
    /\ rows' = [rows EXCEPT ![id] = Terms(@, "suspended", @.expires, @.idx)]
    /\ revoked' = revoked + 1
    /\ UNCHANGED <<clock, balance, ledger, uses, codes, client, sweep, op, assigned>>

\* The process ends between two steps: what was read is gone, the rows stay.
Crash ==
    /\ \/ sweep # Nothing \/ op.pc # "idle" \/ \E r \in Requests : client[r] # Nothing
    /\ client' = [r \in Requests |-> Nothing]
    /\ sweep' = Nothing
    /\ op' = [pc |-> "idle", old |-> Nothing, new |-> Nothing]
    /\ UNCHANGED <<clock, dbVars, countVars>>

Tick ==
    /\ clock < MaxClock
    /\ clock' = clock + 1
    /\ UNCHANGED <<dbVars, client, sweep, op, countVars>>

Next ==
    \/ \E delta \in Adjustments : AdjustBalance(delta)
    \/ \E c \in Codes : CreateRedeemCodes(c) \/ Redeem(c) \/ DeleteRedeemCode(c)
    \/ \E r \in Requests, id \in SubIds : SelfPurchase(r, id) \/ SelfRenewRead(r, id)
    \/ \E r \in Requests : SelfRenew(r)
    \/ \E id \in SubIds, auto \in {"on", "off"} : SetAutoRenew(id, auto)
    \/ \E id \in SubIds : SweepList(id)
    \/ SweepRenew
    \/ SweepExpiredSubscriptions
    \/ \E id \in SubIds : AssignSubscription(id) \/ DeleteTenantSubscription(id)
    \/ \E id \in SubIds, p \in Patches : UpdateTenantSubscription(id, p)
    \/ ReactivateList \/ ExpireRunning \/ OperatorWrite
    \/ Crash
    \/ Tick

Spec == Init /\ [][Next]_vars

\* The sweep runs every minute, and a pass that listed a row goes on to renew
\* it.  A restart may cut passes short, but not every one of them for ever.
FairSpec ==
    /\ Spec
    /\ WF_vars(\E id \in SubIds : SweepList(id))
    /\ SF_vars(SweepRenew)

-----------------------------------------------------------------------------
Entry == [delta : Int, after : Nat, at : Nat, ref : SubIds \cup Codes \cup {NoSub},
          reason : {"admin_adjust", "redeem", "purchase", "renew"},
          request : {NoRequest} \cup {ClientRequest(r) : r \in Requests}
                      \cup ({"renew"} \X SubIds \X Nat)]

\* Types, and ux_user_subscriptions_active: at most one row is active.
TypeOK ==
    /\ clock \in Nat /\ balance \in Nat /\ ledger \in Seq(Entry)
    /\ rows \in [SubIds -> Row]
    /\ uses \in [Codes -> Nat] /\ codes \in [Codes -> {"unborn", "live", "deleted"}]
    /\ client \in [Requests -> Read] /\ sweep \in Read
    /\ op \in [pc : {"idle", "list", "expire", "insert", "write"}, old : Read, new : Read]
    /\ op.pc # "idle" => op.new # Nothing
    /\ op.pc = "expire" => op.old # Nothing
    /\ revoked \in Nat /\ assigned \in Nat
    /\ \A i, j \in Active : i = j

\* The balance is what the ledger adds up to: each movement starts where the
\* one before ended, the balance is where the last one ended, and none ends
\* below zero ("there is no overdraft").
BalanceIsLedger ==
    /\ \A k \in DOMAIN ledger :
          /\ ledger[k].after = ledger[k].delta + IF k = 1 THEN 0 ELSE ledger[k - 1].after
          /\ ledger[k].after >= 0
    /\ balance = IF ledger = <<>> THEN 0 ELSE ledger[Len(ledger)].after

\* A request moves money at most once, however often the client retries it and
\* wherever the sweep was cut off.
RequestSettlesOnce ==
    \A j, k \in DOMAIN ledger :
        ledger[j].request = ledger[k].request /\ ledger[j].request # NoRequest => j = k

\* A code has paid out exactly as often as its counter says, and no more often
\* than it may, when it has a limit (RedeemCodeAndCredit).
CodePaysWhatItCounts ==
    \A c \in Codes :
        /\ uses[c] = Cardinality({k \in DOMAIN ledger :
                                    ledger[k].reason = "redeem" /\ ledger[k].ref = c})
        /\ MaxUses[c] > 0 => uses[c] <= MaxUses[c]

Renewals(id) == {k \in DOMAIN ledger : ledger[k].reason = "renew" /\ ledger[k].ref = id}

\* A row has as many further periods as renewals of it were charged: none is
\* given away and none is charged twice, whoever renews it at the same time.
PeriodsArePaid == \A id \in SubIds : rows[id].idx = Cardinality(Renewals(id))

\* Nothing a customer paid for is lost: the row runs for at least the periods
\* bought, however early or concurrently they were renewed.
PaidTimeIsKept ==
    \A id \in SubIds : rows[id].status # "none" =>
        rows[id].expires >= rows[id].starts + Duration * (1 + Cardinality(Renewals(id)))

\* The sweep buys ahead by no more than its window, the lead time capped by
\* the period, and the period it buys.
SweepStaysInWindow ==
    [][\A id \in SubIds : sweep.id = id /\ rows'[id].idx > rows[id].idx /\ sweep' = Nothing =>
          /\ rows'[id].expires <= sweep.now + Lead + Duration
          /\ rows'[id].expires <= sweep.now + 2 * Duration]_vars

\* Only the operator brings a suspended row back: a revocation is not undone by
\* a sweep or a customer ("access ends with the decision").  The code does not
\* guarantee it: a renewal that read the row before guards on its index alone.
RevocationStands ==
    [][\A id \in SubIds : rows[id].status = "suspended" /\ rows'[id].status # "suspended" =>
          op.pc = "write" /\ op.new.id = id]_vars

\* The sweep does not buy a second period of a row on the day it bought one.
\* The code guarantees it only for plans longer than the lead time.
NotBoughtAgainNextTick ==
    \A id \in SubIds : \A j, k \in Renewals(id) :
        j < k /\ ledger[j].request[1] = "renew" /\ ledger[k].request[1] = "renew" =>
            ledger[j].at < ledger[k].at

\* A subscription that opted in, is inside its window and whose owner has the
\* money is renewed, unless it ends, is switched off or the money goes first.
Due(id) ==
    /\ rows[id].status = "active" /\ rows[id].auto = "on"
    /\ renewalDue(rows[id], clock) /\ MayMove(-Price)
DueIsRenewed ==
    \A id \in SubIds, n \in 0..MaxLedger :
        (Due(id) /\ rows[id].idx = n) ~> ~ (Due(id) /\ rows[id].idx = n)
=============================================================================

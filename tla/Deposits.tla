------------------------------ MODULE Deposits ------------------------------
(***************************************************************************)
(* On-chain deposits (service/control_plane_deposit.go,                    *)
(* state/repo_deposit.go, tron/client.go).  A customer asks for a deposit  *)
(* and gets an amount nobody else holds; the transfer that arrives on the  *)
(* chain carries that amount and nothing else, so the amount is the        *)
(* payer's identity while the intent occupies it.                          *)
(*                                                                         *)
(* Time is counted in instants.  The chain is a sequence of transfers      *)
(* whose block times never decrease, of which a growing prefix is          *)
(* solidified and therefore visible to TransfersSince.  The scanner is one *)
(* goroutine, so its pass is a program counter; every repository call is   *)
(* one SQLite transaction under StateRepo.mu and so one step.              *)
(*                                                                         *)
(* Two things are assumed of the chain.  Its block times and the server's  *)
(* clock agree.  And a transaction makes one transfer, so that a position  *)
(* in the chain serves as transaction id: the code credits a transaction   *)
(* id once, and would pass over a second transfer that carried it.         *)
(***************************************************************************)
EXTENDS Integers, FiniteSets, Sequences, FiniteSetsExt

CONSTANTS
    Intents,      \* identifiers newID can hand out
    NoIntent,     \* payer of a transfer that is nobody's deposit
    Wants,        \* wantMicro values customers ask for
    Unit,         \* micro-units in one whole amount (1_000_000)
    Attempts,     \* depositAmountAttempts
    MinMicro,     \* depositMinMicro
    Dust,         \* the amount of a transfer below depositMinMicro
    Window,       \* depositWindowNs, in instants
    Hold,         \* depositHoldNs, in instants
    PageLimit,    \* rows TransfersSince asks for (200)
    MaxDelay,     \* how old nowNs may be once StateRepo.mu is acquired
    MaxPerInstant,\* transfers of this address carrying one block time
    MaxChain,     \* bound: transfers on the chain
    MaxClock,     \* bound: instants
    MaxFaults     \* bound: crashes, failed queries and failed writes

ASSUME DepositAssumption ==
    /\ NoIntent \notin Intents
    /\ Wants \subseteq Nat
    /\ Unit \in Nat \ {0}
    /\ {Attempts, Window, Hold, PageLimit} \subseteq Nat \ {0}
    /\ {MinMicro, Dust, MaxDelay, MaxPerInstant, MaxChain, MaxClock, MaxFaults} \subseteq Nat

VARIABLES
    clock,
    status, amount, created, txId,      \* deposit_intents, by id
    chain,                              \* transfers in block order
    solid,                              \* solidified prefix of chain
    ledger,                             \* balance_ledger rows with reason 'deposit'
    cursor,                             \* chain_cursor.watermark_ms
    scan,                               \* the scanner's pass
    judged,                             \* transfers a pass has finished with
    faults

intentVars == <<status, amount, created, txId>>
chainVars == <<chain, solid>>
vars == <<clock, intentVars, chainVars, ledger, cursor, scan, judged, faults>>

-----------------------------------------------------------------------------
Statuses == {"none", "pending", "unpaid", "released", "paid"}
Open == {"pending", "unpaid"}          \* statuses that hold their amount
Transfer == [to : {"us", "elsewhere"}, amount : Nat, ts : Nat, payer : Intents \cup {NoIntent}]
Scan == [pc : {"idle", "cursor", "page", "advance"}, from : Nat, next : Nat, last : Nat, newest : Nat]

ExpiresAt(i) == created[i] + Window
HoldUntil(i) == created[i] + Window + Hold

Idle == [pc |-> "idle", from |-> 0, next |-> 0, last |-> 0, newest |-> 0]

Init ==
    /\ clock = 0
    /\ status = [i \in Intents |-> "none"]
    /\ amount = [i \in Intents |-> 0]
    /\ created = [i \in Intents |-> 0]
    /\ txId = [i \in Intents |-> 0]
    /\ chain = <<>>
    /\ solid = 0
    /\ ledger = {}
    /\ cursor = 0
    /\ scan = Idle
    /\ judged = {}
    /\ faults = 0

\* nowNs: the caller reads the clock before it queues for StateRepo.mu.
NowRange == {now \in 0..clock : clock <= now + MaxDelay}

-----------------------------------------------------------------------------
(* The pool of amounts. *)

depositCandidates(want) == {a \in want + 1 .. want + Attempts : a % Unit # 0}

\* The statuses after releaseExpiredDepositsTx at time now.
Released(now) ==
    [i \in Intents |-> IF status[i] \in Open /\ HoldUntil(i) <= now THEN "released" ELSE status[i]]

\* The statuses after both updates of SweepDeposits at time now.
Swept(now) ==
    [i \in Intents |->
        CASE status[i] \in Open /\ HoldUntil(i) <= now -> "released"
          [] status[i] = "pending" /\ ExpiresAt(i) <= now /\ HoldUntil(i) > now -> "unpaid"
          [] OTHER -> status[i]]

\* A slip: an allocation that reads the amounts of pending intents only.
FreePendingOnly(st, want) ==
    {a \in depositCandidates(want) : \A j \in Intents : st[j] = "pending" => amount[j] # a}

\* What the partial unique index on amount_micro leaves free.
Free(st, want) ==
    {a \in depositCandidates(want) : \A j \in Intents : st[j] \in Open => amount[j] # a}

\* A slip: the occupancy is counted back from its end.
SelfDepositBackdated(i, want, now) ==
    /\ status[i] = "none"
    /\ want >= MinMicro
    /\ LET st == Released(now)
       IN  /\ Free(st, want) # {}
           /\ status' = [st EXCEPT ![i] = "pending"]
           /\ \E a \in Free(st, want) :
                 /\ \A b \in Free(st, want) : a <= b
                 /\ amount' = [amount EXCEPT ![i] = a]
    /\ created' = [created EXCEPT ![i] = now - Window]
    /\ UNCHANGED <<clock, txId, chainVars, ledger, cursor, scan, judged, faults>>

\* SelfDeposit and InsertDepositIntent: release what expired, then take the
\* smallest free candidate.  With no candidate left the whole transaction
\* rolls back, the release included.
SelfDeposit(i, want, now) ==
    /\ status[i] = "none"
    /\ want >= MinMicro
    /\ LET st == Released(now)
       IN  /\ Free(st, want) # {}
           /\ status' = [st EXCEPT ![i] = "pending"]
           /\ \E a \in Free(st, want) :
                 /\ \A b \in Free(st, want) : a <= b
                 /\ amount' = [amount EXCEPT ![i] = a]
    /\ created' = [created EXCEPT ![i] = now]
    /\ UNCHANGED <<clock, txId, chainVars, ledger, cursor, scan, judged, faults>>

-----------------------------------------------------------------------------
(* The chain (external). *)

AtThisInstant == Cardinality({t \in DOMAIN chain : chain[t].ts = clock})

Appended(row) ==
    /\ Len(chain) < MaxChain
    /\ AtThisInstant < MaxPerInstant
    /\ chain' = Append(chain, row)
    /\ UNCHANGED <<clock, intentVars, solid, ledger, cursor, scan, judged, faults>>

\* The customer behind intent i sends its amount, on time or late, once or
\* again.
Pay(i) ==
    /\ status[i] # "none"
    /\ Appended([to |-> "us", amount |-> amount[i], ts |-> clock, payer |-> i])

\* A transfer that is nobody's deposit: one out of the address, or dust.
Unrelated(to) == Appended([to |-> to, amount |-> Dust, ts |-> clock, payer |-> NoIntent])

Solidify ==
    /\ solid < Len(chain)
    /\ solid' = solid + 1
    /\ UNCHANGED <<clock, intentVars, chain, ledger, cursor, scan, judged, faults>>

-----------------------------------------------------------------------------
(* The scanner. *)

Fault == faults < MaxFaults /\ faults' = faults + 1

\* One tick of StartDepositScanner: SweepDeposits, then ScanDeposits whether or
\* not the sweep's write succeeded.
SweepDeposits(now) ==
    /\ scan.pc = "idle"
    /\ \/ status' = Swept(now) /\ UNCHANGED faults
       \/ Fault /\ UNCHANGED status
    /\ scan' = [pc |-> "cursor", from |-> 0, next |-> 0, last |-> 0, newest |-> 0]
    /\ UNCHANGED <<clock, amount, created, txId, chainVars, ledger, cursor, judged>>

\* ChainCursor and TransfersSince: the oldest PageLimit visible rows at or after
\* the watermark.  Block times never decrease, so the page is an interval.
Page ==
    LET rows == {t \in 1..solid : chain[t].ts >= cursor}
    IN  {t \in rows : Cardinality({u \in rows : u < t}) < PageLimit}

\* A slip: the watermark moves as soon as the page is read.
TransfersSinceAdvancing ==
    /\ scan.pc = "cursor"
    /\ \/ Page = {} /\ scan' = Idle /\ UNCHANGED cursor
       \/ \E first, last \in Page :
             /\ \A t \in Page : first <= t /\ t <= last
             /\ scan' = [pc |-> "page", from |-> cursor, next |-> first, last |-> last,
                         newest |-> chain[last].ts]
             /\ cursor' = chain[last].ts
    /\ UNCHANGED <<clock, intentVars, chainVars, ledger, judged, faults>>

TransfersSince ==
    /\ scan.pc = "cursor"
    /\ \/ Page = {} /\ scan' = Idle
       \/ \E first, last \in Page :
             /\ \A t \in Page : first <= t /\ t <= last
             /\ scan' = [pc |-> "page", from |-> cursor, next |-> first, last |-> last,
                         newest |-> chain[last].ts]
    /\ UNCHANGED <<clock, intentVars, chainVars, ledger, cursor, judged, faults>>

Bigger(a, b) == IF a >= b THEN a ELSE b
PastRow == [pc |-> IF scan.next = scan.last THEN "advance" ELSE "page",
            from |-> scan.from, next |-> scan.next + 1, last |-> scan.last, newest |-> scan.newest]

\* A slip: a settled intent matches again.
MatchingPaidToo(amt, ts) ==
    {i \in Intents : /\ status[i] # "none"
                     /\ amount[i] = amt
                     /\ created[i] <= ts /\ ts < HoldUntil(i)}

\* A slip: an intent matches only while it holds its amount.
MatchingOpenOnly(amt, ts) ==
    {i \in Intents : /\ status[i] \in Open
                     /\ amount[i] = amt
                     /\ created[i] <= ts /\ ts < HoldUntil(i)}

\* A slip: no lower bound on the block time.
MatchingOlder(amt, ts) ==
    {i \in Intents : /\ status[i] \notin {"none", "paid"}
                     /\ amount[i] = amt
                     /\ ts < HoldUntil(i)}

\* depositIntentForTransferTx: the intents whose occupancy covers the block time.
Matching(amt, ts) ==
    {i \in Intents : /\ status[i] \notin {"none", "paid"}
                     /\ amount[i] = amt
                     /\ created[i] <= ts /\ ts < HoldUntil(i)}

\* A row TransfersSince drops, or whose amount is too small to be a deposit.
Filtered(t) == chain[t].to # "us" \/ chain[t].amount < MinMicro

\* The ledger, or a settled intent, already carries the transaction id.
AlreadyCredited(t) ==
    \/ \E i \in Intents : status[i] = "paid" /\ txId[i] = t
    \/ \E i \in Intents : <<t, i>> \in ledger

\* The next row of the page, when nothing is credited for it: filtered out,
\* ErrConflict or ErrNotFound.
PassOver ==
    /\ scan.pc = "page"
    /\ \/ Filtered(scan.next)
       \/ AlreadyCredited(scan.next)
       \/ Matching(chain[scan.next].amount, chain[scan.next].ts) = {}
    /\ judged' = judged \cup {scan.next}
    /\ scan' = PastRow
    /\ UNCHANGED <<clock, intentVars, chainVars, ledger, cursor, faults>>

\* CreditDeposit: ledger, status and watermark in one transaction.  Of several
\* intents that match, the one created last is taken.
CreditDeposit(i) ==
    /\ scan.pc = "page"
    /\ ~ Filtered(scan.next)
    /\ ~ AlreadyCredited(scan.next)
    /\ i \in Matching(chain[scan.next].amount, chain[scan.next].ts)
    /\ \A j \in Matching(chain[scan.next].amount, chain[scan.next].ts) : created[j] <= created[i]
    /\ ledger' = ledger \cup {<<scan.next, i>>}
    /\ status' = [status EXCEPT ![i] = "paid"]
    /\ txId' = [txId EXCEPT ![i] = scan.next]
    /\ cursor' = Bigger(cursor, chain[scan.next].ts)
    /\ judged' = judged \cup {scan.next}
    /\ scan' = PastRow
    /\ UNCHANGED <<clock, amount, created, chainVars, faults>>

\* A slip: the watermark is the newest deposit on the page.
AdvanceOnSurvivors ==
    /\ scan.pc = "advance"
    /\ cursor' = IF Filtered(scan.last) THEN cursor ELSE Bigger(cursor, scan.newest)
    /\ scan' = Idle
    /\ UNCHANGED <<clock, intentVars, chainVars, ledger, judged, faults>>

\* AdvanceChainCursor with the raw page's newest block time.
AdvanceChainCursor ==
    /\ scan.pc = "advance"
    /\ cursor' = IF scan.newest > scan.from THEN Bigger(cursor, scan.newest) ELSE cursor
    /\ scan' = Idle
    /\ UNCHANGED <<clock, intentVars, chainVars, ledger, judged, faults>>

\* The pass ends early: the chain query or a write fails, or the process dies
\* and is started again.
PassFails ==
    /\ scan.pc # "idle"
    /\ Fault
    /\ scan' = Idle
    /\ UNCHANGED <<clock, intentVars, chainVars, ledger, cursor, judged>>

Tick ==
    /\ clock < MaxClock
    /\ clock' = clock + 1
    /\ UNCHANGED <<intentVars, chainVars, ledger, cursor, scan, judged, faults>>

Next ==
    \/ \E i \in Intents, want \in Wants, now \in NowRange : SelfDeposit(i, want, now)
    \/ \E i \in Intents : Pay(i)
    \/ \E to \in {"us", "elsewhere"} : Unrelated(to)
    \/ Solidify
    \/ \E now \in NowRange : SweepDeposits(now)
    \/ TransfersSince
    \/ PassOver
    \/ \E i \in Intents : CreditDeposit(i)
    \/ AdvanceChainCursor
    \/ PassFails
    \/ Tick

Spec == Init /\ [][Next]_vars

\* The chain keeps solidifying and the scanner goroutine keeps running.
Scanner ==
    \/ \E now \in NowRange : SweepDeposits(now)
    \/ TransfersSince
    \/ PassOver
    \/ \E i \in Intents : CreditDeposit(i)
    \/ AdvanceChainCursor
Fairness == WF_vars(Solidify) /\ WF_vars(Scanner)

-----------------------------------------------------------------------------
(* Properties. *)

\* Every variable keeps its type: a row, a watermark or a page outside its
\* range would mean that a repository call wrote what the schema does not hold.
TypeOK ==
    /\ clock \in Nat /\ cursor \in Nat /\ solid \in Nat /\ faults \in Nat
    /\ status \in [Intents -> Statuses]
    /\ amount \in [Intents -> Nat]
    /\ created \in [Intents -> Nat]
    /\ txId \in [Intents -> Nat]
    /\ chain \in Seq(Transfer)
    /\ ledger \subseteq (Nat \X Intents)
    /\ judged \subseteq Nat
    /\ scan \in Scan

\* A transfer for an intent that still occupied its amount, on the chain's clock,
\* and one that was sent before the last MaxDelay instants of the occupancy.
OnTime(t) == chain[t].payer \in Intents /\ chain[t].ts < HoldUntil(chain[t].payer)
InGoodTime(t) ==
    chain[t].payer \in Intents /\ chain[t].ts + MaxDelay < HoldUntil(chain[t].payer)

\* The ledger and the settled intents tell the same story: each credit belongs
\* to an intent settled by exactly that transaction, so no intent is credited
\* twice, no transaction is credited twice, and CreditDeposit never settles an
\* intent without the credit, whatever is replayed after a crash.
SettledOnce ==
    /\ \A e \in ledger : status[e[2]] = "paid" /\ txId[e[2]] = e[1]
    /\ \A i \in Intents : status[i] = "paid" => <<txId[i], i>> \in ledger
    /\ \A d, e \in ledger : d[1] = e[1] => d = e

\* Two unsettled intents share an amount for at most as long as a request may
\* wait for the lock: what makes it safe for SelfDeposit to hand a released
\* amount out again (depositIntentForTransferTx).
OccupanciesBarelyMeet ==
    \A i, j \in Intents :
        /\ i # j /\ amount[i] = amount[j]
        /\ status[i] \notin {"none", "paid"} /\ status[j] \notin {"none", "paid"}
        => HoldUntil(i) <= created[j] + MaxDelay \/ HoldUntil(j) <= created[i] + MaxDelay

\* A transfer sent in good time is credited to its payer's intent and to no
\* other, unless an earlier transfer had settled that intent already
\* (depositIntentForTransferTx).
CreditedToPayer ==
    \A e \in ledger : InGoodTime(e[1]) =>
        e[2] = chain[e[1]].payer \/ status[chain[e[1]].payer] = "paid"

\* The same of every transfer that its payer's occupancy covers: a straggler
\* "predates the intent that holds the amount now, so the time gate rejects it"
\* (control_plane_deposit.go:33).  The code does not guarantee it: nowNs may be
\* older than the release that freed the amount.
CreditedToOccupant ==
    \A e \in ledger : OnTime(e[1]) =>
        e[2] = chain[e[1]].payer \/ status[chain[e[1]].payer] = "paid"

\* The watermark never moves past a transfer that no pass has judged: a crash,
\* a failed query or a failed write in the middle of a page loses nothing.
WatermarkPassesOnlyJudged ==
    \A t \in DOMAIN chain : chain[t].ts < cursor => t \in judged

\* A transfer sent in good time settles its intent, however long it takes to
\* solidify and whatever status a sweep has given the intent meanwhile.
OnTimePaymentSettles ==
    \A t \in 1..MaxChain :
        (t \in DOMAIN chain /\ InGoodTime(t)) ~>
            \E i \in Intents : status[i] = "paid" /\ t \in DOMAIN chain /\ chain[t].payer = i

\* Every transfer on the chain is eventually read and judged by a pass.
EveryTransferIsJudged ==
    \A t \in 1..MaxChain : t \in DOMAIN chain ~> t \in judged
=============================================================================

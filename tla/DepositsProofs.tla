--------------------------- MODULE DepositsProofs ---------------------------
(***************************************************************************)
(* Proofs about Deposits, for any number of intents, amounts, transfers    *)
(* and failures.                                                           *)
(*                                                                         *)
(* The argument of the code's comments is that a released amount can be    *)
(* handed out again because the old occupancy ends before the new one      *)
(* begins.  OccupancyInv states what that needs: an amount is open once    *)
(* (the partial unique index), and a released intent's occupancy lies in   *)
(* the past.  The insert's nowNs lags behind by MaxDelay at most, so the   *)
(* new occupancy begins no earlier than MaxDelay before the old one ends.  *)
(*                                                                         *)
(* WatermarkInv is about the scan alone: below the watermark, and below    *)
(* the place a scan has reached, every solid transfer was judged.          *)
(***************************************************************************)
EXTENDS Deposits, FiniteSetTheorems, TLAPS

\* The time the provers get for a leaf that does not say otherwise.
USE SMTT(30), ZenonT(30)

\* A transfer for an intent was sent after the intent was opened, with its amount.
PayersOpened ==
    \A t \in DOMAIN chain : chain[t].payer \in Intents =>
        /\ status[chain[t].payer] # "none"
        /\ amount[chain[t].payer] = chain[t].amount
        /\ created[chain[t].payer] <= chain[t].ts

\* The rest of the page lies on the chain.
PageOnChain ==
    /\ solid <= Len(chain)
    /\ scan.pc = "page" => 1 <= scan.next /\ scan.next <= scan.last /\ scan.last <= Len(chain)

CreditsOnChain == \A e \in ledger : e[1] \in DOMAIN chain

BaseInv == TypeOK /\ PayersOpened /\ PageOnChain /\ CreditsOnChain /\ SettledOnce
           /\ \A i \in Intents : created[i] <= clock

OccupancyInv ==
    /\ \A i, j \in Intents :
          i # j /\ status[i] \in Open /\ status[j] \in Open => amount[i] # amount[j]
    /\ \A i \in Intents : status[i] = "released" => HoldUntil(i) <= clock
    /\ OccupanciesBarelyMeet

-----------------------------------------------------------------------------
\* The invariants hold at the start.
LEMMA InitBase == Init => BaseInv /\ OccupancyInv /\ CreditedToPayer
<1> SUFFICES ASSUME Init PROVE BaseInv /\ OccupancyInv /\ CreditedToPayer
  OBVIOUS
<1>1. TypeOK
  BY DEF Init, TypeOK, Statuses, Scan, Idle
<1>2. PayersOpened /\ PageOnChain /\ CreditsOnChain /\ SettledOnce
  BY DEF Init, PayersOpened, PageOnChain, CreditsOnChain, SettledOnce, Idle
<1>3. OccupancyInv /\ CreditedToPayer /\ \A i \in Intents : created[i] <= clock
  BY DEF Init, OccupancyInv, OccupanciesBarelyMeet, CreditedToPayer, Open
<1> QED BY <1>1, <1>2, <1>3 DEF BaseInv

\* What SelfDeposit does to the intents, without the choice of the amount.
LEMMA SelfDepositEffect ==
    ASSUME BaseInv, NEW i \in Intents, NEW want \in Wants, NEW now \in NowRange,
           SelfDeposit(i, want, now)
    PROVE  /\ status[i] = "none"
           /\ now \in Nat /\ now <= clock
           /\ status' \in [Intents -> Statuses] /\ status'[i] = "pending"
           /\ \A j \in Intents \ {i} : status'[j] = Released(now)[j]
           /\ \E a \in Nat : /\ amount' = [amount EXCEPT ![i] = a]
                             /\ \A j \in Intents \ {i} : status'[j] \in Open => amount[j] # a
           /\ created' = [created EXCEPT ![i] = now]
<1>1. PICK a \in Free(Released(now), want) : amount' = [amount EXCEPT ![i] = a]
  BY ZenonT(40) DEF SelfDeposit
<1>2. a \in Nat
  <2>1. want \in Nat /\ Attempts \in Nat
    BY DepositAssumption
  <2> QED BY <1>1, <2>1 DEF Free, depositCandidates
<1>3. now \in Nat /\ now <= clock
  BY DEF NowRange, BaseInv, TypeOK
<1>4. Released(now) \in [Intents -> Statuses]
  BY DEF Released, BaseInv, TypeOK, Statuses
<1>5. /\ status' = [Released(now) EXCEPT ![i] = "pending"]
      /\ status[i] = "none" /\ created' = [created EXCEPT ![i] = now]
  BY DEF SelfDeposit
<1>6. \A j \in Intents \ {i} : status'[j] \in Open => amount[j] # a
  BY <1>1, <1>4, <1>5 DEF Free
<1>7. status' \in [Intents -> Statuses]
  BY <1>4, <1>5 DEF Statuses
<1> QED BY <1>1, <1>2, <1>3, <1>4, <1>5, <1>6, <1>7, ZenonT(40)

\* The sweep closes or releases, and never reopens.
LEMMA SweptEffect ==
    ASSUME BaseInv, NEW now \in NowRange
    PROVE  /\ now \in Nat /\ now <= clock
           /\ Swept(now) \in [Intents -> Statuses]
           /\ \A i \in Intents :
                 /\ Swept(now)[i] \in Open => status[i] \in Open
                 /\ Swept(now)[i] = "none" <=> status[i] = "none"
                 /\ Swept(now)[i] = "paid" <=> status[i] = "paid"
                 /\ Swept(now)[i] = "released" => status[i] = "released" \/ HoldUntil(i) <= now
BY DEF BaseInv, TypeOK, NowRange, Swept, Open, Statuses

-----------------------------------------------------------------------------
\* Every step keeps the types.
LEMMA TypeStep == BaseInv /\ [Next]_vars => TypeOK'
<1> SUFFICES ASSUME BaseInv, [Next]_vars PROVE TypeOK'
  OBVIOUS
<1>0. TypeOK
  BY DEF BaseInv
<1>1. ASSUME NEW i \in Intents, NEW want \in Wants, NEW now \in NowRange,
             SelfDeposit(i, want, now)
      PROVE  TypeOK'
  <2>1. PICK a \in Nat : amount' = [amount EXCEPT ![i] = a]
    BY <1>1, SelfDepositEffect
  <2>2. /\ now \in Nat /\ status' \in [Intents -> Statuses]
        /\ created' = [created EXCEPT ![i] = now]
    BY <1>1, SelfDepositEffect
  <2>3. amount' \in [Intents -> Nat] /\ created' \in [Intents -> Nat]
    BY <1>0, <2>1, <2>2 DEF TypeOK
  <2>4. UNCHANGED <<clock, txId, chainVars, ledger, cursor, scan, judged, faults>>
    BY <1>1 DEF SelfDeposit
  <2> QED BY <1>0, <2>2, <2>3, <2>4 DEF TypeOK, chainVars
<1>2. ASSUME NEW row \in Transfer, Appended(row) PROVE TypeOK'
  <2>1. Append(chain, row) \in Seq(Transfer)
    BY <1>0 DEF TypeOK
  <2>2. /\ chain' = Append(chain, row)
        /\ UNCHANGED <<clock, intentVars, solid, ledger, cursor, scan, judged, faults>>
    BY <1>2 DEF Appended
  <2> QED BY <1>0, <2>1, <2>2 DEF TypeOK, intentVars
<1>3. ASSUME NEW i \in Intents, Pay(i) PROVE TypeOK'
  BY <1>0, <1>2, <1>3, ZenonT(40) DEF Pay, TypeOK, Transfer
<1>4. ASSUME NEW to \in {"us", "elsewhere"}, Unrelated(to) PROVE TypeOK'
  BY <1>0, <1>2, <1>4, DepositAssumption, ZenonT(40) DEF Unrelated, TypeOK, Transfer
<1>5. CASE Solidify
  BY <1>0, <1>5 DEF Solidify, TypeOK, intentVars
<1>6. ASSUME NEW now \in NowRange, SweepDeposits(now) PROVE TypeOK'
  <2>1. scan' \in Scan
    BY <1>6 DEF SweepDeposits, Scan
  <2>2. status' \in [Intents -> Statuses]
    BY <1>0, <1>6, SweptEffect DEF SweepDeposits, TypeOK
  <2>3. faults' \in Nat
    BY <1>0, <1>6 DEF SweepDeposits, TypeOK, Fault
  <2> QED BY <1>0, <1>6, <2>1, <2>2, <2>3 DEF SweepDeposits, TypeOK, chainVars
<1>7. CASE TransfersSince
  <2>1. UNCHANGED <<clock, intentVars, chainVars, ledger, cursor, judged, faults>>
    BY <1>7 DEF TransfersSince
  <2>2. scan' \in Scan
    <3>1. CASE scan' = Idle
      BY <3>1 DEF Idle, Scan
    <3>2. ASSUME NEW first \in Page, NEW last \in Page,
                 scan' = [pc |-> "page", from |-> cursor, next |-> first, last |-> last,
                          newest |-> chain[last].ts]
          PROVE  scan' \in Scan
      <4>1. first \in 1..solid /\ last \in 1..solid
        BY DEF Page
      <4>2. chain[last] \in Transfer
        BY <1>0, <4>1 DEF BaseInv, PageOnChain, TypeOK
      <4> QED BY <1>0, <3>2, <4>1, <4>2 DEF TypeOK, Scan, Transfer
    <3> QED BY <1>7, <3>1, <3>2 DEF TransfersSince
  <2> QED BY <1>0, <2>1, <2>2 DEF TypeOK, intentVars, chainVars
<1>8. scan.pc = "page" => PastRow \in Scan /\ scan.next \in Nat
  BY <1>0 DEF TypeOK, Scan, PastRow
<1>9. CASE PassOver
  BY <1>0, <1>8, <1>9, ZenonT(40) DEF PassOver, TypeOK, intentVars, chainVars
<1>10. ASSUME NEW i \in Intents, CreditDeposit(i) PROVE TypeOK'
  <2>1. scan.next \in DOMAIN chain
    BY <1>0, <1>10 DEF CreditDeposit, BaseInv, PageOnChain, TypeOK, Scan
  <2>2. chain[scan.next].ts \in Nat
    <3>1. chain[scan.next] \in Transfer
      BY <1>0, <2>1 DEF TypeOK
    <3> QED BY <3>1 DEF Transfer
  <2>3. cursor' \in Nat
    BY <1>0, <1>10, <2>2 DEF CreditDeposit, Bigger, TypeOK
  <2>4. scan' \in Scan /\ scan.next \in Nat
    BY <1>8, <1>10 DEF CreditDeposit
  <2>5. /\ status' \in [Intents -> Statuses] /\ txId' \in [Intents -> Nat]
        /\ judged' \subseteq Nat
    BY <1>0, <1>10, <2>4, ZenonT(40) DEF CreditDeposit, TypeOK, Statuses
  <2>6. ledger' \subseteq (Nat \X Intents)
    <3>1. ledger' = ledger \cup {<<scan.next, i>>}
      BY <1>10 DEF CreditDeposit
    <3>2. <<scan.next, i>> \in Nat \X Intents
      BY <2>4
    <3> QED BY <1>0, <3>1, <3>2 DEF TypeOK
  <2> QED BY <1>0, <1>10, <2>3, <2>4, <2>5, <2>6 DEF CreditDeposit, TypeOK, chainVars
<1>11. CASE AdvanceChainCursor
  BY <1>0, <1>11 DEF AdvanceChainCursor, TypeOK, Scan, Idle, Bigger, intentVars, chainVars
<1>12. CASE PassFails
  <2>1. Idle \in Scan
    BY DEF Idle, Scan
  <2>2. scan' = Idle /\ faults' \in Nat
    BY <1>0, <1>12 DEF PassFails, Fault, TypeOK
  <2>3. UNCHANGED <<clock, status, amount, created, txId, chain, solid, ledger, cursor, judged>>
    BY <1>12 DEF PassFails, intentVars, chainVars
  <2> QED BY <1>0, <2>1, <2>2, <2>3 DEF TypeOK
<1>13. CASE Tick
  BY <1>0, <1>13 DEF Tick, TypeOK, intentVars, chainVars
<1>14. CASE UNCHANGED vars
  BY <1>0, <1>14 DEF vars, TypeOK, intentVars, chainVars
<1> QED
  BY <1>1, <1>3, <1>4, <1>5, <1>6, <1>7, <1>9, <1>10, <1>11, <1>12, <1>13, <1>14 DEF Next

-----------------------------------------------------------------------------
\* An opened intent keeps its amount and creation time, and settling is final:
\* what every step leaves alone, stated once.
Settled(i) == status[i] = "paid"
Steady ==
    /\ \A i \in Intents : status[i] # "none" =>
          /\ status'[i] # "none" /\ amount'[i] = amount[i] /\ created'[i] = created[i]
    /\ \A i \in Intents : Settled(i) => status'[i] = "paid" /\ txId'[i] = txId[i]
    /\ \A i \in Intents : created'[i] <= clock'

\* An intent keeps its amount and its time, and a settled one stays settled.
LEMMA SteadyStep == BaseInv /\ [Next]_vars => Steady
<1> SUFFICES ASSUME BaseInv, [Next]_vars PROVE Steady
  OBVIOUS
<1>0. TypeOK /\ \A i \in Intents : created[i] <= clock
  BY DEF BaseInv
<1>1. ASSUME NEW i \in Intents, NEW want \in Wants, NEW now \in NowRange,
             SelfDeposit(i, want, now)
      PROVE  Steady
  <2>1. PICK a \in Nat : amount' = [amount EXCEPT ![i] = a]
    BY <1>1, SelfDepositEffect
  <2>2. /\ status[i] = "none" /\ now \in Nat /\ now <= clock /\ status'[i] = "pending"
        /\ \A j \in Intents \ {i} : status'[j] = Released(now)[j]
        /\ created' = [created EXCEPT ![i] = now]
    BY <1>1, SelfDepositEffect
  <2>3. clock' = clock /\ txId' = txId
    BY <1>1 DEF SelfDeposit
  <2> QED BY <1>0, <2>1, <2>2, <2>3, ZenonT(40) DEF Steady, Settled, TypeOK, Released, Open
<1>2. CASE UNCHANGED <<intentVars, clock>>
  BY <1>0, <1>2 DEF Steady, Settled, intentVars, TypeOK
<1>3. ASSUME NEW now \in NowRange, SweepDeposits(now) PROVE Steady
  <2>1. \A i \in Intents : /\ status'[i] = "none" <=> status[i] = "none"
                           /\ status'[i] = "paid" <=> status[i] = "paid"
    BY <1>3, SweptEffect DEF SweepDeposits
  <2> QED BY <1>0, <1>3, <2>1 DEF Steady, Settled, SweepDeposits
<1>4. ASSUME NEW i \in Intents, CreditDeposit(i) PROVE Steady
  BY <1>0, <1>4 DEF CreditDeposit, Steady, Settled, TypeOK, Matching
<1>5. CASE Tick
  BY <1>0, <1>5 DEF Tick, Steady, Settled, TypeOK, intentVars
<1>6. (\/ \E i \in Intents : Pay(i)
       \/ \E to \in {"us", "elsewhere"} : Unrelated(to)
       \/ Solidify \/ TransfersSince \/ PassOver \/ AdvanceChainCursor \/ PassFails
       \/ UNCHANGED vars) => UNCHANGED <<intentVars, clock>>
  BY ZenonT(40) DEF Pay, Unrelated, Appended, Solidify, TransfersSince, PassOver, AdvanceChainCursor,
         PassFails, vars
<1> QED BY <1>1, <1>2, <1>3, <1>4, <1>5, <1>6 DEF Next

\* The chain only grows, and a transfer for an intent carries its amount.
Sent(row) ==
    /\ chain' = Append(chain, row)
    /\ row.payer \in Intents =>
          /\ status[row.payer] # "none" /\ amount[row.payer] = row.amount
          /\ created[row.payer] <= row.ts

\* Transfers are added to the chain and never change.
LEMMA ChainGrows ==
    BaseInv /\ [Next]_vars =>
        /\ chain' = chain \/ \E row \in Transfer : Sent(row)
        /\ \A t \in DOMAIN chain : t \in DOMAIN chain' /\ chain'[t] = chain[t]
<1> SUFFICES ASSUME BaseInv, [Next]_vars
             PROVE  /\ chain' = chain \/ \E row \in Transfer : Sent(row)
                    /\ \A t \in DOMAIN chain : t \in DOMAIN chain' /\ chain'[t] = chain[t]
  OBVIOUS
<1>0. TypeOK /\ \A i \in Intents : created[i] <= clock
  BY DEF BaseInv
<1>1. ASSUME NEW row \in Transfer, Sent(row)
      PROVE  \A t \in DOMAIN chain : t \in DOMAIN chain' /\ chain'[t] = chain[t]
  BY <1>0, <1>1 DEF TypeOK, Sent
<1>2. ASSUME NEW i \in Intents, Pay(i) PROVE \E row \in Transfer : Sent(row)
  <2> DEFINE row == [to |-> "us", amount |-> amount[i], ts |-> clock, payer |-> i]
  <2>1. row \in Transfer
    BY <1>0 DEF TypeOK, Transfer
  <2>2. chain' = Append(chain, row) /\ status[i] # "none"
    BY <1>2 DEF Pay, Appended
  <2>3. row.ts = clock /\ row.payer = i /\ row.amount = amount[i]
    OBVIOUS
  <2> HIDE DEF row
  <2> QED BY <1>0, <2>1, <2>2, <2>3 DEF Sent
<1>3. ASSUME NEW to \in {"us", "elsewhere"}, Unrelated(to)
      PROVE  \E row \in Transfer : Sent(row)
  <2> DEFINE row == [to |-> to, amount |-> Dust, ts |-> clock, payer |-> NoIntent]
  <2>1. row \in Transfer /\ NoIntent \notin Intents
    BY <1>0, DepositAssumption DEF TypeOK, Transfer
  <2>2. chain' = Append(chain, row)
    BY <1>3 DEF Unrelated, Appended
  <2>3. row.payer = NoIntent
    OBVIOUS
  <2> HIDE DEF row
  <2> QED BY <2>1, <2>2, <2>3 DEF Sent
<1>4. (\/ \E i \in Intents, want \in Wants, now \in NowRange : SelfDeposit(i, want, now)
       \/ \E now \in NowRange : SweepDeposits(now)
       \/ \E i \in Intents : CreditDeposit(i)
       \/ Solidify \/ TransfersSince \/ PassOver \/ AdvanceChainCursor \/ PassFails \/ Tick
       \/ UNCHANGED vars) => chain' = chain
  BY DEF SelfDeposit, SweepDeposits, CreditDeposit, Solidify, TransfersSince, PassOver,
         AdvanceChainCursor, PassFails, Tick, vars, chainVars
<1> QED BY <1>1, <1>2, <1>3, <1>4 DEF Next

\* A transfer stays one that was sent after its intent was opened.
LEMMA PayersStep == BaseInv /\ [Next]_vars => PayersOpened'
<1> SUFFICES ASSUME BaseInv, [Next]_vars, NEW t \in DOMAIN chain', chain'[t].payer \in Intents
             PROVE  /\ status'[chain'[t].payer] # "none"
                    /\ amount'[chain'[t].payer] = chain'[t].amount
                    /\ created'[chain'[t].payer] <= chain'[t].ts
  BY DEF PayersOpened
<1>1. Steady
  BY SteadyStep
<1>2. CASE t \in DOMAIN chain
  BY <1>1, <1>2, ChainGrows DEF BaseInv, PayersOpened, Steady
<1>3. CASE t \notin DOMAIN chain
  <2>1. PICK row \in Transfer : Sent(row)
    BY <1>3, ChainGrows
  <2>2. chain'[t] = row
    BY <1>3, <2>1 DEF Sent, BaseInv, TypeOK
  <2> QED BY <1>1, <2>1, <2>2 DEF Steady, Sent
<1> QED BY <1>2, <1>3

\* The page of a scan stays on the chain.
LEMMA PageStep == BaseInv /\ [Next]_vars => PageOnChain'
<1> SUFFICES ASSUME BaseInv, [Next]_vars PROVE PageOnChain'
  OBVIOUS
<1>0. /\ TypeOK /\ PageOnChain
      /\ scan.next \in Nat /\ scan.last \in Nat
  BY DEF BaseInv, TypeOK, Scan
<1>1. Len(chain') \in Nat /\ Len(chain) <= Len(chain')
  <2>1. CASE chain' = chain
    BY <1>0, <2>1 DEF TypeOK
  <2>2. ASSUME NEW row \in Transfer, Sent(row) PROVE Len(chain') = Len(chain) + 1
    BY <1>0, <2>2 DEF TypeOK, Sent
  <2> QED BY <1>0, <2>1, <2>2, ChainGrows DEF TypeOK
<1>2. CASE UNCHANGED <<scan, solid>>
  BY <1>0, <1>1, <1>2 DEF PageOnChain, TypeOK
<1>3. CASE Solidify
  BY <1>0, <1>3 DEF Solidify, PageOnChain, TypeOK
<1>4. CASE scan'.pc # "page" /\ solid' = solid
  BY <1>0, <1>1, <1>4 DEF PageOnChain, TypeOK
<1>5. ASSUME NEW first \in Page, NEW last \in Page, first <= last, TransfersSince,
             scan' = [pc |-> "page", from |-> cursor, next |-> first, last |-> last,
                      newest |-> chain[last].ts]
      PROVE  PageOnChain'
  <2>1. first \in 1..solid /\ last \in 1..solid
    BY DEF Page
  <2>2. scan'.next = first /\ scan'.last = last /\ chain' = chain /\ solid' = solid
    BY <1>5 DEF TransfersSince, chainVars
  <2> QED BY <1>0, <1>5, <2>1, <2>2 DEF PageOnChain, TypeOK
<1>6. CASE TransfersSince
  <2>1. scan' = Idle => scan'.pc # "page"
    BY DEF Idle
  <2>2. solid' = solid
    BY <1>6 DEF TransfersSince, chainVars
  <2> QED BY <1>4, <1>5, <1>6, <2>1, <2>2 DEF TransfersSince
<1>7. CASE scan.pc = "page" /\ scan' = PastRow /\ UNCHANGED chainVars
  <2>1. scan'.pc = "page" => scan.next # scan.last
    BY <1>7 DEF PastRow
  <2>2. scan'.next = scan.next + 1 /\ scan'.last = scan.last
    BY <1>7 DEF PastRow
  <2> QED BY <1>0, <1>7, <2>1, <2>2 DEF PageOnChain, chainVars
<1>8. (PassOver \/ \E i \in Intents : CreditDeposit(i)) =>
          scan.pc = "page" /\ scan' = PastRow /\ UNCHANGED chainVars
  BY DEF PassOver, CreditDeposit
<1>9. (AdvanceChainCursor \/ PassFails \/ \E now \in NowRange : SweepDeposits(now)) =>
          scan'.pc # "page" /\ solid' = solid
  BY DEF AdvanceChainCursor, PassFails, SweepDeposits, Idle, chainVars
<1>10. (\/ \E i \in Intents, want \in Wants, now \in NowRange : SelfDeposit(i, want, now)
        \/ \E i \in Intents : Pay(i)
        \/ \E to \in {"us", "elsewhere"} : Unrelated(to)
        \/ Tick \/ UNCHANGED vars) => UNCHANGED <<scan, solid>>
  BY ZenonT(40) DEF SelfDeposit, Pay, Unrelated, Appended, Tick, vars, chainVars
<1> QED BY <1>2, <1>3, <1>4, <1>6, <1>7, <1>8, <1>9, <1>10 DEF Next

-----------------------------------------------------------------------------
\* Either the ledger and the set of settled intents stay as they are, or
\* CreditDeposit settles one more.
LEMMA LedgerSteps ==
    ASSUME BaseInv, [Next]_vars
    PROVE  \/ \E i \in Intents : CreditDeposit(i)
           \/ /\ ledger' = ledger
              /\ \A i \in Intents : status'[i] = "paid" <=> status[i] = "paid"
<1>0. TypeOK
  BY DEF BaseInv
<1>1. ASSUME NEW i \in Intents, NEW want \in Wants, NEW now \in NowRange,
             SelfDeposit(i, want, now)
      PROVE  ledger' = ledger /\ \A j \in Intents : status'[j] = "paid" <=> status[j] = "paid"
  <2>1. /\ status[i] = "none" /\ status'[i] = "pending"
        /\ \A j \in Intents \ {i} : status'[j] = Released(now)[j]
    BY <1>1, SelfDepositEffect
  <2> QED BY <1>1, <2>1 DEF SelfDeposit, Released, Open
<1>2. ASSUME NEW now \in NowRange, SweepDeposits(now)
      PROVE  ledger' = ledger /\ \A j \in Intents : status'[j] = "paid" <=> status[j] = "paid"
  BY <1>2, SweptEffect DEF SweepDeposits
<1>3. (\/ \E i \in Intents : Pay(i)
       \/ \E to \in {"us", "elsewhere"} : Unrelated(to)
       \/ Solidify \/ TransfersSince \/ PassOver \/ AdvanceChainCursor \/ PassFails \/ Tick
       \/ UNCHANGED vars) => ledger' = ledger /\ status' = status
  BY ZenonT(40) DEF Pay, Unrelated, Appended, Solidify, TransfersSince, PassOver, AdvanceChainCursor,
         PassFails, Tick, vars, intentVars
<1> QED BY <1>1, <1>2, <1>3 DEF Next

\* Credits are for transfers on the chain, and settle an intent once.
LEMMA LedgerStep == BaseInv /\ [Next]_vars => CreditsOnChain' /\ SettledOnce'
<1> SUFFICES ASSUME BaseInv, [Next]_vars PROVE CreditsOnChain' /\ SettledOnce'
  OBVIOUS
<1>0. TypeOK /\ CreditsOnChain /\ SettledOnce /\ Steady
  BY SteadyStep DEF BaseInv
<1>1. CASE /\ ledger' = ledger
           /\ \A i \in Intents : status'[i] = "paid" <=> status[i] = "paid"
  <2>1. CreditsOnChain'
    BY <1>0, <1>1, ChainGrows DEF CreditsOnChain
  <2>2. \A e \in ledger : e[2] \in Intents
    BY <1>0 DEF TypeOK
  <2> QED BY <1>0, <1>1, <2>1, <2>2 DEF SettledOnce, Steady, Settled
<1>2. ASSUME NEW i \in Intents, CreditDeposit(i) PROVE CreditsOnChain' /\ SettledOnce'
  <2> DEFINE t == scan.next
  <2>1. /\ ledger' = ledger \cup {<<t, i>>} /\ chain' = chain
        /\ status' = [status EXCEPT ![i] = "paid"] /\ txId' = [txId EXCEPT ![i] = t]
    BY <1>2 DEF CreditDeposit, chainVars
  <2>2. t \in DOMAIN chain
    <3>1. scan.pc = "page"
      BY <1>2 DEF CreditDeposit
    <3>2. scan.next \in Nat /\ scan.last \in Nat /\ chain \in Seq(Transfer)
      BY <1>0 DEF TypeOK, Scan
    <3>3. 1 <= scan.next /\ scan.next <= scan.last /\ scan.last <= Len(chain)
      BY <3>1 DEF BaseInv, PageOnChain
    <3> QED BY <3>2, <3>3
  <2>3. status[i] # "paid"
    BY <1>2 DEF CreditDeposit, Matching
  <2>4. \A j \in Intents : <<t, j>> \notin ledger
    BY <1>2 DEF CreditDeposit, AlreadyCredited
  <2>5. \A e \in ledger : e[2] \in Intents /\ e = <<e[1], e[2]>>
    BY <1>0 DEF TypeOK
  <2> HIDE DEF t
  <2>6. CreditsOnChain'
    BY <1>0, <2>1, <2>2 DEF CreditsOnChain
  <2>7. \A e \in ledger' : status'[e[2]] = "paid" /\ txId'[e[2]] = e[1]
    BY <1>0, <2>1, <2>3, <2>5 DEF SettledOnce, TypeOK
  <2>8. \A j \in Intents : status'[j] = "paid" => <<txId'[j], j>> \in ledger'
    BY <1>0, <2>1 DEF SettledOnce, TypeOK
  <2>9. \A d, e \in ledger' : d[1] = e[1] => d = e
    BY <1>0, <2>1, <2>4, <2>5 DEF SettledOnce
  <2> QED BY <2>6, <2>7, <2>8, <2>9 DEF SettledOnce
<1> QED BY <1>1, <1>2, LedgerSteps

\* So every step keeps the basic invariant.
LEMMA BaseStep == BaseInv /\ [Next]_vars => BaseInv'
BY TypeStep, PayersStep, PageStep, LedgerStep, SteadyStep DEF BaseInv, Steady

-----------------------------------------------------------------------------
\* An intent's occupancy begins at most MaxDelay before it takes its amount, and
\* what had the amount before was past its own by then.
LEMMA OccupancyStep ==
    ASSUME BaseInv, OccupancyInv, [Next]_vars
    PROVE  OccupancyInv'
<1>0. /\ TypeOK /\ \A i \in Intents : created[i] <= clock
      /\ Window \in Nat /\ Hold \in Nat /\ MaxDelay \in Nat
  BY DepositAssumption DEF BaseInv
<1>1. ASSUME NEW i \in Intents, NEW want \in Wants, NEW now \in NowRange,
             SelfDeposit(i, want, now)
      PROVE  OccupancyInv'
  <2>1. PICK a \in Nat : /\ amount' = [amount EXCEPT ![i] = a]
                         /\ \A j \in Intents \ {i} : status'[j] \in Open => amount[j] # a
    BY <1>1, SelfDepositEffect
  <2>2. /\ status[i] = "none" /\ status'[i] = "pending"
        /\ \A j \in Intents \ {i} : status'[j] = Released(now)[j]
        /\ created' = [created EXCEPT ![i] = now]
    BY <1>1, SelfDepositEffect
  <2>3. now \in Nat /\ now <= clock /\ clock <= now + MaxDelay /\ clock' = clock
    BY <1>0, <1>1 DEF NowRange, SelfDeposit, TypeOK
  <2>4. \A j \in Intents \ {i} :
           /\ status'[j] \in Open => status[j] \in Open
           /\ status'[j] \in {"none", "paid"} <=> status[j] \in {"none", "paid"}
           /\ status'[j] = "released" => created[j] + Window + Hold <= clock
           /\ created'[j] = created[j] /\ amount'[j] = amount[j]
    BY <1>0, <2>1, <2>2, <2>3 DEF OccupancyInv, Released, HoldUntil, Open, TypeOK
  <2>5. created'[i] = now /\ amount'[i] = a /\ status'[i] = "pending"
    BY <1>0, <2>1, <2>2, <2>3 DEF TypeOK
  <2>6. \A j \in Intents : status'[j] \in Statuses
    BY <1>1, SelfDepositEffect
  <2>7. \A j, k \in Intents :
           j # k /\ status'[j] \in Open /\ status'[k] \in Open => amount'[j] # amount'[k]
    BY <2>1, <2>4, <2>5 DEF OccupancyInv
  <2>8. \A j \in Intents : status'[j] = "released" => HoldUntil(j)' <= clock'
    BY <2>3, <2>4, <2>5 DEF HoldUntil
  <2>9. \A j \in Intents \ {i} :
           amount'[j] = a /\ status'[j] \notin {"none", "paid"} =>
               HoldUntil(j)' <= created'[i] + MaxDelay
    <3>1. ASSUME NEW j \in Intents \ {i}, amount'[j] = a, status'[j] \notin {"none", "paid"}
          PROVE  HoldUntil(j)' <= created'[i] + MaxDelay
      <4>1. status'[j] = "released"
        BY <2>1, <2>4, <2>6, <3>1 DEF Open, Statuses
      <4>2. created[j] + Window + Hold <= clock /\ created'[j] = created[j]
        BY <2>4, <4>1
      <4>3. created[j] \in Nat /\ clock \in Nat
        BY <1>0 DEF TypeOK
      <4> QED BY <1>0, <2>3, <2>5, <4>2, <4>3 DEF HoldUntil
    <3> QED BY <3>1
  <2>10. OccupanciesBarelyMeet'
    <3> SUFFICES ASSUME NEW j \in Intents, NEW k \in Intents, j # k, amount'[j] = amount'[k],
                        status'[j] \notin {"none", "paid"}, status'[k] \notin {"none", "paid"}
                 PROVE  \/ HoldUntil(j)' <= created'[k] + MaxDelay
                        \/ HoldUntil(k)' <= created'[j] + MaxDelay
      BY DEF OccupanciesBarelyMeet
    <3>1. CASE j = i \/ k = i
      BY <2>5, <2>9, <3>1
    <3>2. CASE j # i /\ k # i
      BY <2>4, <3>2 DEF OccupancyInv, OccupanciesBarelyMeet, HoldUntil
    <3> QED BY <3>1, <3>2
  <2> QED BY <2>7, <2>8, <2>10 DEF OccupancyInv
<1>2. CASE UNCHANGED <<intentVars, clock>>
  BY <1>2 DEF OccupancyInv, OccupanciesBarelyMeet, HoldUntil, intentVars
<1>3. ASSUME NEW now \in NowRange, SweepDeposits(now) PROVE OccupancyInv'
  <2>1. /\ now <= clock /\ now \in Nat
        /\ \A i \in Intents :
              /\ status'[i] \in Open => status[i] \in Open
              /\ status'[i] \in {"none", "paid"} <=> status[i] \in {"none", "paid"}
              /\ status'[i] = "released" => status[i] = "released" \/ HoldUntil(i) <= now
    BY <1>3, SweptEffect DEF SweepDeposits
  <2>2. amount' = amount /\ created' = created /\ clock' = clock
    BY <1>3 DEF SweepDeposits
  <2> QED BY <1>0, <2>1, <2>2 DEF OccupancyInv, OccupanciesBarelyMeet, HoldUntil, TypeOK
<1>4. ASSUME NEW i \in Intents, CreditDeposit(i) PROVE OccupancyInv'
  <2>1. /\ status' = [status EXCEPT ![i] = "paid"]
        /\ amount' = amount /\ created' = created /\ clock' = clock
    BY <1>4 DEF CreditDeposit
  <2>2. \A j \in Intents : status'[j] = status[j] \/ status'[j] = "paid"
    BY <1>0, <2>1 DEF TypeOK
  <2> QED BY <2>1, <2>2, SMTT(40) DEF OccupancyInv, OccupanciesBarelyMeet, HoldUntil, Open
<1>5. CASE Tick
  BY <1>0, <1>5 DEF Tick, OccupancyInv, OccupanciesBarelyMeet, HoldUntil, TypeOK, intentVars
<1>6. (\/ \E i \in Intents : Pay(i)
       \/ \E to \in {"us", "elsewhere"} : Unrelated(to)
       \/ Solidify \/ TransfersSince \/ PassOver \/ AdvanceChainCursor \/ PassFails
       \/ UNCHANGED vars) => UNCHANGED <<intentVars, clock>>
  BY ZenonT(40) DEF Pay, Unrelated, Appended, Solidify, TransfersSince, PassOver, AdvanceChainCursor,
         PassFails, vars
<1> QED BY <1>1, <1>2, <1>3, <1>4, <1>5, <1>6 DEF Next

\* A credit goes to the intent whose payer sent the transfer.
LEMMA PayerStep ==
    ASSUME BaseInv, OccupancyInv, CreditedToPayer, [Next]_vars
    PROVE  CreditedToPayer'
<1>0. /\ TypeOK /\ CreditsOnChain /\ PayersOpened /\ Steady
      /\ Window \in Nat /\ Hold \in Nat /\ MaxDelay \in Nat
  BY SteadyStep, DepositAssumption DEF BaseInv
<1> SUFFICES ASSUME NEW e \in ledger', InGoodTime(e[1])', e[2] # chain'[e[1]].payer
             PROVE  status'[chain'[e[1]].payer] = "paid"
  BY DEF CreditedToPayer
<1>p. PICK p \in Intents : /\ p = chain'[e[1]].payer
                            /\ chain'[e[1]].ts + MaxDelay < created'[p] + Window + Hold
  BY DEF InGoodTime, HoldUntil
<1>1. ASSUME e \in ledger PROVE status'[p] = "paid"
  <2>1. e[1] \in DOMAIN chain /\ chain'[e[1]] = chain[e[1]]
    BY <1>0, <1>1, ChainGrows DEF CreditsOnChain
  <2>2. status[p] # "none"
    BY <1>0, <1>p, <2>1 DEF PayersOpened
  <2>3. created'[p] = created[p]
    BY <1>0, <2>2 DEF Steady
  <2>4. InGoodTime(e[1])
    BY <1>p, <2>1, <2>3 DEF InGoodTime, HoldUntil
  <2>5. status[p] = "paid"
    BY <1>1, <1>p, <2>1, <2>4 DEF CreditedToPayer
  <2> QED BY <1>0, <2>5 DEF Steady, Settled
<1>2. ASSUME NEW i \in Intents, CreditDeposit(i), e \notin ledger
      PROVE  status'[p] = "paid"
  <2>1. /\ e = <<scan.next, i>> /\ chain' = chain /\ created' = created
        /\ i \in Matching(chain[scan.next].amount, chain[scan.next].ts)
        /\ \A j \in Matching(chain[scan.next].amount, chain[scan.next].ts) : created[j] <= created[i]
    BY <1>2 DEF CreditDeposit, chainVars
  <2>2. e[1] = scan.next /\ e[2] = i /\ scan.next \in DOMAIN chain
    <3>1. scan.pc = "page"
      BY <1>2 DEF CreditDeposit
    <3>2. scan.next \in Nat /\ scan.last \in Nat /\ chain \in Seq(Transfer)
      BY <1>0 DEF TypeOK, Scan
    <3>3. 1 <= scan.next /\ scan.next <= scan.last /\ scan.last <= Len(chain)
      BY <3>1 DEF BaseInv, PageOnChain
    <3> QED BY <2>1, <3>2, <3>3, SMTT(40)
  <2>3. p # i /\ chain[e[1]].ts + MaxDelay < HoldUntil(p)
    BY <1>p, <2>1, <2>2 DEF HoldUntil
  <2>4. status[p] # "none" /\ amount[p] = chain[e[1]].amount /\ created[p] <= chain[e[1]].ts
    BY <1>0, <1>p, <2>1, <2>2 DEF PayersOpened
  <2>5. /\ status[i] \notin {"none", "paid"} /\ amount[i] = chain[e[1]].amount
        /\ created[i] <= chain[e[1]].ts /\ chain[e[1]].ts < HoldUntil(i)
    BY <2>1, <2>2 DEF Matching
  <2>6. /\ chain[e[1]].ts \in Int /\ created[p] \in Int /\ created[i] \in Int
        /\ HoldUntil(p) \in Int /\ HoldUntil(i) \in Int
    <3>1. chain[e[1]] \in Transfer
      BY <1>0, <2>2 DEF TypeOK
    <3>2. chain[e[1]].ts \in Nat
      BY <3>1 DEF Transfer
    <3> QED BY <1>0, <3>2, SMTT(40) DEF TypeOK, HoldUntil
  <2>7. status[p] = "paid"
    <3> SUFFICES ASSUME status[p] # "paid" PROVE FALSE
      OBVIOUS
    <3>1. OccupanciesBarelyMeet
      BY DEF OccupancyInv
    <3>2. HoldUntil(p) <= created[i] + MaxDelay \/ HoldUntil(i) <= created[p] + MaxDelay
      BY <2>3, <2>4, <2>5, <3>1 DEF OccupanciesBarelyMeet
    <3>3. p \in Matching(chain[e[1]].amount, chain[e[1]].ts)
      <4>1. chain[e[1]].ts < HoldUntil(p)
        BY <1>0, <2>3, <2>6
      <4> QED BY <2>4, <4>1 DEF Matching
    <3>4. HoldUntil(p) <= HoldUntil(i)
      <4>1. created[p] <= created[i]
        BY <2>1, <2>2, <3>3
      <4> QED BY <1>0, <2>6, <4>1 DEF HoldUntil
    <3> QED BY <1>0, <2>3, <2>4, <2>5, <2>6, <3>2, <3>4
  <2> QED BY <1>0, <2>7, SMTT(40) DEF Steady, Settled
<1> QED BY <1>p, <1>1, <1>2, LedgerSteps

-----------------------------------------------------------------------------
\* Block times never decrease and never lie ahead of the clock.
ChainOrdered ==
    /\ \A t, u \in DOMAIN chain : t <= u => chain[t].ts <= chain[u].ts
    /\ \A t \in DOMAIN chain : chain[t].ts <= clock

\* What is before the page's next row has been judged, by this pass or by an
\* earlier one, and the pass carries the block time of the page's last row.
PageJudged ==
    /\ scan.pc \in {"page", "advance"} =>
          /\ scan.last \in DOMAIN chain /\ scan.newest = chain[scan.last].ts
          /\ \A t \in DOMAIN chain : t < scan.next => t \in judged
    /\ scan.pc = "advance" => scan.next = scan.last + 1

\* The chain is in the order of time, the watermark is not ahead of the clock, and
\* what the scan has passed was judged.
WatermarkInv ==
    ChainOrdered /\ cursor <= clock /\ PageJudged /\ WatermarkPassesOnlyJudged

\* A row that has been on the chain is not moved by later ones.
LEMMA RowTimes ==
    ASSUME TypeOK
    PROVE  /\ DOMAIN chain = 1..Len(chain) /\ Len(chain) \in Nat
           /\ \A t \in DOMAIN chain : t \in Nat /\ chain[t].ts \in Nat
<1>1. chain \in Seq(Transfer)
  BY DEF TypeOK
<1>2. DOMAIN chain = 1..Len(chain) /\ Len(chain) \in Nat /\ \A t \in DOMAIN chain : chain[t] \in Transfer
  BY <1>1
<1> QED BY <1>2 DEF Transfer

\* TransfersSince returns the oldest rows at or after the watermark: a visible
\* row before the page's first one lies below the watermark.
LEMMA PageIsOldest ==
    ASSUME TypeOK, PageOnChain, NEW first \in Page, \A t \in Page : first <= t,
           NEW t \in 1..solid, t < first
    PROVE  chain[t].ts < cursor
<1> DEFINE rows == {u \in 1..solid : chain[u].ts >= cursor}
           Before(v) == {u \in rows : u < v}
<1>0. cursor \in Nat /\ solid \in Nat /\ chain[t].ts \in Nat /\ PageLimit \in Nat
  <2>1. t \in DOMAIN chain
    BY RowTimes DEF TypeOK, PageOnChain
  <2> QED BY <2>1, RowTimes, DepositAssumption, ZenonT(40) DEF TypeOK
<1>1. first \in 1..solid /\ Cardinality(Before(first)) < PageLimit
  BY DEF Page
<1>2. IsFiniteSet(Before(first))
  <2>1. IsFiniteSet(1..solid)
    BY <1>0, FS_Interval
  <2> QED BY <2>1, FS_Subset, ZenonT(40)
<1>3. Before(t) \subseteq Before(first)
  BY <1>1, <1>0
<1>4. /\ Cardinality(Before(t)) <= Cardinality(Before(first))
      /\ Cardinality(Before(t)) \in Nat /\ Cardinality(Before(first)) \in Nat
  BY <1>2, <1>3, FS_Subset, FS_CardinalityType
<1>5. t \in rows => t \in Page
  <2>1. Cardinality(Before(t)) < PageLimit
    BY <1>0, <1>1, <1>4
  <2> QED BY <2>1 DEF Page
<1>6. t \notin rows
  BY <1>0, <1>1, <1>5
<1> QED BY <1>0, <1>6

\* When the rows before v are done with, a watermark raised to v's block time
\* passes nothing else.
LEMMA RaisedTo ==
    ASSUME TypeOK, ChainOrdered, NEW v \in DOMAIN chain, NEW done,
           \A t \in DOMAIN chain : t < v => t \in done
    PROVE  \A t \in DOMAIN chain : chain[t].ts < chain[v].ts => t \in done
<1>1. ASSUME NEW t \in DOMAIN chain, chain[t].ts < chain[v].ts PROVE t < v
  BY <1>1, RowTimes DEF ChainOrdered
<1> QED BY <1>1

\* The watermark starts below every transfer.
LEMMA InitWatermark == Init => WatermarkInv
BY DEF Init, WatermarkInv, ChainOrdered, PageJudged, WatermarkPassesOnlyJudged, Idle

\* Every step leaves only judged transfers behind.
LEMMA WatermarkStep ==
    ASSUME BaseInv, WatermarkInv, [Next]_vars
    PROVE  WatermarkInv'
<1>0. /\ TypeOK /\ PageOnChain /\ ChainOrdered /\ cursor <= clock
      /\ PageJudged /\ WatermarkPassesOnlyJudged
      /\ clock \in Nat /\ cursor \in Nat /\ solid \in Nat
      /\ scan.next \in Nat /\ scan.last \in Nat
  BY DEF BaseInv, WatermarkInv, TypeOK, Scan
<1>1. /\ DOMAIN chain = 1..Len(chain) /\ Len(chain) \in Nat
      /\ \A t \in DOMAIN chain : t \in Nat /\ chain[t].ts \in Nat
  BY <1>0, RowTimes
<1>2. ASSUME NEW row \in Transfer, row.ts = clock, Appended(row) PROVE WatermarkInv'
  <2>1. /\ chain' = Append(chain, row)
        /\ UNCHANGED <<clock, solid, cursor, scan, judged>>
    BY <1>2 DEF Appended
  <2>2. /\ DOMAIN chain' = 1..(Len(chain) + 1) /\ chain'[Len(chain) + 1].ts = clock
        /\ \A t \in DOMAIN chain : chain'[t] = chain[t]
    BY <1>0, <1>2, <2>1 DEF TypeOK
  <2>3. \A t \in DOMAIN chain' : t \in DOMAIN chain \/ t = Len(chain) + 1
    BY <1>1, <2>2
  <2>4. ChainOrdered'
    BY <1>0, <1>1, <2>1, <2>2, <2>3 DEF ChainOrdered
  <2>5. PageJudged'
    <3>1. scan.pc \in {"page", "advance"} => scan.next <= Len(chain) + 1
      BY <1>0, <1>1 DEF PageOnChain, PageJudged
    <3>2. scan.pc \in {"page", "advance"} =>
             \A t \in DOMAIN chain' : t < scan.next => t \in judged
      BY <1>0, <1>1, <2>3, <3>1 DEF PageJudged
    <3>3. scan.pc \in {"page", "advance"} =>
             scan.last \in DOMAIN chain' /\ scan.newest = chain'[scan.last].ts
      BY <1>0, <1>1, <2>2 DEF PageJudged
    <3> QED BY <1>0, <2>1, <3>2, <3>3 DEF PageJudged
  <2>6. WatermarkPassesOnlyJudged'
    BY <1>0, <1>1, <2>1, <2>2, <2>3 DEF WatermarkPassesOnlyJudged
  <2> QED BY <1>0, <2>1, <2>4, <2>5, <2>6 DEF WatermarkInv
<1>3. ASSUME NEW i \in Intents, Pay(i) PROVE WatermarkInv'
  <2> DEFINE row == [to |-> "us", amount |-> amount[i], ts |-> clock, payer |-> i]
  <2>1. row \in Transfer /\ row.ts = clock
    BY <1>0 DEF TypeOK, Transfer
  <2>2. Appended(row)
    BY <1>3 DEF Pay
  <2> HIDE DEF row
  <2> QED BY <1>2, <2>1, <2>2
<1>4. ASSUME NEW to \in {"us", "elsewhere"}, Unrelated(to) PROVE WatermarkInv'
  <2> DEFINE row == [to |-> to, amount |-> Dust, ts |-> clock, payer |-> NoIntent]
  <2>1. row \in Transfer /\ row.ts = clock
    BY <1>0, DepositAssumption DEF TypeOK, Transfer
  <2>2. Appended(row)
    BY <1>4 DEF Unrelated
  <2> HIDE DEF row
  <2> QED BY <1>2, <2>1, <2>2
<1>5. CASE UNCHANGED <<clock, chain, cursor, scan, judged>>
  BY <1>0, <1>5 DEF WatermarkInv, ChainOrdered, PageJudged, WatermarkPassesOnlyJudged
<1>6. CASE Tick
  <2>1. clock' = clock + 1 /\ UNCHANGED <<chain, cursor, scan, judged>>
    BY <1>6 DEF Tick, chainVars
  <2> QED BY <1>0, <1>1, <2>1
          DEF WatermarkInv, ChainOrdered, PageJudged, WatermarkPassesOnlyJudged
<1>7. CASE scan'.pc \notin {"page", "advance"} /\ UNCHANGED <<clock, chain, cursor, judged>>
  BY <1>0, <1>7 DEF WatermarkInv, ChainOrdered, PageJudged, WatermarkPassesOnlyJudged
<1>8. CASE TransfersSince
  <2>1. UNCHANGED <<clock, chain, cursor, judged>>
    BY <1>8 DEF TransfersSince, chainVars
  <2>2. CASE scan' = Idle
    BY <1>7, <2>1, <2>2 DEF Idle
  <2>3. ASSUME NEW first \in Page, NEW last \in Page, \A t \in Page : first <= t,
               scan' = [pc |-> "page", from |-> cursor, next |-> first, last |-> last,
                        newest |-> chain[last].ts]
        PROVE  WatermarkInv'
    <3>1. /\ scan'.pc = "page" /\ scan'.next = first /\ scan'.last = last
          /\ scan'.newest = chain[last].ts
      BY <2>3
    <3>2. first \in 1..solid /\ last \in 1..solid /\ solid <= Len(chain)
      BY <1>0 DEF Page, PageOnChain
    <3>3. ASSUME NEW t \in DOMAIN chain, t < first PROVE t \in judged
      <4>1. t \in 1..solid
        BY <1>0, <1>1, <3>2, <3>3
      <4>2. chain[t].ts < cursor
        BY <1>0, <2>3, <3>3, <4>1, PageIsOldest
      <4> QED BY <1>0, <4>2 DEF WatermarkPassesOnlyJudged
    <3>4. last \in DOMAIN chain
      BY <1>0, <1>1, <3>2
    <3>5. PageJudged'
      BY <2>1, <3>1, <3>3, <3>4 DEF PageJudged
    <3> QED BY <1>0, <2>1, <3>5 DEF WatermarkInv, ChainOrdered, WatermarkPassesOnlyJudged
  <2> QED BY <1>8, <2>2, <2>3 DEF TransfersSince
<1>9. CASE /\ scan.pc = "page" /\ scan' = PastRow /\ judged' = judged \cup {scan.next}
           /\ UNCHANGED <<clock, chain>>
           /\ cursor' = cursor \/ cursor' = Bigger(cursor, chain[scan.next].ts)
  <2>1. /\ scan'.next = scan.next + 1 /\ scan'.last = scan.last /\ scan'.newest = scan.newest
        /\ scan'.pc = "advance" => scan.next = scan.last
    BY <1>9 DEF PastRow
  <2>2. scan.next \in DOMAIN chain
    BY <1>0, <1>1, <1>9 DEF PageOnChain
  <2>3. \A t \in DOMAIN chain : t < scan.next + 1 => t \in judged'
    BY <1>0, <1>1, <1>9 DEF PageJudged
  <2>4. PageJudged'
    BY <1>0, <1>9, <2>1, <2>3 DEF PageJudged
  <2>5. chain[scan.next].ts \in Nat /\ chain[scan.next].ts <= clock
    BY <1>0, <1>1, <2>2 DEF ChainOrdered
  <2>6. \A t \in DOMAIN chain : chain[t].ts < chain[scan.next].ts => t \in judged'
    <3>1. \A t \in DOMAIN chain : t < scan.next => t \in judged'
      BY <1>0, <1>1, <2>3
    <3> QED BY <1>0, <2>2, <3>1, RaisedTo
  <2>7. \A t \in DOMAIN chain : chain[t].ts < cursor => t \in judged'
    BY <1>0, <1>9 DEF WatermarkPassesOnlyJudged
  <2>8. cursor' \in {cursor, chain[scan.next].ts}
    BY <1>9 DEF Bigger
  <2>9. WatermarkPassesOnlyJudged' /\ cursor' <= clock'
    BY <1>0, <1>9, <2>5, <2>6, <2>7, <2>8 DEF WatermarkPassesOnlyJudged
  <2> QED BY <1>0, <1>9, <2>4, <2>9 DEF WatermarkInv, ChainOrdered
<1>10. CASE AdvanceChainCursor
  <2>1. /\ scan' = Idle /\ UNCHANGED <<clock, chain, judged>> /\ scan.pc = "advance"
        /\ cursor' \in {cursor, scan.newest}
    BY <1>10 DEF AdvanceChainCursor, Bigger, chainVars
  <2>2. /\ scan.last \in DOMAIN chain /\ scan.newest = chain[scan.last].ts
        /\ scan.next = scan.last + 1
        /\ \A t \in DOMAIN chain : t < scan.next => t \in judged
    BY <1>0, <2>1 DEF PageJudged
  <2>3. \A t \in DOMAIN chain : t < scan.last => t \in judged'
    BY <1>0, <1>1, <2>1, <2>2
  <2>4. \A t \in DOMAIN chain : chain[t].ts < scan.newest => t \in judged'
    BY <1>0, <2>2, <2>3, RaisedTo
  <2>5. scan.newest <= clock
    BY <1>0, <2>2 DEF ChainOrdered
  <2>6. WatermarkPassesOnlyJudged' /\ cursor' <= clock'
    BY <1>0, <2>1, <2>4, <2>5 DEF WatermarkPassesOnlyJudged
  <2>7. PageJudged'
    BY <2>1 DEF PageJudged, Idle
  <2> QED BY <1>0, <2>1, <2>6, <2>7 DEF WatermarkInv, ChainOrdered
<1>11. PassOver => WatermarkInv'
  <2>1. PassOver => /\ scan.pc = "page" /\ scan' = PastRow /\ judged' = judged \cup {scan.next}
                    /\ UNCHANGED <<clock, chain, cursor>>
    BY DEF PassOver, chainVars
  <2> QED BY <1>9, <2>1
<1>12. ASSUME NEW i \in Intents, CreditDeposit(i) PROVE WatermarkInv'
  <2>1. /\ scan.pc = "page" /\ scan' = PastRow /\ judged' = judged \cup {scan.next}
        /\ UNCHANGED <<clock, chain>> /\ cursor' = Bigger(cursor, chain[scan.next].ts)
    BY <1>12 DEF CreditDeposit, chainVars
  <2> QED BY <1>9, <2>1, SMTT(40)
<1>13. (PassFails \/ \E now \in NowRange : SweepDeposits(now)) =>
          scan'.pc \notin {"page", "advance"} /\ UNCHANGED <<clock, chain, cursor, judged>>
  BY DEF PassFails, SweepDeposits, Idle, chainVars
<1>14. (\/ \E i \in Intents, want \in Wants, now \in NowRange : SelfDeposit(i, want, now)
        \/ Solidify \/ UNCHANGED vars) => UNCHANGED <<clock, chain, cursor, scan, judged>>
  BY DEF SelfDeposit, Solidify, vars, chainVars
<1> QED BY <1>3, <1>4, <1>5, <1>6, <1>7, <1>8, <1>10, <1>11, <1>12, <1>13, <1>14 DEF Next

-----------------------------------------------------------------------------
\* The rows, the watermark, the chain and the scanner's page keep their types.
THEOREM DepositTypes == Spec => []TypeOK
<1>1. Init => BaseInv
  BY InitBase
<1>2. BaseInv => TypeOK
  BY DEF BaseInv
<1> QED BY <1>1, <1>2, BaseStep, PTL DEF Spec

\* CreditDeposit credits no intent twice, no transaction twice, and settles an
\* intent exactly when it credits it, for any chain, page size and failures.
THEOREM CreditedExactlyOnce == Spec => []SettledOnce
<1>1. Init => BaseInv
  BY InitBase
<1>2. BaseInv => SettledOnce
  BY DEF BaseInv
<1> QED BY <1>1, <1>2, BaseStep, PTL DEF Spec

\* However long a request waits for the write lock after it has read the clock
\* (SelfDeposit, InsertDepositIntent), the occupancies of an amount overlap by
\* that wait at most, and a transfer sent before the last instants of its payer's
\* occupancy that such a wait can blur is credited to its payer.
THEOREM CreditReachesPayer == Spec => [](OccupanciesBarelyMeet /\ CreditedToPayer)
<1> DEFINE PayerInv == BaseInv /\ OccupancyInv /\ CreditedToPayer
<1>1. Init => PayerInv
  BY InitBase
<1>2. PayerInv /\ [Next]_vars => PayerInv'
  BY BaseStep, OccupancyStep, PayerStep
<1>3. PayerInv => OccupanciesBarelyMeet /\ CreditedToPayer
  BY DEF OccupancyInv
<1> QED BY <1>1, <1>2, <1>3, PTL DEF Spec

\* ScanDeposits never moves the watermark past a transfer that no pass has
\* judged: for any chain, page limit, crash, failed query or failed write, the
\* next pass reads again every row that was not dealt with.
THEOREM NothingIsSkipped == Spec => []WatermarkPassesOnlyJudged
<1> DEFINE SkipInv == BaseInv /\ WatermarkInv
<1>1. Init => SkipInv
  BY InitBase, InitWatermark
<1>2. SkipInv /\ [Next]_vars => SkipInv'
  BY BaseStep, WatermarkStep
<1>3. SkipInv => WatermarkPassesOnlyJudged
  BY DEF WatermarkInv
<1> QED BY <1>1, <1>2, <1>3, PTL DEF Spec
=============================================================================

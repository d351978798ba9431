--------------------------- MODULE BillingProofs ----------------------------
(***************************************************************************)
(* Billing for any number of rows, requests, codes, days and movements.    *)
(* With the operator's stale writes included: the types, with at most one  *)
(* active row, the balance as the sum of the ledger, one movement per      *)
(* request, and every redeem code paid as often as its counter says.       *)
(* Without them: every period of a row is paid exactly once.  The sweep's  *)
(* window is an action property: a row it renews was due when it was read, *)
(* and the period it pays for is the one it read.                          *)
(***************************************************************************)
EXTENDS Billing, TLAPS, FiniteSetTheorems

\* The time the provers get for a leaf that does not say otherwise.
USE SMTT(30), ZenonT(30)

\* What a step may do to the money.
Moves ==
    \E e \in Entry :
        /\ balance' = balance + e.delta /\ e.after = balance'
        /\ ledger' = Append(ledger, e)
        /\ ~ Settled(e.request)

\* A move of the wallet books one entry for an unsettled request.
LEMMA MoveMoves ==
    ASSUME TypeOK, NEW delta \in Int, NEW reason \in {"admin_adjust", "redeem", "purchase", "renew"},
           NEW ref \in SubIds \cup Codes \cup {NoSub}, NEW now \in Nat,
           NEW req \in {NoRequest} \cup {ClientRequest(r) : r \in Requests} \cup ({"renew"} \X SubIds \X Nat),
           MayMove(delta), Move(delta, reason, ref, req, now), ~ Settled(req)
    PROVE  Moves
<1> DEFINE e == [delta |-> delta, after |-> balance + delta, reason |-> reason,
                 ref |-> ref, request |-> req, at |-> now]
<1>1. balance \in Nat /\ balance + delta \in Nat
  BY DEF TypeOK, MayMove
<1>2. e \in Entry
  BY <1>1 DEF Entry
<1>3. /\ balance' = balance + e.delta /\ e.after = balance'
      /\ ledger' = Append(ledger, e) /\ ~ Settled(e.request)
  BY DEF Move
<1> HIDE DEF e
<1> QED BY <1>2, <1>3 DEF Moves

\* A move without a request is never taken for settled.
LEMMA NoRequestUnsettled == ~ Settled(NoRequest)
BY DEF Settled

\* What a read holds.
LEMMA ReadsAreRows ==
    ASSUME NEW s \in Read, s # Nothing
    PROVE  s.id \in SubIds /\ s.row \in Row /\ s.now \in Nat /\ s.row.idx \in Nat
BY DEF Read, Row

\* A renewal books one entry or leaves the money alone.
LEMMA RenewMoves ==
    ASSUME TypeOK, NEW s \in Read, s # Nothing,
           NEW req \in {ClientRequest(r) : r \in Requests} \cup ({"renew"} \X SubIds \X Nat),
           RenewSubscriptionWithBalance(s, s.now, req)
    PROVE  Moves \/ UNCHANGED <<balance, ledger>>
<1>1. s.id \in SubIds /\ s.now \in Nat
  BY ReadsAreRows
<1>2. -Price \in Int
  BY BillingAssumption
<1>3. CASE ~ Settled(req) /\ MayMove(-Price) /\ Extends(s)
  <2>1. Move(-Price, "renew", s.id, req, s.now)
    BY <1>3 DEF RenewSubscriptionWithBalance
  <2> QED BY <1>1, <1>2, <1>3, <2>1, MoveMoves
<1>4. CASE ~ (~ Settled(req) /\ MayMove(-Price) /\ Extends(s))
  BY <1>4 DEF RenewSubscriptionWithBalance
<1> QED BY <1>3, <1>4

\* Every step either leaves balance and ledger alone or moves both by one entry
\* whose request is not settled yet.
LEMMA StepMoves ==
    ASSUME TypeOK, [Next]_vars
    PROVE  Moves \/ UNCHANGED <<balance, ledger>>
<1>1. CASE \E delta \in Adjustments : AdjustBalance(delta)
  <2> PICK delta \in Adjustments : AdjustBalance(delta)
    BY <1>1
  <2>1. delta \in Int /\ clock \in Nat /\ MayMove(delta) /\ Move(delta, "admin_adjust", NoSub, NoRequest, clock)
    BY BillingAssumption DEF AdjustBalance, TypeOK
  <2> QED BY <2>1, MoveMoves, NoRequestUnsettled, ZenonT(40)
<1>2. CASE \E c \in Codes : Redeem(c)
  <2> PICK c \in Codes : Redeem(c)
    BY <1>2
  <2>1. CodeAmount \in Int /\ clock \in Nat /\ MayMove(CodeAmount) /\ Move(CodeAmount, "redeem", c, NoRequest, clock)
    BY BillingAssumption DEF Redeem, TypeOK
  <2> QED BY <2>1, MoveMoves, NoRequestUnsettled
<1>3. CASE \E r \in Requests, id \in SubIds : SelfPurchase(r, id)
  <2> PICK r \in Requests, id \in SubIds : SelfPurchase(r, id)
    BY <1>3
  <2>1. -Price \in Int /\ clock \in Nat
    BY BillingAssumption DEF TypeOK
  <2>2. MayMove(-Price) /\ Move(-Price, "purchase", NoSub, ClientRequest(r), clock) /\ ~ Settled(ClientRequest(r))
    BY DEF SelfPurchase
  <2> QED BY <2>1, <2>2, MoveMoves
<1>4. CASE \E r \in Requests : SelfRenew(r)
  <2> PICK r \in Requests : SelfRenew(r)
    BY <1>4
  <2>1. client[r] \in Read /\ client[r] # Nothing
    BY DEF SelfRenew, TypeOK
  <2> QED BY <2>1, RenewMoves DEF SelfRenew
<1>5. CASE SweepRenew
  <2>1. sweep \in Read /\ sweep # Nothing
    BY <1>5 DEF SweepRenew, TypeOK
  <2>2. renewalRequestID(sweep) \in {"renew"} \X SubIds \X Nat
    BY <2>1, ReadsAreRows DEF renewalRequestID
  <2> QED BY <1>5, <2>1, <2>2, RenewMoves DEF SweepRenew
<1>6. CASE \/ \E c \in Codes : CreateRedeemCodes(c) \/ DeleteRedeemCode(c)
           \/ \E r \in Requests, id \in SubIds : SelfRenewRead(r, id)
           \/ \E id \in SubIds, auto \in {"on", "off"} : SetAutoRenew(id, auto)
           \/ \E id \in SubIds : SweepList(id)
           \/ SweepExpiredSubscriptions
           \/ \E id \in SubIds : AssignSubscription(id) \/ DeleteTenantSubscription(id)
           \/ \E id \in SubIds, p \in Patches : UpdateTenantSubscription(id, p)
           \/ ReactivateList \/ ExpireRunning \/ OperatorWrite \/ Crash \/ Tick
           \/ UNCHANGED vars
  BY <1>6 DEF CreateRedeemCodes, DeleteRedeemCode, SelfRenewRead, SetAutoRenew, SweepList,
       SweepExpiredSubscriptions, AssignSubscription, DeleteTenantSubscription, UpdateTenantSubscription,
       ReactivateList, ExpireRunning, OperatorWrite, Crash, Tick, vars, dbVars
<1> QED BY <1>1, <1>2, <1>3, <1>4, <1>5, <1>6 DEF Next

-----------------------------------------------------------------------------
(* Types. *)

\* A row with new terms is a row,
LEMMA TermsType ==
    ASSUME NEW r \in Row, NEW status \in Statuses, NEW expires \in Nat, NEW idx \in Nat
    PROVE  /\ Terms(r, status, expires, idx) \in Row
           /\ Terms(r, status, expires, idx).status = status
BY DEF Terms, Row

\* ... its dates are dates,
LEMMA ExpiryType ==
    ASSUME NEW days \in Nat, NEW a \in Nat, NEW b \in Nat
    PROVE  expiryFromDays(days, a) \in Nat /\ Later(a, b) \in Nat
BY DEF expiryFromDays, Later

\* ... a new row is an active one,
LEMMA NewRowType ==
    ASSUME NEW now \in Nat
    PROVE  NewRow(now) \in Row /\ NewRow(now).status = "active"
BY BillingAssumption DEF NewRow, Row, Statuses, expiryFromDays

\* ... a suspended one is a row,
LEMMA SuspendedType ==
    ASSUME NEW r \in Row
    PROVE  /\ Terms(r, "suspended", r.expires, r.idx) \in Row
           /\ Terms(r, "suspended", r.expires, r.idx).status = "suspended"
<1>1. r.expires \in Nat /\ r.idx \in Nat
  BY DEF Row
<1>2. "suspended" \in Statuses
  BY DEF Statuses
<1> QED BY <1>1, <1>2, TermsType

\* ... and so is an expired one.
LEMMA ExpiredType ==
    ASSUME NEW r \in Row
    PROVE  Expired(r) \in Row /\ Expired(r).status = "expired"
<1>1. r.expires \in Nat /\ r.idx \in Nat
  BY DEF Row
<1>2. "expired" \in Statuses
  BY DEF Statuses
<1> QED BY <1>1, <1>2, TermsType DEF Expired

\* The rows are typed and at most one of them is active.
RowsOK == rows \in [SubIds -> Row] /\ \A i, j \in Active : i = j

\* Writing one row keeps the partial unique index, unless it makes a second row active.
LEMMA WriteRow ==
    ASSUME RowsOK, NEW id \in SubIds, NEW row \in Row, row.status = "active" => ~ OtherActive(id),
           rows' = [rows EXCEPT ![id] = row]
    PROVE  RowsOK'
<1>1. rows' \in [SubIds -> Row]
  BY DEF RowsOK
<1>2. \A j \in SubIds : rows'[j] = IF j = id THEN row ELSE rows[j]
  BY DEF RowsOK
<1>3. ASSUME NEW i \in Active', NEW j \in Active' PROVE i = j
  BY <1>2, <1>3 DEF RowsOK, Active, OtherActive
<1> QED BY <1>1, <1>3 DEF RowsOK

\* A renewal keeps at most one row active.
LEMMA RenewRows ==
    ASSUME TypeOK, NEW s \in Read, s # Nothing, NEW req,
           RenewSubscriptionWithBalance(s, s.now, req)
    PROVE  RowsOK'
<1>0. RowsOK
  BY DEF RowsOK, TypeOK
<1>1. s.id \in SubIds /\ s.now \in Nat /\ s.row.idx + 1 \in Nat /\ s.row.expires \in Nat
  BY ReadsAreRows DEF Row
<1>2. RenewedExpiry(s, s.now) \in Nat
  BY <1>1, ExpiryType, BillingAssumption, ZenonT(40) DEF RenewedExpiry
<1>3. CASE ~ Settled(req) /\ MayMove(-Price) /\ Extends(s)
  <2> DEFINE row == Terms(rows[s.id], "active", RenewedExpiry(s, s.now), s.row.idx + 1)
  <2>1. rows[s.id] \in Row
    BY <1>0, <1>1 DEF RowsOK
  <2>2. row \in Row
    BY <1>1, <1>2, <2>1, TermsType, ZenonT(40) DEF Statuses
  <2>3. rows' = [rows EXCEPT ![s.id] = row]
    BY <1>3 DEF RenewSubscriptionWithBalance
  <2>4. ~ OtherActive(s.id)
    BY <1>3 DEF Extends
  <2> HIDE DEF row
  <2> QED BY <1>0, <1>1, <2>2, <2>3, <2>4, WriteRow, ZenonT(40)
<1>4. CASE UNCHANGED rows
  BY <1>0, <1>4 DEF RowsOK, Active
<1> QED BY <1>3, <1>4 DEF RenewSubscriptionWithBalance

\* A step that writes a row writes a typed one, and an active one only where
\* none is active.
LEMMA StepRows ==
    ASSUME TypeOK, [Next]_vars
    PROVE  RowsOK'
<1>0. RowsOK
  BY DEF RowsOK, TypeOK
<1>1. CASE \E r \in Requests, id \in SubIds : SelfPurchase(r, id)
  <2> PICK r \in Requests, id \in SubIds : SelfPurchase(r, id)
    BY <1>1
  <2>1. rows' = [j \in SubIds |-> IF j = id THEN NewRow(clock)
                                  ELSE IF j \in Active THEN Expired(rows[j]) ELSE rows[j]]
    BY DEF SelfPurchase
  <2>2. NewRow(clock) \in Row
    BY NewRowType DEF TypeOK
  <2>3. \A j \in SubIds : Expired(rows[j]) \in Row /\ Expired(rows[j]).status = "expired" /\ rows[j] \in Row
    BY <1>0, ExpiredType DEF RowsOK
  <2>4. rows' \in [SubIds -> Row]
    BY <2>1, <2>2, <2>3
  <2>5. ASSUME NEW j \in Active' PROVE j = id
    BY <2>1, <2>3, <2>5 DEF Active
  <2> QED BY <2>4, <2>5 DEF RowsOK
<1>2. CASE \E r \in Requests : SelfRenew(r)
  <2> PICK r \in Requests : SelfRenew(r)
    BY <1>2
  <2>1. client[r] \in Read /\ client[r] # Nothing
    BY DEF SelfRenew, TypeOK
  <2> QED BY <2>1, RenewRows DEF SelfRenew
<1>3. CASE SweepRenew
  <2>1. sweep \in Read /\ sweep # Nothing
    BY <1>3 DEF SweepRenew, TypeOK
  <2> QED BY <1>3, <2>1, RenewRows DEF SweepRenew
<1>4. CASE \E id \in SubIds, auto \in {"on", "off"} : SetAutoRenew(id, auto)
  <2> PICK id \in SubIds, auto \in {"on", "off"} : SetAutoRenew(id, auto)
    BY <1>4
  <2> DEFINE r == rows[id]
             row == [status |-> r.status, starts |-> r.starts, expires |-> r.expires, idx |-> r.idx, auto |-> auto]
  <2>1. r \in Row
    BY <1>0 DEF RowsOK
  <2>2. row \in Row /\ row.status = rows[id].status
    BY <2>1 DEF Row
  <2>3. rows' = [rows EXCEPT ![id] = row]
    BY <1>0 DEF SetAutoRenew, RowsOK
  <2>4. rows[id].status = "active" => ~ OtherActive(id)
    BY <1>0 DEF RowsOK, OtherActive, Active
  <2> HIDE DEF row
  <2> QED BY <1>0, <2>2, <2>3, <2>4, WriteRow, ZenonT(40)
<1>5. CASE SweepExpiredSubscriptions
  <2>1. rows' = [id \in SubIds |-> IF Stale(rows[id]) THEN Expired(rows[id]) ELSE rows[id]]
    BY <1>5 DEF SweepExpiredSubscriptions
  <2>2. \A j \in SubIds : Expired(rows[j]) \in Row /\ Expired(rows[j]).status = "expired" /\ rows[j] \in Row
    BY <1>0, ExpiredType DEF RowsOK
  <2>3. rows' \in [SubIds -> Row]
    BY <2>1, <2>2
  <2>4. Active' \subseteq Active
    BY <2>1, <2>2 DEF Active
  <2> QED BY <1>0, <2>3, <2>4 DEF RowsOK
<1>6. CASE \E id \in SubIds : DeleteTenantSubscription(id)
  <2> PICK id \in SubIds : DeleteTenantSubscription(id)
    BY <1>6
  <2> DEFINE row == Terms(rows[id], "suspended", rows[id].expires, rows[id].idx)
  <2>1. rows[id] \in Row
    BY <1>0 DEF RowsOK
  <2>3. row \in Row /\ row.status = "suspended"
    BY <2>1, SuspendedType
  <2>4. rows' = [rows EXCEPT ![id] = row]
    BY <1>0 DEF DeleteTenantSubscription, RowsOK
  <2> HIDE DEF row
  <2> QED BY <1>0, <2>3, <2>4, WriteRow, ZenonT(40)
<1>7. CASE ExpireRunning
  <2> DEFINE row == Expired(op.old.row)
  <2>1. op.old.id \in SubIds /\ op.old.row \in Row
    BY <1>7, ReadsAreRows DEF ExpireRunning, TypeOK
  <2>2. row \in Row /\ row.status = "expired"
    BY <2>1, ExpiredType
  <2>3. rows' = [rows EXCEPT ![op.old.id] = row]
    BY <1>7 DEF ExpireRunning, UpdateUserSubscriptionTerms
  <2> HIDE DEF row
  <2> QED BY <1>0, <2>1, <2>2, <2>3, WriteRow, ZenonT(40)
<1>8. CASE OperatorWrite
  <2>1. op.new.id \in SubIds /\ op.new.row \in Row
    BY <1>8, ReadsAreRows DEF OperatorWrite, TypeOK
  <2>2. CASE Writable(op.new)
    <3>1. rows' = [rows EXCEPT ![op.new.id] = op.new.row]
      BY <1>8, <2>2 DEF OperatorWrite, UpdateUserSubscriptionTerms
    <3>2. op.new.row.status = "active" => ~ OtherActive(op.new.id)
      BY <2>2 DEF Writable
    <3> QED BY <1>0, <2>1, <3>1, <3>2, WriteRow, ZenonT(40)
  <2>3. CASE ~ Writable(op.new)
    BY <1>0, <1>8, <2>3 DEF OperatorWrite, RowsOK, Active
  <2> QED BY <2>2, <2>3
<1>9. CASE \/ \E delta \in Adjustments : AdjustBalance(delta)
           \/ \E c \in Codes : CreateRedeemCodes(c) \/ Redeem(c) \/ DeleteRedeemCode(c)
           \/ \E r \in Requests, id \in SubIds : SelfRenewRead(r, id)
           \/ \E id \in SubIds : SweepList(id) \/ AssignSubscription(id)
           \/ \E id \in SubIds, p \in Patches : UpdateTenantSubscription(id, p)
           \/ ReactivateList \/ Crash \/ Tick
           \/ UNCHANGED vars
  <2>1. UNCHANGED rows
    BY <1>9 DEF AdjustBalance, CreateRedeemCodes, Redeem, DeleteRedeemCode, SelfRenewRead, SweepList,
         AssignSubscription, UpdateTenantSubscription, ReactivateList, Crash, Tick, vars, dbVars
  <2> QED BY <1>0, <2>1 DEF RowsOK, Active
<1> QED BY <1>1, <1>2, <1>3, <1>4, <1>5, <1>6, <1>7, <1>8, <1>9 DEF Next

\* Reading a row gives a read.
LEMMA ReadRowType ==
    ASSUME TypeOK, NEW id \in SubIds
    PROVE  ReadRow(id) \in Read /\ ReadRow(id) # Nothing
<1>1. rows[id] \in Row /\ clock \in Nat
  BY DEF TypeOK
<1>2. ReadRow(id) \in [id : SubIds, row : Row, now : Nat] /\ ReadRow(id).id = id
  BY <1>1 DEF ReadRow
<1>3. Nothing.id = NoSub
  BY DEF Nothing
<1> QED BY <1>2, <1>3, BillingAssumption DEF Read

\* So does looking for the running one.
LEMMA RunningRowType ==
    ASSUME TypeOK
    PROVE  RunningRow \in Read /\ (Active # {} => RunningRow # Nothing)
<1>1. CASE Active = {}
  BY <1>1 DEF RunningRow, Read
<1>2. CASE Active # {}
  <2>1. (CHOOSE id \in Active : TRUE) \in Active
    BY <1>2
  <2>2. Active \subseteq SubIds
    BY DEF Active
  <2>3. \A id \in Active : ReadRow(id) \in Read /\ ReadRow(id) # Nothing
    BY <2>2, ReadRowType
  <2>4. RunningRow = ReadRow(CHOOSE id \in Active : TRUE)
    BY <1>2 DEF RunningRow
  <2> QED BY <2>1, <2>3, <2>4
<1> QED BY <1>1, <1>2

\* A read may find nothing.
LEMMA NothingIsRead == Nothing \in Read
BY DEF Read

\* The operator's request: a target row while it is under way, and a row to
\* expire when it found one.
OpType == [pc : {"idle", "list", "expire", "insert", "write"}, old : Read, new : Read]
OpOK ==
    /\ op \in OpType
    /\ op.pc # "idle" => op.new # Nothing
    /\ op.pc = "expire" => op.old # Nothing

\* A patched row is a row.
LEMMA PatchedType ==
    ASSUME NEW r \in Row, NEW p \in Patches, clock \in Nat
    PROVE  Patched(r, p) \in Row
<1>1. r.status \in Statuses /\ r.expires \in Nat /\ r.idx \in Nat
  BY DEF Row
<1>2. CASE p.field = "status"
  <2>1. p.value \in Statuses
    BY <1>2, BillingAssumption DEF Statuses
  <2> QED BY <1>1, <1>2, <2>1, TermsType DEF Patched
<1>3. CASE p.field = "extend_days"
  <2>1. p.value \in Nat
    BY <1>3, BillingAssumption
  <2>2. expiryFromDays(p.value, Later(r.expires, clock)) \in Nat
    BY <1>1, <2>1, ExpiryType, ZenonT(40)
  <2> QED BY <1>1, <1>3, <2>2, TermsType DEF Patched
<1>4. CASE p.field = "expires_at_ns"
  <2>1. p.value \in Nat
    BY <1>4, BillingAssumption
  <2> QED BY <1>1, <1>4, <2>1, TermsType DEF Patched
<1>5. p.field \in {"status", "extend_days", "expires_at_ns"}
  BY BillingAssumption
<1> QED BY <1>2, <1>3, <1>4, <1>5

\* A row with its id and the time is a read.
LEMMA TargetType ==
    ASSUME NEW id \in SubIds, NEW row \in Row, NEW now \in Nat
    PROVE  [id |-> id, row |-> row, now |-> now] \in Read /\ [id |-> id, row |-> row, now |-> now] # Nothing
<1> DEFINE t == [id |-> id, row |-> row, now |-> now]
<1>1. t \in [id : SubIds, row : Row, now : Nat] /\ t.id = id
  OBVIOUS
<1>2. Nothing.id = NoSub
  BY DEF Nothing
<1> HIDE DEF t
<1>3. t \in Read /\ t # Nothing
  BY <1>1, <1>2, BillingAssumption DEF Read
<1> QED BY <1>3 DEF t

\* The operator's request is a record of its type.
LEMMA OpLiteral ==
    ASSUME NEW pc \in {"idle", "list", "expire", "insert", "write"}, NEW old \in Read, NEW new \in Read,
           op' = [pc |-> pc, old |-> old, new |-> new],
           pc # "idle" => new # Nothing, pc = "expire" => old # Nothing
    PROVE  OpOK'
BY DEF OpOK, OpType

\* Every step keeps it one.
LEMMA StepOp ==
    ASSUME TypeOK, [Next]_vars
    PROVE  OpOK'
<1>0. OpOK /\ op.old \in Read /\ op.new \in Read /\ op.pc \in {"idle", "list", "expire", "insert", "write"}
  BY DEF OpOK, TypeOK, OpType
<1>1. CASE \E id \in SubIds : AssignSubscription(id)
  <2> PICK id \in SubIds : AssignSubscription(id)
    BY <1>1
  <2> DEFINE new == [id |-> id, row |-> NewRow(clock), now |-> clock]
             pc == IF Active = {} THEN "insert" ELSE "expire"
  <2>1. new \in Read /\ new # Nothing
    BY TargetType, NewRowType DEF TypeOK
  <2>2. op' = [pc |-> pc, old |-> RunningRow, new |-> new]
    BY DEF AssignSubscription
  <2>3. RunningRow \in Read /\ (pc = "expire" => RunningRow # Nothing)
    BY RunningRowType
  <2>4. pc \in {"idle", "list", "expire", "insert", "write"}
    OBVIOUS
  <2> HIDE DEF new, pc
  <2> QED BY <2>1, <2>2, <2>3, <2>4, OpLiteral
<1>2. CASE \E id \in SubIds, p \in Patches : UpdateTenantSubscription(id, p)
  <2> PICK id \in SubIds, p \in Patches : UpdateTenantSubscription(id, p)
    BY <1>2
  <2> DEFINE new == [id |-> id, row |-> Patched(rows[id], p), now |-> clock]
             pc == IF Patched(rows[id], p).status = "active" /\ rows[id].status # "active" THEN "list" ELSE "write"
  <2>1. rows[id] \in Row /\ clock \in Nat
    BY DEF TypeOK
  <2>2. new \in Read /\ new # Nothing
    BY <2>1, TargetType, PatchedType
  <2>3. op' = [pc |-> pc, old |-> Nothing, new |-> new]
    BY DEF UpdateTenantSubscription
  <2>4. pc \in {"list", "write"}
    OBVIOUS
  <2> HIDE DEF new, pc
  <2> QED BY <2>2, <2>3, <2>4, OpLiteral, NothingIsRead
<1>3. CASE ReactivateList
  <2> DEFINE pc == IF Active = {} THEN "write" ELSE "expire"
  <2>1. op' = [pc |-> pc, old |-> RunningRow, new |-> op.new] /\ op.new # Nothing
    BY <1>0, <1>3 DEF ReactivateList, OpOK
  <2>2. RunningRow \in Read /\ (pc = "expire" => RunningRow # Nothing)
    BY RunningRowType
  <2>3. pc \in {"write", "expire"}
    OBVIOUS
  <2> HIDE DEF pc
  <2> QED BY <1>0, <2>1, <2>2, <2>3, OpLiteral
<1>4. CASE ExpireRunning
  <2> DEFINE pc == IF rows[op.new.id].status = "none" THEN "insert" ELSE "write"
  <2>1. op' = [pc |-> pc, old |-> op.old, new |-> op.new] /\ op.new # Nothing
    BY <1>0, <1>4 DEF ExpireRunning, OpOK
  <2>2. pc \in {"insert", "write"}
    OBVIOUS
  <2> HIDE DEF pc
  <2> QED BY <1>0, <2>1, <2>2, OpLiteral
<1>5. CASE OperatorWrite \/ Crash
  <2>1. op' = [pc |-> "idle", old |-> Nothing, new |-> Nothing]
    BY <1>5 DEF OperatorWrite, Crash
  <2> QED BY <2>1, OpLiteral, NothingIsRead
<1>6. CASE UNCHANGED op
  BY <1>0, <1>6 DEF OpOK
<1>7. CASE \/ \E delta \in Adjustments : AdjustBalance(delta)
           \/ \E c \in Codes : CreateRedeemCodes(c) \/ Redeem(c) \/ DeleteRedeemCode(c)
           \/ \E r \in Requests, id \in SubIds : SelfPurchase(r, id) \/ SelfRenewRead(r, id)
           \/ \E r \in Requests : SelfRenew(r)
           \/ \E id \in SubIds, auto \in {"on", "off"} : SetAutoRenew(id, auto)
           \/ \E id \in SubIds : SweepList(id) \/ DeleteTenantSubscription(id)
           \/ SweepRenew \/ SweepExpiredSubscriptions \/ Tick
           \/ UNCHANGED vars
  <2>1. UNCHANGED op
    BY <1>7 DEF AdjustBalance, CreateRedeemCodes, Redeem, DeleteRedeemCode, SelfPurchase, SelfRenewRead,
         SelfRenew, SetAutoRenew, SweepList, DeleteTenantSubscription, SweepRenew, SweepExpiredSubscriptions,
         Tick, vars
  <2> QED BY <1>6, <2>1
<1> QED BY <1>1, <1>2, <1>3, <1>4, <1>5, <1>7 DEF Next

\* Every step keeps the reads of the clients and of the sweep.
LEMMA StepReads ==
    ASSUME TypeOK, [Next]_vars
    PROVE  client' \in [Requests -> Read] /\ sweep' \in Read
<1>0. client \in [Requests -> Read] /\ sweep \in Read /\ Nothing \in Read
  BY NothingIsRead DEF TypeOK
<1>1. CASE \E r \in Requests, id \in SubIds : SelfRenewRead(r, id)
  <2> PICK r \in Requests, id \in SubIds : SelfRenewRead(r, id)
    BY <1>1
  <2>1. ReadRow(id) \in Read
    BY ReadRowType
  <2>2. client' = [client EXCEPT ![r] = ReadRow(id)] /\ sweep' = sweep
    BY DEF SelfRenewRead
  <2> QED BY <1>0, <2>1, <2>2
<1>2. CASE \E id \in SubIds : SweepList(id)
  <2> PICK id \in SubIds : SweepList(id)
    BY <1>2
  <2>1. sweep' = ReadRow(id) /\ client' = client
    BY DEF SweepList
  <2> QED BY <1>0, <2>1, ReadRowType
<1>3. CASE (\E r \in Requests : SelfRenew(r)) \/ SweepRenew \/ Crash
  BY <1>0, <1>3 DEF SelfRenew, SweepRenew, Crash
<1>4. CASE \/ \E delta \in Adjustments : AdjustBalance(delta)
           \/ \E c \in Codes : CreateRedeemCodes(c) \/ Redeem(c) \/ DeleteRedeemCode(c)
           \/ \E r \in Requests, id \in SubIds : SelfPurchase(r, id)
           \/ \E id \in SubIds, auto \in {"on", "off"} : SetAutoRenew(id, auto)
           \/ \E id \in SubIds : AssignSubscription(id) \/ DeleteTenantSubscription(id)
           \/ \E id \in SubIds, p \in Patches : UpdateTenantSubscription(id, p)
           \/ ReactivateList \/ ExpireRunning \/ OperatorWrite
           \/ SweepExpiredSubscriptions \/ Tick
           \/ UNCHANGED vars
  <2>1. UNCHANGED <<client, sweep>>
    BY <1>4 DEF AdjustBalance, CreateRedeemCodes, Redeem, DeleteRedeemCode, SelfPurchase, SetAutoRenew,
         AssignSubscription, DeleteTenantSubscription, UpdateTenantSubscription, ReactivateList,
         ExpireRunning, OperatorWrite, SweepExpiredSubscriptions, Tick, vars
  <2> QED BY <1>0, <2>1
<1> QED BY <1>1, <1>2, <1>3, <1>4 DEF Next

CountersOK ==
    /\ clock \in Nat /\ revoked \in Nat /\ assigned \in Nat
    /\ uses \in [Codes -> Nat] /\ codes \in [Codes -> {"unborn", "live", "deleted"}]

\* Every step keeps the counters' types.
LEMMA StepCounters ==
    ASSUME TypeOK, [Next]_vars
    PROVE  CountersOK'
<1>0. CountersOK
  BY DEF CountersOK, TypeOK
<1>1. CASE \E c \in Codes : CreateRedeemCodes(c) \/ Redeem(c) \/ DeleteRedeemCode(c)
  BY <1>0, <1>1 DEF CountersOK, CreateRedeemCodes, Redeem, DeleteRedeemCode, countVars
<1>2. CASE \/ \E id \in SubIds : AssignSubscription(id) \/ DeleteTenantSubscription(id)
           \/ \E id \in SubIds, p \in Patches : UpdateTenantSubscription(id, p)
           \/ Tick
  BY <1>0, <1>2 DEF CountersOK, AssignSubscription, DeleteTenantSubscription, UpdateTenantSubscription,
       Tick, countVars, dbVars
<1>3. CASE \/ \E delta \in Adjustments : AdjustBalance(delta)
           \/ \E r \in Requests, id \in SubIds : SelfPurchase(r, id) \/ SelfRenewRead(r, id)
           \/ \E r \in Requests : SelfRenew(r)
           \/ \E id \in SubIds, auto \in {"on", "off"} : SetAutoRenew(id, auto)
           \/ \E id \in SubIds : SweepList(id)
           \/ SweepRenew \/ SweepExpiredSubscriptions
           \/ ReactivateList \/ ExpireRunning \/ OperatorWrite \/ Crash
           \/ UNCHANGED vars
  <2>1. UNCHANGED <<clock, revoked, assigned, uses, codes>>
    BY <1>3 DEF AdjustBalance, SelfPurchase, SelfRenewRead, SelfRenew, SetAutoRenew, SweepList, SweepRenew,
         SweepExpiredSubscriptions, ReactivateList, ExpireRunning, OperatorWrite, Crash, vars, dbVars, countVars
  <2> QED BY <1>0, <2>1 DEF CountersOK
<1> QED BY <1>1, <1>2, <1>3 DEF Next

\* The balance stays a number and the ledger a sequence of entries.
LEMMA MoneyTypes ==
    ASSUME TypeOK, Moves \/ UNCHANGED <<balance, ledger>>
    PROVE  balance' \in Nat /\ ledger' \in Seq(Entry)
<1>1. balance \in Nat /\ ledger \in Seq(Entry)
  BY DEF TypeOK
<1>2. CASE Moves
  <2> PICK e \in Entry : balance' = balance + e.delta /\ e.after = balance' /\ ledger' = Append(ledger, e)
    BY <1>2 DEF Moves
  <2>1. ledger' \in Seq(Entry)
    BY <1>1
  <2>2. e.after \in Nat
    BY DEF Entry
  <2> QED BY <2>1, <2>2
<1> QED BY <1>1, <1>2

\* The types hold at the start,
LEMMA TypeInit == Init => TypeOK
<1> SUFFICES ASSUME Init PROVE TypeOK
  OBVIOUS
<1>1. NoRow \in Row
  BY DEF NoRow, Row, Statuses
<1>2. Active = {}
  BY DEF Active, Init, NoRow
<1>3. clock \in Nat /\ balance \in Nat /\ ledger \in Seq(Entry) /\ revoked \in Nat /\ assigned \in Nat
  BY DEF Init
<1>4. /\ rows \in [SubIds -> Row]
      /\ uses \in [Codes -> Nat] /\ codes \in [Codes -> {"unborn", "live", "deleted"}]
      /\ client \in [Requests -> Read] /\ sweep \in Read
  BY <1>1, NothingIsRead DEF Init
<1>5. op = [pc |-> "idle", old |-> Nothing, new |-> Nothing]
  BY DEF Init
<1>6. /\ op \in [pc : {"idle", "list", "expire", "insert", "write"}, old : Read, new : Read]
      /\ op.pc = "idle"
  BY <1>5, NothingIsRead
<1> QED BY <1>2, <1>3, <1>4, <1>6 DEF TypeOK

\* ... and every step keeps them.
LEMMA TypeStep == TypeOK /\ [Next]_vars => TypeOK'
<1> SUFFICES ASSUME TypeOK, [Next]_vars PROVE TypeOK'
  OBVIOUS
<1>1. balance' \in Nat /\ ledger' \in Seq(Entry)
  BY StepMoves, MoneyTypes
<1>2. RowsOK' /\ OpOK' /\ CountersOK' /\ client' \in [Requests -> Read] /\ sweep' \in Read
  BY StepRows, StepOp, StepCounters, StepReads
<1> QED BY <1>1, <1>2 DEF TypeOK, RowsOK, OpOK, OpType, CountersOK

\* For every number of rows, requests, codes and movements the account keeps its
\* types and at most one subscription is active, whatever a stale request of the
\* operator writes (ux_user_subscriptions_active).
THEOREM BillingTypes == Spec => []TypeOK
<1>1. TypeOK /\ UNCHANGED vars => TypeOK'
  BY TypeStep
<1> QED BY TypeInit, TypeStep, PTL DEF Spec

-----------------------------------------------------------------------------
(* Money. *)

\* What Append does, place by place.
LEMMA AppendFacts ==
    ASSUME NEW S, NEW q \in Seq(S), NEW e \in S
    PROVE  /\ Len(Append(q, e)) = Len(q) + 1 /\ Len(q) \in Nat
           /\ DOMAIN Append(q, e) = 1..(Len(q) + 1) /\ DOMAIN q = 1..Len(q)
           /\ \A k \in 1..Len(q) : Append(q, e)[k] = q[k]
           /\ Append(q, e)[Len(q) + 1] = e
OBVIOUS

\* A booked entry moves the balance by its amount.
LEMMA BalanceStep ==
    ASSUME TypeOK, BalanceIsLedger, Moves \/ UNCHANGED <<balance, ledger>>
    PROVE  BalanceIsLedger'
<1>1. CASE UNCHANGED <<balance, ledger>>
  BY <1>1 DEF BalanceIsLedger
<1>2. CASE Moves
  <2> PICK e \in Entry : balance' = balance + e.delta /\ e.after = balance' /\ ledger' = Append(ledger, e)
    BY <1>2 DEF Moves
  <2>1. ledger \in Seq(Entry) /\ balance \in Nat
    BY DEF TypeOK
  <2> DEFINE n == Len(ledger)
  <2>2. /\ Len(ledger') = n + 1 /\ n \in Nat /\ DOMAIN ledger' = 1..(n + 1) /\ DOMAIN ledger = 1..n
        /\ \A k \in 1..n : ledger'[k] = ledger[k]
        /\ ledger'[n + 1] = e
    BY <2>1, AppendFacts
  <2>3. e.after \in Nat /\ e.delta \in Int /\ e.after = e.delta + balance
    BY <2>1 DEF Entry
  <2>4. balance = IF n = 0 THEN 0 ELSE ledger[n].after
    BY <2>1 DEF BalanceIsLedger
  <2>5. ledger' # <<>>
    BY <2>1
  <2> HIDE DEF n
  <2>6. ASSUME NEW k \in 1..n
        PROVE  /\ ledger'[k].after = ledger'[k].delta + IF k = 1 THEN 0 ELSE ledger'[k - 1].after
               /\ ledger'[k].after >= 0
    <3>1. /\ ledger[k].after = ledger[k].delta + IF k = 1 THEN 0 ELSE ledger[k - 1].after
          /\ ledger[k].after >= 0
      BY <2>2, ZenonT(40) DEF BalanceIsLedger
    <3>2. k # 1 => k - 1 \in 1..n
      BY <2>2
    <3> QED BY <2>2, <3>1, <3>2
  <2>7. /\ ledger'[n + 1].after = ledger'[n + 1].delta + IF n + 1 = 1 THEN 0 ELSE ledger'[(n + 1) - 1].after
        /\ ledger'[n + 1].after >= 0
    <3>1. (n + 1) - 1 = n /\ (n # 0 => n \in 1..n) /\ (n + 1 = 1 <=> n = 0)
      BY <2>2
    <3> QED BY <2>2, <2>3, <2>4, <3>1
  <2>8. balance' = ledger'[Len(ledger')].after
    BY <2>2
  <2>9. \A k \in DOMAIN ledger' : k \in 1..n \/ k = n + 1
    BY <2>2
  <2> QED BY <2>5, <2>6, <2>7, <2>8, <2>9 DEF BalanceIsLedger
<1> QED BY <1>1, <1>2

\* A request that is settled is not booked again.
LEMMA SettledStep ==
    ASSUME TypeOK, RequestSettlesOnce, Moves \/ UNCHANGED <<balance, ledger>>
    PROVE  RequestSettlesOnce'
<1>1. CASE UNCHANGED <<balance, ledger>>
  BY <1>1 DEF RequestSettlesOnce
<1>2. CASE Moves
  <2> PICK e \in Entry : ledger' = Append(ledger, e) /\ ~ Settled(e.request)
    BY <1>2 DEF Moves
  <2> DEFINE n == Len(ledger)
  <2>1. /\ n \in Nat /\ DOMAIN ledger' = 1..(n + 1) /\ DOMAIN ledger = 1..n
        /\ \A k \in 1..n : ledger'[k] = ledger[k]
        /\ ledger'[n + 1] = e
    BY AppendFacts DEF TypeOK
  <2>2. e.request = NoRequest \/ \A k \in 1..n : ledger'[k].request # e.request
    BY <2>1, ZenonT(40) DEF Settled
  <2> HIDE DEF n
  <2>3. \A k \in DOMAIN ledger' : k \in 1..n \/ k = n + 1
    BY <2>1
  <2> QED BY <2>1, <2>2, <2>3 DEF RequestSettlesOnce
<1> QED BY <1>1, <1>2

\* The ledger's movements of one kind about one row or code.
Movements(why, j) == {k \in DOMAIN ledger : ledger[k].reason = why /\ ledger[k].ref = j}

\* A move adds its entry to the movements of its reason and reference,
LEMMA MoveCounts ==
    ASSUME TypeOK, NEW delta, NEW reason, NEW ref, NEW req, NEW now, Move(delta, reason, ref, req, now),
           NEW why, NEW j
    PROVE  Movements(why, j)' =
               Movements(why, j) \cup (IF reason = why /\ ref = j THEN {Len(ledger) + 1} ELSE {})
<1> DEFINE e == [delta |-> delta, after |-> balance + delta, reason |-> reason,
                 ref |-> ref, request |-> req, at |-> now]
           n == Len(ledger)
<1>1. e.reason = reason /\ e.ref = ref /\ ledger' = Append(ledger, e)
  BY DEF Move
<1> HIDE DEF e
<1>2. ledger \in Seq(Entry \cup {e})
  BY DEF TypeOK
<1>3. /\ n \in Nat /\ DOMAIN ledger' = 1..(n + 1) /\ DOMAIN ledger = 1..n
      /\ \A k \in 1..n : ledger'[k] = ledger[k]
      /\ ledger'[n + 1] = e
  BY <1>1, <1>2, AppendFacts
<1> HIDE DEF n
<1>4. \A k : k \in 1..(n + 1) <=> k \in 1..n \/ k = n + 1
  BY <1>3
<1>5. n + 1 \notin 1..n
  BY <1>3
<1>6. \A k : k \in Movements(why, j)' <=> k \in Movements(why, j) \/ (k = n + 1 /\ reason = why /\ ref = j)
  BY <1>1, <1>3, <1>4, <1>5 DEF Movements
<1> QED BY <1>6 DEF n

\* ... which are finitely many, and the next entry is not among them,
LEMMA MovementsNumbered ==
    ASSUME TypeOK, NEW why, NEW j
    PROVE  /\ IsFiniteSet(Movements(why, j)) /\ Cardinality(Movements(why, j)) \in Nat
           /\ Len(ledger) + 1 \notin Movements(why, j)
<1>1. Len(ledger) \in Nat /\ DOMAIN ledger = 1..Len(ledger)
  BY DEF TypeOK
<1>2. IsFiniteSet(1..Len(ledger))
  BY <1>1, FS_Interval
<1>3. Movements(why, j) \subseteq 1..Len(ledger)
  BY <1>1 DEF Movements
<1>4. IsFiniteSet(Movements(why, j))
  BY <1>2, <1>3, FS_Subset
<1> QED BY <1>1, <1>3, <1>4, FS_CardinalityType

\* ... and to no others.
LEMMA OtherMove ==
    ASSUME TypeOK, NEW delta, NEW reason, NEW ref, NEW req, NEW now, Move(delta, reason, ref, req, now),
           NEW why, why # reason, NEW j
    PROVE  Movements(why, j)' = Movements(why, j)
<1>1. Movements(why, j)' =
          Movements(why, j) \cup (IF reason = why /\ ref = j THEN {Len(ledger) + 1} ELSE {})
  BY MoveCounts
<1> QED BY <1>1

\* A code's counter and its credits move together, and only in Redeem.
LEMMA OnlyRedeemPays ==
    ASSUME TypeOK, [Next]_vars, NEW c \in Codes
    PROVE  \/ uses'[c] = uses[c] /\ Movements("redeem", c)' = Movements("redeem", c)
           \/ /\ Claimable(c) /\ uses'[c] = uses[c] + 1
              /\ Movements("redeem", c)' = Movements("redeem", c) \cup {Len(ledger) + 1}
<1>0. uses \in [Codes -> Nat]
  BY DEF TypeOK
<1>1. CASE \E delta \in Adjustments : AdjustBalance(delta)
  <2>1. PICK delta \in Adjustments :
           Move(delta, "admin_adjust", NoSub, NoRequest, clock) /\ uses' = uses
    BY <1>1 DEF AdjustBalance
  <2>2. Movements("redeem", c)' = Movements("redeem", c)
    BY <2>1, OtherMove
  <2> QED BY <2>1, <2>2
<1>2. CASE \E d \in Codes : Redeem(d)
  <2> PICK d \in Codes : Redeem(d)
    BY <1>2
  <2>1. /\ Claimable(d) /\ uses' = [uses EXCEPT ![d] = @ + 1]
        /\ Move(CodeAmount, "redeem", d, NoRequest, clock)
    BY DEF Redeem
  <2>2. Movements("redeem", c)' = Movements("redeem", c) \cup (IF d = c THEN {Len(ledger) + 1} ELSE {})
    BY <2>1, MoveCounts
  <2> QED BY <1>0, <2>1, <2>2
<1>3. CASE \E r \in Requests, id \in SubIds : SelfPurchase(r, id)
  <2>1. PICK r \in Requests :
           Move(-Price, "purchase", NoSub, ClientRequest(r), clock) /\ uses' = uses
    BY <1>3 DEF SelfPurchase
  <2>2. Movements("redeem", c)' = Movements("redeem", c)
    BY <2>1, OtherMove
  <2> QED BY <2>1, <2>2
<1>4. ASSUME NEW s, NEW now, NEW req, RenewSubscriptionWithBalance(s, now, req)
      PROVE  Movements("redeem", c)' = Movements("redeem", c)
  <2>1. CASE Move(-Price, "renew", s.id, req, now)
    BY <2>1, OtherMove
  <2>2. CASE UNCHANGED ledger
    BY <2>2 DEF Movements
  <2> QED BY <1>4, <2>1, <2>2 DEF RenewSubscriptionWithBalance
<1>5. CASE (\E r \in Requests : SelfRenew(r)) \/ SweepRenew
  BY <1>4, <1>5 DEF SelfRenew, SweepRenew
<1>6. CASE \/ \E d \in Codes : CreateRedeemCodes(d) \/ DeleteRedeemCode(d)
           \/ \E r \in Requests, id \in SubIds : SelfRenewRead(r, id)
           \/ \E id \in SubIds, auto \in {"on", "off"} : SetAutoRenew(id, auto)
           \/ \E id \in SubIds : SweepList(id)
           \/ SweepExpiredSubscriptions
           \/ \E id \in SubIds : AssignSubscription(id) \/ DeleteTenantSubscription(id)
           \/ \E id \in SubIds, p \in Patches : UpdateTenantSubscription(id, p)
           \/ ReactivateList \/ ExpireRunning \/ OperatorWrite \/ Crash \/ Tick
           \/ UNCHANGED vars
  <2>1. UNCHANGED <<ledger, uses>>
    BY <1>6 DEF CreateRedeemCodes, DeleteRedeemCode, SelfRenewRead, SetAutoRenew, SweepList,
         SweepExpiredSubscriptions, AssignSubscription, DeleteTenantSubscription, UpdateTenantSubscription,
         ReactivateList, ExpireRunning, OperatorWrite, Crash, Tick, vars, dbVars
  <2> QED BY <2>1 DEF Movements
<1> QED BY <1>1, <1>2, <1>3, <1>5, <1>6 DEF Next

\* Every step counts a redeem code's use with its movement.
LEMMA CodesStep ==
    ASSUME TypeOK, [Next]_vars, CodePaysWhatItCounts
    PROVE  CodePaysWhatItCounts'
<1> SUFFICES ASSUME NEW c \in Codes
             PROVE  /\ uses'[c] = Cardinality(Movements("redeem", c)')
                    /\ MaxUses[c] > 0 => uses'[c] <= MaxUses[c]
  BY DEF CodePaysWhatItCounts, Movements
<1>1. /\ uses[c] = Cardinality(Movements("redeem", c))
      /\ MaxUses[c] > 0 => uses[c] <= MaxUses[c]
  BY DEF CodePaysWhatItCounts, Movements
<1>2. /\ IsFiniteSet(Movements("redeem", c)) /\ Cardinality(Movements("redeem", c)) \in Nat
      /\ Len(ledger) + 1 \notin Movements("redeem", c)
  BY MovementsNumbered
<1>3. Cardinality(Movements("redeem", c) \cup {Len(ledger) + 1}) = Cardinality(Movements("redeem", c)) + 1
  BY <1>2, FS_AddElement, ZenonT(40)
<1>4. MaxUses[c] \in Nat
  BY BillingAssumption
<1>5. \/ uses'[c] = uses[c] /\ Movements("redeem", c)' = Movements("redeem", c)
      \/ /\ Claimable(c) /\ uses'[c] = uses[c] + 1
         /\ Movements("redeem", c)' = Movements("redeem", c) \cup {Len(ledger) + 1}
  BY OnlyRedeemPays
<1>6. CASE uses'[c] = uses[c] /\ Movements("redeem", c)' = Movements("redeem", c)
  BY <1>1, <1>6
<1>7. CASE /\ Claimable(c) /\ uses'[c] = uses[c] + 1
           /\ Movements("redeem", c)' = Movements("redeem", c) \cup {Len(ledger) + 1}
  <2>1. Cardinality(Movements("redeem", c)') = Cardinality(Movements("redeem", c)) + 1
    BY <1>3, <1>7, ZenonT(40)
  <2>2. uses'[c] = Cardinality(Movements("redeem", c)) + 1
    BY <1>1, <1>7, ZenonT(40)
  <2>3. MaxUses[c] > 0 => uses'[c] <= MaxUses[c]
    <3>1. uses[c] \in Nat
      BY <1>1, <1>2, ZenonT(40)
    <3> QED BY <1>4, <1>7, <3>1 DEF Claimable
  <2> QED BY <2>1, <2>2, <2>3, ZenonT(40)
<1> QED BY <1>5, <1>6, <1>7

\* The balance is what the ledger adds up to and never negative, a request moves
\* money at most once, and a redeem code pays exactly as often as its counter
\* says and never more often than its limit allows: for any history of top-ups,
\* redemptions, purchases, renewals, retries and crashes (chargeInTx,
\* ledgerEntryByRequest, RedeemCodeAndCredit).
THEOREM MoneyIsAccountedFor == Spec => [](BalanceIsLedger /\ RequestSettlesOnce /\ CodePaysWhatItCounts)
<1> DEFINE Inv == TypeOK /\ BalanceIsLedger /\ RequestSettlesOnce /\ CodePaysWhatItCounts
<1>1. Init => Inv
  <2> SUFFICES ASSUME Init PROVE BalanceIsLedger /\ RequestSettlesOnce /\ CodePaysWhatItCounts
    BY TypeInit
  <2>1. ledger = <<>> /\ balance = 0 /\ DOMAIN ledger = {}
    BY DEF Init
  <2>2. \A c \in Codes : Movements("redeem", c) = {}
    BY <2>1 DEF Movements
  <2>3. \A c \in Codes : MaxUses[c] \in Nat /\ uses[c] = 0
    BY BillingAssumption DEF Init
  <2>4. CodePaysWhatItCounts
    BY <2>2, <2>3, FS_EmptySet DEF CodePaysWhatItCounts, Movements
  <2> QED BY <2>1, <2>4 DEF BalanceIsLedger, RequestSettlesOnce
<1>2. Inv /\ [Next]_vars => Inv'
  BY TypeStep, StepMoves, BalanceStep, SettledStep, CodesStep
<1>3. Inv => BalanceIsLedger /\ RequestSettlesOnce /\ CodePaysWhatItCounts
  OBVIOUS
<1> QED BY <1>1, <1>2, <1>3, PTL DEF Spec

-----------------------------------------------------------------------------
(* Periods, when no operator writes terms. *)

SameTerms(j) ==
    /\ rows'[j].idx = rows[j].idx /\ rows'[j].expires = rows[j].expires /\ rows'[j].starts = rows[j].starts
    /\ rows'[j].status = "none" <=> rows[j].status = "none"

Reads == {sweep} \cup {client[r] : r \in Requests}

\* The three things a step does to the terms of the rows and to their renewals.
Quiet == \A j \in SubIds : SameTerms(j) /\ Renewals(j)' = Renewals(j)
Bought(id) ==
    /\ rows[id].status = "none"
    /\ rows'[id].idx = 0 /\ rows'[id].status # "none" /\ rows'[id].expires = rows'[id].starts + Duration
    /\ \A j \in SubIds : Renewals(j)' = Renewals(j) /\ (j # id => SameTerms(j))
Renewed(s) ==
    /\ s \in Reads /\ s # Nothing
    /\ rows[s.id].idx = s.row.idx
    /\ rows'[s.id].idx = s.row.idx + 1 /\ rows'[s.id].starts = rows[s.id].starts
    /\ rows'[s.id].expires >= s.row.expires + Duration /\ rows'[s.id].status # "none"
    /\ Renewals(s.id)' = Renewals(s.id) \cup {Len(ledger) + 1}
    /\ \A j \in SubIds : j # s.id => SameTerms(j) /\ Renewals(j)' = Renewals(j)

\* A move adds its entry to the renewals of its row,
LEMMA MoveRenewals ==
    ASSUME TypeOK, NEW delta, NEW reason, NEW ref, NEW req, NEW now, Move(delta, reason, ref, req, now), NEW j
    PROVE  Renewals(j)' = Renewals(j) \cup (IF reason = "renew" /\ ref = j THEN {Len(ledger) + 1} ELSE {})
<1>1. Movements("renew", j)' = Movements("renew", j) \cup (IF reason = "renew" /\ ref = j THEN {Len(ledger) + 1} ELSE {})
  BY MoveCounts
<1> QED BY <1>1 DEF Renewals, Movements

\* ... which are finitely many, and the next entry is not among them.
LEMMA RenewalsNumbered ==
    ASSUME TypeOK, NEW j
    PROVE  /\ IsFiniteSet(Renewals(j)) /\ Cardinality(Renewals(j)) \in Nat
           /\ Len(ledger) + 1 \notin Renewals(j)
BY MovementsNumbered, ZenonT(40) DEF Renewals, Movements

\* Terms sets three fields and keeps the start.
LEMMA TermsKeep ==
    ASSUME NEW r \in Row, NEW status, NEW expires, NEW idx
    PROVE  /\ Terms(r, status, expires, idx).status = status /\ Terms(r, status, expires, idx).idx = idx
           /\ Terms(r, status, expires, idx).expires = expires /\ Terms(r, status, expires, idx).starts = r.starts
BY DEF Terms

\* A renewal pays for one more period of its row, or changes no terms.
LEMMA RenewTerms ==
    ASSUME TypeOK, NEW s \in Reads, s # Nothing, NEW req, rows[s.id].status # "none",
           RenewSubscriptionWithBalance(s, s.now, req)
    PROVE  Renewed(s) \/ Quiet
<1>1. s \in Read
  BY DEF Reads, TypeOK
<1>2. s.id \in SubIds /\ s.now \in Nat /\ s.row.idx \in Nat /\ s.row.expires \in Nat /\ rows[s.id] \in Row
  BY <1>1, ReadsAreRows DEF Row, TypeOK
<1>3. CASE UNCHANGED <<balance, ledger, rows>>
  BY <1>3 DEF Quiet, SameTerms, Renewals
<1>4. CASE ~ Settled(req) /\ MayMove(-Price) /\ Extends(s)
  <2> DEFINE row == Terms(rows[s.id], "active", RenewedExpiry(s, s.now), s.row.idx + 1)
  <2>1. Move(-Price, "renew", s.id, req, s.now) /\ rows' = [rows EXCEPT ![s.id] = row]
    BY <1>4 DEF RenewSubscriptionWithBalance
  <2>2. row.status = "active" /\ row.idx = s.row.idx + 1 /\ row.expires = RenewedExpiry(s, s.now)
        /\ row.starts = rows[s.id].starts
    BY <1>2, TermsKeep
  <2> HIDE DEF row
  <2>3. rows'[s.id] = row /\ \A j \in SubIds : j # s.id => rows'[j] = rows[j]
    BY <1>2, <2>1 DEF TypeOK
  <2>4. RenewedExpiry(s, s.now) >= s.row.expires + Duration
    BY <1>2, BillingAssumption DEF RenewedExpiry, expiryFromDays, Later
  <2>5. /\ Renewals(s.id)' = Renewals(s.id) \cup {Len(ledger) + 1}
        /\ \A j \in SubIds : j # s.id => Renewals(j)' = Renewals(j)
    BY <2>1, MoveRenewals, ZenonT(40)
  <2>6. rows[s.id].idx = s.row.idx
    BY <1>4 DEF Extends
  <2> QED BY <2>2, <2>3, <2>4, <2>5, <2>6 DEF Renewed, SameTerms
<1> QED BY <1>3, <1>4 DEF RenewSubscriptionWithBalance

\* What the periods rest on: no request of the operator is under way, a row that
\* was never written has no period, every period is paid and runs its time, and
\* whoever has read a row either sees its period as it is or has been overtaken.
Seen(s) ==
    s # Nothing => /\ rows[s.id].status # "none" /\ s.row.idx <= rows[s.id].idx
                   /\ rows[s.id].idx = s.row.idx => rows[s.id].expires = s.row.expires
RowsRun ==
    \A id \in SubIds :
        /\ rows[id].status = "none" => rows[id].idx = 0
        /\ rows[id].status # "none" => rows[id].expires >= rows[id].starts + Duration * (1 + rows[id].idx)
ReadsSeen == \A s \in Reads : Seen(s)
OpIdle == op.pc = "idle"
PaidInv == OpIdle /\ RowsRun /\ PeriodsArePaid /\ ReadsSeen

\* A read after a step was there before, or is of a row as it is now.
Fresh(s) == \E id \in Active : s = ReadRow(id)

\* A read is what the row is when it is read.
LEMMA StepFresh ==
    ASSUME TypeOK, [Next]_vars
    PROVE  \A s \in Reads' : s = Nothing \/ s \in Reads \/ (Fresh(s) /\ UNCHANGED <<rows, ledger>>)
<1>0. client \in [Requests -> Read]
  BY DEF TypeOK
<1>1. CASE \E r \in Requests, id \in SubIds : SelfRenewRead(r, id)
  BY <1>0, <1>1 DEF SelfRenewRead, Reads, Fresh, dbVars
<1>2. CASE \E id \in SubIds : SweepList(id)
  BY <1>0, <1>2 DEF SweepList, Reads, Fresh, dbVars
<1>3. CASE (\E r \in Requests : SelfRenew(r)) \/ SweepRenew \/ Crash
  BY <1>0, <1>3 DEF SelfRenew, SweepRenew, Crash, Reads
<1>4. CASE \/ \E delta \in Adjustments : AdjustBalance(delta)
           \/ \E c \in Codes : CreateRedeemCodes(c) \/ Redeem(c) \/ DeleteRedeemCode(c)
           \/ \E r \in Requests, id \in SubIds : SelfPurchase(r, id)
           \/ \E id \in SubIds, auto \in {"on", "off"} : SetAutoRenew(id, auto)
           \/ \E id \in SubIds : AssignSubscription(id) \/ DeleteTenantSubscription(id)
           \/ \E id \in SubIds, p \in Patches : UpdateTenantSubscription(id, p)
           \/ ReactivateList \/ ExpireRunning \/ OperatorWrite
           \/ SweepExpiredSubscriptions \/ Tick
           \/ UNCHANGED vars
  <2>1. UNCHANGED <<client, sweep>>
    BY <1>4 DEF AdjustBalance, CreateRedeemCodes, Redeem, DeleteRedeemCode, SelfPurchase, SetAutoRenew,
         AssignSubscription, DeleteTenantSubscription, UpdateTenantSubscription, ReactivateList,
         ExpireRunning, OperatorWrite, SweepExpiredSubscriptions, Tick, vars
  <2> QED BY <2>1 DEF Reads
<1> QED BY <1>1, <1>2, <1>3, <1>4 DEF Next

\* Without the operator's assignments, a step buys, renews or changes no terms.
LEMMA StepTerms ==
    ASSUME assigned' = 0, TypeOK, PaidInv, [Next]_vars
    PROVE  /\ op'.pc = "idle"
           /\ Quiet \/ (\E id \in SubIds : Bought(id)) \/ (\E s \in Reads : Renewed(s))
<1>0. op.pc = "idle" /\ assigned \in Nat /\ assigned + 1 # assigned'
  BY DEF PaidInv, OpIdle, TypeOK
<1>1. \A j \in SubIds : rows[j] \in Row
  BY DEF TypeOK
<1>2. CASE \E r \in Requests, id \in SubIds : SelfPurchase(r, id)
  <2> PICK r \in Requests, id \in SubIds : SelfPurchase(r, id)
    BY <1>2
  <2>1. /\ rows[id].status = "none"
        /\ Move(-Price, "purchase", NoSub, ClientRequest(r), clock)
        /\ rows' = [j \in SubIds |-> IF j = id THEN NewRow(clock)
                                     ELSE IF j \in Active THEN Expired(rows[j]) ELSE rows[j]]
        /\ op' = op
    BY DEF SelfPurchase, Unused
  <2>2. \A j \in SubIds : Renewals(j)' = Renewals(j)
    <3>1. Move(-Price, "purchase", NoSub, ClientRequest(r), clock)
      BY <2>1
    <3> QED BY <3>1, MoveRenewals, ZenonT(40)
  <2>3. rows'[id] = NewRow(clock)
    BY <2>1
  <2>4. rows'[id].idx = 0 /\ rows'[id].status # "none" /\ rows'[id].expires = rows'[id].starts + Duration
    BY <2>3 DEF NewRow, expiryFromDays
  <2>5. ASSUME NEW j \in SubIds, j # id PROVE SameTerms(j)
    <3>1. rows'[j] = IF j \in Active THEN Expired(rows[j]) ELSE rows[j]
      BY <2>1, <2>5
    <3>2. CASE j \in Active
      BY <1>1, <3>1, <3>2, TermsKeep DEF SameTerms, Active, Expired
    <3>3. CASE j \notin Active
      BY <3>1, <3>3 DEF SameTerms
    <3> QED BY <3>2, <3>3
  <2>6. Bought(id)
    BY <2>1, <2>2, <2>4, <2>5 DEF Bought
  <2> QED BY <1>0, <2>1, <2>6
<1>3. CASE \E r \in Requests : SelfRenew(r)
  <2> PICK r \in Requests : SelfRenew(r)
    BY <1>3
  <2>1. client[r] \in Reads /\ client[r] # Nothing /\ op' = op
    BY DEF SelfRenew, Reads
  <2>2. rows[client[r].id].status # "none"
    BY <2>1 DEF PaidInv, ReadsSeen, RowsRun, Seen
  <2>3. Renewed(client[r]) \/ Quiet
    BY <2>1, <2>2, RenewTerms DEF SelfRenew
  <2> QED BY <1>0, <2>1, <2>3
<1>4. CASE SweepRenew
  <2>1. sweep \in Reads /\ sweep # Nothing /\ op' = op
    BY <1>4 DEF SweepRenew, Reads
  <2>2. rows[sweep.id].status # "none"
    BY <2>1 DEF PaidInv, ReadsSeen, RowsRun, Seen
  <2>3. Renewed(sweep) \/ Quiet
    BY <1>4, <2>1, <2>2, RenewTerms DEF SweepRenew
  <2> QED BY <1>0, <2>1, <2>3
<1>5. CASE \E delta \in Adjustments : AdjustBalance(delta)
  <2> PICK delta \in Adjustments : AdjustBalance(delta)
    BY <1>5
  <2>1. Move(delta, "admin_adjust", NoSub, NoRequest, clock) /\ rows' = rows /\ op' = op
    BY DEF AdjustBalance
  <2>2. \A j \in SubIds : Renewals(j)' = Renewals(j)
    BY <2>1, MoveRenewals, ZenonT(40)
  <2> QED BY <1>0, <2>1, <2>2 DEF Quiet, SameTerms
<1>6. CASE \E c \in Codes : Redeem(c)
  <2> PICK c \in Codes : Redeem(c)
    BY <1>6
  <2>1. Move(CodeAmount, "redeem", c, NoRequest, clock) /\ rows' = rows /\ op' = op
    BY DEF Redeem
  <2>2. \A j \in SubIds : Renewals(j)' = Renewals(j)
    BY <2>1, MoveRenewals, ZenonT(40)
  <2> QED BY <1>0, <2>1, <2>2 DEF Quiet, SameTerms
<1>7. CASE \E id \in SubIds, auto \in {"on", "off"} : SetAutoRenew(id, auto)
  <2> PICK id \in SubIds, auto \in {"on", "off"} : SetAutoRenew(id, auto)
    BY <1>7
  <2>1. ledger' = ledger /\ op' = op /\ \A j \in SubIds : j # id => rows'[j] = rows[j]
    BY DEF SetAutoRenew, TypeOK
  <2>2. rows'[id] = [status |-> rows[id].status, starts |-> rows[id].starts, expires |-> rows[id].expires,
                     idx |-> rows[id].idx, auto |-> auto]
    BY DEF SetAutoRenew, TypeOK
  <2>3. \A j \in SubIds : SameTerms(j)
    <3>1. SameTerms(id)
      BY <2>2 DEF SameTerms
    <3>2. \A j \in SubIds : j # id => SameTerms(j)
      BY <2>1 DEF SameTerms
    <3> QED BY <3>1, <3>2
  <2> QED BY <1>0, <2>1, <2>3 DEF Quiet, Renewals
<1>8. CASE SweepExpiredSubscriptions
  <2>1. ledger' = ledger /\ op' = op
        /\ rows' = [id \in SubIds |-> IF Stale(rows[id]) THEN Expired(rows[id]) ELSE rows[id]]
    BY <1>8 DEF SweepExpiredSubscriptions
  <2>2. ASSUME NEW j \in SubIds PROVE SameTerms(j)
    <3>1. rows'[j] = IF Stale(rows[j]) THEN Expired(rows[j]) ELSE rows[j]
      BY <2>1
    <3>2. CASE Stale(rows[j])
      BY <1>1, <3>1, <3>2, TermsKeep DEF SameTerms, Stale, Expired
    <3>3. CASE ~ Stale(rows[j])
      BY <3>1, <3>3 DEF SameTerms
    <3> QED BY <3>2, <3>3
  <2> QED BY <1>0, <2>1, <2>2 DEF Quiet, Renewals
<1>9. CASE \E id \in SubIds : DeleteTenantSubscription(id)
  <2> PICK id \in SubIds : DeleteTenantSubscription(id)
    BY <1>9
  <2>1. ledger' = ledger /\ op' = op /\ rows[id].status # "none" /\ \A j \in SubIds : j # id => rows'[j] = rows[j]
    BY DEF DeleteTenantSubscription, TypeOK
  <2>2. rows'[id] = Terms(rows[id], "suspended", rows[id].expires, rows[id].idx)
    BY DEF DeleteTenantSubscription, TypeOK
  <2>3. SameTerms(id)
    BY <1>1, <2>1, <2>2, TermsKeep DEF SameTerms
  <2> QED BY <1>0, <2>1, <2>3 DEF Quiet, Renewals, SameTerms
<1>10. CASE \/ \E c \in Codes : CreateRedeemCodes(c) \/ DeleteRedeemCode(c)
            \/ \E r \in Requests, id \in SubIds : SelfRenewRead(r, id)
            \/ \E id \in SubIds : SweepList(id)
            \/ Crash \/ Tick
            \/ UNCHANGED vars
  <2>1. ledger' = ledger /\ rows' = rows /\ op'.pc = "idle"
    <3>1. ledger' = ledger /\ rows' = rows /\ (op' = op \/ op'.pc = "idle")
      <4>1. CASE \E c \in Codes : CreateRedeemCodes(c) \/ DeleteRedeemCode(c)
        BY <4>1 DEF CreateRedeemCodes, DeleteRedeemCode
      <4>2. CASE \/ \E r \in Requests, id \in SubIds : SelfRenewRead(r, id)
                 \/ \E id \in SubIds : SweepList(id)
        BY <4>2 DEF SelfRenewRead, SweepList, dbVars
      <4>3. CASE Crash \/ Tick \/ UNCHANGED vars
        BY <4>3 DEF Crash, Tick, vars, dbVars
      <4> QED BY <1>10, <4>1, <4>2, <4>3
    <3> QED BY <1>0, <3>1
  <2> QED BY <2>1 DEF Quiet, SameTerms, Renewals
<1>11. CASE \/ \E id \in SubIds : AssignSubscription(id)
            \/ \E id \in SubIds, p \in Patches : UpdateTenantSubscription(id, p)
            \/ ReactivateList \/ ExpireRunning \/ OperatorWrite
  BY <1>0, <1>11, ZenonT(40) DEF AssignSubscription, UpdateTenantSubscription, ReactivateList, ExpireRunning, OperatorWrite
<1> QED BY <1>2, <1>3, <1>4, <1>5, <1>6, <1>7, <1>8, <1>9, <1>10, <1>11 DEF Next

\* Products with the duration, which the provers do not find by themselves.
LEMMA OneMorePeriod ==
    ASSUME NEW d \in Nat, NEW n \in Nat
    PROVE  d * (1 + (n + 1)) = d * (1 + n) + d /\ d * (1 + 0) = d /\ d * (1 + n) \in Nat
OBVIOUS

\* Every step keeps the periods paid,
LEMMA PaidStep ==
    ASSUME assigned' = 0, TypeOK, PaidInv, [Next]_vars
    PROVE  PaidInv'
<1>0. TypeOK' /\ Duration \in Nat
  BY TypeStep, BillingAssumption
<1>1. \A j \in SubIds : /\ rows[j].idx \in Nat /\ rows[j].expires \in Nat /\ rows[j].starts \in Nat
                       /\ rows'[j].idx \in Nat /\ rows'[j].expires \in Nat /\ rows'[j].starts \in Nat
  BY <1>0 DEF TypeOK, Row
<1>2. \A s \in Reads \cup Reads' : s # Nothing =>
          s.id \in SubIds /\ s.row.idx \in Nat /\ s.row.expires \in Nat
  <2>1. Reads \cup Reads' \subseteq Read
    BY <1>0 DEF Reads, TypeOK
  <2> QED BY <2>1, ReadsAreRows DEF Row
<1>3. OpIdle'
  BY StepTerms DEF OpIdle
<1>4. \A j \in SubIds : rows[j].idx = Cardinality(Renewals(j))
  BY DEF PaidInv, PeriodsArePaid
<1>5. \A j \in SubIds : rows[j].status # "none" => rows[j].expires >= rows[j].starts + Duration * (1 + rows[j].idx)
  BY DEF PaidInv, RowsRun
<1>6. ASSUME NEW s, Fresh(s), UNCHANGED <<rows, ledger>> PROVE Seen(s)'
  BY <1>1, <1>6 DEF Fresh, Seen, ReadRow, Active
<1>7. CASE Quiet
  <2>1. \A s \in Reads : Seen(s)'
    BY <1>2, <1>7 DEF Quiet, SameTerms, Seen, ReadsSeen, PaidInv
  <2>2. \A s \in Reads' : Seen(s)'
    BY <1>6, <2>1, StepFresh DEF Seen
  <2>3. PeriodsArePaid'
    BY <1>4, <1>7 DEF Quiet, SameTerms, PeriodsArePaid
  <2>4. RowsRun'
    BY <1>5, <1>7 DEF Quiet, SameTerms, PaidInv, RowsRun
  <2>r. ReadsSeen'
    BY <2>2 DEF ReadsSeen
  <2> QED BY <1>3, <2>3, <2>4, <2>r DEF PaidInv
<1>8. CASE \E id \in SubIds : Bought(id)
  <2> PICK id \in SubIds : Bought(id)
    BY <1>8
  <2>1. rows[id].status = "none" /\ rows[id].idx = 0 /\ rows'[id].idx = 0 /\ rows'[id].status # "none"
    BY DEF Bought, PaidInv, RowsRun
  <2>2. \A s \in Reads : s # Nothing => s.id # id
    BY <2>1 DEF PaidInv, ReadsSeen, RowsRun, Seen
  <2>3. \A s \in Reads : Seen(s)'
    BY <1>2, <2>2 DEF Bought, SameTerms, Seen, ReadsSeen, PaidInv
  <2>4. \A s \in Reads' : Seen(s)'
    BY <1>6, <2>3, StepFresh DEF Seen
  <2>5. PeriodsArePaid'
    BY <1>4, <2>1 DEF Bought, SameTerms, PeriodsArePaid
  <2>6. rows'[id].expires >= rows'[id].starts + Duration * (1 + rows'[id].idx)
    <3>1. Duration * (1 + rows'[id].idx) = Duration
      BY <1>0, <2>1, OneMorePeriod
    <3>2. rows'[id].expires = rows'[id].starts + Duration
      BY DEF Bought
    <3> QED BY <1>0, <1>1, <3>1, <3>2
  <2>7. RowsRun'
    BY <1>5, <2>1, <2>6 DEF Bought, SameTerms, PaidInv, RowsRun
  <2>r. ReadsSeen'
    BY <2>4 DEF ReadsSeen
  <2> QED BY <1>3, <2>5, <2>7, <2>r DEF PaidInv
<1>9. CASE \E s \in Reads : Renewed(s)
  <2> PICK s \in Reads : Renewed(s)
    BY <1>9
  <2> DEFINE id == s.id
  <2>1. id \in SubIds /\ s # Nothing /\ s.row.idx \in Nat /\ s.row.expires \in Nat
    BY <1>2 DEF Renewed
  <2>2. /\ rows[id].idx = s.row.idx /\ rows'[id].idx = rows[id].idx + 1 /\ rows'[id].status # "none"
        /\ rows'[id].starts = rows[id].starts /\ rows[id].status # "none"
        /\ rows'[id].expires >= rows[id].expires + Duration
    BY <2>1 DEF Renewed, PaidInv, ReadsSeen, Seen
  <2>3. \A j \in SubIds : j # id => SameTerms(j) /\ Renewals(j)' = Renewals(j)
    BY DEF Renewed
  <2>4. Cardinality(Renewals(id)') = Cardinality(Renewals(id)) + 1
    BY RenewalsNumbered, FS_AddElement, ZenonT(40) DEF Renewed
  <2> HIDE DEF id
  <2>5. PeriodsArePaid'
    <3>1. ASSUME NEW j \in SubIds PROVE rows'[j].idx = Cardinality(Renewals(j)')
      <4>1. CASE j = id
        BY <1>4, <2>1, <2>2, <2>4, <4>1
      <4>2. CASE j # id
        BY <1>4, <2>3, <4>2 DEF SameTerms
      <4> QED BY <4>1, <4>2
    <3> QED BY <3>1 DEF PeriodsArePaid
  <2>6. rows'[id].expires >= rows'[id].starts + Duration * (1 + rows'[id].idx)
    <3>1. rows[id].expires >= rows[id].starts + Duration * (1 + rows[id].idx)
      BY <1>5, <2>1, <2>2
    <3>2. /\ Duration * (1 + rows'[id].idx) = Duration * (1 + rows[id].idx) + Duration
          /\ Duration * (1 + rows[id].idx) \in Nat
      BY <1>0, <1>1, <2>1, <2>2, OneMorePeriod
    <3> QED BY <1>0, <1>1, <2>1, <2>2, <3>1, <3>2
  <2>7. RowsRun'
    BY <1>5, <2>2, <2>3, <2>6 DEF SameTerms, PaidInv, RowsRun
  <2>8. ASSUME NEW t \in Reads, t # Nothing PROVE Seen(t)'
    <3>1. t.id \in SubIds /\ t.row.idx \in Nat /\ t.row.idx <= rows[t.id].idx
      BY <1>2, <2>8 DEF PaidInv, ReadsSeen, RowsRun, Seen
    <3>2. CASE t.id = id
      <4>1. rows'[t.id].idx = rows[t.id].idx + 1 /\ rows'[t.id].status # "none"
        BY <2>2, <3>2
      <4>2. rows[t.id].idx \in Nat
        BY <1>1, <3>1
      <4>3. t.row.idx <= rows'[t.id].idx /\ rows'[t.id].idx # t.row.idx
        BY <3>1, <4>1, <4>2
      <4> QED BY <4>1, <4>3 DEF Seen
    <3>3. CASE t.id # id
      BY <2>3, <2>8, <3>1, <3>3 DEF SameTerms, Seen, ReadsSeen, PaidInv
    <3> QED BY <3>2, <3>3
  <2>9. \A t \in Reads' : Seen(t)'
    BY <1>6, <2>8, StepFresh DEF Seen
  <2>r. ReadsSeen'
    BY <2>9 DEF ReadsSeen
  <2> QED BY <1>3, <2>5, <2>7, <2>r DEF PaidInv
<1> QED BY <1>7, <1>8, <1>9, StepTerms

\* ... and at the start there are none.
LEMMA PaidInit == Init => PaidInv
<1> SUFFICES ASSUME Init PROVE PaidInv
  OBVIOUS
<1>1. ledger = <<>> /\ DOMAIN ledger = {}
  BY DEF Init
<1>2. \A id \in SubIds : rows[id].idx = 0 /\ rows[id].status = "none"
  BY DEF Init, NoRow
<1>3. \A id \in SubIds : Renewals(id) = {}
  BY <1>1 DEF Renewals
<1>4. PeriodsArePaid
  BY <1>2, <1>3, FS_EmptySet DEF PeriodsArePaid
<1>5. \A s \in Reads : s = Nothing
  BY DEF Init, Reads
<1>6. op.pc = "idle"
  BY DEF Init
<1> QED BY <1>2, <1>4, <1>5, <1>6 DEF PaidInv, OpIdle, ReadsSeen, RowsRun, Seen

\* The count of the operator's requests only grows.
LEMMA AssignedGrows ==
    ASSUME TypeOK, [Next]_vars, assigned' = 0
    PROVE  assigned = 0
<1>0. assigned \in Nat
  BY DEF TypeOK
<1>1. CASE \/ \E id \in SubIds : AssignSubscription(id)
           \/ \E id \in SubIds, p \in Patches : UpdateTenantSubscription(id, p)
  BY <1>0, <1>1 DEF AssignSubscription, UpdateTenantSubscription
<1>2. CASE \/ \E delta \in Adjustments : AdjustBalance(delta)
           \/ \E c \in Codes : CreateRedeemCodes(c) \/ Redeem(c) \/ DeleteRedeemCode(c)
           \/ \E r \in Requests, id \in SubIds : SelfPurchase(r, id) \/ SelfRenewRead(r, id)
           \/ \E r \in Requests : SelfRenew(r)
           \/ \E id \in SubIds, auto \in {"on", "off"} : SetAutoRenew(id, auto)
           \/ \E id \in SubIds : SweepList(id) \/ DeleteTenantSubscription(id)
           \/ SweepRenew \/ SweepExpiredSubscriptions
           \/ ReactivateList \/ ExpireRunning \/ OperatorWrite
           \/ Crash \/ Tick \/ UNCHANGED vars
  BY <1>2, ZenonT(40) DEF AdjustBalance, CreateRedeemCodes, Redeem, DeleteRedeemCode, SelfPurchase, SelfRenewRead, SelfRenew,
       SetAutoRenew, SweepList, SweepRenew, SweepExpiredSubscriptions, DeleteTenantSubscription,
       ReactivateList, ExpireRunning, OperatorWrite, Crash, Tick, vars, countVars
<1> QED BY <1>1, <1>2 DEF Next

\* As long as no operator has written terms, customer and sweep may renew the
\* same rows at the same time, with crashes, expiries and revocations in between:
\* a row has exactly as many periods as were charged for it, and runs for all of
\* them (RenewSubscriptionWithBalance's period_index predicate).
THEOREM PeriodsPaidAndKept == Spec => [](assigned = 0 => PeriodsArePaid /\ PaidTimeIsKept)
<1> DEFINE IInv == assigned = 0 => PaidInv
<1>1. Init => TypeOK /\ IInv
  BY TypeInit, PaidInit
<1>2. TypeOK /\ IInv /\ [Next]_vars => (TypeOK /\ IInv)'
  BY TypeStep, PaidStep, AssignedGrows
<1>3. TypeOK /\ IInv => (assigned = 0 => PeriodsArePaid /\ PaidTimeIsKept)
  BY DEF PaidInv, RowsRun, PeriodsArePaid, PaidTimeIsKept
<1> QED BY <1>1, <1>2, <1>3, PTL DEF Spec
-----------------------------------------------------------------------------
(* The renewal sweep's window. *)

\* What the sweep has read was due when it read it.
ReadWhenDue == sweep # Nothing => sweep.row.expires <= sweep.now + renewalWindow

\* The sweep's read changes in its own steps and in a crash only.
LEMMA SweepReads ==
    ASSUME TypeOK, [Next]_vars
    PROVE  sweep' = sweep \/ (\E id \in SubIds : SweepList(id)) \/ SweepRenew \/ (Crash /\ sweep' = Nothing)
<1>1. CASE \/ \E delta \in Adjustments : AdjustBalance(delta)
           \/ \E c \in Codes : CreateRedeemCodes(c) \/ Redeem(c) \/ DeleteRedeemCode(c)
           \/ \E r \in Requests, id \in SubIds : SelfPurchase(r, id) \/ SelfRenewRead(r, id)
           \/ \E r \in Requests : SelfRenew(r)
           \/ \E id \in SubIds, auto \in {"on", "off"} : SetAutoRenew(id, auto)
           \/ \E id \in SubIds : AssignSubscription(id) \/ DeleteTenantSubscription(id)
           \/ \E id \in SubIds, p \in Patches : UpdateTenantSubscription(id, p)
           \/ ReactivateList \/ ExpireRunning \/ OperatorWrite
           \/ SweepExpiredSubscriptions \/ Tick \/ UNCHANGED vars
  BY <1>1, ZenonT(40) DEF AdjustBalance, CreateRedeemCodes, Redeem, DeleteRedeemCode, SelfPurchase, SelfRenewRead,
       SelfRenew, SetAutoRenew, AssignSubscription, DeleteTenantSubscription, UpdateTenantSubscription,
       ReactivateList, ExpireRunning, OperatorWrite, SweepExpiredSubscriptions, Tick, vars
<1>2. Crash => sweep' = Nothing
  BY DEF Crash
<1> QED BY <1>1, <1>2 DEF Next

\* What the sweep has read was due when it was read.
LEMMA DueStep ==
    ASSUME TypeOK, ReadWhenDue, [Next]_vars
    PROVE  ReadWhenDue'
<1>1. ASSUME NEW id \in SubIds, SweepList(id) PROVE ReadWhenDue'
  <2>1. sweep' = ReadRow(id) /\ renewalDue(rows[id], clock)
    BY <1>1 DEF SweepList
  <2>2. sweep'.row = rows[id] /\ sweep'.now = clock
    BY <2>1 DEF ReadRow
  <2>3. rows[id].expires \in Nat /\ clock \in Nat /\ renewalWindow \in Nat
    <3>1. rows[id] \in Row /\ clock \in Nat
      BY DEF TypeOK
    <3> QED BY <3>1, BillingAssumption DEF Row, renewalWindow
  <2> QED BY <2>1, <2>2, <2>3 DEF ReadWhenDue, renewalDue, renewalWindow
<1>2. CASE sweep' = Nothing
  BY <1>2 DEF ReadWhenDue, Nothing
<1>3. CASE sweep' = sweep
  BY <1>3 DEF ReadWhenDue, renewalWindow, Nothing
<1> QED BY <1>1, <1>2, <1>3, SweepReads DEF SweepRenew

\* RenewDueSubscriptions buys ahead by no more than the lead time, by no more
\* than one period, and by the period it buys, for every lead time and plan
\* duration, however long the row was held between the list and the charge.
THEOREM SweepBuysInWindow == Spec => SweepStaysInWindow
<1> DEFINE Ahead == \A id \in SubIds : sweep.id = id /\ rows'[id].idx > rows[id].idx /\ sweep' = Nothing =>
              /\ rows'[id].expires <= sweep.now + Lead + Duration
              /\ rows'[id].expires <= sweep.now + 2 * Duration
<1>1. Init => TypeOK /\ ReadWhenDue
  BY TypeInit DEF Init, ReadWhenDue
<1>2. TypeOK /\ ReadWhenDue /\ [Next]_vars => (TypeOK /\ ReadWhenDue)'
  BY TypeStep, DueStep
<1>3. TypeOK /\ ReadWhenDue /\ [Next]_vars => [Ahead]_vars
  <2> SUFFICES ASSUME TypeOK, ReadWhenDue, [Next]_vars, NEW id \in SubIds,
                      sweep.id = id, rows'[id].idx > rows[id].idx, sweep' = Nothing
               PROVE  /\ rows'[id].expires <= sweep.now + Lead + Duration
                      /\ rows'[id].expires <= sweep.now + 2 * Duration
    OBVIOUS
  <2>1. sweep # Nothing /\ sweep \in Read
    <3>1. Nothing.id = NoSub
      BY ZenonT(40) DEF Nothing
    <3>2. id # NoSub
      BY BillingAssumption, ZenonT(40)
    <3> QED BY <3>1, <3>2, ZenonT(40) DEF TypeOK
  <2>2. SweepRenew
    <3>1. rows' # rows
      <4>1. rows[id].idx \in Nat
        BY DEF TypeOK, Row
      <4>2. \A n \in Nat : ~ (n > n)
        OBVIOUS
      <4> QED BY <4>1, <4>2, ZenonT(40)
    <3>2. ~ (\E j \in SubIds : SweepList(j)) /\ ~ Crash
      BY <3>1 DEF SweepList, Crash, dbVars
    <3> QED BY <2>1, <3>2, SweepReads, ZenonT(40)
  <2>3. RenewSubscriptionWithBalance(sweep, sweep.now, renewalRequestID(sweep))
    BY <2>2 DEF SweepRenew
  <2>4. rows' # rows
    <3>1. rows[id].idx \in Nat
      BY DEF TypeOK, Row
    <3> QED BY <3>1
  <2>5. rows' = [rows EXCEPT ![id] =
                    Terms(rows[id], "active", RenewedExpiry(sweep, sweep.now), sweep.row.idx + 1)]
    BY <2>3, <2>4, ZenonT(40) DEF RenewSubscriptionWithBalance
  <2>6. rows'[id].expires = RenewedExpiry(sweep, sweep.now)
    <3>1. rows \in [SubIds -> Row] /\ rows[id] \in Row
      BY DEF TypeOK
    <3>2. rows'[id] = Terms(rows[id], "active", RenewedExpiry(sweep, sweep.now), sweep.row.idx + 1)
      BY <2>5, <3>1
    <3> QED BY <3>1, <3>2, TermsKeep
  <2>7. sweep.row.expires \in Nat /\ sweep.now \in Nat /\ sweep.row.expires <= sweep.now + renewalWindow
    BY <2>1, ReadsAreRows DEF ReadWhenDue, Row
  <2>8. Lead \in Nat /\ Duration \in Nat
    BY BillingAssumption
  <2> QED BY <2>6, <2>7, <2>8 DEF RenewedExpiry, expiryFromDays, Later, renewalWindow
<1>4. Spec => [](TypeOK /\ ReadWhenDue)
  BY <1>1, <1>2, PTL DEF Spec
<1> QED BY <1>3, <1>4, PTL DEF Spec, SweepStaysInWindow
=============================================================================

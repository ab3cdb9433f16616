----------------------- MODULE TransactionsRefinement -----------------------
(***************************************************************************)
(* What a request has read under its locks is still so when it commits,    *)
(* for any number of requests: therefore the interleaved transactions keep *)
(* SlotContract, whoever leaves awaiting_host is given their money back,   *)
(* and requests about one reservation deadlock over webhooks only.         *)
(***************************************************************************)
EXTENDS TransactionsProofs

Deciding(p) == txn[p].step \in {"later", "refunded"}

Settled == {"succeeded", "refunded"}

\* What request p relies on, and finds again when it commits.
Sees(p) ==
    LET r == txn[p].r
    IN  /\ txn[p].op = "create" =>
                /\ status[r] = "absent"
                /\ \A q \in Process \ {p} : ~(txn[q].op = "create" /\ txn[q].r = r)
        /\ txn[p].op \in Quick \cup Webhooks => status[r] # "absent"
        /\ txn[p].op = "sweep" =>
                /\ \A q \in txn[p].doomed : status[q] # "absent"
                /\ txn[p].step = "later" => txn[p].doomed \subseteq lapsed
        /\ txn[p].op \in HostOps /\ Deciding(p) => status[r] = "awaiting_host"
        /\ txn[p].op = "cancel" /\ Deciding(p) => Committed(r) \/ status[r] = "pending_payment"
        /\ /\ txn[p].op \in {"reject", "cancel"} /\ txn[p].step = "later" /\ ~txn[p].due
              /\ status[r] = "awaiting_host"
              => charge[r] = "refunded"
        /\ txn[p].step = "refunded" => charge[r] = "refunded"
        /\ txn[p].op = "succeeded" => charge[r] \in {"paid", "refunded"}
        /\ txn[p].op = "refunded" => charge[r] = "refunded"
        /\ txn[p].op = "failed" /\ txn[p].step = "later" => payment[r] \notin Settled

\* The three records of one reservation agree.
Ledger ==
    \A r \in Reservation :
        /\ Committed(r) => payment[r] \in Settled
        /\ payment[r] = "succeeded" => charge[r] \in {"paid", "refunded"}
        /\ payment[r] = "refunded" => charge[r] = "refunded"
        /\ charge[r] # "none" => status[r] # "absent"

SeesOK == \A p \in Process : Sees(p)

RInv == Inv /\ LockedOK /\ SeesOK /\ Ledger

-----------------------------------------------------------------------------
(* What a step of p leaves to the others                                   *)

\* The rows p writes to it has locked, but for the row it creates; a charge moves one way.
WritesItsOwn(p) ==
    \A r \in Reservation :
        /\ \/ status'[r] = status[r]
           \/ /\ status[r] = "absent" /\ status'[r] # "absent"
              /\ \A q \in Process \ {p} : ~(txn[q].op = "create" /\ txn[q].r = r)
           \/ status[r] # "absent" /\ status'[r] # "absent" /\ holder[ReservationRow(r)] = p
        /\ r \in lapsed => r \in lapsed' \/ holder[ReservationRow(r)] = p
        /\ payment'[r] \in Settled => payment[r] = payment'[r] \/ holder[PaymentRow(r)] = p
        /\ charge[r] \in {"paid", "refunded"} => charge'[r] \in {"paid", "refunded"}
        /\ charge[r] = "refunded" => charge'[r] = "refunded"

\* The others' transactions stay, and nobody creates what another is creating.
LeavesOthers(p) ==
    \A q \in Process \ {p} :
        /\ txn'[q] = txn[q]
        /\ p \in Process /\ txn'[p].op = "create" /\ txn[q].op = "create" => txn'[p].r # txn[q].r

LEMMA OthersStillSee ==
    ASSUME LocksOK, LockedOK, NEW p, WritesItsOwn(p), LeavesOthers(p),
           NEW q \in Process \ {p}, Sees(q)
    PROVE  Sees(q)'
<1>. DEFINE r == txn[q].r
<1>1. txn'[q] = txn[q] /\ q \in Process /\ q # p
  BY DEF LeavesOthers
<1>2. /\ txn[q].op \in {"create"} \cup Quick \cup Webhooks => r \in Reservation
      /\ txn[q].doomed \subseteq Reservation
  BY <1>1, RequestRows, Kinds
<1>3. txn[q].op = "create" =>
        /\ status'[r] = "absent"
        /\ \A o \in Process \ {q} : ~(txn'[o].op = "create" /\ txn'[o].r = r)
  BY <1>1, <1>2 DEF Sees, WritesItsOwn, LeavesOthers
<1>4. \A x \in Reservation : status[x] # "absent" => status'[x] # "absent"
  BY DEF WritesItsOwn
<1>5. txn[q].step # "first" =>
        /\ txn[q].op \in Quick \cup Webhooks => status'[r] = status[r]
        /\ txn[q].op = "failed" => holder[PaymentRow(r)] = q
        /\ txn[q].op = "sweep" => \A x \in txn[q].doomed : x \in lapsed => x \in lapsed'
  <2>. SUFFICES ASSUME txn[q].step # "first"
                PROVE  /\ txn[q].op \in Quick \cup Webhooks => status'[r] = status[r]
                       /\ txn[q].op = "failed" => holder[PaymentRow(r)] = q
                       /\ txn[q].op = "sweep" =>
                            \A x \in txn[q].doomed : x \in lapsed => x \in lapsed'
    OBVIOUS
  <2>1. /\ txn[q].op \in Quick \cup Webhooks => holder[ReservationRow(r)] = q
        /\ txn[q].op \in Webhooks => holder[PaymentRow(r)] = q
        /\ txn[q].op = "sweep" => \A x \in txn[q].doomed : holder[ReservationRow(x)] = q
    BY <1>1, HoldsWhatItReads
  <2>2. txn[q].op \in Quick \cup Webhooks => status[r] # "absent"
    BY DEF Sees
  <2>. QED  BY <1>1, <1>2, <2>1, <2>2 DEF WritesItsOwn, Webhooks
<1>6. txn[q].step \in {"later", "refunded"} => txn[q].step # "first"
  OBVIOUS
<1>7. {"reject", "cancel"} \cup HostOps \subseteq Quick /\ "failed" \in Webhooks
        /\ "succeeded" \in Webhooks /\ "refunded" \in Webhooks
  BY DEF Quick, HostOps, Webhooks
<1>8. txn[q].step = "refunded" => txn[q].op \in Quick
  BY <1>1, <1>7 DEF LockedOK, Locked
<1>9. txn[q].op = "failed" /\ txn[q].step = "later" => payment'[r] \notin Settled
  BY <1>1, <1>2, <1>5, <1>6, <1>7 DEF Sees, WritesItsOwn
<1>10. txn[q].op \in Quick \cup Webhooks =>
        /\ charge[r] \in {"paid", "refunded"} => charge'[r] \in {"paid", "refunded"}
        /\ charge[r] = "refunded" => charge'[r] = "refunded"
  BY <1>2 DEF WritesItsOwn
<1>11. txn[q].op \in Quick \cup Webhooks => status'[r] # "absent"
  BY <1>2, <1>4 DEF Sees
<1>12. txn[q].op = "sweep" =>
        /\ \A x \in txn[q].doomed : status'[x] # "absent"
        /\ txn[q].step = "later" => txn[q].doomed \subseteq lapsed'
  BY <1>2, <1>4, <1>5, <1>6 DEF Sees
<1>13. Deciding(q) /\ txn[q].op \in Quick => status'[r] = status[r] /\ (Committed(r) => status'[r] \in {"awaiting_host", "confirmed"})
  BY <1>5 DEF Deciding, Committed
<1>14. /\ txn[q].op \in HostOps /\ Deciding(q) => status'[r] = "awaiting_host"
       /\ txn[q].op = "cancel" /\ Deciding(q) =>
            status'[r] \in {"awaiting_host", "confirmed", "pending_payment"}
  BY <1>7, <1>13 DEF Sees, Committed
<1>15. txn[q].op \in {"reject", "cancel"} /\ txn[q].step = "later" /\ ~txn[q].due
        /\ status'[r] = "awaiting_host" => charge'[r] = "refunded"
  BY <1>7, <1>10, <1>13 DEF Sees, Deciding
<1>16. /\ txn[q].step = "refunded" => charge'[r] = "refunded"
       /\ txn[q].op = "succeeded" => charge'[r] \in {"paid", "refunded"}
       /\ txn[q].op = "refunded" => charge'[r] = "refunded"
  BY <1>7, <1>8, <1>10 DEF Sees
<1>. HIDE DEF r
<1>. QED
  BY <1>1, <1>3, <1>9, <1>11, <1>12, <1>14, <1>15, <1>16 DEF Sees, Deciding, Committed, r

-----------------------------------------------------------------------------
(* Steps that write nothing                                                *)

LEMMA NothingWritten ==
    ASSUME UNCHANGED data, NEW p
    PROVE  WritesItsOwn(p) /\ (Ledger => Ledger')
BY DEF data, WritesItsOwn, Ledger, Committed

LEMMA EndedSees ==
    ASSUME NEW p, txn'[p] = Idle
    PROVE  Sees(p)'
<1>1. txn'[p].op = "none" /\ txn'[p].step = "idle"
  BY DEF Idle
<1>. QED  BY <1>1, Kinds DEF Sees, Deciding, HostOps

\* A transaction that ends leaves the others' as they are.
LEMMA EndedLeaves ==
    ASSUME LocksOK, NEW p \in Process, Ends(p)
    PROVE  LeavesOthers(p) /\ Sees(p)'
<1>1. txn'[p] = Idle /\ Idle.op = "none" /\ \A q \in Process \ {p} : txn'[q] = txn[q]
  BY EndsFrame DEF Idle
<1>. QED  BY <1>1, EndedSees DEF LeavesOthers

LEMMA BeginSees ==
    ASSUME LocksOK, Ledger, NEW p \in Process, NEW op \in Ops \ {"sweep"},
           NEW r \in Reservation, Begin(p, op, r)
    PROVE  LeavesOthers(p) /\ Sees(p)'
<1>1. /\ Requested(op, r) /\ UNCHANGED data
      /\ txn'[p] = [Idle EXCEPT !.op = op, !.r = r, !.step = "first", !.todo = FirstRows(op, r)]
      /\ \A q \in Process \ {p} : txn'[q] = txn[q]
  BY DEF Begin, LocksOK
<1>2. txn'[p].op = op /\ txn'[p].r = r /\ txn'[p].step = "first"
  BY <1>1 DEF Idle
<1>3. op = "create" =>
        status[r] = "absent" /\ \A q \in Process : ~(txn[q].op = "create" /\ txn[q].r = r)
  BY <1>1 DEF Requested, HostOps
<1>4. op \in Quick \cup Webhooks => status[r] # "absent"
  BY <1>1 DEF Requested, Quick, Webhooks, HostOps, Ledger
<1>5. /\ op = "succeeded" => charge[r] \in {"paid", "refunded"}
      /\ op = "refunded" => charge[r] = "refunded"
  BY <1>1 DEF Requested, HostOps
<1>6. LeavesOthers(p)
  BY <1>1, <1>2, <1>3 DEF LeavesOthers
<1>7. Sees(p)'
  BY <1>1, <1>2, <1>3, <1>4, <1>5 DEF Sees, Deciding, data
<1>. QED  BY <1>6, <1>7

LEMMA BeginSweepSees ==
    ASSUME LocksOK, StoredOK, NEW p \in Process, BeginSweep(p)
    PROVE  LeavesOthers(p) /\ Sees(p)'
<1>. DEFINE stale == {r \in Reservation : Stale(r)}
<1>1. PICK rs \in Orders(stale) :
        txn' = [txn EXCEPT ![p] = [Idle EXCEPT !.op = "sweep", !.step = "first",
                        !.todo = [i \in DOMAIN rs |-> ReservationRow(rs[i])],
                        !.doomed = stale]]
  BY DEF BeginSweep
<1>. DEFINE rows == [i \in DOMAIN rs |-> ReservationRow(rs[i])]
<1>2. \A r \in stale : status[r] # "absent"
  BY DEF Stale, StoredOK, Marks
<1>. HIDE DEF rows, stale
<1>3. /\ txn'[p] = [Idle EXCEPT !.op = "sweep", !.step = "first", !.todo = rows, !.doomed = stale]
      /\ \A q \in Process \ {p} : txn'[q] = txn[q]
  BY <1>1 DEF LocksOK, rows
<1>4. txn'[p].op = "sweep" /\ txn'[p].step = "first" /\ txn'[p].doomed = stale
  BY <1>3 DEF Idle
<1>5. UNCHANGED status
  BY DEF BeginSweep, data
<1>6. LeavesOthers(p)
  BY <1>3, <1>4 DEF LeavesOthers
<1>7. Sees(p)'
  BY <1>2, <1>4, <1>5, Kinds DEF Sees, Deciding, HostOps
<1>. QED  BY <1>6, <1>7

\* A step of p within its request, with what it has seen the same.
LEMMA SameRequest ==
    ASSUME NEW p \in Process, Sees(p), txn'[p].op = txn[p].op, txn'[p].r = txn[p].r,
           \A q \in Process \ {p} : txn'[q] = txn[q]
    PROVE  LeavesOthers(p)
BY DEF Sees, LeavesOthers

LEMMA LockSees ==
    ASSUME LocksOK, NEW p \in Process, Sees(p), Lock(p)
    PROVE  LeavesOthers(p) /\ Sees(p)'
<1>1. /\ txn'[p].op = txn[p].op /\ txn'[p].r = txn[p].r /\ txn'[p].step = txn[p].step
      /\ txn'[p].due = txn[p].due /\ txn'[p].doomed = txn[p].doomed
      /\ \A q \in Process \ {p} : txn'[q] = txn[q]
      /\ UNCHANGED data
  BY LockFrame DEF Lock
<1>2. Sees(p)'
  BY <1>1 DEF Sees, Deciding, Committed, data
<1>. QED  BY <1>1, <1>2, SameRequest

LEMMA DecideSees ==
    ASSUME LocksOK, LockedOK, Ledger, NEW p \in Process, Sees(p), Decide(p)
    PROVE  LeavesOthers(p) /\ Sees(p)'
<1>. DEFINE op == txn[p].op
            r == txn[p].r
<1>1. /\ op \in {"create"} \cup Quick \cup Webhooks /\ r \in Reservation
      /\ Allowed(op, r) /\ UNCHANGED data
      /\ txn'[p].op = op /\ txn'[p].r = r /\ txn'[p].step = "later"
      /\ \A q \in Process \ {p} : txn'[q] = txn[q]
      /\ ~txn'[p].due /\ TRUE \in RefundDue(op, r) /\ RefundDue(op, r) # BOOLEAN
            => payment[r] # "succeeded"
  BY DecideFrame
<1>2. /\ op \in HostOps => status[r] = "awaiting_host"
      /\ op = "cancel" => Committed(r) \/ status[r] = "pending_payment"
      /\ op = "failed" => payment[r] \notin Settled
  BY <1>1 DEF Allowed, HostOps, Committed, Settled
<1>3. ASSUME op \in {"reject", "cancel"}, ~txn'[p].due, status[r] = "awaiting_host"
      PROVE  charge[r] = "refunded"
  <2>1. RefundDue(op, r) = {TRUE}
    BY <1>3 DEF RefundDue
  <2>2. TRUE \in RefundDue(op, r) /\ RefundDue(op, r) # BOOLEAN
    BY <2>1
  <2>3. payment[r] # "succeeded"
    BY <1>1, <1>3, <2>2
  <2>. QED  BY <1>1, <1>3, <2>3 DEF Ledger, Committed, Settled
<1>4. /\ op \in Quick \cup Webhooks => status[r] # "absent"
      /\ op = "succeeded" => charge[r] \in {"paid", "refunded"}
      /\ op = "refunded" => charge[r] = "refunded"
      /\ op = "create" =>
            status[r] = "absent" /\ \A q \in Process \ {p} : ~(txn[q].op = "create" /\ txn[q].r = r)
  BY DEF Sees
<1>5. op # "sweep"
  BY <1>1, Kinds
<1>6. Sees(p)'
  BY <1>1, <1>2, <1>3, <1>4, <1>5 DEF Sees, Deciding, Committed, data
<1>. QED  BY <1>1, <1>6, SameRequest

LEMMA DecideSweepSees ==
    ASSUME LocksOK, NEW p \in Process, Sees(p), DecideSweep(p)
    PROVE  LeavesOthers(p) /\ Sees(p)'
<1>1. /\ txn[p] \in Transaction /\ txn[p].op = "sweep" /\ UNCHANGED data
      /\ txn' = [txn EXCEPT ![p].step = "later", ![p].doomed = {r \in @ : Stale(r)}]
  BY DEF DecideSweep, LocksOK
<1>2. /\ \A q \in Process \ {p} : txn'[q] = txn[q]
      /\ txn'[p].op = "sweep" /\ txn'[p].r = txn[p].r /\ txn'[p].step = "later"
      /\ txn'[p].doomed = {r \in txn[p].doomed : Stale(r)}
  BY <1>1 DEF LocksOK, Transaction
<1>3. /\ txn'[p].doomed \subseteq txn[p].doomed /\ txn'[p].doomed \subseteq lapsed
      /\ UNCHANGED <<status, lapsed>>
  BY <1>1, <1>2 DEF Stale, data
<1>4. Sees(p)'
  BY <1>1, <1>2, <1>3, Kinds DEF Sees, Deciding, HostOps
<1>. QED  BY <1>1, <1>2, <1>4, SameRequest

-----------------------------------------------------------------------------
(* Steps that write                                                        *)

LEMMA RefundSees ==
    ASSUME LocksOK, StoredOK, LockedOK, Ledger, NEW p \in Process, Sees(p), Refund(p)
    PROVE  WritesItsOwn(p) /\ LeavesOthers(p) /\ Sees(p)' /\ Ledger'
<1>. DEFINE r == txn[p].r
<1>1. /\ txn[p] \in Transaction /\ txn[p].step = "later" /\ txn[p].todo = <<>> /\ txn[p].due
      /\ txn' = [txn EXCEPT ![p].step = "refunded"] /\ UNCHANGED <<holder, status, lapsed, payment>>
      /\ payment[r] = "succeeded" /\ charge' = [charge EXCEPT ![r] = "refunded"]
  BY DEF Refund, Ready, LocksOK, Becomes
<1>2. /\ \A q \in Process \ {p} : txn'[q] = txn[q]
      /\ txn'[p].op = txn[p].op /\ txn'[p].r = txn[p].r /\ txn'[p].step = "refunded"
      /\ txn'[p].due = txn[p].due
  BY <1>1 DEF LocksOK, Transaction
<1>3. txn[p].op \in {"reject", "cancel"} /\ r \in Reservation /\ status[r] # "absent"
  BY <1>1, RequestRows, Kinds DEF LockedOK, Locked, Sees
<1>4. charge'[r] = "refunded" /\ \A q \in Reservation \ {r} : charge'[q] = charge[q]
  BY <1>1, <1>3 DEF StoredOK
<1>5. WritesItsOwn(p)
  BY <1>1, <1>4 DEF WritesItsOwn
<1>6. Ledger'
  BY <1>1, <1>3, <1>4 DEF Ledger, Committed
<1>7. /\ txn[p].op \in HostOps => status[r] = "awaiting_host"
      /\ txn[p].op = "cancel" => Committed(r) \/ status[r] = "pending_payment"
  BY <1>1 DEF Sees, Deciding
<1>8. Sees(p)'
  BY <1>1, <1>2, <1>3, <1>4, <1>7, Kinds DEF Sees, Deciding, Committed, Webhooks
<1>. QED  BY <1>2, <1>5, <1>6, <1>8, SameRequest

LEMMA CommitCreateWrites ==
    ASSUME LocksOK, StoredOK, Ledger, NEW p \in Process, Sees(p), CommitCreate(p)
    PROVE  WritesItsOwn(p) /\ Ledger'
<1>. DEFINE r == txn[p].r
<1>1. /\ txn[p].op = "create" /\ r \in Reservation
      /\ status' = [status EXCEPT ![r] = "pending_payment"] /\ UNCHANGED <<lapsed, payment, charge>>
  BY RequestRows DEF CommitCreate, Open, Becomes
<1>2. status'[r] = "pending_payment" /\ \A q \in Reservation \ {r} : status'[q] = status[q]
  BY <1>1 DEF StoredOK
<1>3. status[r] = "absent" /\ \A q \in Process \ {p} : ~(txn[q].op = "create" /\ txn[q].r = r)
  BY <1>1 DEF Sees
<1>4. WritesItsOwn(p)
  BY <1>1, <1>2, <1>3 DEF WritesItsOwn
<1>5. Ledger'
  BY <1>1, <1>2 DEF Ledger, Committed
<1>. QED  BY <1>4, <1>5

LEMMA CommitStartWrites ==
    ASSUME LocksOK, StoredOK, Ledger, NEW p \in Process, Sees(p), CommitStart(p)
    PROVE  WritesItsOwn(p) /\ Ledger'
<1>. DEFINE r == txn[p].r
            paying == IF payment[r] = "none" THEN "unpaid" ELSE payment[r]
            charging == IF charge[r] = "none" THEN "open" ELSE charge[r]
<1>1. /\ txn[p].op = "start" /\ r \in Reservation /\ UNCHANGED <<status, lapsed>>
      /\ payment' = [payment EXCEPT ![r] = paying] /\ charge' = [charge EXCEPT ![r] = charging]
  BY RequestRows DEF CommitStart, Open, Becomes
<1>2. /\ payment'[r] = paying /\ charge'[r] = charging
      /\ \A q \in Reservation \ {r} : payment'[q] = payment[q] /\ charge'[q] = charge[q]
  BY <1>1 DEF StoredOK
<1>3. status[r] # "absent"
  BY <1>1 DEF Sees, Quick
<1>4. WritesItsOwn(p)
  BY <1>1, <1>2 DEF WritesItsOwn, Settled
<1>5. Ledger'
  BY <1>1, <1>2, <1>3 DEF Ledger, Committed, Settled
<1>. QED  BY <1>4, <1>5

LEMMA CommitSucceededWrites ==
    ASSUME LocksOK, StoredOK, LockedOK, Ledger, NEW p \in Process, Sees(p), CommitSucceeded(p)
    PROVE  WritesItsOwn(p) /\ Ledger'
<1>. DEFINE r == txn[p].r
<1>1. /\ txn[p].op = "succeeded" /\ r \in Reservation /\ txn[p].todo = <<>> /\ UNCHANGED charge
      /\ payment' = [payment EXCEPT ![r] = "succeeded"]
      /\ \/ status[r] = "pending_payment" /\ status' = [status EXCEPT ![r] = "awaiting_host"]
               /\ lapsed' = lapsed \ {r}
         \/ UNCHANGED <<status, lapsed>>
  BY RequestRows DEF CommitSucceeded, Open, Ready, Becomes
<1>2. holder[ReservationRow(r)] = p /\ holder[PaymentRow(r)] = p
  BY <1>1, HoldsWhatItReads DEF Webhooks
<1>3. /\ payment'[r] = "succeeded" /\ \A q \in Reservation \ {r} : payment'[q] = payment[q]
      /\ \A q \in Reservation \ {r} : status'[q] = status[q] /\ (q \in lapsed => q \in lapsed')
      /\ \/ status'[r] = status[r]
         \/ status[r] = "pending_payment" /\ status'[r] = "awaiting_host"
  BY <1>1 DEF StoredOK
<1>4. charge[r] \in {"paid", "refunded"} /\ status[r] # "absent"
  BY <1>1 DEF Sees, Webhooks
<1>5. WritesItsOwn(p)
  BY <1>1, <1>2, <1>3 DEF WritesItsOwn
<1>6. Ledger'
  BY <1>1, <1>3, <1>4 DEF Ledger, Committed, Settled
<1>. QED  BY <1>5, <1>6

LEMMA CommitPaymentWrites ==
    ASSUME LocksOK, StoredOK, LockedOK, Ledger, NEW p \in Process, Sees(p), CommitPayment(p)
    PROVE  WritesItsOwn(p) /\ Ledger'
<1>. DEFINE r == txn[p].r
<1>1. /\ txn[p].step = "later" /\ txn[p].todo = <<>> /\ UNCHANGED <<status, lapsed, charge>>
      /\ \/ txn[p].op = "failed" /\ payment' = [payment EXCEPT ![r] = "unpaid"]
         \/ txn[p].op = "refunded" /\ payment' = [payment EXCEPT ![r] = "refunded"]
  BY DEF CommitPayment, Open, Ready, Becomes
<1>2. txn[p].op \in Webhooks /\ r \in Reservation
  BY <1>1, RequestRows, Kinds DEF Webhooks
<1>3. holder[PaymentRow(r)] = p
  BY <1>1, <1>2, HoldsWhatItReads
<1>4. /\ \A q \in Reservation \ {r} : payment'[q] = payment[q]
      /\ txn[p].op = "failed" => payment'[r] = "unpaid"
      /\ txn[p].op = "refunded" => payment'[r] = "refunded"
  BY <1>1, <1>2 DEF StoredOK
<1>5. /\ txn[p].op = "failed" => payment[r] \notin Settled
      /\ txn[p].op = "refunded" => charge[r] = "refunded"
  BY <1>1 DEF Sees
<1>6. WritesItsOwn(p)
  BY <1>1, <1>3, <1>4 DEF WritesItsOwn
<1>7. Ledger'
  BY <1>1, <1>4, <1>5 DEF Ledger, Committed, Settled
<1>. QED  BY <1>6, <1>7

\* What a decision finds when it commits.
LEMMA DecisionFrame ==
    ASSUME LocksOK, StoredOK, LockedOK, NEW p \in Process, Sees(p), CommitDecision(p)
    PROVE  LET r == txn[p].r
           IN  /\ txn[p].op \in HostOps \cup {"cancel"} /\ r \in Reservation
               /\ holder[ReservationRow(r)] = p
               /\ status[r] \in {"pending_payment", "awaiting_host", "confirmed"}
               /\ txn[p].op \in HostOps => status[r] = "awaiting_host"
               /\ status' = [status EXCEPT ![r] = Decision(txn[p].op)]
               /\ lapsed' = lapsed \ {r} /\ UNCHANGED charge
               /\ \/ txn[p].step = "later" /\ UNCHANGED payment
                     /\ (txn[p].due => payment[r] # "succeeded")
                  \/ txn[p].step = "refunded" /\ charge[r] = "refunded"
                     /\ txn[p].op \in {"reject", "cancel"}
                     /\ payment' = [payment EXCEPT ![r] = "refunded"]
                     /\ holder[PaymentRow(r)] = p
<1>. DEFINE r == txn[p].r
<1>1. /\ txn[p].op \in HostOps \cup {"cancel"} /\ txn[p].todo = <<>>
      /\ status' = [status EXCEPT ![r] = Decision(txn[p].op)]
      /\ lapsed' = lapsed \ {r} /\ UNCHANGED charge
      /\ \/ txn[p].step = "later" /\ UNCHANGED payment
            /\ (txn[p].due => payment[r] # "succeeded")
         \/ txn[p].step = "refunded" /\ payment' = [payment EXCEPT ![r] = "refunded"]
  BY DEF CommitDecision, Ready, Becomes
<1>2. txn[p].op \in Quick /\ r \in Reservation
  BY <1>1, RequestRows, Kinds DEF Quick
<1>3. holder[ReservationRow(r)] = p
  BY <1>1, <1>2, HoldsWhatItReads
<1>4. /\ txn[p].op \in HostOps => status[r] = "awaiting_host"
      /\ status[r] \in {"pending_payment", "awaiting_host", "confirmed"}
  BY <1>1 DEF Sees, Deciding, Committed
<1>5. txn[p].step = "refunded" =>
        /\ charge[r] = "refunded" /\ txn[p].op \in {"reject", "cancel"}
        /\ holder[PaymentRow(r)] = p
  <2>1. txn[p].step = "refunded" =>
            txn[p].due /\ txn[p].op \in {"reject", "cancel"} /\ charge[r] = "refunded"
    BY DEF LockedOK, Locked, Sees
  <2>. QED  BY <1>1, <2>1, HoldsWhatItReads
<1>. QED  BY <1>1, <1>2, <1>3, <1>4, <1>5

LEMMA DecisionOutcome ==
    /\ Decision("accept") = "confirmed"
    /\ Decision("reject") = "rejected"
    /\ Decision("cancel") = "cancelled"
BY DEF Decision

LEMMA CommitDecisionWrites ==
    ASSUME LocksOK, StoredOK, LockedOK, Ledger, NEW p \in Process, Sees(p), CommitDecision(p)
    PROVE  WritesItsOwn(p) /\ Ledger'
<1>. DEFINE r == txn[p].r
            outcome == Decision(txn[p].op)
<1>1. /\ txn[p].op \in HostOps \cup {"cancel"} /\ r \in Reservation
      /\ holder[ReservationRow(r)] = p /\ status[r] # "absent"
      /\ txn[p].op \in HostOps => status[r] = "awaiting_host"
      /\ status' = [status EXCEPT ![r] = outcome]
      /\ lapsed' = lapsed \ {r} /\ UNCHANGED charge
      /\ \/ UNCHANGED payment
         \/ charge[r] = "refunded" /\ payment' = [payment EXCEPT ![r] = "refunded"]
            /\ holder[PaymentRow(r)] = p
  BY DecisionFrame
<1>2. /\ outcome \in {"confirmed", "rejected", "cancelled"}
      /\ outcome = "confirmed" => txn[p].op \in HostOps
  BY <1>1, DecisionOutcome DEF HostOps
<1>. HIDE DEF outcome
<1>3. /\ status'[r] = outcome /\ \A q \in Reservation \ {r} : status'[q] = status[q]
      /\ \A q \in Reservation \ {r} : payment'[q] = payment[q]
      /\ \/ payment'[r] = payment[r]
         \/ charge[r] = "refunded" /\ payment'[r] = "refunded" /\ holder[PaymentRow(r)] = p
  BY <1>1 DEF StoredOK
<1>4. WritesItsOwn(p)
  BY <1>1, <1>2, <1>3 DEF WritesItsOwn
<1>5. Ledger'
  BY <1>1, <1>2, <1>3 DEF Ledger, Committed, Settled
<1>. QED  BY <1>4, <1>5

LEMMA CommitSweepWrites ==
    ASSUME LocksOK, StoredOK, LockedOK, Ledger, NEW p \in Process, Sees(p), CommitSweep(p)
    PROVE  WritesItsOwn(p) /\ Ledger'
<1>1. /\ txn[p].op = "sweep" /\ txn[p].todo = <<>> /\ UNCHANGED <<payment, charge>>
      /\ status' = [r \in Reservation |-> IF r \in txn[p].doomed THEN "cancelled" ELSE status[r]]
      /\ lapsed' = lapsed \ txn[p].doomed
  BY DEF CommitSweep, Open, Ready
<1>2. \A r \in txn[p].doomed : holder[ReservationRow(r)] = p /\ status[r] # "absent"
  BY <1>1, HoldsWhatItReads DEF Sees
<1>3. WritesItsOwn(p)
  BY <1>1, <1>2 DEF WritesItsOwn
<1>4. Ledger'
  BY <1>1 DEF Ledger, Committed
<1>. QED  BY <1>3, <1>4

LEMMA CommitSees ==
    ASSUME LocksOK, StoredOK, LockedOK, Ledger, NEW p \in Process, Sees(p), Commit(p)
    PROVE  WritesItsOwn(p) /\ LeavesOthers(p) /\ Sees(p)' /\ Ledger'
<1>1. WritesItsOwn(p) /\ Ledger'
  BY CommitCreateWrites, CommitStartWrites, CommitSucceededWrites, CommitPaymentWrites,
     CommitDecisionWrites, CommitSweepWrites DEF Commit
<1>. QED  BY <1>1, EndedLeaves DEF Commit

\* Time and Stripe write to rows nobody need have locked.
LEMMA OutsideWrites ==
    ASSUME StoredOK, Ledger, NEW r \in Reservation, Lapse(r) \/ CardCharged(r)
    PROVE  WritesItsOwn(Nobody) /\ LeavesOthers(Nobody) /\ Ledger'
<1>1. CASE Lapse(r)
  <2>1. UNCHANGED <<txn, status, payment, charge>> /\ lapsed \subseteq lapsed'
    BY <1>1 DEF Lapse
  <2>. QED  BY <2>1, TransactionsAssumption DEF WritesItsOwn, LeavesOthers, Ledger, Committed
<1>2. CASE CardCharged(r)
  <2>1. /\ UNCHANGED <<txn, status, lapsed, payment>> /\ charge[r] = "open"
        /\ charge'[r] = "paid" /\ \A q \in Reservation \ {r} : charge'[q] = charge[q]
    BY <1>2 DEF CardCharged, Becomes, StoredOK
  <2>. QED  BY <2>1, TransactionsAssumption DEF WritesItsOwn, LeavesOthers, Ledger, Committed
<1>. QED  BY <1>1, <1>2

-----------------------------------------------------------------------------
(* The invariant                                                           *)

LEMMA SeesStep ==
    ASSUME RInv, [Next]_vars
    PROVE  SeesOK' /\ Ledger'
<1>1. LocksOK /\ StoredOK /\ LockedOK /\ Ledger /\ \A p \in Process : Sees(p)
  BY DEF RInv, Inv, SeesOK
<1>2. ASSUME NEW p \in Process, WritesItsOwn(p), LeavesOthers(p), Sees(p)'
      PROVE  SeesOK'
  BY <1>1, <1>2, OthersStillSee DEF SeesOK
<1>3. ASSUME NEW p \in Process, NEW op \in Ops \ {"sweep"}, NEW r \in Reservation, Begin(p, op, r)
      PROVE  SeesOK' /\ Ledger'
  <2>1. UNCHANGED data
    BY <1>3 DEF Begin
  <2>. QED  BY <1>1, <1>2, <1>3, <2>1, BeginSees, NothingWritten
<1>4. ASSUME NEW p \in Process, BeginSweep(p) \/ Lock(p) \/ Decide(p) \/ DecideSweep(p)
      PROVE  SeesOK' /\ Ledger'
  <2>1. UNCHANGED data
    BY <1>4 DEF BeginSweep, Lock, Decide, DecideSweep
  <2>2. LeavesOthers(p) /\ Sees(p)'
    BY <1>1, <1>4, BeginSweepSees, LockSees, DecideSees, DecideSweepSees
  <2>. QED  BY <1>1, <1>2, <2>1, <2>2, NothingWritten
<1>5. ASSUME NEW p \in Process, Refuse(p) \/ RollBack(p)
      PROVE  SeesOK' /\ Ledger'
  <2>1. UNCHANGED data /\ Ends(p)
    BY <1>5 DEF Refuse, RollBack
  <2>. QED  BY <1>1, <1>2, <2>1, EndedLeaves, NothingWritten
<1>6. ASSUME NEW p \in Process, Refund(p) \/ Commit(p)
      PROVE  SeesOK' /\ Ledger'
  BY <1>1, <1>2, <1>6, RefundSees, CommitSees
<1>7. ASSUME NEW r \in Reservation, Lapse(r) \/ CardCharged(r)
      PROVE  SeesOK' /\ Ledger'
  <2>1. WritesItsOwn(Nobody) /\ LeavesOthers(Nobody) /\ Ledger'
    BY <1>1, <1>7, OutsideWrites
  <2>2. Process \ {Nobody} = Process
    BY TransactionsAssumption
  <2>. QED  BY <1>1, <2>1, <2>2, OthersStillSee DEF SeesOK
<1>8. CASE UNCHANGED vars
  BY <1>1, <1>8 DEF vars, SeesOK, Sees, Deciding, Committed, Ledger
<1>. QED  BY <1>3, <1>4, <1>5, <1>6, <1>7, <1>8 DEF Next

\* What the requests see and what they lock, at any time.
LEMMA RInvAlways == Spec => []RInv
<1>1. Init => RInv
  <2>. SUFFICES ASSUME Init PROVE RInv
    OBVIOUS
  <2>1. Inv
    BY InitInv
  <2>2. \A p \in Process : txn[p] = Idle
    BY DEF Init
  <2>3. ASSUME NEW p \in Process PROVE Locked(p) /\ Sees(p)
    <3>1. /\ txn[p].op = "none" /\ txn[p].step = "idle" /\ txn[p].todo = <<>> /\ ~txn[p].due
      BY <2>2 DEF Idle
    <3>2. \A x \in Row : holder[x] # p
      BY TransactionsAssumption DEF Init
    <3>. QED  BY <3>1, <3>2, Kinds DEF Locked, Sees, Deciding, HostOps
  <2>4. Ledger
    BY DEF Init, Ledger, Committed
  <2>. QED  BY <2>1, <2>3, <2>4 DEF RInv, LockedOK, SeesOK
<1>2. RInv /\ [Next]_vars => RInv'
  <2>. SUFFICES ASSUME RInv, [Next]_vars PROVE RInv'
    OBVIOUS
  <2>1. Inv'
    BY InvInductive DEF RInv
  <2>2. LockedOK'
    BY StaysLocked DEF RInv, Inv
  <2>. QED  BY <2>1, <2>2, SeesStep DEF RInv
<1>. QED  BY <1>1, <1>2, PTL DEF Spec

-----------------------------------------------------------------------------
(* Money and deadlocks                                                     *)

\* Whoever reads awaiting_host to reject or cancel it has it locked until it has been
\* refunded, and a sweep cancels unpaid rows only: nobody leaves without their money.
THEOREM LeaversRefunded == Spec => LeavesWithItsMoney
<1>1. RInv /\ [Next]_vars =>
        [\A r \in Reservation :
            status[r] = "awaiting_host" /\ status'[r] \in {"rejected", "cancelled"}
                => charge'[r] = "refunded"]_vars
  <2>. SUFFICES ASSUME RInv, Next, NEW r \in Reservation,
                       status[r] = "awaiting_host", status'[r] \in {"rejected", "cancelled"}
                PROVE  charge'[r] = "refunded"
    OBVIOUS
  <2>1. LocksOK /\ StoredOK /\ LockedOK /\ Ledger /\ \A p \in Process : Sees(p)
    BY DEF RInv, Inv, SeesOK
  <2>2. PICK p \in Process : Commit(p)
    BY DEF Next, Lapse, CardCharged, Begin, BeginSweep, Lock, Decide, DecideSweep, Refuse,
           Refund, RollBack, data
  <2>3. CASE CommitDecision(p)
    <3>. DEFINE d == txn[p].r
    <3>1. d \in Reservation /\ status' = [status EXCEPT ![d] = Decision(txn[p].op)]
      BY <2>1, <2>3, DecisionFrame
    <3>2. r = d
      BY <2>1, <3>1 DEF StoredOK
    <3>3. status'[d] = Decision(txn[p].op)
      BY <2>1, <3>1 DEF StoredOK
    <3>4. txn[p].op \in {"reject", "cancel"}
      BY <2>1, <2>3, <3>2, <3>3, DecisionFrame, DecisionOutcome DEF HostOps
    <3>5. /\ UNCHANGED charge
          /\ \/ txn[p].step = "later" /\ (txn[p].due => payment[d] # "succeeded")
             \/ charge[d] = "refunded"
      BY <2>1, <2>3, DecisionFrame
    <3>6. txn[p].step = "later" => charge[d] = "refunded"
      BY <2>1, <3>2, <3>4, <3>5 DEF Sees, Ledger, Committed, Settled
    <3>. QED  BY <3>2, <3>5, <3>6
  <2>4. CASE CommitSweep(p)
    <3>1. r \in txn[p].doomed => r \in lapsed
      BY <2>1, <2>4 DEF CommitSweep, Open, Ready, Sees
    <3>2. r \notin lapsed
      BY <2>1 DEF StoredOK, Marks
    <3>. QED  BY <3>1, <3>2, <2>4 DEF CommitSweep
  <2>5. CASE CommitCreate(p) \/ CommitStart(p) \/ CommitSucceeded(p) \/ CommitPayment(p)
    BY <2>1, <2>5 DEF CommitCreate, CommitStart, CommitSucceeded, CommitPayment, Becomes, StoredOK
  <2>. QED  BY <2>2, <2>3, <2>4, <2>5 DEF Commit
<1>. QED  BY <1>1, RInvAlways, PTL DEF Spec, LeavesWithItsMoney

\* Who is waited for holds something; the quick requests of a circle would all hold the
\* reservation, and its creator is alone: a circle about one reservation has a webhook.
THEOREM CirclesHaveAWebhook == Spec => []CirclesOnOneReservationHaveAWebhook
<1>1. RInv => CirclesOnOneReservationHaveAWebhook
  <2>. SUFFICES ASSUME RInv, NEW S \in SUBSET Process, NEW r \in Reservation, Circle(S),
                       \A p \in S : txn[p].r = r /\ txn[p].op \notin Webhooks
                PROVE  FALSE
    BY DEF CirclesOnOneReservationHaveAWebhook
  <2>1. LocksOK /\ \A p \in Process : Locked(p) /\ Sees(p)
    BY DEF RInv, Inv, LockedOK, SeesOK
  <2>2. ASSUME NEW p \in S
        PROVE  /\ p \in Process /\ txn[p] \in Transaction
               /\ Head(txn[p].todo) \in Row /\ txn[p].todo # <<>>
               /\ WaitsFor(p) \in S /\ WaitsFor(p) # p
    <3>1. p \in Process /\ txn[p] \in Transaction /\ txn[p].todo # <<>>
            /\ holder[Head(txn[p].todo)] # p
      BY <2>1 DEF LocksOK, Circle, Blocked
    <3>2. txn[p].todo \in Seq(Row)
      BY <3>1 DEF Transaction
    <3>3. Head(txn[p].todo) \in Row
      BY <3>1, <3>2
    <3>. QED  BY <3>1, <3>3 DEF Circle, WaitsFor
  <2>3. ASSUME NEW p \in S PROVE \E x \in Row : holder[x] = p
    <3>1. PICK q \in S : p = WaitsFor(q)
      BY DEF Circle
    <3>. QED  BY <2>2, <3>1 DEF WaitsFor
  <2>4. ASSUME NEW p \in S
        PROVE  txn[p].op = "create" \/ (txn[p].op \in Quick /\ holder[ReservationRow(r)] = p)
    <3>1. txn[p].op # "none" /\ txn[p].op # "sweep"
      BY <2>1, <2>2, TransactionsAssumption DEF Locked
    <3>2. txn[p].op \in {"create"} \cup Quick
      BY <2>2, <3>1, Kinds DEF Transaction
    <3>. QED  BY <2>1, <2>2, <2>3, <3>2 DEF Locked, Untouched
  <2>5. ASSUME NEW p \in S, NEW q \in S PROVE p = q
    <3>1. txn[p].op = "create" /\ txn[q].op = "create" => p = q
      BY <2>1, <2>2 DEF Sees
    <3>2. txn[p].op = "create" => status[r] = "absent"
      BY <2>1, <2>2 DEF Sees
    <3>3. txn[q].op = "create" => status[r] = "absent"
      BY <2>1, <2>2 DEF Sees
    <3>4. /\ txn[p].op \in Quick => status[r] # "absent"
          /\ txn[q].op \in Quick => status[r] # "absent"
      BY <2>1, <2>2 DEF Sees
    <3>. QED  BY <2>4, <3>1, <3>2, <3>3, <3>4
  <2>. QED  BY <2>2, <2>5 DEF Circle
<1>. QED  BY <1>1, RInvAlways, PTL

-----------------------------------------------------------------------------
(* The contract                                                            *)

\* The refinement mapping of TransactionsProperties, by name.
PhaseMap == [r \in Reservation |-> PhaseOf(r)]
SlotMap == [r \in Reservation |-> IF status[r] = "absent" THEN {} ELSE {Nobody}]

\* The phase is read off the status and, for a hold, whether it has lapsed.
LEMMA PhaseOfStatus ==
    ASSUME StoredOK, NEW r \in Reservation
    PROVE  /\ status[r] = "absent" <=> PhaseOf(r) = "absent"
           /\ LiveHold(r) <=> PhaseOf(r) = "held"
           /\ r \in lapsed <=> PhaseOf(r) = "lapsed"
           /\ Committed(r) <=> PhaseOf(r) = "occupying"
           /\ status[r] \in {"rejected", "cancelled"} <=> PhaseOf(r) = "gone"
<1>1. status[r] \in Statuses /\ (r \in lapsed => status[r] = "pending_payment")
  BY DEF StoredOK, Marks
<1>. QED  BY <1>1 DEF PhaseOf, LiveHold, Stale, Committed, Statuses

\* The same of the next state.
LEMMA NextPhase ==
    ASSUME StoredOK', NEW r \in Reservation
    PROVE  /\ status'[r] = "pending_payment" /\ r \notin lapsed' => PhaseOf(r)' = "held"
           /\ r \in lapsed' => PhaseOf(r)' = "lapsed"
           /\ status'[r] \in {"awaiting_host", "confirmed"} => PhaseOf(r)' = "occupying"
           /\ status'[r] \in {"rejected", "cancelled"} => PhaseOf(r)' = "gone"
<1>1. status'[r] \in Statuses /\ (r \in lapsed' => status'[r] = "pending_payment")
  BY DEF StoredOK, Marks
<1>. QED  BY <1>1 DEF PhaseOf, LiveHold, Stale, Committed, Statuses

\* A row whose status and mark stay keeps its phase.
LEMMA SamePhase ==
    ASSUME NEW r \in Reservation, status'[r] = status[r], r \in lapsed' <=> r \in lapsed
    PROVE  PhaseOf(r)' = PhaseOf(r)
BY DEF PhaseOf, LiveHold, Stale, Committed

LEMMA NothingMoves ==
    ASSUME UNCHANGED <<status, lapsed>>
    PROVE  UNCHANGED Contract!vars
<1>1. \A r \in Reservation : PhaseOf(r)' = PhaseOf(r)
  BY SamePhase
<1>2. PhaseMap' = PhaseMap /\ SlotMap' = SlotMap
  BY <1>1 DEF PhaseMap, SlotMap
<1>. QED  BY <1>2 DEF Contract!vars, PhaseMap, SlotMap

LEMMA LapseLapses ==
    ASSUME StoredOK, StoredOK', NEW r \in Reservation, Lapse(r)
    PROVE  Contract!Next
<1>1. LiveHold(r) /\ lapsed' = lapsed \cup {r} /\ UNCHANGED status
  BY DEF Lapse
<1>2. {r} \subseteq Contract!In({"held"})
  BY <1>1, PhaseOfStatus DEF Contract!In
<1>3. PhaseOf(r)' = "lapsed"
  BY <1>1, NextPhase
<1>4. \A q \in Reservation \ {r} : PhaseOf(q)' = PhaseOf(q)
  BY <1>1, SamePhase
<1>5. PhaseMap' = [q \in Reservation |-> IF q \in {r} THEN "lapsed" ELSE PhaseMap[q]]
  BY <1>3, <1>4 DEF PhaseMap
<1>6. SlotMap' = SlotMap
  BY <1>1 DEF SlotMap
<1>7. Contract!Lapse({r})
  BY <1>2, <1>5, <1>6 DEF Contract!Lapse, PhaseMap, SlotMap
<1>. QED  BY <1>7 DEF Contract!Next

\* A create commits: it still finds the window free.
LEMMA CreateAsks ==
    ASSUME LocksOK, StoredOK, StoredOK', SeenOK, NEW p \in Process, Sees(p), CommitCreate(p)
    PROVE  Contract!Next
<1>0. PICK r \in Reservation : CommitCreate(p) /\ r = txn[p].r
  BY RequestRows DEF CommitCreate, Open
<1>1. /\ txn[p].op = "create" /\ txn[p].step = "later" /\ txn[p].r = r
      /\ status' = [status EXCEPT ![r] = "pending_payment"] /\ UNCHANGED lapsed
  BY <1>0 DEF CommitCreate, Open, Ready, Becomes
<1>2. /\ status[r] = "absent" /\ status'[r] = "pending_payment"
      /\ \A q \in Reservation \ {r} : status'[q] = status[q]
  BY <1>1 DEF StoredOK, Sees
<1>3. r \notin lapsed'
  BY <1>1, <1>2 DEF StoredOK, Marks
<1>4. PhaseOf(r) = "absent" /\ PhaseOf(r)' = "held"
  BY <1>2, <1>3, PhaseOfStatus, NextPhase
<1>5. \A q \in Reservation \ {r} : PhaseOf(q)' = PhaseOf(q)
  BY <1>1, <1>2, SamePhase
<1>6. Contract!Free({Nobody}, {"held", "occupying"})
  <2>1. \A q \in Reservation : ~Committed(q) /\ ~LiveHold(q)
    BY <1>1 DEF SeenOK, CreateSees
  <2>2. \A q \in Reservation : PhaseOf(q) \notin {"held", "occupying"}
    BY <2>1, PhaseOfStatus
  <2>. QED  BY <2>2 DEF Contract!Free, Contract!In
<1>7. PhaseMap' = [PhaseMap EXCEPT ![r] = "held"]
  BY <1>1, <1>4, <1>5 DEF PhaseMap
<1>8. SlotMap' = [SlotMap EXCEPT ![r] = {Nobody}]
  BY <1>1, <1>2 DEF SlotMap
<1>9. Contract!Ask(r, {Nobody})
  BY <1>1, <1>4, <1>6, <1>7, <1>8 DEF Contract!Ask, PhaseMap, SlotMap
<1>. QED  BY <1>1, <1>9 DEF Contract!Next

\* A payment is admitted, in time or late, while nobody occupies the window.
LEMMA AdmissionOccupies ==
    ASSUME LocksOK, StoredOK, StoredOK', NEW p \in Process, CommitSucceeded(p)
    PROVE  [Contract!Next]_(Contract!vars)
<1>0. PICK r \in Reservation : txn[p].op = "succeeded" /\ r = txn[p].r
  BY RequestRows DEF CommitSucceeded, Open
<1>1. CASE status[r] # "pending_payment"
  BY <1>0, <1>1, NothingMoves DEF CommitSucceeded
<1>2. CASE status[r] = "pending_payment"
  <2>1. /\ \A q \in Reservation : ~Committed(q)
        /\ status' = [status EXCEPT ![r] = "awaiting_host"] /\ lapsed' = lapsed \ {r}
    BY <1>0, <1>2 DEF CommitSucceeded, Becomes
  <2>2. status'[r] = "awaiting_host" /\ \A q \in Reservation \ {r} : status'[q] = status[q]
    BY <2>1 DEF StoredOK
  <2>3. PhaseOf(r) \in {"held", "lapsed"}
    BY <1>2, <2>1, PhaseOfStatus DEF LiveHold
  <2>4. PhaseOf(r)' = "occupying"
    BY <2>2, NextPhase
  <2>5. \A q \in Reservation \ {r} : PhaseOf(q)' = PhaseOf(q)
    BY <2>1, <2>2, SamePhase
  <2>6. Contract!Free(SlotMap[r], {"occupying"})
    BY <2>1, PhaseOfStatus DEF Contract!Free, Contract!In
  <2>7. PhaseMap' = [PhaseMap EXCEPT ![r] = "occupying"]
    BY <2>1, <2>4, <2>5 DEF PhaseMap
  <2>8. SlotMap' = SlotMap
    BY <1>2, <2>1, <2>2 DEF SlotMap
  <2>9. Contract!Occupy(r)
    BY <2>1, <2>3, <2>6, <2>7, <2>8 DEF Contract!Occupy, PhaseMap, SlotMap
  <2>. QED  BY <2>1, <2>9 DEF Contract!Next
<1>. QED  BY <1>1, <1>2

\* Rows that are rejected or cancelled leave; the others do not move.
LEMMA LeaversLeave ==
    ASSUME StoredOK, StoredOK', NEW R \in SUBSET Reservation,
           \A r \in R : /\ status[r] \in {"pending_payment", "awaiting_host", "confirmed"}
                        /\ status'[r] \in {"rejected", "cancelled"},
           \A r \in Reservation \ R :
                status'[r] = status[r] /\ (r \in lapsed' <=> r \in lapsed)
    PROVE  Contract!Next
<1>1. ASSUME NEW r \in R
      PROVE  PhaseOf(r) \in {"held", "lapsed", "occupying"} /\ PhaseOf(r)' = "gone"
  <2>1. PhaseOf(r) \in {"held", "lapsed", "occupying"}
    BY PhaseOfStatus DEF LiveHold, Committed
  <2>. QED  BY <2>1, NextPhase
<1>2. \A q \in Reservation \ R : PhaseOf(q)' = PhaseOf(q)
  BY SamePhase
<1>3. R \subseteq Contract!In({"held", "lapsed", "occupying"})
  BY <1>1 DEF Contract!In
<1>4. PhaseMap' = [r \in Reservation |-> IF r \in R THEN "gone" ELSE PhaseMap[r]]
  BY <1>1, <1>2 DEF PhaseMap
<1>5. \A r \in Reservation : status'[r] = "absent" <=> status[r] = "absent"
  OBVIOUS
<1>6. SlotMap' = SlotMap
  BY <1>5 DEF SlotMap
<1>7. Contract!Leave(R)
  BY <1>3, <1>4, <1>6 DEF Contract!Leave, PhaseMap, SlotMap
<1>. QED  BY <1>7 DEF Contract!Next

LEMMA DecisionMoves ==
    ASSUME LocksOK, StoredOK, StoredOK', LockedOK, NEW p \in Process, Sees(p), CommitDecision(p)
    PROVE  [Contract!Next]_(Contract!vars)
<1>0. PICK r \in Reservation : r = txn[p].r
  BY DecisionFrame
<1>1. /\ txn[p].op \in HostOps \cup {"cancel"}
      /\ status[r] \in {"pending_payment", "awaiting_host", "confirmed"}
      /\ txn[p].op \in HostOps => status[r] = "awaiting_host"
      /\ status' = [status EXCEPT ![r] = Decision(txn[p].op)]
      /\ lapsed' = lapsed \ {r}
  BY <1>0, DecisionFrame
<1>2. /\ status'[r] = Decision(txn[p].op)
      /\ \A q \in Reservation \ {r} : status'[q] = status[q] /\ (q \in lapsed' <=> q \in lapsed)
  BY <1>1 DEF StoredOK
<1>3. CASE txn[p].op = "accept"
  <2>1. status[r] = "awaiting_host" /\ status'[r] = "confirmed"
    BY <1>1, <1>2, <1>3, DecisionOutcome DEF HostOps
  <2>2. PhaseOf(r) = "occupying" /\ PhaseOf(r)' = "occupying"
    BY <2>1, PhaseOfStatus, NextPhase DEF Committed
  <2>3. \A q \in Reservation : PhaseOf(q)' = PhaseOf(q)
    BY <1>2, <2>2, SamePhase
  <2>4. \A q \in Reservation : status'[q] = "absent" <=> status[q] = "absent"
    BY <1>2, <2>1
  <2>5. PhaseMap' = PhaseMap /\ SlotMap' = SlotMap
    BY <2>3, <2>4 DEF PhaseMap, SlotMap
  <2>. QED  BY <2>5 DEF Contract!vars, PhaseMap, SlotMap
<1>4. CASE txn[p].op # "accept"
  <2>1. status'[r] \in {"rejected", "cancelled"}
    BY <1>1, <1>2, <1>4, DecisionOutcome DEF HostOps
  <2>2. Contract!Next
    BY <1>1, <1>2, <2>1, LeaversLeave
  <2>. QED  BY <2>2
<1>. QED  BY <1>3, <1>4

LEMMA SweepMoves ==
    ASSUME LocksOK, StoredOK, StoredOK', NEW p \in Process, Sees(p), CommitSweep(p)
    PROVE  Contract!Next
<1>1. /\ txn[p].op = "sweep" /\ txn[p].step = "later" /\ txn[p].doomed \in SUBSET Reservation
      /\ status' = [r \in Reservation |-> IF r \in txn[p].doomed THEN "cancelled" ELSE status[r]]
      /\ lapsed' = lapsed \ txn[p].doomed
  BY RequestRows DEF CommitSweep, Open, Ready
<1>2. \A r \in txn[p].doomed : status[r] = "pending_payment"
  BY <1>1 DEF Sees, StoredOK, Marks
<1>. QED  BY <1>1, <1>2, LeaversLeave

LEMMA ContractStep ==
    ASSUME RInv, RInv', [Next]_vars
    PROVE  [Contract!Next]_(Contract!vars)
<1>1. /\ LocksOK /\ StoredOK /\ SeenOK /\ LockedOK /\ StoredOK'
      /\ \A p \in Process : Sees(p)
  BY DEF RInv, Inv, SeesOK
<1>2. CASE UNCHANGED <<status, lapsed>>
  BY <1>2, NothingMoves
<1>3. ASSUME NEW r \in Reservation, Lapse(r) PROVE Contract!Next
  BY <1>1, <1>3, LapseLapses
<1>4. ASSUME NEW p \in Process, Commit(p) PROVE [Contract!Next]_(Contract!vars)
  <2>1. CASE CommitStart(p) \/ CommitPayment(p)
    BY <1>2, <2>1 DEF CommitStart, CommitPayment
  <2>2. CASE CommitCreate(p)
    BY <1>1, <2>2, CreateAsks
  <2>3. CASE CommitSucceeded(p)
    BY <1>1, <2>3, AdmissionOccupies
  <2>4. CASE CommitDecision(p)
    BY <1>1, <2>4, DecisionMoves
  <2>5. CASE CommitSweep(p)
    BY <1>1, <2>5, SweepMoves
  <2>. QED  BY <1>4, <2>1, <2>2, <2>3, <2>4, <2>5 DEF Commit
<1>5. UNCHANGED <<status, lapsed>> \/ (\E r \in Reservation : Lapse(r))
        \/ (\E p \in Process : Commit(p))
  BY DEF Next, vars, data, CardCharged, Begin, BeginSweep, Lock, Decide, DecideSweep, Refuse,
         Refund, RollBack
<1>. QED  BY <1>2, <1>3, <1>4, <1>5

\* Interleaved transactions implement SlotContract, as atomic ones do: between its first
\* lock and its commit nobody takes from a request what it has seen.
THEOREM TransactionsImplementSlotContract == Spec => TransactionsKeepSlotContract
<1>1. Init => Contract!Init
  <2>. SUFFICES ASSUME Init PROVE Contract!Init
    OBVIOUS
  <2>1. StoredOK
    BY InitInv DEF Inv
  <2>2. \A r \in Reservation : status[r] = "absent"
    BY DEF Init
  <2>3. \A r \in Reservation : PhaseOf(r) = "absent"
    BY <2>1, <2>2, PhaseOfStatus
  <2>. QED  BY <2>2, <2>3 DEF Contract!Init
<1>2. RInv /\ RInv' /\ [Next]_vars => [Contract!Next]_(Contract!vars)
  BY ContractStep
<1>. QED
  BY <1>1, <1>2, RInvAlways, PTL DEF Spec, TransactionsKeepSlotContract, Contract!Spec

=============================================================================

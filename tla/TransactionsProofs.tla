------------------------- MODULE TransactionsProofs -------------------------
(***************************************************************************)
(* That the row locks do their work, for any number of requests at once,   *)
(* of reservations and of clients, whatever order the joined rows are      *)
(* locked in (ClientFirst): the window is never promised twice.            *)
(*                                                                         *)
(* The argument: whoever may make somebody entitled to the window holds    *)
(* the row of the garden from before it looked until it commits, so what   *)
(* it saw is still so.                                                     *)
(***************************************************************************)
EXTENDS TransactionsProperties, FiniteSetTheorems, SequenceTheorems, TLAPS

\* Requests whose first statement locks the row of the garden.
GardenOps == Ops \ {"start", "sweep"}

\* A transaction under way has a request, and all but a sweep one reservation.
Shape ==
    \A p \in Process :
        /\ txn[p].op = "none" => txn[p].step = "idle"
        /\ txn[p].op \notin {"none", "sweep"} => txn[p].r \in Reservation

\* The garden row is held, or still to be locked by the first statement.
GardenLocked ==
    \A p \in Process : txn[p].op \in GardenOps =>
        \/ holder[GardenRow] = p
        \/ txn[p].step = "first" /\ \E i \in 1 .. Len(txn[p].todo) : txn[p].todo[i] = GardenRow

\* Only unpaid holds lapse, only paid bookings were admitted in time.
Marks ==
    \A r \in Reservation :
        /\ r \in lapsed => status[r] = "pending_payment"
        /\ r \in timely => Committed(r)

\* A create that has decided still finds the window free.
CreateSees ==
    \A p \in Process : txn[p].op = "create" /\ txn[p].step = "later" =>
        \A q \in Reservation : ~Committed(q) /\ ~LiveHold(q)

\* A webhook that saw its hold unexpired still has no other hold beside it.
WebhookSees ==
    \A p \in Process : txn[p].op = "succeeded" /\ txn[p].step = "later" /\ txn[p].fresh =>
        \A q \in Reservation : q # txn[p].r => ~LiveHold(q)

Transaction == [op : Ops \cup {"none"}, r : Reservation \cup {Nobody}, step : Steps,
                todo : Seq(Row), fresh : BOOLEAN, due : BOOLEAN,
                doomed : SUBSET Reservation]

\* The part about transactions and locks, and the part about what is stored.
LocksOK == /\ txn \in [Process -> Transaction]
           /\ holder \in [Row -> Process \cup {Nobody}]
           /\ Shape /\ GardenLocked

StoredOK == /\ status \in [Reservation -> Statuses]
            /\ lapsed \subseteq Reservation
            /\ timely \subseteq Reservation
            /\ payment \in [Reservation -> PaymentStatuses]
            /\ charge \in [Reservation -> ChargeStates]
            /\ Marks

SeenOK == CreateSees /\ WebhookSees

Inv == LocksOK /\ StoredOK /\ SeenOK /\ EntitledOnce

-----------------------------------------------------------------------------
(* Rows and sequences of rows                                              *)

LEMMA RowsAreRows ==
    /\ GardenRow \in Row
    /\ \A r \in Reservation : /\ ReservationRow(r) \in Row /\ PaymentRow(r) \in Row
                              /\ UserRow(ClientOf[r]) \in Row
BY TransactionsAssumption DEF Row

LEMMA ShortSequences ==
    ASSUME NEW S, NEW a \in S, NEW b \in S
    PROVE  /\ <<a>> \in Seq(S) /\ Len(<<a>>) = 1 /\ <<a>>[1] = a
           /\ <<a, b>> \in Seq(S) /\ Len(<<a, b>>) = 2
           /\ <<a, b>>[1] = a /\ <<a, b>>[2] = b
OBVIOUS

\* What stands in the second of two sequences stands in both together.
LEMMA LastStandsInBoth ==
    ASSUME NEW S, NEW s \in Seq(S), NEW t \in Seq(S), NEW a,
           \E i \in 1 .. Len(t) : t[i] = a
    PROVE  /\ s \o t \in Seq(S)
           /\ \E i \in 1 .. Len(s \o t) : (s \o t)[i] = a
<1>1. PICK i \in 1 .. Len(t) : t[i] = a
  OBVIOUS
<1>. DEFINE st == s \o t
<1>2. st \in Seq(S) /\ Len(st) = Len(s) + Len(t) /\ st[Len(s) + i] = t[i]
  BY ConcatProperties
<1>. HIDE DEF st
<1>3. Len(s) + i \in 1 .. Len(st)
  BY <1>2
<1>4. st \in Seq(S) /\ \E k \in 1 .. Len(st) : st[k] = a
  BY <1>1, <1>2, <1>3
<1>. QED  BY <1>4 DEF st

LEMMA SharedRowsAreRows ==
    ASSUME NEW op, NEW r \in Reservation
    PROVE  /\ SharedRows(op, r) \in Seq(Row)
           /\ \E i \in 1 .. Len(SharedRows(op, r)) : SharedRows(op, r)[i] = GardenRow
<1>. DEFINE user == UserRow(ClientOf[r])
            rows == SharedRows(op, r)
<1>1. CASE op \in ClientFirst
  <2>1. rows = <<user, GardenRow>>
    BY <1>1 DEF SharedRows
  <2>2. rows \in Seq(Row) /\ Len(rows) = 2 /\ rows[2] = GardenRow
    BY <2>1, ShortSequences, RowsAreRows
  <2>. QED  BY <2>2
<1>2. CASE op \notin ClientFirst
  <2>1. rows = <<GardenRow, user>>
    BY <1>2 DEF SharedRows
  <2>2. rows \in Seq(Row) /\ Len(rows) = 2 /\ rows[1] = GardenRow
    BY <2>1, ShortSequences, RowsAreRows
  <2>. QED  BY <2>2
<1>. QED  BY <1>1, <1>2

LEMMA FirstRowsAreRows ==
    ASSUME NEW op \in Ops \ {"sweep"}, NEW r \in Reservation
    PROVE  /\ FirstRows(op, r) \in Seq(Row)
           /\ op \in GardenOps =>
                \E i \in 1 .. Len(FirstRows(op, r)) : FirstRows(op, r)[i] = GardenRow
<1>1. CASE op = "create"
  <2>1. FirstRows(op, r) = <<GardenRow>>
    BY <1>1 DEF FirstRows, HostOps, Webhooks
  <2>. QED  BY <2>1, ShortSequences, RowsAreRows
<1>2. CASE op = "start"
  <2>1. FirstRows(op, r) = <<ReservationRow(r)>>
    BY <1>2 DEF FirstRows, StartRows, HostOps, Webhooks
  <2>. QED  BY <1>2, <2>1, ShortSequences, RowsAreRows DEF GardenOps
<1>3. CASE op \in Webhooks
  <2>1. FirstRows(op, r) = <<PaymentRow(r), ReservationRow(r)>> \o SharedRows(op, r)
    BY <1>3 DEF FirstRows, WebhookRows, HostOps, Webhooks
  <2>2. <<PaymentRow(r), ReservationRow(r)>> \in Seq(Row)
    BY ShortSequences, RowsAreRows
  <2>. QED  BY <2>1, <2>2, SharedRowsAreRows, LastStandsInBoth
<1>4. CASE op \in HostOps \cup {"cancel"}
  <2>1. FirstRows(op, r) = <<ReservationRow(r)>> \o SharedRows(op, r)
    BY <1>4 DEF FirstRows, DecisionRows, HostOps, Webhooks
  <2>2. <<ReservationRow(r)>> \in Seq(Row)
    BY ShortSequences, RowsAreRows
  <2>. QED  BY <2>1, <2>2, SharedRowsAreRows, LastStandsInBoth
<1>. QED  BY <1>1, <1>2, <1>3, <1>4 DEF Ops

LEMMA SweepRowsAreRows ==
    ASSUME NEW S \in SUBSET Reservation, NEW rs \in Orders(S)
    PROVE  [i \in DOMAIN rs |-> ReservationRow(rs[i])] \in Seq(Row)
<1>1. Cardinality(S) \in Nat
  BY FS_Subset, FS_CardinalityType, TransactionsAssumption
<1>2. rs \in [1 .. Cardinality(S) -> Reservation]
  BY DEF Orders
<1>3. [i \in DOMAIN rs |-> ReservationRow(rs[i])] \in [1 .. Cardinality(S) -> Row]
  BY <1>2, RowsAreRows
<1>. QED  BY <1>1, <1>3

LEMMA LaterRowsAreRows ==
    ASSUME NEW op, NEW r \in Reservation, NEW due \in BOOLEAN
    PROVE  LaterRows(op, r, due) \in Seq(Row)
<1>1. LaterRows(op, r, due) \in {<<UserRow(ClientOf[r])>>, <<PaymentRow(r)>>, <<>>}
  BY DEF LaterRows
<1>2. UserRow(ClientOf[r]) \in Row /\ PaymentRow(r) \in Row /\ <<>> \in Seq(Row)
  BY RowsAreRows
<1>. QED  BY <1>1, <1>2, ShortSequences

-----------------------------------------------------------------------------
(* Locks: every step leaves the transactions well formed and the garden    *)
(* row with whoever has decided about it.                                  *)

LEMMA IdleIsATransaction ==
    Idle \in Transaction /\ Idle.op = "none" /\ Idle.step = "idle" /\ Idle.todo = <<>>
<1>1. <<>> \in Seq(Row)
  OBVIOUS
<1>. QED  BY <1>1 DEF Idle, Transaction, Steps

LEMMA EndsKeepsLocks ==
    ASSUME LocksOK, NEW p \in Process, Ends(p)
    PROVE  /\ LocksOK'
           /\ txn'[p] = Idle /\ \A q \in Process \ {p} : txn'[q] = txn[q]
<1>1. /\ txn' \in [Process -> Transaction]
      /\ txn'[p] = Idle /\ \A q \in Process \ {p} : txn'[q] = txn[q]
  BY IdleIsATransaction DEF LocksOK, Ends
<1>2. holder' \in [Row -> Process \cup {Nobody}]
  BY DEF LocksOK, Ends
<1>3. Shape'
  BY <1>1, IdleIsATransaction DEF LocksOK, Shape
<1>4. GardenLocked'
  <2>1. SUFFICES ASSUME NEW q \in Process, txn'[q].op \in GardenOps
                 PROVE  \/ holder'[GardenRow] = q
                        \/ txn[q].step = "first" /\ txn'[q] = txn[q] /\
                           \E i \in 1 .. Len(txn[q].todo) : txn[q].todo[i] = GardenRow
    BY DEF GardenLocked
  <2>2. q # p
    BY <1>1, <2>1, IdleIsATransaction DEF GardenOps, Ops, HostOps, Webhooks
  <2>. QED  BY <1>1, <2>1, <2>2, RowsAreRows DEF LocksOK, GardenLocked, Ends
<1>. QED  BY <1>1, <1>2, <1>3, <1>4 DEF LocksOK

\* A step of p that changes its own transaction only, and no lock.
LEMMA OwnStepKeepsLocks ==
    ASSUME LocksOK, NEW p \in Process, NEW t \in Transaction,
           txn' = [txn EXCEPT ![p] = t], UNCHANGED holder,
           t.op = "none" => t.step = "idle",
           t.op \notin {"none", "sweep"} => t.r \in Reservation,
           t.op \in GardenOps =>
                \/ holder[GardenRow] = p
                \/ t.step = "first" /\ \E i \in 1 .. Len(t.todo) : t.todo[i] = GardenRow
    PROVE  LocksOK'
<1>1. txn' \in [Process -> Transaction] /\ holder' \in [Row -> Process \cup {Nobody}]
  BY DEF LocksOK
<1>2. txn'[p] = t /\ \A q \in Process \ {p} : txn'[q] = txn[q]
  BY DEF LocksOK
<1>3. Shape'
  BY <1>2 DEF LocksOK, Shape
<1>4. GardenLocked'
  BY <1>2 DEF LocksOK, GardenLocked
<1>. QED  BY <1>1, <1>3, <1>4 DEF LocksOK

LEMMA BeginKeepsLocks ==
    ASSUME LocksOK, NEW p \in Process, NEW op \in Ops \ {"sweep"}, NEW r \in Reservation,
           Begin(p, op, r)
    PROVE  LocksOK'
<1>. DEFINE t == [Idle EXCEPT !.op = op, !.r = r, !.step = "first", !.todo = FirstRows(op, r)]
<1>1. txn' = [txn EXCEPT ![p] = t] /\ UNCHANGED holder
  BY DEF Begin
<1>2. /\ t \in Transaction
      /\ t.op = op /\ t.r = r /\ t.step = "first" /\ t.todo = FirstRows(op, r)
  BY FirstRowsAreRows DEF Transaction, Idle, Steps
<1>3. op # "none"
  BY DEF Ops, HostOps, Webhooks
<1>. HIDE DEF t
<1>. QED  BY <1>1, <1>2, <1>3, FirstRowsAreRows, OwnStepKeepsLocks

LEMMA BeginSweepKeepsLocks ==
    ASSUME LocksOK, NEW p \in Process, BeginSweep(p)
    PROVE  LocksOK'
<1>. DEFINE stale == {r \in Reservation : Stale(r)}
<1>1. PICK rs \in Orders(stale) :
        txn' = [txn EXCEPT ![p] = [Idle EXCEPT !.op = "sweep", !.step = "first",
                        !.todo = [i \in DOMAIN rs |-> ReservationRow(rs[i])],
                        !.doomed = stale]]
  BY DEF BeginSweep
<1>. DEFINE rows == [i \in DOMAIN rs |-> ReservationRow(rs[i])]
            t == [Idle EXCEPT !.op = "sweep", !.step = "first", !.todo = rows, !.doomed = stale]
<1>2. rows \in Seq(Row)
  BY SweepRowsAreRows
<1>3. txn' = [txn EXCEPT ![p] = t] /\ UNCHANGED holder
  BY <1>1 DEF BeginSweep
<1>. HIDE DEF rows
<1>4. t \in Transaction /\ t.op = "sweep"
  BY <1>2 DEF Transaction, Idle, Steps, Ops
<1>. HIDE DEF t
<1>5. "sweep" \notin GardenOps
  BY DEF GardenOps
<1>. QED  BY <1>3, <1>4, <1>5, OwnStepKeepsLocks

LEMMA DecideKeepsLocks ==
    ASSUME LocksOK, NEW p \in Process, Decide(p)
    PROVE  /\ LocksOK'
           /\ txn[p].op \in GardenOps => holder[GardenRow] = p
<1>1. /\ txn[p] \in Transaction /\ txn[p].step = "first" /\ txn[p].todo = <<>>
      /\ txn[p].op \in Ops \ {"sweep"} /\ txn[p].r \in Reservation
  BY DEF LocksOK, Shape, Decide, Ready, Transaction
<1>2. txn[p].op \in GardenOps => holder[GardenRow] = p
  BY <1>1 DEF LocksOK, GardenLocked
<1>3. PICK owed \in RefundDue(txn[p].op, txn[p].r) :
        LET due == owed /\ payment[txn[p].r] = "succeeded"
        IN  txn' = [txn EXCEPT ![p].step = "later",
                               ![p].todo = LaterRows(txn[p].op, txn[p].r, due),
                               ![p].fresh = (txn[p].op = "succeeded" /\ LiveHold(txn[p].r)),
                               ![p].due = due]
  BY DEF Decide
<1>. DEFINE due == owed /\ payment[txn[p].r] = "succeeded"
            fresh == txn[p].op = "succeeded" /\ LiveHold(txn[p].r)
            rows == LaterRows(txn[p].op, txn[p].r, due)
            t == [txn[p] EXCEPT !.step = "later", !.todo = rows, !.fresh = fresh, !.due = due]
<1>4. due \in BOOLEAN /\ fresh \in BOOLEAN
  OBVIOUS
<1>5. rows \in Seq(Row)
  BY <1>1, <1>4, LaterRowsAreRows
<1>6. txn' = [txn EXCEPT ![p] = t]
  BY <1>3 DEF LocksOK
<1>. HIDE DEF due, fresh, rows
<1>7. t \in Transaction /\ t.op = txn[p].op /\ t.r = txn[p].r /\ t.step = "later"
  BY <1>1, <1>4, <1>5 DEF Transaction, Steps
<1>8. UNCHANGED holder
  BY DEF Decide
<1>. HIDE DEF t
<1>9. txn[p].op # "none"
  BY <1>1 DEF Ops, HostOps, Webhooks
<1>. QED  BY <1>1, <1>2, <1>6, <1>7, <1>8, <1>9, OwnStepKeepsLocks

LEMMA DecideSweepKeepsLocks ==
    ASSUME LocksOK, NEW p \in Process, DecideSweep(p)
    PROVE  LocksOK'
<1>. DEFINE doomed == {r \in txn[p].doomed : Stale(r)}
            t == [txn[p] EXCEPT !.step = "later", !.doomed = doomed]
<1>1. txn[p] \in Transaction /\ txn[p].op = "sweep"
  BY DEF LocksOK, DecideSweep
<1>2. txn' = [txn EXCEPT ![p] = t] /\ UNCHANGED holder
  BY DEF LocksOK, DecideSweep
<1>3. t \in Transaction /\ t.op = "sweep"
  BY <1>1 DEF Transaction, Steps
<1>. HIDE DEF t
<1>4. "sweep" \notin GardenOps
  BY DEF GardenOps
<1>. QED  BY <1>2, <1>3, <1>4, OwnStepKeepsLocks

LEMMA RefundKeepsLocks ==
    ASSUME LocksOK, NEW p \in Process, Refund(p)
    PROVE  LocksOK'
<1>. DEFINE t == [txn[p] EXCEPT !.step = "refunded"]
<1>1. txn[p] \in Transaction /\ txn[p].step = "later"
  BY DEF LocksOK, Refund, Ready
<1>2. txn' = [txn EXCEPT ![p] = t] /\ UNCHANGED holder
  BY DEF LocksOK, Refund
<1>3. t \in Transaction /\ t.op = txn[p].op /\ t.r = txn[p].r
  BY <1>1 DEF Transaction, Steps
<1>. HIDE DEF t
<1>. QED  BY <1>1, <1>2, <1>3, OwnStepKeepsLocks DEF LocksOK, Shape, GardenLocked

LEMMA LockKeepsLocks ==
    ASSUME LocksOK, NEW p \in Process, Lock(p)
    PROVE  LocksOK'
<1>. DEFINE x == Head(txn[p].todo)
            rest == Tail(txn[p].todo)
<1>1. txn[p] \in Transaction /\ txn[p].todo \in Seq(Row) /\ txn[p].todo # <<>>
  BY DEF LocksOK, Lock, Transaction
<1>2. /\ x \in Row /\ x = txn[p].todo[1]
      /\ rest \in Seq(Row) /\ Len(rest) = Len(txn[p].todo) - 1
      /\ \A i \in 1 .. Len(rest) : rest[i] = txn[p].todo[i + 1]
  BY <1>1, HeadTailProperties
<1>3. holder[x] \in {p, Nobody} /\ holder' = [holder EXCEPT ![x] = p]
  BY DEF Lock
<1>4. txn' = [txn EXCEPT ![p].todo = rest]
  BY DEF Lock
<1>. HIDE DEF rest, x
<1>5. /\ txn' \in [Process -> Transaction]
      /\ \A q \in Process \ {p} : txn'[q] = txn[q]
      /\ txn'[p].op = txn[p].op /\ txn'[p].r = txn[p].r /\ txn'[p].step = txn[p].step
      /\ txn'[p].todo = rest
  BY <1>1, <1>2, <1>4 DEF LocksOK, Transaction
<1>6. /\ holder' \in [Row -> Process \cup {Nobody}]
      /\ holder'[x] = p /\ \A y \in Row \ {x} : holder'[y] = holder[y]
  BY <1>2, <1>3 DEF LocksOK
<1>7. Shape'
  BY <1>5 DEF LocksOK, Shape
<1>8. GardenLocked'
  <2>1. SUFFICES ASSUME NEW q \in Process, txn'[q].op \in GardenOps
                 PROVE  \/ holder'[GardenRow] = q
                        \/ txn'[q].step = "first" /\
                           \E i \in 1 .. Len(txn'[q].todo) : txn'[q].todo[i] = GardenRow
    BY DEF GardenLocked
  <2>2. txn[q].op \in GardenOps
    BY <1>5, <2>1
  <2>3. CASE holder[GardenRow] = q
    <3>1. q # Nobody
      BY TransactionsAssumption
    <3>. QED  BY <1>3, <1>6, <2>3, <3>1, RowsAreRows
  <2>4. ASSUME q # p, txn[q].step = "first",
               \E i \in 1 .. Len(txn[q].todo) : txn[q].todo[i] = GardenRow
        PROVE  txn'[q].step = "first" /\
               \E i \in 1 .. Len(txn'[q].todo) : txn'[q].todo[i] = GardenRow
    BY <1>5, <2>4
  <2>5. ASSUME q = p, txn[p].step = "first", NEW i \in 1 .. Len(txn[p].todo),
               txn[p].todo[i] = GardenRow
        PROVE  \/ holder'[GardenRow] = q
               \/ txn'[q].step = "first" /\
                  \E k \in 1 .. Len(txn'[q].todo) : txn'[q].todo[k] = GardenRow
    <3>1. CASE i = 1
      BY <1>2, <1>6, <2>5, <3>1
    <3>2. CASE i # 1
      <4>1. Len(txn[p].todo) \in Nat
        BY <1>1
      <4>2. i - 1 \in 1 .. Len(rest) /\ rest[i - 1] = GardenRow
        BY <1>2, <2>5, <3>2, <4>1
      <4>. QED  BY <1>5, <2>5, <4>2
    <3>. QED  BY <3>1, <3>2
  <2>. QED  BY <2>2, <2>3, <2>4, <2>5 DEF LocksOK, GardenLocked
<1>. QED  BY <1>5, <1>6, <1>7, <1>8 DEF LocksOK

-----------------------------------------------------------------------------
(* What is stored, what has been seen of it, and who is entitled.          *)

\* Whoever has decided about the garden decides alone.
LEMMA DecidesAlone ==
    ASSUME LocksOK, NEW p \in Process, NEW q \in Process, holder[GardenRow] = p, q # p,
           txn[q].op \in GardenOps
    PROVE  txn[q].step = "first"
BY DEF LocksOK, GardenLocked

LEMMA GardenHeld ==
    ASSUME LocksOK, NEW p \in Process, txn[p].op \in GardenOps, txn[p].step # "first"
    PROVE  holder[GardenRow] = p
BY DEF LocksOK, GardenLocked

\* A step that stores nothing about the window and takes no decision.
LEMMA NothingDecided ==
    ASSUME Inv, LocksOK', UNCHANGED <<status, lapsed, timely>>,
           payment' \in [Reservation -> PaymentStatuses], charge' \in [Reservation -> ChargeStates],
           \A q \in Process :
                txn'[q].step = "later" /\ txn'[q].op \in {"create", "succeeded"} =>
                    /\ txn[q].step = "later" /\ txn[q].op = txn'[q].op
                    /\ txn[q].r = txn'[q].r /\ txn[q].fresh = txn'[q].fresh
    PROVE  Inv'
<1>1. StoredOK' /\ EntitledOnce'
  BY DEF Inv, StoredOK, Marks, EntitledOnce, Committed, LiveHold
<1>2. CreateSees'
  BY DEF Inv, SeenOK, CreateSees, Committed, LiveHold
<1>3. WebhookSees'
  BY DEF Inv, SeenOK, WebhookSees, LiveHold
<1>. QED  BY <1>1, <1>2, <1>3 DEF Inv, SeenOK

\* A step that ends the transaction of p: what others have seen is still so if
\* nothing came to take the window, or if p held the garden.
LEMMA SeenIsStillSo ==
    ASSUME LocksOK, SeenOK, NEW p \in Process, Ends(p),
           \/ \A r \in Reservation : (LiveHold(r)' => LiveHold(r)) /\ (Committed(r)' => Committed(r))
           \/ holder[GardenRow] = p
    PROVE  SeenOK'
<1>1. txn'[p] = Idle /\ \A q \in Process \ {p} : txn'[q] = txn[q]
  BY EndsKeepsLocks
<1>2. ASSUME NEW q \in Process, txn'[q].step = "later"
      PROVE  q # p /\ txn'[q] = txn[q]
  BY <1>1, <1>2, IdleIsATransaction
<1>3. {"create", "succeeded"} \subseteq GardenOps
  BY DEF GardenOps, Ops, Webhooks
<1>4. CASE holder[GardenRow] = p
  <2>1. \A q \in Process : txn'[q].step = "later" => txn'[q].op \notin {"create", "succeeded"}
    BY <1>2, <1>3, <1>4, DecidesAlone
  <2>. QED  BY <2>1 DEF SeenOK, CreateSees, WebhookSees
<1>5. CASE \A r \in Reservation :
            (LiveHold(r)' => LiveHold(r)) /\ (Committed(r)' => Committed(r))
  <2>1. CreateSees'
    BY <1>2, <1>5 DEF SeenOK, CreateSees
  <2>2. WebhookSees'
    BY <1>2, <1>5 DEF SeenOK, WebhookSees
  <2>. QED  BY <2>1, <2>2 DEF SeenOK
<1>. QED  BY <1>4, <1>5

\* Nobody new is entitled.
LEMMA NobodyNew ==
    ASSUME EntitledOnce,
           \A r \in Reservation :
                /\ LiveHold(r)' => LiveHold(r)
                /\ (Committed(r) /\ r \in timely)' => Committed(r) /\ r \in timely
    PROVE  EntitledOnce'
BY DEF EntitledOnce

LEMMA BeginKeeps ==
    ASSUME Inv, NEW p \in Process, NEW op \in Ops \ {"sweep"}, NEW r \in Reservation,
           Begin(p, op, r)
    PROVE  Inv'
<1>1. LocksOK'
  BY BeginKeepsLocks DEF Inv
<1>2. txn'[p].step = "first" /\ \A q \in Process \ {p} : txn'[q] = txn[q]
  BY DEF Begin, Inv, LocksOK, Idle
<1>3. UNCHANGED <<status, lapsed, timely, payment, charge>>
  BY DEF Begin, data
<1>. QED  BY <1>1, <1>2, <1>3, NothingDecided DEF Inv, StoredOK

LEMMA BeginSweepKeeps ==
    ASSUME Inv, NEW p \in Process, BeginSweep(p)
    PROVE  Inv'
<1>1. LocksOK'
  BY BeginSweepKeepsLocks DEF Inv
<1>2. txn'[p].step = "first" /\ \A q \in Process \ {p} : txn'[q] = txn[q]
  BY DEF BeginSweep, Inv, LocksOK, Idle
<1>3. UNCHANGED <<status, lapsed, timely, payment, charge>>
  BY DEF BeginSweep, data
<1>. QED  BY <1>1, <1>2, <1>3, NothingDecided DEF Inv, StoredOK

LEMMA LockKeeps ==
    ASSUME Inv, NEW p \in Process, Lock(p)
    PROVE  Inv'
<1>1. LocksOK'
  BY LockKeepsLocks DEF Inv
<1>2. /\ txn[p] \in Transaction
      /\ txn' = [txn EXCEPT ![p].todo = Tail(@)]
  BY DEF Lock, Inv, LocksOK
<1>3. /\ txn'[p].step = txn[p].step /\ txn'[p].op = txn[p].op
      /\ txn'[p].r = txn[p].r /\ txn'[p].fresh = txn[p].fresh
      /\ \A q \in Process \ {p} : txn'[q] = txn[q]
  BY <1>2 DEF Inv, LocksOK, Transaction
<1>4. UNCHANGED <<status, lapsed, timely, payment, charge>>
  BY DEF Lock, data
<1>. QED  BY <1>1, <1>3, <1>4, NothingDecided DEF Inv, StoredOK

LEMMA DecideSweepKeeps ==
    ASSUME Inv, NEW p \in Process, DecideSweep(p)
    PROVE  Inv'
<1>1. LocksOK'
  BY DecideSweepKeepsLocks DEF Inv
<1>2. txn'[p].op = "sweep" /\ \A q \in Process \ {p} : txn'[q] = txn[q]
  BY DEF DecideSweep, Inv, LocksOK, Transaction
<1>3. UNCHANGED <<status, lapsed, timely, payment, charge>>
  BY DEF DecideSweep, data
<1>. QED  BY <1>1, <1>2, <1>3, NothingDecided DEF Inv, StoredOK

LEMMA RefundKeeps ==
    ASSUME Inv, NEW p \in Process, Refund(p)
    PROVE  Inv'
<1>1. LocksOK'
  BY RefundKeepsLocks DEF Inv
<1>2. txn'[p].step = "refunded" /\ \A q \in Process \ {p} : txn'[q] = txn[q]
  BY DEF Refund, Inv, LocksOK, Transaction
<1>3. /\ UNCHANGED <<status, lapsed, timely, payment>>
      /\ charge' \in [Reservation -> ChargeStates]
  BY DEF Refund, Becomes, Inv, StoredOK, ChargeStates
<1>. QED  BY <1>1, <1>2, <1>3, NothingDecided DEF Inv, StoredOK

\* RollBack and Refuse.
LEMMA GivingUpKeeps ==
    ASSUME Inv, NEW p \in Process, Ends(p), UNCHANGED data
    PROVE  Inv'
<1>1. LocksOK' /\ txn'[p] = Idle /\ \A q \in Process \ {p} : txn'[q] = txn[q]
  BY EndsKeepsLocks DEF Inv
<1>2. UNCHANGED <<status, lapsed, timely, payment, charge>>
  BY DEF data
<1>. QED  BY <1>1, <1>2, IdleIsATransaction, NothingDecided DEF Inv, StoredOK

LEMMA DecideKeeps ==
    ASSUME Inv, NEW p \in Process, Decide(p)
    PROVE  Inv'
<1>1. LocksOK'
  BY DecideKeepsLocks DEF Inv
<1>2. /\ txn'[p].op = txn[p].op /\ txn'[p].r = txn[p].r /\ Allowed(txn[p].op, txn[p].r)
      /\ txn'[p].fresh => LiveHold(txn[p].r)
      /\ \A q \in Process \ {p} : txn'[q] = txn[q]
  BY DEF Decide, Inv, LocksOK, Transaction
<1>3. UNCHANGED <<status, lapsed, timely, payment, charge>>
  BY DEF Decide, data
<1>4. StoredOK' /\ EntitledOnce'
  BY <1>3 DEF Inv, StoredOK, Marks, EntitledOnce, Committed, LiveHold
<1>5. CreateSees'
  <2>1. txn[p].op = "create" => \A q \in Reservation : ~(Committed(q) \/ LiveHold(q))
    BY <1>2 DEF Allowed, HostOps
  <2>. QED  BY <1>2, <1>3, <2>1 DEF Inv, SeenOK, CreateSees, Committed, LiveHold
<1>6. WebhookSees'
  <2>1. txn'[p].op = "succeeded" => txn[p].r \in Reservation
    BY <1>2 DEF Inv, LocksOK, Shape
  <2>2. txn'[p].op = "succeeded" /\ txn'[p].fresh =>
            \A q \in Reservation : q # txn[p].r => ~LiveHold(q)
    BY <1>2, <2>1 DEF Inv, EntitledOnce
  <2>. QED  BY <1>2, <1>3, <2>2 DEF Inv, SeenOK, WebhookSees, LiveHold
<1>. QED  BY <1>1, <1>4, <1>5, <1>6 DEF Inv, SeenOK

-----------------------------------------------------------------------------
(* What a commit writes.                                                   *)

LEMMA CommitCreateKeeps ==
    ASSUME Inv, NEW p \in Process, CommitCreate(p), Ends(p)
    PROVE  StoredOK' /\ SeenOK' /\ EntitledOnce'
<1>. DEFINE r == txn[p].r
<1>1. /\ txn[p].op = "create" /\ txn[p].step = "later" /\ r \in Reservation
      /\ status' = [status EXCEPT ![r] = "pending_payment"]
      /\ UNCHANGED <<lapsed, timely, payment, charge>>
  BY DEF CommitCreate, Open, Ready, Becomes, Inv, LocksOK, Shape
<1>2. \A q \in Reservation : ~Committed(q) /\ ~LiveHold(q)
  BY <1>1 DEF Inv, SeenOK, CreateSees
<1>3. status' \in [Reservation -> Statuses] /\ status'[r] = "pending_payment"
      /\ \A q \in Reservation \ {r} : status'[q] = status[q]
  BY <1>1 DEF Inv, StoredOK, Statuses
<1>. HIDE DEF r
<1>4. \A q \in Reservation : ~Committed(q)' /\ (LiveHold(q)' => q = r)
  BY <1>1, <1>2, <1>3 DEF Committed, LiveHold
<1>5. StoredOK'
  BY <1>1, <1>2, <1>3, <1>4 DEF Inv, StoredOK, Marks
<1>6. holder[GardenRow] = p
  BY <1>1, GardenHeld DEF Inv, GardenOps, Ops
<1>7. SeenOK'
  BY <1>6, SeenIsStillSo DEF Inv
<1>8. EntitledOnce'
  BY <1>4 DEF EntitledOnce
<1>. QED  BY <1>5, <1>7, <1>8

LEMMA CommitStartKeeps ==
    ASSUME Inv, NEW p \in Process, CommitStart(p), Ends(p)
    PROVE  StoredOK' /\ SeenOK' /\ EntitledOnce'
<1>1. /\ UNCHANGED <<status, lapsed, timely>>
      /\ payment' \in [Reservation -> PaymentStatuses]
      /\ charge' \in [Reservation -> ChargeStates]
  BY DEF CommitStart, Becomes, Inv, StoredOK, PaymentStatuses, ChargeStates
<1>2. \A q \in Reservation : LiveHold(q)' = LiveHold(q) /\ Committed(q)' = Committed(q)
  BY <1>1 DEF LiveHold, Committed
<1>3. StoredOK'
  BY <1>1, <1>2 DEF Inv, StoredOK, Marks
<1>. QED  BY <1>1, <1>2, <1>3, SeenIsStillSo, NobodyNew DEF Inv

LEMMA CommitPaymentKeeps ==
    ASSUME Inv, NEW p \in Process, CommitPayment(p), Ends(p)
    PROVE  StoredOK' /\ SeenOK' /\ EntitledOnce'
<1>1. /\ UNCHANGED <<status, lapsed, timely, charge>>
      /\ payment' \in [Reservation -> PaymentStatuses]
  BY DEF CommitPayment, Becomes, Inv, StoredOK, PaymentStatuses
<1>2. \A q \in Reservation : LiveHold(q)' = LiveHold(q) /\ Committed(q)' = Committed(q)
  BY <1>1 DEF LiveHold, Committed
<1>3. StoredOK'
  BY <1>1, <1>2 DEF Inv, StoredOK, Marks
<1>. QED  BY <1>1, <1>2, <1>3, SeenIsStillSo, NobodyNew DEF Inv

LEMMA CommitSucceededKeeps ==
    ASSUME Inv, NEW p \in Process, CommitSucceeded(p), Ends(p)
    PROVE  StoredOK' /\ SeenOK' /\ EntitledOnce'
<1>. DEFINE r == txn[p].r
<1>1. /\ txn[p].op = "succeeded" /\ txn[p].step = "later" /\ r \in Reservation
      /\ payment' = [payment EXCEPT ![r] = "succeeded"] /\ UNCHANGED charge
  BY DEF CommitSucceeded, Open, Ready, Becomes, Inv, LocksOK, Shape
<1>2. payment' \in [Reservation -> PaymentStatuses]
  BY <1>1 DEF Inv, StoredOK, PaymentStatuses
<1>3. CASE status[r] = "pending_payment"
  <2>1. /\ \A q \in Reservation : ~Committed(q)
        /\ status' = [status EXCEPT ![r] = "awaiting_host"]
        /\ timely' = IF txn[p].fresh THEN timely \cup {r} ELSE timely
        /\ lapsed' = lapsed \ {r}
    BY <1>3 DEF CommitSucceeded, Becomes
  <2>2. /\ status' \in [Reservation -> Statuses] /\ status'[r] = "awaiting_host"
        /\ \A q \in Reservation \ {r} : status'[q] = status[q]
    BY <1>1, <2>1 DEF Inv, StoredOK, Statuses
  <2>3. txn[p].fresh => \A q \in Reservation : q # r => ~LiveHold(q)
    BY <1>1 DEF Inv, SeenOK, WebhookSees
  <2>4. timely = {}
    BY <2>1 DEF Inv, StoredOK, Marks
  <2>. HIDE DEF r
  <2>5. StoredOK'
    BY <1>1, <1>2, <2>1, <2>2, <2>4 DEF Inv, StoredOK, Marks, Committed
  <2>6. \A q \in Reservation : LiveHold(q)' => LiveHold(q) /\ q # r
    BY <1>1, <2>1, <2>2 DEF LiveHold
  <2>7. EntitledOnce'
    <3>1. CASE txn[p].fresh
      BY <2>1, <2>3, <2>4, <2>6, <3>1 DEF EntitledOnce
    <3>2. CASE ~txn[p].fresh
      BY <2>1, <2>4, <2>6, <3>2 DEF Inv, EntitledOnce
    <3>. QED  BY <3>1, <3>2
  <2>8. holder[GardenRow] = p
    BY <1>1, GardenHeld DEF Inv, GardenOps, Ops, Webhooks
  <2>. QED  BY <2>5, <2>7, <2>8, SeenIsStillSo DEF Inv
<1>4. CASE status[r] # "pending_payment"
  <2>1. UNCHANGED <<status, timely, lapsed>>
    BY <1>4 DEF CommitSucceeded
  <2>2. \A q \in Reservation : LiveHold(q)' = LiveHold(q) /\ Committed(q)' = Committed(q)
    BY <2>1 DEF LiveHold, Committed
  <2>3. StoredOK'
    BY <1>1, <1>2, <2>1, <2>2 DEF Inv, StoredOK, Marks
  <2>. QED  BY <2>1, <2>2, <2>3, SeenIsStillSo, NobodyNew DEF Inv
<1>. QED  BY <1>3, <1>4

LEMMA CommitDecisionKeeps ==
    ASSUME Inv, NEW p \in Process, CommitDecision(p), Ends(p)
    PROVE  StoredOK' /\ SeenOK' /\ EntitledOnce'
<1>. DEFINE r == txn[p].r
<1>1. /\ txn[p].op \in HostOps \cup {"cancel"} /\ txn[p].step # "first" /\ r \in Reservation
      /\ status' = [status EXCEPT ![r] = Decision(txn[p].op)]
      /\ lapsed' = lapsed \ {r}
      /\ timely' = IF txn[p].op = "accept" THEN timely ELSE timely \ {r}
      /\ UNCHANGED charge
  BY DEF CommitDecision, Ready, Becomes, HostOps, Inv, LocksOK, Shape
<1>2. payment' \in [Reservation -> PaymentStatuses]
  BY DEF CommitDecision, Becomes, Inv, StoredOK, PaymentStatuses
<1>3. /\ Decision(txn[p].op) \in {"confirmed", "rejected", "cancelled"}
      /\ Decision(txn[p].op) = "confirmed" <=> txn[p].op = "accept"
  BY <1>1 DEF Decision, HostOps
<1>4. /\ status' \in [Reservation -> Statuses] /\ status'[r] = Decision(txn[p].op)
      /\ \A q \in Reservation \ {r} : status'[q] = status[q]
  BY <1>1, <1>3 DEF Inv, StoredOK, Statuses
<1>. HIDE DEF r
<1>5. StoredOK'
  BY <1>1, <1>2, <1>3, <1>4 DEF Inv, StoredOK, Marks, Committed
<1>6. \A q \in Reservation :
        /\ LiveHold(q)' => LiveHold(q)
        /\ (Committed(q) /\ q \in timely)' => Committed(q) /\ q \in timely
  BY <1>1, <1>3, <1>4 DEF LiveHold, Committed, Inv, StoredOK, Marks
<1>7. holder[GardenRow] = p
  BY <1>1, GardenHeld DEF Inv, GardenOps, Ops, HostOps
<1>. QED  BY <1>5, <1>6, <1>7, SeenIsStillSo, NobodyNew DEF Inv

LEMMA CommitSweepKeeps ==
    ASSUME Inv, NEW p \in Process, CommitSweep(p), Ends(p)
    PROVE  StoredOK' /\ SeenOK' /\ EntitledOnce'
<1>1. status' = [r \in Reservation |->
                    IF r \in txn[p].doomed THEN "cancelled" ELSE status[r]]
      /\ lapsed' = lapsed \ txn[p].doomed /\ timely' = timely \ txn[p].doomed
      /\ UNCHANGED <<payment, charge>>
  BY DEF CommitSweep
<1>2. StoredOK'
  BY <1>1 DEF Inv, StoredOK, Marks, Committed, Statuses
<1>3. \A q \in Reservation :
        /\ LiveHold(q)' => LiveHold(q)
        /\ Committed(q)' => Committed(q)
        /\ (q \in timely)' => q \in timely
  BY <1>1 DEF LiveHold, Committed
<1>. QED  BY <1>2, <1>3, SeenIsStillSo, NobodyNew DEF Inv

LEMMA CommitKeeps ==
    ASSUME Inv, NEW p \in Process, Commit(p)
    PROVE  Inv'
<1>1. Ends(p) /\ LocksOK'
  BY EndsKeepsLocks DEF Commit, Inv
<1>2. StoredOK' /\ SeenOK' /\ EntitledOnce'
  BY <1>1, CommitCreateKeeps, CommitStartKeeps, CommitSucceededKeeps, CommitPaymentKeeps,
     CommitDecisionKeeps, CommitSweepKeeps DEF Commit
<1>. QED  BY <1>1, <1>2 DEF Inv

LEMMA LapseKeeps ==
    ASSUME Inv, NEW r \in Reservation, Lapse(r)
    PROVE  Inv'
<1>1. LocksOK'
  BY DEF Lapse, Inv, LocksOK, Shape, GardenLocked
<1>2. StoredOK'
  BY DEF Lapse, LiveHold, Inv, StoredOK, Marks, Committed
<1>3. \A q \in Reservation : (LiveHold(q)' => LiveHold(q)) /\ Committed(q)' = Committed(q)
  BY DEF Lapse, LiveHold, Committed
<1>4. SeenOK'
  BY <1>3 DEF Lapse, Inv, SeenOK, CreateSees, WebhookSees
<1>5. EntitledOnce'
  BY <1>3, NobodyNew DEF Lapse, Inv
<1>. QED  BY <1>1, <1>2, <1>4, <1>5 DEF Inv

LEMMA CardChargedKeeps ==
    ASSUME Inv, NEW r \in Reservation, CardCharged(r)
    PROVE  Inv'
<1>1. LocksOK'
  BY DEF CardCharged, Inv, LocksOK, Shape, GardenLocked
<1>2. /\ UNCHANGED <<txn, status, lapsed, timely, payment>>
      /\ charge' \in [Reservation -> ChargeStates]
  BY DEF CardCharged, Becomes, Inv, StoredOK, ChargeStates
<1>. QED  BY <1>1, <1>2, NothingDecided DEF Inv, StoredOK

LEMMA InvInductive == Inv /\ [Next]_vars => Inv'
<1>. SUFFICES ASSUME Inv, [Next]_vars  PROVE Inv'
  OBVIOUS
<1>1. ASSUME NEW r \in Reservation, Lapse(r)  PROVE Inv'
  BY <1>1, LapseKeeps
<1>2. ASSUME NEW r \in Reservation, CardCharged(r)  PROVE Inv'
  BY <1>2, CardChargedKeeps
<1>3. ASSUME NEW p \in Process, NEW op \in Ops \ {"sweep"}, NEW r \in Reservation,
             Begin(p, op, r)
      PROVE  Inv'
  BY <1>3, BeginKeeps
<1>4. ASSUME NEW p \in Process, BeginSweep(p)  PROVE Inv'
  BY <1>4, BeginSweepKeeps
<1>5. ASSUME NEW p \in Process, Lock(p)  PROVE Inv'
  BY <1>5, LockKeeps
<1>6. ASSUME NEW p \in Process, Decide(p)  PROVE Inv'
  BY <1>6, DecideKeeps
<1>7. ASSUME NEW p \in Process, DecideSweep(p)  PROVE Inv'
  BY <1>7, DecideSweepKeeps
<1>8. ASSUME NEW p \in Process, Refuse(p) \/ RollBack(p)  PROVE Inv'
  BY <1>8, GivingUpKeeps DEF Refuse, RollBack
<1>9. ASSUME NEW p \in Process, Refund(p)  PROVE Inv'
  BY <1>9, RefundKeeps
<1>10. ASSUME NEW p \in Process, Commit(p)  PROVE Inv'
  BY <1>10, CommitKeeps
<1>11. CASE UNCHANGED vars
  <2>1. LocksOK'
    BY <1>11 DEF vars, Inv, LocksOK, Shape, GardenLocked
  <2>. QED  BY <1>11, <2>1, NothingDecided DEF vars, Inv, StoredOK
<1>. QED
  BY <1>1, <1>2, <1>3, <1>4, <1>5, <1>6, <1>7, <1>8, <1>9, <1>10, <1>11 DEF Next

LEMMA InitInv == Init => Inv
<1>. SUFFICES ASSUME Init  PROVE Inv
  OBVIOUS
<1>1. \A p \in Process : txn[p].op = "none" /\ txn[p].step = "idle"
  BY IdleIsATransaction DEF Init
<1>2. LocksOK
  BY <1>1, IdleIsATransaction DEF Init, LocksOK, Shape, GardenLocked, GardenOps, Ops, HostOps, Webhooks
<1>3. StoredOK
  BY DEF Init, StoredOK, Marks, Statuses, PaymentStatuses, ChargeStates
<1>4. SeenOK
  BY <1>1 DEF SeenOK, CreateSees, WebhookSees
<1>5. EntitledOnce
  BY DEF Init, EntitledOnce, LiveHold
<1>. QED  BY <1>2, <1>3, <1>4, <1>5 DEF Inv

-----------------------------------------------------------------------------
(* The theorems                                                            *)

LEMMA InvAlways == Spec => []Inv
<1>1. Init => Inv
  BY InitInv
<1>2. Inv /\ [Next]_vars => Inv'
  BY InvInductive
<1>. QED  BY <1>1, <1>2, PTL DEF Spec

\* The requests, the locks and the rows of apps/reservations and apps/payments keep
\* their shape under any interleaving of any number of transactions.
THEOREM TransactionsTypeCorrect == Spec => []TransactionsTypeOK
<1>1. Inv => TransactionsTypeOK
  BY DEF Inv, LocksOK, StoredOK, TransactionsTypeOK, Transaction
<1>. QED  BY <1>1, InvAlways, PTL

\* However many requests run at once, and in whatever order their statements lock the
\* joined rows, the row of the garden that create_reservation, the webhooks and the
\* decisions lock is enough: nobody but one unexpired hold or one booking paid in time
\* is ever entitled to the window.
THEOREM WindowPromisedOnce == Spec => []EntitledOnce
<1>1. Inv => EntitledOnce
  BY DEF Inv
<1>. QED  BY <1>1, InvAlways, PTL

-----------------------------------------------------------------------------
(* Which rows a request has locked: what it reads to decide, it holds      *)
(* from its first statement to its commit.                                 *)

\* Requests that lock their reservation before anything else.
Quick == {"start", "cancel"} \cup HostOps

Waits(p, x) == \E i \in 1 .. Len(txn[p].todo) : txn[p].todo[i] = x

\* Held, or still to be locked by the first statement.
Secured(p, x) == holder[x] = p \/ (txn[p].step = "first" /\ Waits(p, x))

\* Before its first lock a quick request holds nothing at all.
Untouched(p) ==
    /\ txn[p].step = "first" /\ txn[p].todo = FirstRows(txn[p].op, txn[p].r)
    /\ \A x \in Row : holder[x] # p

\* Which rows request p has locked.
Locked(p) ==
    /\ txn[p].op = "none" => txn[p].todo = <<>> /\ ~txn[p].due /\ \A x \in Row : holder[x] # p
    /\ txn[p].op = "sweep" =>
            txn[p].r = Nobody /\ \A r \in txn[p].doomed : Secured(p, ReservationRow(r))
    /\ txn[p].op \in Webhooks =>
            Secured(p, ReservationRow(txn[p].r)) /\ Secured(p, PaymentRow(txn[p].r))
    /\ txn[p].op \in Quick => holder[ReservationRow(txn[p].r)] = p \/ Untouched(p)
    /\ txn[p].due =>
            /\ txn[p].op \in {"reject", "cancel"} /\ txn[p].step \in {"later", "refunded"}
            /\ holder[PaymentRow(txn[p].r)] = p \/ Waits(p, PaymentRow(txn[p].r))
    /\ txn[p].step = "refunded" => txn[p].due /\ txn[p].todo = <<>>

LockedOK == \A p \in Process : Locked(p)

-----------------------------------------------------------------------------
(* Locks: who reads a row has locked it.                                   *)

LEMMA RequestRows ==
    ASSUME LocksOK, NEW p \in Process
    PROVE  /\ txn[p].op \notin {"none", "sweep"} =>
                /\ txn[p].r \in Reservation
                /\ ReservationRow(txn[p].r) \in Row /\ PaymentRow(txn[p].r) \in Row
           /\ txn[p].doomed \subseteq Reservation
           /\ \A r \in txn[p].doomed : ReservationRow(r) \in Row
<1>1. txn[p] \in Transaction
  BY DEF LocksOK
<1>2. txn[p].doomed \subseteq Reservation
  BY <1>1 DEF Transaction
<1>. QED  BY <1>2, RowsAreRows DEF LocksOK, Shape

LEMMA Kinds ==
    /\ "none" \notin Quick \cup Webhooks /\ "sweep" \notin Quick \cup Webhooks
    /\ "create" \notin Quick \cup Webhooks
    /\ Quick \cap Webhooks = {}
    /\ Ops = {"create", "sweep"} \cup Quick \cup Webhooks
    /\ {"reject", "cancel"} \subseteq Quick
BY DEF Quick, HostOps, Webhooks, Ops

\* A step of somebody else takes no lock from q and gives it none.
LEMMA OthersStayLocked ==
    ASSUME LocksOK, NEW q \in Process, Locked(q), txn'[q] = txn[q],
           \A x \in Row : holder'[x] = q <=> holder[x] = q
    PROVE  Locked(q)'
<1>1. /\ Untouched(q) => Untouched(q)'
      /\ \A x \in Row : /\ Secured(q, x) => Secured(q, x)'
                        /\ Waits(q, x)' = Waits(q, x)
  BY DEF Untouched, Secured, Waits
<1>2. \A r \in txn[q].doomed : Secured(q, ReservationRow(r)) => Secured(q, ReservationRow(r))'
  BY <1>1, RequestRows
<1>3. txn[q].op \in Webhooks =>
            /\ Secured(q, ReservationRow(txn[q].r)) => Secured(q, ReservationRow(txn[q].r))'
            /\ Secured(q, PaymentRow(txn[q].r)) => Secured(q, PaymentRow(txn[q].r))'
  BY <1>1, RequestRows, Kinds
<1>4. txn[q].op \in Quick =>
            holder'[ReservationRow(txn[q].r)] = q <=> holder[ReservationRow(txn[q].r)] = q
  BY RequestRows, Kinds
<1>5. txn[q].due =>
            (holder[PaymentRow(txn[q].r)] = q \/ Waits(q, PaymentRow(txn[q].r)) =>
                holder'[PaymentRow(txn[q].r)] = q \/ Waits(q, PaymentRow(txn[q].r))')
  BY <1>1, RequestRows, Kinds DEF Locked
<1>. QED  BY <1>1, <1>2, <1>3, <1>4, <1>5 DEF Locked

LEMMA EndsFrame ==
    ASSUME LocksOK, NEW p \in Process, Ends(p)
    PROVE  /\ txn'[p] = Idle
           /\ \A q \in Process \ {p} :
                txn'[q] = txn[q] /\ \A x \in Row : holder'[x] = q <=> holder[x] = q
<1>1. \A q \in Process \ {p} : \A x \in Row : holder'[x] = q <=> holder[x] = q
  BY TransactionsAssumption DEF Ends, LocksOK
<1>. QED  BY <1>1, EndsKeepsLocks

LEMMA EndsStaysLocked ==
    ASSUME LocksOK, LockedOK, NEW p \in Process, Ends(p)
    PROVE  LockedOK'
<1>1. Locked(p)'
  <2>1. \A x \in Row : holder'[x] # p
    BY TransactionsAssumption DEF Ends
  <2>. QED  BY <2>1, EndsFrame, IdleIsATransaction, Kinds DEF Locked, Idle
<1>2. \A q \in Process \ {p} : Locked(q)'
  BY EndsFrame, OthersStayLocked DEF LockedOK
<1>. QED  BY <1>1, <1>2 DEF LockedOK

\* A step of p that changes its own transaction only, and no lock.
LEMMA OwnStepStaysLocked ==
    ASSUME LocksOK, LockedOK, NEW p \in Process, UNCHANGED holder,
           \A q \in Process \ {p} : txn'[q] = txn[q], Locked(p)'
    PROVE  LockedOK'
BY OthersStayLocked DEF LockedOK

\* Where the rows stand in the first statements.
LEMMA FirstRowsSecure ==
    ASSUME NEW op \in Quick \cup Webhooks, NEW r \in Reservation
    PROVE  /\ FirstRows(op, r) \in Seq(Row) /\ FirstRows(op, r) # <<>>
           /\ op \in Quick => Head(FirstRows(op, r)) = ReservationRow(r)
           /\ op \in Webhooks =>
                /\ \E i \in 1 .. Len(FirstRows(op, r)) : FirstRows(op, r)[i] = ReservationRow(r)
                /\ \E i \in 1 .. Len(FirstRows(op, r)) : FirstRows(op, r)[i] = PaymentRow(r)
<1>. DEFINE shared == SharedRows(op, r)
            booking == ReservationRow(r)
            paying == PaymentRow(r)
<1>1. shared \in Seq(Row) /\ booking \in Row /\ paying \in Row
  BY SharedRowsAreRows, RowsAreRows
<1>2. /\ op = "start" => FirstRows(op, r) = <<booking>>
      /\ op \in HostOps \cup {"cancel"} => FirstRows(op, r) = <<booking>> \o shared
      /\ op \in Webhooks => FirstRows(op, r) = <<paying, booking>> \o shared
  BY DEF FirstRows, StartRows, DecisionRows, WebhookRows, HostOps, Webhooks
<1>. HIDE DEF shared, booking, paying
<1>3. CASE op = "start"
  <2>1. <<booking>> \in Seq(Row) /\ <<booking>> # <<>> /\ Head(<<booking>>) = booking
    BY <1>1
  <2>. QED  BY <1>2, <1>3, <2>1 DEF Webhooks, booking
<1>4. CASE op \in HostOps \cup {"cancel"}
  <2>. DEFINE first == <<booking>>
              rows == first \o shared
  <2>1. first \in Seq(Row) /\ Len(first) = 1 /\ first[1] = booking
    BY <1>1
  <2>. HIDE DEF first
  <2>2. rows \in Seq(Row) /\ Len(rows) >= 1 /\ rows[1] = booking
    BY <1>1, <2>1, ConcatProperties
  <2>. HIDE DEF rows
  <2>3. rows # <<>> /\ Head(rows) = booking
    BY <2>2
  <2>. QED  BY <1>2, <1>4, <2>2, <2>3 DEF rows, first, booking, HostOps, Webhooks
<1>5. CASE op \in Webhooks
  <2>. DEFINE first == <<paying, booking>>
              rows == first \o shared
  <2>1. first \in Seq(Row) /\ Len(first) = 2 /\ first[1] = paying /\ first[2] = booking
    BY <1>1, ShortSequences
  <2>. HIDE DEF first
  <2>2. rows \in Seq(Row) /\ Len(rows) >= 2 /\ rows[1] = paying /\ rows[2] = booking
    BY <1>1, <2>1, ConcatProperties
  <2>. HIDE DEF rows
  <2>3. rows # <<>> /\ 1 \in 1 .. Len(rows) /\ 2 \in 1 .. Len(rows)
    BY <2>2
  <2>. QED  BY <1>2, <1>5, <2>2, <2>3, Kinds DEF rows, first, booking, paying
<1>. QED  BY <1>3, <1>4, <1>5 DEF Quick

LEMMA BeginStaysLocked ==
    ASSUME LocksOK, LockedOK, NEW p \in Process, NEW op \in Ops \ {"sweep"},
           NEW r \in Reservation, Begin(p, op, r)
    PROVE  LockedOK'
<1>1. /\ txn[p] = Idle /\ UNCHANGED holder
      /\ txn'[p] = [Idle EXCEPT !.op = op, !.r = r, !.step = "first", !.todo = FirstRows(op, r)]
      /\ \A q \in Process \ {p} : txn'[q] = txn[q]
  BY DEF Begin, LocksOK
<1>2. /\ txn'[p].op = op /\ txn'[p].r = r /\ txn'[p].step = "first" /\ ~txn'[p].due
      /\ txn'[p].todo = FirstRows(op, r)
  BY <1>1 DEF Idle
<1>3. op # "none" /\ \A x \in Row : holder[x] # p
  BY <1>1, IdleIsATransaction, Kinds DEF LockedOK, Locked, Ops, HostOps, Webhooks
<1>4. op \in Quick => Untouched(p)'
  BY <1>1, <1>2, <1>3 DEF Untouched
<1>5. op \in Webhooks => Secured(p, ReservationRow(r))' /\ Secured(p, PaymentRow(r))'
  BY <1>2, FirstRowsSecure DEF Secured, Waits
<1>6. Locked(p)'
  BY <1>2, <1>3, <1>4, <1>5 DEF Locked
<1>. QED  BY <1>1, <1>6, OwnStepStaysLocked

LEMMA BeginSweepStaysLocked ==
    ASSUME LocksOK, LockedOK, NEW p \in Process, BeginSweep(p)
    PROVE  LockedOK'
<1>. DEFINE stale == {r \in Reservation : Stale(r)}
<1>1. PICK rs \in Orders(stale) :
        txn' = [txn EXCEPT ![p] = [Idle EXCEPT !.op = "sweep", !.step = "first",
                        !.todo = [i \in DOMAIN rs |-> ReservationRow(rs[i])],
                        !.doomed = stale]]
  BY DEF BeginSweep
<1>. DEFINE rows == [i \in DOMAIN rs |-> ReservationRow(rs[i])]
<1>2. rows \in Seq(Row)
  BY SweepRowsAreRows
<1>3. \A r \in stale : \E i \in 1 .. Len(rows) : rows[i] = ReservationRow(r)
  <2>1. Cardinality(stale) \in Nat
    BY FS_Subset, FS_CardinalityType, TransactionsAssumption
  <2>2. DOMAIN rs = 1 .. Cardinality(stale) /\ stale = {rs[i] : i \in DOMAIN rs}
    BY DEF Orders
  <2>3. Len(rows) = Cardinality(stale)
    BY <1>2, <2>1, <2>2
  <2>. QED  BY <2>1, <2>2, <2>3
<1>4. /\ UNCHANGED holder
      /\ txn'[p] = [Idle EXCEPT !.op = "sweep", !.step = "first", !.todo = rows, !.doomed = stale]
      /\ \A q \in Process \ {p} : txn'[q] = txn[q]
  BY <1>1 DEF BeginSweep, LocksOK
<1>. HIDE DEF rows
<1>5. /\ txn'[p].op = "sweep" /\ txn'[p].r = Nobody /\ txn'[p].step = "first" /\ ~txn'[p].due
      /\ txn'[p].todo = rows /\ txn'[p].doomed = stale
  BY <1>4 DEF Idle
<1>. HIDE DEF stale
<1>6. \A r \in stale : Secured(p, ReservationRow(r))'
  BY <1>3, <1>5 DEF Secured, Waits
<1>7. Locked(p)'
  BY <1>5, <1>6, Kinds DEF Locked
<1>. QED  BY <1>4, <1>7, OwnStepStaysLocked

\* The next row is locked, the rest is still to come.
LEMMA LockFrame ==
    ASSUME LocksOK, NEW p \in Process, Lock(p)
    PROVE  /\ txn'[p].op = txn[p].op /\ txn'[p].r = txn[p].r /\ txn'[p].step = txn[p].step
           /\ txn'[p].due = txn[p].due /\ txn'[p].doomed = txn[p].doomed
           /\ txn[p].todo \in Seq(Row) /\ txn[p].todo # <<>>
           /\ holder'[Head(txn[p].todo)] = p
           /\ \A x \in Row : holder[x] = p => holder'[x] = p
           /\ \A x \in Row : Waits(p, x) => holder'[x] = p \/ Waits(p, x)'
           /\ \A q \in Process \ {p} :
                txn'[q] = txn[q] /\ \A x \in Row : holder'[x] = q <=> holder[x] = q
<1>. DEFINE y == Head(txn[p].todo)
            rest == Tail(txn[p].todo)
<1>1. txn[p] \in Transaction /\ txn[p].todo \in Seq(Row) /\ txn[p].todo # <<>>
  BY DEF LocksOK, Lock, Transaction
<1>2. /\ y \in Row /\ y = txn[p].todo[1] /\ Len(txn[p].todo) \in Nat
      /\ rest \in Seq(Row) /\ Len(rest) = Len(txn[p].todo) - 1
      /\ \A i \in 1 .. Len(rest) : rest[i] = txn[p].todo[i + 1]
  BY <1>1, HeadTailProperties
<1>3. holder[y] \in {p, Nobody} /\ holder' = [holder EXCEPT ![y] = p]
      /\ txn' = [txn EXCEPT ![p].todo = rest]
  BY DEF Lock
<1>. HIDE DEF rest, y
<1>4. /\ \A q \in Process \ {p} : txn'[q] = txn[q]
      /\ txn'[p].op = txn[p].op /\ txn'[p].r = txn[p].r /\ txn'[p].step = txn[p].step
      /\ txn'[p].due = txn[p].due /\ txn'[p].doomed = txn[p].doomed
      /\ txn'[p].todo = rest
  BY <1>1, <1>3 DEF LocksOK, Transaction
<1>5. holder'[y] = p /\ \A x \in Row \ {y} : holder'[x] = holder[x]
  BY <1>2, <1>3 DEF LocksOK
<1>6. \A q \in Process \ {p} : \A x \in Row : holder'[x] = q <=> holder[x] = q
  BY <1>3, <1>5, TransactionsAssumption
<1>7. ASSUME NEW x \in Row, NEW i \in 1 .. Len(txn[p].todo), txn[p].todo[i] = x
      PROVE  holder'[x] = p \/ Waits(p, x)'
  <2>1. CASE i = 1
    BY <1>2, <1>5, <1>7, <2>1
  <2>2. CASE i # 1
    <3>1. i - 1 \in 1 .. Len(rest) /\ rest[i - 1] = x
      BY <1>2, <1>7, <2>2
    <3>. QED  BY <1>4, <3>1 DEF Waits
  <2>. QED  BY <2>1, <2>2
<1>8. \A x \in Row : Waits(p, x) => holder'[x] = p \/ Waits(p, x)'
  BY <1>7 DEF Waits
<1>. QED  BY <1>1, <1>4, <1>5, <1>6, <1>8 DEF y

LEMMA LockStaysLocked ==
    ASSUME LocksOK, LockedOK, NEW p \in Process, Lock(p)
    PROVE  LockedOK'
<1>1. \A q \in Process \ {p} : Locked(q)'
  BY LockFrame, OthersStayLocked DEF LockedOK
<1>2. Locked(p)
  BY DEF LockedOK
<1>3. txn[p].op # "none" /\ txn[p].step # "refunded"
  BY <1>2, LockFrame DEF Locked
<1>4. \A x \in Row : Secured(p, x) => Secured(p, x)'
  BY LockFrame DEF Secured
<1>5. txn[p].op \in Quick => holder'[ReservationRow(txn[p].r)] = p
  <2>1. CASE holder[ReservationRow(txn[p].r)] = p
    BY <2>1, LockFrame, RequestRows, Kinds
  <2>2. CASE Untouched(p) /\ txn[p].op \in Quick
    <3>1. Head(txn[p].todo) = ReservationRow(txn[p].r)
      BY <2>2, FirstRowsSecure, RequestRows, Kinds DEF Untouched
    <3>. QED  BY <3>1, LockFrame
  <2>. QED  BY <1>2, <2>1, <2>2 DEF Locked
<1>6. txn[p].op = "sweep" => \A r \in txn[p].doomed : Secured(p, ReservationRow(r))'
  BY <1>2, <1>4, RequestRows DEF Locked
<1>7. txn[p].op \in Webhooks =>
        Secured(p, ReservationRow(txn[p].r))' /\ Secured(p, PaymentRow(txn[p].r))'
  <2>. SUFFICES ASSUME txn[p].op \in Webhooks
                PROVE  Secured(p, ReservationRow(txn[p].r))' /\ Secured(p, PaymentRow(txn[p].r))'
    OBVIOUS
  <2>1. ReservationRow(txn[p].r) \in Row /\ PaymentRow(txn[p].r) \in Row
    BY RequestRows, Kinds
  <2>2. Secured(p, ReservationRow(txn[p].r)) /\ Secured(p, PaymentRow(txn[p].r))
    BY <1>2 DEF Locked
  <2>3. txn'[p].r = txn[p].r
    BY LockFrame
  <2>4. (ReservationRow(txn[p].r))' = ReservationRow(txn[p].r) /\ (PaymentRow(txn[p].r))' = PaymentRow(txn[p].r)
    BY <2>3 DEF ReservationRow, PaymentRow
  <2>. QED  BY <1>4, <2>1, <2>2, <2>3, <2>4, LockFrame DEF Secured, Waits
<1>8. txn[p].due =>
        holder'[PaymentRow(txn[p].r)] = p \/ Waits(p, PaymentRow(txn[p].r))'
  BY <1>2, LockFrame, RequestRows, Kinds DEF Locked
<1>9. Locked(p)'
  BY <1>2, <1>3, <1>5, <1>6, <1>7, <1>8, LockFrame DEF Locked, Secured
<1>. QED  BY <1>1, <1>9 DEF LockedOK

\* With its first statement done, a request holds what it reads.
LEMMA HoldsWhatItReads ==
    ASSUME LocksOK, LockedOK, NEW p \in Process, txn[p].todo = <<>> \/ txn[p].step # "first"
    PROVE  /\ txn[p].op \in Quick \cup Webhooks => holder[ReservationRow(txn[p].r)] = p
           /\ txn[p].op \in Webhooks => holder[PaymentRow(txn[p].r)] = p
           /\ txn[p].op = "sweep" => \A r \in txn[p].doomed : holder[ReservationRow(r)] = p
           /\ txn[p].due /\ txn[p].todo = <<>> => holder[PaymentRow(txn[p].r)] = p
<1>1. txn[p].todo = <<>> => \A x \in Row : ~Waits(p, x)
  BY DEF Waits
<1>2. Locked(p)
  BY DEF LockedOK
<1>3. \A x \in Row : Secured(p, x) => holder[x] = p
  BY <1>1 DEF Secured
<1>4. txn[p].op \in Quick => ~Untouched(p)
  BY FirstRowsSecure, RequestRows, Kinds DEF Untouched
<1>. QED  BY <1>1, <1>2, <1>3, <1>4, RequestRows, Kinds DEF Locked

\* The locks a decision takes over.
LEMMA DecideFrame ==
    ASSUME LocksOK, LockedOK, NEW p \in Process, Decide(p)
    PROVE  /\ txn[p].op \in {"create"} \cup Quick \cup Webhooks /\ txn[p].r \in Reservation
           /\ txn[p].step = "first" /\ txn[p].todo = <<>> /\ Allowed(txn[p].op, txn[p].r)
           /\ \A q \in Process \ {p} : txn'[q] = txn[q]
           /\ txn'[p].op = txn[p].op /\ txn'[p].r = txn[p].r /\ txn'[p].step = "later"
           /\ txn'[p].doomed = txn[p].doomed
           /\ txn'[p].due =>
                /\ txn[p].op \in {"reject", "cancel"}
                /\ Waits(p, PaymentRow(txn[p].r))'
           /\ ~txn'[p].due /\ TRUE \in RefundDue(txn[p].op, txn[p].r)
                /\ RefundDue(txn[p].op, txn[p].r) # BOOLEAN
                => payment[txn[p].r] # "succeeded"
           /\ UNCHANGED <<holder, data>>
<1>. DEFINE op == txn[p].op
            r == txn[p].r
<1>1. /\ txn[p] \in Transaction /\ op \in Ops \ {"sweep"} /\ r \in Reservation
      /\ txn[p].step = "first" /\ txn[p].todo = <<>> /\ Allowed(op, r)
      /\ UNCHANGED <<holder, data>>
  BY DEF LocksOK, Shape, Decide, Ready, Transaction
<1>2. PICK owed \in RefundDue(op, r) :
        LET due == owed /\ payment[r] = "succeeded"
        IN  txn' = [txn EXCEPT ![p].step = "later",
                               ![p].todo = LaterRows(op, r, due),
                               ![p].fresh = (op = "succeeded" /\ LiveHold(r)),
                               ![p].due = due]
  BY DEF Decide
<1>. DEFINE due == owed /\ payment[r] = "succeeded"
<1>3. /\ \A q \in Process \ {p} : txn'[q] = txn[q]
      /\ txn'[p].op = op /\ txn'[p].r = r /\ txn'[p].step = "later"
      /\ txn'[p].doomed = txn[p].doomed
      /\ txn'[p].todo = LaterRows(op, r, due) /\ txn'[p].due = due
  BY <1>1, <1>2 DEF LocksOK, Transaction
<1>4. ASSUME due PROVE op \in {"reject", "cancel"} /\ Waits(p, PaymentRow(r))'
  <2>1. op \in {"reject", "cancel"}
    BY <1>4 DEF RefundDue
  <2>2. txn'[p].todo = <<PaymentRow(r)>>
    BY <1>3, <1>4, <2>1 DEF LaterRows
  <2>3. 1 \in 1 .. Len(<<PaymentRow(r)>>) /\ <<PaymentRow(r)>>[1] = PaymentRow(r)
    OBVIOUS
  <2>4. (PaymentRow(txn[p].r))' = PaymentRow(r)
    BY <1>3 DEF PaymentRow
  <2>. QED  BY <1>3, <2>1, <2>2, <2>3, <2>4 DEF Waits
<1>5. ASSUME ~due, TRUE \in RefundDue(op, r), RefundDue(op, r) # BOOLEAN
      PROVE  payment[r] # "succeeded"
  BY <1>5 DEF RefundDue
<1>. QED  BY <1>1, <1>3, <1>4, <1>5, Kinds

LEMMA DecideStaysLocked ==
    ASSUME LocksOK, LockedOK, NEW p \in Process, Decide(p)
    PROVE  LockedOK'
<1>1. /\ txn[p].op \in Quick \cup Webhooks => holder[ReservationRow(txn[p].r)] = p
      /\ txn[p].op \in Webhooks => holder[PaymentRow(txn[p].r)] = p
  BY DecideFrame, HoldsWhatItReads
<1>2. txn[p].op \in {"create"} \cup Quick \cup Webhooks => txn[p].op # "none" /\ txn[p].op # "sweep"
  BY Kinds
<1>3. /\ txn'[p].op = txn[p].op /\ txn'[p].r = txn[p].r /\ txn'[p].step = "later"
      /\ (ReservationRow(txn[p].r))' = ReservationRow(txn[p].r)
      /\ (PaymentRow(txn[p].r))' = PaymentRow(txn[p].r)
      /\ holder' = holder
  BY DecideFrame DEF ReservationRow, PaymentRow
<1>4. txn'[p].due => txn[p].op \in {"reject", "cancel"} /\ Waits(p, PaymentRow(txn[p].r))'
  BY DecideFrame
<1>5. txn[p].op # "none" /\ txn[p].op # "sweep"
  BY <1>2, DecideFrame
<1>6. Locked(p)'
  BY <1>1, <1>3, <1>4, <1>5 DEF Locked, Secured
<1>. QED  BY <1>6, DecideFrame, OwnStepStaysLocked

LEMMA DecideSweepStaysLocked ==
    ASSUME LocksOK, LockedOK, NEW p \in Process, DecideSweep(p)
    PROVE  LockedOK'
<1>1. /\ txn[p] \in Transaction /\ txn[p].op = "sweep" /\ txn[p].step = "first"
      /\ txn[p].todo = <<>> /\ UNCHANGED holder
      /\ txn' = [txn EXCEPT ![p].step = "later", ![p].doomed = {r \in @ : Stale(r)}]
  BY DEF DecideSweep, Ready, LocksOK
<1>2. /\ \A q \in Process \ {p} : txn'[q] = txn[q]
      /\ txn'[p].op = "sweep" /\ txn'[p].r = txn[p].r /\ txn'[p].step = "later"
      /\ txn'[p].due = txn[p].due /\ txn'[p].doomed \subseteq txn[p].doomed
  BY <1>1 DEF LocksOK, Transaction
<1>3. \A r \in txn[p].doomed : holder[ReservationRow(r)] = p
  BY <1>1, HoldsWhatItReads
<1>4. txn[p].r = Nobody /\ ~txn[p].due
  BY <1>1, Kinds DEF LockedOK, Locked
<1>5. Locked(p)'
  BY <1>1, <1>2, <1>3, <1>4, Kinds DEF Locked, Secured
<1>. QED  BY <1>1, <1>2, <1>5, OwnStepStaysLocked

LEMMA RefundStaysLocked ==
    ASSUME LocksOK, LockedOK, NEW p \in Process, Refund(p)
    PROVE  LockedOK'
<1>1. /\ txn[p] \in Transaction /\ txn[p].step = "later" /\ txn[p].todo = <<>> /\ txn[p].due
      /\ txn' = [txn EXCEPT ![p].step = "refunded"] /\ UNCHANGED holder
  BY DEF Refund, Ready, LocksOK
<1>2. /\ \A q \in Process \ {p} : txn'[q] = txn[q]
      /\ txn'[p].op = txn[p].op /\ txn'[p].r = txn[p].r /\ txn'[p].step = "refunded"
      /\ txn'[p].due = txn[p].due /\ txn'[p].todo = txn[p].todo
  BY <1>1 DEF LocksOK, Transaction
<1>3. txn[p].op \in {"reject", "cancel"}
  BY <1>1 DEF LockedOK, Locked
<1>4. holder[ReservationRow(txn[p].r)] = p /\ holder[PaymentRow(txn[p].r)] = p
  BY <1>1, <1>3, HoldsWhatItReads, Kinds
<1>5. Locked(p)'
  BY <1>1, <1>2, <1>3, <1>4, Kinds DEF Locked, Webhooks
<1>. QED  BY <1>1, <1>2, <1>5, OwnStepStaysLocked

\* Who reads a row has locked it: so it stays, whatever is done next.
LEMMA StaysLocked ==
    ASSUME LocksOK, LockedOK, [Next]_vars
    PROVE  LockedOK'
<1>1. CASE UNCHANGED <<txn, holder>>
  BY <1>1, OthersStayLocked DEF LockedOK
<1>2. ASSUME NEW p \in Process, NEW op \in Ops \ {"sweep"}, NEW r \in Reservation, Begin(p, op, r)
      PROVE  LockedOK'
  BY <1>2, BeginStaysLocked
<1>3. ASSUME NEW p \in Process,
             BeginSweep(p) \/ Lock(p) \/ Decide(p) \/ DecideSweep(p) \/ Refund(p)
      PROVE  LockedOK'
  BY <1>3, BeginSweepStaysLocked, LockStaysLocked, DecideStaysLocked, DecideSweepStaysLocked,
     RefundStaysLocked
<1>4. ASSUME NEW p \in Process, Refuse(p) \/ Commit(p) \/ RollBack(p)
      PROVE  LockedOK'
  BY <1>4, EndsStaysLocked DEF Refuse, Commit, RollBack
<1>5. CASE UNCHANGED vars \/ \E r \in Reservation : Lapse(r) \/ CardCharged(r)
  BY <1>1, <1>5 DEF vars, Lapse, CardCharged
<1>. QED  BY <1>2, <1>3, <1>4, <1>5 DEF Next
=============================================================================

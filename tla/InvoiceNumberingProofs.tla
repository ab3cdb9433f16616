----------------------- MODULE InvoiceNumberingProofs -----------------------
(***************************************************************************)
(* The properties of InvoiceNumbering, proved for any number of webhooks   *)
(* and months.                                                             *)
(***************************************************************************)
EXTENDS InvoiceNumbering, TLAPS

\* What the row locks give: whoever is about to save holds the row of its month and
\* the next number of it, and a row is held for a transaction that is using it.
LockInv ==
    /\ \A r \in Reservation :
        pc[r] = "save" => /\ holder[month[r]] = r
                          /\ number[r] = sequence[month[r]] + 1
    /\ \A r \in Reservation, m \in Month :
        holder[m] = r => pc[r] \in {"lock", "save"} /\ month[r] = m
    /\ \A r \in Reservation : pc[r] # "issued" => invoice[r] = NoInvoice

LEMMA TypeStep == NumberingTypeOK /\ [Next]_vars => NumberingTypeOK'
<1>. SUFFICES ASSUME NumberingTypeOK, [Next]_vars PROVE NumberingTypeOK'
  OBVIOUS
<1>. USE NumberingAssumption DEF NumberingTypeOK, Steps, InFlight, Month, Goes
<1>1. CASE NextMonth
  BY <1>1 DEF NextMonth
<1>2. ASSUME NEW r \in Reservation, Begin(r) PROVE NumberingTypeOK'
  BY <1>2 DEF Begin
<1>3. ASSUME NEW r \in Reservation, GetSequence(r) PROVE NumberingTypeOK'
  BY <1>3 DEF GetSequence
<1>4. ASSUME NEW r \in Reservation, CreateSequence(r) PROVE NumberingTypeOK'
  BY <1>4 DEF CreateSequence
<1>5. ASSUME NEW r \in Reservation, LockAndBump(r) PROVE NumberingTypeOK'
  BY <1>5 DEF LockAndBump
<1>6. ASSUME NEW r \in Reservation, Commit(r) PROVE NumberingTypeOK'
  BY <1>6 DEF Commit, Released
<1>7. ASSUME NEW r \in Reservation, RollBack(r) PROVE NumberingTypeOK'
  BY <1>7 DEF RollBack, Released
<1>8. CASE UNCHANGED vars
  BY <1>8 DEF vars
<1>. QED
  BY <1>1, <1>2, <1>3, <1>4, <1>5, <1>6, <1>7, <1>8 DEF Next, Transact

LEMMA LockStep == NumberingTypeOK /\ LockInv /\ [Next]_vars => LockInv'
<1>. SUFFICES ASSUME NumberingTypeOK, LockInv, [Next]_vars PROVE LockInv'
  OBVIOUS
<1>. USE NumberingAssumption DEF NumberingTypeOK, LockInv, Goes
<1>1. CASE NextMonth
  BY <1>1 DEF NextMonth
<1>2. ASSUME NEW r \in Reservation, Begin(r) PROVE LockInv'
  BY <1>2 DEF Begin
<1>3. ASSUME NEW r \in Reservation, GetSequence(r) PROVE LockInv'
  BY <1>3 DEF GetSequence
<1>4. ASSUME NEW r \in Reservation, CreateSequence(r) PROVE LockInv'
  BY <1>4 DEF CreateSequence
<1>5. ASSUME NEW r \in Reservation, LockAndBump(r) PROVE LockInv'
  BY <1>5 DEF LockAndBump
<1>6. ASSUME NEW r \in Reservation, Commit(r) PROVE LockInv'
  BY <1>6 DEF Commit, Released
<1>7. ASSUME NEW r \in Reservation, RollBack(r) PROVE LockInv'
  BY <1>7 DEF RollBack, Released, InFlight
<1>8. CASE UNCHANGED vars
  BY <1>8 DEF vars
<1>. QED
  BY <1>1, <1>2, <1>3, <1>4, <1>5, <1>6, <1>7, <1>8 DEF Next, Transact

LEMMA LocksHeld == Spec => [](NumberingTypeOK /\ LockInv)
<1>1. Init => NumberingTypeOK /\ LockInv
  BY NumberingAssumption DEF Init, NumberingTypeOK, LockInv, Steps, NoInvoice, Month
<1>. QED  BY <1>1, TypeStep, LockStep, PTL DEF Spec

\* The steps of _next_number, rolled back or not, keep every counter, lock and invoice in its type.
THEOREM NumberingTypeCorrect == Spec => []NumberingTypeOK
BY LocksHeld, PTL

\* Concurrent webhooks never hold the same number of the same month.
THEOREM NumbersNeverShared == Spec => []NumbersInFlightDistinct
<1>1. NumberingTypeOK /\ LockInv => NumbersInFlightDistinct
  BY DEF NumberingTypeOK, LockInv, NumbersInFlightDistinct
<1>. QED  BY <1>1, LocksHeld, PTL

\* A step that commits nothing leaves the invoices and the committed counters alone.
LEMMA OnlyCommitIssues ==
    ASSUME [Next]_vars, ~\E r \in Reservation : Commit(r)
    PROVE  UNCHANGED <<sequence, invoice>>
BY DEF Next, Transact, vars, NextMonth, Begin, GetSequence, CreateSequence, LockAndBump,
       RollBack

\* A commit gives a reservation without an invoice the next number of its month.
LEMMA CommitIssuesNext ==
    ASSUME NumberingTypeOK, LockInv, NEW r \in Reservation, Commit(r)
    PROVE  LET m == month[r]
           IN  /\ m \in Month
               /\ invoice[r] = NoInvoice
               /\ sequence' = [sequence EXCEPT ![m] = sequence[m] + 1]
               /\ invoice' = [invoice EXCEPT ![r] = [month |-> m, number |-> sequence[m] + 1]]
<1>1. pc[r] = "save" /\ month[r] \in Month
  BY DEF Commit, Goes, NumberingTypeOK
<1>2. number[r] = sequence[month[r]] + 1 /\ invoice[r] = NoInvoice
  BY <1>1 DEF LockInv
<1>. QED  BY <1>1, <1>2 DEF Commit

\* The numbers of a month, as MonthsGapFree counts them.
Numbers(m) == {invoice[r].number : r \in {q \in Reservation : invoice[q].month = m}}

LEMMA GapFreeStep ==
    NumberingTypeOK /\ LockInv /\ MonthsGapFree /\ [Next]_vars => MonthsGapFree'
<1>. SUFFICES ASSUME NumberingTypeOK, LockInv, MonthsGapFree, [Next]_vars
              PROVE  MonthsGapFree'
  OBVIOUS
<1>1. CASE ~\E r \in Reservation : Commit(r)
  BY <1>1, OnlyCommitIssues DEF MonthsGapFree, NoInvoice
<1>2. ASSUME NEW r \in Reservation, Commit(r) PROVE MonthsGapFree'
  <2>. DEFINE m == month[r]
              n == sequence[m] + 1
              new == [month |-> m, number |-> n]
  <2>1. /\ m \in Month /\ m # 0
        /\ invoice[r] = NoInvoice
        /\ sequence' = [sequence EXCEPT ![m] = n]
        /\ invoice' = [invoice EXCEPT ![r] = new]
    BY <1>2, CommitIssuesNext, NumberingAssumption DEF Month
  <2>2. /\ sequence \in [Month -> Nat]
        /\ invoice \in [Reservation -> [month : Month \cup {0}, number : Nat]]
    BY DEF NumberingTypeOK
  <2>. HIDE DEF m
  <2>3. /\ \A q \in Reservation : invoice'[q] = IF q = r THEN new ELSE invoice[q]
        /\ \A k \in Month : sequence'[k] = IF k = m THEN n ELSE sequence[k]
    BY <2>1, <2>2
  <2>4. \A k \in Month : Numbers(k) = 1 .. sequence[k]
    BY DEF MonthsGapFree, Numbers
  <2>5. ASSUME NEW q \in Reservation, invoice[q].month = m
        PROVE  invoice[q].number \in 1 .. sequence[m]
    BY <2>1, <2>4, <2>5 DEF Numbers
  <2>6. ASSUME NEW q \in Reservation, q # r PROVE invoice'[q] # new
    BY <2>1, <2>2, <2>3, <2>5, <2>6
  <2>7. \A p, q \in Reservation :
            p # q /\ invoice'[p] # NoInvoice => invoice'[p] # invoice'[q]
    BY <2>1, <2>3, <2>6 DEF MonthsGapFree
  <2>8. ASSUME NEW k \in Month PROVE Numbers(k)' = 1 .. sequence'[k]
    <3>1. CASE k # m
      <4>1. {q \in Reservation : invoice'[q].month = k}
                = {q \in Reservation : invoice[q].month = k}
        <5>1. k # 0
          BY NumberingAssumption DEF Month
        <5>. QED  BY <2>1, <2>3, <3>1, <5>1 DEF NoInvoice
      <4>2. \A q \in Reservation :
                invoice[q].month = k => invoice'[q] = invoice[q]
        <5>1. k # 0
          BY NumberingAssumption DEF Month
        <5>. QED  BY <2>1, <2>3, <5>1 DEF NoInvoice
      <4>3. Numbers(k)' = Numbers(k)
        BY <4>1, <4>2 DEF Numbers
      <4>. QED  BY <2>3, <2>4, <3>1, <4>3
    <3>2. CASE k = m
      <4>1. ASSUME NEW x \in Numbers(k)' PROVE x \in 1 .. n
        BY <2>1, <2>2, <2>3, <2>5, <3>2 DEF Numbers
      <4>2. ASSUME NEW x \in 1 .. n PROVE x \in Numbers(k)'
        <5>1. CASE x = n
          BY <2>3, <3>2, <5>1 DEF Numbers
        <5>2. CASE x \in 1 .. sequence[m]
          <6>1. PICK q \in Reservation : invoice[q].month = m /\ invoice[q].number = x
            BY <2>1, <2>4, <5>2 DEF Numbers
          <6>2. q # r
            BY <2>1, <6>1 DEF NoInvoice
          <6>. QED  BY <2>3, <3>2, <6>1, <6>2 DEF Numbers
        <5>. QED  BY <2>1, <2>2, <5>1, <5>2
      <4>. QED  BY <2>3, <3>2, <4>1, <4>2
    <3>. QED  BY <3>1, <3>2
  <2>. QED  BY <2>7, <2>8 DEF MonthsGapFree, Numbers
<1>. QED  BY <1>1, <1>2

\* In every month the invoices are numbered from one to last_number, no gap, none twice.
THEOREM InvoicesGapFree == Spec => []MonthsGapFree
<1>1. Init => MonthsGapFree
  BY NumberingAssumption DEF Init, MonthsGapFree, NoInvoice, Month
<1>. QED  BY <1>1, LocksHeld, GapFreeStep, PTL DEF Spec

\* The transactions implement one counter per month: a commit issues the next number,
\* every other step is invisible.
THEOREM NumberingImplementsDispenser == Spec => ActsAsDispenser
<1>1. Init => Dispenser!Init
  BY DEF Init, Dispenser!Init, NoInvoice, Dispenser!NoInvoice
<1>2. NumberingTypeOK /\ LockInv /\ [Next]_vars => [Dispenser!Next]_(Dispenser!vars)
  <2>. SUFFICES ASSUME NumberingTypeOK, LockInv, [Next]_vars
                PROVE  [Dispenser!Next]_(Dispenser!vars)
    OBVIOUS
  <2>1. CASE ~\E r \in Reservation : Commit(r)
    BY <2>1, OnlyCommitIssues DEF Dispenser!vars
  <2>2. ASSUME NEW r \in Reservation, Commit(r) PROVE Dispenser!Next
    <3>1. month[r] \in Month /\ Dispenser!Issue(r, month[r])
      BY <2>2, CommitIssuesNext
         DEF Dispenser!Issue, NoInvoice, Dispenser!NoInvoice, NumberingTypeOK
    <3>. QED  BY <3>1 DEF Dispenser!Next
  <2>. QED  BY <2>1, <2>2
<1>. QED  BY <1>1, <1>2, LocksHeld, PTL DEF Spec, ActsAsDispenser, Dispenser!Spec

=============================================================================

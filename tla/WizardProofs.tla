---------------------------- MODULE WizardProofs ----------------------------
(***************************************************************************)
(* The invariants of WizardProperties, proved of BookingWizard for any     *)
(* calendar, opening hours, prices, dogs and budgets.                      *)
(***************************************************************************)
EXTENDS WizardProperties, FiniteSetTheorems, SequenceTheorems, TLAPS

-----------------------------------------------------------------------------
(* Type correctness                                                        *)

\* What is left of the bounds stays a count.
LEMMA SpendTypeOK ==
    ASSUME budget \in BudgetType,
           NEW what \in {"days", "clicks", "edits", "tries", "refetches", "rivals", "prices",
                         "lapses", "declines", "losses", "leaves"},
           Spend(what)
    PROVE  budget' \in BudgetType
BY DEF Spend, BudgetType

LEMMA HoursAreNumbers == NoHour \in Int /\ Hours \subseteq Nat /\ NoHour \notin Hours /\ Hours # Unknown
BY WizardAssumption DEF Hours, NoHour, Unknown

\* A pick is hours of the garden.
LEMMA RangeEnds ==
    ASSUME NEW range \in RangeType
    PROVE  /\ range.start \in Int /\ range.end \in Int
           /\ range # NoRange => /\ range.start \in Hours /\ range.end \in 0..23
                                 /\ range = [start |-> range.start, end |-> range.end]
<1>1. CASE range = NoRange
  BY <1>1, HoursAreNumbers DEF NoRange
<1>2. CASE range \in [start: Hours, end: {h + 1 : h \in Hours}]
  <2>1. range.start \in Hours /\ range.end \in {h + 1 : h \in Hours}
    BY <1>2
  <2>2. PICK h \in Hours : range.end = h + 1
    BY <2>1
  <2>3. range.end \in 0..23
    BY <2>2, WizardAssumption DEF Hours
  <2>4. range = [start |-> range.start, end |-> range.end]
    BY <1>2
  <2>. QED  BY <2>1, <2>3, <2>4, HoursAreNumbers
<1>. QED  BY <1>1, <1>2 DEF RangeType

\* The hours of a range are as many as lie between its ends.
LEMMA LengthIsTheDifference ==
    ASSUME NEW range \in RangeType, HoursOf(range) # {}
    PROVE  /\ range.start \in Int /\ range.end \in Int /\ range.start < range.end
           /\ Length(range) = range.end - range.start
<1>1. /\ range # NoRange /\ HoursOf(range) = range.start .. (range.end - 1)
      /\ range.start \in Int /\ range.end \in Int
  BY RangeEnds DEF HoursOf
<1>2. range.start <= range.end - 1
  BY <1>1
<1>3. Cardinality(range.start .. (range.end - 1)) = range.end - 1 - range.start + 1
  BY <1>1, <1>2, FS_Interval
<1>. QED  BY <1>1, <1>2, <1>3 DEF Length

LEMMA EmptyRangeHasNoLength ==
    ASSUME NEW range, HoursOf(range) = {}
    PROVE  Length(range) = 0
BY FS_EmptySet DEF Length

\* Prices are grosze: a charge is a whole number of them.
LEMMA ChargeIsANumber ==
    ASSUME NEW price \in Nat, NEW hours \in Nat
    PROVE  Charge(price, hours) \in Nat
<1>. DEFINE subtotal == price * hours
<1>1. subtotal \in Nat
  OBVIOUS
<1>. HIDE DEF subtotal
<1>2. subtotal * 10 + 50 \in Nat
  BY <1>1
<1>3. (subtotal * 10 + 50) \div 100 \in Nat
  BY <1>2
<1>4. Charge(price, hours) = subtotal + (subtotal * 10 + 50) \div 100
  BY DEF Charge, Percent, subtotal
<1>. QED  BY <1>1, <1>3, <1>4

\* The browser's total is the server's, or one grosz less where the fee ends in a half.
LEMMA QuotesAreWithinAGrosz ==
    ASSUME NEW price \in Nat, NEW hours \in Nat, NEW quote \in Quotes(price, hours)
    PROVE  quote \in (Charge(price, hours) - 1) .. Charge(price, hours)
<1>. DEFINE subtotal == price * hours
            exact == subtotal * 10
<1>1. subtotal \in Nat
  OBVIOUS
<1>2. /\ Charge(price, hours) = subtotal + (exact + 50) \div 100
      /\ \/ quote = subtotal + (exact + 50) \div 100
         \/ exact % 100 = 50 /\ quote = subtotal + exact \div 100
  BY DEF Charge, Quotes, Percent
<1>. HIDE DEF subtotal
<1>3. exact \in Nat
  BY <1>1
<1>. HIDE DEF exact
<1>4. /\ (exact + 50) \div 100 \in Nat /\ exact \div 100 \in Nat
      /\ exact % 100 = 50 => (exact + 50) \div 100 = exact \div 100 + 1
  BY <1>3
<1>. QED  BY <1>1, <1>2, <1>4

SentType == [date: Dates \cup {NoDate}, range: RangeType, dog: Dogs \cup {NoDog}, count: Nat]

LEMMA RangeHelpers ==
    /\ NoRange \in RangeType
    /\ \A a, b \in Hours : [start |-> a, end |-> b + 1] \in RangeType
    /\ NoPost \in PostType /\ NoPost.phase = "none"
    /\ NothingSent \in SentType
    /\ NoPay \in PayType /\ NoPay.id = 0 /\ NoPay.card = "idle"
    /\ NoPrefill \in [date: Dates \cup {NoDate}, range: RangeType, count: 1..MaxDogs]
<1>. USE WizardAssumption, HoursAreNumbers DEF NoRange, RangeType
<1>1. NoRange \in RangeType /\ \A a, b \in Hours : [start |-> a, end |-> b + 1] \in RangeType
  OBVIOUS
<1>2. NoPost \in PostType /\ NoPost.phase = "none"
  BY DEF NoPost, PostType, NoMoment, MomentType
<1>3. /\ NoPay \in PayType /\ NoPay.id = 0 /\ NoPay.card = "idle"
      /\ NothingSent \in SentType
  BY <1>1 DEF NoPay, PayType, NothingSent, SentType
<1>4. NoPrefill \in [date: Dates \cup {NoDate}, range: RangeType, count: 1..MaxDogs]
  BY <1>1 DEF NoPrefill
<1>. QED  BY <1>1, <1>2, <1>3, <1>4

\* A page starts with a form of the right type.
LEMMA FreshTypeOK ==
    ASSUME NEW prefill \in [date: Dates \cup {NoDate}, range: RangeType, count: Nat],
           NEW moved \in BOOLEAN
    PROVE  /\ Fresh(prefill, moved) \in FormType
           /\ Fresh(prefill, moved).count = prefill.count
           /\ Fresh(prefill, moved).prefill = prefill
           /\ Fresh(prefill, moved).range = prefill.range
           /\ Fresh(prefill, moved).moved = moved
           /\ Fresh(prefill, moved).date = prefill.date
BY RangeHelpers DEF Fresh, FormType, SentType

LEMMA EmptyFormTypeOK ==
    /\ Fresh(NoPrefill, FALSE) \in FormType
    /\ Fresh(NoPrefill, FALSE).count \in 1..MaxDogs
    /\ Fresh(NoPrefill, FALSE).prefill.count \in 1..MaxDogs
    /\ Fresh(NoPrefill, FALSE).range = NoRange
BY RangeHelpers, FreshTypeOK, WizardAssumption DEF NoPrefill

LEMMA EmptyCacheTypeOK == ASSUME NEW r \in Nat PROVE EmptyCache(r) \in CacheType
<1>1. [d \in Dates |-> Unknown] \in [Dates -> (SUBSET Hours) \cup {Unknown}]
  OBVIOUS
<1>. QED  BY <1>1 DEF EmptyCache, CacheType

\* A point in time is a day and an hour of it, and on the garden's own clock it is the one
\* that was picked.
LEMMA HourOfDay ==
    \A at \in Int :
        /\ at \div 24 \in Int /\ at % 24 \in 0..23 /\ at = 24 * (at \div 24) + (at % 24)
        /\ at \in 0..23 => at \div 24 = 0 /\ at % 24 = at
<1>1. \A at \in Int : at = 24 * (at \div 24) + (at % 24)
  OBVIOUS
<1>2. \A at \in Int : at \div 24 \in Int /\ at % 24 \in 0..23
  OBVIOUS
<1>3. \A at \in Int : at \in 0..23 => at \div 24 = 0 /\ at % 24 = at
  OBVIOUS
<1>. QED  BY <1>1, <1>2, <1>3

LEMMA ToIsoTypeOK ==
    ASSUME clock \in Zones, NEW d \in Dates, NEW h \in Int
    PROVE  /\ ToIso(d, h) \in MomentType
           /\ 24 * ToIso(d, h).date + ToIso(d, h).hour = 24 * d + h - clock[d].ahead
           /\ OnTheGardensClock(d) /\ h \in 0..23 => ToIso(d, h).date = d /\ ToIso(d, h).hour = h
<1>. DEFINE at == h - clock[d].ahead
<1>1. /\ d \in Int /\ clock[d].ahead \in Int /\ clock[d].whole \in BOOLEAN
      /\ OnTheGardensClock(d) => clock[d].ahead = 0
  BY WizardAssumption DEF ClockType, OnTheGardensClock
<1>2. at \in Int
  BY <1>1
<1>3. OnTheGardensClock(d) => at = h
  BY <1>1
<1>4. ToIso(d, h) = [date |-> d + at \div 24, hour |-> at % 24, whole |-> clock[d].whole]
  BY DEF ToIso
<1>5. 24 * d + at = 24 * d + h - clock[d].ahead
  BY <1>1
<1>. HIDE DEF at
<1>. DEFINE q == at \div 24
            r == at % 24
<1>6. /\ q \in Int /\ r \in 0..23 /\ at = 24 * q + r
      /\ at \in 0..23 => q = 0 /\ r = at
  BY <1>2, HourOfDay
<1>7. ToIso(d, h).date = d + q /\ ToIso(d, h).hour = r /\ ToIso(d, h).whole = clock[d].whole
  BY <1>4
<1>8. ToIso(d, h) = [date |-> d + q, hour |-> r, whole |-> clock[d].whole]
  BY <1>4
<1>. HIDE DEF q, r
<1>. QED  BY <1>1, <1>3, <1>5, <1>6, <1>7, <1>8 DEF MomentType

\* The row that create_reservation writes.
LEMMA NewRowTypeOK ==
    ASSUME WizardTypeOK, Acceptable
    PROVE  /\ NewRow \in RowType
           /\ NewRow.start < NewRow.end
           /\ NewRow.total = Charge(NewRow.rate, NewRow.end - NewRow.start)
<1>1. /\ post.start \in MomentType /\ post.end \in MomentType /\ post.dog \in Dogs
      /\ post.count \in Nat /\ rate \in Nat /\ MinHours \in Nat \ {0}
  BY WizardAssumption DEF WizardTypeOK, PostType, Acceptable
<1>2. /\ post.start.date \in Int /\ post.start.hour \in Nat /\ post.end.hour \in Nat
  BY <1>1 DEF MomentType
<1>3. HoursAsked = post.end.hour - post.start.hour /\ HoursAsked >= MinHours
  BY DEF HoursAsked, Acceptable
<1>4. HoursAsked \in Nat /\ post.start.hour < post.end.hour
  BY <1>1, <1>2, <1>3
<1>5. Charge(rate, HoursAsked) \in Nat
  BY <1>1, <1>4, ChargeIsANumber
<1>. QED  BY <1>1, <1>2, <1>3, <1>4, <1>5 DEF NewRow, RowType, Statuses

\* Where the client is when a request or a payment is under way.
WizardFlow ==
    /\ page = "success" \/ pay.card # "idle" => pay.id # 0
    /\ post.phase # "none" => Step1
    /\ post.phase = "created" => rows # <<>>
    /\ page = "login" => form.range = NoRange
    /\ form.prefill.count \in 1..MaxDogs

LEMMA FreeHoursAreHours == \A d : FreeHours(d) \subseteq Hours
BY DEF FreeHours

\* What each action leaves in the form, the cache, the payment and the rows.
LEMMA FormTypeOK ==
    ASSUME form \in FormType, form.count \in 1..MaxDogs, form.prefill.count \in 1..MaxDogs,
           \/ \E d \in Dates : PickDate(d)
           \/ \E h \in Hours : ClickHour(h)
           \/ \E d \in Dogs : ChooseDog(d) \/ AddDog(d)
           \/ AvailabilityAnswered \/ ChangeCount \/ OpenGarden \/ Reserve \/ Leave \/ Reload
           \/ OpenAddDog \/ Consent \/ Proceed \/ PaidShown
    PROVE  form' \in FormType /\ form'.count \in 1..MaxDogs /\ form'.prefill.count \in 1..MaxDogs
<1>. DEFINE Goal == form' \in FormType /\ form'.count \in 1..MaxDogs /\ form'.prefill.count \in 1..MaxDogs
<1>1. ASSUME NEW d \in Dates, PickDate(d) PROVE Goal
  BY <1>1 DEF PickDate, FormType, ChipsShown
<1>2. CASE AvailabilityAnswered
  BY <1>2 DEF AvailabilityAnswered, FormType
<1>3. ASSUME NEW h \in Hours, ClickHour(h) PROVE Goal
  <2>. DEFINE lo == IF form.anchor < h THEN form.anchor ELSE h
              hi == IF form.anchor < h THEN h ELSE form.anchor
              alone == form.anchor = NoHour \/ RangeHasBusy(lo, hi)
  <2>1. form' = [form EXCEPT
                    !.anchor = IF alone THEN h ELSE NoHour,
                    !.range = IF alone THEN [start |-> h, end |-> h + 1]
                                       ELSE [start |-> lo, end |-> hi + 1],
                    !.moved = FALSE]
    BY <1>3 DEF ClickHour
  <2>2. [start |-> h, end |-> h + 1] \in RangeType
    BY RangeHelpers
  <2>3. ~alone => [start |-> lo, end |-> hi + 1] \in RangeType
    <3>1. ~alone => lo \in Hours /\ hi \in Hours
      BY DEF FormType
    <3>. HIDE DEF lo, hi, alone
    <3>. QED  BY <3>1, RangeHelpers
  <2>4. h \in Nat
    BY HoursAreNumbers
  <2>. HIDE DEF lo, hi, alone
  <2>. QED  BY <2>1, <2>2, <2>3, <2>4 DEF FormType
<1>4. CASE ChangeCount
  BY <1>4, WizardAssumption DEF ChangeCount, FormType
<1>5. CASE OpenGarden \/ Leave \/ PaidShown
  BY <1>5, EmptyFormTypeOK DEF OpenGarden, Leave, PaidShown
<1>6. CASE Reserve
  <2>. DEFINE picked == [date |-> form.date, range |-> form.range, count |-> form.count]
  <2>1. /\ picked \in [date: Dates \cup {NoDate}, range: RangeType, count: Nat]
        /\ picked.count \in 1..MaxDogs /\ form.moved \in BOOLEAN
    BY DEF FormType
  <2>2. form' = Fresh(picked, form.moved) \/ form' = Fresh(NoPrefill, FALSE)
    BY <1>6 DEF Reserve
  <2>. HIDE DEF picked
  <2>3. CASE form' = Fresh(picked, form.moved)
    BY <2>1, <2>3, RangeHelpers DEF Fresh, FormType, SentType
  <2>. QED  BY <2>2, <2>3, EmptyFormTypeOK
<1>7. CASE Reload
  <2>1. form.prefill \in [date: Dates \cup {NoDate}, range: RangeType, count: Nat]
    BY DEF FormType
  <2>. QED  BY <1>7, <2>1, FreshTypeOK DEF Reload
<1>8. ASSUME NEW d \in Dogs, ChooseDog(d) \/ AddDog(d) PROVE Goal
  BY <1>8 DEF ChooseDog, AddDog, FormType
<1>9. CASE OpenAddDog \/ Consent
  BY <1>9 DEF OpenAddDog, Consent, FormType
<1>10. CASE Proceed
  <2>1. Summary \in SentType
    BY DEF Summary, SentType, FormType
  <2>. QED  BY <1>10, <2>1 DEF Proceed, FormType, SentType
<1>. QED  BY <1>1, <1>2, <1>3, <1>4, <1>5, <1>6, <1>7, <1>8, <1>9, <1>10

LEMMA PayTypeOK ==
    ASSUME WizardTypeOK, WizardFlow, [Next]_vars
    PROVE  pay' \in PayType /\ pay'.id \in 0..Len(rows')
<1>. DEFINE Goal == pay' \in PayType /\ pay'.id \in 0..Len(rows')
<1>1. pay \in PayType /\ pay.id \in 0..Len(rows) /\ rows \in Seq(RowType)
  BY DEF WizardTypeOK
<1>2. Len(rows) \in Nat /\ NoPay \in PayType /\ NoPay.id = 0
  BY <1>1, RangeHelpers
<1>3. ASSUME pay' = NoPay, rows' = rows PROVE Goal
  BY <1>2, <1>3
<1>4. ASSUME pay' = pay, Len(rows') \in Nat, Len(rows) <= Len(rows') PROVE Goal
  BY <1>1, <1>4
<1>5. CASE OpenGarden \/ Leave \/ Reserve
  BY <1>3, <1>5 DEF OpenGarden, Leave, Reserve, Forget, server
<1>6. CASE Reload
  BY <1>1, <1>2, <1>6 DEF Reload, NoPay, PayType, server
<1>7. CASE ServePost
  <2>1. rows' = rows \/ rows' = Append(rows, NewRow)
    BY <1>7 DEF ServePost
  <2>2. Len(rows') \in Nat /\ Len(rows) <= Len(rows')
    BY <1>2, <2>1, <1>1
  <2>. QED  BY <1>4, <1>7, <2>2 DEF ServePost
<1>8. CASE PostAnswered
  BY <1>1, <1>2, <1>8 DEF PostAnswered, NoPay, PayType, server
<1>9. CASE SubmitBilling \/ IntentAnswered \/ Pay \/ CardRefused \/ PollLost \/ InvoiceAnswered
  BY <1>1, <1>9 DEF SubmitBilling, IntentAnswered, Pay, CardRefused, PollLost, Polls,
                    InvoiceAnswered, PayType, server
<1>10. CASE CardCharged
  <2>1. Len(rows') = Len(rows)
    BY <1>1, <1>10 DEF CardCharged
  <2>. QED  BY <1>1, <1>2, <1>10, <2>1 DEF CardCharged, PayType
<1>11. ASSUME NEW i \in DOMAIN rows, WebhookArrives(i) \/ Lapse(i) PROVE Goal
  <2>1. Len(rows') = Len(rows) /\ pay' = pay
    BY <1>1, <1>11 DEF WebhookArrives, Lapse
  <2>. QED  BY <1>2, <1>4, <2>1
<1>12. CASE PollAnswered
  <2>1. pay.id \in 1..Len(rows)
    BY <1>1, <1>12 DEF PollAnswered, Watching, WizardFlow
  <2>2. Row \in RowType
    BY <1>1, <2>1, ElementOfSeq DEF Row
  <2>3. Row.status \in Statuses
    BY <2>2 DEF RowType
  <2>. QED  BY <1>1, <1>12, <2>3 DEF PollAnswered, PayType, server
<1>13. CASE PaidShown
  BY <1>1, <1>2, <1>13 DEF PaidShown, PayType, server
<1>14. CASE UNCHANGED <<rows, pay>>
  BY <1>1, <1>14
<1>. QED
  BY <1>5, <1>6, <1>7, <1>8, <1>9, <1>10, <1>11, <1>12, <1>13, <1>14
     DEF Next, vars, server, PickDate, AvailabilityAnswered, ClickHour, ChangeCount, LogIn,
         DogsAnswered, OpenAddDog, Consent, ChooseDog, AddDog, Proceed, RivalBooks, HostChangesPrice

\* A step that is none of those named leaves the form as it is.
LEMMA OtherStepsKeepTheForm ==
    ASSUME [Next]_vars
    PROVE  \/ UNCHANGED form
           \/ \E d \in Dates : PickDate(d)
           \/ \E h \in Hours : ClickHour(h)
           \/ \E d \in Dogs : ChooseDog(d) \/ AddDog(d)
           \/ AvailabilityAnswered \/ ChangeCount \/ OpenGarden \/ Reserve \/ Leave \/ Reload
           \/ OpenAddDog \/ Consent \/ Proceed \/ PaidShown
           \/ CardCharged /\ form' = Fresh(NoPrefill, FALSE)
BY DEF Next, vars, LogIn, DogsAnswered, ServePost, PostAnswered, SubmitBilling, IntentAnswered,
       Pay, CardRefused, CardCharged, WebhookArrives, Lapse, PollAnswered, PollLost,
       InvoiceAnswered, RivalBooks, HostChangesPrice

\* The rows of the reservations keep what was booked.
Booked(row) == <<row.date, row.start, row.end, row.dog, row.count, row.rate, row.total>>

LEMMA RowsStep ==
    ASSUME WizardTypeOK, WizardFlow, [Next]_vars
    PROVE  /\ rows' \in Seq(RowType)
           /\ Len(rows') >= Len(rows)
           /\ \A i \in 1..Len(rows) : Booked(rows'[i]) = Booked(rows[i])
           /\ \/ Len(rows') = Len(rows)
              \/ /\ ServePost /\ Acceptable /\ rows' = Append(rows, NewRow)
                 /\ Len(rows') = Len(rows) + 1 /\ rows'[Len(rows) + 1] = NewRow
<1>1. rows \in Seq(RowType) /\ Len(rows) \in Nat
  BY DEF WizardTypeOK
<1>2. \A i \in 1..Len(rows) : rows[i] \in RowType
  BY <1>1, ElementOfSeq
<1>3. CASE UNCHANGED rows
  BY <1>1, <1>3
<1>4. CASE ServePost /\ Acceptable
  <2>1. NewRow \in RowType
    BY <1>4, NewRowTypeOK
  <2>2. rows' = Append(rows, NewRow)
    BY <1>4 DEF ServePost
  <2>. QED  BY <1>1, <1>4, <2>1, <2>2, AppendProperties
<1>5. ASSUME NEW i \in 1..Len(rows), NEW row \in RowType,
             rows' = [rows EXCEPT ![i] = row], Booked(row) = Booked(rows[i])
      PROVE  /\ rows' \in Seq(RowType) /\ Len(rows') = Len(rows)
             /\ \A j \in 1..Len(rows) : Booked(rows'[j]) = Booked(rows[j])
  BY <1>1, <1>5, ExceptSeq
<1>6. ASSUME NEW i \in DOMAIN rows, WebhookArrives(i) \/ Lapse(i)
      PROVE  /\ rows' \in Seq(RowType) /\ Len(rows') = Len(rows)
             /\ \A j \in 1..Len(rows) : Booked(rows'[j]) = Booked(rows[j])
  <2>1. i \in 1..Len(rows) /\ rows[i] \in RowType
    BY <1>1, <1>2
  <2>2. ASSUME NEW s \in Statuses, NEW hook \in {"none", "due", "done"}
        PROVE  /\ [rows[i] EXCEPT !.status = s, !.hook = hook] \in RowType
               /\ Booked([rows[i] EXCEPT !.status = s, !.hook = hook]) = Booked(rows[i])
    BY <2>1 DEF RowType, Booked
  <2>3. rows[i].status \in Statuses /\ rows[i].hook \in {"none", "due", "done"}
    BY <2>1 DEF RowType
  <2>4. \E s \in Statuses, hook \in {"none", "due", "done"} :
            rows' = [rows EXCEPT ![i] = [rows[i] EXCEPT !.status = s, !.hook = hook]]
    <3>1. CASE WebhookArrives(i)
      <4>. DEFINE s == IF rows[i].status = "pending_payment" THEN "awaiting_host" ELSE rows[i].status
      <4>1. rows' = [rows EXCEPT ![i] = [rows[i] EXCEPT !.status = s, !.hook = "done"]]
        BY <1>1, <2>1, <3>1 DEF WebhookArrives
      <4>2. s \in Statuses
        BY <2>3 DEF Statuses
      <4>. QED  BY <4>1, <4>2
    <3>2. CASE Lapse(i)
      BY <1>1, <2>1, <2>3, <3>2 DEF Lapse, Statuses, RowType
    <3>. QED  BY <1>6, <3>1, <3>2
  <2>. QED  BY <1>5, <2>1, <2>2, <2>4
<1>7. CASE CardCharged
  <2>1. pay.id \in 1..Len(rows)
    BY <1>7 DEF CardCharged, WizardFlow, WizardTypeOK
  <2>2. rows[pay.id] \in RowType
    BY <1>2, <2>1
  <2>3. /\ [rows[pay.id] EXCEPT !.hook = "due"] \in RowType
        /\ Booked([rows[pay.id] EXCEPT !.hook = "due"]) = Booked(rows[pay.id])
    BY <2>2 DEF RowType, Booked
  <2>4. rows' = [rows EXCEPT ![pay.id] = [rows[pay.id] EXCEPT !.hook = "due"]]
    BY <1>7 DEF CardCharged
  <2>. QED  BY <1>1, <1>5, <2>1, <2>3, <2>4
<1>8. ServePost /\ ~Acceptable => UNCHANGED rows
  BY DEF ServePost
<1>9. \/ UNCHANGED rows \/ ServePost \/ CardCharged
      \/ \E i \in DOMAIN rows : WebhookArrives(i) \/ Lapse(i)
  BY DEF Next, vars, server, PickDate, AvailabilityAnswered, ClickHour, ChangeCount, OpenGarden,
         Reserve, LogIn, Leave, Reload, DogsAnswered, OpenAddDog, Consent, ChooseDog, AddDog, Proceed,
         PostAnswered, SubmitBilling, IntentAnswered, Pay, CardRefused, PollAnswered,
         PollLost, PaidShown, InvoiceAnswered, RivalBooks, HostChangesPrice
<1>10. Len(rows) >= Len(rows)
  BY <1>1
<1>. QED  BY <1>3, <1>4, <1>6, <1>7, <1>8, <1>9, <1>10

\* The rest of the types.
LEMMA CacheTypeOK ==
    ASSUME WizardTypeOK, [Next]_vars
    PROVE  cache' \in CacheType
<1>1. cache \in CacheType /\ rate \in Nat /\ kennel \subseteq Dogs /\ form \in FormType
  BY WizardAssumption DEF WizardTypeOK
<1>2. CASE AvailabilityAnswered
  <2>1. form.date \in Dates
    BY <1>1, <1>2 DEF AvailabilityAnswered, FormType
  <2>. QED  BY <1>1, <1>2, <2>1, FreeHoursAreHours DEF AvailabilityAnswered, CacheType
<1>3. CASE OpenGarden
  BY <1>1, <1>3 DEF OpenGarden, CacheType
<1>4. CASE DogsAnswered
  BY <1>1, <1>4 DEF DogsAnswered, CacheType
<1>5. UNCHANGED cache \/ AvailabilityAnswered \/ OpenGarden \/ DogsAnswered \/ cache' = EmptyCache(rate)
  BY DEF Next, vars, PickDate, ClickHour, ChangeCount, Reserve, LogIn, Leave, Reload, OpenAddDog,
         Consent, ChooseDog, AddDog, Proceed, ServePost, PostAnswered, SubmitBilling, IntentAnswered,
         Pay, CardRefused, CardCharged, WebhookArrives, Lapse, PollAnswered, PollLost, PaidShown,
         InvoiceAnswered, RivalBooks, HostChangesPrice
<1>. QED  BY <1>1, <1>2, <1>3, <1>4, <1>5, EmptyCacheTypeOK

LEMMA PostTypeOK ==
    ASSUME WizardTypeOK, [Next]_vars
    PROVE  post' \in PostType
<1>1. post \in PostType /\ form \in FormType
  BY DEF WizardTypeOK
<1>2. CASE Proceed
  <2>1. /\ form.date \in Dates /\ form.range \in RangeType
        /\ form.dog \in Dogs \cup {NoDog} /\ form.count \in Nat
    BY <1>1, <1>2 DEF Proceed, Ready, FormType
  <2>2. form.range.start \in Int /\ form.range.end \in Int
    BY <2>1, RangeEnds
  <2>3. /\ ToIso(form.date, form.range.start) \in MomentType
        /\ ToIso(form.date, form.range.end) \in MomentType
    BY <2>1, <2>2, ToIsoTypeOK DEF WizardTypeOK
  <2>. QED  BY <1>2, <2>1, <2>3 DEF Proceed, Asked, PostType
<1>3. CASE ServePost
  BY <1>1, <1>3 DEF ServePost, PostType
<1>4. UNCHANGED post \/ post' = NoPost \/ Proceed \/ ServePost
  BY DEF Next, vars, Forget, PickDate, AvailabilityAnswered, ClickHour, ChangeCount, OpenGarden,
         Reserve, LogIn, Leave, Reload, DogsAnswered, OpenAddDog, Consent, ChooseDog, AddDog,
         PostAnswered, SubmitBilling, IntentAnswered, Pay, CardRefused, CardCharged,
         WebhookArrives, Lapse, PollAnswered, PollLost, PaidShown, InvoiceAnswered, RivalBooks,
         HostChangesPrice
<1>. QED  BY <1>1, <1>2, <1>3, <1>4, RangeHelpers

LEMMA PlainTypesOK ==
    ASSUME WizardTypeOK, [Next]_vars
    PROVE  /\ busy' \in [Dates -> SUBSET Hours] /\ rate' \in Rates /\ kennel' \subseteq Dogs
           /\ page' \in {"away", "garden", "login", "wizard", "success"} /\ signedIn' \in BOOLEAN
           /\ clock' = clock
<1>. USE DEF WizardTypeOK
<1>1. CASE \E d \in Dates, h \in Hours : RivalBooks(d, h)
  BY <1>1 DEF RivalBooks
<1>2. CASE HostChangesPrice
  BY <1>2 DEF HostChangesPrice
<1>3. CASE \E d \in Dogs : AddDog(d)
  BY <1>3 DEF AddDog
<1>4. CASE OpenGarden \/ Reserve \/ LogIn \/ Leave \/ Reload \/ CardCharged \/ PaidShown
  BY <1>4 DEF OpenGarden, Reserve, LogIn, Leave, Reload, CardCharged, PaidShown, server
<1>5. \/ UNCHANGED <<busy, rate, kennel, page, clock, signedIn>>
      \/ \E d \in Dates, h \in Hours : RivalBooks(d, h)
      \/ \E d \in Dogs : AddDog(d)
      \/ HostChangesPrice
      \/ OpenGarden \/ Reserve \/ LogIn \/ Leave \/ Reload \/ CardCharged \/ PaidShown
  BY DEF Next, vars, server, PickDate, AvailabilityAnswered, ClickHour, ChangeCount, DogsAnswered,
         OpenAddDog, Consent, ChooseDog, Proceed, ServePost, PostAnswered, SubmitBilling,
         IntentAnswered, Pay, CardRefused, WebhookArrives, Lapse, PollAnswered, PollLost,
         InvoiceAnswered
<1>. QED  BY <1>1, <1>2, <1>3, <1>4, <1>5

LEMMA BudgetTypeOK ==
    ASSUME budget \in BudgetType, [Next]_vars
    PROVE  budget' \in BudgetType
<1>1. \/ UNCHANGED budget
      \/ \E what \in {"days", "clicks", "edits", "tries", "refetches", "rivals", "prices",
                      "lapses", "declines", "losses", "leaves"} : Spend(what)
  BY DEF Next, vars, PickDate, AvailabilityAnswered, ClickHour, ChangeCount, OpenGarden, Reserve,
         LogIn, Leave, Reload, DogsAnswered, OpenAddDog, Consent, ChooseDog, AddDog, Proceed,
         ServePost, PostAnswered, SubmitBilling, IntentAnswered, Pay, CardRefused, CardCharged,
         WebhookArrives, Lapse, PollAnswered, PollLost, PaidShown, InvoiceAnswered, RivalBooks,
         HostChangesPrice
<1>. QED  BY <1>1, SpendTypeOK

LEMMA FormStep ==
    ASSUME WizardTypeOK, WizardFlow, [Next]_vars
    PROVE  form' \in FormType /\ form'.count \in 1..MaxDogs /\ form'.prefill.count \in 1..MaxDogs
<1>1. form \in FormType /\ form.count \in 1..MaxDogs /\ form.prefill.count \in 1..MaxDogs
  BY DEF WizardTypeOK, WizardFlow
<1>. QED  BY <1>1, EmptyFormTypeOK, OtherStepsKeepTheForm, FormTypeOK

\* A request or a payment is under way only where the client can see it.
LEMMA FlowStep ==
    ASSUME WizardTypeOK, WizardFlow, [Next]_vars
    PROVE  WizardFlow'
<1>. DEFINE Started == page = "success" \/ pay.card # "idle" => pay.id # 0
            Asking == post.phase # "none" => page = "wizard" /\ pay.id = 0
            Booking == post.phase = "created" => rows # <<>>
            Guest == page = "login" => form.range = NoRange
<1>1. pay \in PayType /\ post \in PostType /\ rows \in Seq(RowType) /\ form \in FormType
  BY DEF WizardTypeOK
<1>2. Started /\ Asking /\ Booking /\ Guest
  BY DEF WizardFlow, Step1
<1>3. NoPay.id = 0 /\ NoPay.card = "idle" /\ NoPost.phase = "none"
  BY RangeHelpers
<1>. DEFINE Goal == Started' /\ Asking' /\ Booking' /\ Guest'
<1>4. ASSUME UNCHANGED <<page, post, pay, rows, form>> PROVE Goal
  BY <1>2, <1>4
<1>5. ASSUME OpenGarden \/ Leave \/ Reserve PROVE Goal
  BY <1>3, <1>5, EmptyFormTypeOK DEF OpenGarden, Leave, Reserve, Forget
<1>6. ASSUME LogIn PROVE Goal
  BY <1>2, <1>6 DEF LogIn, server
<1>7. ASSUME Reload PROVE Goal
  <2>1. page = "success" => [NoPay EXCEPT !.id = pay.id].id = pay.id
    BY RangeHelpers DEF PayType
  <2>. QED  BY <1>2, <1>3, <1>7, <2>1 DEF Reload
<1>8. ASSUME Proceed PROVE Goal
  <2>1. post'.phase = "sent" /\ page = "wizard" /\ pay.id = 0
    BY <1>8 DEF Proceed, Asked, Step1
  <2>. QED  BY <1>2, <1>8, <2>1 DEF Proceed, server
<1>9. ASSUME ServePost PROVE Goal
  <2>1. UNCHANGED <<page, pay, form>> /\ post.phase = "sent"
    BY <1>1, <1>9 DEF ServePost, PostType
  <2>2. post'.phase = "created" => Acceptable
    BY <1>1, <1>9 DEF ServePost, PostType
  <2>3. Acceptable => rows' = Append(rows, NewRow) /\ NewRow \in RowType
    BY <1>9, NewRowTypeOK DEF ServePost
  <2>4. NewRow \in RowType => Append(rows, NewRow) # <<>>
    BY <1>1, AppendProperties
  <2>. QED  BY <1>2, <2>1, <2>2, <2>3, <2>4
<1>10. ASSUME PostAnswered PROVE Goal
  <2>1. CASE post.phase = "created"
    <3>1. [NoPay EXCEPT !.id = Len(rows)].card = "idle"
      BY RangeHelpers DEF PayType
    <3>2. pay' = [NoPay EXCEPT !.id = Len(rows)] /\ page' = page /\ page = "wizard" /\ post' = NoPost
      BY <1>2, <1>10, <2>1 DEF PostAnswered
    <3>. QED  BY <1>3, <3>1, <3>2
  <2>2. CASE post.phase # "created"
    BY <1>2, <1>3, <1>10, <2>2 DEF PostAnswered, server
  <2>. QED  BY <2>1, <2>2
<1>11. ASSUME SubmitBilling \/ IntentAnswered \/ Pay \/ CardRefused \/ PollAnswered \/ PollLost
             \/ InvoiceAnswered
       PROVE  Goal
  <2>1. /\ pay'.id = pay.id
        /\ pay'.card # "idle" => pay.card # "idle" \/ pay.id # 0
    BY <1>1, <1>11 DEF SubmitBilling, IntentAnswered, Pay, CardRefused, PollAnswered, PollLost,
                       InvoiceAnswered, PayType, Step2
  <2>2. UNCHANGED <<page, post, rows, form>>
    BY <1>11 DEF SubmitBilling, IntentAnswered, Pay, CardRefused, PollAnswered, PollLost,
                 InvoiceAnswered, server
  <2>. QED  BY <1>2, <2>1, <2>2
<1>12. ASSUME CardCharged PROVE Goal
  <2>1. pay.id # 0 /\ post' = post /\ post.phase = "none"
    BY <1>2, <1>12 DEF CardCharged
  <2>2. pay'.id = pay.id
    BY <1>1, <1>12, RangeHelpers DEF CardCharged, PayType
  <2>3. page' = "success" \/ (page' = page /\ form' = form)
    BY <1>12 DEF CardCharged
  <2>. QED  BY <1>2, <2>1, <2>2, <2>3
<1>13. ASSUME PaidShown PROVE Goal
  <2>1. pay'.id = pay.id
    BY <1>1, <1>13, RangeHelpers DEF PaidShown, PayType
  <2>2. pay.id # 0 /\ page' = "success" /\ post' = post /\ post.phase = "none"
    BY <1>2, <1>13 DEF PaidShown, Step2
  <2>. QED  BY <2>1, <2>2
<1>14. ASSUME NEW i \in DOMAIN rows, WebhookArrives(i) \/ Lapse(i) PROVE Goal
  <2>1. rows' # <<>>
    BY <1>1, <1>14 DEF WebhookArrives, Lapse
  <2>. QED  BY <1>2, <1>14, <2>1 DEF WebhookArrives, Lapse
<1>15. ASSUME \/ \E d \in Dates : PickDate(d)
              \/ \E h \in Hours : ClickHour(h)
              \/ \E d \in Dogs : ChooseDog(d) \/ AddDog(d)
              \/ AvailabilityAnswered \/ ChangeCount \/ OpenAddDog \/ Consent
       PROVE  Goal
  <2>1. page # "login" /\ UNCHANGED <<page, post, pay, rows>>
    BY <1>15 DEF PickDate, ClickHour, ChooseDog, AddDog, AvailabilityAnswered, ChangeCount,
                 OpenAddDog, Consent, Picking, Step1, server
  <2>. QED  BY <1>2, <2>1
<1>16. \/ UNCHANGED <<page, post, pay, rows, form>>
       \/ OpenGarden \/ Leave \/ Reserve \/ LogIn \/ Reload \/ Proceed \/ ServePost \/ PostAnswered
       \/ SubmitBilling \/ IntentAnswered \/ Pay \/ CardRefused \/ PollAnswered \/ PollLost
       \/ InvoiceAnswered \/ CardCharged \/ PaidShown
       \/ \E i \in DOMAIN rows : WebhookArrives(i) \/ Lapse(i)
       \/ \E d \in Dates : PickDate(d)
       \/ \E h \in Hours : ClickHour(h)
       \/ \E d \in Dogs : ChooseDog(d) \/ AddDog(d)
       \/ AvailabilityAnswered \/ ChangeCount \/ OpenAddDog \/ Consent
  BY DEF Next, vars, server, DogsAnswered, RivalBooks, HostChangesPrice
<1>17. Goal
  <2>. HIDE DEF Goal
  <2>. QED  BY <1>4, <1>5, <1>6, <1>7, <1>8, <1>9, <1>10, <1>11, <1>12, <1>13, <1>14, <1>15, <1>16
<1>. QED  BY <1>17, FormStep DEF WizardFlow, Step1

LEMMA WizardTypeStep ==
    ASSUME WizardTypeOK, WizardFlow, [Next]_vars
    PROVE  WizardTypeOK'
<1>1. budget \in BudgetType
  BY DEF WizardTypeOK
<1>. QED  BY <1>1, PlainTypesOK, RowsStep, FormStep, CacheTypeOK, PostTypeOK, PayTypeOK, BudgetTypeOK
          DEF WizardTypeOK

LEMMA WizardTypeInit == Init => WizardTypeOK /\ WizardFlow
<1>. SUFFICES ASSUME Init PROVE WizardTypeOK /\ WizardFlow
  OBVIOUS
<1>1. rate \in Rates /\ rate \in Nat /\ budget \in BudgetType /\ kennel \subseteq Dogs
  BY WizardAssumption DEF Init
<1>2. cache \in CacheType
  BY <1>1, EmptyCacheTypeOK DEF Init
<1>3. /\ form \in FormType /\ form.count \in 1..MaxDogs /\ form.prefill.count \in 1..MaxDogs
      /\ form.range = NoRange
  BY EmptyFormTypeOK DEF Init
<1>4. rows \in Seq(RowType) /\ Len(rows) = 0 /\ pay.id \in 0..Len(rows)
  BY RangeHelpers DEF Init
<1>5. /\ clock \in Zones /\ busy \in [Dates -> SUBSET Hours] /\ signedIn \in BOOLEAN /\ page = "garden"
      /\ post = NoPost /\ pay = NoPay
  BY DEF Init
<1>. QED  BY <1>1, <1>2, <1>3, <1>4, <1>5, RangeHelpers DEF WizardTypeOK, WizardFlow

\* The widget, the wizard and the confirmation page keep every variable in its domain, for
\* any calendar, prices and dogs; and a request or a payment is under way only on the page
\* that waits for it.
THEOREM WizardTypeCorrect == Spec => []WizardTypeOK
<1>1. WizardTypeOK /\ WizardFlow /\ [Next]_vars => (WizardTypeOK /\ WizardFlow)'
  BY WizardTypeStep, FlowStep
<1>. QED  BY <1>1, WizardTypeInit, PTL DEF Spec

-----------------------------------------------------------------------------
(* A pick is free                                                          *)

\* A pick that neither the date nor the hours have left behind is made of free hours.
PickIsFree ==
    form.range # NoRange /\ ~form.moved =>
        HoursOf(form.range) # {} /\ HoursOf(form.range) \subseteq cache.free[form.date]

\* One chip, or two with everything between them free.
LEMMA ClickedRangeIsFree ==
    ASSUME WizardTypeOK, NEW h \in Hours, ClickHour(h)
    PROVE  /\ HoursOf(form'.range) # {}
           /\ HoursOf(form'.range) \subseteq cache.free[form.date]
           /\ form'.date = form.date /\ cache' = cache
<1>. DEFINE lo == IF form.anchor < h THEN form.anchor ELSE h
            hi == IF form.anchor < h THEN h ELSE form.anchor
            alone == form.anchor = NoHour \/ RangeHasBusy(lo, hi)
            picked == IF alone THEN [start |-> h, end |-> h + 1] ELSE [start |-> lo, end |-> hi + 1]
<1>1. form \in FormType /\ form.anchor \in Hours \cup {NoHour}
  BY DEF WizardTypeOK, FormType
<1>2. h \in Nat /\ h # NoHour /\ NoHour \in Int
  BY HoursAreNumbers
<1>3. /\ form' = [form EXCEPT !.anchor = IF alone THEN h ELSE NoHour, !.range = picked,
                              !.moved = FALSE]
      /\ h \in cache.free[form.date] /\ cache' = cache
  BY DEF ClickHour
<1>4. CASE alone
  <2>1. picked.start = h /\ picked.end = h + 1
    BY <1>4
  <2>2. HoursOf(picked) = h .. (h + 1 - 1)
    BY <1>2, <2>1 DEF HoursOf, NoRange
  <2>3. HoursOf(picked) = {h}
    BY <1>2, <2>2
  <2>. HIDE DEF picked
  <2>. QED  BY <1>1, <1>3, <2>3 DEF FormType
<1>5. CASE ~alone
  <2>1. picked.start = lo /\ picked.end = hi + 1
    BY <1>5
  <2>2. lo \in Nat /\ hi \in Nat /\ lo <= h /\ h <= hi /\ lo # NoHour
    <3>1. form.anchor \in Nat /\ form.anchor # NoHour
      BY <1>1, <1>5, HoursAreNumbers
    <3>. QED  BY <1>2, <3>1
  <2>3. \A x \in lo..hi : x \in cache.free[form.date]
    BY <1>5 DEF RangeHasBusy
  <2>. HIDE DEF lo, hi
  <2>4. HoursOf(picked) = lo .. (hi + 1 - 1)
    BY <2>1, <2>2 DEF HoursOf, NoRange
  <2>5. HoursOf(picked) = lo..hi /\ h \in lo..hi
    BY <1>2, <2>2, <2>4
  <2>. HIDE DEF picked
  <2>. QED  BY <1>1, <1>3, <2>3, <2>5 DEF FormType
<1>. QED  BY <1>4, <1>5

LEMMA PickStep ==
    ASSUME WizardTypeOK, WizardFlow, Picking => PickIsFree, [Next]_vars
    PROVE  (Picking => PickIsFree)'
<1>. DEFINE Goal == (Picking => PickIsFree)'
<1>1. /\ form \in FormType /\ pay \in PayType /\ cache \in CacheType
      /\ rows \in Seq(RowType) /\ Len(rows) \in Nat
  BY DEF WizardTypeOK
<1>2. NoPay.id = 0 /\ Fresh(NoPrefill, FALSE).range = NoRange
  BY RangeHelpers, EmptyFormTypeOK
<1>3. ASSUME Picking' => Picking, form'.range = form.range, form'.moved = form.moved,
             form'.date = form.date, cache'.free = cache.free
      PROVE  Goal
  BY <1>3 DEF PickIsFree
<1>4. ASSUME form'.range = NoRange \/ form'.moved PROVE Goal
  BY <1>4 DEF PickIsFree
<1>5. ASSUME NEW d \in Dates, PickDate(d) PROVE Goal
  <2>1. form'.range = form.range /\ form'.moved = (form.range # NoRange)
    BY <1>1, <1>5 DEF PickDate, FormType
  <2>. QED  BY <1>4, <2>1
<1>6. ASSUME AvailabilityAnswered PROVE Goal
  <2>1. form'.range = form.range /\ form'.moved = (form.range # NoRange)
    BY <1>1, <1>6 DEF AvailabilityAnswered, FormType
  <2>. QED  BY <1>4, <2>1
<1>7. ASSUME NEW h \in Hours, ClickHour(h) PROVE Goal
  BY <1>7, ClickedRangeIsFree DEF PickIsFree
<1>8. ASSUME OpenGarden \/ Leave \/ PaidShown PROVE Goal
  BY <1>2, <1>4, <1>8 DEF OpenGarden, Leave, PaidShown
<1>9. ASSUME Reserve PROVE Goal
  <2>1. /\ [date |-> form.date, range |-> form.range, count |-> form.count]
             \in [date: Dates \cup {NoDate}, range: RangeType, count: Nat]
        /\ form.moved \in BOOLEAN
    BY <1>1 DEF FormType
  <2>2. CASE form' = Fresh([date |-> form.date, range |-> form.range, count |-> form.count], form.moved)
    <3>1. form'.range = form.range /\ form'.moved = form.moved /\ form'.date = form.date
      BY <2>1, <2>2, FreshTypeOK
    <3>2. Picking /\ cache' = cache
      BY <1>9 DEF Reserve, Picking
    <3>. QED  BY <1>3, <3>1, <3>2
  <2>3. CASE form' = Fresh(NoPrefill, FALSE)
    BY <1>2, <1>4, <2>3
  <2>. QED  BY <1>9, <2>2, <2>3 DEF Reserve
<1>10. ASSUME LogIn PROVE Goal
  BY <1>4, <1>10 DEF LogIn, WizardFlow
<1>11. ASSUME Reload PROVE Goal
  <2>1. form.prefill \in [date: Dates \cup {NoDate}, range: RangeType, count: Nat]
    BY <1>1 DEF FormType
  <2>2. form'.range = form.prefill.range /\ form'.moved = (form.prefill.range # NoRange)
    BY <1>11, <2>1, FreshTypeOK DEF Reload
  <2>. QED  BY <1>4, <2>2
<1>12. ASSUME \/ ChangeCount \/ DogsAnswered \/ OpenAddDog \/ Consent \/ Proceed
              \/ \E d \in Dogs : ChooseDog(d) \/ AddDog(d)
       PROVE  Goal
  <2>1. form'.range = form.range /\ form'.moved = form.moved /\ form'.date = form.date
    BY <1>1, <1>12 DEF ChangeCount, DogsAnswered, OpenAddDog, Consent, Proceed, ChooseDog, AddDog, FormType
  <2>2. cache'.free = cache.free /\ page' = page /\ pay' = pay
    BY <1>1, <1>12 DEF ChangeCount, DogsAnswered, OpenAddDog, Consent, Proceed, ChooseDog, AddDog, CacheType
  <2>. QED  BY <1>3, <2>1, <2>2 DEF Picking, Step1
<1>13. ASSUME CardCharged PROVE Goal
  <2>1. CASE page' = "success"
    BY <2>1 DEF Picking, Step1
  <2>2. CASE page' # "success"
    <3>1. UNCHANGED <<page, form, cache>> /\ pay'.id = pay.id
      BY <1>1, <1>13, <2>2 DEF CardCharged, PayType
    <3>. QED  BY <1>3, <3>1 DEF Picking, Step1
  <2>. QED  BY <2>1, <2>2
<1>14. ASSUME PostAnswered PROVE Goal
  <2>1. post.phase = "created" => Len(rows) # 0
    BY <1>1 DEF WizardFlow
  <2>2. [NoPay EXCEPT !.id = Len(rows)].id = Len(rows)
    BY RangeHelpers DEF PayType
  <2>3. UNCHANGED <<page, form, cache>> /\ (pay'.id = 0 => pay.id = 0)
    BY <1>14, <2>1, <2>2 DEF PostAnswered
  <2>. QED  BY <1>3, <2>3 DEF Picking, Step1
<1>15. ASSUME SubmitBilling \/ IntentAnswered \/ Pay \/ CardRefused \/ PollAnswered \/ PollLost
              \/ InvoiceAnswered
       PROVE  Goal
  <2>1. UNCHANGED <<page, form, cache>> /\ pay'.id = pay.id
    BY <1>1, <1>15 DEF SubmitBilling, IntentAnswered, Pay, CardRefused, PollAnswered, PollLost,
                       InvoiceAnswered, PayType
  <2>. QED  BY <1>3, <2>1 DEF Picking, Step1
<1>16. ASSUME UNCHANGED <<page, form, cache, pay>> PROVE Goal
  BY <1>3, <1>16 DEF Picking, Step1
<1>17. \/ UNCHANGED <<page, form, cache, pay>>
       \/ \E d \in Dates : PickDate(d)
       \/ \E h \in Hours : ClickHour(h)
       \/ \E d \in Dogs : ChooseDog(d) \/ AddDog(d)
       \/ AvailabilityAnswered \/ OpenGarden \/ Leave \/ PaidShown \/ Reserve \/ LogIn \/ Reload
       \/ ChangeCount \/ DogsAnswered \/ OpenAddDog \/ Consent \/ Proceed
       \/ CardCharged \/ PostAnswered
       \/ SubmitBilling \/ IntentAnswered \/ Pay \/ CardRefused \/ PollAnswered \/ PollLost
       \/ InvoiceAnswered
  BY DEF Next, vars, ServePost, WebhookArrives, Lapse, RivalBooks, HostChangesPrice
<1>. HIDE DEF Goal
<1>18. Goal
  BY <1>5, <1>6, <1>7, <1>8, <1>9, <1>10, <1>11, <1>12, <1>13, <1>14, <1>15, <1>16, <1>17
<1>. QED  BY <1>18 DEF Goal

\* Whatever is clicked in the calendar and on the chips, and in whatever order the hours
\* arrive, a pick is whole hours that were all free when it was made (handleClick and
\* rangeHasBusy of TimeRangePicker.tsx).
THEOREM PickedRangeIsFreeTheorem == Spec => []PickedRangeIsFree
<1>1. Init => (Picking => PickIsFree)
  BY EmptyFormTypeOK DEF Init, PickIsFree
<1>2. WizardTypeOK /\ WizardFlow /\ (Picking => PickIsFree) /\ [Next]_vars
        => (WizardTypeOK /\ WizardFlow /\ (Picking => PickIsFree))'
  BY WizardTypeStep, FlowStep, PickStep
<1>3. (Picking => PickIsFree) => PickedRangeIsFree
  BY DEF PickIsFree, PickedRangeIsFree
<1>. QED  BY <1>1, <1>2, <1>3, WizardTypeInit, PTL DEF Spec


-----------------------------------------------------------------------------
(* What was confirmed is reserved                                          *)

\* The row is the summary the client confirmed, on a browser with this clock.
AsConfirmed(row, sent, mine) ==
    /\ row.dog = sent.dog /\ row.count = sent.count
    /\ row.end - row.start = sent.range.end - sent.range.start
    /\ mine[sent.date] = [ahead |-> 0, whole |-> TRUE] =>
         row.date = sent.date /\ row.start = sent.range.start /\ row.end = sent.range.end

RowsArePriced ==
    \A i \in 1..Len(rows) :
        /\ rows[i].start < rows[i].end
        /\ rows[i].total = Charge(rows[i].rate, rows[i].end - rows[i].start)

\* The request under way is the summary's.
AskedAsConfirmed ==
    /\ form.sent.date \in Dates /\ form.sent.range # NoRange
    /\ post.start = ToIso(form.sent.date, form.sent.range.start)
    /\ post.end = ToIso(form.sent.date, form.sent.range.end)
    /\ post.dog = form.sent.dog /\ post.count = form.sent.count

\* From the summary through the request and the row to the card form.
SummaryFlow ==
    /\ RowsArePriced
    /\ post.phase # "none" => AskedAsConfirmed
    /\ post.phase = "created" => AsConfirmed(rows[Len(rows)], form.sent, clock)
    /\ Step2 => AsConfirmed(Row, form.sent, clock)

LEMMA RowsArePricedStep ==
    ASSUME WizardTypeOK, WizardFlow, RowsArePriced, [Next]_vars
    PROVE  RowsArePriced'
<1>. SUFFICES ASSUME NEW i \in 1..Len(rows')
              PROVE  /\ rows'[i].start < rows'[i].end
                     /\ rows'[i].total = Charge(rows'[i].rate, rows'[i].end - rows'[i].start)
  BY DEF RowsArePriced
<1>1. Len(rows) \in Nat /\ rows \in Seq(RowType)
  BY DEF WizardTypeOK
<1>2. CASE i \in 1..Len(rows)
  <2>1. Booked(rows'[i]) = Booked(rows[i])
    BY <1>2, RowsStep
  <2>2. /\ rows'[i].start = rows[i].start /\ rows'[i].end = rows[i].end
        /\ rows'[i].rate = rows[i].rate /\ rows'[i].total = rows[i].total
    BY <2>1 DEF Booked
  <2>. QED  BY <1>2, <2>2 DEF RowsArePriced
<1>3. CASE i \notin 1..Len(rows)
  <2>1. Len(rows') # Len(rows)
    BY <1>3
  <2>2. ServePost /\ Acceptable /\ Len(rows') = Len(rows) + 1 /\ rows'[Len(rows) + 1] = NewRow
    BY <2>1, RowsStep
  <2>3. i = Len(rows) + 1
    BY <1>1, <1>3, <2>2
  <2>. QED  BY <2>2, <2>3, NewRowTypeOK
<1>. QED  BY <1>2, <1>3

\* A row that is there stays what was booked.
LEMMA RowKeeps ==
    ASSUME WizardTypeOK, WizardFlow, [Next]_vars, NEW i \in 1..Len(rows),
           AsConfirmed(rows[i], form.sent, clock)
    PROVE  AsConfirmed(rows'[i], form.sent, clock)
<1>1. Booked(rows'[i]) = Booked(rows[i])
  BY RowsStep
<1>2. /\ rows'[i].date = rows[i].date /\ rows'[i].start = rows[i].start /\ rows'[i].end = rows[i].end
      /\ rows'[i].dog = rows[i].dog /\ rows'[i].count = rows[i].count
  BY <1>1 DEF Booked
<1>3. clock' = clock
  BY PlainTypesOK
<1>. QED  BY <1>2, <1>3 DEF AsConfirmed

\* The row that answers the request: two points in time on one day of the garden's clock are
\* as far apart as the hours that were picked.
LEMMA NewRowAsConfirmed ==
    ASSUME WizardTypeOK, Acceptable, AskedAsConfirmed
    PROVE  AsConfirmed(NewRow, form.sent, clock)
<1>. DEFINE d == form.sent.date
            s == form.sent.range.start
            e == form.sent.range.end
<1>1. d \in Dates /\ d \in Int /\ clock \in Zones /\ clock[d].ahead \in Int
  BY WizardAssumption DEF WizardTypeOK, AskedAsConfirmed, ClockType
<1>2. s \in 0..23 /\ e \in 0..23
  <2>1. form.sent.range \in RangeType /\ form.sent.range # NoRange
    BY DEF WizardTypeOK, FormType, AskedAsConfirmed
  <2>2. s \in Hours /\ e \in 0..23
    BY <2>1, RangeEnds
  <2>. QED  BY <2>2, WizardAssumption DEF Hours
<1>3. /\ post.start = ToIso(d, s) /\ post.end = ToIso(d, e)
      /\ post.dog = form.sent.dog /\ post.count = form.sent.count
  BY DEF AskedAsConfirmed
<1>4. /\ NewRow.date = post.start.date /\ NewRow.start = post.start.hour
      /\ NewRow.end = post.end.hour /\ NewRow.dog = post.dog /\ NewRow.count = post.count
      /\ post.start.date = post.end.date
  BY DEF NewRow, Acceptable
<1>. HIDE DEF d, s, e
<1>5. s \in Int /\ e \in Int
  BY <1>2
<1>6. /\ post.start \in MomentType
      /\ 24 * post.start.date + post.start.hour = 24 * d + s - clock[d].ahead
      /\ clock[d] = [ahead |-> 0, whole |-> TRUE] => post.start.date = d /\ post.start.hour = s
  <2>1. /\ ToIso(d, s) \in MomentType
        /\ 24 * ToIso(d, s).date + ToIso(d, s).hour = 24 * d + s - clock[d].ahead
        /\ OnTheGardensClock(d) /\ s \in 0..23 => ToIso(d, s).date = d /\ ToIso(d, s).hour = s
    BY <1>1, <1>5, ToIsoTypeOK
  <2>. QED  BY <1>2, <1>3, <2>1 DEF OnTheGardensClock
<1>7. /\ post.end \in MomentType
      /\ 24 * post.end.date + post.end.hour = 24 * d + e - clock[d].ahead
      /\ clock[d] = [ahead |-> 0, whole |-> TRUE] => post.end.hour = e
  <2>1. /\ ToIso(d, e) \in MomentType
        /\ 24 * ToIso(d, e).date + ToIso(d, e).hour = 24 * d + e - clock[d].ahead
        /\ OnTheGardensClock(d) /\ e \in 0..23 => ToIso(d, e).date = d /\ ToIso(d, e).hour = e
    BY <1>1, <1>5, ToIsoTypeOK
  <2>. QED  BY <1>2, <1>3, <2>1 DEF OnTheGardensClock
<1>8. post.end.hour - post.start.hour = e - s
  <2>1. post.start.date \in Int /\ post.start.hour \in Int /\ post.end.hour \in Int
    BY <1>6, <1>7 DEF MomentType
  <2>2. 24 * post.start.date + post.end.hour = 24 * d + e - clock[d].ahead
    BY <1>4, <1>7
  <2>. QED  BY <1>1, <1>5, <1>6, <2>1, <2>2
<1>. QED  BY <1>3, <1>4, <1>6, <1>7, <1>8 DEF AsConfirmed, d, s, e

\* Only going on with the form changes what is kept of the summary while it is shown.
LEMMA SentKept ==
    ASSUME WizardTypeOK, [Next]_vars
    PROVE  \/ form'.sent = form.sent
           \/ Proceed
           \/ OpenGarden \/ Leave \/ Reserve \/ Reload \/ PaidShown
           \/ CardCharged /\ page' = "success"
<1>1. form \in FormType
  BY DEF WizardTypeOK
<1>2. CASE \/ \E d \in Dates : PickDate(d)
           \/ \E h \in Hours : ClickHour(h)
           \/ \E d \in Dogs : ChooseDog(d) \/ AddDog(d)
           \/ AvailabilityAnswered \/ ChangeCount \/ OpenAddDog \/ Consent
  BY <1>1, <1>2 DEF PickDate, ClickHour, ChooseDog, AddDog, AvailabilityAnswered, ChangeCount,
                    OpenAddDog, Consent, FormType
<1>3. CardCharged => UNCHANGED form \/ page' = "success"
  BY DEF CardCharged
<1>4. UNCHANGED form => form'.sent = form.sent
  OBVIOUS
<1>. QED
  BY <1>2, <1>3, <1>4
     DEF Next, vars, LogIn, DogsAnswered, ServePost, PostAnswered, SubmitBilling, IntentAnswered,
         Pay, CardRefused, WebhookArrives, Lapse, PollAnswered, PollLost, InvoiceAnswered,
         RivalBooks, HostChangesPrice

LEMMA PostKept ==
    ASSUME [Next]_vars
    PROVE  post' = post \/ Proceed \/ ServePost \/ post' = NoPost
BY DEF Next, vars, Forget, PickDate, AvailabilityAnswered, ClickHour, ChangeCount, OpenGarden,
       Reserve, LogIn, Leave, Reload, DogsAnswered, OpenAddDog, Consent, ChooseDog, AddDog,
       PostAnswered, SubmitBilling, IntentAnswered, Pay, CardRefused, CardCharged,
       WebhookArrives, Lapse, PollAnswered, PollLost, PaidShown, InvoiceAnswered, RivalBooks,
       HostChangesPrice

\* What has been asked stays what was confirmed, whatever changes in the form meanwhile.
LEMMA AskedStep ==
    ASSUME WizardTypeOK, WizardFlow, SummaryFlow, [Next]_vars, post'.phase # "none"
    PROVE  AskedAsConfirmed'
<1>1. form \in FormType /\ post \in PostType /\ clock' = clock /\ NoPost.phase = "none"
  BY PlainTypesOK, RangeHelpers DEF WizardTypeOK
<1>2. CASE Proceed
  <2>1. form'.sent = Summary /\ post' = Asked /\ form.date \in Dates /\ form.range # NoRange
    BY <1>1, <1>2 DEF Proceed, Ready, FormType
  <2>2. /\ form'.sent.date = form.date /\ form'.sent.range = form.range
        /\ form'.sent.dog = form.dog /\ form'.sent.count = form.count
    BY <2>1 DEF Summary
  <2>3. /\ post'.start = ToIso(form.date, form.range.start)
        /\ post'.end = ToIso(form.date, form.range.end)
        /\ post'.dog = form.dog /\ post'.count = form.count
    BY <2>1 DEF Asked
  <2>. QED  BY <1>1, <2>1, <2>2, <2>3 DEF AskedAsConfirmed, ToIso
<1>3. ASSUME post.phase # "none", form'.sent = form.sent, post'.start = post.start,
             post'.end = post.end, post'.dog = post.dog, post'.count = post.count
      PROVE  AskedAsConfirmed'
  <2>1. AskedAsConfirmed
    BY <1>3 DEF SummaryFlow
  <2>. QED  BY <1>1, <1>3, <2>1 DEF AskedAsConfirmed, ToIso
<1>4. CASE ServePost
  <2>1. /\ post.phase # "none" /\ form' = form
        /\ post'.start = post.start /\ post'.end = post.end
        /\ post'.dog = post.dog /\ post'.count = post.count
    BY <1>1, <1>4 DEF ServePost, PostType
  <2>. QED  BY <1>3, <2>1
<1>5. CASE post' = post /\ ~Proceed
  <2>1. page = "wizard" /\ pay.id = 0
    BY <1>5 DEF WizardFlow, Step1
  <2>2. /\ ~PaidShown /\ ~CardCharged
        /\ ~(OpenGarden \/ Leave \/ Reserve \/ Reload)
    BY <1>1, <1>5, <2>1 DEF PaidShown, Step2, CardCharged, WizardFlow, OpenGarden, Leave, Reserve,
                            Reload, Forget
  <2>3. form'.sent = form.sent
    BY <1>5, <2>2, SentKept
  <2>. QED  BY <1>3, <1>5, <2>3
<1>. QED  BY <1>1, <1>2, <1>4, <1>5, PostKept

\* The answer finds the row it is about.
LEMMA CreatedStep ==
    ASSUME WizardTypeOK, WizardFlow, SummaryFlow, [Next]_vars, post'.phase = "created"
    PROVE  AsConfirmed(rows[Len(rows)], form.sent, clock)'
<1>1. /\ post \in PostType /\ rows \in Seq(RowType) /\ Len(rows) \in Nat
      /\ clock' = clock /\ NoPost.phase = "none"
  BY PlainTypesOK, RangeHelpers DEF WizardTypeOK
<1>2. CASE ServePost
  <2>1. Acceptable /\ post.phase # "none" /\ form' = form
    BY <1>1, <1>2 DEF ServePost, PostType
  <2>2. rows' = Append(rows, NewRow)
    BY <1>2, <2>1 DEF ServePost
  <2>3. NewRow \in RowType /\ AsConfirmed(NewRow, form.sent, clock)
    BY <2>1, NewRowTypeOK, NewRowAsConfirmed DEF SummaryFlow
  <2>4. rows'[Len(rows')] = NewRow
    BY <1>1, <2>2, <2>3, AppendProperties
  <2>. QED  BY <1>1, <2>1, <2>3, <2>4
<1>3. CASE post' = post /\ ~ServePost /\ ~Proceed
  <2>1. rows # <<>> /\ post.phase = "created" /\ page = "wizard" /\ pay.id = 0
    BY <1>3 DEF WizardFlow, Step1
  <2>2. Len(rows) \in 1..Len(rows) /\ Len(rows') = Len(rows)
    BY <1>1, <1>3, <2>1, RowsStep
  <2>3. AsConfirmed(rows'[Len(rows)], form.sent, clock)
    <3>1. AsConfirmed(rows[Len(rows)], form.sent, clock)
      BY <2>1 DEF SummaryFlow
    <3>. QED  BY <2>2, <3>1, RowKeeps
  <2>4. /\ ~PaidShown /\ ~CardCharged
        /\ ~(OpenGarden \/ Leave \/ Reserve \/ Reload)
    BY <1>1, <1>3, <2>1 DEF PaidShown, Step2, CardCharged, WizardFlow, OpenGarden, Leave, Reserve,
                            Reload, Forget
  <2>5. form'.sent = form.sent
    BY <1>3, <2>4, SentKept
  <2>. QED  BY <1>1, <2>2, <2>3, <2>5
<1>4. CASE Proceed
  BY <1>4 DEF Proceed, Asked
<1>. QED  BY <1>1, <1>2, <1>3, <1>4, PostKept

\* Step 2 is reached by the answer to the request; nothing goes on from there with a form.
LEMMA ShownStep ==
    ASSUME WizardTypeOK, WizardFlow, SummaryFlow, [Next]_vars, Step2'
    PROVE  AsConfirmed(Row, form.sent, clock)'
<1>1. /\ pay \in PayType /\ pay.id \in 0..Len(rows) /\ clock' = clock
      /\ rows \in Seq(RowType) /\ Len(rows) \in Nat /\ NoPay.id = 0
  BY PlainTypesOK, RangeHelpers DEF WizardTypeOK
<1>2. CASE PostAnswered /\ post.phase = "created"
  <2>1. [NoPay EXCEPT !.id = Len(rows)].id = Len(rows)
    BY RangeHelpers DEF PayType
  <2>2. pay'.id = Len(rows) /\ UNCHANGED <<rows, form>>
    BY <1>2, <2>1 DEF PostAnswered, server
  <2>3. AsConfirmed(rows[Len(rows)], form.sent, clock)
    BY <1>2 DEF SummaryFlow
  <2>. QED  BY <1>1, <2>2, <2>3 DEF Row
<1>3. CASE Step2 /\ pay'.id = pay.id /\ form'.sent = form.sent
  <2>1. pay.id \in 1..Len(rows)
    BY <1>1, <1>3 DEF Step2
  <2>2. AsConfirmed(rows[pay.id], form.sent, clock)
    BY <1>3 DEF SummaryFlow, Row
  <2>3. AsConfirmed(rows'[pay.id], form.sent, clock)
    BY <2>1, <2>2, RowKeeps
  <2>. QED  BY <1>1, <1>3, <2>3 DEF Row
<1>4. page' = "wizard" /\ pay'.id # 0
  BY DEF Step2
<1>5. /\ ~(OpenGarden \/ Leave \/ Reserve \/ Reload) /\ ~LogIn /\ ~PaidShown
      /\ ~(CardCharged /\ page' = "success")
  BY <1>1, <1>4 DEF OpenGarden, Leave, Reserve, Reload, LogIn, PaidShown, Forget
<1>6. ~Proceed
  BY <1>4 DEF Proceed, Step1
<1>7. form'.sent = form.sent
  BY <1>5, <1>6, SentKept
<1>8. CASE ~(PostAnswered /\ post.phase = "created")
  <2>1. page' = page /\ pay'.id = pay.id
    <3>1. CASE SubmitBilling \/ IntentAnswered \/ Pay \/ CardRefused \/ PollAnswered \/ PollLost
               \/ InvoiceAnswered
      BY <1>1, <3>1 DEF SubmitBilling, IntentAnswered, Pay, CardRefused, PollAnswered, PollLost,
                        InvoiceAnswered, PayType
    <3>2. CASE CardCharged
      BY <1>1, <1>5, <3>2 DEF CardCharged, PayType
    <3>3. CASE PostAnswered
      BY <1>8, <3>3 DEF PostAnswered
    <3>4. CASE UNCHANGED <<page, pay>>
      BY <3>4
    <3>. QED
      BY <1>5, <3>1, <3>2, <3>3, <3>4
         DEF Next, vars, PickDate, AvailabilityAnswered, ClickHour, ChangeCount, DogsAnswered,
             OpenAddDog, Consent, ChooseDog, AddDog, Proceed, ServePost, WebhookArrives, Lapse,
             RivalBooks, HostChangesPrice
  <2>. QED  BY <1>3, <1>4, <1>7, <2>1 DEF Step2
<1>. QED  BY <1>2, <1>8

LEMMA SummaryStep ==
    ASSUME WizardTypeOK, WizardFlow, SummaryFlow, [Next]_vars
    PROVE  SummaryFlow'
<1>1. RowsArePriced'
  BY RowsArePricedStep DEF SummaryFlow
<1>. QED  BY <1>1, AskedStep, CreatedStep, ShownStep DEF SummaryFlow

LEMMA SummaryFollows ==
    ASSUME WizardTypeOK, WizardFlow, SummaryFlow
    PROVE  ConfirmedIsReserved
<1>. SUFFICES ASSUME Step2
              PROVE  /\ Row.dog = form.sent.dog /\ Row.count = form.sent.count
                     /\ Row.end - Row.start = Length(form.sent.range)
                     /\ OnTheGardensClock(form.sent.date) =>
                          <<Row.date, Row.start, Row.end>>
                            = <<form.sent.date, form.sent.range.start, form.sent.range.end>>
                     /\ Row.rate = cache.rate =>
                          \A quote \in Quotes(cache.rate, Length(form.sent.range)) :
                              quote \in (Row.total - 1)..Row.total
  BY DEF ConfirmedIsReserved
<1>1. /\ pay.id \in 1..Len(rows) /\ rows \in Seq(RowType) /\ form.sent.range \in RangeType
      /\ cache.rate \in Nat
  BY DEF WizardTypeOK, Step2, FormType, CacheType
<1>2. Row \in RowType
  BY <1>1, ElementOfSeq DEF Row
<1>3. Row.start \in Nat /\ Row.end \in Nat
  BY <1>2 DEF RowType
<1>4. Row.start < Row.end /\ Row.total = Charge(Row.rate, Row.end - Row.start)
  BY <1>1 DEF SummaryFlow, RowsArePriced, Row
<1>5. AsConfirmed(Row, form.sent, clock)
  BY DEF SummaryFlow
<1>6. /\ form.sent.range.start \in Int /\ form.sent.range.end \in Int
      /\ form.sent.range.end - form.sent.range.start = Row.end - Row.start
  BY <1>1, <1>5, RangeEnds DEF AsConfirmed
<1>7. form.sent.range.start < form.sent.range.end
  BY <1>3, <1>4, <1>6
<1>8. HoursOf(form.sent.range) # {}
  <2>1. form.sent.range # NoRange
    BY <1>7, HoursAreNumbers DEF NoRange
  <2>2. form.sent.range.start \in form.sent.range.start .. (form.sent.range.end - 1)
    BY <1>6, <1>7
  <2>. QED  BY <2>1, <2>2 DEF HoursOf
<1>9. Length(form.sent.range) = Row.end - Row.start
  BY <1>1, <1>6, <1>8, LengthIsTheDifference
<1>10. Row.end - Row.start \in Nat
  BY <1>3, <1>4
<1>11. ASSUME Row.rate = cache.rate, NEW quote \in Quotes(cache.rate, Length(form.sent.range))
       PROVE  quote \in (Row.total - 1)..Row.total
  BY <1>1, <1>4, <1>9, <1>10, <1>11, QuotesAreWithinAGrosz
<1>. QED  BY <1>5, <1>9, <1>11 DEF AsConfirmed, OnTheGardensClock

\* What the client confirms in step 1 is what the server has booked when the card form shows:
\* the dog, the dogs, the length, the price up to the browser's half grosz and, on the garden's
\* clock, the day and the hours - for any clocks, prices and order of the answers, and whatever
\* is changed while the request is under way (BookingWizardPage.tsx proceed and toIso,
\* OrderSummary.tsx, services.py create_reservation).
THEOREM ConfirmedIsReservedTheorem == Spec => []ConfirmedIsReserved
<1>1. Init => SummaryFlow
  <2>. SUFFICES ASSUME Init PROVE SummaryFlow
    OBVIOUS
  <2>1. rows = <<>> /\ post.phase = "none" /\ page = "garden"
    BY RangeHelpers DEF Init
  <2>. QED  BY <2>1 DEF SummaryFlow, RowsArePriced, Step2
<1>2. WizardTypeOK /\ WizardFlow /\ SummaryFlow /\ [Next]_vars
        => (WizardTypeOK /\ WizardFlow /\ SummaryFlow)'
  BY WizardTypeStep, FlowStep, SummaryStep
<1>3. WizardTypeOK /\ WizardFlow /\ SummaryFlow => ConfirmedIsReserved
  BY SummaryFollows
<1>. QED  BY <1>1, <1>2, <1>3, WizardTypeInit, PTL DEF Spec
=============================================================================

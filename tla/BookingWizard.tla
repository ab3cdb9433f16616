--------------------------- MODULE BookingWizard ---------------------------
(***************************************************************************)
(* Booking a garden in the web client: the widget on the garden's page,    *)
(* the wizard (details, card payment) and the confirmation page            *)
(* (src/frontend/src/features/booking, features/gardens/components and     *)
(* shared/ui/TimeRangePicker.tsx).  One client at one browser tab, one     *)
(* garden, the API behind it, Stripe, and other clients of the garden.     *)
(*                                                                         *)
(* Days and hours are numbers, prices are grosze.  The days of the         *)
(* calendar lie ahead, and none of the nights when clocks change is        *)
(* booked.  Texts, billing fields and the gap between the end of a hold    *)
(* and the job that cancels it are left out (Booking has the gap).         *)
(***************************************************************************)
EXTENDS Integers, Sequences, FiniteSets

CONSTANTS
    Dates,          \* days of the calendar that can be picked
    OpenFrom, OpenTo,
    MinHours,       \* min_booking_hours of the garden
    MaxDogs,        \* max_dogs of the garden
    Rates,          \* price_per_hour, in grosze: before and after the host changes it
    Dogs,           \* dogs the client has or may add
    Vaccinated,     \* those with valid vaccinations
    NoDog, NoDate,
    Zones,          \* clocks a browser may run on, see ClockType
    Budgets         \* what the client, the others and faults may do in one behaviour

BudgetType ==
    [days: Nat, clicks: Nat,    \* dates and hours clicked
     edits: Nat,                \* other changes of the form
     tries: Nat,                \* reservations asked for
     refetches: Nat,            \* hours fetched again after staleTime
     rivals: Nat,               \* hours others book
     prices: Nat,               \* times the host changes the price
     lapses: Nat,               \* holds that reach the end of their 15 minutes
     declines: Nat, losses: Nat,
     leaves: Nat]               \* reloads and other ways out of a page

\* ahead: hours the browser's clock is ahead of the garden's on that day.  whole: the
\* difference is whole hours.
ClockType == [Dates -> [ahead: Int, whole: BOOLEAN]]

ASSUME WizardAssumption ==
    /\ OpenFrom \in Nat /\ OpenTo \in 0..23 /\ OpenFrom < OpenTo
    /\ Dates \subseteq Int /\ Zones \subseteq ClockType
    /\ MinHours \in Nat \ {0} /\ MaxDogs \in Nat \ {0}
    /\ Rates \subseteq Nat \ {0} /\ Rates # {}
    /\ Vaccinated \subseteq Dogs /\ NoDog \notin Dogs /\ NoDate \notin Dates
    /\ Budgets \subseteq BudgetType

VARIABLES
    clock,          \* the browser's, against Europe/Warsaw
    busy,           \* busy[d]: hours of day d held by other clients
    rate,           \* the garden's price_per_hour
    rows,           \* reservations of this client, in order; its id is its place
    kennel,         \* dogs of this client on the server
    page,
    signedIn,
    form,           \* what is entered on the page, see FormType
    cache,          \* answers kept by the query client, see CacheType
    post,           \* the POST of the reservation, see PostType
    pay,            \* step 2 and what follows it, see PayType
    budget          \* what is left of the bounds

server == <<busy, rate, rows, kennel>>
vars == <<server, page, clock, signedIn, form, cache, post, pay, budget>>

Hours == OpenFrom .. (OpenTo - 1)
NoHour == OpenFrom - 1
NoRange == [start |-> NoHour, end |-> NoHour]
RangeType == {NoRange} \cup [start: Hours, end: {h + 1 : h \in Hours}]
HoursOf(range) == IF range = NoRange THEN {} ELSE range.start .. (range.end - 1)
Length(range) == Cardinality(HoursOf(range))

Statuses == {"pending_payment", "awaiting_host", "cancelled"}

\* hook: Stripe has charged the card and its webhook is due, or has been handled.
RowType ==
    [date: Int, start: Nat, end: Nat, dog: Dogs, count: Nat, rate: Nat, total: Nat,
     status: Statuses, hook: {"none", "due", "done"}]

\* anchor: the first chip of a pick, inside the picker.  moved: the date or the hours of the
\* day have changed since the pick.  sent: what the summary showed when the client last went on.
FormType ==
    [date: Dates \cup {NoDate}, range: RangeType, anchor: Hours \cup {NoHour}, count: Nat,
     dog: Dogs \cup {NoDog}, consents: BOOLEAN, adding: BOOLEAN, moved: BOOLEAN,
     sent: [date: Dates \cup {NoDate}, range: RangeType, dog: Dogs \cup {NoDog}, count: Nat],
     prefill: [date: Dates \cup {NoDate}, range: RangeType, count: Nat]]

Unknown == {NoHour}
CacheType ==
    [free: [Dates -> (SUBSET Hours) \cup {Unknown}], rate: Nat, dogs: SUBSET Dogs]

\* A point in time by the garden's clock.
MomentType == [date: Int, hour: 0..23, whole: BOOLEAN]

PostType ==
    [phase: {"none", "sent", "created", "failed"}, start: MomentType, end: MomentType,
     dog: Dogs \cup {NoDog}, count: Nat]

\* id: the reservation of step 2, 0 in step 1.  data and misses: the query that polls it.
PayType ==
    [id: Nat, intent: {"none", "asking", "ready"}, card: {"idle", "submitting", "confirmed"},
     data: Statuses \cup {"unknown"}, misses: 0..2, invoice: {"none", "shown", "missing"}]

NoMoment == [date |-> 0, hour |-> 0, whole |-> TRUE]
NoPost == [phase |-> "none", start |-> NoMoment, end |-> NoMoment, dog |-> NoDog, count |-> 0]
NothingSent == [date |-> NoDate, range |-> NoRange, dog |-> NoDog, count |-> 0]
NoPay == [id |-> 0, intent |-> "none", card |-> "idle", data |-> "unknown", misses |-> 0,
          invoice |-> "none"]
NoPrefill == [date |-> NoDate, range |-> NoRange, count |-> 1]

\* The state of a freshly mounted widget or wizard; the router's state survives a reload.
Fresh(prefill, moved) ==
    [date |-> prefill.date, range |-> prefill.range, anchor |-> NoHour, count |-> prefill.count,
     dog |-> NoDog, consents |-> FALSE, adding |-> FALSE, moved |-> moved,
     sent |-> NothingSent, prefill |-> prefill]

EmptyCache(r) == [free |-> [d \in Dates |-> Unknown], rate |-> r, dogs |-> {}]

Spend(what) == budget[what] > 0 /\ budget' = [budget EXCEPT ![what] = @ - 1]

-----------------------------------------------------------------------------
(* Prices.                                                                 *)

Percent == 10

\* _money: half up to the grosz.
Charge(price, hours) ==
    LET subtotal == price * hours
    IN  subtotal + (subtotal * Percent + 50) \div 100

\* computeQuote works in binary floating point, so an exact half may fall to either side.
Quotes(price, hours) ==
    LET subtotal == price * hours
        exact == subtotal * Percent
    IN  {subtotal + (exact + 50) \div 100} \cup
        (IF exact % 100 = 50 THEN {subtotal + exact \div 100} ELSE {})

-----------------------------------------------------------------------------
(* The calendar and the hour chips, on the garden's page and in step 1.    *)

Step1 == page = "wizard" /\ pay.id = 0
Picking == page = "garden" \/ Step1

\* While the day's hours load, the chips are replaced by a spinner.
ChipsShown(d) == d # NoDate /\ cache.free[d] # Unknown

\* Clicking the selected day clears it.  The range stays; the chips keep their anchor only
\* if they stay mounted.
PickDate(d) ==
    /\ Picking /\ Spend("days")
    /\ LET chosen == IF form.date = d THEN NoDate ELSE d
       IN  form' = [form EXCEPT !.date = chosen, !.moved = form.range # NoRange,
                                !.anchor = IF ChipsShown(chosen) THEN @ ELSE NoHour]
    /\ UNCHANGED <<server, page, clock, signedIn, cache, post, pay>>

\* GET availability: hours no live reservation holds, the client's own included.
HeldByMe(d) == UNION {rows[i].start .. (rows[i].end - 1) :
                       i \in {j \in DOMAIN rows : rows[j].date = d /\ rows[j].status # "cancelled"}}
HeldByOthers(d) == IF d \in Dates THEN busy[d] ELSE {}
FreeHours(d) == Hours \ (HeldByOthers(d) \cup HeldByMe(d))

\* useAvailability: fetched when first shown; after staleTime a new mount fetches it again.
AvailabilityAnswered ==
    /\ Picking /\ form.date # NoDate
    /\ IF ChipsShown(form.date) THEN Spend("refetches") /\ cache.free[form.date] # FreeHours(form.date)
                                ELSE UNCHANGED budget
    /\ cache' = [cache EXCEPT !.free[form.date] = FreeHours(form.date)]
    /\ form' = [form EXCEPT !.moved = form.range # NoRange]
    /\ UNCHANGED <<server, page, clock, signedIn, post, pay>>

\* Slip: slice(lo, hi) leaves the last chip out.
RangeHasBusyButLast(lo, hi) == \E h \in lo .. (hi - 1) : h \notin cache.free[form.date]

RangeHasBusy(lo, hi) == \E h \in lo..hi : h \notin cache.free[form.date]

\* handleClick: the first chip anchors one hour, the second makes the range; a range that
\* would cross a taken hour starts again from the second chip.
ClickHour(h) ==
    /\ Picking /\ Spend("clicks")
    /\ ChipsShown(form.date) /\ h \in cache.free[form.date]
    /\ LET lo == IF form.anchor < h THEN form.anchor ELSE h
           hi == IF form.anchor < h THEN h ELSE form.anchor
           alone == form.anchor = NoHour \/ RangeHasBusy(lo, hi)
       IN  form' = [form EXCEPT
                      !.anchor = IF alone THEN h ELSE NoHour,
                      !.range = IF alone THEN [start |-> h, end |-> h + 1]
                                         ELSE [start |-> lo, end |-> hi + 1],
                      !.moved = FALSE]
    /\ UNCHANGED <<server, page, clock, signedIn, cache, post, pay>>

\* Slip: the button is checked against the wrong side of the limit.
ChangeCountPastMax ==
    /\ page = "garden" /\ Spend("edits")
    /\ \/ form.count > 1 /\ form' = [form EXCEPT !.count = @ - 1]
       \/ form.count <= MaxDogs /\ form' = [form EXCEPT !.count = @ + 1]
    /\ UNCHANGED <<server, page, clock, signedIn, cache, post, pay>>

\* The dog counter of the widget.
ChangeCount ==
    /\ page = "garden" /\ Spend("edits")
    /\ \/ form.count > 1 /\ form' = [form EXCEPT !.count = @ - 1]
       \/ form.count < MaxDogs /\ form' = [form EXCEPT !.count = @ + 1]
    /\ UNCHANGED <<server, page, clock, signedIn, cache, post, pay>>

-----------------------------------------------------------------------------
(* From page to page.  Leaving a page forgets its state and drops whoever  *)
(* waits for an answer; the query cache survives unless the page reloads.  *)

Forget == post' = NoPost /\ pay' = NoPay

OpenGarden ==
    /\ page = "away" /\ Spend("leaves")
    /\ page' = "garden" /\ form' = Fresh(NoPrefill, FALSE)
    /\ cache' = [cache EXCEPT !.rate = rate]
    /\ Forget /\ UNCHANGED <<server, clock, signedIn>>

\* A guest is sent to the login page with ?next= the garden; the pick is not kept.
Reserve ==
    /\ page = "garden" /\ form.date # NoDate /\ Length(form.range) > 0
    /\ IF signedIn
       THEN /\ page' = "wizard"
            /\ form' = Fresh([date |-> form.date, range |-> form.range, count |-> form.count],
                             form.moved)
       ELSE page' = "login" /\ form' = Fresh(NoPrefill, FALSE)
    /\ Forget /\ UNCHANGED <<server, clock, signedIn, cache, budget>>

LogIn ==
    /\ page = "login"
    /\ signedIn' = TRUE /\ page' = "garden"
    /\ UNCHANGED <<server, clock, form, cache, post, pay, budget>>

Leave ==
    /\ page # "away" /\ Spend("leaves")
    /\ page' = "away" /\ form' = Fresh(NoPrefill, FALSE)
    /\ Forget /\ UNCHANGED <<server, clock, signedIn, cache>>

\* The wizard starts again from the router's state, the confirmation page from its address.
Reload ==
    /\ page \in {"wizard", "success"} /\ Spend("leaves")
    /\ cache' = EmptyCache(rate)
    /\ form' = Fresh(form.prefill, form.prefill.range # NoRange)
    /\ post' = NoPost
    /\ pay' = IF page = "success" THEN [NoPay EXCEPT !.id = pay.id] ELSE NoPay
    /\ UNCHANGED <<server, page, clock, signedIn>>

-----------------------------------------------------------------------------
(* Step 1.                                                                 *)

DogsAnswered ==
    /\ page = "wizard" /\ cache.dogs # kennel
    /\ cache' = [cache EXCEPT !.dogs = kennel]
    /\ UNCHANGED <<server, page, clock, signedIn, form, post, pay, budget>>

ChooseDog(d) ==
    /\ Step1 /\ d \in cache.dogs /\ d # form.dog
    /\ form' = [form EXCEPT !.dog = d]
    /\ UNCHANGED <<server, page, clock, signedIn, cache, post, pay, budget>>

\* The dialog hangs on the page, not on the step: it may answer after the step has changed.
OpenAddDog ==
    /\ Step1 /\ ~form.adding /\ Dogs # kennel /\ Spend("edits")
    /\ form' = [form EXCEPT !.adding = TRUE]
    /\ UNCHANGED <<server, page, clock, signedIn, cache, post, pay>>

\* The new dog is chosen at once; the list follows when its query has been fetched again.
AddDog(d) ==
    /\ page = "wizard" /\ form.adding /\ d \notin kennel
    /\ kennel' = kennel \cup {d}
    /\ form' = [form EXCEPT !.adding = FALSE, !.dog = d]
    /\ UNCHANGED <<busy, rate, rows, page, clock, signedIn, cache, post, pay, budget>>

Consent ==
    /\ Step1 /\ ~form.consents
    /\ form' = [form EXCEPT !.consents = TRUE]
    /\ UNCHANGED <<server, page, clock, signedIn, cache, post, pay, budget>>

Ready == form.date # NoDate /\ form.range # NoRange /\ form.dog # NoDog /\ form.consents

\* toIso writes the hour of the browser's clock as a point in time; the API reads it by the
\* garden's.
ToIso(d, h) ==
    LET at == h - clock[d].ahead
    IN  [date |-> d + at \div 24, hour |-> at % 24, whole |-> clock[d].whole]

\* Slip: the end of the range is taken for its last hour.
AskedToLastHour ==
    [start |-> ToIso(form.date, form.range.start), end |-> ToIso(form.date, form.range.end - 1),
     dog |-> form.dog, count |-> form.count, phase |-> "sent"]

Asked ==
    [start |-> ToIso(form.date, form.range.start), end |-> ToIso(form.date, form.range.end),
     dog |-> form.dog, count |-> form.count, phase |-> "sent"]

Summary == [date |-> form.date, range |-> form.range, dog |-> form.dog, count |-> form.count]

\* The form stays enabled while the request is on its way; only the button waits.
Proceed ==
    /\ Step1 /\ Ready /\ ~form.adding /\ post.phase = "none" /\ Spend("tries")
    /\ post' = Asked
    /\ form' = [form EXCEPT !.sent = Summary]
    /\ UNCHANGED <<server, page, clock, signedIn, cache, pay>>

\* create_reservation and _validate_window.
HoursAsked == post.end.hour - post.start.hour
Acceptable ==
    /\ post.start.whole /\ post.start.date = post.end.date /\ HoursAsked >= MinHours
    /\ post.start.hour .. (post.end.hour - 1) \subseteq FreeHours(post.start.date)
    /\ post.count \in 1..MaxDogs
    /\ post.dog \in Vaccinated

NewRow ==
    [date |-> post.start.date, start |-> post.start.hour, end |-> post.end.hour,
     dog |-> post.dog, count |-> post.count, rate |-> rate, total |-> Charge(rate, HoursAsked),
     status |-> "pending_payment", hook |-> "none"]

\* The server does its part even if the answer is lost on the way back.
ServePost ==
    /\ post.phase = "sent"
    /\ rows' = IF Acceptable THEN Append(rows, NewRow) ELSE rows
    /\ \/ post' = [post EXCEPT !.phase = IF Acceptable THEN "created" ELSE "failed"]
          /\ UNCHANGED budget
       \/ post' = [post EXCEPT !.phase = "failed"] /\ Spend("losses")
    /\ UNCHANGED <<busy, rate, kennel, page, clock, signedIn, form, cache, pay>>

\* 201: step 2 with this reservation.  Otherwise the message, and the button again.
PostAnswered ==
    /\ post.phase \in {"created", "failed"}
    /\ post' = NoPost
    /\ pay' = IF post.phase = "created" THEN [NoPay EXCEPT !.id = Len(rows)] ELSE pay
    /\ UNCHANGED <<server, page, clock, signedIn, form, cache, budget>>

-----------------------------------------------------------------------------
(* Step 2 and the confirmation.                                            *)

Step2 == page = "wizard" /\ pay.id # 0
Row == rows[pay.id]

SubmitBilling ==
    /\ Step2 /\ pay.intent = "none" /\ Spend("tries")
    /\ pay' = [pay EXCEPT !.intent = "asking"]
    /\ UNCHANGED <<server, page, clock, signedIn, form, cache, post>>

\* start_payment answers for an unpaid reservation only; an error brings the button back.
IntentAnswered ==
    /\ pay.intent = "asking"
    /\ \/ /\ pay' = [pay EXCEPT !.intent = IF Row.status = "pending_payment" THEN "ready" ELSE "none"]
          /\ UNCHANGED budget
       \/ pay' = [pay EXCEPT !.intent = "none"] /\ Spend("losses")
    /\ UNCHANGED <<server, page, clock, signedIn, form, cache, post>>

Pay ==
    /\ Step2 /\ pay.intent = "ready" /\ pay.card = "idle" /\ Spend("tries")
    /\ pay' = [pay EXCEPT !.card = "submitting"]
    /\ UNCHANGED <<server, page, clock, signedIn, form, cache, post>>

\* The bank refuses, or Stripe refuses because this intent has been paid before.
CardRefused ==
    /\ pay.card = "submitting"
    /\ IF Row.hook # "none" THEN UNCHANGED budget ELSE Spend("declines")
    /\ pay' = [pay EXCEPT !.card = "idle"]
    /\ UNCHANGED <<server, page, clock, signedIn, form, cache, post>>

\* Stripe has charged: confirmed here, or by way of the bank's page and return_url, or the
\* answer is lost and the form reports an error.
CardCharged ==
    /\ pay.card = "submitting" /\ Row.hook = "none"
    /\ rows' = [rows EXCEPT ![pay.id].hook = "due"]
    /\ \/ /\ pay' = [pay EXCEPT !.card = "confirmed"]
          /\ UNCHANGED <<page, form, cache, budget>>
       \/ /\ page' = "success" /\ pay' = [NoPay EXCEPT !.id = pay.id]
          /\ form' = Fresh(NoPrefill, FALSE) /\ cache' = EmptyCache(rate)
          /\ UNCHANGED budget
       \/ /\ pay' = [pay EXCEPT !.card = "idle"] /\ Spend("losses")
          /\ UNCHANGED <<page, form, cache>>
    /\ UNCHANGED <<busy, rate, kennel, clock, signedIn, post>>

\* _mark_succeeded.
WebhookArrives(i) ==
    /\ rows[i].hook = "due"
    /\ rows' = [rows EXCEPT ![i].hook = "done",
                            ![i].status = IF @ = "pending_payment" THEN "awaiting_host" ELSE @]
    /\ UNCHANGED <<busy, rate, kennel, page, clock, signedIn, form, cache, post, pay, budget>>

Watching == page = "success" \/ (page = "wizard" /\ pay.card = "confirmed")

\* Slip: the query is asked once, without an interval.
PollsOnce == pay.data = "unknown" /\ pay.misses < 2

\* The first request has one retry; the interval runs only while the last answer is unpaid.
Polls == pay.data = "pending_payment" \/ (pay.data = "unknown" /\ pay.misses < 2)

PollAnswered ==
    /\ Watching /\ Polls
    /\ pay' = [pay EXCEPT !.data = Row.status]
    /\ UNCHANGED <<server, page, clock, signedIn, form, cache, post, budget>>

PollLost ==
    /\ Watching /\ Polls /\ Spend("losses")
    /\ pay' = [pay EXCEPT !.misses = IF pay.data = "unknown" THEN @ + 1 ELSE @]
    /\ UNCHANGED <<server, page, clock, signedIn, form, cache, post>>

Settled == pay.data \notin {"unknown", "pending_payment"}

\* The effect of CardForm: any other status takes the client to the confirmation.
PaidShown ==
    /\ Step2 /\ pay.card = "confirmed" /\ Settled
    /\ page' = "success" /\ form' = Fresh(NoPrefill, FALSE)
    /\ pay' = [NoPay EXCEPT !.id = pay.id, !.data = pay.data]
    /\ UNCHANGED <<server, clock, signedIn, cache, post, budget>>

\* Asked once, when the status is no longer unpaid; its download button follows the answer.
InvoiceAnswered ==
    /\ page = "success" /\ Settled /\ pay.invoice = "none"
    /\ pay' = [pay EXCEPT !.invoice = IF Row.status = "awaiting_host" THEN "shown" ELSE "missing"]
    /\ UNCHANGED <<server, page, clock, signedIn, form, cache, post, budget>>

-----------------------------------------------------------------------------
(* The others.                                                             *)

RivalBooks(d, h) ==
    /\ h \in FreeHours(d) /\ Spend("rivals")
    /\ busy' = [busy EXCEPT ![d] = @ \cup {h}]
    /\ UNCHANGED <<rate, rows, kennel, page, clock, signedIn, form, cache, post, pay>>

HostChangesPrice ==
    /\ Spend("prices")
    /\ rate' \in Rates \ {rate}
    /\ UNCHANGED <<busy, rows, kennel, page, clock, signedIn, form, cache, post, pay>>

Lapse(i) ==
    /\ rows[i].status = "pending_payment" /\ Spend("lapses")
    /\ rows' = [rows EXCEPT ![i].status = "cancelled"]
    /\ UNCHANGED <<busy, rate, kennel, page, clock, signedIn, form, cache, post, pay>>

-----------------------------------------------------------------------------
Init ==
    /\ clock \in Zones
    /\ busy = [d \in Dates |-> {}] /\ rate \in Rates /\ rows = <<>>
    /\ kennel \in {{}, Vaccinated}
    /\ page = "garden" /\ signedIn \in BOOLEAN
    /\ form = Fresh(NoPrefill, FALSE) /\ cache = EmptyCache(rate)
    /\ post = NoPost /\ pay = NoPay
    /\ budget \in Budgets

Next ==
    \/ \E d \in Dates : PickDate(d)
    \/ AvailabilityAnswered
    \/ \E h \in Hours : ClickHour(h)
    \/ ChangeCount \/ OpenGarden \/ Reserve \/ LogIn \/ Leave \/ Reload
    \/ DogsAnswered \/ OpenAddDog \/ Consent
    \/ \E d \in Dogs : ChooseDog(d) \/ AddDog(d)
    \/ Proceed \/ ServePost \/ PostAnswered
    \/ SubmitBilling \/ IntentAnswered \/ Pay \/ CardRefused \/ CardCharged
    \/ \E i \in DOMAIN rows : WebhookArrives(i) \/ Lapse(i)
    \/ PollAnswered \/ PollLost \/ PaidShown \/ InvoiceAnswered
    \/ \E d \in Dates, h \in Hours : RivalBooks(d, h)
    \/ HostChangesPrice

Spec == Init /\ [][Next]_vars

\* Stripe delivers its webhooks, the interval keeps asking, React runs its effects.
Fairness ==
    /\ \A i \in 1..4 : WF_vars(i \in DOMAIN rows /\ WebhookArrives(i))
    /\ WF_vars(PollAnswered) /\ WF_vars(PaidShown)

FairSpec == Spec /\ Fairness
=============================================================================

------------------------- MODULE WizardProperties --------------------------
(* What booking promises to the client who walks through it.               *)
EXTENDS BookingWizard

\* Every variable stays in its domain; the dogs asked for fit the garden.
WizardTypeOK ==
    /\ clock \in Zones
    /\ busy \in [Dates -> SUBSET Hours] /\ rate \in Rates /\ kennel \subseteq Dogs
    /\ rows \in Seq(RowType)
    /\ page \in {"away", "garden", "login", "wizard", "success"} /\ signedIn \in BOOLEAN
    /\ form \in FormType /\ form.count \in 1..MaxDogs
    /\ cache \in CacheType
    /\ post \in PostType
    /\ pay \in PayType /\ pay.id \in 0..Len(rows)
    /\ budget \in BudgetType

\* "A range never spans a busy slot" (TimeRangePicker.tsx:34): whatever was clicked before,
\* on this day or another, a pick is whole hours that were all shown free when it was made.
\* A later change of the date or of the hours does not reopen the pick.
PickedRangeIsFree ==
    Picking /\ form.range # NoRange /\ ~form.moved =>
        /\ HoursOf(form.range) # {}
        /\ HoursOf(form.range) \subseteq cache.free[form.date]

\* The reservation being paid in step 2 is the one the summary showed when the client went on
\* to pay, whatever is changed in the form, booked by others or repriced while the request is
\* under way: its dog, its dogs, its length and its total to the grosz of a binary half, at
\* the price the page was loaded with - and, where the browser runs on the garden's clock, its
\* day and hours (BookingWizardPage.tsx proceed and toIso, OrderSummary.tsx against
\* services.py create_reservation).
OnTheGardensClock(d) == clock[d] = [ahead |-> 0, whole |-> TRUE]
ConfirmedIsReserved ==
    Step2 =>
        /\ Row.dog = form.sent.dog /\ Row.count = form.sent.count
        /\ Row.end - Row.start = Length(form.sent.range)
        /\ OnTheGardensClock(form.sent.date) =>
             <<Row.date, Row.start, Row.end>>
               = <<form.sent.date, form.sent.range.start, form.sent.range.end>>
        /\ Row.rate = cache.rate =>
             \A quote \in Quotes(cache.rate, Length(form.sent.range)) :
                 quote \in (Row.total - 1)..Row.total

\* A confirmed card takes the client to the confirmation, and the confirmation page tells
\* the outcome of a charge, however late the webhook - unless the client leaves or the first
\* poll fails with its retry, after which there is no interval (booking/api.ts:63).
ConfirmedReachesSuccess ==
    /\ (Step2 /\ pay.card = "confirmed") ~> (page # "wizard" \/ pay.card # "confirmed" \/ pay.misses = 2)
    /\ (page = "success" /\ Row.hook # "none") ~> (page # "success" \/ Settled \/ pay.misses = 2)
=============================================================================

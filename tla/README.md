# PSI-park, specified

PSI-park lets dog owners book private gardens by the hour. A Django backend keeps the
bookings, Stripe takes the money, a React client drives both. This directory holds TLA+
modules of the parts where the program's correctness is decided, TLC configurations that
check them on small instances, and proofs checked by TLAPS.

Paths are relative to the repository root; `reservations/services.py` and the like are
under `src/backend/apps/`.

Sections: [inventory](#1-inventory), [modules](#2-modules), [runs](#3-runs),
[proofs](#4-proofs), [divergences](#5-where-the-code-and-its-documents-disagree),
[left out](#6-left-out), [plan](#7-plan).

## 1. Inventory

| Part | State | Operations | Talks to |
|---|---|---|---|
| reservations | `Reservation` rows: window, status, `expires_at`, `paid_at`, `decided_at`, `cancelled_at` | create, accept, reject, cancel, sweep of stale holds, overlap query | payments (refund), notifications, gardens (row lock) |
| payments | `Payment` row per reservation, status, intent id | start payment, webhooks succeeded / failed / refunded, refund if paid | Stripe, reservations (`transition`), invoices, notifications |
| Stripe (external) | intent: open, paid, refunded | charge, decline, refund, deliver events late, again, out of order | payments through its webhook |
| invoices | `Invoice`, one counter row per month | issue, allocate a number | called inside the webhook's transaction |
| gardens | garden, photos, availability grid | create, edit (reverts to pending), delete or deactivate, photo limit and order | adminpanel, reservations |
| adminpanel | verification status of gardens and hosts, blocked users | approve, reject, verify, block, delete review | gardens, accounts, reviews |
| reviews | one per author and garden | create, update, delete, eligibility | reservations (finished stay) |
| chat server | conversations, messages, read stamps; a socket per tab | open, send, read; broadcast; throttle; history pages | accounts |
| chat client | message list, socket, reconnect and typing timers, history requests | load, load older, append live frames, mark read, reconnect | chat server |
| accounts | users, refresh tokens, blacklist, reset links | login, register, refresh, password reset, profile, deactivate | every part |
| web client: session | access and refresh tokens in two stores, the signed-in user of each tab | bootstrap, attach, single-flight refresh, retry once, logout, guards | accounts |
| web client: booking wizard | day and hours picked, form, intent, polling | pick, create, pay, poll until paid | reservations, payments, Stripe.js |
| web client: panels | the query cache, open dialog, mutations under way | fetch, invalidate, mutate | every service |
| dogs, notifications, core | dog rows; mails sent inside transactions; error envelope | CRUD, send | reservations |

What is hard:

* **Two sources of truth for money.** The ledger is moved by webhooks, which come late,
  twice, after a younger one, or after the booking they pay for is gone; a refund leaves
  the system before the transaction that records it commits.
* **A clock nobody watches.** Holds run out without a scheduler. Expired rows stay
  `pending_payment` until a sweep that somebody has to run; until then the overlap query
  ignores them and the webhook does not.
* **Row locks across joined statements.** Every operation relies on which rows its first
  `SELECT ... FOR UPDATE` locks, including those it locks only because they are joined.
* **Numbers that may not repeat and may not skip**, allocated by transactions that may be
  rolled back after allocating.
* **State on both sides of an await** in the client: token refresh against logout, chat
  history against live frames, an availability against the clicks made on it, a form
  against the request made of it.
* **Copies.** One row is shown under many keys of the query cache; each mutation lists by
  hand which of them it outdates.

What makes each part correct:

* reservations: entitled windows never overlap, paid windows never overlap, statuses move
  along the edges of the state machine, every hold ends.
* payments: the ledger never claims money Stripe did not move, owed refunds are made,
  repeated events are harmless, every charge reaches the ledger.
* invoices: exactly the bookings admitted as paid are invoiced, numbers 1..n per month.
* gardens, adminpanel, reviews, dogs: a gallery holds a photo once and outgrows its limit by
  no more than the uploads under way together; a page offers nothing the service refuses, and
  shows what its user has just changed.
* chat: what is stored is shown once and in the order of each connection, and gets its read
  stamp once shown; the connection comes back.
* session: a tab acts as the account it shows; a session is lost only when its refresh is
  refused; a logout stays a logout.
* wizard: what is picked was free, what is paid is what was summed up when the client went on
  to pay, and paying leads to the confirmation.

`PROJECT.json` lists the hazards one by one, at the lines where they bite.

## 2. Modules

| Module | Role |
|---|---|
| `BookingRules` | rules over one or two rows and the clock: windows that may be asked for, who holds a window, state machine edges, refund policy |
| `Booking` | the backend's booking life as atomic transactions, with Stripe and the clock around them |
| `BookingProperties` | invariants, action properties and liveness of `Booking`; the mapping to `SlotContract` |
| `SlotContract` | abstract: cells of garden time are held, occupied by one, left for good |
| `BookingTransactions` | the same operations taken apart into lock, decide and commit steps of concurrent transactions |
| `TransactionsProperties` | what the locks are there for; the mapping to `SlotContract` |
| `NumberDispenser` | abstract: one counter per month |
| `InvoiceNumbering` | the statements of `_next_number` in concurrent transactions, and their properties |
| `ChatRoom` | one conversation: the consumer and the history view, and the hook with its socket, timers and requests |
| `ChatProperties` | what the thread promises to who looks at it |
| `Session` | tabs of one browser, their tokens, the axios interceptors, guards and forms, and the account services behind them |
| `SessionProperties` | what the session promises to its user |
| `BookingWizard` | the booking widget, the wizard and the success page, with the API and Stripe behind them |
| `WizardProperties` | what booking promises to the client |
| `PanelHooks` | every query and mutation of the panels as an operator over the rows: its key, its answer, what the service does, what it invalidates |
| `Panels` | the query cache and the pages over it |
| `PanelsProperties` | what the panels promise to their users |
| `MC...` | values of the constants for TLC |
| `BookingProofs` | theorems about `Booking`, its refinement of `SlotContract` among them |
| `TransactionsProofs`, `TransactionsRefinement` | theorems about `BookingTransactions`: the window is promised once; which rows a request holds; what follows for money, deadlocks and the contract |
| `InvoiceNumberingProofs` | theorems about `InvoiceNumbering` |
| `ChatProofs` | theorems about `ChatRoom`: the list of a thread |
| `WizardProofs` | theorems about `BookingWizard`: the pick and the summary |
| `SessionProofs` | theorems about `Session`: whom a tab acts for, which tokens it holds, what ends a session |
| `PanelsProofs` | theorems about `Panels`: what counts as fresh, what a service refuses |

The modules meet in the contract between the layers rather than in one product:
`SlotContract` is implemented by `Booking` and by `BookingTransactions`, which is why the
others may take a booking as one step; `NumberDispenser` is what `Booking` uses for the
invoices and `InvoiceNumbering` implements; the client modules take the services as the
atomic steps these justify.

### Booking and the code

`rows[r]` is the `Reservation` row with primary key `r`; `payment[r]` is the status of its
payment (`"none"` before `start_payment`); `charge[r]` is what Stripe
knows; `invoice[r]` and `last_number` are the invoice and the counter; `bookable` are the
gardens that are approved and active; `now` is the backend's clock.

| Action | Code |
|---|---|
| `CreateReservation` | `create_reservation`, with `_validate_window`, `_validate_dogs_count`, `_validate_dog_health`, `has_collision` |
| `AcceptReservation`, `RejectReservation`, `CancelReservation` | the services of the same names, through `transition` and `refund_if_paid` |
| `RejectRolledBack`, `CancelRolledBack` | the same, failing after `gateway.refund`: only Stripe moves |
| `ExpirePendingReservations` | the sweep command, one transaction over all stale rows |
| `StartPayment` | `start_payment`, with the idempotency key of the intent |
| `MarkSucceeded`, `MarkFailed`, `MarkRefunded` | the handlers of `handle_webhook`; admission runs `transition`, the exclusion constraint and `generate_invoice` |
| `CardCharged`, `Tick`, `ModerateGarden` | the environment |

A call that raises changes nothing and is no step. A webhook whose handler raises is
answered 500 and delivered again, which is the action staying enabled. Time passes only
between transactions; `BookingTransactions` is there to drop that assumption.

Money amounts, names, messages, mails and the PDF are not modelled; the mail matters only
in that it can fail, and that is a rollback. Time is counted in ticks; `Hour` and `Day`
say how many make an hour and a day, so that opening hours, whole hours and "same day"
are the arithmetic of the code.

### BookingTransactions and the code

A request is `Begin`, one `Lock` per row of its first statement, `Decide` (or `Refuse`),
one `Lock` per row of later statements, `Refund` if Stripe is asked, and `Commit`; at any
point it may `RollBack`. `holder` is the lock table. Which rows are locked is read off the
querysets:

| Request | First statement | Later |
|---|---|---|
| create | garden | client (reference checked at commit) |
| start payment | reservation | payment, if any |
| webhook | payment, reservation, client and garden (joined) | |
| accept, reject, cancel | reservation, client and garden (joined) | payment, if a refund is due and it has succeeded |
| sweep | stale reservations, one after the other | |

The order of the joined rows is Django's and does not show in the source, so it is the
constant `ClientFirst`; the run uses what Django 5.2 compiles. The row of the host, which
is joined as well, is always locked together with the garden and is left out, as are the
dog and the invoice counter (`InvoiceNumbering` has that one).

A failed payment counts as an unpaid one. There is no clock: `lapsed` grows at any moment, also between a look at the clock and the
commit that relies on it. All reservations ask for the same window of the same garden,
which is where the locks matter.

### InvoiceNumbering and the code

`Begin` reads the clock; `GetSequence`, `CreateSequence` are the two halves of
`get_or_create` with the unique constraint between them; `LockAndBump` is `SELECT ... FOR
UPDATE` and the bump; `Commit` and `RollBack` end the webhook's transaction. One
transaction per reservation at a time, because the webhook has locked its payment row.
Month stands for year and month together.

### ChatRoom and the code

`origin` and `readAt` are the `ChatMessage` rows (`origin[m]` is the connection that brought
message `m`), `pending` the frames consumers have still to broadcast, `up` what this tab sent
over any of its connections, `ws` its socket with the frames on their way down, `hook` the state
of `useChatSocket` (`messages`, `status`, `loadingHistory`, ...), `fetches` the history requests
in flight. One tab of one participant is modelled in full; the other tabs of both are seen
through what their consumers do. Every connection has a consumer of its own, which finishes one
frame before it takes the next (`Busy`); two consumers interleave between storing and
broadcasting, whoever's they are, and so does the consumer of a connection this tab has lost.

| Action | Code |
|---|---|
| `Receive`, `PeerSend`, `PeerRead`, `PeerType`, `FinishHandler` | `receive_json` of `chat/consumers.py`: store, then broadcast, as two steps |
| `Handshake` | `connect`, which closes with 4401 for a stale token |
| `AnswerHistory`, `AnswerPost` | `MessageHistoryView`, `ConversationReadView` |
| `OpenThread`, `LeaveThread` | mount and cleanup of the hook |
| `OnOpen`, `OnClose`, `Reconnect` | the socket's callbacks and the timer, which asks for the history and opens a socket in one turn |
| `HistoryArrives`, `HistoryFails`, `LoadOlder` | `loadInitial`, `loadOlder` (which marks nothing as read) |
| `HandleFrame`, `TypingTimeout` | `handleFrame` and the typing timer |
| `Submit` | `MessageComposer` and `sendChatFrame` |
| `Drop`, `TokenExpires`, `FailPost` | the network |

Three fields of `hook` are history and decide nothing: `overlapped` (two first pages of one
mount were in flight at once, so the older answer may come last), `straggled` (an echo was
appended that is older than the page it stands behind: it was on its way while a whole page of
newer messages was written) and `upTo`, which serves to define the latter. In both cases the
list may lose its order, which no document rules out; nothing else can end it.

### Session and the code

`owner`, `valid`, `active`, `profile`, `links` are the server's tables; `local` is the
refresh token in `localStorage`, which all tabs share; `tab[t]` is what one tab holds in
memory and `sessionStorage`; `calls` are requests in flight, each with its phase.

| Action | Code |
|---|---|
| `Send` forms (`SubmitLogin`, `SubmitProfile`, `Logout`, ...) | the pages of `features/auth` and `features/account`, `AuthContext` |
| `Serve...` | `accounts` views and services, SimpleJWT with rotation and blacklist |
| `BeginRefresh`, `JoinRefresh` | the response interceptor of `client.ts`: one promise for all |
| `RefreshSucceeds`, `RefreshFails`, `RetryFails` | what happens to those who waited |
| `SignInAnswered`, `BootstrapAnswered`, `SaveAnswered`, `LogoutAnswered`, ... | the callbacks |
| `Guarded` | `RequireRole`, evaluated at every change of a tab |
| `Reload`, `OpenTab`, `Expire`, `Block`, `Refuse`, `Lose` | the environment |

`crossed` marks a tab whose identity traffic overlapped (a login while a refresh is under
way, an account changed by another tab); its screen may then lag behind the stores.

### BookingWizard and the code

`busy`, `rate`, `rows`, `kennel` are on the server; `form` is what is entered, `cache` what was
last answered, `post` the POST of the reservation, `pay` step 2 and the polling.

| Action | Code |
|---|---|
| `PickDate`, `ClickHour`, `ChangeCount` | `BookingWidget`, `TimeRangePicker`, the calendar |
| `AvailabilityAnswered` | the free hours of a day (`gardens/selectors.py`) |
| `Reserve`, `LogIn`, `Leave`, `Reload` | the way into the wizard and out of it |
| `ChooseDog`, `AddDog`, `Consent`, `Proceed` | step 1 |
| `ServePost`, `PostAnswered` | `create_reservation` and its callback |
| `SubmitBilling`, `IntentAnswered`, `Pay`, `CardRefused`, `CardCharged` | step 2 and Stripe.js |
| `PollAnswered`, `PollLost`, `PaidShown`, `InvoiceAnswered` | the poll until the webhook has moved the row; `SuccessPage` |
| `RivalBooks`, `HostChangesPrice`, `Lapse`, `WebhookArrives` | everybody else |

The chips show hours of the garden, `ToIso` reads them by the browser's clock (`toIso` in
`BookingWizardPage.tsx` builds a local time), and the server reads the moment in Europe/Warsaw:
`clock[d]` is the difference on day `d`, in hours and perhaps a part of one, so that a pick may
reach the server as another hour, another day, or as a moment it refuses because it is not on
the hour. `form.sent` remembers what the summary showed when the client went on to pay.

Money is in grosze, and what the client computes with binary floating point is the set
`Quotes`: both neighbours when the exact half may be rounded either way.

### PanelHooks, Panels and the code

One reservation, review, dog, garden with photos and account stand for the tables.
`log` holds these rows after every write, so that an answer is the number of the write it
was served at. Each hook of the `api.ts` files is an operator of `PanelHooks` named like it:
a query with its key and answer, a mutation with the rows the service may leave and the
keys it invalidates. `Panels` has the pages (what each asks, offers and opens), the cache
of TanStack Query as these pages use it (`Mounting`, `FetchAnswered`, `FetchFails` with one
retry, `Invalidated`, `Age` for `staleTime`) and the life of a mutation (`Press` or `Confirm`,
`ServeCall`, `CallSucceeds`, `CallSettles`, `CallFails`). `Elsewhere` is another session.

A button that is not disabled while its mutation is pending (`NeverDisabled`: the photos of a
garden, verifying, unblocking) may have up to `Clicks` calls under way, as when several files
are dropped at once (`PhotoManager.tsx`). An upload counts the photos in one step
(`CountPhotos`) and inserts in another (`ServeCall`), as `add_garden_photo` does, with no lock
between. Two queries make two rounds of requests (`InTwoSteps`: the list of the host's gardens and then
each garden's detail, the completed stays and then their gardens' reviews): `ServeList` is the first round, and
what may change between the rounds fails the whole list (`Found`) or makes the answer as old as
its first round (`OldList`). Rows of reservations carry the dog's name and the garden's title
as the serializers do, which other mutations change.

`Forgotten` names the lists a mutation does not invalidate although they show what it
writes; it is an exception of the property, not of the model.

## 3. Runs

| Run | Shows |
|---|---|
| `booking_safety` | `TypeOK`; no two entitled windows overlap; no two paid windows overlap; ledger backed by Stripe; owed refunds made; invoices number the paid bookings; a repeated webhook moves no reservation; `Booking` implements `SlotContract`; every charge reaches the ledger, even one the exclusion constraint first refuses; every hold ends |
| `transactions` | with two requests interleaved between any two locks: the window is entitled to one; nobody leaves `awaiting_host` unrefunded except by confirmation; circles of waiting requests about one reservation always contain a webhook; `SlotContract` is still implemented |
| `invoice_numbering` | no number is shared or skipped; the transactions act as one counter per month; no webhook waits for the counter for good |
| `chat_room` | no message is listed twice and each connection's keep their order; the connection comes back; the typing note clears; what a first page or an echo lists gets its read stamp |
| `session` | a tab acts as the account it shows; the refresh token kept is one the server accepts; only a dead session is lost; a saved profile is shown; nothing waits for ever; logouts end the session |
| `wizard` | picked hours were free; the reservation paid for is the one the client confirmed; a confirmed card leads to the confirmation |
| `panels` | what the user changed is shown; only what changed meanwhile is refused; every spinner ends but one that is named |
| `booking_redelivery`, `booking_late_payment`, `booking_stranded_charge`, `chat_missed`, `session_lost` | five statements of the documents and comments the code does not keep (section 5) |

Bounds of `booking_safety`: two reservations, one garden open for two hours (ticks 1 to
3), the clock from 0 to 3, a hold of one tick, free cancellation up to one tick before
the start, requests for the whole window and for its touching halves, and one request
each that must be refused for the hours, the dogs and the vaccination. Two rows are
enough for a property that relates two rows; one tick of hold is enough for a row to be
live, expired, swept and paid late before the window begins; three ticks leave a
cancellation on time, exactly at the limit and too late. The liveness properties are checked
on the same states.

Bounds of `transactions`: two requests at a time over two reservations of one client.
Every property is about two requests that meet; that more of them change nothing is
proved (section 4).

Bounds of `invoice_numbering`: three webhooks and two months: two of them race for the
first row of a month while a third takes a number of the next one.

Bounds of the client modules. Their behaviours have a *budget*: how often the user may do
each thing and how often each fault may strike. A run starts from a set of budgets, each
trying a few kinds of trouble together, so that no single behaviour needs them all. The
budgets bound what people and networks do, never what the program does in response.

* `chat_room`, `chat_missed`: one thread, pages of two messages (`PageSize`, 30 in the
  code), two history requests in flight (`MaxAsks`), this tab, another tab of its user and two
  of the other participant. The starts include a thread that is found with an unread message
  below a page of one's own, three connections that write at once, two typing frames whose
  timers overlap, a second visit, an expired token and a failed request.
* `session`, `session_lost`: a client and a host, two tabs, three requests of a tab in flight
  (`MaxCalls`): one that fails, one that joins the refresh, one that is lost. `session_lost`
  needs one tab and one request that is refused after its refresh.
* `wizard`: one garden open for three hours on two days, two hours at least and two dogs at
  most, two dogs of which one is vaccinated, two prices, one of which makes the fee end
  in half a grosz, and three clocks of the browser: the garden's, one an hour behind on one
  day, one half a day behind on one day and off the hour on the other.
* `panels`: sixteen starts of client, host and admin, galleries of two photos instead of
  twelve, two calls of one hook at once where nothing disables its button (`Clicks`), one or
  two changes of one's own, one of somebody else, two lost answers (the retry included).

`CHECK_DEADLOCK FALSE` appears where a behaviour may really end: in the numbering when
every invoice is issued, in the client modules when the budget is used up and everything
under way has come to rest. Elsewhere TLC also checks that no state is stuck.

Exceptions built into properties, all of them things the code visibly does: a thread with
two first pages in flight (`overlapped`) or with an echo a page late (`straggled`), a message
only `loadOlder` listed (`older`), a tab whose identity traffic overlapped (`crossed`), a
retried request that fails again (in `LosesOnlyADeadSession`; `session_lost` shows that this is
against the comments), a browser on another clock (of the reservation only its length, price
and dog are promised then), a range kept over a change of the day (`moved`), a first poll that
failed with its retry (`misses = 2`), the lists in `Forgotten`, uploads counted together, which
may exceed the limit of the gallery, a dog's deletion, which its page offers without
knowing of its reservations, a garden saved from a form that never loaded, a detail modal whose
load failed (`SpinsForEver`), and an invalidation during a fetch it did not restart (`raced`: a
first load, or a query no longer on the page).

### Fairness

* `WF(Tick)`: time passes.
* `WF(ExpirePendingReservations)`: the sweep command is run again and again. The repository
  has no scheduler (AD-11 in `src/docs/decisions.md` leaves it to be run by hand or
  cyclically), so this is an assumption on the operation, and `HoldsEnd` fails without it.
  So does `ChargeReachesTheLedger`: a late payer the constraint refuses stays refused
  until somebody ends the expired hold.
* `WF(MarkSucceeded(r))`: Stripe delivers an event until it is acknowledged.
* `SF(Transact(r))` in the numbering: PostgreSQL queues those who wait for a row. Strong,
  because a row that is waited for is free and taken again by others in between.
* In the client modules `WF` of what the server does with a request it has received, of
  what the browser does with an answer, a frame or an elapsed timer, and of Stripe's
  webhook. No fairness for users, for losses, or for the expiry of anything.

## 4. Proofs

All theorems hold for every set of reservations, gardens, clients, requests, processes,
months, accounts and tabs, every opening hour, every TTL and every order of the joined locks,
every page size, price, number of dogs and photo limit, and for every budget; they assume only the ASSUMEs of the modules
(`TimeUnits`, `BookingAssumption`, `NumberingAssumption`, `TransactionsAssumption`,
`ChatAssumption`, `WizardAssumption`, `SessionAssumption`, `MaxPhotosAssumption`,
`ClicksAssumption`, `StartsAssumption`: `Nobody` is none of the others, reservations are finitely many and each has
a client, hours, page sizes, prices, the photo limit and the calls at once are numbers, a behaviour of the panels
starts from rows the services may have left), which TLC evaluates on the instances. Every inductive invariant was an invariant of a TLC run first.

About `Booking`:

* `BookingProofs!TypeCorrect`.
* `EntitledWindowsDisjoint`, `CommittedWindowsDisjoint`. `EntitledNeverOverlap` is not
  inductive: one needs that a hold expires exactly `TTL` after it was made, that
  `paid_at` is never before `created_at`, and that rows which do not exist hold nothing
  (`RowsInv`, one statement about one row). A step is then sorted by how it changes a row
  (`RowSteps`): nobody becomes entitled except by creation, where `HasCollision` looks at
  all of them, or keeps the claim it had (`ClaimsShrink`).
* `LedgerBackedByStripe` and `OwedRefundsMade` from `Backed`, which ties status, payment
  and charge of one reservation together. It says in particular that `awaiting_host` and
  `confirmed` imply a charge, which is what makes the refund at Stripe possible when it is
  owed.
* `InvoicesGapFree`, `RedeliveryHarmless`.
* `BookingImplementsSlotContract`: `Spec => KeepsSlotContract`, each
  action mapped to a step of the contract or to a stutter. A tick may end several holds
  at once, which is why `Lapse` takes a set.

About `BookingTransactions`, for any number of requests at once:

* `TransactionsProofs!TransactionsTypeCorrect`, `WindowPromisedOnce`. `EntitledOnce` says
  nothing of transactions, so the invariant has to: whoever may make somebody entitled
  holds the row of the garden from before it looked until it commits (`GardenLocked`), so
  what it saw is still so (`CreateSees`, `WebhookSees`). This is where the garden joined to
  the webhook's statement is needed, though the webhook never reads it.
* There too `StaysLocked`: a request holds the reservation it decides on
  from its first statement on, a webhook its payment too, a sweep all it has found, and a
  request that owes a refund the payment before it asks Stripe.
* `TransactionsRefinement!LeaversRefunded`, `CirclesHaveAWebhook`,
  `TransactionsImplementSlotContract`. The invariant `RInv` adds what every request relies
  on (`Sees`) and that the three records of a reservation agree (`Ledger`). The argument
  is rely and guarantee: a step writes only rows its own request has locked
  (`WritesItsOwn`), hence leaves to the others what they have seen (`OthersStillSee`). A
  circle without a webhook is impossible because whoever is waited for holds something,
  the first thing all others lock is the reservation, and only one can hold it.

About `InvoiceNumbering`:

* `InvoiceNumberingProofs!NumberingTypeCorrect`, `NumbersNeverShared`, `InvoicesGapFree`,
  `NumberingImplementsDispenser`. The invariant says that a transaction that holds a
  number holds the row of its month, that its number is the committed counter plus one,
  and that the committed invoices of a month are exactly 1..`sequence`.

About `ChatRoom`:

* `ChatProofs!ChatTypeCorrect`, `ListedOnceInOrderTheorem`. The hook drops an echo it has
  already, but puts a page into the list without looking. That this never doubles or
  misplaces a message is a fact about everything on its way at once, for any number of
  connections and any backlog. Of each connection, the frames still to be broadcast and those
  in the socket are in the order of its rows (`WayInOrder`; nothing of the kind holds between
  connections); a page is a contiguous run of rows that ends at its cursor (`PagesFit`), an
  older one asked for by this list is the one in front of it, and a first page asked for later starts no lower
  than the list does now (`RequestsFit`, with `Reach`, the oldest row the list has come to);
  the cursor is a whole page below the newest row (`CursorFits`). From these, whatever is
  listed is at or above `Reach`, and of what is newer than the first page's last message
  (`upTo`) everything its connection still has on the way is newer yet (`ListFits`, `Ahead`):
  an echo goes to the end, and a page to the front. An echo at or below `upTo` that the page
  does not hold is the straggler the property excepts.

About `BookingWizard`:

* `WizardProofs!WizardTypeCorrect`, with `WizardFlow`: a request is under way on the first
  step of the wizard only, a payment has a row.
* `PickedRangeIsFreeTheorem`. The property speaks of the picker on the screen; it is
  inductive without that restriction (`PickIsFree`), because every action that replaces the
  hours or the date either clears the range or marks it as `moved`.
* `ConfirmedIsReservedTheorem`. `SummaryFlow` follows what was confirmed through the request
  (`AskedAsConfirmed`) and the row (`AsConfirmed`) back to the page, past whatever is edited
  meanwhile. `ToIso` moves both ends of the range by the same difference, so the length
  survives any clock and the hours survive the garden's own; a moment off the hour is refused
  (`NewRowAsConfirmed`). The fee of the summary is computed in binary floating point and the
  total of the row in decimals: that they differ by a grosz at most is `QuotesAreWithinAGrosz`,
  for every price and length.

About `Session`, for any number of tabs, accounts and requests in flight:

* A step is first sorted by what it does to tabs and requests (`StepKinds`): an answer on its
  way (`Reply`), a page loaded anew (`Starts`), a token that runs out, or a step of one tab
  (`Acts`), which parks a request, renews the tokens, signs in or off, learns who it is, or only
  moves. The invariant is then preserved once per kind, not once per action.
* `SessionTypeCorrect`, `SessionActsAsShown`. That the screen and the tokens agree is a fact
  about every request on its way: in a tab whose traffic has not crossed, a refresh is for the
  account held (`RefreshFits`), the requests of an account signed in carry its token
  (`ShownFits`), none is on its way when nobody is (`NobodyFits`), and a tab that asks who it is
  asks nothing else (`AskingFits`). One refresh at a time, and nobody waits without one, is
  `TabFits`; a closed page's late answers are kept apart there as well.
* `SessionHeldIsAccepted`. A refresh token on its way to a tab is nowhere else yet, and no request
  under way would revoke it (`NewTokens`, `CallFits`); an answer that revokes anything else
  belongs to the tab itself (`Told`), so `HeldAccepted` needs no request but its own.
* `SessionSavedIsShown`, from `SavesFit`: the profile answered after a save is read after it.
* `SessionLosesOnlyADeadSession`, an action property: a refresh refused was sent with the token
  the tab still holds (`RefreshesHeld`), which therefore was dead already.

About `Panels`, for any rows to start from and any number of visits, mutations and losses:

* `PanelsShowMyOwnWrites`. A write is nothing but a difference between two rows of `log`, so
  the proof first says what an operator of `PanelHooks` may write (`RowsRewritten`: a mutation
  of stays, reviews, dogs, gardens or accounts touches those fields only) and what a query reads
  (`SameAnswer`); whatever reads what a mutation writes is under a prefix it invalidates, or in
  `Forgotten` (`WritesAreCovered`, the pairs one by one). The invariant about one entry of the
  cache (`EntryFits`) then has to say more than the property: what is fetched again or failed is
  stale, and a fetch under way that no invalidation raced was served at or after the last
  write. `InvalidatedFits` is the heart: once invalidated, an entry is up to any write.
* `PanelsRefuseOnlyWhenBehind`, an action property. A mutation remembers which write its page
  had seen (`CallFits`, `BoxFits` for a dialog still open), and of those rows its service would have
  accepted it (`Allowed`). For every page there is a lemma that what it offers is so
  (`PageOffers`), and one lemma about the services (`ServicesAccept`), which decide on the rows
  as they are or, an upload, as they were counted (`Basis`). Three refusals are excepted
  (`Excused`), each because its page does not read what the service asks.
* `PanelsTypeCorrect` includes that galleries stay injective and exceed their limit by the
  uploads under way together at most. `GalleryFits` is the invariant behind it: the photos there
  are and the uploads that have counted and not yet inserted (`Uploading`) are no more than
  `MaxPhotos + Clicks`, so none that inserts goes beyond. The rest are lemmas about appending to, removing from and turning a sequence (`GalleryGrows`,
  `GalleryShrinks`, `GalleryTurns`).

Only model-checked: the liveness properties (fairness is out of the prover's reach).

## 5. Where the code and its documents disagree

1. **A repeated webhook after a refund.** `handle_webhook` promises that "each handler is
   a no-op once the payment already holds the target status"; a `succeeded` event that is
   delivered again after the refund finds `refunded`, and writes `succeeded`. The
   reservation does not move (`RedeliveryMovesNoReservation` holds); the ledger does.
2. **A late payer and a live hold.** PLAN 7.4.2 forbids two holders of a window, unexpired
   holds included. A payment for an expired hold that no sweep has ended is admitted, over
   the hold of whoever took the window since. (Two *paid* bookings never overlap.)
3. **Money for nothing.** Who cancels a hold while the card is being charged has paid for a
   cancelled booking, and no code path refunds it; AD-5 and the plan promise a full refund
   for a cancellation before the host's decision.
4. **A message between two chairs.** "Auto-reconnect, then refetch history to catch anything
   missed" (`useChatSocket.ts`): the history is asked for while the socket is still
   connecting. What is written after the history was answered and before the consumer
   joined its group is in neither, and stays invisible until the next connection.
5. **A living session signed out.** `client.ts` says of a 401: "if the refresh fails, clear
   the session and notify the app" (lines 15-16), and calls its handler "when the refresh token
   is missing/invalid" (lines 42-44). The `catch` covers the request made again after the
   refresh as well: if that is lost or refused for a reason of its own, the session just
   renewed is thrown away, with a refresh token the server would still accept.

Seen on the way, and not stated as runs:

* `reject_garden` expects a significant edit to send a rejected garden back to the queue;
  `update_garden` reverts approved gardens only (`adminpanel/services.py:73`,
  `gardens/services.py:27`).
* The first refresh of a session that was not to be remembered writes its token to the
  persistent store (`shared/api/client.ts:58` against `shared/auth/tokens.ts:9`).
* `SuccessPage` takes any status but `pending_payment` for a success, also a booking
  cancelled or expired meanwhile; and if its first poll fails it stops polling.
* Own changes not shown for the minute of `staleTime` (`Forgotten` in `PanelsProperties`):
  accepting or rejecting refreshes neither the schedule nor an opened reservation; changing
  photos not the host's list of gardens; renaming a garden not the host's reservations and
  schedule, nor renaming a dog the reservations that name it; changing dogs not the list the
  wizard shows; booking not the client's reservations; verifying a host not the badge in the
  queue of gardens.
* Any refetch of a garden refills its edit form, over unsaved changes; and if the garden could
  not be loaded at all, the form is shown blank, and saving it overwrites the garden
  (`GardenFormPage.tsx:138-160`).
* `ReservationDetailsModal.tsx:29` and `HostReservationDetailsModal.tsx:31` show a spinner while
  there is no data, also when the load has failed: it spins until the modal is closed.
* Photos dropped together are uploaded side by side (`PhotoManager.tsx:27-32`), each counted
  before the others are inserted (`gardens/services.py:83`): the gallery may exceed its limit,
  and two photos may get one position.
* `loadOlder` marks nothing as read: an unread message that only an older page shows stays
  unread until the other side writes again.
* Two first pages in flight, or an echo a page late, put messages of the thread out of order.
* `toIso` (`BookingWizardPage.tsx:24-27`) reads the garden's hours by the browser's clock, while
  the server books in Europe/Warsaw (AD-15): a client elsewhere books other hours than those
  picked, or is refused.
* The summary beside the payment goes on showing the form (`BookingWizardPage.tsx:97-103`),
  which may have been edited while the reservation was being made.

## 6. Left out

* A rollback of `start_payment` after the intent was created leaves an intent at Stripe
  nobody has the secret of; the next call gets the same one.
* The PDF written before a rollback stays on the volume; mails that went out before a
  rollback are not called back.
* The numbers of a month follow the order of the commits, not of `issued_at`; no document
  asks for the latter.
* `update_garden` and the moderation are taken as one step each: what two of them at once may
  do to one garden (an edit on a row read before its approval) is not. Uploads are two steps,
  but other sessions count and insert at once, and a photo's position is its place in the
  sequence.
* Mutations repeated after leaving their page and coming back; hosts and admins who look at the
  public pages of the catalogue; the success page's own query of the reservation.
* Nights in which the clocks change: the difference of the browser's clock is one per day.
* The chat throttle, opening a conversation and the list of conversations with its unread
  counts; chat texts.
* Amounts other than the price of a booking; rounding and formatting of invoices; the sums
  of the statistics and the exports; catalogue filters, maps and paging; drafts of forms;
  mail templates; Stripe's signature check and other library code; seed data, settings,
  the UI kit and static pages, which keep no state beyond a click.

## 7. Plan

Done: the booking core, its contract and proofs; the numbering, its dispenser and proofs;
the transactions, their locks and proofs; the chat, the wizard and the session with proofs;
the panels, with the services behind them and proofs.

Next, in this order:

1. The garden services taken apart into read and write (`update_garden` against approval,
   deletion against a booking), composed with `BookingTransactions`.
2. The throttle window and the conversation list of the chat.

------------------------------- MODULE Panels -------------------------------
(***************************************************************************)
(* The panels of the client, the host and the admin over one query cache   *)
(* (src/frontend/src/shared/lib/queryClient.ts): pages that ask queries,   *)
(* dialogs opened on what a page showed, mutations that invalidate by key  *)
(* prefix, answers in any order, failures, and other sessions at work on   *)
(* the same rows.  One signed-in user at one tab.                          *)
(*                                                                         *)
(* A button that is disabled while its mutation is pending sends one at a  *)
(* time, another one up to Clicks.  Polling, the discarding of entries     *)
(* after gcTime, the texts of the forms, and a mutation repeated from a    *)
(* page left and opened again are left out.                                *)
(***************************************************************************)
EXTENDS PanelHooks

BudgetType ==
    [visits: Nat,       \* pages and dialogs opened, reloads asked for
     sends: Nat,        \* mutations
     others: Nat,       \* changes made by other sessions
     ages: Nat,         \* entries that reach staleTime
     losses: Nat]       \* answers lost

Roles == {"client", "host", "admin"}

CONSTANTS
    Starts,     \* the user's role, the rows, and what one behaviour may see at most
    Clicks      \* calls of one hook under way at once, where nothing disables its button

ASSUME ClicksAssumption == Clicks \in Nat \ {0}
ASSUME StartsAssumption ==
    \A start \in Starts :
        /\ start \in [role: Roles, rows: RowsType, budget: BudgetType]
        /\ Len(start.rows.photos) <= MaxPhotos /\ IsInjective(start.rows.photos)
        /\ start.rows.stay # "none" => start.rows.dog # 0

VARIABLES
    role,       \* of the user at the browser
    log,        \* the rows after every write, oldest first
    page,
    dialog,     \* [box, from]: the open dialog and the write it was opened on
    cache,      \* of every query of the role, see EntryType
    calls,      \* of every mutation and click, see CallType
    mine,       \* mine[q]: the user's last confirmed write that q shows, and which it was
    budget

vars == <<role, log, page, dialog, cache, calls, mine, budget>>

Rows == Last(log)

-----------------------------------------------------------------------------
(* The query cache.  at, fetch and from count writes: an answer served     *)
(* after write n holds log[n].                                             *)

Idle == -1
Asked == 0

\* at: 0 before the first answer.  listed: when the first request of this fetch was answered, of
\* those that make two.  tries: failures of this fetch.  raced: an invalidation has not restarted
\* the fetch under way, whose answer will count as fresh all the same.
EntryType ==
    [at: Nat, stale: BOOLEAN, error: BOOLEAN, fetch: Nat \cup {Idle}, listed: Nat, tries: 0..1,
     raced: BOOLEAN]
NoEntry ==
    [at |-> 0, stale |-> FALSE, error |-> FALSE, fetch |-> Idle, listed |-> 0, tries |-> 0, raced |-> FALSE]

\* counted: of an upload, the write after which the service counted the photos.
CallType ==
    [phase: {"none", "sent", "ok", "failed", "settling"}, from: Nat, counted: Nat, wrote: Nat,
     waits: SUBSET DOMAIN cache]
NoCall == [phase |-> "none", from |-> 0, counted |-> 0, wrote |-> 0, waits |-> {}]

Shown(q) == cache[q].at # 0 /\ ~cache[q].error
Loading(q) == cache[q].at = 0 /\ cache[q].fetch # Idle
Sees(q) == Query(q, log[cache[q].at]).data

\* An error with nothing loaded gives way to the spinner, one beside data stays.
Started(entry) ==
    [entry EXCEPT !.fetch = Asked, !.listed = 0, !.tries = 0, !.raced = FALSE,
                  !.error = @ /\ entry.at # 0]

\* An observer mounts: what is missing or stale is fetched, unless that is under way.
Mounting(entry) ==
    IF entry.fetch = Idle /\ (entry.at = 0 \/ entry.stale) THEN Started(entry) ELSE entry

Mount(queries) == [q \in DOMAIN cache |-> IF q \in queries THEN Mounting(cache[q]) ELSE cache[q]]

Matches(q, prefixes) == \E prefix \in prefixes : IsPrefix(prefix, Query(q, Rows).key)

-----------------------------------------------------------------------------
(* Dialogs: the mutation one sends, the query it asks while open, and      *)
(* whether a failure closes it as well.                                    *)

Box(sends, asks, shutsOnError) == [sends |-> sends, asks |-> asks, shutsOnError |-> shutsOnError]
NoBox == Box("nothing", {}, FALSE)

CancelModal == Box("useCancelReservation", {}, FALSE)
ReservationDetailsModal == Box("nothing", {"useReservation"}, FALSE)
ReviewFormModal(editing) == Box(IF editing THEN "useUpdateReview" ELSE "useSubmitReview", {}, FALSE)
DeleteReviewModal == Box("useDeleteReview", {}, TRUE)
DogFormModal(editing) ==
    IF editing THEN Box("useUpdateDog", {"useDog"}, FALSE) ELSE Box("useCreateDog", {}, FALSE)
DeleteDogModal == Box("useDeleteDog", {}, TRUE)
AddDogModal == Box("useAddDog", {}, FALSE)
DeleteGardenModal == Box("useDeleteGarden", {}, TRUE)
RejectModal == Box("useRejectReservation", {}, FALSE)
HostReservationDetailsModal == Box("nothing", {"useReservationDetail"}, FALSE)
RejectGardenModal == Box("useRejectGarden", {}, FALSE)
BlockModal == Box("useBlockUser", {}, TRUE)
RemoveReviewModal == Box("useRemoveReview", {}, TRUE)

-----------------------------------------------------------------------------
(* Pages: what one asks, the mutations its buttons send at once and the    *)
(* dialogs they open, each with the query it is offered by.                *)

Shows(asks, sends, opens) == [asks |-> asks, sends |-> sends, opens |-> opens]

\* A list gives way to an error message; other data stays beside an error.
By(q, shown, offers) == IF Shown(q) /\ shown THEN offers \X {q} ELSE {}
FromData(q, shown, offers) == IF cache[q].at # 0 /\ shown THEN offers \X {q} ELSE {}

ReservationCard ==
    By("useReservations", Sees("useReservations").row.stay # "none", {ReservationDetailsModal})
    \cup By("useReservations", Sees("useReservations").can_cancel, {CancelModal})
    \cup FromData("useEligibleReviews",
                  /\ Shown("useReservations") /\ Sees("useReservations").row.stay = "done"
                  /\ Sees("useEligibleReviews").here, {ReviewFormModal(FALSE)})
ReservationsPage == Shows({"useReservations", "useEligibleReviews"}, {}, ReservationCard)

EligibleCard == By("useEligibleReviews", Sees("useEligibleReviews").here, {ReviewFormModal(FALSE)})
WrittenCard ==
    By("useMyReviews", Sees("useMyReviews").review # 0, {ReviewFormModal(TRUE), DeleteReviewModal})
ReviewsPage == Shows({"useEligibleReviews", "useMyReviews"}, {}, EligibleCard \cup WrittenCard)

DogCard(buttons) == By("useDogs", Sees("useDogs").dog # 0, buttons)
PetsPage ==
    Shows({"useDogs"}, DogCard({"useUploadDogPhoto"}),
          DogCard({DogFormModal(TRUE), DeleteDogModal}) \cup {<<DogFormModal(FALSE), "useDogs">>})

BookingWizardPage ==
    Shows({"useClientDogs", "useGarden"},
          FromData("useClientDogs", Shown("useGarden") /\ Sees("useClientDogs").dog # 0,
                   {"useCreateReservation"}),
          IF Shown("useGarden") THEN {<<AddDogModal, "useClientDogs">>} ELSE {})
GardenDetailPage == Shows({"useGarden", "useGardenReviews"}, {}, {})
HomePage == Shows({"useGardens"}, {}, {})

GardenCard(status, buttons) == By("useHostGardens", Sees("useHostGardens").garden \in status, buttons)
GardensPage ==
    Shows({"useHostGardens"}, GardenCard({"approved"}, {"useToggleGardenActive"}),
          GardenCard({"pending", "approved", "rejected"}, {DeleteGardenModal}))

PhotoManager ==
    FromData("useHostGarden", Len(Sees("useHostGarden").photos) < MaxPhotos, {"useUploadGardenPhoto"})
    \cup FromData("useHostGarden", Sees("useHostGarden").photos # <<>>, {"useDeleteGardenPhoto"})
    \cup FromData("useHostGarden", Len(Sees("useHostGarden").photos) > 1, {"useReorderGardenPhotos"})

\* The form shows once the garden is loaded, or failed to: blank.
GardenFormPage ==
    Shows({"useHostGarden"},
          (IF Loading("useHostGarden") THEN {} ELSE {<<"useUpdateGarden", "useHostGarden">>})
          \cup PhotoManager, {})
NewGardenPage == Shows({}, {<<"useCreateGarden", "useHostGardens">>}, {})

HostReservationsPage ==
    Shows({"useHostReservations", "useHostStats"},
          By("useHostReservations", Sees("useHostReservations").can_accept, {"useAcceptReservation"}),
          By("useHostReservations", Sees("useHostReservations").can_accept, {RejectModal})
          \cup By("useHostReservations",
                  Sees("useHostReservations").row.stay # "none" /\ ~Sees("useHostReservations").can_accept,
                  {HostReservationDetailsModal}))
SchedulePage ==
    Shows({"useHostGardens", "useHostSchedule"}, {},
          By("useHostSchedule", Sees("useHostSchedule").stay # "none", {HostReservationDetailsModal}))
EarningsPage == Shows({"useHostStats", "useHostReservations"}, {}, {})

GardenQueueCard(buttons) == By("useAdminGardens", Sees("useAdminGardens").garden = "pending", buttons)
VerificationQueuePage ==
    Shows({"useAdminGardens"}, GardenQueueCard({"useApproveGarden"}), GardenQueueCard({RejectGardenModal}))

\* Slip: the table offers to block anybody who is active.
UsersPageForAll ==
    Shows({"useAdminUsers"}, {}, By("useAdminUsers", Sees("useAdminUsers").enabled, {BlockModal}))

UsersPage ==
    Shows({"useAdminUsers"},
          By("useAdminUsers",
             /\ Sees("useAdminUsers").role = "host" /\ ~Sees("useAdminUsers").verified
             /\ Sees("useAdminUsers").enabled, {"useVerifyHost"})
          \cup By("useAdminUsers",
                  Sees("useAdminUsers").role # "admin" /\ ~Sees("useAdminUsers").enabled,
                  {"useUnblockUser"}),
          By("useAdminUsers", Sees("useAdminUsers").role # "admin" /\ Sees("useAdminUsers").enabled,
             {BlockModal}))
ReviewsModerationPage ==
    Shows({"useAdminReviews"}, {},
          By("useAdminReviews", Sees("useAdminReviews").review # 0, {RemoveReviewModal}))

PagesOf(r) ==
    CASE r = "client" -> {"reservations", "reviews", "pets", "wizard", "garden", "home"}
      [] r = "host" -> {"gardens", "form", "new", "bookings", "schedule", "earnings"}
      [] r = "admin" -> {"queue", "users", "moderation"}

\* "none": any page that asks nothing here.
Page(p) ==
    CASE p = "none" -> Shows({}, {}, {})
      [] p = "reservations" -> ReservationsPage
      [] p = "reviews" -> ReviewsPage
      [] p = "pets" -> PetsPage
      [] p = "wizard" -> BookingWizardPage
      [] p = "garden" -> GardenDetailPage
      [] p = "home" -> HomePage
      [] p = "gardens" -> GardensPage
      [] p = "form" -> GardenFormPage
      [] p = "new" -> NewGardenPage
      [] p = "bookings" -> HostReservationsPage
      [] p = "schedule" -> SchedulePage
      [] p = "earnings" -> EarningsPage
      [] p = "queue" -> VerificationQueuePage
      [] p = "users" -> UsersPage
      [] p = "moderation" -> ReviewsModerationPage

QueriesOf(r) ==
    CASE r = "client" -> {"useReservations", "useReservation", "useEligibleReviews", "useMyReviews",
                          "useDogs", "useDog", "useClientDogs", "useGardens", "useGarden",
                          "useGardenReviews"}
      [] r = "host" -> {"useHostGardens", "useHostGarden", "useHostReservations",
                        "useReservationDetail", "useHostStats", "useHostSchedule"}
      [] r = "admin" -> {"useAdminGardens", "useAdminUsers", "useAdminReviews"}

MutationsOf(r) ==
    CASE r = "client" -> {"useCreateReservation", "useCancelReservation", "useSubmitReview",
                          "useUpdateReview", "useDeleteReview", "useCreateDog", "useAddDog",
                          "useUpdateDog", "useUploadDogPhoto", "useDeleteDog"}
      [] r = "host" -> {"useCreateGarden", "useUpdateGarden", "useToggleGardenActive",
                        "useDeleteGarden", "useUploadGardenPhoto", "useDeleteGardenPhoto",
                        "useReorderGardenPhotos", "useAcceptReservation", "useRejectReservation"}
      [] r = "admin" -> {"useApproveGarden", "useRejectGarden", "useVerifyHost", "useBlockUser",
                         "useUnblockUser", "useRemoveReview"}

\* Their buttons know no pending state.
NeverDisabled ==
    {"useUploadGardenPhoto", "useDeleteGardenPhoto", "useReorderGardenPhotos", "useVerifyHost",
     "useUnblockUser"}
CallsOf(r) == {c \in MutationsOf(r) \X (1..Clicks) : c[2] = 1 \/ c[1] \in NeverDisabled}

Mounted == Page(page).asks \cup dialog.box.asks

Spend(what) == budget[what] > 0 /\ budget' = [budget EXCEPT ![what] = @ - 1]

-----------------------------------------------------------------------------
(* The user.                                                               *)

Closed == [box |-> NoBox, from |-> 0]

Visit(p) ==
    /\ p # page /\ Spend("visits")
    /\ page' = p /\ dialog' = Closed
    /\ cache' = Mount(Page(p).asks)
    /\ UNCHANGED <<role, log, calls, mine>>

OpenDialog ==
    /\ dialog = Closed /\ Spend("visits")
    /\ \E offer \in Page(page).opens :
         /\ dialog' = [box |-> offer[1], from |-> cache[offer[2]].at]
         /\ cache' = Mount(offer[1].asks)
    /\ UNCHANGED <<role, log, page, calls, mine>>

CloseDialog ==
    /\ dialog # Closed /\ dialog' = Closed
    /\ UNCHANGED <<role, log, page, cache, calls, mine, budget>>

\* The n-th call of the hook, those before it under way.
Send(m, n, from) ==
    /\ <<m, n>> \in DOMAIN calls /\ calls[<<m, n>>].phase = "none" /\ Spend("sends")
    /\ \A k \in 1..n - 1 : calls[<<m, k>>].phase # "none"
    /\ calls' = [calls EXCEPT ![<<m, n>>] = [NoCall EXCEPT !.phase = "sent", !.from = from]]
    /\ UNCHANGED <<role, log, page, dialog, cache, mine>>

\* A button of the page, or one of the files dropped on it.
Press ==
    \E offer \in Page(page).sends, n \in 1..Clicks : Send(offer[1], n, cache[offer[2]].at)

\* The button of a dialog, which a form shows once its query is loaded, or failed to: blank.
Confirm ==
    /\ dialog.box.sends # "nothing"
    /\ \A q \in dialog.box.asks : ~Loading(q)
    /\ Send(dialog.box.sends, 1,
            IF \E q \in dialog.box.asks : cache[q].at # 0
            THEN cache[CHOOSE q \in dialog.box.asks : cache[q].at # 0].at ELSE dialog.from)

\* The button of an error message.
Refetch(q) ==
    /\ q \in Page(page).asks /\ cache[q].error /\ cache[q].fetch = Idle /\ Spend("visits")
    /\ cache' = [cache EXCEPT ![q] = Started(@)]
    /\ UNCHANGED <<role, log, page, dialog, calls, mine>>

-----------------------------------------------------------------------------
(* Queries under way.                                                      *)

\* A list read first, and then what each of its rows leads to.
InTwoSteps == {"useHostGardens", "useMyReviews"}

ServeList(q) ==
    /\ q \in InTwoSteps /\ cache[q].fetch = Asked /\ cache[q].listed = 0
    /\ cache' = [cache EXCEPT ![q].listed = Len(log)]
    /\ UNCHANGED <<role, log, page, dialog, calls, mine, budget>>

ServeFetch(q) ==
    /\ cache[q].fetch = Asked /\ (q \in InTwoSteps => cache[q].listed # 0)
    /\ cache' = [cache EXCEPT ![q].fetch = Len(log)]
    /\ UNCHANGED <<role, log, page, dialog, calls, mine, budget>>

\* The list was empty, or has lost its row since.
OldList(q) ==
    \/ q = "useHostGardens" /\ log[cache[q].listed].garden = "gone"
    \/ /\ q = "useMyReviews"
       /\ \/ useMyReviews(log[cache[q].listed]).data.review = 0
          \/ log[cache[q].fetch].stay # "done"

\* The write the answer is as new as.  A review edited while its stay was being cancelled, all
\* between the two requests, counts as old as the list.
AnsweredAt(q) == IF OldList(q) THEN cache[q].listed ELSE cache[q].fetch

\* A garden deleted since it was listed fails the whole list.
Found(q) ==
    /\ Query(q, log[cache[q].fetch]).found
    /\ q = "useHostGardens" =>
          OldList(q) \/ \A n \in cache[q].listed..cache[q].fetch : log[n].garden # "gone"

FetchAnswered(q) ==
    /\ cache[q].fetch > 0 /\ Found(q)
    /\ cache' = [cache EXCEPT ![q] = [NoEntry EXCEPT !.at = AnsweredAt(q), !.raced = cache[q].raced]]
    /\ UNCHANGED <<role, log, page, dialog, calls, mine, budget>>

\* Slip: retry: true.
FailedAndRetried(q) ==
    cache' = [cache EXCEPT ![q].fetch = Asked, ![q].listed = 0, ![q].tries = 1]

\* retry: 1, for as long as somebody watches.
Failed(q) ==
    cache' = [cache EXCEPT ![q] =
        IF @.tries = 0 /\ q \in Mounted THEN [@ EXCEPT !.fetch = Asked, !.listed = 0, !.tries = 1]
                                        ELSE [@ EXCEPT !.fetch = Idle, !.listed = 0, !.tries = 0,
                                                       !.error = TRUE]]

FetchFails(q) ==
    /\ cache[q].fetch > 0 /\ (Found(q) => budget.losses > 0)
    /\ Failed(q)
    /\ budget' = [budget EXCEPT !.losses = IF Found(q) THEN @ - 1 ELSE @]
    /\ UNCHANGED <<role, log, page, dialog, calls, mine>>

\* staleTime passes; nothing is fetched before the next mount.
Age(q) ==
    /\ cache[q].at # 0 /\ ~cache[q].stale /\ cache[q].at # Len(log) /\ Spend("ages")
    /\ cache' = [cache EXCEPT ![q].stale = TRUE]
    /\ UNCHANGED <<role, log, page, dialog, calls, mine>>

-----------------------------------------------------------------------------
(* Mutations under way.                                                    *)

Written(d) == IF d = Rows THEN log ELSE Append(log, d)

\* What the page showed; a form filled from nothing lists the garden (EMPTY_GARDEN).
Seen(c) == IF calls[c].from = 0 THEN [Rows EXCEPT !.active = TRUE] ELSE log[calls[c].from]

Answered(c, phase, wrote) == calls' = [calls EXCEPT ![c].phase = phase, ![c].wrote = wrote]

\* The first half of an upload.
CountPhotos(c) ==
    /\ c[1] = "useUploadGardenPhoto" /\ calls[c].phase = "sent" /\ calls[c].counted = 0
    /\ IF RoomFor(Rows) THEN calls' = [calls EXCEPT ![c].counted = Len(log)] ELSE Answered(c, "failed", 0)
    /\ UNCHANGED <<role, log, page, dialog, cache, mine, budget>>

\* The server writes or refuses; then the answer may be lost.
ServeCall(c) ==
    /\ calls[c].phase = "sent" /\ (c[1] = "useUploadGardenPhoto" => calls[c].counted # 0)
    /\ LET to == Mutation(c[1], Rows, IF calls[c].counted # 0 THEN log[calls[c].counted] ELSE Seen(c)).to
       IN  \/ \E d \in to :
                /\ log' = Written(d)
                /\ \/ Answered(c, "ok", IF d = Rows THEN 0 ELSE Len(log) + 1) /\ UNCHANGED budget
                   \/ Answered(c, "failed", 0) /\ Spend("losses")
           \/ to = {} /\ Answered(c, "failed", 0) /\ UNCHANGED <<log, budget>>
    /\ UNCHANGED <<role, page, dialog, cache, mine>>

\* invalidateQueries refetches what is mounted, except a first load under way, and only marks
\* the rest; a fetch that goes on unrestarted will count as fresh.
Invalidated(q) ==
    LET entry == cache[q]
    IN  IF q \in Mounted /\ ~(entry.at = 0 /\ entry.fetch # Idle)
        THEN Started([entry EXCEPT !.stale = TRUE])
        ELSE IF entry.at = 0 /\ entry.fetch = Idle THEN entry
             ELSE [entry EXCEPT !.stale = TRUE, !.raced = entry.fetch # Idle]

Changed(q, wrote) == wrote # 0 /\ Query(q, log[wrote]).data # Query(q, log[wrote - 1]).data

\* onSuccess.  A call that waited for a refetch restarted here has waited long enough.
CallSucceeds(c) ==
    /\ calls[c].phase = "ok"
    /\ LET change == Mutation(c[1], Rows, Rows)
           hit == {q \in DOMAIN cache : Matches(q, change.invalidates)}
       IN  /\ cache' = [q \in DOMAIN cache |-> IF q \in hit THEN Invalidated(q) ELSE cache[q]]
           /\ calls' = [b \in DOMAIN calls |->
                IF b = c THEN [calls[c] EXCEPT !.phase = "settling",
                                               !.waits = IF change.waits THEN hit \cap Mounted ELSE {}]
                         ELSE [calls[b] EXCEPT !.waits = {q \in @ : cache'[q] = cache[q]}]]
    /\ mine' = [q \in DOMAIN mine |->
                  IF Changed(q, calls[c].wrote) THEN [at |-> calls[c].wrote, by |-> c[1]] ELSE mine[q]]
    /\ UNCHANGED <<role, log, page, dialog, budget>>

\* A saved garden leads back to the list, a new one to its form, wherever the host is by then.
PageAfter(m) ==
    CASE m = "useUpdateGarden" -> "gardens" [] m = "useCreateGarden" -> "form" [] OTHER -> page

Ended(c) == calls' = [calls EXCEPT ![c] = NoCall]

CallSettles(c) ==
    /\ calls[c].phase = "settling" /\ \A q \in calls[c].waits : cache[q].fetch = Idle
    /\ Ended(c)
    /\ page' = PageAfter(c[1])
    /\ dialog' = IF dialog.box.sends = c[1] \/ page' # page THEN Closed ELSE dialog
    /\ cache' = IF page' = page THEN cache ELSE Mount(Page(page').asks)
    /\ UNCHANGED <<role, log, mine, budget>>

CallFails(c) ==
    /\ calls[c].phase = "failed"
    /\ Ended(c)
    /\ dialog' = IF dialog.box.sends = c[1] /\ dialog.box.shutsOnError THEN Closed ELSE dialog
    /\ UNCHANGED <<role, log, page, cache, mine, budget>>

-----------------------------------------------------------------------------
(* The others: the same endpoints from other sessions, bookings paid for   *)
(* or given up and stays that end; of these, what changes something        *)
(* loaded.                                                                 *)

WrittenElsewhere ==
    (UNION {Mutation(m, Rows, Rows).to : m \in UNION {MutationsOf(r) : r \in Roles}})
    \cup (IF Rows.stay = "pending_payment"
          THEN {[Rows EXCEPT !.stay = to] : to \in {"awaiting_host", "abandoned"}} ELSE {})
    \cup When(Rows.stay = "confirmed", [Rows EXCEPT !.stay = "done"])

Elsewhere ==
    /\ Spend("others")
    /\ \E d \in WrittenElsewhere :
         /\ \E q \in DOMAIN cache : cache[q].at # 0 /\ Query(q, d).data # Query(q, Rows).data
         /\ log' = Append(log, d)
    /\ UNCHANGED <<role, page, dialog, cache, calls, mine>>

-----------------------------------------------------------------------------
Init ==
    /\ \E start \in Starts : role = start.role /\ log = <<start.rows>> /\ budget = start.budget
    /\ page = "none" /\ dialog = Closed
    /\ cache = [q \in QueriesOf(role) |-> NoEntry]
    /\ calls = [c \in CallsOf(role) |-> NoCall]
    /\ mine = [q \in QueriesOf(role) |-> [at |-> 0, by |-> "nothing"]]

Next ==
    \/ \E p \in PagesOf(role) : Visit(p)
    \/ OpenDialog \/ CloseDialog \/ Press \/ Confirm
    \/ \E q \in DOMAIN cache :
         Refetch(q) \/ ServeList(q) \/ ServeFetch(q) \/ FetchAnswered(q) \/ FetchFails(q) \/ Age(q)
    \/ \E c \in DOMAIN calls :
         CountPhotos(c) \/ ServeCall(c) \/ CallSucceeds(c) \/ CallSettles(c) \/ CallFails(c)
    \/ Elsewhere

Spec == Init /\ [][Next]_vars

\* The server answers, the browser runs its callbacks.
Fairness ==
    /\ WF_vars(\E q \in DOMAIN cache : ServeList(q) \/ ServeFetch(q))
    /\ WF_vars(\E q \in DOMAIN cache : FetchAnswered(q) \/ FetchFails(q))
    /\ WF_vars(\E c \in DOMAIN calls : CountPhotos(c) \/ ServeCall(c))
    /\ WF_vars(\E c \in DOMAIN calls : CallSucceeds(c) \/ CallFails(c))
    /\ WF_vars(\E c \in DOMAIN calls : CallSettles(c))

FairSpec == Spec /\ Fairness
=============================================================================

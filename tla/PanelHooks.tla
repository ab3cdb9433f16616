----------------------------- MODULE PanelHooks -----------------------------
(***************************************************************************)
(* What the panels of the web client ask of the server and do to it: the   *)
(* queries and mutations of src/frontend/src/features/*/api.ts over the    *)
(* rows behind them.  One client, one host and one admin meet in one row   *)
(* of each table: a reservation of the host's garden for the client's dog, *)
(* its review, and an account the admin looks after, the host's or not.    *)
(*                                                                         *)
(* Texts are two versions, lists are the row they hold; the tabs, filters  *)
(* and search boxes of one list share its key prefix and are one query.    *)
(***************************************************************************)
EXTENDS Integers, Sequences, SequencesExt

CONSTANT MaxPhotos      \* MAX_PHOTOS_PER_GARDEN and MAX_PHOTOS

ASSUME MaxPhotosAssumption == MaxPhotos \in Nat \ {0}

\* stay: the reservation; "none" not made, "done" confirmed and past its end, "abandoned"
\* cancelled before it was paid.
\* review, dog: 0 when there is none, else its version.  photos: ids, the cover first.
RowsType ==
    [stay: {"none", "pending_payment", "awaiting_host", "confirmed", "done", "rejected", "cancelled",
            "abandoned"},
     review: 0..2, dog: 0..2, portrait: 1..2,
     garden: {"gone", "pending", "approved", "rejected"}, active: BOOLEAN, text: 1..2,
     photos: Seq(Nat \ {0}),
     role: {"client", "host", "admin"}, enabled: BOOLEAN, verified: BOOLEAN]

Other(version) == 3 - version

Committed == {"awaiting_host", "confirmed", "done"}
Cancellable == {"pending_payment"} \cup Committed
Offered(d) == d.garden = "approved" /\ d.active

-----------------------------------------------------------------------------
(* Queries: the key in the cache and what the server answers.  404 is an   *)
(* answer that finds nothing.                                              *)

Answer(key, found, data) == [key |-> key, found |-> found, data |-> data]

\* A row of reservations carries the dog's name and the garden's title.
Row(stay, d) ==
    IF stay = "none" THEN [stay |-> "none", dog |-> 0, title |-> 0]
                     ELSE [stay |-> stay, dog |-> d.dog, title |-> d.text]
OfClient(d) == IF d.stay = "abandoned" THEN "cancelled" ELSE d.stay

\* paid_at: the host hears of no reservation that was never paid.
OfHost(d) == IF d.stay \in {"pending_payment", "abandoned"} THEN "none" ELSE d.stay
InSchedule(d) == IF d.stay \in Committed THEN d.stay ELSE "none"

useReservations(d) ==
    Answer(<<"reservations", "list">>, TRUE,
           [row |-> Row(OfClient(d), d), can_cancel |-> d.stay \in Cancellable])
useReservation(d) == Answer(<<"reservations", "id">>, d.stay # "none", Row(OfClient(d), d))
useEligibleReviews(d) ==
    LET here == d.stay = "done" /\ d.review = 0
    IN  Answer(<<"reviews", "eligible">>, TRUE, [here |-> here, title |-> IF here THEN d.text ELSE 0])

\* Read off the completed stays: a review of a stay cancelled since is not found.
useMyReviews(d) ==
    LET review == IF d.stay = "done" THEN d.review ELSE 0
    IN  Answer(<<"reviews", "mine">>, TRUE,
               [review |-> review, title |-> IF review # 0 THEN d.text ELSE 0])

DogProfile(d) == [dog |-> d.dog, portrait |-> IF d.dog = 0 THEN 0 ELSE d.portrait]
useDogs(d) == Answer(<<"dogs">>, TRUE, DogProfile(d))
useDog(d) == Answer(<<"dogs", "id">>, d.dog # 0, DogProfile(d))
useClientDogs(d) == Answer(<<"booking", "dogs">>, TRUE, DogProfile(d))
useGardens(d) ==
    Answer(<<"gardens", "list">>, TRUE,
           [here |-> Offered(d), text |-> d.text, review |-> d.review,
            cover |-> IF d.photos = <<>> THEN 0 ELSE Head(d.photos)])
useGarden(d) ==
    Answer(<<"gardens", "detail">>, Offered(d), [text |-> d.text, photos |-> d.photos, review |-> d.review])
useGardenReviews(d) == Answer(<<"gardens", "reviews">>, TRUE, [review |-> d.review])

HostsGarden(d) ==
    [garden |-> d.garden, active |-> d.active, text |-> d.text, photos |-> d.photos, review |-> d.review]
useHostGardens(d) == Answer(<<"host", "gardens">>, TRUE, HostsGarden(d))
useHostGarden(d) == Answer(<<"host", "gardens", "id">>, d.garden # "gone", HostsGarden(d))
useHostReservations(d) ==
    Answer(<<"host", "reservations">>, TRUE,
           [row |-> Row(OfHost(d), d), can_accept |-> d.stay = "awaiting_host"])
useReservationDetail(d) ==
    Answer(<<"host", "reservation", "id">>, d.stay # "none", Row(OfClient(d), d))
useHostStats(d) == Answer(<<"host", "stats">>, TRUE, [stay |-> InSchedule(d), review |-> d.review])
useHostSchedule(d) == Answer(<<"host", "schedule">>, TRUE, Row(InSchedule(d), d))

\* The card of the queue tells whether the garden's host is verified.
useAdminGardens(d) ==
    Answer(<<"admin", "gardens">>, TRUE,
           [garden |-> d.garden, active |-> d.active, text |-> d.text, photos |-> d.photos,
            verified |-> d.role = "host" /\ d.verified])
useAdminUsers(d) ==
    Answer(<<"admin", "users">>, TRUE, [role |-> d.role, enabled |-> d.enabled, verified |-> d.verified])
useAdminReviews(d) ==
    Answer(<<"admin", "reviews">>, TRUE,
           [review |-> d.review, title |-> IF d.review # 0 THEN d.text ELSE 0])

Query(q, d) ==
    CASE q = "useReservations" -> useReservations(d)
      [] q = "useReservation" -> useReservation(d)
      [] q = "useEligibleReviews" -> useEligibleReviews(d)
      [] q = "useMyReviews" -> useMyReviews(d)
      [] q = "useDogs" -> useDogs(d)
      [] q = "useDog" -> useDog(d)
      [] q = "useClientDogs" -> useClientDogs(d)
      [] q = "useGardens" -> useGardens(d)
      [] q = "useGarden" -> useGarden(d)
      [] q = "useGardenReviews" -> useGardenReviews(d)
      [] q = "useHostGardens" -> useHostGardens(d)
      [] q = "useHostGarden" -> useHostGarden(d)
      [] q = "useHostReservations" -> useHostReservations(d)
      [] q = "useReservationDetail" -> useReservationDetail(d)
      [] q = "useHostStats" -> useHostStats(d)
      [] q = "useHostSchedule" -> useHostSchedule(d)
      [] q = "useAdminGardens" -> useAdminGardens(d)
      [] q = "useAdminUsers" -> useAdminUsers(d)
      [] q = "useAdminReviews" -> useAdminReviews(d)

-----------------------------------------------------------------------------
(* Mutations of the rows d, sent from a page that showed the rows seen:    *)
(* what they may become (nothing: refused), the key prefixes invalidated   *)
(* when the answer arrives, and whether the mutation then stays pending    *)
(* until the refetch (its onSuccess returns the promise).                  *)

Change(to, invalidates, waits) == [to |-> to, invalidates |-> invalidates, waits |-> waits]
When(allowed, d) == IF allowed THEN {d} ELSE {}

\* A second reservation beside the one of this model leaves it as it is; what else the service
\* may refuse is BookingWizard's.
useCreateReservation(d) ==
    Change(When(Offered(d) /\ d.dog # 0, IF d.stay = "none" THEN [d EXCEPT !.stay = "pending_payment"]
                                                          ELSE d), {}, FALSE)

useCancelReservation(d) ==
    Change(When(d.stay \in Cancellable,
                [d EXCEPT !.stay = IF @ = "pending_payment" THEN "abandoned" ELSE "cancelled"]),
           {<<"reservations">>, <<"reviews">>}, FALSE)

invalidateAll == {<<"reviews">>, <<"reservations">>, <<"gardens">>}
useSubmitReview(d) ==
    Change(When(d.stay = "done" /\ d.review = 0, [d EXCEPT !.review = 1]), invalidateAll, FALSE)

\* Slip: the review is not looked up among those that are left.
useUpdateReviewOfNone(d) == Change({[d EXCEPT !.review = Other(@)]}, invalidateAll, FALSE)

useUpdateReview(d) ==
    Change(When(d.review # 0, [d EXCEPT !.review = Other(@)]), invalidateAll, FALSE)
useDeleteReview(d) == Change(When(d.review # 0, [d EXCEPT !.review = 0]), invalidateAll, FALSE)

\* A second dog, and a second garden, beside the one of this model leaves it as it is.
Adopted(d) == IF d.dog = 0 THEN [d EXCEPT !.dog = 1, !.portrait = 1] ELSE d
useCreateDog(d) == Change({Adopted(d)}, {<<"dogs">>}, TRUE)
useAddDog(d) == Change({Adopted(d)}, {<<"dogs">>, <<"booking", "dogs">>}, FALSE)
useUpdateDog(d) ==
    Change(When(d.dog # 0, [d EXCEPT !.dog = Other(@)]), {<<"dogs">>, <<"dogs", "id">>}, FALSE)
useUploadDogPhoto(d) ==
    Change(When(d.dog # 0, [d EXCEPT !.portrait = Other(@)]), {<<"dogs">>, <<"dogs", "id">>}, FALSE)

\* DogHasReservations.
useDeleteDog(d) ==
    Change(When(d.dog # 0 /\ d.stay = "none", [d EXCEPT !.dog = 0]), {<<"dogs">>}, TRUE)

\* _revert_to_pending_if_approved: a rejected garden stays rejected, whatever its host edits.
Reverted(d) == IF d.garden = "approved" THEN [d EXCEPT !.garden = "pending"] ELSE d

useCreateGarden(d) ==
    Change({IF d.garden = "gone" THEN [d EXCEPT !.garden = "pending", !.active = TRUE, !.photos = <<>>]
                                 ELSE d}, {<<"host", "gardens">>}, TRUE)

\* The form sends all its fields, is_active among them, as they were when it was filled.
useUpdateGarden(d, seen) ==
    LET saved == [d EXCEPT !.text = Other(seen.text), !.active = seen.active]
    IN  Change(IF d.garden = "gone" THEN {} ELSE {saved, Reverted(saved)},
               {<<"host", "gardens">>, <<"host", "gardens", "id">>}, FALSE)

useToggleGardenActive(d, seen) ==
    Change(When(d.garden # "gone", [d EXCEPT !.active = ~seen.active]), {<<"host", "gardens">>}, TRUE)

\* delete_garden: an offer with reservations is only deactivated.
useDeleteGarden(d) ==
    Change(When(d.garden # "gone", IF d.stay = "none" THEN [d EXCEPT !.garden = "gone", !.photos = <<>>]
                                                      ELSE [d EXCEPT !.active = FALSE]),
           {<<"host", "gardens">>}, TRUE)

PhotosKey == {<<"host", "gardens", "id">>}
RoomFor(d) == d.garden # "gone" /\ Len(d.photos) < MaxPhotos
Unused(d) == {id \in 1..Len(d.photos) + 1 : id \notin ToSet(d.photos)}

\* add_garden_photo reads the garden and counts its photos, and inserts one more when the image
\* is compressed: into the rows d what it decided on the rows counted.
useUploadGardenPhoto(d, counted) ==
    Change(IF RoomFor(counted) /\ d.garden # "gone"
           THEN {[d EXCEPT !.photos = Append(@, id),
                           !.garden = IF counted.garden = "approved" THEN "pending" ELSE @] : id \in Unused(d)}
           ELSE {}, PhotosKey, TRUE)

\* The last photo of the page is deleted, or made the cover.
useDeleteGardenPhoto(d, seen) ==
    Change({Reverted([d EXCEPT !.photos = RemoveAt(@, n)]) :
              n \in {n \in DOMAIN d.photos : seen.photos # <<>> /\ d.photos[n] = Last(seen.photos)}},
           PhotosKey, TRUE)
useReorderGardenPhotos(d, seen) ==
    Change(When(/\ seen.photos # <<>>
                /\ Len(d.photos) = Len(seen.photos) /\ ToSet(d.photos) = ToSet(seen.photos),
                [d EXCEPT !.photos = <<Last(seen.photos)>> \o Front(seen.photos)]), PhotosKey, TRUE)

\* Slip: the tiles above the table are forgotten.
useAcceptReservationOnly(d) ==
    Change(When(d.stay = "awaiting_host", [d EXCEPT !.stay = "confirmed"]), {<<"host", "reservations">>}, FALSE)

DecisionKeys == {<<"host", "reservations">>, <<"host", "stats">>}
useAcceptReservation(d) ==
    Change(When(d.stay = "awaiting_host", [d EXCEPT !.stay = "confirmed"]), DecisionKeys, FALSE)
useRejectReservation(d) ==
    Change(When(d.stay = "awaiting_host", [d EXCEPT !.stay = "rejected"]), DecisionKeys, FALSE)

\* Whatever the garden's status is by now.
useApproveGarden(d) ==
    Change(When(d.garden # "gone", [d EXCEPT !.garden = "approved"]), {<<"admin", "gardens">>}, TRUE)
useRejectGarden(d) ==
    Change(When(d.garden # "gone", [d EXCEPT !.garden = "rejected"]), {<<"admin", "gardens">>}, TRUE)
useVerifyHost(d) == Change(When(d.role = "host", [d EXCEPT !.verified = TRUE]), {<<"admin", "users">>}, TRUE)
useBlockUser(d) == Change(When(d.role # "admin", [d EXCEPT !.enabled = FALSE]), {<<"admin", "users">>}, TRUE)
useUnblockUser(d) == Change({[d EXCEPT !.enabled = TRUE]}, {<<"admin", "users">>}, TRUE)

\* useDeleteReview of the admin's panel.
useRemoveReview(d) == Change(When(d.review # 0, [d EXCEPT !.review = 0]), {<<"admin", "reviews">>}, TRUE)

Mutation(m, d, seen) ==
    CASE m = "useCreateReservation" -> useCreateReservation(d)
      [] m = "useCancelReservation" -> useCancelReservation(d)
      [] m = "useSubmitReview" -> useSubmitReview(d)
      [] m = "useUpdateReview" -> useUpdateReview(d)
      [] m = "useDeleteReview" -> useDeleteReview(d)
      [] m = "useCreateDog" -> useCreateDog(d)
      [] m = "useAddDog" -> useAddDog(d)
      [] m = "useUpdateDog" -> useUpdateDog(d)
      [] m = "useUploadDogPhoto" -> useUploadDogPhoto(d)
      [] m = "useDeleteDog" -> useDeleteDog(d)
      [] m = "useCreateGarden" -> useCreateGarden(d)
      [] m = "useUpdateGarden" -> useUpdateGarden(d, seen)
      [] m = "useToggleGardenActive" -> useToggleGardenActive(d, seen)
      [] m = "useDeleteGarden" -> useDeleteGarden(d)
      [] m = "useUploadGardenPhoto" -> useUploadGardenPhoto(d, seen)
      [] m = "useDeleteGardenPhoto" -> useDeleteGardenPhoto(d, seen)
      [] m = "useReorderGardenPhotos" -> useReorderGardenPhotos(d, seen)
      [] m = "useAcceptReservation" -> useAcceptReservation(d)
      [] m = "useRejectReservation" -> useRejectReservation(d)
      [] m = "useApproveGarden" -> useApproveGarden(d)
      [] m = "useRejectGarden" -> useRejectGarden(d)
      [] m = "useVerifyHost" -> useVerifyHost(d)
      [] m = "useBlockUser" -> useBlockUser(d)
      [] m = "useUnblockUser" -> useUnblockUser(d)
      [] m = "useRemoveReview" -> useRemoveReview(d)
=============================================================================

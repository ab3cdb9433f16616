-------------------------- MODULE PanelsProperties --------------------------
(* What the panels promise their users.                                     *)
EXTENDS Panels, Functions

\* Every variable has its type, a call only waits for queries its page asked, no gallery holds a
\* photo twice, and none outgrows MAX_PHOTOS_PER_GARDEN but by photos counted together: the
\* uploads of the files dropped at once, which all see the same count (PhotoManager.tsx,
\* gardens/services.py add_garden_photo).
PanelsTypeOK ==
    /\ role \in Roles /\ log \in Seq(RowsType)
    /\ \A n \in DOMAIN log : Len(log[n].photos) <= MaxPhotos + Clicks /\ IsInjective(log[n].photos)
    /\ page \in PagesOf(role) \cup {"none"} /\ dialog.from \in 0..Len(log)
    /\ cache \in [QueriesOf(role) -> EntryType]
    /\ \A q \in DOMAIN cache :
         cache[q].at <= Len(log) /\ cache[q].fetch <= Len(log) /\ cache[q].listed <= Len(log)
    /\ calls \in [CallsOf(role) -> CallType]
    /\ \A c \in DOMAIN calls : calls[c].wrote <= Len(log) /\ calls[c].counted <= Len(log)
    /\ \A q \in DOMAIN mine : mine[q].at <= Len(log)
    /\ budget \in BudgetType

\* What a mutation forgets to invalidate, each a gap of the api.ts that declares it: the lists
\* that hold a copy of what it writes, down to the name of the dog and the title of the garden in
\* every row of reservations, and the host's badge in the queue of gardens.
Forgotten ==
    ({"useUploadGardenPhoto", "useDeleteGardenPhoto", "useReorderGardenPhotos"} \X {"useHostGardens"})
    \cup ({"useUpdateGarden"} \X {"useHostReservations", "useReservationDetail", "useHostSchedule"})
    \cup ({"useAcceptReservation", "useRejectReservation"}
              \X {"useHostSchedule", "useReservationDetail"})
    \cup ({"useCreateReservation", "useUpdateDog"} \X {"useReservations", "useReservation"})
    \cup ({"useCreateDog", "useUpdateDog", "useUploadDogPhoto", "useDeleteDog"} \X {"useClientDogs"})
    \cup {<<"useVerifyHost", "useAdminGardens">>}

\* After a mutation succeeded, no query that counts as fresh holds the rows of before it:
\* invalidateQueries reaches every list, detail and tile that shows what was written
\* (the onSuccess of host, admin, dogs, reviews and reservations api.ts), whatever was being
\* fetched, left or opened meanwhile.
ShowsMyOwnWrites ==
    \A q \in DOMAIN cache :
        LET entry == cache[q]
        IN  /\ entry.at # 0 /\ ~entry.stale /\ ~entry.raced /\ entry.fetch = Idle
            /\ <<mine[q].by, q>> \notin Forgotten
            => entry.at >= mine[q].at

\* What the server refuses is only what had changed since the page read it: a page offers no
\* button (can_accept, can_cancel, eligible, pending, role and photo count in ReservationsPage,
\* VerificationQueuePage, UsersPage, PhotoManager...) that the services would refuse outright.
\* Except a dog's deletion, as the list of dogs does not tell of its reservations; a garden's form
\* shown blank since the garden was not found; and a booking, see BookingWizard.
RefusedOnlyWhenBehind ==
    [][\A c \in DOMAIN calls :
          /\ calls[c].phase = "sent" /\ calls'[c].phase = "failed" /\ budget' = budget
          => \/ Seen(c) # Rows
             \/ c[1] = "useDeleteDog" /\ Rows.stay # "none"
             \/ c[1] = "useUpdateGarden" /\ calls[c].from = 0
             \/ c[1] = "useCreateReservation"]_vars

InFlight == (\E q \in DOMAIN cache : cache[q].fetch # Idle) \/ (\E c \in DOMAIN calls : calls[c] # NoCall)

\* The modals of details show a spinner for as long as they have no data
\* (ReservationDetailsModal.tsx, HostReservationDetailsModal.tsx: isLoading || !r).
Spinning ==
    /\ dialog.box \in {ReservationDetailsModal, HostReservationDetailsModal}
    /\ \E q \in dialog.box.asks : cache[q].at = 0

\* The one spinner that does not end: these modals have no message for a load that failed, nor a
\* button to ask again.
SpinsForEver == Spinning /\ \A q \in dialog.box.asks : cache[q].error /\ cache[q].fetch = Idle

\* Every other spinner ends: fetches retried, restarted by an invalidation or answered by 404, and
\* mutations pending until such a fetch, all come to rest (retry and onSuccess of queryClient.ts
\* and the api.ts).
PagesSettle == (InFlight \/ Spinning) ~> (~InFlight /\ (Spinning => SpinsForEver))
=============================================================================

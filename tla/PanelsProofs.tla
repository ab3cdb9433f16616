---------------------------- MODULE PanelsProofs -----------------------------
(***************************************************************************)
(* The safety properties of PanelsProperties, proved of Panels for any     *)
(* rows, any number of photos and any budgets: every mutation against      *)
(* every query of the same panel.                                          *)
(***************************************************************************)
EXTENDS PanelsProperties, FiniteSetTheorems, SequenceTheorems, TLAPS

-----------------------------------------------------------------------------
(* Galleries                                                               *)

PhotoIds == Nat \ {0}
Gallery(photos) == photos \in Seq(PhotoIds) /\ IsInjective(photos)

LEMMA GalleryGrows ==
    ASSUME NEW photos, Gallery(photos), NEW id \in PhotoIds \ ToSet(photos)
    PROVE  Gallery(Append(photos, id)) /\ Len(Append(photos, id)) = Len(photos) + 1
<1>. DEFINE more == Append(photos, id)
<1>1. photos \in Seq(PhotoIds) /\ Len(photos) \in Nat /\ DOMAIN photos = 1..Len(photos)
  BY DEF Gallery
<1>2. /\ more \in Seq(PhotoIds) /\ Len(more) = Len(photos) + 1 /\ DOMAIN more = 1..Len(photos) + 1
      /\ more[Len(photos) + 1] = id /\ \A n \in 1..Len(photos) : more[n] = photos[n]
  BY <1>1
<1>3. \A n \in 1..Len(photos) : photos[n] # id
  BY <1>1 DEF ToSet
<1>. HIDE DEF more
<1>4. IsInjective(more)
  BY <1>1, <1>2, <1>3 DEF Gallery, IsInjective
<1>. QED  BY <1>2, <1>4 DEF Gallery, more

\* What is left of a list without its n-th element, and what a list is with its last one first.
LEMMA WithoutOne ==
    ASSUME NEW S, NEW s \in Seq(S), NEW n \in 1..Len(s)
    PROVE  /\ RemoveAt(s, n) \in Seq(S) /\ Len(RemoveAt(s, n)) = Len(s) - 1
           /\ \A i \in 1..Len(s) - 1 : RemoveAt(s, n)[i] = IF i < n THEN s[i] ELSE s[i + 1]
<1>. DEFINE a == SubSeq(s, 1, n - 1)
            b == SubSeq(s, n + 1, Len(s))
<1>1. Len(s) \in Nat /\ n \in Int /\ n - 1 \in Int /\ n + 1 \in Int /\ \A i \in 1..Len(s) : s[i] \in S
  OBVIOUS
<1>2. a \in Seq(S) /\ Len(a) = n - 1 /\ \A i \in 1..n - 1 : a[i] = s[i]
  <2>1. \A i \in 1..n - 1 : s[i] \in S
    BY <1>1
  <2>. QED  BY <1>1, <2>1, SubSeqProperties
<1>3. b \in Seq(S) /\ Len(b) = Len(s) - n /\ \A i \in 1..Len(s) - n : b[i] = s[n + i]
  <2>1. \A i \in n + 1..Len(s) : s[i] \in S
    BY <1>1
  <2>2. /\ b \in Seq(S) /\ Len(b) = IF n + 1 <= Len(s) THEN Len(s) - (n + 1) + 1 ELSE 0
        /\ \A i \in 1..Len(s) - (n + 1) + 1 : b[i] = s[n + 1 + i - 1]
    BY <1>1, <2>1, SubSeqProperties
  <2>. HIDE DEF b
  <2>. QED  BY <1>1, <2>2
<1>. HIDE DEF a, b
<1>4. /\ a \o b \in Seq(S) /\ Len(a \o b) = Len(a) + Len(b)
      /\ \A i \in 1..Len(a) + Len(b) : (a \o b)[i] = IF i <= Len(a) THEN a[i] ELSE b[i - Len(a)]
  BY <1>2, <1>3, ConcatProperties
<1>5. RemoveAt(s, n) = a \o b
  BY DEF RemoveAt, a, b
<1>6. ASSUME NEW i \in 1..Len(s) - 1 PROVE (a \o b)[i] = IF i < n THEN s[i] ELSE s[i + 1]
  <2>1. CASE i < n
    BY <1>1, <1>2, <1>3, <1>4, <2>1
  <2>2. CASE ~(i < n)
    <3>1. i - (n - 1) \in 1..Len(s) - n /\ n + (i - (n - 1)) = i + 1
      BY <1>1, <2>2
    <3>2. b[i - (n - 1)] = s[n + (i - (n - 1))]
      BY <1>3, <3>1
    <3>. QED  BY <1>1, <1>2, <1>3, <1>4, <2>2, <3>1, <3>2
  <2>. QED  BY <2>1, <2>2
<1>7. Len(a \o b) = Len(s) - 1
  BY <1>1, <1>2, <1>3, <1>4
<1>. QED  BY <1>4, <1>5, <1>6, <1>7

LEMMA LastFirst ==
    ASSUME NEW S, NEW s \in Seq(S), s # <<>>
    PROVE  LET turned == <<Last(s)>> \o Front(s)
           IN  /\ Len(s) \in DOMAIN s /\ turned \in Seq(S) /\ Len(turned) = Len(s)
               /\ \A i \in 1..Len(s) : turned[i] = IF i = 1 THEN s[Len(s)] ELSE s[i - 1]
<1>. DEFINE a == <<Last(s)>>
            b == Front(s)
<1>1. /\ Len(s) \in Nat \ {0} /\ DOMAIN s = 1..Len(s) /\ Len(s) - 1 \in Int
      /\ \A i \in 1..Len(s) : s[i] \in S
  BY EmptySeq
<1>2. a \in Seq(S) /\ Len(a) = 1 /\ a[1] = s[Len(s)]
  BY <1>1 DEF Last
<1>3. b \in Seq(S) /\ Len(b) = Len(s) - 1 /\ \A i \in 1..Len(s) - 1 : b[i] = s[i]
  <2>1. \A i \in 1..Len(s) - 1 : s[i] \in S
    BY <1>1
  <2>2. /\ SubSeq(s, 1, Len(s) - 1) \in Seq(S)
        /\ Len(SubSeq(s, 1, Len(s) - 1)) = IF 1 <= Len(s) - 1 THEN Len(s) - 1 - 1 + 1 ELSE 0
        /\ \A i \in 1..Len(s) - 1 - 1 + 1 : SubSeq(s, 1, Len(s) - 1)[i] = s[1 + i - 1]
    BY <1>1, <2>1, SubSeqProperties
  <2>3. b = SubSeq(s, 1, Len(s) - 1)
    BY DEF Front
  <2>. HIDE DEF b
  <2>. QED  BY <1>1, <2>2, <2>3
<1>. HIDE DEF a, b
<1>4. /\ a \o b \in Seq(S) /\ Len(a \o b) = Len(a) + Len(b)
      /\ \A i \in 1..Len(a) + Len(b) : (a \o b)[i] = IF i <= Len(a) THEN a[i] ELSE b[i - Len(a)]
  BY <1>2, <1>3, ConcatProperties
<1>5. \A i \in 1..Len(s) : (a \o b)[i] = IF i = 1 THEN s[Len(s)] ELSE s[i - 1]
  BY <1>1, <1>2, <1>3, <1>4
<1>6. Len(s) \in DOMAIN s /\ Len(a \o b) = Len(s)
  BY <1>1, <1>2, <1>3, <1>4
<1>. QED  BY <1>4, <1>5, <1>6 DEF a, b

LEMMA GalleryShrinks ==
    ASSUME NEW photos, Gallery(photos), NEW n \in DOMAIN photos
    PROVE  Gallery(RemoveAt(photos, n)) /\ Len(RemoveAt(photos, n)) = Len(photos) - 1
<1>. DEFINE less == RemoveAt(photos, n)
            at(i) == IF i < n THEN i ELSE i + 1
<1>1. /\ photos \in Seq(PhotoIds) /\ Len(photos) \in Nat /\ DOMAIN photos = 1..Len(photos)
      /\ n \in 1..Len(photos)
  BY DEF Gallery
<1>2. /\ less \in Seq(PhotoIds) /\ Len(less) = Len(photos) - 1
      /\ \A i \in 1..Len(photos) - 1 : less[i] = IF i < n THEN photos[i] ELSE photos[i + 1]
  BY <1>1, WithoutOne
<1>. HIDE DEF less
<1>3. DOMAIN less = 1..Len(photos) - 1
  BY <1>2
<1>4. ASSUME NEW i \in DOMAIN less, NEW j \in DOMAIN less, less[i] = less[j] PROVE i = j
  <2>1. at(i) \in DOMAIN photos /\ at(j) \in DOMAIN photos /\ photos[at(i)] = photos[at(j)]
    BY <1>1, <1>2, <1>3, <1>4
  <2>2. at(i) = at(j)
    BY <2>1 DEF Gallery, IsInjective
  <2>. QED  BY <1>1, <1>3, <2>2
<1>. QED  BY <1>1, <1>2, <1>4 DEF Gallery, IsInjective, less

LEMMA GalleryTurns ==
    ASSUME NEW photos, Gallery(photos), photos # <<>>
    PROVE  /\ Gallery(<<Last(photos)>> \o Front(photos))
           /\ Len(<<Last(photos)>> \o Front(photos)) = Len(photos)
<1>. DEFINE turned == <<Last(photos)>> \o Front(photos)
            at(i) == IF i = 1 THEN Len(photos) ELSE i - 1
<1>1. photos \in Seq(PhotoIds) /\ Len(photos) \in Nat /\ DOMAIN photos = 1..Len(photos)
  BY DEF Gallery
<1>2. /\ turned \in Seq(PhotoIds) /\ Len(turned) = Len(photos)
      /\ \A i \in 1..Len(photos) : turned[i] = IF i = 1 THEN photos[Len(photos)] ELSE photos[i - 1]
  BY <1>1, LastFirst
<1>. HIDE DEF turned
<1>3. DOMAIN turned = 1..Len(photos)
  BY <1>2
<1>4. ASSUME NEW i \in DOMAIN turned, NEW j \in DOMAIN turned, turned[i] = turned[j] PROVE i = j
  <2>1. at(i) \in DOMAIN photos /\ at(j) \in DOMAIN photos /\ photos[at(i)] = photos[at(j)]
    BY <1>1, <1>2, <1>3, <1>4
  <2>2. at(i) = at(j)
    BY <2>1 DEF Gallery, IsInjective
  <2>. QED  BY <1>1, <1>3, <2>2
<1>. QED  BY <1>1, <1>2, <1>4 DEF Gallery, IsInjective, turned

\* There is always an id for one more photo.
LEMMA RoomLeft ==
    ASSUME NEW photos, Gallery(photos)
    PROVE  \E id \in 1..Len(photos) + 1 : id \notin ToSet(photos)
<1>. SUFFICES ASSUME 1..Len(photos) + 1 \subseteq ToSet(photos) PROVE FALSE
  OBVIOUS
<1>1. photos \in Seq(PhotoIds) /\ Len(photos) \in Nat /\ DOMAIN photos = 1..Len(photos)
  BY DEF Gallery
<1>2. \A n \in Nat : IsFiniteSet(1..n) /\ Cardinality(1..n) = n
  BY FS_Interval
<1>3. photos \in Surjection(1..Len(photos), ToSet(photos))
  <2>1. \A id \in ToSet(photos) : \E n \in 1..Len(photos) : photos[n] = id
    BY <1>1 DEF ToSet
  <2>2. photos \in [1..Len(photos) -> ToSet(photos)]
    BY <1>1, LenProperties DEF ToSet
  <2>. QED  BY <2>1, <2>2 DEF Surjection
<1>4. IsFiniteSet(1..Len(photos)) /\ Cardinality(1..Len(photos)) = Len(photos)
  BY <1>1, <1>2
<1>5. IsFiniteSet(ToSet(photos)) /\ Cardinality(ToSet(photos)) <= Len(photos)
  BY <1>3, <1>4, FS_Surjection
<1>6. Cardinality(1..Len(photos) + 1) <= Cardinality(ToSet(photos))
  BY <1>5, FS_Subset
<1>7. Cardinality(1..Len(photos) + 1) = Len(photos) + 1
  BY <1>1, <1>2
<1>8. Cardinality(ToSet(photos)) \in Nat
  BY <1>5, FS_CardinalityType
<1>. QED  BY <1>1, <1>5, <1>6, <1>7, <1>8


-----------------------------------------------------------------------------
(* Mutations: which rows they lead to and what they leave alone.           *)

\* Who has a reservation has a dog.
RowsFit(d) == d \in RowsType /\ Gallery(d.photos) /\ (d.stay # "none" => d.dog # 0)

StayWriters ==
    {"useCreateReservation", "useCancelReservation", "useAcceptReservation", "useRejectReservation"}
EndWriters == StayWriters \ {"useCreateReservation"}
ReviewWriters == {"useSubmitReview", "useUpdateReview", "useDeleteReview", "useRemoveReview"}
DogWriters == {"useCreateDog", "useAddDog", "useUpdateDog", "useUploadDogPhoto", "useDeleteDog"}
NameWriters == {"useUpdateDog"}
PhotoWriters == {"useUploadGardenPhoto", "useDeleteGardenPhoto", "useReorderGardenPhotos"}
GardenWriters ==
    {"useCreateGarden", "useUpdateGarden", "useToggleGardenActive", "useDeleteGarden",
     "useApproveGarden", "useRejectGarden"} \cup PhotoWriters
TitleWriters == {"useUpdateGarden"}
BadgeWriters == {"useVerifyHost"}
AccountWriters == {"useVerifyHost", "useBlockUser", "useUnblockUser"}

Mutations == StayWriters \cup ReviewWriters \cup DogWriters \cup GardenWriters \cup AccountWriters

SameGarden(d, e) ==
    e.garden = d.garden /\ e.active = d.active /\ e.text = d.text /\ e.photos = d.photos
SameBadge(d, e) == e.role = d.role /\ e.verified = d.verified
SameAccount(d, e) == SameBadge(d, e) /\ e.enabled = d.enabled
SameDog(d, e) == e.dog = d.dog /\ e.portrait = d.portrait
SameEnd(d, e) == (e.stay = "done") <=> (d.stay = "done")

\* Of a dog whose name some reservation shows.
SameName(d, e) == d.stay = "none" \/ e.dog = d.dog

MorePhotos(m) == IF m = "useUploadGardenPhoto" THEN 1 ELSE 0

\* e is what the mutation m may make of the rows d.
Rewrites(m, d, e) ==
    /\ RowsFit(e)
    /\ Len(e.photos) <= Len(d.photos) + MorePhotos(m)
    /\ m \in StayWriters \/ e.stay = d.stay
    /\ m \in EndWriters \/ SameEnd(d, e)
    /\ m \in ReviewWriters \/ e.review = d.review
    /\ m \in DogWriters \/ SameDog(d, e)
    /\ m \in NameWriters \/ SameName(d, e)
    /\ m \in GardenWriters \/ SameGarden(d, e)
    /\ m \in TitleWriters \/ e.text = d.text
    /\ m \in AccountWriters \/ SameAccount(d, e)
    /\ m \in BadgeWriters \/ SameBadge(d, e)

LEMMA MutationsAre ==
    ASSUME NEW d, NEW s
    PROVE  /\ Mutation("useCreateReservation", d, s) = useCreateReservation(d)
           /\ Mutation("useCancelReservation", d, s) = useCancelReservation(d)
           /\ Mutation("useSubmitReview", d, s) = useSubmitReview(d)
           /\ Mutation("useUpdateReview", d, s) = useUpdateReview(d)
           /\ Mutation("useDeleteReview", d, s) = useDeleteReview(d)
           /\ Mutation("useCreateDog", d, s) = useCreateDog(d)
           /\ Mutation("useAddDog", d, s) = useAddDog(d)
           /\ Mutation("useUpdateDog", d, s) = useUpdateDog(d)
           /\ Mutation("useUploadDogPhoto", d, s) = useUploadDogPhoto(d)
           /\ Mutation("useDeleteDog", d, s) = useDeleteDog(d)
           /\ Mutation("useCreateGarden", d, s) = useCreateGarden(d)
           /\ Mutation("useUpdateGarden", d, s) = useUpdateGarden(d, s)
           /\ Mutation("useToggleGardenActive", d, s) = useToggleGardenActive(d, s)
           /\ Mutation("useDeleteGarden", d, s) = useDeleteGarden(d)
           /\ Mutation("useUploadGardenPhoto", d, s) = useUploadGardenPhoto(d, s)
           /\ Mutation("useDeleteGardenPhoto", d, s) = useDeleteGardenPhoto(d, s)
           /\ Mutation("useReorderGardenPhotos", d, s) = useReorderGardenPhotos(d, s)
           /\ Mutation("useAcceptReservation", d, s) = useAcceptReservation(d)
           /\ Mutation("useRejectReservation", d, s) = useRejectReservation(d)
           /\ Mutation("useApproveGarden", d, s) = useApproveGarden(d)
           /\ Mutation("useRejectGarden", d, s) = useRejectGarden(d)
           /\ Mutation("useVerifyHost", d, s) = useVerifyHost(d)
           /\ Mutation("useBlockUser", d, s) = useBlockUser(d)
           /\ Mutation("useUnblockUser", d, s) = useUnblockUser(d)
           /\ Mutation("useRemoveReview", d, s) = useRemoveReview(d)
  BY DEF Mutation


\* One field, or the garden's, rewritten.
StayStatus == {"pending_payment", "awaiting_host", "confirmed", "done", "rejected", "cancelled", "abandoned"}

LEMMA PhotosMore ==
    ASSUME NEW m, NEW n \in Nat
    PROVE  MorePhotos(m) \in 0..1 /\ n <= n + MorePhotos(m)
<1>1. MorePhotos(m) = 0 \/ MorePhotos(m) = 1
  BY DEF MorePhotos
<1>. QED  BY <1>1

GardenStatus == {"gone", "pending", "approved", "rejected"}

WithGarden(d, garden, active, text, photos) ==
    [d EXCEPT !.garden = garden, !.active = active, !.text = text, !.photos = photos]
WithDog(d, dog, portrait) == [d EXCEPT !.dog = dog, !.portrait = portrait]
WithAccount(d, enabled, verified) == [d EXCEPT !.enabled = enabled, !.verified = verified]

LEMMA GardenFields ==
    ASSUME NEW d, RowsFit(d)
    PROVE  /\ d.garden \in GardenStatus /\ d.active \in BOOLEAN /\ d.text \in 1..2 /\ Gallery(d.photos)
           /\ Len(d.photos) \in Nat
           /\ \A m : Len(d.photos) <= Len(d.photos) + MorePhotos(m)
<1>1. /\ d.garden \in GardenStatus /\ d.active \in BOOLEAN /\ d.text \in 1..2 /\ Gallery(d.photos)
  BY DEF RowsFit, RowsType, GardenStatus
<1>2. Len(d.photos) \in Nat
  BY <1>1 DEF Gallery
<1>. QED  BY <1>1, <1>2, PhotosMore

LEMMA Unchanged ==
    ASSUME NEW d, RowsFit(d), NEW m
    PROVE  Rewrites(m, d, d)
<1>. Len(d.photos) \in Nat
  BY DEF RowsFit, Gallery
<1>. Len(d.photos) <= Len(d.photos) + MorePhotos(m)
  BY PhotosMore
<1>. QED  BY DEF Rewrites, SameGarden, SameAccount, SameBadge, SameDog, SameEnd, SameName

LEMMA StayRewritten ==
    ASSUME NEW d, RowsFit(d), NEW x \in StayStatus, NEW m,
           \/ m \in EndWriters /\ d.stay # "none"
           \/ m = "useCreateReservation" /\ d.stay = "none" /\ d.dog # 0 /\ x = "pending_payment"
    PROVE  Rewrites(m, d, [d EXCEPT !.stay = x])
<1>. DEFINE e == [d EXCEPT !.stay = x]
<1>1. /\ e \in RowsType /\ e.stay = x
      /\ SameGarden(d, e) /\ SameAccount(d, e) /\ SameDog(d, e) /\ e.review = d.review
  BY DEF RowsFit, RowsType, StayStatus, SameGarden, SameAccount, SameBadge, SameDog
<1>2. m \in StayWriters /\ (m \in EndWriters \/ (d.stay = "none" /\ x = "pending_payment"))
  BY DEF StayWriters, EndWriters
<1>. HIDE DEF e
<1>3. RowsFit(e) /\ e.photos = d.photos /\ Len(e.photos) <= Len(d.photos) + MorePhotos(m)
  BY <1>1, GardenFields DEF RowsFit, SameGarden, SameDog, Gallery, StayStatus
<1>4. Rewrites(m, d, e)
  BY <1>1, <1>2, <1>3 DEF Rewrites, SameEnd, SameName, SameDog, SameGarden, SameAccount
<1>. QED  BY <1>4 DEF e

LEMMA ReviewRewritten ==
    ASSUME NEW d, RowsFit(d), NEW m \in ReviewWriters, NEW x \in 0..2
    PROVE  Rewrites(m, d, [d EXCEPT !.review = x])
<1>. DEFINE e == [d EXCEPT !.review = x]
<1>1. /\ e \in RowsType /\ e.stay = d.stay
      /\ SameGarden(d, e) /\ SameAccount(d, e) /\ SameDog(d, e)
  BY DEF RowsFit, RowsType, SameGarden, SameAccount, SameBadge, SameDog
<1>. HIDE DEF e
<1>3. RowsFit(e) /\ e.photos = d.photos /\ Len(e.photos) <= Len(d.photos) + MorePhotos(m)
  BY <1>1, GardenFields DEF RowsFit, SameGarden, SameDog, Gallery
<1>4. Rewrites(m, d, e)
  BY <1>1, <1>3 DEF Rewrites, SameEnd, SameName, SameDog, SameGarden, SameAccount
<1>. QED  BY <1>4 DEF e

\* The dog of a reservation is there to stay.
LEMMA DogRewritten ==
    ASSUME NEW d, RowsFit(d), NEW m \in DogWriters, NEW dog \in 0..2, NEW portrait \in 1..2,
           d.stay # "none" => dog # 0 /\ (m = "useUpdateDog" \/ dog = d.dog)
    PROVE  Rewrites(m, d, WithDog(d, dog, portrait))
<1>. DEFINE e == WithDog(d, dog, portrait)
<1>1. /\ e \in RowsType /\ e.stay = d.stay /\ e.review = d.review /\ e.dog = dog
      /\ SameGarden(d, e) /\ SameAccount(d, e)
  BY DEF WithDog, RowsFit, RowsType, SameGarden, SameAccount, SameBadge
<1>. HIDE DEF e
<1>3. RowsFit(e) /\ e.photos = d.photos /\ Len(e.photos) <= Len(d.photos) + MorePhotos(m)
  BY <1>1, GardenFields DEF RowsFit, SameGarden, Gallery
<1>4. Rewrites(m, d, e)
  BY <1>1, <1>3 DEF Rewrites, SameEnd, SameName, NameWriters, SameGarden, SameAccount
<1>. QED  BY <1>4 DEF e

LEMMA AccountRewritten ==
    ASSUME NEW d, RowsFit(d), NEW m \in AccountWriters, NEW enabled \in BOOLEAN, NEW verified \in BOOLEAN,
           m = "useVerifyHost" \/ verified = d.verified
    PROVE  Rewrites(m, d, WithAccount(d, enabled, verified))
<1>. DEFINE e == WithAccount(d, enabled, verified)
<1>1. /\ e \in RowsType /\ e.stay = d.stay /\ e.review = d.review /\ SameDog(d, e) /\ SameGarden(d, e)
      /\ e.role = d.role /\ e.verified = verified
  BY DEF WithAccount, RowsFit, RowsType, SameGarden, SameDog
<1>. HIDE DEF e
<1>3. RowsFit(e) /\ e.photos = d.photos /\ Len(e.photos) <= Len(d.photos) + MorePhotos(m)
  BY <1>1, GardenFields DEF RowsFit, SameGarden, SameDog, Gallery
<1>4. Rewrites(m, d, e)
  BY <1>1, <1>3 DEF Rewrites, SameEnd, SameName, SameDog, SameGarden, SameBadge, BadgeWriters
<1>. QED  BY <1>4 DEF e

LEMMA GardenRewritten ==
    ASSUME NEW d, RowsFit(d), NEW m \in GardenWriters,
           NEW garden \in GardenStatus, NEW active \in BOOLEAN, NEW text \in 1..2,
           m = "useUpdateGarden" \/ text = d.text,
           NEW photos, Gallery(photos), Len(photos) <= Len(d.photos) + MorePhotos(m)
    PROVE  Rewrites(m, d, WithGarden(d, garden, active, text, photos))
<1>. DEFINE e == WithGarden(d, garden, active, text, photos)
<1>. photos \in Seq(PhotoIds)
  BY DEF Gallery
<1>1. /\ e \in RowsType /\ e.stay = d.stay /\ e.review = d.review /\ SameDog(d, e) /\ SameAccount(d, e)
      /\ e.text = text /\ e.photos = photos
  BY DEF WithGarden, RowsFit, RowsType, GardenStatus, SameAccount, SameBadge, SameDog, PhotoIds
<1>. HIDE DEF e
<1>3. RowsFit(e)
  BY <1>1 DEF RowsFit, SameDog
<1>4. Rewrites(m, d, e)
  BY <1>1, <1>3 DEF Rewrites, SameEnd, SameName, SameDog, SameAccount, TitleWriters
<1>. QED  BY <1>4 DEF e

\* A first save of an approved garden, or of its gallery, sends it back to the queue.
LEMMA RevertedRewritten ==
    ASSUME NEW d, NEW e, NEW m \in GardenWriters, Rewrites(m, d, e)
    PROVE  Rewrites(m, d, Reverted(e))
<1>. DEFINE f == [e EXCEPT !.garden = "pending"]
<1>1. /\ f \in RowsType /\ f.stay = e.stay /\ f.review = e.review /\ SameDog(e, f) /\ SameAccount(e, f)
      /\ f.photos = e.photos /\ f.text = e.text
  BY DEF Rewrites, RowsFit, RowsType, SameDog, SameAccount, SameBadge
<1>. HIDE DEF f
<1>2. RowsFit(f)
  BY <1>1 DEF Rewrites, RowsFit, SameDog
<1>3. Rewrites(m, d, f)
  BY <1>1, <1>2 DEF Rewrites, SameEnd, SameName, SameDog, SameAccount, SameBadge
<1>. QED  BY <1>3 DEF Reverted, f


\* Some fields rewritten, the others kept.
LEMMA SomeFields ==
    ASSUME NEW d \in RowsType, NEW x, NEW y
    PROVE  /\ [d EXCEPT !.dog = x] = WithDog(d, x, d.portrait)
           /\ [d EXCEPT !.portrait = x] = WithDog(d, d.dog, x)
           /\ [d EXCEPT !.dog = x, !.portrait = y] = WithDog(d, x, y)
           /\ [d EXCEPT !.verified = x] = WithAccount(d, d.enabled, x)
           /\ [d EXCEPT !.enabled = x] = WithAccount(d, x, d.verified)
           /\ [d EXCEPT !.garden = x] = WithGarden(d, x, d.active, d.text, d.photos)
           /\ [d EXCEPT !.active = x] = WithGarden(d, d.garden, x, d.text, d.photos)
           /\ [d EXCEPT !.photos = x] = WithGarden(d, d.garden, d.active, d.text, x)
  BY DEF RowsType, WithDog, WithAccount, WithGarden

LEMMA GardenSaved ==
    ASSUME NEW d \in RowsType, NEW x, NEW y, NEW e, e = [d EXCEPT !.text = x, !.active = y]
    PROVE  e = WithGarden(d, d.garden, y, x, d.photos)
  BY DEF RowsType, WithGarden

LEMMA GardenGone ==
    ASSUME NEW d \in RowsType, NEW x, NEW y, NEW e, e = [d EXCEPT !.garden = x, !.photos = y]
    PROVE  e = WithGarden(d, x, d.active, d.text, y)
  BY DEF RowsType, WithGarden

LEMMA GardenMade ==
    ASSUME NEW d \in RowsType, NEW x, NEW y, NEW z, NEW e,
           e = [d EXCEPT !.garden = x, !.active = y, !.photos = z]
    PROVE  e = WithGarden(d, x, y, d.text, z)
  BY DEF RowsType, WithGarden

LEMMA GardenAdorned ==
    ASSUME NEW d \in RowsType, NEW x, NEW y, NEW e, e = [d EXCEPT !.photos = x, !.garden = y]
    PROVE  e = WithGarden(d, y, d.active, d.text, x)
  BY DEF RowsType, WithGarden

LEMMA OtherVersion ==
    ASSUME NEW version \in 1..2
    PROVE  Other(version) \in 1..2
  BY DEF Other

LEMMA RowsRewritten ==
    ASSUME NEW m \in Mutations, NEW d, RowsFit(d), NEW s, RowsFit(s), NEW e \in Mutation(m, d, s).to
    PROVE  Rewrites(m, d, e)
<1>. /\ d \in RowsType /\ d.stay \in {"none"} \cup StayStatus /\ d.review \in 0..2 /\ d.dog \in 0..2
     /\ d.portrait \in 1..2 /\ d.enabled \in BOOLEAN /\ d.verified \in BOOLEAN
     /\ (d.stay # "none" => d.dog # 0)
     /\ s.active \in BOOLEAN /\ s.text \in 1..2 /\ Gallery(s.photos)
  BY DEF RowsFit, RowsType, StayStatus
<1>. /\ d.garden \in GardenStatus /\ d.active \in BOOLEAN /\ d.text \in 1..2
     /\ Gallery(d.photos) /\ Len(d.photos) \in Nat /\ Len(d.photos) <= Len(d.photos) + MorePhotos(m)
  BY GardenFields
<1>. 0 \in 0..2 /\ 1 \in 0..2 /\ 1 \in 1..2
  OBVIOUS
<1>. /\ Gallery(<<>>) /\ Len(<<>>) <= Len(d.photos) + MorePhotos(m)
  BY PhotosMore DEF Gallery, IsInjective
<1>0. CASE m = "useCreateReservation"
  <2>1. \/ e = d
        \/ e = [d EXCEPT !.stay = "pending_payment"] /\ d.stay = "none" /\ d.dog # 0
    BY <1>0, MutationsAre DEF useCreateReservation, Change, When
  <2>2. "pending_payment" \in StayStatus
    BY DEF StayStatus
  <2>. QED  BY <2>1, <2>2, StayRewritten, Unchanged, <1>0
<1>1. CASE m = "useCancelReservation"
  <2>0. Mutation(m, d, s).to = useCancelReservation(d).to
    BY <1>1, MutationsAre
  <2>1. /\ e = [d EXCEPT !.stay = IF d.stay = "pending_payment" THEN "abandoned" ELSE "cancelled"]
        /\ d.stay # "none"
    BY <2>0 DEF useCancelReservation, Change, When, Cancellable, Committed
  <2>2. (IF d.stay = "pending_payment" THEN "abandoned" ELSE "cancelled") \in StayStatus
    BY DEF StayStatus
  <2>. QED  BY <2>1, <2>2, StayRewritten, <1>1 DEF EndWriters, StayWriters
<1>2. CASE m = "useAcceptReservation"
  <2>1. e = [d EXCEPT !.stay = "confirmed"] /\ d.stay # "none" /\ "confirmed" \in StayStatus
    BY <1>2, MutationsAre DEF useAcceptReservation, Change, When, StayStatus
  <2>. QED  BY <2>1, StayRewritten, <1>2 DEF EndWriters, StayWriters
<1>3. CASE m = "useRejectReservation"
  <2>1. e = [d EXCEPT !.stay = "rejected"] /\ d.stay # "none" /\ "rejected" \in StayStatus
    BY <1>3, MutationsAre DEF useRejectReservation, Change, When, StayStatus
  <2>. QED  BY <2>1, StayRewritten, <1>3 DEF EndWriters, StayWriters
<1>4. CASE m = "useSubmitReview"
  <2>1. e = [d EXCEPT !.review = 1]
    BY <1>4, MutationsAre DEF useSubmitReview, Change, When
  <2>. QED  BY <2>1, ReviewRewritten, <1>4 DEF ReviewWriters
<1>5. CASE m = "useDeleteReview"
  <2>1. e = [d EXCEPT !.review = 0]
    BY <1>5, MutationsAre DEF useDeleteReview, Change, When
  <2>. QED  BY <2>1, ReviewRewritten, <1>5 DEF ReviewWriters
<1>6. CASE m = "useRemoveReview"
  <2>1. e = [d EXCEPT !.review = 0]
    BY <1>6, MutationsAre DEF useRemoveReview, Change, When
  <2>. QED  BY <2>1, ReviewRewritten, <1>6 DEF ReviewWriters
<1>7. CASE m = "useUpdateReview"
  <2>1. e = [d EXCEPT !.review = Other(d.review)] /\ d.review # 0
    BY <1>7, MutationsAre DEF useUpdateReview, Change, When
  <2>2. Other(d.review) \in 0..2
    BY <2>1, OtherVersion
  <2>. QED  BY <2>1, <2>2, ReviewRewritten, <1>7 DEF ReviewWriters
<1>8. CASE m \in {"useCreateDog", "useAddDog"}
  <2>1. e = Adopted(d)
    BY <1>8, MutationsAre DEF useCreateDog, useAddDog, Change
  <2>2. CASE d.dog = 0
    <3>1. e = [d EXCEPT !.dog = 1, !.portrait = 1] /\ d.stay = "none"
      BY <2>1, <2>2 DEF Adopted
    <3>2. e = WithDog(d, 1, 1)
      BY <3>1, SomeFields
    <3>. QED  BY <3>1, <3>2, DogRewritten, <1>8 DEF DogWriters
  <2>3. CASE d.dog # 0
    BY <2>1, <2>3, Unchanged DEF Adopted
  <2>. QED  BY <2>2, <2>3
<1>10. CASE m = "useUpdateDog"
  <2>1. e = [d EXCEPT !.dog = Other(d.dog)] /\ d.dog # 0
    BY <1>10, MutationsAre DEF useUpdateDog, Change, When
  <2>2. Other(d.dog) \in 0..2 /\ Other(d.dog) # 0
    BY <2>1, OtherVersion
  <2>3. e = WithDog(d, Other(d.dog), d.portrait)
    BY <2>1, SomeFields
  <2>. QED  BY <2>2, <2>3, DogRewritten, <1>10 DEF DogWriters
<1>11. CASE m = "useUploadDogPhoto"
  <2>1. e = [d EXCEPT !.portrait = Other(d.portrait)]
    BY <1>11, MutationsAre DEF useUploadDogPhoto, Change, When
  <2>2. e = WithDog(d, d.dog, Other(d.portrait)) /\ Other(d.portrait) \in 1..2
    BY <2>1, SomeFields, OtherVersion
  <2>. QED  BY <2>2, DogRewritten, <1>11 DEF DogWriters
<1>12. CASE m = "useDeleteDog"
  <2>1. e = [d EXCEPT !.dog = 0] /\ d.stay = "none"
    BY <1>12, MutationsAre DEF useDeleteDog, Change, When
  <2>2. e = WithDog(d, 0, d.portrait)
    BY <2>1, SomeFields
  <2>. QED  BY <2>1, <2>2, DogRewritten, <1>12 DEF DogWriters
<1>13. CASE m = "useVerifyHost"
  <2>1. e = [d EXCEPT !.verified = TRUE]
    BY <1>13, MutationsAre DEF useVerifyHost, Change, When
  <2>2. e = WithAccount(d, d.enabled, TRUE)
    BY <2>1, SomeFields
  <2>. QED  BY <2>2, AccountRewritten, <1>13 DEF AccountWriters
<1>14. CASE m \in {"useBlockUser", "useUnblockUser"}
  <2>1. e = [d EXCEPT !.enabled = TRUE] \/ e = [d EXCEPT !.enabled = FALSE]
    BY <1>14, MutationsAre DEF useBlockUser, useUnblockUser, Change, When
  <2>2. e = WithAccount(d, TRUE, d.verified) \/ e = WithAccount(d, FALSE, d.verified)
    BY <2>1, SomeFields
  <2>. QED  BY <2>2, AccountRewritten, <1>14 DEF AccountWriters
<1>16. CASE m \in {"useApproveGarden", "useRejectGarden"}
  <2>1. PICK status \in GardenStatus : e = [d EXCEPT !.garden = status]
    BY <1>16, MutationsAre DEF useApproveGarden, useRejectGarden, Change, When, GardenStatus
  <2>2. e = WithGarden(d, status, d.active, d.text, d.photos)
    BY <2>1, SomeFields
  <2>. QED  BY <2>2, GardenRewritten, <1>16 DEF GardenWriters
<1>18. CASE m = "useToggleGardenActive"
  <2>. PICK active \in BOOLEAN : active = ~s.active
    OBVIOUS
  <2>1. e = [d EXCEPT !.active = active]
    BY <1>18, MutationsAre DEF useToggleGardenActive, Change, When
  <2>2. e = WithGarden(d, d.garden, active, d.text, d.photos)
    BY <2>1, SomeFields
  <2>. QED  BY <2>2, GardenRewritten, <1>18 DEF GardenWriters
<1>19. CASE m = "useDeleteGarden"
  <2>0. Mutation(m, d, s) = useDeleteGarden(d)
    BY <1>19, MutationsAre
  <2>1. m \in GardenWriters /\ "gone" \in GardenStatus
    BY <1>19 DEF GardenWriters, GardenStatus
  <2>2. \/ e = [d EXCEPT !.garden = "gone", !.photos = <<>>]
        \/ e = [d EXCEPT !.active = FALSE]
    BY <2>0 DEF useDeleteGarden, Change, When
  <2>3. \/ e = WithGarden(d, "gone", d.active, d.text, <<>>)
        \/ e = WithGarden(d, d.garden, FALSE, d.text, d.photos)
    <3>1. e = [d EXCEPT !.active = FALSE] => e = WithGarden(d, d.garden, FALSE, d.text, d.photos)
      BY SomeFields
    <3>2. ASSUME e = [d EXCEPT !.garden = "gone", !.photos = <<>>]
          PROVE  e = WithGarden(d, "gone", d.active, d.text, <<>>)
      BY <3>2, GardenGone
    <3>. QED  BY <2>2, <3>1, <3>2
  <2>. QED  BY <2>1, <2>3, GardenRewritten
<1>20. CASE m = "useCreateGarden"
  <2>0. Mutation(m, d, s) = useCreateGarden(d)
    BY <1>20, MutationsAre
  <2>1. m \in GardenWriters /\ "pending" \in GardenStatus
    BY <1>20 DEF GardenWriters, GardenStatus
  <2>2. e = d \/ e = [d EXCEPT !.garden = "pending", !.active = TRUE, !.photos = <<>>]
    BY <2>0 DEF useCreateGarden, Change
  <2>3. e = d \/ e = WithGarden(d, "pending", TRUE, d.text, <<>>)
    <3>1. PICK pending, yes, none : pending = "pending" /\ yes = TRUE /\ none = <<>>
      OBVIOUS
    <3>2. ASSUME e = [d EXCEPT !.garden = pending, !.active = yes, !.photos = none]
          PROVE  e = WithGarden(d, pending, yes, d.text, none)
      BY <3>2, GardenMade
    <3>. QED  BY <2>2, <3>1, <3>2
  <2>. QED  BY <2>1, <2>3, GardenRewritten, Unchanged
<1>21. CASE m = "useUpdateGarden"
  <2>0. Mutation(m, d, s) = useUpdateGarden(d, s)
    BY <1>21, MutationsAre
  <2>. DEFINE saved == [d EXCEPT !.text = Other(s.text), !.active = s.active]
  <2>1. Mutation(m, d, s).to = IF d.garden = "gone" THEN {} ELSE {saved, Reverted(saved)}
    BY <2>0 DEF useUpdateGarden, Change
  <2>2. m \in GardenWriters /\ Other(s.text) \in 1..2
    BY <1>21, OtherVersion DEF GardenWriters
  <2>3. saved = WithGarden(d, d.garden, s.active, Other(s.text), d.photos)
    BY GardenSaved
  <2>4. Rewrites(m, d, saved)
    BY <1>21, <2>2, <2>3, GardenRewritten
  <2>. HIDE DEF saved
  <2>. QED  BY <2>1, <2>2, <2>4, RevertedRewritten
<1>22. CASE m = "useUploadGardenPhoto"
  <2>0. Mutation(m, d, s) = useUploadGardenPhoto(d, s)
    BY <1>22, MutationsAre
  <2>. DEFINE status == IF s.garden = "approved" THEN "pending" ELSE d.garden
              more(id) == [d EXCEPT !.photos = Append(d.photos, id), !.garden = status]
  <2>1. PICK id \in Unused(d) : e = more(id)
    <3>1. e \in useUploadGardenPhoto(d, s).to
      BY <1>22, MutationsAre
    <3>2. useUploadGardenPhoto(d, s).to
            = IF RoomFor(s) /\ d.garden # "gone"
              THEN {[d EXCEPT !.photos = Append(@, id),
                              !.garden = IF s.garden = "approved" THEN "pending" ELSE @] : id \in Unused(d)}
              ELSE {}
      BY DEF useUploadGardenPhoto, Change
    <3>3. PICK id \in Unused(d) :
            e = [d EXCEPT !.photos = Append(@, id), !.garden = IF s.garden = "approved" THEN "pending" ELSE @]
      BY <3>1, <3>2
    <3>. QED  BY <3>3
  <2>2. id \in PhotoIds \ ToSet(d.photos) /\ MorePhotos(m) = 1
    BY <1>22 DEF Unused, PhotoIds, MorePhotos
  <2>3. Gallery(Append(d.photos, id)) /\ Len(Append(d.photos, id)) <= Len(d.photos) + MorePhotos(m)
    BY <2>2, GalleryGrows
  <2>4. m \in GardenWriters /\ status \in GardenStatus
    BY <1>22 DEF GardenWriters, PhotoWriters, GardenStatus
  <2>. HIDE DEF status
  <2>5. e = WithGarden(d, status, d.active, d.text, Append(d.photos, id))
    BY <2>1, GardenAdorned
  <2>. QED  BY <2>3, <2>4, <2>5, GardenRewritten
<1>23. CASE m = "useDeleteGardenPhoto"
  <2>1. PICK n \in DOMAIN d.photos : e = Reverted([d EXCEPT !.photos = RemoveAt(d.photos, n)])
    BY <1>23, MutationsAre DEF useDeleteGardenPhoto, Change
  <2>2. Gallery(RemoveAt(d.photos, n)) /\ Len(RemoveAt(d.photos, n)) <= Len(d.photos) + MorePhotos(m)
    BY GalleryShrinks, PhotosMore
  <2>3. m \in GardenWriters
    BY <1>23 DEF GardenWriters, PhotoWriters
  <2>4. [d EXCEPT !.photos = RemoveAt(d.photos, n)]
          = WithGarden(d, d.garden, d.active, d.text, RemoveAt(d.photos, n))
    BY SomeFields
  <2>5. Rewrites(m, d, [d EXCEPT !.photos = RemoveAt(d.photos, n)])
    BY <2>2, <2>3, <2>4, GardenRewritten
  <2>. QED  BY <2>1, <2>3, <2>5, RevertedRewritten
<1>24. CASE m = "useReorderGardenPhotos"
  <2>. DEFINE turned == <<Last(s.photos)>> \o Front(s.photos)
  <2>1. e = [d EXCEPT !.photos = turned] /\ s.photos # <<>> /\ Len(d.photos) = Len(s.photos)
    <3>1. e \in useReorderGardenPhotos(d, s).to
      BY <1>24, MutationsAre
    <3>. QED  BY <3>1 DEF useReorderGardenPhotos, Change, When
  <2>2. Gallery(turned) /\ Len(turned) <= Len(d.photos) + MorePhotos(m)
    BY <2>1, GalleryTurns
  <2>3. m \in GardenWriters
    BY <1>24 DEF GardenWriters, PhotoWriters
  <2>. HIDE DEF turned
  <2>4. e = WithGarden(d, d.garden, d.active, d.text, turned)
    BY <2>1, SomeFields
  <2>. QED  BY <2>2, <2>3, <2>4, GardenRewritten
<1>. QED  BY <1>0, <1>1, <1>2, <1>3, <1>4, <1>5, <1>6, <1>7, <1>8, <1>10, <1>11, <1>12, <1>13,
           <1>14, <1>16, <1>18, <1>19, <1>20, <1>21, <1>22, <1>23, <1>24 DEF
           Mutations, StayWriters, ReviewWriters, DogWriters, GardenWriters, PhotoWriters,
           AccountWriters


-----------------------------------------------------------------------------
(* Queries: what of the rows an answer shows, and under which key.         *)

RowReaders ==
    {"useReservations", "useReservation", "useHostReservations", "useReservationDetail", "useHostSchedule"}
StayReaders == RowReaders \cup {"useHostStats"}
EndReaders == {"useEligibleReviews", "useMyReviews"}
ReviewReaders ==
    {"useEligibleReviews", "useMyReviews", "useGardens", "useGarden", "useGardenReviews",
     "useHostGardens", "useHostGarden", "useHostStats", "useAdminReviews"}
DogReaders == {"useDogs", "useDog", "useClientDogs"}
NameReaders == RowReaders
GardenReaders == {"useGardens", "useGarden", "useHostGardens", "useHostGarden", "useAdminGardens"}
TitleReaders == RowReaders \cup EndReaders \cup {"useAdminReviews"}
AccountReaders == {"useAdminUsers"}
BadgeReaders == {"useAdminGardens"}

Queries ==
    StayReaders \cup EndReaders \cup ReviewReaders \cup DogReaders \cup GardenReaders \cup AccountReaders

LEMMA KeysAre ==
    ASSUME NEW d
    PROVE  /\ Query("useReservations", d).key = <<"reservations", "list">>
           /\ Query("useReservation", d).key = <<"reservations", "id">>
           /\ Query("useEligibleReviews", d).key = <<"reviews", "eligible">>
           /\ Query("useMyReviews", d).key = <<"reviews", "mine">>
           /\ Query("useDogs", d).key = <<"dogs">>
           /\ Query("useDog", d).key = <<"dogs", "id">>
           /\ Query("useClientDogs", d).key = <<"booking", "dogs">>
           /\ Query("useGardens", d).key = <<"gardens", "list">>
           /\ Query("useGarden", d).key = <<"gardens", "detail">>
           /\ Query("useGardenReviews", d).key = <<"gardens", "reviews">>
           /\ Query("useHostGardens", d).key = <<"host", "gardens">>
           /\ Query("useHostGarden", d).key = <<"host", "gardens", "id">>
           /\ Query("useHostReservations", d).key = <<"host", "reservations">>
           /\ Query("useReservationDetail", d).key = <<"host", "reservation", "id">>
           /\ Query("useHostStats", d).key = <<"host", "stats">>
           /\ Query("useHostSchedule", d).key = <<"host", "schedule">>
           /\ Query("useAdminGardens", d).key = <<"admin", "gardens">>
           /\ Query("useAdminUsers", d).key = <<"admin", "users">>
           /\ Query("useAdminReviews", d).key = <<"admin", "reviews">>
<1>1. Query("useReservations", d).key = <<"reservations", "list">>
  BY DEF Query, Answer, useReservations
<1>2. Query("useReservation", d).key = <<"reservations", "id">>
  BY DEF Query, Answer, useReservation
<1>3. Query("useEligibleReviews", d).key = <<"reviews", "eligible">>
  BY DEF Query, Answer, useEligibleReviews
<1>4. Query("useMyReviews", d).key = <<"reviews", "mine">>
  BY DEF Query, Answer, useMyReviews
<1>5. Query("useDogs", d).key = <<"dogs">>
  BY DEF Query, Answer, useDogs, DogProfile
<1>6. Query("useDog", d).key = <<"dogs", "id">>
  BY DEF Query, Answer, useDog
<1>7. Query("useClientDogs", d).key = <<"booking", "dogs">>
  BY DEF Query, Answer, useClientDogs
<1>8. Query("useGardens", d).key = <<"gardens", "list">>
  BY DEF Query, Answer, useGardens
<1>9. Query("useGarden", d).key = <<"gardens", "detail">>
  BY DEF Query, Answer, useGarden
<1>10. Query("useGardenReviews", d).key = <<"gardens", "reviews">>
  BY DEF Query, Answer, useGardenReviews
<1>11. Query("useHostGardens", d).key = <<"host", "gardens">>
  BY DEF Query, Answer, useHostGardens
<1>12. Query("useHostGarden", d).key = <<"host", "gardens", "id">>
  BY DEF Query, Answer, useHostGarden
<1>13. Query("useHostReservations", d).key = <<"host", "reservations">>
  BY DEF Query, Answer, useHostReservations
<1>14. Query("useReservationDetail", d).key = <<"host", "reservation", "id">>
  BY DEF Query, Answer, useReservationDetail
<1>15. Query("useHostStats", d).key = <<"host", "stats">>
  BY DEF Query, Answer, useHostStats
<1>16. Query("useHostSchedule", d).key = <<"host", "schedule">>
  BY DEF Query, Answer, useHostSchedule
<1>17. Query("useAdminGardens", d).key = <<"admin", "gardens">>
  BY DEF Query, Answer, useAdminGardens
<1>18. Query("useAdminUsers", d).key = <<"admin", "users">>
  BY DEF Query, Answer, useAdminUsers
<1>19. Query("useAdminReviews", d).key = <<"admin", "reviews">>
  BY DEF Query, Answer, useAdminReviews
<1>. QED  BY <1>1, <1>2, <1>3, <1>4, <1>5, <1>6, <1>7, <1>8, <1>9, <1>10, <1>11, <1>12, <1>13,
           <1>14, <1>15, <1>16, <1>17, <1>18, <1>19

LEMMA SameRow ==
    ASSUME NEW d, NEW e, e.stay = d.stay, SameName(d, e), e.text = d.text
    PROVE  /\ Row(OfClient(e), e) = Row(OfClient(d), d)
           /\ Row(OfHost(e), e) = Row(OfHost(d), d)
           /\ Row(InSchedule(e), e) = Row(InSchedule(d), d)
<1>1. CASE d.stay = "none"
  BY <1>1 DEF Row, OfClient, OfHost, InSchedule, Committed
<1>2. CASE d.stay # "none"
  BY <1>2 DEF Row, OfClient, OfHost, InSchedule, SameName
<1>. QED  BY <1>1, <1>2

LEMMA SameAnswer ==
    ASSUME NEW q \in Queries, NEW d, NEW e,
           q \in StayReaders => e.stay = d.stay,
           q \in EndReaders => SameEnd(d, e),
           q \in ReviewReaders => e.review = d.review,
           q \in DogReaders => SameDog(d, e),
           q \in NameReaders => SameName(d, e),
           q \in GardenReaders => SameGarden(d, e),
           q \in TitleReaders => e.text = d.text,
           q \in AccountReaders => SameAccount(d, e),
           q \in BadgeReaders => SameBadge(d, e)
    PROVE  Query(q, e).data = Query(q, d).data
<1>1. CASE q \in RowReaders
  <2>1. /\ Row(OfClient(e), e) = Row(OfClient(d), d) /\ Row(OfHost(e), e) = Row(OfHost(d), d)
        /\ Row(InSchedule(e), e) = Row(InSchedule(d), d) /\ e.stay = d.stay
    <3>1. e.stay = d.stay /\ SameName(d, e) /\ e.text = d.text
      BY <1>1 DEF StayReaders, NameReaders, TitleReaders
    <3>. QED  BY <3>1, SameRow
  <2>2. CASE q = "useReservations"
    BY <2>1, <2>2 DEF Query, Answer, useReservations
  <2>3. CASE q = "useReservation"
    BY <2>1, <2>3 DEF Query, Answer, useReservation
  <2>4. CASE q = "useHostReservations"
    BY <2>1, <2>4 DEF Query, Answer, useHostReservations
  <2>5. CASE q = "useReservationDetail"
    BY <2>1, <2>5 DEF Query, Answer, useReservationDetail
  <2>6. CASE q = "useHostSchedule"
    BY <2>1, <2>6 DEF Query, Answer, useHostSchedule
  <2>. QED  BY <1>1, <2>2, <2>3, <2>4, <2>5, <2>6 DEF RowReaders
<1>. USE DEF StayReaders, EndReaders, ReviewReaders, DogReaders, GardenReaders, TitleReaders, AccountReaders,
             BadgeReaders
<1>2. CASE q = "useHostStats"
  BY <1>2 DEF Query, Answer, useHostStats, InSchedule
<1>3. CASE q = "useEligibleReviews"
  <2>1. SameEnd(d, e) /\ e.review = d.review /\ e.text = d.text
    BY <1>3
  <2>2. useEligibleReviews(e) = useEligibleReviews(d)
    BY <2>1 DEF Answer, useEligibleReviews, SameEnd
  <2>. QED  BY <1>3, <2>2 DEF Query
<1>4. CASE q = "useMyReviews"
  <2>1. SameEnd(d, e) /\ e.review = d.review /\ e.text = d.text
    BY <1>4
  <2>2. useMyReviews(e) = useMyReviews(d)
    BY <2>1 DEF Answer, useMyReviews, SameEnd
  <2>. QED  BY <1>4, <2>2 DEF Query
<1>5. CASE q \in DogReaders
  <2>1. DogProfile(e) = DogProfile(d)
    BY <1>5 DEF DogProfile, SameDog
  <2>. QED  BY <1>5, <2>1 DEF Query, Answer, useDogs, useDog, useClientDogs
<1>8. CASE q = "useGardens"
  BY <1>8 DEF Query, Answer, useGardens, Offered, SameGarden
<1>9. CASE q = "useGarden"
  BY <1>9 DEF Query, Answer, useGarden, Offered, SameGarden
<1>10. CASE q = "useGardenReviews"
  BY <1>10 DEF Query, Answer, useGardenReviews
<1>11. CASE q = "useHostGardens"
  BY <1>11 DEF Query, Answer, useHostGardens, HostsGarden, SameGarden
<1>12. CASE q = "useHostGarden"
  BY <1>12 DEF Query, Answer, useHostGarden, HostsGarden, SameGarden
<1>17. CASE q = "useAdminGardens"
  BY <1>17 DEF Query, Answer, useAdminGardens, SameGarden, SameBadge
<1>18. CASE q = "useAdminUsers"
  BY <1>18 DEF Query, Answer, useAdminUsers, SameAccount, SameBadge
<1>19. CASE q = "useAdminReviews"
  BY <1>19 DEF Query, Answer, useAdminReviews
<1>. QED  BY <1>1, <1>2, <1>3, <1>4, <1>5, <1>8, <1>9, <1>10, <1>11, <1>12, <1>17, <1>18, <1>19 DEF Queries


-----------------------------------------------------------------------------
(* Which queries a mutation invalidates.                                   *)

LEMMA PrefixesAre ==
    ASSUME NEW a, NEW b, NEW c
    PROVE  /\ IsPrefix(<<a>>, <<a>>) /\ IsPrefix(<<a>>, <<a, b>>) /\ IsPrefix(<<a>>, <<a, b, c>>)
           /\ IsPrefix(<<a, b>>, <<a, b>>) /\ IsPrefix(<<a, b>>, <<a, b, c>>)
           /\ IsPrefix(<<a, b, c>>, <<a, b, c>>)
<1>1. IsPrefix(<<a>>, <<a>>) /\ IsPrefix(<<a>>, <<a, b>>) /\ IsPrefix(<<a>>, <<a, b, c>>)
  BY DEF IsPrefix
<1>2. IsPrefix(<<a, b>>, <<a, b>>) /\ IsPrefix(<<a, b>>, <<a, b, c>>)
  BY DEF IsPrefix
<1>3. IsPrefix(<<a, b, c>>, <<a, b, c>>)
  BY DEF IsPrefix
<1>. QED  BY <1>1, <1>2, <1>3

LEMMA InvalidatesAre ==
    ASSUME NEW d, NEW s
    PROVE  /\ Mutation("useCancelReservation", d, s).invalidates = {<<"reservations">>, <<"reviews">>}
           /\ Mutation("useSubmitReview", d, s).invalidates = invalidateAll
           /\ Mutation("useUpdateReview", d, s).invalidates = invalidateAll
           /\ Mutation("useDeleteReview", d, s).invalidates = invalidateAll
           /\ Mutation("useCreateDog", d, s).invalidates = {<<"dogs">>}
           /\ Mutation("useAddDog", d, s).invalidates = {<<"dogs">>, <<"booking", "dogs">>}
           /\ Mutation("useUpdateDog", d, s).invalidates = {<<"dogs">>, <<"dogs", "id">>}
           /\ Mutation("useUploadDogPhoto", d, s).invalidates = {<<"dogs">>, <<"dogs", "id">>}
           /\ Mutation("useDeleteDog", d, s).invalidates = {<<"dogs">>}
           /\ Mutation("useCreateGarden", d, s).invalidates = {<<"host", "gardens">>}
           /\ Mutation("useUpdateGarden", d, s).invalidates
                = {<<"host", "gardens">>, <<"host", "gardens", "id">>}
           /\ Mutation("useToggleGardenActive", d, s).invalidates = {<<"host", "gardens">>}
           /\ Mutation("useDeleteGarden", d, s).invalidates = {<<"host", "gardens">>}
           /\ Mutation("useUploadGardenPhoto", d, s).invalidates = PhotosKey
           /\ Mutation("useDeleteGardenPhoto", d, s).invalidates = PhotosKey
           /\ Mutation("useReorderGardenPhotos", d, s).invalidates = PhotosKey
           /\ Mutation("useAcceptReservation", d, s).invalidates = DecisionKeys
           /\ Mutation("useRejectReservation", d, s).invalidates = DecisionKeys
           /\ Mutation("useApproveGarden", d, s).invalidates = {<<"admin", "gardens">>}
           /\ Mutation("useRejectGarden", d, s).invalidates = {<<"admin", "gardens">>}
           /\ Mutation("useVerifyHost", d, s).invalidates = {<<"admin", "users">>}
           /\ Mutation("useBlockUser", d, s).invalidates = {<<"admin", "users">>}
           /\ Mutation("useUnblockUser", d, s).invalidates = {<<"admin", "users">>}
           /\ Mutation("useRemoveReview", d, s).invalidates = {<<"admin", "reviews">>}
<1>1. Mutation("useCancelReservation", d, s).invalidates = {<<"reservations">>, <<"reviews">>}
  BY DEF Mutation, Change, useCancelReservation
<1>2. Mutation("useSubmitReview", d, s).invalidates = invalidateAll
  BY DEF Mutation, Change, useSubmitReview
<1>3. Mutation("useUpdateReview", d, s).invalidates = invalidateAll
  BY DEF Mutation, Change, useUpdateReview
<1>4. Mutation("useDeleteReview", d, s).invalidates = invalidateAll
  BY DEF Mutation, Change, useDeleteReview
<1>5. Mutation("useCreateDog", d, s).invalidates = {<<"dogs">>}
  BY DEF Mutation, Change, useCreateDog
<1>6. Mutation("useAddDog", d, s).invalidates = {<<"dogs">>, <<"booking", "dogs">>}
  BY DEF Mutation, Change, useAddDog
<1>7. Mutation("useUpdateDog", d, s).invalidates = {<<"dogs">>, <<"dogs", "id">>}
  BY DEF Mutation, Change, useUpdateDog
<1>8. Mutation("useUploadDogPhoto", d, s).invalidates = {<<"dogs">>, <<"dogs", "id">>}
  BY DEF Mutation, Change, useUploadDogPhoto
<1>9. Mutation("useDeleteDog", d, s).invalidates = {<<"dogs">>}
  BY DEF Mutation, Change, useDeleteDog
<1>10. Mutation("useCreateGarden", d, s).invalidates = {<<"host", "gardens">>}
  BY DEF Mutation, Change, useCreateGarden
<1>11. Mutation("useUpdateGarden", d, s).invalidates
         = {<<"host", "gardens">>, <<"host", "gardens", "id">>}
  BY DEF Mutation, Change, useUpdateGarden
<1>12. Mutation("useToggleGardenActive", d, s).invalidates = {<<"host", "gardens">>}
  BY DEF Mutation, Change, useToggleGardenActive
<1>13. Mutation("useDeleteGarden", d, s).invalidates = {<<"host", "gardens">>}
  BY DEF Mutation, Change, useDeleteGarden
<1>14. Mutation("useUploadGardenPhoto", d, s).invalidates = PhotosKey
  BY DEF Mutation, Change, useUploadGardenPhoto
<1>15. Mutation("useDeleteGardenPhoto", d, s).invalidates = PhotosKey
  BY DEF Mutation, Change, useDeleteGardenPhoto
<1>16. Mutation("useReorderGardenPhotos", d, s).invalidates = PhotosKey
  BY DEF Mutation, Change, useReorderGardenPhotos
<1>17. Mutation("useAcceptReservation", d, s).invalidates = DecisionKeys
  BY DEF Mutation, Change, useAcceptReservation
<1>18. Mutation("useRejectReservation", d, s).invalidates = DecisionKeys
  BY DEF Mutation, Change, useRejectReservation
<1>19. Mutation("useApproveGarden", d, s).invalidates = {<<"admin", "gardens">>}
  BY DEF Mutation, Change, useApproveGarden
<1>20. Mutation("useRejectGarden", d, s).invalidates = {<<"admin", "gardens">>}
  BY DEF Mutation, Change, useRejectGarden
<1>21. Mutation("useVerifyHost", d, s).invalidates = {<<"admin", "users">>}
  BY DEF Mutation, Change, useVerifyHost
<1>22. Mutation("useBlockUser", d, s).invalidates = {<<"admin", "users">>}
  BY DEF Mutation, Change, useBlockUser
<1>23. Mutation("useUnblockUser", d, s).invalidates = {<<"admin", "users">>}
  BY DEF Mutation, Change, useUnblockUser
<1>24. Mutation("useRemoveReview", d, s).invalidates = {<<"admin", "reviews">>}
  BY DEF Mutation, Change, useRemoveReview
<1>. QED  BY <1>1, <1>2, <1>3, <1>4, <1>5, <1>6, <1>7, <1>8, <1>9, <1>10, <1>11, <1>12, <1>13,
           <1>14, <1>15, <1>16, <1>17, <1>18, <1>19, <1>20, <1>21, <1>22, <1>23, <1>24


\* What the mutation m writes, the query q shows.
WritesWhatIsRead(m, q) ==
    \/ m \in StayWriters /\ q \in StayReaders
    \/ m \in EndWriters /\ q \in EndReaders
    \/ m \in ReviewWriters /\ q \in ReviewReaders
    \/ m \in DogWriters /\ q \in DogReaders
    \/ m \in NameWriters /\ q \in NameReaders
    \/ m \in GardenWriters /\ q \in GardenReaders
    \/ m \in TitleWriters /\ q \in TitleReaders
    \/ m \in AccountWriters /\ q \in AccountReaders
    \/ m \in BadgeWriters /\ q \in BadgeReaders

Covered(m, q) ==
    <<m, q>> \in Forgotten \/ \A d : \E prefix \in Mutation(m, d, d).invalidates :
                                         IsPrefix(prefix, Query(q, d).key)

LEMMA CoveredByPrefix ==
    ASSUME NEW m, NEW q, NEW prefix,
           \A d : prefix \in Mutation(m, d, d).invalidates /\ IsPrefix(prefix, Query(q, d).key)
    PROVE  Covered(m, q)
  BY DEF Covered

\* The onSuccess of every mutation reaches every query of the same panel that shows what it
\* writes, but for the lists in Forgotten.
LEMMA WritesAreCovered ==
    ASSUME NEW r \in Roles, NEW m \in MutationsOf(r), NEW q \in QueriesOf(r), WritesWhatIsRead(m, q)
    PROVE  Covered(m, q)
<1>1. CASE /\ m \in {"useCancelReservation"}
           /\ q \in {"useReservations", "useReservation"}
  <2>. SUFFICES ASSUME NEW d
                PROVE  /\ <<"reservations">> \in Mutation(m, d, d).invalidates
                       /\ IsPrefix(<<"reservations">>, Query(q, d).key)
    BY CoveredByPrefix
  <2>1. <<"reservations">> \in Mutation(m, d, d).invalidates
    BY <1>1, InvalidatesAre
  <2>2. IsPrefix(<<"reservations">>, Query(q, d).key)
    <3>1. /\ Query("useReservations", d).key = <<"reservations", "list">>
          /\ Query("useReservation", d).key = <<"reservations", "id">>
      BY KeysAre
    <3>2. /\ IsPrefix(<<"reservations">>, <<"reservations", "list">>)
          /\ IsPrefix(<<"reservations">>, <<"reservations", "id">>)
      BY PrefixesAre
    <3>. QED  BY <1>1, <3>1, <3>2
  <2>. QED  BY <2>1, <2>2
<1>2. CASE /\ m \in {"useCancelReservation"}
           /\ q \in {"useEligibleReviews", "useMyReviews"}
  <2>. SUFFICES ASSUME NEW d
                PROVE  /\ <<"reviews">> \in Mutation(m, d, d).invalidates
                       /\ IsPrefix(<<"reviews">>, Query(q, d).key)
    BY CoveredByPrefix
  <2>1. <<"reviews">> \in Mutation(m, d, d).invalidates
    BY <1>2, InvalidatesAre DEF invalidateAll
  <2>2. IsPrefix(<<"reviews">>, Query(q, d).key)
    <3>1. /\ Query("useEligibleReviews", d).key = <<"reviews", "eligible">>
          /\ Query("useMyReviews", d).key = <<"reviews", "mine">>
      BY KeysAre
    <3>2. /\ IsPrefix(<<"reviews">>, <<"reviews", "eligible">>)
          /\ IsPrefix(<<"reviews">>, <<"reviews", "mine">>)
      BY PrefixesAre
    <3>. QED  BY <1>2, <3>1, <3>2
  <2>. QED  BY <2>1, <2>2
<1>3. CASE /\ m \in {"useSubmitReview", "useUpdateReview", "useDeleteReview"}
           /\ q \in {"useEligibleReviews", "useMyReviews"}
  <2>. SUFFICES ASSUME NEW d
                PROVE  /\ <<"reviews">> \in Mutation(m, d, d).invalidates
                       /\ IsPrefix(<<"reviews">>, Query(q, d).key)
    BY CoveredByPrefix
  <2>1. <<"reviews">> \in Mutation(m, d, d).invalidates
    BY <1>3, InvalidatesAre DEF invalidateAll
  <2>2. IsPrefix(<<"reviews">>, Query(q, d).key)
    <3>1. /\ Query("useEligibleReviews", d).key = <<"reviews", "eligible">>
          /\ Query("useMyReviews", d).key = <<"reviews", "mine">>
      BY KeysAre
    <3>2. /\ IsPrefix(<<"reviews">>, <<"reviews", "eligible">>)
          /\ IsPrefix(<<"reviews">>, <<"reviews", "mine">>)
      BY PrefixesAre
    <3>. QED  BY <1>3, <3>1, <3>2
  <2>. QED  BY <2>1, <2>2
<1>4. CASE /\ m \in {"useSubmitReview", "useUpdateReview", "useDeleteReview"}
           /\ q \in {"useGardens", "useGarden", "useGardenReviews"}
  <2>. SUFFICES ASSUME NEW d
                PROVE  /\ <<"gardens">> \in Mutation(m, d, d).invalidates
                       /\ IsPrefix(<<"gardens">>, Query(q, d).key)
    BY CoveredByPrefix
  <2>1. <<"gardens">> \in Mutation(m, d, d).invalidates
    BY <1>4, InvalidatesAre DEF invalidateAll
  <2>2. IsPrefix(<<"gardens">>, Query(q, d).key)
    <3>1. CASE q = "useGardens"
      <4>1. Query("useGardens", d).key = <<"gardens", "list">>
        BY KeysAre
      <4>2. IsPrefix(<<"gardens">>, <<"gardens", "list">>)
        BY PrefixesAre
      <4>. QED  BY <3>1, <4>1, <4>2
    <3>2. CASE q = "useGarden"
      <4>1. Query("useGarden", d).key = <<"gardens", "detail">>
        BY KeysAre
      <4>2. IsPrefix(<<"gardens">>, <<"gardens", "detail">>)
        BY PrefixesAre
      <4>. QED  BY <3>2, <4>1, <4>2
    <3>3. CASE q = "useGardenReviews"
      <4>1. Query("useGardenReviews", d).key = <<"gardens", "reviews">>
        BY KeysAre
      <4>2. IsPrefix(<<"gardens">>, <<"gardens", "reviews">>)
        BY PrefixesAre
      <4>. QED  BY <3>3, <4>1, <4>2
    <3>. QED  BY <1>4, <3>1, <3>2, <3>3
  <2>. QED  BY <2>1, <2>2
<1>5. CASE /\ m \in {"useCreateDog", "useAddDog", "useUpdateDog", "useUploadDogPhoto",
                 "useDeleteDog"}
           /\ q \in {"useDogs", "useDog"}
  <2>. SUFFICES ASSUME NEW d
                PROVE  /\ <<"dogs">> \in Mutation(m, d, d).invalidates
                       /\ IsPrefix(<<"dogs">>, Query(q, d).key)
    BY CoveredByPrefix
  <2>1. <<"dogs">> \in Mutation(m, d, d).invalidates
    BY <1>5, InvalidatesAre
  <2>2. IsPrefix(<<"dogs">>, Query(q, d).key)
    <3>1. /\ Query("useDogs", d).key = <<"dogs">>
          /\ Query("useDog", d).key = <<"dogs", "id">>
      BY KeysAre
    <3>2. /\ IsPrefix(<<"dogs">>, <<"dogs">>)
          /\ IsPrefix(<<"dogs">>, <<"dogs", "id">>)
      BY PrefixesAre
    <3>. QED  BY <1>5, <3>1, <3>2
  <2>. QED  BY <2>1, <2>2
<1>6. CASE /\ m \in {"useAddDog"}
           /\ q \in {"useClientDogs"}
  <2>. SUFFICES ASSUME NEW d
                PROVE  /\ <<"booking", "dogs">> \in Mutation(m, d, d).invalidates
                       /\ IsPrefix(<<"booking", "dogs">>, Query(q, d).key)
    BY CoveredByPrefix
  <2>1. <<"booking", "dogs">> \in Mutation(m, d, d).invalidates
    BY <1>6, InvalidatesAre
  <2>2. IsPrefix(<<"booking", "dogs">>, Query(q, d).key)
    <3>1. Query("useClientDogs", d).key = <<"booking", "dogs">>
      BY KeysAre
    <3>2. IsPrefix(<<"booking", "dogs">>, <<"booking", "dogs">>)
      BY PrefixesAre
    <3>. QED  BY <1>6, <3>1, <3>2
  <2>. QED  BY <2>1, <2>2
<1>7. CASE /\ m \in {"useCreateGarden", "useUpdateGarden", "useToggleGardenActive",
                 "useDeleteGarden"}
           /\ q \in {"useHostGardens", "useHostGarden"}
  <2>. SUFFICES ASSUME NEW d
                PROVE  /\ <<"host", "gardens">> \in Mutation(m, d, d).invalidates
                       /\ IsPrefix(<<"host", "gardens">>, Query(q, d).key)
    BY CoveredByPrefix
  <2>1. <<"host", "gardens">> \in Mutation(m, d, d).invalidates
    BY <1>7, InvalidatesAre
  <2>2. IsPrefix(<<"host", "gardens">>, Query(q, d).key)
    <3>1. CASE q = "useHostGardens"
      <4>1. Query("useHostGardens", d).key = <<"host", "gardens">>
        BY KeysAre
      <4>2. IsPrefix(<<"host", "gardens">>, <<"host", "gardens">>)
        BY PrefixesAre
      <4>. QED  BY <3>1, <4>1, <4>2
    <3>2. CASE q = "useHostGarden"
      <4>1. Query("useHostGarden", d).key = <<"host", "gardens", "id">>
        BY KeysAre
      <4>2. IsPrefix(<<"host", "gardens">>, <<"host", "gardens", "id">>)
        BY PrefixesAre
      <4>. QED  BY <3>2, <4>1, <4>2
    <3>. QED  BY <1>7, <3>1, <3>2
  <2>. QED  BY <2>1, <2>2
<1>8. CASE /\ m \in {"useUploadGardenPhoto", "useDeleteGardenPhoto", "useReorderGardenPhotos"}
           /\ q \in {"useHostGarden"}
  <2>. SUFFICES ASSUME NEW d
                PROVE  /\ <<"host", "gardens", "id">> \in Mutation(m, d, d).invalidates
                       /\ IsPrefix(<<"host", "gardens", "id">>, Query(q, d).key)
    BY CoveredByPrefix
  <2>1. <<"host", "gardens", "id">> \in Mutation(m, d, d).invalidates
    BY <1>8, InvalidatesAre DEF PhotosKey
  <2>2. IsPrefix(<<"host", "gardens", "id">>, Query(q, d).key)
    <3>1. Query("useHostGarden", d).key = <<"host", "gardens", "id">>
      BY KeysAre
    <3>2. IsPrefix(<<"host", "gardens", "id">>, <<"host", "gardens", "id">>)
      BY PrefixesAre
    <3>. QED  BY <1>8, <3>1, <3>2
  <2>. QED  BY <2>1, <2>2
<1>9. CASE /\ m \in {"useAcceptReservation", "useRejectReservation"}
           /\ q \in {"useHostReservations"}
  <2>. SUFFICES ASSUME NEW d
                PROVE  /\ <<"host", "reservations">> \in Mutation(m, d, d).invalidates
                       /\ IsPrefix(<<"host", "reservations">>, Query(q, d).key)
    BY CoveredByPrefix
  <2>1. <<"host", "reservations">> \in Mutation(m, d, d).invalidates
    BY <1>9, InvalidatesAre DEF DecisionKeys
  <2>2. IsPrefix(<<"host", "reservations">>, Query(q, d).key)
    <3>1. Query("useHostReservations", d).key = <<"host", "reservations">>
      BY KeysAre
    <3>2. IsPrefix(<<"host", "reservations">>, <<"host", "reservations">>)
      BY PrefixesAre
    <3>. QED  BY <1>9, <3>1, <3>2
  <2>. QED  BY <2>1, <2>2
<1>10. CASE /\ m \in {"useAcceptReservation", "useRejectReservation"}
            /\ q \in {"useHostStats"}
  <2>. SUFFICES ASSUME NEW d
                PROVE  /\ <<"host", "stats">> \in Mutation(m, d, d).invalidates
                       /\ IsPrefix(<<"host", "stats">>, Query(q, d).key)
    BY CoveredByPrefix
  <2>1. <<"host", "stats">> \in Mutation(m, d, d).invalidates
    BY <1>10, InvalidatesAre DEF DecisionKeys
  <2>2. IsPrefix(<<"host", "stats">>, Query(q, d).key)
    <3>1. Query("useHostStats", d).key = <<"host", "stats">>
      BY KeysAre
    <3>2. IsPrefix(<<"host", "stats">>, <<"host", "stats">>)
      BY PrefixesAre
    <3>. QED  BY <1>10, <3>1, <3>2
  <2>. QED  BY <2>1, <2>2
<1>11. CASE /\ m \in {"useApproveGarden", "useRejectGarden"}
            /\ q \in {"useAdminGardens"}
  <2>. SUFFICES ASSUME NEW d
                PROVE  /\ <<"admin", "gardens">> \in Mutation(m, d, d).invalidates
                       /\ IsPrefix(<<"admin", "gardens">>, Query(q, d).key)
    BY CoveredByPrefix
  <2>1. <<"admin", "gardens">> \in Mutation(m, d, d).invalidates
    BY <1>11, InvalidatesAre
  <2>2. IsPrefix(<<"admin", "gardens">>, Query(q, d).key)
    <3>1. Query("useAdminGardens", d).key = <<"admin", "gardens">>
      BY KeysAre
    <3>2. IsPrefix(<<"admin", "gardens">>, <<"admin", "gardens">>)
      BY PrefixesAre
    <3>. QED  BY <1>11, <3>1, <3>2
  <2>. QED  BY <2>1, <2>2
<1>12. CASE /\ m \in {"useVerifyHost", "useBlockUser", "useUnblockUser"}
            /\ q \in {"useAdminUsers"}
  <2>. SUFFICES ASSUME NEW d
                PROVE  /\ <<"admin", "users">> \in Mutation(m, d, d).invalidates
                       /\ IsPrefix(<<"admin", "users">>, Query(q, d).key)
    BY CoveredByPrefix
  <2>1. <<"admin", "users">> \in Mutation(m, d, d).invalidates
    BY <1>12, InvalidatesAre
  <2>2. IsPrefix(<<"admin", "users">>, Query(q, d).key)
    <3>1. Query("useAdminUsers", d).key = <<"admin", "users">>
      BY KeysAre
    <3>2. IsPrefix(<<"admin", "users">>, <<"admin", "users">>)
      BY PrefixesAre
    <3>. QED  BY <1>12, <3>1, <3>2
  <2>. QED  BY <2>1, <2>2
<1>13. CASE /\ m \in {"useRemoveReview"}
            /\ q \in {"useAdminReviews"}
  <2>. SUFFICES ASSUME NEW d
                PROVE  /\ <<"admin", "reviews">> \in Mutation(m, d, d).invalidates
                       /\ IsPrefix(<<"admin", "reviews">>, Query(q, d).key)
    BY CoveredByPrefix
  <2>1. <<"admin", "reviews">> \in Mutation(m, d, d).invalidates
    BY <1>13, InvalidatesAre
  <2>2. IsPrefix(<<"admin", "reviews">>, Query(q, d).key)
    <3>1. Query("useAdminReviews", d).key = <<"admin", "reviews">>
      BY KeysAre
    <3>2. IsPrefix(<<"admin", "reviews">>, <<"admin", "reviews">>)
      BY PrefixesAre
    <3>. QED  BY <1>13, <3>1, <3>2
  <2>. QED  BY <2>1, <2>2
<1>14. CASE <<m, q>> \in Forgotten
  BY <1>14 DEF Covered
<1>15. CASE r = "client"
  BY <1>15, <1>1, <1>2, <1>3, <1>4, <1>5, <1>6, <1>14 DEF WritesWhatIsRead, MutationsOf,
     QueriesOf, Forgotten, EndWriters, StayWriters, ReviewWriters, DogWriters, NameWriters,
     GardenWriters, PhotoWriters, TitleWriters, AccountWriters, BadgeWriters, RowReaders, StayReaders, EndReaders,
     ReviewReaders, DogReaders, NameReaders, GardenReaders, TitleReaders, AccountReaders, BadgeReaders
<1>16. CASE r = "host"
  BY <1>16, <1>7, <1>8, <1>9, <1>10, <1>14 DEF WritesWhatIsRead, MutationsOf,
     QueriesOf, Forgotten, EndWriters, StayWriters, ReviewWriters, DogWriters, NameWriters,
     GardenWriters, PhotoWriters, TitleWriters, AccountWriters, BadgeWriters, RowReaders, StayReaders, EndReaders,
     ReviewReaders, DogReaders, NameReaders, GardenReaders, TitleReaders, AccountReaders, BadgeReaders
<1>17. CASE r = "admin"
  BY <1>17, <1>11, <1>12, <1>13, <1>14 DEF WritesWhatIsRead, MutationsOf,
     QueriesOf, Forgotten, EndWriters, StayWriters, ReviewWriters, DogWriters, NameWriters,
     GardenWriters, PhotoWriters, TitleWriters, AccountWriters, BadgeWriters, RowReaders, StayReaders, EndReaders,
     ReviewReaders, DogReaders, NameReaders, GardenReaders, TitleReaders, AccountReaders, BadgeReaders
<1>. QED  BY <1>15, <1>16, <1>17 DEF Roles


LEMMA ChangesAreCovered ==
    ASSUME NEW r \in Roles, NEW m \in MutationsOf(r), NEW q \in QueriesOf(r),
           NEW d, RowsFit(d), NEW s, RowsFit(s), NEW e \in Mutation(m, d, s).to,
           Query(q, e).data # Query(q, d).data
    PROVE  Covered(m, q)
<1>1. m \in Mutations /\ q \in Queries
  BY DEF Roles, MutationsOf, QueriesOf, Mutations, Queries, StayWriters, ReviewWriters, DogWriters,
         GardenWriters, PhotoWriters, AccountWriters, RowReaders, StayReaders, EndReaders, ReviewReaders,
         DogReaders, GardenReaders, AccountReaders
<1>2. Rewrites(m, d, e)
  BY <1>1, RowsRewritten
<1>3. WritesWhatIsRead(m, q)
  <2>. SUFFICES ASSUME ~WritesWhatIsRead(m, q) PROVE FALSE
    OBVIOUS
  <2>1. /\ q \in StayReaders => e.stay = d.stay
        /\ q \in EndReaders => SameEnd(d, e)
        /\ q \in ReviewReaders => e.review = d.review
        /\ q \in DogReaders => SameDog(d, e)
        /\ q \in NameReaders => SameName(d, e)
        /\ q \in GardenReaders => SameGarden(d, e)
        /\ q \in TitleReaders => e.text = d.text
        /\ q \in AccountReaders => SameAccount(d, e)
        /\ q \in BadgeReaders => SameBadge(d, e)
    BY <1>2 DEF Rewrites, WritesWhatIsRead
  <2>2. Query(q, e).data = Query(q, d).data
    BY <1>1, <2>1, SameAnswer
  <2>. QED  BY <2>2
<1>. QED  BY <1>3, WritesAreCovered

-----------------------------------------------------------------------------
(* The entries of the cache.                                               *)

\* An entry of the query q, where the user's last write is the one of the record last.  What is
\* fetched again or failed is stale; what counts as fresh shows that write, and so will what is
\* being fetched, list and all.
EntryFits(q, entry, last, rows) ==
    /\ entry \in EntryType
    /\ entry.at <= Len(rows) /\ entry.fetch <= Len(rows) /\ entry.listed <= Len(rows)
    /\ entry.at # 0 => Query(q, rows[entry.at]).found
    /\ entry.fetch > 0 /\ q \in InTwoSteps => entry.listed # 0
    /\ entry.fetch = Idle => entry.listed = 0
    /\ entry.at # 0 /\ (entry.fetch # Idle \/ entry.error) => entry.stale
    /\ \/ <<last.by, q>> \in Forgotten
       \/ /\ entry.at # 0 /\ ~entry.stale /\ ~entry.raced => entry.at >= last.at
          /\ entry.fetch > 0 /\ ~entry.raced => entry.fetch >= last.at
          /\ entry.listed # 0 /\ ~entry.raced => entry.listed >= last.at

LEMMA NoEntryFits ==
    ASSUME NEW q, NEW last, NEW rows, Len(rows) \in Nat
    PROVE  EntryFits(q, NoEntry, last, rows)
  BY DEF EntryFits, NoEntry, EntryType, Idle

LEMMA StartedIs ==
    ASSUME NEW entry \in EntryType
    PROVE  /\ Started(entry) \in EntryType
           /\ Started(entry).at = entry.at /\ Started(entry).stale = entry.stale
           /\ Started(entry).fetch = Asked /\ Started(entry).listed = 0
<1>1. Asked \in Nat
  BY DEF Asked
<1>2. PICK none \in 0..1 : none = 0
  OBVIOUS
<1>3. PICK unlisted \in Nat : unlisted = 0
  OBVIOUS
<1>. DEFINE new == [entry EXCEPT !.fetch = Asked, !.listed = unlisted, !.tries = none, !.raced = FALSE,
                                 !.error = @ /\ entry.at # 0]
<1>4. Started(entry) = new
  BY <1>2, <1>3 DEF Started
<1>5. new \in EntryType
  BY <1>1 DEF EntryType
<1>6. new.at = entry.at /\ new.stale = entry.stale /\ new.fetch = Asked /\ new.listed = unlisted
  BY <1>1 DEF EntryType
<1>. QED  BY <1>3, <1>4, <1>5, <1>6

LEMMA StartedFits ==
    ASSUME NEW q, NEW last, NEW rows, Len(rows) \in Nat, NEW entry, EntryFits(q, entry, last, rows),
           entry.at = 0 \/ entry.stale
    PROVE  EntryFits(q, Started(entry), last, rows)
<1>1. entry \in EntryType
  BY DEF EntryFits
<1>. QED  BY <1>1, StartedIs DEF EntryFits, Asked

LEMMA MountingFits ==
    ASSUME NEW q, NEW last, NEW rows, Len(rows) \in Nat, NEW entry, EntryFits(q, entry, last, rows)
    PROVE  EntryFits(q, Mounting(entry), last, rows)
  BY StartedFits DEF Mounting

LEMMA ListServedFits ==
    ASSUME NEW q, NEW last, NEW rows, Len(rows) \in Nat \ {0}, NEW entry,
           EntryFits(q, entry, last, rows), entry.fetch = Asked, last.at \in 0..Len(rows)
    PROVE  EntryFits(q, [entry EXCEPT !.listed = Len(rows)], last, rows)
  BY DEF EntryFits, EntryType, Idle, Asked

LEMMA ServedFits ==
    ASSUME NEW q, NEW last, NEW rows, Len(rows) \in Nat \ {0}, NEW entry,
           EntryFits(q, entry, last, rows), entry.fetch = Asked, last.at \in 0..Len(rows),
           q \in InTwoSteps => entry.listed # 0
    PROVE  EntryFits(q, [entry EXCEPT !.fetch = Len(rows)], last, rows)
  BY DEF EntryFits, EntryType, Idle, Asked

LEMMA AnsweredFits ==
    ASSUME NEW q, NEW last, NEW rows, Len(rows) \in Nat, NEW entry, EntryFits(q, entry, last, rows),
           entry.fetch > 0, NEW at \in {entry.listed, entry.fetch}, at # 0, Query(q, rows[at]).found
    PROVE  EntryFits(q, [NoEntry EXCEPT !.at = at, !.raced = entry.raced], last, rows)
<1>. DEFINE answered == [NoEntry EXCEPT !.at = at, !.raced = entry.raced]
<1>1. /\ entry \in EntryType /\ entry.fetch \in Nat /\ entry.listed \in Nat /\ entry.raced \in BOOLEAN
      /\ at \in Nat
  BY DEF EntryFits, EntryType, Idle
<1>2. NoEntry \in EntryType
  BY DEF EntryType, NoEntry, Idle
<1>3. NoEntry.fetch = Idle /\ ~NoEntry.stale /\ ~NoEntry.error /\ NoEntry.listed = 0
  BY DEF NoEntry
<1>4. /\ answered \in EntryType /\ answered.at = at /\ answered.fetch = NoEntry.fetch
      /\ answered.stale = NoEntry.stale /\ answered.error = NoEntry.error
      /\ answered.raced = entry.raced /\ answered.listed = NoEntry.listed
  BY <1>1, <1>2 DEF EntryType
<1>. HIDE DEF answered
<1>5. at <= Len(rows)
  BY <1>1 DEF EntryFits
<1>6. <<last.by, q>> \notin Forgotten /\ ~entry.raced => at >= last.at
  BY <1>1 DEF EntryFits
<1>7. EntryFits(q, answered, last, rows)
  BY <1>1, <1>3, <1>4, <1>5, <1>6 DEF EntryFits, Idle
<1>. QED  BY <1>7 DEF answered

LEMMA FailedFits ==
    ASSUME NEW q, NEW last, NEW rows, Len(rows) \in Nat, NEW entry, EntryFits(q, entry, last, rows),
           entry.fetch > 0
    PROVE  /\ EntryFits(q, [entry EXCEPT !.fetch = Asked, !.listed = 0, !.tries = 1], last, rows)
           /\ EntryFits(q, [entry EXCEPT !.fetch = Idle, !.listed = 0, !.tries = 0, !.error = TRUE], last,
                        rows)
<1>1. entry \in EntryType /\ (entry.at # 0 => entry.stale) /\ Asked \in Nat
  BY DEF EntryFits, Idle, Asked
<1>2. PICK none \in 0..1 : none = 0
  OBVIOUS
<1>3. PICK one \in 0..1 : one = 1
  OBVIOUS
<1>0. PICK unlisted \in Nat : unlisted = 0
  OBVIOUS
<1>. DEFINE again == [entry EXCEPT !.fetch = Asked, !.listed = unlisted, !.tries = one]
            failed == [entry EXCEPT !.fetch = Idle, !.listed = unlisted, !.tries = none, !.error = TRUE]
<1>4. /\ again \in EntryType /\ again.at = entry.at /\ again.fetch = Asked /\ again.stale = entry.stale
      /\ again.listed = unlisted
  BY <1>1 DEF EntryType
<1>5. /\ failed \in EntryType /\ failed.at = entry.at /\ failed.fetch = Idle /\ failed.stale = entry.stale
      /\ failed.listed = unlisted
  BY <1>1 DEF EntryType
<1>. HIDE DEF again, failed
<1>6. EntryFits(q, again, last, rows)
  BY <1>0, <1>1, <1>4 DEF EntryFits, Asked
<1>7. EntryFits(q, failed, last, rows)
  BY <1>0, <1>1, <1>5 DEF EntryFits, Idle
<1>. QED  BY <1>0, <1>2, <1>3, <1>6, <1>7 DEF again, failed

LEMMA AgedFits ==
    ASSUME NEW q, NEW last, NEW rows, Len(rows) \in Nat, NEW entry, EntryFits(q, entry, last, rows)
    PROVE  EntryFits(q, [entry EXCEPT !.stale = TRUE], last, rows)
  BY DEF EntryFits, EntryType, Idle

\* Once invalidated, an entry is up to any write: it is fetched again, empty, or marked.
LEMMA InvalidatedFits ==
    ASSUME NEW q, NEW last, NEW next, NEW rows, Len(rows) \in Nat, EntryFits(q, cache[q], last, rows)
    PROVE  EntryFits(q, Invalidated(q), next, rows)
<1>. DEFINE entry == cache[q]
<1>1. entry \in EntryType
  BY DEF EntryFits
<1>2. CASE q \in Mounted /\ ~(entry.at = 0 /\ entry.fetch # Idle)
  <2>1. Invalidated(q) = Started([entry EXCEPT !.stale = TRUE])
    BY <1>2 DEF Invalidated
  <2>. DEFINE marked == [entry EXCEPT !.stale = TRUE]
  <2>2. marked \in EntryType /\ marked.at = entry.at /\ marked.stale
    BY <1>1 DEF EntryType
  <2>. HIDE DEF marked
  <2>3. EntryFits(q, Started(marked), next, rows)
    BY <1>1, <2>2, StartedIs DEF EntryFits, Asked
  <2>. QED  BY <2>1, <2>3 DEF marked
<1>3. CASE /\ ~(q \in Mounted /\ ~(entry.at = 0 /\ entry.fetch # Idle))
           /\ entry.at = 0 /\ entry.fetch = Idle
  <2>1. Invalidated(q) = entry
    BY <1>3 DEF Invalidated
  <2>. QED  BY <1>1, <1>3, <2>1 DEF EntryFits, EntryType, Idle
<1>4. CASE /\ ~(q \in Mounted /\ ~(entry.at = 0 /\ entry.fetch # Idle))
           /\ ~(entry.at = 0 /\ entry.fetch = Idle)
  <2>1. Invalidated(q) = [entry EXCEPT !.stale = TRUE, !.raced = entry.fetch # Idle]
    BY <1>4 DEF Invalidated
  <2>2. PICK raced \in BOOLEAN : raced = (entry.fetch # Idle)
    OBVIOUS
  <2>. DEFINE marked == [entry EXCEPT !.stale = TRUE, !.raced = raced]
  <2>3. /\ marked \in EntryType /\ marked.at = entry.at /\ marked.fetch = entry.fetch
        /\ marked.stale /\ (marked.fetch # Idle => marked.raced) /\ marked.listed = entry.listed
    BY <1>1, <2>2 DEF EntryType
  <2>. HIDE DEF marked
  <2>4. EntryFits(q, marked, next, rows)
    BY <1>1, <2>3 DEF EntryFits, EntryType, Idle
  <2>. QED  BY <2>1, <2>2, <2>4 DEF marked
<1>. QED  BY <1>2, <1>3, <1>4

LEMMA EntryOutlives ==
    ASSUME NEW q, NEW last, NEW rows \in Seq(RowsType), NEW d \in RowsType, NEW entry,
           EntryFits(q, entry, last, rows)
    PROVE  EntryFits(q, entry, last, Append(rows, d))
<1>1. Len(rows) \in Nat /\ Len(Append(rows, d)) = Len(rows) + 1
  OBVIOUS
<1>2. entry \in EntryType /\ (entry.at # 0 => Append(rows, d)[entry.at] = rows[entry.at])
  BY <1>1 DEF EntryFits, EntryType
<1>. QED  BY <1>1, <1>2 DEF EntryFits, EntryType, Idle


-----------------------------------------------------------------------------
(* The invariant                                                           *)

LogFits(rows) == rows \in Seq(RowsType) /\ rows # <<>> /\ \A n \in 1..Len(rows) : RowsFit(rows[n])

\* Of the rows the page read, the service would not refuse the mutation outright.
Accepts(m, d) == Mutation(m, d, d).to # {} \/ (m = "useDeleteDog" /\ d.stay # "none")

\* What is sent whatever the page read; a garden may be saved from a blank form.
Unread == {"useCreateDog", "useAddDog", "useCreateGarden", "useCreateReservation"}
Allowed(m, from, rows) ==
    /\ from \in 0..Len(rows)
    /\ \/ m \in Unread
       \/ from # 0 /\ Accepts(m, rows[from])
       \/ from = 0 /\ m = "useUpdateGarden"

WriteReached(m, wrote, rows, r) ==
    wrote # 0 =>
      /\ wrote >= 2
      /\ \A q \in QueriesOf(r) :
           Query(q, rows[wrote]).data # Query(q, rows[wrote - 1]).data => Covered(m, q)

\* A mutation under way was offered by what the page had read, and a confirmed write changed
\* nothing but what the mutation's onSuccess reaches.
CallFits(m, call, rows, r) ==
    /\ call \in [phase: {"none", "sent", "ok", "failed", "settling"}, from: Nat, counted: Nat, wrote: Nat,
                 waits: SUBSET QueriesOf(r)]
    /\ call.from <= Len(rows) /\ call.wrote <= Len(rows) /\ call.counted <= Len(rows)
    /\ call.phase = "sent" => Allowed(m, call.from, rows)
    /\ call.counted # 0 => m = "useUploadGardenPhoto" /\ RoomFor(rows[call.counted])
    /\ WriteReached(m, call.wrote, rows, r)

\* The button of an open dialog sends what the page offered; only the form of a dog asks more.
BoxFits(box, from, rows, r) ==
    /\ from \in 0..Len(rows)
    /\ box.sends # "nothing" =>
         /\ box.sends \in MutationsOf(r) /\ Allowed(box.sends, from, rows)
         /\ box.asks = {} \/ (box.asks = {"useDog"} /\ box.sends = "useUpdateDog")

\* The uploads whose photos are counted and not yet there.
Upload(n) == <<"useUploadGardenPhoto", n>>
Counted(call) == call.phase = "sent" /\ call.counted # 0
Uploading == {n \in 1..Clicks : Upload(n) \in DOMAIN calls /\ Counted(calls[Upload(n)])}

Basics ==
    role \in Roles /\ LogFits(log) /\ page \in PagesOf(role) \cup {"none"} /\ budget \in BudgetType
CacheFits ==
    /\ cache \in [QueriesOf(role) -> EntryType]
    /\ \A q \in QueriesOf(role) : EntryFits(q, cache[q], mine[q], log)
CallsFit ==
    /\ DOMAIN calls = CallsOf(role) /\ calls = [c \in CallsOf(role) |-> calls[c]]
    /\ \A c \in CallsOf(role) : CallFits(c[1], calls[c], log, role)
MineFits == DOMAIN mine = QueriesOf(role) /\ \A q \in QueriesOf(role) : mine[q].at \in 0..Len(log)
DialogFits == BoxFits(dialog.box, dialog.from, log, role)

\* There is room for every upload counted so far.
GalleryFits ==
    /\ \A n \in 1..Len(log) : Len(log[n].photos) <= MaxPhotos + Clicks
    /\ Len(Rows.photos) + Cardinality(Uploading) <= MaxPhotos + Clicks

PanelsInv == Basics /\ CacheFits /\ CallsFit /\ MineFits /\ DialogFits /\ GalleryFits

LEMMA LogGrows ==
    ASSUME NEW rows, LogFits(rows), NEW d, RowsFit(d)
    PROVE  /\ LogFits(Append(rows, d)) /\ Len(Append(rows, d)) = Len(rows) + 1
           /\ Append(rows, d)[Len(rows) + 1] = d
           /\ \A n \in 1..Len(rows) : Append(rows, d)[n] = rows[n]
<1>1. rows \in Seq(RowsType) /\ d \in RowsType /\ Len(rows) \in Nat
  BY DEF LogFits, RowsFit
<1>2. /\ Append(rows, d) \in Seq(RowsType) /\ Len(Append(rows, d)) = Len(rows) + 1
      /\ Append(rows, d)[Len(rows) + 1] = d
      /\ \A n \in 1..Len(rows) : Append(rows, d)[n] = rows[n]
  BY <1>1, AppendProperties
<1>3. Append(rows, d) # <<>>
  BY <1>1, <1>2, EmptySeq
<1>4. \A n \in 1..Len(rows) + 1 : RowsFit(Append(rows, d)[n])
  BY <1>1, <1>2 DEF LogFits
<1>. HIDE DEF LogFits
<1>. QED  BY <1>1, <1>2, <1>3, <1>4 DEF LogFits

LEMMA RowsAre ==
    ASSUME NEW rows, LogFits(rows)
    PROVE  /\ Len(rows) \in Nat \ {0} /\ RowsFit(Last(rows)) /\ Last(rows) = rows[Len(rows)]
  BY EmptySeq DEF LogFits, Last

LEMMA AllowedOutlives ==
    ASSUME NEW m, NEW from, NEW rows, LogFits(rows), NEW d, RowsFit(d), Allowed(m, from, rows)
    PROVE  Allowed(m, from, Append(rows, d))
<1>1. Len(rows) \in Nat /\ from \in 0..Len(rows)
  BY RowsAre DEF Allowed
<1>. DEFINE more == Append(rows, d)
<1>2. Len(more) = Len(rows) + 1 /\ \A n \in 1..Len(rows) : more[n] = rows[n]
  BY LogGrows
<1>. HIDE DEF more
<1>3. from # 0 => more[from] = rows[from]
  BY <1>1, <1>2
<1>4. from \in 0..Len(more)
  BY <1>1, <1>2
<1>5. Allowed(m, from, more)
  BY <1>3, <1>4 DEF Allowed
<1>. QED  BY <1>5 DEF more

LEMMA CallOutlives ==
    ASSUME NEW m, NEW call, NEW rows, LogFits(rows), NEW d, RowsFit(d), NEW r, CallFits(m, call,
           rows, r)
    PROVE  CallFits(m, call, Append(rows, d), r)
<1>1. /\ Len(rows) \in Nat /\ call.from \in Nat /\ call.wrote \in Nat /\ call.counted \in Nat
      /\ call.counted <= Len(rows)
  BY RowsAre DEF CallFits
<1>2. call.phase = "sent" => Allowed(m, call.from, Append(rows, d))
  BY AllowedOutlives DEF CallFits
<1>3. call.wrote # 0 => /\ Append(rows, d)[call.wrote] = rows[call.wrote]
                        /\ Append(rows, d)[call.wrote - 1] = rows[call.wrote - 1]
  BY <1>1, LogGrows DEF CallFits, WriteReached
<1>4. call.counted # 0 => Append(rows, d)[call.counted] = rows[call.counted]
  BY <1>1, LogGrows
<1>. QED  BY <1>1, <1>2, <1>3, <1>4, LogGrows DEF CallFits, WriteReached

LEMMA BoxOutlives ==
    ASSUME NEW box, NEW from, NEW rows, LogFits(rows), NEW d, RowsFit(d), NEW r,
           BoxFits(box, from, rows, r)
    PROVE  BoxFits(box, from, Append(rows, d), r)
<1>1. from \in 0..Len(rows) /\ Len(rows) \in Nat /\ Len(Append(rows, d)) = Len(rows) + 1
  BY RowsAre, LogGrows DEF BoxFits
<1>2. Allowed(box.sends, from, rows) => Allowed(box.sends, from, Append(rows, d))
  BY AllowedOutlives
<1>. QED  BY <1>1, <1>2 DEF BoxFits


-----------------------------------------------------------------------------
(* What the services accept, and what the pages offer.                     *)

LEMMA ServicesAccept ==
    ASSUME NEW d, RowsFit(d)
    PROVE  /\ (d.stay \in Cancellable => Accepts("useCancelReservation", d))
           /\ (d.stay = "awaiting_host" => Accepts("useAcceptReservation", d))
           /\ (d.stay = "awaiting_host" => Accepts("useRejectReservation", d))
           /\ (d.stay = "done" /\ d.review = 0 => Accepts("useSubmitReview", d))
           /\ (d.review # 0 => Accepts("useUpdateReview", d))
           /\ (d.review # 0 => Accepts("useDeleteReview", d))
           /\ (d.review # 0 => Accepts("useRemoveReview", d))
           /\ (d.dog # 0 => Accepts("useUpdateDog", d))
           /\ (d.dog # 0 => Accepts("useUploadDogPhoto", d))
           /\ (d.dog # 0 => Accepts("useDeleteDog", d))
           /\ (d.garden # "gone" => Accepts("useUpdateGarden", d))
           /\ (d.garden # "gone" => Accepts("useToggleGardenActive", d))
           /\ (d.garden # "gone" => Accepts("useDeleteGarden", d))
           /\ (d.garden # "gone" => Accepts("useApproveGarden", d))
           /\ (d.garden # "gone" => Accepts("useRejectGarden", d))
           /\ (d.garden # "gone" /\ Len(d.photos) < MaxPhotos => Accepts("useUploadGardenPhoto", d))
           /\ (d.photos # <<>> => Accepts("useDeleteGardenPhoto", d))
           /\ (d.photos # <<>> => Accepts("useReorderGardenPhotos", d))
           /\ (d.role = "host" => Accepts("useVerifyHost", d))
           /\ (d.role # "admin" => Accepts("useBlockUser", d))
           /\ Accepts("useUnblockUser", d)
<1>1. d.stay \in Cancellable => Accepts("useCancelReservation", d)
  <2>1. Mutation("useCancelReservation", d, d) = useCancelReservation(d)
    BY DEF Mutation
  <2>2. d.stay \in Cancellable => \E e : e \in useCancelReservation(d).to
    BY DEF useCancelReservation, Change, When
  <2>. QED  BY <2>1, <2>2 DEF Accepts
<1>2. d.stay = "awaiting_host" => Accepts("useAcceptReservation", d)
  <2>1. Mutation("useAcceptReservation", d, d) = useAcceptReservation(d)
    BY DEF Mutation
  <2>2. d.stay = "awaiting_host" => \E e : e \in useAcceptReservation(d).to
    BY DEF useAcceptReservation, Change, When
  <2>. QED  BY <2>1, <2>2 DEF Accepts
<1>3. d.stay = "awaiting_host" => Accepts("useRejectReservation", d)
  <2>1. Mutation("useRejectReservation", d, d) = useRejectReservation(d)
    BY DEF Mutation
  <2>2. d.stay = "awaiting_host" => \E e : e \in useRejectReservation(d).to
    BY DEF useRejectReservation, Change, When
  <2>. QED  BY <2>1, <2>2 DEF Accepts
<1>4. d.stay = "done" /\ d.review = 0 => Accepts("useSubmitReview", d)
  <2>1. Mutation("useSubmitReview", d, d) = useSubmitReview(d)
    BY DEF Mutation
  <2>2. d.stay = "done" /\ d.review = 0 => \E e : e \in useSubmitReview(d).to
    BY DEF useSubmitReview, Change, When
  <2>. QED  BY <2>1, <2>2 DEF Accepts
<1>5. d.review # 0 => Accepts("useUpdateReview", d)
  <2>1. Mutation("useUpdateReview", d, d) = useUpdateReview(d)
    BY DEF Mutation
  <2>2. d.review # 0 => \E e : e \in useUpdateReview(d).to
    BY DEF useUpdateReview, Change, When
  <2>. QED  BY <2>1, <2>2 DEF Accepts
<1>6. d.review # 0 => Accepts("useDeleteReview", d)
  <2>1. Mutation("useDeleteReview", d, d) = useDeleteReview(d)
    BY DEF Mutation
  <2>2. d.review # 0 => \E e : e \in useDeleteReview(d).to
    BY DEF useDeleteReview, Change, When
  <2>. QED  BY <2>1, <2>2 DEF Accepts
<1>7. d.review # 0 => Accepts("useRemoveReview", d)
  <2>1. Mutation("useRemoveReview", d, d) = useRemoveReview(d)
    BY DEF Mutation
  <2>2. d.review # 0 => \E e : e \in useRemoveReview(d).to
    BY DEF useRemoveReview, Change, When
  <2>. QED  BY <2>1, <2>2 DEF Accepts
<1>8. d.dog # 0 => Accepts("useUpdateDog", d)
  <2>1. Mutation("useUpdateDog", d, d) = useUpdateDog(d)
    BY DEF Mutation
  <2>2. d.dog # 0 => \E e : e \in useUpdateDog(d).to
    BY DEF useUpdateDog, Change, When
  <2>. QED  BY <2>1, <2>2 DEF Accepts
<1>9. d.dog # 0 => Accepts("useUploadDogPhoto", d)
  <2>1. Mutation("useUploadDogPhoto", d, d) = useUploadDogPhoto(d)
    BY DEF Mutation
  <2>2. d.dog # 0 => \E e : e \in useUploadDogPhoto(d).to
    BY DEF useUploadDogPhoto, Change, When
  <2>. QED  BY <2>1, <2>2 DEF Accepts
<1>10. d.dog # 0 => Accepts("useDeleteDog", d)
  <2>1. Mutation("useDeleteDog", d, d) = useDeleteDog(d)
    BY DEF Mutation
  <2>2. d.dog # 0 /\ d.stay = "none" => \E e : e \in useDeleteDog(d).to
    BY DEF useDeleteDog, Change, When
  <2>. QED  BY <2>1, <2>2 DEF Accepts
<1>11. d.garden # "gone" => Accepts("useUpdateGarden", d)
  <2>1. Mutation("useUpdateGarden", d, d) = useUpdateGarden(d, d)
    BY DEF Mutation
  <2>2. d.garden # "gone" => \E e : e \in useUpdateGarden(d, d).to
    BY DEF useUpdateGarden, Change
  <2>. QED  BY <2>1, <2>2 DEF Accepts
<1>12. d.garden # "gone" => Accepts("useToggleGardenActive", d)
  <2>1. Mutation("useToggleGardenActive", d, d) = useToggleGardenActive(d, d)
    BY DEF Mutation
  <2>2. d.garden # "gone" => \E e : e \in useToggleGardenActive(d, d).to
    BY DEF useToggleGardenActive, Change, When
  <2>. QED  BY <2>1, <2>2 DEF Accepts
<1>13. d.garden # "gone" => Accepts("useDeleteGarden", d)
  <2>1. Mutation("useDeleteGarden", d, d) = useDeleteGarden(d)
    BY DEF Mutation
  <2>2. d.garden # "gone" => \E e : e \in useDeleteGarden(d).to
    BY DEF useDeleteGarden, Change, When
  <2>. QED  BY <2>1, <2>2 DEF Accepts
<1>14. d.garden # "gone" => Accepts("useApproveGarden", d)
  <2>1. Mutation("useApproveGarden", d, d) = useApproveGarden(d)
    BY DEF Mutation
  <2>2. d.garden # "gone" => \E e : e \in useApproveGarden(d).to
    BY DEF useApproveGarden, Change, When
  <2>. QED  BY <2>1, <2>2 DEF Accepts
<1>15. d.garden # "gone" => Accepts("useRejectGarden", d)
  <2>1. Mutation("useRejectGarden", d, d) = useRejectGarden(d)
    BY DEF Mutation
  <2>2. d.garden # "gone" => \E e : e \in useRejectGarden(d).to
    BY DEF useRejectGarden, Change, When
  <2>. QED  BY <2>1, <2>2 DEF Accepts
<1>16. ASSUME d.garden # "gone", Len(d.photos) < MaxPhotos PROVE Accepts("useUploadGardenPhoto", d)
  <2>1. PICK id : id \in Unused(d)
    BY <1>16, RoomLeft DEF RowsFit, Unused
  <2>2. RoomFor(d)
    BY <1>16 DEF RoomFor
  <2>3. \E e : e \in useUploadGardenPhoto(d, d).to
    BY <2>1, <2>2 DEF useUploadGardenPhoto, Change, RoomFor
  <2>4. Mutation("useUploadGardenPhoto", d, d) = useUploadGardenPhoto(d, d)
    BY DEF Mutation
  <2>. QED  BY <2>3, <2>4 DEF Accepts
<1>17. ASSUME d.photos # <<>> PROVE Accepts("useDeleteGardenPhoto", d)
  <2>1. Len(d.photos) \in DOMAIN d.photos /\ d.photos[Len(d.photos)] = Last(d.photos)
    BY <1>17, LastFirst DEF RowsFit, Gallery, Last
  <2>2. Reverted([d EXCEPT !.photos = RemoveAt(d.photos, Len(d.photos))])
          \in useDeleteGardenPhoto(d, d).to
    BY <1>17, <2>1 DEF useDeleteGardenPhoto, Change
  <2>3. Mutation("useDeleteGardenPhoto", d, d) = useDeleteGardenPhoto(d, d)
    BY DEF Mutation
  <2>. QED  BY <2>2, <2>3 DEF Accepts
<1>18. d.photos # <<>> => Accepts("useReorderGardenPhotos", d)
  <2>1. Mutation("useReorderGardenPhotos", d, d) = useReorderGardenPhotos(d, d)
    BY DEF Mutation
  <2>2. d.photos # <<>> => \E e : e \in useReorderGardenPhotos(d, d).to
    BY DEF useReorderGardenPhotos, Change, When
  <2>. QED  BY <2>1, <2>2 DEF Accepts
<1>19. d.role = "host" => Accepts("useVerifyHost", d)
  <2>1. Mutation("useVerifyHost", d, d) = useVerifyHost(d)
    BY DEF Mutation
  <2>2. d.role = "host" => \E e : e \in useVerifyHost(d).to
    BY DEF useVerifyHost, Change, When
  <2>. QED  BY <2>1, <2>2 DEF Accepts
<1>20. d.role # "admin" => Accepts("useBlockUser", d)
  <2>1. Mutation("useBlockUser", d, d) = useBlockUser(d)
    BY DEF Mutation
  <2>2. d.role # "admin" => \E e : e \in useBlockUser(d).to
    BY DEF useBlockUser, Change, When
  <2>. QED  BY <2>1, <2>2 DEF Accepts
<1>21. Accepts("useUnblockUser", d)
  <2>1. Mutation("useUnblockUser", d, d) = useUnblockUser(d)
    BY DEF Mutation
  <2>2. \E e : e \in useUnblockUser(d).to
    BY DEF useUnblockUser, Change
  <2>. QED  BY <2>1, <2>2 DEF Accepts
<1>. QED  BY <1>1, <1>2, <1>3, <1>4, <1>5, <1>6, <1>7, <1>8, <1>9, <1>10, <1>11, <1>12, <1>13,
           <1>14, <1>15, <1>16, <1>17, <1>18, <1>19, <1>20, <1>21


LEMMA AnswersAre ==
    ASSUME NEW d
    PROVE  /\ Query("useReservations", d).data.can_cancel => d.stay \in Cancellable
           /\ Query("useEligibleReviews", d).data.here => d.stay = "done" /\ d.review = 0
           /\ Query("useMyReviews", d).data.review # 0 => d.review # 0
           /\ Query("useDogs", d).data.dog = d.dog
           /\ Query("useDog", d).found => d.dog # 0
           /\ Query("useHostGardens", d).data.garden = d.garden
           /\ Query("useHostGarden", d).found => d.garden # "gone"
           /\ Query("useHostGarden", d).data.photos = d.photos
           /\ Query("useHostReservations", d).data.can_accept => d.stay = "awaiting_host"
           /\ Query("useAdminGardens", d).data.garden = d.garden
           /\ Query("useAdminUsers", d).data.role = d.role
           /\ Query("useAdminReviews", d).data.review = d.review
<1>1. Query("useReservations", d).data.can_cancel => d.stay \in Cancellable
  BY DEF Query, Answer, useReservations
<1>2. Query("useEligibleReviews", d).data.here => d.stay = "done" /\ d.review = 0
  BY DEF Query, Answer, useEligibleReviews
<1>3. Query("useMyReviews", d).data.review # 0 => d.review # 0
  <2>1. Query("useMyReviews", d) = useMyReviews(d)
    BY DEF Query
  <2>2. useMyReviews(d).data.review = IF d.stay = "done" THEN d.review ELSE 0
    BY DEF Answer, useMyReviews
  <2>. QED  BY <2>1, <2>2
<1>4. Query("useDogs", d).data.dog = d.dog
  BY DEF Query, Answer, useDogs, DogProfile
<1>5. Query("useDog", d).found => d.dog # 0
  BY DEF Query, Answer, useDog
<1>6. Query("useHostGardens", d).data.garden = d.garden
  BY DEF Query, Answer, useHostGardens, HostsGarden
<1>7. Query("useHostGarden", d).found => d.garden # "gone"
  BY DEF Query, Answer, useHostGarden
<1>8. Query("useHostGarden", d).data.photos = d.photos
  BY DEF Query, Answer, useHostGarden, HostsGarden
<1>9. Query("useHostReservations", d).data.can_accept => d.stay = "awaiting_host"
  BY DEF Query, Answer, useHostReservations
<1>10. Query("useAdminGardens", d).data.garden = d.garden
  BY DEF Query, Answer, useAdminGardens
<1>11. Query("useAdminUsers", d).data.role = d.role
  BY DEF Query, Answer, useAdminUsers
<1>12. Query("useAdminReviews", d).data.review = d.review
  BY DEF Query, Answer, useAdminReviews
<1>. QED  BY <1>1, <1>2, <1>3, <1>4, <1>5, <1>6, <1>7, <1>8, <1>9, <1>10, <1>11, <1>12

\* The rows behind what the query q has loaded.
LEMMA LoadedRows ==
    ASSUME PanelsInv, NEW q \in QueriesOf(role), cache[q].at # 0
    PROVE  /\ cache[q].at \in 1..Len(log) /\ RowsFit(log[cache[q].at])
           /\ Query(q, log[cache[q].at]).found
           /\ \A m : Accepts(m, log[cache[q].at]) => Allowed(m, cache[q].at, log)
<1>1. /\ cache[q].at \in Nat /\ cache[q].at <= Len(log) /\ LogFits(log) /\ Len(log) \in Nat
      /\ Query(q, log[cache[q].at]).found
  BY RowsAre DEF PanelsInv, Basics, CacheFits, EntryFits, EntryType
<1>2. cache[q].at \in 1..Len(log)
  BY <1>1
<1>. QED  BY <1>1, <1>2 DEF LogFits, Allowed

OfferFits(offer) ==
    /\ offer[1] \in MutationsOf(role) /\ offer[2] \in QueriesOf(role)
    /\ Allowed(offer[1], cache[offer[2]].at, log)
OpenFits(offer) ==
    offer[2] \in QueriesOf(role) /\ BoxFits(offer[1], cache[offer[2]].at, log, role)


LEMMA BoxesAre ==
    /\ ReservationDetailsModal.sends = "nothing" /\ HostReservationDetailsModal.sends = "nothing"
    /\ CancelModal.sends = "useCancelReservation" /\ CancelModal.asks = {}
    /\ ReviewFormModal(TRUE).sends = "useUpdateReview" /\ ReviewFormModal(TRUE).asks = {}
    /\ ReviewFormModal(FALSE).sends = "useSubmitReview" /\ ReviewFormModal(FALSE).asks = {}
    /\ DeleteReviewModal.sends = "useDeleteReview" /\ DeleteReviewModal.asks = {}
    /\ DogFormModal(TRUE).sends = "useUpdateDog" /\ DogFormModal(TRUE).asks = {"useDog"}
    /\ DogFormModal(FALSE).sends = "useCreateDog" /\ DogFormModal(FALSE).asks = {}
    /\ DeleteDogModal.sends = "useDeleteDog" /\ DeleteDogModal.asks = {}
    /\ AddDogModal.sends = "useAddDog" /\ AddDogModal.asks = {}
    /\ DeleteGardenModal.sends = "useDeleteGarden" /\ DeleteGardenModal.asks = {}
    /\ RejectModal.sends = "useRejectReservation" /\ RejectModal.asks = {}
    /\ RejectGardenModal.sends = "useRejectGarden" /\ RejectGardenModal.asks = {}
    /\ BlockModal.sends = "useBlockUser" /\ BlockModal.asks = {}
    /\ RemoveReviewModal.sends = "useRemoveReview" /\ RemoveReviewModal.asks = {}
<1>1. /\ ReservationDetailsModal.sends = "nothing" /\ HostReservationDetailsModal.sends = "nothing"
      /\ CancelModal.sends = "useCancelReservation" /\ CancelModal.asks = {}
  BY DEF Box, ReservationDetailsModal, HostReservationDetailsModal, CancelModal
<1>2. /\ ReviewFormModal(TRUE).sends = "useUpdateReview" /\ ReviewFormModal(TRUE).asks = {}
      /\ ReviewFormModal(FALSE).sends = "useSubmitReview" /\ ReviewFormModal(FALSE).asks = {}
      /\ DeleteReviewModal.sends = "useDeleteReview" /\ DeleteReviewModal.asks = {}
  BY DEF Box, ReviewFormModal, DeleteReviewModal
<1>3. /\ DogFormModal(TRUE).sends = "useUpdateDog" /\ DogFormModal(TRUE).asks = {"useDog"}
      /\ DogFormModal(FALSE).sends = "useCreateDog" /\ DogFormModal(FALSE).asks = {}
      /\ DeleteDogModal.sends = "useDeleteDog" /\ DeleteDogModal.asks = {}
      /\ AddDogModal.sends = "useAddDog" /\ AddDogModal.asks = {}
  BY DEF Box, DogFormModal, DeleteDogModal, AddDogModal
<1>4. /\ DeleteGardenModal.sends = "useDeleteGarden" /\ DeleteGardenModal.asks = {}
      /\ RejectModal.sends = "useRejectReservation" /\ RejectModal.asks = {}
      /\ RejectGardenModal.sends = "useRejectGarden" /\ RejectGardenModal.asks = {}
  BY DEF Box, DeleteGardenModal, RejectModal, RejectGardenModal
<1>5. /\ BlockModal.sends = "useBlockUser" /\ BlockModal.asks = {}
      /\ RemoveReviewModal.sends = "useRemoveReview" /\ RemoveReviewModal.asks = {}
  BY DEF Box, BlockModal, RemoveReviewModal
<1>. QED  BY <1>1, <1>2, <1>3, <1>4, <1>5

LEMMA DialogAccepted ==
    ASSUME PanelsInv, NEW q \in QueriesOf(role), cache[q].at # 0, NEW box, box.asks = {},
           box.sends \in MutationsOf(role), Accepts(box.sends, log[cache[q].at])
    PROVE  BoxFits(box, cache[q].at, log, role)
<1>1. Allowed(box.sends, cache[q].at, log)
  BY LoadedRows
<1>. QED  BY <1>1 DEF BoxFits, Allowed

LEMMA LoadedAt ==
    ASSUME PanelsInv, NEW q \in QueriesOf(role)
    PROVE  cache[q].at \in 0..Len(log)
<1>1. cache[q].at \in Nat /\ cache[q].at <= Len(log) /\ LogFits(log)
  BY DEF PanelsInv, Basics, CacheFits, EntryFits, EntryType
<1>2. Len(log) \in Nat
  BY <1>1, RowsAre
<1>. QED  BY <1>1, <1>2

LEMMA ReservationsPageOffers ==
    ASSUME PanelsInv, role = "client"
    PROVE  /\ \A offer \in ReservationsPage.sends : OfferFits(offer)
           /\ \A offer \in ReservationsPage.opens : OpenFits(offer)
<1>1. /\ "useReservations" \in QueriesOf(role)
      /\ "useEligibleReviews" \in QueriesOf(role)
      /\ "useCancelReservation" \in MutationsOf(role)
      /\ "useSubmitReview" \in MutationsOf(role)
  BY DEF QueriesOf, MutationsOf
<1>2. ASSUME NEW offer,
             offer \in By("useReservations", Sees("useReservations").row.stay # "none", {ReservationDetailsModal})
      PROVE  OpenFits(offer)
  <2>1. /\ offer[1] = ReservationDetailsModal
        /\ offer[2] = "useReservations"
        /\ cache["useReservations"].at # 0
    BY <1>2 DEF By, Shown
  <2>. QED  BY <1>1, <2>1, LoadedAt, BoxesAre DEF OpenFits, BoxFits
<1>3. ASSUME NEW offer,
             offer \in By("useReservations", Sees("useReservations").can_cancel, {CancelModal})
      PROVE  OpenFits(offer)
  <2>1. /\ offer[1] = CancelModal
        /\ offer[2] = "useReservations" /\ cache["useReservations"].at # 0
        /\ Sees("useReservations").can_cancel
    BY <1>3 DEF By, Shown
  <2>. DEFINE d == log[cache["useReservations"].at]
  <2>2. /\ RowsFit(d) /\ Query("useReservations", d).found
        /\ \A m : Accepts(m, d) => Allowed(m, cache["useReservations"].at, log)
    BY <1>1, <2>1, LoadedRows
  <2>3. d.stay \in Cancellable
    BY <2>1, <2>2, AnswersAre DEF Sees
  <2>. HIDE DEF d
  <2>4. Accepts("useCancelReservation", d)
    BY <2>2, <2>3, ServicesAccept
  <2>. QED  BY <1>1, <2>1, <2>4, DialogAccepted, BoxesAre DEF OpenFits, d
<1>4. ASSUME NEW offer, offer \in FromData("useEligibleReviews",
                  /\ Shown("useReservations") /\ Sees("useReservations").row.stay = "done"
                  /\ Sees("useEligibleReviews").here, {ReviewFormModal(FALSE)})
      PROVE  OpenFits(offer)
  <2>1. /\ offer[1] = ReviewFormModal(FALSE)
        /\ offer[2] = "useEligibleReviews" /\ cache["useEligibleReviews"].at # 0
        /\ Sees("useEligibleReviews").here
    BY <1>4 DEF FromData
  <2>. DEFINE d == log[cache["useEligibleReviews"].at]
  <2>2. /\ RowsFit(d) /\ Query("useEligibleReviews", d).found
        /\ \A m : Accepts(m, d) => Allowed(m, cache["useEligibleReviews"].at, log)
    BY <1>1, <2>1, LoadedRows
  <2>3. d.stay = "done" /\ d.review = 0
    BY <2>1, <2>2, AnswersAre DEF Sees
  <2>. HIDE DEF d
  <2>4. Accepts("useSubmitReview", d)
    BY <2>2, <2>3, ServicesAccept
  <2>5. offer[1].sends = "useSubmitReview" /\ offer[1].asks = {}
    BY <2>1, BoxesAre
  <2>. QED  BY <1>1, <2>1, <2>4, <2>5, DialogAccepted DEF OpenFits, d
<1>5. \A offer \in ReservationsPage.sends : OfferFits(offer)
  BY DEF ReservationsPage, Shows
<1>6. \A offer \in ReservationsPage.opens : OpenFits(offer)
  BY <1>2, <1>3, <1>4 DEF ReservationsPage, Shows, ReservationCard
<1>. QED  BY <1>5, <1>6

LEMMA ReviewsPageOffers ==
    ASSUME PanelsInv, role = "client"
    PROVE  /\ \A offer \in ReviewsPage.sends : OfferFits(offer)
           /\ \A offer \in ReviewsPage.opens : OpenFits(offer)
<1>1. /\ "useEligibleReviews" \in QueriesOf(role)
      /\ "useMyReviews" \in QueriesOf(role)
      /\ "useSubmitReview" \in MutationsOf(role)
      /\ "useUpdateReview" \in MutationsOf(role)
      /\ "useDeleteReview" \in MutationsOf(role)
  BY DEF QueriesOf, MutationsOf
<1>2. ASSUME NEW offer, offer \in EligibleCard
      PROVE  OpenFits(offer)
  <2>1. /\ offer[1] = ReviewFormModal(FALSE)
        /\ offer[2] = "useEligibleReviews" /\ cache["useEligibleReviews"].at # 0
        /\ Sees("useEligibleReviews").here
    BY <1>2 DEF EligibleCard, By, Shown
  <2>. DEFINE d == log[cache["useEligibleReviews"].at]
  <2>2. /\ RowsFit(d) /\ Query("useEligibleReviews", d).found
        /\ \A m : Accepts(m, d) => Allowed(m, cache["useEligibleReviews"].at, log)
    BY <1>1, <2>1, LoadedRows
  <2>3. d.stay = "done" /\ d.review = 0
    BY <2>1, <2>2, AnswersAre DEF Sees
  <2>. HIDE DEF d
  <2>4. Accepts("useSubmitReview", d)
    BY <2>2, <2>3, ServicesAccept
  <2>5. offer[1].sends = "useSubmitReview" /\ offer[1].asks = {}
    BY <2>1, BoxesAre
  <2>. QED  BY <1>1, <2>1, <2>4, <2>5, DialogAccepted DEF OpenFits, d
<1>3. ASSUME NEW offer, offer \in WrittenCard
      PROVE  OpenFits(offer)
  <2>1. /\ offer[1] = ReviewFormModal(TRUE) \/ offer[1] = DeleteReviewModal
        /\ offer[2] = "useMyReviews" /\ cache["useMyReviews"].at # 0
        /\ Sees("useMyReviews").review # 0
    BY <1>3 DEF WrittenCard, By, Shown
  <2>. DEFINE d == log[cache["useMyReviews"].at]
  <2>2. /\ RowsFit(d) /\ Query("useMyReviews", d).found
        /\ \A m : Accepts(m, d) => Allowed(m, cache["useMyReviews"].at, log)
    BY <1>1, <2>1, LoadedRows
  <2>3. d.review # 0
    BY <2>1, <2>2, AnswersAre DEF Sees
  <2>. HIDE DEF d
  <2>4. Accepts("useUpdateReview", d) /\ Accepts("useDeleteReview", d)
    BY <2>2, <2>3, ServicesAccept
  <2>5. CASE offer[1] = ReviewFormModal(TRUE)
    BY <1>1, <2>1, <2>4, <2>5, DialogAccepted, BoxesAre DEF OpenFits, d
  <2>6. CASE offer[1] = DeleteReviewModal
    BY <1>1, <2>1, <2>4, <2>6, DialogAccepted, BoxesAre DEF OpenFits, d
  <2>. QED  BY <2>1, <2>5, <2>6
<1>4. \A offer \in ReviewsPage.sends : OfferFits(offer)
  BY DEF ReviewsPage, Shows
<1>5. \A offer \in ReviewsPage.opens : OpenFits(offer)
  BY <1>2, <1>3 DEF ReviewsPage, Shows
<1>. QED  BY <1>4, <1>5

LEMMA PetsPageOffers ==
    ASSUME PanelsInv, role = "client"
    PROVE  /\ \A offer \in PetsPage.sends : OfferFits(offer)
           /\ \A offer \in PetsPage.opens : OpenFits(offer)
<1>1. /\ "useDogs" \in QueriesOf(role)
      /\ "useDog" \in QueriesOf(role)
      /\ "useUploadDogPhoto" \in MutationsOf(role)
      /\ "useUpdateDog" \in MutationsOf(role)
      /\ "useDeleteDog" \in MutationsOf(role)
      /\ "useCreateDog" \in MutationsOf(role)
  BY DEF QueriesOf, MutationsOf
<1>2. ASSUME NEW offer, offer \in DogCard({"useUploadDogPhoto"})
      PROVE  OfferFits(offer)
  <2>1. /\ offer[1] = "useUploadDogPhoto"
        /\ offer[2] = "useDogs" /\ cache["useDogs"].at # 0
        /\ Sees("useDogs").dog # 0
    BY <1>2 DEF DogCard, By, Shown
  <2>. DEFINE d == log[cache["useDogs"].at]
  <2>2. /\ RowsFit(d) /\ Query("useDogs", d).found
        /\ \A m : Accepts(m, d) => Allowed(m, cache["useDogs"].at, log)
    BY <1>1, <2>1, LoadedRows
  <2>3. d.dog # 0
    BY <2>1, <2>2, AnswersAre DEF Sees
  <2>. HIDE DEF d
  <2>4. Accepts("useUploadDogPhoto", d)
    BY <2>2, <2>3, ServicesAccept
  <2>. QED  BY <1>1, <2>1, <2>2, <2>4 DEF OfferFits
<1>3. ASSUME NEW offer, offer \in DogCard({DogFormModal(TRUE), DeleteDogModal})
      PROVE  OpenFits(offer)
  <2>1. /\ offer[1] = DogFormModal(TRUE) \/ offer[1] = DeleteDogModal
        /\ offer[2] = "useDogs" /\ cache["useDogs"].at # 0
        /\ Sees("useDogs").dog # 0
    BY <1>3 DEF DogCard, By, Shown
  <2>. DEFINE d == log[cache["useDogs"].at]
  <2>2. /\ RowsFit(d) /\ Query("useDogs", d).found
        /\ \A m : Accepts(m, d) => Allowed(m, cache["useDogs"].at, log)
    BY <1>1, <2>1, LoadedRows
  <2>3. d.dog # 0
    BY <2>1, <2>2, AnswersAre DEF Sees
  <2>. HIDE DEF d
  <2>4. Accepts("useUpdateDog", d) /\ Accepts("useDeleteDog", d)
    BY <2>2, <2>3, ServicesAccept
  <2>5. CASE offer[1] = DogFormModal(TRUE)
    <3>1. cache["useDogs"].at \in 0..Len(log) /\ Allowed("useUpdateDog", cache["useDogs"].at, log)
      BY <1>1, <2>2, <2>4, LoadedAt
    <3>2. BoxFits(offer[1], cache["useDogs"].at, log, role)
      BY <1>1, <2>5, <3>1, BoxesAre DEF BoxFits
    <3>. QED  BY <1>1, <2>1, <3>2 DEF OpenFits
  <2>6. CASE offer[1] = DeleteDogModal
    BY <1>1, <2>1, <2>4, <2>6, DialogAccepted, BoxesAre DEF OpenFits, d
  <2>. QED  BY <2>1, <2>5, <2>6
<1>0. PICK form : form = DogFormModal(FALSE)
  OBVIOUS
<1>4. ASSUME NEW offer, offer \in {<<form, "useDogs">>}
      PROVE  OpenFits(offer)
  <2>1. offer[1] = form /\ offer[2] = "useDogs"
    BY <1>4
  <2>2. cache["useDogs"].at \in 0..Len(log)
    BY <1>1, LoadedAt
  <2>3. Allowed("useCreateDog", cache["useDogs"].at, log)
    BY <2>2 DEF Allowed, Unread
  <2>. QED  BY <1>0, <1>1, <2>1, <2>2, <2>3, BoxesAre DEF OpenFits, BoxFits
<1>5. \A offer \in PetsPage.sends : OfferFits(offer)
  BY <1>2 DEF PetsPage, Shows
<1>6. \A offer \in PetsPage.opens : OpenFits(offer)
  BY <1>0, <1>3, <1>4 DEF PetsPage, Shows
<1>. QED  BY <1>5, <1>6

LEMMA BookingWizardPageOffers ==
    ASSUME PanelsInv, role = "client"
    PROVE  /\ \A offer \in BookingWizardPage.sends : OfferFits(offer)
           /\ \A offer \in BookingWizardPage.opens : OpenFits(offer)
<1>1. /\ "useClientDogs" \in QueriesOf(role)
      /\ "useAddDog" \in MutationsOf(role) /\ "useCreateReservation" \in MutationsOf(role)
  BY DEF QueriesOf, MutationsOf
<1>2. ASSUME NEW offer, offer \in {<<AddDogModal, "useClientDogs">>}
      PROVE  OpenFits(offer)
  <2>1. offer[1] = AddDogModal /\ offer[2] = "useClientDogs"
    BY <1>2
  <2>2. cache["useClientDogs"].at \in 0..Len(log)
    BY <1>1, LoadedAt
  <2>3. Allowed("useAddDog", cache["useClientDogs"].at, log)
    BY <2>2 DEF Allowed, Unread
  <2>. QED  BY <1>1, <2>1, <2>2, <2>3, BoxesAre DEF OpenFits, BoxFits
<1>3. ASSUME NEW offer \in BookingWizardPage.sends PROVE OfferFits(offer)
  <2>1. offer[1] = "useCreateReservation" /\ offer[2] = "useClientDogs"
    BY DEF BookingWizardPage, Shows, FromData
  <2>2. cache["useClientDogs"].at \in 0..Len(log)
    BY <1>1, LoadedAt
  <2>3. Allowed("useCreateReservation", cache["useClientDogs"].at, log)
    BY <2>2 DEF Allowed, Unread
  <2>. QED  BY <1>1, <2>1, <2>3 DEF OfferFits
<1>4. \A offer \in BookingWizardPage.opens : OpenFits(offer)
  BY <1>2 DEF BookingWizardPage, Shows
<1>. QED  BY <1>3, <1>4

LEMMA GardensPageOffers ==
    ASSUME PanelsInv, role = "host"
    PROVE  /\ \A offer \in GardensPage.sends : OfferFits(offer)
           /\ \A offer \in GardensPage.opens : OpenFits(offer)
<1>1. /\ "useHostGardens" \in QueriesOf(role)
      /\ "useToggleGardenActive" \in MutationsOf(role)
      /\ "useDeleteGarden" \in MutationsOf(role)
  BY DEF QueriesOf, MutationsOf
<1>2. ASSUME NEW offer, offer \in GardenCard({"approved"}, {"useToggleGardenActive"})
      PROVE  OfferFits(offer)
  <2>1. /\ offer[1] = "useToggleGardenActive"
        /\ offer[2] = "useHostGardens" /\ cache["useHostGardens"].at # 0
        /\ Sees("useHostGardens").garden = "approved"
    BY <1>2 DEF GardenCard, By, Shown
  <2>. DEFINE d == log[cache["useHostGardens"].at]
  <2>2. /\ RowsFit(d) /\ Query("useHostGardens", d).found
        /\ \A m : Accepts(m, d) => Allowed(m, cache["useHostGardens"].at, log)
    BY <1>1, <2>1, LoadedRows
  <2>3. d.garden # "gone"
    BY <2>1, <2>2, AnswersAre DEF Sees
  <2>. HIDE DEF d
  <2>4. Accepts("useToggleGardenActive", d)
    BY <2>2, <2>3, ServicesAccept
  <2>. QED  BY <1>1, <2>1, <2>2, <2>4 DEF OfferFits
<1>3. ASSUME NEW offer, offer \in GardenCard({"pending", "approved", "rejected"}, {DeleteGardenModal})
      PROVE  OpenFits(offer)
  <2>1. /\ offer[1] = DeleteGardenModal
        /\ offer[2] = "useHostGardens" /\ cache["useHostGardens"].at # 0
        /\ Sees("useHostGardens").garden \in {"pending", "approved", "rejected"}
    BY <1>3 DEF GardenCard, By, Shown
  <2>. DEFINE d == log[cache["useHostGardens"].at]
  <2>2. /\ RowsFit(d) /\ Query("useHostGardens", d).found
        /\ \A m : Accepts(m, d) => Allowed(m, cache["useHostGardens"].at, log)
    BY <1>1, <2>1, LoadedRows
  <2>3. d.garden # "gone"
    BY <2>1, <2>2, AnswersAre DEF Sees
  <2>. HIDE DEF d
  <2>4. Accepts("useDeleteGarden", d)
    BY <2>2, <2>3, ServicesAccept
  <2>. QED  BY <1>1, <2>1, <2>4, DialogAccepted, BoxesAre DEF OpenFits, d
<1>4. \A offer \in GardensPage.sends : OfferFits(offer)
  BY <1>2 DEF GardensPage, Shows
<1>5. \A offer \in GardensPage.opens : OpenFits(offer)
  BY <1>3 DEF GardensPage, Shows
<1>. QED  BY <1>4, <1>5

LEMMA GardenFormPageOffers ==
    ASSUME PanelsInv, role = "host"
    PROVE  /\ \A offer \in GardenFormPage.sends : OfferFits(offer)
           /\ \A offer \in GardenFormPage.opens : OpenFits(offer)
<1>1. /\ "useHostGarden" \in QueriesOf(role)
      /\ "useUpdateGarden" \in MutationsOf(role)
      /\ "useUploadGardenPhoto" \in MutationsOf(role)
      /\ "useDeleteGardenPhoto" \in MutationsOf(role)
      /\ "useReorderGardenPhotos" \in MutationsOf(role)
  BY DEF QueriesOf, MutationsOf
<1>2. ASSUME NEW offer, offer \in {<<"useUpdateGarden", "useHostGarden">>}
      PROVE  OfferFits(offer)
  <2>1. offer[1] = "useUpdateGarden" /\ offer[2] = "useHostGarden"
    BY <1>2
  <2>. DEFINE d == log[cache["useHostGarden"].at]
  <2>2. CASE cache["useHostGarden"].at # 0
    <3>1. /\ RowsFit(d) /\ Query("useHostGarden", d).found
          /\ \A m : Accepts(m, d) => Allowed(m, cache["useHostGarden"].at, log)
      BY <1>1, <2>2, LoadedRows
    <3>2. d.garden # "gone"
      BY <3>1, AnswersAre
    <3>. HIDE DEF d
    <3>3. Accepts("useUpdateGarden", d)
      BY <3>1, <3>2, ServicesAccept
    <3>. QED  BY <1>1, <2>1, <3>1, <3>3 DEF OfferFits
  <2>3. CASE cache["useHostGarden"].at = 0
    <3>1. Allowed("useUpdateGarden", 0, log)
      BY <1>1, <2>3, LoadedAt DEF Allowed
    <3>. QED  BY <1>1, <2>1, <2>3, <3>1 DEF OfferFits
  <2>. QED  BY <2>2, <2>3
<1>3. ASSUME NEW offer,
             offer \in FromData("useHostGarden", Len(Sees("useHostGarden").photos) < MaxPhotos,
                             {"useUploadGardenPhoto"})
      PROVE  OfferFits(offer)
  <2>1. /\ offer[1] = "useUploadGardenPhoto"
        /\ offer[2] = "useHostGarden" /\ cache["useHostGarden"].at # 0
        /\ Len(Sees("useHostGarden").photos) < MaxPhotos
    BY <1>3 DEF FromData
  <2>. DEFINE d == log[cache["useHostGarden"].at]
  <2>2. /\ RowsFit(d) /\ Query("useHostGarden", d).found
        /\ \A m : Accepts(m, d) => Allowed(m, cache["useHostGarden"].at, log)
    BY <1>1, <2>1, LoadedRows
  <2>3. d.garden # "gone" /\ Len(d.photos) < MaxPhotos
    BY <2>1, <2>2, AnswersAre DEF Sees
  <2>. HIDE DEF d
  <2>4. Accepts("useUploadGardenPhoto", d)
    BY <2>2, <2>3, ServicesAccept
  <2>. QED  BY <1>1, <2>1, <2>2, <2>4 DEF OfferFits
<1>4. ASSUME NEW offer,
             offer \in FromData("useHostGarden", Sees("useHostGarden").photos # <<>>, {"useDeleteGardenPhoto"})
      PROVE  OfferFits(offer)
  <2>1. /\ offer[1] = "useDeleteGardenPhoto"
        /\ offer[2] = "useHostGarden" /\ cache["useHostGarden"].at # 0
        /\ Sees("useHostGarden").photos # <<>>
    BY <1>4 DEF FromData
  <2>. DEFINE d == log[cache["useHostGarden"].at]
  <2>2. /\ RowsFit(d) /\ Query("useHostGarden", d).found
        /\ \A m : Accepts(m, d) => Allowed(m, cache["useHostGarden"].at, log)
    BY <1>1, <2>1, LoadedRows
  <2>3. d.photos # <<>>
    BY <2>1, <2>2, AnswersAre DEF Sees
  <2>. HIDE DEF d
  <2>4. Accepts("useDeleteGardenPhoto", d)
    BY <2>2, <2>3, ServicesAccept
  <2>. QED  BY <1>1, <2>1, <2>2, <2>4 DEF OfferFits
<1>5. ASSUME NEW offer,
             offer \in FromData("useHostGarden", Len(Sees("useHostGarden").photos) > 1, {"useReorderGardenPhotos"})
      PROVE  OfferFits(offer)
  <2>1. /\ offer[1] = "useReorderGardenPhotos"
        /\ offer[2] = "useHostGarden" /\ cache["useHostGarden"].at # 0
        /\ Len(Sees("useHostGarden").photos) > 1
    BY <1>5 DEF FromData
  <2>. DEFINE d == log[cache["useHostGarden"].at]
  <2>2. /\ RowsFit(d) /\ Query("useHostGarden", d).found
        /\ \A m : Accepts(m, d) => Allowed(m, cache["useHostGarden"].at, log)
    BY <1>1, <2>1, LoadedRows
  <2>3. d.photos # <<>>
    <3>1. Sees("useHostGarden").photos = d.photos
      BY AnswersAre DEF Sees
    <3>2. Len(<<>>) = 0
      OBVIOUS
    <3>. QED  BY <2>1, <3>1, <3>2
  <2>. HIDE DEF d
  <2>4. Accepts("useReorderGardenPhotos", d)
    BY <2>2, <2>3, ServicesAccept
  <2>. QED  BY <1>1, <2>1, <2>2, <2>4 DEF OfferFits
<1>6. \A offer \in GardenFormPage.sends : OfferFits(offer)
  BY <1>2, <1>3, <1>4, <1>5 DEF GardenFormPage, Shows, PhotoManager
<1>7. \A offer \in GardenFormPage.opens : OpenFits(offer)
  BY DEF GardenFormPage, Shows
<1>. QED  BY <1>6, <1>7

LEMMA NewGardenPageOffers ==
    ASSUME PanelsInv, role = "host"
    PROVE  /\ \A offer \in NewGardenPage.sends : OfferFits(offer)
           /\ \A offer \in NewGardenPage.opens : OpenFits(offer)
<1>1. /\ "useHostGardens" \in QueriesOf(role)
      /\ "useCreateGarden" \in MutationsOf(role)
  BY DEF QueriesOf, MutationsOf
<1>2. ASSUME NEW offer, offer \in {<<"useCreateGarden", "useHostGardens">>}
      PROVE  OfferFits(offer)
  <2>1. cache["useHostGardens"].at \in 0..Len(log)
    BY <1>1, LoadedAt
  <2>. QED  BY <1>1, <1>2, <2>1 DEF OfferFits, Allowed, Unread
<1>3. \A offer \in NewGardenPage.sends : OfferFits(offer)
  BY <1>2 DEF NewGardenPage, Shows
<1>4. \A offer \in NewGardenPage.opens : OpenFits(offer)
  BY DEF NewGardenPage, Shows
<1>. QED  BY <1>3, <1>4

LEMMA HostReservationsPageOffers ==
    ASSUME PanelsInv, role = "host"
    PROVE  /\ \A offer \in HostReservationsPage.sends : OfferFits(offer)
           /\ \A offer \in HostReservationsPage.opens : OpenFits(offer)
<1>1. /\ "useHostReservations" \in QueriesOf(role)
      /\ "useAcceptReservation" \in MutationsOf(role)
      /\ "useRejectReservation" \in MutationsOf(role)
  BY DEF QueriesOf, MutationsOf
<1>2. ASSUME NEW offer, offer \in By("useHostReservations", Sees("useHostReservations").can_accept,
                       {"useAcceptReservation"})
      PROVE  OfferFits(offer)
  <2>1. /\ offer[1] = "useAcceptReservation"
        /\ offer[2] = "useHostReservations" /\ cache["useHostReservations"].at # 0
        /\ Sees("useHostReservations").can_accept
    BY <1>2 DEF By, Shown
  <2>. DEFINE d == log[cache["useHostReservations"].at]
  <2>2. /\ RowsFit(d) /\ Query("useHostReservations", d).found
        /\ \A m : Accepts(m, d) => Allowed(m, cache["useHostReservations"].at, log)
    BY <1>1, <2>1, LoadedRows
  <2>3. d.stay = "awaiting_host"
    BY <2>1, <2>2, AnswersAre DEF Sees
  <2>. HIDE DEF d
  <2>4. Accepts("useAcceptReservation", d)
    BY <2>2, <2>3, ServicesAccept
  <2>. QED  BY <1>1, <2>1, <2>2, <2>4 DEF OfferFits
<1>3. ASSUME NEW offer,
             offer \in By("useHostReservations", Sees("useHostReservations").can_accept, {RejectModal})
      PROVE  OpenFits(offer)
  <2>1. /\ offer[1] = RejectModal
        /\ offer[2] = "useHostReservations" /\ cache["useHostReservations"].at # 0
        /\ Sees("useHostReservations").can_accept
    BY <1>3 DEF By, Shown
  <2>. DEFINE d == log[cache["useHostReservations"].at]
  <2>2. /\ RowsFit(d) /\ Query("useHostReservations", d).found
        /\ \A m : Accepts(m, d) => Allowed(m, cache["useHostReservations"].at, log)
    BY <1>1, <2>1, LoadedRows
  <2>3. d.stay = "awaiting_host"
    BY <2>1, <2>2, AnswersAre DEF Sees
  <2>. HIDE DEF d
  <2>4. Accepts("useRejectReservation", d)
    BY <2>2, <2>3, ServicesAccept
  <2>. QED  BY <1>1, <2>1, <2>4, DialogAccepted, BoxesAre DEF OpenFits, d
<1>4. ASSUME NEW offer, offer \in By("useHostReservations",
                       Sees("useHostReservations").row.stay # "none" /\ ~Sees("useHostReservations").can_accept,
                       {HostReservationDetailsModal})
      PROVE  OpenFits(offer)
  <2>1. /\ offer[1] = HostReservationDetailsModal
        /\ offer[2] = "useHostReservations"
        /\ cache["useHostReservations"].at # 0
    BY <1>4 DEF By, Shown
  <2>. QED  BY <1>1, <2>1, LoadedAt, BoxesAre DEF OpenFits, BoxFits
<1>5. \A offer \in HostReservationsPage.sends : OfferFits(offer)
  BY <1>2 DEF HostReservationsPage, Shows
<1>6. \A offer \in HostReservationsPage.opens : OpenFits(offer)
  BY <1>3, <1>4 DEF HostReservationsPage, Shows
<1>. QED  BY <1>5, <1>6

LEMMA SchedulePageOffers ==
    ASSUME PanelsInv, role = "host"
    PROVE  /\ \A offer \in SchedulePage.sends : OfferFits(offer)
           /\ \A offer \in SchedulePage.opens : OpenFits(offer)
<1>1. /\ "useHostSchedule" \in QueriesOf(role)
  BY DEF QueriesOf, MutationsOf
<1>2. ASSUME NEW offer,
             offer \in By("useHostSchedule", Sees("useHostSchedule").stay # "none", {HostReservationDetailsModal})
      PROVE  OpenFits(offer)
  <2>1. /\ offer[1] = HostReservationDetailsModal
        /\ offer[2] = "useHostSchedule"
        /\ cache["useHostSchedule"].at # 0
    BY <1>2 DEF By, Shown
  <2>. QED  BY <1>1, <2>1, LoadedAt, BoxesAre DEF OpenFits, BoxFits
<1>3. \A offer \in SchedulePage.sends : OfferFits(offer)
  BY DEF SchedulePage, Shows
<1>4. \A offer \in SchedulePage.opens : OpenFits(offer)
  BY <1>2 DEF SchedulePage, Shows
<1>. QED  BY <1>3, <1>4

LEMMA VerificationQueuePageOffers ==
    ASSUME PanelsInv, role = "admin"
    PROVE  /\ \A offer \in VerificationQueuePage.sends : OfferFits(offer)
           /\ \A offer \in VerificationQueuePage.opens : OpenFits(offer)
<1>1. /\ "useAdminGardens" \in QueriesOf(role)
      /\ "useApproveGarden" \in MutationsOf(role)
      /\ "useRejectGarden" \in MutationsOf(role)
  BY DEF QueriesOf, MutationsOf
<1>2. ASSUME NEW offer, offer \in GardenQueueCard({"useApproveGarden"})
      PROVE  OfferFits(offer)
  <2>1. /\ offer[1] = "useApproveGarden"
        /\ offer[2] = "useAdminGardens" /\ cache["useAdminGardens"].at # 0
        /\ Sees("useAdminGardens").garden = "pending"
    BY <1>2 DEF GardenQueueCard, By, Shown
  <2>. DEFINE d == log[cache["useAdminGardens"].at]
  <2>2. /\ RowsFit(d) /\ Query("useAdminGardens", d).found
        /\ \A m : Accepts(m, d) => Allowed(m, cache["useAdminGardens"].at, log)
    BY <1>1, <2>1, LoadedRows
  <2>3. d.garden # "gone"
    BY <2>1, <2>2, AnswersAre DEF Sees
  <2>. HIDE DEF d
  <2>4. Accepts("useApproveGarden", d)
    BY <2>2, <2>3, ServicesAccept
  <2>. QED  BY <1>1, <2>1, <2>2, <2>4 DEF OfferFits
<1>3. ASSUME NEW offer, offer \in GardenQueueCard({RejectGardenModal})
      PROVE  OpenFits(offer)
  <2>1. /\ offer[1] = RejectGardenModal
        /\ offer[2] = "useAdminGardens" /\ cache["useAdminGardens"].at # 0
        /\ Sees("useAdminGardens").garden = "pending"
    BY <1>3 DEF GardenQueueCard, By, Shown
  <2>. DEFINE d == log[cache["useAdminGardens"].at]
  <2>2. /\ RowsFit(d) /\ Query("useAdminGardens", d).found
        /\ \A m : Accepts(m, d) => Allowed(m, cache["useAdminGardens"].at, log)
    BY <1>1, <2>1, LoadedRows
  <2>3. d.garden # "gone"
    BY <2>1, <2>2, AnswersAre DEF Sees
  <2>. HIDE DEF d
  <2>4. Accepts("useRejectGarden", d)
    BY <2>2, <2>3, ServicesAccept
  <2>. QED  BY <1>1, <2>1, <2>4, DialogAccepted, BoxesAre DEF OpenFits, d
<1>4. \A offer \in VerificationQueuePage.sends : OfferFits(offer)
  BY <1>2 DEF VerificationQueuePage, Shows
<1>5. \A offer \in VerificationQueuePage.opens : OpenFits(offer)
  BY <1>3 DEF VerificationQueuePage, Shows
<1>. QED  BY <1>4, <1>5

LEMMA UsersPageOffers ==
    ASSUME PanelsInv, role = "admin"
    PROVE  /\ \A offer \in UsersPage.sends : OfferFits(offer)
           /\ \A offer \in UsersPage.opens : OpenFits(offer)
<1>1. /\ "useAdminUsers" \in QueriesOf(role)
      /\ "useVerifyHost" \in MutationsOf(role)
      /\ "useUnblockUser" \in MutationsOf(role)
      /\ "useBlockUser" \in MutationsOf(role)
  BY DEF QueriesOf, MutationsOf
<1>2. ASSUME NEW offer, offer \in By("useAdminUsers",
                       /\ Sees("useAdminUsers").role = "host" /\ ~Sees("useAdminUsers").verified
                       /\ Sees("useAdminUsers").enabled, {"useVerifyHost"})
      PROVE  OfferFits(offer)
  <2>1. /\ offer[1] = "useVerifyHost"
        /\ offer[2] = "useAdminUsers" /\ cache["useAdminUsers"].at # 0
        /\ Sees("useAdminUsers").role = "host"
    BY <1>2 DEF By, Shown
  <2>. DEFINE d == log[cache["useAdminUsers"].at]
  <2>2. /\ RowsFit(d) /\ Query("useAdminUsers", d).found
        /\ \A m : Accepts(m, d) => Allowed(m, cache["useAdminUsers"].at, log)
    BY <1>1, <2>1, LoadedRows
  <2>3. d.role = "host"
    BY <2>1, <2>2, AnswersAre DEF Sees
  <2>. HIDE DEF d
  <2>4. Accepts("useVerifyHost", d)
    BY <2>2, <2>3, ServicesAccept
  <2>. QED  BY <1>1, <2>1, <2>2, <2>4 DEF OfferFits
<1>3. ASSUME NEW offer, offer \in By("useAdminUsers",
                       Sees("useAdminUsers").role # "admin" /\ ~Sees("useAdminUsers").enabled,
                       {"useUnblockUser"})
      PROVE  OfferFits(offer)
  <2>1. /\ offer[1] = "useUnblockUser"
        /\ offer[2] = "useAdminUsers" /\ cache["useAdminUsers"].at # 0
        /\ Sees("useAdminUsers").role # "admin"
    BY <1>3 DEF By, Shown
  <2>. DEFINE d == log[cache["useAdminUsers"].at]
  <2>2. /\ RowsFit(d) /\ Query("useAdminUsers", d).found
        /\ \A m : Accepts(m, d) => Allowed(m, cache["useAdminUsers"].at, log)
    BY <1>1, <2>1, LoadedRows
  <2>3. d.role # "admin"
    BY <2>1, <2>2, AnswersAre DEF Sees
  <2>. HIDE DEF d
  <2>4. Accepts("useUnblockUser", d)
    BY <2>2, <2>3, ServicesAccept
  <2>. QED  BY <1>1, <2>1, <2>2, <2>4 DEF OfferFits
<1>4. ASSUME NEW offer, offer \in By("useAdminUsers",
                       Sees("useAdminUsers").role # "admin" /\ Sees("useAdminUsers").enabled,
                       {BlockModal})
      PROVE  OpenFits(offer)
  <2>1. /\ offer[1] = BlockModal
        /\ offer[2] = "useAdminUsers" /\ cache["useAdminUsers"].at # 0
        /\ Sees("useAdminUsers").role # "admin"
    BY <1>4 DEF By, Shown
  <2>. DEFINE d == log[cache["useAdminUsers"].at]
  <2>2. /\ RowsFit(d) /\ Query("useAdminUsers", d).found
        /\ \A m : Accepts(m, d) => Allowed(m, cache["useAdminUsers"].at, log)
    BY <1>1, <2>1, LoadedRows
  <2>3. d.role # "admin"
    BY <2>1, <2>2, AnswersAre DEF Sees
  <2>. HIDE DEF d
  <2>4. Accepts("useBlockUser", d)
    BY <2>2, <2>3, ServicesAccept
  <2>. QED  BY <1>1, <2>1, <2>4, DialogAccepted, BoxesAre DEF OpenFits, d
<1>5. \A offer \in UsersPage.sends : OfferFits(offer)
  BY <1>2, <1>3 DEF UsersPage, Shows
<1>6. \A offer \in UsersPage.opens : OpenFits(offer)
  BY <1>4 DEF UsersPage, Shows
<1>. QED  BY <1>5, <1>6

LEMMA ReviewsModerationPageOffers ==
    ASSUME PanelsInv, role = "admin"
    PROVE  /\ \A offer \in ReviewsModerationPage.sends : OfferFits(offer)
           /\ \A offer \in ReviewsModerationPage.opens : OpenFits(offer)
<1>1. /\ "useAdminReviews" \in QueriesOf(role)
      /\ "useRemoveReview" \in MutationsOf(role)
  BY DEF QueriesOf, MutationsOf
<1>2. ASSUME NEW offer,
             offer \in By("useAdminReviews", Sees("useAdminReviews").review # 0, {RemoveReviewModal})
      PROVE  OpenFits(offer)
  <2>1. /\ offer[1] = RemoveReviewModal
        /\ offer[2] = "useAdminReviews" /\ cache["useAdminReviews"].at # 0
        /\ Sees("useAdminReviews").review # 0
    BY <1>2 DEF By, Shown
  <2>. DEFINE d == log[cache["useAdminReviews"].at]
  <2>2. /\ RowsFit(d) /\ Query("useAdminReviews", d).found
        /\ \A m : Accepts(m, d) => Allowed(m, cache["useAdminReviews"].at, log)
    BY <1>1, <2>1, LoadedRows
  <2>3. d.review # 0
    BY <2>1, <2>2, AnswersAre DEF Sees
  <2>. HIDE DEF d
  <2>4. Accepts("useRemoveReview", d)
    BY <2>2, <2>3, ServicesAccept
  <2>. QED  BY <1>1, <2>1, <2>4, DialogAccepted, BoxesAre DEF OpenFits, d
<1>3. \A offer \in ReviewsModerationPage.sends : OfferFits(offer)
  BY DEF ReviewsModerationPage, Shows
<1>4. \A offer \in ReviewsModerationPage.opens : OpenFits(offer)
  BY <1>2 DEF ReviewsModerationPage, Shows
<1>. QED  BY <1>3, <1>4


LEMMA PageOffers ==
    ASSUME PanelsInv
    PROVE  /\ \A offer \in Page(page).sends : OfferFits(offer)
           /\ \A offer \in Page(page).opens : OpenFits(offer)
<1>. DEFINE Good(shows) == /\ \A offer \in shows.sends : OfferFits(offer)
                           /\ \A offer \in shows.opens : OpenFits(offer)
<1>1. role \in Roles /\ page \in PagesOf(role) \cup {"none"}
  BY DEF PanelsInv, Basics
<1>2. /\ Good(Shows({}, {}, {})) /\ Good(GardenDetailPage) /\ Good(HomePage) /\ Good(EarningsPage)
  BY DEF Shows, GardenDetailPage, HomePage, EarningsPage
<1>3. CASE role = "client"
  <2>1. /\ Good(ReservationsPage) /\ Good(ReviewsPage) /\ Good(PetsPage) /\ Good(BookingWizardPage)
    BY <1>3, ReservationsPageOffers, ReviewsPageOffers, PetsPageOffers, BookingWizardPageOffers
  <2>2. page \in {"none", "reservations", "reviews", "pets", "wizard", "garden", "home"}
    BY <1>1, <1>3 DEF PagesOf
  <2>. HIDE DEF Good
  <2>3. Good(Page(page))
    BY <1>2, <2>1, <2>2 DEF Page
  <2>. QED  BY <2>3 DEF Good
<1>4. CASE role = "host"
  <2>1. /\ Good(GardensPage) /\ Good(GardenFormPage) /\ Good(NewGardenPage)
        /\ Good(HostReservationsPage) /\ Good(SchedulePage)
    BY <1>4, GardensPageOffers, GardenFormPageOffers, NewGardenPageOffers, HostReservationsPageOffers,
       SchedulePageOffers
  <2>2. page \in {"none", "gardens", "form", "new", "bookings", "schedule", "earnings"}
    BY <1>1, <1>4 DEF PagesOf
  <2>. HIDE DEF Good
  <2>3. Good(Page(page))
    BY <1>2, <2>1, <2>2 DEF Page
  <2>. QED  BY <2>3 DEF Good
<1>5. CASE role = "admin"
  <2>1. Good(VerificationQueuePage) /\ Good(UsersPage) /\ Good(ReviewsModerationPage)
    BY <1>5, VerificationQueuePageOffers, UsersPageOffers, ReviewsModerationPageOffers
  <2>2. page \in {"none", "queue", "users", "moderation"}
    BY <1>1, <1>5 DEF PagesOf
  <2>. HIDE DEF Good
  <2>3. Good(Page(page))
    BY <1>2, <2>1, <2>2 DEF Page
  <2>. QED  BY <2>3 DEF Good
<1>. QED  BY <1>1, <1>3, <1>4, <1>5 DEF Roles

-----------------------------------------------------------------------------
(* The invariant is inductive.                                             *)

LEMMA MountFits ==
    ASSUME PanelsInv, NEW queries
    PROVE  /\ Mount(queries) \in [QueriesOf(role) -> EntryType]
           /\ \A q \in QueriesOf(role) : EntryFits(q, Mount(queries)[q], mine[q], log)
<1>1. /\ DOMAIN cache = QueriesOf(role) /\ Len(log) \in Nat
      /\ \A q \in QueriesOf(role) : EntryFits(q, cache[q], mine[q], log)
  BY RowsAre DEF PanelsInv, Basics, CacheFits
<1>2. DOMAIN Mount(queries) = QueriesOf(role)
  BY <1>1 DEF Mount
<1>3. ASSUME NEW q \in QueriesOf(role) PROVE EntryFits(q, Mount(queries)[q], mine[q], log)
  <2>1. Mount(queries)[q] = IF q \in queries THEN Mounting(cache[q]) ELSE cache[q]
    BY <1>1 DEF Mount
  <2>. QED  BY <1>1, <2>1, MountingFits
<1>4. \A q \in QueriesOf(role) : Mount(queries)[q] \in EntryType
  BY <1>3 DEF EntryFits
<1>5. Mount(queries) \in [QueriesOf(role) -> EntryType]
  BY <1>1, <1>4 DEF Mount
<1>. QED  BY <1>3, <1>5

LEMMA SpendsBudget ==
    ASSUME budget \in BudgetType, NEW what \in {"visits", "sends", "others", "ages", "losses"},
           Spend(what)
    PROVE  budget' \in BudgetType /\ budget' # budget
  BY DEF BudgetType, Spend


LEMMA InitInv == Init => PanelsInv
<1>. SUFFICES ASSUME Init PROVE PanelsInv
  OBVIOUS
<1>1. PICK start \in Starts : role = start.role /\ log = <<start.rows>> /\ budget = start.budget
  BY DEF Init
<1>2. /\ start \in [role: Roles, rows: RowsType, budget: BudgetType]
      /\ Len(start.rows.photos) <= MaxPhotos /\ IsInjective(start.rows.photos)
      /\ start.rows.stay # "none" => start.rows.dog # 0
  BY StartsAssumption
<1>3. role \in Roles /\ budget \in BudgetType /\ start.rows \in RowsType /\ RowsFit(start.rows)
  <2>1. start.role \in Roles /\ start.budget \in BudgetType /\ start.rows \in RowsType
    BY <1>2
  <2>2. start.rows.photos \in Seq(PhotoIds)
    BY <2>1 DEF RowsType, PhotoIds
  <2>. QED  BY <1>1, <1>2, <2>1, <2>2 DEF RowsFit, Gallery
<1>4. LogFits(log) /\ Len(log) = 1
  BY <1>1, <1>3 DEF LogFits
<1>5. Basics
  BY <1>3, <1>4 DEF Init, Basics
<1>6. CacheFits
  <2>1. \A q \in QueriesOf(role) : cache[q] = NoEntry
    BY DEF Init
  <2>2. \A q \in QueriesOf(role) : EntryFits(q, cache[q], mine[q], log)
    BY <1>4, <2>1, NoEntryFits
  <2>3. \A q \in QueriesOf(role) : cache[q] \in EntryType
    BY <2>2 DEF EntryFits
  <2>4. cache = [q \in QueriesOf(role) |-> cache[q]]
    BY DEF Init
  <2>. QED  BY <2>2, <2>3, <2>4 DEF CacheFits
<1>7. CallsFit
  <2>1. \A c \in CallsOf(role) : calls[c] = NoCall
    BY DEF Init
  <2>2. \A c \in CallsOf(role) : CallFits(c[1], NoCall, log, role)
    BY <1>4 DEF CallFits, WriteReached, NoCall
  <2>. QED  BY <2>1, <2>2 DEF CallsFit, Init
<1>8. MineFits
  BY <1>4 DEF MineFits, Init
<1>9. DialogFits
  BY <1>4 DEF DialogFits, Init, Closed, NoBox, Box, BoxFits
<1>10. GalleryFits
  <2>1. Uploading = {}
    <3>1. ~Counted(NoCall)
      BY DEF Counted, NoCall
    <3>2. \A c \in DOMAIN calls : calls[c] = NoCall
      BY DEF Init
    <3>. QED  BY <3>1, <3>2 DEF Uploading
  <2>2. Cardinality(Uploading) = 0
    BY <2>1, FS_EmptySet
  <2>3. Rows = start.rows /\ \A n \in 1..Len(log) : log[n] = start.rows
    BY <1>1, <1>4 DEF Rows, Last
  <2>4. Len(start.rows.photos) \in Nat
    BY <1>3 DEF RowsFit, Gallery
  <2>. QED  BY <1>2, <2>2, <2>3, <2>4, MaxPhotosAssumption, ClicksAssumption DEF GalleryFits
<1>. QED  BY <1>5, <1>6, <1>7, <1>8, <1>9, <1>10 DEF PanelsInv

\* What the actions leave alone.
LEMMA CallsStay ==
    ASSUME PanelsInv, UNCHANGED <<role, log, calls>> PROVE CallsFit' /\ GalleryFits'
<1>1. CallsFit'
  BY DEF PanelsInv, CallsFit, CallFits
<1>2. Uploading' = Uploading /\ Rows' = Rows
  BY DEF Uploading, Rows
<1>3. GalleryFits'
  BY <1>2 DEF PanelsInv, GalleryFits
<1>. QED  BY <1>1, <1>3

LEMMA MineStays ==
    ASSUME PanelsInv, UNCHANGED <<role, log, mine>> PROVE MineFits'
  BY DEF PanelsInv, MineFits

LEMMA CacheStays ==
    ASSUME PanelsInv, UNCHANGED <<role, log, cache, mine>> PROVE CacheFits'
  BY DEF PanelsInv, CacheFits

LEMMA DialogStays ==
    ASSUME PanelsInv, UNCHANGED <<role, log, dialog>> PROVE DialogFits'
  BY DEF PanelsInv, DialogFits

LEMMA NoDialogFits ==
    ASSUME PanelsInv, UNCHANGED <<role, log>>, dialog' = Closed
    PROVE  DialogFits'
<1>1. Len(log) \in Nat
  BY RowsAre DEF PanelsInv, Basics
<1>2. dialog'.box.sends = "nothing" /\ dialog'.from = 0
  BY DEF Closed, NoBox, Box
<1>. QED  BY <1>1, <1>2 DEF DialogFits, BoxFits

LEMMA MountedStep ==
    ASSUME PanelsInv, NEW queries, cache' = Mount(queries), UNCHANGED <<role, log, mine>>
    PROVE  CacheFits'
  BY MountFits DEF CacheFits

LEMMA VisitStep ==
    ASSUME PanelsInv, NEW p \in PagesOf(role), Visit(p) PROVE PanelsInv'
<1>1. Basics'
  BY SpendsBudget DEF PanelsInv, Basics, Visit
<1>. QED  BY <1>1, MountedStep, CallsStay, MineStays, NoDialogFits DEF PanelsInv, Visit

LEMMA OpenDialogStep ==
    ASSUME PanelsInv, OpenDialog PROVE PanelsInv'
<1>1. PICK offer \in Page(page).opens : /\ dialog' = [box |-> offer[1], from |-> cache[offer[2]].at]
                                        /\ cache' = Mount(offer[1].asks)
  BY DEF OpenDialog
<1>2. Spend("visits") /\ UNCHANGED <<role, log, page, calls, mine>>
  BY DEF OpenDialog
<1>3. DialogFits'
  BY <1>1, <1>2, PageOffers DEF OpenFits, DialogFits
<1>4. Basics'
  BY <1>2, SpendsBudget DEF PanelsInv, Basics
<1>. QED  BY <1>1, <1>2, <1>3, <1>4, MountedStep, CallsStay, MineStays DEF PanelsInv

LEMMA CloseDialogStep ==
    ASSUME PanelsInv, CloseDialog PROVE PanelsInv'
<1>1. Basics'
  BY DEF PanelsInv, Basics, CloseDialog
<1>. QED  BY <1>1, CacheStays, CallsStay, MineStays, NoDialogFits DEF PanelsInv, CloseDialog


\* No upload begins or ends.
LEMMA GalleryStays ==
    ASSUME PanelsInv, DOMAIN calls' = DOMAIN calls, UNCHANGED log,
           \A b \in DOMAIN calls : Counted(calls'[b]) <=> Counted(calls[b])
    PROVE  GalleryFits'
<1>1. Uploading' = Uploading /\ Rows' = Rows
  <2>. HIDE DEF Counted
  <2>. QED  BY DEF Uploading, Rows
<1>. QED  BY <1>1 DEF PanelsInv, GalleryFits

\* A call replaced, the others as they were.
LEMMA CallStep ==
    ASSUME PanelsInv, NEW c \in CallsOf(role), NEW call, CallFits(c[1], call, log, role),
           calls' = [calls EXCEPT ![c] = call], UNCHANGED <<role, log>>
    PROVE  CallsFit' /\ (Counted(call) <=> Counted(calls[c]) => GalleryFits')
<1>1. /\ DOMAIN calls = CallsOf(role) /\ calls = [b \in CallsOf(role) |-> calls[b]]
      /\ \A b \in CallsOf(role) : CallFits(b[1], calls[b], log, role)
  BY DEF PanelsInv, CallsFit
<1>2. \A b \in CallsOf(role) : calls'[b] = IF b = c THEN call ELSE calls[b]
  BY <1>1
<1>3. DOMAIN calls' = CallsOf(role) /\ calls' = [b \in CallsOf(role) |-> calls'[b]]
  BY <1>1
<1>4. \A b \in CallsOf(role) : CallFits(b[1], calls'[b], log, role)
  BY <1>1, <1>2
<1>5. CallsFit'
  BY <1>3, <1>4 DEF CallsFit, CallFits
<1>6. ASSUME Counted(call) <=> Counted(calls[c]) PROVE GalleryFits'
  <2>1. DOMAIN calls' = DOMAIN calls /\ \A b \in DOMAIN calls : Counted(calls'[b]) <=> Counted(calls[b])
    BY <1>1, <1>2, <1>3, <1>6
  <2>. QED  BY <2>1, GalleryStays
<1>. QED  BY <1>5, <1>6

LEMMA NoCallFits ==
    ASSUME NEW m, NEW rows, Len(rows) \in Nat, NEW r
    PROVE  CallFits(m, NoCall, rows, r) /\ NoCall.wrote = 0 /\ NoCall.counted = 0 /\ NoCall.phase = "none"
<1>1. PICK nothing \in SUBSET QueriesOf(r) : nothing = {}
  OBVIOUS
<1>2. NoCall = [phase |-> "none", from |-> 0, counted |-> 0, wrote |-> 0, waits |-> nothing]
  BY <1>1 DEF NoCall
<1>. QED  BY <1>2 DEF CallFits, WriteReached

Sent(call, from) == [call EXCEPT !.phase = "sent", !.from = from]

LEMMA SentFits ==
    ASSUME NEW m, NEW rows, Len(rows) \in Nat, NEW r, NEW call, CallFits(m, call, rows, r),
           call.wrote = 0, call.counted = 0, NEW from \in Nat, from <= Len(rows), Allowed(m, from, rows)
    PROVE  CallFits(m, Sent(call, from), rows, r) /\ Sent(call, from).counted = 0
<1>1. CallFits(m, [call EXCEPT !.phase = "sent", !.from = from], rows, r)
  BY DEF CallFits
<1>2. [call EXCEPT !.phase = "sent", !.from = from].counted = call.counted
  BY DEF CallFits
<1>. QED  BY <1>1, <1>2 DEF Sent

LEMMA SendStep ==
    ASSUME PanelsInv, NEW m, NEW n, NEW from, Allowed(m, from, log), Send(m, n, from)
    PROVE  PanelsInv'
<1>. DEFINE call == Sent(NoCall, from)
<1>0. PICK c : c = <<m, n>>
  OBVIOUS
<1>1. Len(log) \in Nat /\ from \in Nat /\ from <= Len(log)
  BY RowsAre DEF PanelsInv, Basics, Allowed
<1>2. CallFits(m, call, log, role) /\ call.counted = 0
  <2>1. CallFits(m, NoCall, log, role) /\ NoCall.wrote = 0 /\ NoCall.counted = 0
    BY <1>1, NoCallFits
  <2>. QED  BY <1>1, <2>1, SentFits
<1>. HIDE DEF call
<1>3. /\ calls' = [calls EXCEPT ![c] = call] /\ Spend("sends")
      /\ UNCHANGED <<role, log, page, dialog, cache, mine>>
      /\ c \in DOMAIN calls /\ calls[c].phase = "none"
  BY <1>0 DEF Send, call, Sent
<1>4. c \in CallsOf(role) /\ c[1] = m
  BY <1>0, <1>3 DEF PanelsInv, CallsFit
<1>5. CallsFit' /\ GalleryFits'
  <2>1. Counted(call) <=> Counted(calls[c])
    BY <1>2, <1>3 DEF Counted
  <2>2. CallFits(c[1], call, log, role)
    BY <1>2, <1>4
  <2>. QED  BY <1>3, <1>4, <2>1, <2>2, CallStep
<1>6. Basics'
  BY <1>3, SpendsBudget DEF PanelsInv, Basics
<1>. QED  BY <1>3, <1>5, <1>6, CacheStays, MineStays, DialogStays DEF PanelsInv

LEMMA PressStep ==
    ASSUME PanelsInv, Press PROVE PanelsInv'
<1>1. PICK offer \in Page(page).sends, n \in 1..Clicks : Send(offer[1], n, cache[offer[2]].at)
  BY DEF Press
<1>. QED  BY <1>1, PageOffers, SendStep DEF OfferFits

LEMMA ConfirmStep ==
    ASSUME PanelsInv, Confirm PROVE PanelsInv'
<1>. DEFINE m == dialog.box.sends
<1>1. m # "nothing" /\ m \in MutationsOf(role) /\ Allowed(m, dialog.from, log)
  BY DEF Confirm, PanelsInv, DialogFits, BoxFits
<1>2. CASE ~\E q \in dialog.box.asks : cache[q].at # 0
  <2>1. Send(m, 1, dialog.from)
    BY <1>2 DEF Confirm
  <2>. QED  BY <1>1, <2>1, SendStep
<1>3. CASE \E q \in dialog.box.asks : cache[q].at # 0
  <2>1. dialog.box.asks = {"useDog"} /\ m = "useUpdateDog"
    BY <1>1, <1>3 DEF PanelsInv, DialogFits, BoxFits
  <2>2. (CHOOSE q \in dialog.box.asks : cache[q].at # 0) = "useDog" /\ cache["useDog"].at # 0
    BY <1>3, <2>1
  <2>3. Send("useUpdateDog", 1, cache["useDog"].at)
    BY <1>3, <2>1, <2>2 DEF Confirm
  <2>4. "useDog" \in QueriesOf(role)
    BY <1>1, <2>1 DEF MutationsOf, QueriesOf, PanelsInv, Basics, Roles
  <2>. DEFINE d == log[cache["useDog"].at]
  <2>5. /\ RowsFit(d) /\ Query("useDog", d).found
        /\ \A n : Accepts(n, d) => Allowed(n, cache["useDog"].at, log)
    BY <2>2, <2>4, LoadedRows
  <2>. HIDE DEF d
  <2>6. d.dog # 0
    BY <2>5, AnswersAre
  <2>7. Accepts("useUpdateDog", d)
    BY <2>5, <2>6, ServicesAccept
  <2>. QED  BY <2>3, <2>5, <2>7, SendStep
<1>. QED  BY <1>2, <1>3

\* One entry replaced, the others as they were.
LEMMA EntryStep ==
    ASSUME PanelsInv, NEW q \in QueriesOf(role), NEW entry, EntryFits(q, entry, mine[q], log),
           cache' = [cache EXCEPT ![q] = entry], UNCHANGED <<role, log, page, dialog, calls, mine>>,
           budget' \in BudgetType
    PROVE  PanelsInv'
<1>1. cache \in [QueriesOf(role) -> EntryType] /\ entry \in EntryType
  BY DEF PanelsInv, CacheFits, EntryFits
<1>2. \A n \in QueriesOf(role) : cache'[n] = IF n = q THEN entry ELSE cache[n]
  BY <1>1
<1>3. cache' \in [QueriesOf(role) -> EntryType]
  BY <1>1
<1>4. \A n \in QueriesOf(role) : EntryFits(n, cache'[n], mine[n], log)
  BY <1>2 DEF PanelsInv, CacheFits
<1>5. CacheFits'
  BY <1>3, <1>4 DEF CacheFits
<1>6. Basics'
  BY DEF PanelsInv, Basics
<1>. QED  BY <1>5, <1>6, CallsStay, MineStays, DialogStays DEF PanelsInv

LEMMA EntryIs ==
    ASSUME PanelsInv, NEW q \in QueriesOf(role)
    PROVE  /\ EntryFits(q, cache[q], mine[q], log) /\ cache[q] \in EntryType
           /\ Len(log) \in Nat \ {0} /\ budget \in BudgetType /\ mine[q].at \in 0..Len(log)
           /\ DOMAIN cache = QueriesOf(role)
  BY RowsAre DEF PanelsInv, Basics, CacheFits, MineFits

LEMMA RefetchStep ==
    ASSUME PanelsInv, NEW q \in QueriesOf(role), Refetch(q) PROVE PanelsInv'
<1>1. cache[q].at = 0 \/ cache[q].stale
  BY EntryIs DEF Refetch, EntryFits
<1>2. EntryFits(q, Started(cache[q]), mine[q], log)
  BY <1>1, EntryIs, StartedFits
<1>3. budget' \in BudgetType
  BY EntryIs, SpendsBudget DEF Refetch
<1>4. cache' = [cache EXCEPT ![q] = Started(cache[q])]
  BY DEF Refetch
<1>. QED  BY <1>2, <1>3, <1>4, EntryStep DEF Refetch

LEMMA ServeListStep ==
    ASSUME PanelsInv, NEW q \in QueriesOf(role), ServeList(q) PROVE PanelsInv'
<1>1. PICK entry : entry = [cache[q] EXCEPT !.listed = Len(log)]
  OBVIOUS
<1>2. EntryFits(q, entry, mine[q], log)
  BY <1>1, EntryIs, ListServedFits DEF ServeList
<1>3. cache' = [cache EXCEPT ![q] = entry]
  BY <1>1, EntryIs DEF ServeList
<1>. QED  BY <1>2, <1>3, EntryIs, EntryStep DEF ServeList

LEMMA ServeFetchStep ==
    ASSUME PanelsInv, NEW q \in QueriesOf(role), ServeFetch(q) PROVE PanelsInv'
<1>1. PICK entry : entry = [cache[q] EXCEPT !.fetch = Len(log)]
  OBVIOUS
<1>2. EntryFits(q, entry, mine[q], log)
  BY <1>1, EntryIs, ServedFits DEF ServeFetch
<1>3. cache' = [cache EXCEPT ![q] = entry]
  BY <1>1, EntryIs DEF ServeFetch
<1>. QED  BY <1>2, <1>3, EntryIs, EntryStep DEF ServeFetch

\* An answer of two requests finds what the older of them found.
LEMMA AnswerIsThere ==
    ASSUME PanelsInv, NEW q \in QueriesOf(role), cache[q].fetch > 0, Found(q)
    PROVE  /\ AnsweredAt(q) \in {cache[q].listed, cache[q].fetch} /\ AnsweredAt(q) # 0
           /\ Query(q, log[AnsweredAt(q)]).found
<1>1. CASE OldList(q)
  <2>1. q \in InTwoSteps
    BY <1>1 DEF OldList, InTwoSteps
  <2>2. AnsweredAt(q) = cache[q].listed /\ cache[q].listed # 0
    BY <1>1, <2>1, EntryIs DEF AnsweredAt, EntryFits
  <2>3. \A d : Query(q, d).found
    BY <2>1 DEF InTwoSteps, Query, Answer, useHostGardens, useMyReviews
  <2>. QED  BY <2>2, <2>3
<1>2. CASE ~OldList(q)
  <2>1. AnsweredAt(q) = cache[q].fetch
    BY <1>2 DEF AnsweredAt
  <2>2. Query(q, log[cache[q].fetch]).found
    BY DEF Found
  <2>3. cache[q].fetch # 0
    OBVIOUS
  <2>. QED  BY <2>1, <2>2, <2>3
<1>. QED  BY <1>1, <1>2

LEMMA FetchAnsweredStep ==
    ASSUME PanelsInv, NEW q \in QueriesOf(role), FetchAnswered(q) PROVE PanelsInv'
<1>1. PICK entry : entry = [NoEntry EXCEPT !.at = AnsweredAt(q), !.raced = cache[q].raced]
  OBVIOUS
<1>2. EntryFits(q, entry, mine[q], log)
  <2>1. /\ AnsweredAt(q) \in {cache[q].listed, cache[q].fetch} /\ AnsweredAt(q) # 0
        /\ Query(q, log[AnsweredAt(q)]).found
    BY AnswerIsThere DEF FetchAnswered
  <2>2. cache[q].fetch > 0
    BY DEF FetchAnswered
  <2>. QED  BY <1>1, <2>1, <2>2, EntryIs, AnsweredFits
<1>3. cache' = [cache EXCEPT ![q] = entry]
  BY <1>1 DEF FetchAnswered
<1>. QED  BY <1>2, <1>3, EntryIs, EntryStep DEF FetchAnswered

LEMMA FetchFailsStep ==
    ASSUME PanelsInv, NEW q \in QueriesOf(role), FetchFails(q) PROVE PanelsInv'
<1>1. PICK entry : entry = IF cache[q].tries = 0 /\ q \in Mounted
                           THEN [cache[q] EXCEPT !.fetch = Asked, !.listed = 0, !.tries = 1]
                           ELSE [cache[q] EXCEPT !.fetch = Idle, !.listed = 0, !.tries = 0, !.error = TRUE]
  OBVIOUS
<1>2. EntryFits(q, entry, mine[q], log)
  BY <1>1, EntryIs, FailedFits DEF FetchFails
<1>3. cache' = [cache EXCEPT ![q] = entry]
  BY <1>1 DEF FetchFails, Failed
<1>4. budget' \in BudgetType
  BY EntryIs DEF FetchFails, BudgetType
<1>. QED  BY <1>2, <1>3, <1>4, EntryStep DEF FetchFails

LEMMA AgeStep ==
    ASSUME PanelsInv, NEW q \in QueriesOf(role), Age(q) PROVE PanelsInv'
<1>1. PICK entry : entry = [cache[q] EXCEPT !.stale = TRUE]
  OBVIOUS
<1>2. EntryFits(q, entry, mine[q], log)
  BY <1>1, EntryIs, AgedFits
<1>3. cache' = [cache EXCEPT ![q] = entry]
  BY <1>1, EntryIs DEF Age
<1>4. budget' \in BudgetType
  BY EntryIs, SpendsBudget DEF Age
<1>. QED  BY <1>2, <1>3, <1>4, EntryStep DEF Age

LEMMA MutationsOfRoles ==
    ASSUME NEW r \in Roles, NEW m \in MutationsOf(r) PROVE m \in Mutations
  BY DEF Roles, MutationsOf, Mutations, StayWriters, ReviewWriters, DogWriters, GardenWriters,
         PhotoWriters, AccountWriters

\* One more write behind everything.
LEMMA LogStep ==
    ASSUME PanelsInv, NEW d, RowsFit(d), log' = Append(log, d), UNCHANGED role
    PROVE  /\ LogFits(log)'
           /\ UNCHANGED <<cache, mine>> => CacheFits' /\ MineFits'
           /\ UNCHANGED dialog => DialogFits'
           /\ \A c \in CallsOf(role) : CallFits(c[1], calls[c], log', role)
<1>1. /\ LogFits(log) /\ log \in Seq(RowsType) /\ d \in RowsType /\ Len(log) \in Nat
      /\ LogFits(log') /\ Len(log') = Len(log) + 1
  BY LogGrows, RowsAre DEF PanelsInv, Basics, LogFits, RowsFit
<1>2. ASSUME UNCHANGED <<cache, mine>> PROVE CacheFits' /\ MineFits'
  <2>1. \A q \in QueriesOf(role) : EntryFits(q, cache[q], mine[q], log')
    BY <1>1, EntryOutlives DEF PanelsInv, CacheFits
  <2>2. CacheFits'
    BY <1>2, <2>1 DEF PanelsInv, CacheFits
  <2>3. MineFits'
    BY <1>1, <1>2 DEF PanelsInv, MineFits
  <2>. QED  BY <2>2, <2>3
<1>3. ASSUME UNCHANGED dialog PROVE DialogFits'
  <2>1. BoxFits(dialog.box, dialog.from, log', role)
    BY <1>1, BoxOutlives DEF PanelsInv, DialogFits
  <2>. QED  BY <1>3, <2>1 DEF DialogFits
<1>4. \A c \in CallsOf(role) : CallFits(c[1], calls[c], log', role)
  BY <1>1, CallOutlives DEF PanelsInv, CallsFit
<1>. QED  BY <1>1, <1>2, <1>3, <1>4

LEMMA CallsAre ==
    ASSUME NEW r, NEW c \in CallsOf(r)
    PROVE  c[1] \in MutationsOf(r) /\ c[2] \in 1..Clicks /\ c = <<c[1], c[2]>>
  BY DEF CallsOf

AnsweredCall(call, phase, wrote) == [call EXCEPT !.phase = phase, !.wrote = wrote]

LEMMA AnsweredCallFits ==
    ASSUME NEW m, NEW rows, Len(rows) \in Nat, NEW r, NEW call, CallFits(m, call, rows, r),
           NEW phase \in {"ok", "failed"}, NEW wrote \in Nat, wrote <= Len(rows),
           WriteReached(m, wrote, rows, r)
    PROVE  CallFits(m, AnsweredCall(call, phase, wrote), rows, r)
<1>. DEFINE answered == AnsweredCall(call, phase, wrote)
<1>1. /\ answered \in [phase: {"none", "sent", "ok", "failed", "settling"}, from: Nat, counted: Nat,
                      wrote: Nat, waits: SUBSET QueriesOf(r)]
      /\ answered.from = call.from /\ answered.counted = call.counted
      /\ answered.wrote = wrote /\ answered.phase = phase
  BY DEF CallFits, AnsweredCall
<1>. HIDE DEF answered
<1>2. CallFits(m, answered, rows, r)
  BY <1>1 DEF CallFits
<1>. QED  BY <1>2 DEF answered

LEMMA AnsweredPhase ==
    ASSUME NEW m, NEW rows, NEW r, NEW call, CallFits(m, call, rows, r), NEW phase, NEW wrote
    PROVE  AnsweredCall(call, phase, wrote).phase = phase
  BY DEF CallFits, AnsweredCall

LEMMA CallAnswered ==
    ASSUME PanelsInv, NEW c \in CallsOf(role), NEW call, CallFits(c[1], call, log', role),
           \A b \in CallsOf(role) : CallFits(b[1], calls[b], log', role),
           calls' = [calls EXCEPT ![c] = call], UNCHANGED role
    PROVE  CallsFit'
<1>1. DOMAIN calls = CallsOf(role) /\ calls = [b \in CallsOf(role) |-> calls[b]]
  BY DEF PanelsInv, CallsFit
<1>2. \A b \in CallsOf(role) : calls'[b] = IF b = c THEN call ELSE calls[b]
  BY <1>1
<1>3. DOMAIN calls' = CallsOf(role) /\ calls' = [b \in CallsOf(role) |-> calls'[b]]
  BY <1>1
<1>4. \A b \in CallsOf(role) : CallFits(b[1], calls'[b], log', role)
  BY <1>2
<1>. QED  BY <1>3, <1>4 DEF CallsFit, CallFits

LEMMA BlankFits ==
    ASSUME NEW d, RowsFit(d), NEW active \in BOOLEAN
    PROVE  RowsFit([d EXCEPT !.active = active])
<1>. DEFINE e == [d EXCEPT !.active = active]
<1>1. e \in RowsType /\ e.photos = d.photos /\ e.stay = d.stay /\ e.dog = d.dog
  BY DEF RowsFit, RowsType
<1>. HIDE DEF e
<1>2. RowsFit(e)
  BY <1>1 DEF RowsFit
<1>. QED  BY <1>2 DEF e

\* The rows a call is decided on.
Basis(c) == IF calls[c].counted # 0 THEN log[calls[c].counted] ELSE Seen(c)

LEMMA BasisFits ==
    ASSUME PanelsInv, NEW c \in CallsOf(role), calls[c].phase = "sent"
    PROVE  RowsFit(Rows) /\ RowsFit(Basis(c)) /\ Allowed(c[1], calls[c].from, log)
<1>1. /\ LogFits(log) /\ CallFits(c[1], calls[c], log, role) /\ Len(log) \in Nat /\ RowsFit(Rows)
  BY RowsAre DEF PanelsInv, Basics, CallsFit, Rows
<1>2. Allowed(c[1], calls[c].from, log) /\ calls[c].from \in 0..Len(log)
  BY <1>1 DEF CallFits, Allowed
<1>3. calls[c].counted \in 0..Len(log)
  BY <1>1 DEF CallFits
<1>4. RowsFit(Seen(c))
  <2>1. RowsFit([Rows EXCEPT !.active = TRUE])
    BY <1>1, BlankFits
  <2>. QED  BY <1>1, <1>2, <2>1 DEF Seen, LogFits
<1>5. RowsFit(Basis(c))
  BY <1>1, <1>3, <1>4 DEF Basis, LogFits
<1>. QED  BY <1>1, <1>2, <1>5

LEMMA ServeCallIs ==
    ASSUME NEW c, ServeCall(c)
    PROVE  \/ \E d \in Mutation(c[1], Rows, Basis(c)).to :
                /\ log' = Written(d)
                /\ \/ /\ calls' = [calls EXCEPT ![c].phase = "ok",
                                                ![c].wrote = IF d = Rows THEN 0 ELSE Len(log) + 1]
                      /\ UNCHANGED budget
                   \/ /\ calls' = [calls EXCEPT ![c].phase = "failed", ![c].wrote = 0]
                      /\ Spend("losses")
           \/ /\ Mutation(c[1], Rows, Basis(c)).to = {}
              /\ calls' = [calls EXCEPT ![c].phase = "failed", ![c].wrote = 0]
              /\ UNCHANGED <<log, budget>>
  BY DEF ServeCall, Basis, Answered

\* One answer, to one call.
Answers(c, phase, wrote) == calls' = [calls EXCEPT ![c] = AnsweredCall(calls[c], phase, wrote)]

LEMMA FailsIs ==
    ASSUME PanelsInv, NEW c \in CallsOf(role),
           calls' = [calls EXCEPT ![c].phase = "failed", ![c].wrote = 0]
    PROVE  Answers(c, "failed", 0)
<1>1. DOMAIN calls = CallsOf(role)
  BY DEF PanelsInv, CallsFit
<1>. QED  BY <1>1 DEF Answers, AnsweredCall

LEMMA OneAnswer ==
    ASSUME PanelsInv, NEW c \in CallsOf(role), ServeCall(c)
    PROVE  \/ \E d \in Mutation(c[1], Rows, Basis(c)).to :
                /\ log' = Written(d)
                /\ \/ \E wrote \in {0, Len(log) + 1} :
                        /\ Answers(c, "ok", wrote) /\ (d = Rows => wrote = 0)
                        /\ UNCHANGED budget
                   \/ Answers(c, "failed", 0) /\ Spend("losses")
           \/ /\ Mutation(c[1], Rows, Basis(c)).to = {}
              /\ Answers(c, "failed", 0) /\ UNCHANGED <<log, budget>>
<1>1. DOMAIN calls = CallsOf(role)
  BY DEF PanelsInv, CallsFit
<1>2. ASSUME NEW d, calls' = [calls EXCEPT ![c].phase = "ok",
                                           ![c].wrote = IF d = Rows THEN 0 ELSE Len(log) + 1]
      PROVE  \E wrote \in {0, Len(log) + 1} : Answers(c, "ok", wrote) /\ (d = Rows => wrote = 0)
  <2>1. PICK wrote \in {0, Len(log) + 1} : wrote = IF d = Rows THEN 0 ELSE Len(log) + 1
    OBVIOUS
  <2>2. Answers(c, "ok", wrote)
    BY <1>1, <1>2, <2>1 DEF Answers, AnsweredCall
  <2>. QED  BY <2>1, <2>2
<1>. QED  BY <1>2, FailsIs, ServeCallIs

LEMMA UploadsAre ==
    ASSUME NEW uploads, uploads \subseteq 1..Clicks
    PROVE  /\ Cardinality(uploads) \in 0..Clicks
           /\ \A n \in uploads : Cardinality(uploads \ {n}) = Cardinality(uploads) - 1
<1>1. Clicks \in Nat \ {0}
  BY ClicksAssumption
<1>2. IsFiniteSet(1..Clicks) /\ Cardinality(1..Clicks) = Clicks
  BY <1>1, FS_Interval
<1>3. IsFiniteSet(uploads) /\ Cardinality(uploads) <= Clicks
  BY <1>2, FS_Subset
<1>4. Cardinality(uploads) \in Nat
  BY <1>3, FS_CardinalityType
<1>5. \A n \in uploads : Cardinality(uploads \ {n}) = Cardinality(uploads) - 1
  BY <1>3, FS_RemoveElement
<1>. QED  BY <1>1, <1>3, <1>4, <1>5

LEMMA UploadingIs ==
    Uploading \subseteq 1..Clicks /\ Cardinality(Uploading) \in 0..Clicks
<1>1. Uploading \subseteq 1..Clicks
  BY DEF Uploading
<1>. QED  BY <1>1, UploadsAre

\* The first half of an upload: there is still room when it is counted.
LEMMA CountPhotosStep ==
    ASSUME PanelsInv, NEW c \in CallsOf(role), CountPhotos(c) PROVE PanelsInv'
<1>1. /\ c[1] = "useUploadGardenPhoto" /\ calls[c].phase = "sent" /\ calls[c].counted = 0
      /\ UNCHANGED <<role, log, page, dialog, cache, mine, budget>>
  BY DEF CountPhotos
<1>2. /\ Len(log) \in Nat \ {0} /\ CallFits(c[1], calls[c], log, role) /\ Rows = log[Len(log)]
      /\ DOMAIN calls = CallsOf(role)
  BY RowsAre DEF PanelsInv, Basics, CallsFit, Rows
<1>3. Basics'
  BY <1>1 DEF PanelsInv, Basics
<1>4. ASSUME CallsFit', GalleryFits' PROVE PanelsInv'
  BY <1>1, <1>3, <1>4, CacheStays, MineStays, DialogStays DEF PanelsInv
<1>5. CASE RoomFor(Rows)
  <2>1. PICK at \in Nat : at = Len(log)
    BY <1>2
  <2>2. PICK call : call = [calls[c] EXCEPT !.counted = at]
    OBVIOUS
  <2>3. /\ call \in [phase: {"none", "sent", "ok", "failed", "settling"}, from: Nat, counted: Nat,
                     wrote: Nat, waits: SUBSET QueriesOf(role)]
        /\ call.from = calls[c].from /\ call.counted = at
        /\ call.wrote = calls[c].wrote /\ call.phase = calls[c].phase
    BY <1>2, <2>2 DEF CallFits
  <2>4. CallFits(c[1], call, log, role)
    BY <1>1, <1>2, <1>5, <2>1, <2>3 DEF CallFits
  <2>5. calls' = [calls EXCEPT ![c] = call]
    <3>1. calls' = [calls EXCEPT ![c].counted = at]
      BY <1>5, <2>1 DEF CountPhotos
    <3>. QED  BY <1>2, <2>2, <3>1
  <2>6. CallsFit'
    BY <1>1, <2>4, <2>5, CallStep
  <2>7. Cardinality(Uploading') \in 0..Clicks
    <3>1. Uploading' \subseteq 1..Clicks
      BY DEF Uploading
    <3>. QED  BY <3>1, UploadsAre
  <2>8. Len(Rows.photos) < MaxPhotos /\ Len(Rows.photos) \in Nat /\ MaxPhotos \in Nat /\ Clicks \in Nat
    <3>1. RowsFit(Rows)
      BY RowsAre DEF PanelsInv, Basics, Rows
    <3>2. Len(Rows.photos) \in Nat
      BY <3>1 DEF RowsFit, Gallery
    <3>. QED  BY <1>5, <3>2, MaxPhotosAssumption, ClicksAssumption DEF RoomFor
  <2>9. Rows' = Rows
    BY <1>1 DEF Rows
  <2>10. Len(Rows.photos) + Cardinality(Uploading') <= MaxPhotos + Clicks
    BY <2>7, <2>8
  <2>11. GalleryFits'
    BY <1>1, <2>9, <2>10 DEF PanelsInv, GalleryFits
  <2>. QED  BY <1>4, <2>6, <2>11
<1>6. CASE ~RoomFor(Rows)
  <2>1. calls' = [calls EXCEPT ![c].phase = "failed", ![c].wrote = 0]
    BY <1>6 DEF CountPhotos, Answered
  <2>2. PICK none \in Nat, failed \in {"ok", "failed"} : none = 0 /\ failed = "failed"
    OBVIOUS
  <2>3. Answers(c, failed, none)
    BY <2>1, <2>2, FailsIs
  <2>. DEFINE call == AnsweredCall(calls[c], failed, none)
  <2>4. calls' = [calls EXCEPT ![c] = call]
    BY <2>3 DEF Answers
  <2>5. CallFits(c[1], call, log, role) /\ call.phase = failed
    <3>1. WriteReached(c[1], none, log, role)
      BY <2>2 DEF WriteReached
    <3>2. none <= Len(log) /\ Len(log) \in Nat /\ CallFits(c[1], calls[c], log, role)
      BY <1>2, <2>2
    <3>. HIDE DEF call
    <3>3. CallFits(c[1], AnsweredCall(calls[c], failed, none), log, role)
      BY <3>1, <3>2, AnsweredCallFits
    <3>4. AnsweredCall(calls[c], failed, none).phase = failed
      BY <1>2, AnsweredPhase
    <3>. QED  BY <3>3, <3>4 DEF call
  <2>. HIDE DEF call
  <2>6. Counted(call) <=> Counted(calls[c])
    BY <1>1, <2>2, <2>5 DEF Counted
  <2>7. CallsFit' /\ GalleryFits'
    BY <1>1, <2>4, <2>5, <2>6, CallStep
  <2>. QED  BY <1>4, <2>7
<1>. QED  BY <1>5, <1>6

\* The second half of an upload makes room for the photo it adds.
LEMMA OneLess ==
    ASSUME PanelsInv, NEW c \in CallsOf(role), calls[c].phase = "sent", UNCHANGED role,
           c[1] = "useUploadGardenPhoto" => calls[c].counted # 0,
           NEW call, calls' = [calls EXCEPT ![c] = call], call.phase # "sent"
    PROVE  /\ Cardinality(Uploading') \in Nat
           /\ Cardinality(Uploading') + MorePhotos(c[1]) <= Cardinality(Uploading)
<1>1. /\ DOMAIN calls = CallsOf(role) /\ calls = [b \in CallsOf(role) |-> calls[b]]
      /\ CallFits(c[1], calls[c], log, role)
  BY DEF PanelsInv, CallsFit
<1>2. \A b \in CallsOf(role) : calls'[b] = IF b = c THEN call ELSE calls[b]
  BY <1>1
<1>3. DOMAIN calls' = CallsOf(role)
  BY <1>1
<1>4. ~Counted(call)
  BY DEF Counted
<1>5. Cardinality(Uploading) \in Nat
  BY UploadingIs, ClicksAssumption
<1>6. CASE c[1] # "useUploadGardenPhoto"
  <2>1. MorePhotos(c[1]) = 0
    BY <1>6 DEF MorePhotos
  <2>2. \A n : Upload(n) # c
    BY <1>6 DEF Upload
  <2>3. Uploading' = Uploading
    BY <1>1, <1>2, <1>3, <2>2 DEF Uploading
  <2>. QED  BY <1>5, <2>1, <2>3
<1>7. CASE c[1] = "useUploadGardenPhoto"
  <2>1. MorePhotos(c[1]) = 1
    BY <1>7 DEF MorePhotos
  <2>2. c = Upload(c[2]) /\ c[2] \in 1..Clicks /\ \A n : Upload(n) = c => n = c[2]
    BY <1>7, CallsAre DEF Upload
  <2>3. Counted(calls[c])
    BY <1>7 DEF Counted
  <2>4. c[2] \in Uploading
    BY <1>1, <2>2, <2>3 DEF Uploading
  <2>5. Uploading' = Uploading \ {c[2]}
    BY <1>1, <1>2, <1>3, <1>4, <2>2 DEF Uploading
  <2>6. Cardinality(Uploading \ {c[2]}) = Cardinality(Uploading) - 1
    BY <2>4, UploadingIs, UploadsAre
  <2>7. Cardinality(Uploading \ {c[2]}) \in Nat
    <3>1. Uploading \ {c[2]} \subseteq 1..Clicks
      BY UploadingIs
    <3>. QED  BY <3>1, UploadsAre, ClicksAssumption
  <2>. QED  BY <1>5, <2>1, <2>5, <2>6, <2>7
<1>. QED  BY <1>6, <1>7

\* One more row in the log, no longer than there was room for.
LEMMA GalleryServed ==
    ASSUME PanelsInv, NEW m, Cardinality(Uploading') \in Nat,
           Cardinality(Uploading') + MorePhotos(m) <= Cardinality(Uploading),
           \/ UNCHANGED log
           \/ \E d : /\ RowsFit(d) /\ log' = Append(log, d)
                    /\ Len(d.photos) <= Len(Rows.photos) + MorePhotos(m)
    PROVE  GalleryFits'
<1>1. /\ MaxPhotos \in Nat /\ Clicks \in Nat /\ LogFits(log) /\ Len(log) \in Nat \ {0}
      /\ RowsFit(Rows) /\ Cardinality(Uploading) \in Nat /\ MorePhotos(m) \in 0..1
  BY RowsAre, MaxPhotosAssumption, ClicksAssumption, UploadingIs DEF PanelsInv, Basics, Rows, MorePhotos
<1>2. Len(Rows.photos) \in Nat
  BY <1>1 DEF RowsFit, Gallery
<1>3. /\ \A n \in 1..Len(log) : Len(log[n].photos) <= MaxPhotos + Clicks
      /\ Len(Rows.photos) + Cardinality(Uploading) <= MaxPhotos + Clicks
  BY DEF PanelsInv, GalleryFits
<1>4. CASE UNCHANGED log
  <2>1. Rows' = Rows
    BY <1>4 DEF Rows
  <2>2. Len(Rows.photos) + Cardinality(Uploading') <= MaxPhotos + Clicks
    BY <1>1, <1>2, <1>3
  <2>. QED  BY <1>3, <1>4, <2>1, <2>2 DEF GalleryFits
<1>5. ASSUME NEW d, RowsFit(d), log' = Append(log, d), Len(d.photos) <= Len(Rows.photos) + MorePhotos(m)
      PROVE  GalleryFits'
  <2>1. /\ LogFits(log') /\ Len(log') = Len(log) + 1 /\ log'[Len(log) + 1] = d
        /\ \A n \in 1..Len(log) : log'[n] = log[n]
    BY <1>1, <1>5, LogGrows
  <2>2. Rows' = d
    BY <1>1, <2>1, RowsAre DEF Rows
  <2>3. Len(d.photos) \in Nat
    BY <1>5 DEF RowsFit, Gallery
  <2>4. Len(d.photos) + Cardinality(Uploading') <= MaxPhotos + Clicks
    BY <1>1, <1>2, <1>3, <1>5, <2>3
  <2>5. Len(d.photos) <= MaxPhotos + Clicks
    BY <1>1, <2>3, <2>4
  <2>6. \A n \in 1..Len(log') : Len(log'[n].photos) <= MaxPhotos + Clicks
    BY <1>1, <1>3, <2>1, <2>5
  <2>. QED  BY <2>2, <2>4, <2>6 DEF GalleryFits
<1>. QED  BY <1>4, <1>5

LEMMA ServeCallStep ==
    ASSUME PanelsInv, NEW c \in CallsOf(role), ServeCall(c) PROVE PanelsInv'
<1>1. /\ calls[c].phase = "sent" /\ UNCHANGED <<role, page, dialog, cache, mine>>
      /\ c[1] = "useUploadGardenPhoto" => calls[c].counted # 0
      /\ role \in Roles /\ LogFits(log) /\ Len(log) \in Nat \ {0} /\ Rows = log[Len(log)]
      /\ budget \in BudgetType /\ page \in PagesOf(role) \cup {"none"}
      /\ CallFits(c[1], calls[c], log, role)
  BY RowsAre DEF ServeCall, PanelsInv, Basics, CallsFit, Rows
<1>2. RowsFit(Rows) /\ RowsFit(Basis(c)) /\ c[1] \in Mutations /\ c[1] \in MutationsOf(role)
  BY <1>1, BasisFits, CallsAre, MutationsOfRoles
<1>3. \A d \in Mutation(c[1], Rows, Basis(c)).to :
        RowsFit(d) /\ Len(d.photos) <= Len(Rows.photos) + MorePhotos(c[1])
  BY <1>2, RowsRewritten DEF Rewrites
<1>4. ASSUME budget' \in BudgetType, LogFits(log'), CallsFit', CacheFits', MineFits', DialogFits',
             GalleryFits'
      PROVE  PanelsInv'
  BY <1>1, <1>4 DEF PanelsInv, Basics
<1>5. ASSUME NEW call, calls' = [calls EXCEPT ![c] = call], call.phase \in {"ok", "failed"}
      PROVE  /\ Cardinality(Uploading') \in Nat
             /\ Cardinality(Uploading') + MorePhotos(c[1]) <= Cardinality(Uploading)
  BY <1>1, <1>5, OneLess
<1>6. ASSUME NEW phase \in {"ok", "failed"}, log' = log, budget' \in BudgetType,
             Answers(c, phase, 0)
      PROVE  PanelsInv'
  <2>1. PICK none \in Nat : none = 0
    OBVIOUS
  <2>. DEFINE call == AnsweredCall(calls[c], phase, none)
  <2>2. calls' = [calls EXCEPT ![c] = call]
    BY <1>6, <2>1 DEF Answers
  <2>3. CallFits(c[1], call, log, role) /\ call.phase = phase
    <3>1. WriteReached(c[1], none, log, role)
      BY <2>1 DEF WriteReached
    <3>2. CallFits(c[1], calls[c], log, role) /\ Len(log) \in Nat /\ none <= Len(log)
      BY <1>1, <2>1
    <3>3. CallFits(c[1], AnsweredCall(calls[c], phase, none), log, role)
      BY <3>1, <3>2, AnsweredCallFits
    <3>4. AnsweredCall(calls[c], phase, none).phase = phase
      BY <1>1, AnsweredPhase
    <3>. QED  BY <3>3, <3>4
  <2>. HIDE DEF call
  <2>4. CallsFit'
    BY <1>1, <1>6, <2>2, <2>3, CallStep
  <2>5. /\ Cardinality(Uploading') \in Nat
        /\ Cardinality(Uploading') + MorePhotos(c[1]) <= Cardinality(Uploading)
    BY <1>5, <2>2, <2>3
  <2>6. GalleryFits'
    BY <1>6, <2>5, GalleryServed
  <2>. QED  BY <1>1, <1>4, <1>6, <2>4, <2>6, CacheStays, MineStays, DialogStays
<1>7. ASSUME NEW d \in Mutation(c[1], Rows, Basis(c)).to, log' = Append(log, d), budget' \in BudgetType,
             NEW phase \in {"ok", "failed"}, NEW wrote \in {0, Len(log) + 1},
             Answers(c, phase, wrote)
      PROVE  PanelsInv'
  <2>. DEFINE call == AnsweredCall(calls[c], phase, wrote)
  <2>1. calls' = [calls EXCEPT ![c] = call]
    BY <1>7 DEF Answers
  <2>2. /\ LogFits(log') /\ CacheFits' /\ MineFits' /\ DialogFits'
        /\ \A b \in CallsOf(role) : CallFits(b[1], calls[b], log', role)
    BY <1>1, <1>3, <1>7, LogStep
  <2>3. /\ Len(log') = Len(log) + 1 /\ log'[Len(log) + 1] = d /\ log'[Len(log)] = Rows
    BY <1>1, <1>3, <1>7, LogGrows
  <2>4. \A q \in QueriesOf(role) : Query(q, d).data # Query(q, Rows).data => Covered(c[1], q)
    BY <1>1, <1>2, <1>7, ChangesAreCovered
  <2>5. /\ wrote \in Nat /\ wrote <= Len(log')
        /\ wrote # 0 => wrote >= 2 /\ log'[wrote] = d /\ log'[wrote - 1] = Rows
    BY <1>1, <1>7, <2>3
  <2>6. WriteReached(c[1], wrote, log', role)
    BY <2>4, <2>5 DEF WriteReached
  <2>7. CallFits(c[1], call, log', role) /\ call.phase = phase
    <3>1. CallFits(c[1], calls[c], log', role) /\ Len(log') \in Nat
      BY <1>1, <2>2, <2>3
    <3>2. CallFits(c[1], AnsweredCall(calls[c], phase, wrote), log', role)
      BY <2>5, <2>6, <3>1, AnsweredCallFits
    <3>3. AnsweredCall(calls[c], phase, wrote).phase = phase
      BY <1>1, AnsweredPhase
    <3>. QED  BY <3>2, <3>3
  <2>. HIDE DEF call
  <2>8. CallsFit'
    BY <1>1, <2>1, <2>2, <2>7, CallAnswered
  <2>9. /\ Cardinality(Uploading') \in Nat
        /\ Cardinality(Uploading') + MorePhotos(c[1]) <= Cardinality(Uploading)
    BY <1>5, <2>1, <2>7
  <2>10. GalleryFits'
    BY <1>3, <1>7, <2>9, GalleryServed
  <2>. QED  BY <1>4, <1>7, <2>2, <2>8, <2>10
<1>8. ASSUME NEW d \in Mutation(c[1], Rows, Basis(c)).to, log' = Written(d), budget' \in BudgetType,
             NEW phase \in {"ok", "failed"}, NEW wrote \in {0, Len(log) + 1},
             Answers(c, phase, wrote), d = Rows => wrote = 0
      PROVE  PanelsInv'
  BY <1>6, <1>7, <1>8 DEF Written
<1>9. CASE \E d \in Mutation(c[1], Rows, Basis(c)).to :
             /\ log' = Written(d)
             /\ \/ \E wrote \in {0, Len(log) + 1} :
                     /\ Answers(c, "ok", wrote) /\ (d = Rows => wrote = 0)
                     /\ UNCHANGED budget
                \/ Answers(c, "failed", 0) /\ Spend("losses")
  <2>1. PICK d \in Mutation(c[1], Rows, Basis(c)).to :
             /\ log' = Written(d)
             /\ \/ \E wrote \in {0, Len(log) + 1} :
                     /\ Answers(c, "ok", wrote) /\ (d = Rows => wrote = 0)
                     /\ UNCHANGED budget
                \/ Answers(c, "failed", 0) /\ Spend("losses")
    BY <1>9
  <2>2. budget' \in BudgetType
    BY <1>1, <2>1, SpendsBudget
  <2>. QED  BY <1>8, <2>1, <2>2
<1>10. CASE Answers(c, "failed", 0) /\ UNCHANGED <<log, budget>>
  BY <1>1, <1>6, <1>10
<1>. QED  BY <1>9, <1>10, OneAnswer

\* What onSuccess leaves of a call: the mutation itself goes on to settle, another one may have
\* waited long enough.
LEMMA SettlingFits ==
    ASSUME NEW m, NEW rows, NEW r, NEW call, CallFits(m, call, rows, r),
           NEW waits \in SUBSET QueriesOf(r)
    PROVE  /\ CallFits(m, [call EXCEPT !.phase = "settling", !.waits = waits], rows, r)
           /\ CallFits(m, [call EXCEPT !.waits = waits], rows, r)
           /\ ~Counted([call EXCEPT !.phase = "settling", !.waits = waits])
           /\ Counted([call EXCEPT !.waits = waits]) <=> Counted(call)
<1>. DEFINE settling == [call EXCEPT !.phase = "settling", !.waits = waits]
            waiting == [call EXCEPT !.waits = waits]
<1>1. /\ settling \in [phase: {"none", "sent", "ok", "failed", "settling"}, from: Nat, counted: Nat,
                       wrote: Nat, waits: SUBSET QueriesOf(r)]
      /\ settling.from = call.from /\ settling.counted = call.counted
      /\ settling.wrote = call.wrote /\ settling.phase = "settling"
  BY DEF CallFits
<1>2. /\ waiting \in [phase: {"none", "sent", "ok", "failed", "settling"}, from: Nat, counted: Nat,
                      wrote: Nat, waits: SUBSET QueriesOf(r)]
      /\ waiting.from = call.from /\ waiting.counted = call.counted
      /\ waiting.wrote = call.wrote /\ waiting.phase = call.phase
  BY DEF CallFits
<1>. HIDE DEF settling, waiting
<1>3. CallFits(m, settling, rows, r)
  BY <1>1 DEF CallFits
<1>4. CallFits(m, waiting, rows, r)
  BY <1>2 DEF CallFits
<1>5. ~Counted(settling) /\ (Counted(waiting) <=> Counted(call))
  BY <1>1, <1>2 DEF Counted
<1>. QED  BY <1>3, <1>4, <1>5 DEF settling, waiting

LEMMA CallSucceedsStep ==
    ASSUME PanelsInv, NEW c \in CallsOf(role), CallSucceeds(c) PROVE PanelsInv'
<1>. DEFINE change == Mutation(c[1], Rows, Rows)
            hit == {q \in DOMAIN cache : Matches(q, change.invalidates)}
<1>1. /\ UNCHANGED <<role, log, page, dialog, budget>> /\ DOMAIN cache = QueriesOf(role)
      /\ DOMAIN calls = CallsOf(role) /\ DOMAIN mine = QueriesOf(role) /\ LogFits(log)
      /\ Len(log) \in Nat /\ CallFits(c[1], calls[c], log, role) /\ calls[c].phase = "ok"
      /\ \A q \in QueriesOf(role) : EntryFits(q, cache[q], mine[q], log)
      /\ \A b \in CallsOf(role) : CallFits(b[1], calls[b], log, role)
      /\ \A q \in QueriesOf(role) : mine[q].at \in 0..Len(log)
  BY RowsAre DEF CallSucceeds, PanelsInv, Basics, CacheFits, CallsFit, MineFits
<1>2. /\ cache' = [q \in DOMAIN cache |-> IF q \in hit THEN Invalidated(q) ELSE cache[q]]
      /\ calls' = [b \in DOMAIN calls |->
            IF b = c THEN [calls[c] EXCEPT !.phase = "settling",
                                           !.waits = IF change.waits THEN hit \cap Mounted ELSE {}]
                     ELSE [calls[b] EXCEPT !.waits = {q \in @ : cache'[q] = cache[q]}]]
      /\ mine' = [q \in DOMAIN mine |->
            IF Changed(q, calls[c].wrote) THEN [at |-> calls[c].wrote, by |-> c[1]] ELSE mine[q]]
  BY DEF CallSucceeds
<1>3. \A q \in QueriesOf(role) : Matches(q, change.invalidates) => q \in hit
  BY <1>1
<1>4. ASSUME NEW q \in QueriesOf(role), Changed(q, calls[c].wrote), q \notin hit
      PROVE  <<c[1], q>> \in Forgotten
  <2>1. Covered(c[1], q)
    BY <1>1, <1>4 DEF CallFits, WriteReached, Changed
  <2>. HIDE DEF hit
  <2>. QED  BY <1>3, <1>4, <2>1 DEF Covered, Matches
<1>. HIDE DEF hit
<1>5. ASSUME NEW q \in QueriesOf(role) PROVE EntryFits(q, cache'[q], mine'[q], log)
  <2>1. /\ cache'[q] = IF q \in hit THEN Invalidated(q) ELSE cache[q]
        /\ mine'[q] = IF Changed(q, calls[c].wrote) THEN [at |-> calls[c].wrote, by |-> c[1]] ELSE mine[q]
    BY <1>1, <1>2
  <2>2. CASE q \in hit
    BY <1>1, <2>1, <2>2, InvalidatedFits
  <2>3. CASE q \notin hit /\ Changed(q, calls[c].wrote)
    <3>1. cache'[q] = cache[q] /\ mine'[q].by = c[1] /\ <<c[1], q>> \in Forgotten
      BY <1>4, <2>1, <2>3
    <3>2. EntryFits(q, cache[q], mine[q], log)
      BY <1>1
    <3>. QED  BY <3>1, <3>2 DEF EntryFits
  <2>4. CASE q \notin hit /\ ~Changed(q, calls[c].wrote)
    BY <1>1, <2>1, <2>4
  <2>. QED  BY <2>2, <2>3, <2>4
<1>6. CacheFits'
  <2>1. \A q \in QueriesOf(role) : cache'[q] \in EntryType
    BY <1>5 DEF EntryFits
  <2>2. cache' \in [QueriesOf(role) -> EntryType]
    BY <1>1, <1>2, <2>1
  <2>. QED  BY <1>1, <1>5, <2>2 DEF CacheFits
<1>7. MineFits'
  <2>1. calls[c].wrote \in 0..Len(log)
    BY <1>1 DEF CallFits
  <2>2. DOMAIN mine' = QueriesOf(role) /\ \A q \in QueriesOf(role) : mine'[q].at \in 0..Len(log)
    BY <1>1, <1>2, <2>1
  <2>. QED  BY <1>1, <2>2 DEF MineFits
<1>8. ASSUME NEW b \in CallsOf(role)
      PROVE  CallFits(b[1], calls'[b], log, role) /\ (Counted(calls'[b]) <=> Counted(calls[b]))
  <2>1. calls'[b] = IF b = c THEN [calls[c] EXCEPT !.phase = "settling",
                                        !.waits = IF change.waits THEN hit \cap Mounted ELSE {}]
                             ELSE [calls[b] EXCEPT !.waits = {q \in @ : cache'[q] = cache[q]}]
    BY <1>1, <1>2
  <2>2. hit \in SUBSET QueriesOf(role)
    BY <1>1 DEF hit
  <2>3. PICK waits \in SUBSET QueriesOf(role) : waits = IF change.waits THEN hit \cap Mounted ELSE {}
    BY <2>2
  <2>4. PICK kept \in SUBSET QueriesOf(role) : kept = {q \in calls[b].waits : cache'[q] = cache[q]}
    BY <1>1 DEF CallFits
  <2>5. calls'[b] = IF b = c THEN [calls[b] EXCEPT !.phase = "settling", !.waits = waits]
                             ELSE [calls[b] EXCEPT !.waits = kept]
    BY <2>1, <2>3, <2>4
  <2>6. /\ CallFits(b[1], [calls[b] EXCEPT !.phase = "settling", !.waits = waits], log, role)
        /\ ~Counted([calls[b] EXCEPT !.phase = "settling", !.waits = waits])
    BY <1>1, SettlingFits
  <2>7. /\ CallFits(b[1], [calls[b] EXCEPT !.waits = kept], log, role)
        /\ Counted([calls[b] EXCEPT !.waits = kept]) <=> Counted(calls[b])
    BY <1>1, SettlingFits
  <2>8. CASE b = c
    <3>1. ~Counted(calls[b])
      BY <1>1, <2>8 DEF Counted
    <3>. QED  BY <2>5, <2>6, <2>8, <3>1
  <2>9. CASE b # c
    BY <2>5, <2>7, <2>9
  <2>. QED  BY <2>8, <2>9
<1>9. CallsFit' /\ GalleryFits'
  <2>1. DOMAIN calls' = CallsOf(role) /\ calls' = [b \in CallsOf(role) |-> calls'[b]]
    BY <1>1, <1>2
  <2>2. CallsFit'
    BY <1>1, <1>8, <2>1 DEF CallsFit, CallFits
  <2>3. \A b \in DOMAIN calls : Counted(calls'[b]) <=> Counted(calls[b])
    BY <1>1, <1>8
  <2>4. GalleryFits'
    BY <1>1, <2>1, <2>3, GalleryStays
  <2>. QED  BY <2>2, <2>4
<1>10. Basics' /\ DialogFits'
  BY <1>1, DialogStays DEF PanelsInv, Basics
<1>. QED  BY <1>6, <1>7, <1>9, <1>10 DEF PanelsInv

LEMMA EndedStep ==
    ASSUME PanelsInv, NEW c \in CallsOf(role), calls[c].phase # "sent", Ended(c), UNCHANGED <<role, log>>
    PROVE  CallsFit' /\ GalleryFits'
<1>1. Len(log) \in Nat
  BY RowsAre DEF PanelsInv, Basics
<1>2. CallFits(c[1], NoCall, log, role) /\ NoCall.phase = "none"
  BY <1>1, NoCallFits
<1>3. Counted(NoCall) <=> Counted(calls[c])
  BY <1>2 DEF Counted
<1>4. calls' = [calls EXCEPT ![c] = NoCall]
  BY DEF Ended
<1>. QED  BY <1>2, <1>3, <1>4, CallStep

LEMMA CallSettlesStep ==
    ASSUME PanelsInv, NEW c \in CallsOf(role), CallSettles(c) PROVE PanelsInv'
<1>1. /\ Ended(c) /\ calls[c].phase = "settling"
      /\ page' = PageAfter(c[1]) /\ UNCHANGED <<role, log, mine, budget>>
      /\ dialog' = IF dialog.box.sends = c[1] \/ page' # page THEN Closed ELSE dialog
      /\ cache' = IF page' = page THEN cache ELSE Mount(Page(page').asks)
  BY DEF CallSettles
<1>2. page' \in PagesOf(role) \cup {"none"}
  <2>1. page \in PagesOf(role) \cup {"none"} /\ role \in Roles /\ c[1] \in MutationsOf(role)
    BY CallsAre DEF PanelsInv, Basics
  <2>2. c[1] \in {"useUpdateGarden", "useCreateGarden"} => role = "host"
    BY <2>1 DEF Roles, MutationsOf
  <2>3. {"gardens", "form"} \subseteq PagesOf("host")
    BY DEF PagesOf
  <2>. QED  BY <1>1, <2>1, <2>2, <2>3 DEF PageAfter
<1>3. Basics'
  BY <1>1, <1>2 DEF PanelsInv, Basics
<1>4. CacheFits'
  BY <1>1, CacheStays, MountedStep
<1>5. DialogFits'
  BY <1>1, NoDialogFits, DialogStays
<1>6. CallsFit' /\ GalleryFits'
  BY <1>1, EndedStep
<1>. QED  BY <1>1, <1>3, <1>4, <1>5, <1>6, MineStays DEF PanelsInv

LEMMA CallFailsStep ==
    ASSUME PanelsInv, NEW c \in CallsOf(role), CallFails(c) PROVE PanelsInv'
<1>1. /\ Ended(c) /\ calls[c].phase = "failed" /\ UNCHANGED <<role, log, page, cache, mine, budget>>
      /\ dialog' = IF dialog.box.sends = c[1] /\ dialog.box.shutsOnError THEN Closed ELSE dialog
  BY DEF CallFails
<1>2. Basics'
  BY <1>1 DEF PanelsInv, Basics
<1>3. DialogFits'
  BY <1>1, NoDialogFits, DialogStays
<1>4. CallsFit' /\ GalleryFits'
  BY <1>1, EndedStep
<1>. QED  BY <1>1, <1>2, <1>3, <1>4, CacheStays, MineStays DEF PanelsInv

LEMMA ElsewhereStep ==
    ASSUME PanelsInv, Elsewhere PROVE PanelsInv'
<1>1. /\ role \in Roles /\ LogFits(log) /\ RowsFit(Rows) /\ budget \in BudgetType
      /\ page \in PagesOf(role) \cup {"none"} /\ Len(log) \in Nat \ {0}
  BY RowsAre DEF PanelsInv, Basics, Rows
<1>2. Spend("others") /\ UNCHANGED <<role, page, dialog, cache, calls, mine>>
  BY DEF Elsewhere
<1>3. PICK d \in WrittenElsewhere : log' = Append(log, d)
  BY DEF Elsewhere
<1>4. /\ MaxPhotos \in Nat /\ Clicks \in Nat /\ Cardinality(Uploading) \in 0..Clicks
      /\ Len(Rows.photos) \in Nat /\ Len(Rows.photos) + Cardinality(Uploading) <= MaxPhotos + Clicks
  <2>1. Len(Rows.photos) \in Nat
    BY <1>1 DEF RowsFit, Gallery
  <2>. QED  BY <2>1, MaxPhotosAssumption, ClicksAssumption, UploadingIs DEF PanelsInv, GalleryFits
<1>5. RowsFit(d) /\ (Len(d.photos) <= Len(Rows.photos) \/ Len(d.photos) <= MaxPhotos)
  <2>1. CASE \E m \in UNION {MutationsOf(r) : r \in Roles} : d \in Mutation(m, Rows, Rows).to
    <3>1. PICK r \in Roles : \E m \in MutationsOf(r) : d \in Mutation(m, Rows, Rows).to
      BY <2>1
    <3>2. PICK m \in MutationsOf(r) : d \in Mutation(m, Rows, Rows).to
      BY <3>1
    <3>3. Rewrites(m, Rows, d)
      BY <1>1, <3>2, MutationsOfRoles, RowsRewritten
    <3>4. RowsFit(d) /\ Len(d.photos) <= Len(Rows.photos) + MorePhotos(m) /\ Len(d.photos) \in Nat
      BY <3>3 DEF Rewrites, RowsFit, Gallery
    <3>5. CASE m = "useUploadGardenPhoto"
      <4>1. d \in useUploadGardenPhoto(Rows, Rows).to
        BY <3>2, <3>5, MutationsAre
      <4>2. RoomFor(Rows)
        BY <4>1 DEF useUploadGardenPhoto, Change
      <4>3. Len(Rows.photos) < MaxPhotos /\ MorePhotos(m) = 1
        BY <3>5, <4>2 DEF RoomFor, MorePhotos
      <4>. QED  BY <1>4, <3>4, <4>3
    <3>6. CASE m # "useUploadGardenPhoto"
      <4>1. MorePhotos(m) = 0
        BY <3>6 DEF MorePhotos
      <4>. QED  BY <1>4, <3>4, <4>1
    <3>. QED  BY <3>5, <3>6
  <2>2. ASSUME NEW x \in StayStatus, Rows.stay # "none", d = [Rows EXCEPT !.stay = x]
        PROVE  RowsFit(d) /\ Len(d.photos) <= Len(Rows.photos)
    <3>1. "useCancelReservation" \in EndWriters /\ MorePhotos("useCancelReservation") = 0
      BY DEF StayWriters, EndWriters, MorePhotos
    <3>2. Rewrites("useCancelReservation", Rows, [Rows EXCEPT !.stay = x])
      BY <1>1, <2>2, <3>1, StayRewritten
    <3>. QED  BY <1>4, <2>2, <3>1, <3>2 DEF Rewrites
  <2>3. \/ \E m \in UNION {MutationsOf(r) : r \in Roles} : d \in Mutation(m, Rows, Rows).to
        \/ Rows.stay # "none" /\ \E x \in StayStatus : d = [Rows EXCEPT !.stay = x]
    BY <1>3 DEF WrittenElsewhere, When, StayStatus
  <2>. QED  BY <2>1, <2>2, <2>3
<1>6. /\ LogFits(log') /\ CacheFits' /\ MineFits' /\ DialogFits'
      /\ \A c \in CallsOf(role) : CallFits(c[1], calls[c], log', role)
  BY <1>2, <1>3, <1>5, LogStep
<1>7. CallsFit'
  BY <1>2, <1>6 DEF PanelsInv, CallsFit
<1>8. budget' \in BudgetType
  BY <1>1, <1>2, SpendsBudget
<1>9. GalleryFits'
  <2>1. Uploading' = Uploading
    BY <1>2 DEF Uploading
  <2>2. /\ Len(log') = Len(log) + 1 /\ log'[Len(log) + 1] = d
        /\ \A n \in 1..Len(log) : log'[n] = log[n]
    BY <1>1, <1>3, <1>5, LogGrows
  <2>3. Rows' = d
    BY <1>1, <1>6, <2>2, RowsAre DEF Rows
  <2>4. Len(d.photos) \in Nat
    BY <1>5 DEF RowsFit, Gallery
  <2>5. /\ Len(d.photos) + Cardinality(Uploading) <= MaxPhotos + Clicks
        /\ Len(d.photos) <= MaxPhotos + Clicks
    BY <1>4, <1>5, <2>4
  <2>6. \A n \in 1..Len(log') : Len(log'[n].photos) <= MaxPhotos + Clicks
    BY <1>1, <2>2, <2>5 DEF PanelsInv, GalleryFits
  <2>. QED  BY <2>1, <2>3, <2>5, <2>6 DEF GalleryFits
<1>. QED  BY <1>1, <1>2, <1>6, <1>7, <1>8, <1>9 DEF PanelsInv, Basics

LEMMA NextKeepsInv == PanelsInv /\ [Next]_vars => PanelsInv'
<1>. SUFFICES ASSUME PanelsInv, [Next]_vars PROVE PanelsInv'
  OBVIOUS
<1>1. DOMAIN cache = QueriesOf(role) /\ DOMAIN calls = CallsOf(role)
  BY DEF PanelsInv, CacheFits, CallsFit
<1>2. CASE \E p \in PagesOf(role) : Visit(p)
  BY <1>2, VisitStep
<1>3. CASE OpenDialog
  BY <1>3, OpenDialogStep
<1>4. CASE CloseDialog
  BY <1>4, CloseDialogStep
<1>5. CASE Press
  BY <1>5, PressStep
<1>6. CASE Confirm
  BY <1>6, ConfirmStep
<1>7. CASE \E q \in DOMAIN cache :
             Refetch(q) \/ ServeList(q) \/ ServeFetch(q) \/ FetchAnswered(q) \/ FetchFails(q) \/ Age(q)
  BY <1>1, <1>7, RefetchStep, ServeListStep, ServeFetchStep, FetchAnsweredStep, FetchFailsStep, AgeStep
<1>8. CASE \E c \in DOMAIN calls :
             CountPhotos(c) \/ ServeCall(c) \/ CallSucceeds(c) \/ CallSettles(c) \/ CallFails(c)
  BY <1>1, <1>8, CountPhotosStep, ServeCallStep, CallSucceedsStep, CallSettlesStep, CallFailsStep
<1>9. CASE Elsewhere
  BY <1>9, ElsewhereStep
<1>10. CASE UNCHANGED vars
  <2>1. UNCHANGED <<role, log, page, dialog, cache, calls, mine, budget>>
    BY <1>10 DEF vars
  <2>2. Basics'
    BY <2>1 DEF PanelsInv, Basics
  <2>. QED  BY <2>1, <2>2, CacheStays, CallsStay, MineStays, DialogStays DEF PanelsInv
<1>. QED  BY <1>2, <1>3, <1>4, <1>5, <1>6, <1>7, <1>8, <1>9, <1>10 DEF Next

THEOREM PanelsInvariant == Spec => []PanelsInv
  BY InitInv, NextKeepsInv, PTL DEF Spec

-----------------------------------------------------------------------------
(* What follows for the panels.                                            *)

LEMMA InvTypes == PanelsInv => PanelsTypeOK
<1>. SUFFICES ASSUME PanelsInv PROVE PanelsTypeOK
  OBVIOUS
<1>1. /\ role \in Roles /\ LogFits(log) /\ page \in PagesOf(role) \cup {"none"}
      /\ budget \in BudgetType /\ Len(log) \in Nat
  BY RowsAre DEF PanelsInv, Basics
<1>2. log \in Seq(RowsType) /\ DOMAIN log = 1..Len(log) /\ \A n \in DOMAIN log : RowsFit(log[n])
  BY <1>1 DEF LogFits
<1>3. \A n \in DOMAIN log : Len(log[n].photos) <= MaxPhotos + Clicks /\ IsInjective(log[n].photos)
  BY <1>2 DEF RowsFit, Gallery, PanelsInv, GalleryFits
<1>4. dialog.from \in 0..Len(log)
  BY DEF PanelsInv, DialogFits, BoxFits
<1>5. /\ cache \in [QueriesOf(role) -> EntryType] /\ DOMAIN cache = QueriesOf(role)
      /\ \A q \in DOMAIN cache :
           cache[q].at <= Len(log) /\ cache[q].fetch <= Len(log) /\ cache[q].listed <= Len(log)
  BY DEF PanelsInv, CacheFits, EntryFits
<1>6. \A c \in CallsOf(role) :
        calls[c] \in CallType /\ calls[c].wrote <= Len(log) /\ calls[c].counted <= Len(log)
  BY <1>5 DEF PanelsInv, CallsFit, CallFits, CallType
<1>7. calls = [c \in CallsOf(role) |-> calls[c]]
  BY DEF PanelsInv, CallsFit
<1>8. /\ calls \in [CallsOf(role) -> CallType]
      /\ \A c \in DOMAIN calls : calls[c].wrote <= Len(log) /\ calls[c].counted <= Len(log)
  BY <1>6, <1>7
<1>9. \A q \in DOMAIN mine : mine[q].at <= Len(log)
  BY <1>1 DEF PanelsInv, MineFits
<1>. QED  BY <1>1, <1>2, <1>3, <1>4, <1>5, <1>8, <1>9 DEF PanelsTypeOK

\* The cache, the mutations and the galleries keep their types, for any number of photos a
\* garden may have and of uploads under way together: what add_garden_photo, delete_garden_photo
\* and reorder_garden_photos leave never holds a photo twice, and is longer than
\* MAX_PHOTOS_PER_GARDEN by no more than the uploads that were counted together.
THEOREM PanelsTypeCorrect == Spec => []PanelsTypeOK
  BY PanelsInvariant, InvTypes, PTL

\* Whatever a mutation wrote, no query of the same panel that counts as fresh shows less than
\* that once its onSuccess has run, but for the lists the api.ts files forget (Forgotten): for
\* every pair of a mutation and a query, down to the dog's name and the garden's title in a row
\* of reservations, any rows, and any order of answers, refetches and failures.
THEOREM PanelsShowMyOwnWrites == Spec => []ShowsMyOwnWrites
<1>1. PanelsInv => ShowsMyOwnWrites
  BY DEF PanelsInv, CacheFits, EntryFits, ShowsMyOwnWrites, Idle
<1>2. QED  BY <1>1, PanelsInvariant, PTL

-----------------------------------------------------------------------------
(* Refusals                                                                *)

\* The mutations that read nothing of what they write are never refused; a booking may be.
LEMMA UnreadAccepted ==
    ASSUME NEW m \in Unread \ {"useCreateReservation"}, NEW d, NEW s
    PROVE  Mutation(m, d, s).to # {}
<1>1. Mutation("useCreateDog", d, s).to # {}
  BY MutationsAre DEF useCreateDog, Change
<1>2. Mutation("useAddDog", d, s).to # {}
  BY MutationsAre DEF useAddDog, Change
<1>3. Mutation("useCreateGarden", d, s).to # {}
  <2>1. \E e : useCreateGarden(d).to = {e}
    BY DEF useCreateGarden, Change
  <2>. QED  BY <2>1, MutationsAre
<1>. QED  BY <1>1, <1>2, <1>3 DEF Unread

\* Where an upload is accepted there is room, and where one counted room it is accepted still.
LEMMA UploadAccepted ==
    ASSUME NEW d, Mutation("useUploadGardenPhoto", d, d).to # {}
    PROVE  /\ RoomFor(d)
           /\ \A counted : RoomFor(counted) => Mutation("useUploadGardenPhoto", d, counted).to # {}
<1>1. \A counted : Mutation("useUploadGardenPhoto", d, counted) = useUploadGardenPhoto(d, counted)
  BY MutationsAre
<1>2. useUploadGardenPhoto(d, d).to # {}
  BY <1>1
<1>3. RoomFor(d) /\ d.garden # "gone" /\ \E id : id \in Unused(d)
  BY <1>2 DEF useUploadGardenPhoto, Change
<1>4. ASSUME NEW counted, RoomFor(counted) PROVE useUploadGardenPhoto(d, counted).to # {}
  <2>1. PICK id \in Unused(d) : TRUE
    BY <1>3
  <2>2. [d EXCEPT !.photos = Append(@, id), !.garden = IF counted.garden = "approved" THEN "pending" ELSE @]
            \in useUploadGardenPhoto(d, counted).to
    BY <1>3, <1>4 DEF useUploadGardenPhoto, Change
  <2>. QED  BY <2>2
<1>. QED  BY <1>1, <1>3, <1>4

\* The refusal of a call that is still up to date has one of three reasons.
Excused(c) ==
    \/ c[1] = "useDeleteDog" /\ Rows.stay # "none"
    \/ c[1] = "useUpdateGarden" /\ calls[c].from = 0
    \/ c[1] = "useCreateReservation"

LEMMA UpToDateAccepted ==
    ASSUME PanelsInv, NEW c \in CallsOf(role), calls[c].phase = "sent", Seen(c) = Rows, ~Excused(c),
           c[1] \notin Unread
    PROVE  Accepts(c[1], Rows)
<1>1. Allowed(c[1], calls[c].from, log)
  BY BasisFits
<1>2. calls[c].from # 0 /\ Accepts(c[1], log[calls[c].from])
  BY <1>1 DEF Allowed, Excused
<1>3. log[calls[c].from] = Rows
  BY <1>2 DEF Seen
<1>. QED  BY <1>2, <1>3

LEMMA CountRefuses ==
    ASSUME PanelsInv, NEW c \in CallsOf(role), calls[c].phase = "sent", Seen(c) = Rows,
           c[1] = "useUploadGardenPhoto"
    PROVE  RoomFor(Rows) /\ (calls[c].counted # 0 => Mutation(c[1], Rows, Basis(c)).to # {})
<1>1. Accepts(c[1], Rows)
  BY UpToDateAccepted DEF Excused, Unread
<1>2. Mutation("useUploadGardenPhoto", Rows, Rows).to # {}
  BY <1>1 DEF Accepts
<1>3. calls[c].counted # 0 => RoomFor(Basis(c))
  BY DEF PanelsInv, CallsFit, CallFits, Basis
<1>. QED  BY <1>2, <1>3, UploadAccepted

LEMMA ServeRefuses ==
    ASSUME PanelsInv, NEW c \in CallsOf(role), ServeCall(c), Seen(c) = Rows,
           Mutation(c[1], Rows, Basis(c)).to = {}
    PROVE  Excused(c)
<1>1. calls[c].phase = "sent" /\ (c[1] = "useUploadGardenPhoto" => calls[c].counted # 0)
  BY DEF ServeCall
<1>2. c[1] # "useUploadGardenPhoto"
  BY <1>1, CountRefuses
<1>3. CallFits(c[1], calls[c], log, role)
  BY DEF PanelsInv, CallsFit
<1>4. calls[c].counted = 0
  BY <1>2, <1>3 DEF CallFits
<1>5. Mutation(c[1], Rows, Rows).to = {}
  BY <1>4 DEF Basis
<1>6. CASE c[1] \in Unread
  BY <1>5, <1>6, UnreadAccepted DEF Excused
<1>7. ASSUME c[1] \notin Unread, ~Excused(c) PROVE FALSE
  BY <1>1, <1>5, <1>7, UpToDateAccepted DEF Accepts, Excused
<1>. QED  BY <1>6, <1>7

\* A call that fails under the server, with no answer lost, was refused.
LEMMA ServeCallRefuses ==
    ASSUME PanelsInv, NEW b \in CallsOf(role), ServeCall(b), NEW c \in CallsOf(role),
           calls[c].phase = "sent", calls'[c].phase = "failed", budget' = budget
    PROVE  c = b /\ Mutation(c[1], Rows, Basis(c)).to = {}
<1>1. DOMAIN calls = CallsOf(role) /\ budget \in BudgetType
  BY DEF PanelsInv, Basics, CallsFit
<1>2. \A k \in CallsOf(role) : CallFits(k[1], calls[k], log, role)
  BY DEF PanelsInv, CallsFit
<1>3. \A phase, wrote : Answers(b, phase, wrote) => c = b /\ calls'[c].phase = phase
  <2>. SUFFICES ASSUME NEW phase, NEW wrote, Answers(b, phase, wrote)
                PROVE  c = b /\ calls'[c].phase = phase
    OBVIOUS
  <2>1. c # b => calls'[c] = calls[c]
    BY <1>1 DEF Answers
  <2>2. c = b
    BY <2>1
  <2>3. calls'[c] = AnsweredCall(calls[c], phase, wrote)
    BY <1>1, <2>2 DEF Answers
  <2>4. AnsweredCall(calls[c], phase, wrote).phase = phase
    BY <1>2, AnsweredPhase
  <2>. QED  BY <2>2, <2>3, <2>4
<1>4. ~Spend("losses")
  BY <1>1, SpendsBudget
<1>5. \A wrote : ~Answers(b, "ok", wrote)
  BY <1>3
<1>6. Mutation(b[1], Rows, Basis(b)).to = {} /\ Answers(b, "failed", 0)
  BY <1>4, <1>5, OneAnswer
<1>. QED  BY <1>3, <1>6

\* A call that fails with the count of the photos is an upload, and there was no room.
LEMMA CountPhotosRefuses ==
    ASSUME PanelsInv, NEW b \in CallsOf(role), CountPhotos(b), NEW c \in CallsOf(role),
           calls[c].phase = "sent", calls'[c].phase = "failed"
    PROVE  c[1] = "useUploadGardenPhoto" /\ ~RoomFor(Rows)
<1>1. DOMAIN calls = CallsOf(role)
  BY DEF PanelsInv, CallsFit
<1>2. b[1] = "useUploadGardenPhoto" /\ calls[b].phase = "sent"
  BY DEF CountPhotos
<1>3. CallFits(b[1], calls[b], log, role)
  BY DEF PanelsInv, CallsFit
<1>4. RoomFor(Rows) => calls'[c] = calls[c] \/ calls'[c].phase = "sent"
  <2>1. RoomFor(Rows) => calls' = [calls EXCEPT ![b].counted = Len(log)]
    BY DEF CountPhotos
  <2>2. [calls[b] EXCEPT !.counted = Len(log)].phase = calls[b].phase
    BY <1>3 DEF CallFits
  <2>. QED  BY <1>1, <1>2, <2>1, <2>2
<1>5. ~RoomFor(Rows) => calls'[c] = calls[c] \/ c = b
  BY <1>1 DEF CountPhotos, Answered
<1>6. calls'[c] # calls[c]
  OBVIOUS
<1>. QED  BY <1>2, <1>4, <1>5, <1>6

\* Nothing but the server's answer fails a call.
LEMMA OthersRefuseNothing ==
    ASSUME PanelsInv, [Next]_vars, NEW c \in CallsOf(role),
           calls[c].phase = "sent", calls'[c].phase = "failed"
    PROVE  \E b \in CallsOf(role) : CountPhotos(b) \/ ServeCall(b)
<1>1. DOMAIN calls = CallsOf(role)
  BY DEF PanelsInv, CallsFit
<1>2. calls' # calls
  OBVIOUS
<1>3. ASSUME NEW m, NEW n, NEW from, Send(m, n, from) PROVE FALSE
  <2>1. calls' = [calls EXCEPT ![<<m, n>>] = [NoCall EXCEPT !.phase = "sent", !.from = from]]
    BY <1>3 DEF Send
  <2>2. calls'[c] = calls[c] \/ calls'[c].phase = "sent"
    BY <1>1, <2>1 DEF NoCall
  <2>. QED  BY <2>2
<1>4. ASSUME NEW b \in CallsOf(role), CallSucceeds(b) PROVE FALSE
  <2>1. \A k \in CallsOf(role) : CallFits(k[1], calls[k], log, role)
    BY DEF PanelsInv, CallsFit
  <2>2. calls'[c].phase \in {calls[c].phase, "settling"}
    BY <1>1, <1>4, <2>1 DEF CallSucceeds, CallFits
  <2>. QED  BY <2>2
<1>5. ASSUME NEW b, Ended(b) PROVE FALSE
  <2>1. calls'[c] \in {calls[c], NoCall}
    BY <1>1, <1>5 DEF Ended
  <2>. QED  BY <2>1 DEF NoCall
<1>6. ~Press
  BY <1>3 DEF Press
<1>7. ~Confirm
  BY <1>3 DEF Confirm
<1>8. ~OpenDialog /\ ~CloseDialog /\ ~Elsewhere /\ ~(\E p \in PagesOf(role) : Visit(p))
  BY <1>2 DEF OpenDialog, CloseDialog, Elsewhere, Visit
<1>9. \A q \in DOMAIN cache :
        ~(Refetch(q) \/ ServeList(q) \/ ServeFetch(q) \/ FetchAnswered(q) \/ FetchFails(q) \/ Age(q))
  BY <1>2 DEF Refetch, ServeList, ServeFetch, FetchAnswered, FetchFails, Age
<1>10. ~UNCHANGED vars
  BY <1>2 DEF vars
<1>11. \A b \in CallsOf(role) : ~CallSucceeds(b) /\ ~CallSettles(b) /\ ~CallFails(b)
  BY <1>4, <1>5 DEF CallSettles, CallFails
<1>. QED  BY <1>1, <1>6, <1>7, <1>8, <1>9, <1>10, <1>11 DEF Next

\* The services refuse nothing a page offered on rows that are still the latest, but the
\* deletion of a dog with a reservation, a garden saved from a form that came up blank, and a
\* booking: every other button's condition implies the one the service checks (can_accept,
\* can_cancel, eligible, pending, role, photo count), for every page, an upload counted together
\* with others included.
THEOREM PanelsRefuseOnlyWhenBehind == Spec => RefusedOnlyWhenBehind
<1>. DEFINE Refused == \A c \in DOMAIN calls :
         /\ calls[c].phase = "sent" /\ calls'[c].phase = "failed" /\ budget' = budget
         => \/ Seen(c) # Rows
            \/ c[1] = "useDeleteDog" /\ Rows.stay # "none"
            \/ c[1] = "useUpdateGarden" /\ calls[c].from = 0
            \/ c[1] = "useCreateReservation"
<1>1. PanelsInv /\ [Next]_vars => [Refused]_vars
  <2>. SUFFICES ASSUME PanelsInv, [Next]_vars, NEW c \in DOMAIN calls, calls[c].phase = "sent",
                       calls'[c].phase = "failed", budget' = budget, Seen(c) = Rows
                PROVE  Excused(c)
    BY DEF Excused
  <2>1. c \in CallsOf(role)
    BY DEF PanelsInv, CallsFit
  <2>2. PICK b \in CallsOf(role) : CountPhotos(b) \/ ServeCall(b)
    BY <2>1, OthersRefuseNothing
  <2>3. CASE CountPhotos(b)
    BY <2>1, <2>3, CountPhotosRefuses, CountRefuses
  <2>4. CASE ServeCall(b)
    <3>1. c = b /\ Mutation(c[1], Rows, Basis(c)).to = {}
      BY <2>1, <2>4, ServeCallRefuses
    <3>. QED  BY <2>1, <2>4, <3>1, ServeRefuses
  <2>. QED  BY <2>2, <2>3, <2>4
<1>. HIDE DEF Refused
<1>2. Spec => [][Refused]_vars
  BY <1>1, PanelsInvariant, PTL DEF Spec
<1>. QED  BY <1>2 DEF RefusedOnlyWhenBehind, Refused
=============================================================================

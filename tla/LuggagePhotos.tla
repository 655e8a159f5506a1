--------------------------- MODULE LuggagePhotos ---------------------------
(***************************************************************************)
(* The photos of one reservation (luggage_image_urls): given when it is    *)
(* made, added by the guest for a day, and added by the store at check-in. *)
(*                                                                         *)
(* Both read the list and write the longer one by id: the guest in two     *)
(* statements, the store in a transaction whose SELECT takes no lock.      *)
(* Every photo has a name of its own (a UUID), here a number.              *)
(***************************************************************************)
EXTENDS Integers, Sequences, SequencesExt

CONSTANTS
    MAX_PHOTOS,     \* of the list a guest's request writes
    MaxUploads,     \* bound on the photos uploaded
    Uploader        \* requests served at the same time

ASSUME PhotosAssumption == {MAX_PHOTOS, MaxUploads} \subseteq Nat \ {0}

VARIABLES
    photos,     \* luggage_image_urls
    uploaded,   \* photos uploaded, which are 1..uploaded
    young,      \* the reservation was made at most 24 hours ago
    adding      \* what each uploader is in the middle of

photoVars == <<photos, uploaded, young, adding>>

Photo == 1..MaxUploads
PhotoLists == BoundedSeq(Photo, MaxUploads)

NotAdding == [op |-> "idle", read |-> <<>>, new |-> <<>>]

PhotosTypeOK ==
    /\ photos \in PhotoLists
    /\ uploaded \in 0..MaxUploads
    /\ young \in BOOLEAN
    /\ \A w \in Uploader :
          /\ adding[w].op \in {"idle", "guest", "store"}
          /\ {adding[w].read, adding[w].new} \subseteq PhotoLists

PhotosInit ==
    /\ uploaded \in 0..1
    /\ photos = [i \in 1..uploaded |-> i]
    /\ young = TRUE
    /\ adding = [w \in Uploader |-> NotAdding]

----------------------------------------------------------------------------

\* The photos of a request: the next n that are uploaded.
Uploads(n) == [i \in 1..n |-> uploaded + i]

ReadPhotos(w, op, n) ==
    /\ adding[w].op = "idle"
    /\ uploaded + n <= MaxUploads
    /\ uploaded' = uploaded + n
    /\ adding' = [adding EXCEPT ![w] = [op |-> op, read |-> photos, new |-> Uploads(n)]]
    /\ UNCHANGED <<photos, young>>

EndAdding(w) == adding' = [adding EXCEPT ![w] = NotAdding]

\* Faulty: the new photos in the place of the old ones.
ReplacedBy(read, new) == SubSeq(new, 1, IF Len(new) < MAX_PHOTOS THEN Len(new)
                                        ELSE MAX_PHOTOS)

\* [...existing, ...photoUrls].slice(0, MAX_PHOTOS)
merged(read, new) ==
    LET all == read \o new IN
    SubSeq(all, 1, IF Len(all) < MAX_PHOTOS THEN Len(all) ELSE MAX_PHOTOS)

\* saveLuggagePhotos.
BeginSavePhotos(w) == young /\ \E n \in 1..2 : ReadPhotos(w, "guest", n)

saveLuggagePhotos(w) ==
    /\ adding[w].op = "guest"
    /\ photos' = merged(adding[w].read, adding[w].new)
    /\ EndAdding(w)
    /\ UNCHANGED <<uploaded, young>>

\* storeCheckin, with or without photos: mergePhotoUrls has no limit.
BeginCheckin(w) == \E n \in 0..2 : ReadPhotos(w, "store", n)

mergePhotoUrls(w) ==
    /\ adding[w].op = "store"
    /\ photos' = adding[w].read \o adding[w].new
    /\ EndAdding(w)
    /\ UNCHANGED <<uploaded, young>>

AbortSaving(w) ==
    /\ adding[w].op # "idle"
    /\ EndAdding(w)
    /\ UNCHANGED <<photos, uploaded, young>>

DayPasses ==
    /\ young
    /\ young' = FALSE
    /\ UNCHANGED <<photos, uploaded, adding>>

PhotosNext ==
    \/ \E w \in Uploader :
          \/ BeginSavePhotos(w) \/ saveLuggagePhotos(w)
          \/ BeginCheckin(w) \/ mergePhotoUrls(w)
          \/ AbortSaving(w)
    \/ DayPasses

PhotosSpec == PhotosInit /\ [][PhotosNext]_photoVars

----------------------------------------------------------------------------
Shown(list) == {list[i] : i \in DOMAIN list}

LostByOverlapOrLimit ==
    \A p \in Shown(photos) \ Shown(photos') :
        \E w \in Uploader :
            /\ adding[w].op # "idle" /\ adding'[w].op = "idle"
            /\ \/ p \notin Shown(adding[w].read)
               \/ /\ adding[w].op = "guest"
                  /\ \E i \in DOMAIN photos : photos[i] = p /\ i > MAX_PHOTOS

\* A photo disappears only by a save that had read the list before the photo
\* was in it, or, beyond the limit, by a guest's save; so a reservation saved by
\* one request at a time keeps the first ten photos for ever ("added to the
\* photos there are, ten at most", docs/README.md:380; saveLuggagePhotos in
\* guest-reservation.service.ts and storeCheckin in
\* reservation-command.service.ts).
PhotosLostByOverlap == [][LostByOverlapOrLimit]_photoVars
=============================================================================

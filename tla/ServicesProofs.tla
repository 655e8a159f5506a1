--------------------------- MODULE ServicesProofs ---------------------------
(***************************************************************************)
(* Theorems about the services beside reservations, for any constants:     *)
(*   PushDevices: a push reaches the phones it is meant for and no other;  *)
(*   Reviews: a booking has one review, and reviews and the requests for   *)
(*     them follow the hand-over of the luggage;                           *)
(*   Notifications: nobody is told twice, and who is not told by the       *)
(*     first means is told by the last;                                    *)
(*   LuggagePhotos: photos are lost by overlapping uploads alone;          *)
(*   StoreHours: a save changes what it names and nothing else.            *)
(***************************************************************************)
EXTENDS PushDevices, Reviews, Notifications, LuggagePhotos, StoreHours,
        FiniteSetTheorems, SequenceTheorems, NaturalsInduction, WellFoundedInduction, TLAPS

----------------------------------------------------------------------------
(* PushDevices: the invariant *)

PhonesTyped ==
    /\ device \in [Device -> DeviceRow \union {NoDevice}]
    /\ hired \in SUBSET Staff
    /\ open \in SUBSET Store
    /\ dead \in SUBSET Device
    /\ seat \in [Device -> Seat \union {NoDevice}]

\* A row says who registered the phone last.
SeatsMatch ==
    \A d \in Device : Present(d) =>
        seat[d] \in Seat /\ device[d] = OwnedBy(seat[d], d)

\* An owner's phone keeps its row as long as it lives, the store it was
\* registered in is open, and nobody unregisters it.
OwnersKept ==
    \A d \in Device :
        /\ seat[d] # NoDevice /\ seat[d][2] = NoStaff
        /\ seat[d][1] \in open
        /\ d \notin dead
        => Present(d)

\* A sender deletes only rows of phones that are gone.
Fits(q) ==
    /\ q.op = "register" => q.phone \in Device
    /\ q.op = "prune" => q.devices \subseteq dead

SendersFit ==
    sending \in [Sender -> Sending] /\ \A w \in Sender : Fits(sending[w])

DeviceInv == PhonesTyped /\ SeatsMatch /\ OwnersKept /\ SendersFit

LEMMA DeviceInvTyped == DeviceInv => DevicesTypeOK
BY DEF DeviceInv, PhonesTyped, SendersFit, DevicesTypeOK

LEMMA SeatParts ==
    ASSUME NEW a \in Seat
    PROVE  a[1] \in Store /\ a[2] \in Staff \union {NoStaff}
<1>1. CASE \E s \in Store : a = <<s, NoStaff>>
  BY <1>1
<1>2. CASE \E f \in Staff : a = <<WorksAt[f], f>>
  BY <1>2, DevicesAssumption
<1> QED BY <1>1, <1>2 DEF Seat

LEMMA WaitingFits == Waiting \in Sending /\ Fits(Waiting)
<1>1. (CHOOSE s \in Store : TRUE) \in Store
  BY DevicesAssumption
<1>2. \E a : a \in Seat
  <2>1. PICK s \in Store : TRUE
    BY DevicesAssumption
  <2>2. <<s, NoStaff>> \in Seat
    BY DEF Seat
  <2> QED BY <2>2
<1>3. (CHOOSE a \in Seat : TRUE) \in Seat
  BY <1>2
<1> QED BY <1>1, <1>3 DEF Waiting, Sending, Fits

LEMMA DeviceInit == DevicesInit => DeviceInv
<1> SUFFICES ASSUME DevicesInit PROVE DeviceInv
  OBVIOUS
<1>1. PhonesTyped
  BY DEF DevicesInit, PhonesTyped
<1>2. SeatsMatch /\ OwnersKept
  BY DEF DevicesInit, SeatsMatch, OwnersKept, Present
<1>3. SendersFit
  BY WaitingFits DEF DevicesInit, SendersFit
<1> QED BY <1>1, <1>2, <1>3 DEF DeviceInv

----------------------------------------------------------------------------
(* What steps preserve *)

\* One sender goes on; phones that are gone stay gone.
LEMMA SenderFits ==
    ASSUME SendersFit, NEW w \in Sender, NEW q \in Sending, dead \subseteq dead',
           Fits(q), sending' = [sending EXCEPT ![w] = q]
    PROVE  SendersFit'
BY DEF SendersFit, Fits

LEMMA OthersFit ==
    ASSUME SendersFit, dead \subseteq dead', UNCHANGED sending
    PROVE  SendersFit'
BY DEF SendersFit, Fits

\* Rows are deleted, and perhaps the phones' seats with them: the rows left say
\* the same, and those deleted are not an owner's that has to stay.
LEMMA DeletingKeeps ==
    ASSUME PhonesTyped, SeatsMatch, OwnersKept, NEW D,
           Without(D), seat' = seat \/ Unseat(D),
           open' \subseteq open, dead \subseteq dead',
           \A d \in D \intersect Device :
              /\ seat'[d] # NoDevice /\ seat'[d][2] = NoStaff
              /\ seat'[d][1] \in open' /\ d \notin dead'
              => ~Present(d)
    PROVE  SeatsMatch' /\ OwnersKept'
<1>1. \A d \in Device : device'[d] = IF d \in D THEN NoDevice ELSE device[d]
  BY DEF Without
<1>2. \A d \in Device : d \notin D => seat'[d] = seat[d]
  BY DEF Unseat
<1>3. \A d \in Device : seat'[d] \in {seat[d], NoDevice}
  BY DEF Unseat
<1>4. SeatsMatch'
  BY <1>1, <1>2 DEF SeatsMatch, Present, OwnedBy
<1>5. OwnersKept'
  <2> SUFFICES ASSUME NEW d \in Device,
                      seat'[d] # NoDevice, seat'[d][2] = NoStaff,
                      seat'[d][1] \in open', d \notin dead'
               PROVE  Present(d)'
    BY DEF OwnersKept
  <2>1. seat'[d] = seat[d]
    BY <1>3
  <2>2. Present(d)
    BY <2>1 DEF OwnersKept
  <2>3. d \notin D
    BY <2>2
  <2> QED BY <1>1, <2>2, <2>3 DEF Present
<1> QED BY <1>4, <1>5

\* What deleting leaves of the types.
LEMMA DeletingTyped ==
    ASSUME PhonesTyped, NEW D, Without(D), seat' = seat \/ Unseat(D)
    PROVE  /\ device' \in [Device -> DeviceRow \union {NoDevice}]
           /\ seat' \in [Device -> Seat \union {NoDevice}]
BY DEF PhonesTyped, Without, Unseat

----------------------------------------------------------------------------
(* Steps *)

LEMMA BeginRegisterInv ==
    ASSUME DeviceInv, NEW w \in Sender, NEW d \in Device, NEW a \in Seat,
           BeginRegister(w, d, a)
    PROVE  DeviceInv'
<1> DEFINE q == [Waiting EXCEPT !.op = "register", !.phone = d, !.by = a]
<1>1. /\ sending' = [sending EXCEPT ![w] = q]
      /\ UNCHANGED <<device, hired, open, dead, seat>>
  BY DEF BeginRegister
<1>2. q \in Sending
  BY WaitingFits DEF Sending
<1>3. Fits(q)
  BY WaitingFits DEF Sending, Fits
<1>4. SendersFit'
  <2> HIDE DEF q
  <2> QED BY <1>1, <1>2, <1>3, SenderFits DEF DeviceInv
<1> QED BY <1>1, <1>4 DEF DeviceInv, PhonesTyped, SeatsMatch, OwnersKept, Present, OwnedBy

LEMMA UpsertInv ==
    ASSUME DeviceInv, NEW w \in Sender, upsertDevice(w)
    PROVE  DeviceInv'
<1> DEFINE d == sending[w].phone
           a == sending[w].by
           row == OwnedBy(a, d)
<1>1. /\ sending[w].op = "register"
      /\ device' = [device EXCEPT ![d] = row]
      /\ seat' = [seat EXCEPT ![d] = a]
      /\ sending' = [sending EXCEPT ![w] = Waiting]
      /\ UNCHANGED <<hired, open, dead>>
  BY DEF upsertDevice
<1>2. d \in Device /\ a \in Seat
  BY <1>1 DEF DeviceInv, SendersFit, Fits, Sending
<1>3. row \in DeviceRow /\ row # NoDevice
  <2>1. a[1] \in Store /\ a[2] \in Staff \union {NoStaff}
    BY <1>2, SeatParts
  <2>2. OwnerOf[a[1]] \in Owner
    BY <2>1 DEF Owner
  <2>3. row \in DeviceRow
    BY <2>1, <2>2 DEF OwnedBy, DeviceRow
  <2> QED BY <2>3, DevicesAssumption
<1>4. \A e \in Device : /\ device'[e] = IF e = d THEN row ELSE device[e]
                        /\ seat'[e] = IF e = d THEN a ELSE seat[e]
  BY <1>1, <1>2 DEF DeviceInv, PhonesTyped
<1>5. PhonesTyped'
  <2> HIDE DEF row, a, d
  <2> QED BY <1>1, <1>2, <1>3 DEF DeviceInv, PhonesTyped
<1>6. SeatsMatch'
  <2>1. ASSUME NEW e \in Device, Present(e)'
        PROVE  seat'[e] \in Seat /\ device'[e] = OwnedBy(seat'[e], e)
    BY <1>2, <1>4, <2>1 DEF DeviceInv, SeatsMatch, Present, OwnedBy
  <2> QED BY <2>1 DEF SeatsMatch, OwnedBy
<1>7. OwnersKept'
  <2> HIDE DEF row, a, d
  <2> QED BY <1>1, <1>3, <1>4 DEF DeviceInv, OwnersKept, Present
<1>8. SendersFit'
  BY <1>1, WaitingFits, SenderFits DEF DeviceInv
<1> QED BY <1>5, <1>6, <1>7, <1>8 DEF DeviceInv

LEMMA UnregisterInv ==
    ASSUME DeviceInv, NEW d \in Device, NEW a \in Seat, unregisterDevice(d, a)
    PROVE  DeviceInv'
<1>1. /\ Without({d}) /\ Unseat({d})
      /\ UNCHANGED <<hired, open, dead, sending>>
  BY DEF unregisterDevice
<1>2. seat'[d] = NoDevice
  BY <1>1 DEF Unseat
<1>3. SeatsMatch' /\ OwnersKept'
  BY <1>1, <1>2, DeletingKeeps DEF DeviceInv
<1>4. PhonesTyped'
  BY <1>1, DeletingTyped DEF DeviceInv, PhonesTyped
<1>5. SendersFit'
  BY <1>1, OthersFit DEF DeviceInv
<1> QED BY <1>3, <1>4, <1>5 DEF DeviceInv

LEMMA RevokeInv ==
    ASSUME DeviceInv, NEW f \in Staff, RevokeStaff(f)
    PROVE  DeviceInv'
<1> DEFINE D == {d \in Device : Present(d) /\ device[d].staff = f}
<1>1. /\ hired' = hired \ {f} /\ Without(D)
      /\ UNCHANGED <<open, dead, seat, sending>>
  BY DEF RevokeStaff
<1>2. ASSUME NEW d \in D, seat'[d][2] = NoStaff PROVE FALSE
  <2>1. d \in Device /\ Present(d) /\ device[d].staff = f
    OBVIOUS
  <2>2. device[d] = OwnedBy(seat[d], d)
    BY <2>1 DEF DeviceInv, SeatsMatch
  <2>3. device[d].staff = seat[d][2]
    BY <2>2 DEF OwnedBy
  <2> QED BY <1>1, <1>2, <2>1, <2>3, DevicesAssumption
<1> HIDE DEF D
<1>3. SeatsMatch' /\ OwnersKept'
  BY <1>1, <1>2, DeletingKeeps DEF DeviceInv
<1>4. PhonesTyped'
  BY <1>1, DeletingTyped DEF DeviceInv, PhonesTyped
<1>5. SendersFit'
  BY <1>1, OthersFit DEF DeviceInv
<1> QED BY <1>3, <1>4, <1>5 DEF DeviceInv

\* A phone's row is deleted with the store it was registered in.
LEMMA ClosingInv ==
    ASSUME DeviceInv, NEW S, NEW D, Without(D),
           open' = open \ S, hired' \subseteq hired,
           D \subseteq {d \in Device : Present(d) /\
              (device[d].store \in S
               \/ (seat[d][2] = NoStaff => seat[d][1] \notin open \ S))},
           UNCHANGED <<dead, seat, sending>>
    PROVE  DeviceInv'
<1>1. ASSUME NEW d \in D PROVE ~(seat'[d][2] = NoStaff /\ seat'[d][1] \in open')
  <2>1. d \in Device /\ Present(d)
    OBVIOUS
  <2>2. device[d] = OwnedBy(seat[d], d)
    BY <2>1 DEF DeviceInv, SeatsMatch
  <2>3. device[d].store = seat[d][1]
    BY <2>2 DEF OwnedBy
  <2> QED BY <2>3
<1>2. SeatsMatch' /\ OwnersKept'
  BY <1>1, DeletingKeeps DEF DeviceInv
<1>3. PhonesTyped'
  BY DeletingTyped DEF DeviceInv, PhonesTyped
<1>4. SendersFit'
  BY OthersFit DEF DeviceInv
<1> QED BY <1>2, <1>3, <1>4 DEF DeviceInv

LEMMA CloseStoreInv ==
    ASSUME DeviceInv, NEW s \in Store, CloseStore(s)
    PROVE  DeviceInv'
<1> DEFINE D == {d \in Device : Present(d) /\ device[d].store = s}
<1>1. /\ Without(D)
      /\ open' = open \ {s} /\ hired' \subseteq hired
      /\ UNCHANGED <<dead, seat, sending>>
  BY DEF CloseStore
<1>2. D \subseteq {d \in Device : Present(d) /\
              (device[d].store \in {s}
               \/ (seat[d][2] = NoStaff => seat[d][1] \notin open \ {s}))}
  OBVIOUS
<1> HIDE DEF D
<1> QED BY <1>1, <1>2, ClosingInv

LEMMA OwnerLeaves ==
    ASSUME DeviceInv, NEW o \in Owner, WithdrawOwner(o)
    PROVE  DeviceInv'
<1> DEFINE S == {s \in open : OwnerOf[s] = o}
           D == {d \in Device : Present(d) /\
                    (device[d].store \in S \/ device[d].owner = o)}
<1>1. /\ Without(D)
      /\ open' = open \ S /\ hired' \subseteq hired
      /\ UNCHANGED <<dead, seat, sending>>
  BY DEF WithdrawOwner
<1>2. D \subseteq {d \in Device : Present(d) /\
              (device[d].store \in S
               \/ (seat[d][2] = NoStaff => seat[d][1] \notin open \ S))}
  <2> SUFFICES ASSUME NEW d \in D, device[d].owner = o, seat[d][2] = NoStaff
               PROVE  seat[d][1] \notin open \ S
    OBVIOUS
  <2>1. device[d] = OwnedBy(seat[d], d)
    BY DEF DeviceInv, SeatsMatch
  <2>2. OwnerOf[seat[d][1]] = o
    BY <2>1 DEF OwnedBy
  <2> QED BY <2>2
<1> HIDE DEF D, S
<1> QED BY <1>1, <1>2, ClosingInv

LEMMA SendingInv ==
    ASSUME DeviceInv, NEW w \in Sender,
           \/ \E s \in open : notifyStore(w, s)
           \/ send(w) \/ AbortSending(w)
    PROVE  DeviceInv'
<1>1. UNCHANGED <<device, hired, open, dead, seat>>
  BY DEF notifyStore, send, AbortSending
<1>2. CASE \E s \in open : notifyStore(w, s)
  <2>1. PICK s \in open : notifyStore(w, s)
    BY <1>2
  <2> DEFINE q == [Waiting EXCEPT !.op = "send", !.at = s,
                                  !.devices = RecipientsOf(s)]
  <2>2. sending' = [sending EXCEPT ![w] = q]
    BY <2>1 DEF notifyStore
  <2>3. q \in Sending
    BY WaitingFits DEF Sending, RecipientsOf, DeviceInv, PhonesTyped
  <2>4. Fits(q)
    BY WaitingFits DEF Sending, Fits
  <2> HIDE DEF q
  <2> QED BY <1>1, <2>2, <2>3, <2>4, SenderFits
          DEF DeviceInv, PhonesTyped, SeatsMatch, OwnersKept, Present, OwnedBy
<1>3. CASE send(w)
  <2>1. PICK stale \in {{}, sending[w].devices \intersect dead} :
            sending' = [sending EXCEPT ![w].op = "prune", ![w].devices = stale]
    BY <1>3 DEF send
  <2> DEFINE q == [sending[w] EXCEPT !.op = "prune", !.devices = stale]
  <2>2. sending' = [sending EXCEPT ![w] = q]
    BY <2>1 DEF DeviceInv, SendersFit
  <2>3. stale \subseteq dead /\ stale \subseteq Device
    BY DEF DeviceInv, PhonesTyped
  <2>4. sending[w] \in Sending
    BY DEF DeviceInv, SendersFit
  <2>5. q \in Sending
    BY <2>3, <2>4 DEF Sending
  <2>6. Fits(q)
    BY <2>3, <2>4 DEF Sending, Fits
  <2> HIDE DEF q
  <2> QED BY <1>1, <2>2, <2>5, <2>6, SenderFits
          DEF DeviceInv, PhonesTyped, SeatsMatch, OwnersKept, Present, OwnedBy
<1>4. CASE AbortSending(w)
  BY <1>1, <1>4, WaitingFits, SenderFits
     DEF AbortSending, DeviceInv, PhonesTyped, SeatsMatch, OwnersKept, Present, OwnedBy
<1> QED BY <1>2, <1>3, <1>4

LEMMA PruneInv ==
    ASSUME DeviceInv, NEW w \in Sender, deleteStaleTokens(w)
    PROVE  DeviceInv'
<1>1. /\ Without(sending[w].devices)
      /\ sending[w].devices \subseteq dead
      /\ sending' = [sending EXCEPT ![w] = Waiting]
      /\ UNCHANGED <<hired, open, dead, seat>>
  BY DEF deleteStaleTokens, DeviceInv, SendersFit, Fits
<1>2. SeatsMatch' /\ OwnersKept'
  BY <1>1, DeletingKeeps DEF DeviceInv
<1>3. PhonesTyped'
  BY <1>1, DeletingTyped DEF DeviceInv, PhonesTyped
<1>4. SendersFit'
  BY <1>1, WaitingFits, SenderFits DEF DeviceInv
<1> QED BY <1>2, <1>3, <1>4 DEF DeviceInv

LEMMA DeviceNext ==
    ASSUME DeviceInv, [DevicesNext]_deviceVars
    PROVE  DeviceInv'
<1>1. ASSUME NEW d \in Device, RemoveApp(d) PROVE DeviceInv'
  <2>1. SendersFit'
    BY <1>1, OthersFit DEF RemoveApp, DeviceInv
  <2> QED BY <1>1, <2>1 DEF RemoveApp, DeviceInv, PhonesTyped, SeatsMatch, OwnersKept,
                            Present, OwnedBy
<1>2. CASE UNCHANGED deviceVars
  BY <1>2 DEF deviceVars, DeviceInv, PhonesTyped, SeatsMatch, OwnersKept, SendersFit, Fits,
              Present, OwnedBy
<1> QED BY <1>1, <1>2, BeginRegisterInv, UpsertInv, UnregisterInv, RevokeInv,
           CloseStoreInv, OwnerLeaves, SendingInv, PruneInv DEF DevicesNext

----------------------------------------------------------------------------
(* Theorems *)

LEMMA DeviceSpec == DevicesSpec => []DeviceInv
BY DeviceInit, DeviceNext, PTL DEF DevicesSpec

\* Every row and push keeps its type (schema.prisma, model store_push_devices).
THEOREM DevicesTypeCorrect == DevicesSpec => []DevicesTypeOK
BY DeviceSpec, DeviceInvTyped, PTL

\* A push of an open store goes to the phones of its owner, all that live and
\* were registered in a store that is open, and of its active staff, and to
\* nobody else's, however registering, leaving, closing and pruning overlap
\* (registerDevice, notifyStore and deleteStaleTokens in
\* store-push.service.ts).
THEOREM PushesReachTheRightPhones == DevicesSpec => []RightPhones
<1>1. DeviceInv => StrangersHearNothing
  <2> SUFFICES ASSUME DeviceInv, NEW s \in open, NEW d \in RecipientsOf(s)
               PROVE  BelongsAt(d, s)
    BY DEF StrangersHearNothing
  <2>1. d \in Device /\ seat[d] \in Seat /\ device[d] = OwnedBy(seat[d], d)
    BY DEF DeviceInv, SeatsMatch, RecipientsOf
  <2>2. seat[d] # NoDevice
    BY <2>1, DevicesAssumption
  <2> QED BY <2>1, <2>2 DEF RecipientsOf, BelongsAt, OwnedBy
<1>2. DeviceInv => OwnerHearsAllStores
  <2> SUFFICES ASSUME DeviceInv, NEW s \in open, NEW d \in Device,
                      seat[d] # NoDevice, seat[d][2] = NoStaff,
                      seat[d][1] \in open, OwnerOf[seat[d][1]] = OwnerOf[s],
                      d \notin dead
               PROVE  d \in RecipientsOf(s)
    BY DEF OwnerHearsAllStores
  <2>1. Present(d) /\ device[d] = OwnedBy(seat[d], d)
    BY DEF DeviceInv, OwnersKept, SeatsMatch
  <2> QED BY <2>1 DEF RecipientsOf, OwnedBy
<1> QED BY <1>1, <1>2, DeviceSpec, PTL DEF RightPhones
----------------------------------------------------------------------------
(* Reviews: the invariant *)

ReviewsTyped ==
    /\ status \in [Row -> Status]
    /\ ended \in [Row -> 0..LastDay]
    /\ {asked, crossed} \subseteq SUBSET Row
    /\ review \in [Row -> {"none", "pending", "responded"}]
    /\ today \in 1..LastDay

\* Only the representative's id is stored with a review, and a row of the
\* booking has the time of its hand-over then.
ReviewsMatch ==
    \A r \in Row : review[r] # "none" =>
        /\ r = representativeId(r)
        /\ \E q \in RowsOf(GroupOf[r]) : ended[q] # 0

\* The row has the time of its hand-over, and is completed unless a late
\* cancellation was written over it.
HandedOver(r) == ended[r] # 0 /\ (status[r] = "completed" \/ r \in crossed)

\* What a request has found: a transition that is allowed, a hand-over, a
\* review that exists.
Found(q) ==
    /\ q.op # "idle" => q.row \in Row
    /\ q.op = "status" => assertCanTransition(q.was, q.to)
    /\ q.op = "ask" => HandedOver(q.row)
    /\ q.op = "review" => ended[q.row] # 0
    /\ q.op = "respond" => review[q.row] # "none"

RequestsFound == handling \in [Caller -> Handling] /\ \A w \in Caller : Found(handling[w])

ReviewInv == /\ ReviewsTyped
       /\ ReviewsMatch
       /\ RequestsFound
       /\ \A r \in asked : HandedOver(r)

LEMMA ReviewInvTyped == ReviewInv => ReviewsTypeOK
BY DEF ReviewInv, ReviewsTyped, RequestsFound, ReviewsTypeOK

LEMMA IdleFound == AtRest \in Handling /\ Found(AtRest)
BY ReviewsAssumption DEF AtRest, Handling, Found, Status

LEMMA ReviewInit == ReviewsInit => ReviewInv
<1> SUFFICES ASSUME ReviewsInit PROVE ReviewInv
  OBVIOUS
<1>1. ReviewsTyped
  BY ReviewsAssumption DEF ReviewsInit, ReviewsTyped, Status
<1>2. ReviewsMatch /\ \A r \in asked : HandedOver(r)
  BY DEF ReviewsInit, ReviewsMatch
<1>3. RequestsFound
  BY IdleFound DEF ReviewsInit, RequestsFound
<1> QED BY <1>1, <1>2, <1>3 DEF ReviewInv

----------------------------------------------------------------------------
(* What steps preserve *)

\* A hand-over is never taken back, and a row that is cancelled after it was
\* completed is one that crossed.
Kept ==
    /\ \A r \in Row : ended[r] # 0 => ended'[r] # 0
    /\ \A r \in Row : HandedOver(r) => HandedOver(r)'
    /\ \A r \in Row : review[r] # "none" => review'[r] # "none"

\* A step in which one request goes on, or none.
LEMMA RequestsKept ==
    ASSUME RequestsFound, Kept, NEW w \in Caller, NEW q \in Handling, Found(q)',
           handling' = [handling EXCEPT ![w] = q]
    PROVE  RequestsFound'
<1>1. handling' \in [Caller -> Handling]
  BY DEF RequestsFound
<1>2. ASSUME NEW v \in Caller PROVE Found(handling[v])'
  <2>1. CASE v = w
    <3>1. handling'[v] = q
      BY <2>1 DEF RequestsFound
    <3> QED BY <3>1 DEF Found, HandedOver
  <2>2. CASE v # w
    <3>1. handling'[v] = handling[v] /\ Found(handling[v])
      BY <2>2 DEF RequestsFound
    <3> QED BY <3>1 DEF Kept, Found, HandedOver
  <2> QED BY <2>1, <2>2
<1> QED BY <1>1, <1>2 DEF RequestsFound

LEMMA EndKept ==
    ASSUME RequestsFound, Kept, NEW w \in Caller, Finish(w)
    PROVE  RequestsFound'
<1>1. Found(AtRest)'
  BY DEF Found, AtRest
<1> QED BY <1>1, IdleFound, RequestsKept DEF Finish

LEMMA ReviewsKept ==
    ASSUME ReviewsMatch, Kept, UNCHANGED review
    PROVE  ReviewsMatch'
BY DEF ReviewsMatch, Kept, RowsOf, representativeId

LEMMA UnchangedKept == UNCHANGED <<status, ended, review, crossed>> => Kept
BY DEF Kept, HandedOver

\* A request is accepted: it writes nothing yet.
LEMMA AcceptInv ==
    ASSUME ReviewInv, NEW w \in Caller, NEW op, NEW r \in Row,
           NEW to \in {"completed", "cancelled"},
           op \in {"status", "customerCheckout", "review", "respond"},
           op = "status" => assertCanTransition(status[r], to),
           op = "review" => ended[r] # 0,
           op = "respond" => review[r] # "none",
           Take(w, op, r, to),
           UNCHANGED <<status, ended, asked, review, crossed, today>>
    PROVE  ReviewInv'
<1>0. PICK q : q = [op |-> op, row |-> r, to |-> to, was |-> status[r],
                    ended |-> ended[r]]
  OBVIOUS
<1>1. handling' = [handling EXCEPT ![w] = q]
  BY <1>0 DEF Take
<1>2. q \in Handling
  BY <1>0 DEF Handling, ReviewInv, ReviewsTyped
<1>3. Found(q)'
  BY <1>0 DEF Found, HandedOver
<1>4. Kept
  BY UnchangedKept
<1>5. RequestsFound'
  BY <1>1, <1>2, <1>3, <1>4, RequestsKept DEF ReviewInv
<1>6. ReviewsMatch'
  BY <1>4, ReviewsKept DEF ReviewInv
<1> QED BY <1>5, <1>6 DEF ReviewInv, ReviewsTyped, HandedOver

\* The time of a hand-over that is written is a time.
LEMMA EndOfIsTime ==
    ASSUME ReviewsTyped, NEW t \in 0..LastDay
    PROVE  EndOf(t) \in 1..LastDay
BY ReviewsAssumption DEF ReviewsTyped, EndOf

----------------------------------------------------------------------------
(* Checking out *)

LEMMA CommitStatusInv ==
    ASSUME ReviewInv, NEW w \in Caller, CommitStatus(w)
    PROVE  ReviewInv'
<1> DEFINE r == handling[w]
           x == r.row
<1>1. /\ r.op = "status" /\ x \in Row /\ r \in Handling
      /\ assertCanTransition(r.was, r.to)
  BY DEF CommitStatus, ReviewInv, RequestsFound, Found
<1>2. /\ status' = [status EXCEPT ![x] = r.to]
      /\ ended' = IF r.to = "completed" THEN [ended EXCEPT ![x] = EndOf(r.ended)]
                  ELSE ended
      /\ crossed' = IF r.to = "cancelled" /\ status[x] # r.was
                    THEN crossed \union {x} ELSE crossed
      /\ UNCHANGED <<asked, review, today>>
  BY DEF CommitStatus
<1>3. EndOf(r.ended) \in 1..LastDay
  BY <1>1, EndOfIsTime DEF ReviewInv, Handling
<1>4. r.to \in {"completed", "cancelled"} /\ r.was \in Status
  BY <1>1 DEF Handling
<1>5. ReviewsTyped'
  BY <1>1, <1>2, <1>3, <1>4 DEF ReviewInv, ReviewsTyped, Status
<1>6. \A q \in Row : /\ status'[q] = IF q = x THEN r.to ELSE status[q]
                     /\ ended'[q] = IF q = x /\ r.to = "completed"
                                    THEN EndOf(r.ended) ELSE ended[q]
  BY <1>1, <1>2 DEF ReviewInv, ReviewsTyped
<1>7. r.to = "cancelled" => r.was # "completed"
  BY <1>1 DEF assertCanTransition, TERMINAL_RESERVATION_STATUSES
<1>8. Kept
  <2>1. \A q \in Row : ended[q] # 0 => ended'[q] # 0
    BY <1>3, <1>6
  <2>2. ASSUME NEW q \in Row, HandedOver(q) PROVE HandedOver(q)'
    <3>1. CASE q # x
      BY <1>2, <1>6, <2>1, <2>2, <3>1 DEF HandedOver
    <3>2. CASE q = x /\ r.to = "completed"
      BY <1>6, <2>1, <2>2, <3>2 DEF HandedOver
    <3>3. CASE q = x /\ r.to = "cancelled"
      BY <1>2, <1>7, <2>1, <2>2, <3>3 DEF HandedOver
    <3> QED BY <1>4, <3>1, <3>2, <3>3
  <2> QED BY <1>2, <2>1, <2>2 DEF Kept
<1>9. RequestsFound'
  <2>1. CASE r.to = "completed" /\ r.was # "completed"
    <3>0. PICK q : q = [r EXCEPT !.op = "ask"]
      OBVIOUS
    <3>1. handling' = [handling EXCEPT ![w] = q]
      BY <1>1, <2>1, <3>0 DEF CommitStatus, Proceed, ReviewInv, RequestsFound
    <3>2. q \in Handling /\ q.op = "ask" /\ q.row = x
      BY <1>1, <3>0 DEF Handling
    <3>3. ended'[x] # 0 /\ status'[x] = "completed"
      BY <1>1, <1>3, <1>6, <2>1
    <3>4. Found(q)'
      BY <1>1, <3>2, <3>3 DEF Found, HandedOver
    <3> QED BY <1>8, <3>1, <3>2, <3>4, RequestsKept DEF ReviewInv
  <2>2. CASE ~(r.to = "completed" /\ r.was # "completed")
    BY <1>8, <2>2, EndKept DEF CommitStatus, ReviewInv
  <2> QED BY <2>1, <2>2
<1>10. ReviewsMatch'
  BY <1>2, <1>8, ReviewsKept DEF ReviewInv
<1>11. \A q \in asked' : HandedOver(q)'
  BY <1>2, <1>8 DEF ReviewInv, Kept, ReviewsTyped
<1> QED BY <1>5, <1>9, <1>10, <1>11 DEF ReviewInv

LEMMA CustomerCheckoutInv ==
    ASSUME ReviewInv, NEW w \in Caller, CommitCustomerCheckout(w)
    PROVE  ReviewInv'
<1> DEFINE r == handling[w]
           x == r.row
<1>1. r.op = "customerCheckout" /\ x \in Row /\ r \in Handling
  BY DEF CommitCustomerCheckout, ReviewInv, RequestsFound, Found
<1>2. /\ status' = [status EXCEPT ![x] = "completed"]
      /\ ended' = [ended EXCEPT ![x] = EndOf(r.ended)]
      /\ Finish(w)
      /\ UNCHANGED <<asked, review, crossed, today>>
  BY DEF CommitCustomerCheckout
<1>3. EndOf(r.ended) \in 1..LastDay
  BY <1>1, EndOfIsTime DEF ReviewInv, Handling
<1>4. ReviewsTyped'
  BY <1>1, <1>2, <1>3 DEF ReviewInv, ReviewsTyped, Status
<1>5. \A q \in Row : /\ status'[q] = IF q = x THEN "completed" ELSE status[q]
                     /\ ended'[q] = IF q = x THEN EndOf(r.ended) ELSE ended[q]
  BY <1>1, <1>2 DEF ReviewInv, ReviewsTyped
<1>6. Kept
  BY <1>2, <1>3, <1>5 DEF Kept, HandedOver
<1>7. RequestsFound'
  BY <1>2, <1>6, EndKept DEF ReviewInv
<1>8. ReviewsMatch'
  BY <1>2, <1>6, ReviewsKept DEF ReviewInv
<1>9. \A q \in asked' : HandedOver(q)'
  BY <1>2, <1>6 DEF ReviewInv, Kept, ReviewsTyped
<1> QED BY <1>4, <1>7, <1>8, <1>9 DEF ReviewInv

LEMMA CheckOutInv ==
    ASSUME ReviewInv, NEW w \in Caller, NEW g \in Group, CommitCheckOut(w, g)
    PROVE  ReviewInv'
<1>0. PICK q : q = [AtRest EXCEPT !.op = "ask", !.row = RepOf[g]]
  OBVIOUS
<1>1. /\ status' = [r \in Row |-> IF GroupOf[r] = g THEN "completed" ELSE status[r]]
      /\ ended' = [r \in Row |-> IF GroupOf[r] = g THEN today ELSE ended[r]]
      /\ handling' = [handling EXCEPT ![w] = q]
      /\ UNCHANGED <<asked, review, crossed, today>>
  BY <1>0 DEF CommitCheckOut
<1>2. today \in 1..LastDay /\ RepOf[g] \in Row /\ GroupOf[RepOf[g]] = g
  BY ReviewsAssumption DEF ReviewInv, ReviewsTyped
<1>3. ReviewsTyped'
  BY <1>1, <1>2, ReviewsAssumption DEF ReviewInv, ReviewsTyped, Status
<1>4. Kept
  BY <1>1, <1>2 DEF Kept, HandedOver
<1>5. HandedOver(RepOf[g])'
  BY <1>1, <1>2 DEF HandedOver
<1>6. q \in Handling /\ q.op = "ask" /\ q.row = RepOf[g]
  <2>1. 0 \in 0..LastDay
    BY ReviewsAssumption
  <2>2. q = [op |-> "ask", row |-> RepOf[g], to |-> "completed",
             was |-> "confirmed", ended |-> 0]
    BY <1>0 DEF AtRest
  <2> QED BY <1>2, <2>1, <2>2 DEF Handling, Status
<1>7. RequestsFound'
  <2>1. Found(q)'
    BY <1>2, <1>5, <1>6 DEF Found, HandedOver
  <2> QED BY <1>1, <1>4, <1>6, <2>1, RequestsKept DEF ReviewInv
<1>8. ReviewsMatch'
  BY <1>1, <1>4, ReviewsKept DEF ReviewInv
<1>9. \A r \in asked' : HandedOver(r)'
  BY <1>1, <1>4 DEF ReviewInv, Kept, ReviewsTyped
<1> QED BY <1>3, <1>7, <1>8, <1>9 DEF ReviewInv

LEMMA AutoCompleteInv ==
    ASSUME ReviewInv, NEW R \in SUBSET Row, AutoComplete(R)
    PROVE  ReviewInv'
<1>1. /\ status' = [r \in Row |-> IF r \in R THEN "completed" ELSE status[r]]
      /\ UNCHANGED <<ended, asked, review, crossed, handling, today>>
  BY DEF AutoComplete
<1>2. ReviewsTyped'
  BY <1>1 DEF ReviewInv, ReviewsTyped, Status
<1>3. Kept
  BY <1>1 DEF Kept, HandedOver
<1>4. RequestsFound'
  BY <1>1, <1>3 DEF ReviewInv, RequestsFound, Kept, Found, HandedOver
<1>5. ReviewsMatch'
  BY <1>1, <1>3, ReviewsKept DEF ReviewInv
<1>6. \A q \in asked' : HandedOver(q)'
  BY <1>1, <1>3 DEF ReviewInv, Kept, ReviewsTyped
<1> QED BY <1>2, <1>4, <1>5, <1>6 DEF ReviewInv

----------------------------------------------------------------------------
(* Asking, reviewing, responding *)

LEMMA AskInv ==
    ASSUME ReviewInv, NEW w \in Caller, notifyCheckoutReview(w)
    PROVE  ReviewInv'
<1>1. /\ handling[w].row \in Row /\ HandedOver(handling[w].row)
      /\ asked' \in {asked, asked \union {handling[w].row}}
      /\ Finish(w)
      /\ UNCHANGED <<status, ended, review, crossed, today>>
  BY DEF notifyCheckoutReview, ReviewInv, RequestsFound, Found
<1>2. Kept
  BY <1>1, UnchangedKept
<1>3. RequestsFound'
  BY <1>1, <1>2, EndKept DEF ReviewInv
<1>4. ReviewsMatch'
  BY <1>1, <1>2, ReviewsKept DEF ReviewInv
<1>5. ReviewsTyped'
  BY <1>1 DEF ReviewInv, ReviewsTyped
<1>6. \A q \in asked' : HandedOver(q)'
  BY <1>1, <1>2 DEF ReviewInv, Kept, ReviewsTyped
<1> QED BY <1>3, <1>4, <1>5, <1>6 DEF ReviewInv

LEMMA CommitReviewInv ==
    ASSUME ReviewInv, NEW w \in Caller, CommitReview(w)
    PROVE  ReviewInv'
<1> DEFINE x == handling[w].row
           id == representativeId(x)
<1>1. /\ x \in Row /\ ended[x] # 0
      /\ review' = [review EXCEPT ![id] = "pending"]
      /\ Finish(w)
      /\ UNCHANGED <<status, ended, asked, crossed, today>>
  BY DEF CommitReview, ReviewInv, RequestsFound, Found
<1>2. id \in Row /\ representativeId(id) = id /\ GroupOf[id] = GroupOf[x]
  BY <1>1, ReviewsAssumption DEF representativeId
<1>3. \A r \in Row : review'[r] = IF r = id THEN "pending" ELSE review[r]
  BY <1>1, <1>2 DEF ReviewInv, ReviewsTyped
<1>4. Kept
  BY <1>1, <1>3 DEF Kept, HandedOver
<1>5. ReviewsTyped'
  BY <1>1, <1>2 DEF ReviewInv, ReviewsTyped
<1>6. RequestsFound'
  BY <1>1, <1>4, EndKept DEF ReviewInv
<1>7. ReviewsMatch'
  <2>1. x \in RowsOf(GroupOf[id])
    BY <1>1, <1>2 DEF RowsOf
  <2> HIDE DEF id, x
  <2>2. ASSUME NEW r \in Row, review'[r] # "none"
        PROVE  /\ r = representativeId(r)
               /\ \E q \in RowsOf(GroupOf[r]) : ended'[q] # 0
    <3>1. CASE r = id
      BY <1>1, <1>2, <2>1, <3>1
    <3>2. CASE r # id
      BY <1>1, <1>3, <2>2, <3>2 DEF ReviewInv, ReviewsMatch
    <3> QED BY <3>1, <3>2
  <2> QED BY <2>2 DEF ReviewsMatch, RowsOf, representativeId
<1>8. \A q \in asked' : HandedOver(q)'
  BY <1>1, <1>4 DEF ReviewInv, Kept, ReviewsTyped
<1> QED BY <1>5, <1>6, <1>7, <1>8 DEF ReviewInv

LEMMA CommitRespondInv ==
    ASSUME ReviewInv, NEW w \in Caller, CommitRespond(w)
    PROVE  ReviewInv'
<1> DEFINE x == handling[w].row
<1>1. /\ x \in Row /\ review[x] # "none"
      /\ review' = [review EXCEPT ![x] = "responded"]
      /\ Finish(w)
      /\ UNCHANGED <<status, ended, asked, crossed, today>>
  BY DEF CommitRespond, ReviewInv, RequestsFound, Found
<1>2. \A r \in Row : review'[r] = IF r = x THEN "responded" ELSE review[r]
  BY <1>1 DEF ReviewInv, ReviewsTyped
<1>3. Kept
  BY <1>1, <1>2 DEF Kept, HandedOver
<1>4. ReviewsTyped'
  BY <1>1 DEF ReviewInv, ReviewsTyped
<1>5. RequestsFound'
  BY <1>1, <1>3, EndKept DEF ReviewInv
<1>6. ReviewsMatch'
  BY <1>1, <1>2 DEF ReviewInv, ReviewsMatch, RowsOf, representativeId
<1>7. \A q \in asked' : HandedOver(q)'
  BY <1>1, <1>3 DEF ReviewInv, Kept, ReviewsTyped
<1> QED BY <1>4, <1>5, <1>6, <1>7 DEF ReviewInv

LEMMA ReviewNext ==
    ASSUME ReviewInv, [ReviewsNext]_reviewVars
    PROVE  ReviewInv'
<1>1. ASSUME NEW w \in Caller, NEW r \in Row,
             \/ \E to \in {"completed", "cancelled"} : BeginStatus(w, r, to)
             \/ BeginCustomerCheckout(w, r)
             \/ BeginReview(w, r) \/ BeginRespond(w, r)
      PROVE  ReviewInv'
  BY <1>1, AcceptInv
     DEF BeginStatus, BeginCustomerCheckout, BeginReview, Eligible, BeginRespond
<1>2. ASSUME NEW w \in Caller, AbortHandling(w) PROVE ReviewInv'
  <2>1. Kept
    BY <1>2, UnchangedKept DEF AbortHandling
  <2>2. RequestsFound' /\ ReviewsMatch'
    BY <1>2, <2>1, EndKept, ReviewsKept DEF AbortHandling, ReviewInv
  <2> QED BY <1>2, <2>2 DEF AbortHandling, ReviewInv, ReviewsTyped, HandedOver
<1>3. CASE NextDay \/ UNCHANGED reviewVars
  <2>1. UNCHANGED <<status, ended, asked, review, crossed, handling>>
        /\ today' \in 1..LastDay
    BY <1>3, ReviewsAssumption DEF NextDay, reviewVars, ReviewInv, ReviewsTyped
  <2> QED BY <2>1 DEF ReviewInv, ReviewsTyped, ReviewsMatch, RequestsFound, Found,
                      HandedOver, RowsOf, representativeId
<1> QED BY <1>1, <1>2, <1>3, CommitStatusInv, CustomerCheckoutInv, CheckOutInv,
           AutoCompleteInv, AskInv, CommitReviewInv, CommitRespondInv
        DEF ReviewsNext

----------------------------------------------------------------------------
(* Theorems *)

LEMMA ReviewSpec == ReviewsSpec => []ReviewInv
BY ReviewInit, ReviewNext, PTL DEF ReviewsSpec

\* Every row, review and request keeps its type (schema.prisma, models
\* reservations and reviews).
THEOREM ReviewsTypeCorrect == ReviewsSpec => []ReviewsTypeOK
BY ReviewSpec, ReviewInvTyped, PTL

\* However many requests review a booking through whichever of its rows, it has
\* one review (createReview in guest-review.service.ts, whose INSERT has the
\* representative's id).
THEOREM BookingReviewedOnce == ReviewsSpec => []OneReviewPerBooking
<1>1. ASSUME ReviewInv, NEW g \in Group
      PROVE  Cardinality({r \in RowsOf(g) : review[r] # "none"}) <= 1
  <2> DEFINE R == {r \in RowsOf(g) : review[r] # "none"}
  <2>1. R \subseteq {RepOf[g]}
    BY <1>1 DEF ReviewInv, ReviewsMatch, RowsOf, representativeId
  <2>2. IsFiniteSet({RepOf[g]}) /\ Cardinality({RepOf[g]}) = 1
    BY FS_Singleton
  <2>3. Cardinality(R) <= Cardinality({RepOf[g]})
    BY <2>1, <2>2, FS_Subset
  <2> QED BY <2>2, <2>3
<1>2. ReviewInv => OneReviewPerBooking
  BY <1>1 DEF OneReviewPerBooking
<1> QED BY <1>2, ReviewSpec, PTL

\* The hand-over leads to a review and to the request for one, and nothing less
\* does, whatever the hourly job and late cancellations overlap with
\* (updateReservationStatus in reservation-command.service.ts, checkOut in
\* owner-actions.service.ts, createReview in guest-review.service.ts).
THEOREM ReviewsComeAfterHandover == ReviewsSpec => []ReviewsFollowHandover
<1>1. ReviewInv => ReviewNeedsHandover
  <2> SUFFICES ASSUME ReviewInv, NEW g \in Group, NEW r \in RowsOf(g), review[r] # "none"
               PROVE  \E q \in RowsOf(g) : ended[q] # 0
    BY DEF ReviewNeedsHandover
  <2>1. r \in Row /\ GroupOf[r] = g
    BY DEF RowsOf
  <2> QED BY <2>1 DEF ReviewInv, ReviewsMatch
<1>2. ReviewInv => AskedCanReview
  BY DEF ReviewInv, HandedOver, AskedCanReview
<1> QED BY <1>1, <1>2, ReviewSpec, PTL DEF ReviewsFollowHandover

----------------------------------------------------------------------------
(* Notifications: the invariant *)

AtMostOne(calls) == \A c, d \in calls : c = d

ToOwners(calls) == {c \in calls : c.channel = "kakao_owner"}

\* A message to the customer is on its way, or it was delivered and no other
\* one is on its way.
CustomerCalls ==
    /\ AtMostOne(Customers(flight))
    /\ AtMostOne(Customers(got \ failed))
    /\ Customers(got \ failed) # {} => Customers(flight) = {}

\* Between booking and check-out without e-mail the customer's last call is to be
\* answered, was delivered, or was the text message.
Reaches(c) ==
    /\ c.channel \in {"alimtalk", "sms"}
    /\ c \in flight \union got \/ (c \in failed /\ c.channel = "sms")

PhoneToldOf(e) ==
    /\ "sms" \in env
    /\ e \in Event /\ e.kind \in {"create", "checkout"} /\ e.phone \in Phone /\ ~e.email

MessagesInv ==
    /\ event \in Event \union {Nothing}
    /\ event = Nothing => flight = {} /\ made = {} /\ got = {} /\ failed = {}
    /\ flight \subseteq made
    /\ CustomerCalls
    /\ event # Nothing => ToOwners(made) = ToOwners(CallsOf(event))
    /\ ~stopped /\ PhoneToldOf(event) => \E c \in made : Reaches(c)

\* Nothing is no event.
LEMMA NothingIsNoEvent ==
  /\ Nothing \notin Event
  /\ \A e \in Event : e.kind \in Kind /\ e.owners \in OwnerLists
BY DEF Event, Nothing, Kind

----------------------------------------------------------------------------
(* The calls of an event *)

LEMMA ViaOne ==
  ASSUME NEW ch, NEW to, NEW at
  PROVE  /\ AtMostOne(Via(ch, to, at))
         /\ \A c \in Via(ch, to, at) : c.channel = ch /\ c.to = to
         /\ Via(ch, to, at) # {} <=> ch \in env
<1>1. CASE ch \in env
  <2>1. PICK c : c = [channel |-> ch, to |-> to, at |-> at]
    OBVIOUS
  <2>2. Via(ch, to, at) = {c}
    BY <1>1, <2>1 DEF Via
  <2>3. c.channel = ch /\ c.to = to
    BY <2>1
  <2> QED BY <1>1, <2>2, <2>3 DEF AtMostOne
<1>2. CASE ch \notin env
  BY <1>2 DEF Via, AtMostOne
<1> QED BY <1>1, <1>2

LEMMA OwnerCalls ==
  ASSUME NEW e
  PROVE  /\ \A c \in sendKakaoAlimtalkToOwner(e) : c.channel = "kakao_owner"
         /\ \A c \in sendDiscordEmbed : c.channel = "discord"
         /\ \A c \in sendPushToStore : c.channel = "push_store"
BY ViaOne DEF sendKakaoAlimtalkToOwner, sendDiscordEmbed, sendPushToStore

\* What goes out to the customer is one call at most, by one of two channels
\* when it is not an e-mail, and one when the text message is configured.
LEMMA AlimtalkOrSms ==
  ASSUME NEW e
  PROVE  /\ AtMostOne(sendAlimtalkOrSms(e)) /\ AtMostOne(sendSmsToCustomer(e))
         /\ \A c \in sendAlimtalkOrSms(e) : c.channel \in {"alimtalk", "sms"}
         /\ \A c \in sendSmsToCustomer(e) : c.channel = "sms"
         /\ "sms" \in env => sendAlimtalkOrSms(e) # {} /\ sendSmsToCustomer(e) # {}
BY ViaOne DEF sendAlimtalkOrSms, sendAlimtalkToCustomer, sendSmsToCustomer

LEMMA EmailCalls ==
  /\ AtMostOne(sendReviewRequestEmailSafely)
  /\ \A c \in sendReviewRequestEmailSafely : c.channel = "email"
BY ViaOne DEF sendReviewRequestEmailSafely

LEMMA CreateCalls ==
  ASSUME NEW e
  PROVE  /\ AtMostOne(sendCustomerCreateNotification(e))
         /\ \A c \in sendCustomerCreateNotification(e) : c.channel \in {"alimtalk", "sms"}
BY AlimtalkOrSms DEF sendCustomerCreateNotification, AtMostOne

LEMMA CheckoutCalls ==
  ASSUME NEW e
  PROVE  /\ AtMostOne(sendCheckoutNotification(e))
         /\ \A c \in sendCheckoutNotification(e) : c.channel \in ToCustomer
BY AlimtalkOrSms, EmailCalls DEF sendCheckoutNotification, AtMostOne, ToCustomer

LEMMA CustomersOfCalls ==
  ASSUME NEW e \in Event
  PROVE  AtMostOne(Customers(CallsOf(e)))
<1>1. CASE e.kind = "create"
  <2>1. Customers(CallsOf(e)) = sendCustomerCreateNotification(e)
    BY <1>1, OwnerCalls, CreateCalls
       DEF CallsOf, sendCreateNotification, Customers, ToCustomer
  <2> QED BY <2>1, CreateCalls
<1>2. CASE e.kind = "checkout"
  <2>1. Customers(CallsOf(e)) = sendCheckoutNotification(e)
    BY <1>2, CheckoutCalls DEF CallsOf, Customers
  <2> QED BY <2>1, CheckoutCalls
<1>3. CASE e.kind \in {"cancel", "review", "photos"}
  <2>1. Customers(CallsOf(e)) = {}
    BY <1>3, OwnerCalls
       DEF CallsOf, sendCancelNotification, sendReviewCreatedNotification,
           sendPhotosNotification, Customers, ToCustomer
  <2> QED BY <2>1 DEF AtMostOne
<1> QED BY <1>1, <1>2, <1>3, NothingIsNoEvent DEF Kind

LEMMA OwnersOfCalls ==
  ASSUME NEW e \in Event, e.kind \in {"create", "cancel"}
  PROVE  ToOwners(CallsOf(e)) = sendKakaoAlimtalkToOwner(e)
BY OwnerCalls, CreateCalls
   DEF CallsOf, sendCreateNotification, sendCancelNotification, ToOwners

\* A customer with a phone and no e-mail address is sent something.
LEMMA PhoneIsTold ==
  ASSUME NEW e, PhoneToldOf(e)
  PROVE  \E c \in CallsOf(e) : c.channel \in {"alimtalk", "sms"}
<1>1. e.phone \notin {NoPhone, Address}
  BY NotificationsAssumption DEF PhoneToldOf
<1>2. CASE e.kind = "create"
  <2>1. sendCustomerCreateNotification(e) # {}
    BY <1>1, AlimtalkOrSms DEF sendCustomerCreateNotification, PhoneToldOf
  <2> QED BY <1>2, <2>1, CreateCalls DEF CallsOf, sendCreateNotification
<1>3. CASE e.kind = "checkout"
  <2>1. \/ sendCheckoutNotification(e) = sendAlimtalkOrSms(e)
        \/ sendCheckoutNotification(e) = sendSmsToCustomer(e)
    BY <1>1 DEF sendCheckoutNotification, PhoneToldOf
  <2> QED BY <1>3, <2>1, AlimtalkOrSms DEF CallsOf, PhoneToldOf
<1> QED BY <1>2, <1>3 DEF PhoneToldOf

LEMMA FallbackCalls ==
  ASSUME NEW c
  PROVE  /\ AtMostOne(Fallback(c))
         /\ \A d \in Fallback(c) : d.channel = "sms"
         /\ c.channel # "alimtalk" => Fallback(c) = {}
         /\ c.channel = "alimtalk" /\ "sms" \in env => Fallback(c) # {}
BY AlimtalkOrSms DEF Fallback, AtMostOne

----------------------------------------------------------------------------
(* Steps *)

LEMMA MessagesInvInit == MessagesInit => MessagesInv
BY NothingIsNoEvent
   DEF MessagesInit, MessagesInv, CustomerCalls, AtMostOne, Customers, PhoneToldOf

LEMMA NotifyKeeps ==
  ASSUME MessagesInv, NEW e \in Event, Notify(e)
  PROVE  MessagesInv'
<1>1. /\ event = Nothing /\ event' = e /\ flight' = CallsOf(e) /\ made' = CallsOf(e)
      /\ got' = {} /\ failed' = {} /\ env' = env
  BY DEF Notify, MessagesInv
<1>2. event' # Nothing
  BY <1>1, NothingIsNoEvent
<1>3. CustomerCalls'
  BY <1>1, CustomersOfCalls DEF CustomerCalls, AtMostOne, Customers
<1>4. CallsOf(event)' = CallsOf(e)
  BY <1>1 DEF CallsOf, sendCreateNotification, sendCancelNotification,
      sendCheckoutNotification, sendReviewCreatedNotification, sendPhotosNotification,
      sendCustomerCreateNotification, sendAlimtalkOrSms, sendAlimtalkToCustomer,
      sendSmsToCustomer, sendReviewRequestEmailSafely, sendDiscordEmbed,
      sendPushToStore, sendKakaoAlimtalkToOwner, Via
<1>5. (PhoneToldOf(event) => \E c \in made : Reaches(c))'
  <2> SUFFICES ASSUME PhoneToldOf(event)' PROVE (\E c \in made : Reaches(c))'
    OBVIOUS
  <2>1. PhoneToldOf(e)
    BY <1>1 DEF PhoneToldOf
  <2>2. PICK c \in CallsOf(e) : c.channel \in {"alimtalk", "sms"}
    BY <2>1, PhoneIsTold
  <2> QED BY <1>1, <2>2 DEF Reaches
<1> QED BY <1>1, <1>2, <1>3, <1>4, <1>5 DEF MessagesInv, ToOwners

\* The event and its calls to owners are settled when it happens.
LEMMA EventStays ==
  ASSUME MessagesInv, UNCHANGED <<env, event>>,
         ToOwners(made') = ToOwners(made)
  PROVE  /\ event' \in Event \union {Nothing}
         /\ event' # Nothing => ToOwners(made') = ToOwners(CallsOf(event))'
         /\ PhoneToldOf(event)' <=> PhoneToldOf(event)
<1>1. CallsOf(event)' = CallsOf(event)
  BY DEF CallsOf, sendCreateNotification, sendCancelNotification,
      sendCheckoutNotification, sendReviewCreatedNotification, sendPhotosNotification,
      sendCustomerCreateNotification, sendAlimtalkOrSms, sendAlimtalkToCustomer,
      sendSmsToCustomer, sendReviewRequestEmailSafely, sendDiscordEmbed,
      sendPushToStore, sendKakaoAlimtalkToOwner, Via
<1> QED BY <1>1 DEF MessagesInv, ToOwners, PhoneToldOf

LEMMA AcceptedKeeps ==
  ASSUME MessagesInv, NEW c \in flight, Accepted(c)
  PROVE  MessagesInv'
<1>1. /\ flight' = flight \ {c} /\ got' = got \union {c}
      /\ UNCHANGED <<env, event, made, failed, stopped>>
  BY DEF Accepted
<1>2. event # Nothing /\ flight' \subseteq made'
  BY <1>1 DEF MessagesInv
<1>3. CustomerCalls'
  BY <1>1 DEF MessagesInv, CustomerCalls, AtMostOne, Customers
<1>4. (~stopped /\ PhoneToldOf(event) => \E d \in made : Reaches(d))'
  BY <1>1, EventStays DEF MessagesInv, Reaches
<1> QED BY <1>1, <1>2, <1>3, <1>4, EventStays DEF MessagesInv

LEMMA RefusedKeeps ==
  ASSUME MessagesInv, NEW c \in flight, Refused(c)
  PROVE  MessagesInv'
<1>1. /\ failed' = failed \union {c} /\ got' \in {got, got \union {c}}
      /\ flight' = (flight \ {c}) \union Fallback(c)
      /\ made' = made \union Fallback(c)
      /\ UNCHANGED <<env, event, stopped>>
  BY DEF Refused
<1>2. event # Nothing /\ flight' \subseteq made'
  BY <1>1 DEF MessagesInv
<1>3. got' \ failed' \subseteq got \ failed
  BY <1>1
<1>4. CustomerCalls'
  <2>1. CASE c.channel = "alimtalk"
    <3>1. Customers(got \ failed) = {} /\ Customers(flight \ {c}) = {}
      BY <2>1 DEF MessagesInv, CustomerCalls, AtMostOne, Customers, ToCustomer
    <3>2. Customers(got' \ failed') = {} /\ AtMostOne(Customers(flight'))
      BY <1>1, <1>3, <3>1, FallbackCalls DEF AtMostOne, Customers
    <3> QED BY <3>2 DEF CustomerCalls, AtMostOne, Customers
  <2>2. CASE c.channel # "alimtalk"
    <3>1. flight' \subseteq flight
      BY <1>1, <2>2, FallbackCalls
    <3> QED BY <1>3, <3>1 DEF MessagesInv, CustomerCalls, AtMostOne, Customers
  <2> QED BY <2>1, <2>2
<1>5. ToOwners(made') = ToOwners(made)
  BY <1>1, FallbackCalls DEF ToOwners
<1>6. (~stopped /\ PhoneToldOf(event) => \E d \in made : Reaches(d))'
  <2> SUFFICES ASSUME ~stopped', PhoneToldOf(event)'
               PROVE  (\E d \in made : Reaches(d))'
    OBVIOUS
  <2>1. PhoneToldOf(event) /\ ~stopped /\ "sms" \in env
    BY <1>1, <1>5, EventStays DEF PhoneToldOf
  <2>2. PICK d \in made : Reaches(d)
    BY <2>1 DEF MessagesInv
  <2>3. CASE d # c \/ c.channel = "sms"
    BY <1>1, <2>2, <2>3 DEF Reaches
  <2>4. CASE d = c /\ c.channel # "sms"
    <3>1. c.channel = "alimtalk"
      BY <2>2, <2>4 DEF Reaches
    <3>2. PICK s \in Fallback(c) : s.channel = "sms"
      BY <2>1, <3>1, FallbackCalls
    <3> QED BY <1>1, <3>2 DEF Reaches
  <2> QED BY <2>3, <2>4
<1> QED BY <1>1, <1>2, <1>4, <1>5, <1>6, EventStays DEF MessagesInv

LEMMA MessagesStep ==
  ASSUME MessagesInv, [MessagesNext]_messageVars
  PROVE  MessagesInv'
<1>1. CASE Stop
  <2>1. /\ flight # {} /\ flight' = {} /\ stopped'
        /\ UNCHANGED <<env, event, made, got, failed>>
    BY <1>1 DEF Stop
  <2>2. event # Nothing /\ CustomerCalls'
    BY <2>1 DEF MessagesInv, CustomerCalls, AtMostOne, Customers
  <2> QED BY <2>1, <2>2, EventStays DEF MessagesInv
<1>2. CASE UNCHANGED messageVars
  <2>1. UNCHANGED <<env, event, flight, made, got, failed, stopped>>
    BY <1>2 DEF messageVars
  <2>2. CustomerCalls'
    BY <2>1 DEF MessagesInv, CustomerCalls, AtMostOne, Customers
  <2>3. (~stopped /\ PhoneToldOf(event) => \E d \in made : Reaches(d))'
    BY <2>1, EventStays DEF MessagesInv, Reaches
  <2> QED BY <2>1, <2>2, <2>3, EventStays DEF MessagesInv
<1> QED BY <1>1, <1>2, NotifyKeeps, AcceptedKeeps, RefusedKeeps DEF MessagesNext

LEMMA MessagesSpecInv == MessagesSpec => []MessagesInv
BY MessagesInvInit, MessagesStep, PTL DEF MessagesSpec

----------------------------------------------------------------------------
(* Notifications: types *)

\* An alimtalk, which a text message may follow, goes to a phone.
CallsFit ==
    /\ MessagesTypeOK
    /\ flight \subseteq made
    /\ \A c \in made : c.channel = "alimtalk" => event.phone \in Phone

LEMMA ViaTyped ==
  ASSUME NEW ch \in Channel, NEW to \in Line \union {NoPhone, Address}, NEW at \in Nat
  PROVE  Via(ch, to, at) \in SUBSET Call
BY DEF Via, Call

LEMMA LineOfPhone ==
  ASSUME NEW p \in Phone
  PROVE  normalizePhoneForSolapi(p) \in Line
<1>1. p.of \in Holder
  BY DEF Phone
<1> QED BY <1>1 DEF normalizePhoneForSolapi, Line

LEMMA PhoneOfEvent ==
  ASSUME NEW e \in Event, e.phone \notin {NoPhone, Address}
  PROVE  e.phone \in Phone
BY NotificationsAssumption DEF Event, Phone

LEMMA OwnersTyped ==
  ASSUME NEW e \in Event
  PROVE  sendKakaoAlimtalkToOwner(e) \in SUBSET Call
<1>1. e.owners \in Seq(Phone \union {NoPhone})
  BY NotificationsAssumption DEF Event
<1>2. ASSUME NEW i \in ownerRecipients(e.owners)
      PROVE  Via("kakao_owner", normalizePhoneForSolapi(e.owners[i]), i) \in SUBSET Call
  <2>1. i \in Nat /\ e.owners[i] \in Phone
    BY <1>1, <1>2 DEF ownerRecipients
  <2>2. normalizePhoneForSolapi(e.owners[i]) \in Line
    BY <2>1, LineOfPhone
  <2> QED BY <2>1, <2>2, ViaTyped DEF Channel
<1> QED BY <1>2 DEF sendKakaoAlimtalkToOwner

LEMMA ToPhoneTyped ==
  ASSUME NEW e, e.phone \in Phone
  PROVE  /\ sendSmsToCustomer(e) \in SUBSET Call
         /\ sendAlimtalkOrSms(e) \in SUBSET Call
<1>1. normalizePhoneForSolapi(e.phone) \in Line
  BY LineOfPhone
<1>2. /\ sendSmsToCustomer(e) \in SUBSET Call
      /\ sendAlimtalkToCustomer(e) \in SUBSET Call
  BY <1>1, ViaTyped DEF sendSmsToCustomer, sendAlimtalkToCustomer, Channel
<1> QED BY <1>2 DEF sendAlimtalkOrSms

\* The calls of an event whose customer, at check-out, left a contact.
LEMMA CallsTyped ==
  ASSUME NEW e \in Event, e.kind = "checkout" => e.phone # NoPhone
  PROVE  /\ CallsOf(e) \in SUBSET Call
         /\ \A c \in CallsOf(e) : c.channel = "alimtalk" => e.phone \in Phone
<1>1. /\ sendDiscordEmbed \in SUBSET Call /\ sendPushToStore \in SUBSET Call
      /\ sendReviewRequestEmailSafely \in SUBSET Call
      /\ sendKakaoAlimtalkToOwner(e) \in SUBSET Call
  BY ViaTyped, OwnersTyped
     DEF sendDiscordEmbed, sendPushToStore, sendReviewRequestEmailSafely, Channel
<1>2. /\ sendCustomerCreateNotification(e) \in SUBSET Call
      /\ sendCustomerCreateNotification(e) # {} => e.phone \in Phone
  <2>1. CASE e.phone \in {NoPhone, Address}
    BY <2>1, NotificationsAssumption DEF sendCustomerCreateNotification, isKoreanPhone
  <2>2. CASE e.phone \notin {NoPhone, Address}
    <3>1. e.phone \in Phone
      BY <2>2, PhoneOfEvent
    <3> QED BY <2>2, <3>1, ToPhoneTyped DEF sendCustomerCreateNotification
  <2> QED BY <2>1, <2>2
<1>3. CASE e.kind = "create"
  <2>1. CallsOf(e) = sendDiscordEmbed \union sendKakaoAlimtalkToOwner(e)
                        \union sendCustomerCreateNotification(e) \union sendPushToStore
    BY <1>3 DEF CallsOf, sendCreateNotification
  <2> QED BY <1>1, <1>2, <2>1, OwnerCalls
<1>4. CASE e.kind = "checkout"
  <2>1. CallsOf(e) = sendCheckoutNotification(e)
    BY <1>4 DEF CallsOf
  <2>2. CASE e.phone = Address
    <3>1. CallsOf(e) = sendReviewRequestEmailSafely
      BY <2>1, <2>2, NotificationsAssumption DEF sendCheckoutNotification, isKoreanPhone
    <3> QED BY <1>1, <3>1, EmailCalls
  <2>3. CASE e.phone # Address
    <3>1. e.phone \in Phone
      BY <1>4, <2>3, PhoneOfEvent
    <3>2. \/ sendCheckoutNotification(e) = sendAlimtalkOrSms(e)
          \/ sendCheckoutNotification(e) = sendSmsToCustomer(e)
          \/ sendCheckoutNotification(e) = sendReviewRequestEmailSafely
      BY <2>3 DEF sendCheckoutNotification
    <3> QED BY <1>1, <2>1, <3>1, <3>2, ToPhoneTyped
  <2> QED BY <2>2, <2>3
<1>5. CASE e.kind \in {"cancel", "review", "photos"}
  <2>1. CallsOf(e) \in SUBSET (sendDiscordEmbed \union sendKakaoAlimtalkToOwner(e)
                                  \union sendPushToStore)
    BY <1>5 DEF CallsOf, sendCancelNotification, sendReviewCreatedNotification,
                sendPhotosNotification
  <2> QED BY <1>1, <2>1, OwnerCalls
<1> QED BY <1>3, <1>4, <1>5, NothingIsNoEvent DEF Kind

LEMMA CallsFitStep ==
  ASSUME CallsFit, [MessagesNext]_messageVars
  PROVE  CallsFit'
<1>1. ASSUME NEW e \in Event, Notify(e)
      PROVE  CallsFit'
  <2>1. /\ event' = e /\ flight' = CallsOf(e) /\ made' = CallsOf(e)
        /\ UNCHANGED <<env, got, failed, stopped>>
        /\ e.kind = "checkout" => e.phone # NoPhone
    BY <1>1 DEF Notify
  <2>2. /\ CallsOf(e) \in SUBSET Call
        /\ \A c \in CallsOf(e) : c.channel = "alimtalk" => e.phone \in Phone
    BY <2>1, CallsTyped
  <2> QED BY <2>1, <2>2 DEF CallsFit, MessagesTypeOK
<1>2. ASSUME NEW c \in flight, Accepted(c)
      PROVE  CallsFit'
  BY <1>2 DEF Accepted, CallsFit, MessagesTypeOK
<1>3. ASSUME NEW c \in flight, Refused(c)
      PROVE  CallsFit'
  <2>1. /\ Fallback(c) \in SUBSET Call
        /\ \A d \in Fallback(c) : d.channel = "sms"
    BY <1>3, ToPhoneTyped, FallbackCalls DEF Fallback, CallsFit
  <2> QED BY <1>3, <2>1 DEF Refused, CallsFit, MessagesTypeOK
<1>4. CASE Stop \/ UNCHANGED messageVars
  BY <1>4 DEF Stop, messageVars, CallsFit, MessagesTypeOK
<1> QED BY <1>1, <1>2, <1>3, <1>4 DEF MessagesNext

\* The types of the notifications' state: every call there is has a channel, and
\* a line, an address or nobody it is made to.
THEOREM MessagesTypeCorrect == MessagesSpec => []MessagesTypeOK
<1>1. MessagesInit => CallsFit
  BY DEF MessagesInit, CallsFit, MessagesTypeOK
<1>2. CallsFit => MessagesTypeOK
  BY DEF CallsFit
<1> QED BY <1>1, <1>2, CallsFitStep, PTL DEF MessagesSpec

----------------------------------------------------------------------------
(* Notifications: theorems *)

\* The first of the places where a line is listed.
LEMMA FirstOf ==
  ASSUME NEW S \in SUBSET Nat, S # {}
  PROVE  \E m \in S : \A k \in S : ~(k < m)
<1>1. IsWellFoundedOn(OpToRel(<, Nat), Nat)
  BY NatLessThanWellFounded, Zenon
<1>2. PICK m \in S : \A k \in S : ~(<<k, m>> \in OpToRel(<, Nat))
  BY <1>1, WFMin, Zenon
<1>3. \A k \in S : ~(k < m)
  BY <1>2, Zenon DEF OpToRel
<1> QED BY <1>3

\* One of the places a line is listed at is called, and no other.
LEMMA RecipientsDistinct ==
  ASSUME NEW list \in OwnerLists
  PROVE  /\ DOMAIN list \subseteq Nat
         /\ \A i, k \in ownerRecipients(list) :
               normalizePhoneForSolapi(list[i]) = normalizePhoneForSolapi(list[k]) => i = k
         /\ \A i \in DOMAIN list : list[i] # NoPhone =>
               \E k \in ownerRecipients(list) :
                  normalizePhoneForSolapi(list[k]) = normalizePhoneForSolapi(list[i])
<1>1. /\ DOMAIN list \subseteq Nat
      /\ \A i \in DOMAIN list : 1..i - 1 \subseteq DOMAIN list
      /\ \A i, k \in DOMAIN list : i < k => i \in 1..k - 1
  <2>1. list \in Seq(Phone \union {NoPhone})
    BY NotificationsAssumption
  <2>2. Len(list) \in Nat /\ DOMAIN list = 1..Len(list)
    BY <2>1
  <2> QED BY <2>2
<1>2. ASSUME NEW i \in ownerRecipients(list), NEW k \in ownerRecipients(list),
             normalizePhoneForSolapi(list[i]) = normalizePhoneForSolapi(list[k])
      PROVE  i = k
  <2>1. i \in DOMAIN list /\ k \in DOMAIN list /\ list[i] # NoPhone /\ list[k] # NoPhone
    BY DEF ownerRecipients
  <2>2. ~(i < k) /\ ~(k < i)
    BY <1>1, <1>2, <2>1 DEF ownerRecipients
  <2> QED BY <1>1, <2>1, <2>2
<1>3. ASSUME NEW i \in DOMAIN list, list[i] # NoPhone
      PROVE  \E k \in ownerRecipients(list) :
                normalizePhoneForSolapi(list[k]) = normalizePhoneForSolapi(list[i])
  <2> DEFINE S == {k \in DOMAIN list :
                      /\ list[k] # NoPhone
                      /\ normalizePhoneForSolapi(list[k]) = normalizePhoneForSolapi(list[i])}
  <2>1. S \in SUBSET Nat /\ S # {}
    BY <1>1, <1>3
  <2>2. PICK m \in S : \A k \in S : ~(k < m)
    BY <2>1, FirstOf
  <2>3. \A k \in 1..m - 1 : list[k] # NoPhone =>
           normalizePhoneForSolapi(list[k]) # normalizePhoneForSolapi(list[m])
    BY <1>1, <2>2
  <2> QED BY <2>2, <2>3 DEF ownerRecipients
<1> QED BY <1>1, <1>2, <1>3

\* However many channels fail, nobody is told of one event twice, unless a
\* message that was delivered is answered with an error
\* (sendCustomerCreateNotification, sendCheckoutNotification and ownerRecipients
\* in notifications.service.ts).
THEOREM NobodyToldTwice == MessagesSpec => []ToldOnce
<1>1. MessagesInv => CustomerToldOnce
  <2> SUFFICES ASSUME MessagesInv, AtMostOne(Customers(got \ failed))
               PROVE  Cardinality(Customers(got \ failed)) <= 1
    BY DEF MessagesInv, CustomerCalls, CustomerToldOnce
  <2>1. CASE Customers(got \ failed) = {}
    BY <2>1, FS_EmptySet
  <2>2. CASE Customers(got \ failed) # {}
    <3>1. PICK c : Customers(got \ failed) = {c}
      BY <2>2 DEF AtMostOne
    <3>2. Cardinality({c}) = 1
      BY FS_Singleton
    <3> QED BY <3>1, <3>2
  <2> QED BY <2>1, <2>2
<1>2. MessagesInv => OwnersToldOnce
  <2> SUFFICES ASSUME MessagesInv, event # Nothing, event.kind \in {"create", "cancel"},
                      "kakao_owner" \in env
               PROVE  /\ \A c, d \in ToOwners(made) : c.to = d.to => c = d
                      /\ \A i \in DOMAIN event.owners : event.owners[i] # NoPhone =>
                            \E c \in ToOwners(made) :
                               c.to = normalizePhoneForSolapi(event.owners[i])
    BY DEF OwnersToldOnce, ToOwners
  <2> DEFINE Call0(i) == [channel |-> "kakao_owner",
                          to |-> normalizePhoneForSolapi(event.owners[i]), at |-> i]
  <2>1. event \in Event /\ event.owners \in OwnerLists
    BY NothingIsNoEvent DEF MessagesInv
  <2>2. ToOwners(made) = {Call0(i) : i \in ownerRecipients(event.owners)}
    <3>1. ToOwners(made) = sendKakaoAlimtalkToOwner(event)
      BY <2>1, OwnersOfCalls DEF MessagesInv
    <3> QED BY <3>1 DEF sendKakaoAlimtalkToOwner, Via
  <2>3. \A i : Call0(i).to = normalizePhoneForSolapi(event.owners[i])
    OBVIOUS
  <2> HIDE DEF Call0
  <2> QED BY <2>1, <2>2, <2>3, RecipientsDistinct
<1> QED BY <1>1, <1>2, MessagesSpecInv, PTL DEF ToldOnce

\* A customer with a phone and no e-mail address was told when all calls are
\* answered, or the text message was refused (sendCustomerCreateNotification and
\* sendCheckoutNotification in notifications.service.ts).
THEOREM LastResortIsTried == MessagesSpec => []LastResortTried
<1>1. MessagesInv => LastResortTried
  <2> SUFFICES ASSUME MessagesInv, Settled, "sms" \in env,
                      event.kind \in {"create", "checkout"},
                      event.phone \in Phone, ~event.email
               PROVE  \E c \in Customers(made) :
                         c \in got \/ (c \in failed /\ c.channel = "sms")
    BY DEF LastResortTried
  <2>1. PhoneToldOf(event) /\ flight = {} /\ ~stopped
    BY DEF Settled, PhoneToldOf, MessagesInv
  <2>2. PICK c \in made : Reaches(c)
    BY <2>1 DEF MessagesInv
  <2> QED BY <2>1, <2>2 DEF Reaches, Customers, ToCustomer
<1> QED BY <1>1, MessagesSpecInv, PTL

----------------------------------------------------------------------------
(* LuggagePhotos: the invariant *)

\* What a request is about to write, without the limit.
ListOf(r) == r.read \o r.new

\* A photo has the same place in both lists.
SamePlace(one, other) ==
    \A i \in DOMAIN one, j \in DOMAIN other : one[i] = other[j] => i = j

Numbered(list, n) ==
    list \in Seq(Nat) /\ \A i \in DOMAIN list : list[i] <= n

\* The row's list and those to be written hold photos that were uploaded, each
\* in the same place.
InPlace(n, shown, lists) ==
    /\ n \in Nat
    /\ Numbered(shown, n) /\ SamePlace(shown, shown)
    /\ \A v \in Uploader :
          /\ Numbered(lists[v], n) /\ SamePlace(shown, lists[v])
          /\ \A w \in Uploader : SamePlace(lists[v], lists[w])

Adding == [op : {"idle", "guest", "store"}, read : Seq(Nat), new : Seq(Nat)]

Lists == [w \in Uploader |-> ListOf(adding[w])]

PhotosInv ==
    /\ adding \in [Uploader -> Adding]
    /\ InPlace(uploaded, photos, Lists)

----------------------------------------------------------------------------
(* Lists *)

LEMMA Appended ==
  ASSUME NEW read \in Seq(Nat), NEW new \in Seq(Nat)
  PROVE  /\ read \o new \in Seq(Nat)
         /\ Len(read \o new) = Len(read) + Len(new)
         /\ \A i \in DOMAIN (read \o new) :
               (read \o new)[i] = IF i <= Len(read) THEN read[i] ELSE new[i - Len(read)]
         /\ DOMAIN (read \o new) \subseteq Nat
         /\ DOMAIN read \subseteq DOMAIN (read \o new)
         /\ \A i \in DOMAIN read : (read \o new)[i] = read[i]
OBVIOUS

LEMMA NoList == <<>> \in Seq(Nat) /\ DOMAIN <<>> = {} /\ ListOf(NotAdding) = <<>>
BY DEF ListOf, NotAdding

LEMMA Uploaded ==
  ASSUME uploaded \in Nat, NEW n \in Nat
  PROVE  /\ Uploads(n) \in Seq(Nat) /\ Len(Uploads(n)) = n
         /\ \A i \in 1..n : Uploads(n)[i] = uploaded + i
BY DEF Uploads

\* The lists stay in place when one is given up, and the row's list is left or
\* becomes the beginning of it.
LEMMA EndInPlace ==
  ASSUME NEW n, NEW shown, NEW lists \in [Uploader -> Seq(Nat)],
         InPlace(n, shown, lists), NEW w \in Uploader, NEW list \in Seq(Nat),
         NEW from \in {shown, lists[w]},
         DOMAIN list \subseteq DOMAIN from, \A i \in DOMAIN list : list[i] = from[i]
  PROVE  InPlace(n, list, [lists EXCEPT ![w] = <<>>])
<1> DEFINE next == [lists EXCEPT ![w] = <<>>]
<1>1. \A v \in Uploader : next[v] = IF v = w THEN <<>> ELSE lists[v]
  OBVIOUS
<1> HIDE DEF next
<1>2. /\ Numbered(from, n) /\ SamePlace(from, from)
      /\ \A v \in Uploader : SamePlace(from, lists[v])
  BY DEF InPlace
<1>3. /\ Numbered(list, n) /\ SamePlace(list, list)
      /\ \A v \in Uploader : SamePlace(list, lists[v])
  BY <1>2 DEF Numbered, SamePlace
<1>4. \A v \in Uploader :
         /\ Numbered(next[v], n) /\ SamePlace(list, next[v])
         /\ \A u \in Uploader : SamePlace(next[v], next[u])
  <2>1. \A one : SamePlace(one, <<>>) /\ SamePlace(<<>>, one)
    BY NoList DEF SamePlace
  <2>2. Numbered(<<>>, n)
    BY NoList DEF Numbered
  <2> QED BY <1>1, <1>3, <2>1, <2>2 DEF InPlace
<1> QED BY <1>3, <1>4 DEF InPlace, next

\* The next photos go where no other photo is.
LEMMA BeginInPlace ==
  ASSUME NEW n, NEW shown, NEW lists \in [Uploader -> Seq(Nat)],
         InPlace(n, shown, lists), NEW w \in Uploader, NEW k \in Nat,
         NEW new \in Seq(Nat), Len(new) = k, \A i \in 1..k : new[i] = n + i
  PROVE  InPlace(n + k, shown, [lists EXCEPT ![w] = shown \o new])
<1> DEFINE list == shown \o new
           next == [lists EXCEPT ![w] = list]
<1>1. \A v \in Uploader : next[v] = IF v = w THEN list ELSE lists[v]
  OBVIOUS
<1>2. /\ n \in Nat /\ n + k \in Nat /\ n <= n + k
      /\ shown \in Seq(Nat) /\ \A i \in DOMAIN shown : shown[i] \in Nat /\ shown[i] <= n
      /\ \A v \in Uploader : \A i \in DOMAIN lists[v] :
            lists[v][i] \in Nat /\ lists[v][i] <= n
  BY DEF InPlace, Numbered
<1>3. Len(shown) \in Nat
  BY <1>2
<1> DEFINE Old(i) == i \in DOMAIN shown /\ list[i] = shown[i]
           Added(i) == /\ i \in Nat /\ list[i] = n + (i - Len(shown))
                       /\ list[i] \in Nat /\ list[i] > n /\ list[i] <= n + k
<1>4. list \in Seq(Nat) /\ \A i \in DOMAIN list : Old(i) \/ Added(i)
  <2>1. /\ list \in Seq(Nat)
        /\ Len(list) = Len(shown) + k
        /\ \A i \in DOMAIN list :
              list[i] = IF i <= Len(shown) THEN shown[i] ELSE new[i - Len(shown)]
    BY <1>2, Appended
  <2> HIDE DEF list
  <2> SUFFICES ASSUME NEW i \in DOMAIN list
               PROVE  Old(i) \/ Added(i)
    BY <2>1
  <2>2. i \in 1..(Len(shown) + k)
    BY <2>1
  <2>3. CASE i <= Len(shown)
    <3>1. i \in DOMAIN shown
      BY <1>2, <1>3, <2>2, <2>3
    <3> QED BY <2>1, <2>3, <3>1
  <2>4. CASE ~(i <= Len(shown))
    <3>1. i - Len(shown) \in 1..k
      BY <1>3, <2>2, <2>4
    <3>2. list[i] = n + (i - Len(shown))
      BY <2>1, <2>4, <3>1
    <3> QED BY <1>2, <1>3, <2>2, <3>1, <3>2
  <2> QED BY <2>3, <2>4
<1> HIDE DEF list, next
<1>5. \A i : Old(i) => list[i] \in Nat /\ list[i] <= n
  BY <1>2
<1>6. \A i, x : Added(i) /\ x \in Nat /\ x <= n => x # list[i]
  BY <1>2
<1>7. \A i, j : Added(i) /\ Added(j) /\ list[i] = list[j] => i = j
  BY <1>2, <1>3
<1>8. \A i : Old(i) \/ Added(i) => list[i] <= n + k
  BY <1>2, <1>5
<1>9. \A i : Old(i) => i \in DOMAIN shown /\ list[i] = shown[i]
  OBVIOUS
<1> HIDE DEF Old, Added
<1>10. Numbered(list, n + k)
  BY <1>4, <1>8 DEF Numbered
<1>11. SamePlace(shown, list) /\ SamePlace(list, list)
  BY <1>2, <1>4, <1>5, <1>6, <1>7, <1>9 DEF InPlace, SamePlace
<1>12. \A v \in Uploader : SamePlace(list, lists[v]) /\ SamePlace(lists[v], list)
  <2> SUFFICES ASSUME NEW v \in Uploader, NEW i \in DOMAIN list, NEW j \in DOMAIN lists[v],
                      list[i] = lists[v][j]
               PROVE  i = j
    BY DEF SamePlace
  <2>1. lists[v][j] \in Nat /\ lists[v][j] <= n
    BY <1>2
  <2>2. Old(i)
    BY <1>4, <1>6, <2>1
  <2> QED BY <1>9, <2>2 DEF InPlace, SamePlace
<1>13. Numbered(shown, n + k) /\ \A v \in Uploader : Numbered(lists[v], n + k)
  <2> SUFFICES ASSUME NEW one \in Seq(Nat), \A i \in DOMAIN one : one[i] \in Nat /\ one[i] <= n
               PROVE  Numbered(one, n + k)
    BY <1>2
  <2> QED BY <1>2 DEF Numbered
<1>14. \A v \in Uploader :
          /\ Numbered(next[v], n + k) /\ SamePlace(shown, next[v])
          /\ \A u \in Uploader : SamePlace(next[v], next[u])
  BY <1>1, <1>10, <1>11, <1>12, <1>13 DEF InPlace
<1> QED BY <1>2, <1>13, <1>14 DEF InPlace, next, list

\* The beginning of a list keeps its places.
LEMMA PrefixInPlace ==
  ASSUME NEW all \in Seq(Nat), NEW n \in Nat, n <= Len(all)
  PROVE  /\ SubSeq(all, 1, n) \in Seq(Nat)
         /\ DOMAIN SubSeq(all, 1, n) \subseteq DOMAIN all
         /\ \A i \in DOMAIN SubSeq(all, 1, n) : SubSeq(all, 1, n)[i] = all[i]
         /\ \A i \in DOMAIN all : i <= n => i \in DOMAIN SubSeq(all, 1, n)
<1>1. \A i \in 1..n : all[i] \in Nat
  OBVIOUS
<1>2. PICK list : list = SubSeq(all, 1, n)
  OBVIOUS
<1>3. /\ list \in Seq(Nat)
      /\ Len(list) = IF 1 <= n THEN n - 1 + 1 ELSE 0
      /\ \A i \in 1..n - 1 + 1 : list[i] = all[1 + i - 1]
  BY <1>1, <1>2, SubSeqProperties
<1>4. Len(list) = n /\ \A i \in 1..n : list[i] = all[i]
  BY <1>3
<1>5. DOMAIN list = 1..n /\ DOMAIN all = 1..Len(all)
  BY <1>3, <1>4
<1> QED BY <1>2, <1>3, <1>4, <1>5

\* The first MAX_PHOTOS of the list keep their places.
LEMMA MergedIsPrefix ==
  ASSUME NEW read \in Seq(Nat), NEW new \in Seq(Nat)
  PROVE  /\ merged(read, new) \in Seq(Nat)
         /\ DOMAIN merged(read, new) \subseteq DOMAIN (read \o new)
         /\ \A i \in DOMAIN merged(read, new) : merged(read, new)[i] = (read \o new)[i]
         /\ \A i \in DOMAIN (read \o new) : i <= MAX_PHOTOS => i \in DOMAIN merged(read, new)
<1>1. PICK all \in Seq(Nat) : all = read \o new
  <2>1. read \o new \in Seq(Nat)
    OBVIOUS
  <2> QED BY <2>1
<1>2. PICK n : n = IF Len(all) < MAX_PHOTOS THEN Len(all) ELSE MAX_PHOTOS
  OBVIOUS
<1>3. n \in Nat /\ n <= Len(all) /\ (n = Len(all) \/ n = MAX_PHOTOS)
  BY <1>2, PhotosAssumption
<1>4. \A i \in DOMAIN all : i <= MAX_PHOTOS => i <= n
  BY <1>3, PhotosAssumption
<1>5. merged(read, new) = SubSeq(all, 1, n)
  BY <1>1, <1>2 DEF merged
<1>6. /\ SubSeq(all, 1, n) \in Seq(Nat)
      /\ DOMAIN SubSeq(all, 1, n) \subseteq DOMAIN all
      /\ \A i \in DOMAIN SubSeq(all, 1, n) : SubSeq(all, 1, n)[i] = all[i]
      /\ \A i \in DOMAIN all : i <= n => i \in DOMAIN SubSeq(all, 1, n)
  BY <1>3, PrefixInPlace
<1> QED BY <1>1, <1>4, <1>5, <1>6

----------------------------------------------------------------------------
(* Steps *)

LEMMA PhotosInvInit == PhotosInit => PhotosInv
<1> SUFFICES ASSUME PhotosInit PROVE PhotosInv
  OBVIOUS
<1>1. /\ uploaded \in Nat /\ photos \in Seq(Nat)
      /\ \A i \in DOMAIN photos : photos[i] = i /\ i <= uploaded
  BY DEF PhotosInit
<1>2. NotAdding \in Adding
  BY NoList DEF NotAdding, Adding
<1>3. \A w \in Uploader : Lists[w] = <<>>
  BY NoList DEF PhotosInit, Lists
<1>4. adding \in [Uploader -> Adding]
  BY <1>2 DEF PhotosInit
<1> QED BY <1>1, <1>3, <1>4, NoList DEF PhotosInv, InPlace, Numbered, SamePlace

LEMMA ListsTyped ==
  ASSUME PhotosInv
  PROVE  /\ Lists \in [Uploader -> Seq(Nat)]
         /\ \A w \in Uploader : Lists[w] = ListOf(adding[w])
         /\ \A w \in Uploader : adding[w].read \in Seq(Nat) /\ adding[w].new \in Seq(Nat)
<1>1. \A w \in Uploader : adding[w].read \in Seq(Nat) /\ adding[w].new \in Seq(Nat)
  BY DEF PhotosInv, Adding
<1> QED BY <1>1, Appended DEF Lists, ListOf

\* One uploader goes on: its list is another one.
LEMMA ListsNext ==
  ASSUME PhotosInv, NEW w \in Uploader, NEW r \in Adding,
         adding' = [adding EXCEPT ![w] = r]
  PROVE  /\ adding' \in [Uploader -> Adding]
         /\ Lists' = [Lists EXCEPT ![w] = ListOf(r)]
<1>1. adding' \in [Uploader -> Adding]
      /\ \A v \in Uploader : adding'[v] = IF v = w THEN r ELSE adding[v]
  BY DEF PhotosInv
<1>2. \A v \in Uploader : ListOf(adding'[v]) = IF v = w THEN ListOf(r) ELSE ListOf(adding[v])
  BY <1>1
<1> QED BY <1>1, <1>2 DEF Lists

LEMMA ReadPhotosKeeps ==
  ASSUME PhotosInv, NEW w \in Uploader, NEW op \in {"guest", "store"}, NEW n \in Nat,
         ReadPhotos(w, op, n)
  PROVE  PhotosInv'
<1> DEFINE r == [op |-> op, read |-> photos, new |-> Uploads(n)]
<1>1. uploaded' = uploaded + n /\ adding' = [adding EXCEPT ![w] = r] /\ photos' = photos
  BY DEF ReadPhotos
<1>2. uploaded \in Nat /\ photos \in Seq(Nat)
  BY DEF PhotosInv, InPlace, Numbered
<1>3. /\ Uploads(n) \in Seq(Nat) /\ Len(Uploads(n)) = n
      /\ \A i \in 1..n : Uploads(n)[i] = uploaded + i
  BY <1>2, Uploaded
<1>4. r \in Adding /\ ListOf(r) = photos \o Uploads(n)
  BY <1>2, <1>3 DEF Adding, ListOf
<1> HIDE DEF r
<1>5. adding' \in [Uploader -> Adding]
      /\ Lists' = [Lists EXCEPT ![w] = photos \o Uploads(n)]
  BY <1>1, <1>4, ListsNext
<1>6. InPlace(uploaded + n, photos, [Lists EXCEPT ![w] = photos \o Uploads(n)])
  BY <1>3, ListsTyped, BeginInPlace DEF PhotosInv
<1>7. InPlace(uploaded', photos', Lists')
  BY <1>1, <1>5, <1>6
<1> QED BY <1>5, <1>7 DEF PhotosInv

LEMMA EndAddingKeeps ==
  ASSUME PhotosInv, NEW w \in Uploader, EndAdding(w), uploaded' = uploaded,
         photos' \in Seq(Nat), NEW from \in {photos, ListOf(adding[w])},
         DOMAIN photos' \subseteq DOMAIN from,
         \A i \in DOMAIN photos' : photos'[i] = from[i]
  PROVE  PhotosInv'
<1>1. NotAdding \in Adding
  BY NoList DEF NotAdding, Adding
<1>2. adding' \in [Uploader -> Adding] /\ Lists' = [Lists EXCEPT ![w] = <<>>]
  BY <1>1, NoList, ListsNext DEF EndAdding
<1>3. from \in {photos, Lists[w]}
  BY ListsTyped
<1>4. InPlace(uploaded, photos', [Lists EXCEPT ![w] = <<>>])
  <2>1. PICK list \in Seq(Nat) : list = photos'
    OBVIOUS
  <2>2. InPlace(uploaded, list, [Lists EXCEPT ![w] = <<>>])
    BY <1>3, <2>1, ListsTyped, EndInPlace DEF PhotosInv
  <2> QED BY <2>1, <2>2
<1>5. InPlace(uploaded', photos', Lists')
  BY <1>2, <1>4
<1> QED BY <1>2, <1>5 DEF PhotosInv

\* What the two saves write.
LEMMA SavedList ==
  ASSUME PhotosInv, NEW w \in Uploader, saveLuggagePhotos(w) \/ mergePhotoUrls(w)
  PROVE  /\ photos' \in Seq(Nat)
         /\ DOMAIN photos' \subseteq DOMAIN ListOf(adding[w])
         /\ \A i \in DOMAIN photos' : photos'[i] = ListOf(adding[w])[i]
         /\ \A i \in DOMAIN ListOf(adding[w]) :
               i \notin DOMAIN photos' => adding[w].op = "guest" /\ i > MAX_PHOTOS
         /\ adding[w].op # "idle" /\ EndAdding(w) /\ uploaded' = uploaded
<1>1. adding[w].read \in Seq(Nat) /\ adding[w].new \in Seq(Nat)
  BY ListsTyped
<1>2. CASE mergePhotoUrls(w)
  BY <1>1, <1>2, Appended DEF mergePhotoUrls, ListOf
<1>3. CASE saveLuggagePhotos(w)
  <2>1. /\ photos' = merged(adding[w].read, adding[w].new)
        /\ adding[w].op = "guest" /\ EndAdding(w) /\ uploaded' = uploaded
    BY <1>3 DEF saveLuggagePhotos
  <2>2. DOMAIN ListOf(adding[w]) \subseteq Nat
    BY <1>1, Appended DEF ListOf
  <2>3. /\ photos' \in Seq(Nat)
        /\ DOMAIN photos' \subseteq DOMAIN ListOf(adding[w])
        /\ \A i \in DOMAIN photos' : photos'[i] = ListOf(adding[w])[i]
        /\ \A i \in DOMAIN ListOf(adding[w]) : i <= MAX_PHOTOS => i \in DOMAIN photos'
    BY <1>1, <2>1, MergedIsPrefix DEF ListOf
  <2>4. \A i \in DOMAIN ListOf(adding[w]) : i \notin DOMAIN photos' => i > MAX_PHOTOS
    BY <2>2, <2>3, PhotosAssumption
  <2> QED BY <2>1, <2>3, <2>4
<1> QED BY <1>2, <1>3

LEMMA PhotosStep ==
  ASSUME PhotosInv, [PhotosNext]_photoVars
  PROVE  PhotosInv'
<1>1. ASSUME NEW w \in Uploader, BeginSavePhotos(w) \/ BeginCheckin(w)
      PROVE  PhotosInv'
  BY <1>1, ReadPhotosKeeps DEF BeginSavePhotos, BeginCheckin
<1>2. ASSUME NEW w \in Uploader, saveLuggagePhotos(w) \/ mergePhotoUrls(w)
      PROVE  PhotosInv'
  BY <1>2, SavedList, EndAddingKeeps
<1>3. CASE DayPasses \/ UNCHANGED photoVars
  <2>1. UNCHANGED <<photos, uploaded, adding>>
    BY <1>3 DEF DayPasses, photoVars
  <2>2. Lists' = Lists
    BY <2>1 DEF Lists
  <2>3. InPlace(uploaded', photos', Lists')
    BY <2>1, <2>2 DEF PhotosInv
  <2> QED BY <2>1, <2>3 DEF PhotosInv
<1>4. ASSUME NEW w \in Uploader, AbortSaving(w)
      PROVE  PhotosInv'
  BY <1>4, EndAddingKeeps DEF AbortSaving, PhotosInv, InPlace, Numbered
<1> QED BY <1>1, <1>2, <1>3, <1>4 DEF PhotosNext

LEMMA PhotosSpecInv == PhotosSpec => []PhotosInv
BY PhotosInvInit, PhotosStep, PTL DEF PhotosSpec

----------------------------------------------------------------------------
(* LuggagePhotos: types *)

\* A list of photos that were uploaded, no longer than they are many.
Within(list, n) == list \in Seq(1..n) /\ Len(list) <= n

\* What a request writes is no longer than the photos uploaded.
FitsIn(r, n) ==
    /\ r.op \in {"idle", "guest", "store"}
    /\ Within(r.read, n) /\ Within(r.new, n)
    /\ Len(r.read) + Len(r.new) <= n

PhotosFit ==
    /\ uploaded \in 0..MaxUploads /\ young \in BOOLEAN
    /\ Within(photos, uploaded)
    /\ adding \in [Uploader -> Adding]
    /\ \A w \in Uploader : FitsIn(adding[w], uploaded)

LEMMA WithinGrows ==
  ASSUME NEW n \in Nat, NEW m \in Nat, n <= m, NEW list, Within(list, n)
  PROVE  Within(list, m)
<1>1. \A i \in 1..Len(list) : list[i] \in 1..m
  BY DEF Within
<1> QED BY <1>1 DEF Within

LEMMA WithinIsNat ==
  ASSUME NEW n \in Nat, NEW list, Within(list, n)
  PROVE  list \in Seq(Nat)
<1>1. \A i \in 1..Len(list) : list[i] \in Nat
  BY DEF Within
<1> QED BY <1>1 DEF Within

LEMMA FitsGrow ==
  ASSUME NEW n \in Nat, NEW m \in Nat, n <= m, NEW r, FitsIn(r, n)
  PROVE  FitsIn(r, m)
<1>1. Within(r.read, m) /\ Within(r.new, m)
  BY WithinGrows DEF FitsIn
<1>2. \A a, b \in Nat : a + b <= n => a + b <= m
  OBVIOUS
<1>3. Len(r.read) \in Nat /\ Len(r.new) \in Nat
  BY LenProperties DEF FitsIn, Within
<1>4. Len(r.read) + Len(r.new) <= m
  BY <1>2, <1>3 DEF FitsIn
<1> QED BY <1>1, <1>4 DEF FitsIn

LEMMA NothingFits == ASSUME NEW n \in Nat PROVE FitsIn(NotAdding, n) /\ NotAdding \in Adding
<1>1. /\ NotAdding.op = "idle" /\ NotAdding.read = <<>> /\ NotAdding.new = <<>>
      /\ NotAdding \in Adding
  BY NoList DEF NotAdding, Adding
<1>2. Within(<<>>, n) /\ Len(<<>>) = 0
  BY DEF Within
<1> QED BY <1>1, <1>2 DEF FitsIn

LEMMA WithinIsPhotoList ==
  ASSUME NEW n \in 0..MaxUploads, NEW list, Within(list, n)
  PROVE  list \in PhotoLists
<1>1. Within(list, MaxUploads) /\ Len(list) \in 0..MaxUploads
  BY WithinGrows, PhotosAssumption DEF Within
<1>2. list \in [1..Len(list) -> 1..MaxUploads]
  BY <1>1, LenProperties DEF Within
<1> QED BY <1>1, <1>2 DEF PhotoLists, BoundedSeq, SeqOf, Photo

LEMMA WithinPart ==
  ASSUME NEW n \in Nat, NEW read, NEW new, Within(read, n), Within(new, n),
         Len(read) + Len(new) <= n
  PROVE  Within(read \o new, n) /\ Within(merged(read, new), n)
<1>1. PICK all : all = read \o new
  OBVIOUS
<1>2. Within(all, n)
  BY <1>1 DEF Within
<1>3. PICK k : k = IF Len(all) < MAX_PHOTOS THEN Len(all) ELSE MAX_PHOTOS
  OBVIOUS
<1>4. k \in Nat /\ k <= Len(all) /\ merged(read, new) = SubSeq(all, 1, k)
  BY <1>1, <1>2, <1>3, PhotosAssumption DEF merged, Within
<1>5. Within(SubSeq(all, 1, k), n)
  BY <1>2, <1>4 DEF Within
<1> QED BY <1>1, <1>2, <1>4, <1>5

LEMMA PhotosFitInit == PhotosInit => PhotosFit
<1> SUFFICES ASSUME PhotosInit PROVE PhotosFit
  OBVIOUS
<1>1. uploaded \in 0..MaxUploads /\ uploaded \in Nat
  BY PhotosAssumption DEF PhotosInit
<1>2. Within(photos, uploaded)
  BY <1>1 DEF PhotosInit, Within
<1>3. adding \in [Uploader -> Adding] /\ \A w \in Uploader : FitsIn(adding[w], uploaded)
  BY <1>1, NothingFits DEF PhotosInit
<1> QED BY <1>1, <1>2, <1>3 DEF PhotosInit, PhotosFit

\* One uploader goes on.
LEMMA OtherUploader ==
  ASSUME PhotosFit, NEW w \in Uploader, NEW r \in Adding,
         adding' = [adding EXCEPT ![w] = r],
         young' \in BOOLEAN, uploaded' \in 0..MaxUploads, uploaded <= uploaded',
         FitsIn(r, uploaded'), Within(photos', uploaded')
  PROVE  PhotosFit'
<1>1. uploaded \in Nat /\ uploaded' \in Nat
  BY PhotosAssumption DEF PhotosFit
<1>2. \A v \in Uploader : FitsIn(adding[v], uploaded')
  BY <1>1, FitsGrow DEF PhotosFit
<1>3. adding' \in [Uploader -> Adding]
      /\ \A v \in Uploader : adding'[v] = IF v = w THEN r ELSE adding[v]
  BY DEF PhotosFit
<1>4. \A v \in Uploader : FitsIn(adding'[v], uploaded')
  BY <1>2, <1>3
<1>5. (\A v \in Uploader : FitsIn(adding[v], uploaded))' /\ Within(photos, uploaded)'
  BY <1>4 DEF FitsIn, Within
<1> QED BY <1>3, <1>5 DEF PhotosFit

LEMMA PhotosFitStep ==
  ASSUME PhotosFit, [PhotosNext]_photoVars
  PROVE  PhotosFit'
<1>1. ASSUME NEW w \in Uploader, NEW op \in {"guest", "store"}, NEW n \in Nat,
             ReadPhotos(w, op, n)
      PROVE  PhotosFit'
  <2>1. /\ uploaded' = uploaded + n /\ uploaded' <= MaxUploads
        /\ uploaded \in Nat /\ uploaded' \in Nat /\ uploaded <= uploaded'
    BY <1>1, PhotosAssumption DEF ReadPhotos, PhotosFit
  <2>2. Within(photos, uploaded') /\ Len(photos) <= uploaded /\ Len(photos) \in Nat
    BY <2>1, WithinGrows DEF PhotosFit, Within
  <2>3. Within(Uploads(n), uploaded') /\ Len(Uploads(n)) = n
    BY <2>1 DEF Uploads, Within
  <2>4. PICK r : r = [op |-> op, read |-> photos, new |-> Uploads(n)]
    OBVIOUS
  <2>5. /\ photos' = photos /\ young' = young
        /\ adding' = [adding EXCEPT ![w] = r]
    BY <1>1, <2>4 DEF ReadPhotos
  <2>6. r.op = op /\ r.read = photos /\ r.new = Uploads(n)
    BY <2>4
  <2>7. Len(photos) + n <= uploaded'
    BY <2>1, <2>2
  <2>8. FitsIn(r, uploaded')
    BY <2>2, <2>3, <2>6, <2>7 DEF FitsIn
  <2>9. r \in Adding
    <3>1. photos \in Seq(Nat) /\ Uploads(n) \in Seq(Nat)
      BY <2>1, <2>2, Uploaded, WithinIsNat
    <3> QED BY <2>4, <3>1 DEF Adding
  <2>10. young' \in BOOLEAN /\ uploaded' \in 0..MaxUploads
    BY <2>1, <2>5, PhotosAssumption DEF PhotosFit
  <2> QED BY <2>1, <2>2, <2>5, <2>8, <2>9, <2>10, OtherUploader
<1>2. ASSUME NEW w \in Uploader, EndAdding(w), UNCHANGED <<uploaded, young>>,
             Within(photos', uploaded)
      PROVE  PhotosFit'
  <2>1. /\ uploaded' = uploaded /\ young' = young
        /\ uploaded \in Nat /\ uploaded \in 0..MaxUploads /\ young \in BOOLEAN
    BY <1>2, PhotosAssumption DEF PhotosFit
  <2>2. adding' = [adding EXCEPT ![w] = NotAdding]
    BY <1>2 DEF EndAdding
  <2>3. /\ NotAdding \in Adding /\ FitsIn(NotAdding, uploaded')
        /\ Within(photos', uploaded') /\ uploaded <= uploaded'
    BY <1>2, <2>1, NothingFits
  <2>4. young' \in BOOLEAN /\ uploaded' \in 0..MaxUploads
    BY <2>1
  <2> QED BY <2>2, <2>3, <2>4, OtherUploader
<1>3. ASSUME NEW w \in Uploader, saveLuggagePhotos(w) \/ mergePhotoUrls(w)
      PROVE  PhotosFit'
  <2>1. EndAdding(w) /\ UNCHANGED <<uploaded, young>>
    BY <1>3 DEF saveLuggagePhotos, mergePhotoUrls
  <2>2. Within(photos', uploaded)
    <3>1. PICK read, new : read = adding[w].read /\ new = adding[w].new
      OBVIOUS
    <3>2. uploaded \in Nat /\ FitsIn(adding[w], uploaded)
      BY PhotosAssumption DEF PhotosFit
    <3>3. photos' \in {read \o new, merged(read, new)}
      BY <1>3, <3>1 DEF saveLuggagePhotos, mergePhotoUrls
    <3> QED BY <3>1, <3>2, <3>3, WithinPart DEF FitsIn
  <2> QED BY <1>2, <2>1, <2>2
<1>4. ASSUME NEW w \in Uploader, BeginSavePhotos(w) \/ BeginCheckin(w)
      PROVE  PhotosFit'
  BY <1>1, <1>4 DEF BeginSavePhotos, BeginCheckin
<1>5. ASSUME NEW w \in Uploader, AbortSaving(w)
      PROVE  PhotosFit'
  BY <1>2, <1>5 DEF AbortSaving, PhotosFit
<1>6. CASE DayPasses \/ UNCHANGED photoVars
  BY <1>6 DEF DayPasses, photoVars, PhotosFit, FitsIn, Within
<1> QED BY <1>3, <1>4, <1>5, <1>6 DEF PhotosNext

\* The types of the photos' state: the row's list and every list being written
\* hold photos that were uploaded, and no more of them than were.
THEOREM PhotosTypeCorrect == PhotosSpec => []PhotosTypeOK
<1>1. PhotosFit => PhotosTypeOK
  BY WithinIsPhotoList DEF PhotosFit, FitsIn, PhotosTypeOK
<1> QED BY <1>1, PhotosFitInit, PhotosFitStep, PTL DEF PhotosSpec

----------------------------------------------------------------------------
(* LuggagePhotos: theorem *)

\* However guests and the store add photos at once, a photo disappears only by a
\* save that had read the list before, or beyond the limit (saveLuggagePhotos in
\* guest-reservation.service.ts and storeCheckin in
\* reservation-command.service.ts).
THEOREM PhotosStayUnlessOverlapped == PhotosSpec => PhotosLostByOverlap
<1>1. PhotosInv /\ [PhotosNext]_photoVars => [LostByOverlapOrLimit]_photoVars
  <2> SUFFICES ASSUME PhotosInv, [PhotosNext]_photoVars,
                      NEW p \in Shown(photos) \ Shown(photos')
               PROVE  \E w \in Uploader :
                         /\ adding[w].op # "idle" /\ adding'[w].op = "idle"
                         /\ \/ p \notin Shown(adding[w].read)
                            \/ /\ adding[w].op = "guest"
                               /\ \E i \in DOMAIN photos : photos[i] = p /\ i > MAX_PHOTOS
    BY DEF LostByOverlapOrLimit
  <2>1. photos' # photos
    OBVIOUS
  <2>2. PICK w \in Uploader : saveLuggagePhotos(w) \/ mergePhotoUrls(w)
    BY <2>1 DEF PhotosNext, photoVars, BeginSavePhotos, BeginCheckin, ReadPhotos,
                AbortSaving, DayPasses
  <2>3. adding[w].op # "idle" /\ adding'[w].op = "idle"
    BY <2>2, SavedList DEF PhotosInv, EndAdding, NotAdding
  <2>4. ASSUME p \in Shown(adding[w].read)
        PROVE  adding[w].op = "guest"
               /\ \E i \in DOMAIN photos : photos[i] = p /\ i > MAX_PHOTOS
    <3>1. PICK i \in DOMAIN photos : photos[i] = p
      BY DEF Shown
    <3>2. PICK j \in DOMAIN adding[w].read : adding[w].read[j] = p
      BY <2>4 DEF Shown
    <3>3. j \in DOMAIN ListOf(adding[w]) /\ ListOf(adding[w])[j] = p
      BY <3>2, ListsTyped, Appended DEF ListOf
    <3>4. i = j
      BY <3>1, <3>3, ListsTyped DEF PhotosInv, InPlace, SamePlace
    <3>5. j \notin DOMAIN photos'
      BY <2>2, <3>3, SavedList DEF Shown
    <3> QED BY <2>2, <3>1, <3>3, <3>4, <3>5, SavedList
  <2> QED BY <2>3, <2>4
<1> QED BY <1>1, PhotosSpecInv, PTL DEF PhotosSpec, PhotosLostByOverlap

----------------------------------------------------------------------------
(* StoreHours: the invariant *)

\* What a request sends that sends back what was read of the row.
Mirror(row) ==
    [toResponse(row) EXCEPT !.holiday = IF @ = Null THEN Keep ELSE @]

\* A row that a save has written says of every day whether the store operates.
Resolved(row) ==
    /\ \A d \in Day : row.days[d].operating \in BOOLEAN
    /\ row.holiday # Null => row.holiday.operating \in BOOLEAN

HoursRow == {row \in Hours : Resolved(row)} \union {NoHours}

Saving == [op : {"save"}, dto : {dto \in OperationDto : Acceptable(dto)},
           seen : HoursRow, mirror : BOOLEAN]

HoursInv ==
    /\ hours \in HoursRow
    /\ saving \in [Editor -> Saving \union {NotEditing}]
    /\ \A w \in Editor : saving[w] # NotEditing /\ saving[w].mirror =>
          saving[w].seen # NoHours /\ saving[w].dto = Mirror(saving[w].seen)

\* An idle editor is told from one that saves.
LEMMA SavingIsNotIdle == NotEditing \notin Saving
BY DEF Saving, NotEditing

----------------------------------------------------------------------------
(* Saving and reading *)

LEMMA ResolvedDay ==
  ASSUME NEW dto \in DayDto, NEW old \in DayHours \union {NoDay}, NEW d
  PROVE  resolveDay(dto, old, d) \in DayHours
         /\ resolveDay(dto, old, d).operating \in BOOLEAN
<1>1. OrElse(dto.open, old.open) \in Moment /\ OrElse(dto.close, old.close) \in Moment
  BY HoursAssumption DEF DayDto, DayHours, NoDay, Moment, OrElse
<1>2. old.operating \in BOOLEAN \union {Null}
  BY DEF DayHours, NoDay
<1>3. dto.operating \in BOOLEAN \union {Keep}
  BY DEF DayDto
<1> DEFINE o == OrElse(dto.operating, IF old.operating # Null THEN old.operating
                                      ELSE d \in OpenByDefault)
<1>4. o \in BOOLEAN
  <2>1. (d \in OpenByDefault) \in BOOLEAN
    OBVIOUS
  <2>2. (IF old.operating # Null THEN old.operating ELSE d \in OpenByDefault) \in BOOLEAN
    BY <1>2, <2>1
  <2> QED BY <1>3, <2>2 DEF OrElse
<1>5. resolveDay(dto, old, d) = [open |-> OrElse(dto.open, old.open),
                                 close |-> OrElse(dto.close, old.close), operating |-> o]
  BY DEF resolveDay
<1> HIDE DEF o
<1> QED BY <1>1, <1>4, <1>5 DEF DayHours

\* A day the request leaves out stays as it is.
LEMMA KeptDay ==
  ASSUME NEW dto \in DayDto, NEW old \in DayHours, NEW d,
         dto.open = Keep, dto.close = Keep, dto.operating = Keep,
         old.operating # Null
  PROVE  resolveDay(dto, old, d) = old
BY DEF resolveDay, OrElse, DayDto, DayHours

\* A day that is sent back as it was read stays as it is.
LEMMA MirroredDay ==
  ASSUME NEW old \in DayHours, NEW d, old.operating \in BOOLEAN
  PROVE  resolveDay(toDayHours(old), old, d) = old
<1>1. (old.operating = TRUE) = old.operating
  OBVIOUS
<1>2. toDayHours(old) = old
  BY <1>1 DEF toDayHours, DayHours
<1>3. old.operating # Null
  BY HoursAssumption
<1>4. /\ OrElse(old.open, old.open) = old.open /\ OrElse(old.close, old.close) = old.close
      /\ \A v : OrElse(old.operating, v) \in {old.operating, v}
  BY DEF OrElse
<1>5. OrElse(old.operating, IF old.operating # Null THEN old.operating
                            ELSE d \in OpenByDefault) = old.operating
  BY <1>3, <1>4
<1> HIDE DEF OrElse
<1> QED BY <1>2, <1>4, <1>5 DEF resolveDay, DayHours

LEMMA BreaksTyped ==
  ASSUME NEW breaks \in [Day -> BreakDto \union {Null}]
  PROVE  buildBreakTimes(breaks) \in BreakTimes
<1>1. \A d \in WithBreak(breaks) : breaks[d] \in Break
  BY DEF WithBreak, BreakDto, Break, Moment
<1>2. WithBreak(breaks) \in SUBSET Day
  BY DEF WithBreak
<1>3. CASE WithBreak(breaks) # {}
  <2> DEFINE D == WithBreak(breaks)
  <2>1. buildBreakTimes(breaks) \in [D -> Break]
    BY <1>1, <1>3 DEF buildBreakTimes
  <2> HIDE DEF D
  <2> QED BY <1>2, <1>3, <2>1 DEF BreakTimes, D
<1>4. CASE WithBreak(breaks) = {}
  BY <1>4 DEF buildBreakTimes, BreakTimes
<1> QED BY <1>3, <1>4

LEMMA MirroredBreaks ==
  ASSUME NEW breaks \in BreakTimes
  PROVE  /\ toBreakTimes(breaks) \in [Day -> BreakDto \union {Null}]
         /\ buildBreakTimes(toBreakTimes(breaks)) = breaks
<1>1. CASE breaks = Null
  <2>1. \A d \in Day : toBreakTimes(breaks)[d] = Null
    BY <1>1 DEF toBreakTimes
  <2>2. WithBreak(toBreakTimes(breaks)) = {}
    BY <2>1 DEF WithBreak
  <2>3. toBreakTimes(breaks) \in [Day -> BreakDto \union {Null}]
    BY <1>1 DEF toBreakTimes
  <2> QED BY <1>1, <2>2, <2>3 DEF buildBreakTimes
<1>2. CASE breaks # Null
  <2>1. PICK D \in SUBSET Day : D # {} /\ breaks \in [D -> Break]
    BY <1>2 DEF BreakTimes
  <2>2. \A d \in Day :
           toBreakTimes(breaks)[d] = IF d \in D THEN breaks[d] ELSE Null
    BY <1>2, <2>1 DEF toBreakTimes
  <2>3. \A d \in D : breaks[d] \in BreakDto /\ breaks[d] # Null
                     /\ breaks[d].start # Null /\ breaks[d].end # Null
    BY <2>1, HoursAssumption DEF Break, BreakDto, Moment
  <2>4. WithBreak(toBreakTimes(breaks)) = D
    BY <2>2, <2>3 DEF WithBreak
  <2>5. buildBreakTimes(toBreakTimes(breaks)) = [d \in D |-> breaks[d]]
    BY <2>1, <2>2, <2>4 DEF buildBreakTimes
  <2>6. [d \in D |-> breaks[d]] = breaks
    BY <2>1
  <2>7. toBreakTimes(breaks) \in [Day -> BreakDto \union {Null}]
    BY <2>2, <2>3 DEF toBreakTimes
  <2> QED BY <2>5, <2>6, <2>7
<1> QED BY <1>1, <1>2

LEMMA HolidayTyped ==
  ASSUME NEW day \in DayDto
  PROVE  buildPublicHoliday(day) \in DayHours
         /\ buildPublicHoliday(day).operating \in BOOLEAN
<1>1. OrElse(day.open, Null) \in Moment /\ OrElse(day.close, Null) \in Moment
  BY DEF DayDto, Moment, OrElse
<1> DEFINE o == OrElse(day.operating, TRUE)
<1>2. o \in BOOLEAN
  BY DEF DayDto, OrElse
<1>3. buildPublicHoliday(day) = [open |-> OrElse(day.open, Null),
                                 close |-> OrElse(day.close, Null), operating |-> o]
  BY DEF buildPublicHoliday
<1> HIDE DEF o
<1> QED BY <1>1, <1>2, <1>3 DEF DayHours

LEMMA MirroredHoliday ==
  ASSUME NEW day \in DayHours, day.operating \in BOOLEAN, day # Null
  PROVE  /\ toPublicHoliday(day) = day
         /\ buildPublicHoliday(day) = day
<1>1. (day.operating # FALSE) = day.operating
  OBVIOUS
<1>2. toPublicHoliday(day) = day
  BY <1>1 DEF toPublicHoliday, DayHours
<1>3. /\ OrElse(day.open, Null) = day.open /\ OrElse(day.close, Null) = day.close
      /\ OrElse(day.operating, TRUE) = day.operating
  BY HoursAssumption DEF DayHours, Moment, OrElse
<1> QED BY <1>2, <1>3 DEF buildPublicHoliday, DayHours

\* The fields of what a save writes.
LEMMA UpsertedFields ==
  ASSUME NEW dto, NEW seen, seen # NoHours
  PROVE  upsertedHours(dto, seen) =
            [days |-> [d \in Day |-> resolveDay(dto.days[d], seen.days[d], d)],
             breaks |-> IF dto.breaks = Keep THEN seen.breaks
                        ELSE buildBreakTimes(dto.breaks),
             holiday |-> IF dto.holiday = Keep THEN seen.holiday
                         ELSE buildPublicHoliday(dto.holiday),
             is24 |-> OrElse(dto.is24, seen.is24)]
BY DEF upsertedHours

LEMMA UpsertedRow ==
  ASSUME NEW dto \in OperationDto, NEW seen \in HoursRow, Acceptable(dto)
  PROVE  upsertedHours(dto, seen) \in HoursRow
<1> DEFINE old == IF seen # NoHours THEN seen
                  ELSE [days |-> [d \in Day |-> NoDay], breaks |-> Null,
                        holiday |-> Null, is24 |-> FALSE]
           days == [d \in Day |-> resolveDay(dto.days[d], old.days[d], d)]
           breaks == IF dto.breaks = Keep THEN old.breaks ELSE buildBreakTimes(dto.breaks)
           holiday == IF dto.holiday = Keep THEN old.holiday
                      ELSE buildPublicHoliday(dto.holiday)
           is24 == OrElse(dto.is24, old.is24)
<1>1. upsertedHours(dto, seen) =
         [days |-> days, breaks |-> breaks, holiday |-> holiday, is24 |-> is24]
  BY DEF upsertedHours
<1>2. /\ \A d \in Day : old.days[d] \in DayHours \union {NoDay}
      /\ old.breaks \in BreakTimes
      /\ old.holiday \in DayHours \union {Null}
      /\ old.holiday # Null => old.holiday.operating \in BOOLEAN
  BY DEF HoursRow, Hours, Resolved, BreakTimes
<1>3. old.is24 \in BOOLEAN
  BY DEF HoursRow, Hours
<1> HIDE DEF old
<1>4. /\ dto.days \in [Day -> DayDto]
      /\ dto.breaks # Keep => dto.breaks \in [Day -> BreakDto \union {Null}]
      /\ dto.holiday # Keep => dto.holiday \in DayDto
  BY DEF OperationDto, Acceptable
<1>5. days \in [Day -> DayHours] /\ \A d \in Day : days[d].operating \in BOOLEAN
  BY <1>2, <1>4, ResolvedDay
<1>6. breaks \in BreakTimes
  BY <1>2, <1>4, BreaksTyped
<1>7. holiday \in DayHours \union {Null} /\ (holiday # Null => holiday.operating \in BOOLEAN)
  BY <1>2, <1>4, HolidayTyped
<1>8. dto.is24 \in BOOLEAN \union {Keep}
  BY DEF OperationDto
<1>9. is24 \in BOOLEAN
  BY <1>3, <1>8 DEF OrElse
<1> HIDE DEF days, breaks, holiday, is24
<1> QED BY <1>1, <1>5, <1>6, <1>7, <1>9 DEF HoursRow, Hours, Resolved

LEMMA MirrorTyped ==
  ASSUME NEW row \in HoursRow, row # NoHours
  PROVE  /\ Mirror(row) \in OperationDto
         /\ Mirror(row).days = [d \in Day |-> toDayHours(row.days[d])]
         /\ Mirror(row).breaks = toBreakTimes(row.breaks)
         /\ Mirror(row).holiday = IF toPublicHoliday(row.holiday) = Null THEN Keep
                                  ELSE toPublicHoliday(row.holiday)
         /\ Mirror(row).is24 = row.is24
<1>1. row \in Hours /\ Resolved(row)
  BY DEF HoursRow
<1> DEFINE days == [d \in Day |-> toDayHours(row.days[d])]
           breaks == toBreakTimes(row.breaks)
           holiday == IF toPublicHoliday(row.holiday) = Null THEN Keep
                      ELSE toPublicHoliday(row.holiday)
<1>2. Mirror(row) = [days |-> days, breaks |-> breaks, holiday |-> holiday,
                     is24 |-> row.is24]
  <2>1. PICK r : r = toResponse(row)
    OBVIOUS
  <2>2. /\ r = [days |-> days, breaks |-> breaks,
                holiday |-> toPublicHoliday(row.holiday), is24 |-> row.is24]
    BY <2>1 DEF toResponse
  <2>3. Mirror(row) = [r EXCEPT !.holiday = IF r.holiday = Null THEN Keep ELSE r.holiday]
    BY <2>1 DEF Mirror
  <2> HIDE DEF days, breaks
  <2> QED BY <2>2, <2>3
<1>3. days \in [Day -> DayDto]
  <2>1. \A d \in Day : row.days[d] \in DayHours /\ row.days[d].operating \in BOOLEAN
    BY <1>1 DEF Hours, Resolved
  <2>2. ASSUME NEW day \in DayHours, day.operating \in BOOLEAN
        PROVE  toDayHours(day) \in DayDto
    <3>1. (day.operating = TRUE) = day.operating
      BY <2>2
    <3>2. toDayHours(day) = day
      BY <3>1 DEF toDayHours, DayHours
    <3> QED BY <2>2, <3>2 DEF DayDto, DayHours
  <2> QED BY <2>1, <2>2
<1>4. breaks \in [Day -> BreakDto \union {Null}]
  BY <1>1, MirroredBreaks DEF Hours
<1>5. holiday \in DayDto \union {Null, Keep}
  <2>1. CASE row.holiday = Null
    BY <2>1 DEF toPublicHoliday
  <2>2. CASE row.holiday # Null
    <3>1. row.holiday \in DayHours /\ row.holiday.operating \in BOOLEAN
      BY <1>1, <2>2 DEF Hours, Resolved
    <3>2. toPublicHoliday(row.holiday) = row.holiday
      BY <2>2, <3>1, MirroredHoliday
    <3> QED BY <3>1, <3>2 DEF DayDto, DayHours
  <2> QED BY <2>1, <2>2
<1>6. row.is24 \in BOOLEAN
  BY <1>1 DEF Hours
<1> HIDE DEF days, breaks, holiday
<1>7. Mirror(row) \in OperationDto
  BY <1>2, <1>3, <1>4, <1>5, <1>6 DEF OperationDto
<1> QED BY <1>2, <1>7 DEF days, breaks, holiday

\* Sending back what was read writes the row there was.
LEMMA MirrorIsNoChange ==
  ASSUME NEW row \in HoursRow, row # NoHours
  PROVE  upsertedHours(Mirror(row), row) = row
<1>1. row \in Hours /\ Resolved(row)
  BY DEF HoursRow
<1>2. PICK dto : dto = Mirror(row)
  OBVIOUS
<1>3. /\ dto.days = [d \in Day |-> toDayHours(row.days[d])]
      /\ dto.breaks = toBreakTimes(row.breaks)
      /\ dto.holiday = IF toPublicHoliday(row.holiday) = Null THEN Keep
                       ELSE toPublicHoliday(row.holiday)
      /\ dto.is24 = row.is24
  BY <1>2, MirrorTyped
<1>4. [d \in Day |-> resolveDay(dto.days[d], row.days[d], d)] = row.days
  <2>1. \A d \in Day : row.days[d] \in DayHours /\ row.days[d].operating \in BOOLEAN
    BY <1>1 DEF Hours, Resolved
  <2>2. \A d \in Day : dto.days[d] = toDayHours(row.days[d])
    BY <1>3
  <2>3. \A d \in Day : resolveDay(dto.days[d], row.days[d], d) = row.days[d]
    BY <2>1, <2>2, MirroredDay
  <2>4. row.days \in [Day -> DayHours]
    BY <1>1 DEF Hours
  <2> QED BY <2>3, <2>4
<1>5. (IF dto.breaks = Keep THEN row.breaks ELSE buildBreakTimes(dto.breaks)) = row.breaks
  <2>1. buildBreakTimes(toBreakTimes(row.breaks)) = row.breaks
    BY <1>1, MirroredBreaks DEF Hours
  <2> QED BY <1>3, <2>1
<1>6. (IF dto.holiday = Keep THEN row.holiday ELSE buildPublicHoliday(dto.holiday))
         = row.holiday
  <2>1. CASE row.holiday = Null
    BY <1>3, <2>1 DEF toPublicHoliday
  <2>2. CASE row.holiday # Null
    <3>1. row.holiday \in DayHours /\ row.holiday.operating \in BOOLEAN
      BY <1>1, <2>2 DEF Hours, Resolved
    <3> QED BY <1>3, <2>2, <3>1, MirroredHoliday
  <2> QED BY <2>1, <2>2
<1>7. OrElse(dto.is24, row.is24) = row.is24
  BY <1>3 DEF OrElse
<1>8. upsertedHours(dto, row) = [days |-> row.days, breaks |-> row.breaks,
                                 holiday |-> row.holiday, is24 |-> row.is24]
  BY <1>4, <1>5, <1>6, <1>7, UpsertedFields
<1> QED BY <1>1, <1>2, <1>8 DEF Hours

----------------------------------------------------------------------------
(* Steps *)

LEMMA HoursInvInit == HoursInit => HoursInv
BY DEF HoursInit, HoursInv, HoursRow

LEMMA BeginSaveKeeps ==
  ASSUME HoursInv, NEW w \in Editor, NEW dto \in OperationDto, NEW mirror \in BOOLEAN,
         BeginSaveHours(w, dto, mirror),
         mirror => hours # NoHours /\ dto = Mirror(hours)
  PROVE  HoursInv'
<1> DEFINE s == [op |-> "save", dto |-> dto, seen |-> hours, mirror |-> mirror]
<1>1. Acceptable(dto) /\ saving' = [saving EXCEPT ![w] = s] /\ hours' = hours
  BY DEF BeginSaveHours
<1>2. s \in Saving /\ s.mirror = mirror /\ s.seen = hours /\ s.dto = dto
  BY <1>1 DEF HoursInv, Saving
<1> HIDE DEF s
<1> QED BY <1>1, <1>2 DEF HoursInv

LEMMA HoursStep ==
  ASSUME HoursInv, [HoursNext]_hoursVars
  PROVE  HoursInv'
<1>1. ASSUME NEW w \in Editor, NEW dto \in Dto, BeginSaveHours(w, dto, FALSE)
      PROVE  HoursInv'
  BY <1>1, HoursAssumption, BeginSaveKeeps
<1>2. ASSUME NEW w \in Editor, BeginSaveResponse(w)
      PROVE  HoursInv'
  <2>1. hours # NoHours /\ BeginSaveHours(w, Mirror(hours), TRUE)
    BY <1>2 DEF BeginSaveResponse, Mirror
  <2>2. Mirror(hours) \in OperationDto
    BY <2>1, MirrorTyped DEF HoursInv
  <2> QED BY <2>1, <2>2, BeginSaveKeeps
<1>3. ASSUME NEW w \in Editor, upsertOperatingHours(w)
      PROVE  HoursInv'
  <2>1. /\ saving[w] \in Saving
        /\ hours' = upsertedHours(saving[w].dto, saving[w].seen)
        /\ saving' = [saving EXCEPT ![w] = NotEditing]
    BY <1>3 DEF upsertOperatingHours, HoursInv
  <2>2. hours' \in HoursRow
    BY <2>1, UpsertedRow DEF Saving
  <2> QED BY <2>1, <2>2 DEF HoursInv
<1>4. ASSUME NEW w \in Editor, AbortSave(w)
      PROVE  HoursInv'
  BY <1>4 DEF AbortSave, HoursInv
<1>5. CASE UNCHANGED hoursVars
  BY <1>5 DEF hoursVars, HoursInv
<1> QED BY <1>1, <1>2, <1>3, <1>4, <1>5 DEF HoursNext

LEMMA HoursSpecInv == HoursSpec => []HoursInv
BY HoursInvInit, HoursStep, PTL DEF HoursSpec

----------------------------------------------------------------------------
(* StoreHours: theorems *)

\* The row and the requests under way keep their types (upsertOperatingHours in
\* store-settings.service.ts).
THEOREM HoursTypeCorrect == HoursSpec => []HoursTypeOK
<1>1. HoursInv => HoursTypeOK
  BY DEF HoursInv, HoursTypeOK, HoursRow, Saving
<1> QED BY <1>1, HoursSpecInv, PTL

\* A save that is committed is the only step that changes the row.
LEMMA SaveSteps ==
  ASSUME HoursInv, [HoursNext]_hoursVars, hours' # hours
  PROVE  \E w \in Editor :
            /\ Saves(w) /\ saving[w] \in Saving
            /\ hours' = upsertedHours(saving[w].dto, saving[w].seen)
<1>1. PICK w \in Editor : upsertOperatingHours(w)
  BY DEF HoursNext, hoursVars, BeginSaveHours, BeginSaveResponse, AbortSave
<1> QED BY <1>1 DEF upsertOperatingHours, HoursInv, Saves

\* Of a row it has read, a save writes the days as they were that it does not
\* name.
LEMMA UnnamedDaysStay ==
  ASSUME NEW dto \in OperationDto, NEW row \in HoursRow, row # NoHours,
         NEW d \in Day, ~Names(dto, d)
  PROVE  upsertedHours(dto, row).days[d] = row.days[d]
<1>1. dto.days[d] \in DayDto /\ row.days[d] \in DayHours
      /\ row.days[d].operating \in BOOLEAN
  BY DEF OperationDto, HoursRow, Hours, Resolved
<1>2. /\ dto.days[d].open = Keep /\ dto.days[d].close = Keep
      /\ dto.days[d].operating = Keep
  BY <1>1 DEF Names, DayDto
<1>3. resolveDay(dto.days[d], row.days[d], d) = row.days[d]
  BY <1>1, <1>2, HoursAssumption, KeptDay
<1>4. upsertedHours(dto, row).days =
         [e \in Day |-> resolveDay(dto.days[e], row.days[e], e)]
  BY UpsertedFields
<1> QED BY <1>3, <1>4

\* However saves overlap, a save changes the days it names and no others, and
\* sending back what was read changes nothing, unless another save was committed
\* in between (upsertOperatingHours in store-settings.service.ts).
THEOREM SavesChangeWhatTheyName == HoursSpec => SavesAreExact
<1>1. HoursInv /\ [HoursNext]_hoursVars => [SaveIsExact]_hoursVars
  <2> SUFFICES ASSUME HoursInv, [HoursNext]_hoursVars
               PROVE  OtherDaysKept /\ SavingWhatWasReadIsNoChange
    BY DEF SaveIsExact
  <2>1. CASE hours' = hours
    BY <2>1 DEF OtherDaysKept, SavingWhatWasReadIsNoChange
  <2>2. CASE hours' # hours
    <3>1. PICK w \in Editor :
             /\ Saves(w) /\ saving[w] \in Saving
             /\ hours' = upsertedHours(saving[w].dto, saving[w].seen)
      BY <2>2, SaveSteps
    <3>2. SavingWhatWasReadIsNoChange
      <4>1. CASE saving[w].mirror /\ saving[w].seen = hours
        <5>1. hours # NoHours /\ hours \in HoursRow /\ saving[w].dto = Mirror(hours)
          BY <3>1, <4>1, SavingIsNotIdle DEF HoursInv
        <5> QED BY <2>2, <3>1, <4>1, <5>1, MirrorIsNoChange
      <4> QED BY <3>1, <4>1 DEF SavingWhatWasReadIsNoChange
    <3>3. OtherDaysKept
      <4> SUFFICES ASSUME hours # NoHours, NEW d \in Day,
                          hours'.days[d] # hours.days[d], saving[w].seen = hours
                   PROVE  Names(saving[w].dto, d)
        BY <3>1 DEF OtherDaysKept
      <4>1. saving[w].dto \in OperationDto /\ hours \in HoursRow
        BY <3>1 DEF HoursInv, Saving
      <4> QED BY <3>1, <4>1, UnnamedDaysStay
    <3> QED BY <3>2, <3>3
  <2> QED BY <2>1, <2>2
<1> QED BY <1>1, HoursSpecInv, PTL DEF HoursSpec, SavesAreExact
=============================================================================

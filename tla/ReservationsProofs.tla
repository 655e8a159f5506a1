------------------------- MODULE ReservationsProofs -------------------------
(***************************************************************************)
(* Theorems about Reservations, for any rows, bookings, storages, workers  *)
(* and endpoints: the types, and what holds of bookings whatever the       *)
(* requests do at the same time. A booking is created once, a payment      *)
(* backs one booking, its rows are moved together, and closed rows are     *)
(* revived only by updates by id.                                          *)
(***************************************************************************)
EXTENDS Reservations, NaturalsInduction, WellFoundedInduction, TLAPS

----------------------------------------------------------------------------
(* Type correctness *)

\* What the proofs read off TypeOK, by part: the requests and the database.
ReqTyped ==
    /\ req \in [Worker -> Request]
    /\ \A w \in Worker : req[w].op = "updateStatus" => req[w].to \in Status
    /\ \A w \in Worker : req[w].op \in StorageOps =>
          req[w].unit \in Storage /\ req[w].to \in StorageStatus

RowRecord == [status : Status \union {Absent},
              storage : Storage \union {NoStorage},
              paid : BOOLEAN]

DataTyped ==
    /\ now \in 0..Horizon
    /\ res \in [Row -> RowRecord]
    /\ createdAt \in [Group -> Int]
    /\ sto \in [Storage -> StorageStatus]
    /\ pay \in [Payment -> Group \union {NoGroup}]
    /\ notified \in SUBSET Group
    /\ singled \in SUBSET Group

LEMMA TypeOKParts == TypeOK <=> DataTyped /\ ReqTyped
BY DEF TypeOK, DataTyped, ReqTyped, RowRecord

LEMMA IdleTyped == Idle \in Request /\ Idle.op = "idle"
BY DEF Idle, Request

\* ORDER BY number has a first row.
LEMMA FirstByNumber ==
    ASSUME NEW S \in SUBSET Storage, S # {}
    PROVE  \E s \in S : \A t \in S : NumberOf[s] <= NumberOf[t]
<1> DEFINE numbers == {NumberOf[s] : s \in S}
<1>1. numbers \in SUBSET Nat /\ numbers # {}
  BY StoragesAssumption
<1>2. IsWellFoundedOn(OpToRel(<, Nat), Nat)
  BY NatLessThanWellFounded, Zenon
<1>3. PICK n \in numbers : \A m \in numbers : ~(<<m, n>> \in OpToRel(<, Nat))
  <2> HIDE DEF numbers
  <2> QED BY <1>1, <1>2, WFMin, Zenon
<1>4. \A m \in numbers : ~(m < n)
  <2> HIDE DEF numbers
  <2> QED BY <1>1, <1>3, Zenon DEF OpToRel
<1>5. \A m \in numbers : n <= m
  BY <1>1, <1>4
<1> QED BY <1>5

\* A storage is found among the free ones of the row's type.
LEMMA FindTyped ==
    ASSUME NEW r
    PROVE  /\ findStorageForReservation(r) \in FreeStorages(r) \union {NoStorage}
           /\ findStorageForReservation(r) \in Storage \union {NoStorage}
<1>1. FreeStorages(r) \in SUBSET Storage
  BY DEF FreeStorages
<1>2. CASE FreeStorages(r) = {}
  BY <1>2 DEF findStorageForReservation
<1>3. CASE FreeStorages(r) # {}
  <2>1. \E s \in FreeStorages(r) :
           \A t \in FreeStorages(r) : NumberOf[s] <= NumberOf[t]
    BY <1>1, <1>3, FirstByNumber
  <2> QED BY <1>1, <1>3, <2>1 DEF findStorageForReservation
<1> QED BY <1>2, <1>3

\* A worker that goes on to another query stays a well-formed request.
LEMMA BeginTyped ==
    ASSUME ReqTyped, NEW w \in Worker,
           NEW op \in GroupOps \union RowOps,
           NEW rows \in SUBSET Row, NEW hold,
           \A r \in Row : hold[r] \in Storage \union {NoStorage},
           NEW to \in Status \union {Absent},
           op = "updateStatus" => to \in Status,
           Begin(w, op, rows, hold, to)
    PROVE  ReqTyped'
<1> DEFINE new == [Idle EXCEPT !.op = op, !.rows = rows, !.to = to,
                     !.hold = [r \in Row |-> IF r \in rows THEN hold[r]
                                             ELSE NoStorage],
                     !.of = req[w].of, !.late = req[w].late]
<1>1. req[w] \in Request
  BY DEF ReqTyped
<1>2. new \in Request
  BY <1>1 DEF Request, Idle
<1>3. new.op = op /\ new.to = to
  BY DEF Idle
<1>4. op \notin StorageOps
  BY DEF GroupOps, RowOps, StorageOps
<1>5. req' = [req EXCEPT ![w] = new]
  BY DEF Begin
<1> HIDE DEF new
<1> QED BY <1>2, <1>3, <1>4, <1>5 DEF ReqTyped

LEMMA EndTyped ==
    ASSUME ReqTyped, NEW w \in Worker, End(w)
    PROVE  ReqTyped'
BY IdleTyped DEF ReqTyped, End, StorageOps

LEMMA AdvanceTyped ==
    ASSUME ReqTyped, NEW w \in Worker, NEW g \in Group,
           NEW op \in {"precheck", "insert", "created"}, Advance(w, op, g)
    PROVE  ReqTyped'
<1>1. req[w] \in Request
  BY DEF ReqTyped
<1>2. [req[w] EXCEPT !.op = op, !.of = g] \in Request
  BY <1>1 DEF Request, GroupOps
<1>3. req' = [req EXCEPT ![w] = [req[w] EXCEPT !.op = op, !.of = g]]
  BY <1>1 DEF Advance, ReqTyped, Request
<1> QED BY <1>1, <1>2, <1>3 DEF ReqTyped, Request, StorageOps

\* The rows' new statuses and storages are typed.
LEMMA SetStatusTyped ==
    ASSUME res \in [Row -> RowRecord], NEW rows, NEW to \in Status,
           SetStatus(rows, to)
    PROVE  res' \in [Row -> RowRecord]
BY DEF SetStatus, RowRecord

LEMMA ReleaseTyped ==
    ASSUME sto \in [Storage -> StorageStatus], NEW S, releaseStorageIfAny(S)
    PROVE  sto' \in [Storage -> StorageStatus]
BY DEF releaseStorageIfAny, StorageStatus

LEMMA OccupyTyped ==
    ASSUME sto \in [Storage -> StorageStatus], NEW S, occupyStorageIfAny(S)
    PROVE  sto' \in [Storage -> StorageStatus]
BY DEF occupyStorageIfAny, StorageStatus

LEMMA StorageIdsTyped ==
    ASSUME DataTyped
    PROVE  \A r \in Row : StorageIds[r] \in Storage \union {NoStorage}
BY DEF DataTyped, StorageIds, RowRecord

\* Confirming rows with the storages a request holds for them.
LEMMA AssignTyped ==
    ASSUME DataTyped, ReqTyped, NEW w \in Worker,
           res' = [r \in Row |->
                     IF r \in req[w].rows
                     THEN [res[r] EXCEPT !.status = "confirmed",
                                         !.storage = req[w].hold[r]]
                     ELSE res[r]]
    PROVE  res' \in [Row -> RowRecord]
<1>1. ASSUME NEW r \in Row
      PROVE  [res[r] EXCEPT !.status = "confirmed", !.storage = req[w].hold[r]]
                \in RowRecord
  <2>1. req[w].hold[r] \in Storage \union {NoStorage}
    BY DEF ReqTyped, Request
  <2>2. res[r] \in RowRecord
    BY DEF DataTyped
  <2> QED BY <2>1, <2>2 DEF RowRecord, Status
<1> QED BY <1>1 DEF DataTyped

LEMMA WriteSingleTyped ==
    ASSUME singled \in SUBSET Group, ReqTyped, NEW w \in Worker,
           WriteSingle(req[w].rows)
    PROVE  singled' \in SUBSET Group
<1>1. req[w].rows \in SUBSET Row
  BY DEF ReqTyped, Request
<1> QED BY <1>1, InputsAssumption DEF WriteSingle

\* Steps of a guest's booking keep the types.
LEMMA GuestTyped ==
    ASSUME DataTyped, ReqTyped, NEW w \in Worker, GuestStep(w)
    PROVE  DataTyped' /\ ReqTyped'
<1>1. ASSUME NEW g \in Group, PrecheckGuest(w, g) \/ BeginCreateGuest(w, g)
      PROVE  DataTyped' /\ ReqTyped'
  <2>1. ReqTyped'
    BY <1>1, AdvanceTyped DEF PrecheckGuest, BeginCreateGuest
  <2> QED BY <1>1, <2>1 DEF PrecheckGuest, BeginCreateGuest, DataTyped
<1>2. ASSUME NEW g \in Group, CommitCreateGuest(w, g)
      PROVE  DataTyped' /\ ReqTyped'
  <2>1. ReqTyped'
    BY <1>2, AdvanceTyped, EndTyped DEF CommitCreateGuest
  <2>2. res' \in [Row -> RowRecord]
    <3> DEFINE isPaid == PaymentOf[g] # NoPayment
               row == [status |-> "pending", storage |-> NoStorage,
                       paid |-> isPaid]
    <3>1. isPaid \in BOOLEAN
      OBVIOUS
    <3>2. \/ res' = res
          \/ res' = [r \in Row |-> IF r \in RowsOf(g) THEN row ELSE res[r]]
      BY <1>2 DEF CommitCreateGuest
    <3> HIDE DEF isPaid
    <3>3. row \in RowRecord
      BY <3>1 DEF RowRecord, Status
    <3> HIDE DEF row
    <3> QED BY <3>2, <3>3 DEF DataTyped
  <2>3. createdAt' \in [Group -> Int] /\ pay' \in [Payment -> Group \union {NoGroup}]
    BY <1>2, ClockAssumption DEF CommitCreateGuest, DataTyped
  <2> QED BY <1>2, <2>1, <2>2, <2>3 DEF CommitCreateGuest, DataTyped
<1>3. ASSUME NEW g \in Group, BeginAutoApprove(w, g)
      PROVE  DataTyped' /\ ReqTyped'
  <2> DEFINE hold == [r \in Row |-> findStorageForReservation(r)]
  <2>1. \A r \in Row : hold[r] \in Storage \union {NoStorage}
    BY FindTyped
  <2>2. {r \in RowsOf(g) : res[r].status = "pending"} \in SUBSET Row
    BY DEF RowsOf
  <2>3. Begin(w, "autoApprove", {r \in RowsOf(g) : res[r].status = "pending"},
              hold, "confirmed")
    BY <1>3 DEF BeginAutoApprove
  <2> HIDE DEF hold
  <2>4. ReqTyped'
    BY <2>1, <2>2, <2>3, BeginTyped DEF GroupOps, Status
  <2> QED BY <1>3, <2>4 DEF BeginAutoApprove, DataTyped
<1>4. ASSUME NEW g \in Group, CommitAutoApprove(w, g)
      PROVE  DataTyped' /\ ReqTyped'
  <2>1. ReqTyped'
    BY <1>4, BeginTyped, StorageIdsTyped DEF CommitAutoApprove, GroupOps
  <2>2. res' \in [Row -> RowRecord]
    BY <1>4, AssignTyped DEF CommitAutoApprove
  <2> QED BY <1>4, <2>1, <2>2 DEF CommitAutoApprove, DataTyped
<1>5. ASSUME NEW g \in Group, SendCreateNotification(w, g)
      PROVE  DataTyped' /\ ReqTyped'
  BY <1>5, EndTyped DEF SendCreateNotification, DataTyped
<1>6. ASSUME NEW g \in Group, BeginGuestCancel(w, g)
      PROVE  DataTyped' /\ ReqTyped'
  <2>1. ReqTyped'
    BY <1>6, BeginTyped, StorageIdsTyped
       DEF BeginGuestCancel, GroupOps, Status, RowsOf
  <2> QED BY <1>6, <2>1 DEF BeginGuestCancel, DataTyped
<1>7. CASE CommitGuestCancel(w)
  <2>1. ReqTyped'
    BY <1>7, EndTyped DEF CommitGuestCancel
  <2>2. res' \in [Row -> RowRecord]
    BY <1>7, SetStatusTyped DEF CommitGuestCancel, DataTyped, Status
  <2>3. sto' \in [Storage -> StorageStatus]
    BY <1>7, ReleaseTyped DEF CommitGuestCancel, DataTyped
  <2> QED BY <1>7, <2>1, <2>2, <2>3 DEF CommitGuestCancel, DataTyped
<1> QED BY <1>1, <1>2, <1>3, <1>4, <1>5, <1>6, <1>7 DEF GuestStep

\* Steps of the single-row endpoints keep the types.
LEMMA RowTyped ==
    ASSUME DataTyped, ReqTyped, NEW w \in Worker, RowStep(w)
    PROVE  DataTyped' /\ ReqTyped'
<1>1. ASSUME NEW g \in Group, CreateOne(w, g)
      PROVE  DataTyped' /\ ReqTyped'
  <2>1. RepOf[g] \in Row
    BY InputsAssumption
  <2>2. ReqTyped'
    BY <1>1, <2>1, BeginTyped, StorageIdsTyped DEF CreateOne, RowOps, Status
  <2>3. res' \in [Row -> RowRecord]
    BY <1>1, <2>1 DEF CreateOne, DataTyped, RowRecord, Status
  <2>4. createdAt' \in [Group -> Int]
    BY <1>1, ClockAssumption DEF CreateOne, DataTyped
  <2> QED BY <1>1, <2>2, <2>3, <2>4 DEF CreateOne, DataTyped
<1>2. ASSUME NEW r \in Row, BeginApprove(w, r)
      PROVE  DataTyped' /\ ReqTyped'
  <2> DEFINE hold == [q \in Row |->
                        IF res[q].storage # NoStorage THEN res[q].storage
                        ELSE findStorageForReservation(q)]
  <2>1. \A q \in Row : hold[q] \in Storage \union {NoStorage}
    BY FindTyped DEF DataTyped, RowRecord
  <2>2. Begin(w, "approve", {r}, hold, "confirmed")
    BY <1>2 DEF BeginApprove
  <2> HIDE DEF hold
  <2>3. ReqTyped'
    BY <2>1, <2>2, BeginTyped DEF RowOps, Status
  <2> QED BY <1>2, <2>3 DEF BeginApprove, DataTyped
<1>3. ASSUME NEW r \in Row, NEW to \in Status, BeginUpdateStatus(w, r, to)
      PROVE  DataTyped' /\ ReqTyped'
  <2>1. ReqTyped'
    BY <1>3, BeginTyped, StorageIdsTyped DEF BeginUpdateStatus, RowOps
  <2> QED BY <1>3, <2>1 DEF BeginUpdateStatus, DataTyped
<1>4. ASSUME NEW r \in Row, BeginStoreCheckin(w, r)
      PROVE  DataTyped' /\ ReqTyped'
  <2>1. ReqTyped'
    BY <1>4, BeginTyped, StorageIdsTyped DEF BeginStoreCheckin, RowOps, Status
  <2> QED BY <1>4, <2>1 DEF BeginStoreCheckin, DataTyped
<1>5. ASSUME NEW r \in Row, BeginCustomerCheckout(w, r)
      PROVE  DataTyped' /\ ReqTyped'
  <2>1. ReqTyped'
    BY <1>5, BeginTyped, StorageIdsTyped DEF BeginCustomerCheckout, RowOps, Status
  <2> QED BY <1>5, <2>1 DEF BeginCustomerCheckout, DataTyped
<1>6. CASE CommitApprove(w)
  <2>1. singled' \in SUBSET Group
    BY <1>6, WriteSingleTyped DEF CommitApprove, DataTyped
  <2>2. res' \in [Row -> RowRecord]
    BY <1>6, AssignTyped DEF CommitApprove
  <2> QED BY <1>6, <2>1, <2>2, EndTyped DEF CommitApprove, DataTyped
<1>7. CASE CommitUpdateStatus(w)
  <2>1. singled' \in SUBSET Group
    BY <1>7, WriteSingleTyped DEF CommitUpdateStatus, DataTyped
  <2>2. res' \in [Row -> RowRecord]
    BY <1>7, SetStatusTyped DEF CommitUpdateStatus, DataTyped, ReqTyped
  <2>3. sto' \in [Storage -> StorageStatus]
    BY <1>7, ReleaseTyped, OccupyTyped DEF CommitUpdateStatus, DataTyped
  <2> QED BY <1>7, <2>1, <2>2, <2>3, EndTyped DEF CommitUpdateStatus, DataTyped
<1>8. CASE CommitStoreCheckin(w)
  <2>1. singled' \in SUBSET Group
    BY <1>8, WriteSingleTyped DEF CommitStoreCheckin, DataTyped
  <2>2. res' \in [Row -> RowRecord]
    BY <1>8, SetStatusTyped DEF CommitStoreCheckin, DataTyped, Status
  <2>3. sto' \in [Storage -> StorageStatus]
    BY <1>8, OccupyTyped DEF CommitStoreCheckin, DataTyped
  <2> QED BY <1>8, <2>1, <2>2, <2>3, EndTyped DEF CommitStoreCheckin, DataTyped
<1>9. CASE CommitCustomerCheckout(w)
  <2>1. singled' \in SUBSET Group
    BY <1>9, WriteSingleTyped DEF CommitCustomerCheckout, DataTyped
  <2>2. res' \in [Row -> RowRecord]
    BY <1>9, SetStatusTyped DEF CommitCustomerCheckout, DataTyped, Status
  <2>3. sto' \in [Storage -> StorageStatus]
    BY <1>9, ReleaseTyped DEF CommitCustomerCheckout, DataTyped
  <2> QED BY <1>9, <2>1, <2>2, <2>3, EndTyped DEF CommitCustomerCheckout, DataTyped
<1> QED BY <1>1, <1>2, <1>3, <1>4, <1>5, <1>6, <1>7, <1>8, <1>9 DEF RowStep

\* Whole-booking transitions keep the types.
LEMMA OwnerTyped ==
    ASSUME DataTyped, ReqTyped, NEW w \in Worker, OwnerStep(w)
    PROVE  DataTyped' /\ ReqTyped'
<1>1. ASSUME NEW g \in Group, NEW op \in {"checkIn", "checkOut"}, NEW from,
             NEW to \in Status, BeginOwnerAction(w, g, op, from, to)
      PROVE  DataTyped' /\ ReqTyped'
  <2> DEFINE unpaid == ~res[RepOf[g]].paid
             held == [r \in Row |-> IF r \in RowsOf(g) THEN res[r].storage
                                    ELSE NoStorage]
             new == [Idle EXCEPT !.op = op, !.rows = RowsOf(g), !.to = to,
                                 !.hold = held, !.settle = unpaid]
  <2>1. unpaid \in BOOLEAN
    OBVIOUS
  <2>2. held \in [Row -> Storage \union {NoStorage}]
    BY DEF DataTyped, RowRecord
  <2>3. req' = [req EXCEPT ![w] = new]
    BY <1>1 DEF BeginOwnerAction
  <2> HIDE DEF unpaid, held
  <2>4. new \in Request /\ new.op = op
    BY <2>1, <2>2 DEF Request, Idle, GroupOps, RowsOf
  <2> HIDE DEF new
  <2>5. ReqTyped'
    BY <2>3, <2>4 DEF ReqTyped, StorageOps
  <2> QED BY <1>1, <2>5 DEF BeginOwnerAction, DataTyped
<1>2. ASSUME NEW g \in Group, BeginCheckIn(w, g)
      PROVE  DataTyped' /\ ReqTyped'
  BY <1>1, <1>2 DEF BeginCheckIn, Status
<1>3. ASSUME NEW g \in Group, BeginCheckOut(w, g)
      PROVE  DataTyped' /\ ReqTyped'
  BY <1>1, <1>3 DEF BeginCheckOut, Status
<1>4. ASSUME NEW g \in Group, BeginNoShow(w, g)
      PROVE  DataTyped' /\ ReqTyped'
  <2>1. ReqTyped'
    BY <1>4, BeginTyped, StorageIdsTyped DEF BeginNoShow, GroupOps, Status, RowsOf
  <2> QED BY <1>4, <2>1 DEF BeginNoShow, DataTyped
<1>5. ASSUME NEW to \in Status, OwnerWrite(w, to)
      PROVE  res' \in [Row -> RowRecord]
  <2>1. ASSUME NEW r \in Row
        PROVE  [res[r] EXCEPT !.status = to, !.paid = @ \/ req[w].settle]
                  \in RowRecord
    <3> DEFINE p == res[r].paid \/ req[w].settle
    <3>1. p \in BOOLEAN
      OBVIOUS
    <3>2. res[r] \in RowRecord
      BY DEF DataTyped
    <3> HIDE DEF p
    <3>3. [res[r] EXCEPT !.status = to, !.paid = p] \in RowRecord
      BY <3>1, <3>2 DEF RowRecord
    <3> QED BY <3>3 DEF p
  <2> QED BY <1>5, <2>1 DEF OwnerWrite, DataTyped
<1>6. CASE CommitCheckIn(w)
  <2>1. res' \in [Row -> RowRecord]
    BY <1>5, <1>6 DEF CommitCheckIn, DataTyped, Status
  <2>2. sto' \in [Storage -> StorageStatus]
    BY <1>6, OccupyTyped DEF CommitCheckIn, DataTyped
  <2> QED BY <1>6, <2>1, <2>2, EndTyped DEF CommitCheckIn, DataTyped
<1>7. CASE CommitCheckOut(w)
  <2>1. res' \in [Row -> RowRecord]
    BY <1>5, <1>7 DEF CommitCheckOut, DataTyped, Status
  <2>2. sto' \in [Storage -> StorageStatus]
    BY <1>7, ReleaseTyped DEF CommitCheckOut, DataTyped
  <2> QED BY <1>7, <2>1, <2>2, EndTyped DEF CommitCheckOut, DataTyped
<1>8. CASE CommitNoShow(w)
  <2>1. res' \in [Row -> RowRecord]
    BY <1>8, SetStatusTyped DEF CommitNoShow, DataTyped, Status
  <2>2. sto' \in [Storage -> StorageStatus]
    BY <1>8, ReleaseTyped DEF CommitNoShow, DataTyped
  <2> QED BY <1>8, <2>1, <2>2, EndTyped DEF CommitNoShow, DataTyped
<1> QED BY <1>2, <1>3, <1>4, <1>6, <1>7, <1>8 DEF OwnerStep

\* The sweeps keep the types.
LEMMA SweepTyped ==
    ASSUME DataTyped, ReqTyped, NEW w \in Worker, SweepStep(w)
    PROVE  DataTyped' /\ ReqTyped'
<1>1. CASE BeginCleanup(w)
  <2>1. ReqTyped'
    BY <1>1, BeginTyped, StorageIdsTyped DEF BeginCleanup, GroupOps, Status
  <2> QED BY <1>1, <2>1 DEF BeginCleanup, DataTyped
<1>2. CASE BeginAutoComplete(w)
  <2>1. ReqTyped'
    BY <1>2, BeginTyped, StorageIdsTyped DEF BeginAutoComplete, GroupOps, Status
  <2> QED BY <1>2, <2>1 DEF BeginAutoComplete, DataTyped
<1>3. CASE CommitCleanup(w)
  <2>1. res' \in [Row -> RowRecord]
    BY <1>3, SetStatusTyped DEF CommitCleanup, DataTyped, Status
  <2>2. sto' \in [Storage -> StorageStatus]
    BY <1>3, ReleaseTyped DEF CommitCleanup, DataTyped
  <2> QED BY <1>3, <2>1, <2>2, EndTyped DEF CommitCleanup, DataTyped
<1>4. CASE CommitAutoComplete(w)
  <2>1. res' \in [Row -> RowRecord]
    BY <1>4, SetStatusTyped DEF CommitAutoComplete, DataTyped, Status
  <2>2. sto' \in [Storage -> StorageStatus]
    BY <1>4, ReleaseTyped DEF CommitAutoComplete, DataTyped
  <2> QED BY <1>4, <2>1, <2>2, EndTyped DEF CommitAutoComplete, DataTyped
<1> QED BY <1>1, <1>2, <1>3, <1>4 DEF SweepStep

\* So do the owner's edits of a storage.
LEMMA StorageTyped ==
    ASSUME DataTyped, ReqTyped, NEW w \in Worker, StorageStep(w)
    PROVE  DataTyped' /\ ReqTyped'
<1>1. ASSUME NEW s \in Storage, NEW to \in {"available", "maintenance"},
             FindStorage(w, s, to)
      PROVE  DataTyped' /\ ReqTyped'
  <2> DEFINE new == [Idle EXCEPT !.op = "storageFound", !.unit = s, !.to = to]
  <2>1. /\ new \in Request /\ new.op = "storageFound"
        /\ new.unit = s /\ new.to = to
    BY DEF Request, Idle, StorageOps, StorageStatus
  <2>2. req' = [req EXCEPT ![w] = new]
    BY <1>1 DEF FindStorage
  <2> HIDE DEF new
  <2>3. ReqTyped'
    BY <2>1, <2>2 DEF ReqTyped, StorageStatus
  <2> QED BY <1>1, <2>3 DEF FindStorage, DataTyped
<1>2. CASE CheckStorageUnused(w)
  <2> DEFINE new == [req[w] EXCEPT !.op = "storageChange"]
  <2>1. req' = [req EXCEPT ![w] = new]
    BY <1>2 DEF CheckStorageUnused, ReqTyped, Request
  <2>2. new \in Request
    BY DEF ReqTyped, Request, StorageOps
  <2>3. new.op = "storageChange" /\ new.unit = req[w].unit /\ new.to = req[w].to
    BY DEF ReqTyped, Request
  <2>4. req[w].unit \in Storage /\ req[w].to \in StorageStatus
    BY <1>2 DEF CheckStorageUnused, ReqTyped, StorageOps
  <2> HIDE DEF new
  <2>5. ReqTyped'
    BY <2>1, <2>2, <2>3, <2>4 DEF ReqTyped
  <2> QED BY <1>2, <2>5 DEF CheckStorageUnused, DataTyped
<1>3. CASE CommitStorageChange(w)
  <2>1. req[w].to \in StorageStatus
    BY <1>3 DEF CommitStorageChange, ReqTyped, StorageOps
  <2>2. sto' \in [Storage -> StorageStatus]
    BY <1>3, <2>1 DEF CommitStorageChange, DataTyped
  <2> QED BY <1>3, <2>2, EndTyped DEF CommitStorageChange, DataTyped
<1> QED BY <1>1, <1>2, <1>3 DEF StorageStep

\* The clock and the end of a request keep the types.
LEMMA TickTyped ==
    ASSUME DataTyped, ReqTyped, Tick
    PROVE  DataTyped' /\ ReqTyped'
<1>1. now' \in 0..Horizon
  BY ClockAssumption DEF Tick, DataTyped
<1>2. req' = [w \in Worker |-> IF req[w].op = "idle" THEN req[w]
                               ELSE [req[w] EXCEPT !.late = TRUE]]
  BY DEF Tick
<1>3. ASSUME NEW w \in Worker
      PROVE  /\ [req[w] EXCEPT !.late = TRUE] \in Request
             /\ [req[w] EXCEPT !.late = TRUE].op = req[w].op
             /\ [req[w] EXCEPT !.late = TRUE].to = req[w].to
             /\ [req[w] EXCEPT !.late = TRUE].unit = req[w].unit
  BY DEF ReqTyped, Request
<1>4. ReqTyped'
  BY <1>2, <1>3 DEF ReqTyped
<1> QED BY <1>1, <1>4 DEF Tick, DataTyped

\* Every step of the core keeps the types.
LEMMA StepTyped == TypeOK /\ [Next]_vars => TypeOK'
<1> SUFFICES ASSUME TypeOK, [Next]_vars PROVE TypeOK'
  OBVIOUS
<1>1. DataTyped /\ ReqTyped
  BY TypeOKParts
<1>2. CASE UNCHANGED vars
  BY <1>2 DEF vars, TypeOK
<1>3. ASSUME DataTyped' /\ ReqTyped'
      PROVE  TypeOK'
  BY <1>3 DEF TypeOK, DataTyped, ReqTyped, RowRecord
<1>4. ASSUME NEW w \in Worker,
             \/ GuestStep(w) \/ RowStep(w) \/ OwnerStep(w)
             \/ SweepStep(w) \/ StorageStep(w) \/ AbortRequest(w)
      PROVE  TypeOK'
  <2>1. CASE AbortRequest(w)
    BY <1>1, <1>3, <2>1, EndTyped DEF AbortRequest, DataTyped
  <2> QED BY <1>1, <1>3, <1>4, <2>1, GuestTyped, RowTyped, OwnerTyped,
             SweepTyped, StorageTyped
<1>5. CASE Tick
  BY <1>1, <1>3, <1>5, TickTyped
<1> QED BY <1>2, <1>4, <1>5 DEF Next

\* The state always has its types: a row one of the statuses of the schema, a
\* storage never a reservation's status, a request only ids that exist.
THEOREM TypeCorrect == Spec => []TypeOK
<1>1. Init => TypeOK
  <2> SUFFICES ASSUME Init PROVE TypeOK
    OBVIOUS
  <2>1. DataTyped
    BY ClockAssumption DEF Init, DataTyped, RowRecord, StorageStatus
  <2>2. ReqTyped
    BY IdleTyped DEF Init, ReqTyped, StorageOps
  <2> QED BY <2>1, <2>2, TypeOKParts
<1> QED BY <1>1, StepTyped, PTL DEF Spec

----------------------------------------------------------------------------
(* A booking is created once *)

\* The rows of a booking are inserted by one transaction.
CreatedTogether ==
    \A r1, r2 \in Row : GroupOf[r1] = GroupOf[r2] =>
        (res[r1].status = Absent <=> res[r2].status = Absent)

\* Each booking has at most one request that creates it, and until that request
\* has inserted the rows there are none.
OneCreator ==
    \A w \in Worker :
        /\ req[w].op = "idle" => req[w].of = NoGroup
        /\ req[w].of \in Group =>
              \A v \in Worker \ {w} : req[v].of # req[w].of
        /\ req[w].op \in {"precheck", "insert"} =>
              /\ req[w].of \in Group
              /\ SourceOf[req[w].of] = "guest"
              /\ ~Exists(req[w].of)

\* A request writes only rows it has read.
ReadRows == \A w \in Worker : \A r \in req[w].rows : res[r].status # Absent

Creation == CreatedTogether /\ OneCreator /\ ReadRows

\* What every step but the ones that create a booking does to worker w's request
\* and to the rows.
Ordinary(w) ==
    /\ \A r \in Row : res'[r].status = Absent <=> res[r].status = Absent
    /\ pay' = pay
    /\ \A v \in Worker \ {w} : req'[v] = req[v]
    /\ req'[w].of \in {req[w].of, NoGroup}
    /\ req'[w].op \notin {"precheck", "insert"}
    /\ req'[w].op = "idle" => req'[w].of = NoGroup
    /\ \A r \in req'[w].rows : res[r].status # Absent

LEMMA OrdinaryKeeps ==
    ASSUME TypeOK, Creation, PaymentBacksOneBooking,
           NEW w \in Worker, Ordinary(w), ReqTyped'
    PROVE  Creation' /\ PaymentBacksOneBooking'
<1>1. CreatedTogether'
  BY DEF Creation, CreatedTogether, Ordinary
<1>2. \A g \in Group : res'[RepOf[g]].status = Absent <=> ~Exists(g)
  BY InputsAssumption DEF Ordinary, Exists
<1>3. OneCreator'
  <2> SUFFICES ASSUME NEW v \in Worker
               PROVE  /\ req'[v].op = "idle" => req'[v].of = NoGroup
                      /\ req'[v].of \in Group =>
                            \A u \in Worker \ {v} : req'[u].of # req'[v].of
                      /\ req'[v].op \in {"precheck", "insert"} =>
                            /\ req'[v].of \in Group
                            /\ SourceOf[req'[v].of] = "guest"
                            /\ res'[RepOf[req'[v].of]].status = Absent
    BY DEF OneCreator, Exists
  <2>1. CASE v = w
    BY <2>1, StoragesAssumption DEF Creation, OneCreator, Ordinary
  <2>2. CASE v # w
    BY <1>2, <2>2, StoragesAssumption DEF Creation, OneCreator, Ordinary
  <2> QED BY <2>1, <2>2
<1>4. ReadRows'
  <2> SUFFICES ASSUME NEW v \in Worker, NEW r \in req'[v].rows
               PROVE  res'[r].status # Absent
    BY DEF ReadRows
  <2>1. res[r].status # Absent
    BY DEF Creation, ReadRows, Ordinary
  <2>2. r \in Row
    <3>1. req' \in [Worker -> Request]
      BY DEF ReqTyped
    <3> QED BY <3>1 DEF Request
  <2> QED BY <2>1, <2>2 DEF Ordinary
<1>5. PaymentBacksOneBooking'
  BY <1>2 DEF PaymentBacksOneBooking, Ordinary, Exists
<1> QED BY <1>1, <1>3, <1>4, <1>5 DEF Creation

LEMMA AbsentIsNoStatus == Absent \notin Status
BY DEF Absent, Status

\* A request that goes on to a query about rows it has read.
LEMMA BeginOrdinary ==
    ASSUME TypeOK, Creation, NEW w \in Worker,
           NEW op, op \notin {"idle", "precheck", "insert"},
           NEW rows, NEW hold, NEW to, Begin(w, op, rows, hold, to),
           \A r \in Row : res'[r].status = Absent <=> res[r].status = Absent,
           pay' = pay,
           \A r \in rows : res[r].status # Absent
    PROVE  Ordinary(w)
<1> DEFINE new == [Idle EXCEPT !.op = op, !.rows = rows, !.to = to,
                     !.hold = [r \in Row |-> IF r \in rows THEN hold[r]
                                             ELSE NoStorage],
                     !.of = req[w].of, !.late = req[w].late]
<1>1. new.op = op /\ new.rows = rows /\ new.of = req[w].of
  BY DEF Idle
<1>2. req' = [req EXCEPT ![w] = new]
  BY DEF Begin
<1> HIDE DEF new
<1> QED BY <1>1, <1>2 DEF Ordinary, TypeOK

\* A request that ends, having changed the status of rows that exist at most.
LEMMA EndOrdinary ==
    ASSUME TypeOK, NEW w \in Worker, End(w), pay' = pay,
           \A r \in Row : res'[r].status = Absent <=> res[r].status = Absent
    PROVE  Ordinary(w)
<1>1. Idle.op = "idle" /\ Idle.rows = {} /\ Idle.of = NoGroup
  BY DEF Idle
<1> QED BY <1>1 DEF Ordinary, End, TypeOK

LEMMA StatusOrdinary ==
    ASSUME TypeOK, Creation, NEW w \in Worker, NEW rows \in SUBSET req[w].rows,
           NEW to \in Status, SetStatus(rows, to)
    PROVE  \A r \in Row : res'[r].status = Absent <=> res[r].status = Absent
<1> TAKE r \in Row
<1>1. res'[r] = IF r \in rows THEN [res[r] EXCEPT !.status = to] ELSE res[r]
  BY DEF SetStatus
<1>2. CASE r \in rows
  BY <1>1, <1>2, AbsentIsNoStatus DEF Creation, ReadRows, TypeOK
<1>3. CASE r \notin rows
  BY <1>1, <1>3
<1> QED BY <1>2, <1>3

\* The same for rows confirmed with a storage.
LEMMA AssignOrdinary ==
    ASSUME TypeOK, Creation, NEW w \in Worker,
           res' = [r \in Row |->
                     IF r \in req[w].rows
                     THEN [res[r] EXCEPT !.status = "confirmed",
                                         !.storage = req[w].hold[r]]
                     ELSE res[r]]
    PROVE  \A r \in Row : res'[r].status = Absent <=> res[r].status = Absent
<1> TAKE r \in Row
<1>1. CASE r \in req[w].rows
  BY <1>1 DEF Creation, ReadRows, TypeOK, Absent
<1>2. CASE r \notin req[w].rows
  BY <1>2
<1> QED BY <1>1, <1>2

LEMMA GuestOrdinary ==
    ASSUME TypeOK, Creation, NEW w \in Worker, NEW g,
           \/ BeginAutoApprove(w, g) \/ CommitAutoApprove(w, g)
           \/ SendCreateNotification(w, g)
           \/ BeginGuestCancel(w, g) \/ CommitGuestCancel(w)
    PROVE  Ordinary(w)
<1>1. CASE BeginAutoApprove(w, g)
  <2> DEFINE rows == {r \in RowsOf(g) : res[r].status = "pending"}
             hold == [r \in Row |-> findStorageForReservation(r)]
  <2>1. Begin(w, "autoApprove", rows, hold, "confirmed") /\ res' = res /\ pay' = pay
    BY <1>1 DEF BeginAutoApprove
  <2>2. \A r \in rows : res[r].status # Absent
    BY DEF Absent
  <2> HIDE DEF rows, hold
  <2> QED BY <2>1, <2>2, BeginOrdinary
<1>2. CASE CommitAutoApprove(w, g)
  <2>1. \A r \in Row : res'[r].status = Absent <=> res[r].status = Absent
    BY <1>2, AssignOrdinary DEF CommitAutoApprove
  <2>2. Begin(w, "notify", {}, StorageIds, Absent) /\ pay' = pay
    BY <1>2 DEF CommitAutoApprove
  <2> QED BY <2>1, <2>2, BeginOrdinary
<1>3. CASE SendCreateNotification(w, g)
  BY <1>3, EndOrdinary DEF SendCreateNotification
<1>4. CASE BeginGuestCancel(w, g)
  <2>1. \A r \in RowsOf(g) : res[r].status # Absent
    BY <1>4 DEF BeginGuestCancel, AllIn, GUEST_CANCEL_STATUSES, Absent
  <2> QED BY <1>4, <2>1, BeginOrdinary DEF BeginGuestCancel
<1>5. CASE CommitGuestCancel(w)
  BY <1>5, StatusOrdinary, EndOrdinary DEF CommitGuestCancel, Status
<1> QED BY <1>1, <1>2, <1>3, <1>4, <1>5

LEMMA RowOrdinary ==
    ASSUME TypeOK, Creation, NEW w \in Worker,
           RowStep(w), \A g \in Group : ~CreateOne(w, g)
    PROVE  Ordinary(w)
<1>1. ASSUME NEW r \in Row, BeginApprove(w, r)
      PROVE  Ordinary(w)
  <2>1. \A q \in {r} : res[q].status # Absent
    BY <1>1 DEF BeginApprove, assertCanApprove, Absent
  <2>2. PICK hold : Begin(w, "approve", {r}, hold, "confirmed")
    BY <1>1 DEF BeginApprove
  <2> QED BY <1>1, <2>1, <2>2, BeginOrdinary DEF BeginApprove
<1>2. ASSUME NEW r \in Row, NEW to \in Status, BeginUpdateStatus(w, r, to)
      PROVE  Ordinary(w)
  BY <1>2, BeginOrdinary DEF BeginUpdateStatus
<1>3. ASSUME NEW r \in Row, BeginStoreCheckin(w, r)
      PROVE  Ordinary(w)
  <2>1. \A q \in {r} : res[q].status # Absent
    BY <1>3 DEF BeginStoreCheckin, assertCanCheckin, Absent
  <2> QED BY <1>3, <2>1, BeginOrdinary DEF BeginStoreCheckin
<1>4. ASSUME NEW r \in Row, BeginCustomerCheckout(w, r)
      PROVE  Ordinary(w)
  <2>1. \A q \in {r} : res[q].status # Absent
    BY <1>4 DEF BeginCustomerCheckout, assertCanCheckout, Absent
  <2> QED BY <1>4, <2>1, BeginOrdinary DEF BeginCustomerCheckout
<1>5. CASE CommitApprove(w)
  BY <1>5, AssignOrdinary, EndOrdinary DEF CommitApprove
<1>6. CASE CommitUpdateStatus(w)
  <2>1. req[w].to \in Status
    BY <1>6 DEF CommitUpdateStatus, TypeOK
  <2> QED BY <1>6, <2>1, StatusOrdinary, EndOrdinary DEF CommitUpdateStatus
<1>7. CASE CommitStoreCheckin(w)
  BY <1>7, StatusOrdinary, EndOrdinary DEF CommitStoreCheckin, Status
<1>8. CASE CommitCustomerCheckout(w)
  BY <1>8, StatusOrdinary, EndOrdinary DEF CommitCustomerCheckout, Status
<1> QED BY <1>1, <1>2, <1>3, <1>4, <1>5, <1>6, <1>7, <1>8 DEF RowStep

LEMMA OwnerOrdinary ==
    ASSUME TypeOK, Creation, NEW w \in Worker, OwnerStep(w)
    PROVE  Ordinary(w)
<1>1. ASSUME NEW g \in Group, NEW op \in {"checkIn", "checkOut"}, NEW from,
             NEW to, Absent \notin from, BeginOwnerAction(w, g, op, from, to)
      PROVE  Ordinary(w)
  <2> DEFINE new == [Idle EXCEPT !.op = op, !.rows = RowsOf(g), !.to = to,
                      !.hold = [r \in Row |-> IF r \in RowsOf(g)
                                              THEN res[r].storage
                                              ELSE NoStorage],
                      !.settle = ~res[RepOf[g]].paid]
  <2>1. new.op = op /\ new.rows = RowsOf(g) /\ new.of = NoGroup
    BY DEF Idle
  <2>2. req' = [req EXCEPT ![w] = new] /\ res' = res /\ pay' = pay
    BY <1>1 DEF BeginOwnerAction
  <2>3. \A r \in RowsOf(g) : res[r].status # Absent
    BY <1>1 DEF BeginOwnerAction, AllIn
  <2> HIDE DEF new
  <2> QED BY <2>1, <2>2, <2>3 DEF Ordinary, TypeOK
<1>2. ASSUME NEW g \in Group, BeginCheckIn(w, g)
      PROVE  Ordinary(w)
  BY <1>1, <1>2 DEF BeginCheckIn, CHECK_IN_FROM, Absent
<1>3. ASSUME NEW g \in Group, BeginCheckOut(w, g)
      PROVE  Ordinary(w)
  BY <1>1, <1>3 DEF BeginCheckOut, CHECK_OUT_FROM, Absent
<1>4. ASSUME NEW g \in Group, BeginNoShow(w, g)
      PROVE  Ordinary(w)
  <2>1. \A r \in RowsOf(g) : res[r].status # Absent
    BY <1>4 DEF BeginNoShow, AllIn, NO_SHOW_FROM_STATUSES, Absent
  <2> QED BY <1>4, <2>1, BeginOrdinary DEF BeginNoShow
<1>5. ASSUME NEW to \in Status, OwnerWrite(w, to)
      PROVE  \A r \in Row : res'[r].status = Absent <=> res[r].status = Absent
  <2> TAKE r \in Row
  <2>1. CASE r \in req[w].rows
    <3>1. res'[r] = [res[r] EXCEPT !.status = to,
                                   !.paid = @ \/ req[w].settle]
      BY <1>5, <2>1 DEF OwnerWrite
    <3>2. res'[r].status = to
      BY <3>1 DEF TypeOK
    <3> QED BY <2>1, <3>2, AbsentIsNoStatus DEF Creation, ReadRows
  <2>2. CASE r \notin req[w].rows
    BY <1>5, <2>2 DEF OwnerWrite
  <2> QED BY <2>1, <2>2
<1>6. CASE CommitCheckIn(w)
  BY <1>5, <1>6, EndOrdinary DEF CommitCheckIn, Status
<1>7. CASE CommitCheckOut(w)
  BY <1>5, <1>7, EndOrdinary DEF CommitCheckOut, Status
<1>8. CASE CommitNoShow(w)
  BY <1>8, StatusOrdinary, EndOrdinary DEF CommitNoShow, Status
<1> QED BY <1>2, <1>3, <1>4, <1>6, <1>7, <1>8 DEF OwnerStep

LEMMA SweepOrdinary ==
    ASSUME TypeOK, Creation, NEW w \in Worker, SweepStep(w)
    PROVE  Ordinary(w)
<1>1. CASE BeginCleanup(w)
  <2>1. \A r \in {q \in Row : Expired(q)} : res[r].status # Absent
    BY DEF Expired, CLEANUP_FROM, Absent
  <2> QED BY <1>1, <2>1, BeginOrdinary DEF BeginCleanup
<1>2. CASE BeginAutoComplete(w)
  <2>1. \A r \in {q \in Row : Overdue(q)} : res[r].status # Absent
    BY DEF Overdue, AUTO_COMPLETE_FROM, Absent
  <2> QED BY <1>2, <2>1, BeginOrdinary DEF BeginAutoComplete
<1>3. CASE CommitCleanup(w)
  BY <1>3, StatusOrdinary, EndOrdinary DEF CommitCleanup, StillUnpaid, Status
<1>4. CASE CommitAutoComplete(w)
  BY <1>4, StatusOrdinary, EndOrdinary DEF CommitAutoComplete, StillOpen, Status
<1> QED BY <1>1, <1>2, <1>3, <1>4 DEF SweepStep

LEMMA StorageOrdinary ==
    ASSUME TypeOK, Creation, NEW w \in Worker, StorageStep(w)
    PROVE  Ordinary(w)
<1>1. ASSUME NEW s, NEW to, FindStorage(w, s, to)
      PROVE  Ordinary(w)
  <2> DEFINE new == [Idle EXCEPT !.op = "storageFound", !.unit = s, !.to = to]
  <2>1. new.op = "storageFound" /\ new.rows = {} /\ new.of = NoGroup
    BY DEF Idle
  <2>2. req' = [req EXCEPT ![w] = new] /\ res' = res /\ pay' = pay
    BY <1>1 DEF FindStorage
  <2> HIDE DEF new
  <2> QED BY <2>1, <2>2 DEF Ordinary, TypeOK
<1>2. CASE CheckStorageUnused(w)
  <2>1. req[w] \in Request /\ DOMAIN req = Worker
    BY DEF TypeOK
  <2>2. /\ req'[w].op = "storageChange" /\ req'[w].of = req[w].of
        /\ req'[w].rows = req[w].rows
        /\ \A v \in Worker \ {w} : req'[v] = req[v]
    BY <1>2, <2>1 DEF CheckStorageUnused, Request
  <2> QED BY <1>2, <2>2 DEF CheckStorageUnused, Ordinary, Creation, ReadRows
<1>3. CASE CommitStorageChange(w)
  BY <1>3, EndOrdinary DEF CommitStorageChange
<1> QED BY <1>1, <1>2, <1>3 DEF StorageStep

----------------------------------------------------------------------------
(* The steps that create a booking *)

\* A booking that exists has all its rows.
LEMMA ExistsAll ==
    ASSUME Creation, NEW g \in Group
    PROVE  \A r \in RowsOf(g) : res[r].status = Absent <=> ~Exists(g)
BY InputsAssumption DEF Creation, CreatedTogether, RowsOf, Exists

LEMMA AdvanceFacts ==
    ASSUME TypeOK, NEW w \in Worker, NEW g, NEW op, Advance(w, op, g)
    PROVE  /\ req'[w].op = op /\ req'[w].of = g /\ req'[w].rows = req[w].rows
           /\ \A v \in Worker \ {w} : req'[v] = req[v]
BY DEF TypeOK, Request, Advance

LEMMA BeginFacts ==
    ASSUME TypeOK, NEW w \in Worker, NEW op, NEW rows \in SUBSET Row,
           NEW hold, NEW to, Begin(w, op, rows, hold, to)
    PROVE  /\ req'[w].op = op /\ req'[w].rows = rows /\ req'[w].to = to
           /\ \A r \in rows : req'[w].hold[r] = hold[r]
           /\ req'[w].of = req[w].of /\ req'[w].late = req[w].late
           /\ \A v \in Worker \ {w} : req'[v] = req[v]
<1> DEFINE held == [r \in Row |-> IF r \in rows THEN hold[r] ELSE NoStorage]
           new == [Idle EXCEPT !.op = op, !.rows = rows, !.to = to,
                     !.hold = held, !.of = req[w].of, !.late = req[w].late]
<1>1. /\ new.op = op /\ new.rows = rows /\ new.to = to /\ new.hold = held
      /\ new.of = req[w].of /\ new.late = req[w].late
  BY DEF Idle
<1>2. req' = [req EXCEPT ![w] = new]
  BY DEF Begin
<1>3. \A r \in rows : held[r] = hold[r]
  OBVIOUS
<1> HIDE DEF new, held
<1> QED BY <1>1, <1>2, <1>3 DEF TypeOK

LEMMA EndFacts ==
    ASSUME TypeOK, NEW w \in Worker, End(w)
    PROVE  /\ req'[w].op = "idle" /\ req'[w].rows = {}
           /\ \A v \in Worker \ {w} : req'[v] = req[v]
BY DEF End, TypeOK, Idle

LEMMA PrecheckKeeps ==
    ASSUME TypeOK, Creation, PaymentBacksOneBooking,
           NEW w \in Worker, NEW g \in Group,
           PrecheckGuest(w, g) \/ BeginCreateGuest(w, g)
    PROVE  Creation' /\ PaymentBacksOneBooking'
<1>1. res' = res /\ pay' = pay
  BY DEF PrecheckGuest, BeginCreateGuest
<1>2. PICK op \in {"precheck", "insert"} : Advance(w, op, g)
  BY DEF PrecheckGuest, BeginCreateGuest
<1>3. /\ req'[w].op = op /\ req'[w].of = g /\ req'[w].rows = req[w].rows
      /\ \A v \in Worker \ {w} : req'[v] = req[v]
  BY <1>2, AdvanceFacts
<1>4. /\ SourceOf[g] = "guest" /\ ~Exists(g)
      /\ \A v \in Worker \ {w} : req[v].of # g
  BY DEF PrecheckGuest, BeginCreateGuest, Creation, OneCreator
<1>5. CreatedTogether' /\ PaymentBacksOneBooking'
  BY <1>1 DEF Creation, CreatedTogether, PaymentBacksOneBooking, Exists
<1>6. ReadRows'
  BY <1>1, <1>3 DEF Creation, ReadRows
<1>7. OneCreator'
  <2> SUFFICES ASSUME NEW v \in Worker
               PROVE  /\ req'[v].op = "idle" => req'[v].of = NoGroup
                      /\ req'[v].of \in Group =>
                            \A u \in Worker \ {v} : req'[u].of # req'[v].of
                      /\ req'[v].op \in {"precheck", "insert"} =>
                            /\ req'[v].of \in Group
                            /\ SourceOf[req'[v].of] = "guest"
                            /\ res[RepOf[req'[v].of]].status = Absent
    BY <1>1 DEF OneCreator, Exists
  <2>1. CASE v = w
    BY <1>2, <1>3, <1>4, <2>1 DEF Exists
  <2>2. CASE v # w
    BY <1>3, <1>4, <2>2 DEF Creation, OneCreator, Exists
  <2> QED BY <2>1, <2>2
<1> QED BY <1>5, <1>6, <1>7 DEF Creation

\* The insertion: no other request creates the booking, and the payment was
\* nobody's.
LEMMA CommitCreateKeeps ==
    ASSUME TypeOK, Creation, PaymentBacksOneBooking,
           NEW w \in Worker, NEW g \in Group, CommitCreateGuest(w, g)
    PROVE  Creation' /\ PaymentBacksOneBooking'
<1>1. CASE ~PaymentStillFree(g)
  <2>1. End(w) /\ res' = res /\ pay' = pay
    BY <1>1 DEF CommitCreateGuest
  <2>2. Ordinary(w)
    BY <2>1, EndOrdinary
  <2>3. ReqTyped'
    BY <2>1, TypeOKParts, EndTyped
  <2> QED BY <2>2, <2>3, OrdinaryKeeps
<1>2. CASE PaymentStillFree(g)
  <2>1. \A r \in Row : res'[r].status =
                         IF r \in RowsOf(g) THEN "pending" ELSE res[r].status
    BY <1>2 DEF CommitCreateGuest
  <2>2. pay' = [x \in Payment |-> IF x = PaymentOf[g] THEN g ELSE pay[x]]
    BY <1>2 DEF CommitCreateGuest
  <2>3. /\ req'[w].op = "created" /\ req'[w].of = g /\ req'[w].rows = req[w].rows
        /\ \A v \in Worker \ {w} : req'[v] = req[v]
    BY <1>2, AdvanceFacts DEF CommitCreateGuest
  <2>4. /\ \A v \in Worker \ {w} : req[v].of # g
        /\ \A r \in RowsOf(g) : res[r].status = Absent
    BY ExistsAll DEF CommitCreateGuest, Creation, OneCreator
  <2>5. \A r \in Row : r \in RowsOf(g) <=> GroupOf[r] = g
    BY DEF RowsOf
  <2>6. \A h \in Group : RepOf[h] \in Row /\ (RepOf[h] \in RowsOf(g) <=> h = g)
    BY InputsAssumption DEF RowsOf
  <2>7. CreatedTogether'
    BY <2>1, <2>5 DEF Creation, CreatedTogether, Absent
  <2>8. ReadRows'
    <3> SUFFICES ASSUME NEW v \in Worker, NEW r \in req[v].rows
                 PROVE  res'[r].status # Absent
      BY <2>3 DEF ReadRows
    <3>1. r \in Row /\ res[r].status # Absent
      BY DEF Creation, ReadRows, TypeOK, Request
    <3> QED BY <2>1, <2>4, <3>1
  <2>9. OneCreator'
    <3> SUFFICES ASSUME NEW v \in Worker
                 PROVE  /\ req'[v].op = "idle" => req'[v].of = NoGroup
                        /\ req'[v].of \in Group =>
                              \A u \in Worker \ {v} : req'[u].of # req'[v].of
                        /\ req'[v].op \in {"precheck", "insert"} =>
                              /\ req'[v].of \in Group
                              /\ SourceOf[req'[v].of] = "guest"
                              /\ res'[RepOf[req'[v].of]].status = Absent
      BY DEF OneCreator, Exists
    <3>1. CASE v = w
      BY <2>3, <2>4, <3>1
    <3>2. CASE v # w
      BY <2>1, <2>3, <2>4, <2>6, <3>2 DEF Creation, OneCreator, Exists
    <3> QED BY <3>1, <3>2
  <2>10. PaymentBacksOneBooking'
    <3> SUFFICES ASSUME NEW h \in Group, PaymentOf[h] # NoPayment
                 PROVE  res'[RepOf[h]].status # Absent <=> pay'[PaymentOf[h]] = h
      BY DEF PaymentBacksOneBooking, Exists
    <3>1. PaymentOf[h] \in Payment
      BY InputsAssumption
    <3>2. CASE h = g
      BY <2>1, <2>2, <2>6, <3>1, <3>2 DEF Absent
    <3>3. CASE h # g /\ PaymentOf[h] = PaymentOf[g]
      BY <1>2, <2>1, <2>2, <2>6, <3>1, <3>3, StoragesAssumption
         DEF PaymentBacksOneBooking, Exists, PaymentStillFree
    <3>4. CASE h # g /\ PaymentOf[h] # PaymentOf[g]
      BY <2>1, <2>2, <2>6, <3>1, <3>4 DEF PaymentBacksOneBooking, Exists
    <3> QED BY <3>2, <3>3, <3>4
  <2> QED BY <2>7, <2>8, <2>9, <2>10 DEF Creation
<1> QED BY <1>1, <1>2

\* A single-row booking of a customer or of the store: no guest's request is
\* concerned.
LEMMA CreateOneKeeps ==
    ASSUME TypeOK, Creation, PaymentBacksOneBooking,
           NEW w \in Worker, NEW g \in Group, CreateOne(w, g)
    PROVE  Creation' /\ PaymentBacksOneBooking'
<1> DEFINE new == [Idle EXCEPT !.op = "createdOne", !.rows = {RepOf[g]},
                     !.to = "confirmed",
                     !.hold = [r \in Row |-> IF r \in {RepOf[g]}
                                             THEN StorageIds[r] ELSE NoStorage],
                     !.of = req[w].of, !.late = req[w].late]
<1>1. new.op = "createdOne" /\ new.rows = {RepOf[g]} /\ new.of = req[w].of
  BY DEF Idle
<1>2. req' = [req EXCEPT ![w] = new] /\ pay' = pay
  BY DEF CreateOne, Begin
<1> HIDE DEF new
<1>3. /\ req'[w].op = "createdOne" /\ req'[w].rows = {RepOf[g]}
      /\ req'[w].of = NoGroup
      /\ \A v \in Worker \ {w} : req'[v] = req[v]
  BY <1>1, <1>2 DEF TypeOK, CreateOne, Accepts, Creation, OneCreator
<1>4. /\ SourceOf[g] # "guest" /\ RowsOf(g) = {RepOf[g]} /\ PaymentOf[g] = NoPayment
      /\ RepOf[g] \in Row /\ GroupOf[RepOf[g]] = g
  BY InputsAssumption DEF CreateOne
<1>5. \A r \in Row : res'[r].status =
                       IF r = RepOf[g] THEN "pending" ELSE res[r].status
  BY <1>4 DEF CreateOne, TypeOK
<1>6. \A h \in Group : RepOf[h] \in Row /\ (RepOf[h] = RepOf[g] <=> h = g)
  BY InputsAssumption
<1>7. CreatedTogether'
  BY <1>4, <1>5 DEF Creation, CreatedTogether, RowsOf, Absent
<1>8. ReadRows'
  <2> SUFFICES ASSUME NEW v \in Worker, NEW r \in req'[v].rows
               PROVE  res'[r].status # Absent
    BY DEF ReadRows
  <2>1. CASE v = w
    BY <1>3, <1>4, <1>5, <2>1 DEF Absent
  <2>2. CASE v # w
    <3>1. r \in Row /\ res[r].status # Absent
      BY <1>3, <2>2 DEF Creation, ReadRows, TypeOK, Request
    <3> QED BY <1>5, <3>1 DEF Absent
  <2> QED BY <2>1, <2>2
<1>9. OneCreator'
  <2> SUFFICES ASSUME NEW v \in Worker
               PROVE  /\ req'[v].op = "idle" => req'[v].of = NoGroup
                      /\ req'[v].of \in Group =>
                            \A u \in Worker \ {v} : req'[u].of # req'[v].of
                      /\ req'[v].op \in {"precheck", "insert"} =>
                            /\ req'[v].of \in Group
                            /\ SourceOf[req'[v].of] = "guest"
                            /\ res'[RepOf[req'[v].of]].status = Absent
    BY DEF OneCreator, Exists
  <2>1. CASE v = w
    BY <1>3, <2>1, StoragesAssumption
  <2>2. CASE v # w
    BY <1>3, <1>4, <1>5, <1>6, <2>2, StoragesAssumption
       DEF Creation, OneCreator, Exists
  <2> QED BY <2>1, <2>2
<1>10. PaymentBacksOneBooking'
  BY <1>2, <1>4, <1>5, <1>6 DEF PaymentBacksOneBooking, Exists
<1> QED BY <1>7, <1>8, <1>9, <1>10 DEF Creation

\* The clock and the end of a request.
LEMMA TickKeeps ==
    ASSUME TypeOK, Creation, PaymentBacksOneBooking, Tick
    PROVE  Creation' /\ PaymentBacksOneBooking'
<1>1. \A v \in Worker : /\ req'[v].op = req[v].op /\ req'[v].of = req[v].of
                        /\ req'[v].rows = req[v].rows
  BY DEF Tick, TypeOK, Request
<1>2. res' = res /\ pay' = pay
  BY DEF Tick
<1> QED BY <1>1, <1>2 DEF Creation, CreatedTogether, OneCreator, ReadRows,
                         PaymentBacksOneBooking, Exists

LEMMA CreationStep ==
    ASSUME TypeOK, Creation, PaymentBacksOneBooking, [Next]_vars
    PROVE  Creation' /\ PaymentBacksOneBooking'
<1>1. ReqTyped'
  BY StepTyped DEF TypeOK, ReqTyped
<1>2. CASE UNCHANGED vars
  BY <1>2 DEF vars, Creation, CreatedTogether, OneCreator, ReadRows,
              PaymentBacksOneBooking, Exists
<1>3. CASE Tick
  BY <1>3, TickKeeps
<1>4. ASSUME NEW w \in Worker, GuestStep(w)
      PROVE  Creation' /\ PaymentBacksOneBooking'
  BY <1>1, <1>4, GuestOrdinary, OrdinaryKeeps, PrecheckKeeps, CommitCreateKeeps
     DEF GuestStep
<1>5. ASSUME NEW w \in Worker, RowStep(w)
      PROVE  Creation' /\ PaymentBacksOneBooking'
  BY <1>1, <1>5, RowOrdinary, OrdinaryKeeps, CreateOneKeeps
<1>6. ASSUME NEW w \in Worker,
             OwnerStep(w) \/ SweepStep(w) \/ StorageStep(w) \/ AbortRequest(w)
      PROVE  Creation' /\ PaymentBacksOneBooking'
  <2>1. CASE AbortRequest(w)
    BY <1>1, <2>1, EndOrdinary, OrdinaryKeeps DEF AbortRequest
  <2> QED BY <1>1, <1>6, <2>1, OwnerOrdinary, SweepOrdinary, StorageOrdinary,
             OrdinaryKeeps
<1> QED BY <1>2, <1>3, <1>4, <1>5, <1>6 DEF Next

LEMMA CreationInit == Init => Creation /\ PaymentBacksOneBooking
<1> SUFFICES ASSUME Init PROVE Creation /\ PaymentBacksOneBooking
  OBVIOUS
<1>1. \A w \in Worker : req[w].op = "idle" /\ req[w].of = NoGroup /\ req[w].rows = {}
  BY DEF Init, Idle
<1>2. \A r \in Row : res[r].status = Absent
  BY DEF Init
<1> QED BY <1>1, <1>2, InputsAssumption, StoragesAssumption
        DEF Creation, CreatedTogether, OneCreator, ReadRows,
            PaymentBacksOneBooking, Exists, Init

THEOREM CreatedOnce == Spec => []Creation
BY TypeCorrect, StepTyped, CreationInit, CreationStep, PTL DEF Spec

\* However many requests give one paymentKey, and whatever they interleave with,
\* the payment is attached to the one booking that was created with it.
THEOREM PaymentCorrect == Spec => []PaymentBacksOneBooking
BY TypeCorrect, CreationInit, CreationStep, PTL DEF Spec

----------------------------------------------------------------------------
(* The rows of a booking move together *)

\* A set of rows that has all the rows of a booking or none, for the bookings
\* outside G.
WholeBut(rows, G) ==
    \A r1, r2 \in Row :
        GroupOf[r1] = GroupOf[r2] /\ GroupOf[r1] \notin G =>
            (r1 \in rows <=> r2 \in rows)

\* A request of an endpoint for bookings writes whole bookings, except those a
\* single-row endpoint has touched; the owner's link, those too.
WholeRequests ==
    \A w \in Worker :
        /\ req[w].op \notin RowOps => WholeBut(req[w].rows, singled)
        /\ req[w].op \in {"checkIn", "checkOut"} => WholeBut(req[w].rows, {})

\* GroupsMoveTogether, over pairs of rows.
Uniform ==
    \A r1, r2 \in Row : GroupOf[r1] = GroupOf[r2] =>
        /\ res[r1].paid = res[r2].paid
        /\ GroupOf[r1] \notin singled => res[r1].status = res[r2].status

LEMMA UniformIsTogether == TypeOK => (Uniform <=> GroupsMoveTogether)
BY InputsAssumption DEF Uniform, GroupsMoveTogether, RowsOf

LEMMA WholeStep ==
    ASSUME WholeRequests, NEW w \in Worker, singled \subseteq singled',
           \A v \in Worker \ {w} : req'[v] = req[v],
           req'[w].op \notin RowOps => WholeBut(req'[w].rows, singled'),
           req'[w].op \in {"checkIn", "checkOut"} => WholeBut(req'[w].rows, {})
    PROVE  WholeRequests'
BY DEF WholeRequests, WholeBut

LEMMA WholeBegin ==
    ASSUME TypeOK, WholeRequests, NEW w \in Worker,
           NEW op, op \notin {"checkIn", "checkOut"},
           NEW rows, op \in RowOps \/ WholeBut(rows, singled),
           NEW hold, NEW to, Begin(w, op, rows, hold, to), singled' = singled
    PROVE  WholeRequests'
<1> DEFINE new == [Idle EXCEPT !.op = op, !.rows = rows, !.to = to,
                     !.hold = [r \in Row |-> IF r \in rows THEN hold[r]
                                             ELSE NoStorage],
                     !.of = req[w].of, !.late = req[w].late]
<1>1. new.op = op /\ new.rows = rows
  BY DEF Idle
<1>2. req' = [req EXCEPT ![w] = new]
  BY DEF Begin
<1> HIDE DEF new
<1>3. /\ req'[w].op = op /\ req'[w].rows = rows
      /\ \A v \in Worker \ {w} : req'[v] = req[v]
  BY <1>1, <1>2 DEF TypeOK
<1> QED BY <1>3, WholeStep

LEMMA WholeEnd ==
    ASSUME TypeOK, WholeRequests, NEW w \in Worker, End(w),
           singled \subseteq singled'
    PROVE  WholeRequests'
<1>1. Idle.op = "idle" /\ Idle.rows = {}
  BY DEF Idle
<1>2. /\ req'[w] = Idle
      /\ \A v \in Worker \ {w} : req'[v] = req[v]
  BY DEF End, TypeOK
<1>3. WholeBut({}, singled')
  BY DEF WholeBut
<1> QED BY <1>1, <1>2, <1>3, WholeStep

LEMMA WholeAdvance ==
    ASSUME TypeOK, WholeRequests, NEW w \in Worker, req[w].op \notin RowOps,
           NEW g, NEW op \in {"precheck", "insert", "created"},
           Advance(w, op, g), singled' = singled
    PROVE  WholeRequests'
<1>1. /\ req'[w].op = op /\ req'[w].rows = req[w].rows
      /\ \A v \in Worker \ {w} : req'[v] = req[v]
  BY AdvanceFacts
<1> QED BY <1>1, WholeStep DEF WholeRequests

LEMMA WholeGroup ==
    ASSUME NEW g, NEW G
    PROVE  WholeBut(RowsOf(g), G)
BY DEF WholeBut, RowsOf

\* Rows that take one status together.
LEMMA UniformRewrite ==
    ASSUME Uniform, NEW rows, NEW to, singled \subseteq singled',
           \A r \in Row : /\ res'[r].status = IF r \in rows THEN to
                                              ELSE res[r].status
                          /\ res'[r].paid = res[r].paid,
           WholeBut(rows, singled')
    PROVE  Uniform'
BY DEF Uniform, WholeBut

LEMMA SetStatusFacts ==
    ASSUME TypeOK, NEW rows, NEW to, SetStatus(rows, to)
    PROVE  \A r \in Row : /\ res'[r].status = IF r \in rows THEN to
                                              ELSE res[r].status
                          /\ res'[r].paid = res[r].paid
BY DEF SetStatus, TypeOK

LEMMA UniformStatus ==
    ASSUME TypeOK, Uniform, NEW rows, NEW to, SetStatus(rows, to),
           singled' = singled, WholeBut(rows, singled)
    PROVE  Uniform'
BY SetStatusFacts, UniformRewrite

\* Single-row endpoints are remembered in singled.
LEMMA WriteSingleWhole ==
    ASSUME TypeOK, NEW w \in Worker, WriteSingle(req[w].rows)
    PROVE  singled \subseteq singled' /\ WholeBut(req[w].rows, singled')
BY InputsAssumption DEF WriteSingle, WholeBut, TypeOK, Request

LEMMA UniformSingle ==
    ASSUME TypeOK, Uniform, NEW w \in Worker, NEW to,
           SetStatus(req[w].rows, to), WriteSingle(req[w].rows)
    PROVE  Uniform'
<1>1. singled \subseteq singled' /\ WholeBut(req[w].rows, singled')
  BY WriteSingleWhole
<1>2. \A r \in Row : /\ res'[r].status = IF r \in req[w].rows THEN to
                                         ELSE res[r].status
                     /\ res'[r].paid = res[r].paid
  BY SetStatusFacts
<1> QED BY <1>1, <1>2, UniformRewrite

\* Confirming rows changes their status and storage.
LEMMA AssignFacts ==
    ASSUME TypeOK, NEW w \in Worker,
           res' = [r \in Row |->
                     IF r \in req[w].rows
                     THEN [res[r] EXCEPT !.status = "confirmed",
                                         !.storage = req[w].hold[r]]
                     ELSE res[r]]
    PROVE  \A r \in Row : /\ res'[r].status = IF r \in req[w].rows THEN "confirmed"
                                              ELSE res[r].status
                          /\ res'[r].paid = res[r].paid
BY DEF TypeOK

LEMMA UniformUnchanged ==
    ASSUME Uniform, res' = res, singled' = singled
    PROVE  Uniform'
BY DEF Uniform

LEMMA GuestTogether ==
    ASSUME TypeOK, Uniform, WholeRequests, NEW w \in Worker, GuestStep(w)
    PROVE  Uniform' /\ WholeRequests'
<1>1. ASSUME NEW g, PrecheckGuest(w, g) \/ BeginCreateGuest(w, g)
      PROVE  Uniform' /\ WholeRequests'
  <2>1. res' = res /\ singled' = singled /\ req[w].op \notin RowOps
    BY <1>1 DEF PrecheckGuest, BeginCreateGuest, Accepts, RowOps
  <2>2. PICK op \in {"precheck", "insert"} : Advance(w, op, g)
    BY <1>1 DEF PrecheckGuest, BeginCreateGuest
  <2> QED BY <2>1, <2>2, UniformUnchanged, WholeAdvance
<1>2. ASSUME NEW g \in Group, CommitCreateGuest(w, g)
      PROVE  Uniform' /\ WholeRequests'
  <2>1. req[w].op \notin RowOps /\ singled' = singled
    BY <1>2 DEF CommitCreateGuest, RowOps
  <2>2. CASE ~PaymentStillFree(g)
    BY <1>2, <2>1, <2>2, WholeEnd, UniformUnchanged DEF CommitCreateGuest
  <2>3. CASE PaymentStillFree(g)
    <3> DEFINE isPaid == PaymentOf[g] # NoPayment
    <3>1. /\ Advance(w, "created", g)
          /\ res' = [r \in Row |->
                       IF r \in RowsOf(g)
                       THEN [status |-> "pending", storage |-> NoStorage,
                             paid |-> isPaid]
                       ELSE res[r]]
      BY <1>2, <2>3 DEF CommitCreateGuest
    <3> HIDE DEF isPaid
    <3>2. \A r \in Row :
             /\ r \in RowsOf(g) => res'[r].status = "pending" /\ res'[r].paid = isPaid
             /\ r \notin RowsOf(g) => res'[r] = res[r]
      BY <3>1
    <3>3. Uniform'
      BY <2>1, <3>2 DEF Uniform, RowsOf
    <3> QED BY <2>1, <3>1, <3>3, WholeAdvance
  <2> QED BY <2>2, <2>3
<1>3. ASSUME NEW g, BeginAutoApprove(w, g)
      PROVE  Uniform' /\ WholeRequests'
  <2> DEFINE rows == {r \in RowsOf(g) : res[r].status = "pending"}
             hold == [r \in Row |-> findStorageForReservation(r)]
  <2>1. /\ Begin(w, "autoApprove", rows, hold, "confirmed")
        /\ res' = res /\ singled' = singled
    BY <1>3 DEF BeginAutoApprove
  <2>2. WholeBut(rows, singled)
    BY DEF Uniform, WholeBut, RowsOf
  <2> HIDE DEF rows, hold
  <2> QED BY <2>1, <2>2, UniformUnchanged, WholeBegin
<1>4. ASSUME NEW g, CommitAutoApprove(w, g)
      PROVE  Uniform' /\ WholeRequests'
  <2>1. /\ WholeBut(req[w].rows, singled)
        /\ singled' = singled
        /\ Begin(w, "notify", {}, StorageIds, Absent)
    BY <1>4 DEF CommitAutoApprove, WholeRequests, RowOps
  <2>2. \A r \in Row : /\ res'[r].status = IF r \in req[w].rows THEN "confirmed"
                                           ELSE res[r].status
                       /\ res'[r].paid = res[r].paid
    BY <1>4, AssignFacts DEF CommitAutoApprove
  <2>3. WholeBut({}, singled)
    BY DEF WholeBut
  <2> QED BY <2>1, <2>2, <2>3, UniformRewrite, WholeBegin
<1>5. ASSUME NEW g, SendCreateNotification(w, g)
      PROVE  Uniform' /\ WholeRequests'
  BY <1>5, WholeEnd, UniformUnchanged DEF SendCreateNotification
<1>6. ASSUME NEW g, BeginGuestCancel(w, g)
      PROVE  Uniform' /\ WholeRequests'
  BY <1>6, WholeBegin, WholeGroup, UniformUnchanged DEF BeginGuestCancel
<1>7. CASE CommitGuestCancel(w)
  BY <1>7, WholeEnd, UniformStatus DEF CommitGuestCancel, WholeRequests, RowOps
<1> QED BY <1>1, <1>2, <1>3, <1>4, <1>5, <1>6, <1>7 DEF GuestStep

LEMMA RowTogether ==
    ASSUME TypeOK, Uniform, WholeRequests, NEW w \in Worker, RowStep(w)
    PROVE  Uniform' /\ WholeRequests'
<1>1. ASSUME NEW g \in Group, CreateOne(w, g)
      PROVE  Uniform' /\ WholeRequests'
  <2>1. /\ Begin(w, "createdOne", {RepOf[g]}, StorageIds, "confirmed")
        /\ singled' = singled
    BY <1>1 DEF CreateOne
  <2>2. \A r1, r2 \in Row : GroupOf[r1] = g /\ GroupOf[r2] = g => r1 = r2
    BY <1>1, InputsAssumption DEF CreateOne, RowsOf
  <2>3. \A r \in Row : GroupOf[r] # g => res'[r] = res[r]
    BY <1>1, InputsAssumption DEF CreateOne, TypeOK
  <2>4. Uniform'
    BY <2>1, <2>2, <2>3 DEF Uniform
  <2> QED BY <2>1, <2>4, WholeBegin DEF RowOps
<1>2. ASSUME NEW r \in Row, BeginApprove(w, r)
      PROVE  Uniform' /\ WholeRequests'
  <2>1. PICK hold : Begin(w, "approve", {r}, hold, "confirmed")
    BY <1>2 DEF BeginApprove
  <2> QED BY <1>2, <2>1, WholeBegin, UniformUnchanged DEF BeginApprove, RowOps
<1>3. ASSUME NEW r \in Row, NEW to \in Status, BeginUpdateStatus(w, r, to)
      PROVE  Uniform' /\ WholeRequests'
  BY <1>3, WholeBegin, UniformUnchanged DEF BeginUpdateStatus, RowOps
<1>4. ASSUME NEW r \in Row, BeginStoreCheckin(w, r)
      PROVE  Uniform' /\ WholeRequests'
  BY <1>4, WholeBegin, UniformUnchanged DEF BeginStoreCheckin, RowOps
<1>5. ASSUME NEW r \in Row, BeginCustomerCheckout(w, r)
      PROVE  Uniform' /\ WholeRequests'
  BY <1>5, WholeBegin, UniformUnchanged DEF BeginCustomerCheckout, RowOps
<1>6. CASE CommitApprove(w)
  <2>1. /\ End(w) /\ singled \subseteq singled'
        /\ WholeBut(req[w].rows, singled')
    BY <1>6, WriteSingleWhole DEF CommitApprove
  <2>2. \A r \in Row : /\ res'[r].status = IF r \in req[w].rows THEN "confirmed"
                                           ELSE res[r].status
                       /\ res'[r].paid = res[r].paid
    BY <1>6, AssignFacts DEF CommitApprove
  <2> QED BY <2>1, <2>2, UniformRewrite, WholeEnd
<1>7. CASE CommitUpdateStatus(w)
  BY <1>7, UniformSingle, WriteSingleWhole, WholeEnd DEF CommitUpdateStatus
<1>8. CASE CommitStoreCheckin(w)
  BY <1>8, UniformSingle, WriteSingleWhole, WholeEnd DEF CommitStoreCheckin
<1>9. CASE CommitCustomerCheckout(w)
  BY <1>9, UniformSingle, WriteSingleWhole, WholeEnd DEF CommitCustomerCheckout
<1> QED BY <1>1, <1>2, <1>3, <1>4, <1>5, <1>6, <1>7, <1>8, <1>9 DEF RowStep

LEMMA OwnerTogether ==
    ASSUME TypeOK, Uniform, WholeRequests, NEW w \in Worker, OwnerStep(w)
    PROVE  Uniform' /\ WholeRequests'
<1>1. ASSUME NEW g, NEW op, NEW from, NEW to, BeginOwnerAction(w, g, op, from, to)
      PROVE  Uniform' /\ WholeRequests'
  <2> DEFINE new == [Idle EXCEPT !.op = op, !.rows = RowsOf(g), !.to = to,
                      !.hold = [r \in Row |-> IF r \in RowsOf(g)
                                              THEN res[r].storage
                                              ELSE NoStorage],
                      !.settle = ~res[RepOf[g]].paid]
  <2>1. new.rows = RowsOf(g)
    BY DEF Idle
  <2>2. req' = [req EXCEPT ![w] = new] /\ res' = res /\ singled' = singled
    BY <1>1 DEF BeginOwnerAction
  <2> HIDE DEF new
  <2>3. req'[w].rows = RowsOf(g) /\ \A v \in Worker \ {w} : req'[v] = req[v]
    BY <2>1, <2>2 DEF TypeOK
  <2> QED BY <2>2, <2>3, WholeGroup, WholeStep, UniformUnchanged
<1>2. ASSUME NEW g, BeginCheckIn(w, g) \/ BeginCheckOut(w, g)
      PROVE  Uniform' /\ WholeRequests'
  BY <1>1, <1>2 DEF BeginCheckIn, BeginCheckOut
<1>3. ASSUME NEW g, BeginNoShow(w, g)
      PROVE  Uniform' /\ WholeRequests'
  BY <1>3, WholeBegin, WholeGroup, UniformUnchanged DEF BeginNoShow
<1>4. ASSUME NEW to, OwnerWrite(w, to), WholeBut(req[w].rows, {}),
             singled' = singled
      PROVE  Uniform'
  <2> DEFINE paid(r) == res[r].paid \/ req[w].settle
  <2>1. \A r \in Row :
           res'[r] = IF r \in req[w].rows
                     THEN [res[r] EXCEPT !.status = to, !.paid = paid(r)]
                     ELSE res[r]
    BY <1>4 DEF OwnerWrite
  <2>2. \A r1, r2 \in Row : res[r1].paid = res[r2].paid => paid(r1) = paid(r2)
    OBVIOUS
  <2> HIDE DEF paid
  <2>3. \A r \in Row :
           /\ r \in req[w].rows => res'[r].status = to /\ res'[r].paid = paid(r)
           /\ r \notin req[w].rows => res'[r] = res[r]
    BY <2>1 DEF TypeOK
  <2> QED BY <1>4, <2>2, <2>3 DEF Uniform, WholeBut
<1>5. CASE CommitCheckIn(w)
  <2>1. WholeBut(req[w].rows, {}) /\ singled' = singled
    BY <1>5 DEF CommitCheckIn, WholeRequests
  <2> QED BY <1>4, <1>5, <2>1, UniformUnchanged, WholeEnd DEF CommitCheckIn
<1>6. CASE CommitCheckOut(w)
  <2>1. WholeBut(req[w].rows, {}) /\ singled' = singled
    BY <1>6 DEF CommitCheckOut, WholeRequests
  <2> QED BY <1>4, <1>6, <2>1, UniformUnchanged, WholeEnd DEF CommitCheckOut
<1>7. CASE CommitNoShow(w)
  <2>1. WholeBut(req[w].rows, singled) /\ singled' = singled
    BY <1>7 DEF CommitNoShow, WholeRequests, RowOps
  <2> QED BY <1>7, <2>1, UniformStatus, UniformUnchanged, WholeEnd DEF CommitNoShow
<1> QED BY <1>2, <1>3, <1>5, <1>6, <1>7 DEF OwnerStep

LEMMA SweepTogether ==
    ASSUME TypeOK, Uniform, WholeRequests, NEW w \in Worker, SweepStep(w)
    PROVE  Uniform' /\ WholeRequests'
<1>1. CASE BeginCleanup(w)
  <2>1. WholeBut({r \in Row : Expired(r)}, singled)
    BY DEF WholeBut, Expired, Uniform
  <2> QED BY <1>1, <2>1, WholeBegin, UniformUnchanged DEF BeginCleanup
<1>2. CASE BeginAutoComplete(w)
  <2>1. WholeBut({r \in Row : Overdue(r)}, singled)
    BY DEF WholeBut, Overdue, Uniform
  <2> QED BY <1>2, <2>1, WholeBegin, UniformUnchanged DEF BeginAutoComplete
<1>3. CASE CommitCleanup(w)
  <2>1. WholeBut(req[w].rows, singled)
    BY <1>3 DEF CommitCleanup, WholeRequests, RowOps
  <2>2. WholeBut(StillUnpaid(w), singled)
    BY <2>1 DEF WholeBut, StillUnpaid, Uniform
  <2> QED BY <1>3, <2>2, UniformStatus, WholeEnd DEF CommitCleanup
<1>4. CASE CommitAutoComplete(w)
  <2>1. WholeBut(req[w].rows, singled)
    BY <1>4 DEF CommitAutoComplete, WholeRequests, RowOps
  <2>2. WholeBut(StillOpen(w), singled)
    BY <2>1 DEF WholeBut, StillOpen, Uniform
  <2> QED BY <1>4, <2>2, UniformStatus, WholeEnd DEF CommitAutoComplete
<1> QED BY <1>1, <1>2, <1>3, <1>4 DEF SweepStep

LEMMA StorageTogether ==
    ASSUME TypeOK, Uniform, WholeRequests, NEW w \in Worker, StorageStep(w)
    PROVE  Uniform' /\ WholeRequests'
<1>1. ASSUME NEW s, NEW to, FindStorage(w, s, to)
      PROVE  Uniform' /\ WholeRequests'
  <2> DEFINE new == [Idle EXCEPT !.op = "storageFound", !.unit = s, !.to = to]
  <2>1. new.op = "storageFound" /\ new.rows = {}
    BY DEF Idle
  <2>2. req' = [req EXCEPT ![w] = new] /\ res' = res /\ singled' = singled
    BY <1>1 DEF FindStorage
  <2> HIDE DEF new
  <2>3. /\ req'[w].op = "storageFound" /\ req'[w].rows = {}
        /\ \A v \in Worker \ {w} : req'[v] = req[v]
    BY <2>1, <2>2 DEF TypeOK
  <2>4. WholeBut({}, singled')
    BY DEF WholeBut
  <2> QED BY <2>2, <2>3, <2>4, WholeStep, UniformUnchanged
<1>2. CASE CheckStorageUnused(w)
  <2>1. /\ req'[w].op = "storageChange" /\ req'[w].rows = req[w].rows
        /\ \A v \in Worker \ {w} : req'[v] = req[v]
    BY <1>2 DEF CheckStorageUnused, TypeOK, Request
  <2>2. WholeBut(req[w].rows, singled)
    BY <1>2 DEF CheckStorageUnused, WholeRequests, RowOps
  <2> QED BY <1>2, <2>1, <2>2, WholeStep, UniformUnchanged DEF CheckStorageUnused
<1>3. CASE CommitStorageChange(w)
  BY <1>3, WholeEnd, UniformUnchanged DEF CommitStorageChange
<1> QED BY <1>1, <1>2, <1>3 DEF StorageStep

LEMMA TogetherStep ==
    TypeOK /\ Uniform /\ WholeRequests /\ [Next]_vars => Uniform' /\ WholeRequests'
<1> SUFFICES ASSUME TypeOK, Uniform, WholeRequests, [Next]_vars
             PROVE  Uniform' /\ WholeRequests'
  OBVIOUS
<1>1. CASE UNCHANGED vars
  BY <1>1 DEF vars, Uniform, WholeRequests, WholeBut
<1>2. CASE Tick
  <2>1. \A v \in Worker : req'[v].op = req[v].op /\ req'[v].rows = req[v].rows
    BY <1>2 DEF Tick, TypeOK, Request
  <2>2. res' = res /\ singled' = singled
    BY <1>2 DEF Tick
  <2> QED BY <2>1, <2>2, UniformUnchanged DEF WholeRequests, WholeBut
<1>3. ASSUME NEW w \in Worker, AbortRequest(w)
      PROVE  Uniform' /\ WholeRequests'
  BY <1>3, WholeEnd, UniformUnchanged DEF AbortRequest
<1> QED BY <1>1, <1>2, <1>3, GuestTogether, RowTogether, OwnerTogether,
           SweepTogether, StorageTogether DEF Next

\* A booking of several rows is paid as a whole, and none of the endpoints and
\* jobs for bookings ever leaves it half moved.
THEOREM GroupsCorrect == Spec => []GroupsMoveTogether
<1>1. Init => Uniform /\ WholeRequests
  BY DEF Init, Idle, Uniform, WholeRequests, WholeBut
<1>2. TypeOK /\ Uniform => GroupsMoveTogether
  BY UniformIsTogether
<1> QED BY <1>1, <1>2, TypeCorrect, TogetherStep, PTL DEF Spec

----------------------------------------------------------------------------
(* Closed rows *)

\* A row's change of status is innocent: the row was not closed, or a request
\* that updates by id has named it.
Innocent(w) ==
    \A r \in Row : Closed(res[r].status) /\ res'[r].status # res[r].status =>
        req[w].op \in ById /\ r \in req[w].rows

LEMMA ByIdInnocent ==
    ASSUME TypeOK, NEW w \in Worker, req[w].op \in ById, NEW to,
           \A r \in Row : res'[r].status = IF r \in req[w].rows THEN to
                                           ELSE res[r].status
    PROVE  Innocent(w)
BY DEF Innocent

LEMMA FilteredInnocent ==
    ASSUME TypeOK, NEW w, NEW rows, NEW to, SetStatus(rows, to),
           \A r \in rows : ~Closed(res[r].status)
    PROVE  Innocent(w)
BY SetStatusFacts DEF Innocent

LEMMA UnchangedInnocent ==
    ASSUME NEW w, res' = res
    PROVE  Innocent(w)
BY DEF Innocent

LEMMA OpenStatuses ==
    \A s \in CHECK_OUT_FROM \union CHECK_IN_FROM \union NO_SHOW_FROM_STATUSES
             \union CLEANUP_FROM \union AUTO_COMPLETE_FROM \union {Absent} :
        ~Closed(s)
BY DEF CHECK_OUT_FROM, CHECK_IN_FROM, NO_SHOW_FROM_STATUSES, CLEANUP_FROM,
       AUTO_COMPLETE_FROM, Absent, Closed, TERMINAL_RESERVATION_STATUSES

LEMMA GuestInnocent ==
    ASSUME TypeOK, Creation, NEW w \in Worker, GuestStep(w)
    PROVE  Innocent(w)
<1>1. ASSUME NEW g \in Group, CommitCreateGuest(w, g)
      PROVE  Innocent(w)
  <2>1. \A r \in RowsOf(g) : ~Closed(res[r].status)
    BY <1>1, ExistsAll, OpenStatuses DEF CommitCreateGuest, Creation, OneCreator
  <2>2. \A r \in Row : r \notin RowsOf(g) => res'[r] = res[r]
    BY <1>1 DEF CommitCreateGuest
  <2> QED BY <2>1, <2>2 DEF Innocent
<1>2. ASSUME NEW g, CommitAutoApprove(w, g)
      PROVE  Innocent(w)
  <2>1. \A r \in Row : res'[r].status = IF r \in req[w].rows THEN "confirmed"
                                        ELSE res[r].status
    BY <1>2, AssignFacts DEF CommitAutoApprove
  <2> QED BY <1>2, <2>1, ByIdInnocent DEF CommitAutoApprove, ById
<1>3. CASE CommitGuestCancel(w)
  BY <1>3, SetStatusFacts, ByIdInnocent DEF CommitGuestCancel, ById
<1>4. ASSUME NEW g, \/ PrecheckGuest(w, g) \/ BeginCreateGuest(w, g)
                    \/ BeginAutoApprove(w, g) \/ SendCreateNotification(w, g)
                    \/ BeginGuestCancel(w, g)
      PROVE  Innocent(w)
  BY <1>4, UnchangedInnocent
     DEF PrecheckGuest, BeginCreateGuest, BeginAutoApprove,
         SendCreateNotification, BeginGuestCancel
<1> QED BY <1>1, <1>2, <1>3, <1>4 DEF GuestStep

LEMMA RowInnocent ==
    ASSUME TypeOK, NEW w \in Worker, RowStep(w)
    PROVE  Innocent(w)
<1>1. ASSUME NEW g \in Group, CreateOne(w, g)
      PROVE  Innocent(w)
  <2>1. ~Closed(res[RepOf[g]].status)
    BY <1>1, OpenStatuses DEF CreateOne, Exists
  <2>2. \A r \in Row : r # RepOf[g] => res'[r] = res[r]
    BY <1>1 DEF CreateOne, TypeOK
  <2> QED BY <2>1, <2>2 DEF Innocent
<1>2. CASE CommitApprove(w)
  <2>1. \A r \in Row : res'[r].status = IF r \in req[w].rows THEN "confirmed"
                                        ELSE res[r].status
    BY <1>2, AssignFacts DEF CommitApprove
  <2> QED BY <1>2, <2>1, ByIdInnocent DEF CommitApprove, ById
<1>3. CASE CommitUpdateStatus(w)
  BY <1>3, SetStatusFacts, ByIdInnocent DEF CommitUpdateStatus, ById
<1>4. CASE CommitStoreCheckin(w)
  BY <1>4, SetStatusFacts, ByIdInnocent DEF CommitStoreCheckin, ById
<1>5. CASE CommitCustomerCheckout(w)
  BY <1>5, SetStatusFacts, ByIdInnocent DEF CommitCustomerCheckout, ById
<1>6. ASSUME NEW r, NEW to, \/ BeginApprove(w, r) \/ BeginUpdateStatus(w, r, to)
                            \/ BeginStoreCheckin(w, r)
                            \/ BeginCustomerCheckout(w, r)
      PROVE  Innocent(w)
  BY <1>6, UnchangedInnocent
     DEF BeginApprove, BeginUpdateStatus, BeginStoreCheckin, BeginCustomerCheckout
<1> QED BY <1>1, <1>2, <1>3, <1>4, <1>5, <1>6 DEF RowStep

LEMMA OwnerInnocent ==
    ASSUME TypeOK, NEW w \in Worker, OwnerStep(w)
    PROVE  Innocent(w)
<1>1. ASSUME NEW to, OwnerWrite(w, to), \A r \in req[w].rows : ~Closed(res[r].status)
      PROVE  Innocent(w)
  BY <1>1 DEF OwnerWrite, Innocent
<1>2. CASE CommitCheckIn(w)
  BY <1>1, <1>2, OpenStatuses, UnchangedInnocent DEF CommitCheckIn, AllIn
<1>3. CASE CommitCheckOut(w)
  BY <1>1, <1>3, OpenStatuses, UnchangedInnocent DEF CommitCheckOut, AllIn
<1>4. CASE CommitNoShow(w)
  BY <1>4, OpenStatuses, UnchangedInnocent, FilteredInnocent DEF CommitNoShow, AllIn
<1>5. ASSUME NEW g, BeginCheckIn(w, g) \/ BeginCheckOut(w, g) \/ BeginNoShow(w, g)
      PROVE  Innocent(w)
  BY <1>5, UnchangedInnocent
     DEF BeginCheckIn, BeginCheckOut, BeginOwnerAction, BeginNoShow
<1> QED BY <1>2, <1>3, <1>4, <1>5 DEF OwnerStep

LEMMA SweepInnocent ==
    ASSUME TypeOK, NEW w \in Worker, SweepStep(w)
    PROVE  Innocent(w)
<1>1. CASE BeginCleanup(w) \/ BeginAutoComplete(w)
  BY <1>1, UnchangedInnocent DEF BeginCleanup, BeginAutoComplete
<1>2. CASE CommitCleanup(w)
  BY <1>2, OpenStatuses, FilteredInnocent DEF CommitCleanup, StillUnpaid
<1>3. CASE CommitAutoComplete(w)
  BY <1>3, OpenStatuses, FilteredInnocent DEF CommitAutoComplete, StillOpen
<1> QED BY <1>1, <1>2, <1>3 DEF SweepStep

LEMMA StepInnocent ==
    ASSUME TypeOK, Creation, [Next]_vars
    PROVE  \A r \in Row :
              Closed(res[r].status) /\ res'[r].status # res[r].status =>
                 \E w \in Worker : req[w].op \in ById /\ r \in req[w].rows
<1>1. ASSUME NEW w \in Worker, Innocent(w)
      PROVE  \A r \in Row :
                Closed(res[r].status) /\ res'[r].status # res[r].status =>
                   \E v \in Worker : req[v].op \in ById /\ r \in req[v].rows
  BY <1>1 DEF Innocent
<1>2. CASE res' = res
  BY <1>2
<1>3. CASE UNCHANGED vars \/ Tick \/ \E w \in Worker : StorageStep(w) \/ AbortRequest(w)
  BY <1>2, <1>3 DEF vars, Tick, StorageStep, FindStorage, CheckStorageUnused,
                    CommitStorageChange, AbortRequest
<1> QED BY <1>1, <1>3, GuestInnocent, RowInnocent, OwnerInnocent, SweepInnocent
        DEF Next

\* Owner actions, no-show, cleanup and auto-completion never revive a closed row,
\* whatever was committed between their reads and their writes.
THEOREM SweepsCorrect == Spec => SweepsKeepClosed
<1>1. TypeOK /\ Creation /\ [Next]_vars =>
         [\A r \in Row :
            Closed(res[r].status) /\ res'[r].status # res[r].status =>
               \E w \in Worker : req[w].op \in ById /\ r \in req[w].rows]_vars
  BY StepInnocent
<1> QED BY <1>1, TypeCorrect, CreatedOnce, PTL DEF Spec, SweepsKeepClosed
=============================================================================

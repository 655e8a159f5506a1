---------------------------- MODULE BookingProofs ----------------------------
(***************************************************************************)
(* What Reservations promises under a condition on the requests.           *)
(*                                                                         *)
(* Requests may overlap in any number.  Some of the writes, though, test   *)
(* nothing, and rely on what was read; the conditions say which requests   *)
(* must have what to themselves from their reads to their writes, as a row *)
(* lock (SELECT ... FOR UPDATE) would give it to them.  With the locks     *)
(* closed rows stay closed, no storage is assigned twice, an occupied      *)
(* storage has luggage in it, and guests' bags fit the capacity.           *)
(*                                                                         *)
(* When only the owner's link and the sweeps act on guests' bookings, they *)
(* may overlap and stop anywhere without locks, and Reservations           *)
(* implements BookingGroups: LinkState is inductive, and under it every    *)
(* step of the rows is a step of the bookings or changes none.             *)
(***************************************************************************)
EXTENDS ReservationsProofs, ReservationsRefinement, FiniteSetTheorems

----------------------------------------------------------------------------
(* Locks *)

\* Requests that assign storages, and requests that write the status of rows and
\* the storages these have.
AssigningOps == {"autoApprove", "approve"}
MovingOps == {"updateStatus", "storeCheckin", "customerCheckout", "checkIn",
              "checkOut", "noShow", "guestCancel", "cleanup", "autoComplete"}
WritingOps == AssigningOps \union MovingOps

\* Requests by id that write an active status.
RevivingOps == AssigningOps \union {"updateStatus", "storeCheckin"}

\* No other request writes the rows of a request of ops from its reads to its
\* writes.
RowLocks(ops) ==
    \A v, w \in Worker :
        v # w /\ req[v].op \in ops /\ req[w].op \in WritingOps =>
            req[v].rows \intersect req[w].rows = {}

IdLocks == RowLocks(ById)
ApprovalLocks == RowLocks(AssigningOps \union {"updateStatus"})
CheckInLocks == RowLocks({"updateStatus", "storeCheckin"})
RevivalLocks == RowLocks(RevivingOps)

\* Rows of one type and with common hours may be given the same storage and take
\* the same room.
Compete(r1, r2) == TypeOf[r1] = TypeOf[r2] /\ Overlap(GroupOf[r1], GroupOf[r2])

\* Rows that compete are not approved at once.
AssignmentLocks ==
    \A v, w \in Worker :
        v # w /\ req[v].op \in AssigningOps /\ req[w].op \in AssigningOps =>
            \A r1 \in req[v].rows, r2 \in req[w].rows : ~Compete(r1, r2)

\* From a guest's last look at the capacity to the insert, nobody else inserts
\* rows that compete.
CapacityLocks ==
    \A v, w \in Worker : v # w /\ req[v].op = "insert" =>
        \A r1 \in RowsOf(req[v].of) :
            /\ req[w].op = "insert" =>
                  \A r2 \in RowsOf(req[w].of) : ~Compete(r1, r2)
            /\ req[w].op = "createdOne" =>
                  \A r2 \in req[w].rows : ~Compete(r1, r2)

\* Requests one at a time keep all locks.
OneAtATime ==
    \A v, w \in Worker : req[v].op # "idle" /\ req[w].op # "idle" => v = w

LEMMA SerialLocks ==
    OneAtATime => /\ IdLocks /\ ApprovalLocks /\ CheckInLocks /\ RevivalLocks
                  /\ AssignmentLocks /\ CapacityLocks
<1>1. ASSUME OneAtATime, NEW ops, "idle" \notin ops PROVE RowLocks(ops)
  <2>1. "idle" \notin WritingOps
    BY DEF WritingOps, AssigningOps, MovingOps
  <2> QED BY <1>1, <2>1 DEF OneAtATime, RowLocks
<1>2. /\ "idle" \notin ById /\ "idle" \notin AssigningOps \union {"updateStatus"}
      /\ "idle" \notin {"updateStatus", "storeCheckin"} /\ "idle" \notin RevivingOps
  BY DEF ById, AssigningOps, RevivingOps
<1>3. OneAtATime => IdLocks /\ ApprovalLocks /\ CheckInLocks /\ RevivalLocks
  BY <1>1, <1>2 DEF IdLocks, ApprovalLocks, CheckInLocks, RevivalLocks
<1>4. OneAtATime => AssignmentLocks
  BY <1>2 DEF OneAtATime, AssignmentLocks
<1>5. OneAtATime => CapacityLocks
  BY DEF OneAtATime, CapacityLocks
<1> QED BY <1>3, <1>4, <1>5

----------------------------------------------------------------------------
(* What a step does, and what a request has read *)

\* Rows that move to another status keep their storages.
Moves(rows, to) ==
    \A r \in Row : /\ res'[r].storage = res[r].storage
                   /\ res'[r].status = IF r \in rows THEN to ELSE res[r].status

\* Nothing is written, or a storage is taken out of service.
Rests ==
    res' = res /\ \A s \in Storage : sto'[s] = "occupied" => sto[s] = "occupied"

\* A booking's rows are inserted, pending and without storages.
Inserts(w) ==
    \E g \in Group :
        /\ \/ req[w].op = "insert" /\ req[w].of = g
           \/ /\ SourceOf[g] # "guest"
              /\ req'[w].op = "createdOne" /\ req'[w].rows = RowsOf(g)
        /\ sto' = sto
        /\ \A r \in Row :
              /\ r \notin RowsOf(g) => res'[r] = res[r]
              /\ r \in RowsOf(g) => /\ res[r].status = Absent
                                    /\ res'[r].status = "pending"
                                    /\ res'[r].storage = NoStorage

\* The rows of the request are confirmed with the storages picked for them.
Confirms(w) ==
    /\ req[w].op \in AssigningOps
    /\ sto' = sto
    /\ \A r \in Row :
          /\ r \notin req[w].rows => res'[r] = res[r]
          /\ r \in req[w].rows => /\ res'[r].status = "confirmed"
                                  /\ res'[r].storage = req[w].hold[r]

\* Rows of the request are closed and its storages released.
Leaves(w) ==
    /\ req[w].op \in MovingOps
    /\ \E rows \in SUBSET req[w].rows, to \in Status :
          /\ Closed(to)
          /\ Moves(rows, to)
          /\ req[w].op = "updateStatus" => to = req[w].to
          /\ req[w].op \notin ById => \A r \in rows : ~Closed(res[r].status)
    /\ releaseStorageIfAny(Held(w, req[w].rows))

\* Luggage is taken in.
TakesIn(w) ==
    /\ req[w].op \in MovingOps \ {"customerCheckout", "guestCancel"}
    /\ Moves(req[w].rows, "in_progress")
    /\ req[w].op = "updateStatus" => req[w].to = "in_progress"
    /\ req[w].op \notin ById => \A r \in req[w].rows : res[r].status \in CHECK_IN_FROM
    /\ occupyStorageIfAny(Held(w, req[w].rows))

\* A request for a status that is neither closed nor in_progress.
Stays(w) ==
    /\ req[w].op = "updateStatus"
    /\ req[w].to \notin RELEASE_STORAGE_STATUSES \union {"in_progress"}
    /\ Moves(req[w].rows, req[w].to)
    /\ sto' = sto

Writes(w) ==
    \/ Rests \/ Inserts(w) \/ Confirms(w) \/ Leaves(w) \/ TakesIn(w) \/ Stays(w)

\* What the check of the request said of a row still holds.
CheckHolds(w, r) ==
    /\ req[w].op \in AssigningOps => assertCanApprove(res[r].status)
    /\ req[w].op = "updateStatus" =>
          req[w].to # "confirmed" /\ assertCanTransition(res[r].status, req[w].to)
    /\ req[w].op = "storeCheckin" => assertCanCheckin(res[r].status)
    /\ req[w].op = "customerCheckout" => assertCanCheckout(res[r].status)
    /\ req[w].op = "guestCancel" => res[r].status \in GUEST_CANCEL_STATUSES

\* A request that has just read the rows it will write.
ReadNow(w) ==
    /\ \A r \in req[w].rows : CheckHolds(w, r)
    /\ req[w].op \in MovingOps =>
          \A r \in req[w].rows : req[w].hold[r] = res[r].storage
    /\ req[w].op \in AssigningOps =>
          /\ \A r \in req[w].rows :
                req[w].hold[r] \in FreeStorages(r) \union {res[r].storage, NoStorage}
          /\ \A r1, r2 \in req[w].rows : TypeOf[r1] = TypeOf[r2] => r1 = r2

\* Storages are taken out of service, or back, and never marked occupied.
NotMarked(w) == req[w].op \in StorageOps => req[w].to # "occupied"

\* A step of worker w: what it writes, and what it has read then.
StepOf(w) ==
    /\ \A v \in Worker \ {w} : req'[v] = req[v]
    /\ Writes(w)
    /\ req'[w].op \in WritingOps => res' = res /\ ReadNow(w)'
    /\ req'[w].op = "insert" => res' = res /\ HasCapacity(req'[w].of)
    /\ NotMarked(w)'

\* A step of the clock.
Quiet ==
    /\ res' = res /\ sto' = sto
    /\ \A v \in Worker : /\ req'[v].op = req[v].op
                         /\ req'[v].rows = req[v].rows
                         /\ req'[v].hold = req[v].hold
                         /\ req'[v].to = req[v].to
                         /\ req'[v].of = req[v].of

OtherOps == {"idle", "precheck", "created", "createdOne", "notify"}

LEMMA OpKinds ==
    /\ AssigningOps \intersect MovingOps = {}
    /\ \A op \in OtherOps : op \notin WritingOps \union StorageOps \union {"insert"}
    /\ "insert" \notin WritingOps \union StorageOps
    /\ \A op \in StorageOps : op \notin WritingOps \union {"insert"}
    /\ \A op \in WritingOps : op \notin StorageOps
    /\ ById \subseteq WritingOps
    /\ \A op \in AssigningOps :
          op \notin {"updateStatus", "storeCheckin", "customerCheckout", "guestCancel"}
BY DEF AssigningOps, MovingOps, WritingOps, StorageOps, OtherOps, ById

LEMMA SetStatusMoves ==
    ASSUME TypeOK, NEW rows, NEW to, SetStatus(rows, to)
    PROVE  Moves(rows, to)
BY DEF SetStatus, Moves, TypeOK

\* A request that has nothing to write yet, or nothing any more.
LEMMA PlainStep ==
    ASSUME NEW w \in Worker, Writes(w), req'[w].op \in OtherOps,
           \A v \in Worker \ {w} : req'[v] = req[v]
    PROVE  StepOf(w)
BY OpKinds DEF StepOf, NotMarked

LEMMA EndStep ==
    ASSUME TypeOK, NEW w \in Worker, End(w), Writes(w)
    PROVE  StepOf(w)
BY EndFacts, PlainStep DEF OtherOps

\* A request that will move rows reads the storages they have.
LEMMA MovingStep ==
    ASSUME TypeOK, NEW w \in Worker,
           NEW op \in MovingOps, NEW rows \in SUBSET Row, NEW to,
           Begin(w, op, rows, StorageIds, to), res' = res, sto' = sto,
           \A r \in rows :
              /\ op = "updateStatus" =>
                    to # "confirmed" /\ assertCanTransition(res[r].status, to)
              /\ op = "storeCheckin" => assertCanCheckin(res[r].status)
              /\ op = "customerCheckout" => assertCanCheckout(res[r].status)
              /\ op = "guestCancel" => res[r].status \in GUEST_CANCEL_STATUSES
    PROVE  StepOf(w)
<1>1. /\ req'[w].op = op /\ req'[w].rows = rows /\ req'[w].to = to
      /\ \A r \in rows : req'[w].hold[r] = StorageIds[r]
      /\ \A v \in Worker \ {w} : req'[v] = req[v]
  <2>1. PICK held : held = StorageIds
    OBVIOUS
  <2>2. Begin(w, op, rows, held, to)
    BY <2>1 DEF Begin
  <2>3. req'[w].op = op /\ req'[w].rows = rows /\ req'[w].to = to
    BY <2>2, BeginFacts
  <2>4. \A r \in rows : req'[w].hold[r] = held[r]
    BY <2>2, BeginFacts
  <2>5. \A v \in Worker \ {w} : req'[v] = req[v]
    BY <2>2, BeginFacts
  <2> QED BY <2>1, <2>3, <2>4, <2>5
<1>2. \A r \in rows : req'[w].hold[r] = res'[r].storage
  BY <1>1 DEF StorageIds
<1>3. \A r \in rows : CheckHolds(w, r)'
  BY <1>1, OpKinds DEF CheckHolds
<1>4. ReadNow(w)'
  BY <1>1, <1>2, <1>3, OpKinds DEF ReadNow
<1>5. req'[w].op # "insert" /\ NotMarked(w)' /\ Writes(w)
  BY <1>1, OpKinds DEF NotMarked, Writes, Rests, WritingOps
<1> QED BY <1>1, <1>4, <1>5 DEF StepOf

\* A request that will assign storages picks them among the free ones.
LEMMA AssigningStep ==
    ASSUME TypeOK, NEW w \in Worker,
           NEW op \in AssigningOps, NEW rows \in SUBSET Row, NEW hold, NEW to,
           Begin(w, op, rows, hold, to), res' = res, sto' = sto,
           \A r \in rows :
              /\ assertCanApprove(res[r].status)
              /\ hold[r] \in FreeStorages(r) \union {res[r].storage, NoStorage},
           \A r1, r2 \in rows : TypeOf[r1] = TypeOf[r2] => r1 = r2
    PROVE  StepOf(w)
<1>1. /\ req'[w].op = op /\ req'[w].rows = rows
      /\ \A r \in rows : req'[w].hold[r] = hold[r]
      /\ \A v \in Worker \ {w} : req'[v] = req[v]
  BY BeginFacts
<1>2. \A r \in rows : FreeStorages(r)' = FreeStorages(r)
  BY DEF FreeStorages
<1>3. \A r \in rows : CheckHolds(w, r)'
  BY <1>1, OpKinds DEF CheckHolds
<1>4. ReadNow(w)'
  BY <1>1, <1>2, <1>3, OpKinds DEF ReadNow
<1>5. req'[w].op # "insert" /\ NotMarked(w)' /\ Writes(w)
  BY <1>1, OpKinds DEF NotMarked, Writes, Rests, WritingOps
<1> QED BY <1>1, <1>4, <1>5 DEF StepOf

\* What commits write.
LEMMA LeavesWrites ==
    ASSUME TypeOK, NEW w \in Worker, req[w].op \in MovingOps, End(w),
           NEW rows \in SUBSET req[w].rows, NEW to \in Status, Moves(rows, to),
           Closed(to), req[w].op = "updateStatus" => to = req[w].to,
           req[w].op \notin ById => \A r \in rows : ~Closed(res[r].status),
           releaseStorageIfAny(Held(w, req[w].rows))
    PROVE  StepOf(w)
BY EndStep DEF Leaves, Writes

LEMMA TakesInWrites ==
    ASSUME TypeOK, NEW w \in Worker,
           req[w].op \in MovingOps \ {"customerCheckout", "guestCancel"}, End(w),
           Moves(req[w].rows, "in_progress"),
           req[w].op = "updateStatus" => req[w].to = "in_progress",
           req[w].op \notin ById => \A r \in req[w].rows : res[r].status \in CHECK_IN_FROM,
           occupyStorageIfAny(Held(w, req[w].rows))
    PROVE  StepOf(w)
BY EndStep DEF TakesIn, Writes

LEMMA ConfirmsWrites ==
    ASSUME TypeOK, NEW w \in Worker, req[w].op \in AssigningOps, sto' = sto,
           res' = [r \in Row |->
                     IF r \in req[w].rows
                     THEN [res[r] EXCEPT !.status = "confirmed",
                                         !.storage = req[w].hold[r]]
                     ELSE res[r]]
    PROVE  Writes(w)
BY DEF Confirms, Writes, TypeOK

LEMMA StatusKinds ==
    /\ \A s \in {"completed", "cancelled", "no_show"} \union RELEASE_STORAGE_STATUSES :
          s \in Status /\ Closed(s)
    /\ \A s \in CHECK_OUT_FROM \union NO_SHOW_FROM_STATUSES \union CLEANUP_FROM
                  \union AUTO_COMPLETE_FROM : ~Closed(s)
BY DEF RELEASE_STORAGE_STATUSES, Status, Closed, TERMINAL_RESERVATION_STATUSES,
       CHECK_OUT_FROM, NO_SHOW_FROM_STATUSES, CLEANUP_FROM, AUTO_COMPLETE_FROM

LEMMA GuestSteps ==
    ASSUME TypeOK, Creation, NEW w \in Worker, GuestStep(w)
    PROVE  StepOf(w)
<1>1. ASSUME NEW g \in Group, PrecheckGuest(w, g) PROVE StepOf(w)
  <2>1. Advance(w, "precheck", g) /\ res' = res /\ sto' = sto
    BY <1>1 DEF PrecheckGuest
  <2> QED BY <2>1, AdvanceFacts, PlainStep DEF Writes, Rests, OtherOps
<1>2. ASSUME NEW g \in Group, BeginCreateGuest(w, g) PROVE StepOf(w)
  <2>1. Advance(w, "insert", g) /\ res' = res /\ sto' = sto /\ HasCapacity(g)
    BY <1>2 DEF BeginCreateGuest
  <2>2. /\ req'[w].op = "insert" /\ req'[w].of = g
        /\ \A v \in Worker \ {w} : req'[v] = req[v]
    BY <2>1, AdvanceFacts
  <2> QED BY <2>1, <2>2, OpKinds DEF StepOf, Writes, Rests, NotMarked
<1>3. ASSUME NEW g \in Group, CommitCreateGuest(w, g) PROVE StepOf(w)
  <2>1. \A r \in RowsOf(g) : res[r].status = Absent
    BY <1>3, ExistsAll DEF CommitCreateGuest, Creation, OneCreator
  <2>2. Writes(w)
    <3>1. CASE PaymentStillFree(g)
      <4>1. \A r \in Row :
               /\ r \notin RowsOf(g) => res'[r] = res[r]
               /\ r \in RowsOf(g) => /\ res'[r].status = "pending"
                                     /\ res'[r].storage = NoStorage
        BY <1>3, <3>1 DEF CommitCreateGuest
      <4>2. sto' = sto /\ req[w].op = "insert" /\ req[w].of = g
        BY <1>3 DEF CommitCreateGuest
      <4>3. Inserts(w)
        BY <2>1, <4>1, <4>2 DEF Inserts
      <4> QED BY <4>3 DEF Writes
    <3>2. CASE ~PaymentStillFree(g)
      BY <1>3, <3>2 DEF CommitCreateGuest, Writes, Rests
    <3> QED BY <3>1, <3>2
  <2>3. End(w) \/ Advance(w, "created", g)
    BY <1>3 DEF CommitCreateGuest
  <2> QED BY <2>2, <2>3, EndFacts, AdvanceFacts, PlainStep DEF OtherOps
<1>4. ASSUME NEW g \in Group, BeginAutoApprove(w, g) PROVE StepOf(w)
  <2> DEFINE rows == {r \in RowsOf(g) : res[r].status = "pending"}
             hold == [r \in Row |-> findStorageForReservation(r)]
  <2>1. /\ Begin(w, "autoApprove", rows, hold, "confirmed")
        /\ res' = res /\ sto' = sto
    BY <1>4 DEF BeginAutoApprove
  <2>2. /\ rows \in SUBSET Row
        /\ \A r \in rows : res[r].status = "pending" /\ GroupOf[r] = g
    BY DEF RowsOf
  <2>3. \A r \in Row : hold[r] \in FreeStorages(r) \union {NoStorage}
    BY FindTyped
  <2> HIDE DEF rows, hold
  <2>4. \A r \in rows : /\ assertCanApprove(res[r].status)
                        /\ hold[r] \in FreeStorages(r) \union {res[r].storage, NoStorage}
    BY <2>2, <2>3 DEF assertCanApprove
  <2>5. \A r1, r2 \in rows : TypeOf[r1] = TypeOf[r2] => r1 = r2
    BY <2>2, InputsAssumption
  <2> QED BY <2>1, <2>2, <2>4, <2>5, AssigningStep DEF AssigningOps
<1>5. ASSUME NEW g \in Group, CommitAutoApprove(w, g) PROVE StepOf(w)
  <2>1. Writes(w)
    BY <1>5, ConfirmsWrites DEF CommitAutoApprove, AssigningOps
  <2>2. Begin(w, "notify", {}, StorageIds, Absent)
    BY <1>5 DEF CommitAutoApprove
  <2> QED BY <2>1, <2>2, BeginFacts, PlainStep DEF OtherOps
<1>6. ASSUME NEW g \in Group, SendCreateNotification(w, g) PROVE StepOf(w)
  BY <1>6, EndStep DEF SendCreateNotification, Writes, Rests
<1>7. ASSUME NEW g \in Group, BeginGuestCancel(w, g) PROVE StepOf(w)
  <2>1. /\ Begin(w, "guestCancel", RowsOf(g), StorageIds, "cancelled")
        /\ res' = res /\ sto' = sto
        /\ \A r \in RowsOf(g) : res[r].status \in GUEST_CANCEL_STATUSES
    BY <1>7 DEF BeginGuestCancel, AllIn
  <2>2. RowsOf(g) \in SUBSET Row
    BY DEF RowsOf
  <2> QED BY <2>1, <2>2, MovingStep DEF MovingOps
<1>8. CASE CommitGuestCancel(w)
  <2>1. Moves(req[w].rows, "cancelled")
    BY <1>8, SetStatusMoves DEF CommitGuestCancel
  <2> QED BY <1>8, <2>1, LeavesWrites, StatusKinds
          DEF CommitGuestCancel, MovingOps, ById
<1> QED BY <1>1, <1>2, <1>3, <1>4, <1>5, <1>6, <1>7, <1>8 DEF GuestStep

LEMMA RowSteps ==
    ASSUME TypeOK, Creation, NEW w \in Worker, RowStep(w)
    PROVE  StepOf(w)
<1>1. ASSUME NEW g \in Group, CreateOne(w, g) PROVE StepOf(w)
  <2>1. /\ RowsOf(g) = {RepOf[g]} /\ SourceOf[g] # "guest"
        /\ RepOf[g] \in Row /\ res[RepOf[g]].status = Absent
    BY <1>1, InputsAssumption DEF CreateOne, Exists
  <2>2. Begin(w, "createdOne", RowsOf(g), StorageIds, "confirmed")
    BY <1>1, <2>1 DEF CreateOne
  <2>3. /\ req'[w].op = "createdOne" /\ req'[w].rows = RowsOf(g)
        /\ \A v \in Worker \ {w} : req'[v] = req[v]
    <3>1. PICK held : held = StorageIds
      OBVIOUS
    <3>2. Begin(w, "createdOne", RowsOf(g), held, "confirmed")
      BY <2>2, <3>1 DEF Begin
    <3>3. RowsOf(g) \in SUBSET Row
      BY DEF RowsOf
    <3> QED BY <3>2, <3>3, BeginFacts
  <2>4. /\ sto' = sto
        /\ \A r \in Row :
              /\ r # RepOf[g] => res'[r] = res[r]
              /\ r = RepOf[g] => /\ res'[r].status = "pending"
                                 /\ res'[r].storage = NoStorage
    BY <1>1 DEF CreateOne, TypeOK
  <2>5. Inserts(w)
    BY <2>1, <2>3, <2>4 DEF Inserts
  <2> QED BY <2>3, <2>5, PlainStep DEF Writes, OtherOps
<1>2. ASSUME NEW r \in Row, BeginApprove(w, r) PROVE StepOf(w)
  <2> DEFINE hold == [q \in Row |->
                        IF res[q].storage # NoStorage THEN res[q].storage
                        ELSE findStorageForReservation(q)]
  <2>1. /\ Begin(w, "approve", {r}, hold, "confirmed")
        /\ assertCanApprove(res[r].status) /\ res' = res /\ sto' = sto
    BY <1>2 DEF BeginApprove
  <2>2. hold[r] \in FreeStorages(r) \union {res[r].storage, NoStorage}
    BY FindTyped
  <2> HIDE DEF hold
  <2>3. \A r1, r2 \in {r} : TypeOf[r1] = TypeOf[r2] => r1 = r2
    OBVIOUS
  <2> QED BY <2>1, <2>2, <2>3, AssigningStep DEF AssigningOps
<1>3. ASSUME NEW r \in Row, NEW to \in Status, BeginUpdateStatus(w, r, to)
      PROVE  StepOf(w)
  BY <1>3, MovingStep DEF BeginUpdateStatus, MovingOps
<1>4. ASSUME NEW r \in Row, BeginStoreCheckin(w, r) \/ BeginCustomerCheckout(w, r)
      PROVE  StepOf(w)
  BY <1>4, MovingStep DEF BeginStoreCheckin, BeginCustomerCheckout, MovingOps
<1>5. CASE CommitApprove(w)
  BY <1>5, ConfirmsWrites, EndStep DEF CommitApprove, AssigningOps
<1>6. CASE CommitUpdateStatus(w)
  <2>1. /\ Moves(req[w].rows, req[w].to)
        /\ req[w].op = "updateStatus" /\ req[w].op \in MovingOps
        /\ req[w].op \in ById
    BY <1>6, SetStatusMoves DEF CommitUpdateStatus, MovingOps, ById
  <2>2. CASE req[w].to \in RELEASE_STORAGE_STATUSES
    <3>1. releaseStorageIfAny(Held(w, req[w].rows))
      BY <1>6, <2>2 DEF CommitUpdateStatus, RELEASE_STORAGE_STATUSES
    <3> QED BY <1>6, <2>1, <2>2, <3>1, LeavesWrites, StatusKinds
            DEF CommitUpdateStatus
  <2>3. CASE req[w].to = "in_progress"
    <3>1. occupyStorageIfAny(Held(w, req[w].rows))
      BY <1>6, <2>3 DEF CommitUpdateStatus, RELEASE_STORAGE_STATUSES
    <3> QED BY <1>6, <2>1, <2>3, <3>1, TakesInWrites DEF CommitUpdateStatus
  <2>4. CASE req[w].to \notin RELEASE_STORAGE_STATUSES \union {"in_progress"}
    BY <1>6, <2>1, <2>4, EndStep DEF CommitUpdateStatus, Stays, Writes
  <2> QED BY <2>2, <2>3, <2>4
<1>7. CASE CommitStoreCheckin(w)
  <2>1. Moves(req[w].rows, "in_progress")
    BY <1>7, SetStatusMoves DEF CommitStoreCheckin
  <2> QED BY <1>7, <2>1, TakesInWrites DEF CommitStoreCheckin, MovingOps, ById
<1>8. CASE CommitCustomerCheckout(w)
  <2>1. Moves(req[w].rows, "completed")
    BY <1>8, SetStatusMoves DEF CommitCustomerCheckout
  <2> QED BY <1>8, <2>1, LeavesWrites, StatusKinds
          DEF CommitCustomerCheckout, MovingOps, ById
<1> QED BY <1>1, <1>2, <1>3, <1>4, <1>5, <1>6, <1>7, <1>8 DEF RowStep

LEMMA OwnerSteps ==
    ASSUME TypeOK, NEW w \in Worker, OwnerStep(w)
    PROVE  StepOf(w)
<1>1. ASSUME NEW g \in Group, NEW op \in {"checkIn", "checkOut"}, NEW from,
             NEW to, BeginOwnerAction(w, g, op, from, to)
      PROVE  StepOf(w)
  <2> DEFINE held == [r \in Row |-> IF r \in RowsOf(g) THEN res[r].storage
                                    ELSE NoStorage]
             unpaid == ~res[RepOf[g]].paid
             new == [Idle EXCEPT !.op = op, !.rows = RowsOf(g), !.to = to,
                                 !.hold = held, !.settle = unpaid]
  <2>1. new.op = op /\ new.rows = RowsOf(g) /\ new.hold = held
    BY DEF Idle
  <2>2. req' = [req EXCEPT ![w] = new] /\ res' = res /\ sto' = sto
    BY <1>1 DEF BeginOwnerAction
  <2>3. \A r \in RowsOf(g) : held[r] = res[r].storage
    BY DEF RowsOf
  <2> HIDE DEF held, unpaid, new
  <2>4. /\ req'[w].op = op /\ req'[w].rows = RowsOf(g) /\ req'[w].hold = held
        /\ \A v \in Worker \ {w} : req'[v] = req[v]
    BY <2>1, <2>2 DEF TypeOK
  <2>5. op \in MovingOps /\ op \notin ById \union {"insert"} \union StorageOps
    BY DEF MovingOps, ById, StorageOps
  <2>6. ReadNow(w)'
    BY <2>2, <2>3, <2>4, <2>5, OpKinds DEF ReadNow, CheckHolds, ById, AssigningOps
  <2> QED BY <2>2, <2>4, <2>5, <2>6 DEF StepOf, Writes, Rests, NotMarked
<1>2. ASSUME NEW g \in Group, BeginCheckIn(w, g) \/ BeginCheckOut(w, g)
      PROVE  StepOf(w)
  BY <1>1, <1>2 DEF BeginCheckIn, BeginCheckOut
<1>3. ASSUME NEW g \in Group, BeginNoShow(w, g) PROVE StepOf(w)
  <2>1. /\ Begin(w, "noShow", RowsOf(g), StorageIds, "no_show")
        /\ res' = res /\ sto' = sto
    BY <1>3 DEF BeginNoShow
  <2>2. RowsOf(g) \in SUBSET Row
    BY DEF RowsOf
  <2> QED BY <2>1, <2>2, MovingStep DEF MovingOps
<1>4. ASSUME NEW to, OwnerWrite(w, to)
      PROVE  Moves(req[w].rows, to)
  BY <1>4 DEF OwnerWrite, Moves, TypeOK
<1>5. ASSUME End(w), res' = res, sto' = sto
      PROVE  StepOf(w)
  BY <1>5, EndStep DEF Writes, Rests
<1>6. CASE CommitCheckIn(w)
  <2>1. CASE AllIn(req[w].rows, CHECK_IN_FROM)
    <3>1. /\ Moves(req[w].rows, "in_progress")
          /\ occupyStorageIfAny(Held(w, req[w].rows))
      BY <1>4, <1>6, <2>1 DEF CommitCheckIn
    <3> QED BY <1>6, <2>1, <3>1, TakesInWrites DEF CommitCheckIn, AllIn, MovingOps
  <2>2. CASE ~AllIn(req[w].rows, CHECK_IN_FROM)
    BY <1>5, <1>6, <2>2 DEF CommitCheckIn
  <2> QED BY <2>1, <2>2
<1>7. CASE CommitCheckOut(w)
  <2>1. CASE AllIn(req[w].rows, CHECK_OUT_FROM)
    <3>1. /\ Moves(req[w].rows, "completed")
          /\ releaseStorageIfAny(Held(w, req[w].rows))
      BY <1>4, <1>7, <2>1 DEF CommitCheckOut
    <3> QED BY <1>7, <2>1, <3>1, LeavesWrites, StatusKinds
            DEF CommitCheckOut, AllIn, MovingOps
  <2>2. CASE ~AllIn(req[w].rows, CHECK_OUT_FROM)
    BY <1>5, <1>7, <2>2 DEF CommitCheckOut
  <2> QED BY <2>1, <2>2
<1>8. CASE CommitNoShow(w)
  <2>1. CASE AllIn(req[w].rows, NO_SHOW_FROM_STATUSES)
    <3>1. /\ Moves(req[w].rows, "no_show")
          /\ releaseStorageIfAny(Held(w, req[w].rows))
      BY <1>8, <2>1, SetStatusMoves DEF CommitNoShow
    <3> QED BY <1>8, <2>1, <3>1, LeavesWrites, StatusKinds
            DEF CommitNoShow, AllIn, MovingOps
  <2>2. CASE ~AllIn(req[w].rows, NO_SHOW_FROM_STATUSES)
    BY <1>5, <1>8, <2>2 DEF CommitNoShow
  <2> QED BY <2>1, <2>2
<1> QED BY <1>2, <1>3, <1>6, <1>7, <1>8 DEF OwnerStep

LEMMA SweepSteps ==
    ASSUME TypeOK, NEW w \in Worker, SweepStep(w)
    PROVE  StepOf(w)
<1>1. CASE BeginCleanup(w) \/ BeginAutoComplete(w)
  BY <1>1, MovingStep DEF BeginCleanup, BeginAutoComplete, MovingOps
<1>2. CASE CommitCleanup(w)
  <2>1. Moves(StillUnpaid(w), "cancelled")
    BY <1>2, SetStatusMoves DEF CommitCleanup
  <2>2. /\ StillUnpaid(w) \in SUBSET req[w].rows
        /\ \A r \in StillUnpaid(w) : ~Closed(res[r].status)
    BY StatusKinds DEF StillUnpaid
  <2> QED BY <1>2, <2>1, <2>2, LeavesWrites, StatusKinds DEF CommitCleanup, MovingOps
<1>3. CASE CommitAutoComplete(w)
  <2>1. Moves(StillOpen(w), "completed")
    BY <1>3, SetStatusMoves DEF CommitAutoComplete
  <2>2. /\ StillOpen(w) \in SUBSET req[w].rows
        /\ \A r \in StillOpen(w) : ~Closed(res[r].status)
    BY StatusKinds DEF StillOpen
  <2> QED BY <1>3, <2>1, <2>2, LeavesWrites, StatusKinds
          DEF CommitAutoComplete, MovingOps
<1> QED BY <1>1, <1>2, <1>3 DEF SweepStep

LEMMA StorageSteps ==
    ASSUME TypeOK, NEW w \in Worker, NotMarked(w), StorageStep(w)
    PROVE  StepOf(w)
<1>1. ASSUME NEW s, NEW to \in {"available", "maintenance"}, FindStorage(w, s, to)
      PROVE  StepOf(w)
  <2> DEFINE new == [Idle EXCEPT !.op = "storageFound", !.unit = s, !.to = to]
  <2>1. new.op = "storageFound" /\ new.to = to
    BY DEF Idle
  <2>2. req' = [req EXCEPT ![w] = new] /\ res' = res /\ sto' = sto
    BY <1>1 DEF FindStorage
  <2> HIDE DEF new
  <2>3. /\ req'[w].op = "storageFound" /\ req'[w].to # "occupied"
        /\ \A v \in Worker \ {w} : req'[v] = req[v]
    BY <2>1, <2>2 DEF TypeOK
  <2> QED BY <2>2, <2>3, OpKinds DEF StepOf, Writes, Rests, NotMarked, StorageOps
<1>2. CASE CheckStorageUnused(w)
  <2>1. /\ req'[w].op = "storageChange" /\ req'[w].to = req[w].to
        /\ \A v \in Worker \ {w} : req'[v] = req[v]
    BY <1>2 DEF CheckStorageUnused, TypeOK, Request
  <2>2. req[w].to # "occupied" /\ res' = res /\ sto' = sto
    BY <1>2 DEF CheckStorageUnused, NotMarked, StorageOps
  <2> QED BY <2>1, <2>2, OpKinds DEF StepOf, Writes, Rests, NotMarked, StorageOps
<1>3. CASE CommitStorageChange(w)
  <2>1. req[w].to # "occupied" /\ res' = res
    BY <1>3 DEF CommitStorageChange, NotMarked, StorageOps
  <2>2. \A s \in Storage : sto'[s] = "occupied" => sto[s] = "occupied"
    BY <1>3, <2>1 DEF CommitStorageChange, TypeOK
  <2> QED BY <1>3, <2>1, <2>2, EndStep DEF CommitStorageChange, Writes, Rests
<1> QED BY <1>1, <1>2, <1>3 DEF StorageStep

\* Every step is the clock's or some worker's.
LEMMA StepKind ==
    ASSUME TypeOK, Creation, \A w \in Worker : NotMarked(w), [Next]_vars
    PROVE  Quiet \/ \E w \in Worker : StepOf(w)
<1>1. CASE UNCHANGED vars \/ Tick
  BY <1>1 DEF vars, Tick, TypeOK, Request, Quiet
<1>2. ASSUME NEW w \in Worker, AbortRequest(w)
      PROVE  StepOf(w)
  BY <1>2, EndStep DEF AbortRequest, Writes, Rests
<1> QED BY <1>1, <1>2, GuestSteps, RowSteps, OwnerSteps, SweepSteps, StorageSteps
        DEF Next

----------------------------------------------------------------------------
(* Rows under a lock *)

Unmarked == \A w \in Worker : NotMarked(w)

LEMMA UnmarkedHolds == Spec => []Unmarked
<1>1. Init => Unmarked
  BY DEF Init, Idle, Unmarked, NotMarked, StorageOps
<1>2. TypeOK /\ Creation /\ Unmarked /\ [Next]_vars => Unmarked'
  <2> SUFFICES ASSUME TypeOK, Creation, Unmarked, [Next]_vars PROVE Unmarked'
    OBVIOUS
  <2>1. CASE Quiet
    BY <2>1 DEF Quiet, Unmarked, NotMarked
  <2>2. ASSUME NEW w \in Worker, StepOf(w) PROVE Unmarked'
    BY <2>2 DEF StepOf, Unmarked, NotMarked
  <2> QED BY <2>1, <2>2, StepKind DEF Unmarked
<1> QED BY <1>1, <1>2, TypeCorrect, CreatedOnce, PTL DEF Spec

\* What is known of a step, whatever the requests.
Known == TypeOK /\ Creation /\ Unmarked

LEMMA KnownHolds == Spec => []Known
BY TypeCorrect, CreatedOnce, UnmarkedHolds, PTL DEF Known

\* A step writes rows its request has read, or rows that did not exist.
LEMMA OthersStay ==
    ASSUME Creation, NEW w \in Worker, Writes(w), NEW r \in Row,
           req[w].op \in WritingOps => r \notin req[w].rows,
           res[r].status # Absent
    PROVE  res'[r].status = res[r].status /\ res'[r].storage = res[r].storage
<1>1. req[w].op \in AssigningOps \union MovingOps => r \notin req[w].rows
  BY DEF WritingOps
<1>2. CASE Rests
  BY <1>2 DEF Rests
<1>3. CASE Inserts(w)
  BY <1>3 DEF Inserts
<1>4. CASE Confirms(w)
  BY <1>1, <1>4 DEF Confirms
<1>5. CASE Leaves(w)
  BY <1>1, <1>5 DEF Leaves, Moves
<1>6. CASE TakesIn(w)
  BY <1>1, <1>6 DEF TakesIn, Moves
<1>7. CASE Stays(w)
  BY <1>1, <1>7 DEF Stays, Moves, MovingOps
<1> QED BY <1>2, <1>3, <1>4, <1>5, <1>6, <1>7 DEF Writes

LEMMA LockedRows ==
    ASSUME TypeOK, Creation, NEW ops, RowLocks(ops),
           NEW w \in Worker, Writes(w), NEW v \in Worker, v # w,
           req[v].op \in ops, NEW r \in req[v].rows
    PROVE  res'[r].status = res[r].status /\ res'[r].storage = res[r].storage
<1>1. r \in Row /\ res[r].status # Absent
  BY DEF TypeOK, Request, Creation, ReadRows
<1>2. req[w].op \in WritingOps => r \notin req[w].rows
  BY DEF RowLocks
<1> QED BY <1>1, <1>2, OthersStay

\* What the checks of some requests said holds until they write.
ChecksHold(ops) ==
    \A w \in Worker : req[w].op \in ops => \A r \in req[w].rows : CheckHolds(w, r)

LEMMA ChecksStep ==
    ASSUME Known, NEW ops \in SUBSET WritingOps, RowLocks(ops), ChecksHold(ops),
           [Next]_vars
    PROVE  ChecksHold(ops)'
<1> SUFFICES ASSUME NEW v \in Worker, req'[v].op \in ops, NEW r \in req'[v].rows
             PROVE  CheckHolds(v, r)'
  BY DEF ChecksHold
<1>1. ASSUME req'[v].op = req[v].op, req'[v].rows = req[v].rows,
             req'[v].to = req[v].to, res'[r].status = res[r].status
      PROVE  CheckHolds(v, r)'
  <2>1. CheckHolds(v, r)
    BY <1>1 DEF ChecksHold
  <2> QED BY <1>1, <2>1 DEF CheckHolds
<1>2. CASE Quiet
  BY <1>1, <1>2 DEF Quiet
<1>3. ASSUME NEW w \in Worker, StepOf(w) PROVE CheckHolds(v, r)'
  <2>1. CASE v = w
    BY <1>3, <2>1 DEF StepOf, ReadNow
  <2>2. CASE v # w
    BY <1>1, <1>3, <2>2, LockedRows DEF StepOf, Known
  <2> QED BY <2>1, <2>2
<1> QED BY <1>2, <1>3, StepKind DEF Known, Unmarked

LEMMA ChecksInit == \A ops \in SUBSET WritingOps : Init => ChecksHold(ops)
BY DEF Init, Idle, ChecksHold

----------------------------------------------------------------------------
(* Closed rows *)

IdChecks == ChecksHold(ById)

\* What a check allows of a closed row: the status it has.
LEMMA ClosedAllows ==
    ASSUME NEW w, NEW r, req[w].op \in ById, CheckHolds(w, r), Closed(res[r].status)
    PROVE  req[w].op = "updateStatus" /\ req[w].to = res[r].status
<1>1. /\ ~assertCanApprove(res[r].status) /\ ~assertCanCheckin(res[r].status)
      /\ ~assertCanCheckout(res[r].status)
      /\ res[r].status \notin GUEST_CANCEL_STATUSES
  BY DEF Closed, TERMINAL_RESERVATION_STATUSES, assertCanApprove,
         assertCanCheckin, assertCanCheckout, GUEST_CANCEL_STATUSES
<1>2. req[w].op = "updateStatus" /\ assertCanTransition(res[r].status, req[w].to)
  BY <1>1 DEF CheckHolds, ById, AssigningOps
<1>3. getAllowedNextStatuses(res[r].status) = {}
  BY DEF Closed, TERMINAL_RESERVATION_STATUSES, getAllowedNextStatuses
<1> QED BY <1>2, <1>3 DEF assertCanTransition

LEMMA ClosedStep ==
    ASSUME Known, IdChecks, [Next]_vars, NEW r \in Row, Closed(res[r].status)
    PROVE  res'[r].status = res[r].status
<1>1. CASE Quiet
  BY <1>1 DEF Quiet
<1>2. ASSUME NEW w \in Worker, StepOf(w)
      PROVE  res'[r].status = res[r].status
  <2>1. r \in req[w].rows /\ req[w].op \in ById =>
           req[w].op = "updateStatus" /\ req[w].to = res[r].status
    BY ClosedAllows DEF IdChecks, ChecksHold
  <2>2. CASE Rests
    BY <2>2 DEF Rests
  <2>3. CASE Inserts(w)
    BY <2>3 DEF Inserts, Closed, TERMINAL_RESERVATION_STATUSES, Absent
  <2>4. CASE Confirms(w)
    BY <2>1, <2>4 DEF Confirms, AssigningOps, ById
  <2>5. CASE Leaves(w)
    BY <2>1, <2>5 DEF Leaves, Moves
  <2>6. CASE TakesIn(w)
    <3>1. \A s \in CHECK_IN_FROM : ~Closed(s)
      BY DEF CHECK_IN_FROM, Closed, TERMINAL_RESERVATION_STATUSES
    <3> QED BY <2>1, <2>6, <3>1 DEF TakesIn, Moves
  <2>7. CASE Stays(w)
    BY <2>1, <2>7 DEF Stays, Moves, ById
  <2> QED BY <1>2, <2>2, <2>3, <2>4, <2>5, <2>6, <2>7 DEF StepOf, Writes
<1> QED BY <1>1, <1>2, StepKind DEF Known, Unmarked

\* No closed reservation ever changes its status, through whichever endpoint, if
\* the requests that write a row by its id lock it when they read it.
THEOREM ClosedRowsStay == Spec /\ []IdLocks => ClosedIsFinal
<1>1. Init => IdChecks
  BY ChecksInit, OpKinds DEF IdChecks
<1>2. Known /\ IdLocks /\ IdChecks /\ [Next]_vars => IdChecks'
  BY ChecksStep, OpKinds DEF IdLocks, IdChecks
<1>3. Known /\ IdChecks /\ [Next]_vars
         => [\A r \in Row : Closed(res[r].status) =>
                res'[r].status = res[r].status]_vars
  BY ClosedStep
<1> QED BY <1>1, <1>2, <1>3, KnownHolds, PTL DEF Spec, ClosedIsFinal

----------------------------------------------------------------------------
(* Occupied storages *)

ApprovalChecks == ChecksHold(AssigningOps \union {"updateStatus"})

\* The storages that will be released, or occupied, are the ones the rows have.
HoldsKept ==
    \A w \in Worker : req[w].op \in MovingOps =>
        \A r \in req[w].rows : req[w].hold[r] = res[r].storage

MarkedInv == OccupiedHasLuggage /\ ApprovalChecks /\ HoldsKept

\* Approvals alone change the storage of a row.
LEMMA HoldsStep ==
    ASSUME Known, ApprovalLocks, HoldsKept, [Next]_vars
    PROVE  HoldsKept'
<1> SUFFICES ASSUME NEW v \in Worker, req'[v].op \in MovingOps,
                    NEW r \in req'[v].rows
             PROVE  req'[v].hold[r] = res'[r].storage
  BY DEF HoldsKept
<1>1. ASSUME req'[v].op = req[v].op, req'[v].rows = req[v].rows,
             req'[v].hold = req[v].hold, res'[r].storage = res[r].storage
      PROVE  req'[v].hold[r] = res'[r].storage
  BY <1>1 DEF HoldsKept
<1>2. CASE Quiet
  BY <1>1, <1>2 DEF Quiet
<1>3. ASSUME NEW w \in Worker, StepOf(w)
      PROVE  req'[v].hold[r] = res'[r].storage
  <2>1. CASE v = w
    BY <1>3, <2>1 DEF StepOf, ReadNow, WritingOps
  <2>2. CASE v # w
    <3>1. req'[v] = req[v]
      BY <1>3, <2>2 DEF StepOf
    <3>2. r \in Row /\ res[r].status # Absent
      BY <3>1 DEF Known, TypeOK, Request, Creation, ReadRows
    <3>3. CASE Confirms(w)
      <4>1. r \notin req[w].rows
        BY <2>2, <3>1, <3>3 DEF Confirms, ApprovalLocks, RowLocks, WritingOps
      <4> QED BY <1>1, <3>1, <3>2, <3>3, <4>1 DEF Confirms
    <3>4. CASE Inserts(w)
      BY <1>1, <3>1, <3>2, <3>4 DEF Inserts
    <3>5. CASE Rests \/ Leaves(w) \/ TakesIn(w) \/ Stays(w)
      BY <1>1, <3>1, <3>2, <3>5 DEF Rests, Leaves, TakesIn, Stays, Moves
    <3> QED BY <1>3, <3>3, <3>4, <3>5 DEF StepOf, Writes
  <2> QED BY <2>1, <2>2
<1> QED BY <1>2, <1>3, StepKind DEF Known, Unmarked

\* A request for a status that is neither closed nor in_progress is for the one
\* the row has.
LEMMA StaysAsIs ==
    ASSUME NEW w, Stays(w), \A r \in req[w].rows : CheckHolds(w, r)
    PROVE  \A r \in Row : /\ res'[r].status = res[r].status
                          /\ res'[r].storage = res[r].storage
<1>1. \A r \in req[w].rows : res[r].status = req[w].to
  BY DEF Stays, CheckHolds, assertCanTransition, getAllowedNextStatuses,
         RELEASE_STORAGE_STATUSES
<1> QED BY <1>1 DEF Stays, Moves

LEMMA MarkedStep ==
    ASSUME Known, MarkedInv, [Next]_vars
    PROVE  OccupiedHasLuggage'
<1> SUFFICES ASSUME NEW s \in Storage, sto'[s] = "occupied"
             PROVE  \E r \in Row : HoldsLuggage(r, s)'
  BY DEF OccupiedHasLuggage
<1>1. ASSUME sto[s] = "occupied",
             \A r \in Row : HoldsLuggage(r, s) => HoldsLuggage(r, s)'
      PROVE  \E r \in Row : HoldsLuggage(r, s)'
  BY <1>1 DEF MarkedInv, OccupiedHasLuggage
<1>2. CASE Quiet
  BY <1>1, <1>2 DEF Quiet, HoldsLuggage
<1>3. ASSUME NEW w \in Worker, StepOf(w)
      PROVE  \E r \in Row : HoldsLuggage(r, s)'
  <2>1. \A r \in req[w].rows : r \in Row
    BY DEF Known, TypeOK, Request
  <2>2. CASE Rests
    BY <1>1, <2>2 DEF Rests, HoldsLuggage
  <2>3. CASE Inserts(w)
    BY <1>1, <2>3 DEF Inserts, HoldsLuggage, Absent
  <2>4. CASE Confirms(w)
    <3>1. \A r \in req[w].rows : res[r].status # "in_progress"
      BY <2>4 DEF Confirms, MarkedInv, ApprovalChecks, ChecksHold, CheckHolds,
                  assertCanApprove
    <3> QED BY <1>1, <2>4, <3>1 DEF Confirms, HoldsLuggage
  <2>5. CASE Leaves(w)
    <3>1. PICK rows \in SUBSET req[w].rows, to \in Status : Moves(rows, to)
      BY <2>5 DEF Leaves
    <3>2. s \notin Held(w, req[w].rows) /\ sto[s] = "occupied"
      BY <2>5 DEF Leaves, releaseStorageIfAny
    <3>3. \A r \in rows : ~HoldsLuggage(r, s)
      BY <2>5, <3>2, StoragesAssumption
         DEF Leaves, Held, MarkedInv, HoldsKept, HoldsLuggage
    <3> QED BY <1>1, <3>1, <3>2, <3>3 DEF HoldsLuggage, Moves
  <2>6. CASE TakesIn(w)
    <3>1. CASE s \in Held(w, req[w].rows)
      <4>1. PICK r \in req[w].rows : req[w].hold[r] = s
        BY <3>1 DEF Held
      <4> QED BY <2>1, <2>6, <4>1
              DEF TakesIn, MarkedInv, HoldsKept, Moves, HoldsLuggage
    <3>2. CASE s \notin Held(w, req[w].rows)
      <4>1. sto[s] = "occupied"
        BY <2>6, <3>2 DEF TakesIn, occupyStorageIfAny
      <4> QED BY <1>1, <2>6, <4>1 DEF TakesIn, HoldsLuggage, Moves
    <3> QED BY <3>1, <3>2
  <2>7. CASE Stays(w)
    <3>1. \A r \in req[w].rows : CheckHolds(w, r)
      BY <2>7 DEF Stays, MarkedInv, ApprovalChecks, ChecksHold
    <3> QED BY <1>1, <2>7, <3>1, StaysAsIs DEF Stays, HoldsLuggage
  <2> QED BY <1>3, <2>2, <2>3, <2>4, <2>5, <2>6, <2>7 DEF StepOf, Writes
<1> QED BY <1>2, <1>3, StepKind DEF Known, Unmarked

\* A storage is marked occupied only while luggage is in it, if approvals and
\* changes of status lock the rows they read: every way out of in_progress then
\* releases the storage the row has.
THEOREM OccupiedStoragesHoldLuggage ==
    Spec /\ []ApprovalLocks => []OccupiedHasLuggage
<1>1. AssigningOps \union {"updateStatus"} \in SUBSET WritingOps
  BY DEF WritingOps, MovingOps
<1>2. Init => MarkedInv
  <2>1. Init => OccupiedHasLuggage /\ HoldsKept
    BY OpKinds DEF Init, Idle, OccupiedHasLuggage, HoldsKept
  <2> QED BY <1>1, <2>1, ChecksInit DEF MarkedInv, ApprovalChecks
<1>3. Known /\ ApprovalLocks /\ MarkedInv /\ [Next]_vars => MarkedInv'
  <2> SUFFICES ASSUME Known, ApprovalLocks, MarkedInv, [Next]_vars
               PROVE  MarkedInv'
    OBVIOUS
  <2>1. ApprovalChecks'
    BY <1>1, ChecksStep DEF ApprovalLocks, MarkedInv, ApprovalChecks
  <2> QED BY <2>1, HoldsStep, MarkedStep DEF MarkedInv
<1>4. MarkedInv => OccupiedHasLuggage
  BY DEF MarkedInv
<1> QED BY <1>2, <1>3, <1>4, KnownHolds, PTL DEF Spec

----------------------------------------------------------------------------
(* Assigned storages *)

Active(r) == res[r].status \in ACTIVE_RESERVATION_STATUSES

\* Only confirmed rows have been given storages, of their types, and never one
\* whose hours are taken.
PendingUnassigned ==
    \A r \in Row : res[r].status \in {"pending", "pending_approval"} =>
        res[r].storage = NoStorage

StorageFits ==
    \A r \in Row : res[r].status # Absent /\ res[r].storage # NoStorage =>
        StorageTypeOf[res[r].storage] = TypeOf[r]

Separate ==
    \A r1, r2 \in Row :
        /\ r1 # r2 /\ Active(r1) /\ Active(r2)
        /\ res[r1].storage # NoStorage
        /\ Overlap(GroupOf[r1], GroupOf[r2])
        => res[r1].storage # res[r2].storage

\* A storage picked for a row fits it, and is nobody else's for its hours.
StillFree(s, r) ==
    s # NoStorage =>
        /\ StorageTypeOf[s] = TypeOf[r]
        /\ \A q \in Row : q # r /\ Active(q) /\ Overlap(GroupOf[q], GroupOf[r]) =>
              res[q].storage # s

\* The rows of a request that assigns storages compete with none of its own.
Picked ==
    \A w \in Worker : req[w].op \in AssigningOps =>
        /\ \A r \in req[w].rows : StillFree(req[w].hold[r], r)
        /\ \A r1, r2 \in req[w].rows : TypeOf[r1] = TypeOf[r2] => r1 = r2

CheckInChecks == ChecksHold({"updateStatus", "storeCheckin"})

AssignedInv ==
    PendingUnassigned /\ StorageFits /\ Separate /\ Picked /\ CheckInChecks

LEMMA OverlapBoth ==
    ASSUME NEW g \in Group, NEW h \in Group
    PROVE  Overlap(g, h) <=> Overlap(h, g)
BY InputsAssumption DEF Overlap

\* Rows that take luggage in were active, or have no storage.
LEMMA TakesInActive ==
    ASSUME NEW w \in Worker, TakesIn(w), PendingUnassigned, CheckInChecks,
           NEW r \in Row, r \in req[w].rows
    PROVE  Active(r) \/ res[r].storage = NoStorage
<1>1. CASE req[w].op \in {"updateStatus", "storeCheckin"}
  <2>1. CheckHolds(w, r)
    BY <1>1 DEF CheckInChecks, ChecksHold
  <2> QED BY <1>1, <2>1
          DEF TakesIn, CheckHolds, assertCanTransition, getAllowedNextStatuses,
              assertCanCheckin, Active, ACTIVE_RESERVATION_STATUSES
<1>2. CASE req[w].op \notin {"updateStatus", "storeCheckin"}
  <2>1. res[r].status \in CHECK_IN_FROM
    BY <1>2 DEF TakesIn, ById, MovingOps
  <2> QED BY <2>1 DEF CHECK_IN_FROM, PendingUnassigned, Active,
                      ACTIVE_RESERVATION_STATUSES
<1> QED BY <1>1, <1>2

LEMMA StaysUnchanged ==
    ASSUME NEW w \in Worker, Stays(w), CheckInChecks
    PROVE  \A r \in Row : /\ res'[r].status = res[r].status
                          /\ res'[r].storage = res[r].storage
<1>1. \A r \in req[w].rows : CheckHolds(w, r)
  BY DEF Stays, CheckInChecks, ChecksHold
<1> QED BY <1>1, StaysAsIs

\* Where no storage is assigned, an active row with a storage was active with it.
LEMMA NothingAssigned ==
    ASSUME NEW w \in Worker, PendingUnassigned, CheckInChecks,
           Rests \/ Inserts(w) \/ Leaves(w) \/ TakesIn(w) \/ Stays(w),
           NEW r \in Row, res'[r].storage # NoStorage
    PROVE  /\ res'[r].storage = res[r].storage
           /\ Active(r)' => Active(r)
           /\ res[r].status = Absent => res'[r].status = Absent \/ r \in req[w].rows
           /\ res'[r].status \in {"pending", "pending_approval"} =>
                 res[r].status \in {"pending", "pending_approval"}
<1>1. CASE Rests
  BY <1>1 DEF Rests, Active
<1>2. CASE Inserts(w)
  BY <1>2 DEF Inserts, Active
<1>3. CASE Leaves(w)
  BY <1>3 DEF Leaves, Moves, Active, ACTIVE_RESERVATION_STATUSES, Closed,
              TERMINAL_RESERVATION_STATUSES
<1>4. CASE TakesIn(w)
  BY <1>4, TakesInActive DEF TakesIn, Moves, Active
<1>5. CASE Stays(w)
  BY <1>5, StaysUnchanged DEF Active
<1> QED BY <1>1, <1>2, <1>3, <1>4, <1>5

LEMMA AssignedUnless ==
    ASSUME Known, AssignedInv, NEW w \in Worker,
           Rests \/ Inserts(w) \/ Leaves(w) \/ TakesIn(w) \/ Stays(w)
    PROVE  /\ PendingUnassigned' /\ StorageFits' /\ Separate'
           /\ \A s \in Storage, r \in Row : StillFree(s, r) => StillFree(s, r)'
<1>1. \A r \in Row : res'[r].storage # NoStorage =>
         /\ res'[r].storage = res[r].storage
         /\ Active(r)' => Active(r)
         /\ res'[r].status # Absent => res[r].status # Absent
         /\ res'[r].status \in {"pending", "pending_approval"} =>
               res[r].status \in {"pending", "pending_approval"}
  BY NothingAssigned DEF AssignedInv, Known, Creation, ReadRows
<1>2. PendingUnassigned'
  BY <1>1 DEF AssignedInv, PendingUnassigned
<1>3. StorageFits'
  BY <1>1 DEF AssignedInv, StorageFits
<1>4. Separate'
  BY <1>1 DEF AssignedInv, Separate, Overlap
<1>5. \A s \in Storage, r \in Row : StillFree(s, r) => StillFree(s, r)'
  BY <1>1, StoragesAssumption DEF StillFree, Overlap
<1> QED BY <1>2, <1>3, <1>4, <1>5

\* Rows are confirmed with storages that are free for them.
LEMMA AssignedConfirm ==
    ASSUME Known, AssignedInv, NEW w \in Worker, Confirms(w)
    PROVE  PendingUnassigned' /\ StorageFits' /\ Separate'
<1>1. \A r \in req[w].rows : r \in Row
  BY DEF Known, TypeOK, Request
<1>2. /\ \A r \in req[w].rows : StillFree(req[w].hold[r], r)
      /\ \A r1, r2 \in req[w].rows : TypeOf[r1] = TypeOf[r2] => r1 = r2
  BY DEF Confirms, AssignedInv, Picked
<1>3. PendingUnassigned'
  BY DEF Confirms, AssignedInv, PendingUnassigned
<1>4. StorageFits'
  BY <1>2 DEF Confirms, AssignedInv, StorageFits, StillFree
<1>5. Separate'
  <2> SUFFICES ASSUME NEW r1 \in Row, NEW r2 \in Row, r1 # r2,
                      Active(r1)', Active(r2)', res'[r1].storage # NoStorage,
                      Overlap(GroupOf[r1], GroupOf[r2]),
                      res'[r1].storage = res'[r2].storage
               PROVE  FALSE
    BY DEF Separate, Overlap
  <2>1. Overlap(GroupOf[r2], GroupOf[r1])
    BY OverlapBoth, InputsAssumption
  <2>2. \A r \in Row : r \notin req[w].rows => res'[r] = res[r]
    BY DEF Confirms
  <2>3. CASE r1 \in req[w].rows /\ r2 \in req[w].rows
    BY <1>2, <2>3 DEF Confirms, StillFree
  <2>4. CASE r1 \in req[w].rows /\ r2 \notin req[w].rows
    BY <1>2, <2>1, <2>2, <2>4 DEF Confirms, StillFree, Active
  <2>5. CASE r1 \notin req[w].rows /\ r2 \in req[w].rows
    BY <1>2, <2>2, <2>5 DEF Confirms, StillFree, Active
  <2>6. CASE r1 \notin req[w].rows /\ r2 \notin req[w].rows
    BY <2>2, <2>6 DEF AssignedInv, Separate, Active
  <2> QED BY <2>3, <2>4, <2>5, <2>6
<1> QED BY <1>3, <1>4, <1>5

\* What a request has just picked is free: the storage of a confirmed row was
\* its own before, and a pending row has none.
LEMMA JustPicked ==
    ASSUME TypeOK', PendingUnassigned', StorageFits', Separate',
           NEW w \in Worker, ReadNow(w)', req'[w].op \in AssigningOps,
           NEW r \in req'[w].rows
    PROVE  StillFree(req[w].hold[r], r)'
<1>1. r \in Row /\ assertCanApprove(res'[r].status)
  BY DEF ReadNow, CheckHolds, TypeOK, Request
<1>2. CASE req'[w].hold[r] \in FreeStorages(r)'
  BY <1>1, <1>2 DEF FreeStorages, StillFree, Active
<1>3. CASE req'[w].hold[r] = res'[r].storage /\ req'[w].hold[r] # NoStorage
  <2>1. Active(r)' /\ res'[r].status # Absent
    BY <1>1, <1>3 DEF assertCanApprove, PendingUnassigned, Active,
                      ACTIVE_RESERVATION_STATUSES, Absent
  <2>2. \A q \in Row : Overlap(GroupOf[q], GroupOf[r]) <=> Overlap(GroupOf[r], GroupOf[q])
    BY <1>1, OverlapBoth, InputsAssumption
  <2> QED BY <1>1, <1>3, <2>1, <2>2 DEF StillFree, Separate, StorageFits, Overlap
<1>4. CASE req'[w].hold[r] = NoStorage
  BY <1>4 DEF StillFree
<1> QED BY <1>2, <1>3, <1>4 DEF ReadNow

LEMMA PickedStep ==
    ASSUME Known, TypeOK', AssignmentLocks, AssignedInv, [Next]_vars,
           PendingUnassigned', StorageFits', Separate'
    PROVE  Picked'
<1>1. CASE Quiet
  <2>1. \A v \in Worker : \A r \in req[v].rows : r \in Row
    BY DEF Known, TypeOK, Request
  <2>2. \A s, r : StillFree(s, r) => StillFree(s, r)'
    BY <1>1 DEF Quiet, StillFree, Active, Overlap
  <2> QED BY <1>1, <2>1, <2>2 DEF Quiet, AssignedInv, Picked
<1>2. ASSUME NEW w \in Worker, StepOf(w) PROVE Picked'
  <2> SUFFICES ASSUME NEW v \in Worker, req'[v].op \in AssigningOps
               PROVE  /\ \A r \in req'[v].rows : StillFree(req[v].hold[r], r)'
                      /\ \A r1, r2 \in req'[v].rows : TypeOf[r1] = TypeOf[r2] => r1 = r2
    BY DEF Picked
  <2>1. CASE v = w
    <3>1. ReadNow(v)'
      BY <1>2, <2>1 DEF StepOf, WritingOps
    <3>2. \A r \in req'[v].rows : StillFree(req[v].hold[r], r)'
      BY <3>1, JustPicked
    <3> QED BY <3>1, <3>2 DEF ReadNow
  <2>2. CASE v # w
    <3>1. req'[v] = req[v]
      BY <1>2, <2>2 DEF StepOf
    <3>2. /\ \A r \in req[v].rows : StillFree(req[v].hold[r], r)
          /\ \A r1, r2 \in req[v].rows : TypeOf[r1] = TypeOf[r2] => r1 = r2
      BY <3>1 DEF AssignedInv, Picked
    <3>3. ASSUME NEW r \in req[v].rows, req[v].hold[r] # NoStorage
          PROVE  StillFree(req[v].hold[r], r)'
      <4>1. r \in Row /\ req[v].hold[r] \in Storage
        BY <3>3 DEF Known, TypeOK, Request
      <4>2. CASE Confirms(w)
        <5> SUFFICES ASSUME NEW q \in Row, q # r, Active(q)',
                            Overlap(GroupOf[q], GroupOf[r]),
                            res'[q].storage = req[v].hold[r]
                     PROVE  FALSE
          BY <3>1, <3>2, <3>3 DEF StillFree, Overlap
        <5>1. CASE q \notin req[w].rows
          BY <3>2, <3>3, <4>2, <5>1 DEF Confirms, StillFree, Active
        <5>2. CASE q \in req[w].rows
          <6>1. StillFree(req[w].hold[q], q) /\ req[w].hold[q] = req[v].hold[r]
            BY <4>2, <5>2 DEF Confirms, AssignedInv, Picked
          <6>2. TypeOf[q] = TypeOf[r]
            BY <3>2, <3>3, <6>1 DEF StillFree
          <6>3. ~Compete(q, r)
            BY <2>2, <3>1, <4>2, <5>2, <3>3 DEF AssignmentLocks, Confirms
          <6> QED BY <6>2, <6>3 DEF Compete
        <5> QED BY <5>1, <5>2
      <4>3. CASE ~Confirms(w)
        <5>1. StillFree(req[v].hold[r], r)
          BY <3>2, <3>3
        <5>2. PICK s \in Storage : s = req[v].hold[r]
          BY <4>1
        <5>3. StillFree(s, r)'
          BY <1>2, <4>1, <4>3, <5>1, <5>2, AssignedUnless DEF StepOf, Writes
        <5> QED BY <3>1, <5>2, <5>3 DEF StillFree
      <4> QED BY <4>2, <4>3
    <3>4. \A r \in req[v].rows : StillFree(req[v].hold[r], r)'
      BY <3>1, <3>3 DEF StillFree
    <3> QED BY <3>1, <3>2, <3>4
  <2> QED BY <2>1, <2>2
<1> QED BY <1>1, <1>2, StepKind DEF Known, Unmarked

LEMMA AssignedStep ==
    ASSUME Known, TypeOK', CheckInLocks, AssignmentLocks, AssignedInv, [Next]_vars
    PROVE  AssignedInv'
<1>1. CheckInChecks'
  BY ChecksStep DEF CheckInLocks, AssignedInv, CheckInChecks, WritingOps, MovingOps
<1>2. PendingUnassigned' /\ StorageFits' /\ Separate'
  <2>1. CASE Quiet
    BY <2>1 DEF Quiet, AssignedInv, PendingUnassigned, StorageFits, Separate,
                Active, Overlap
  <2>2. ASSUME NEW w \in Worker, StepOf(w)
        PROVE  PendingUnassigned' /\ StorageFits' /\ Separate'
    BY <2>2, AssignedUnless, AssignedConfirm DEF StepOf, Writes
  <2> QED BY <2>1, <2>2, StepKind DEF Known, Unmarked
<1> QED BY <1>1, <1>2, PickedStep DEF AssignedInv

\* findStorageForReservation never gives two active reservations with common
\* hours one storage, if it is not run for two of them at once, and if check-ins
\* and changes of status by id lock the row they read.
THEOREM AssignedOnce ==
    Spec /\ []CheckInLocks /\ []AssignmentLocks => []NoDoubleAssignment
<1>1. Init => AssignedInv
  <2>1. Init => PendingUnassigned /\ StorageFits /\ Separate /\ Picked
    BY OpKinds DEF Init, Idle, PendingUnassigned, StorageFits, Separate, Picked,
                   Active
  <2> QED BY <2>1, ChecksInit DEF AssignedInv, CheckInChecks, WritingOps, MovingOps
<1>2. Known /\ TypeOK' /\ CheckInLocks /\ AssignmentLocks /\ AssignedInv
         /\ [Next]_vars => AssignedInv'
  BY AssignedStep
<1>3. AssignedInv => NoDoubleAssignment
  BY InputsAssumption
     DEF AssignedInv, Separate, NoDoubleAssignment, Active, Covers, Overlap
<1> QED BY <1>1, <1>2, <1>3, KnownHolds, TypeCorrect, PTL DEF Spec

----------------------------------------------------------------------------
(* The capacity of guests' bookings *)

LEMMA BagsOfRow ==
    ASSUME NEW r \in Row
    PROVE  /\ IsFiniteSet({r} \X (1..BagsOf[r]))
           /\ Cardinality({r} \X (1..BagsOf[r])) = BagsOf[r]
<1>1. BagsOf[r] \in Nat
  BY InputsAssumption
<1>2. IsFiniteSet(1..BagsOf[r]) /\ Cardinality(1..BagsOf[r]) = BagsOf[r]
  BY <1>1, FS_Interval
<1>3. IsFiniteSet({r}) /\ Cardinality({r}) = 1
  BY FS_Singleton
<1>4. /\ IsFiniteSet({r} \X (1..BagsOf[r]))
      /\ Cardinality({r} \X (1..BagsOf[r])) = 1 * BagsOf[r]
  <2>1. PICK one, bags : one = {r} /\ bags = 1..BagsOf[r]
    OBVIOUS
  <2>2. /\ IsFiniteSet(one \X bags)
        /\ Cardinality(one \X bags) = Cardinality(one) * Cardinality(bags)
    BY <1>2, <1>3, <2>1, FS_Product
  <2> QED BY <1>2, <1>3, <2>1, <2>2
<1> QED BY <1>1, <1>4

LEMMA BagsFinite ==
    ASSUME NEW rows \in SUBSET Row
    PROVE  IsFiniteSet(BagsIn(rows)) /\ Bags(rows) \in Nat
<1>1. IsFiniteSet(rows)
  BY InputsAssumption, FS_Subset
<1> DEFINE perRow == {{r} \X (1..BagsOf[r]) : r \in rows}
<1>2. IsFiniteSet(perRow)
  <2> DEFINE bagsOf == [r \in rows |-> {r} \X (1..BagsOf[r])]
  <2>1. bagsOf \in Surjection(rows, perRow)
    BY DEF Surjection
  <2> HIDE DEF perRow, bagsOf
  <2> QED BY <1>1, <2>1, FS_Surjection
<1>3. \A bags \in perRow : IsFiniteSet(bags)
  BY BagsOfRow
<1>4. IsFiniteSet(UNION perRow)
  <2> HIDE DEF perRow
  <2> QED BY <1>2, <1>3, FS_UNION
<1> QED BY <1>4, FS_CardinalityType DEF BagsIn, Bags

\* Fewer rows have fewer bags.
LEMMA FewerRows ==
    ASSUME NEW rows \in SUBSET Row, NEW some \in SUBSET rows
    PROVE  Bags(some) <= Bags(rows)
<1>1. BagsIn(some) \in SUBSET BagsIn(rows)
  BY DEF BagsIn
<1> QED BY <1>1, BagsFinite, FS_Subset DEF Bags

LEMMA OneMoreRow ==
    ASSUME NEW rows \in SUBSET Row, NEW r \in Row
    PROVE  Bags(rows \union {r}) <= Bags(rows) + BagsOf[r]
<1> DEFINE old == BagsIn(rows)
           new == {r} \X (1..BagsOf[r])
<1>1. BagsIn(rows \union {r}) = old \union new
  BY DEF BagsIn
<1>2. /\ IsFiniteSet(old) /\ Cardinality(old) \in Nat
      /\ IsFiniteSet(new) /\ Cardinality(new) = BagsOf[r] /\ BagsOf[r] \in Nat
  BY BagsFinite, BagsOfRow, InputsAssumption DEF Bags
<1> HIDE DEF old, new
<1>3. Cardinality(old \union new)
         = Cardinality(old) + Cardinality(new) - Cardinality(old \intersect new)
  BY <1>2, FS_Union
<1>4. Cardinality(old \intersect new) \in Nat
  BY <1>2, FS_Intersection, FS_CardinalityType
<1>5. Bags(rows \union {r}) = Cardinality(old \union new)
  BY <1>1 DEF Bags
<1>6. Bags(rows) = Cardinality(old)
  BY DEF Bags, old
<1> QED BY <1>2, <1>3, <1>4, <1>5, <1>6

\* Rows that share an instant overlap, so the rows whose bags are there at an
\* instant of the booking are among those its check counted, and its own.
LEMMA InsertFits ==
    ASSUME NEW g \in Group, HasCapacity(g), NEW own \in RowsOf(g),
           NEW i \in StartOf[g]..EndOf[g] - 1,
           \A r \in Row : res'[r].status =
              IF r \in RowsOf(g) THEN "pending" ELSE res[r].status
    PROVE  BagsAt(TypeOf[own], i)' <= MaxCapacity[TypeOf[own]]
<1> DEFINE t == TypeOf[own]
<1>1. own \in Row /\ GroupOf[own] = g /\ t \in Type
  BY InputsAssumption DEF RowsOf
<1>2. PICK counted \in SUBSET Row : counted = CountedRows(g, t)
  BY DEF CountedRows
<1>3. PICK there \in SUBSET Row :
         there = {r \in Row : /\ TypeOf[r] = t
                              /\ res'[r].status \in CAPACITY_COUNT_STATUSES
                              /\ Covers(GroupOf[r], i)}
  OBVIOUS
<1>4. there \in SUBSET (counted \union {own})
  <2> SUFFICES ASSUME NEW r \in there, r # own
               PROVE  r \in counted
    BY <1>1
  <2>1. /\ r \in Row /\ TypeOf[r] = t /\ Covers(GroupOf[r], i)
        /\ res'[r].status \in CAPACITY_COUNT_STATUSES
    BY <1>3
  <2>2. r \notin RowsOf(g)
    BY <1>1, <2>1, InputsAssumption DEF RowsOf
  <2>3. Overlap(GroupOf[r], g)
    <3>1. PICK h \in Group : h = GroupOf[r]
      BY <2>1, InputsAssumption
    <3>2. /\ StartOf[g] \in Nat /\ EndOf[g] \in Nat
          /\ StartOf[h] \in Nat /\ EndOf[h] \in Nat
      BY InputsAssumption
    <3>3. StartOf[h] <= i /\ i < EndOf[h]
      BY <2>1, <3>1 DEF Covers
    <3> QED BY <3>1, <3>2, <3>3 DEF Overlap
  <2> QED BY <1>2, <2>1, <2>2, <2>3 DEF CountedRows
<1>5. BagsAt(t, i)' = Bags(there)
  BY <1>3 DEF BagsAt, Bags, BagsIn, Covers
<1>6. Bags(counted) + BagsOf[own] <= MaxCapacity[t]
  BY <1>2 DEF HasCapacity
<1>7. Bags(there) <= Bags(counted \union {own})
  BY <1>1, <1>4, FewerRows
<1>8. Bags(counted \union {own}) <= Bags(counted) + BagsOf[own]
  BY <1>1, OneMoreRow
<1>9. /\ Bags(there) \in Nat /\ Bags(counted \union {own}) \in Nat
      /\ Bags(counted) \in Nat /\ BagsOf[own] \in Nat /\ MaxCapacity[t] \in Nat
  BY <1>1, BagsFinite, InputsAssumption, StoragesAssumption
<1> QED BY <1>5, <1>6, <1>7, <1>8, <1>9

RevivalChecks == ChecksHold(RevivingOps)

\* The capacity that a guest's request read is there until it inserts its rows.
RoomKept ==
    \A w \in Worker, g \in Group :
        req[w].op = "insert" /\ req[w].of = g => HasCapacity(g)

\* Only rows that are inserted take room anew.
LEMMA RoomTaken ==
    ASSUME NEW w \in Worker, Writes(w), ~Inserts(w), RevivalChecks,
           NEW r \in Row, res'[r].status \in CAPACITY_COUNT_STATUSES
    PROVE  res[r].status \in CAPACITY_COUNT_STATUSES
<1>1. ASSUME req[w].op \in RevivingOps, r \in req[w].rows
      PROVE  CheckHolds(w, r)
  BY <1>1 DEF RevivalChecks, ChecksHold
<1>2. CASE Rests
  BY <1>2 DEF Rests
<1>3. CASE Confirms(w)
  BY <1>1, <1>3 DEF Confirms, RevivingOps, CheckHolds, assertCanApprove,
                    CAPACITY_COUNT_STATUSES
<1>4. CASE Leaves(w)
  BY <1>4 DEF Leaves, Moves, Closed, TERMINAL_RESERVATION_STATUSES,
              CAPACITY_COUNT_STATUSES
<1>5. CASE TakesIn(w)
  <2>1. CASE r \in req[w].rows /\ req[w].op \in {"updateStatus", "storeCheckin"}
    BY <1>1, <1>5, <2>1
       DEF TakesIn, RevivingOps, CheckHolds, assertCanTransition, assertCanCheckin,
           getAllowedNextStatuses, CAPACITY_COUNT_STATUSES
  <2>2. CASE r \in req[w].rows /\ req[w].op \notin {"updateStatus", "storeCheckin"}
    BY <1>5, <2>2 DEF TakesIn, ById, MovingOps, CHECK_IN_FROM,
                      CAPACITY_COUNT_STATUSES
  <2>3. CASE r \notin req[w].rows
    BY <1>5, <2>3 DEF TakesIn, Moves
  <2> QED BY <2>1, <2>2, <2>3
<1>6. CASE Stays(w)
  <2>1. \A q \in req[w].rows : CheckHolds(w, q)
    BY <1>6 DEF Stays, RevivalChecks, ChecksHold, RevivingOps
  <2> QED BY <1>6, <2>1, StaysAsIs
<1> QED BY <1>2, <1>3, <1>4, <1>5, <1>6 DEF Writes

\* There is room as long as no rows of the booking's types and hours come in.
LEMMA RoomStays ==
    ASSUME NEW g \in Group, HasCapacity(g),
           \A r \in Row, own \in RowsOf(g) :
              /\ TypeOf[r] = TypeOf[own] /\ Overlap(GroupOf[r], g)
              /\ res'[r].status \in CAPACITY_COUNT_STATUSES
              => res[r].status \in CAPACITY_COUNT_STATUSES
    PROVE  HasCapacity(g)'
<1> SUFFICES ASSUME NEW own \in RowsOf(g)
             PROVE  Bags(CountedRows(g, TypeOf[own]))' + BagsOf[own]
                       <= MaxCapacity[TypeOf[own]]
  BY DEF HasCapacity, RowsOf
<1>1. own \in Row /\ TypeOf[own] \in Type
  BY InputsAssumption DEF RowsOf
<1>2. PICK counted \in SUBSET Row : counted = CountedRows(g, TypeOf[own])
  BY DEF CountedRows
<1>3. PICK still \in SUBSET Row :
         still = {q \in Row : /\ TypeOf[q] = TypeOf[own]
                              /\ res'[q].status \in CAPACITY_COUNT_STATUSES
                              /\ Overlap(GroupOf[q], g)}
  OBVIOUS
<1>4. still \in SUBSET counted
  BY <1>2, <1>3 DEF CountedRows
<1>5. Bags(CountedRows(g, TypeOf[own]))' = Bags(still)
  BY <1>3 DEF Bags, BagsIn, CountedRows, Overlap
<1>6. Bags(still) <= Bags(counted)
  BY <1>4, FewerRows
<1>7. Bags(counted) + BagsOf[own] <= MaxCapacity[TypeOf[own]]
  BY <1>2 DEF HasCapacity
<1>8. /\ Bags(still) \in Nat /\ Bags(counted) \in Nat /\ BagsOf[own] \in Nat
      /\ MaxCapacity[TypeOf[own]] \in Nat
  BY <1>1, BagsFinite, InputsAssumption, StoragesAssumption
<1> QED BY <1>5, <1>6, <1>7, <1>8

LEMMA RoomStep ==
    ASSUME Known, CapacityLocks, CapacityLocks', RevivalChecks, RoomKept, [Next]_vars
    PROVE  RoomKept'
<1> SUFFICES ASSUME NEW v \in Worker, NEW g \in Group,
                    req'[v].op = "insert", req'[v].of = g
             PROVE  HasCapacity(g)'
  BY DEF RoomKept
<1>1. CASE Quiet
  <2>1. HasCapacity(g)
    BY <1>1 DEF Quiet, RoomKept
  <2> QED BY <1>1, <2>1, RoomStays DEF Quiet
<1>2. ASSUME NEW w \in Worker, StepOf(w) PROVE HasCapacity(g)'
  <2>1. CASE v = w
    <3>1. HasCapacity(g) /\ res' = res
      BY <1>2, <2>1 DEF StepOf
    <3> QED BY <3>1, RoomStays
  <2>2. CASE v # w
    <3>1. req'[v] = req[v] /\ HasCapacity(g)
      BY <1>2, <2>2 DEF StepOf, RoomKept
    \* What others insert does not compete.
    <3>2. ASSUME Inserts(w), NEW r \in Row, NEW own \in RowsOf(g),
                 TypeOf[r] = TypeOf[own], Overlap(GroupOf[r], g)
          PROVE  res'[r] = res[r]
      <4>1. PICK h \in Group :
               /\ \/ req[w].op = "insert" /\ req[w].of = h
                  \/ req'[w].op = "createdOne" /\ req'[w].rows = RowsOf(h)
               /\ \A q \in Row : q \notin RowsOf(h) => res'[q] = res[q]
        BY <3>2 DEF Inserts
      <4>2. Compete(own, r)
        <5>1. GroupOf[own] = g /\ GroupOf[r] \in Group
          BY <3>2, InputsAssumption DEF RowsOf
        <5> QED BY <3>2, <5>1, OverlapBoth DEF Compete
      <4>3. r \notin RowsOf(h)
        <5>1. CASE req[w].op = "insert" /\ req[w].of = h
          BY <2>2, <3>1, <4>2, <5>1 DEF CapacityLocks
        <5>2. CASE req'[w].op = "createdOne" /\ req'[w].rows = RowsOf(h)
          BY <2>2, <3>1, <4>2, <5>2 DEF CapacityLocks, RowsOf, Compete, Overlap
        <5> QED BY <4>1, <5>1, <5>2
      <4> QED BY <4>1, <4>3
    <3>3. \A r \in Row, own \in RowsOf(g) :
             /\ TypeOf[r] = TypeOf[own] /\ Overlap(GroupOf[r], g)
             /\ res'[r].status \in CAPACITY_COUNT_STATUSES
             => res[r].status \in CAPACITY_COUNT_STATUSES
      <4>1. CASE Inserts(w)
        BY <3>2, <4>1
      <4>2. CASE ~Inserts(w)
        BY <1>2, <4>2, RoomTaken DEF StepOf
      <4> QED BY <4>1, <4>2
    <3> QED BY <3>1, <3>3, RoomStays
  <2> QED BY <2>1, <2>2
<1> QED BY <1>1, <1>2, StepKind DEF Known, Unmarked

LEMMA CapacityStep ==
    ASSUME Known, RoomKept, [Next]_vars, NEW g \in Group,
           SourceOf[g] = "guest", ~Exists(g), Exists(g)',
           NEW own \in RowsOf(g), NEW i \in StartOf[g]..EndOf[g] - 1
    PROVE  BagsAt(TypeOf[own], i)' <= MaxCapacity[TypeOf[own]]
<1>1. /\ RepOf[g] \in Row /\ GroupOf[RepOf[g]] = g
      /\ res[RepOf[g]].status = Absent /\ res'[RepOf[g]].status # Absent
  BY InputsAssumption DEF Exists
<1>2. CASE Quiet
  BY <1>1, <1>2 DEF Quiet
<1>3. ASSUME NEW w \in Worker, StepOf(w)
      PROVE  BagsAt(TypeOf[own], i)' <= MaxCapacity[TypeOf[own]]
  <2>1. RepOf[g] \notin req[w].rows
    BY <1>1 DEF Known, Creation, ReadRows
  <2>2. Inserts(w)
    BY <1>1, <1>3, <2>1 DEF StepOf, Writes, Rests, Confirms, Leaves, TakesIn,
                            Stays, Moves
  <2>3. /\ req[w].op = "insert" /\ req[w].of = g
        /\ \A r \in Row :
              /\ r \notin RowsOf(g) => res'[r] = res[r]
              /\ r \in RowsOf(g) => res'[r].status = "pending"
    BY <1>1, <2>2 DEF Inserts, RowsOf
  <2>4. HasCapacity(g)
    BY <2>3 DEF RoomKept
  <2> QED BY <2>3, <2>4, InsertFits
<1> QED BY <1>2, <1>3, StepKind DEF Known, Unmarked

\* When a guest's booking is inserted, no instant of its hours has more bags of
\* its types than fit, those of customers and walk-ins counted, if nothing that
\* competes is inserted since its last look at the capacity and no closed row is
\* revived: the sum over overlapping rows in checkCapacityBatch is no less than
\* the bags at any instant.
THEOREM GuestsFit ==
    Spec /\ []RevivalLocks /\ []CapacityLocks => CapacityRespected
<1>1. RevivingOps \in SUBSET WritingOps
  BY DEF RevivingOps, WritingOps, MovingOps
<1>2. Init => RevivalChecks /\ RoomKept
  BY <1>1, ChecksInit DEF RevivalChecks, Init, RoomKept, Idle
<1>3. Known /\ RevivalLocks /\ RevivalChecks /\ [Next]_vars => RevivalChecks'
  BY <1>1, ChecksStep DEF RevivalLocks, RevivalChecks
<1>4. Known /\ CapacityLocks /\ CapacityLocks' /\ RevivalChecks /\ RoomKept
         /\ [Next]_vars => RoomKept'
  BY RoomStep
<1>5. Known /\ RoomKept /\ [Next]_vars
         => [\A g \in Group :
               SourceOf[g] = "guest" /\ ~Exists(g) /\ Exists(g)' =>
                  \A t \in {TypeOf[r] : r \in RowsOf(g)},
                     i \in StartOf[g]..EndOf[g] - 1 :
                        BagsAt(t, i)' <= MaxCapacity[t]]_vars
  BY CapacityStep
<1> QED BY <1>2, <1>3, <1>4, <1>5, KnownHolds, PTL DEF Spec, CapacityRespected

----------------------------------------------------------------------------
(* Bookings by link: the inductive invariant *)

CreatingOps == {"created", "autoApprove"}
LinkOps == {"idle", "precheck", "insert", "notify", "checkIn", "checkOut",
            "noShow", "cleanup", "autoComplete"} \union CreatingOps

\* A booking whose creation is still in progress: it is pending, nobody else
\* names it, its owner has no link yet, and it is too young to expire.
NotYetKnown(w) ==
    req[w].op \in CreatingOps =>
        /\ req[w].of \in Group
        /\ \A r \in RowsOf(req[w].of) : res[r].status = "pending"
        /\ req[w].of \notin notified
        /\ createdAt[req[w].of] >= IF req[w].late THEN now - 1 ELSE now
        /\ \A v \in Worker \ {w} : \A r \in req[v].rows : GroupOf[r] # req[w].of
        /\ req[w].op = "autoApprove" => req[w].rows = RowsOf(req[w].of)

\* What a request of the link or of a sweep has read and does not test again.
StillSo(w) ==
    /\ req[w].op \in {"checkIn", "checkOut", "noShow"} =>
          \E g \in notified :
             /\ req[w].rows = RowsOf(g)
             /\ req[w].op = "noShow" => StartOf[g] <= now
    /\ req[w].op \in {"checkIn", "checkOut"} /\ ~req[w].settle =>
          \A r \in req[w].rows : res[r].paid
    /\ req[w].op = "autoComplete" =>
          \A r \in req[w].rows : EndOf[GroupOf[r]] < now
    /\ req[w].op = "notify" => \A r \in RowsOf(req[w].of) : res[r].status # Absent

LinkRequest(w) == req[w].op \in LinkOps /\ NotYetKnown(w) /\ StillSo(w)

\* A booking that does not exist is unpaid and nobody has its link.
NothingBefore ==
    \A r \in Row : res[r].status = Absent =>
        ~res[r].paid /\ GroupOf[r] \notin notified

LinkInv == singled = {} /\ NothingBefore /\ \A w \in Worker : LinkRequest(w)

\* Everything the refinement rests on.
LinkState ==
    TypeOK /\ Creation /\ Uniform /\ WholeRequests /\ LinkInv

\* What a step of w's request may do to what the other requests rely on.
Calm(w) ==
    /\ now' = now /\ singled' = singled
    /\ \A v \in Worker \ {w} : req'[v] = req[v]
    /\ \A r \in Row : r \notin req[w].rows \union RowsOf(req[w].of) =>
          res'[r] = res[r]
    /\ \A r \in Row : res[r].status # Absent =>
          /\ res'[r].status # Absent
          /\ res[r].paid => res'[r].paid
    /\ notified \subseteq notified'
    /\ notified' \subseteq notified \union {req[w].of}
    /\ \A g \in Group \ {req[w].of} : createdAt'[g] = createdAt[g]
    /\ \A r \in req'[w].rows \ req[w].rows :
          \/ GroupOf[r] = req[w].of \/ GroupOf[r] \in notified
          \/ Expired(r) \/ res[r].status # "pending"

----------------------------------------------------------------------------
(* Steps keep the invariant *)

LEMMA RequestRows ==
    ASSUME TypeOK, NEW w \in Worker
    PROVE  \A r \in req[w].rows : r \in Row
BY DEF TypeOK, Request

\* A booking under creation has not expired: a request sees one tick at most, and
\* the cleanup waits for more.
LEMMA YoungNotExpired ==
    ASSUME TypeOK, NEW w \in Worker, NotYetKnown(w), req[w].op \in CreatingOps,
           NEW r \in Row, GroupOf[r] = req[w].of
    PROVE  ~Expired(r)
<1>1. createdAt[req[w].of] \in Int /\ now \in Int /\ TTL \in Int /\ TTL >= 1
  BY ClockAssumption DEF TypeOK, NotYetKnown
<1>2. createdAt[req[w].of] >= now - 1
  BY <1>1 DEF NotYetKnown
<1> QED BY <1>1, <1>2 DEF Expired

LEMMA CalmKeepsOthers ==
    ASSUME LinkState, TypeOK', NEW w \in Worker, Calm(w),
           NEW v \in Worker, v # w
    PROVE  LinkRequest(v)'
<1> USE DEF LinkState
<1>1. req'[v] = req[v] /\ LinkRequest(v)
  BY DEF Calm, LinkInv
<1>2. NotYetKnown(v)'
  <2> SUFFICES ASSUME req[v].op \in CreatingOps
               PROVE  /\ req[v].of \in Group
                      /\ \A r \in RowsOf(req[v].of) : res'[r].status = "pending"
                      /\ req[v].of \notin notified'
                      /\ createdAt'[req[v].of] >= IF req[v].late THEN now - 1 ELSE now
                      /\ \A u \in Worker \ {v} : \A r \in req'[u].rows :
                            GroupOf[r] # req[v].of
                      /\ req[v].op = "autoApprove" => req[v].rows = RowsOf(req[v].of)
    BY <1>1 DEF NotYetKnown, Calm, RowsOf
  <2>1. /\ req[v].of \in Group /\ req[w].of # req[v].of
        /\ NotYetKnown(v)
    BY <1>1 DEF LinkRequest, NotYetKnown, Creation, OneCreator
  <2>2. ASSUME NEW r \in RowsOf(req[v].of)
        PROVE  res'[r].status = "pending"
    <3>1. r \in Row /\ GroupOf[r] = req[v].of /\ res[r].status = "pending"
      BY <2>1 DEF RowsOf, NotYetKnown
    <3>2. r \notin req[w].rows \union RowsOf(req[w].of)
      BY <2>1, <3>1 DEF RowsOf, NotYetKnown
    <3> QED BY <3>1, <3>2 DEF Calm
  <2>3. ASSUME NEW u \in Worker \ {v}, NEW r \in req'[u].rows
        PROVE  GroupOf[r] # req[v].of
    <3>1. CASE u # w
      BY <2>1, <2>3, <3>1 DEF Calm, NotYetKnown
    <3>2. CASE u = w /\ r \in req[w].rows
      BY <2>1, <2>3, <3>2 DEF NotYetKnown
    <3>3. CASE u = w /\ r \notin req[w].rows
      <4>1. r \in Row
        BY <2>3 DEF TypeOK, Request
      <4>2. \/ GroupOf[r] = req[w].of \/ GroupOf[r] \in notified
            \/ Expired(r) \/ res[r].status # "pending"
        BY <2>3, <3>3 DEF Calm
      <4> QED BY <2>1, <4>1, <4>2, YoungNotExpired DEF NotYetKnown, RowsOf
    <3> QED BY <3>1, <3>2, <3>3
  <2> QED BY <2>1, <2>2, <2>3 DEF NotYetKnown, Calm
<1>3. StillSo(v)'
  <2>1. \A r \in req[v].rows : r \in Row /\ res[r].status # Absent
    BY RequestRows DEF Creation, ReadRows
  <2>2. \A r \in RowsOf(req[v].of) : r \in Row
    BY DEF RowsOf
  <2>3. StillSo(v) /\ now' = now
    BY <1>1 DEF LinkRequest, Calm
  <2>4. req[v].op \in {"checkIn", "checkOut", "noShow"} =>
           \E g \in notified' :
             /\ req[v].rows = RowsOf(g)
             /\ req[v].op = "noShow" => StartOf[g] <= now
    BY <2>3 DEF StillSo, Calm
  <2>5. req[v].op \in {"checkIn", "checkOut"} /\ ~req[v].settle =>
           \A r \in req[v].rows : res'[r].paid
    BY <2>1, <2>3 DEF StillSo, Calm
  <2>6. req[v].op = "notify" => \A r \in RowsOf(req[v].of) : res'[r].status # Absent
    BY <2>2, <2>3 DEF StillSo, Calm
  <2> QED BY <1>1, <2>3, <2>4, <2>5, <2>6 DEF StillSo, RowsOf
<1> QED BY <1>1, <1>2, <1>3 DEF LinkRequest

LEMMA CalmKeeps ==
    ASSUME LinkState, TypeOK', NEW w \in Worker, Calm(w),
           LinkRequest(w)', NothingBefore'
    PROVE  LinkInv'
BY CalmKeepsOthers DEF LinkInv, LinkState, Calm

LEMMA EndedLink ==
    ASSUME NEW w, req'[w].op \in {"idle", "precheck", "insert"}
    PROVE  LinkRequest(w)'
BY DEF LinkRequest, LinkOps, CreatingOps, NotYetKnown, StillSo

\* Steps that only read.
LEMMA ReadCalm ==
    ASSUME NEW w \in Worker, UNCHANGED <<now, res, createdAt, notified, singled>>,
           \A v \in Worker \ {w} : req'[v] = req[v],
           \A r \in req'[w].rows \ req[w].rows :
              \/ GroupOf[r] = req[w].of \/ GroupOf[r] \in notified
              \/ Expired(r) \/ res[r].status # "pending"
    PROVE  Calm(w) /\ (NothingBefore => NothingBefore')
BY DEF Calm, NothingBefore

\* A commit writes rows the request has named, ends the request and leaves every
\* row that exists in existence and as paid as it was.
LEMMA CommitLink ==
    ASSUME LinkState, TypeOK', NEW w \in Worker, End(w),
           UNCHANGED <<now, createdAt, notified, singled>>,
           \A r \in Row :
              /\ r \notin req[w].rows => res'[r] = res[r]
              /\ r \in req[w].rows => /\ res'[r].status # Absent
                                      /\ res[r].paid => res'[r].paid
    PROVE  LinkInv'
<1>1. req'[w].op = "idle" /\ req'[w].rows = {} /\ \A v \in Worker \ {w} : req'[v] = req[v]
  BY EndFacts DEF LinkState
<1>2. \A r \in req[w].rows : res[r].status # Absent
  BY DEF LinkState, Creation, ReadRows
<1>3. Calm(w)
  BY <1>1, <1>2 DEF Calm
<1>4. NothingBefore'
  BY <1>2 DEF LinkState, LinkInv, NothingBefore
<1> QED BY <1>1, <1>3, <1>4, EndedLink, CalmKeeps

LEMMA GuestLink ==
    ASSUME LinkState, TypeOK', Endpoints \subseteq LinkEndpoints,
           NEW w \in Worker, GuestStep(w)
    PROVE  LinkInv'
<1> USE DEF LinkState
<1>1. ASSUME NEW g \in Group, PrecheckGuest(w, g) \/ BeginCreateGuest(w, g)
      PROVE  LinkInv'
  <2>1. PICK op \in {"precheck", "insert"} : Advance(w, op, g)
    BY <1>1 DEF PrecheckGuest, BeginCreateGuest
  <2>2. /\ req'[w].op = op /\ req'[w].rows = req[w].rows
        /\ \A v \in Worker \ {w} : req'[v] = req[v]
    BY <2>1, AdvanceFacts
  <2>3. Calm(w) /\ NothingBefore'
    BY <1>1, <2>2, ReadCalm DEF PrecheckGuest, BeginCreateGuest, LinkInv
  <2> QED BY <2>2, <2>3, EndedLink, CalmKeeps
<1>2. ASSUME NEW g \in Group, CommitCreateGuest(w, g)
      PROVE  LinkInv'
  <2>1. CASE ~PaymentStillFree(g)
    BY <1>2, <2>1, CommitLink DEF CommitCreateGuest, Creation, ReadRows
  <2>2. CASE PaymentStillFree(g)
    <3>1. /\ Advance(w, "created", g) /\ req[w].of = g /\ req[w].op = "insert"
          /\ UNCHANGED <<now, sto, notified, singled>>
          /\ createdAt' = [createdAt EXCEPT ![g] =
                             IF req[w].late THEN now - 1 ELSE now]
      BY <1>2, <2>2 DEF CommitCreateGuest
    <3>2. /\ req'[w].op = "created" /\ req'[w].of = g
          /\ req'[w].rows = req[w].rows /\ req'[w].late = req[w].late
          /\ \A v \in Worker \ {w} : req'[v] = req[v]
      BY <3>1 DEF Advance, TypeOK, Request
    <3>3. \A r \in Row : /\ r \in RowsOf(g) => res'[r].status = "pending"
                         /\ r \notin RowsOf(g) => res'[r] = res[r]
      BY <1>2, <2>2 DEF CommitCreateGuest
    <3>4. /\ \A r \in RowsOf(g) : r \in Row /\ res[r].status = Absent
          /\ res[RepOf[g]].status = Absent
          /\ RepOf[g] \in RowsOf(g)
      BY <3>1, ExistsAll, InputsAssumption DEF Creation, OneCreator, Exists, RowsOf
    <3>5. g \notin notified
      BY <3>4, InputsAssumption DEF LinkInv, NothingBefore
    <3>6. Calm(w)
      BY <3>1, <3>2, <3>3, <3>4 DEF Calm, TypeOK
    <3>7. createdAt'[g] = IF req[w].late THEN now - 1 ELSE now
      BY <3>1 DEF TypeOK
    <3>8. now \in Int
      BY ClockAssumption DEF TypeOK
    <3>9. \A v \in Worker \ {w} : \A r \in req[v].rows : GroupOf[r] # g
      BY <3>4, RequestRows DEF Creation, ReadRows, RowsOf
    <3>10. NotYetKnown(w)'
      BY <3>1, <3>2, <3>3, <3>4, <3>5, <3>7, <3>8, <3>9
         DEF NotYetKnown, RowsOf
    <3>11. LinkRequest(w)'
      BY <3>2, <3>10 DEF LinkRequest, LinkOps, CreatingOps, StillSo
    <3>12. NothingBefore'
      BY <3>1, <3>3 DEF LinkInv, NothingBefore, Absent
    <3> QED BY <3>6, <3>11, <3>12, CalmKeeps
  <2> QED BY <2>1, <2>2
<1>3. ASSUME NEW g \in Group, BeginAutoApprove(w, g)
      PROVE  LinkInv'
  <2> DEFINE rows == {r \in RowsOf(g) : res[r].status = "pending"}
             hold == [r \in Row |-> findStorageForReservation(r)]
  <2>1. /\ Begin(w, "autoApprove", rows, hold, "confirmed")
        /\ req[w].op = "created" /\ req[w].of = g
        /\ UNCHANGED <<now, res, createdAt, sto, pay, notified, singled>>
    BY <1>3 DEF BeginAutoApprove
  <2>2. NotYetKnown(w)
    BY DEF LinkInv, LinkRequest
  <2>3. rows = RowsOf(g) /\ rows \in SUBSET Row
    BY <2>1, <2>2 DEF NotYetKnown, CreatingOps, RowsOf
  <2> HIDE DEF rows, hold
  <2>4. /\ req'[w].op = "autoApprove" /\ req'[w].rows = RowsOf(g)
        /\ req'[w].of = g /\ req'[w].late = req[w].late
        /\ \A v \in Worker \ {w} : req'[v] = req[v]
    BY <2>1, <2>3, BeginFacts
  <2>5. Calm(w) /\ NothingBefore'
    BY <2>1, <2>4, ReadCalm DEF LinkInv, RowsOf
  <2>6. NotYetKnown(w)'
    BY <2>1, <2>2, <2>4 DEF NotYetKnown, CreatingOps, RowsOf
  <2>7. LinkRequest(w)'
    BY <2>4, <2>6 DEF LinkRequest, LinkOps, CreatingOps, StillSo
  <2> QED BY <2>5, <2>7, CalmKeeps
<1>4. ASSUME NEW g \in Group, CommitAutoApprove(w, g)
      PROVE  LinkInv'
  <2>1. /\ Begin(w, "notify", {}, StorageIds, Absent)
        /\ req[w].op = "autoApprove" /\ req[w].of = g
        /\ UNCHANGED <<now, createdAt, notified, singled>>
    BY <1>4 DEF CommitAutoApprove
  <2>2. req[w].rows = RowsOf(g) /\ \A r \in RowsOf(g) : r \in Row
    BY <2>1 DEF LinkInv, LinkRequest, NotYetKnown, CreatingOps, RowsOf
  <2>3. /\ req'[w].op = "notify" /\ req'[w].rows = {} /\ req'[w].of = g
        /\ \A v \in Worker \ {w} : req'[v] = req[v]
    BY <2>1, BeginFacts
  <2>4. \A r \in Row : /\ r \in RowsOf(g) => res'[r].status = "confirmed"
                       /\ res'[r].paid = res[r].paid
                       /\ r \notin RowsOf(g) => res'[r] = res[r]
    BY <1>4, <2>2 DEF CommitAutoApprove, TypeOK
  <2>5. Calm(w)
    BY <2>1, <2>3, <2>4 DEF Calm, Absent
  <2>6. NothingBefore'
    BY <2>1, <2>4 DEF LinkInv, NothingBefore, Absent
  <2>7. LinkRequest(w)'
    BY <2>2, <2>3, <2>4 DEF LinkRequest, LinkOps, CreatingOps, NotYetKnown, StillSo,
                            Absent, RowsOf
  <2> QED BY <2>5, <2>6, <2>7, CalmKeeps
<1>5. ASSUME NEW g \in Group, SendCreateNotification(w, g)
      PROVE  LinkInv'
  <2>1. /\ End(w) /\ req[w].op = "notify" /\ req[w].of = g
        /\ notified' = notified \union {g}
        /\ UNCHANGED <<now, res, createdAt, singled>>
    BY <1>5 DEF SendCreateNotification
  <2>2. /\ req'[w].op = "idle" /\ req'[w].rows = {}
        /\ \A v \in Worker \ {w} : req'[v] = req[v]
    BY <2>1, EndFacts
  <2>3. Calm(w)
    BY <2>1, <2>2 DEF Calm
  <2>4. \A r \in RowsOf(g) : res[r].status # Absent
    BY <2>1 DEF LinkInv, LinkRequest, StillSo
  <2>5. NothingBefore'
    BY <2>1, <2>4 DEF LinkInv, NothingBefore, RowsOf
  <2> QED BY <2>2, <2>3, <2>5, EndedLink, CalmKeeps
<1>6. ~(\E g \in Group : BeginGuestCancel(w, g)) /\ ~CommitGuestCancel(w)
  BY DEF BeginGuestCancel, Accepts, LinkEndpoints, CommitGuestCancel, LinkInv,
         LinkRequest, LinkOps, CreatingOps
<1> QED BY <1>1, <1>2, <1>3, <1>4, <1>5, <1>6 DEF GuestStep

LEMMA OwnerLink ==
    ASSUME LinkState, TypeOK', Endpoints \subseteq LinkEndpoints,
           NEW w \in Worker, OwnerStep(w)
    PROVE  LinkInv'
<1> USE DEF LinkState
<1>1. ASSUME NEW g \in Group, NEW op \in {"checkIn", "checkOut"}, NEW from,
             NEW to, BeginOwnerAction(w, g, op, from, to)
      PROVE  LinkInv'
  <2> DEFINE held == [r \in Row |-> IF r \in RowsOf(g) THEN res[r].storage
                                    ELSE NoStorage]
             unpaid == ~res[RepOf[g]].paid
             new == [Idle EXCEPT !.op = op, !.rows = RowsOf(g), !.to = to,
                                 !.hold = held, !.settle = unpaid]
  <2>1. new.op = op /\ new.rows = RowsOf(g) /\ new.settle = unpaid
    BY DEF Idle
  <2>2. /\ req' = [req EXCEPT ![w] = new] /\ g \in notified
        /\ UNCHANGED <<now, res, createdAt, sto, pay, notified, singled>>
    BY <1>1 DEF BeginOwnerAction
  <2>3. unpaid = ~res[RepOf[g]].paid
    OBVIOUS
  <2> HIDE DEF held, unpaid, new
  <2>4. /\ req'[w].op = op /\ req'[w].rows = RowsOf(g) /\ req'[w].settle = unpaid
        /\ \A v \in Worker \ {w} : req'[v] = req[v]
    BY <2>1, <2>2 DEF TypeOK
  <2>5. Calm(w) /\ NothingBefore'
    BY <2>2, <2>4, ReadCalm DEF LinkInv, RowsOf
  <2>6. ~unpaid => \A r \in RowsOf(g) : res[r].paid
    <3>1. \A r \in RowsOf(g) : res[r].paid = res[RepOf[g]].paid
      BY InputsAssumption DEF Uniform, RowsOf
    <3> QED BY <2>3, <3>1
  <2>7. StillSo(w)'
    BY <2>2, <2>4, <2>6 DEF StillSo, RowsOf
  <2>8. LinkRequest(w)'
    BY <2>4, <2>7 DEF LinkRequest, LinkOps, CreatingOps, NotYetKnown
  <2> QED BY <2>5, <2>8, CalmKeeps
<1>2. ASSUME NEW g \in Group, BeginCheckIn(w, g) \/ BeginCheckOut(w, g)
      PROVE  LinkInv'
  BY <1>1, <1>2 DEF BeginCheckIn, BeginCheckOut
<1>3. ASSUME NEW g \in Group, BeginNoShow(w, g)
      PROVE  LinkInv'
  <2>1. /\ Begin(w, "noShow", RowsOf(g), StorageIds, "no_show")
        /\ g \in notified /\ StartOf[g] <= now
        /\ UNCHANGED <<now, res, createdAt, notified, singled>>
    BY <1>3 DEF BeginNoShow, Accepts, LinkEndpoints
  <2>2. RowsOf(g) \in SUBSET Row
    BY DEF RowsOf
  <2>3. /\ req'[w].op = "noShow" /\ req'[w].rows = RowsOf(g)
        /\ \A v \in Worker \ {w} : req'[v] = req[v]
    BY <2>1, <2>2, BeginFacts
  <2>4. Calm(w) /\ NothingBefore'
    BY <2>1, <2>3, ReadCalm DEF LinkInv, RowsOf
  <2>5. LinkRequest(w)'
    BY <2>1, <2>3 DEF LinkRequest, LinkOps, CreatingOps, NotYetKnown, StillSo, RowsOf
  <2> QED BY <2>4, <2>5, CalmKeeps
<1>4. ASSUME NEW to \in Status, OwnerWrite(w, to) \/ SetStatus(req[w].rows, to)
      PROVE  \A r \in Row :
                /\ r \notin req[w].rows => res'[r] = res[r]
                /\ r \in req[w].rows => /\ res'[r].status # Absent
                                        /\ res[r].paid => res'[r].paid
  <2>1. CASE OwnerWrite(w, to)
    <3> DEFINE paid(r) == res[r].paid \/ req[w].settle
    <3>1. \A r \in Row :
             res'[r] = IF r \in req[w].rows
                       THEN [res[r] EXCEPT !.status = to, !.paid = paid(r)]
                       ELSE res[r]
      BY <2>1 DEF OwnerWrite
    <3>2. \A r \in Row : res[r].paid => paid(r)
      OBVIOUS
    <3> HIDE DEF paid
    <3> QED BY <3>1, <3>2, AbsentIsNoStatus DEF TypeOK
  <2>2. CASE SetStatus(req[w].rows, to)
    BY <2>2, AbsentIsNoStatus DEF SetStatus, TypeOK
  <2> QED BY <1>4, <2>1, <2>2
<1>5. ASSUME End(w), UNCHANGED <<now, res, createdAt, notified, singled>>
      PROVE  LinkInv'
  BY <1>5, CommitLink DEF Creation, ReadRows
<1>6. CASE CommitCheckIn(w)
  BY <1>4, <1>5, <1>6, CommitLink DEF CommitCheckIn, Status
<1>7. CASE CommitCheckOut(w)
  BY <1>4, <1>5, <1>7, CommitLink DEF CommitCheckOut, Status
<1>8. CASE CommitNoShow(w)
  BY <1>4, <1>5, <1>8, CommitLink DEF CommitNoShow, Status
<1> QED BY <1>2, <1>3, <1>6, <1>7, <1>8 DEF OwnerStep

LEMMA SweepLink ==
    ASSUME LinkState, TypeOK', NEW w \in Worker, SweepStep(w)
    PROVE  LinkInv'
<1> USE DEF LinkState
<1>1. CASE BeginCleanup(w)
  <2> DEFINE rows == {r \in Row : Expired(r)}
  <2>1. /\ Begin(w, "cleanup", rows, StorageIds, "cancelled")
        /\ UNCHANGED <<now, res, createdAt, notified, singled>>
    BY <1>1 DEF BeginCleanup
  <2>2. rows \in SUBSET Row /\ \A r \in rows : Expired(r)
    OBVIOUS
  <2> HIDE DEF rows
  <2>3. /\ req'[w].op = "cleanup" /\ req'[w].rows = rows
        /\ \A v \in Worker \ {w} : req'[v] = req[v]
    BY <2>1, <2>2, BeginFacts
  <2>4. Calm(w) /\ NothingBefore'
    BY <2>1, <2>2, <2>3, ReadCalm DEF LinkInv
  <2>5. LinkRequest(w)'
    BY <2>3 DEF LinkRequest, LinkOps, CreatingOps, NotYetKnown, StillSo
  <2> QED BY <2>4, <2>5, CalmKeeps
<1>2. CASE BeginAutoComplete(w)
  <2> DEFINE rows == {r \in Row : Overdue(r)}
  <2>1. /\ Begin(w, "autoComplete", rows, StorageIds, "completed")
        /\ UNCHANGED <<now, res, createdAt, notified, singled>>
    BY <1>2 DEF BeginAutoComplete
  <2>2. /\ rows \in SUBSET Row
        /\ \A r \in rows : r \in Row /\ Overdue(r)
    OBVIOUS
  <2> HIDE DEF rows
  <2>3. /\ req'[w].op = "autoComplete" /\ req'[w].rows = rows
        /\ \A v \in Worker \ {w} : req'[v] = req[v]
    BY <2>1, <2>2, BeginFacts
  <2>4. \A r \in rows : /\ res[r].status # "pending"
                        /\ EndOf[GroupOf[r]] < now
    <3> TAKE r \in rows
    <3>1. /\ EndOf[GroupOf[r]] < now - Grace
          /\ res[r].status \in AUTO_COMPLETE_FROM /\ r \in Row
      BY <2>2 DEF Overdue
    <3>2. EndOf[GroupOf[r]] \in Int /\ now \in Int /\ Grace \in Nat
      BY <3>1, InputsAssumption, ClockAssumption DEF TypeOK
    <3> QED BY <3>1, <3>2 DEF AUTO_COMPLETE_FROM
  <2>5. Calm(w) /\ NothingBefore'
    BY <2>1, <2>3, <2>4, ReadCalm DEF LinkInv
  <2>6. LinkRequest(w)'
    BY <2>1, <2>3, <2>4 DEF LinkRequest, LinkOps, CreatingOps, NotYetKnown, StillSo
  <2> QED BY <2>5, <2>6, CalmKeeps
<1>3. ASSUME NEW to \in Status, NEW rows \in SUBSET req[w].rows, SetStatus(rows, to)
      PROVE  \A r \in Row :
                /\ r \notin req[w].rows => res'[r] = res[r]
                /\ r \in req[w].rows => /\ res'[r].status # Absent
                                        /\ res[r].paid => res'[r].paid
  BY <1>3, AbsentIsNoStatus DEF SetStatus, TypeOK, Creation, ReadRows
<1>4. CASE CommitCleanup(w)
  BY <1>3, <1>4, CommitLink DEF CommitCleanup, StillUnpaid, Status
<1>5. CASE CommitAutoComplete(w)
  BY <1>3, <1>5, CommitLink DEF CommitAutoComplete, StillOpen, Status
<1> QED BY <1>1, <1>2, <1>4, <1>5 DEF SweepStep

\* A tick ages the requests in progress, and each of them once.
LEMMA TickLink ==
    ASSUME LinkState, Tick
    PROVE  LinkInv'
<1> USE DEF LinkState
<1>1. /\ UNCHANGED <<res, createdAt, notified, singled>>
      /\ now' = now + 1 /\ now \in Int /\ now' \in Int
  BY ClockAssumption DEF Tick, TypeOK
<1>2. \A v \in Worker :
         /\ req'[v].op = req[v].op /\ req'[v].of = req[v].of
         /\ req'[v].rows = req[v].rows /\ req'[v].settle = req[v].settle
         /\ req[v].op # "idle" => req'[v].late /\ ~req[v].late
  BY DEF Tick, TypeOK, Request
<1>3. ASSUME NEW v \in Worker PROVE LinkRequest(v)'
  <2>1. LinkRequest(v)
    BY DEF LinkInv
  <2>2. NotYetKnown(v)'
    <3> SUFFICES ASSUME req[v].op \in CreatingOps PROVE NotYetKnown(v)'
      BY <1>2 DEF NotYetKnown
    <3>1. /\ req[v].of \in Group
          /\ createdAt[req[v].of] \in Int /\ createdAt[req[v].of] >= now
      BY <1>2, <2>1 DEF LinkRequest, NotYetKnown, CreatingOps, TypeOK
    <3>2. createdAt'[req[v].of] >= IF req'[v].late THEN now' - 1 ELSE now'
      BY <1>1, <1>2, <3>1 DEF CreatingOps
    <3> QED BY <1>1, <1>2, <2>1, <3>2 DEF LinkRequest, NotYetKnown, RowsOf
  <2>3. \A g \in notified : StartOf[g] <= now => StartOf[g] <= now'
    BY <1>1, InputsAssumption DEF TypeOK
  <2>4. \A r \in req[v].rows : EndOf[GroupOf[r]] < now => EndOf[GroupOf[r]] < now'
    BY <1>1, RequestRows, InputsAssumption
  <2>5. StillSo(v)'
    BY <1>1, <1>2, <2>1, <2>3, <2>4 DEF LinkRequest, StillSo, RowsOf
  <2> QED BY <1>2, <2>1, <2>2, <2>5 DEF LinkRequest
<1> QED BY <1>1, <1>3 DEF LinkInv, NothingBefore

\* The other endpoints are not called.
LEMMA OnlyLinkSteps ==
    ASSUME LinkState, Endpoints \subseteq LinkEndpoints, NEW w \in Worker
    PROVE  ~RowStep(w) /\ ~StorageStep(w)
<1>1. req[w].op \in LinkOps
  BY DEF LinkState, LinkInv, LinkRequest
<1> QED BY <1>1
        DEF LinkOps, CreatingOps, LinkEndpoints, Accepts, RowStep, CreateOne,
            BeginApprove, BeginUpdateStatus, BeginStoreCheckin,
            BeginCustomerCheckout, CommitApprove, CommitUpdateStatus,
            CommitStoreCheckin, CommitCustomerCheckout, StorageStep, FindStorage,
            CheckStorageUnused, CommitStorageChange

LEMMA LinkStep ==
    ASSUME Endpoints \subseteq LinkEndpoints, LinkState, TypeOK', [Next]_vars
    PROVE  LinkInv'
<1>1. CASE UNCHANGED vars
  BY <1>1 DEF vars, LinkState, LinkInv, LinkRequest, NotYetKnown, StillSo,
              NothingBefore
<1>2. ASSUME NEW w \in Worker, AbortRequest(w)
      PROVE  LinkInv'
  BY <1>2, CommitLink DEF AbortRequest, LinkState, Creation, ReadRows
<1> QED BY <1>1, <1>2, GuestLink, OwnerLink, SweepLink, TickLink, OnlyLinkSteps
        DEF Next

LEMMA LinkInit == Init => LinkInv
<1> SUFFICES ASSUME Init PROVE LinkInv
  OBVIOUS
<1>1. \A w \in Worker : req[w].op = "idle"
  BY DEF Init, Idle
<1>2. \A w \in Worker : LinkRequest(w)
  BY <1>1 DEF LinkRequest, LinkOps, CreatingOps, NotYetKnown, StillSo
<1>3. NothingBefore
  BY DEF Init, NothingBefore
<1> QED BY <1>2, <1>3 DEF Init, LinkInv

LEMMA LinkHolds ==
    Endpoints \subseteq LinkEndpoints => (Spec => []LinkState)
<1> SUFFICES ASSUME Endpoints \subseteq LinkEndpoints
             PROVE  Spec => []LinkState
  OBVIOUS
<1>1. LinkState /\ TypeOK' /\ [Next]_vars => LinkInv'
  BY LinkStep
<1>2. Init => Uniform /\ WholeRequests
  BY DEF Init, Idle, Uniform, WholeRequests, WholeBut
<1>3. TypeOK /\ Creation /\ Uniform /\ WholeRequests /\ LinkInv <=> LinkState
  BY DEF LinkState
<1> QED BY <1>1, <1>2, <1>3, LinkInit, TogetherStep, TypeCorrect, CreatedOnce, PTL
        DEF Spec

----------------------------------------------------------------------------
(* The refinement *)

RepStatus == [g \in Group |-> res[RepOf[g]].status]
RepPaid == [g \in Group |-> res[RepOf[g]].paid]

\* With bookings that move together, a booking is what its representative is.
BookingsAreReps == BookingStatus = RepStatus /\ BookingPaid = RepPaid

LEMMA BookingIsRep == LinkState => BookingsAreReps
<1> SUFFICES ASSUME LinkState PROVE BookingsAreReps
  OBVIOUS
<1>1. \A g \in Group : \A r \in RowsOf(g) :
         /\ res[r].status = res[RepOf[g]].status
         /\ res[r].paid = res[RepOf[g]].paid
  BY InputsAssumption DEF LinkState, LinkInv, Uniform, RowsOf
<1>2. \A g \in Group : RepOf[g] \in RowsOf(g)
  BY InputsAssumption DEF RowsOf
<1>3. BookingStatus = RepStatus
  BY <1>1 DEF BookingStatus, RepStatus
<1>4. ASSUME NEW g \in Group
      PROVE  (\A r \in RowsOf(g) : res[r].paid) = res[RepOf[g]].paid
  <2>1. res[RepOf[g]].paid \in BOOLEAN
    BY InputsAssumption DEF LinkState, TypeOK
  <2>2. (\A r \in RowsOf(g) : res[r].paid) <=> res[RepOf[g]].paid
    BY <1>1, <1>2
  <2> DEFINE all == \A r \in RowsOf(g) : res[r].paid
             rep == res[RepOf[g]].paid
  <2>3. all \in BOOLEAN /\ rep \in BOOLEAN /\ (all <=> rep)
    BY <2>1, <2>2, Zenon
  <2> HIDE DEF all, rep
  <2>4. all = rep
    BY <2>3, SMT
  <2> QED BY <2>4, Zenon DEF all, rep
<1>5. BookingPaid = RepPaid
  BY <1>4, Zenon DEF BookingPaid, RepPaid
<1> QED BY <1>3, <1>5 DEF BookingsAreReps


\* A step of several bookings, and the payments it leaves alone.
LEMMA RepsMove ==
    ASSUME BookingsAreReps, BookingsAreReps',
           NEW G \in SUBSET Group, NEW to,
           \A g \in Group : res'[RepOf[g]].status =
                              IF g \in G THEN to ELSE res[RepOf[g]].status
    PROVE  Bookings!Move(G, to)
BY DEF BookingsAreReps, RepStatus, Bookings!Move

LEMMA RepsKeepPaid ==
    ASSUME BookingsAreReps, BookingsAreReps',
           \A g \in Group : res'[RepOf[g]].paid = res[RepOf[g]].paid
    PROVE  BookingPaid' = BookingPaid
BY DEF BookingsAreReps, RepPaid

LEMMA RepPays ==
    ASSUME BookingsAreReps, BookingsAreReps', NEW g \in Group,
           \A h \in Group : res'[RepOf[h]].paid =
                              IF h = g THEN TRUE ELSE res[RepOf[h]].paid
    PROVE  BookingPaid' = [BookingPaid EXCEPT ![g] = TRUE]
BY DEF BookingsAreReps, RepPaid

LEMMA RepsStutter ==
    ASSUME BookingsAreReps, BookingsAreReps', res' = res, now' = now
    PROVE  UNCHANGED Bookings!bookingVars
BY DEF BookingsAreReps, RepStatus, RepPaid, Bookings!bookingVars

\* What a step of the rows must be a step or a stutter of.
BookingStep == [Bookings!BookingNext]_(Bookings!bookingVars)

LinkPair ==
    /\ LinkState /\ LinkState' /\ BookingsAreReps /\ BookingsAreReps'
    /\ Endpoints \subseteq LinkEndpoints

LEMMA GuestRefines ==
    ASSUME LinkPair, NEW w \in Worker, GuestStep(w)
    PROVE  BookingStep
<1> USE DEF LinkPair
<1>1. ASSUME NEW g \in Group,
             \/ PrecheckGuest(w, g) \/ BeginCreateGuest(w, g)
             \/ BeginAutoApprove(w, g) \/ SendCreateNotification(w, g)
             \/ CommitCreateGuest(w, g) /\ ~PaymentStillFree(g)
      PROVE  BookingStep
  BY <1>1, RepsStutter
     DEF PrecheckGuest, BeginCreateGuest, BeginAutoApprove,
         SendCreateNotification, CommitCreateGuest, BookingStep
<1>2. ASSUME NEW g \in Group, CommitCreateGuest(w, g), PaymentStillFree(g)
      PROVE  BookingStep
  <2> DEFINE isPaid == PaymentOf[g] # NoPayment
             row == [status |-> "pending", storage |-> NoStorage, paid |-> isPaid]
  <2>1. /\ res' = [r \in Row |-> IF r \in RowsOf(g) THEN row ELSE res[r]]
        /\ now' = now
    BY <1>2 DEF CommitCreateGuest
  <2>2. row.status = "pending" /\ row.paid = isPaid /\ isPaid \in BOOLEAN
    OBVIOUS
  <2>3. res[RepOf[g]].status = Absent /\ ~res[RepOf[g]].paid
    BY <1>2, InputsAssumption
       DEF CommitCreateGuest, LinkState, LinkInv, Creation, OneCreator, Exists,
           NothingBefore
  <2>4. \A h \in Group : RepOf[h] \in Row /\ (RepOf[h] \in RowsOf(g) <=> h = g)
    BY InputsAssumption DEF RowsOf
  <2> HIDE DEF isPaid, row
  <2>5. Bookings!Move({g}, "pending")
    <3>1. \A h \in Group : res'[RepOf[h]].status =
                             IF h \in {g} THEN "pending" ELSE res[RepOf[h]].status
      BY <2>1, <2>2, <2>4
    <3> QED BY <3>1, RepsMove
  <2>6. BookingStatus[g] = Absent
    BY <2>3 DEF BookingsAreReps, RepStatus
  <2>7. CASE isPaid = TRUE
    <3>1. \A h \in Group : res'[RepOf[h]].paid =
                             IF h = g THEN TRUE ELSE res[RepOf[h]].paid
      BY <2>1, <2>2, <2>4, <2>7
    <3>2. BookingPaid' = [BookingPaid EXCEPT ![g] = TRUE]
      BY <3>1, RepPays
    <3>3. Bookings!Book(g)
      BY <2>1, <2>5, <2>6, <3>2 DEF Bookings!Book, Bookings!Absent, Absent
    <3> QED BY <3>3 DEF BookingStep, Bookings!BookingNext
  <2>8. CASE isPaid = FALSE
    <3>1. res[RepOf[g]].paid = FALSE
      BY <2>3, <2>4 DEF LinkState, TypeOK
    <3>2. \A h \in Group : res'[RepOf[h]].paid = res[RepOf[h]].paid
      BY <2>1, <2>2, <2>4, <2>8, <3>1
    <3>3. BookingPaid' = BookingPaid
      BY <3>2, RepsKeepPaid
    <3>4. Bookings!Book(g)
      BY <2>1, <2>5, <2>6, <3>3 DEF Bookings!Book, Bookings!Absent, Absent
    <3> QED BY <3>4 DEF BookingStep, Bookings!BookingNext
  <2> QED BY <2>2, <2>7, <2>8
<1>3. ASSUME NEW g \in Group, CommitAutoApprove(w, g)
      PROVE  BookingStep
  <2>1. req[w].rows = RowsOf(g) /\ \A r \in RowsOf(g) : res[r].status = "pending"
    BY <1>3 DEF CommitAutoApprove, LinkState, LinkInv, LinkRequest, NotYetKnown,
                CreatingOps
  <2>2. \A h \in Group : RepOf[h] \in Row /\ (RepOf[h] \in RowsOf(g) <=> h = g)
    BY InputsAssumption DEF RowsOf
  <2>3. \A r \in Row : /\ res'[r].status = IF r \in RowsOf(g) THEN "confirmed"
                                           ELSE res[r].status
                       /\ res'[r].paid = res[r].paid
    BY <1>3, <2>1, AssignFacts DEF CommitAutoApprove, LinkState
  <2>4. Bookings!Move({g}, "confirmed")
    <3>1. \A h \in Group : res'[RepOf[h]].status =
                             IF h \in {g} THEN "confirmed" ELSE res[RepOf[h]].status
      BY <2>2, <2>3
    <3> QED BY <3>1, RepsMove
  <2>5. BookingPaid' = BookingPaid /\ now' = now
    BY <1>3, <2>2, <2>3, RepsKeepPaid DEF CommitAutoApprove
  <2>6. BookingStatus[g] = "pending"
    BY <2>1, <2>2 DEF BookingsAreReps, RepStatus
  <2>7. Bookings!Approve(g)
    BY <2>4, <2>5, <2>6 DEF Bookings!Approve
  <2> QED BY <2>7 DEF BookingStep, Bookings!BookingNext
<1>4. ~(\E g \in Group : BeginGuestCancel(w, g)) /\ ~CommitGuestCancel(w)
  BY DEF BeginGuestCancel, Accepts, LinkEndpoints, CommitGuestCancel, LinkState,
         LinkInv, LinkRequest, LinkOps, CreatingOps
<1> QED BY <1>1, <1>2, <1>3, <1>4 DEF GuestStep

\* The bookings of a request of the link, and their rows.
LEMMA OwnerRefines ==
    ASSUME LinkPair, NEW w \in Worker, OwnerStep(w)
    PROVE  BookingStep
<1> USE DEF LinkPair
<1>1. ASSUME res' = res, now' = now
      PROVE  BookingStep
  BY <1>1, RepsStutter DEF BookingStep
<1>2. ASSUME NEW g \in Group,
             BeginCheckIn(w, g) \/ BeginCheckOut(w, g) \/ BeginNoShow(w, g)
      PROVE  BookingStep
  BY <1>1, <1>2 DEF BeginCheckIn, BeginCheckOut, BeginOwnerAction, BeginNoShow
<1>3. ASSUME NEW g \in Group, req[w].rows = RowsOf(g),
             req[w].op \in {"checkIn", "checkOut"}, NEW to, OwnerWrite(w, to)
      PROVE  /\ Bookings!Move({g}, to)
             /\ BookingPaid' = [BookingPaid EXCEPT ![g] = TRUE]
  <2> DEFINE paid(r) == res[r].paid \/ req[w].settle
  <2>1. \A r \in Row :
           res'[r] = IF r \in RowsOf(g)
                     THEN [res[r] EXCEPT !.status = to, !.paid = paid(r)]
                     ELSE res[r]
    BY <1>3 DEF OwnerWrite
  <2>2. \A h \in Group : RepOf[h] \in Row /\ (RepOf[h] \in RowsOf(g) <=> h = g)
    BY InputsAssumption DEF RowsOf
  <2>3. paid(RepOf[g]) = TRUE
    <3>1. ~req[w].settle => res[RepOf[g]].paid
      BY <1>3, <2>2 DEF LinkState, LinkInv, LinkRequest, StillSo
    <3> QED BY <3>1, Zenon
  <2> HIDE DEF paid
  <2>4. \A r \in Row :
           /\ r \in RowsOf(g) => res'[r].status = to /\ res'[r].paid = paid(r)
           /\ r \notin RowsOf(g) => res'[r] = res[r]
    BY <2>1 DEF LinkState, TypeOK
  <2>5. \A h \in Group : res'[RepOf[h]].status =
                           IF h \in {g} THEN to ELSE res[RepOf[h]].status
    BY <2>2, <2>4
  <2>6. \A h \in Group : res'[RepOf[h]].paid =
                           IF h = g THEN TRUE ELSE res[RepOf[h]].paid
    <3> TAKE h \in Group
    <3>1. CASE h = g
      <4>1. res'[RepOf[g]].paid = paid(RepOf[g])
        BY <2>2, <2>4
      <4> QED BY <2>3, <3>1, <4>1, Zenon
    <3>2. CASE h # g
      BY <2>2, <2>4, <3>2
    <3> QED BY <3>1, <3>2
  <2> QED BY <2>5, <2>6, RepsMove, RepPays
<1>4. ASSUME NEW g \in Group, NEW from, AllIn(RowsOf(g), from)
      PROVE  BookingStatus[g] \in from
  BY <1>4, InputsAssumption DEF AllIn, RowsOf, BookingsAreReps, RepStatus
<1>5. ASSUME req[w].op \in {"checkIn", "checkOut", "noShow"}
      PROVE  \E g \in Group :
                /\ req[w].rows = RowsOf(g)
                /\ req[w].op = "noShow" => StartOf[g] <= now
  BY <1>5 DEF LinkState, LinkInv, LinkRequest, StillSo, TypeOK
<1>6. CASE CommitCheckIn(w)
  <2>1. CASE ~AllIn(req[w].rows, CHECK_IN_FROM)
    BY <1>1, <1>6, <2>1 DEF CommitCheckIn
  <2>2. CASE AllIn(req[w].rows, CHECK_IN_FROM)
    <3>1. /\ OwnerWrite(w, "in_progress") /\ req[w].op = "checkIn" /\ now' = now
      BY <1>6, <2>2 DEF CommitCheckIn
    <3>2. PICK g \in Group : req[w].rows = RowsOf(g)
      BY <1>5, <3>1
    <3>3. BookingStatus[g] \in CHECK_IN_FROM
      BY <1>4, <2>2, <3>2
    <3>4. Bookings!CheckIn(g)
      BY <1>3, <3>1, <3>2, <3>3
         DEF Bookings!CheckIn, Bookings!CHECK_IN_FROM, CHECK_IN_FROM
    <3> QED BY <3>4 DEF BookingStep, Bookings!BookingNext
  <2> QED BY <2>1, <2>2
<1>7. CASE CommitCheckOut(w)
  <2>1. CASE ~AllIn(req[w].rows, CHECK_OUT_FROM)
    BY <1>1, <1>7, <2>1 DEF CommitCheckOut
  <2>2. CASE AllIn(req[w].rows, CHECK_OUT_FROM)
    <3>1. /\ OwnerWrite(w, "completed") /\ req[w].op = "checkOut" /\ now' = now
      BY <1>7, <2>2 DEF CommitCheckOut
    <3>2. PICK g \in Group : req[w].rows = RowsOf(g)
      BY <1>5, <3>1
    <3>3. BookingStatus[g] \in CHECK_OUT_FROM
      BY <1>4, <2>2, <3>2
    <3>4. Bookings!CheckOut(g)
      BY <1>3, <3>1, <3>2, <3>3
         DEF Bookings!CheckOut, Bookings!CHECK_OUT_FROM, CHECK_OUT_FROM
    <3> QED BY <3>4 DEF BookingStep, Bookings!BookingNext
  <2> QED BY <2>1, <2>2
<1>8. CASE CommitNoShow(w)
  <2>1. CASE ~AllIn(req[w].rows, NO_SHOW_FROM_STATUSES)
    BY <1>1, <1>8, <2>1 DEF CommitNoShow
  <2>2. CASE AllIn(req[w].rows, NO_SHOW_FROM_STATUSES)
    <3>1. /\ SetStatus(req[w].rows, "no_show") /\ req[w].op = "noShow" /\ now' = now
      BY <1>8, <2>2 DEF CommitNoShow
    <3>2. PICK g \in Group : req[w].rows = RowsOf(g) /\ StartOf[g] <= now
      BY <1>5, <3>1
    <3>3. BookingStatus[g] \in NO_SHOW_FROM_STATUSES
      BY <1>4, <2>2, <3>2
    <3>4. \A r \in Row : /\ res'[r].status = IF r \in RowsOf(g) THEN "no_show"
                                             ELSE res[r].status
                         /\ res'[r].paid = res[r].paid
      BY <3>1, <3>2, SetStatusFacts DEF LinkState
    <3>5. \A h \in Group : RepOf[h] \in Row /\ (RepOf[h] \in RowsOf(g) <=> h \in {g})
      BY InputsAssumption DEF RowsOf
    <3>6. Bookings!Move({g}, "no_show")
      BY <3>4, <3>5, RepsMove
    <3>7. BookingPaid' = BookingPaid
      BY <3>4, <3>5, RepsKeepPaid
    <3>8. Bookings!NoShow(g)
      BY <3>1, <3>2, <3>3, <3>6, <3>7
         DEF Bookings!NoShow, Bookings!NO_SHOW_FROM_STATUSES, NO_SHOW_FROM_STATUSES
    <3> QED BY <3>8 DEF BookingStep, Bookings!BookingNext
  <2> QED BY <2>1, <2>2
<1> QED BY <1>2, <1>6, <1>7, <1>8 DEF OwnerStep

\* A sweep moves several bookings at once.
LEMMA SweepRefines ==
    ASSUME LinkPair, NEW w \in Worker, SweepStep(w)
    PROVE  BookingStep
<1> USE DEF LinkPair
<1>1. CASE BeginCleanup(w) \/ BeginAutoComplete(w)
  BY <1>1, RepsStutter DEF BeginCleanup, BeginAutoComplete, BookingStep
<1>2. ASSUME NEW rows \in SUBSET Row, NEW to, SetStatus(rows, to)
      PROVE  /\ Bookings!Move({g \in Group : RepOf[g] \in rows}, to)
             /\ BookingPaid' = BookingPaid
  <2>1. \A r \in Row : /\ res'[r].status = IF r \in rows THEN to ELSE res[r].status
                       /\ res'[r].paid = res[r].paid
    BY <1>2, SetStatusFacts DEF LinkState
  <2>2. \A g \in Group : RepOf[g] \in Row
    BY InputsAssumption
  <2> QED BY <2>1, <2>2, RepsMove, RepsKeepPaid
<1>3. \A r \in req[w].rows : r \in Row
  BY RequestRows DEF LinkState
<1>4. CASE CommitCleanup(w)
  <2> DEFINE G == {g \in Group : RepOf[g] \in StillUnpaid(w)}
  <2>1. SetStatus(StillUnpaid(w), "cancelled") /\ now' = now
    BY <1>4 DEF CommitCleanup
  <2>2. StillUnpaid(w) \in SUBSET Row
    BY <1>3 DEF StillUnpaid
  <2>3. Bookings!Move(G, "cancelled") /\ BookingPaid' = BookingPaid
    BY <1>2, <2>1, <2>2
  <2>4. \A g \in G : BookingStatus[g] \in CLEANUP_FROM /\ ~BookingPaid[g]
    BY DEF StillUnpaid, BookingsAreReps, RepStatus, RepPaid
  <2>5. G \in SUBSET Group
    OBVIOUS
  <2> HIDE DEF G
  <2>6. Bookings!Expire(G)
    BY <2>1, <2>3, <2>4, <2>5
       DEF Bookings!Expire, Bookings!CLEANUP_FROM, CLEANUP_FROM
  <2> QED BY <2>5, <2>6 DEF BookingStep, Bookings!BookingNext
<1>5. CASE CommitAutoComplete(w)
  <2> DEFINE G == {g \in Group : RepOf[g] \in StillOpen(w)}
  <2>1. SetStatus(StillOpen(w), "completed") /\ now' = now
    BY <1>5 DEF CommitAutoComplete
  <2>2. StillOpen(w) \in SUBSET Row
    BY <1>3 DEF StillOpen
  <2>3. Bookings!Move(G, "completed") /\ BookingPaid' = BookingPaid
    BY <1>2, <2>1, <2>2
  <2>4. \A g \in G : BookingStatus[g] \in AUTO_COMPLETE_FROM /\ EndOf[g] < now
    <3>1. \A r \in req[w].rows : EndOf[GroupOf[r]] < now
      BY <1>5 DEF CommitAutoComplete, LinkState, LinkInv, LinkRequest, StillSo
    <3> QED BY <3>1, InputsAssumption
            DEF StillOpen, BookingsAreReps, RepStatus
  <2>5. G \in SUBSET Group
    OBVIOUS
  <2> HIDE DEF G
  <2>6. Bookings!Complete(G)
    BY <2>1, <2>3, <2>4, <2>5
       DEF Bookings!Complete, Bookings!AUTO_COMPLETE_FROM, AUTO_COMPLETE_FROM
  <2> QED BY <2>5, <2>6 DEF BookingStep, Bookings!BookingNext
<1> QED BY <1>1, <1>4, <1>5 DEF SweepStep

LEMMA RefinementStep ==
    ASSUME LinkPair, [Next]_vars
    PROVE  BookingStep
<1> USE DEF LinkPair
<1>1. CASE UNCHANGED vars \/ \E w \in Worker : AbortRequest(w)
  BY <1>1, RepsStutter DEF vars, AbortRequest, BookingStep
<1>2. CASE Tick
  <2>1. BookingStatus' = BookingStatus /\ BookingPaid' = BookingPaid /\ now' = now + 1
    BY <1>2 DEF Tick, BookingsAreReps, RepStatus, RepPaid
  <2>2. Bookings!Pass
    BY <2>1 DEF Bookings!Pass
  <2> QED BY <2>2 DEF BookingStep, Bookings!BookingNext
<1> QED BY <1>1, <1>2, GuestRefines, OwnerRefines, SweepRefines, OnlyLinkSteps
        DEF Next

LEMMA RefinementInit ==
    Init /\ BookingsAreReps => Bookings!BookingInit
<1> SUFFICES ASSUME Init, BookingsAreReps PROVE Bookings!BookingInit
  OBVIOUS
<1>1. \A g \in Group : /\ res[RepOf[g]].status = Absent
                       /\ res[RepOf[g]].paid = FALSE
  BY InputsAssumption DEF Init
<1>2. RepStatus = [g \in Group |-> Absent] /\ RepPaid = [g \in Group |-> FALSE]
  BY <1>1 DEF RepStatus, RepPaid
<1> QED BY <1>2 DEF Init, BookingsAreReps, Bookings!BookingInit, Bookings!Absent,
                    Absent

\* Guests' bookings that are handled through the owner's link and the sweeps
\* behave as bookings with one status, moved by atomic transitions, however the
\* requests overlap and wherever they stop.
THEOREM BookingsAreAtomic ==
    Endpoints \subseteq LinkEndpoints => (Spec => ImplementsBookings)
<1> SUFFICES ASSUME Endpoints \subseteq LinkEndpoints
             PROVE  Spec => ImplementsBookings
  OBVIOUS
<1>1. Spec => []LinkState
  BY LinkHolds
<1>2. /\ LinkState /\ LinkState' /\ BookingsAreReps /\ BookingsAreReps'
      /\ [Next]_vars
      => [Bookings!BookingNext]_(Bookings!bookingVars)
  BY RefinementStep DEF LinkPair, BookingStep
<1> QED BY <1>1, <1>2, BookingIsRep, RefinementInit, PTL
        DEF Spec, ImplementsBookings, Bookings!BookingSpec
=============================================================================

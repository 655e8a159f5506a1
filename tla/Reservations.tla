---------------------------- MODULE Reservations ----------------------------
(***************************************************************************)
(* The reservation core of one store: booking rows, the storages they are  *)
(* assigned to, and every endpoint or job that writes them.                *)
(*                                                                         *)
(* A handler is a sequence of steps of one worker.  A prisma.$transaction  *)
(* is two steps, as InnoDB's REPEATABLE READ runs it: a Begin step takes   *)
(* the snapshot all its SELECTs see and evaluates the handler's checks on  *)
(* it, and a Commit step applies its UPDATEs to the rows as they are then. *)
(* updateMany({where: {status: {in}}}) tests the current rows; update      *)
(* ({where: {id}}) tests nothing.  Writes hold their row locks to the end, *)
(* so applying them in one step loses no interleaving.  A failed check     *)
(* writes nothing and is not a step.                                       *)
(***************************************************************************)
EXTENDS ReservationStatus, Integers, FiniteSets

CONSTANTS
    Row,            \* reservation rows that may be created
    Group,          \* bookings: the rows created by one request
    GroupOf,        \* Row -> Group             (reservation_group_id)
    RepOf,          \* Group -> Row             (the row with id = group id)
    SourceOf,       \* Group -> which endpoint creates the booking
    TypeOf,         \* Row -> Type              (requested_storage_type)
    BagsOf,         \* Row -> Nat               (bag_count)
    StartOf,        \* Group -> Nat             (start_time, in ticks)
    EndOf,          \* Group -> Nat             (end_time, in ticks)
    Payment,        \* rows of payments with status SUCCESS
    PaymentOf,      \* Group -> Payment or NoPayment (paymentKey and orderId)
    Storage,        \* storages of the store
    StorageTypeOf,  \* Storage -> Type
    NumberOf,       \* Storage -> Nat           (order of storages.number)
    Type,           \* assignment types, after normalizeStorageAssignmentType
    MaxCapacity,    \* Type -> Nat              (getMaxCapacity of the settings)
    NoStorage, NoPayment, NoGroup,
    Worker,         \* requests and jobs served at the same time
    TTL,            \* RESERVATION_TTL_MINUTES, in ticks
    Grace,          \* AUTO_COMPLETE_GRACE_HOURS, in ticks
    Horizon,        \* bound on the clock
    Endpoints       \* the endpoints and jobs that are called

Sources == {"guest", "customer", "store"}

RowsOf(g) == {r \in Row : GroupOf[r] = g}

\* A booking of several rows comes from normalizeItems, which merges the items
\* of one assignment type: its rows have pairwise different types.
ASSUME InputsAssumption ==
    /\ IsFiniteSet(Row)
    /\ GroupOf \in [Row -> Group]
    /\ RepOf \in [Group -> Row]
    /\ \A g \in Group : GroupOf[RepOf[g]] = g
    /\ SourceOf \in [Group -> Sources]
    /\ TypeOf \in [Row -> Type]
    /\ BagsOf \in [Row -> Nat]
    /\ StartOf \in [Group -> Nat]
    /\ EndOf \in [Group -> Nat]
    /\ \A g \in Group : StartOf[g] < EndOf[g]
    /\ PaymentOf \in [Group -> Payment \union {NoPayment}]
    /\ \A g \in Group : SourceOf[g] # "guest" =>
          /\ RowsOf(g) = {RepOf[g]}
          /\ PaymentOf[g] = NoPayment
    /\ \A r1, r2 \in Row :
          GroupOf[r1] = GroupOf[r2] /\ TypeOf[r1] = TypeOf[r2] => r1 = r2

ASSUME StoragesAssumption ==
    /\ StorageTypeOf \in [Storage -> Type]
    /\ NumberOf \in [Storage -> Nat]
    /\ \A s1, s2 \in Storage : NumberOf[s1] = NumberOf[s2] => s1 = s2
    /\ MaxCapacity \in [Type -> Nat]
    /\ NoStorage \notin Storage
    /\ NoPayment \notin Payment
    /\ NoGroup \notin Group

ASSUME ClockAssumption ==
    TTL \in Nat \ {0} /\ Grace \in Nat /\ Horizon \in Nat

VARIABLES
    now,        \* the clock
    res,        \* reservations: status, storage_id and whether paid
    createdAt,  \* created_at of each booking, the same on its rows
    sto,        \* storages.status
    pay,        \* payments.reservation_id, as the booking it belongs to
    notified,   \* bookings whose owner holds the action link
    singled,    \* bookings one row of which a single-row endpoint has written
    req         \* what each worker is in the middle of

vars == <<now, res, createdAt, sto, pay, notified, singled, req>>

\* singled is an auxiliary variable: no action reads it.

GroupOps == {"precheck", "insert", "created", "autoApprove", "notify",
             "checkIn", "checkOut", "noShow", "guestCancel", "cleanup",
             "autoComplete"}
RowOps == {"createdOne", "approve", "updateStatus", "storeCheckin",
           "customerCheckout"}
StorageOps == {"storageFound", "storageChange"}

\* rows: the rows the request will write; hold: the storage_id it read (or
\* picked) for each of them; to: the status it will write; settle: payment was
\* pending on the representative; of: the booking a guest's request creates;
\* unit: the storage an owner edits; late: the clock has ticked since it began.
Request ==
    [op : {"idle"} \union GroupOps \union RowOps \union StorageOps,
     rows : SUBSET Row,
     hold : [Row -> Storage \union {NoStorage}],
     to : Status \union StorageStatus \union {Absent},
     settle : BOOLEAN,
     of : Group \union {NoGroup},
     unit : Storage \union {NoStorage},
     late : BOOLEAN]

Idle == [op |-> "idle", rows |-> {}, hold |-> [r \in Row |-> NoStorage],
         to |-> Absent, settle |-> FALSE, of |-> NoGroup, unit |-> NoStorage,
         late |-> FALSE]

TypeOK ==
    /\ now \in 0..Horizon
    /\ res \in [Row -> [status : Status \union {Absent},
                        storage : Storage \union {NoStorage},
                        paid : BOOLEAN]]
    /\ createdAt \in [Group -> Int]
    /\ sto \in [Storage -> StorageStatus]
    /\ pay \in [Payment -> Group \union {NoGroup}]
    /\ notified \in SUBSET Group
    /\ singled \in SUBSET Group
    /\ req \in [Worker -> Request]
    /\ \A w \in Worker : req[w].op = "updateStatus" => req[w].to \in Status
    /\ \A w \in Worker : req[w].op \in StorageOps =>
          req[w].unit \in Storage /\ req[w].to \in StorageStatus

Init ==
    /\ now = 0
    /\ res = [r \in Row |->
                [status |-> Absent, storage |-> NoStorage, paid |-> FALSE]]
    /\ createdAt = [g \in Group |-> 0]
    /\ sto = [s \in Storage |-> "available"]
    /\ pay = [x \in Payment |-> NoGroup]
    /\ notified = {}
    /\ singled = {}
    /\ req = [w \in Worker |-> Idle]

----------------------------------------------------------------------------
(* Queries *)

Exists(g) == res[RepOf[g]].status # Absent

Overlap(g1, g2) == StartOf[g1] < EndOf[g2] /\ EndOf[g1] > StartOf[g2]

\* Faulty: only the reservations already checked in block a storage.
FreeUnlessInUse(r) ==
    {s \in Storage :
        /\ sto[s] # "maintenance"
        /\ StorageTypeOf[s] = TypeOf[r]
        /\ \A q \in Row : ~ (res[q].storage = s /\ res[q].status = "in_progress"
                              /\ Overlap(GroupOf[q], GroupOf[r]))}

\* Storages that are not under maintenance, have the assignment type, and have
\* no active reservation overlapping the row's time.
FreeStorages(r) ==
    {s \in Storage :
        /\ sto[s] # "maintenance"
        /\ StorageTypeOf[s] = TypeOf[r]
        /\ \A q \in Row :
              ~ /\ res[q].storage = s
                /\ res[q].status \in ACTIVE_RESERVATION_STATUSES
                /\ Overlap(GroupOf[q], GroupOf[r])}

\* The first of them by number, or none: the row is confirmed all the same.
findStorageForReservation(r) ==
    IF FreeStorages(r) = {} THEN NoStorage
    ELSE CHOOSE s \in FreeStorages(r) :
            \A t \in FreeStorages(r) : NumberOf[s] <= NumberOf[t]

\* Rows the capacity query sums for a type and a booking's time.  payment_status
\* is never written to refunded, so that filter removes nothing.
CountedRows(g, t) ==
    {q \in Row : /\ TypeOf[q] = t
                 /\ res[q].status \in CAPACITY_COUNT_STATUSES
                 /\ Overlap(GroupOf[q], g)}

\* Each bag of the rows, by its row and a number.
BagsIn(rows) == UNION {{r} \X (1..BagsOf[r]) : r \in rows}

\* _sum of bag_count
Bags(rows) == Cardinality(BagsIn(rows))

\* Faulty: the bags of the new row count as one.
HasCapacityForOne(g) ==
    \A r \in RowsOf(g) : Bags(CountedRows(g, TypeOf[r])) < MaxCapacity[TypeOf[r]]

HasCapacity(g) ==
    \A r \in RowsOf(g) :
        Bags(CountedRows(g, TypeOf[r])) + BagsOf[r] <= MaxCapacity[TypeOf[r]]

StorageIds == [r \in Row |-> res[r].storage]

----------------------------------------------------------------------------
(* Requests *)

\* Worker w goes on to op, to write rows and the storages it read for them.
Begin(w, op, rows, hold, to) ==
    req' = [req EXCEPT ![w] =
        [Idle EXCEPT !.op = op, !.rows = rows, !.to = to,
                     !.hold = [r \in Row |-> IF r \in rows THEN hold[r]
                                             ELSE NoStorage],
                     !.of = req[w].of, !.late = req[w].late]]

\* A guest's request goes on to its next query, for booking g.
Advance(w, op, g) == req' = [req EXCEPT ![w].op = op, ![w].of = g]

End(w) == req' = [req EXCEPT ![w] = Idle]

\* An idle worker accepts a call of an endpoint.
Accepts(w, endpoint) == req[w].op = "idle" /\ endpoint \in Endpoints

\* The storages a request read or picked for some of its rows.
Held(w, rows) == {req[w].hold[r] : r \in rows} \ {NoStorage}

(* Writes *)

SetStatus(rows, to) ==
    res' = [r \in Row |-> IF r \in rows THEN [res[r] EXCEPT !.status = to]
                          ELSE res[r]]

releaseStorageIfAny(S) ==
    sto' = [s \in Storage |-> IF s \in S THEN "available" ELSE sto[s]]

\* Faulty: the reservation's status is written to the storage.
occupyWithStatus(S) ==
    sto' = [s \in Storage |->
              IF s \in S /\ sto[s] = "available" THEN "in_progress" ELSE sto[s]]

occupyStorageIfAny(S) ==
    sto' = [s \in Storage |->
              IF s \in S /\ sto[s] = "available" THEN "occupied" ELSE sto[s]]

WriteSingle(rows) == singled' = singled \union {GroupOf[r] : r \in rows}

----------------------------------------------------------------------------
(* Guest bookings: createReservation and its autoApproveGroup *)

\* resolveStore and the capacity check outside the transaction.  A booking is
\* created by one request: its ids are fresh UUIDs.
PrecheckGuest(w, g) ==
    /\ Accepts(w, "guestCreate")
    /\ SourceOf[g] = "guest"
    /\ ~Exists(g)
    /\ \A v \in Worker : req[v].of # g
    /\ HasCapacity(g)
    /\ Advance(w, "precheck", g)
    /\ UNCHANGED <<now, res, createdAt, sto, pay, notified, singled>>

\* Faulty: nobody asks whether the payment was used.
PaymentNotChecked(g) == TRUE

\* No payment is given, or its reservation_id is NULL.
PaymentStillFree(g) == PaymentOf[g] # NoPayment => pay[PaymentOf[g]] = NoGroup

\* The transaction's reads: capacity again, and the payment still unused.
BeginCreateGuest(w, g) ==
    /\ req[w].op = "precheck" /\ req[w].of = g
    /\ HasCapacity(g)
    /\ PaymentStillFree(g)
    /\ Advance(w, "insert", g)
    /\ UNCHANGED <<now, res, createdAt, sto, pay, notified, singled>>

\* Its writes: the rows, and the payment claimed if reservation_id is still
\* NULL; otherwise the transaction rolls back.
CommitCreateGuest(w, g) ==
    /\ req[w].op = "insert" /\ req[w].of = g
    /\ IF PaymentStillFree(g)
       THEN /\ res' = [r \in Row |->
                         IF r \in RowsOf(g)
                         THEN [status |-> "pending", storage |-> NoStorage,
                               paid |-> PaymentOf[g] # NoPayment]
                         ELSE res[r]]
            /\ createdAt' = [createdAt EXCEPT ![g] =
                               IF req[w].late THEN now - 1 ELSE now]
            /\ pay' = [x \in Payment |-> IF x = PaymentOf[g] THEN g ELSE pay[x]]
            /\ Advance(w, "created", g)
       ELSE End(w) /\ UNCHANGED <<res, createdAt, pay>>
    /\ UNCHANGED <<now, sto, notified, singled>>

\* autoApproveGroup's reads: the pending rows, and a storage for each.  The rows
\* have different types, so one row's pick never excludes another's.
BeginAutoApprove(w, g) ==
    /\ req[w].op = "created" /\ req[w].of = g
    /\ Begin(w, "autoApprove", {r \in RowsOf(g) : res[r].status = "pending"},
             [r \in Row |-> findStorageForReservation(r)], "confirmed")
    /\ UNCHANGED <<now, res, createdAt, sto, pay, notified, singled>>

\* Its writes, by id alone; the request then goes on to notify for the booking.
CommitAutoApprove(w, g) ==
    /\ req[w].op = "autoApprove" /\ req[w].of = g
    /\ res' = [r \in Row |->
                 IF r \in req[w].rows
                 THEN [res[r] EXCEPT !.status = "confirmed",
                                     !.storage = req[w].hold[r]]
                 ELSE res[r]]
    /\ Begin(w, "notify", {}, StorageIds, Absent)
    /\ UNCHANGED <<now, createdAt, sto, pay, notified, singled>>

\* sendCreateNotification: the owner receives the action link.  It is not
\* awaited and may fail, which AbortRequest covers.
SendCreateNotification(w, g) ==
    /\ req[w].op = "notify" /\ req[w].of = g
    /\ notified' = notified \union {g}
    /\ End(w)
    /\ UNCHANGED <<now, res, createdAt, sto, pay, singled>>

----------------------------------------------------------------------------
(* Customer and store bookings: one INSERT, then approveReservation *)

\* createCustomerReservation and createStoreReservation check no capacity.
CreateOne(w, g) ==
    /\ Accepts(w, "customerCreate")
    /\ SourceOf[g] # "guest"
    /\ ~Exists(g)
    /\ res' = [res EXCEPT ![RepOf[g]] =
                 [status |-> "pending", storage |-> NoStorage, paid |-> FALSE]]
    /\ createdAt' = [createdAt EXCEPT ![g] = now]
    /\ Begin(w, "createdOne", {RepOf[g]}, StorageIds, "confirmed")
    /\ UNCHANGED <<now, sto, pay, notified, singled>>

\* approveReservation, called by the owner or by the creation of the row.  A
\* storage already attached is kept.
BeginApprove(w, r) ==
    /\ \/ Accepts(w, "approve")
       \/ req[w].op = "createdOne" /\ req[w].rows = {r}
    /\ assertCanApprove(res[r].status)
    /\ Begin(w, "approve", {r},
             [q \in Row |-> IF res[q].storage # NoStorage THEN res[q].storage
                            ELSE findStorageForReservation(q)],
             "confirmed")
    /\ UNCHANGED <<now, res, createdAt, sto, pay, notified, singled>>

CommitApprove(w) ==
    /\ req[w].op = "approve"
    /\ res' = [r \in Row |->
                 IF r \in req[w].rows
                 THEN [res[r] EXCEPT !.status = "confirmed",
                                     !.storage = req[w].hold[r]]
                 ELSE res[r]]
    /\ WriteSingle(req[w].rows)
    /\ End(w)
    /\ UNCHANGED <<now, createdAt, sto, pay, notified>>

----------------------------------------------------------------------------
(* Single-row endpoints of the owner and of the customer *)

\* rejectReservation, cancelReservation and PUT /status; a request for
\* confirmed is approveReservation instead.
BeginUpdateStatus(w, r, to) ==
    /\ Accepts(w, "updateStatus")
    /\ to # "confirmed"
    /\ res[r].status # Absent
    /\ assertCanTransition(res[r].status, to)
    /\ Begin(w, "updateStatus", {r}, StorageIds, to)
    /\ UNCHANGED <<now, res, createdAt, sto, pay, notified, singled>>

CommitUpdateStatus(w) ==
    /\ req[w].op = "updateStatus"
    /\ SetStatus(req[w].rows, req[w].to)
    /\ \/ /\ req[w].to \in RELEASE_STORAGE_STATUSES
          /\ releaseStorageIfAny(Held(w, req[w].rows))
       \/ /\ req[w].to = "in_progress"
          /\ occupyStorageIfAny(Held(w, req[w].rows))
       \/ /\ req[w].to \notin RELEASE_STORAGE_STATUSES \union {"in_progress"}
          /\ UNCHANGED sto
    /\ WriteSingle(req[w].rows)
    /\ End(w)
    /\ UNCHANGED <<now, createdAt, pay, notified>>

BeginStoreCheckin(w, r) ==
    /\ Accepts(w, "storeCheckin")
    /\ assertCanCheckin(res[r].status)
    /\ Begin(w, "storeCheckin", {r}, StorageIds, "in_progress")
    /\ UNCHANGED <<now, res, createdAt, sto, pay, notified, singled>>

CommitStoreCheckin(w) ==
    /\ req[w].op = "storeCheckin"
    /\ SetStatus(req[w].rows, "in_progress")
    /\ occupyStorageIfAny(Held(w, req[w].rows))
    /\ WriteSingle(req[w].rows)
    /\ End(w)
    /\ UNCHANGED <<now, createdAt, pay, notified>>

\* Only the customer a row belongs to: guest and walk-in rows have none.
BeginCustomerCheckout(w, r) ==
    /\ Accepts(w, "customerCheckout")
    /\ SourceOf[GroupOf[r]] = "customer"
    /\ assertCanCheckout(res[r].status)
    /\ Begin(w, "customerCheckout", {r}, StorageIds, "completed")
    /\ UNCHANGED <<now, res, createdAt, sto, pay, notified, singled>>

CommitCustomerCheckout(w) ==
    /\ req[w].op = "customerCheckout"
    /\ SetStatus(req[w].rows, "completed")
    /\ releaseStorageIfAny(Held(w, req[w].rows))
    /\ WriteSingle(req[w].rows)
    /\ End(w)
    /\ UNCHANGED <<now, createdAt, pay, notified>>

----------------------------------------------------------------------------
(* Whole-booking transitions: owner link, no-show, guest cancel *)

AllIn(rows, from) == \A r \in rows : res[r].status \in from

\* transitionInTx's reads, for a call by the owner's link.
BeginOwnerAction(w, g, op, from, to) ==
    /\ Accepts(w, op)
    /\ g \in notified
    /\ AllIn(RowsOf(g), from)
    /\ req' = [req EXCEPT ![w] =
         [Idle EXCEPT !.op = op, !.rows = RowsOf(g), !.to = to,
                      !.hold = [r \in Row |-> IF r \in RowsOf(g)
                                              THEN res[r].storage
                                              ELSE NoStorage],
                      !.settle = ~res[RepOf[g]].paid]]
    /\ UNCHANGED <<now, res, createdAt, sto, pay, notified, singled>>

BeginCheckIn(w, g) ==
    BeginOwnerAction(w, g, "checkIn", CHECK_IN_FROM, "in_progress")

BeginCheckOut(w, g) ==
    BeginOwnerAction(w, g, "checkOut", CHECK_OUT_FROM, "completed")

\* The rows after transitionInTx's updateMany: status, and paid on all of them
\* when the representative was unpaid.
OwnerWrite(w, to) ==
    res' = [r \in Row |->
              IF r \in req[w].rows
              THEN [res[r] EXCEPT !.status = to,
                                  !.paid = @ \/ req[w].settle]
              ELSE res[r]]

\* Compare-and-swap on every member; a short count rolls the transaction back.
CommitCheckIn(w) ==
    /\ req[w].op = "checkIn"
    /\ \/ /\ AllIn(req[w].rows, CHECK_IN_FROM)
          /\ OwnerWrite(w, "in_progress")
          /\ occupyStorageIfAny(Held(w, req[w].rows))
       \/ /\ ~AllIn(req[w].rows, CHECK_IN_FROM)
          /\ UNCHANGED <<res, sto>>
    /\ End(w)
    /\ UNCHANGED <<now, createdAt, pay, notified, singled>>

\* Faulty: the check-out completes the members it can and ignores the count.
CommitPartialCheckOut(w) ==
    /\ req[w].op = "checkOut"
    /\ res' = [r \in Row |->
                 IF r \in req[w].rows /\ res[r].status \in CHECK_OUT_FROM
                 THEN [res[r] EXCEPT !.status = "completed"] ELSE res[r]]
    /\ releaseStorageIfAny(Held(w, req[w].rows))
    /\ End(w)
    /\ UNCHANGED <<now, createdAt, pay, notified, singled>>

CommitCheckOut(w) ==
    /\ req[w].op = "checkOut"
    /\ \/ /\ AllIn(req[w].rows, CHECK_OUT_FROM)
          /\ OwnerWrite(w, "completed")
          /\ releaseStorageIfAny(Held(w, req[w].rows))
       \/ /\ ~AllIn(req[w].rows, CHECK_OUT_FROM)
          /\ UNCHANGED <<res, sto>>
    /\ End(w)
    /\ UNCHANGED <<now, createdAt, pay, notified, singled>>

\* markNoShow, called by the store app or by the owner's link.
BeginNoShow(w, g) ==
    /\ \/ Accepts(w, "noShow")
       \/ Accepts(w, "linkNoShow") /\ g \in notified
    /\ AllIn(RowsOf(g), NO_SHOW_FROM_STATUSES)
    /\ StartOf[g] <= now
    /\ Begin(w, "noShow", RowsOf(g), StorageIds, "no_show")
    /\ UNCHANGED <<now, res, createdAt, sto, pay, notified, singled>>

CommitNoShow(w) ==
    /\ req[w].op = "noShow"
    /\ \/ /\ AllIn(req[w].rows, NO_SHOW_FROM_STATUSES)
          /\ SetStatus(req[w].rows, "no_show")
          /\ releaseStorageIfAny(Held(w, req[w].rows))
       \/ /\ ~AllIn(req[w].rows, NO_SHOW_FROM_STATUSES)
          /\ UNCHANGED <<res, sto>>
    /\ End(w)
    /\ UNCHANGED <<now, createdAt, pay, notified, singled>>

\* Faulty: only the representative is cancelled.
BeginRepCancel(w, g) ==
    /\ Accepts(w, "guestCancel")
    /\ AllIn(RowsOf(g), GUEST_CANCEL_STATUSES)
    /\ StartOf[g] > now
    /\ Begin(w, "guestCancel", {RepOf[g]}, StorageIds, "cancelled")
    /\ UNCHANGED <<now, res, createdAt, sto, pay, notified, singled>>

\* The guest's cancelReservation: checks on the snapshot, updateMany by id.
BeginGuestCancel(w, g) ==
    /\ Accepts(w, "guestCancel")
    /\ AllIn(RowsOf(g), GUEST_CANCEL_STATUSES)
    /\ StartOf[g] > now
    /\ Begin(w, "guestCancel", RowsOf(g), StorageIds, "cancelled")
    /\ UNCHANGED <<now, res, createdAt, sto, pay, notified, singled>>

CommitGuestCancel(w) ==
    /\ req[w].op = "guestCancel"
    /\ SetStatus(req[w].rows, "cancelled")
    /\ releaseStorageIfAny(Held(w, req[w].rows))
    /\ End(w)
    /\ UNCHANGED <<now, createdAt, pay, notified, singled>>

----------------------------------------------------------------------------
(* Sweeps: the TTL cleanup and the hourly auto-completion *)

Expired(r) ==
    /\ res[r].status \in CLEANUP_FROM
    /\ ~res[r].paid
    /\ SourceOf[GroupOf[r]] = "guest"
    /\ createdAt[GroupOf[r]] < now - TTL

BeginCleanup(w) ==
    /\ Accepts(w, "cleanup")
    /\ \E r \in Row : Expired(r)
    /\ Begin(w, "cleanup", {r \in Row : Expired(r)}, StorageIds, "cancelled")
    /\ UNCHANGED <<now, res, createdAt, sto, pay, notified, singled>>

\* Faulty: the cleanup cancels all it read, without the status filter.
AllExpired(w) == req[w].rows

\* The rows of the snapshot that the cleanup still cancels.
StillUnpaid(w) ==
    {r \in req[w].rows : res[r].status \in CLEANUP_FROM /\ ~res[r].paid}

\* The storages of all the rows of the snapshot are released first.
CommitCleanup(w) ==
    /\ req[w].op = "cleanup"
    /\ releaseStorageIfAny(Held(w, req[w].rows))
    /\ SetStatus(StillUnpaid(w), "cancelled")
    /\ End(w)
    /\ UNCHANGED <<now, createdAt, pay, notified, singled>>

Overdue(r) ==
    /\ res[r].status \in AUTO_COMPLETE_FROM
    /\ EndOf[GroupOf[r]] < now - Grace

BeginAutoComplete(w) ==
    /\ Accepts(w, "autoComplete")
    /\ \E r \in Row : Overdue(r)
    /\ Begin(w, "autoComplete", {r \in Row : Overdue(r)}, StorageIds,
             "completed")
    /\ UNCHANGED <<now, res, createdAt, sto, pay, notified, singled>>

\* Faulty: only rows that were checked in are completed.
StillInProgress(w) == {r \in req[w].rows : res[r].status = "in_progress"}

StillOpen(w) == {r \in req[w].rows : res[r].status \in AUTO_COMPLETE_FROM}

CommitAutoComplete(w) ==
    /\ req[w].op = "autoComplete"
    /\ releaseStorageIfAny(Held(w, req[w].rows))
    /\ SetStatus(StillOpen(w), "completed")
    /\ End(w)
    /\ UNCHANGED <<now, createdAt, pay, notified, singled>>

----------------------------------------------------------------------------
(* The owner takes a storage out of service, or back: no transaction *)

FindStorage(w, s, to) ==
    /\ Accepts(w, "storageChange")
    /\ sto[s] # "occupied"
    /\ req' = [req EXCEPT ![w] =
                 [Idle EXCEPT !.op = "storageFound", !.unit = s, !.to = to]]
    /\ UNCHANGED <<now, res, createdAt, sto, pay, notified, singled>>

hasActiveReservation(s) ==
    \E r \in Row : /\ res[r].storage = s
                   /\ res[r].status \in ACTIVE_RESERVATION_STATUSES

CheckStorageUnused(w) ==
    /\ req[w].op = "storageFound"
    /\ ~hasActiveReservation(req[w].unit)
    /\ req' = [req EXCEPT ![w].op = "storageChange"]
    /\ UNCHANGED <<now, res, createdAt, sto, pay, notified, singled>>

CommitStorageChange(w) ==
    /\ req[w].op = "storageChange"
    /\ sto' = [sto EXCEPT ![req[w].unit] = req[w].to]
    /\ End(w)
    /\ UNCHANGED <<now, res, createdAt, pay, notified, singled>>

----------------------------------------------------------------------------

\* A request that has begun may end without its writes: a check on a later read
\* fails, a transaction is a deadlock victim or times out, or the process stops.
AbortRequest(w) ==
    /\ req[w].op # "idle"
    /\ End(w)
    /\ UNCHANGED <<now, res, createdAt, sto, pay, notified, singled>>

\* A tick is minutes long and a transaction is rolled back after 5 or 15 s, so a
\* request sees at most one tick while it runs.
Tick ==
    /\ now < Horizon
    /\ \A w \in Worker : ~req[w].late
    /\ now' = now + 1
    /\ req' = [w \in Worker |->
                 IF req[w].op = "idle" THEN req[w]
                 ELSE [req[w] EXCEPT !.late = TRUE]]
    /\ UNCHANGED <<res, createdAt, sto, pay, notified, singled>>

GuestStep(w) ==
    \/ \E g \in Group : \/ PrecheckGuest(w, g)
                        \/ BeginCreateGuest(w, g)
                        \/ CommitCreateGuest(w, g)
                        \/ BeginAutoApprove(w, g)
                        \/ CommitAutoApprove(w, g)
                        \/ SendCreateNotification(w, g)
                        \/ BeginGuestCancel(w, g)
    \/ CommitGuestCancel(w)

RowStep(w) ==
    \/ \E g \in Group : CreateOne(w, g)
    \/ \E r \in Row : \/ BeginApprove(w, r)
                      \/ \E to \in Status : BeginUpdateStatus(w, r, to)
                      \/ BeginStoreCheckin(w, r)
                      \/ BeginCustomerCheckout(w, r)
    \/ CommitApprove(w)
    \/ CommitUpdateStatus(w)
    \/ CommitStoreCheckin(w)
    \/ CommitCustomerCheckout(w)

OwnerStep(w) ==
    \/ \E g \in Group : \/ BeginCheckIn(w, g)
                        \/ BeginCheckOut(w, g)
                        \/ BeginNoShow(w, g)
    \/ CommitCheckIn(w)
    \/ CommitCheckOut(w)
    \/ CommitNoShow(w)

SweepStep(w) ==
    \/ BeginCleanup(w)
    \/ CommitCleanup(w)
    \/ BeginAutoComplete(w)
    \/ CommitAutoComplete(w)

StorageStep(w) ==
    \/ \E s \in Storage, to \in {"available", "maintenance"} :
          FindStorage(w, s, to)
    \/ CheckStorageUnused(w)
    \/ CommitStorageChange(w)

Next ==
    \/ \E w \in Worker : \/ GuestStep(w)
                         \/ RowStep(w)
                         \/ OwnerStep(w)
                         \/ SweepStep(w)
                         \/ StorageStep(w)
                         \/ AbortRequest(w)
    \/ Tick

Spec == Init /\ [][Next]_vars

----------------------------------------------------------------------------
(* Safety *)

\* The rows of a booking are paid together, and have one status as long as no
\* single-row endpoint (approve, status, check-in by the store app, checkout by
\* the customer) has written one of them: the owner link, no-show, the guest's
\* cancel, the cleanup and the auto-completion never split a booking.
GroupsMoveTogether ==
    \A g \in Group : \A r1, r2 \in RowsOf(g) :
        /\ res[r1].paid = res[r2].paid
        /\ g \notin singled => res[r1].status = res[r2].status

\* A payment belongs to the booking that exists with it, and to one only:
\* createReservation run twice with one paymentKey books once.
PaymentBacksOneBooking ==
    \A g \in Group : PaymentOf[g] # NoPayment =>
        (Exists(g) <=> pay[PaymentOf[g]] = g)

\* Requests whose UPDATE names the rows by id and tests nothing.
ById == {"autoApprove", "approve", "updateStatus", "storeCheckin",
         "customerCheckout", "guestCancel"}

\* A row leaves a closed status only in the commit of such a request: owner
\* actions, no-show, cleanup and auto-completion never revive a closed row,
\* whatever was committed since their snapshot.
SweepsKeepClosed ==
    [][\A r \in Row :
         Closed(res[r].status) /\ res'[r].status # res[r].status =>
            \E w \in Worker : req[w].op \in ById /\ r \in req[w].rows]_vars

\* A closed row keeps its status: "a finished reservation's status cannot be
\* changed" (assertCanTransition) and no_show is final.
ClosedIsFinal ==
    [][\A r \in Row : Closed(res[r].status) => res'[r].status = res[r].status]_vars

\* The booking's hours contain the instant i.
Covers(g, i) == StartOf[g] <= i /\ i < EndOf[g]

\* findStorageForReservation's rule: no two active reservations that overlap in
\* time are assigned one storage.
NoDoubleAssignment ==
    \A r1, r2 \in Row :
        /\ r1 # r2
        /\ res[r1].status \in ACTIVE_RESERVATION_STATUSES
        /\ res[r2].status \in ACTIVE_RESERVATION_STATUSES
        /\ res[r1].storage # NoStorage
        /\ \/ Covers(GroupOf[r1], StartOf[GroupOf[r2]])
           \/ Covers(GroupOf[r2], StartOf[GroupOf[r1]])
        => res[r1].storage # res[r2].storage

\* The luggage of the reservation is in the storage.
HoldsLuggage(r, s) == res[r].status = "in_progress" /\ res[r].storage = s

\* A storage marked occupied has luggage in it.
OccupiedHasLuggage ==
    \A s \in Storage : sto[s] = "occupied" => \E r \in Row : HoldsLuggage(r, s)

\* A storage with luggage in it is not marked available.
LuggageMarksOccupied ==
    \A r \in Row, s \in Storage : HoldsLuggage(r, s) => sto[s] # "available"

\* Bags of a type that are booked for the instant i.
BagsAt(t, i) ==
    Bags({r \in Row : /\ TypeOf[r] = t
                      /\ res[r].status \in CAPACITY_COUNT_STATUSES
                      /\ Covers(GroupOf[r], i)})

\* A guest's booking is inserted only if at every instant of its hours the bags
\* of each type, those of customers and walk-ins too, then fit the capacity:
\* what checkCapacityBatch is there for, with a sum over overlapping rows.
CapacityRespected ==
    [][\A g \in Group :
         SourceOf[g] = "guest" /\ ~Exists(g) /\ Exists(g)' =>
            \A t \in {TypeOf[r] : r \in RowsOf(g)}, i \in StartOf[g]..EndOf[g] - 1 :
                BagsAt(t, i)' <= MaxCapacity[t]]_vars

(* Liveness *)

\* Time passes, every request ends (its transactions time out), the cron keeps
\* firing and its transaction is not rolled back for ever.  The clients are free
\* to stop or to go on.
Fairness ==
    /\ WF_vars(Tick)
    /\ \A w \in Worker : WF_vars(AbortRequest(w))
    /\ SF_vars(\E w \in Worker : BeginAutoComplete(w))
    /\ SF_vars(\E w \in Worker : CommitAutoComplete(w))

FairSpec == Spec /\ Fairness

\* A reservation that is still open when its grace period is over is closed.
OverdueIsClosed ==
    \A r \in Row : Overdue(r) ~> res[r].status \notin AUTO_COMPLETE_FROM
=============================================================================

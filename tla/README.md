# Formal models of lit-server-nest

lit-server-nest is the backend of a luggage-storage service: NestJS handlers
over MariaDB/MySQL through Prisma. Owners run stores with numbered storages;
guests and customers book storage for hours of a day; owners take the luggage
in and give it back, from the store app or from a link in a message; two sweeps
close what nobody closes. This directory holds TLA+ models of the parts where
several requests meet on the same rows, the TLC runs that check them, and
theorems about them checked by TLAPS.

Paths below are relative to the repository; `S` stands for
`src/modules/`.

## 1. The system

### Parts, state, operations

| Part | State it keeps | Operations that change it |
|---|---|---|
| Guest reservations (`S/reservations/services/guest-reservation.service.ts`) | `reservations` rows of one booking (`reservation_group_id`), `payments.reservation_id` | create (capacity, payment claim, automatic approval, message to the owner), cancel, TTL cleanup |
| Store and customer reservations (`reservation-command.service.ts`) | the same rows, one row per booking | create, approve, reject, cancel, set status, check-in, customer's checkout |
| Storage assignment (`reservation-storage.service.ts`) | `reservations.storage_id`, `storages.status` | find, occupy, release |
| Owner actions by link (`S/owner-actions`) and no-show (`reservation-no-show.service.ts`) | the rows of a whole booking | check-in, check-out, no-show |
| Auto-completion (`reservation-auto-complete.service.ts`) | rows past their end | hourly job |
| Storages (`S/storages`) | `storages.type`, `.status` | create, edit, delete (= maintenance) |
| Store settings (`S/stores/services/store-settings.service.ts`, `store-storage-sync.service.ts`) | capacity and enabled per type; the storages made from them | save settings |
| Owner accounts (`S/auth`) | `owners`, `stores.closed_at`, `refresh_tokens` | register, login, refresh, logout, switch/add store, change password, close store, withdraw |
| Staff (`S/staff`) | `store_staff`, invite codes, staff sessions | create, issue again, revoke, leave, redeem |
| Coupons (`S/coupons`) | `coupon_policies`, `coupons` | policies, claim, issue at check-in, redeem, expire |
| Store PIN (`S/stores/services/store-pin.service.ts`) | hash, failed count, lock | set, try |
| Customer accounts (`S/customer-auth`) | `customers`, `customer_auth_providers`, `customer_refresh_tokens` | sign in with Kakao, sign-up form, refresh, logout, withdraw, update |
| Passwords (`S/auth`, `S/admin-auth`, `scripts/admin-cli.ts`) | `password_hash`, `login_count`, `login_locked_until`, tokens | login, change, reset, deactivate, activate, logout |
| E-mail codes (`S/auth/services/email-verification.service.ts`) | `email_verifications` | send, verify, register |
| Push devices (`S/push`) | `store_push_devices` | register, unregister, send and prune; leaving and closing |
| Notifications (`S/notifications`) | none: calls in flight | the messages of a booking, a cancellation, a check-out, a review, photos |
| Reviews (`S/reviews`) | `reviews`, `actual_end_time` | ask at check-out, write, respond |
| Luggage photos (`reservations`) | `luggage_image_urls` | add by the guest, add at check-in |
| Opening hours (`S/stores/services/store-settings.service.ts`) | `store_operating_hours` | save a part, read |
| Reports (`S/admin`, `S/dashboard`) | none: they read reservations and payments | list, summary, series, stats |
| Store status, pricing, public holidays, addresses, mail, uploads, search, feedback, queries | none, or independent rows | not modelled, see section 8 |

### How they interact

* Everything interacts through the database. A handler reads, decides and
  writes; between its read and its write any other handler may commit.
* `reservation-storage.service.ts` is called by every handler that moves a
  reservation. Check-in marks the storage `occupied`; check-out, cancel,
  no-show and auto-completion mark it `available`. Saving the settings and the
  storages administration write the same column.
* Creating a booking gives the owner a signed link, sent after the booking has
  been approved. Only with it can the link's endpoints be called.
* Closing a store or the account reads the reservations; creating a reservation
  reads `closed_at`. Neither locks what it reads.
* A check-in issues coupons after its transaction; redeeming one asks for the
  store's PIN. A check-out asks the customer for a review, in a message that
  nobody awaits.
* Revoking staff, closing a store and withdrawing delete the phones registered
  there, in the transaction that deletes the sessions; registering a phone takes
  part in none of them.
* The reports read the reservations and payments with queries of their own,
  some grouped by the database and some added up in memory.

### What is hard here

* **Transactions on snapshots.** `prisma.$transaction` runs at InnoDB's
  REPEATABLE READ. A `SELECT` sees the snapshot of the transaction's first read;
  an `UPDATE` sees the current rows. Whether a handler is right then depends on
  what its `UPDATE` tests: `updateMany({where: {status: {in}}})` is a
  compare-and-swap, `update({where: {id}})` tests nothing. Both kinds are used,
  on the same rows.
* **Handlers without a transaction**: coupons, PIN, storages administration,
  staff creation. Every statement may be separated from the next.
* **Bookings of several rows** that must move together, while some endpoints
  move single rows.
* **Derived state**: `storages.status` should follow the reservations, and the
  storages should follow the settings; nothing but the handlers' order ties them.
* **Stops in the middle**: the process may stop, a transaction may be a deadlock
  victim or time out, between any two steps.
* **Time**: TTL, start, end, grace period, validity, lock, all against clocks
  read at different steps.

The lines at which each of these bites are listed as `hazards` in
`PROJECT.json`, with the property that would catch it or the reason why there is
none.

### What makes each part correct

| Part | Property | Where |
|---|---|---|
| Bookings | rows are paid together and keep one status unless a single-row endpoint splits them | `GroupsMoveTogether` |
| | a payment backs the booking that was created with it, and one only | `PaymentBacksOneBooking` |
| | a closed row is revived only by updates by id; never, if these lock their rows | `SweepsKeepClosed`, `ClosedIsFinal` |
| | through the owner's link a booking of several rows behaves as one atomic booking | `ImplementsBookings` |
| | whatever is left open past its grace period is closed | `OverdueIsClosed` |
| | a type's bags fit its capacity at every instant | `CapacityRespected` |
| Storages | two reservations that overlap are not given one storage | `NoDoubleAssignment` |
| | a storage marked occupied holds luggage | `OccupiedHasLuggage` |
| Settings | what can be booked is backed by storages; a save retires the excess | `SettingsAreBacked`, `SaveRetiresExcess` |
| | a save spares the storages it has seen occupied | `OccupiedIsSpared` |
| Accounts | an owner has an open store exactly until withdrawing; a closed store is quiet | `AccountMatchesStores`, `ClosedStoreIsQuiet` |
| Staff | a staff session ends with the staff member or the store | `StaffSessionsAreLive` |
| | a code opens one session; earlier codes die | `InviteUsedOnce`, `OneUsableInvite` |
| Coupons | a benefit is granted once; finished coupons stay finished | `UsedOnce`, `FinishedStays` |
| | nobody gets a coupon twice | `OneCouponEach` |
| PIN | the lock follows the wrong tries | `LockMatchesMisses` |
| Customers | a row, its link and its sessions are one Kakao account's; a deleted session stays deleted | `OneAccountPerPerson`, `RevokedStaysRevoked` |
| Passwords | a session survives a change of the password only if signing in overlapped it; wrong tries come to a lock | `OldSessionsOverlap`, `MissesBounded` |
| E-mail codes | the latest code is the only one that works, and it bears a bounded number of wrong tries | `OneOpenCode`, `AttemptBudget` |
| Push devices | a push reaches the owner and the active staff of its store, and nobody else | `RightPhones` |
| Notifications | nobody is told twice; the last resort is tried; a text reaches its number | `ToldOnce`, `LastResortTried`, `ForeignNumberReached` |
| Reviews | one per booking, after a confirmed hand-over | `OneReviewPerBooking`, `ReviewsFollowHandover` |
| Photos | lost only by overlapping saves or beyond the limit | `PhotosLostByOverlap` |
| Opening hours | a save changes what it names; what was read can be sent back | `SavesAreExact` |
| Reports | figures of the same days and stores agree | `FiguresAgree`, `TotalsMatchSeries` |

## 2. How the code is modelled

**A worker is a request or a job.** `req[w]` holds what the handler of worker
`w` has in its local variables: the step it is at, the rows it will write, what
it read for them. With a set `Worker` of size two any two handlers interleave.

**A transaction is two steps.** The Begin step evaluates the handler's reads and
checks, all on the state at that instant: that is the snapshot. The Commit step
applies its writes to the state as it is then; a compare-and-swap tests the
current rows. One step for all writes loses no behaviour, because an InnoDB
write locks its row until the transaction ends: two transactions whose writes
interleave are ordered by the first row both write, or one of them is a deadlock
victim and is rolled back (`AbortRequest`). The transactions that write disjoint
tables of one object share a row or a range in the code: every save of the
settings updates the store's row first, and closing, revoking and redeeming
write the store's tokens, staff and codes. Where the code takes the time at a
later step than the snapshot, the model does too (`late`, `createdAt`).

This reads REPEATABLE READ as MySQL and MariaDB implement it by default. With
MariaDB's `innodb_snapshot_isolation` (on by default from 11.6.2) an update of
a row changed since the snapshot fails instead; the models then have behaviours
that such a server refuses. The repository does not set the isolation level.

**No transaction, no grouping.** In `Coupons`, in `Credentials`,
`EmailVerification` and `PushDevices`, and for the edit of a storage, every
statement is a step.

**Failed checks** that write nothing are not steps; a request that fails later
ends by `AbortRequest`, which also stands for a rolled-back transaction and for
a process that stops. After it the worker is free again: requests keep no state
across a restart.

**`Endpoints`** names the endpoints and jobs that are called, so that one
specification serves runs about different parts of it. It restricts who calls,
never what a handler does.

**Auxiliary variables** (`singled`, `overlapped`, `uses`, `misses`, `synced`,
`creator`, `streak`, `tried`, `seat`, `crossed`, and the `to` of a token) record
history for the properties; no action reads them. `overlapped` is set
when two requests have been in progress at once, so that a run with two workers
can also state what is promised for one request at a time.

### Modules

| Module | Lines | What it models |
|---|---|---|
| `ReservationStatus` | constants | the status sets and transition rules of `reservation-status.service.ts` and `reservation.constants.ts` |
| `Reservations` | state machine | rows, storages, payments and every endpoint or job that writes them |
| `BookingGroups` | abstract specification | a booking as one thing with one status, no requests and no rows |
| `ReservationsRefinement` | refinement mapping | `Reservations` with the link's endpoints implements `BookingGroups` |
| `StoreAccounts` | state machine | owner, stores, sessions, staff, codes, closing against booking |
| `Coupons` | state machine | policies, coupons, PIN |
| `StoreInventory` | state machine | settings, storages made from them, edits, stays |
| `CustomerAccounts` | state machine | customers, their Kakao accounts and refresh tokens |
| `Credentials` | state machine | the password, lock and sessions of one owner or administrator |
| `EmailVerification` | state machine | the codes of one address |
| `PushDevices` | state machine | phones, staff, stores and the delivery of pushes |
| `Notifications` | state machine | the calls of one event and their answers |
| `Reviews` | state machine | check-outs, requests for reviews, reviews |
| `LuggagePhotos` | state machine | the list of photos of one reservation |
| `StoreHours` | state machine | the opening hours of one store |
| `Reports` | state machine | rows and payments arriving, and the figures computed from them |
| `MCReservations`, `MCLink`, `MCStoreAccounts`, `MCCoupons`, `MCStoreInventory`, `MCServices` | instances | values of the constants |
| `ReservationsProofs`, `BookingProofs`, `AccountsProofs`, `CouponsProofs`, `InventoryProofs`, `SigninProofs`, `ServicesProofs`, `ReportsProofs` | theorems | section 6 |

`MCServices` runs the eight modules from `CustomerAccounts` to `StoreHours`, and
`MCLink` runs `Reports` beside `Reservations`. The parts of each share no state, so
a behaviour is a behaviour of one of them, which the variable `part` names. They
extend the parts' modules, so that TLC evaluates their assumptions.

Every definition that stands for code is in the `map` of `PROJECT.json`, with
the lines it stands for. Definitions whose comment begins with *Faulty* are
not part of the models: each is a plausible bug in the operator below it, and
shows that a property notices it (`mutants` in `PROJECT.json`).

### Reservations

| Variable | Code |
|---|---|
| `res[r]` | `reservations.status`, `storage_id`, and whether `payment_status` is `paid` |
| `createdAt[g]` | `created_at`, which all rows of a booking share |
| `sto[s]` | `storages.status` |
| `pay[x]` | `payments.reservation_id`, as the booking the row belongs to |
| `notified` | bookings whose owner holds the link |

| Handler | Actions |
|---|---|
| guest `createReservation`, `autoApproveGroup` | `PrecheckGuest`, `BeginCreateGuest`, `CommitCreateGuest`, `BeginAutoApprove`, `CommitAutoApprove`, `SendCreateNotification` |
| `createStoreReservation`, `createCustomerReservation` | `CreateOne`, then `BeginApprove` |
| `approveReservation` | `BeginApprove`, `CommitApprove` |
| `rejectReservation`, `cancelReservation`, `updateReservationStatus` | `BeginUpdateStatus`, `CommitUpdateStatus` |
| `storeCheckin`, `customerCheckout` | `BeginStoreCheckin` … `CommitCustomerCheckout` |
| `OwnerActionsService.checkIn`, `.checkOut` (`transitionInTx`) | `BeginCheckIn`, `CommitCheckIn`, `BeginCheckOut`, `CommitCheckOut` |
| `markNoShow` | `BeginNoShow`, `CommitNoShow` |
| guest `cancelReservation` | `BeginGuestCancel`, `CommitGuestCancel` |
| `cleanupExpiredReservations` | `BeginCleanup`, `CommitCleanup` |
| `autoCompleteOverdue` | `BeginAutoComplete`, `CommitAutoComplete` |
| `updateStorage`, `deleteStorage` (status) | `FindStorage`, `CheckStorageUnused`, `CommitStorageChange` |

Hours are ticks; `TTL` and `Grace` are numbers of ticks. A tick is long against
a request (transactions are rolled back after 5 or 15 seconds), so a request
sees at most one. `pending_approval` and the payment status `refunded` are in
the schema but no statement writes them, except a status request that names
`pending_approval`; the model lets such a request through exactly where
`assertCanTransition` does.

### StoreAccounts

One owner. A store is absent, open or closed for good; `tokens[s]` counts the
owner's refresh tokens, `access` the stores for which an access token has not
expired. An invite code is live, expired, used or revoked, and `sessions[c]`
counts the refresh tokens of the staff member who redeemed it. `booked` is what
closing looks at: whether the store has a reservation in an active status.
`closeStoresInTx` does what `closeStoreInTx` does to each store. A staff route
checks the staff row and the store on each request (`StoreAuthGuard`), an
owner's does not: `OwnerMayManage` is only the token.

### Coupons

One store. A holder is a customer, or a guest known by phone number; only a
`Customer` claims. A claim reads the policy, looks for a duplicate, and inserts:
three steps. A check-in reads the policies of its trigger once, and takes them
one after the other. `title` is the policy's name or the default title; the
duplicate is looked for under the name. Redeeming reads the coupon, then the
PIN's row, then writes the count, then updates the coupon if it is still active.

### StoreInventory

A storage is a pair of a type (its number's prefix) and an index, or a legacy
row. `updateSettings` reads settings and storages on one snapshot, and writes
settings and then creates, restores and retires storages: restore and retire by
the ids of the snapshot, creation with `skipDuplicates`. Edits of one storage
are three statements. Assigning, checking in and releasing are single steps
here; their interleavings are in `Reservations`.

### CustomerAccounts

| Variable | Code |
|---|---|
| `customer[c]` | `customers.provider_id`, and whether `name` is 탈퇴회원 |
| `link[p]` | `customer_auth_providers.customer_id` of a Kakao account |
| `session[s]` | `customer_refresh_tokens`: a token and, as a history, who got it |
| `issued` | every token given out: what a caller may present |

`socialLogin` and `signupCustomer` are a transaction (`BeginLogin`, `CommitLogin`;
`BeginSignup`, `CommitSignup`) and then an INSERT outside it
(`issueAuthResponse`). A token is its customer and the second it was signed in.
`refresh` finds a row by the token and updates it by id. A withdrawal keeps
the row, without its provider id and named 탈퇴회원.

### Credentials, EmailVerification

A sign-in reads the account once (`BeginLogin`); after bcrypt it writes the count
it read plus one (`Miss`), or resets it (`ResetOfOwner`, `ResetOfAdmin`) and
inserts a token (`InsertToken`), in one order for owners and in the other for
administrators. A code is its row: `given` is the row whose code is presented,
or none. `verifyCode` reads the newest row (`BeginVerify`) and then counts
(`CountAttempt`) or verifies (`MarkVerified`) by id.

### PushDevices, Notifications

`device[d]` is the row of an FCM token, `seat[d]` who registered it last.
Registering reads the owner and then upserts; a push reads the recipients, sends,
and deletes the tokens that FCM calls stale, in three steps. `Notifications` is one
event with all its calls: `flight` holds those not answered. A call may fail and
have been delivered all the same, `env` leaves out a channel that is not
configured, and the process may stop before the answers.

### Reviews, LuggagePhotos

`Reviews` has the writes of `status` and `actual_end_time` that matter for a
review: by status request, by customer, by the owner's link, and by the hourly
job, which sets no time. `asked` holds the rows whose customer was sent the link.
`LuggagePhotos` merges photos with the list that was read before.

### StoreHours, Reports

`StoreHours` converts a partial request into a row field by field, as the service
and the mapper do: what is left out keeps the value read, breaks are replaced as a
whole, a day without times is closed. `Reports` computes a figure as each endpoint
does: grouped by store, filled into day, week or month buckets, added up over
stores. `answer` is the last report, of the rows as they are now.

## 3. The runs

`tlc -config X.cfg M` with the modules and configurations named in
`PROJECT.json`. State counts are distinct states.

| Run | Question | States |
|---|---|---|
| `Serial` | One request at a time, all endpoints, two bookings of unequal bags that want one storage: are storages assigned and marked right, do closed rows stay closed, and do a guest's bags fit? (`TypeOK`, `NoDoubleAssignment`, `OccupiedHasLuggage`, `ClosedIsFinal`, `CapacityRespected`) | 403,060 |
| `Groups` | Two requests at a time on a booking of two rows: what can split it, and what can revive a closed row? (`GroupsMoveTogether`, `SweepsKeepClosed`) | 473,883 |
| `Overdue` | Two requests at a time, the cron running: is what is overdue closed in the end, and does one payment back one booking? (`OverdueIsClosed`, `PaymentBacksOneBooking`) | 97,276 |
| `Link` | Two requests at a time on bookings handled through the link and the sweeps: do they implement `BookingGroups`? And do the figures of the reports agree? (`ImplementsBookings`, `FiguresAgree`) | 269,720 |
| `Accounts` | Two requests at a time on two stores and a staff member with two codes (`TypeOK`, `StaffSessionsAreLive`, `InviteUsedOnce`, `OneUsableInvite`, `AccountMatchesStores`, `ClosedStoreIsQuiet`) | 1,567,505 |
| `Coupons` | Two requests at a time on two coupons, a policy that changes and a PIN (`TypeOK`, `UsedOnce`, `FinishedStays`, `OneCouponEach`, `LockMatchesMisses`) | 1,239,303 |
| `Inventory` | Two requests at a time: partial saves, edits and stays (`TypeOK`, `SettingsAreBacked`, `OccupiedIsSpared`, `SaveRetiresExcess`) | 1,704,016 |
| `Services` | Two requests at a time on each of the eight services of `MCServices` (`TypesOK` and the thirteen properties of customers to opening hours in the table of section 1 that are not in section 5) | 801,718 |
| `VLuggage`, `VClose`, `VForeign`, `VTotals` | four statements of the repository that the code does not keep (section 5) | violated |

TLC's coverage (`-coverage`) shows that every action of each part occurs in its run.
Of `Link`, about 79,000 states are of reservations and 191,000 of reports. Of
`Services`, 502,000 are of customers, 102,000 of messages, 72,000 of passwords,
50,000 of reviews, 33,000 of opening hours, 26,000 of devices, 10,000 of photos and
7,000 of e-mail codes.

### Bounds, and why they are enough

* **Workers**: one where the code promises nothing for concurrent requests, two
  otherwise. Every race described here is between a read and one other
  request's write; three workers would add longer chains of the same. The
  theorems hold for any number.
* **Rows and bookings**: `Groups` needs one booking of two rows of different
  types (a request never makes two rows of one type). `Serial` needs two
  bookings for one storage; one is a guest's and one a customer's, so that both
  ways of creating and of ending rows occur. Their bags are 2 and 1 and the
  capacity is 2, so that rows and bags differ and the second does not fit.
  `Link` has a booking of two rows and one of one row, whose hours touch.
* **Time**: bookings lie within ticks 0 to 2 and the clock stops at
  `Horizon` = 3, one tick after the grace period (`Grace` = 0) of the last. With
  `TTL` = 1, expiry, start and end come in every order the inputs allow.
* **Storages**: one, so that competition for it happens at once. With none free
  a row is confirmed without one, which also happens here.
* **Accounts**: two stores are the least with which closing one may leave
  another; `MaxTokens` = 1 per store (a second adds only a count);
  `MAX_ACTIVE_STAFF` = 1, so that the limit is met. Two codes are the least
  with which one may survive another.
* **Coupons**: two rows, the least with which a duplicate exists;
  `MAX_PIN_FAILURES` = 2 in place of 5 and `MaxFailed` = 3, one above it,
  so that a try after the limit occurs; validity and lock of one tick and a
  clock of two let a coupon and a lock expire and a further tick pass.
* **Signing in**: two Kakao accounts and two rows, the least with which one could
  get the other's; two tokens, so that one is rotated while another is deleted;
  a clock of two instants and a token life of one, so that tokens of the same
  second, of different seconds and expired ones occur. Limits of 3 and 2 in place
  of 5 for wrong passwords and codes, and two passwords: with a limit of 3, two
  sign-ins at once can miss five times, more than a single one can.
* **Services**: two stores of one owner
  and one of another, a staff member of each and one phone: who holds the
  phone is what the property is about. A list of three numbers of which two are
  the same line, a list with an empty one and a list of one. A booking of two rows,
  a review window of 0 so that it closes within the clock of two. A limit of two
  photos in place of ten, and five uploads, so that it is exceeded. Two days, two
  times, and requests that name a part, a null, or an order of times that is
  refused.
* **Reports**: a day of two ticks with Korea one tick ahead, so that midnight falls
  apart in the two zones, a week of two days and a month of three, periods of up
  to two days, so that a bucket may begin before the period; two events (three
  things, with the report) on two stores, two rows and a payment.
* **Inventory**: two types with one number each, as a partial save
  needs a type it does not name; one legacy type to which a storage may be
  edited; saves that switch one type off, on, or set its capacity to 0.

The declared symmetries are in the workers, in the coupons and PINs of `Coupons`,
and in the Kakao accounts and customers' rows of `Services`; nothing else of an
instance is symmetric. `Link` and `Groups` use the workers' symmetry with action
properties and a refinement but no liveness property, and `Overdue`, which has
one, declares no symmetry.

`CHECK_DEADLOCK FALSE` stands where the system may come to rest: in the
reservation runs when every booking is closed and the clock is at `Horizon`; in
the account runs when the owner has withdrawn and all tokens have expired; in
the services' runs when the calls of an event are answered, the uploads or
tokens used up, or the clock is at its bound.

### Fairness (`FairSpec`, run `Overdue`)

* `WF(Tick)`: time passes, up to the bound.
* `WF(AbortRequest(w))`: a request ends. Prisma rolls a transaction back after
  its timeout, so no worker holds a request for ever. It does not say that
  requests fail: a request may as well end by its commit.
* `SF` of beginning and of committing an auto-completion: the cron fires every
  hour for ever (`@Cron`, `reservation-auto-complete.service.ts:25`), a worker
  is free for it again and again, and it is not rolled back each time. Strong,
  because other requests may use the worker or the rows in between. Without the
  second, a job that is a deadlock victim each hour would never close anything.

Clients are not fair: nobody need check in, check out or approve anything.

## 4. What the runs show

* **What is right under any interleaving**: the payment claim, with its second
  look at `reservation_id` in the `UPDATE`; the compare-and-swaps of the owner's
  link, of no-show, cleanup and auto-completion, which never revive a closed row
  and never split a booking; redeeming an invite code against revoking and
  closing, and issuing a code against issuing another; redeeming a coupon
  against redeeming and expiring it; a save of the settings against the check-in
  it has seen; customers' rows, links and sessions against withdrawing, rotating
  and logging out; the newest e-mail code as the only open one; the recipients
  of a push; one review per booking whichever of its rows it is written through,
  after a confirmed hand-over; no second delivery of a message that was
  acknowledged.
* **What is bounded rather than exact under interleavings**: wrong passwords and
  wrong codes. Each request that overlaps another may add one try that is not
  counted, so the limit is passed by as many tries as requests overlap.
* **What is lost only by overlap**: photos (apart from the limit), parts of the
  opening hours, sessions that survive a change of the password. The properties
  say exactly that: without an overlap nothing of this happens.
* **What is right one request at a time only**: assignment of storages,
  capacity, the marks on storages, no second coupon, the PIN's lock, closing
  stores, settings and storages in step. With two requests at once each of these
  can fail, by the interleavings named in `hazards`. The repository
  states most of these rules without saying under which concurrency, so they are
  checked serially and the concurrent failures are noted there, not claimed as
  contradictions. For each of them section 6 proves which locks would be enough
  with any number of requests at once; the code takes none of these.
* **How a booking may be split**: only by the endpoints that write one row
  (approve, status, store check-in, customer's checkout).

## 5. Findings

| Run | The repository says | The code does |
|---|---|---|
| `VLuggage` | `occupied` means that luggage is in the storage now (`docs/README.md`, F-004) | a repeated request for the status a closed row has (`reservation-status.service.ts:67`) writes `available` to its storage while another reservation's luggage is in it |
| `VClose` | the check is inside the transaction to prevent the race with the creation of reservations (`auth.service.ts:317`) | the check is a snapshot read and the creation does not look again: a closed store gets a reservation |
| `VForeign` | a foreign number gets an international LMS (`notifications.service.ts:741`) | `normalizePhoneForSolapi` drops the `+` and puts a 0 in front (line 203): the message goes to other digits |
| `VTotals` | without a filter `meta.totals` equals the sum of the buckets (`docs/api/admin/store-operations.md:263`) | the list leaves closed stores out (`admin-store-metrics.service.ts:265`), the series reads all stores |

Seen on the way, without a statement of the repository that it contradicts:

* the automatic approval writes by id and overwrites a no-show committed since
  its read;
* the customer's and the store's creation check no capacity;
* a customer's row whose approval fails stays pending;
* a repeated cancel frees the storage, also one in maintenance;
* cleanup and auto-completion release the storages of rows their `UPDATE`
  then skips;
* a guest's cancel that read the booking before its check-in cancels it after;
* F-004 says that a pending reservation, too, blocks its storage; the query
  looks at `confirmed` and `in_progress` only. No pending row has a storage, so
  this makes no difference;
* after a single-row check-in the cleanup cancels the other row of the booking
  (`guest-reservation.service.ts:530`);
* a policy with an empty name can be claimed without limit: the duplicate is
  looked for under the name and stored under the default title
  (`customer-coupon.service.ts:61`);
* customers' tokens of one second are the same string, so that logging out of one of
  two sessions begun in a second ends both; of two refreshes of one token both
  succeed and only one of the new tokens is stored; logging out with the old
  token while it is being rotated leaves the session;
* a sign-in of an active customer whose name is 탈퇴회원 deletes and recreates the
  account; a sign-in in flight gives a row withdrawn meanwhile its name and link
  back;
* an administrator's sign-in inserts its token before it resets the count; a wrong
  password that was read before a lock writes the lock away, and after a lock has
  expired a single miss locks again;
* a verified e-mail row is not consumed by a registration, and rows of one
  `created_at` have no order;
* a phone whose owner has switched stores unregisters nothing in the old one;
  closing one store deletes the owner's phone registered in it, though others stay
  open;
* two completing status requests at once both send a request for a review, and
  repeating `completed` on a row the hourly job closed opens the review without
  sending one;
* the guest's upload keeps ten photos although the store may have added up to
  twenty at the check-in: it drops the rest;
* `publicHoliday: null`, which a reading returns, is refused when sent back;
  naming some breaks replaces all;
* a report's figures are read by separate queries, not of one snapshot, and the
  breakdown by language counts closed stores when no filter is given;
* a guest with a foreign number whose e-mail fails at check-out gets no LMS.

## 6. What is proved

All theorems hold for every value of the constants allowed by the named
assumptions of the module: `InputsAssumption`, `StoragesAssumption`,
`ClockAssumption` (`Reservations`), `AccountsAssumption`, `CouponsAssumption`,
`InventoryAssumption`, `CustomersAssumption`, `CredentialsAssumption`,
`EmailAssumption`, `DevicesAssumption`, `ReviewsAssumption`,
`NotificationsAssumption`, `PhotosAssumption`, `HoursAssumption` and
`ReportsAssumption`. They speak of any number of workers, rows, stores, codes,
coupons, types, customers, phones, payments and endpoints. The assumptions say
that inputs have their types, that null values are not values, that limits are
positive, that a row of a booking exists, that a booking ends after it starts,
that a booking has one row per type (`normalizeItems`), and that what is counted
or added up (rows, stores, payments, clients, visitors) is finite.

Of the properties that runs check, each invariant, action property and refinement
is stated by a theorem, with two exceptions named below.

### Hypotheses of single theorems

* **Locks.** Some properties fail when requests overlap, by the interleavings that
  `hazards` names. For each of them a theorem says what would be enough with any
  number of requests at once. A lock is a condition on which requests may be
  between their reads and their writes together, or what may be written
  meanwhile, as `SELECT ... FOR UPDATE` would give it. The code takes none of them, so
  these theorems are no promise of the code under load: they say what it relies on,
  and that for these properties a lock would be the whole repair.

  | Theorem | Lock |
  |---|---|
  | `ClosedRowsStay` | `IdLocks`: a request that updates by id has its rows to itself, from its read to its write |
  | `OccupiedStoragesHoldLuggage` | `ApprovalLocks`: so has one that approves or sets a status |
  | `AssignedOnce` | `CheckInLocks`: so has one that sets a status or checks in at the store. `AssignmentLocks`: rows of one type with common hours are not approved at once |
  | `GuestsFit` | `CapacityLocks`: from the second look at the capacity to the insert nobody inserts rows of the same type and hours. `RevivalLocks`: a request that may revive a row has it to itself |
  | `CouponsUniqueUnderLock` | `HolderLocks`: on the holder, from the look for a duplicate to the `INSERT` |
  | `PinLockExact` | `PinRowLocked`: on the store's row, from the read of the count of a wrong PIN to its write |
  | `AccountMatchesUnderLock` | `AccountLocks`: on the owner's row, in the transactions that add a store, close one or close the account |
  | `ClosedQuietUnderLock` | `StoreLocks`: on the store's row, between its closing and whatever has seen it open |
  | `SavesBackUnderLock` | `SaveLocks`: from its reads to its commit a save shuts out other saves and edits, not check-ins |
  | `SavesRetireUnderLock` | `StoragesLocked`: a save locks the storages it reads |

  Requests that run one at a time keep all of these (`SerialLocks`, `AloneLocks`,
  `OneRequestLocks`), so that the `Serial` run with its one worker is a case of the
  first four, and the properties with `~overlapped` follow from the others.
* `BookingsAreAtomic` asks that `Endpoints` is a subset of `LinkEndpoints`, as in the
  configuration of `Link`: the other endpoints write single rows.
* `CouponsIssuedOnce` and `CouponsUniqueUnderLock` ask that no policy has an empty name (`Blank`): with one,
  a policy can be claimed twice (section 5).
* `MissesBounded` itself speaks of at most two clients at a time, and `AttemptBudget`
  of any number of visitors.
* `~overlapped`, `late` and the like are part of the properties and
  no hypotheses: until two requests have been in progress at once,
  or for what was not under way at a change, the property holds.

### Theorems

**Reservations** (`ReservationsProofs`, `BookingProofs`)

| Theorem | Property | Argument |
|---|---|---|
| `TypeCorrect` | `TypeOK` | inductive with what a request at each step must name, which is part of `TypeOK` |
| `CreatedOnce` | | `Creation` = `CreatedTogether` (a booking's rows exist together), `OneCreator` (one request creates it, and none of its rows exists before), `ReadRows` (a request names only rows that exist) |
| `PaymentCorrect` | `PaymentBacksOneBooking` | inductive together with `Creation`: without `OneCreator` a second request could insert the booking again and be given the payment |
| `GroupsCorrect` | `GroupsMoveTogether` | inductive together with `WholeRequests`: a request that began by reading a whole booking still names all of it when it commits, unless a single-row endpoint has touched the booking |
| `SweepsCorrect` | `SweepsKeepClosed` | every step is innocent (`Innocent`): each compare-and-swap tests statuses that are not closed |
| `OccupiedStoragesHoldLuggage` | `OccupiedHasLuggage` | under `ApprovalLocks`. `MarkedInv`: the property, with `ApprovalChecks` (what an approval or status update has read of its rows still holds) and `HoldsKept` (the storages a request is to occupy or release are still its rows') |
| `AssignedOnce` | `NoDoubleAssignment` | under `CheckInLocks` and `AssignmentLocks`. `AssignedInv`: active rows that overlap do not share a storage (`Separate`), a storage is of its row's type (`StorageFits`), a row that may be approved has none (`PendingUnassigned`), and a check-in's look at its row still holds (`CheckInChecks`), so that it takes in no closed row with a storage given to another since; what an approval picked is still free for its row (`Picked`), since nobody else approves a competing one meanwhile |
| `ClosedRowsStay` | `ClosedIsFinal` | under `IdLocks`. `IdChecks`: what a request by id has read of its rows still holds, and no check lets a closed row through but for the status it has |
| `GuestsFit` | `CapacityRespected` | under `CapacityLocks` and `RevivalLocks`. `RoomKept`: the room the check found is there until the insert, and only an insert takes room anew, since no request by id revives a row (`RevivalChecks`). The rows there are at an instant lie among the overlapping ones that the check counted, and a set's bags are at least its subset's (`BagsOfRow`, `InsertFits`) |
| `BookingsAreAtomic` | `ImplementsBookings` | `LinkState` = `TypeOK`, `Creation`, `Uniform`, `WholeRequests` and `LinkInv` (nothing is touched singly; a request creating a booking is the only one that knows it; what a link request read of a booking can only have been completed, never undone). Each step, one by one, is a step of `BookingGroups` under the mapping or leaves its variables alone |

**Accounts and signing in** (`AccountsProofs`, `SigninProofs`)

| Theorem | Property | Argument |
|---|---|---|
| `AccountsTypeCorrect`, `CustomersTypeCorrect`, `CredentialsTypeCorrect`, `EmailTypeCorrect` | `TypeOK` of the module | inductive |
| `StaffSessionsCorrect`, `InvitesCorrect` | `StaffSessionsAreLive`, `InviteUsedOnce` | `SessionInv`: a code being redeemed that nobody has used or revoked since has an active staff member and an open store (`RedeemingServed`), since whoever takes these away revokes the code in the same commit; and one request issues a code (`IssuedOnce`) |
| `OneInviteUsable` | `OneUsableInvite` | `InviteInv`: a new code is made either for a staff member nobody else knows yet (`CreatedAlone`), or in the commit that revokes every other unused code of the same person |
| `AccountMatchesUnderLock` | | under `AccountLocks`. `AccountInv`: an owner who is active, and no other, has an open store (`HasStore`), and what a transaction that will change this has read is still so (`AccountRead`): closing a store, that another one is open |
| `ClosedQuietUnderLock` | | under `StoreLocks`. `StoreInv`: who is about to issue a session or to book has an open store, and what is being closed has no booking (`StoreRead`) |
| `AccountsMatchStores`, `ClosedStoresAreQuiet` | `AccountMatchesStores`, `ClosedStoreIsQuiet` | `SerialInv`: until requests overlap one runs at a time, which keeps both locks (`OneRequestLocks`), so `AccountInv` and `StoreInv` hold |
| `AccountsOfOnePerson`, `DeletedSessionsStay` | `OneAccountPerPerson`, `RevokedStaysRevoked` | `CustomersMatch` and `TokensMatch` (rows, links and tokens are of the person who created the row) need `RequestsMatch`: the row a request is about was created by its caller, also when it has been withdrawn since it was read |
| `OldSessionsEnd` | `OldSessionsOverlap` | `PresentOrLate`: a session and a sign-in under way each have the present password, or the change that replaced it has marked them |
| `MissesAreBounded` | `MissesBounded` | `MissesLeft`: a budget of M(M+1)/2 tries, of which the tries so far and what the two clients can still spend never take more; a client that holds an old count brings the count back to it, and can do so once per count |
| `AttemptsBounded`, `OneCodeOpen` | `AttemptBudget`, `OneOpenCode` | `AttemptsCount` (tries are those counted in the row and those of visitors who have read it and not counted yet) and `OpenedOnce` (whoever opens a code replaces the one before in the same commit) |

**Coupons and storages of a store** (`CouponsProofs`, `InventoryProofs`)

| Theorem | Property | Argument |
|---|---|---|
| `CouponsTypeCorrect`, `InventoryTypeCorrect` | `TypeOK` | inductive |
| `CouponsUsedOnce`, `CouponsFinishedStay` | `UsedOnce`, `FinishedStays` | `GrantInv`: a granted coupon is never active again (`GrantedOnce`), and a request about to expire a coupon found it past its expiry, where it stays (`ExpiringIsPast`); `NextFate` lists all that a step can do to a coupon |
| `CouponsUniqueUnderLock` | | under `HolderLocks`. `IssueInv`: the duplicate that a request did not find does not exist when it inserts (`StillFree`) |
| `PinLockExact` | | under `PinRowLocked`. `PinInv`: the row counts the misses (`Counted`), and the count a wrong try has read is the row's (`CountKnown`) |
| `CouponsIssuedOnce`, `PinLockCounts` | `OneCouponEach`, `LockMatchesMisses` | `AloneInv`: until requests overlap one runs at a time, which keeps both locks (`AloneLocks`), so `IssueInv` and `PinInv` hold |
| `InventorySparesOccupied` | `OccupiedIsSpared` | `FoundFree`: an edit was granted for a storage that was not occupied when it was read |
| `SavesBackUnderLock` | | under `SaveLocks`. `SaveInv`: the settings saved last are backed one by one, unless an edit has moved a storage to a type it is not numbered for (`Synchronised`), and the storages a save has read are so as far as it counts (`InStep`): a check-in or a check-out neither takes a storage away nor puts one out of service |
| `SavesRetireUnderLock` | | under `StoragesLocked`. `ReadInv`: the storages a save has read are as they were |
| `SavesBackTheSettings`, `SavesRetireTheExcess` | `SettingsAreBacked`, `SaveRetiresExcess` | `SerialInv`: until requests overlap one runs at a time, which keeps both locks (`AloneLocks`), so `SaveInv` and `ReadInv` hold |

**Services** (`ServicesProofs`, `ReportsProofs`)

| Theorem | Property | Argument |
|---|---|---|
| `DevicesTypeCorrect`, `ReviewsTypeCorrect`, `MessagesTypeCorrect`, `PhotosTypeCorrect`, `HoursTypeCorrect`, `ReportsTypeCorrect` | the parts of `TypesOK`; of the reports only proved | the messages need `CallsFit` (an alimtalk has a phone number to fall back on), the photos `PhotosFit` (a list holds at most as many photos as were uploaded) |
| `PushesReachTheRightPhones` | `RightPhones` | `SeatsMatch` (a row says who registered the phone last), `OwnersKept` (an owner's phone keeps its row while it lives, its store is open and nobody unregisters it) and `SendersFit` (a push deletes only rows of phones that are gone) |
| `BookingReviewedOnce`, `ReviewsComeAfterHandover` | `OneReviewPerBooking`, `ReviewsFollowHandover` | the row a review is inserted for is the booking's first, whose index is unique; `Kept`: what has been handed over is never taken back, a row cancelled after completion included, so a request that read it may rely on it |
| `NobodyToldTwice`, `LastResortIsTried` | `ToldOnce`, `LastResortTried` | `MessagesInv`: a customer's calls are one by each channel of a fallback chain, the next made only after the one before was answered by an error (`CustomerCalls`); the calls to owners are exactly those of the list without its duplicates; and as long as the process runs somebody can still be told |
| `PhotosStayUnlessOverlapped` | `PhotosLostByOverlap` | `InPlace`: in all lists, the row's and those to be written, a photo has one place, so a write over a list that was read keeps what was in it |
| `SavesChangeWhatTheyName` | `SavesAreExact` | `HoursInv`: a row written is resolved (no `Keep` left, a closed day without times), and the request that mirrors a row names what was read in it, so that field by field the conversion gives the row back |
| `PagesAgree` | `FiguresAgree` | `AnswerIsCurrent`: what is answered was computed from the present rows. Stores and buckets each split the rows of a period into disjoint parts that leave nothing out (`Splits`); every figure is then the sum over the parts (`StoresAddUp`, `BucketsAddUp`, for counts `StoresCountUp`, `BucketsCountUp`) |

A sum over a finite set is written as the number of its units: the cardinality of
the pairs of an element and a number up to its amount (`SumOf`, `Units` in
`Reports`, `Bags` in `Reservations`). It is the same number as a fold's, and what
has to be known of it (parts add up to the whole, more rows give no less) follows
from facts on cardinalities without induction. That a set of storages has a first
one by number, the one that is assigned, is `FirstByNumber`, from the
well-foundedness of the natural numbers.

Before they were proved inductive, TLC checked the larger invariants on instances
of their runs; in distinct states: `CredentialsInv` 276,396, `EmailInv` 193,382,
`MessagesInv` 101,650, `HoursInv` 66,725, `PhotosInv` 5,576 (some on instances of
one part with larger limits, or with symmetry).

The theorems with locks were checked on the instances of `Serial`, `Coupons`,
`Accounts` and `Inventory` with two workers, the lock as a constraint:

| Lock | Property or invariant | Distinct states |
|---|---|---|
| `IdLocks` | `ClosedIsFinal` | 6,260,309 |
| `ApprovalLocks` | `OccupiedHasLuggage` | 7,798,598 |
| `CheckInLocks`, `AssignmentLocks` | `NoDoubleAssignment` | 9,790,645 |
| `RevivalLocks`, `CapacityLocks` | `CapacityRespected` | 6,634,235 |
| `HolderLocks` | `OneEach` | 527,491 |
| `PinRowLocked` | `LockExact` | 569,779 |
| `AccountLocks` | `AccountInv` | 1,193,229 |
| `StoreLocks` | `StoreInv` | 922,769 |
| `SaveLocks` | `SaveInv` | 363,822 |
| `StoragesLocked` | `Retires` | 410,155 |

No lock asks for too much, as far as was tried: without it, with one kind of
request left out of a row lock of the bookings, or with one of the three kinds
left out of `SaveLocks`, TLC finds the property violated. `SaveLocks` alone does not
give `Retires`: a storage that was occupied when the save read it, and so was not retired, may be
available when it commits.

### What stays with TLC

* `OverdueIsClosed`: liveness under fairness is out of the prover's reach.
* `TypesOK` of `MCServices` as one formula: it is the type invariants of its eight
  modules, each of which has its theorem.
* That a specification can always take a step, or why it stops: `ENABLED` is out of
  reach too.
* The runs `VLuggage`, `VClose`, `VForeign` and `VTotals`: counterexamples.

## 7. What the models leave out of what they model

* Reservations: locale, amounts, menus, e-mails; one store (photos and the
  actual times are in `LuggagePhotos` and `Reviews`); storages do not change
  type or number there.
* Accounts: one owner, slugs, anonymisation of names (e-mail codes and the lock
  after wrong passwords are in `EmailVerification` and `Credentials`). That an
  access token expires is a step that may always happen; how long it lives is
  not modelled.
* Coupons: amounts, paging, the guest's token, several stores. The `Coupons`
  run gives policies a name; one with an empty name can be claimed twice
  (section 5).
* Inventory: renumbering and dimensions; edits between two sold types are in the
  model but not in the run, which edits to a legacy type; a store that starts
  with legacy storages is in the model and in the theorems, not in the run.
* Customers: profile columns, notification settings, reservations of the customer,
  providers other than Kakao, whose tokens are not verified but refused.
* Passwords and codes: creating administrators, roles, the rate limits of the
  framework, the strength of passwords.
* Devices and notifications: templates, wording and languages; push content; the
  retry policy of the clients' libraries.
* Reviews: texts, options, statistics, lists. Photos: the storing of files.
* Opening hours: what is open at a given instant.
* Reports: occupancy, rates and comparisons, ranking, paging, formatting.

## 8. What is not modelled

* QR check-in: its controller is disabled.
* Reservation queries and store search: they only read, and each reads one or a
  few rows.
* Store status: a row per store, written without a condition. Public holidays:
  rows of independent days taken from an external service; nothing deletes one,
  and a failed run is repeated the next week. Pricing: a product of a price, the
  bags and the billed days.
* Feedback: independent rows. Addresses, mail, uploads: calls of external
  services, without state of their own.
* Filters, pipes, interceptors, configuration: no state.

## 9. Plan

Written in this order, the most important behaviour first; 1 to 8 are done.

1. `ReservationStatus`, `Reservations`, `BookingGroups` and the refinement.
2. `StoreAccounts`.
3. `Coupons`.
4. `StoreInventory`.
5. `CustomerAccounts`, `Credentials`, `EmailVerification`.
6. `PushDevices`, `Notifications`, `Reviews`, `LuggagePhotos`.
7. `StoreHours`, `Reports`.
8. The theorems of section 6.
9. `OpeningStatus` and `Pricing`: the functions of `store-status.service.ts` and
   `S/reservations/pricing`, as operators against reference definitions over
   bounded inputs (breaks, midnight, the 06:00 boundary of a day).
10. `StoreAccounts` with `Reservations`: closing a store against the core's
    bookings, in place of `booked`.

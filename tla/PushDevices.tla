---------------------------- MODULE PushDevices ----------------------------
(***************************************************************************)
(* The phones that receive a store's pushes: registering and unregistering *)
(* a phone, what leaving and closing do to it, and the delivery of one     *)
(* push, which reads the phones, sends, and deletes the dead ones.         *)
(*                                                                         *)
(* A phone is its FCM token, the key of a row of store_push_devices. The   *)
(* stores here have one owner, and another store has another owner.        *)
(***************************************************************************)
EXTENDS Integers, FiniteSets

CONSTANTS
    Device,         \* FCM tokens
    Store,
    OwnerOf,        \* Store -> owner            (stores.owner_id)
    Staff,
    WorksAt,        \* Staff -> Store            (store_staff.store_id)
    NoDevice, NoStaff, NoOwner,
    Sender          \* pushes and registrations served at the same time

Owner == {OwnerOf[s] : s \in Store}

\* The caller of an endpoint: the owner in one of the stores, or staff.
Seat == {<<s, NoStaff>> : s \in Store} \union {<<WorksAt[f], f>> : f \in Staff}

DeviceRow == [store : Store, staff : Staff \union {NoStaff},
        owner : Owner \union {NoOwner}]

ASSUME DevicesAssumption ==
    /\ Store # {}
    /\ WorksAt \in [Staff -> Store]
    /\ NoStaff \notin Staff /\ NoOwner \notin Owner
    /\ NoDevice \notin Device \union DeviceRow \union Seat

VARIABLES
    device,     \* rows of store_push_devices, by token
    hired,      \* staff whose status is active
    open,       \* stores whose closed_at is NULL
    dead,       \* tokens FCM says are gone: the app was removed
    seat,       \* who last registered a phone that was not unregistered
    sending     \* what each sender is in the middle of

\* seat is auxiliary: no action depends on it.
deviceVars == <<device, hired, open, dead, seat, sending>>

Sending == [op : {"idle", "register", "send", "prune"},
            at : Store, by : Seat, devices : SUBSET Device,
            phone : Device \union {NoDevice}]

Waiting == [op |-> "idle", at |-> CHOOSE s \in Store : TRUE,
            by |-> CHOOSE a \in Seat : TRUE, devices |-> {}, phone |-> NoDevice]

DevicesTypeOK ==
    /\ device \in [Device -> DeviceRow \union {NoDevice}]
    /\ hired \in SUBSET Staff
    /\ open \in SUBSET Store
    /\ dead \in SUBSET Device
    /\ seat \in [Device -> Seat \union {NoDevice}]
    /\ sending \in [Sender -> Sending]

DevicesInit ==
    /\ device = [d \in Device |-> NoDevice]
    /\ hired = Staff
    /\ open = Store
    /\ dead = {}
    /\ seat = [d \in Device |-> NoDevice]
    /\ sending = [w \in Sender |-> Waiting]

----------------------------------------------------------------------------

Present(d) == device[d] # NoDevice

\* store_push_devices.deleteMany
Without(D) == device' = [d \in Device |-> IF d \in D THEN NoDevice ELSE device[d]]

Unseat(D) == seat' = [d \in Device |-> IF d \in D THEN NoDevice ELSE seat[d]]

\* assertStaffActive; of an owner the guard asks nothing but a token, which may
\* be one of a store that was closed since.
StoreAuthGuard(a) == a[2] = NoStaff \/ (a[2] \in hired /\ a[1] \in open)

\* registerDevice: an owner's request reads the owner of the store first.
BeginRegister(w, d, a) ==
    /\ sending[w].op = "idle"
    /\ d \notin dead
    /\ StoreAuthGuard(a)
    /\ sending' = [sending EXCEPT ![w] =
          [Waiting EXCEPT !.op = "register", !.phone = d, !.by = a]]
    /\ UNCHANGED <<device, hired, open, dead, seat>>

\* Faulty: a row that exists keeps the owner it has.
KeepOwner(a, d) ==
    [store |-> a[1], staff |-> a[2],
     owner |-> IF a[2] = NoStaff THEN OwnerOf[a[1]]
               ELSE IF Present(d) THEN device[d].owner ELSE NoOwner]

\* All that the upsert writes over the row of a phone.
OwnedBy(a, d) ==
    [store |-> a[1], staff |-> a[2],
     owner |-> IF a[2] = NoStaff THEN OwnerOf[a[1]] ELSE NoOwner]

upsertDevice(w) ==
    LET d == sending[w].phone
        a == sending[w].by IN
    /\ sending[w].op = "register"
    /\ device' = [device EXCEPT ![d] = OwnedBy(a, d)]
    /\ seat' = [seat EXCEPT ![d] = a]
    /\ sending' = [sending EXCEPT ![w] = Waiting]
    /\ UNCHANGED <<hired, open, dead>>

\* The row goes only if it was registered in the store the caller is in.
unregisterDevice(d, a) ==
    /\ StoreAuthGuard(a)
    /\ Present(d) /\ device[d].store = a[1]
    /\ Without({d})
    /\ Unseat({d})
    /\ UNCHANGED <<hired, open, dead, sending>>

\* StaffService.revoke, for the owner's revokeStaff and for leaving.
RevokeStaff(f) ==
    /\ f \in hired /\ WorksAt[f] \in open
    /\ hired' = hired \ {f}
    /\ Without({d \in Device : Present(d) /\ device[d].staff = f})
    /\ UNCHANGED <<open, dead, seat, sending>>

\* closeStoreInTx deletes the rows registered in the store, the owner's too.
CloseStore(s) ==
    /\ s \in open
    /\ \E q \in open \ {s} : OwnerOf[q] = OwnerOf[s]
    /\ open' = open \ {s}
    /\ hired' = {f \in hired : WorksAt[f] # s}
    /\ Without({d \in Device : Present(d) /\ device[d].store = s})
    /\ UNCHANGED <<dead, seat, sending>>

\* withdraw closes all stores of the owner and deletes the owner's phones.
WithdrawOwner(o) ==
    LET mine == {s \in open : OwnerOf[s] = o} IN
    /\ mine # {}
    /\ open' = open \ mine
    /\ hired' = {f \in hired : WorksAt[f] \notin mine}
    /\ Without({d \in Device : Present(d) /\
                    (device[d].store \in mine \/ device[d].owner = o)})
    /\ UNCHANGED <<dead, seat, sending>>

\* The app is removed from a phone; another installation has another token.
RemoveApp(d) ==
    /\ d \notin dead
    /\ dead' = dead \union {d}
    /\ UNCHANGED <<device, hired, open, seat, sending>>

----------------------------------------------------------------------------
\* Faulty: the phones of staff that were revoked are not left out.
EverybodyOf(s) ==
    {d \in Device : Present(d) /\
        (device[d].owner = OwnerOf[s] \/ device[d].store = s)}

\* The phones notifyStore finds: the owner's, in whatever store they were
\* registered, and those of the store's active staff.
RecipientsOf(s) ==
    {d \in Device : Present(d) /\
        \/ device[d].owner = OwnerOf[s] /\ device[d].staff = NoStaff
        \/ device[d].store = s /\ device[d].staff \in hired}

notifyStore(w, s) ==
    /\ sending[w].op = "idle"
    /\ RecipientsOf(s) # {}
    /\ sending' = [sending EXCEPT ![w] =
          [Waiting EXCEPT !.op = "send", !.at = s, !.devices = RecipientsOf(s)]]
    /\ UNCHANGED <<device, hired, open, dead, seat>>

\* sendEachForMulticast answers for each token; STALE_TOKEN_ERROR_CODES are the
\* answers for tokens that are gone, any other failure is only logged. Without
\* a Firebase account nothing is sent, and no token found to be stale.
send(w) ==
    /\ sending[w].op = "send"
    /\ \E stale \in {{}, sending[w].devices \intersect dead} :
          sending' = [sending EXCEPT ![w].op = "prune", ![w].devices = stale]
    /\ UNCHANGED <<device, hired, open, dead, seat>>

deleteStaleTokens(w) ==
    /\ sending[w].op = "prune"
    /\ Without(sending[w].devices)
    /\ sending' = [sending EXCEPT ![w] = Waiting]
    /\ UNCHANGED <<hired, open, dead, seat>>

\* A statement or FCM fails, or the process stops.
AbortSending(w) ==
    /\ sending[w].op # "idle"
    /\ sending' = [sending EXCEPT ![w] = Waiting]
    /\ UNCHANGED <<device, hired, open, dead, seat>>

DevicesNext ==
    \/ \E w \in Sender :
          \/ \E d \in Device, a \in Seat : BeginRegister(w, d, a)
          \/ \E s \in open : notifyStore(w, s)
          \/ upsertDevice(w) \/ send(w) \/ deleteStaleTokens(w) \/ AbortSending(w)
    \/ \E d \in Device, a \in Seat : unregisterDevice(d, a)
    \/ \E d \in Device : RemoveApp(d)
    \/ \E f \in Staff : RevokeStaff(f)
    \/ \E s \in Store : CloseStore(s)
    \/ \E o \in Owner : WithdrawOwner(o)

DevicesSpec == DevicesInit /\ [][DevicesNext]_deviceVars

----------------------------------------------------------------------------
\* A phone belongs at a store in which its holder registered it last: the owner
\* of the store, or staff who still work there.
BelongsAt(d, s) ==
    /\ seat[d] # NoDevice
    /\ \/ seat[d][2] = NoStaff /\ OwnerOf[seat[d][1]] = OwnerOf[s]
       \/ seat[d][1] = s /\ seat[d][2] \in hired

\* A push of a store reaches nobody's phone but the owner's and its active
\* staff's, whoever held the phone before and however registering overlapped
\* with leaving and closing (store-push.service.ts, registerDevice and
\* notifyStore).
StrangersHearNothing ==
    \A s \in open : \A d \in RecipientsOf(s) : BelongsAt(d, s)

\* The owner's phone hears of all open stores of the owner, in whichever of
\* them it was registered, as long as that one is open and the phone can be
\* reached (docs/README.md:460; notifyStore).
OwnerHearsAllStores ==
    \A s \in open, d \in Device :
        /\ seat[d] # NoDevice /\ seat[d][2] = NoStaff
        /\ seat[d][1] \in open /\ OwnerOf[seat[d][1]] = OwnerOf[s]
        /\ d \notin dead
        => d \in RecipientsOf(s)

\* A push of a store goes to the phones it is meant for and to no other.
RightPhones == StrangersHearNothing /\ OwnerHearsAllStores
=============================================================================

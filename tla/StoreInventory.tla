--------------------------- MODULE StoreInventory ---------------------------
(***************************************************************************)
(* The storages of one store as its settings make them: saving settings    *)
(* creates, restores and retires storages, while the owner edits single    *)
(* ones and reservations are assigned, checked in and ended.               *)
(*                                                                         *)
(* updateSettings is one transaction: it reads the settings and, on the    *)
(* same snapshot, the storages (Begin), and writes both (Commit).  The row *)
(* of the store, which every save updates, lets one Commit run at a time.  *)
(***************************************************************************)
EXTENDS Integers, FiniteSets

CONSTANTS
    Type,               \* the types sold
    LegacyType,         \* types no longer sold
    MaxCapacity,        \* bound on the capacity of a type
    DefaultCapacity,    \* Type -> capacity, in the settings of a new store
    LegacyStorage,      \* storages of a legacy type the store began with
    Keep,               \* a field the request leaves out
    Dto,                \* what requests send as settings, per type
    Edit,               \* the type and the status that requests send of a storage
    MaxStays,           \* bound on the storages reserved at the same time
    Worker,             \* requests served at the same time
    Endpoints           \* the endpoints that are called

\* A storage's number: the prefix of a type and an index.
Numbered == Type \X (1..MaxCapacity)

Storage == Numbered \union LegacyStorage

TypeOfNumber(n) == n[1]

ASSUME InventoryAssumption ==
    /\ MaxCapacity \in Nat
    /\ DefaultCapacity \in [Type -> 0..MaxCapacity]
    /\ Type \intersect LegacyType = {}
    /\ Numbered \intersect LegacyStorage = {}
    /\ LegacyStorage # {} => LegacyType # {}
    /\ Keep \notin BOOLEAN /\ Keep \notin 0..MaxCapacity
    /\ Keep \notin Type \union LegacyType
    /\ Keep \notin Storage /\ Keep \notin {"available", "maintenance"}
    /\ Dto \subseteq [Type -> [enabled : BOOLEAN \union {Keep},
                               capacity : 0..MaxCapacity \union {Keep}]]
    /\ Edit \subseteq (Type \union LegacyType \union {Keep})
                     \X {"available", "maintenance", Keep}
    /\ <<Keep, Keep>> \notin Edit
    /\ MaxStays \in Nat

VARIABLES
    settings,   \* per type, the enabled and capacity columns of store_settings
    storage,    \* rows of storages
    stay,       \* the reservation that has the storage: none, assigned, or in
    req,        \* what each worker is in the middle of
    synced,     \* the storages have been made from the settings, and no edit since
    overlapped  \* two requests have been in progress at once

\* synced and overlapped are auxiliary variables: no action reads them.
vars == <<settings, storage, stay, req, synced, overlapped>>

Settings == [Type -> [enabled : BOOLEAN, capacity : 0..MaxCapacity]]

Row == [type : Type \union LegacyType,
        status : {"absent", "available", "occupied", "maintenance"}]

Rows == [Storage -> Row]

Request == [op : {"idle", "saving", "syncing", "found", "edit"},
            settings : Settings,
            seen : Rows,
            storage : Storage \union {Keep},
            type : Type \union LegacyType \union {Keep},
            status : {"available", "maintenance", Keep}]

NewSettings == [t \in Type |-> [enabled |-> TRUE, capacity |-> DefaultCapacity[t]]]

\* A new store has no storages; one from before may have legacy ones.
NewStorages ==
    [n \in Storage |->
       IF n \in LegacyStorage
       THEN [type |-> CHOOSE t \in LegacyType : TRUE, status |-> "available"]
       ELSE [type |-> TypeOfNumber(n), status |-> "absent"]]

Idle == [op |-> "idle", settings |-> NewSettings, seen |-> NewStorages,
         storage |-> Keep, type |-> Keep, status |-> Keep]

TypeOK ==
    /\ settings \in Settings
    /\ storage \in Rows
    /\ stay \in [Storage -> {"none", "assigned", "in"}]
    /\ req \in [Worker -> Request]
    /\ synced \in BOOLEAN
    /\ overlapped \in BOOLEAN
    /\ \A w \in Worker : req[w].op \in {"found", "edit"} => req[w].storage \in Storage

Init ==
    /\ settings = NewSettings
    /\ storage = NewStorages
    /\ stay = [n \in Storage |-> "none"]
    /\ req = [w \in Worker |-> Idle]
    /\ synced = FALSE
    /\ overlapped = FALSE

----------------------------------------------------------------------------

Accept(w, endpoint, step) ==
    /\ req[w].op = "idle" /\ endpoint \in Endpoints
    /\ req' = [req EXCEPT ![w] = step]
    /\ overlapped' = (overlapped \/ \E v \in Worker \ {w} : req[v].op # "idle")

Continue(w, step) ==
    req' = [req EXCEPT ![w] = step] /\ UNCHANGED overlapped

End(w) == Continue(w, Idle)

\* A request of one step here.
AtOnce(endpoint) ==
    /\ endpoint \in Endpoints
    /\ overlapped' = (overlapped \/ \E v \in Worker : req[v].op # "idle")
    /\ UNCHANGED req

----------------------------------------------------------------------------
(* Saving the settings *)

\* The fields left out keep what the transaction has read.
buildSettingsData(dto, existing) ==
    [t \in Type |->
       [enabled |-> IF dto[t].enabled = Keep THEN existing[t].enabled
                    ELSE dto[t].enabled,
        capacity |-> IF dto[t].capacity = Keep THEN existing[t].capacity
                     ELSE dto[t].capacity]]

\* With storage settings the save goes on to the storages, with others not; all
\* columns are written either way.
BeginSave(w, dto) ==
    /\ Accept(w, "settings",
              [Idle EXCEPT !.op = "syncing", !.seen = storage,
                           !.settings = buildSettingsData(dto, settings)])
    /\ UNCHANGED <<settings, storage, stay, synced>>

BeginSaveOthers(w) ==
    /\ Accept(w, "settings", [Idle EXCEPT !.op = "saving", !.settings = settings])
    /\ UNCHANGED <<settings, storage, stay, synced>>

CommitSaveOthers(w) ==
    /\ req[w].op = "saving"
    /\ settings' = req[w].settings
    /\ End(w)
    /\ UNCHANGED <<storage, stay, synced>>

\* The numbers that the settings ask for.
Target(cfg, t) == {<<t, i>> : i \in 1..cfg[t].capacity}

Wanted(cfg) ==
    {n \in Numbered : /\ cfg[TypeOfNumber(n)].enabled
                      /\ n \in Target(cfg, TypeOfNumber(n))}

\* The storages of a sold type, as the transaction has read them.
Existing(seen) ==
    {n \in Storage : seen[n].status # "absent" /\ seen[n].type \in Type}

\* A storage counts for the type it has, not for the one in its number.
InRange(seen, cfg, n) ==
    cfg[seen[n].type].enabled /\ n \in Target(cfg, seen[n].type)

Missing(seen, cfg) ==
    {n \in Wanted(cfg) : ~(n \in Existing(seen) /\ seen[n].type = TypeOfNumber(n))}

\* Faulty: a storage once in maintenance stays in maintenance.
NothingRestorable(seen, cfg) == {}

\* Faulty: whatever the storage's status.
RestorableAny(seen, cfg) == {n \in Existing(seen) : InRange(seen, cfg, n)}

Restorable(seen, cfg) ==
    {n \in Existing(seen) : InRange(seen, cfg, n) /\ seen[n].status = "maintenance"}

\* Faulty: a type that is switched off keeps its storages.
ExcessOfCapacity(seen, cfg) ==
    {n \in Existing(seen) : /\ n \notin Target(cfg, seen[n].type)
                            /\ seen[n].status = "available"}

Excess(seen, cfg) ==
    {n \in Existing(seen) : ~InRange(seen, cfg, n) /\ seen[n].status = "available"}

\* INSERT skips the numbers that are taken; the two UPDATEs are by id.
Synced(seen, cfg, n) ==
    IF n \in Missing(seen, cfg) /\ storage[n].status = "absent"
    THEN [type |-> TypeOfNumber(n), status |-> "available"]
    ELSE IF n \in Restorable(seen, cfg) THEN [storage[n] EXCEPT !.status = "available"]
    ELSE IF n \in Excess(seen, cfg) THEN [storage[n] EXCEPT !.status = "maintenance"]
    ELSE storage[n]

disableLegacyStorageTypes(row) ==
    IF row.type \in LegacyType /\ row.status = "available"
    THEN [row EXCEPT !.status = "maintenance"] ELSE row

CommitSave(w) ==
    /\ req[w].op = "syncing"
    /\ settings' = req[w].settings
    /\ storage' = [n \in Storage |->
                     disableLegacyStorageTypes(
                        Synced(req[w].seen, req[w].settings, n))]
    /\ synced' = TRUE
    /\ End(w)
    /\ UNCHANGED stay

----------------------------------------------------------------------------
(* Editing or deleting one storage: no transaction *)

getStorageOrThrow(w, n, edit) ==
    /\ storage[n].status \notin {"absent", "occupied"}
    /\ Accept(w, "storages",
              [Idle EXCEPT !.op = "found", !.seen[n] = storage[n], !.storage = n,
                           !.type = edit[1], !.status = edit[2]])
    /\ UNCHANGED <<settings, storage, stay, synced>>

\* hasActiveReservation
CheckUnused(w) ==
    /\ req[w].op = "found"
    /\ stay[req[w].storage] = "none"
    /\ Continue(w, [req[w] EXCEPT !.op = "edit"])
    /\ UNCHANGED <<settings, storage, stay, synced>>

\* Faulty: a status the requests' type does not know.
CommitDisable(w) ==
    /\ req[w].op = "edit"
    /\ storage' = [storage EXCEPT ![req[w].storage].status = "disabled"]
    /\ synced' = FALSE
    /\ End(w)
    /\ UNCHANGED <<settings, stay>>

CommitEdit(w) ==
    /\ req[w].op = "edit"
    /\ storage' = [storage EXCEPT ![req[w].storage] =
                     [type |-> IF req[w].type = Keep THEN @.type ELSE req[w].type,
                      status |-> IF req[w].status = Keep THEN @.status
                                 ELSE req[w].status]]
    /\ synced' = FALSE
    /\ End(w)
    /\ UNCHANGED <<settings, stay>>

----------------------------------------------------------------------------
(* What reservations do to a storage *)

\* findStorageForReservation: not one in maintenance.
Assign(n) ==
    /\ AtOnce("reservations")
    /\ stay[n] = "none" /\ storage[n].status \in {"available", "occupied"}
    /\ Cardinality({k \in Storage : stay[k] # "none"}) < MaxStays
    /\ stay' = [stay EXCEPT ![n] = "assigned"]
    /\ UNCHANGED <<settings, storage, synced>>

\* Check-in, with occupyStorageIfAny: only an available storage is marked.
CheckIn(n) ==
    /\ AtOnce("reservations")
    /\ stay[n] = "assigned"
    /\ stay' = [stay EXCEPT ![n] = "in"]
    /\ storage' = IF storage[n].status = "available"
                  THEN [storage EXCEPT ![n].status = "occupied"] ELSE storage
    /\ UNCHANGED <<settings, synced>>

\* Check-out, cancel or no-show, with releaseStorageIfAny: whatever it is marked.
Release(n) ==
    /\ AtOnce("reservations")
    /\ stay[n] # "none"
    /\ stay' = [stay EXCEPT ![n] = "none"]
    /\ storage' = [storage EXCEPT ![n].status = "available"]
    /\ UNCHANGED <<settings, synced>>

----------------------------------------------------------------------------

\* A request ends without its next write: a check fails, the transaction is
\* rolled back, or the process stops.
AbortRequest(w) ==
    /\ req[w].op # "idle"
    /\ End(w)
    /\ UNCHANGED <<settings, storage, stay, synced>>

SettingsStep(w) ==
    \/ \E dto \in Dto : BeginSave(w, dto)
    \/ BeginSaveOthers(w)
    \/ CommitSaveOthers(w)
    \/ CommitSave(w)

StoragesStep(w) ==
    \/ \E n \in Storage, edit \in Edit : getStorageOrThrow(w, n, edit)
    \/ CheckUnused(w)
    \/ CommitEdit(w)

Next ==
    \/ \E w \in Worker : SettingsStep(w) \/ StoragesStep(w) \/ AbortRequest(w)
    \/ \E n \in Storage : Assign(n) \/ CheckIn(n) \/ Release(n)

Spec == Init /\ [][Next]_vars

----------------------------------------------------------------------------
(* Safety *)

\* What guests can book of a type: guest-reservation's reading of the settings.
getMaxCapacity(t) == IF settings[t].enabled THEN settings[t].capacity ELSE 0

\* No number is taken by a storage of another type.
NumbersMatchTypes ==
    \A n \in Numbered : storage[n].status # "absent" => storage[n].type = TypeOfNumber(n)

\* With one request at a time, once the settings have been saved, as many bags
\* of a type can be booked as there are storages to assign: the incident in which
\* a partial save left the types it did not name in maintenance cannot recur.
SettingsAreBacked ==
    ~overlapped /\ synced /\ NumbersMatchTypes =>
        \A t \in Type : \A i \in 1..getMaxCapacity(t) :
            storage[<<t, i>>].status \in {"available", "occupied"}

\* A storage marked occupied is unmarked when its reservation ends, or by a
\* request that read it before it was marked; a save that sees it occupied leaves
\* it alone.
OccupiedIsSpared ==
    [][\A n \in Storage :
         storage[n].status = "occupied" /\ storage'[n].status # "occupied" =>
            \/ stay'[n] = "none"
            \/ \E w \in Worker : /\ req[w].op \in {"syncing", "edit"}
                                 /\ req[w].seen[n].status # "occupied"]_vars

\* With one request at a time, a save leaves no storage of a sold or legacy type
\* available beyond what the settings ask for.
SaveRetiresExcess ==
    [][\A w \in Worker : CommitSave(w) /\ ~overlapped =>
         \A n \in Storage : storage'[n].status = "available" =>
            /\ storage'[n].type \in Type
            /\ n \in Target(req[w].settings, storage'[n].type)
            /\ req[w].settings[storage'[n].type].enabled]_vars
=============================================================================

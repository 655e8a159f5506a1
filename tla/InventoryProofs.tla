--------------------------- MODULE InventoryProofs ---------------------------
(***************************************************************************)
(* Proofs about StoreInventory, for any types, capacities and workers.     *)
(***************************************************************************)
EXTENDS StoreInventory, TLAPS

\* The settings a request carries are well-typed whatever it left out.
LEMMA SettingsBuilt ==
    ASSUME NEW dto \in Dto, NEW existing \in Settings
    PROVE  buildSettingsData(dto, existing) \in Settings
BY InventoryAssumption DEF buildSettingsData, Settings

\* A storage that is synchronised stays a storage.
LEMMA SyncedIsRow ==
    ASSUME NEW seen \in Rows, NEW cfg \in Settings, NEW n \in Storage,
           storage \in Rows
    PROVE  /\ Synced(seen, cfg, n) \in Row
           /\ disableLegacyStorageTypes(Synced(seen, cfg, n)) \in Row
<1>1. storage[n] \in Row BY DEF Rows
<1>2. n \in Missing(seen, cfg) => TypeOfNumber(n) \in Type
  BY DEF Missing, Wanted, Numbered, TypeOfNumber
<1>3. Synced(seen, cfg, n) \in Row
  BY <1>1, <1>2 DEF Synced, Row
<1>4. QED
  BY <1>3 DEF disableLegacyStorageTypes, Row

\* The rows of a new store.
LEMMA NewIsTyped == NewSettings \in Settings /\ NewStorages \in Rows
<1>1. NewSettings \in Settings
  BY InventoryAssumption DEF NewSettings, Settings
<1>2. ASSUME NEW n \in LegacyStorage PROVE (CHOOSE t \in LegacyType : TRUE) \in LegacyType
  BY InventoryAssumption
<1>3. ASSUME NEW n \in Storage, n \notin LegacyStorage PROVE TypeOfNumber(n) \in Type
  BY <1>3 DEF Storage, Numbered, TypeOfNumber
<1>4. NewStorages \in Rows
  BY <1>2, <1>3 DEF NewStorages, Rows, Row
<1>5. QED BY <1>1, <1>4

LEMMA IdleIsRequest == Idle \in Request
BY NewIsTyped DEF Idle, Request
----------------------------------------------------------------------------

\* An edit was granted for a storage that was not occupied when it was read.
FoundFree ==
    \A w \in Worker : req[w].op \in {"found", "edit"} =>
        req[w].seen[req[w].storage].status # "occupied"

InventoryInv == TypeOK /\ FoundFree

LEMMA InitInventory == Init => InventoryInv
<1> SUFFICES ASSUME Init PROVE InventoryInv
  OBVIOUS
<1>1. Idle.op = "idle" BY DEF Idle
<1>2. req \in [Worker -> Request] /\ \A w \in Worker : req[w].op = "idle"
  BY <1>1, IdleIsRequest DEF Init
<1>3. QED
  BY <1>2, NewIsTyped DEF Init, InventoryInv, TypeOK, FoundFree

\* The bookkeeping that the steps of requests share.
LEMMA StepOfRequest ==
    ASSUME InventoryInv, NEW w \in Worker, NEW step \in Request,
           req' = [req EXCEPT ![w] = step],
           overlapped' \in BOOLEAN,
           step.op \in {"found", "edit"} =>
              /\ step.storage \in Storage
              /\ step.seen[step.storage].status # "occupied"
    PROVE  /\ req' \in [Worker -> Request]
           /\ overlapped' \in BOOLEAN
           /\ \A v \in Worker : req'[v].op \in {"found", "edit"} => req'[v].storage \in Storage
           /\ FoundFree'
BY DEF InventoryInv, TypeOK, FoundFree

LEMMA EndOfRequest ==
    ASSUME InventoryInv, NEW w \in Worker, End(w)
    PROVE  /\ req' \in [Worker -> Request]
           /\ overlapped' \in BOOLEAN
           /\ \A v \in Worker : req'[v].op \in {"found", "edit"} => req'[v].storage \in Storage
           /\ FoundFree'
<1>1. req' = [req EXCEPT ![w] = Idle] /\ overlapped' \in BOOLEAN
  BY DEF End, Continue, InventoryInv, TypeOK
<1>2. Idle.op = "idle" BY DEF Idle
<1>3. QED BY <1>1, <1>2, IdleIsRequest, StepOfRequest

LEMMA StepInventory == InventoryInv /\ [Next]_vars => InventoryInv'
<1> SUFFICES ASSUME InventoryInv, [Next]_vars PROVE InventoryInv'
  OBVIOUS
<1> USE DEF InventoryInv
<1>1. ASSUME NEW w \in Worker, NEW dto \in Dto, BeginSave(w, dto) PROVE InventoryInv'
  <2> DEFINE step == [Idle EXCEPT !.op = "syncing", !.seen = storage,
                                  !.settings = buildSettingsData(dto, settings)]
  <2>1. step \in Request /\ step.op = "syncing"
    BY IdleIsRequest, SettingsBuilt DEF TypeOK, Request, Idle
  <2>2. req' = [req EXCEPT ![w] = step] /\ overlapped' \in BOOLEAN
    BY <1>1 DEF BeginSave, Accept, TypeOK
  <2> HIDE DEF step
  <2>3. QED BY <1>1, <2>1, <2>2, StepOfRequest DEF BeginSave, TypeOK
<1>2. ASSUME NEW w \in Worker, BeginSaveOthers(w) PROVE InventoryInv'
  <2> DEFINE step == [Idle EXCEPT !.op = "saving", !.settings = settings]
  <2>1. step \in Request /\ step.op = "saving"
    BY IdleIsRequest DEF TypeOK, Request, Idle
  <2>2. req' = [req EXCEPT ![w] = step] /\ overlapped' \in BOOLEAN
    BY <1>2 DEF BeginSaveOthers, Accept, TypeOK
  <2> HIDE DEF step
  <2>3. QED BY <1>2, <2>1, <2>2, StepOfRequest DEF BeginSaveOthers, TypeOK
<1>3. ASSUME NEW w \in Worker, CommitSaveOthers(w) PROVE InventoryInv'
  <2>1. settings' \in Settings
    BY <1>3 DEF CommitSaveOthers, TypeOK, Request
  <2>2. QED BY <1>3, <2>1, EndOfRequest DEF CommitSaveOthers, TypeOK
<1>4. ASSUME NEW w \in Worker, CommitSave(w) PROVE InventoryInv'
  <2>1. req[w].settings \in Settings /\ req[w].seen \in Rows
    BY DEF TypeOK, Request
  <2>2. storage' \in Rows
    BY <1>4, <2>1, SyncedIsRow DEF CommitSave, TypeOK, Rows
  <2>3. QED BY <1>4, <2>1, <2>2, EndOfRequest DEF CommitSave, TypeOK
<1>5. ASSUME NEW w \in Worker, NEW n \in Storage, NEW edit \in Edit,
             getStorageOrThrow(w, n, edit) PROVE InventoryInv'
  <2> DEFINE step == [Idle EXCEPT !.op = "found", !.seen[n] = storage[n],
                         !.storage = n, !.type = edit[1], !.status = edit[2]]
  <2>1. /\ edit[1] \in Type \union LegacyType \union {Keep}
        /\ edit[2] \in {"available", "maintenance", Keep}
    BY InventoryAssumption
  <2>2. storage[n] \in Row BY DEF TypeOK, Rows
  <2>3. Idle.seen \in Rows BY NewIsTyped DEF Idle
  <2>4. [Idle.seen EXCEPT ![n] = storage[n]] \in Rows
    BY <2>2, <2>3 DEF Rows
  <2>5. step \in Request
    BY <2>1, <2>4, IdleIsRequest DEF Request, Idle
  <2>6. step.storage = n /\ step.seen[n] = storage[n]
    BY <2>3 DEF Idle, Rows
  <2>7. req' = [req EXCEPT ![w] = step] /\ overlapped' \in BOOLEAN
    BY <1>5 DEF getStorageOrThrow, Accept, TypeOK
  <2>8. storage[n].status # "occupied" BY <1>5 DEF getStorageOrThrow
  <2> HIDE DEF step
  <2>9. QED
    BY <1>5, <2>5, <2>6, <2>7, <2>8, StepOfRequest DEF getStorageOrThrow, TypeOK
<1>6. ASSUME NEW w \in Worker, CheckUnused(w) PROVE InventoryInv'
  <2> DEFINE step == [req[w] EXCEPT !.op = "edit"]
  <2>1. step \in Request /\ step.storage = req[w].storage /\ step.seen = req[w].seen
    BY DEF TypeOK, Request
  <2>2. req[w].op = "found" BY <1>6 DEF CheckUnused
  <2>3. req' = [req EXCEPT ![w] = step] /\ overlapped' \in BOOLEAN
    BY <1>6 DEF CheckUnused, Continue, TypeOK
  <2>4. step.storage \in Storage /\ step.seen[step.storage].status # "occupied"
    BY <2>1, <2>2 DEF TypeOK, FoundFree
  <2> HIDE DEF step
  <2>5. QED BY <1>6, <2>1, <2>3, <2>4, StepOfRequest DEF CheckUnused, TypeOK
<1>7. ASSUME NEW w \in Worker, CommitEdit(w) PROVE InventoryInv'
  <2> DEFINE n == req[w].storage
  <2>1. n \in Storage /\ storage[n] \in Row
    BY <1>7 DEF CommitEdit, TypeOK, Rows
  <2>2. /\ req[w].type \in Type \union LegacyType \union {Keep}
        /\ req[w].status \in {"available", "maintenance", Keep}
    BY DEF TypeOK, Request
  <2>3. [type |-> IF req[w].type = Keep THEN storage[n].type ELSE req[w].type,
         status |-> IF req[w].status = Keep THEN storage[n].status
                    ELSE req[w].status] \in Row
    BY <2>1, <2>2 DEF Row
  <2>4. storage' \in Rows
    BY <1>7, <2>1, <2>3 DEF CommitEdit, TypeOK, Rows
  <2>5. QED BY <1>7, <2>4, EndOfRequest DEF CommitEdit, TypeOK
<1>8. ASSUME NEW n \in Storage, Assign(n) \/ CheckIn(n) \/ Release(n) PROVE InventoryInv'
  <2>1. storage[n] \in Row BY DEF TypeOK, Rows
  <2>2. storage' \in Rows
    BY <1>8, <2>1 DEF Assign, CheckIn, Release, TypeOK, Rows, Row
  <2>3. stay' \in [Storage -> {"none", "assigned", "in"}]
    BY <1>8 DEF Assign, CheckIn, Release, TypeOK
  <2>4. req' = req /\ settings' = settings /\ synced' = synced /\ overlapped' \in BOOLEAN
    BY <1>8 DEF Assign, CheckIn, Release, AtOnce, TypeOK
  <2>5. QED BY <2>2, <2>3, <2>4 DEF TypeOK, FoundFree
<1>9. ASSUME NEW w \in Worker, AbortRequest(w) PROVE InventoryInv'
  BY <1>9, EndOfRequest DEF AbortRequest, TypeOK
<1>10. CASE UNCHANGED vars
  BY <1>10 DEF vars, TypeOK, FoundFree
<1>11. QED
  BY <1>1, <1>2, <1>3, <1>4, <1>5, <1>6, <1>7, <1>8, <1>9, <1>10
  DEF Next, SettingsStep, StoragesStep

\* Settings, storages and requests keep their types, whatever a request sends.
THEOREM InventoryTypeCorrect == Spec => []TypeOK
<1>1. Init => InventoryInv BY InitInventory
<1>2. InventoryInv /\ [Next]_vars => InventoryInv' BY StepInventory
<1>3. InventoryInv => TypeOK BY DEF InventoryInv
<1>4. QED BY <1>1, <1>2, <1>3, PTL DEF Spec
----------------------------------------------------------------------------

\* What a save does to an occupied storage that it saw occupied: nothing.
LEMMA SyncSpares ==
    ASSUME NEW seen, NEW cfg, NEW n \in Storage,
           storage[n].status = "occupied", seen[n].status = "occupied"
    PROVE  disableLegacyStorageTypes(Synced(seen, cfg, n)) = storage[n]
<1>1. Synced(seen, cfg, n) = storage[n]
  BY DEF Synced, Restorable, Excess
<1>2. QED BY <1>1 DEF disableLegacyStorageTypes

Spared ==
    \A n \in Storage :
        storage[n].status = "occupied" /\ storage'[n].status # "occupied" =>
            \/ stay'[n] = "none"
            \/ \E w \in Worker : /\ req[w].op \in {"syncing", "edit"}
                                 /\ req[w].seen[n].status # "occupied"

LEMMA StepSpares == InventoryInv /\ [Next]_vars => Spared
<1> SUFFICES ASSUME InventoryInv, [Next]_vars, NEW n \in Storage,
                    storage[n].status = "occupied", storage'[n].status # "occupied"
             PROVE  \/ stay'[n] = "none"
                    \/ \E w \in Worker : /\ req[w].op \in {"syncing", "edit"}
                                         /\ req[w].seen[n].status # "occupied"
  BY DEF Spared
<1> USE DEF InventoryInv
<1>1. storage' # storage OBVIOUS
<1>2. ASSUME NEW w \in Worker, CommitSave(w)
      PROVE  req[w].op = "syncing" /\ req[w].seen[n].status # "occupied"
  <2>1. storage'[n] = disableLegacyStorageTypes(Synced(req[w].seen, req[w].settings, n))
    BY <1>2 DEF CommitSave
  <2>2. QED BY <1>2, <2>1, SyncSpares DEF CommitSave
<1>3. ASSUME NEW w \in Worker, CommitEdit(w)
      PROVE  req[w].op = "edit" /\ req[w].seen[n].status # "occupied"
  <2>1. n = req[w].storage
    BY <1>3 DEF CommitEdit, TypeOK, Rows
  <2>2. QED BY <1>3, <2>1 DEF CommitEdit, FoundFree
<1>4. ASSUME NEW k \in Storage, Release(k) PROVE stay'[n] = "none"
  <2>1. n = k BY <1>4 DEF Release, TypeOK, Rows
  <2>2. QED BY <1>4, <2>1 DEF Release, TypeOK
<1>5. ASSUME NEW k \in Storage, CheckIn(k) PROVE FALSE
  <2>1. storage[k] \in Row BY DEF TypeOK, Rows
  <2>2. storage'[n] = storage[n]
    BY <1>5, <2>1 DEF CheckIn, TypeOK, Rows, Row
  <2>3. QED BY <2>2
<1>6. QED
  BY <1>1, <1>2, <1>3, <1>4, <1>5
  DEF Next, SettingsStep, StoragesStep, vars, BeginSave, BeginSaveOthers,
      CommitSaveOthers, getStorageOrThrow, CheckUnused, Assign, AbortRequest

\* Only the end of its stay, or a request that read it before it was occupied,
\* takes the mark from an occupied storage: a save that saw it occupied leaves it.
THEOREM InventorySparesOccupied == Spec => OccupiedIsSpared
<1>1. Init => InventoryInv BY InitInventory
<1>2. InventoryInv /\ [Next]_vars => InventoryInv' BY StepInventory
<1>3. InventoryInv /\ [Next]_vars => Spared BY StepSpares
<1>4. QED BY <1>1, <1>2, <1>3, PTL DEF Spec, OccupiedIsSpared, Spared
----------------------------------------------------------------------------
(* What a save leaves *)

\* A step of worker w that goes on to q.
Moves(w, q) ==
    (\E endpoint : Accept(w, endpoint, q)) \/ (req[w].op # "idle" /\ Continue(w, q))

LEMMA MoveOne ==
    ASSUME TypeOK, NEW w \in Worker, NEW q, Moves(w, q)
    PROVE  req'[w] = q /\ \A v \in Worker \ {w} : req'[v] = req[v]
BY DEF Moves, Accept, Continue, TypeOK

\* What a save has read is so.
AsRead(q) ==
    /\ q.op = "syncing" => q.seen = storage
    /\ q.op = "saving" => q.settings = settings

\* A step that reads or checks only.
Aside(w) ==
    /\ UNCHANGED <<settings, storage, synced>>
    /\ \E q : Moves(w, q) /\ AsRead(q)

LEMMA IdleOp == Idle.op = "idle"
BY DEF Idle

LEMMA NextKind ==
    ASSUME TypeOK, [Next]_vars
    PROVE  \/ UNCHANGED vars
           \/ \E w \in Worker :
                 Aside(w) \/ CommitSaveOthers(w) \/ CommitSave(w) \/ CommitEdit(w)
           \/ \E n \in Storage : Assign(n) \/ CheckIn(n) \/ Release(n)
<1>1. ASSUME NEW w \in Worker, NEW dto \in Dto, BeginSave(w, dto) PROVE Aside(w)
  <2> DEFINE q == [Idle EXCEPT !.op = "syncing", !.seen = storage,
                               !.settings = buildSettingsData(dto, settings)]
  <2>1. q.op = "syncing" /\ q.seen = storage
    BY DEF Idle
  <2>2. Accept(w, "settings", q) /\ UNCHANGED <<settings, storage, synced>>
    BY <1>1 DEF BeginSave
  <2> HIDE DEF q
  <2> QED BY <2>1, <2>2 DEF Aside, Moves, AsRead
<1>2. ASSUME NEW w \in Worker, BeginSaveOthers(w) PROVE Aside(w)
  <2> DEFINE q == [Idle EXCEPT !.op = "saving", !.settings = settings]
  <2>1. q.op = "saving" /\ q.settings = settings
    BY DEF Idle
  <2>2. Accept(w, "settings", q) /\ UNCHANGED <<settings, storage, synced>>
    BY <1>2 DEF BeginSaveOthers
  <2> HIDE DEF q
  <2> QED BY <2>1, <2>2 DEF Aside, Moves, AsRead
<1>3. ASSUME NEW w \in Worker, NEW n \in Storage, NEW edit \in Edit,
             getStorageOrThrow(w, n, edit) PROVE Aside(w)
  <2> DEFINE q == [Idle EXCEPT !.op = "found", !.seen[n] = storage[n],
                               !.storage = n, !.type = edit[1], !.status = edit[2]]
  <2>1. q.op = "found"
    BY DEF Idle
  <2>2. Accept(w, "storages", q) /\ UNCHANGED <<settings, storage, synced>>
    BY <1>3 DEF getStorageOrThrow
  <2> HIDE DEF q
  <2> QED BY <2>1, <2>2 DEF Aside, Moves, AsRead
<1>4. ASSUME NEW w \in Worker, CheckUnused(w) PROVE Aside(w)
  <2> DEFINE q == [req[w] EXCEPT !.op = "edit"]
  <2>1. q.op = "edit"
    BY DEF TypeOK, Request
  <2>2. /\ req[w].op # "idle" /\ Continue(w, q)
        /\ UNCHANGED <<settings, storage, synced>>
    BY <1>4 DEF CheckUnused
  <2> HIDE DEF q
  <2> QED BY <2>1, <2>2 DEF Aside, Moves, AsRead
<1>5. ASSUME NEW w \in Worker, AbortRequest(w) PROVE Aside(w)
  BY <1>5, IdleOp DEF AbortRequest, End, Aside, Moves, AsRead
<1> QED BY <1>1, <1>2, <1>3, <1>4, <1>5 DEF Next, SettingsStep, StoragesStep

\* A request that writes is over.
LEMMA WriterEnds ==
    ASSUME TypeOK, NEW w \in Worker,
           CommitSaveOthers(w) \/ CommitSave(w) \/ CommitEdit(w)
    PROVE  /\ Moves(w, Idle) /\ req'[w] = Idle
           /\ \A v \in Worker \ {w} : req'[v] = req[v]
<1>1. Moves(w, Idle)
  BY DEF CommitSaveOthers, CommitSave, CommitEdit, End, Moves
<1> QED BY <1>1, MoveOne

----------------------------------------------------------------------------
(* Every bag that can be booked has its storage *)

Backed ==
    \A t \in Type : \A i \in 1..getMaxCapacity(t) :
        storage[<<t, i>>].status \in {"available", "occupied"}

\* No edit of a storage since the last save has made this false.
Synchronised == synced /\ NumbersMatchTypes => Backed

\* What a save has read is so as far as it counts: a check-in or a check-out in
\* between neither takes a storage away nor puts one out of service.
InStep(q) ==
    /\ q.op = "syncing" => \A n \in Storage :
          /\ q.seen[n].type = storage[n].type
          /\ storage[n].status = "absent" => q.seen[n].status = "absent"
          /\ storage[n].status = "maintenance" => q.seen[n].status = "maintenance"
    /\ q.op = "saving" => q.settings = settings

SaveInv == Synchronised /\ \A w \in Worker : InStep(req[w])

\* Locks that a save of the storages would hold from its reads to its commit: on
\* the row of the settings against other saves, on the storages against edits.
\* The code takes none.
SaveLocks ==
    \A v, w \in Worker :
        v # w /\ req[v].op = "syncing" => req[w].op \notin {"syncing", "saving", "edit"}

\* What a save makes of a storage that is as it was read, as far as it counts.
LEMMA SyncBacks ==
    ASSUME storage \in Rows, NEW seen \in Rows, NEW cfg \in Settings,
           NEW t \in Type, NEW i \in 1..cfg[t].capacity, cfg[t].enabled,
           storage[<<t, i>>].status # "absent" => storage[<<t, i>>].type = t,
           seen[<<t, i>>].type = storage[<<t, i>>].type,
           storage[<<t, i>>].status = "absent" => seen[<<t, i>>].status = "absent",
           storage[<<t, i>>].status = "maintenance" =>
              seen[<<t, i>>].status = "maintenance"
    PROVE  disableLegacyStorageTypes(Synced(seen, cfg, <<t, i>>)).status
             \in {"available", "occupied"}
<1> DEFINE n == <<t, i>>
<1>1. /\ n \in Numbered /\ n \in Storage /\ TypeOfNumber(n) = t
      /\ n \in Target(cfg, t)
  BY InventoryAssumption DEF Settings, Numbered, Storage, TypeOfNumber, Target
<1>2. storage[n] \in Row /\ seen[n] \in Row /\ t \notin LegacyType
  BY <1>1, InventoryAssumption DEF Rows
<1>3. n \in Wanted(cfg)
  BY <1>1 DEF Wanted
<1> HIDE DEF n
<1>4. CASE storage[n].status = "absent"
  <2>1. n \in Missing(seen, cfg)
    BY <1>3, <1>4 DEF Missing, Existing, n
  <2>2. Synced(seen, cfg, n) = [type |-> t, status |-> "available"]
    BY <1>1, <1>4, <2>1 DEF Synced
  <2>3. [type |-> t, status |-> "available"].type \notin LegacyType
    BY <1>2
  <2>4. disableLegacyStorageTypes(Synced(seen, cfg, n))
          = [type |-> t, status |-> "available"]
    BY <2>2, <2>3 DEF disableLegacyStorageTypes
  <2> QED BY <2>4 DEF n
<1>5. CASE storage[n].status # "absent"
  <2>1. storage[n].type = t /\ seen[n].type = t
    BY <1>5 DEF n
  <2>2. InRange(seen, cfg, n)
    BY <1>1, <2>1 DEF InRange
  <2>3. CASE n \in Restorable(seen, cfg)
    <3>1. Synced(seen, cfg, n) = [storage[n] EXCEPT !.status = "available"]
      BY <1>5, <2>3 DEF Synced
    <3>2. /\ [storage[n] EXCEPT !.status = "available"].type \notin LegacyType
          /\ [storage[n] EXCEPT !.status = "available"].status = "available"
      BY <1>2, <2>1 DEF Row
    <3> QED BY <3>1, <3>2 DEF disableLegacyStorageTypes, n
  <2>4. CASE n \notin Restorable(seen, cfg)
    <3>1. storage[n].status # "maintenance"
      <4>1. seen[n].status = "maintenance" => n \in Restorable(seen, cfg)
        BY <1>1, <2>1, <2>2 DEF Restorable, Existing
      <4> QED BY <2>4, <4>1 DEF n
    <3>2. n \notin Excess(seen, cfg)
      BY <2>2 DEF Excess
    <3>3. Synced(seen, cfg, n) = storage[n]
      BY <1>5, <2>4, <3>2 DEF Synced
    <3>4. disableLegacyStorageTypes(storage[n]) = storage[n]
      BY <1>2, <2>1 DEF disableLegacyStorageTypes
    <3> QED BY <1>2, <1>5, <3>1, <3>3, <3>4 DEF Row, n
  <2> QED BY <2>3, <2>4
<1> QED BY <1>4, <1>5

\* A save keeps the type of every storage there is.
LEMMA SyncKeepsTypes ==
    ASSUME storage \in Rows, NEW seen, NEW cfg, NEW n \in Storage,
           storage[n].status # "absent"
    PROVE  LET new == disableLegacyStorageTypes(Synced(seen, cfg, n)) IN
           new.type = storage[n].type /\ new.status # "absent"
<1>1. storage[n] \in Row
  BY DEF Rows
<1>2. /\ Synced(seen, cfg, n) \in Row
      /\ Synced(seen, cfg, n).type = storage[n].type
      /\ Synced(seen, cfg, n).status # "absent"
  BY <1>1 DEF Synced, Row
<1> QED BY <1>2 DEF disableLegacyStorageTypes, Row

LEMMA CommitSaveBacks ==
    ASSUME TypeOK, NEW w \in Worker, InStep(req[w]), CommitSave(w)
    PROVE  Synchronised'
<1> DEFINE cfg == req[w].settings
           seen == req[w].seen
<1>1. /\ storage \in Rows /\ cfg \in Settings /\ seen \in Rows /\ settings' = cfg
      /\ \A n \in Storage :
            /\ seen[n].type = storage[n].type
            /\ storage[n].status = "absent" => seen[n].status = "absent"
            /\ storage[n].status = "maintenance" => seen[n].status = "maintenance"
  BY DEF TypeOK, Request, CommitSave, InStep
<1>2. \A n \in Storage :
        storage'[n] = disableLegacyStorageTypes(Synced(seen, cfg, n))
  BY DEF CommitSave
<1> HIDE DEF cfg, seen
<1> SUFFICES ASSUME NumbersMatchTypes',
                    NEW t \in Type, NEW i \in 1..(getMaxCapacity(t)')
             PROVE  storage'[<<t, i>>].status \in {"available", "occupied"}
  BY DEF Synchronised, Backed
<1>3. cfg[t].enabled /\ i \in 1..cfg[t].capacity
  BY <1>1 DEF getMaxCapacity, Settings
<1>4. <<t, i>> \in Numbered /\ <<t, i>> \in Storage /\ TypeOfNumber(<<t, i>>) = t
  BY <1>1, <1>3, InventoryAssumption DEF Settings, Numbered, Storage, TypeOfNumber
<1>5. storage[<<t, i>>].status # "absent" => storage[<<t, i>>].type = t
  BY <1>1, <1>2, <1>4, SyncKeepsTypes DEF NumbersMatchTypes
<1> QED BY <1>1, <1>2, <1>3, <1>4, <1>5, SyncBacks

\* Reservations take no storage out of service.
LEMMA StaysKeep ==
    ASSUME TypeOK, SaveInv, NEW n \in Storage, Assign(n) \/ CheckIn(n) \/ Release(n)
    PROVE  SaveInv'
<1>1. UNCHANGED <<req, settings, synced>>
  BY DEF Assign, CheckIn, Release, AtOnce
<1>2. storage[n] \in Row
  BY DEF TypeOK, Rows
<1>3. \A k \in Storage :
        /\ storage'[k].type = storage[k].type
        /\ \/ storage'[k].status = storage[k].status
           \/ storage'[k].status \in {"available", "occupied"}
  BY <1>2 DEF Assign, CheckIn, Release, TypeOK, Rows, Row
<1>4. NumbersMatchTypes' => NumbersMatchTypes
  BY <1>3 DEF NumbersMatchTypes, Storage
<1>5. ASSUME Backed, NEW t \in Type, NEW i \in 1..(getMaxCapacity(t)')
      PROVE  storage'[<<t, i>>].status \in {"available", "occupied"}
  <2>1. i \in 1..getMaxCapacity(t)
    BY <1>1 DEF getMaxCapacity
  <2>2. storage[<<t, i>>].status \in {"available", "occupied"}
    BY <1>5, <2>1 DEF Backed
  <2>3. <<t, i>> \in Storage
    BY <2>1, InventoryAssumption DEF getMaxCapacity, TypeOK, Settings, Storage, Numbered
  <2> QED BY <1>3, <2>2, <2>3
<1>6. Synchronised'
  BY <1>1, <1>4, <1>5 DEF SaveInv, Synchronised, Backed
<1>7. \A w \in Worker : InStep(req[w])'
  BY <1>1, <1>3 DEF SaveInv, InStep
<1> QED BY <1>6, <1>7 DEF SaveInv

LEMMA SaveInvKept ==
    ASSUME TypeOK, SaveInv, SaveLocks, [Next]_vars
    PROVE  SaveInv'
<1>1. CASE UNCHANGED vars
  BY <1>1 DEF vars, SaveInv, InStep, Synchronised, NumbersMatchTypes, Backed,
              getMaxCapacity
<1>2. ASSUME NEW w \in Worker, Aside(w)
      PROVE  SaveInv'
  <2>1. PICK q : Moves(w, q) /\ AsRead(q)
    BY <1>2 DEF Aside
  <2>2. req'[w] = q /\ \A v \in Worker \ {w} : req'[v] = req[v]
    BY <2>1, MoveOne
  <2>3. \A v \in Worker : InStep(req'[v])
    BY <2>1, <2>2 DEF SaveInv, InStep, AsRead
  <2>4. UNCHANGED <<settings, storage, synced>>
    BY <1>2 DEF Aside
  <2> QED BY <2>3, <2>4 DEF SaveInv, InStep, Synchronised, NumbersMatchTypes, Backed,
                            getMaxCapacity
<1>3. ASSUME NEW w \in Worker, CommitSaveOthers(w)
      PROVE  SaveInv'
  <2>1. UNCHANGED <<settings, storage, synced>>
    BY <1>3 DEF CommitSaveOthers, SaveInv, InStep
  <2>2. \A v \in Worker : InStep(req'[v])
    BY <1>3, WriterEnds, IdleOp DEF SaveInv, InStep
  <2> QED BY <2>1, <2>2 DEF SaveInv, InStep, Synchronised, NumbersMatchTypes, Backed,
                            getMaxCapacity
<1>4. ASSUME NEW w \in Worker, CommitSave(w)
      PROVE  SaveInv'
  <2>1. req[w].op = "syncing"
    BY <1>4 DEF CommitSave
  <2>2. \A v \in Worker : req'[v].op \notin {"syncing", "saving"}
    BY <1>4, <2>1, WriterEnds, IdleOp DEF SaveLocks
  <2> QED BY <1>4, <2>2, CommitSaveBacks DEF SaveInv, InStep
<1>5. ASSUME NEW w \in Worker, CommitEdit(w)
      PROVE  SaveInv'
  <2>1. req[w].op = "edit" /\ ~synced' /\ settings' = settings
    BY <1>5 DEF CommitEdit
  <2>2. \A v \in Worker : req'[v].op # "syncing"
    BY <1>5, <2>1, WriterEnds, IdleOp DEF SaveLocks
  <2>3. \A v \in Worker : InStep(req[v])'
    BY <1>5, <2>1, <2>2, WriterEnds, IdleOp DEF SaveInv, InStep
  <2> QED BY <2>1, <2>3 DEF SaveInv, Synchronised
<1> QED BY <1>1, <1>2, <1>3, <1>4, <1>5, StaysKeep, NextKind

LEMMA SaveInvInit == Init => SaveInv
BY IdleOp DEF Init, SaveInv, Synchronised, InStep

\* However many requests run at once, once the settings have been saved, and
\* while no number is taken by a storage of another type, every bag that can be
\* booked has its storage, provided that no other save and no edit runs between
\* the reads of a save and its commit. Check-ins and check-outs may.
THEOREM SavesBackUnderLock ==
    Spec /\ []SaveLocks => [](synced /\ NumbersMatchTypes => Backed)
<1>1. TypeOK /\ SaveInv /\ SaveLocks /\ [Next]_vars => SaveInv'
  BY SaveInvKept
<1>2. SaveInv => (synced /\ NumbersMatchTypes => Backed)
  BY DEF SaveInv, Synchronised
<1> QED BY <1>1, <1>2, SaveInvInit, InventoryTypeCorrect, PTL DEF Spec

----------------------------------------------------------------------------
(* A save leaves nothing available that is not asked for *)

ReadInv == \A w \in Worker : req[w].op = "syncing" => req[w].seen = storage

\* A save locks the storages it reads: a step that leaves it waiting writes none.
\* The code takes no such lock.
StoragesLocked ==
    \A w \in Worker : req[w].op = "syncing" /\ req'[w] = req[w] => storage' = storage

Retires ==
    \A w \in Worker : CommitSave(w) =>
        \A n \in Storage : storage'[n].status = "available" =>
            /\ storage'[n].type \in Type
            /\ n \in Target(req[w].settings, storage'[n].type)
            /\ req[w].settings[storage'[n].type].enabled

LEMMA ReadInvKept ==
    ASSUME TypeOK, ReadInv, StoragesLocked, [Next]_vars
    PROVE  ReadInv'
<1>1. CASE UNCHANGED vars
  BY <1>1 DEF vars, ReadInv
<1>2. ASSUME NEW w \in Worker, Aside(w)
      PROVE  ReadInv'
  <2>1. PICK q : Moves(w, q) /\ AsRead(q)
    BY <1>2 DEF Aside
  <2> QED BY <1>2, <2>1, MoveOne DEF Aside, AsRead, ReadInv
<1>3. ASSUME NEW w \in Worker,
             CommitSaveOthers(w) \/ CommitSave(w) \/ CommitEdit(w)
      PROVE  ReadInv'
  BY <1>3, WriterEnds, IdleOp DEF ReadInv, StoragesLocked
<1>4. ASSUME NEW n \in Storage, Assign(n) \/ CheckIn(n) \/ Release(n)
      PROVE  ReadInv'
  <2>1. req' = req
    BY <1>4 DEF Assign, CheckIn, Release, AtOnce
  <2> QED BY <2>1 DEF ReadInv, StoragesLocked
<1> QED BY <1>1, <1>2, <1>3, <1>4, NextKind

LEMMA ReadInvInit == Init => ReadInv
BY IdleOp DEF Init, ReadInv

\* What a save leaves available of storages that are as it read them.
LEMMA SyncRetires ==
    ASSUME storage \in Rows, NEW cfg \in Settings, NEW n \in Storage,
           disableLegacyStorageTypes(Synced(storage, cfg, n)).status = "available"
    PROVE  LET t == disableLegacyStorageTypes(Synced(storage, cfg, n)).type IN
           t \in Type /\ n \in Target(cfg, t) /\ cfg[t].enabled
<1> DEFINE row == Synced(storage, cfg, n)
<1>1. /\ row \in Row
      /\ disableLegacyStorageTypes(row) = row
      /\ row.status = "available" /\ row.type \in Type
  <2>1. row \in Row
    BY SyncedIsRow
  <2>2. ~(row.type \in LegacyType /\ row.status = "available")
    BY <2>1 DEF disableLegacyStorageTypes, Row
  <2> QED BY <2>1, <2>2 DEF disableLegacyStorageTypes, Row
<1>2. storage[n] \in Row
  BY DEF Rows
<1>3. CASE n \in Missing(storage, cfg) /\ storage[n].status = "absent"
  <2>1. row.type = TypeOfNumber(n) /\ n \in Wanted(cfg)
    BY <1>3 DEF Synced, Missing
  <2> QED BY <1>1, <2>1 DEF Wanted
<1>4. CASE ~(n \in Missing(storage, cfg) /\ storage[n].status = "absent")
  <2>1. row.type = storage[n].type
    BY <1>2, <1>4 DEF Synced, Row
  <2>2. CASE n \in Restorable(storage, cfg)
    BY <1>1, <2>1, <2>2 DEF Restorable, InRange
  <2>3. CASE n \notin Restorable(storage, cfg)
    <3>1. n \notin Excess(storage, cfg)
      BY <1>1, <1>2, <1>4, <2>3 DEF Synced, Row
    <3>2. row = storage[n]
      BY <1>4, <2>3, <3>1 DEF Synced
    <3>3. n \in Existing(storage)
      BY <1>1, <3>2 DEF Existing
    <3> QED BY <1>1, <3>1, <3>2, <3>3 DEF Excess, InRange
  <2> QED BY <2>2, <2>3
<1> QED BY <1>3, <1>4

LEMMA ReadRetires ==
    ASSUME TypeOK, ReadInv
    PROVE  Retires
<1> SUFFICES ASSUME NEW w \in Worker, CommitSave(w),
                    NEW n \in Storage, storage'[n].status = "available"
             PROVE  /\ storage'[n].type \in Type
                    /\ n \in Target(req[w].settings, storage'[n].type)
                    /\ req[w].settings[storage'[n].type].enabled
  BY DEF Retires
<1>1. /\ storage \in Rows /\ req[w].settings \in Settings
      /\ req[w].seen = storage
  BY DEF TypeOK, Request, CommitSave, ReadInv
<1>2. storage'[n] =
        disableLegacyStorageTypes(Synced(storage, req[w].settings, n))
  BY <1>1 DEF CommitSave
<1> QED BY <1>1, <1>2, SyncRetires

\* However many requests run at once, a save leaves no storage available that the
\* settings do not ask for, of a type that is sold or of a legacy one, provided
\* that nobody writes a storage between its reads and its commit. Here a check-out
\* counts, too: it makes a storage available that the save saw occupied.
THEOREM SavesRetireUnderLock == Spec /\ [][StoragesLocked]_vars => [][Retires]_vars
<1>1. TypeOK /\ ReadInv /\ [Next]_vars /\ [StoragesLocked]_vars => ReadInv'
  <2>1. UNCHANGED vars => StoragesLocked
    BY DEF vars, StoragesLocked
  <2> QED BY <2>1, ReadInvKept
<1> QED BY <1>1, ReadInvInit, ReadRetires, InventoryTypeCorrect, PTL DEF Spec

----------------------------------------------------------------------------
(* One request at a time *)

Alone ==
    \A v, w \in Worker : v # w => req[v].op = "idle" \/ req[w].op = "idle"

\* Until requests overlap, nobody is there to take what the locks would hold.
SerialInv == ~overlapped => Alone /\ SaveInv /\ ReadInv

LEMMA AloneLocks ==
    ASSUME TypeOK, SerialInv, [Next]_vars, ~overlapped'
    PROVE  ~overlapped /\ Alone' /\ SaveLocks /\ StoragesLocked
<1>1. ASSUME NEW w \in Worker, NEW q, Moves(w, q)
      PROVE  /\ ~overlapped /\ Alone'
             /\ \A v \in Worker \ {w} : req[v].op = "idle"
  <2>1. req'[w] = q /\ \A v \in Worker \ {w} : req'[v] = req[v]
    BY <1>1, MoveOne
  <2>2. CASE req[w].op # "idle" /\ Continue(w, q)
    <3>1. ~overlapped
      BY <2>2 DEF Continue
    <3> QED BY <2>1, <2>2, <3>1 DEF SerialInv, Alone
  <2>3. ASSUME NEW endpoint, Accept(w, endpoint, q)
        PROVE  ~overlapped /\ \A v \in Worker \ {w} : req[v].op = "idle"
    BY <2>3 DEF Accept, TypeOK
  <2> QED BY <1>1, <2>1, <2>2, <2>3 DEF Moves, Alone
<1>2. ASSUME NEW n \in Storage, Assign(n) \/ CheckIn(n) \/ Release(n)
      PROVE  ~overlapped /\ req' = req /\ \A v \in Worker : req[v].op = "idle"
  BY <1>2 DEF Assign, CheckIn, Release, AtOnce, TypeOK
<1>3. ASSUME NEW w \in Worker,
             Aside(w) \/ CommitSaveOthers(w) \/ CommitSave(w) \/ CommitEdit(w)
      PROVE  \E q : Moves(w, q)
  BY <1>3, WriterEnds DEF Aside
<1>4. CASE UNCHANGED vars
  BY <1>4 DEF vars, SerialInv, Alone, SaveLocks, StoragesLocked
<1>5. ASSUME NEW w \in Worker,
             Aside(w) \/ CommitSaveOthers(w) \/ CommitSave(w) \/ CommitEdit(w)
      PROVE  ~overlapped /\ Alone' /\ SaveLocks /\ StoragesLocked
  <2>1. ~overlapped /\ Alone' /\ \A v \in Worker \ {w} : req[v].op = "idle"
    BY <1>1, <1>3, <1>5
  <2>2. CASE Aside(w)
    BY <2>1, <2>2 DEF Aside, SaveLocks, StoragesLocked
  <2>3. CASE CommitSaveOthers(w) \/ CommitSave(w) \/ CommitEdit(w)
    BY <2>1, <2>3, WriterEnds, IdleOp DEF SaveLocks, StoragesLocked
  <2> QED BY <1>5, <2>2, <2>3
<1>6. ASSUME NEW n \in Storage, Assign(n) \/ CheckIn(n) \/ Release(n)
      PROVE  ~overlapped /\ Alone' /\ SaveLocks /\ StoragesLocked
  BY <1>2, <1>6 DEF Alone, SaveLocks, StoragesLocked
<1> QED BY <1>4, <1>5, <1>6, NextKind

LEMMA SerialInvAlways == Spec => []SerialInv
<1>1. Init => SerialInv
  BY IdleOp, SaveInvInit, ReadInvInit DEF Init, SerialInv, Alone
<1>2. TypeOK /\ SerialInv /\ [Next]_vars => SerialInv'
  BY AloneLocks, SaveInvKept, ReadInvKept DEF SerialInv
<1> QED BY <1>1, <1>2, InventoryTypeCorrect, PTL DEF Spec

\* When requests come one at a time, whatever partial saves there were: once the
\* settings have been saved, and while no number is taken by a storage of another
\* type, every bag that can be booked has its storage.
THEOREM SavesBackTheSettings == Spec => []SettingsAreBacked
<1>1. SerialInv => SettingsAreBacked
  BY DEF SerialInv, SaveInv, Synchronised, Backed, SettingsAreBacked
<1> QED BY <1>1, SerialInvAlways, PTL

\* When requests come one at a time, a save leaves no storage available that the
\* settings do not ask for, of a type that is sold or of a legacy one.
THEOREM SavesRetireTheExcess == Spec => SaveRetiresExcess
<1>1. TypeOK /\ SerialInv =>
        [\A w \in Worker : CommitSave(w) /\ ~overlapped =>
           \A n \in Storage : storage'[n].status = "available" =>
              /\ storage'[n].type \in Type
              /\ n \in Target(req[w].settings, storage'[n].type)
              /\ req[w].settings[storage'[n].type].enabled]_vars
  BY ReadRetires DEF SerialInv, Retires
<1> QED BY <1>1, SerialInvAlways, InventoryTypeCorrect, PTL DEF SaveRetiresExcess
=============================================================================

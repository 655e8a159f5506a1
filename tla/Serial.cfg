CONSTANTS
    a1 = a1  a2 = a2  b1 = b1
    A = A  B = B
    S1 = S1  S2 = S2  M1 = M1  P1 = P1
    w1 = w1  w2 = w2
    NoStorage = NoStorage  NoPayment = NoPayment  NoGroup = NoGroup
    Row = {a1, b1}
    Group = {A, B}
    Storage = {S1}
    Type = {"s"}
    Payment = {P1}
    Worker = {w1}
    GroupOf <- GroupsOfRows
    RepOf <- Reps
    SourceOf <- GuestAndCustomer
    TypeOf <- Types
    BagsOf <- UnequalBags
    StartOf <- StartsAt1
    EndOf <- EndsAt2
    PaymentOf <- NoPayments
    StorageTypeOf <- StorageTypes
    NumberOf <- Numbers
    MaxCapacity <- TwoEach
    TTL = 1
    Grace = 0
    Horizon = 3
    Endpoints = {"guestCreate", "customerCreate", "approve", "updateStatus", "storeCheckin", "customerCheckout", "checkIn", "checkOut", "noShow", "linkNoShow", "guestCancel", "cleanup", "autoComplete", "storageChange"}
SPECIFICATION Spec
CHECK_DEADLOCK FALSE
INVARIANTS
    TypeOK
    NoDoubleAssignment
    OccupiedHasLuggage
PROPERTIES
    ClosedIsFinal
    CapacityRespected

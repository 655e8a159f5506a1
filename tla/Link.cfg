CONSTANTS
    a1 = a1  a2 = a2  b1 = b1
    A = A  B = B
    S1 = S1  S2 = S2  M1 = M1  P1 = P1
    w1 = w1  w2 = w2
    NoStorage = NoStorage  NoPayment = NoPayment  NoGroup = NoGroup
    Row = {a1, a2, b1}
    Group = {A, B}
    Storage = {S1}
    Type = {"s", "m"}
    Payment = {P1}
    Worker = {w1, w2}
    GroupOf <- GroupsOfRows
    RepOf <- Reps
    SourceOf <- GuestsOnly
    TypeOf <- Types
    BagsOf <- OneBag
    StartOf <- StartsApart
    EndOf <- EndsApart
    PaymentOf <- NoPayments
    StorageTypeOf <- StorageTypes
    NumberOf <- Numbers
    MaxCapacity <- TwoEach
    TTL = 1
    Grace = 0
    Horizon = 3
    Endpoints = {"guestCreate", "checkIn", "checkOut", "linkNoShow", "cleanup", "autoComplete"}
    SA = SA  SB = SB  k1 = k1  k2 = k2  m1 = m1  NoAnswer = NoAnswer  NoRow = NoRow
    Store = {SA, SB}
    Reservation = {k1, k2}
    PaymentId = {m1}
    Amount <- Amounts
    MaxTime = 2
    DAY = 2
    KST_OFFSET = 1
    WEEK = 2
    MONTH = 3
    MAX_RANGE_DAYS = 2
    MaxEvents = 2
    Parts = {"bookings", "reports"}
SPECIFICATION PartsSpec
CHECK_DEADLOCK FALSE
SYMMETRY WorkerSymmetry
INVARIANTS
    FiguresAgree
PROPERTIES
    ImplementsBookings

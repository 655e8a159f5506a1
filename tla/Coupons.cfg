CONSTANTS
    p1 = p1
    k1 = k1  k2 = k2
    G = G  r1 = r1
    N1 = N1
    right = right  wrong = wrong
    w1 = w1  w2 = w2
    NoPolicy = NoPolicy  NoCoupon = NoCoupon  NoHolder = NoHolder
    NoReservation = NoReservation  NoPin = NoPin
    Blank = Blank  DefaultTitle = DefaultTitle
    Policy = {p1}
    PolicyInput <- Policies
    Coupon = {k1, k2}
    Holder = {G}
    Customer = {G}
    Reservation = {r1}
    HolderOf <- HoldersOfReservations
    Name = {N1}
    Pin = {right, wrong}
    Validity = 1
    MAX_PIN_FAILURES = 2
    PIN_LOCK = 1
    MaxFailed = 3
    Horizon = 2
    Worker = {w1, w2}
    Endpoints = {"policies","claim","checkin","coupon","redeem","pin"}
SPECIFICATION Spec
SYMMETRY Interchangeable
INVARIANTS
    TypeOK
    UsedOnce
    
    LockMatchesMisses
PROPERTIES
    FinishedStays

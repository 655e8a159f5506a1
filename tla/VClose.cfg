CONSTANTS
    S1 = S1  S2 = S2
    m1 = m1
    c1 = c1  c2 = c2
    w1 = w1  w2 = w2
    NoStore = NoStore  NoStaff = NoStaff  NoCode = NoCode
    Store = {S1, S2}
    Staff = {m1}
    Code = {c1, c2}
    StoreOf <- StoresOfStaff
    StaffOf <- StaffOfCodes
    MAX_ACTIVE_STAFF = 1
    MaxTokens = 1
    Worker = {w1, w2}
    Endpoints = {"register", "withdraw", "book"}
SPECIFICATION Spec
CHECK_DEADLOCK FALSE
SYMMETRY WorkerSymmetry
INVARIANTS
    ClosedHasNoReservation

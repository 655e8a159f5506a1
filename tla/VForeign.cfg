CONSTANTS
    w1 = w1  w2 = w2
    A = A  B = B  C = C  ownerA = ownerA  ownerC = ownerC
    d1 = d1  f = f  g = g
    x = x  y = y  NoPhone = NoPhone  Address = Address
    l1 = l1  l2 = l2
    mon = mon  sun = sun  Null = Null  Keep = Keep  NoHours = NoHours
    NoDevice = NoDevice  NoStaff = NoStaff  NoOwner = NoOwner
    Row = {l1, l2}
    NoReservation = NoReservation
    Group = {A}
    GroupOf <- OneGroup
    RepOf <- Representative
    WithLink = {A}
    OfCustomer = {A}
    LastDay = 2
    Caller = {w1, w2}
    Device = {d1}
    Store = {A, B, C}
    OwnerOf <- Owners
    Staff = {f, g}
    WorksAt <- Works
    Sender = {w1, w2}
    Holder = {x, y}
    Customer = x
    OwnerLists <- Lists
    Uploader = {w1, w2}
    Day = {mon, sun}
    OpenByDefault = {mon}
    Time = {1, 2}
    Dto <- Dtos
    Editor = {w1, w2}
    REVIEW_WINDOW = 0
    MAX_PHOTOS = 2
    MaxUploads = 5
    p1 = p1  p2 = p2
    r1 = r1  r2 = r2
    NoPerson = NoPerson  NoRow = NoRow  NoSlot = NoSlot  NoCode = NoCode
    Person = {p1, p2}
    CustomerId = {r1, r2}
    Slot = {1, 2}
    Endpoints = {"socialLogin", "signup", "refresh", "logout", "withdraw", "updateMe"}
    RefreshLife = 1
    MaxTime = 1
    Worker = {w1, w2}
    MAX_LOGIN_FAILURES = 3
    LOGIN_LOCK = 1
    MaxPasswords = 2
    MaxClock = 1
    Client = {w1, w2}
    CodeId = {1, 2}
    MAX_ATTEMPTS = 2
    CODE_LIFE = 1
    MaxMinute = 1
    Visitor = {w1, w2}
    Parts = {"messages"}
SPECIFICATION PartsSpec
CHECK_DEADLOCK FALSE
INVARIANTS
    ForeignNumberReached

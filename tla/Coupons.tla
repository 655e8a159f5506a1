------------------------------ MODULE Coupons ------------------------------
(***************************************************************************)
(* The coupons of one store: policies, coupons claimed by a customer or    *)
(* issued at check-in, redeeming one with the store's PIN, expiry, and the *)
(* PIN's lock.                                                             *)
(*                                                                         *)
(* Nothing here runs in a transaction: every read and every write of a     *)
(* handler is a step of its own, and the steps of several requests mix.    *)
(***************************************************************************)
EXTENDS Integers, FiniteSets

CONSTANTS
    Policy,             \* rows of coupon_policies
    PolicyInput,        \* the rows that are written
    Coupon,             \* rows of coupons
    Holder,             \* customers, and guests known by their phone number
    Customer,           \* the holders who can sign in
    Reservation,
    HolderOf,           \* Reservation -> Holder
    Name,               \* names of policies
    Blank,              \* the empty name
    DefaultTitle,       \* the title of a coupon whose policy has no name
    Pin,
    NoPolicy, NoCoupon, NoHolder, NoReservation, NoPin,
    Validity,           \* validity_days
    MAX_PIN_FAILURES,
    PIN_LOCK,           \* PIN_LOCK_MINUTES
    MaxFailed,          \* bound on the failures counted
    Horizon,            \* bound on the clock
    Worker,             \* requests served at the same time
    Endpoints           \* the endpoints that are called

CouponType == {"payment_discount", "store_benefit"}
Trigger == {"manual_claim", "signup", "checkin_completed"}

PolicyRow == [name : Name, type : CouponType, on : Trigger, enabled : BOOLEAN]

ASSUME CouponsAssumption ==
    /\ PolicyInput \subseteq PolicyRow
    /\ HolderOf \in [Reservation -> Holder]
    /\ Customer \subseteq Holder
    /\ NoCoupon \notin Coupon /\ NoReservation \notin Reservation
    /\ NoHolder \notin Holder /\ NoPin \notin Pin
    /\ NoPolicy \notin Policy
    /\ Validity \in Nat /\ PIN_LOCK \in Nat \ {0} /\ Horizon \in Nat
    /\ MAX_PIN_FAILURES \in Nat \ {0} /\ MaxFailed \in Nat

VARIABLES
    now,
    policy,     \* rows of coupon_policies
    coupon,     \* rows of coupons
    checkedIn,  \* reservations whose check-in has been committed
    pin,        \* store_pin_hash, _failed_count, _locked_until of the store
    req,        \* what each worker is in the middle of
    uses,       \* per coupon, the times its benefit was granted
    misses,     \* wrong PINs answered since the last right one or new PIN
    overlapped  \* two requests have been in progress at once

\* uses, misses and overlapped are auxiliary variables: no action reads them.
vars == <<now, policy, coupon, checkedIn, pin, req, uses, misses, overlapped>>

CouponRow == [status : {"none", "active", "used", "expired"},
              holder : Holder \union {NoHolder},
              title : Name \union {DefaultTitle, Blank},
              type : CouponType,
              reservation : Reservation \union {NoReservation},
              expires : Nat]

NoRow == [status |-> "none", holder |-> NoHolder, title |-> Blank,
          type |-> "store_benefit", reservation |-> NoReservation, expires |-> 0]

Ops == {"idle", "claim", "trigger", "issue", "insert", "expire", "pin", "miss",
        "match", "use"}

Request == [op : Ops,
            coupon : Coupon \union {NoCoupon},
            holder : Holder \union {NoHolder},
            reservation : Reservation \union {NoReservation},
            read : [Policy -> PolicyRow \union {NoPolicy}],  \* policies to issue
            policy : Policy \union {NoPolicy},               \* the one in hand
            tried : Pin \union {NoPin},
            failed : Nat]                  \* store_pin_failed_count as read

NoneRead == [p \in Policy |-> NoPolicy]

Idle == [op |-> "idle", coupon |-> NoCoupon, holder |-> NoHolder,
         reservation |-> NoReservation, read |-> NoneRead, policy |-> NoPolicy,
         tried |-> NoPin, failed |-> 0]

TypeOK ==
    /\ now \in Nat
    /\ policy \in [Policy -> PolicyRow \union {NoPolicy}]
    /\ coupon \in [Coupon -> CouponRow]
    /\ checkedIn \in SUBSET Reservation
    /\ pin \in [hash : Pin \union {NoPin}, failed : Nat, lockedUntil : Nat]
    /\ req \in [Worker -> Request]
    /\ uses \in [Coupon -> Nat]
    /\ misses \in 0..MAX_PIN_FAILURES
    /\ overlapped \in BOOLEAN
    /\ \A w \in Worker :
          /\ req[w].op \in {"expire", "use"} => req[w].coupon \in Coupon
          /\ req[w].op \in {"claim", "trigger", "issue", "insert"}
                => req[w].holder \in Holder
          /\ req[w].op = "insert" => /\ req[w].policy \in Policy
                                     /\ req[w].read[req[w].policy] # NoPolicy

Init ==
    /\ now = 0
    /\ policy = NoneRead
    /\ coupon = [c \in Coupon |-> NoRow]
    /\ checkedIn = {}
    /\ pin = [hash |-> NoPin, failed |-> 0, lockedUntil |-> 0]
    /\ req = [w \in Worker |-> Idle]
    /\ uses = [c \in Coupon |-> 0]
    /\ misses = 0
    /\ overlapped = FALSE

----------------------------------------------------------------------------

\* An idle worker accepts a call of an endpoint and goes on to step.
Accept(w, endpoint, step) ==
    /\ req[w].op = "idle" /\ endpoint \in Endpoints
    /\ req' = [req EXCEPT ![w] = step]
    /\ overlapped' = (overlapped \/ \E v \in Worker \ {w} : req[v].op # "idle")

Continue(w, step) ==
    req' = [req EXCEPT ![w] = step] /\ UNCHANGED overlapped

End(w) == Continue(w, Idle)

\* A request of one statement.
AtOnce ==
    /\ overlapped' = (overlapped \/ \E v \in Worker : req[v].op # "idle")
    /\ UNCHANGED req

----------------------------------------------------------------------------
(* Policies: one statement each *)

\* The name is trimmed and may be empty.
createPolicy(p, row) ==
    /\ "policies" \in Endpoints
    /\ policy[p] = NoPolicy
    /\ policy' = [policy EXCEPT ![p] = row]
    /\ AtOnce
    /\ UNCHANGED <<now, coupon, checkedIn, pin, uses, misses>>

updatePolicy(p, row) ==
    /\ "policies" \in Endpoints
    /\ policy[p] # NoPolicy
    /\ policy' = [policy EXCEPT ![p] = row]
    /\ AtOnce
    /\ UNCHANGED <<now, coupon, checkedIn, pin, uses, misses>>

deletePolicy(p) ==
    /\ "policies" \in Endpoints
    /\ policy[p] # NoPolicy
    /\ policy' = [policy EXCEPT ![p] = NoPolicy]
    /\ AtOnce
    /\ UNCHANGED <<now, coupon, checkedIn, pin, uses, misses>>

----------------------------------------------------------------------------
(* Issuing *)

\* The enabled policies of a trigger, as they are read.
PoliciesOn(trigger) ==
    {p \in Policy : /\ policy[p] # NoPolicy
                    /\ policy[p].enabled
                    /\ policy[p].on = trigger}

Snapshot(P) == [p \in Policy |-> IF p \in P THEN policy[p] ELSE NoPolicy]

\* Faulty: a coupon that has been used does not count.
DuplicateActive(h, row, r) ==
    \E c \in Coupon :
        /\ coupon[c].status = "active"
        /\ coupon[c].holder = h
        /\ coupon[c].type = row.type
        /\ coupon[c].title = row.name
        /\ r # NoReservation => coupon[c].reservation = r

\* The holder has a coupon of the policy's type and name; at check-in, one of
\* the same reservation.
Duplicate(h, row, r) ==
    \E c \in Coupon :
        /\ coupon[c].status # "none"
        /\ coupon[c].holder = h
        /\ coupon[c].type = row.type
        /\ coupon[c].title = row.name
        /\ r # NoReservation => coupon[c].reservation = r

BeginClaim(w, h, p) ==
    /\ p \in PoliciesOn("manual_claim")
    /\ Accept(w, "claim", [Idle EXCEPT !.op = "claim", !.holder = h,
                                       !.read = Snapshot({p})])
    /\ UNCHANGED <<now, policy, coupon, checkedIn, pin, uses, misses>>

CheckClaim(w, p) ==
    /\ req[w].op = "claim"
    /\ req[w].read[p] # NoPolicy
    /\ ~Duplicate(req[w].holder, req[w].read[p], NoReservation)
    /\ Continue(w, [req[w] EXCEPT !.op = "insert", !.policy = p])
    /\ UNCHANGED <<now, policy, coupon, checkedIn, pin, uses, misses>>

\* A check-in has been committed; its coupons come after it.
Checkin(w, r) ==
    /\ r \notin checkedIn
    /\ Accept(w, "checkin", [Idle EXCEPT !.op = "trigger", !.reservation = r,
                                         !.holder = HolderOf[r]])
    /\ checkedIn' = checkedIn \union {r}
    /\ UNCHANGED <<now, policy, coupon, pin, uses, misses>>

issueForTrigger(w) ==
    /\ req[w].op = "trigger"
    /\ Continue(w, [req[w] EXCEPT !.op = "issue",
                                  !.read = Snapshot(PoliciesOn("checkin_completed"))])
    /\ UNCHANGED <<now, policy, coupon, checkedIn, pin, uses, misses>>

\* One policy after another.
CheckIssue(w, p) ==
    /\ req[w].op = "issue"
    /\ req[w].read[p] # NoPolicy
    /\ ~Duplicate(req[w].holder, req[w].read[p], req[w].reservation)
    /\ Continue(w, [req[w] EXCEPT !.op = "insert", !.policy = p])
    /\ UNCHANGED <<now, policy, coupon, checkedIn, pin, uses, misses>>

Issued(w, p) ==
    [req[w] EXCEPT !.op = "issue", !.read[p] = NoPolicy, !.policy = NoPolicy]

\* A policy is passed over: there is a duplicate, or a statement has failed.
SkipPolicy(w, p) ==
    /\ \/ req[w].op = "issue" /\ req[w].read[p] # NoPolicy
       \/ req[w].op = "insert" /\ req[w].policy = p /\ req[w].reservation # NoReservation
    /\ Continue(w, Issued(w, p))
    /\ UNCHANGED <<now, policy, coupon, checkedIn, pin, uses, misses>>

TitleOf(row) == IF row.name = Blank THEN DefaultTitle ELSE row.name

\* The INSERT looks at no other coupon.
InsertCoupon(w, c) ==
    /\ req[w].op = "insert"
    /\ coupon[c].status = "none"
    /\ LET row == req[w].read[req[w].policy] IN
       coupon' = [coupon EXCEPT ![c] =
                    [status |-> "active", holder |-> req[w].holder,
                     title |-> TitleOf(row), type |-> row.type,
                     reservation |-> req[w].reservation, expires |-> now + Validity]]
    /\ Continue(w, IF req[w].reservation = NoReservation THEN Idle
                   ELSE Issued(w, req[w].policy))
    /\ UNCHANGED <<now, policy, checkedIn, pin, uses, misses>>

----------------------------------------------------------------------------
(* Reading, expiring and redeeming a coupon *)

PastExpiry(c) == coupon[c].expires <= now

\* getCoupon, and redeem before it asks for the PIN, go on to mark an active
\* coupon that has expired.
FindExpired(w, c) ==
    /\ coupon[c].status = "active"
    /\ PastExpiry(c)
    /\ Accept(w, "coupon", [Idle EXCEPT !.op = "expire", !.coupon = c])
    /\ UNCHANGED <<now, policy, coupon, checkedIn, pin, uses, misses>>

\* The UPDATE is by id.
markExpired(w) ==
    /\ req[w].op = "expire"
    /\ coupon' = [coupon EXCEPT ![req[w].coupon].status = "expired"]
    /\ End(w)
    /\ UNCHANGED <<now, policy, checkedIn, pin, uses, misses>>

\* The lists and statistics mark the holder's coupons first, in one statement.
expireCoupons(h) ==
    /\ "coupon" \in Endpoints
    /\ \E c \in Coupon : /\ coupon[c].holder = h /\ coupon[c].status = "active"
                         /\ coupon[c].expires < now
    /\ coupon' = [c \in Coupon |->
                    IF /\ coupon[c].holder = h /\ coupon[c].status = "active"
                       /\ coupon[c].expires < now
                    THEN [coupon[c] EXCEPT !.status = "expired"] ELSE coupon[c]]
    /\ AtOnce
    /\ UNCHANGED <<now, policy, checkedIn, pin, uses, misses>>

\* By the customer, or by the guest who has the phone number and a token.
BeginRedeem(w, c, tried) ==
    /\ coupon[c].type = "store_benefit"
    /\ coupon[c].status = "active"
    /\ ~PastExpiry(c)
    /\ Accept(w, "redeem", [Idle EXCEPT !.op = "pin", !.coupon = c, !.tried = tried])
    /\ UNCHANGED <<now, policy, coupon, checkedIn, pin, uses, misses>>

\* Faulty: a status of its own.
UseAsRedeemed(w) ==
    /\ req[w].op = "use"
    /\ coupon[req[w].coupon].status = "active"
    /\ coupon' = [coupon EXCEPT ![req[w].coupon].status = "redeemed"]
    /\ uses' = [uses EXCEPT ![req[w].coupon] = @ + 1]
    /\ End(w)
    /\ UNCHANGED <<now, policy, checkedIn, pin, misses>>

\* Faulty: whatever the coupon has become.
UseAnyway(w) ==
    /\ req[w].op = "use"
    /\ coupon' = [coupon EXCEPT ![req[w].coupon].status = "used"]
    /\ uses' = [uses EXCEPT ![req[w].coupon] = @ + 1]
    /\ End(w)
    /\ UNCHANGED <<now, policy, checkedIn, pin, misses>>

\* Faulty: also one that has been marked expired.
UseUnlessUsed(w) ==
    /\ req[w].op = "use"
    /\ coupon[req[w].coupon].status # "used"
    /\ coupon' = [coupon EXCEPT ![req[w].coupon].status = "used"]
    /\ uses' = [uses EXCEPT ![req[w].coupon] = @ + 1]
    /\ End(w)
    /\ UNCHANGED <<now, policy, checkedIn, pin, misses>>

\* Compare-and-swap on the status.
UseCoupon(w) ==
    /\ req[w].op = "use"
    /\ coupon[req[w].coupon].status = "active"
    /\ coupon' = [coupon EXCEPT ![req[w].coupon].status = "used"]
    /\ uses' = [uses EXCEPT ![req[w].coupon] = @ + 1]
    /\ End(w)
    /\ UNCHANGED <<now, policy, checkedIn, pin, misses>>

----------------------------------------------------------------------------
(* The store's PIN *)

setPin(new) ==
    /\ "pin" \in Endpoints
    /\ pin' = [hash |-> new, failed |-> 0, lockedUntil |-> 0]
    /\ misses' = 0
    /\ AtOnce
    /\ UNCHANGED <<now, policy, coupon, checkedIn, uses>>

\* The owner tries the PIN, without a coupon.
checkPin(w, tried) ==
    /\ Accept(w, "pin", [Idle EXCEPT !.op = "pin", !.tried = tried])
    /\ UNCHANGED <<now, policy, coupon, checkedIn, pin, uses, misses>>

\* The read of the store's row: a PIN is set and not locked.
verifyPinForStore(w) ==
    /\ req[w].op = "pin"
    /\ pin.hash # NoPin
    /\ ~(pin.lockedUntil > now)
    /\ Continue(w, IF req[w].tried = pin.hash
                   THEN [Idle EXCEPT !.op = "match", !.coupon = req[w].coupon]
                   ELSE [Idle EXCEPT !.op = "miss", !.failed = pin.failed])
    /\ UNCHANGED <<now, policy, coupon, checkedIn, pin, uses, misses>>

\* The auxiliary count stops at the limit.
OneMore(n) == IF n < MAX_PIN_FAILURES THEN n + 1 ELSE n

\* Faulty: one try too many.
CountMissLate(w) ==
    /\ req[w].op = "miss"
    /\ req[w].failed < MaxFailed
    /\ pin' = [pin EXCEPT !.failed = req[w].failed + 1,
                          !.lockedUntil = IF req[w].failed + 1 > MAX_PIN_FAILURES
                                          THEN now + PIN_LOCK ELSE 0]
    /\ misses' = OneMore(misses)
    /\ End(w)
    /\ UNCHANGED <<now, policy, coupon, checkedIn, uses>>

\* The count that was read, plus one; below the limit the lock is cleared.
CountMiss(w) ==
    /\ req[w].op = "miss"
    /\ req[w].failed < MaxFailed
    /\ pin' = [pin EXCEPT !.failed = req[w].failed + 1,
                          !.lockedUntil = IF req[w].failed + 1 >= MAX_PIN_FAILURES
                                          THEN now + PIN_LOCK ELSE 0]
    /\ misses' = OneMore(misses)
    /\ End(w)
    /\ UNCHANGED <<now, policy, coupon, checkedIn, uses>>

ResetPin(w) ==
    /\ req[w].op = "match"
    /\ pin' = [pin EXCEPT !.failed = 0, !.lockedUntil = 0]
    /\ misses' = 0
    /\ IF req[w].coupon = NoCoupon THEN End(w)
       ELSE Continue(w, [req[w] EXCEPT !.op = "use"])
    /\ UNCHANGED <<now, policy, coupon, checkedIn, uses>>

----------------------------------------------------------------------------

\* A request ends without its next write: a check fails, every policy has been
\* tried, or the process stops.
AbortRequest(w) ==
    /\ req[w].op # "idle"
    /\ End(w)
    /\ UNCHANGED <<now, policy, coupon, checkedIn, pin, uses, misses>>

Tick ==
    /\ now < Horizon
    /\ now' = now + 1
    /\ UNCHANGED <<policy, coupon, checkedIn, pin, req, uses, misses, overlapped>>

PolicyStep ==
    \E p \in Policy : \/ \E row \in PolicyInput : createPolicy(p, row) \/ updatePolicy(p, row)
                      \/ deletePolicy(p)

IssueStep(w) ==
    \/ \E p \in Policy : \/ \E h \in Customer : BeginClaim(w, h, p)
                         \/ CheckClaim(w, p)
                         \/ CheckIssue(w, p)
                         \/ SkipPolicy(w, p)
    \/ \E c \in Coupon : InsertCoupon(w, c)
    \/ \E r \in Reservation : Checkin(w, r)
    \/ issueForTrigger(w)

CouponStep(w) ==
    \/ \E c \in Coupon : \/ FindExpired(w, c)
                         \/ \E tried \in Pin : BeginRedeem(w, c, tried)
    \/ markExpired(w)
    \/ UseCoupon(w)

PinStep(w) ==
    \/ \E tried \in Pin : checkPin(w, tried)
    \/ verifyPinForStore(w)
    \/ CountMiss(w)
    \/ ResetPin(w)

Next ==
    \/ \E w \in Worker : \/ IssueStep(w)
                         \/ CouponStep(w)
                         \/ PinStep(w)
                         \/ AbortRequest(w)
    \/ PolicyStep
    \/ \E h \in Holder : expireCoupons(h)
    \/ \E new \in Pin : setPin(new)
    \/ Tick

Spec == Init /\ [][Next]_vars

----------------------------------------------------------------------------
(* Safety *)

\* The benefit of a coupon is granted once, however many requests redeem it and
\* whatever expires it meanwhile.
UsedOnce == \A c \in Coupon : uses[c] <= 1

\* An expired coupon stays expired, and a used one stays used as long as its
\* validity lasts: only a request that finds it expired can still write it.
FinishedStays ==
    [][\A c \in Coupon :
         /\ coupon[c].status = "expired" => coupon'[c].status = "expired"
         /\ coupon[c].status = "used" =>
               \/ coupon'[c].status = "used"
               \/ coupon'[c].status = "expired" /\ PastExpiry(c)]_vars

\* With one request at a time, nobody holds two coupons of one title and type
\* for one reservation, or two claimed ones: COUPON_ALREADY_CLAIMED.
OneCouponEach ==
    ~overlapped => \A c, d \in Coupon :
        /\ coupon[c].status # "none"
        /\ [coupon[c] EXCEPT !.status = "active", !.expires = 0]
              = [coupon[d] EXCEPT !.status = "active", !.expires = 0]
        => c = d

\* With one request at a time, the PIN is locked by the fifth wrong try since
\* the last right one and not before.
LockMatchesMisses ==
    ~overlapped => (pin.lockedUntil # 0 <=> misses >= MAX_PIN_FAILURES)
=============================================================================

--------------------------- MODULE CouponsProofs ---------------------------
(***************************************************************************)
(* Theorems about Coupons, for any policies, coupons, holders, workers,    *)
(* endpoints and bounds.                                                   *)
(***************************************************************************)
EXTENDS Coupons, TLAPS

----------------------------------------------------------------------------
(* Type correctness *)

\* A request names the rows its step is about.
WellFormed(q) ==
    /\ q.op \in {"expire", "use"} => q.coupon \in Coupon
    /\ q.op \in {"claim", "trigger", "issue", "insert"} => q.holder \in Holder
    /\ q.op = "insert" => q.policy \in Policy /\ q.read[q.policy] # NoPolicy

Steps == {q \in Request : WellFormed(q)}

ReqTyped == req \in [Worker -> Steps] /\ overlapped \in BOOLEAN

DataTyped ==
    /\ now \in Nat
    /\ policy \in [Policy -> PolicyRow \union {NoPolicy}]
    /\ coupon \in [Coupon -> CouponRow]
    /\ checkedIn \in SUBSET Reservation
    /\ pin \in [hash : Pin \union {NoPin}, failed : Nat, lockedUntil : Nat]
    /\ uses \in [Coupon -> Nat]
    /\ misses \in 0..MAX_PIN_FAILURES

LEMMA TypeOKParts == TypeOK <=> DataTyped /\ ReqTyped
<1>1. req \in [Worker -> Steps] <=>
        req \in [Worker -> Request] /\ \A w \in Worker : WellFormed(req[w])
  BY DEF Steps
<1> QED BY <1>1 DEF TypeOK, DataTyped, ReqTyped, WellFormed

LEMMA IdleTyped == Idle \in Steps
BY DEF Idle, Steps, Request, WellFormed, Ops, NoneRead

LEMMA AcceptTyped ==
    ASSUME ReqTyped, NEW w \in Worker, NEW endpoint, NEW q \in Steps,
           Accept(w, endpoint, q)
    PROVE  ReqTyped'
BY DEF Accept, ReqTyped

LEMMA ContinueTyped ==
    ASSUME ReqTyped, NEW w \in Worker, NEW q \in Steps, Continue(w, q)
    PROVE  ReqTyped'
BY DEF Continue, ReqTyped

LEMMA EndTyped ==
    ASSUME ReqTyped, NEW w \in Worker, End(w)
    PROVE  ReqTyped'
BY IdleTyped, ContinueTyped DEF End

LEMMA AtOnceTyped ==
    ASSUME ReqTyped, AtOnce
    PROVE  ReqTyped'
BY DEF AtOnce, ReqTyped

LEMMA SnapshotTyped ==
    ASSUME DataTyped, NEW P
    PROVE  Snapshot(P) \in [Policy -> PolicyRow \union {NoPolicy}]
BY DEF Snapshot, DataTyped

LEMMA PolicyStepTyped ==
    ASSUME DataTyped, ReqTyped, PolicyStep
    PROVE  DataTyped' /\ ReqTyped'
<1>1. ASSUME NEW p \in Policy, NEW row \in PolicyInput,
             createPolicy(p, row) \/ updatePolicy(p, row)
      PROVE  DataTyped' /\ ReqTyped'
  BY <1>1, AtOnceTyped, CouponsAssumption
     DEF createPolicy, updatePolicy, DataTyped
<1>2. ASSUME NEW p \in Policy, deletePolicy(p)
      PROVE  DataTyped' /\ ReqTyped'
  BY <1>2, AtOnceTyped DEF deletePolicy, DataTyped
<1> QED BY <1>1, <1>2 DEF PolicyStep

LEMMA IssueStepTyped ==
    ASSUME DataTyped, ReqTyped, NEW w \in Worker, IssueStep(w)
    PROVE  DataTyped' /\ ReqTyped'
<1>0. req[w] \in Request /\ WellFormed(req[w])
  BY DEF ReqTyped, Steps
<1>1. ASSUME NEW p \in Policy, NEW h \in Holder, BeginClaim(w, h, p)
      PROVE  DataTyped' /\ ReqTyped'
  <2>1. [Idle EXCEPT !.op = "claim", !.holder = h, !.read = Snapshot({p})] \in Steps
    BY SnapshotTyped DEF Idle, Steps, Request, WellFormed, Ops
  <2> QED BY <1>1, <2>1, AcceptTyped DEF BeginClaim, DataTyped
<1>2. ASSUME NEW p \in Policy, CheckClaim(w, p) \/ CheckIssue(w, p)
      PROVE  DataTyped' /\ ReqTyped'
  <2>1. req[w].op \in {"claim", "issue"} /\ req[w].read[p] # NoPolicy
    BY <1>2 DEF CheckClaim, CheckIssue
  <2>2. [req[w] EXCEPT !.op = "insert", !.policy = p] \in Steps
    BY <1>0, <2>1 DEF Steps, Request, WellFormed, Ops
  <2> QED BY <1>2, <2>2, ContinueTyped DEF CheckClaim, CheckIssue, DataTyped
<1>3. ASSUME NEW p \in Policy, req[w].op \in {"issue", "insert"}
      PROVE  Issued(w, p) \in Steps
  BY <1>0, <1>3 DEF Issued, Steps, Request, WellFormed, Ops
<1>4. ASSUME NEW p \in Policy, SkipPolicy(w, p)
      PROVE  DataTyped' /\ ReqTyped'
  <2>1. Issued(w, p) \in Steps
    BY <1>3, <1>4 DEF SkipPolicy
  <2> QED BY <1>4, <2>1, ContinueTyped DEF SkipPolicy, DataTyped
<1>5. ASSUME NEW c \in Coupon, InsertCoupon(w, c)
      PROVE  DataTyped' /\ ReqTyped'
  <2> DEFINE row == req[w].read[req[w].policy]
  <2>1. req[w].op = "insert"
    BY <1>5 DEF InsertCoupon
  <2>2. /\ req[w].holder \in Holder
        /\ req[w].reservation \in Reservation \union {NoReservation}
        /\ req[w].policy \in Policy
        /\ row \in PolicyRow
    BY <1>0, <2>1 DEF WellFormed, Request
  <2>3. TitleOf(row) \in Name \union {DefaultTitle, Blank} /\ row.type \in CouponType
    BY <2>2 DEF TitleOf, PolicyRow
  <2>4. now + Validity \in Nat
    BY CouponsAssumption DEF DataTyped
  <2>5. coupon' \in [Coupon -> CouponRow]
    BY <1>5, <2>2, <2>3, <2>4 DEF InsertCoupon, DataTyped, CouponRow
  <2>6. DataTyped'
    BY <1>5, <2>5 DEF InsertCoupon, DataTyped
  <2>7. Issued(w, req[w].policy) \in Steps
    BY <1>3, <2>1, <2>2
  <2> QED BY <1>5, <2>6, <2>7, IdleTyped, ContinueTyped DEF InsertCoupon
<1>6. ASSUME NEW r \in Reservation, Checkin(w, r)
      PROVE  DataTyped' /\ ReqTyped'
  <2>1. [Idle EXCEPT !.op = "trigger", !.reservation = r, !.holder = HolderOf[r]]
          \in Steps
    BY CouponsAssumption DEF Idle, Steps, Request, WellFormed, Ops, NoneRead
  <2> QED BY <1>6, <2>1, AcceptTyped DEF Checkin, DataTyped
<1>7. CASE issueForTrigger(w)
  <2> DEFINE read == Snapshot(PoliciesOn("checkin_completed"))
  <2>1. req[w].op = "trigger"
    BY <1>7 DEF issueForTrigger
  <2>2. [req[w] EXCEPT !.op = "issue", !.read = read] \in Steps
    BY <1>0, <2>1, SnapshotTyped DEF Steps, Request, WellFormed, Ops
  <2> QED BY <1>7, <2>2, ContinueTyped DEF issueForTrigger, DataTyped
<1> QED BY CouponsAssumption, <1>1, <1>2, <1>4, <1>5, <1>6, <1>7 DEF IssueStep

LEMMA StatusTyped ==
    ASSUME DataTyped, NEW k \in Coupon, NEW v \in {"used", "expired"}
    PROVE  [coupon EXCEPT ![k].status = v] \in [Coupon -> CouponRow]
<1>1. coupon[k] \in CouponRow
  BY DEF DataTyped
<1>2. [coupon[k] EXCEPT !.status = v] \in CouponRow
  BY <1>1 DEF CouponRow
<1> QED BY <1>2 DEF DataTyped

LEMMA CouponStepTyped ==
    ASSUME DataTyped, ReqTyped, NEW w \in Worker, CouponStep(w)
    PROVE  DataTyped' /\ ReqTyped'
<1>0. req[w] \in Request /\ WellFormed(req[w])
  BY DEF ReqTyped, Steps
<1>1. ASSUME NEW c \in Coupon, FindExpired(w, c)
      PROVE  DataTyped' /\ ReqTyped'
  <2>1. [Idle EXCEPT !.op = "expire", !.coupon = c] \in Steps
    BY DEF Idle, Steps, Request, WellFormed, Ops, NoneRead
  <2> QED BY <1>1, <2>1, AcceptTyped DEF FindExpired, DataTyped
<1>2. ASSUME NEW c \in Coupon, NEW tried \in Pin, BeginRedeem(w, c, tried)
      PROVE  DataTyped' /\ ReqTyped'
  <2>1. [Idle EXCEPT !.op = "pin", !.coupon = c, !.tried = tried] \in Steps
    BY DEF Idle, Steps, Request, WellFormed, Ops, NoneRead
  <2> QED BY <1>2, <2>1, AcceptTyped DEF BeginRedeem, DataTyped
<1>3. CASE markExpired(w)
  <2>1. coupon' \in [Coupon -> CouponRow]
    BY <1>0, <1>3, StatusTyped DEF markExpired, WellFormed
  <2> QED BY <1>3, <2>1, EndTyped DEF markExpired, DataTyped
<1>4. CASE UseCoupon(w)
  <2>1. coupon' \in [Coupon -> CouponRow]
    BY <1>0, <1>4, StatusTyped DEF UseCoupon, WellFormed
  <2>2. uses' \in [Coupon -> Nat]
    BY <1>0, <1>4 DEF UseCoupon, WellFormed, DataTyped
  <2> QED BY <1>4, <2>1, <2>2, EndTyped DEF UseCoupon, DataTyped
<1> QED BY <1>1, <1>2, <1>3, <1>4 DEF CouponStep

LEMMA PinStepTyped ==
    ASSUME DataTyped, ReqTyped, NEW w \in Worker, PinStep(w)
    PROVE  DataTyped' /\ ReqTyped'
<1>0. req[w] \in Request /\ WellFormed(req[w])
  BY DEF ReqTyped, Steps
<1>1. ASSUME NEW tried \in Pin, checkPin(w, tried)
      PROVE  DataTyped' /\ ReqTyped'
  <2>1. [Idle EXCEPT !.op = "pin", !.tried = tried] \in Steps
    BY DEF Idle, Steps, Request, WellFormed, Ops, NoneRead
  <2> QED BY <1>1, <2>1, AcceptTyped DEF checkPin, DataTyped
<1>2. CASE verifyPinForStore(w)
  <2>1. [Idle EXCEPT !.op = "match", !.coupon = req[w].coupon] \in Steps
    BY <1>0 DEF Idle, Steps, Request, WellFormed, Ops, NoneRead
  <2>2. [Idle EXCEPT !.op = "miss", !.failed = pin.failed] \in Steps
    BY DEF Idle, Steps, Request, WellFormed, Ops, NoneRead, DataTyped
  <2> QED BY <1>2, <2>1, <2>2, ContinueTyped DEF verifyPinForStore, DataTyped
<1>3. CASE CountMiss(w)
  <2>1. OneMore(misses) \in 0..MAX_PIN_FAILURES
    BY CouponsAssumption DEF OneMore, DataTyped
  <2>2. req[w].failed + 1 \in Nat /\ now + PIN_LOCK \in Nat
    BY <1>0, CouponsAssumption DEF Request, DataTyped
  <2>3. pin' \in [hash : Pin \union {NoPin}, failed : Nat, lockedUntil : Nat]
    BY <1>3, <2>2 DEF CountMiss, DataTyped
  <2> QED BY <1>3, <2>1, <2>3, EndTyped DEF CountMiss, DataTyped
<1>4. CASE ResetPin(w)
  <2>1. ReqTyped'
    <3>1. CASE req[w].coupon = NoCoupon
      BY <1>4, <3>1, EndTyped DEF ResetPin
    <3>2. CASE req[w].coupon # NoCoupon
      <4>1. [req[w] EXCEPT !.op = "use"] \in Steps
        BY <1>0, <3>2 DEF Steps, Request, WellFormed, Ops
      <4> QED BY <1>4, <3>2, <4>1, ContinueTyped DEF ResetPin
    <3> QED BY <3>1, <3>2
  <2>2. misses' \in 0..MAX_PIN_FAILURES
    BY <1>4, CouponsAssumption DEF ResetPin
  <2> QED BY <1>4, <2>1, <2>2 DEF ResetPin, DataTyped
<1> QED BY <1>1, <1>2, <1>3, <1>4 DEF PinStep

LEMMA NextTyped ==
    ASSUME DataTyped, ReqTyped, [Next]_vars
    PROVE  DataTyped' /\ ReqTyped'
<1>1. CASE UNCHANGED vars
  BY <1>1 DEF vars, DataTyped, ReqTyped
<1>2. ASSUME NEW w \in Worker, AbortRequest(w)
      PROVE  DataTyped' /\ ReqTyped'
  BY <1>2, EndTyped DEF AbortRequest, DataTyped
<1>3. ASSUME NEW h \in Holder, expireCoupons(h)
      PROVE  DataTyped' /\ ReqTyped'
  <2>1. coupon' \in [Coupon -> CouponRow]
    BY <1>3 DEF expireCoupons, DataTyped, CouponRow
  <2> QED BY <1>3, <2>1, AtOnceTyped DEF expireCoupons, DataTyped
<1>4. ASSUME NEW new \in Pin, setPin(new)
      PROVE  DataTyped' /\ ReqTyped'
  <2>1. 0 \in 0..MAX_PIN_FAILURES
    BY CouponsAssumption
  <2> QED BY <1>4, <2>1, AtOnceTyped DEF setPin, DataTyped
<1>5. CASE Tick
  BY <1>5 DEF Tick, DataTyped, ReqTyped
<1> QED BY <1>1, <1>2, <1>3, <1>4, <1>5, PolicyStepTyped, IssueStepTyped,
           CouponStepTyped, PinStepTyped DEF Next

\* Every value stays in its type: a coupon one of the schema's statuses, and a
\* request the rows that exist; misses never exceeds the limit.
THEOREM CouponsTypeCorrect == Spec => []TypeOK
<1>1. Init => DataTyped /\ ReqTyped
  <2> SUFFICES ASSUME Init PROVE DataTyped /\ ReqTyped
    OBVIOUS
  <2>1. NoRow \in CouponRow
    BY DEF NoRow, CouponRow, CouponType
  <2>2. coupon \in [Coupon -> CouponRow]
    BY <2>1 DEF Init
  <2>3. req \in [Worker -> Steps]
    BY IdleTyped DEF Init
  <2>4. 0 \in 0..MAX_PIN_FAILURES
    BY CouponsAssumption
  <2> QED BY <2>2, <2>3, <2>4 DEF Init, DataTyped, ReqTyped, NoneRead
<1>2. (DataTyped /\ ReqTyped) /\ [Next]_vars => (DataTyped /\ ReqTyped)'
  BY NextTyped
<1> QED BY <1>1, <1>2, TypeOKParts, PTL DEF Spec

----------------------------------------------------------------------------
(* A coupon's benefit is granted once *)

\* A coupon whose benefit has been granted is never active again.
GrantedOnce ==
    \A c \in Coupon : /\ uses[c] \in {0, 1}
                      /\ uses[c] = 1 => coupon[c].status \in {"used", "expired"}

\* A request about to mark a coupon expired has found it past its expiry.
ExpiringIsPast ==
    \A w \in Worker : req[w].op = "expire" =>
        /\ coupon[req[w].coupon].status # "none"
        /\ PastExpiry(req[w].coupon)

GrantInv == GrantedOnce /\ ExpiringIsPast

\* All that a step can do to a coupon.
Fate(c) ==
    \/ coupon'[c] = coupon[c] /\ uses'[c] = uses[c]
    \/ /\ coupon[c].status = "none" /\ coupon'[c].status = "active"
       /\ uses'[c] = uses[c]
    \/ /\ coupon[c].status = "active" \/ (coupon[c].status # "none" /\ PastExpiry(c))
       /\ coupon'[c] = [coupon[c] EXCEPT !.status = "expired"]
       /\ uses'[c] = uses[c]
    \/ /\ coupon[c].status = "active"
       /\ coupon'[c] = [coupon[c] EXCEPT !.status = "used"]
       /\ uses'[c] = uses[c] + 1

\* All that a step can do to a request that marks a coupon expired.
NewExpiry(w) ==
    req'[w].op = "expire" =>
        \/ req'[w] = req[w]
        \/ /\ coupon[req'[w].coupon].status = "active"
           /\ PastExpiry(req'[w].coupon)
           /\ UNCHANGED <<coupon, now>>

LEMMA IdleOp == Idle.op = "idle"
BY DEF Idle

LEMMA UntouchedCoupons ==
    ASSUME UNCHANGED <<coupon, uses>>, NEW c \in Coupon
    PROVE  Fate(c)
BY DEF Fate

LEMMA OtherRequest ==
    ASSUME TypeOK, NEW w \in Worker, NEW q, q.op # "expire",
           req' = [req EXCEPT ![w] = q], NEW v \in Worker
    PROVE  NewExpiry(v)
<1>1. req'[v] = req[v] \/ req'[v] = q
  BY DEF TypeOK
<1> QED BY <1>1 DEF NewExpiry

LEMMA IssueFate ==
    ASSUME TypeOK, NEW w \in Worker, IssueStep(w)
    PROVE  (\A c \in Coupon : Fate(c)) /\ (\A v \in Worker : NewExpiry(v))
<1>0. req[w] \in Request
  BY DEF TypeOK
<1>1. ASSUME NEW p \in Policy, NEW h \in Holder, BeginClaim(w, h, p)
      PROVE  (\A c \in Coupon : Fate(c)) /\ (\A v \in Worker : NewExpiry(v))
  <2>1. [Idle EXCEPT !.op = "claim", !.holder = h, !.read = Snapshot({p})].op = "claim"
    BY DEF Idle
  <2> QED BY <1>1, <2>1, UntouchedCoupons, OtherRequest DEF BeginClaim, Accept
<1>2. ASSUME NEW p \in Policy, CheckClaim(w, p) \/ CheckIssue(w, p)
      PROVE  (\A c \in Coupon : Fate(c)) /\ (\A v \in Worker : NewExpiry(v))
  <2>1. [req[w] EXCEPT !.op = "insert", !.policy = p].op = "insert"
    BY <1>0 DEF Request
  <2> QED BY <1>2, <2>1, UntouchedCoupons, OtherRequest
          DEF CheckClaim, CheckIssue, Continue
<1>3. ASSUME NEW p \in Policy
      PROVE  Issued(w, p).op = "issue"
  BY <1>0 DEF Issued, Request
<1>4. ASSUME NEW p \in Policy, SkipPolicy(w, p)
      PROVE  (\A c \in Coupon : Fate(c)) /\ (\A v \in Worker : NewExpiry(v))
  BY <1>3, <1>4, UntouchedCoupons, OtherRequest DEF SkipPolicy, Continue
<1>5. ASSUME NEW c \in Coupon, InsertCoupon(w, c)
      PROVE  (\A d \in Coupon : Fate(d)) /\ (\A v \in Worker : NewExpiry(v))
  <2>1. /\ coupon[c].status = "none" /\ coupon'[c].status = "active"
        /\ \A d \in Coupon \ {c} : coupon'[d] = coupon[d]
        /\ UNCHANGED uses
    BY <1>5 DEF InsertCoupon, TypeOK
  <2>2. \A d \in Coupon : Fate(d)
    BY <2>1 DEF Fate
  <2>3. req[w].policy \in Policy
    BY <1>5 DEF InsertCoupon, TypeOK
  <2>4. Issued(w, req[w].policy).op = "issue"
    BY <1>3, <2>3
  <2> QED BY <1>5, <2>2, <2>4, IdleOp, OtherRequest DEF InsertCoupon, Continue
<1>6. ASSUME NEW r \in Reservation, Checkin(w, r)
      PROVE  (\A c \in Coupon : Fate(c)) /\ (\A v \in Worker : NewExpiry(v))
  <2>1. [Idle EXCEPT !.op = "trigger", !.reservation = r,
                     !.holder = HolderOf[r]].op = "trigger"
    BY DEF Idle
  <2> QED BY <1>6, <2>1, UntouchedCoupons, OtherRequest DEF Checkin, Accept
<1>7. CASE issueForTrigger(w)
  <2> DEFINE read == Snapshot(PoliciesOn("checkin_completed"))
  <2>1. [req[w] EXCEPT !.op = "issue", !.read = read].op = "issue"
    BY <1>0 DEF Request
  <2> QED BY <1>7, <2>1, UntouchedCoupons, OtherRequest
          DEF issueForTrigger, Continue
<1> QED BY CouponsAssumption, <1>1, <1>2, <1>4, <1>5, <1>6, <1>7 DEF IssueStep

LEMMA CouponFate ==
    ASSUME TypeOK, ExpiringIsPast, NEW w \in Worker, CouponStep(w)
    PROVE  (\A c \in Coupon : Fate(c)) /\ (\A v \in Worker : NewExpiry(v))
<1>1. ASSUME NEW c \in Coupon, FindExpired(w, c)
      PROVE  (\A d \in Coupon : Fate(d)) /\ (\A v \in Worker : NewExpiry(v))
  <2> DEFINE q == [Idle EXCEPT !.op = "expire", !.coupon = c]
  <2>1. q.coupon = c
    BY DEF Idle
  <2>2. \A v \in Worker : req'[v] = req[v] \/ req'[v] = q
    BY <1>1 DEF FindExpired, Accept, TypeOK
  <2>3. \A v \in Worker : NewExpiry(v)
    BY <1>1, <2>1, <2>2 DEF FindExpired, NewExpiry
  <2> QED BY <1>1, <2>3, UntouchedCoupons DEF FindExpired
<1>2. ASSUME NEW c \in Coupon, NEW tried \in Pin, BeginRedeem(w, c, tried)
      PROVE  (\A d \in Coupon : Fate(d)) /\ (\A v \in Worker : NewExpiry(v))
  <2>1. [Idle EXCEPT !.op = "pin", !.coupon = c, !.tried = tried].op = "pin"
    BY DEF Idle
  <2> QED BY <1>2, <2>1, UntouchedCoupons, OtherRequest DEF BeginRedeem, Accept
<1>3. CASE markExpired(w)
  <2> DEFINE k == req[w].coupon
  <2>1. k \in Coupon /\ coupon[k].status # "none" /\ PastExpiry(k)
    BY <1>3 DEF markExpired, TypeOK, ExpiringIsPast
  <2>2. /\ coupon'[k] = [coupon[k] EXCEPT !.status = "expired"]
        /\ \A d \in Coupon \ {k} : coupon'[d] = coupon[d]
        /\ UNCHANGED uses
    BY <1>3, <2>1 DEF markExpired, TypeOK
  <2>3. \A d \in Coupon : Fate(d)
    BY <2>1, <2>2 DEF Fate
  <2> QED BY <1>3, <2>3, IdleOp, OtherRequest DEF markExpired, End, Continue
<1>4. CASE UseCoupon(w)
  <2> DEFINE k == req[w].coupon
  <2>1. k \in Coupon
    BY <1>4 DEF UseCoupon, TypeOK
  <2>2. /\ coupon[k].status = "active"
        /\ coupon'[k] = [coupon[k] EXCEPT !.status = "used"]
        /\ uses'[k] = uses[k] + 1
        /\ \A d \in Coupon \ {k} : coupon'[d] = coupon[d] /\ uses'[d] = uses[d]
    BY <1>4, <2>1 DEF UseCoupon, TypeOK
  <2>3. \A d \in Coupon : Fate(d)
    BY <2>2 DEF Fate
  <2> QED BY <1>4, <2>3, IdleOp, OtherRequest DEF UseCoupon, End, Continue
<1> QED BY <1>1, <1>2, <1>3, <1>4 DEF CouponStep

LEMMA PinFate ==
    ASSUME TypeOK, NEW w \in Worker, PinStep(w)
    PROVE  (\A c \in Coupon : Fate(c)) /\ (\A v \in Worker : NewExpiry(v))
<1>1. ASSUME NEW tried \in Pin, checkPin(w, tried)
      PROVE  (\A c \in Coupon : Fate(c)) /\ (\A v \in Worker : NewExpiry(v))
  <2>1. [Idle EXCEPT !.op = "pin", !.tried = tried].op = "pin"
    BY DEF Idle
  <2> QED BY <1>1, <2>1, UntouchedCoupons, OtherRequest DEF checkPin, Accept
<1>2. CASE verifyPinForStore(w)
  <2>1. /\ [Idle EXCEPT !.op = "match", !.coupon = req[w].coupon].op = "match"
        /\ [Idle EXCEPT !.op = "miss", !.failed = pin.failed].op = "miss"
    BY DEF Idle
  <2> QED BY <1>2, <2>1, UntouchedCoupons, OtherRequest
          DEF verifyPinForStore, Continue
<1>3. CASE CountMiss(w)
  BY <1>3, IdleOp, UntouchedCoupons, OtherRequest DEF CountMiss, End, Continue
<1>4. CASE ResetPin(w)
  <2>1. [req[w] EXCEPT !.op = "use"].op = "use"
    BY DEF TypeOK, Request
  <2> QED BY <1>4, <2>1, IdleOp, UntouchedCoupons, OtherRequest
          DEF ResetPin, End, Continue
<1> QED BY <1>1, <1>2, <1>3, <1>4 DEF PinStep

LEMMA NextFate ==
    ASSUME TypeOK, ExpiringIsPast, [Next]_vars
    PROVE  /\ \A c \in Coupon : Fate(c)
           /\ \A v \in Worker : NewExpiry(v)
           /\ now' >= now
<1>1. now' >= now
  <2>1. now' = now \/ now' = now + 1
    BY DEF Next, vars, Tick, PolicyStep, createPolicy, updatePolicy, deletePolicy,
           IssueStep, BeginClaim, CheckClaim, CheckIssue, SkipPolicy, InsertCoupon,
           Checkin, issueForTrigger, CouponStep, FindExpired, BeginRedeem,
           markExpired, UseCoupon, PinStep, checkPin, verifyPinForStore, CountMiss,
           ResetPin, AbortRequest, expireCoupons, setPin
  <2> QED BY <2>1 DEF TypeOK
<1>2. ASSUME UNCHANGED <<coupon, uses, req>>
      PROVE  (\A c \in Coupon : Fate(c)) /\ (\A v \in Worker : NewExpiry(v))
  BY <1>2, UntouchedCoupons DEF NewExpiry
<1>3. CASE UNCHANGED vars
  BY <1>1, <1>2, <1>3 DEF vars
<1>4. ASSUME NEW w \in Worker, AbortRequest(w)
      PROVE  (\A c \in Coupon : Fate(c)) /\ (\A v \in Worker : NewExpiry(v))
  BY <1>4, IdleOp, UntouchedCoupons, OtherRequest DEF AbortRequest, End, Continue
<1>5. CASE PolicyStep
  <2>1. UNCHANGED <<coupon, uses, req>>
    BY <1>5 DEF PolicyStep, createPolicy, updatePolicy, deletePolicy, AtOnce
  <2> QED BY <1>1, <1>2, <2>1
<1>6. ASSUME NEW h \in Holder, expireCoupons(h)
      PROVE  (\A c \in Coupon : Fate(c)) /\ (\A v \in Worker : NewExpiry(v))
  <2>1. UNCHANGED <<uses, req>>
    BY <1>6 DEF expireCoupons, AtOnce
  <2>2. \A c \in Coupon :
          \/ coupon'[c] = coupon[c]
          \/ /\ coupon[c].status = "active"
             /\ coupon'[c] = [coupon[c] EXCEPT !.status = "expired"]
    BY <1>6 DEF expireCoupons, TypeOK
  <2>3. \A c \in Coupon : Fate(c)
    BY <2>1, <2>2 DEF Fate
  <2> QED BY <2>1, <2>3 DEF NewExpiry
<1>7. ASSUME NEW new \in Pin, setPin(new)
      PROVE  (\A c \in Coupon : Fate(c)) /\ (\A v \in Worker : NewExpiry(v))
  BY <1>2, <1>7 DEF setPin, AtOnce
<1>8. CASE Tick
  BY <1>1, <1>2, <1>8 DEF Tick
<1> QED BY <1>1, <1>3, <1>4, <1>5, <1>6, <1>7, <1>8, IssueFate, CouponFate, PinFate
        DEF Next

LEMMA GrantInvKept ==
    ASSUME TypeOK, TypeOK', GrantInv, [Next]_vars
    PROVE  GrantInv'
<1>0. /\ \A c \in Coupon : Fate(c)
      /\ \A v \in Worker : NewExpiry(v)
      /\ now' >= now
  BY NextFate DEF GrantInv
<1>1. \A c \in Coupon : coupon[c] \in CouponRow
  BY DEF TypeOK
<1>2. ASSUME NEW c \in Coupon
      PROVE  /\ uses'[c] \in {0, 1}
             /\ uses'[c] = 1 => coupon'[c].status \in {"used", "expired"}
  <2>1. /\ uses[c] \in {0, 1}
        /\ uses[c] = 1 => coupon[c].status \in {"used", "expired"}
    BY DEF GrantInv, GrantedOnce
  <2>2. CASE /\ uses'[c] = uses[c]
             /\ coupon'[c].status = coupon[c].status \/ coupon'[c].status = "expired"
    BY <2>1, <2>2
  <2>3. CASE /\ coupon[c].status \in {"none", "active"}
             /\ uses'[c] = uses[c]
    BY <2>1, <2>3
  <2>4. CASE /\ coupon[c].status = "active"
             /\ coupon'[c].status = "used"
             /\ uses'[c] = uses[c] + 1
    BY <2>1, <2>4
  <2>5. /\ [coupon[c] EXCEPT !.status = "expired"].status = "expired"
        /\ [coupon[c] EXCEPT !.status = "used"].status = "used"
    BY <1>1 DEF CouponRow
  <2> QED BY <1>0, <2>2, <2>3, <2>4, <2>5 DEF Fate
<1>3. ASSUME NEW c \in Coupon, coupon[c].status # "none", PastExpiry(c)
      PROVE  coupon'[c].status # "none" /\ coupon'[c].expires <= now'
  <2>1. coupon'[c].expires = coupon[c].expires /\ coupon'[c].status # "none"
    BY <1>0, <1>1, <1>3 DEF Fate, CouponRow
  <2>2. now \in Nat /\ now' \in Nat /\ coupon[c].expires \in Nat
    BY <1>1 DEF TypeOK, CouponRow
  <2>3. coupon[c].expires <= now
    BY <1>3 DEF PastExpiry
  <2>4. coupon[c].expires <= now'
    BY <1>0, <2>2, <2>3
  <2> QED BY <2>1, <2>4
<1>4. ASSUME NEW v \in Worker, req'[v].op = "expire"
      PROVE  /\ coupon'[req'[v].coupon].status # "none"
             /\ coupon'[req'[v].coupon].expires <= now'
  <2>1. req'[v].coupon \in Coupon
    BY <1>4 DEF TypeOK
  <2>2. coupon[req'[v].coupon].status # "none" /\ PastExpiry(req'[v].coupon)
    BY <1>0, <1>4 DEF NewExpiry, GrantInv, ExpiringIsPast
  <2> QED BY <1>3, <2>1, <2>2
<1> QED BY <1>2, <1>4 DEF GrantInv, GrantedOnce, ExpiringIsPast, PastExpiry

LEMMA GrantInvAlways == Spec => []GrantInv
<1>1. Init => GrantInv
  BY IdleOp DEF Init, GrantInv, GrantedOnce, ExpiringIsPast
<1>2. TypeOK /\ TypeOK' /\ GrantInv /\ [Next]_vars => GrantInv'
  BY GrantInvKept
<1> QED BY <1>1, <1>2, CouponsTypeCorrect, PTL DEF Spec

\* A coupon's benefit is granted at most once, under any number of requests that
\* redeem, read and expire it at the same time.
THEOREM CouponsUsedOnce == Spec => []UsedOnce
<1>1. GrantInv => UsedOnce
  BY DEF GrantInv, GrantedOnce, UsedOnce
<1> QED BY <1>1, GrantInvAlways, PTL

\* An expired coupon stays expired, and a used one is overwritten only after its
\* validity.
THEOREM CouponsFinishedStay == Spec => FinishedStays
<1>1. TypeOK /\ GrantInv /\ [Next]_vars =>
        [\A c \in Coupon :
           /\ coupon[c].status = "expired" => coupon'[c].status = "expired"
           /\ coupon[c].status = "used" =>
                 \/ coupon'[c].status = "used"
                 \/ coupon'[c].status = "expired" /\ PastExpiry(c)]_vars
  <2> SUFFICES ASSUME TypeOK, GrantInv, [Next]_vars, NEW c \in Coupon
               PROVE  /\ coupon[c].status = "expired" => coupon'[c].status = "expired"
                      /\ coupon[c].status = "used" =>
                            \/ coupon'[c].status = "used"
                            \/ coupon'[c].status = "expired" /\ PastExpiry(c)
    OBVIOUS
  <2>1. Fate(c) /\ coupon[c] \in CouponRow
    BY NextFate DEF GrantInv, TypeOK
  <2> QED BY <2>1 DEF Fate, CouponRow
<1> QED BY <1>1, GrantInvAlways, CouponsTypeCorrect, PTL DEF Spec, FinishedStays

----------------------------------------------------------------------------
(* One coupon each *)

\* A row that is a coupon has a holder.
Filled ==
    \A c \in Coupon : coupon[c].holder = NoHolder <=> coupon[c].status = "none"

\* Nobody holds two coupons of one title and type for one reservation, or two
\* claimed ones.
OneEach == \A c, d \in Coupon :
    /\ c # d
    /\ coupon[c].status # "none" /\ coupon[d].status # "none"
    /\ coupon[c].holder = coupon[d].holder
    /\ coupon[c].title = coupon[d].title
    /\ coupon[c].type = coupon[d].type
    => coupon[c].reservation # coupon[d].reservation

\* The coupon that a request would insert.
Twin(k, q) ==
    /\ k.status # "none"
    /\ k.holder = q.holder
    /\ k.type = q.read[q.policy].type
    /\ k.title = q.read[q.policy].name
    /\ k.reservation = q.reservation

\* A request about to insert a coupon has found none like it, and nobody has
\* inserted one since.
StillFree(q) == q.op = "insert" => \A c \in Coupon : ~Twin(coupon[c], q)

IssueInv == OneEach /\ \A w \in Worker : StillFree(req[w])

\* A lock on the holder, from the look for a duplicate to the INSERT. The code
\* takes none.
HolderLocks ==
    \A v, w \in Worker :
        v # w /\ req[v].op = "insert" /\ req[w].op = "insert" =>
            req[v].holder # req[w].holder

\* A step that leaves every coupon what it is, but for its status.
SameCoupons ==
    \A c \in Coupon :
        /\ coupon'[c].status = "none" <=> coupon[c].status = "none"
        /\ coupon'[c].holder = coupon[c].holder
        /\ coupon'[c].title = coupon[c].title
        /\ coupon'[c].type = coupon[c].type
        /\ coupon'[c].reservation = coupon[c].reservation

\* ... and lets a request go on to an INSERT only when there is no duplicate.
Looked == \A w \in Worker : req'[w] = req[w] \/ StillFree(req'[w])

\* A worker accepts a call or continues one, and is then about to do q.
Moves(w, q) ==
    (\E endpoint : Accept(w, endpoint, q)) \/ (req[w].op # "idle" /\ Continue(w, q))

LEMMA MoveOne ==
    ASSUME TypeOK, NEW w \in Worker, NEW q, Moves(w, q)
    PROVE  req'[w] = q /\ \A v \in Worker \ {w} : req'[v] = req[v]
BY DEF Moves, Accept, Continue, TypeOK

LEMMA IssueLooks ==
    ASSUME TypeOK, NEW w \in Worker, IssueStep(w)
    PROVE  /\ UNCHANGED <<pin, misses>>
           /\ \E q : /\ Moves(w, q) /\ q.op # "miss"
                     /\ \/ coupon' = coupon /\ StillFree(q)
                        \/ \E c \in Coupon : InsertCoupon(w, c)
<1>0. req[w] \in Request
  BY DEF TypeOK
<1>1. ASSUME NEW p \in Policy, NEW h \in Customer, BeginClaim(w, h, p)
      PROVE  \E q : Moves(w, q) /\ q.op = "claim" /\ UNCHANGED <<coupon, pin, misses>>
  <2> DEFINE q == [Idle EXCEPT !.op = "claim", !.holder = h, !.read = Snapshot({p})]
  <2>1. q.op = "claim"
    BY DEF Idle
  <2>2. Accept(w, "claim", q) /\ UNCHANGED <<coupon, pin, misses>>
    BY <1>1 DEF BeginClaim
  <2> HIDE DEF q
  <2> QED BY <2>1, <2>2 DEF Moves
<1>2. ASSUME NEW p \in Policy, CheckClaim(w, p) \/ CheckIssue(w, p)
      PROVE  \E q : /\ Moves(w, q) /\ q.op = "insert" /\ StillFree(q)
                    /\ UNCHANGED <<coupon, pin, misses>>
  <2> DEFINE q == [req[w] EXCEPT !.op = "insert", !.policy = p]
  <2>1. /\ q.op = "insert" /\ q.policy = p /\ q.read = req[w].read
        /\ q.holder = req[w].holder /\ q.reservation = req[w].reservation
    BY <1>0 DEF Request
  <2>2. /\ req[w].op # "idle" /\ Continue(w, q)
        /\ UNCHANGED <<coupon, pin, misses>>
        /\ \/ ~Duplicate(req[w].holder, req[w].read[p], NoReservation)
           \/ ~Duplicate(req[w].holder, req[w].read[p], req[w].reservation)
    BY <1>2 DEF CheckClaim, CheckIssue
  <2> HIDE DEF q
  <2>3. StillFree(q)
    BY <2>1, <2>2 DEF StillFree, Twin, Duplicate
  <2> QED BY <2>1, <2>2, <2>3 DEF Moves
<1>3. ASSUME NEW p \in Policy, SkipPolicy(w, p)
      PROVE  \E q : Moves(w, q) /\ q.op = "issue" /\ UNCHANGED <<coupon, pin, misses>>
  <2>1. Issued(w, p).op = "issue"
    BY <1>0 DEF Issued, Request
  <2>2. /\ req[w].op # "idle" /\ Continue(w, Issued(w, p))
        /\ UNCHANGED <<coupon, pin, misses>>
    BY <1>3 DEF SkipPolicy
  <2> QED BY <2>1, <2>2 DEF Moves
<1>4. ASSUME NEW r \in Reservation, Checkin(w, r)
      PROVE  \E q : Moves(w, q) /\ q.op = "trigger" /\ UNCHANGED <<coupon, pin, misses>>
  <2> DEFINE q == [Idle EXCEPT !.op = "trigger", !.reservation = r,
                               !.holder = HolderOf[r]]
  <2>1. q.op = "trigger"
    BY DEF Idle
  <2>2. Accept(w, "checkin", q) /\ UNCHANGED <<coupon, pin, misses>>
    BY <1>4 DEF Checkin
  <2> HIDE DEF q
  <2> QED BY <2>1, <2>2 DEF Moves
<1>5. ASSUME issueForTrigger(w)
      PROVE  \E q : Moves(w, q) /\ q.op = "issue" /\ UNCHANGED <<coupon, pin, misses>>
  <2> DEFINE q == [req[w] EXCEPT !.op = "issue",
                                 !.read = Snapshot(PoliciesOn("checkin_completed"))]
  <2>1. q.op = "issue"
    BY <1>0 DEF Request
  <2>2. /\ req[w].op # "idle" /\ Continue(w, q)
        /\ UNCHANGED <<coupon, pin, misses>>
    BY <1>5 DEF issueForTrigger
  <2> HIDE DEF q
  <2> QED BY <2>1, <2>2 DEF Moves
<1>6. ASSUME NEW c \in Coupon, InsertCoupon(w, c)
      PROVE  \E q : Moves(w, q) /\ q.op # "miss" /\ UNCHANGED <<pin, misses>>
  <2> DEFINE q == IF req[w].reservation = NoReservation THEN Idle
                  ELSE Issued(w, req[w].policy)
  <2>1. q.op # "miss"
    BY <1>0, IdleOp DEF Issued, Request
  <2>2. req[w].op # "idle" /\ Continue(w, q) /\ UNCHANGED <<pin, misses>>
    BY <1>6 DEF InsertCoupon
  <2> HIDE DEF q
  <2> QED BY <2>1, <2>2 DEF Moves
<1> QED BY <1>1, <1>2, <1>3, <1>4, <1>5, <1>6 DEF IssueStep, StillFree

LEMMA CouponLooks ==
    ASSUME TypeOK, ExpiringIsPast, NEW w \in Worker, CouponStep(w)
    PROVE  /\ SameCoupons /\ UNCHANGED <<pin, misses>>
           /\ \E q : Moves(w, q) /\ q.op \notin {"insert", "miss"}
<1>1. ASSUME NEW c \in Coupon, FindExpired(w, c)
      PROVE  \E q : Moves(w, q) /\ q.op = "expire" /\ UNCHANGED <<coupon, pin, misses>>
  <2> DEFINE q == [Idle EXCEPT !.op = "expire", !.coupon = c]
  <2>1. q.op = "expire"
    BY DEF Idle
  <2>2. Accept(w, "coupon", q) /\ UNCHANGED <<coupon, pin, misses>>
    BY <1>1 DEF FindExpired
  <2> HIDE DEF q
  <2> QED BY <2>1, <2>2 DEF Moves
<1>2. ASSUME NEW c \in Coupon, NEW tried \in Pin, BeginRedeem(w, c, tried)
      PROVE  \E q : Moves(w, q) /\ q.op = "pin" /\ UNCHANGED <<coupon, pin, misses>>
  <2> DEFINE q == [Idle EXCEPT !.op = "pin", !.coupon = c, !.tried = tried]
  <2>1. q.op = "pin"
    BY DEF Idle
  <2>2. Accept(w, "redeem", q) /\ UNCHANGED <<coupon, pin, misses>>
    BY <1>2 DEF BeginRedeem
  <2> HIDE DEF q
  <2> QED BY <2>1, <2>2 DEF Moves
<1>3. ASSUME markExpired(w) \/ UseCoupon(w)
      PROVE  SameCoupons /\ Moves(w, Idle) /\ UNCHANGED <<pin, misses>>
  <2> DEFINE k == req[w].coupon
  <2>1. k \in Coupon /\ coupon[k].status # "none"
    BY <1>3 DEF markExpired, UseCoupon, TypeOK, ExpiringIsPast
  <2>2. PICK v \in {"used", "expired"} :
          coupon' = [coupon EXCEPT ![k].status = v]
    BY <1>3 DEF markExpired, UseCoupon
  <2>3. SameCoupons
    BY <2>1, <2>2 DEF SameCoupons, TypeOK, CouponRow
  <2>4. req[w].op # "idle" /\ Continue(w, Idle) /\ UNCHANGED <<pin, misses>>
    BY <1>3 DEF markExpired, UseCoupon, End
  <2> QED BY <2>3, <2>4 DEF Moves
<1> QED BY <1>1, <1>2, <1>3, IdleOp DEF CouponStep, SameCoupons

\* A request about to count a wrong PIN has read the count as it is.
CountKnown(q) == q.op = "miss" => q.failed = pin.failed

LEMMA PinMoves ==
    ASSUME TypeOK, NEW w \in Worker, PinStep(w)
    PROVE  /\ coupon' = coupon
           /\ \E q : /\ Moves(w, q) /\ q.op # "insert"
                     /\ \/ UNCHANGED <<pin, misses>> /\ CountKnown(q)
                        \/ q.op # "miss" /\ (CountMiss(w) \/ ResetPin(w))
<1>1. ASSUME NEW tried \in Pin, checkPin(w, tried)
      PROVE  \E q : /\ Moves(w, q) /\ q.op = "pin"
                    /\ UNCHANGED <<coupon, pin, misses>>
  <2> DEFINE q == [Idle EXCEPT !.op = "pin", !.tried = tried]
  <2>1. q.op = "pin"
    BY DEF Idle
  <2>2. Accept(w, "pin", q) /\ UNCHANGED <<coupon, pin, misses>>
    BY <1>1 DEF checkPin
  <2> HIDE DEF q
  <2> QED BY <2>1, <2>2 DEF Moves
<1>2. CASE verifyPinForStore(w)
  <2> DEFINE right == [Idle EXCEPT !.op = "match", !.coupon = req[w].coupon]
             wrong == [Idle EXCEPT !.op = "miss", !.failed = pin.failed]
  <2>1. right.op = "match" /\ wrong.op = "miss" /\ wrong.failed = pin.failed
    BY DEF Idle
  <2>2. /\ req[w].op # "idle"
        /\ Continue(w, right) \/ Continue(w, wrong)
        /\ UNCHANGED <<coupon, pin, misses>>
    BY <1>2 DEF verifyPinForStore
  <2> HIDE DEF right, wrong
  <2>3. CountKnown(right) /\ CountKnown(wrong)
    BY <2>1 DEF CountKnown
  <2> QED BY <2>1, <2>2, <2>3 DEF Moves
<1>3. CASE CountMiss(w)
  <2>1. coupon' = coupon /\ req[w].op # "idle" /\ Continue(w, Idle)
    BY <1>3 DEF CountMiss, End
  <2> QED BY <1>3, <2>1, IdleOp DEF Moves
<1>4. CASE ResetPin(w)
  <2> DEFINE use == [req[w] EXCEPT !.op = "use"]
  <2>1. use.op = "use"
    BY DEF TypeOK, Request
  <2>2. /\ coupon' = coupon /\ req[w].op # "idle"
        /\ Continue(w, Idle) \/ Continue(w, use)
    BY <1>4 DEF ResetPin, End
  <2> HIDE DEF use
  <2> QED BY <1>4, <2>1, <2>2, IdleOp DEF Moves
<1> QED BY <1>1, <1>2, <1>3, <1>4 DEF PinStep, CountKnown

\* A step of one statement, or of the clock, leaves the requests alone.
LEMMA NextMoves ==
    ASSUME [Next]_vars
    PROVE  \/ /\ req' = req
              /\ (overlapped' = overlapped) \/ AtOnce
              /\ \/ UNCHANGED <<coupon, pin, misses>>
                 \/ (\E h \in Holder : expireCoupons(h)) /\ UNCHANGED <<pin, misses>>
                 \/ (\E new \in Pin : setPin(new)) /\ coupon' = coupon
           \/ \E w \in Worker :
                 IssueStep(w) \/ CouponStep(w) \/ PinStep(w) \/ AbortRequest(w)
BY DEF Next, vars, Tick, PolicyStep, createPolicy, updatePolicy, deletePolicy,
       expireCoupons, setPin, AtOnce

\* What a step can do to the coupons there are and to the requests to insert one.
LEMMA NextLooks ==
    ASSUME TypeOK, ExpiringIsPast, [Next]_vars
    PROVE  \/ SameCoupons /\ Looked
           \/ \E w \in Worker, c \in Coupon : InsertCoupon(w, c)
<1>1. ASSUME NEW h \in Holder, expireCoupons(h)
      PROVE  SameCoupons
  BY <1>1 DEF SameCoupons, expireCoupons, TypeOK, CouponRow
<1>2. ASSUME NEW w \in Worker, NEW q, Moves(w, q), SameCoupons, StillFree(q)
      PROVE  Looked
  BY <1>2, MoveOne DEF Looked
<1>3. ASSUME NEW w \in Worker, IssueStep(w) \/ CouponStep(w) \/ PinStep(w) \/ AbortRequest(w)
      PROVE  (SameCoupons /\ Looked) \/ \E c \in Coupon : InsertCoupon(w, c)
  <2>1. CASE IssueStep(w)
    BY <1>2, <2>1, IssueLooks DEF SameCoupons
  <2>2. CASE CouponStep(w)
    BY <1>2, <2>2, CouponLooks DEF StillFree
  <2>3. CASE PinStep(w)
    BY <1>2, <2>3, PinMoves DEF SameCoupons, StillFree
  <2>4. CASE AbortRequest(w)
    BY <1>2, <2>4, IdleOp DEF AbortRequest, End, Moves, SameCoupons, StillFree
  <2> QED BY <1>3, <2>1, <2>2, <2>3, <2>4
<1> QED BY <1>1, <1>3, NextMoves DEF SameCoupons, Looked

LEMMA IssueInvInserted ==
    ASSUME TypeOK, Blank \notin Name, OneEach, HolderLocks,
           \A v \in Worker : StillFree(req[v]),
           NEW w \in Worker, NEW c \in Coupon, InsertCoupon(w, c)
    PROVE  IssueInv'
<1> DEFINE row == req[w].read[req[w].policy]
           new == [status |-> "active", holder |-> req[w].holder,
                   title |-> TitleOf(row), type |-> row.type,
                   reservation |-> req[w].reservation, expires |-> now + Validity]
           next == IF req[w].reservation = NoReservation THEN Idle
                   ELSE Issued(w, req[w].policy)
<1>1. /\ req[w].op = "insert" /\ coupon[c].status = "none"
      /\ coupon'[c] = new
      /\ \A d \in Coupon \ {c} : coupon'[d] = coupon[d]
      /\ Continue(w, next)
  BY DEF InsertCoupon, TypeOK
<1>2. row \in PolicyRow
  BY <1>1 DEF TypeOK, Request
<1>3. /\ new.status = "active" /\ new.holder = req[w].holder
      /\ new.type = row.type /\ new.title = row.name
      /\ new.reservation = req[w].reservation
  BY <1>2 DEF TitleOf, PolicyRow
<1>4. next.op \in {"idle", "issue"}
  BY IdleOp DEF Issued, TypeOK, Request
<1> HIDE DEF new, next, row
<1>5. /\ req'[w].op # "insert"
      /\ \A v \in Worker \ {w} : req'[v] = req[v]
  BY <1>1, <1>4 DEF Continue, TypeOK
<1>6. \A d \in Coupon : ~Twin(coupon[d], req[w])
  BY <1>1 DEF StillFree
<1>7. OneEach'
  BY <1>1, <1>3, <1>6 DEF OneEach, Twin, row
<1>8. ASSUME NEW v \in Worker PROVE StillFree(req[v])'
  <2>1. CASE v = w
    BY <1>5, <2>1 DEF StillFree
  <2>2. CASE v # w /\ req[v].op = "insert"
    <3>1. req[v].holder # req[w].holder
      BY <1>1, <2>2 DEF HolderLocks
    <3> QED BY <1>1, <1>3, <1>5, <2>2, <3>1 DEF StillFree, Twin
  <2>3. CASE v # w /\ req[v].op # "insert"
    BY <1>5, <2>3 DEF StillFree
  <2> QED BY <2>1, <2>2, <2>3
<1> QED BY <1>7, <1>8 DEF IssueInv

LEMMA IssueInvKept ==
    ASSUME TypeOK, ExpiringIsPast, Blank \notin Name, HolderLocks, IssueInv, [Next]_vars
    PROVE  IssueInv'
<1>1. CASE SameCoupons /\ Looked
  <2>1. OneEach'
    BY <1>1 DEF IssueInv, SameCoupons, OneEach
  <2>2. ASSUME NEW w \in Worker PROVE StillFree(req[w])'
    <3>1. StillFree(req'[w])
      BY <1>1 DEF Looked, IssueInv
    <3> QED BY <1>1, <3>1 DEF SameCoupons, StillFree, Twin
  <2> QED BY <2>1, <2>2 DEF IssueInv
<1>2. CASE \E w \in Worker, c \in Coupon : InsertCoupon(w, c)
  BY <1>2, IssueInvInserted DEF IssueInv
<1> QED BY <1>1, <1>2, NextLooks

LEMMA IssueInvInit == Init => IssueInv
BY IdleOp DEF Init, NoRow, IssueInv, OneEach, StillFree

\* However many requests run at once, nobody gets two coupons of one title and
\* type for one reservation, or claims two, provided that every policy has a name
\* and that between the look for a duplicate and the INSERT no other request
\* inserts for the same holder: what COUPON_ALREADY_CLAIMED promises is right up
\* to that one lock.
THEOREM CouponsUniqueUnderLock ==
    Blank \notin Name => (Spec /\ []HolderLocks => []OneEach)
<1> SUFFICES ASSUME Blank \notin Name PROVE Spec /\ []HolderLocks => []OneEach
  OBVIOUS
<1>1. TypeOK /\ GrantInv /\ HolderLocks /\ IssueInv /\ [Next]_vars => IssueInv'
  BY IssueInvKept DEF GrantInv
<1>2. IssueInv => OneEach
  BY DEF IssueInv
<1> QED BY <1>1, <1>2, IssueInvInit, GrantInvAlways, CouponsTypeCorrect, PTL DEF Spec

----------------------------------------------------------------------------
(* The PIN's lock *)

\* The row's counter is the number of misses, and the limit sets the lock.
Counted ==
    /\ misses = IF pin.failed < MAX_PIN_FAILURES THEN pin.failed ELSE MAX_PIN_FAILURES
    /\ pin.lockedUntil # 0 <=> pin.failed >= MAX_PIN_FAILURES

PinInv == Counted /\ \A w \in Worker : CountKnown(req[w])

LockExact == pin.lockedUntil # 0 <=> misses >= MAX_PIN_FAILURES

\* A lock on the store's row, from the read of the count of a wrong PIN to its
\* write: a step that leaves such a request waiting does not write the row. The
\* code takes none.
PinRowLocked ==
    \A w \in Worker : req[w].op = "miss" /\ req'[w] = req[w] => pin' = pin

\* What a step can do to the PIN's row and to the requests that have read it.
LEMMA NextPin ==
    ASSUME TypeOK, ExpiringIsPast, [Next]_vars
    PROVE  \/ /\ UNCHANGED <<pin, misses>>
              /\ \A v \in Worker : req'[v] = req[v] \/ CountKnown(req'[v])
           \/ \E w \in Worker :
                 /\ CountMiss(w) \/ ResetPin(w)
                 /\ req'[w].op # "miss"
                 /\ \A v \in Worker \ {w} : req'[v] = req[v]
           \/ req' = req /\ \E new \in Pin : setPin(new) /\ AtOnce
<1>2. ASSUME NEW w \in Worker, NEW q, Moves(w, q), CountKnown(q)
      PROVE  \A v \in Worker : req'[v] = req[v] \/ CountKnown(req'[v])
  BY <1>2, MoveOne
<1>3. ASSUME NEW w \in Worker, PinStep(w)
      PROVE  \/ /\ UNCHANGED <<pin, misses>>
                /\ \A v \in Worker : req'[v] = req[v] \/ CountKnown(req'[v])
             \/ /\ CountMiss(w) \/ ResetPin(w)
                /\ req'[w].op # "miss"
                /\ \A v \in Worker \ {w} : req'[v] = req[v]
  <2>1. PICK q : /\ Moves(w, q)
                 /\ \/ UNCHANGED <<pin, misses>> /\ CountKnown(q)
                    \/ q.op # "miss" /\ (CountMiss(w) \/ ResetPin(w))
    BY <1>3, PinMoves
  <2> QED BY <1>2, <2>1, MoveOne
<1>4. ASSUME NEW w \in Worker, IssueStep(w) \/ CouponStep(w) \/ AbortRequest(w)
      PROVE  /\ UNCHANGED <<pin, misses>>
             /\ \A v \in Worker : req'[v] = req[v] \/ CountKnown(req'[v])
  <2>1. PICK q : Moves(w, q) /\ q.op # "miss" /\ UNCHANGED <<pin, misses>>
    BY <1>4, IssueLooks, CouponLooks, IdleOp DEF AbortRequest, End, Moves
  <2> QED BY <1>2, <2>1 DEF CountKnown
<1> QED BY <1>3, <1>4, NextMoves DEF setPin

LEMMA PinInvKept ==
    ASSUME TypeOK, ExpiringIsPast, PinInv, PinRowLocked, [Next]_vars
    PROVE  PinInv'
<1>1. CASE /\ UNCHANGED <<pin, misses>>
           /\ \A v \in Worker : req'[v] = req[v] \/ CountKnown(req'[v])
  BY <1>1 DEF PinInv, Counted, CountKnown
<1>2. ASSUME NEW w \in Worker, CountMiss(w) \/ ResetPin(w), req'[w].op # "miss",
             \A v \in Worker \ {w} : req'[v] = req[v]
      PROVE  PinInv'
  <2>1. CASE CountMiss(w)
    <3>1. /\ pin'.failed = req[w].failed + 1
          /\ pin'.lockedUntil = IF req[w].failed + 1 >= MAX_PIN_FAILURES
                                THEN now + PIN_LOCK ELSE 0
          /\ misses' = OneMore(misses)
      BY <2>1 DEF CountMiss, TypeOK
    <3>2. now + PIN_LOCK # 0 /\ req[w].failed \in Nat /\ MAX_PIN_FAILURES \in Nat
      BY CouponsAssumption DEF TypeOK, Request
    <3>3. Counted /\ req[w].failed = pin.failed
      BY <2>1 DEF CountMiss, PinInv, CountKnown
    <3>4. Counted'
      BY <3>1, <3>2, <3>3 DEF Counted, OneMore
    <3>5. pin' # pin
      BY <3>1, <3>2, <3>3
    <3> QED BY <1>2, <3>4, <3>5 DEF PinInv, PinRowLocked, CountKnown
  <2>2. CASE ResetPin(w)
    <3>1. misses' = 0 /\ pin'.failed = 0 /\ pin'.lockedUntil = 0
      BY <2>2 DEF ResetPin, TypeOK
    <3>2. Counted'
      BY <3>1, CouponsAssumption DEF Counted
    <3> QED BY <1>2, <3>2 DEF PinInv, PinRowLocked, CountKnown
  <2> QED BY <1>2, <2>1, <2>2
<1>3. ASSUME req' = req, NEW new \in Pin, setPin(new)
      PROVE  PinInv'
  <2>1. misses' = 0 /\ pin'.failed = 0 /\ pin'.lockedUntil = 0
    BY <1>3 DEF setPin
  <2>2. Counted'
    BY <2>1, CouponsAssumption DEF Counted
  <2> QED BY <1>3, <2>2 DEF PinInv, PinRowLocked, CountKnown
<1> QED BY <1>1, <1>2, <1>3, NextPin

LEMMA PinInvInit == Init => PinInv
BY IdleOp, CouponsAssumption DEF Init, PinInv, Counted, CountKnown

LEMMA PinInvExact == TypeOK /\ PinInv => LockExact
BY CouponsAssumption DEF TypeOK, PinInv, Counted, LockExact

\* However many PINs are tried at once, the PIN is locked exactly from the last
\* try the limit allows on, and until a right PIN or a new one, provided that
\* nobody writes the store's row between the read of a wrong try's count and the
\* write of it.
THEOREM PinLockExact == Spec /\ [][PinRowLocked]_vars => []LockExact
<1>1. TypeOK /\ GrantInv /\ PinInv /\ [Next]_vars /\ [PinRowLocked]_vars => PinInv'
  <2>1. UNCHANGED vars => PinRowLocked
    BY DEF vars, PinRowLocked
  <2> QED BY <2>1, PinInvKept DEF GrantInv
<1> QED BY <1>1, PinInvInit, PinInvExact, GrantInvAlways, CouponsTypeCorrect, PTL DEF Spec

----------------------------------------------------------------------------
(* One request at a time *)

Alone ==
    \A v, w \in Worker : v # w => req[v].op = "idle" \/ req[w].op = "idle"

\* Until requests overlap, nobody is there to take what the locks would hold.
AloneInv == ~overlapped => Alone /\ PinInv /\ (Blank \notin Name => IssueInv)

LEMMA AloneLocks ==
    ASSUME TypeOK, ExpiringIsPast, [Next]_vars, ~overlapped => Alone, ~overlapped'
    PROVE  ~overlapped /\ Alone /\ Alone' /\ HolderLocks /\ PinRowLocked
<1>1. ASSUME NEW w \in Worker, NEW q, Moves(w, q)
      PROVE  /\ ~overlapped
             /\ \A v \in Worker \ {w} : req[v].op = "idle" /\ req'[v] = req[v]
  <2>1. \A v \in Worker \ {w} : req'[v] = req[v]
    BY <1>1, MoveOne
  <2>2. CASE req[w].op # "idle" /\ Continue(w, q)
    <3>1. ~overlapped
      BY <2>2 DEF Continue
    <3> QED BY <2>1, <2>2, <3>1 DEF Alone
  <2>3. ASSUME NEW endpoint, Accept(w, endpoint, q)
        PROVE  ~overlapped /\ \A v \in Worker \ {w} : req[v].op = "idle"
    BY <2>3 DEF Accept
  <2> QED BY <1>1, <2>1, <2>2, <2>3 DEF Moves
<1>2. ~overlapped /\ Alone'
  <2>1. CASE req' = req /\ (overlapped' = overlapped \/ AtOnce)
    <3>1. ~overlapped
      BY <2>1 DEF AtOnce
    <3> QED BY <2>1, <3>1 DEF Alone
  <2>2. ASSUME NEW w \in Worker,
               IssueStep(w) \/ CouponStep(w) \/ PinStep(w) \/ AbortRequest(w)
        PROVE  ~overlapped /\ Alone'
    <3>1. PICK q : Moves(w, q)
      BY <2>2, IssueLooks, CouponLooks, PinMoves DEF AbortRequest, End, Moves
    <3> QED BY <1>1, <3>1 DEF Alone
  <2> QED BY <2>1, <2>2, NextMoves
<1>3. HolderLocks
  BY <1>2 DEF Alone, HolderLocks
<1>4. ASSUME NEW v \in Worker, req[v].op = "miss", req'[v] = req[v]
      PROVE  pin' = pin
  <2>1. ASSUME NEW w \in Worker, CountMiss(w) \/ ResetPin(w), req'[w].op # "miss"
        PROVE  FALSE
    BY <1>2, <1>4, <2>1 DEF CountMiss, ResetPin, Alone
  <2>2. ASSUME AtOnce
        PROVE  FALSE
    BY <1>4, <2>2 DEF AtOnce
  <2> QED BY <2>1, <2>2, NextPin
<1> QED BY <1>2, <1>3, <1>4 DEF PinRowLocked

LEMMA AloneInvAlways == Spec => []AloneInv
<1>1. Init => AloneInv
  BY IdleOp, IssueInvInit, PinInvInit DEF Init, AloneInv, Alone
<1>2. TypeOK /\ GrantInv /\ AloneInv /\ [Next]_vars => AloneInv'
  <2> SUFFICES ASSUME TypeOK, GrantInv, AloneInv, [Next]_vars, ~overlapped'
               PROVE  Alone' /\ PinInv' /\ (Blank \notin Name => IssueInv')
    BY DEF AloneInv
  <2>1. ~overlapped /\ Alone' /\ HolderLocks /\ PinRowLocked
    BY AloneLocks DEF AloneInv, GrantInv
  <2> QED BY <2>1, PinInvKept, IssueInvKept DEF AloneInv, GrantInv
<1> QED BY <1>1, <1>2, GrantInvAlways, CouponsTypeCorrect, PTL DEF Spec

LEMMA FilledAlways == Spec => []Filled
<1>1. Init => Filled
  BY DEF Init, NoRow, Filled
<1>2. TypeOK /\ GrantInv /\ Filled /\ [Next]_vars => Filled'
  <2> SUFFICES ASSUME TypeOK, GrantInv, Filled, [Next]_vars
               PROVE  Filled'
    OBVIOUS
  <2>1. CASE SameCoupons
    BY <2>1 DEF SameCoupons, Filled
  <2>2. ASSUME NEW w \in Worker, NEW c \in Coupon, InsertCoupon(w, c)
        PROVE  Filled'
    <3>1. /\ coupon'[c].status = "active" /\ coupon'[c].holder = req[w].holder
          /\ \A d \in Coupon \ {c} : coupon'[d] = coupon[d]
      BY <2>2 DEF InsertCoupon, TypeOK
    <3>2. req[w].holder \in Holder
      BY <2>2 DEF InsertCoupon, TypeOK
    <3> QED BY <3>1, <3>2, CouponsAssumption DEF Filled
  <2> QED BY <2>1, <2>2, NextLooks DEF GrantInv
<1> QED BY <1>1, <1>2, GrantInvAlways, CouponsTypeCorrect, PTL DEF Spec

\* When requests come one at a time and every policy has a name, nobody gets two
\* coupons of one title and type for one reservation, or claims two: what
\* COUPON_ALREADY_CLAIMED promises, across changes of the policies, expiry and
\* use.
THEOREM CouponsIssuedOnce == Blank \notin Name => (Spec => []OneCouponEach)
<1> SUFFICES ASSUME Blank \notin Name PROVE Spec => []OneCouponEach
  OBVIOUS
<1>1. TypeOK /\ AloneInv /\ Filled => OneCouponEach
  <2> SUFFICES ASSUME TypeOK, AloneInv, Filled, ~overlapped,
                      NEW c \in Coupon, NEW d \in Coupon,
                      coupon[c].status # "none",
                      [coupon[c] EXCEPT !.status = "active", !.expires = 0]
                        = [coupon[d] EXCEPT !.status = "active", !.expires = 0]
               PROVE  c = d
    BY DEF OneCouponEach
  <2>1. /\ coupon[c].holder = coupon[d].holder
        /\ coupon[c].title = coupon[d].title
        /\ coupon[c].type = coupon[d].type
        /\ coupon[c].reservation = coupon[d].reservation
    <3> DEFINE bare(k) == [coupon[k] EXCEPT !.status = "active", !.expires = 0]
    <3>1. ASSUME NEW k \in Coupon
          PROVE  /\ bare(k).holder = coupon[k].holder
                 /\ bare(k).title = coupon[k].title
                 /\ bare(k).type = coupon[k].type
                 /\ bare(k).reservation = coupon[k].reservation
      BY DEF TypeOK, CouponRow
    <3>2. bare(c) = bare(d)
      OBVIOUS
    <3> HIDE DEF bare
    <3> QED BY <3>1, <3>2
  <2>2. coupon[d].status # "none"
    BY <2>1 DEF Filled
  <2> QED BY <2>1, <2>2 DEF AloneInv, IssueInv, OneEach
<1> QED BY <1>1, AloneInvAlways, FilledAlways, CouponsTypeCorrect, PTL

\* When requests come one at a time, the store's PIN is locked exactly from the
\* last try the limit allows on: a right PIN or a new one clears it.
THEOREM PinLockCounts == Spec => []LockMatchesMisses
<1>1. TypeOK /\ AloneInv => LockMatchesMisses
  BY PinInvExact DEF AloneInv, LockExact, LockMatchesMisses
<1> QED BY <1>1, AloneInvAlways, CouponsTypeCorrect, PTL
=============================================================================

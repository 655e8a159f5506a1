--------------------------- MODULE AccountsProofs ---------------------------
(***************************************************************************)
(* Theorems about StoreAccounts, for any stores, staff, codes, workers and *)
(* endpoints.                                                              *)
(***************************************************************************)
EXTENDS StoreAccounts, FiniteSetTheorems, TLAPS

----------------------------------------------------------------------------
(* Type correctness *)

\* A request names the row its step is about.
WellFormed(q) ==
    /\ q.op \in {"switchStore", "addStore", "changePassword", "withdraw",
                 "closeStore", "closing", "issue", "book"}
          => q.store \in Store
    /\ q.op \in {"createStaff", "reissue", "redeem"} => q.code \in Code
    /\ q.op = "revoke" => q.staff \in Staff

ReqTyped ==
    /\ req \in [Worker -> Request]
    /\ overlapped \in BOOLEAN
    /\ \A w \in Worker : WellFormed(req[w])

DataTyped ==
    /\ owner \in {"none", "active", "withdrawn"}
    /\ store \in [Store -> {"absent", "open", "closed"}]
    /\ tokens \in [Store -> Nat]
    /\ access \in SUBSET Store
    /\ staff \in [Staff -> {"none", "active", "revoked"}]
    /\ code \in [Code -> CodeStates]
    /\ sessions \in [Code -> Nat]
    /\ booked \in SUBSET Store

LEMMA TypeOKParts == TypeOK <=> DataTyped /\ ReqTyped
BY DEF TypeOK, DataTyped, ReqTyped, WellFormed

\* The requests a step may go on to.
Steps == {q \in Request : WellFormed(q)}

LEMMA IdleTyped == Idle \in Steps
BY DEF Idle, Steps, Request, WellFormed, Ops

LEMMA StepTyped ==
    ASSUME NEW op \in Ops, NEW s \in Store \union {NoStore},
           op \notin {"createStaff", "reissue", "redeem", "revoke"},
           s \in Store \/ op \in {"pick", "withdrawing"}
    PROVE  /\ Step(op, s) \in Steps
           /\ Step(op, s).op = op
<1>1. Step(op, s) \in Request
  BY DEF Step, Idle, Request
<1>2. Step(op, s).op = op /\ Step(op, s).store = s
  BY DEF Step, Idle
<1> QED BY <1>1, <1>2 DEF Steps, WellFormed

LEMMA CodeStepTyped ==
    ASSUME NEW op \in {"createStaff", "reissue", "redeem"}, NEW c \in Code
    PROVE  [Idle EXCEPT !.op = op, !.code = c] \in Steps
BY DEF Steps, WellFormed, Idle, Request, Ops

LEMMA AcceptTyped ==
    ASSUME ReqTyped, NEW w \in Worker, NEW endpoint, NEW q \in Steps,
           Accept(w, endpoint, q)
    PROVE  ReqTyped'
BY DEF Accept, ReqTyped, Steps

LEMMA ContinueTyped ==
    ASSUME ReqTyped, NEW w \in Worker, NEW q \in Steps, Continue(w, q)
    PROVE  ReqTyped'
BY DEF Continue, ReqTyped, Steps

LEMMA EndTyped ==
    ASSUME ReqTyped, NEW w \in Worker, End(w)
    PROVE  ReqTyped'
BY IdleTyped, ContinueTyped DEF End

LEMMA CloseTyped ==
    ASSUME DataTyped, NEW S, closeStoresInTx(S)
    PROVE  /\ store' \in [Store -> {"absent", "open", "closed"}]
           /\ tokens' \in [Store -> Nat]
           /\ staff' \in [Staff -> {"none", "active", "revoked"}]
           /\ code' \in [Code -> CodeStates]
           /\ sessions' \in [Code -> Nat]
BY DEF closeStoresInTx, DataTyped, CodeStates

LEMMA SessionStepTyped ==
    ASSUME TypeOK, NEW w \in Worker, SessionStep(w)
    PROVE  TypeOK'
<1> SUFFICES DataTyped' /\ ReqTyped'
  BY TypeOKParts DEF TypeOK, DataTyped, ReqTyped, WellFormed
<1>0. DataTyped /\ ReqTyped
  BY TypeOKParts
<1>1. CASE BeginLogin(w)
  <2>1. DataTyped'
    BY <1>0, <1>1 DEF BeginLogin, DataTyped
  <2>2. Step("pick", NoStore) \in Steps
    BY StepTyped DEF Ops
  <2> QED BY <1>0, <1>1, <2>1, <2>2, AcceptTyped DEF BeginLogin
<1>2. CASE issueOwnerSession(w)
  <2>1. req[w].store \in Store
    BY <1>0, <1>2 DEF issueOwnerSession, ReqTyped, WellFormed
  <2>2. DataTyped'
    BY <1>0, <1>2, <2>1 DEF issueOwnerSession, DataTyped
  <2> QED BY <1>0, <1>2, <2>2, EndTyped DEF issueOwnerSession
<1>3. ASSUME NEW s \in Store,
             \/ Register(w, s)
             \/ findMostRecentOpenStore(w, s)
             \/ SwitchStore(w, s)
      PROVE  DataTyped' /\ ReqTyped'
  <2>1. Step("issue", s) \in Steps
    BY StepTyped DEF Ops
  <2>2. CASE Register(w, s)
    BY <1>0, <2>1, <2>2, AcceptTyped DEF Register, DataTyped
  <2>3. CASE findMostRecentOpenStore(w, s)
    BY <1>0, <2>1, <2>3, ContinueTyped DEF findMostRecentOpenStore, DataTyped
  <2>4. CASE SwitchStore(w, s)
    <3>1. tokens' \in [Store -> Nat]
      BY <1>0, <2>4 DEF SwitchStore, DataTyped
    <3> QED BY <1>0, <2>1, <2>4, <3>1, ContinueTyped DEF SwitchStore, DataTyped
  <2> QED BY <1>3, <2>2, <2>3, <2>4
<1> QED BY <1>1, <1>2, <1>3 DEF SessionStep

LEMMA OwnerStepTyped ==
    ASSUME TypeOK, NEW w \in Worker, OwnerStep(w)
    PROVE  TypeOK'
<1> SUFFICES DataTyped' /\ ReqTyped'
  BY TypeOKParts DEF TypeOK, DataTyped, ReqTyped, WellFormed
<1>0. DataTyped /\ ReqTyped
  BY TypeOKParts
<1>1. ASSUME NEW s \in Store, NEW endpoint \in OwnerEndpoints,
             findOwnerOfStore(w, s, endpoint)
      PROVE  DataTyped' /\ ReqTyped'
  <2>1. Step(endpoint, s) \in Steps
    BY StepTyped DEF Ops, OwnerEndpoints
  <2> QED BY <1>0, <1>1, <2>1, AcceptTyped DEF findOwnerOfStore, DataTyped
<1>2. ASSUME NEW s \in Store, AddStore(w, s)
      PROVE  DataTyped' /\ ReqTyped'
  <2>1. Step("issue", s) \in Steps
    BY StepTyped DEF Ops
  <2> QED BY <1>0, <1>2, <2>1, ContinueTyped DEF AddStore, DataTyped
<1>3. CASE ChangePassword(w)
  BY <1>0, <1>3, EndTyped DEF ChangePassword, DataTyped
<1>4. CASE BeginWithdraw(w)
  <2>1. [Step("withdrawing", NoStore) EXCEPT !.stores = OpenStores] \in Steps
    BY DEF Step, Idle, Steps, Request, Ops, WellFormed, OpenStores
  <2> QED BY <1>0, <1>4, <2>1, ContinueTyped DEF BeginWithdraw, DataTyped
<1>5. CASE CommitWithdraw(w)
  BY <1>0, <1>5, CloseTyped, EndTyped DEF CommitWithdraw, DataTyped
<1>6. CASE BeginClose(w)
  <2>1. req[w].store \in Store
    BY <1>0, <1>6 DEF BeginClose, ReqTyped, WellFormed
  <2>2. Step("closing", req[w].store) \in Steps
    BY <2>1, StepTyped DEF Ops
  <2> QED BY <1>0, <1>6, <2>2, ContinueTyped DEF BeginClose, DataTyped
<1>7. CASE CommitClose(w)
  <2>1. Step("pick", NoStore) \in Steps
    BY StepTyped DEF Ops
  <2> QED BY <1>0, <1>7, <2>1, CloseTyped, ContinueTyped
            DEF CommitClose, DataTyped
<1> QED BY <1>1, <1>2, <1>3, <1>4, <1>5, <1>6, <1>7 DEF OwnerStep

LEMMA StaffStepTyped ==
    ASSUME TypeOK, NEW w \in Worker, StaffStep(w)
    PROVE  TypeOK'
<1> SUFFICES DataTyped' /\ ReqTyped'
  BY TypeOKParts DEF TypeOK, DataTyped, ReqTyped, WellFormed
<1>0. DataTyped /\ ReqTyped
  BY TypeOKParts
<1>1. ASSUME NEW c \in Code,
             BeginCreateStaff(w, c) \/ BeginReissue(w, c) \/ BeginRedeem(w, c)
      PROVE  DataTyped' /\ ReqTyped'
  <2>1. CASE BeginCreateStaff(w, c)
    BY <1>0, <2>1, CodeStepTyped, AcceptTyped DEF BeginCreateStaff, DataTyped
  <2>2. CASE BeginReissue(w, c)
    BY <1>0, <2>2, CodeStepTyped, AcceptTyped DEF BeginReissue, DataTyped
  <2>3. CASE BeginRedeem(w, c)
    BY <1>0, <2>3, CodeStepTyped, AcceptTyped DEF BeginRedeem, DataTyped
  <2> QED BY <1>1, <2>1, <2>2, <2>3
<1>2. ASSUME NEW m \in Staff, BeginRevoke(w, m)
      PROVE  DataTyped' /\ ReqTyped'
  <2>1. [Idle EXCEPT !.op = "revoke", !.staff = m] \in Steps
    BY DEF Steps, WellFormed, Idle, Request, Ops
  <2> QED BY <1>0, <1>2, <2>1, AcceptTyped DEF BeginRevoke, DataTyped
<1>3. CASE CommitCreateStaff(w)
  BY <1>0, <1>3, EndTyped DEF CommitCreateStaff, DataTyped, CodeStates
<1>4. CASE CommitReissue(w)
  BY <1>0, <1>4, EndTyped DEF CommitReissue, DataTyped, CodeStates
<1>5. CASE CommitRevoke(w)
  BY <1>0, <1>5, EndTyped DEF CommitRevoke, DataTyped, CodeStates
<1>6. CASE CommitRedeem(w)
  <2>1. req[w].code \in Code
    BY <1>0, <1>6 DEF CommitRedeem, ReqTyped, WellFormed
  <2>2. sessions' \in [Code -> Nat] /\ code' \in [Code -> CodeStates]
    BY <1>0, <1>6, <2>1 DEF CommitRedeem, DataTyped, CodeStates
  <2> QED BY <1>0, <1>6, <2>2, EndTyped DEF CommitRedeem, DataTyped
<1> QED BY <1>1, <1>2, <1>3, <1>4, <1>5, <1>6 DEF StaffStep

LEMMA BookingStepTyped ==
    ASSUME TypeOK, NEW w \in Worker, BookingStep(w)
    PROVE  TypeOK'
<1> SUFFICES DataTyped' /\ ReqTyped'
  BY TypeOKParts DEF TypeOK, DataTyped, ReqTyped, WellFormed
<1>0. DataTyped /\ ReqTyped
  BY TypeOKParts
<1>1. ASSUME NEW s \in Store, BeginBooking(w, s)
      PROVE  DataTyped' /\ ReqTyped'
  <2>1. Step("book", s) \in Steps
    BY StepTyped DEF Ops
  <2> QED BY <1>0, <1>1, <2>1, AcceptTyped DEF BeginBooking, DataTyped
<1>2. CASE CommitBooking(w)
  <2>1. req[w].store \in Store
    BY <1>0, <1>2 DEF CommitBooking, ReqTyped, WellFormed
  <2> QED BY <1>0, <1>2, <2>1, EndTyped DEF CommitBooking, DataTyped
<1> QED BY <1>1, <1>2 DEF BookingStep

\* Every value stays in its type: a store, a staff member and an invite code
\* have one of the states of the schema, and a request names rows that exist.
THEOREM AccountsTypeCorrect == Spec => []TypeOK
<1>1. Init => TypeOK
  <2>1. Init => DataTyped
    BY DEF Init, DataTyped, CodeStates
  <2>2. ASSUME Init PROVE ReqTyped
    <3>1. \A w \in Worker : req[w] = Idle
      BY <2>2 DEF Init
    <3> QED BY <2>2, <3>1, IdleTyped DEF Init, ReqTyped, Steps
  <2> QED BY <2>1, <2>2, TypeOKParts
<1>2. TypeOK /\ [Next]_vars => TypeOK'
  <2> SUFFICES ASSUME TypeOK, [Next]_vars PROVE TypeOK'
    OBVIOUS
  <2>1. CASE UNCHANGED vars
    BY <2>1 DEF vars, TypeOK
  <2>2. ASSUME NEW w \in Worker, AbortRequest(w)
        PROVE  TypeOK'
    <3>1. DataTyped' /\ ReqTyped'
      BY <2>2, TypeOKParts, EndTyped DEF AbortRequest, DataTyped
    <3> QED BY <3>1 DEF TypeOK, DataTyped, ReqTyped, WellFormed
  <2>3. ASSUME NEW s \in Store,
               Refresh(s) \/ AccessExpires(s) \/ Logout(s) \/ EndBookings(s)
        PROVE  TypeOK'
    <3>1. UNCHANGED <<owner, store, staff, code, sessions, req, overlapped>>
      BY <2>3 DEF Refresh, AccessExpires, Logout, EndBookings
    <3>2. /\ tokens' \in [Store -> Nat]
          /\ access' \in SUBSET Store
          /\ booked' \in SUBSET Store
      BY <2>3 DEF Refresh, AccessExpires, Logout, EndBookings, TypeOK
    <3> QED BY <3>1, <3>2 DEF TypeOK
  <2>4. ASSUME NEW c \in Code, LogoutStaff(c) \/ ExpireCode(c)
        PROVE  TypeOK'
    <3>1. UNCHANGED <<owner, store, tokens, access, staff, booked, req,
                      overlapped>>
      BY <2>4 DEF LogoutStaff, ExpireCode
    <3>2. /\ sessions' \in [Code -> Nat]
          /\ code' \in [Code -> CodeStates]
      BY <2>4 DEF LogoutStaff, ExpireCode, TypeOK, CodeStates
    <3> QED BY <3>1, <3>2 DEF TypeOK
  <2> QED BY <2>1, <2>2, <2>3, <2>4, SessionStepTyped, OwnerStepTyped,
             StaffStepTyped, BookingStepTyped DEF Next
<1> QED BY <1>1, <1>2, PTL DEF Spec

----------------------------------------------------------------------------
(* Staff sessions *)

\* The staff member and the store for which code c was issued are active and
\* open.
Served(c) == staff[StaffOf[c]] = "active" /\ Open(StoreOf[StaffOf[c]])

\* A request that is redeeming a code read it live; for as long as nobody uses
\* or revokes it, its staff member is active and its store is open.
RedeemingServed ==
    \A w \in Worker : req[w].op = "redeem" =>
        /\ code[req[w].code] # "none"
        /\ code[req[w].code] \in Unused => Served(req[w].code)

Issues(w) == req[w].op \in {"createStaff", "reissue"}

\* A code that is being issued does not exist yet, and one request issues it.
IssuedOnce ==
    /\ \A w \in Worker : Issues(w) => code[req[w].code] = "none"
    /\ \A v, w \in Worker :
          Issues(v) /\ Issues(w) /\ req[v].code = req[w].code => v = w

SessionInv ==
    /\ StaffSessionsAreLive
    /\ InviteUsedOnce
    /\ RedeemingServed
    /\ IssuedOnce

\* A step of w that goes on to neither redeeming nor issuing, makes no session
\* and no usable code, and takes the staff member or the store from a code only
\* together with its sessions and its use.
LEMMA OtherStep ==
    ASSUME TypeOK, SessionInv, NEW w \in Worker, NEW q,
           q.op \notin {"redeem", "createStaff", "reissue"},
           req' = [req EXCEPT ![w] = q],
           \A c \in Code : sessions'[c] \in {0, sessions[c]},
           \A c \in Code : code'[c] = "none" <=> code[c] = "none",
           \A c \in Code : code'[c] \in Unused => code[c] \in Unused,
           \A c \in Code : code[c] = "used" => code'[c] = "used",
           \A c \in Code : Served(c) =>
              Served(c)' \/ (sessions'[c] = 0 /\ code'[c] \notin Unused)
    PROVE  SessionInv'
<1>2. \A v \in Worker : /\ req'[v].op = "redeem" => req'[v] = req[v]
                        /\ Issues(v)' => Issues(v) /\ req'[v] = req[v]
  BY DEF TypeOK, Issues
<1>3. \A v \in Worker : /\ req[v].op = "redeem" => req[v].code \in Code
                        /\ Issues(v) => req[v].code \in Code
  BY DEF TypeOK, Issues
<1>4. StaffSessionsAreLive'
  <2> SUFFICES ASSUME NEW c \in Code, sessions'[c] > 0
               PROVE  code'[c] = "used" /\ Served(c)'
    BY DEF StaffSessionsAreLive, Served
  <2>1. sessions[c] > 0 /\ sessions'[c] # 0
    BY DEF TypeOK
  <2>2. code[c] = "used" /\ Served(c)
    BY <2>1 DEF SessionInv, StaffSessionsAreLive, Served
  <2> QED BY <2>1, <2>2
<1>5. InviteUsedOnce'
  BY DEF SessionInv, InviteUsedOnce
<1>6. RedeemingServed'
  BY <1>2, <1>3 DEF SessionInv, RedeemingServed
<1>7. IssuedOnce'
  BY <1>2, <1>3 DEF SessionInv, IssuedOnce
<1> QED BY <1>4, <1>5, <1>6, <1>7 DEF SessionInv

\* As OtherStep, for a step that leaves staff, codes and sessions alone.
LEMMA QuietStep ==
    ASSUME TypeOK, SessionInv, NEW w \in Worker, NEW q,
           q.op \notin {"redeem", "createStaff", "reissue"},
           req' = [req EXCEPT ![w] = q],
           UNCHANGED <<staff, code, sessions>>,
           \A s \in Store : Open(s) => store'[s] = "open"
    PROVE  SessionInv'
<1>1. \A c \in Code : Served(c) => Served(c)'
  BY AccountsAssumption DEF Served, Open
<1>2. \A c \in Code :
         /\ sessions'[c] \in {0, sessions[c]}
         /\ code'[c] = "none" <=> code[c] = "none"
         /\ code'[c] \in Unused => code[c] \in Unused
         /\ code[c] = "used" => code'[c] = "used"
  OBVIOUS
<1>3. \A c \in Code : Served(c) =>
         Served(c)' \/ (sessions'[c] = 0 /\ code'[c] \notin Unused)
  BY <1>1
<1> QED BY <1>2, <1>3, OtherStep

\* A step of no worker.
LEMMA OutsideStep ==
    ASSUME TypeOK, SessionInv, UNCHANGED <<store, staff, code, req>>,
           \A c \in Code : sessions'[c] \in {0, sessions[c], sessions[c] - 1},
           sessions' \in [Code -> Nat]
    PROVE  SessionInv'
<1>1. StaffSessionsAreLive' /\ InviteUsedOnce'
  BY DEF TypeOK, SessionInv, StaffSessionsAreLive, InviteUsedOnce, Open
<1>2. RedeemingServed' /\ IssuedOnce'
  BY DEF SessionInv, RedeemingServed, IssuedOnce, Served, Open, Issues
<1> QED BY <1>1, <1>2 DEF SessionInv

LEMMA IdleOp == Idle.op = "idle"
BY DEF Idle

LEMMA StepOp == \A op, s : Step(op, s).op = op
BY DEF Step, Idle

LEMMA SessionStepKeeps ==
    ASSUME TypeOK, SessionInv, NEW w \in Worker, SessionStep(w)
    PROVE  SessionInv'
<1>1. UNCHANGED <<staff, code, sessions>>
  BY DEF SessionStep, BeginLogin, issueOwnerSession, Register,
         findMostRecentOpenStore, SwitchStore
<1>2. \A s \in Store : Open(s) => store'[s] = "open"
  BY DEF SessionStep, BeginLogin, issueOwnerSession, Register, TypeOK, Open,
         findMostRecentOpenStore, SwitchStore
<1>3. PICK q \in {Idle, Step("pick", NoStore)} \union
                 {Step("issue", s) : s \in Store} :
         req' = [req EXCEPT ![w] = q]
  BY DEF SessionStep, BeginLogin, issueOwnerSession, Register, Accept, End,
         Continue, findMostRecentOpenStore, SwitchStore
<1>4. q.op \in {"idle", "pick", "issue"}
  BY <1>3, IdleOp, StepOp
<1> QED BY <1>1, <1>2, <1>3, <1>4, QuietStep

\* Closing the stores S ends the sessions and the codes of their staff.
LEMMA ClosingKeeps ==
    ASSUME TypeOK, SessionInv, NEW w \in Worker, NEW q,
           q.op \notin {"redeem", "createStaff", "reissue"},
           req' = [req EXCEPT ![w] = q],
           NEW S, closeStoresInTx(S)
    PROVE  SessionInv'
<1>1. \A c \in Code :
         /\ sessions'[c] \in {0, sessions[c]}
         /\ code'[c] = "none" <=> code[c] = "none"
         /\ code'[c] \in Unused => code[c] \in Unused
         /\ code[c] = "used" => code'[c] = "used"
  BY DEF closeStoresInTx, Unused
<1>2. ASSUME NEW c \in Code, Served(c)
      PROVE  Served(c)' \/ (sessions'[c] = 0 /\ code'[c] \notin Unused)
  <2>1. StaffOf[c] \in Staff /\ StoreOf[StaffOf[c]] \in Store
    BY AccountsAssumption
  <2>2. CASE StoreOf[StaffOf[c]] \in S
    BY <2>2 DEF closeStoresInTx, Unused
  <2>3. CASE StoreOf[StaffOf[c]] \notin S
    <3>1. staff'[StaffOf[c]] = staff[StaffOf[c]]
      BY <2>1, <2>3 DEF closeStoresInTx
    <3>2. store'[StoreOf[StaffOf[c]]] = store[StoreOf[StaffOf[c]]]
      BY <2>1, <2>3 DEF closeStoresInTx
    <3> QED BY <1>2, <3>1, <3>2 DEF Served, Open
  <2> QED BY <2>2, <2>3
<1> QED BY <1>1, <1>2, OtherStep

LEMMA OwnerStepKeeps ==
    ASSUME TypeOK, SessionInv, NEW w \in Worker, OwnerStep(w)
    PROVE  SessionInv'
<1>1. ASSUME NEW s \in Store, NEW endpoint \in OwnerEndpoints,
             findOwnerOfStore(w, s, endpoint)
      PROVE  SessionInv'
  <2>1. Step(endpoint, s).op \notin {"redeem", "createStaff", "reissue"}
    BY StepOp DEF OwnerEndpoints
  <2> QED BY <1>1, <2>1, QuietStep DEF findOwnerOfStore, Accept, Open
<1>2. ASSUME NEW s \in Store, AddStore(w, s)
      PROVE  SessionInv'
  <2>1. \A t \in Store : Open(t) => store'[t] = "open"
    BY <1>2 DEF AddStore, TypeOK, Open
  <2>2. Step("issue", s).op = "issue"
    BY StepOp
  <2> QED BY <1>2, <2>1, <2>2, QuietStep DEF AddStore, Continue
<1>3. CASE ChangePassword(w)
  BY <1>3, IdleOp, QuietStep DEF ChangePassword, End, Continue, Open
<1>4. CASE BeginWithdraw(w)
  <2>1. [Step("withdrawing", NoStore) EXCEPT !.stores = OpenStores].op
           = "withdrawing"
    BY DEF Step, Idle
  <2> QED BY <1>4, <2>1, QuietStep DEF BeginWithdraw, Continue, Open
<1>5. CASE CommitWithdraw(w)
  BY <1>5, IdleOp, ClosingKeeps DEF CommitWithdraw, End, Continue
<1>6. CASE BeginClose(w)
  BY <1>6, StepOp, QuietStep DEF BeginClose, Continue, Open
<1>7. CASE CommitClose(w)
  BY <1>7, StepOp, ClosingKeeps DEF CommitClose, Continue
<1> QED BY <1>1, <1>2, <1>3, <1>4, <1>5, <1>6, <1>7 DEF OwnerStep

LEMMA BookingStepKeeps ==
    ASSUME TypeOK, SessionInv, NEW w \in Worker, BookingStep(w)
    PROVE  SessionInv'
<1>1. ASSUME NEW s \in Store, BeginBooking(w, s)
      PROVE  SessionInv'
  <2>1. Step("book", s).op = "book"
    BY StepOp
  <2> QED BY <1>1, <2>1, QuietStep DEF BeginBooking, Accept, Open
<1>2. CASE CommitBooking(w)
  BY <1>2, IdleOp, QuietStep DEF CommitBooking, End, Continue, Open
<1> QED BY <1>1, <1>2 DEF BookingStep

\* The begin of a request about code c: nothing is written, and what SessionInv
\* says of the request holds of the code it read.
LEMMA CodeBeginKeeps ==
    ASSUME TypeOK, SessionInv, NEW w \in Worker, NEW c \in Code,
           NEW op \in {"createStaff", "reissue", "redeem"},
           req' = [req EXCEPT ![w] = [Idle EXCEPT !.op = op, !.code = c]],
           UNCHANGED <<store, staff, code, sessions>>,
           op = "redeem" => code[c] # "none" /\ Served(c),
           op # "redeem" => FreshCode(c)
    PROVE  SessionInv'
<1>1. /\ req'[w].op = op /\ req'[w].code = c
      /\ \A v \in Worker \ {w} : req'[v] = req[v]
  BY DEF TypeOK, Idle
<1>2. StaffSessionsAreLive' /\ InviteUsedOnce'
  BY DEF SessionInv, StaffSessionsAreLive, InviteUsedOnce, Open
<1>3. RedeemingServed'
  BY <1>1 DEF SessionInv, RedeemingServed, Served, Open
<1>4. IssuedOnce'
  BY <1>1 DEF SessionInv, IssuedOnce, Issues, FreshCode
<1> QED BY <1>2, <1>3, <1>4 DEF SessionInv

\* A new code appears, alone or in place of the staff member's unused ones: no
\* request can be redeeming it, and no other is issuing it.
LEMMA IssueKeeps ==
    ASSUME TypeOK, SessionInv, NEW w \in Worker, Issues(w), End(w),
           UNCHANGED <<store, sessions>>,
           \A m \in Staff : staff[m] = "active" => staff'[m] = "active",
           \A c \in Code \ {req[w].code} :
              code'[c] = code[c]
              \/ (code[c] \in Unused /\ code'[c] = "revoked")
    PROVE  SessionInv'
<1> DEFINE new == req[w].code
<1>1. new \in Code /\ code[new] = "none"
  BY DEF TypeOK, SessionInv, IssuedOnce, Issues
<1>2. /\ req'[w].op = "idle"
      /\ \A v \in Worker \ {w} : req'[v] = req[v]
  BY IdleOp DEF TypeOK, End, Continue
<1>3. \A c \in Code : Served(c) => Served(c)'
  BY AccountsAssumption DEF Served, Open
<1>4. StaffSessionsAreLive'
  <2> SUFFICES ASSUME NEW c \in Code, sessions[c] > 0
               PROVE  code'[c] = "used" /\ Served(c)'
    BY DEF StaffSessionsAreLive, Served
  <2>1. code[c] = "used" /\ Served(c)
    BY DEF SessionInv, StaffSessionsAreLive, Served
  <2> QED BY <1>1, <1>3, <2>1 DEF Unused
<1>5. InviteUsedOnce'
  BY DEF SessionInv, InviteUsedOnce
<1>6. RedeemingServed'
  <2>1. \A v \in Worker : req'[v].op = "redeem" =>
          /\ req'[v] = req[v]
          /\ req[v].code \in Code \ {new}
          /\ code[req[v].code] # "none"
    BY <1>1, <1>2 DEF TypeOK, SessionInv, RedeemingServed
  <2>2. \A c \in Code \ {new} :
          /\ code[c] # "none" => code'[c] # "none"
          /\ code'[c] \in Unused => code[c] \in Unused
    BY DEF Unused
  <2> QED BY <1>3, <2>1, <2>2 DEF SessionInv, RedeemingServed
<1>7. IssuedOnce'
  <2>1. \A v \in Worker : Issues(v)' =>
          /\ v # w /\ req'[v] = req[v] /\ Issues(v)
          /\ req[v].code \in Code \ {new} /\ code[req[v].code] = "none"
    BY <1>2 DEF TypeOK, SessionInv, IssuedOnce, Issues
  <2> QED BY <2>1 DEF SessionInv, IssuedOnce, Unused
<1> QED BY <1>4, <1>5, <1>6, <1>7 DEF SessionInv

\* The request that wins the code starts its one session.
LEMMA RedeemKeeps ==
    ASSUME TypeOK, SessionInv, NEW w \in Worker, CommitRedeem(w)
    PROVE  SessionInv'
<1> DEFINE used == req[w].code
<1>1. used \in Code /\ code[used] \in Unused /\ Served(used)
  BY DEF TypeOK, CommitRedeem, SessionInv, RedeemingServed
<1>2. sessions[used] = 0
  BY <1>1 DEF TypeOK, SessionInv, StaffSessionsAreLive, Unused
<1>3. /\ req'[w].op = "idle"
      /\ \A v \in Worker \ {w} : req'[v] = req[v]
  BY IdleOp DEF CommitRedeem, TypeOK, End, Continue
<1>4. \A c \in Code : Served(c)' <=> Served(c)
  BY DEF CommitRedeem, Served, Open
<1>5. /\ code'[used] = "used" /\ sessions'[used] = 1
      /\ \A c \in Code \ {used} : code'[c] = code[c] /\ sessions'[c] = sessions[c]
  BY <1>1, <1>2 DEF CommitRedeem, TypeOK
<1>6. StaffSessionsAreLive'
  BY <1>1, <1>4, <1>5 DEF SessionInv, StaffSessionsAreLive, Served
<1>7. InviteUsedOnce'
  BY <1>5 DEF SessionInv, InviteUsedOnce
<1>8. RedeemingServed'
  <2>1. \A v \in Worker : req'[v].op = "redeem" =>
          v # w /\ req'[v] = req[v] /\ req[v].code \in Code
    BY <1>3 DEF TypeOK
  <2> QED BY <1>4, <1>5, <2>1 DEF SessionInv, RedeemingServed, Unused
<1>9. IssuedOnce'
  <2>1. \A v \in Worker : Issues(v)' =>
          /\ v # w /\ req'[v] = req[v] /\ Issues(v)
          /\ req[v].code \in Code /\ code[req[v].code] = "none"
    BY <1>3 DEF TypeOK, SessionInv, IssuedOnce, Issues
  <2> QED BY <1>1, <1>5, <2>1 DEF SessionInv, IssuedOnce, Unused
<1> QED BY <1>6, <1>7, <1>8, <1>9 DEF SessionInv

LEMMA RevokeKeeps ==
    ASSUME TypeOK, SessionInv, NEW w \in Worker, CommitRevoke(w)
    PROVE  SessionInv'
<1>1. \A c \in Code :
         /\ sessions'[c] \in {0, sessions[c]}
         /\ code'[c] = "none" <=> code[c] = "none"
         /\ code'[c] \in Unused => code[c] \in Unused
         /\ code[c] = "used" => code'[c] = "used"
  BY DEF CommitRevoke, Unused
<1>2. ASSUME NEW c \in Code, Served(c)
      PROVE  Served(c)' \/ (sessions'[c] = 0 /\ code'[c] \notin Unused)
  <2>1. CASE StaffOf[c] = req[w].staff
    BY <2>1 DEF CommitRevoke, Unused
  <2>2. CASE StaffOf[c] # req[w].staff
    <3>1. StaffOf[c] \in Staff
      BY AccountsAssumption
    <3>2. staff'[StaffOf[c]] = staff[StaffOf[c]] /\ store' = store
      BY <2>2, <3>1 DEF CommitRevoke, TypeOK
    <3> QED BY <1>2, <3>2 DEF Served, Open
  <2> QED BY <2>1, <2>2
<1>3. req' = [req EXCEPT ![w] = Idle]
  BY DEF CommitRevoke, End, Continue
<1> QED BY <1>1, <1>2, <1>3, IdleOp, OtherStep

LEMMA StaffStepKeeps ==
    ASSUME TypeOK, SessionInv, NEW w \in Worker, StaffStep(w)
    PROVE  SessionInv'
<1>1. ASSUME NEW c \in Code, BeginCreateStaff(w, c)
      PROVE  SessionInv'
  <2>1. FreshCode(c)
    BY <1>1 DEF BeginCreateStaff, CodesOf
  <2> QED BY <1>1, <2>1, CodeBeginKeeps DEF BeginCreateStaff, Accept
<1>2. ASSUME NEW c \in Code, BeginReissue(w, c)
      PROVE  SessionInv'
  BY <1>2, CodeBeginKeeps DEF BeginReissue, Accept
<1>3. ASSUME NEW c \in Code, BeginRedeem(w, c)
      PROVE  SessionInv'
  <2>1. code[c] # "none" /\ Served(c)
    BY <1>3 DEF BeginRedeem, Served
  <2> QED BY <1>3, <2>1, CodeBeginKeeps DEF BeginRedeem, Accept
<1>4. ASSUME NEW m \in Staff, BeginRevoke(w, m)
      PROVE  SessionInv'
  <2>1. [Idle EXCEPT !.op = "revoke", !.staff = m].op = "revoke"
    BY DEF Idle
  <2> QED BY <1>4, <2>1, QuietStep DEF BeginRevoke, Accept, Open
<1>5. CASE CommitCreateStaff(w)
  <2>1. /\ \A m \in Staff : staff[m] = "active" => staff'[m] = "active"
        /\ \A c \in Code \ {req[w].code} : code'[c] = code[c]
    BY <1>5 DEF CommitCreateStaff, TypeOK
  <2> QED BY <1>5, <2>1, IssueKeeps DEF CommitCreateStaff, Issues
<1>6. CASE CommitReissue(w)
  <2>1. \A c \in Code \ {req[w].code} :
           code'[c] = code[c] \/ (code[c] \in Unused /\ code'[c] = "revoked")
    BY <1>6 DEF CommitReissue
  <2> QED BY <1>6, <2>1, IssueKeeps DEF CommitReissue, Issues
<1> QED BY <1>1, <1>2, <1>3, <1>4, <1>5, <1>6, RedeemKeeps, RevokeKeeps
        DEF StaffStep

LEMMA NextKeeps ==
    ASSUME TypeOK, TypeOK', SessionInv, [Next]_vars
    PROVE  SessionInv'
<1>1. CASE UNCHANGED vars
  BY <1>1 DEF vars, SessionInv, StaffSessionsAreLive, InviteUsedOnce, Served,
              RedeemingServed, IssuedOnce, Issues, Open
<1>2. ASSUME NEW w \in Worker, AbortRequest(w)
      PROVE  SessionInv'
  BY <1>2, IdleOp, QuietStep DEF AbortRequest, End, Continue, Open
<1>3. ASSUME NEW s \in Store,
             Refresh(s) \/ AccessExpires(s) \/ Logout(s) \/ EndBookings(s)
      PROVE  SessionInv'
  <2>1. UNCHANGED <<store, staff, code, sessions, req>>
    BY <1>3 DEF Refresh, AccessExpires, Logout, EndBookings
  <2> QED BY <2>1, OutsideStep DEF TypeOK
<1>4. ASSUME NEW c \in Code, LogoutStaff(c)
      PROVE  SessionInv'
  <2>1. /\ UNCHANGED <<store, staff, code, req>>
        /\ \A d \in Code : sessions'[d] \in {0, sessions[d], sessions[d] - 1}
    BY <1>4 DEF LogoutStaff, TypeOK
  <2> QED BY <2>1, OutsideStep DEF TypeOK
<1>5. ASSUME NEW c \in Code, ExpireCode(c)
      PROVE  SessionInv'
  <2>1. UNCHANGED <<store, staff, sessions, req>>
    BY <1>5 DEF ExpireCode
  <2>2. \A d \in Code : \/ code'[d] = code[d]
                        \/ code[d] = "live" /\ code'[d] = "expired"
    BY <1>5 DEF ExpireCode, TypeOK
  <2>3. \A d \in Code : /\ code'[d] = "none" <=> code[d] = "none"
                        /\ code'[d] \in Unused <=> code[d] \in Unused
                        /\ code'[d] = "used" <=> code[d] = "used"
    BY <2>2 DEF Unused
  <2>4. \A w \in Worker : req[w].op = "redeem" \/ Issues(w) =>
          req[w].code \in Code
    BY DEF TypeOK, Issues
  <2>5. StaffSessionsAreLive' /\ InviteUsedOnce'
    BY <2>1, <2>3 DEF SessionInv, StaffSessionsAreLive, InviteUsedOnce, Open
  <2>6. RedeemingServed' /\ IssuedOnce'
    BY <2>1, <2>3, <2>4
       DEF SessionInv, RedeemingServed, IssuedOnce, Issues, Served, Open
  <2> QED BY <2>5, <2>6 DEF SessionInv
<1> QED BY <1>1, <1>2, <1>3, <1>4, <1>5, SessionStepKeeps, OwnerStepKeeps,
           StaffStepKeeps, BookingStepKeeps DEF Next

LEMMA SessionInvAlways == Spec => []SessionInv
<1>1. Init => SessionInv
  BY IdleOp DEF Init, SessionInv, StaffSessionsAreLive, InviteUsedOnce,
                RedeemingServed, IssuedOnce, Issues
<1>2. TypeOK /\ TypeOK' /\ SessionInv /\ [Next]_vars => SessionInv'
  BY NextKeeps
<1> QED BY <1>1, <1>2, AccountsTypeCorrect, PTL DEF Spec

\* A staff session belongs to an active staff member of an open store, and to a
\* used code, under any number of requests that redeem, reissue, revoke and
\* close at the same time.
THEOREM StaffSessionsCorrect == Spec => []StaffSessionsAreLive
<1>1. SessionInv => StaffSessionsAreLive
  BY DEF SessionInv
<1> QED BY <1>1, SessionInvAlways, PTL

\* No invite code ever opens two sessions.
THEOREM InvitesCorrect == Spec => []InviteUsedOnce
<1>1. SessionInv => InviteUsedOnce
  BY DEF SessionInv
<1> QED BY <1>1, SessionInvAlways, PTL

----------------------------------------------------------------------------
(* Invite codes *)

\* A staff member who is being created has no codes yet, and no other request
\* is about one of his.
CreatedAlone ==
    \A w \in Worker : req[w].op = "createStaff" =>
        /\ staff[StaffOf[req[w].code]] = "none"
        /\ \A c \in CodesOf(StaffOf[req[w].code]) :
              code[c] = "none" /\ \A v \in Worker \ {w} : req[v].code # c

RevokesExisting ==
    \A w \in Worker : req[w].op = "revoke" => staff[req[w].staff] # "none"

InviteInv == OneUsableInvite /\ CreatedAlone /\ RevokesExisting

\* What every step does but those that make a code: no code becomes usable, rows
\* appear for nobody, and a request that begins is about rows that exist.
NoNewCode ==
    /\ \A c \in Code : code'[c] \in Unused => code[c] \in Unused
    /\ \A c \in Code : code'[c] = "none" <=> code[c] = "none"
    /\ \A m \in Staff : staff'[m] = "none" <=> staff[m] = "none"
    /\ \A v \in Worker : req'[v] # req[v] =>
          /\ req'[v].op # "createStaff"
          /\ req'[v].code \in Code =>
                code[req'[v].code] # "none" \/ staff[StaffOf[req'[v].code]] # "none"
          /\ req'[v].op = "revoke" => staff[req'[v].staff] # "none"

LEMMA NoNewCodeKeeps ==
    ASSUME TypeOK, TypeOK', InviteInv, NoNewCode
    PROVE  InviteInv'
<1>1. OneUsableInvite'
  BY DEF InviteInv, OneUsableInvite, NoNewCode
<1>2. CreatedAlone'
  <2> SUFFICES ASSUME NEW w \in Worker, req'[w].op = "createStaff",
                      NEW c \in CodesOf(StaffOf[req'[w].code])
               PROVE  /\ staff'[StaffOf[req'[w].code]] = "none"
                      /\ code'[c] = "none"
                      /\ \A v \in Worker \ {w} : req'[v].code # c
    <3>1. \A w \in Worker : req'[w].op = "createStaff" =>
            req'[w].code \in CodesOf(StaffOf[req'[w].code])
      BY DEF TypeOK, CodesOf
    <3> QED BY <3>1 DEF CreatedAlone, CodesOf
  <2>1. req'[w] = req[w]
    BY DEF NoNewCode
  <2>2. /\ c \in Code /\ StaffOf[c] = StaffOf[req[w].code]
        /\ StaffOf[req[w].code] \in Staff
    BY <2>1, AccountsAssumption DEF CodesOf
  <2>3. /\ staff[StaffOf[req[w].code]] = "none" /\ code[c] = "none"
        /\ \A v \in Worker \ {w} : req[v].code # c
    BY <2>1 DEF InviteInv, CreatedAlone
  <2>4. staff'[StaffOf[req[w].code]] = "none" /\ code'[c] = "none"
    BY <2>2, <2>3 DEF NoNewCode
  <2>5. ASSUME NEW v \in Worker \ {w} PROVE req'[v].code # c
    BY <2>2, <2>3 DEF NoNewCode
  <2> QED BY <2>1, <2>4, <2>5
<1>3. RevokesExisting'
  BY DEF InviteInv, RevokesExisting, NoNewCode, TypeOK
<1> QED BY <1>1, <1>2, <1>3 DEF InviteInv

LEMMA StepCode == \A op, s : Step(op, s).code = NoCode
BY DEF Step, Idle

LEMMA IdleCode == Idle.code = NoCode
BY DEF Idle

\* A step after which the request is about no code and no staff member.
LEMMA NoCodeStep ==
    ASSUME TypeOK, NEW w \in Worker, NEW q,
           req' = [req EXCEPT ![w] = q],
           q.op \notin {"createStaff", "revoke"}, q.code = NoCode,
           \A c \in Code : code'[c] \in Unused => code[c] \in Unused,
           \A c \in Code : code'[c] = "none" <=> code[c] = "none",
           \A m \in Staff : staff'[m] = "none" <=> staff[m] = "none"
    PROVE  NoNewCode
<1>1. \A v \in Worker : req'[v] = IF v = w THEN q ELSE req[v]
  BY DEF TypeOK
<1> QED BY <1>1, AccountsAssumption DEF NoNewCode

LEMMA CloseNoNewCode ==
    ASSUME TypeOK, NEW S, closeStoresInTx(S)
    PROVE  /\ \A c \in Code : code'[c] \in Unused => code[c] \in Unused
           /\ \A c \in Code : code'[c] = "none" <=> code[c] = "none"
           /\ \A m \in Staff : staff'[m] = "none" <=> staff[m] = "none"
BY DEF closeStoresInTx, Unused

LEMMA SessionStepNoNewCode ==
    ASSUME TypeOK, NEW w \in Worker, SessionStep(w)
    PROVE  NoNewCode
<1>1. UNCHANGED <<staff, code>>
  BY DEF SessionStep, BeginLogin, issueOwnerSession, Register,
         findMostRecentOpenStore, SwitchStore
<1>2. PICK q \in {Idle, Step("pick", NoStore)} \union
                 {Step("issue", s) : s \in Store} :
         req' = [req EXCEPT ![w] = q]
  BY DEF SessionStep, BeginLogin, issueOwnerSession, Register, Accept, End,
         Continue, findMostRecentOpenStore, SwitchStore
<1>3. q.op \in {"idle", "pick", "issue"} /\ q.code = NoCode
  BY <1>2, IdleOp, StepOp, IdleCode, StepCode
<1> QED BY <1>1, <1>2, <1>3, NoCodeStep

LEMMA OwnerStepNoNewCode ==
    ASSUME TypeOK, NEW w \in Worker, OwnerStep(w)
    PROVE  NoNewCode
<1>1. ASSUME NEW s \in Store, NEW endpoint \in OwnerEndpoints,
             findOwnerOfStore(w, s, endpoint)
      PROVE  NoNewCode
  <2>1. Step(endpoint, s).op \notin {"createStaff", "revoke"}
    BY StepOp DEF OwnerEndpoints
  <2> QED BY <1>1, <2>1, StepCode, NoCodeStep DEF findOwnerOfStore, Accept
<1>2. ASSUME NEW s \in Store, AddStore(w, s)
      PROVE  NoNewCode
  <2>1. req' = [req EXCEPT ![w] = Step("issue", s)] /\ UNCHANGED <<staff, code>>
    BY <1>2 DEF AddStore, Continue
  <2>2. Step("issue", s).op = "issue" /\ Step("issue", s).code = NoCode
    BY StepOp, StepCode
  <2> QED BY <2>1, <2>2, NoCodeStep
<1>3. CASE ChangePassword(w)
  BY <1>3, IdleOp, IdleCode, NoCodeStep DEF ChangePassword, End, Continue
<1>4. CASE BeginWithdraw(w)
  <2> DEFINE next == [Step("withdrawing", NoStore) EXCEPT !.stores = OpenStores]
  <2>1. next.op = "withdrawing" /\ next.code = NoCode
    BY DEF Step, Idle
  <2>2. req' = [req EXCEPT ![w] = next] /\ UNCHANGED <<staff, code>>
    BY <1>4 DEF BeginWithdraw, Continue
  <2> HIDE DEF next
  <2> QED BY <2>1, <2>2, NoCodeStep
<1>5. CASE CommitWithdraw(w)
  BY <1>5, IdleOp, IdleCode, NoCodeStep, CloseNoNewCode
     DEF CommitWithdraw, End, Continue
<1>6. CASE BeginClose(w)
  <2> DEFINE next == Step("closing", req[w].store)
  <2>1. req' = [req EXCEPT ![w] = next] /\ UNCHANGED <<staff, code>>
    BY <1>6 DEF BeginClose, Continue
  <2>2. next.op = "closing" /\ next.code = NoCode
    BY StepOp, StepCode
  <2> HIDE DEF next
  <2> QED BY <2>1, <2>2, NoCodeStep
<1>7. CASE CommitClose(w)
  <2> DEFINE next == Step("pick", NoStore)
  <2>1. req' = [req EXCEPT ![w] = next] /\ closeStoresInTx({req[w].store})
    BY <1>7 DEF CommitClose, Continue
  <2>2. next.op = "pick" /\ next.code = NoCode
    BY StepOp, StepCode
  <2> HIDE DEF next
  <2> QED BY <2>1, <2>2, NoCodeStep, CloseNoNewCode
<1> QED BY <1>1, <1>2, <1>3, <1>4, <1>5, <1>6, <1>7 DEF OwnerStep

LEMMA BookingStepNoNewCode ==
    ASSUME TypeOK, NEW w \in Worker, BookingStep(w)
    PROVE  NoNewCode
<1>1. UNCHANGED <<staff, code>>
  BY DEF BookingStep, BeginBooking, CommitBooking
<1>2. PICK q \in {Idle} \union {Step("book", s) : s \in Store} :
         req' = [req EXCEPT ![w] = q]
  BY DEF BookingStep, BeginBooking, CommitBooking, Accept, End, Continue
<1>3. q.op \in {"idle", "book"} /\ q.code = NoCode
  BY <1>2, IdleOp, StepOp, IdleCode, StepCode
<1> QED BY <1>1, <1>2, <1>3, NoCodeStep

\* Creating a staff member makes his first code.
LEMMA CreateStaffKeepsInvites ==
    ASSUME TypeOK, TypeOK', InviteInv, NEW w \in Worker, CommitCreateStaff(w)
    PROVE  InviteInv'
<1> DEFINE new == req[w].code
<1>1. /\ new \in Code /\ StaffOf[new] \in Staff
      /\ \A c \in CodesOf(StaffOf[new]) :
            code[c] = "none" /\ \A v \in Worker \ {w} : req[v].code # c
      /\ staff[StaffOf[new]] = "none"
  BY AccountsAssumption DEF CommitCreateStaff, TypeOK, InviteInv, CreatedAlone
<1>2. /\ code'[new] = "live" /\ \A c \in Code \ {new} : code'[c] = code[c]
      /\ staff'[StaffOf[new]] = "active"
      /\ \A m \in Staff \ {StaffOf[new]} : staff'[m] = staff[m]
  BY <1>1 DEF CommitCreateStaff, TypeOK
<1>3. req'[w].op = "idle" /\ req'[w].code = NoCode
      /\ \A v \in Worker \ {w} : req'[v] = req[v]
  BY IdleOp, IdleCode DEF CommitCreateStaff, TypeOK, End, Continue
<1> HIDE DEF new
<1>4. OneUsableInvite'
  BY <1>1, <1>2 DEF InviteInv, OneUsableInvite, CodesOf, Unused
<1>5. CreatedAlone'
  <2> SUFFICES ASSUME NEW v \in Worker \ {w}, req[v].op = "createStaff"
               PROVE  /\ staff'[StaffOf[req[v].code]] = "none"
                      /\ \A c \in CodesOf(StaffOf[req[v].code]) :
                            /\ code'[c] = "none"
                            /\ \A u \in Worker \ {v} : req'[u].code # c
    BY <1>3 DEF CreatedAlone
  <2>1. req[v].code \in Code /\ StaffOf[req[v].code] \in Staff
    BY AccountsAssumption DEF TypeOK
  <2>2. StaffOf[req[v].code] # StaffOf[new]
    BY <1>1, <2>1 DEF CodesOf
  <2>3. \A c \in CodesOf(StaffOf[req[v].code]) : c \in Code \ {new} /\ c # NoCode
    BY <2>2, AccountsAssumption DEF CodesOf
  <2> QED BY <1>2, <1>3, <2>1, <2>2, <2>3 DEF InviteInv, CreatedAlone
<1>6. RevokesExisting'
  BY <1>1, <1>2, <1>3 DEF InviteInv, RevokesExisting, TypeOK
<1> QED BY <1>4, <1>5, <1>6 DEF InviteInv

\* A new code takes the place of the staff member's unused ones.
LEMMA ReissueKeepsInvites ==
    ASSUME TypeOK, TypeOK', InviteInv, NEW w \in Worker, CommitReissue(w)
    PROVE  InviteInv'
<1> DEFINE new == req[w].code
<1>1. new \in Code
  BY DEF CommitReissue, TypeOK
<1>2. \A c \in Code :
         code'[c] = IF c = new THEN "live"
                    ELSE IF StaffOf[c] = StaffOf[new] /\ code[c] \in Unused
                         THEN "revoked" ELSE code[c]
  BY DEF CommitReissue
<1>3. /\ req'[w].op = "idle" /\ req'[w].code = NoCode
      /\ \A v \in Worker \ {w} : req'[v] = req[v]
      /\ staff' = staff
  BY IdleOp, IdleCode DEF CommitReissue, TypeOK, End, Continue
<1> HIDE DEF new
<1>4. OneUsableInvite'
  BY <1>1, <1>2 DEF InviteInv, OneUsableInvite, Unused
<1>5. CreatedAlone'
  <2> SUFFICES ASSUME NEW v \in Worker \ {w}, req[v].op = "createStaff",
                      NEW c \in CodesOf(StaffOf[req[v].code])
               PROVE  /\ code'[c] = "none"
                      /\ \A u \in Worker \ {v} : req'[u].code # c
    BY <1>3 DEF InviteInv, CreatedAlone
  <2>1. /\ code[c] = "none" /\ c \in Code
        /\ \A u \in Worker \ {v} : req[u].code # c
    BY DEF InviteInv, CreatedAlone, CodesOf
  <2>2. c # new
    BY <2>1 DEF new
  <2> QED BY <1>2, <1>3, <2>1, <2>2, AccountsAssumption DEF Unused
<1>6. RevokesExisting'
  BY <1>3 DEF InviteInv, RevokesExisting
<1> QED BY <1>4, <1>5, <1>6 DEF InviteInv

LEMMA StaffStepKeepsInvites ==
    ASSUME TypeOK, TypeOK', InviteInv, NEW w \in Worker, StaffStep(w)
    PROVE  InviteInv'
<1>1. ASSUME NEW c \in Code, BeginCreateStaff(w, c)
      PROVE  InviteInv'
  <2>1. /\ req'[w].op = "createStaff" /\ req'[w].code = c
        /\ \A v \in Worker \ {w} : req'[v] = req[v]
        /\ staff' = staff /\ code' = code
    BY <1>1 DEF BeginCreateStaff, Accept, TypeOK, Idle
  <2>2. /\ staff[StaffOf[c]] = "none"
        /\ \A d \in CodesOf(StaffOf[c]) :
              code[d] = "none" /\ \A v \in Worker : req[v].code # d
    BY <1>1 DEF BeginCreateStaff, FreshCode
  <2>3. OneUsableInvite' /\ RevokesExisting'
    BY <2>1 DEF InviteInv, OneUsableInvite, RevokesExisting
  <2>4. CreatedAlone'
    <3>1. ASSUME NEW v \in Worker \ {w}, req[v].op = "createStaff"
          PROVE  c \notin CodesOf(StaffOf[req[v].code])
      BY <2>2, <3>1 DEF CodesOf, TypeOK
    <3> QED BY <2>1, <2>2, <3>1 DEF InviteInv, CreatedAlone
  <2> QED BY <2>3, <2>4 DEF InviteInv
<1>2. ASSUME NEW c \in Code, BeginReissue(w, c) \/ BeginRedeem(w, c)
      PROVE  InviteInv'
  <2>1. /\ req'[w].op \in {"reissue", "redeem"} /\ req'[w].code = c
        /\ \A v \in Worker \ {w} : req'[v] = req[v]
        /\ staff' = staff /\ code' = code
        /\ staff[StaffOf[c]] = "active"
    BY <1>2 DEF BeginReissue, BeginRedeem, Accept, TypeOK, Idle
  <2>2. NoNewCode
    BY <2>1 DEF NoNewCode
  <2> QED BY <2>2, NoNewCodeKeeps
<1>3. ASSUME NEW m \in Staff, BeginRevoke(w, m)
      PROVE  InviteInv'
  <2>1. /\ req'[w].op = "revoke" /\ req'[w].staff = m /\ req'[w].code = NoCode
        /\ \A v \in Worker \ {w} : req'[v] = req[v]
        /\ staff' = staff /\ code' = code
        /\ staff[m] = "active"
    BY <1>3 DEF BeginRevoke, Accept, TypeOK, Idle
  <2>2. NoNewCode
    BY <2>1, AccountsAssumption DEF NoNewCode
  <2> QED BY <2>2, NoNewCodeKeeps
<1>4. CASE CommitRevoke(w)
  <2>1. /\ \A c \in Code : code'[c] \in Unused => code[c] \in Unused
        /\ \A c \in Code : code'[c] = "none" <=> code[c] = "none"
    BY <1>4 DEF CommitRevoke, Unused
  <2>2. \A m \in Staff : staff'[m] = "none" <=> staff[m] = "none"
    BY <1>4 DEF CommitRevoke, TypeOK, InviteInv, RevokesExisting
  <2> QED BY <1>4, <2>1, <2>2, IdleOp, IdleCode, NoCodeStep, NoNewCodeKeeps
          DEF CommitRevoke, End, Continue
<1>5. CASE CommitRedeem(w)
  <2>1. /\ \A c \in Code : code'[c] \in Unused => code[c] \in Unused
        /\ \A c \in Code : code'[c] = "none" <=> code[c] = "none"
    BY <1>5 DEF CommitRedeem, TypeOK, Unused
  <2> QED BY <1>5, <2>1, IdleOp, IdleCode, NoCodeStep, NoNewCodeKeeps
          DEF CommitRedeem, End, Continue
<1> QED BY <1>1, <1>2, <1>3, <1>4, <1>5, CreateStaffKeepsInvites,
           ReissueKeepsInvites DEF StaffStep

LEMMA NextKeepsInvites ==
    ASSUME TypeOK, TypeOK', InviteInv, [Next]_vars
    PROVE  InviteInv'
<1>1. CASE UNCHANGED <<staff, code, req>>
  BY <1>1, NoNewCodeKeeps DEF NoNewCode
<1>2. ASSUME NEW w \in Worker, AbortRequest(w)
      PROVE  InviteInv'
  BY <1>2, IdleOp, IdleCode, NoCodeStep, NoNewCodeKeeps
     DEF AbortRequest, End, Continue
<1>3. ASSUME NEW s \in Store,
             Refresh(s) \/ AccessExpires(s) \/ Logout(s) \/ EndBookings(s)
      PROVE  InviteInv'
  BY <1>1, <1>3 DEF Refresh, AccessExpires, Logout, EndBookings
<1>4. ASSUME NEW c \in Code, LogoutStaff(c)
      PROVE  InviteInv'
  BY <1>1, <1>4 DEF LogoutStaff
<1>5. ASSUME NEW c \in Code, ExpireCode(c)
      PROVE  InviteInv'
  <2>1. NoNewCode
    BY <1>5 DEF ExpireCode, TypeOK, NoNewCode, Unused
  <2> QED BY <2>1, NoNewCodeKeeps
<1> QED BY <1>1, <1>2, <1>3, <1>4, <1>5, SessionStepNoNewCode,
           OwnerStepNoNewCode, BookingStepNoNewCode, StaffStepKeepsInvites,
           NoNewCodeKeeps DEF Next, vars

\* Of the codes sent to a staff member only the last can be used, although codes
\* are issued, issued again, redeemed and revoked at the same time.
THEOREM OneInviteUsable == Spec => []OneUsableInvite
<1>1. Init => InviteInv
  BY IdleOp DEF Init, InviteInv, OneUsableInvite, CreatedAlone, RevokesExisting,
                Unused
<1>2. TypeOK /\ TypeOK' /\ InviteInv /\ [Next]_vars => InviteInv'
  BY NextKeepsInvites
<1>3. InviteInv => OneUsableInvite
  BY DEF InviteInv
<1> QED BY <1>1, <1>2, <1>3, AccountsTypeCorrect, PTL DEF Spec

----------------------------------------------------------------------------
(* Stores and the account *)

\* A step of worker w that goes on to q.
Moves(w, q) == \/ \E endpoint \in Endpoints : Accept(w, endpoint, q)
               \/ req[w].op # "idle" /\ Continue(w, q)

LEMMA MoveOne ==
    ASSUME TypeOK, NEW w \in Worker, NEW q, Moves(w, q)
    PROVE  req'[w] = q /\ \A v \in Worker \ {w} : req'[v] = req[v]
BY DEF Moves, Accept, Continue, TypeOK

\* What a request that writes the owner or the stores has read of them.
AccountRead(q) ==
    /\ q.op = "addStore" => owner = "active"
    /\ q.op \in OwnerEndpoints \union {"withdrawing", "closing"} => owner # "none"
    /\ q.op = "withdrawing" => q.stores = OpenStores
    /\ q.op = "closing" => \E t \in Store \ {q.store} : Open(t)

\* What a request that writes in a store has read of it.
StoreRead(q) ==
    /\ q.op \in {"issue", "book"} => Open(q.store)
    /\ q.op = "withdrawing" => q.stores \intersect booked = {}
    /\ q.op = "closing" => q.store \notin booked

\* A step that writes none of it; a request that goes on has read it.
Aside(w) ==
    /\ UNCHANGED <<owner, store, booked>>
    /\ \A s \in Store : tokens[s] = 0 => tokens'[s] = 0
    /\ \E q : /\ Moves(w, q)
              /\ AccountRead(req[w]) => AccountRead(q)
              /\ StoreRead(q)

Writes(w) ==
    \/ \E s \in Store : Register(w, s) \/ AddStore(w, s)
    \/ issueOwnerSession(w) \/ CommitBooking(w) \/ CommitWithdraw(w) \/ CommitClose(w)

StepIs(op, s) == Step(op, s).op = op /\ Step(op, s).store = s

LEMMA StepFields == \A op, s : StepIs(op, s)
BY DEF StepIs, Step, Idle

\* A request that is over has read nothing, and neither has one about staff.
LEMMA NothingRead ==
    ASSUME NEW q, q.op \notin OwnerEndpoints \union {"withdrawing", "closing",
                                                   "issue", "book"}
    PROVE  AccountRead(q) /\ StoreRead(q)
BY DEF AccountRead, StoreRead, OwnerEndpoints

LEMMA IdleRead == AccountRead(Idle) /\ StoreRead(Idle)
BY IdleOp, NothingRead DEF OwnerEndpoints

LEMMA SessionStepKind ==
    ASSUME TypeOK, NEW w \in Worker, SessionStep(w)
    PROVE  Aside(w) \/ Writes(w)
<1>1. CASE BeginLogin(w)
  <2> DEFINE q == Step("pick", NoStore)
  <2>1. q.op = "pick" /\ Moves(w, q)
    BY <1>1, StepFields DEF StepIs, BeginLogin, Moves, Accept
  <2> HIDE DEF q
  <2> QED BY <1>1, <2>1, NothingRead DEF BeginLogin, OwnerEndpoints, Aside
<1>2. ASSUME NEW s \in Store, findMostRecentOpenStore(w, s) \/ SwitchStore(w, s)
      PROVE  Aside(w)
  <2> DEFINE q == Step("issue", s)
  <2>1. q.op = "issue" /\ q.store = s /\ Moves(w, q)
    BY <1>2, StepFields DEF StepIs, findMostRecentOpenStore, SwitchStore, Moves
  <2> HIDE DEF q
  <2>2. AccountRead(q) /\ StoreRead(q)
    BY <1>2, <2>1 DEF findMostRecentOpenStore, SwitchStore, AccountRead, StoreRead,
                      OwnerEndpoints
  <2>3. /\ UNCHANGED <<owner, store, booked>>
        /\ \A t \in Store : tokens[t] = 0 => tokens'[t] = 0
    BY <1>2 DEF findMostRecentOpenStore, SwitchStore, TypeOK
  <2> QED BY <2>1, <2>2, <2>3 DEF Aside
<1> QED BY <1>1, <1>2 DEF SessionStep, Writes

LEMMA OwnerStepKind ==
    ASSUME TypeOK, NEW w \in Worker, OwnerStep(w)
    PROVE  Aside(w) \/ Writes(w)
<1>1. ASSUME NEW s \in Store, NEW endpoint \in OwnerEndpoints,
             findOwnerOfStore(w, s, endpoint)
      PROVE  Aside(w)
  <2> DEFINE q == Step(endpoint, s)
  <2>1. q.op = endpoint /\ Moves(w, q)
    BY <1>1, StepFields DEF StepIs, findOwnerOfStore, Moves, Accept
  <2> HIDE DEF q
  <2>2. AccountRead(q) /\ StoreRead(q)
    BY <1>1, <2>1 DEF findOwnerOfStore, AccountRead, StoreRead, OwnerEndpoints
  <2> QED BY <1>1, <2>1, <2>2 DEF findOwnerOfStore, Aside
<1>2. CASE ChangePassword(w)
  <2>1. Moves(w, Idle)
    BY <1>2 DEF ChangePassword, Moves, End
  <2> QED BY <1>2, <2>1, IdleRead DEF ChangePassword, Aside
<1>3. CASE BeginWithdraw(w)
  <2> DEFINE q == [Step("withdrawing", NoStore) EXCEPT !.stores = OpenStores]
  <2>1. q.op = "withdrawing" /\ q.stores = OpenStores
    BY DEF Step, Idle
  <2>2. Moves(w, q)
    BY <1>3 DEF BeginWithdraw, Moves
  <2> HIDE DEF q
  <2>3. AccountRead(req[w]) => AccountRead(q)
    BY <1>3, <2>1 DEF BeginWithdraw, AccountRead, OwnerEndpoints
  <2>4. StoreRead(q)
    BY <1>3, <2>1 DEF BeginWithdraw, StoreRead, NoActiveReservations
  <2> QED BY <1>3, <2>2, <2>3, <2>4 DEF BeginWithdraw, Aside
<1>4. CASE BeginClose(w)
  <2> DEFINE q == Step("closing", req[w].store)
  <2>1. q.op = "closing" /\ q.store = req[w].store /\ Moves(w, q)
    BY <1>4, StepFields DEF StepIs, BeginClose, Moves
  <2> HIDE DEF q
  <2>2. ASSUME \A t \in Store \ {req[w].store} : ~Open(t) PROVE FALSE
    <3>1. OpenStores = {} \/ OpenStores = {req[w].store}
      BY <2>2 DEF OpenStores
    <3>2. Cardinality(OpenStores) \in {0, 1}
      BY <3>1, FS_EmptySet, FS_Singleton
    <3> QED BY <1>4, <3>2 DEF BeginClose
  <2>3. AccountRead(req[w]) => AccountRead(q)
    BY <1>4, <2>1, <2>2 DEF BeginClose, AccountRead, OwnerEndpoints
  <2>4. StoreRead(q)
    BY <1>4, <2>1 DEF BeginClose, StoreRead, NoActiveReservations
  <2> QED BY <1>4, <2>1, <2>3, <2>4 DEF BeginClose, Aside
<1> QED BY <1>1, <1>2, <1>3, <1>4 DEF OwnerStep, Writes

\* Requests about staff read nothing that closing a store or an account writes.
LEMMA StaffStepAside ==
    ASSUME TypeOK, NEW w \in Worker, StaffStep(w)
    PROVE  Aside(w)
<1>1. UNCHANGED <<owner, store, tokens, booked>>
  BY DEF StaffStep, BeginCreateStaff, BeginReissue, BeginRedeem, BeginRevoke,
         CommitCreateStaff, CommitReissue, CommitRevoke, CommitRedeem
<1>2. ASSUME NEW c \in Code, NEW op \in {"createStaff", "reissue", "redeem"},
             NEW endpoint, Accept(w, endpoint, [Idle EXCEPT !.op = op, !.code = c])
      PROVE  Aside(w)
  <2> DEFINE q == [Idle EXCEPT !.op = op, !.code = c]
  <2>1. q.op = op /\ Moves(w, q)
    BY <1>2 DEF Idle, Moves, Accept
  <2> HIDE DEF q
  <2> QED BY <1>1, <2>1, NothingRead DEF OwnerEndpoints, Aside
<1>3. ASSUME NEW m \in Staff, BeginRevoke(w, m)
      PROVE  Aside(w)
  <2> DEFINE q == [Idle EXCEPT !.op = "revoke", !.staff = m]
  <2>1. q.op = "revoke" /\ Moves(w, q)
    BY <1>3 DEF BeginRevoke, Idle, Moves, Accept
  <2> HIDE DEF q
  <2> QED BY <1>1, <2>1, NothingRead DEF OwnerEndpoints, Aside
<1>4. CASE req[w].op # "idle" /\ End(w)
  <2>1. Moves(w, Idle)
    BY <1>4 DEF Moves, End
  <2> QED BY <1>1, <2>1, IdleRead DEF Aside
<1> QED BY <1>2, <1>3, <1>4
        DEF StaffStep, BeginCreateStaff, BeginReissue, BeginRedeem,
            CommitCreateStaff, CommitReissue, CommitRevoke, CommitRedeem

LEMMA BookingStepKind ==
    ASSUME TypeOK, NEW w \in Worker, BookingStep(w)
    PROVE  Aside(w) \/ Writes(w)
<1>1. ASSUME NEW s \in Store, BeginBooking(w, s)
      PROVE  Aside(w)
  <2> DEFINE q == Step("book", s)
  <2>1. q.op = "book" /\ q.store = s /\ Moves(w, q)
    BY <1>1, StepFields DEF StepIs, BeginBooking, Moves, Accept
  <2> HIDE DEF q
  <2>2. AccountRead(q) /\ StoreRead(q)
    BY <1>1, <2>1 DEF BeginBooking, AccountRead, StoreRead, OwnerEndpoints
  <2> QED BY <1>1, <2>1, <2>2 DEF BeginBooking, Aside
<1> QED BY <1>1 DEF BookingStep, Writes

\* A step of no request takes bookings and sessions away.
Outside ==
    /\ UNCHANGED <<owner, store, req, overlapped>>
    /\ booked' \subseteq booked
    /\ \A s \in Store : tokens[s] = 0 => tokens'[s] = 0

LEMMA NextKind ==
    ASSUME TypeOK, [Next]_vars
    PROVE  Outside \/ \E w \in Worker : Aside(w) \/ Writes(w)
<1>1. CASE UNCHANGED vars
  BY <1>1 DEF vars, Outside
<1>2. ASSUME NEW s \in Store, Refresh(s) \/ AccessExpires(s) \/ Logout(s) \/ EndBookings(s)
      PROVE  Outside
  BY <1>2 DEF Refresh, AccessExpires, Logout, EndBookings, TypeOK, Outside
<1>3. ASSUME NEW c \in Code, LogoutStaff(c) \/ ExpireCode(c)
      PROVE  Outside
  BY <1>3 DEF LogoutStaff, ExpireCode, Outside
<1>4. ASSUME NEW w \in Worker, AbortRequest(w)
      PROVE  Aside(w)
  <2>1. Moves(w, Idle)
    BY <1>4 DEF AbortRequest, Moves, End
  <2> QED BY <1>4, <2>1, IdleRead DEF AbortRequest, Aside
<1> QED BY <1>1, <1>2, <1>3, <1>4, SessionStepKind, OwnerStepKind,
           StaffStepAside, BookingStepKind DEF Next

\* A writer goes on to issue a session, to a session of a store left, or ends.
LEMMA WriterMoves ==
    ASSUME TypeOK, NEW w \in Worker, Writes(w)
    PROVE  \E q : Moves(w, q) /\ q.op \in {"issue", "pick", "idle"}
<1>1. ASSUME NEW s \in Store, Register(w, s) \/ AddStore(w, s)
      PROVE  Moves(w, Step("issue", s))
  BY <1>1 DEF Register, AddStore, Moves, Accept
<1>2. ASSUME CommitClose(w)
      PROVE  Moves(w, Step("pick", NoStore))
  BY <1>2 DEF CommitClose, Moves
<1>3. ASSUME issueOwnerSession(w) \/ CommitBooking(w) \/ CommitWithdraw(w)
      PROVE  Moves(w, Idle)
  BY <1>3 DEF issueOwnerSession, CommitBooking, CommitWithdraw, Moves, End
<1> QED BY <1>1, <1>2, <1>3, StepFields, IdleOp DEF StepIs, Writes

----------------------------------------------------------------------------
(* An owner has an open store *)

HasStore == owner = "active" <=> OpenStores # {}

AccountInv == HasStore /\ \A w \in Worker : AccountRead(req[w])

\* A lock on the owner's row, from the reads of a transaction that adds a store,
\* closes one or closes the account to its writes. The code takes none.
AccountLocks ==
    \A v, w \in Worker :
        /\ req[v].op \in {"addStore", "withdrawing", "closing"}
        /\ req[w].op \in {"addStore", "withdrawing", "closing"}
        => v = w

\* A writer keeps what the others have read, as the others that need it are
\* locked out.
LEMMA OthersRead ==
    ASSUME TypeOK, AccountInv, AccountLocks, NEW w \in Worker, Writes(w),
           owner' # "none",
           \/ UNCHANGED <<owner, store>>
           \/ req[w].op \in {"addStore", "withdrawing", "closing"}
           \/ owner = "none"
    PROVE  \A v \in Worker : AccountRead(req[v])'
<1>1. PICK q : Moves(w, q) /\ q.op \in {"issue", "pick", "idle"}
  BY WriterMoves
<1>2. req'[w] = q /\ \A v \in Worker \ {w} : req'[v] = req[v]
  BY <1>1, MoveOne
<1>3. AccountRead(req[w])'
  BY <1>1, <1>2 DEF AccountRead, OwnerEndpoints
<1>4. ASSUME NEW v \in Worker \ {w}
      PROVE  AccountRead(req[v])'
  <2>1. CASE UNCHANGED <<owner, store>>
    BY <1>2, <2>1 DEF AccountInv, AccountRead, OpenStores, Open
  <2>2. CASE req[w].op \in {"addStore", "withdrawing", "closing"}
    BY <1>2, <2>2 DEF AccountLocks, AccountRead
  <2>3. CASE owner = "none"
    BY <1>2, <2>3 DEF AccountInv, AccountRead, OwnerEndpoints
  <2> QED BY <2>1, <2>2, <2>3
<1> QED BY <1>3, <1>4

\* Closing the stores S.
LEMMA CloseStores ==
    ASSUME TypeOK, NEW S, closeStoresInTx(S)
    PROVE  /\ OpenStores' = OpenStores \ S
           /\ \A s \in Store : s \in S => tokens'[s] = 0
           /\ \A s \in Store : s \notin S => store'[s] = store[s] /\ tokens'[s] = tokens[s]
<1>1. \A s \in Store : /\ store'[s] = IF s \in S THEN "closed" ELSE store[s]
                       /\ tokens'[s] = IF s \in S THEN 0 ELSE tokens[s]
  BY DEF closeStoresInTx
<1> QED BY <1>1 DEF OpenStores, Open

LEMMA AccountInvKept ==
    ASSUME TypeOK, AccountInv, AccountLocks, [Next]_vars
    PROVE  AccountInv'
<1>1. CASE Outside
  BY <1>1 DEF Outside, AccountInv, HasStore, AccountRead, OpenStores, Open
<1>2. ASSUME NEW w \in Worker, Aside(w)
      PROVE  AccountInv'
  <2>1. PICK q : Moves(w, q) /\ AccountRead(q)
    BY <1>2 DEF Aside, AccountInv
  <2>2. req'[w] = q /\ \A v \in Worker \ {w} : req'[v] = req[v]
    BY <2>1, MoveOne
  <2>3. \A v \in Worker : AccountRead(req'[v])
    BY <2>1, <2>2 DEF AccountInv
  <2>4. UNCHANGED <<owner, store>>
    BY <1>2 DEF Aside
  <2> QED BY <2>3, <2>4 DEF AccountInv, HasStore, AccountRead, OpenStores, Open
<1>3. ASSUME NEW w \in Worker, Writes(w)
      PROVE  AccountInv'
  <2>1. AccountRead(req[w])
    BY DEF AccountInv
  <2>2. ASSUME NEW s \in Store, Register(w, s)
        PROVE  HasStore' /\ owner' # "none" /\ owner = "none"
    <3>1. store'[s] = "open" /\ owner' = "active" /\ owner = "none"
      BY <2>2 DEF Register, TypeOK
    <3> QED BY <3>1 DEF HasStore, OpenStores, Open
  <2>3. ASSUME NEW s \in Store, AddStore(w, s)
        PROVE  HasStore' /\ owner' # "none" /\ req[w].op = "addStore"
    <3>1. store'[s] = "open" /\ owner' = owner /\ req[w].op = "addStore"
      BY <2>3 DEF AddStore, TypeOK
    <3>2. owner = "active"
      BY <2>1, <3>1 DEF AccountRead
    <3> QED BY <3>1, <3>2 DEF HasStore, OpenStores, Open
  <2>4. ASSUME issueOwnerSession(w) \/ CommitBooking(w)
        PROVE  HasStore' /\ UNCHANGED <<owner, store>>
    <3>1. UNCHANGED <<owner, store>>
      BY <2>4 DEF issueOwnerSession, CommitBooking
    <3> QED BY <3>1 DEF AccountInv, HasStore, OpenStores, Open
  <2>5. ASSUME CommitWithdraw(w)
        PROVE  HasStore' /\ owner' # "none" /\ req[w].op = "withdrawing"
    <3>1. /\ req[w].op = "withdrawing" /\ owner' = "withdrawn"
          /\ closeStoresInTx(req[w].stores)
      BY <2>5 DEF CommitWithdraw
    <3>2. OpenStores' = {}
      BY <2>1, <3>1, CloseStores DEF AccountRead
    <3> QED BY <3>1, <3>2 DEF HasStore
  <2>6. ASSUME CommitClose(w)
        PROVE  HasStore' /\ owner' # "none" /\ req[w].op = "closing"
    <3>1. /\ req[w].op = "closing" /\ owner' = owner
          /\ closeStoresInTx({req[w].store})
      BY <2>6 DEF CommitClose
    <3>2. owner # "none" /\ \E t \in Store \ {req[w].store} : Open(t)
      BY <2>1, <3>1 DEF AccountRead
    <3>3. OpenStores' = OpenStores \ {req[w].store}
      BY <3>1, CloseStores
    <3> QED BY <3>1, <3>2, <3>3 DEF AccountInv, HasStore, OpenStores
  <2>7. CASE UNCHANGED <<owner, store>>
    <3>1. CASE owner = "none"
      <4>1. PICK q : Moves(w, q) /\ q.op \in {"issue", "pick", "idle"}
        BY <1>3, WriterMoves
      <4>2. req'[w] = q /\ \A v \in Worker \ {w} : req'[v] = req[v]
        BY <4>1, MoveOne
      <4> QED BY <2>7, <4>1, <4>2 DEF AccountInv, HasStore, AccountRead,
                                      OpenStores, Open, OwnerEndpoints
    <3>2. CASE owner # "none"
      BY <1>3, <2>7, <3>2, OthersRead DEF AccountInv, HasStore, OpenStores, Open
    <3> QED BY <3>1, <3>2
  <2> QED BY <1>3, <2>2, <2>3, <2>4, <2>5, <2>6, <2>7, OthersRead
          DEF Writes, AccountInv
<1> QED BY <1>1, <1>2, <1>3, NextKind

LEMMA AccountInvInit == Init => AccountInv
BY IdleOp, IdleRead DEF Init, AccountInv, HasStore, AccountRead, OpenStores, Open,
                        OwnerEndpoints

\* However many requests run at once, an owner who has registered and not
\* withdrawn has an open store, and one who has withdrawn has none, provided that
\* one transaction at a time adds a store, closes one or closes the account.
THEOREM AccountMatchesUnderLock ==
    Spec /\ []AccountLocks => [](owner = "active" <=> OpenStores # {})
<1>1. TypeOK /\ AccountInv /\ AccountLocks /\ [Next]_vars => AccountInv'
  BY AccountInvKept
<1>2. AccountInv => (owner = "active" <=> OpenStores # {})
  BY DEF AccountInv, HasStore
<1> QED BY <1>1, <1>2, AccountInvInit, AccountsTypeCorrect, PTL DEF Spec

----------------------------------------------------------------------------
(* A closed store is quiet *)

ClosedQuiet ==
    \A s \in Store : store[s] = "closed" => tokens[s] = 0 /\ s \notin booked

StoreInv == ClosedQuiet /\ \A w \in Worker : StoreRead(req[w])

Closes(q, s) == (q.op = "closing" /\ q.store = s) \/ (q.op = "withdrawing" /\ s \in q.stores)

\* A lock on the store's row: no store is being closed while a request that has
\* seen it open issues a session for it or makes a reservation in it. The code
\* takes none.
StoreLocks ==
    \A v, w \in Worker :
        req[v].op \in {"issue", "book"} => ~Closes(req[w], req[v].store)

LEMMA StoreInvKept ==
    ASSUME TypeOK, StoreInv, StoreLocks, [Next]_vars
    PROVE  StoreInv'
<1>1. CASE Outside
  BY <1>1 DEF Outside, StoreInv, ClosedQuiet, StoreRead, Open
<1>2. ASSUME NEW w \in Worker, Aside(w)
      PROVE  StoreInv'
  <2>1. PICK q : Moves(w, q) /\ StoreRead(q)
    BY <1>2 DEF Aside
  <2>2. req'[w] = q /\ \A v \in Worker \ {w} : req'[v] = req[v]
    BY <2>1, MoveOne
  <2>3. \A v \in Worker : StoreRead(req'[v])
    BY <2>1, <2>2 DEF StoreInv
  <2>4. /\ UNCHANGED <<store, booked>>
        /\ \A s \in Store : tokens[s] = 0 => tokens'[s] = 0
    BY <1>2 DEF Aside
  <2> QED BY <2>3, <2>4 DEF StoreInv, ClosedQuiet, StoreRead, Open
<1>3. ASSUME NEW w \in Worker, NEW s \in Store, Register(w, s) \/ AddStore(w, s)
      PROVE  StoreInv'
  <2> DEFINE q == Step("issue", s)
  <2>1. q.op = "issue" /\ q.store = s /\ Moves(w, q)
    BY <1>3, StepFields DEF StepIs, Register, AddStore, Moves, Accept
  <2> HIDE DEF q
  <2>2. req'[w] = q /\ \A v \in Worker \ {w} : req'[v] = req[v]
    BY <2>1, MoveOne
  <2>3. /\ store'[s] = "open" /\ \A t \in Store \ {s} : store'[t] = store[t]
        /\ UNCHANGED <<tokens, booked>>
    BY <1>3 DEF Register, AddStore, TypeOK
  <2>4. \A t \in Store : Open(t) => Open(t)'
    BY <2>3 DEF Open
  <2>5. ASSUME NEW v \in Worker PROVE StoreRead(req[v])'
    <3>1. CASE v = w
      BY <2>1, <2>2, <2>3, <3>1 DEF StoreRead, Open
    <3>2. CASE v # w
      BY <2>2, <2>3, <2>4, <3>2 DEF StoreInv, StoreRead, TypeOK
    <3> QED BY <3>1, <3>2
  <2> QED BY <2>3, <2>5 DEF StoreInv, ClosedQuiet
<1>4. ASSUME NEW w \in Worker, issueOwnerSession(w) \/ CommitBooking(w)
      PROVE  StoreInv'
  <2>1. /\ Open(req[w].store) /\ req[w].op \in {"issue", "book"}
        /\ req[w].store \in Store
    BY <1>4 DEF issueOwnerSession, CommitBooking, StoreInv, StoreRead, TypeOK
  <2>2. Moves(w, Idle)
    BY <1>4 DEF issueOwnerSession, CommitBooking, Moves, End
  <2>3. req'[w] = Idle /\ \A v \in Worker \ {w} : req'[v] = req[v]
    BY <2>2, MoveOne
  <2>4. /\ store' = store
        /\ \A t \in Store \ {req[w].store} : tokens'[t] = tokens[t]
        /\ booked' \subseteq booked \union {req[w].store}
    BY <1>4, <2>1 DEF issueOwnerSession, CommitBooking, TypeOK
  <2>5. ClosedQuiet'
    BY <2>1, <2>4 DEF StoreInv, ClosedQuiet, Open
  <2>6. ASSUME NEW v \in Worker PROVE StoreRead(req[v])'
    <3>1. CASE v = w
      BY <2>3, <3>1, IdleOp DEF StoreRead
    <3>2. CASE v # w
      <4>1. ~Closes(req[v], req[w].store)
        BY <2>1 DEF StoreLocks
      <4> QED BY <2>3, <2>4, <3>2, <4>1 DEF StoreInv, StoreRead, Open, Closes
    <3> QED BY <3>1, <3>2
  <2> QED BY <2>5, <2>6 DEF StoreInv
<1>5. ASSUME NEW w \in Worker, CommitWithdraw(w) \/ CommitClose(w)
      PROVE  StoreInv'
  <2>1. PICK S : /\ closeStoresInTx(S) /\ booked' = booked
                 /\ S \intersect booked = {}
                 /\ \A s : s \in S <=> Closes(req[w], s)
    <3>1. CASE CommitWithdraw(w)
      BY <3>1 DEF CommitWithdraw, StoreInv, StoreRead, Closes
    <3>2. CASE CommitClose(w)
      BY <3>2 DEF CommitClose, StoreInv, StoreRead, Closes
    <3> QED BY <1>5, <3>1, <3>2
  <2>2. /\ \A s \in Store : s \in S => tokens'[s] = 0
        /\ \A s \in Store : s \notin S => store'[s] = store[s] /\ tokens'[s] = tokens[s]
    BY <2>1, CloseStores
  <2>3. ClosedQuiet'
    BY <2>1, <2>2 DEF StoreInv, ClosedQuiet
  <2>4. PICK q : Moves(w, q) /\ q.op \in {"pick", "idle"}
    BY <1>5, StepFields, IdleOp DEF StepIs, CommitWithdraw, CommitClose, Moves, End
  <2>5. req'[w] = q /\ \A v \in Worker \ {w} : req'[v] = req[v]
    BY <2>4, MoveOne
  <2>6. ASSUME NEW v \in Worker PROVE StoreRead(req[v])'
    <3>1. CASE v = w
      BY <2>4, <2>5, <3>1 DEF StoreRead
    <3>2. CASE v # w
      <4>1. req[v].op \in {"issue", "book"} => req[v].store \in Store \ S
        BY <2>1 DEF StoreLocks, TypeOK
      <4> QED BY <2>1, <2>2, <2>5, <3>2, <4>1 DEF StoreInv, StoreRead, Open
    <3> QED BY <3>1, <3>2
  <2> QED BY <2>3, <2>6 DEF StoreInv
<1> QED BY <1>1, <1>2, <1>3, <1>4, <1>5, NextKind DEF Writes

LEMMA StoreInvInit == Init => StoreInv
BY IdleOp DEF Init, StoreInv, ClosedQuiet, StoreRead

\* However many requests run at once, a closed store has no session of the owner
\* and no active reservation, provided that no store is closed between the look
\* of a sign-in or a reservation at it and the insert: the lock that the check
\* inside closeStore's transaction would need.
THEOREM ClosedQuietUnderLock == Spec /\ []StoreLocks => []ClosedQuiet
<1>1. TypeOK /\ StoreInv /\ StoreLocks /\ [Next]_vars => StoreInv'
  BY StoreInvKept
<1>2. StoreInv => ClosedQuiet
  BY DEF StoreInv
<1> QED BY <1>1, <1>2, StoreInvInit, AccountsTypeCorrect, PTL DEF Spec

----------------------------------------------------------------------------
(* One request at a time *)

OneRequest ==
    \A v, w \in Worker : req[v].op # "idle" /\ req[w].op # "idle" => v = w

\* Until requests overlap, nobody is there to take what the locks would hold.
SerialInv == ~overlapped => OneRequest /\ AccountInv /\ StoreInv

LEMMA OneRequestLocks == OneRequest => AccountLocks /\ StoreLocks
BY DEF OneRequest, AccountLocks, StoreLocks, Closes

LEMMA OneRequestKept ==
    ASSUME TypeOK, SerialInv, [Next]_vars, ~overlapped'
    PROVE  ~overlapped /\ OneRequest'
<1>1. overlapped \in BOOLEAN
  BY DEF TypeOK
<1>2. ASSUME NEW w \in Worker, NEW q, Moves(w, q)
      PROVE  ~overlapped /\ OneRequest'
  <2>1. req'[w] = q /\ \A v \in Worker \ {w} : req'[v] = req[v]
    BY <1>2, MoveOne
  <2>2. CASE req[w].op # "idle" /\ Continue(w, q)
    <3>1. ~overlapped
      BY <2>2 DEF Continue
    <3>2. \A v \in Worker \ {w} : req[v].op = "idle"
      BY <2>2, <3>1 DEF SerialInv, OneRequest
    <3> QED BY <2>1, <3>1, <3>2 DEF OneRequest
  <2>3. ASSUME NEW endpoint, Accept(w, endpoint, q)
        PROVE  ~overlapped /\ \A v \in Worker \ {w} : req[v].op = "idle"
    BY <1>1, <2>3 DEF Accept
  <2> QED BY <1>2, <2>1, <2>2, <2>3 DEF Moves, OneRequest
<1>3. CASE Outside
  BY <1>3 DEF Outside, SerialInv, OneRequest
<1>4. ASSUME NEW w \in Worker, Aside(w) \/ Writes(w)
      PROVE  \E q : Moves(w, q)
  BY <1>4, WriterMoves DEF Aside
<1> QED BY <1>2, <1>3, <1>4, NextKind

LEMMA SerialInvAlways == Spec => []SerialInv
<1>1. Init => SerialInv
  BY IdleOp, AccountInvInit, StoreInvInit DEF Init, SerialInv, OneRequest
<1>2. TypeOK /\ SerialInv /\ [Next]_vars => SerialInv'
  <2> SUFFICES ASSUME TypeOK, SerialInv, [Next]_vars, ~overlapped'
               PROVE  OneRequest' /\ AccountInv' /\ StoreInv'
    BY DEF SerialInv
  <2>1. ~overlapped /\ OneRequest'
    BY OneRequestKept
  <2>2. AccountLocks /\ StoreLocks
    BY <2>1, OneRequestLocks DEF SerialInv
  <2> QED BY <2>1, <2>2, AccountInvKept, StoreInvKept DEF SerialInv
<1> QED BY <1>1, <1>2, AccountsTypeCorrect, PTL DEF Spec

\* As long as no two requests have overlapped, an owner who has registered and
\* not withdrawn has an open store, and one who has withdrawn has none.
THEOREM AccountsMatchStores == Spec => []AccountMatchesStores
<1>1. SerialInv => AccountMatchesStores
  BY DEF SerialInv, AccountInv, HasStore, AccountMatchesStores
<1> QED BY <1>1, SerialInvAlways, PTL

\* As long as no two requests have overlapped, a closed store has no session of
\* the owner and no active reservation.
THEOREM ClosedStoresAreQuiet == Spec => []ClosedStoreIsQuiet
<1>1. SerialInv => ClosedStoreIsQuiet
  BY DEF SerialInv, StoreInv, ClosedQuiet, ClosedStoreIsQuiet
<1> QED BY <1>1, SerialInvAlways, PTL
=============================================================================

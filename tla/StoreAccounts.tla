--------------------------- MODULE StoreAccounts ---------------------------
(***************************************************************************)
(* The account of one owner: its stores, the sessions of the owner and of  *)
(* the staff, the invite codes staff sign in with, and closing a store or  *)
(* the account while reservations are being made.                          *)
(*                                                                         *)
(* As in Reservations a handler is a sequence of steps of one worker, and  *)
(* a transaction that reads before it writes is a Begin and a Commit step. *)
(* The transactions that write tokens, staff and codes of one store take   *)
(* the same row and range locks, so each Commit is one step.               *)
(***************************************************************************)
EXTENDS Integers, FiniteSets

CONSTANTS
    Store,              \* stores the owner may come to have
    Staff,              \* rows of store_staff
    Code,               \* rows of store_staff_invite_codes
    StoreOf,            \* Staff -> Store   (store_id)
    StaffOf,            \* Code -> Staff    (staff_id)
    NoStore, NoStaff, NoCode,
    MAX_ACTIVE_STAFF,
    MaxTokens,          \* bound on the owner's sessions of one store
    Worker,             \* requests served at the same time
    Endpoints           \* the endpoints that are called

ASSUME AccountsAssumption ==
    /\ StoreOf \in [Staff -> Store]
    /\ StaffOf \in [Code -> Staff]
    /\ NoStore \notin Store /\ NoStaff \notin Staff /\ NoCode \notin Code
    /\ MAX_ACTIVE_STAFF \in Nat
    /\ MaxTokens \in Nat

VARIABLES
    owner,      \* the row of owners, withdrawn_at set or not
    store,      \* rows of stores, closed_at set or not
    tokens,     \* per store, refresh tokens with staff_id NULL
    access,     \* stores for which an owner's access token is unexpired
    staff,      \* store_staff.status
    code,       \* invite codes: used_at, revoked_at, expires_at
    sessions,   \* per code, refresh tokens of the staff who redeemed it
    booked,     \* stores with a reservation in an active status
    req,        \* what each worker is in the middle of
    overlapped  \* two requests have been in progress at once

\* overlapped is an auxiliary variable: no action reads it.
vars == <<owner, store, tokens, access, staff, code, sessions, booked, req,
          overlapped>>

OwnerEndpoints ==
    {"switchStore", "addStore", "changePassword", "withdraw", "closeStore"}

Ops == OwnerEndpoints \union
    {"idle", "withdrawing", "closing", "pick", "issue", "createStaff",
     "reissue", "revoke", "redeem", "book"}

Request == [op : Ops,
            store : Store \union {NoStore},
            stores : SUBSET Store,          \* the open stores withdraw read
            staff : Staff \union {NoStaff},
            code : Code \union {NoCode}]

Idle == [op |-> "idle", store |-> NoStore, stores |-> {}, staff |-> NoStaff,
         code |-> NoCode]

CodeStates == {"none", "live", "expired", "used", "revoked"}

\* used_at and revoked_at are NULL.
Unused == {"live", "expired"}

TypeOK ==
    /\ owner \in {"none", "active", "withdrawn"}
    /\ store \in [Store -> {"absent", "open", "closed"}]
    /\ tokens \in [Store -> Nat]
    /\ access \in SUBSET Store
    /\ staff \in [Staff -> {"none", "active", "revoked"}]
    /\ code \in [Code -> CodeStates]
    /\ sessions \in [Code -> Nat]
    /\ booked \in SUBSET Store
    /\ req \in [Worker -> Request]
    /\ overlapped \in BOOLEAN
    /\ \A w \in Worker :
          /\ req[w].op \in {"switchStore", "addStore", "changePassword",
                            "withdraw", "closeStore", "closing", "issue", "book"}
                => req[w].store \in Store
          /\ req[w].op \in {"createStaff", "reissue", "redeem"}
                => req[w].code \in Code
          /\ req[w].op = "revoke" => req[w].staff \in Staff

Init ==
    /\ owner = "none"
    /\ store = [s \in Store |-> "absent"]
    /\ tokens = [s \in Store |-> 0]
    /\ access = {}
    /\ staff = [m \in Staff |-> "none"]
    /\ code = [c \in Code |-> "none"]
    /\ sessions = [c \in Code |-> 0]
    /\ booked = {}
    /\ req = [w \in Worker |-> Idle]
    /\ overlapped = FALSE

----------------------------------------------------------------------------

Open(s) == store[s] = "open"

OpenStores == {s \in Store : Open(s)}

CodesOf(m) == {c \in Code : StaffOf[c] = m}

\* An idle worker accepts a call of an endpoint and goes on to step.
Accept(w, endpoint, step) ==
    /\ req[w].op = "idle" /\ endpoint \in Endpoints
    /\ req' = [req EXCEPT ![w] = step]
    /\ overlapped' = (overlapped \/ \E v \in Worker \ {w} : req[v].op # "idle")

Step(op, s) == [Idle EXCEPT !.op = op, !.store = s]

Continue(w, step) ==
    req' = [req EXCEPT ![w] = step] /\ UNCHANGED overlapped

End(w) == Continue(w, Idle)

----------------------------------------------------------------------------
(* Signing in and out *)

\* The owner and the first store are created in one transaction.
Register(w, s) ==
    /\ owner = "none"
    /\ store[s] = "absent"
    /\ Accept(w, "register", Step("issue", s))
    /\ owner' = "active"
    /\ store' = [store EXCEPT ![s] = "open"]
    /\ UNCHANGED <<tokens, access, staff, code, sessions, booked>>

\* The right password for an owner who has not withdrawn.
BeginLogin(w) ==
    /\ owner = "active"
    /\ Accept(w, "login", Step("pick", NoStore))
    /\ UNCHANGED <<owner, store, tokens, access, staff, code, sessions, booked>>

\* The open store used last; which one that is is left open.
findMostRecentOpenStore(w, s) ==
    /\ req[w].op = "pick"
    /\ Open(s)
    /\ Continue(w, Step("issue", s))
    /\ UNCHANGED <<owner, store, tokens, access, staff, code, sessions, booked>>

\* INSERT of the refresh token, with no look at the store; and an access token.
issueOwnerSession(w) ==
    /\ req[w].op = "issue"
    /\ tokens[req[w].store] < MaxTokens
    /\ tokens' = [tokens EXCEPT ![req[w].store] = @ + 1]
    /\ access' = access \union {req[w].store}
    /\ End(w)
    /\ UNCHANGED <<owner, store, staff, code, sessions, booked>>

\* A refresh token yields a new access token, whatever became of the store.
Refresh(s) ==
    /\ "refresh" \in Endpoints
    /\ tokens[s] > 0
    /\ access' = access \union {s}
    /\ UNCHANGED <<owner, store, tokens, staff, code, sessions, booked, req,
                   overlapped>>

AccessExpires(s) ==
    /\ s \in access
    /\ access' = access \ {s}
    /\ UNCHANGED <<owner, store, tokens, staff, code, sessions, booked, req,
                   overlapped>>

Logout(s) ==
    /\ tokens[s] > 0
    /\ tokens' = [tokens EXCEPT ![s] = @ - 1]
    /\ UNCHANGED <<owner, store, access, staff, code, sessions, booked, req,
                   overlapped>>

LogoutStaff(c) ==
    /\ sessions[c] > 0
    /\ sessions' = [sessions EXCEPT ![c] = @ - 1]
    /\ UNCHANGED <<owner, store, tokens, access, staff, code, booked, req,
                   overlapped>>

----------------------------------------------------------------------------
(* What the owner does with an access token of store s *)

\* findOwnerOfStore, and the password where the endpoint asks for it.
findOwnerOfStore(w, s, endpoint) ==
    /\ s \in access
    /\ Open(s) /\ owner = "active"
    /\ Accept(w, endpoint, Step(endpoint, s))
    /\ UNCHANGED <<owner, store, tokens, access, staff, code, sessions, booked>>

\* The target is open; a previous token of one of the owner's stores is deleted
\* if the client sends it.
SwitchStore(w, t) ==
    /\ req[w].op = "switchStore"
    /\ Open(t)
    /\ \/ UNCHANGED tokens
       \/ \E s \in Store : /\ tokens[s] > 0
                           /\ tokens' = [tokens EXCEPT ![s] = @ - 1]
    /\ Continue(w, Step("issue", t))
    /\ UNCHANGED <<owner, store, access, staff, code, sessions, booked>>

AddStore(w, t) ==
    /\ req[w].op = "addStore"
    /\ store[t] = "absent"
    /\ store' = [store EXCEPT ![t] = "open"]
    /\ Continue(w, Step("issue", t))
    /\ UNCHANGED <<owner, tokens, access, staff, code, sessions, booked>>

\* All the owner's sessions end; those of the staff stay.
ChangePassword(w) ==
    /\ req[w].op = "changePassword"
    /\ tokens' = [s \in Store |-> 0]
    /\ End(w)
    /\ UNCHANGED <<owner, store, access, staff, code, sessions, booked>>

NoActiveReservations(S) == S \intersect booked = {}

\* Faulty: only the store of the request is looked at.
BeginWithdrawHere(w) ==
    /\ req[w].op = "withdraw"
    /\ NoActiveReservations({req[w].store})
    /\ Continue(w, [Step("withdrawing", NoStore) EXCEPT !.stores = OpenStores])
    /\ UNCHANGED <<owner, store, tokens, access, staff, code, sessions, booked>>

\* The reads of withdraw's transaction.
BeginWithdraw(w) ==
    /\ req[w].op = "withdraw"
    /\ NoActiveReservations(OpenStores)
    /\ Continue(w, [Step("withdrawing", NoStore) EXCEPT !.stores = OpenStores])
    /\ UNCHANGED <<owner, store, tokens, access, staff, code, sessions, booked>>

\* Faulty: any open store is enough.
BeginCloseAny(w) ==
    /\ req[w].op = "closeStore"
    /\ OpenStores # {}
    /\ NoActiveReservations({req[w].store})
    /\ Continue(w, Step("closing", req[w].store))
    /\ UNCHANGED <<owner, store, tokens, access, staff, code, sessions, booked>>

\* The reads of closeStore's transaction: not the last store.
BeginClose(w) ==
    /\ req[w].op = "closeStore"
    /\ Cardinality(OpenStores) > 1
    /\ NoActiveReservations({req[w].store})
    /\ Continue(w, Step("closing", req[w].store))
    /\ UNCHANGED <<owner, store, tokens, access, staff, code, sessions, booked>>

\* closeStoreInTx of each store of S: every session is deleted, active staff are
\* revoked and so are the unused codes.
closeStoresInTx(S) ==
    /\ store' = [s \in Store |-> IF s \in S THEN "closed" ELSE store[s]]
    /\ tokens' = [s \in Store |-> IF s \in S THEN 0 ELSE tokens[s]]
    /\ sessions' = [c \in Code |-> IF StoreOf[StaffOf[c]] \in S THEN 0
                                   ELSE sessions[c]]
    /\ staff' = [m \in Staff |-> IF StoreOf[m] \in S /\ staff[m] = "active"
                                 THEN "revoked" ELSE staff[m]]
    /\ code' = [c \in Code |-> IF StoreOf[StaffOf[c]] \in S /\ code[c] \in Unused
                               THEN "revoked" ELSE code[c]]

CommitWithdraw(w) ==
    /\ req[w].op = "withdrawing"
    /\ closeStoresInTx(req[w].stores)
    /\ owner' = "withdrawn"
    /\ End(w)
    /\ UNCHANGED <<access, booked>>

\* closeStore goes on to a session of a store that is left.
CommitClose(w) ==
    /\ req[w].op = "closing"
    /\ closeStoresInTx({req[w].store})
    /\ Continue(w, Step("pick", NoStore))
    /\ UNCHANGED <<owner, access, booked>>

----------------------------------------------------------------------------
(* Staff and invite codes.  The owner's access token is not checked against *)
(* the store, which may have been closed since.                             *)

OwnerMayManage(m) == StoreOf[m] \in access

ActiveStaff(s) == {m \in Staff : StoreOf[m] = s /\ staff[m] = "active"}

\* No request is creating the row.
FreshCode(c) == code[c] = "none" /\ \A v \in Worker : req[v].code # c

BeginCreateStaff(w, c) ==
    /\ OwnerMayManage(StaffOf[c])
    /\ Cardinality(ActiveStaff(StoreOf[StaffOf[c]])) < MAX_ACTIVE_STAFF
    /\ staff[StaffOf[c]] = "none"
    /\ \A d \in CodesOf(StaffOf[c]) : FreshCode(d)
    /\ Accept(w, "createStaff", [Idle EXCEPT !.op = "createStaff", !.code = c])
    /\ UNCHANGED <<owner, store, tokens, access, staff, code, sessions, booked>>

CommitCreateStaff(w) ==
    /\ req[w].op = "createStaff"
    /\ staff' = [staff EXCEPT ![StaffOf[req[w].code]] = "active"]
    /\ code' = [code EXCEPT ![req[w].code] = "live"]
    /\ End(w)
    /\ UNCHANGED <<owner, store, tokens, access, sessions, booked>>

BeginReissue(w, c) ==
    /\ OwnerMayManage(StaffOf[c])
    /\ staff[StaffOf[c]] = "active"
    /\ FreshCode(c)
    /\ Accept(w, "reissue", [Idle EXCEPT !.op = "reissue", !.code = c])
    /\ UNCHANGED <<owner, store, tokens, access, staff, code, sessions, booked>>

\* Faulty: the code is added to those the staff member has.
CommitReissueOnly(w) ==
    /\ req[w].op = "reissue"
    /\ code' = [code EXCEPT ![req[w].code] = "live"]
    /\ End(w)
    /\ UNCHANGED <<owner, store, tokens, access, staff, sessions, booked>>

\* The staff member's unused codes are revoked, also if he has been revoked.
CommitReissue(w) ==
    /\ req[w].op = "reissue"
    /\ code' = [c \in Code |->
                  IF c = req[w].code THEN "live"
                  ELSE IF StaffOf[c] = StaffOf[req[w].code] /\ code[c] \in Unused
                       THEN "revoked" ELSE code[c]]
    /\ End(w)
    /\ UNCHANGED <<owner, store, tokens, access, staff, sessions, booked>>

\* By the owner, or by the staff member who leaves an open store.
BeginRevoke(w, m) ==
    /\ \/ OwnerMayManage(m)
       \/ Open(StoreOf[m]) /\ \E c \in CodesOf(m) : code[c] = "used"
    /\ staff[m] = "active"
    /\ Accept(w, "revoke", [Idle EXCEPT !.op = "revoke", !.staff = m])
    /\ UNCHANGED <<owner, store, tokens, access, staff, code, sessions, booked>>

\* Faulty: leaving writes a status of its own.
RevokeAsLeft(w) ==
    /\ req[w].op = "revoke"
    /\ staff' = [staff EXCEPT ![req[w].staff] = "left"]
    /\ End(w)
    /\ UNCHANGED <<owner, store, tokens, access, code, sessions, booked>>

\* Faulty: the codes already sent stay usable.
RevokeKeepingCodes(w) ==
    /\ req[w].op = "revoke"
    /\ staff' = [staff EXCEPT ![req[w].staff] = "revoked"]
    /\ sessions' = [c \in Code |-> IF StaffOf[c] = req[w].staff THEN 0
                                   ELSE sessions[c]]
    /\ End(w)
    /\ UNCHANGED <<owner, store, tokens, access, code, booked>>

CommitRevoke(w) ==
    /\ req[w].op = "revoke"
    /\ staff' = [staff EXCEPT ![req[w].staff] = "revoked"]
    /\ sessions' = [c \in Code |-> IF StaffOf[c] = req[w].staff THEN 0
                                   ELSE sessions[c]]
    /\ code' = [c \in Code |-> IF StaffOf[c] = req[w].staff /\ code[c] \in Unused
                               THEN "revoked" ELSE code[c]]
    /\ End(w)
    /\ UNCHANGED <<owner, store, tokens, access, booked>>

\* The code, its staff member and the store are three reads; as none of them
\* comes back, what the last finds was so at the first.
BeginRedeem(w, c) ==
    /\ code[c] = "live"
    /\ staff[StaffOf[c]] = "active"
    /\ Open(StoreOf[StaffOf[c]])
    /\ Accept(w, "redeem", [Idle EXCEPT !.op = "redeem", !.code = c])
    /\ UNCHANGED <<owner, store, tokens, access, staff, code, sessions, booked>>

\* Faulty: the code is marked used whatever it is.
CommitRedeemAnyway(w) ==
    /\ req[w].op = "redeem"
    /\ code' = [code EXCEPT ![req[w].code] = "used"]
    /\ sessions' = [sessions EXCEPT ![req[w].code] = @ + 1]
    /\ End(w)
    /\ UNCHANGED <<owner, store, tokens, access, staff, booked>>

\* Compare-and-swap on the code; the staff member and the store are not read
\* again.
CommitRedeem(w) ==
    /\ req[w].op = "redeem"
    /\ code[req[w].code] \in Unused
    /\ code' = [code EXCEPT ![req[w].code] = "used"]
    /\ sessions' = [sessions EXCEPT ![req[w].code] = @ + 1]
    /\ End(w)
    /\ UNCHANGED <<owner, store, tokens, access, staff, booked>>

\* 24 hours pass.
ExpireCode(c) ==
    /\ code[c] = "live"
    /\ code' = [code EXCEPT ![c] = "expired"]
    /\ UNCHANGED <<owner, store, tokens, access, staff, sessions, booked, req,
                   overlapped>>

----------------------------------------------------------------------------
(* Reservations, as far as closing a store looks at them *)

\* resolveStore and assertStoreExists: the store is read, and later the row is
\* inserted.
BeginBooking(w, s) ==
    /\ Open(s)
    /\ Accept(w, "book", Step("book", s))
    /\ UNCHANGED <<owner, store, tokens, access, staff, code, sessions, booked>>

CommitBooking(w) ==
    /\ req[w].op = "book"
    /\ booked' = booked \union {req[w].store}
    /\ End(w)
    /\ UNCHANGED <<owner, store, tokens, access, staff, code, sessions>>

\* The last active reservation of the store is completed or cancelled.
EndBookings(s) ==
    /\ s \in booked
    /\ booked' = booked \ {s}
    /\ UNCHANGED <<owner, store, tokens, access, staff, code, sessions, req,
                   overlapped>>

----------------------------------------------------------------------------

\* A request ends without its next write: a check fails (the redeemed code is
\* no longer unused, no store is left), a transaction is rolled back, or the
\* process stops.
AbortRequest(w) ==
    /\ req[w].op # "idle"
    /\ End(w)
    /\ UNCHANGED <<owner, store, tokens, access, staff, code, sessions, booked>>

SessionStep(w) ==
    \/ BeginLogin(w)
    \/ issueOwnerSession(w)
    \/ \E s \in Store : \/ Register(w, s)
                        \/ findMostRecentOpenStore(w, s)
                        \/ SwitchStore(w, s)

OwnerStep(w) ==
    \/ \E s \in Store, endpoint \in OwnerEndpoints :
          findOwnerOfStore(w, s, endpoint)
    \/ \E s \in Store : AddStore(w, s)
    \/ ChangePassword(w)
    \/ BeginWithdraw(w)
    \/ CommitWithdraw(w)
    \/ BeginClose(w)
    \/ CommitClose(w)

StaffStep(w) ==
    \/ \E c \in Code : \/ BeginCreateStaff(w, c)
                       \/ BeginReissue(w, c)
                       \/ BeginRedeem(w, c)
    \/ \E m \in Staff : BeginRevoke(w, m)
    \/ CommitCreateStaff(w)
    \/ CommitReissue(w)
    \/ CommitRevoke(w)
    \/ CommitRedeem(w)

BookingStep(w) ==
    \/ \E s \in Store : BeginBooking(w, s)
    \/ CommitBooking(w)

Next ==
    \/ \E w \in Worker : \/ SessionStep(w)
                         \/ OwnerStep(w)
                         \/ StaffStep(w)
                         \/ BookingStep(w)
                         \/ AbortRequest(w)
    \/ \E s \in Store : \/ Refresh(s)
                        \/ AccessExpires(s)
                        \/ Logout(s)
                        \/ EndBookings(s)
    \/ \E c \in Code : LogoutStaff(c) \/ ExpireCode(c)

Spec == Init /\ [][Next]_vars

----------------------------------------------------------------------------
(* Safety *)

\* A staff session belongs to an active staff member of an open store and to a
\* code that has been used: revoking or leaving, closing the store and closing
\* the account end it at once, whatever is redeemed at the same time.
StaffSessionsAreLive ==
    \A c \in Code : sessions[c] > 0 =>
        /\ code[c] = "used"
        /\ staff[StaffOf[c]] = "active"
        /\ Open(StoreOf[StaffOf[c]])

\* A code opens one session, although several requests may redeem it at once.
InviteUsedOnce == \A c \in Code : sessions[c] <= 1

\* The codes sent to a staff member before the last one cannot be used.
OneUsableInvite ==
    \A c, d \in Code :
        /\ StaffOf[c] = StaffOf[d]
        /\ code[c] \in Unused /\ code[d] \in Unused
        => c = d

\* With one request at a time, an owner has an open store exactly until he
\* withdraws: closeStore refuses the last one, and withdraw closes them all.
AccountMatchesStores ==
    ~overlapped => (owner = "active" <=> OpenStores # {})

\* With one request at a time, a closed store has no session of the owner and
\* no active reservation.
ClosedStoreIsQuiet ==
    ~overlapped => \A s \in Store :
        store[s] = "closed" => tokens[s] = 0 /\ s \notin booked

\* The check for active reservations is inside the transaction "to prevent the
\* race with their creation": a closed store has none.
ClosedHasNoReservation ==
    \A s \in Store : store[s] = "closed" => s \notin booked
=============================================================================

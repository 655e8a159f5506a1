-------------------------- MODULE CustomerAccounts --------------------------
(***************************************************************************)
(* Customers: sign-in with a Kakao account, the additional sign-up form,   *)
(* refresh tokens and their rotation, and withdrawing.                     *)
(*                                                                         *)
(* A handler is a sequence of steps of one worker. A transaction that      *)
(* reads and then writes is a Begin step (its snapshot) and a Commit step. *)
(* A refresh token is a JWT of the customer and the second it was signed   *)
(* in, so two tokens signed for a customer in the same second are the same *)
(* string: a token is the pair of the two. An access token is given with   *)
(* every refresh token, and lives longer (an hour) than a behaviour here.  *)
(***************************************************************************)
EXTENDS Integers, FiniteSets

CONSTANTS
    Person,         \* Kakao accounts, by the id Kakao returns
    CustomerId,     \* ids of customers
    Slot,           \* ids of customer_refresh_tokens, in the order they are given
    NoPerson, NoRow, NoSlot,
    RefreshLife,    \* JWT_REFRESH_TOKEN_EXPIRES_IN
    MaxTime,        \* bound on the clock
    Worker,         \* requests served at the same time
    Endpoints       \* the endpoints that are called

ASSUME CustomersAssumption ==
    /\ NoPerson \notin Person /\ NoRow \notin CustomerId
    /\ NoSlot \notin Slot
    /\ NoSlot # NoRow
    /\ Slot \subseteq Nat
    /\ RefreshLife \in Nat
    /\ MaxTime \in Nat

VARIABLES
    customer,   \* rows of customers
    link,       \* customer_auth_providers: Kakao account -> customer_id
    session,    \* rows of customer_refresh_tokens
    issued,     \* tokens ever given out, and to whom
    creator,    \* whose sign-in created a row of customers
    req,        \* what each worker is in the middle of
    now         \* in seconds

\* creator, and who a token was given to, are auxiliary: no action depends on
\* them except to carry them along.
vars == <<customer, link, session, issued, creator, req, now>>

\* Whether a customer's name is '탈퇴회원' or something else, NULL included.
Name == {"other", "WITHDRAWN"}

\* provider_id is a Kakao account, or 'withdrawn_<id>', which is none.
CustomerRow == [social : Person \union {NoPerson}, name : Name]

Missing == [social |-> NoPerson, name |-> "absent"]

Token == [cust : CustomerId, iat : 0..MaxTime]

SessionRow == [token : Token, to : Person]

Unused == [token |-> NoSlot, to |-> NoPerson]
Deleted == [token |-> NoRow, to |-> NoPerson]

Ops == {"idle", "login", "signup", "issue", "rotate"}

Request == [op : Ops,
            by : Person \union {NoPerson},      \* the caller
            social : Person \union {NoPerson},  \* the verified Kakao account
            row : CustomerId \union {NoRow},    \* the customer read
            was : Name,                         \* its name when read
            name : Name \union {"none"},        \* the name of the request
            slot : Slot \union {NoSlot}]

Idle == [op |-> "idle", by |-> NoPerson, social |-> NoPerson, row |-> NoRow,
         was |-> "other", name |-> "none", slot |-> NoSlot]

TypeOK ==
    /\ customer \in [CustomerId -> CustomerRow \union {Missing}]
    /\ link \in [Person -> CustomerId \union {NoRow}]
    /\ session \in [Slot -> SessionRow \union {Unused, Deleted}]
    /\ issued \in SUBSET SessionRow
    /\ creator \in [CustomerId -> Person \union {NoPerson}]
    /\ req \in [Worker -> Request]
    /\ now \in 0..MaxTime

Init ==
    /\ customer = [c \in CustomerId |-> Missing]
    /\ link = [p \in Person |-> NoRow]
    /\ session = [s \in Slot |-> Unused]
    /\ issued = {}
    /\ creator = [c \in CustomerId |-> NoPerson]
    /\ req = [w \in Worker |-> Idle]
    /\ now = 0

----------------------------------------------------------------------------

Exists(c) == customer[c] # Missing

Live(s) == session[s] \notin {Unused, Deleted}

Holds(s, t) == Live(s) /\ session[s].token = t

Expired(t) == now >= t.iat + RefreshLife

\* The guard of the endpoints a customer is signed in for looks for the row of
\* the token's customer, which a withdrawal leaves.
CustomerAuthGuard(c) == Exists(c)

\* a ?? b, for the name of the request: dto.name, or Kakao's where that is used.
Coalesce(a, b) == IF a = "none" THEN b ELSE a

Accept(w, endpoint, step) ==
    /\ req[w].op = "idle" /\ endpoint \in Endpoints
    /\ req' = [req EXCEPT ![w] = step]

Continue(w, step) == req' = [req EXCEPT ![w] = step]

End(w) == Continue(w, Idle)

\* customer_refresh_tokens.deleteMany where customer_id = c, or where token = t.
WithoutSessionsOf(c) ==
    [s \in Slot |-> IF Live(s) /\ session[s].token.cust = c THEN Deleted
                    ELSE session[s]]

WithoutToken(t) ==
    [s \in Slot |-> IF Holds(s, t) THEN Deleted ELSE session[s]]

\* customer_auth_providers.deleteMany where customer_id = c.
WithoutLinksOf(c) == [p \in Person |-> IF link[p] = c THEN NoRow ELSE link[p]]

\* A Kakao account is the provider_id of one row (uniq_customer_provider).
SocialIsFree(p, except) ==
    \A c \in CustomerId \ except : Exists(c) => customer[c].social # p

----------------------------------------------------------------------------
\* verifyAccessToken and assertRequestedSocialIdMatches: whom Kakao says the
\* provider token is of; without an answer, or with another one than the
\* socialId of the request, the request is refused. No provider but Kakao is
\* implemented.
Verified == Person

\* socialLogin: the transaction reads the customer with Kakao's provider_id.
BeginLogin(w, p, name) ==
    /\ \E c \in CustomerId \union {NoRow} :
        /\ IF c = NoRow THEN SocialIsFree(p, {})
           ELSE Exists(c) /\ customer[c].social = p
        /\ Accept(w, "socialLogin",
                  [Idle EXCEPT !.op = "login", !.by = p, !.social = p, !.row = c,
                               !.was = IF c = NoRow THEN "other"
                                       ELSE customer[c].name,
                               !.name = name])
        /\ UNCHANGED <<customer, link, session, issued, creator, now>>

\* The reads of refresh and sign-in that find nobody end the request at once;
\* a row named 탈퇴회원 is deleted and made anew, any other is updated.
ShouldCreate(r) == r.row = NoRow \/ r.was = "WITHDRAWN"

createSocialCustomer(w, c) ==
    LET r == req[w]
        gone == {r.row} \ {NoRow} IN
    /\ ShouldCreate(r)
    /\ \A d \in gone : Exists(d)
    /\ creator[c] = NoPerson
    /\ SocialIsFree(r.social, gone)
    /\ customer' = [d \in CustomerId |->
          CASE d = c -> [social |-> r.social, name |-> Coalesce(r.name, "other")]
            [] d \in gone -> Missing
            [] OTHER -> customer[d]]
    /\ session' = IF gone = {} THEN session ELSE WithoutSessionsOf(r.row)
    /\ link' = [IF gone = {} THEN link ELSE WithoutLinksOf(r.row)
                    EXCEPT ![r.social] = c]
    /\ creator' = [creator EXCEPT ![c] = r.social]
    /\ Continue(w, [Idle EXCEPT !.op = "issue", !.by = r.by, !.row = c])
    /\ UNCHANGED <<issued, now>>

\* The update is by id and leaves provider_id as it is now.
updateExistingSocialCustomer(w) ==
    LET r == req[w] IN
    /\ ~ShouldCreate(r)
    /\ Exists(r.row)
    /\ customer' = [customer EXCEPT ![r.row].name =
                        Coalesce(r.name, r.was)]
    /\ link' = [link EXCEPT ![r.social] = r.row]
    /\ Continue(w, [Idle EXCEPT !.op = "issue", !.by = r.by, !.row = r.row])
    /\ UNCHANGED <<session, issued, creator, now>>

CommitLogin(w) ==
    /\ req[w].op = "login"
    /\ \/ \E c \in CustomerId : createSocialCustomer(w, c)
       \/ updateExistingSocialCustomer(w)

----------------------------------------------------------------------------
\* Faulty: no comparison of the Kakao account with the customer's.
SignupUnchecked(w, given, p, name) ==
    LET c == given.token.cust IN
    /\ CustomerAuthGuard(c)
    /\ Accept(w, "signup",
              [Idle EXCEPT !.op = "signup", !.by = given.to, !.social = p,
                           !.row = c, !.name = name])
    /\ UNCHANGED <<customer, link, session, issued, creator, now>>

\* signup, with an access token and, perhaps, the access token of a Kakao
\* account, whose holder p is NoPerson without one. A customer's provider_id is
\* never NULL, so that Kakao's has to be equal to it.
BeginSignup(w, given, p, name) ==
    LET c == given.token.cust IN
    /\ CustomerAuthGuard(c)
    /\ p # NoPerson => customer[c].social = p
    /\ Accept(w, "signup",
              [Idle EXCEPT !.op = "signup", !.by = given.to, !.social = p,
                           !.row = c, !.name = name])
    /\ UNCHANGED <<customer, link, session, issued, creator, now>>

CommitSignup(w) ==
    LET r == req[w] IN
    /\ r.op = "signup"
    /\ Exists(r.row)
    /\ r.social # NoPerson => SocialIsFree(r.social, {r.row})
    /\ customer' = [customer EXCEPT
          ![r.row].name = Coalesce(r.name, @),
          ![r.row].social = IF r.social = NoPerson THEN @ ELSE r.social]
    /\ link' = IF r.social = NoPerson THEN link
               ELSE [link EXCEPT ![r.social] = r.row]
    /\ Continue(w, [Idle EXCEPT !.op = "issue", !.by = r.by, !.row = r.row])
    /\ UNCHANGED <<session, issued, creator, now>>

----------------------------------------------------------------------------
\* The tokens are signed, and the refresh token inserted after the
\* transaction; the INSERT needs the customer's row (its foreign key).
issueAuthResponse(w) ==
    LET r == req[w]
        new == [token |-> [cust |-> r.row, iat |-> now], to |-> r.by] IN
    /\ r.op = "issue"
    /\ Exists(r.row)
    /\ \E s \in Slot :
          /\ session[s] = Unused
          /\ \A q \in Slot : session[q] = Unused => s <= q
          /\ session' = [session EXCEPT ![s] = new]
    /\ issued' = issued \union {new}
    /\ End(w)
    /\ UNCHANGED <<customer, link, creator, now>>

\* refresh: finds a row that holds the token presented, and rotates it by id.
BeginRefresh(w, given) ==
    \E s \in Slot :
        /\ Holds(s, given.token)
        /\ ~Expired(given.token)
        /\ Accept(w, "refresh",
                  [Idle EXCEPT !.op = "rotate", !.by = given.to,
                               !.row = given.token.cust, !.slot = s])
        /\ UNCHANGED <<customer, link, session, issued, creator, now>>

\* Faulty: an upsert in the place of the update.
RotateAnyway(w) ==
    LET r == req[w]
        new == [token |-> [cust |-> r.row, iat |-> now], to |-> r.by] IN
    /\ r.op = "rotate"
    /\ Exists(r.row)
    /\ session' = [session EXCEPT ![r.slot] = new]
    /\ issued' = issued \union {new}
    /\ End(w)
    /\ UNCHANGED <<customer, link, creator, now>>

CommitRefresh(w) ==
    LET r == req[w]
        new == [token |-> [cust |-> r.row, iat |-> now], to |-> r.by] IN
    /\ r.op = "rotate"
    /\ Live(r.slot)
    /\ session' = [session EXCEPT ![r.slot] = new]
    /\ issued' = issued \union {new}
    /\ End(w)
    /\ UNCHANGED <<customer, link, creator, now>>

Logout(given) ==
    /\ "logout" \in Endpoints
    /\ session' = WithoutToken(given.token)
    /\ UNCHANGED <<customer, link, issued, creator, req, now>>

\* withdraw: one transaction without reads. The row stays.
Withdraw(given) ==
    LET c == given.token.cust IN
    /\ "withdraw" \in Endpoints
    /\ CustomerAuthGuard(c)
    /\ session' = WithoutSessionsOf(c)
    /\ link' = WithoutLinksOf(c)
    /\ customer' = [customer EXCEPT
                        ![c] = [social |-> NoPerson, name |-> "WITHDRAWN"]]
    /\ UNCHANGED <<issued, creator, req, now>>

UpdateMe(given, name) ==
    LET c == given.token.cust IN
    /\ "updateMe" \in Endpoints
    /\ CustomerAuthGuard(c)
    /\ customer' = [customer EXCEPT ![c].name = name]
    /\ UNCHANGED <<link, session, issued, creator, req, now>>

\* A statement fails (a lost connection, an e-mail address or a Kakao account
\* that another row has, a row deleted meanwhile), or the process stops: what
\* was committed stays and the transaction is rolled back.
AbortRequest(w) ==
    /\ req[w].op # "idle"
    /\ End(w)
    /\ UNCHANGED <<customer, link, session, issued, creator, now>>

Tick ==
    /\ now < MaxTime
    /\ now' = now + 1
    /\ UNCHANGED <<customer, link, session, issued, creator, req>>

Next ==
    \/ \E w \in Worker :
          \/ \E p \in Verified, n \in Name \union {"none"} : BeginLogin(w, p, n)
          \/ CommitLogin(w)
          \/ \E given \in issued, p \in Person \union {NoPerson},
                n \in Name \union {"none"} : BeginSignup(w, given, p, n)
          \/ CommitSignup(w)
          \/ issueAuthResponse(w)
          \/ \E given \in issued : BeginRefresh(w, given)
          \/ CommitRefresh(w)
          \/ AbortRequest(w)
    \/ \E given \in issued : Logout(given) \/ Withdraw(given)
    \/ \E given \in issued, n \in Name : UpdateMe(given, n)
    \/ Tick

Spec == Init /\ [][Next]_vars

----------------------------------------------------------------------------
\* A customer's row, its link to Kakao and its sessions belong to the Kakao
\* account whose sign-in created the row, whatever sign-ins, sign-up forms and
\* withdrawals overlapped (customer-auth.service.ts, socialLogin and
\* signupCustomer, which compare provider ids before they write).
OneAccountPerPerson ==
    /\ \A c \in CustomerId : customer[c].social \in {creator[c], NoPerson}
    /\ \A p \in Person : link[p] # NoRow => creator[link[p]] = p
    /\ \A s \in Slot : Live(s) => session[s].to = creator[session[s].token.cust]

RevokedStays == \A s \in Slot : session[s] = Deleted => session'[s] = Deleted

\* A session that a logout, a withdrawal or a new sign-up deleted never comes
\* back, even when a rotation of its token was between its SELECT and its
\* UPDATE, which finds the row by id (customer-auth.service.ts, refresh, logout
\* and withdraw).
RevokedStaysRevoked == [][RevokedStays]_vars
=============================================================================

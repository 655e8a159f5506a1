---------------------------- MODULE SigninProofs ----------------------------
(***************************************************************************)
(* Theorems about signing in, for any constants:                           *)
(*   CustomerAccounts: whom an account and its sessions belong to, and     *)
(*     that a deleted session stays deleted.                               *)
(*   Credentials: which sessions outlive a change of the password, and how *)
(*     many wrong passwords two clients may try before the lock.           *)
(*   EmailVerification: how many wrong codes a code answers, and how many  *)
(*     codes of an address are open.                                       *)
(***************************************************************************)
EXTENDS CustomerAccounts, Credentials, EmailVerification, FiniteSetTheorems, TLAPS

----------------------------------------------------------------------------
(* CustomerAccounts: the invariant *)

\* Every table in its type; requests and tokens are typed by what they are for.
TablesTyped ==
    /\ customer \in [CustomerId -> CustomerRow \union {Missing}]
    /\ link \in [Person -> CustomerId \union {NoRow}]
    /\ session \in [Slot -> SessionRow \union {Unused, Deleted}]
    /\ issued \in SUBSET SessionRow
    /\ creator \in [CustomerId -> Person \union {NoPerson}]
    /\ now \in 0..MaxTime

\* A row was created by the sign-in of a Kakao account, and the tokens given
\* out for it were given to that one.
TokensMatch ==
    /\ \A t \in issued : t.to = creator[t.token.cust] /\ t.to \in Person
    /\ \A s \in Slot : Live(s) =>
          session[s] \in SessionRow /\ session[s].to = creator[session[s].token.cust]

CustomersMatch ==
    /\ \A c \in CustomerId : customer[c].social \in {creator[c], NoPerson}
    /\ \A p \in Person : link[p] # NoRow => creator[link[p]] = p

\* What a request was accepted with stays true while it runs: the customer it
\* has read is its caller's, and the Kakao account is its caller's.
Mine(q) ==
    /\ q.op = "login" =>
          /\ q.social \in Person /\ q.by = q.social
          /\ q.row \in CustomerId => creator[q.row] = q.social
    /\ q.op \in {"signup", "issue", "rotate"} =>
          q.row \in CustomerId /\ q.by \in Person /\ creator[q.row] = q.by
    /\ q.op = "signup" => q.social \in {NoPerson, q.by}
    /\ q.op = "rotate" => q.slot \in Slot

RequestsMatch == req \in [Worker -> Request] /\ \A w \in Worker : Mine(req[w])

AccountInv == TablesTyped /\ TokensMatch /\ CustomersMatch /\ RequestsMatch

LEMMA AccountInvTyped == AccountInv => TypeOK
BY DEF AccountInv, TablesTyped, RequestsMatch, TypeOK

LEMMA AccountInit == Init => AccountInv
<1> SUFFICES ASSUME Init PROVE AccountInv
  OBVIOUS
<1>1. TablesTyped
  BY CustomersAssumption DEF Init, TablesTyped
<1>2. TokensMatch
  BY DEF Init, TokensMatch, Live
<1>3. CustomersMatch
  BY DEF Init, CustomersMatch, Missing
<1>4. Idle \in Request /\ Mine(Idle)
  BY DEF Idle, Request, Ops, Name, Mine
<1>5. RequestsMatch
  BY <1>4 DEF Init, RequestsMatch
<1> QED BY <1>1, <1>2, <1>3, <1>5 DEF AccountInv

----------------------------------------------------------------------------
(* Steps of requests *)

LEMMA IdleMine == Idle \in Request /\ Mine(Idle)
BY DEF Idle, Request, Ops, Name, Mine

\* A request that goes on with a step that is its own leaves the others'.
LEMMA ContinueMatches ==
    ASSUME RequestsMatch, NEW w \in Worker, NEW q \in Request, Mine(q),
           Continue(w, q) \/ req' = [req EXCEPT ![w] = q], UNCHANGED creator
    PROVE  RequestsMatch'
<1>1. req' = [req EXCEPT ![w] = q]
  BY DEF Continue
<1>2. req' \in [Worker -> Request]
  BY <1>1 DEF RequestsMatch
<1>3. ASSUME NEW v \in Worker PROVE Mine(req[v])'
  BY <1>1, <1>3 DEF RequestsMatch, Mine
<1> QED BY <1>2, <1>3 DEF RequestsMatch

LEMMA AcceptMatches ==
    ASSUME RequestsMatch, NEW w \in Worker, NEW e, NEW q \in Request, Mine(q),
           Accept(w, e, q), UNCHANGED creator
    PROVE  RequestsMatch'
BY ContinueMatches DEF Accept

LEMMA EndMatches ==
    ASSUME RequestsMatch, NEW w \in Worker, End(w), UNCHANGED creator
    PROVE  RequestsMatch'
BY ContinueMatches, IdleMine DEF End

\* A token that is signed for a request's customer is its caller's.
LEMMA NewToken ==
    ASSUME AccountInv, NEW w \in Worker, req[w].op \in {"issue", "rotate"}
    PROVE  LET new == [token |-> [cust |-> req[w].row, iat |-> now],
                       to |-> req[w].by]
           IN  /\ new \in SessionRow
               /\ new.to = creator[new.token.cust] /\ new.to \in Person
BY DEF AccountInv, TablesTyped, RequestsMatch, Mine, SessionRow, Token

LEMMA BeginLoginInv ==
    ASSUME AccountInv, NEW w \in Worker, NEW p \in Verified,
           NEW n \in Name \union {"none"}, BeginLogin(w, p, n)
    PROVE  AccountInv'
<1>1. PICK c \in CustomerId \union {NoRow} :
        /\ IF c = NoRow THEN SocialIsFree(p, {})
           ELSE Exists(c) /\ customer[c].social = p
        /\ Accept(w, "socialLogin",
                  [Idle EXCEPT !.op = "login", !.by = p, !.social = p, !.row = c,
                               !.was = IF c = NoRow THEN "other"
                                       ELSE customer[c].name,
                               !.name = n])
        /\ UNCHANGED <<customer, link, session, issued, creator, now>>
  BY DEF BeginLogin
<1> DEFINE q == [Idle EXCEPT !.op = "login", !.by = p, !.social = p, !.row = c,
                             !.was = IF c = NoRow THEN "other"
                                     ELSE customer[c].name,
                             !.name = n]
<1>2. c # NoRow => c \in CustomerId /\ customer[c].name \in Name /\ creator[c] = p
  <2>1. c \in CustomerId => NoPerson # p
    BY CustomersAssumption DEF Verified
  <2> QED BY <1>1, <2>1 DEF AccountInv, TablesTyped, CustomersMatch, Exists, CustomerRow, Name, Missing
<1>3. q \in Request /\ Mine(q)
  <2>1. q \in Request
    BY <1>2 DEF Idle, Request, Ops, Verified, Name
  <2> QED BY <1>2, <2>1, CustomersAssumption DEF Idle, Mine, Verified
<1>4. RequestsMatch'
  <2> HIDE DEF q
  <2> QED BY <1>1, <1>3, AcceptMatches DEF AccountInv, q
<1>5. TablesTyped' /\ TokensMatch' /\ CustomersMatch'
  BY <1>1 DEF AccountInv, TablesTyped, TokensMatch, CustomersMatch, Live
<1> QED BY <1>4, <1>5 DEF AccountInv

LEMMA BeginSignupInv ==
    ASSUME AccountInv, NEW w \in Worker, NEW given \in issued,
           NEW p \in Person \union {NoPerson}, NEW n \in Name \union {"none"},
           BeginSignup(w, given, p, n)
    PROVE  AccountInv'
<1> DEFINE c == given.token.cust
           q == [Idle EXCEPT !.op = "signup", !.by = given.to, !.social = p,
                             !.row = c, !.name = n]
<1>1. /\ Accept(w, "signup", q)
      /\ p # NoPerson => customer[c].social = p
      /\ UNCHANGED <<customer, link, session, issued, creator, now>>
  BY DEF BeginSignup
<1>2. c \in CustomerId /\ given.to \in Person /\ creator[c] = given.to
  BY DEF AccountInv, TablesTyped, TokensMatch, SessionRow, Token
<1>3. p \in {NoPerson, given.to}
  BY <1>1, <1>2 DEF AccountInv, CustomersMatch
<1>4. q \in Request
  BY <1>2 DEF Idle, Request, Ops, Name
<1>5. Mine(q)
  BY <1>2, <1>3 DEF Mine, Idle
<1>6. RequestsMatch'
  <2> HIDE DEF q
  <2> QED BY <1>1, <1>4, <1>5, AcceptMatches DEF AccountInv
<1>7. TablesTyped' /\ TokensMatch' /\ CustomersMatch'
  BY <1>1 DEF AccountInv, TablesTyped, TokensMatch, CustomersMatch, Live
<1> QED BY <1>6, <1>7 DEF AccountInv

LEMMA BeginRefreshInv ==
    ASSUME AccountInv, NEW w \in Worker, NEW given \in issued, BeginRefresh(w, given)
    PROVE  AccountInv'
<1>1. PICK s \in Slot :
        /\ Accept(w, "refresh",
                  [Idle EXCEPT !.op = "rotate", !.by = given.to,
                               !.row = given.token.cust, !.slot = s])
        /\ UNCHANGED <<customer, link, session, issued, creator, now>>
  BY DEF BeginRefresh
<1> DEFINE q == [Idle EXCEPT !.op = "rotate", !.by = given.to,
                             !.row = given.token.cust, !.slot = s]
<1>2. /\ given.token.cust \in CustomerId /\ given.to \in Person
      /\ creator[given.token.cust] = given.to
  BY DEF AccountInv, TablesTyped, TokensMatch, SessionRow, Token
<1>3. q \in Request
  BY <1>2 DEF Idle, Request, Ops, Name
<1>4. Mine(q)
  BY <1>2 DEF Mine, Idle
<1>5. RequestsMatch'
  <2> HIDE DEF q
  <2> QED BY <1>1, <1>3, <1>4, AcceptMatches DEF AccountInv, q
<1>6. TablesTyped' /\ TokensMatch' /\ CustomersMatch'
  BY <1>1 DEF AccountInv, TablesTyped, TokensMatch, CustomersMatch, Live
<1> QED BY <1>5, <1>6 DEF AccountInv

----------------------------------------------------------------------------
(* Steps that write *)

\* A row that nobody's sign-in created yet is nobody's: nothing speaks of it.
LEMMA CreateInv ==
    ASSUME AccountInv, NEW w \in Worker, req[w].op = "login", NEW c \in CustomerId,
           createSocialCustomer(w, c)
    PROVE  AccountInv'
<1> DEFINE r == req[w]
           gone == {r.row} \ {NoRow}
           q == [Idle EXCEPT !.op = "issue", !.by = r.by, !.row = c]
<1>1. /\ creator[c] = NoPerson
      /\ customer' = [d \in CustomerId |->
            CASE d = c -> [social |-> r.social, name |-> Coalesce(r.name, "other")]
              [] d \in gone -> Missing
              [] OTHER -> customer[d]]
      /\ session' = IF gone = {} THEN session ELSE WithoutSessionsOf(r.row)
      /\ link' = [IF gone = {} THEN link ELSE WithoutLinksOf(r.row)
                      EXCEPT ![r.social] = c]
      /\ creator' = [creator EXCEPT ![c] = r.social]
      /\ Continue(w, q)
      /\ UNCHANGED <<issued, now>>
  BY DEF createSocialCustomer
<1>2. r \in Request /\ r.social \in Person /\ r.by = r.social
  BY DEF AccountInv, RequestsMatch, Mine
<1>3. creator' \in [CustomerId -> Person \union {NoPerson}] /\ creator'[c] = r.social
  BY <1>1, <1>2 DEF AccountInv, TablesTyped
<1>4. /\ \A d \in CustomerId : creator[d] \in Person => creator'[d] = creator[d]
      /\ c \notin gone
  <2>1. r.row \in CustomerId => creator[r.row] = r.social
    BY DEF AccountInv, RequestsMatch, Mine
  <2> QED BY <1>1, <1>2, <2>1, CustomersAssumption DEF AccountInv, TablesTyped
<1>5. TablesTyped'
  <2>1. Coalesce(r.name, "other") \in Name
    BY <1>2 DEF Coalesce, Request, Name
  <2>2. customer' \in [CustomerId -> CustomerRow \union {Missing}]
    BY <1>1, <1>2, <2>1 DEF AccountInv, TablesTyped, CustomerRow
  <2>3. link' \in [Person -> CustomerId \union {NoRow}]
    BY <1>1, <1>2 DEF AccountInv, TablesTyped, WithoutLinksOf
  <2>4. session' \in [Slot -> SessionRow \union {Unused, Deleted}]
    BY <1>1 DEF AccountInv, TablesTyped, WithoutSessionsOf
  <2> QED BY <1>1, <1>3, <2>2, <2>3, <2>4 DEF AccountInv, TablesTyped
<1>6. TokensMatch'
  <2>1. \A t \in issued : t.token.cust \in CustomerId /\ t.to \in Person
    BY DEF AccountInv, TablesTyped, TokensMatch, SessionRow, Token
  <2>2. \A s \in Slot : Live(s)' => session'[s] = session[s] /\ Live(s)
    BY <1>1 DEF AccountInv, TablesTyped, WithoutSessionsOf, Live
  <2>3. \A s \in Slot : Live(s) =>
            session[s].token.cust \in CustomerId /\ session[s].to \in Person
    BY DEF AccountInv, TokensMatch, SessionRow, Token
  <2>4. \A t \in issued' : t.to = creator'[t.token.cust] /\ t.to \in Person
    BY <1>1, <1>4, <2>1 DEF AccountInv, TokensMatch
  <2>5. \A s \in Slot : Live(s)' =>
            session'[s] \in SessionRow
            /\ session'[s].to = creator'[session'[s].token.cust]
    BY <1>4, <2>2, <2>3 DEF AccountInv, TokensMatch
  <2> QED BY <2>4, <2>5 DEF TokensMatch
<1>7. CustomersMatch'
  <2>1. ASSUME NEW d \in CustomerId PROVE customer'[d].social \in {creator'[d], NoPerson}
    <3>1. CASE d = c
      <4>1. customer'[d] = [social |-> r.social, name |-> Coalesce(r.name, "other")]
        BY <1>1, <1>4, <3>1
      <4> QED BY <1>3, <3>1, <4>1
    <3>2. CASE d # c /\ d \in gone
      BY <1>1, <3>2 DEF Missing
    <3>3. CASE d # c /\ d \notin gone
      BY <1>1, <3>3 DEF AccountInv, CustomersMatch, TablesTyped
    <3> QED BY <3>1, <3>2, <3>3
  <2>2. ASSUME NEW p \in Person, link'[p] # NoRow PROVE creator'[link'[p]] = p
    <3>1. CASE p = r.social
      BY <1>1, <1>2, <1>3, <3>1 DEF AccountInv, TablesTyped, WithoutLinksOf
    <3>2. CASE p # r.social
      <4>1. link'[p] = link[p]
        BY <1>1, <2>2, <3>2 DEF AccountInv, TablesTyped, WithoutLinksOf
      <4>2. creator[link[p]] = p /\ link[p] \in CustomerId
        BY <2>2, <4>1 DEF AccountInv, TablesTyped, CustomersMatch
      <4> QED BY <1>4, <4>1, <4>2
    <3> QED BY <3>1, <3>2
  <2> QED BY <2>1, <2>2 DEF CustomersMatch
<1>8. RequestsMatch'
  <2>1. q \in Request
    BY <1>2 DEF Idle, Request, Ops, Name
  <2>2. /\ q.op = "issue" /\ q.row = c /\ q.by = r.social
    BY <1>2 DEF Idle
  <2>3. req' = [req EXCEPT ![w] = q]
    BY <1>1 DEF Continue
  <2> HIDE DEF q
  <2>4. ASSUME NEW v \in Worker PROVE Mine(req[v])'
    <3>1. CASE v = w
      BY <1>2, <1>3, <2>2, <2>3, <3>1 DEF AccountInv, RequestsMatch, Mine
    <3>2. CASE v # w
      <4>1. req'[v] = req[v] /\ Mine(req[v])
        BY <2>3, <3>2 DEF AccountInv, RequestsMatch
      <4> QED BY <1>4, <4>1 DEF Mine
    <3> QED BY <3>1, <3>2
  <2>5. req' \in [Worker -> Request]
    BY <2>1, <2>3 DEF AccountInv, RequestsMatch
  <2> QED BY <2>4, <2>5 DEF RequestsMatch
<1> QED BY <1>5, <1>6, <1>7, <1>8 DEF AccountInv

LEMMA UpdateLoginInv ==
    ASSUME AccountInv, NEW w \in Worker, req[w].op = "login",
           updateExistingSocialCustomer(w)
    PROVE  AccountInv'
<1> DEFINE r == req[w]
           q == [Idle EXCEPT !.op = "issue", !.by = r.by, !.row = r.row]
<1>1. /\ ~ShouldCreate(r) /\ Exists(r.row)
      /\ customer' = [customer EXCEPT ![r.row].name = Coalesce(r.name, r.was)]
      /\ link' = [link EXCEPT ![r.social] = r.row]
      /\ Continue(w, q)
      /\ UNCHANGED <<session, issued, creator, now>>
  BY DEF updateExistingSocialCustomer
<1>2. r \in Request /\ r.social \in Person /\ r.by = r.social
  BY DEF AccountInv, RequestsMatch, Mine
<1>3. r.row \in CustomerId /\ creator[r.row] = r.social
  <2>1. r.row \in CustomerId
    BY <1>1, <1>2 DEF ShouldCreate, Request
  <2> QED BY <2>1 DEF AccountInv, RequestsMatch, Mine
<1>4. TablesTyped'
  <2>1. Coalesce(r.name, r.was) \in Name
    BY <1>2 DEF Coalesce, Request, Name
  <2>2. customer[r.row] \in CustomerRow
    BY <1>1, <1>3 DEF AccountInv, TablesTyped, Exists
  <2>3. [customer[r.row] EXCEPT !.name = Coalesce(r.name, r.was)] \in CustomerRow
    BY <2>1, <2>2 DEF CustomerRow
  <2> QED BY <1>1, <1>2, <1>3, <2>3 DEF AccountInv, TablesTyped
<1>5. CustomersMatch'
  <2>1. \A d \in CustomerId : customer'[d].social = customer[d].social
    BY <1>1, <1>3 DEF AccountInv, TablesTyped, CustomerRow, Missing
  <2>2. \A p \in Person : link'[p] = IF p = r.social THEN r.row ELSE link[p]
    BY <1>1, <1>2 DEF AccountInv, TablesTyped
  <2> QED BY <1>1, <1>3, <2>1, <2>2 DEF AccountInv, CustomersMatch
<1>6. TokensMatch'
  BY <1>1 DEF AccountInv, TokensMatch, Live
<1>7. q \in Request /\ Mine(q)
  <2>1. q \in Request
    BY <1>2, <1>3 DEF Idle, Request, Ops, Name
  <2> QED BY <1>2, <1>3, <2>1 DEF Idle, Mine
<1>8. RequestsMatch'
  <2> HIDE DEF q
  <2> QED BY <1>1, <1>7, ContinueMatches DEF AccountInv
<1> QED BY <1>4, <1>5, <1>6, <1>8 DEF AccountInv

LEMMA CommitSignupInv ==
    ASSUME AccountInv, NEW w \in Worker, CommitSignup(w)
    PROVE  AccountInv'
<1> DEFINE r == req[w]
           q == [Idle EXCEPT !.op = "issue", !.by = r.by, !.row = r.row]
<1>1. /\ r.op = "signup" /\ Exists(r.row)
      /\ customer' = [customer EXCEPT
            ![r.row].name = Coalesce(r.name, @),
            ![r.row].social = IF r.social = NoPerson THEN @ ELSE r.social]
      /\ link' = IF r.social = NoPerson THEN link
                 ELSE [link EXCEPT ![r.social] = r.row]
      /\ Continue(w, q)
      /\ UNCHANGED <<session, issued, creator, now>>
  BY DEF CommitSignup
<1>2. /\ r \in Request /\ r.row \in CustomerId /\ r.by \in Person
      /\ creator[r.row] = r.by /\ r.social \in {NoPerson, r.by}
  BY <1>1 DEF AccountInv, RequestsMatch, Mine
<1> DEFINE new == [customer[r.row] EXCEPT
                      !.name = Coalesce(r.name, @),
                      !.social = IF r.social = NoPerson THEN @ ELSE r.social]
<1>3. /\ customer[r.row] \in CustomerRow
      /\ new \in CustomerRow
      /\ new.social = IF r.social = NoPerson THEN customer[r.row].social ELSE r.social
  <2>1. customer[r.row] \in CustomerRow
    BY <1>1, <1>2 DEF AccountInv, TablesTyped, Exists
  <2>2. Coalesce(r.name, customer[r.row].name) \in Name
    BY <1>2, <2>1 DEF Coalesce, Request, CustomerRow, Name
  <2> QED BY <1>2, <2>1, <2>2 DEF CustomerRow
<1>4. customer' = [customer EXCEPT ![r.row] = new]
  BY <1>1, <1>2, <1>3 DEF AccountInv, TablesTyped
<1>5. TablesTyped'
  <2> HIDE DEF new
  <2> QED BY <1>1, <1>2, <1>3, <1>4 DEF AccountInv, TablesTyped
<1>6. CustomersMatch'
  <2>1. \A d \in CustomerId : customer'[d].social =
            IF d = r.row /\ r.social # NoPerson THEN r.social ELSE customer[d].social
    <3> HIDE DEF new
    <3> QED BY <1>2, <1>3, <1>4 DEF AccountInv, TablesTyped
  <2>2. \A p \in Person : link'[p] =
            IF p = r.social /\ r.social # NoPerson THEN r.row ELSE link[p]
    BY <1>1, <1>2 DEF AccountInv, TablesTyped
  <2>3. \A d \in CustomerId : customer'[d].social \in {creator[d], NoPerson}
    BY <1>2, <2>1 DEF AccountInv, CustomersMatch
  <2>4. \A p \in Person : link'[p] # NoRow => creator[link'[p]] = p
    BY <1>2, <2>2 DEF AccountInv, CustomersMatch
  <2>5. creator' = creator
    BY <1>1
  <2> QED BY <2>3, <2>4, <2>5 DEF CustomersMatch
<1>7. TokensMatch'
  BY <1>1 DEF AccountInv, TokensMatch, Live
<1>8. q \in Request /\ Mine(q)
  <2>1. q \in Request
    BY <1>2 DEF Idle, Request, Ops, Name
  <2> QED BY <1>2, <2>1 DEF Idle, Mine
<1>9. RequestsMatch'
  <2> HIDE DEF q
  <2> QED BY <1>1, <1>8, ContinueMatches DEF AccountInv
<1> QED BY <1>5, <1>6, <1>7, <1>9 DEF AccountInv

\* A session is inserted, or a token rotated.
LEMMA SessionInv ==
    ASSUME AccountInv, NEW w \in Worker, issueAuthResponse(w) \/ CommitRefresh(w)
    PROVE  AccountInv'
<1> DEFINE r == req[w]
           new == [token |-> [cust |-> r.row, iat |-> now], to |-> r.by]
<1>1. PICK s \in Slot :
        /\ r.op \in {"issue", "rotate"}
        /\ session' = [session EXCEPT ![s] = new]
        /\ issued' = issued \union {new}
        /\ End(w)
        /\ UNCHANGED <<customer, link, creator, now>>
  <2>1. CASE issueAuthResponse(w)
    BY <2>1 DEF issueAuthResponse
  <2>2. CASE CommitRefresh(w)
    <3>1. r.slot \in Slot
      BY <2>2 DEF CommitRefresh, AccountInv, RequestsMatch, Mine
    <3> QED BY <2>2, <3>1 DEF CommitRefresh
  <2> QED BY <2>1, <2>2
<1>2. /\ new \in SessionRow
      /\ new.to = creator[new.token.cust] /\ new.to \in Person
  BY <1>1, NewToken
<1> HIDE DEF new
<1>3. TablesTyped'
  BY <1>1, <1>2 DEF AccountInv, TablesTyped
<1>4. TokensMatch'
  <2>1. \A q \in Slot : session'[q] = IF q = s THEN new ELSE session[q]
    BY <1>1 DEF AccountInv, TablesTyped
  <2> QED BY <1>1, <1>2, <2>1 DEF AccountInv, TokensMatch, Live
<1>5. CustomersMatch'
  BY <1>1 DEF AccountInv, CustomersMatch
<1>6. RequestsMatch'
  BY <1>1, EndMatches DEF AccountInv
<1> QED BY <1>3, <1>4, <1>5, <1>6 DEF AccountInv

----------------------------------------------------------------------------
(* Steps of one statement *)

LEMMA LogoutInv ==
    ASSUME AccountInv, NEW given \in issued, Logout(given)
    PROVE  AccountInv'
<1>1. session' = WithoutToken(given.token)
      /\ UNCHANGED <<customer, link, issued, creator, req, now>>
  BY DEF Logout
<1>2. TablesTyped'
  BY <1>1 DEF WithoutToken, AccountInv, TablesTyped
<1>3. TokensMatch'
  <2>1. \A s \in Slot : Live(s)' => session'[s] = session[s] /\ Live(s)
    BY <1>1 DEF WithoutToken, Live
  <2> QED BY <1>1, <2>1 DEF AccountInv, TokensMatch
<1> QED BY <1>1, <1>2, <1>3 DEF AccountInv, CustomersMatch, RequestsMatch, Mine

LEMMA CustomerLeaves ==
    ASSUME AccountInv, NEW given \in issued, Withdraw(given)
    PROVE  AccountInv'
<1> DEFINE c == given.token.cust
           gone == [social |-> NoPerson, name |-> "WITHDRAWN"]
<1>1. /\ session' = WithoutSessionsOf(c)
      /\ link' = WithoutLinksOf(c)
      /\ customer' = [customer EXCEPT ![c] = gone]
      /\ UNCHANGED <<issued, creator, req, now>>
  BY DEF Withdraw
<1>2. TablesTyped'
  <2>1. gone \in CustomerRow
    BY DEF CustomerRow, Name
  <2> HIDE DEF gone
  <2> QED BY <1>1, <2>1 DEF WithoutSessionsOf, WithoutLinksOf, AccountInv, TablesTyped
<1>3. TokensMatch'
  <2>1. \A s \in Slot : Live(s)' => session'[s] = session[s] /\ Live(s)
    BY <1>1 DEF WithoutSessionsOf, Live
  <2> QED BY <1>1, <2>1 DEF AccountInv, TokensMatch
<1>4. CustomersMatch'
  <2>1. \A d \in CustomerId : customer'[d].social \in {customer[d].social, NoPerson}
    BY <1>1 DEF AccountInv, TablesTyped
  <2>2. \A p \in Person : link'[p] \in {link[p], NoRow}
    BY <1>1 DEF WithoutLinksOf
  <2> QED BY <1>1, <2>1, <2>2 DEF AccountInv, CustomersMatch
<1> QED BY <1>1, <1>2, <1>3, <1>4 DEF AccountInv, RequestsMatch, Mine

LEMMA UpdateMeInv ==
    ASSUME AccountInv, NEW given \in issued, NEW n \in Name, UpdateMe(given, n)
    PROVE  AccountInv'
<1> DEFINE c == given.token.cust
<1>1. /\ CustomerAuthGuard(c)
      /\ customer' = [customer EXCEPT ![c].name = n]
      /\ UNCHANGED <<link, session, issued, creator, req, now>>
  BY DEF UpdateMe
<1>2. c \in CustomerId
  BY DEF AccountInv, TablesTyped, SessionRow, Token
<1>3. customer[c] \in CustomerRow
  BY <1>1, <1>2 DEF CustomerAuthGuard, Exists, AccountInv, TablesTyped
<1>4. [customer[c] EXCEPT !.name = n] \in CustomerRow
  BY <1>3 DEF CustomerRow
<1>5. TablesTyped'
  BY <1>1, <1>2, <1>4 DEF AccountInv, TablesTyped
<1>6. \A d \in CustomerId : customer'[d].social = customer[d].social
  BY <1>1, <1>2, <1>3 DEF AccountInv, TablesTyped, CustomerRow
<1> QED BY <1>1, <1>5, <1>6 DEF AccountInv, TokensMatch, Live, CustomersMatch, RequestsMatch, Mine

LEMMA AccountNext ==
    ASSUME AccountInv, [Next]_vars
    PROVE  AccountInv'
<1>1. ASSUME NEW w \in Worker, CommitLogin(w) PROVE AccountInv'
  BY <1>1, CreateInv, UpdateLoginInv DEF CommitLogin
<1>2. ASSUME NEW w \in Worker, AbortRequest(w) PROVE AccountInv'
  <2>1. RequestsMatch'
    BY <1>2, EndMatches DEF AbortRequest, AccountInv
  <2> QED BY <1>2, <2>1 DEF AbortRequest, AccountInv, TablesTyped, TokensMatch, Live, CustomersMatch
<1>3. CASE Tick
  <2>1. now' \in 0..MaxTime
    BY <1>3, CustomersAssumption DEF Tick, AccountInv, TablesTyped
  <2> QED BY <1>3, <2>1
      DEF Tick, AccountInv, TablesTyped, TokensMatch, Live, CustomersMatch, RequestsMatch, Mine
<1>4. CASE UNCHANGED vars
  BY <1>4 DEF vars, AccountInv, TablesTyped, TokensMatch, Live, CustomersMatch, RequestsMatch, Mine
<1> QED BY <1>1, <1>2, <1>3, <1>4, BeginLoginInv, BeginSignupInv, CommitSignupInv,
           SessionInv, BeginRefreshInv, LogoutInv, CustomerLeaves, UpdateMeInv DEF Next

----------------------------------------------------------------------------
(* Theorems *)

LEMMA AccountSpec == Spec => []AccountInv
BY AccountInit, AccountNext, PTL DEF Spec

\* Every table and request keeps its type (schema.prisma, models customers,
\* customer_auth_providers and customer_refresh_tokens).
THEOREM CustomersTypeCorrect == Spec => []TypeOK
BY AccountSpec, AccountInvTyped, PTL

\* Whatever sign-ins, sign-up forms, rotations and withdrawals overlap, a row,
\* its link to Kakao and its sessions belong to the Kakao account whose sign-in
\* created the row (socialLogin and signupCustomer in customer-auth.service.ts).
THEOREM AccountsOfOnePerson == Spec => []OneAccountPerPerson
<1>1. AccountInv => OneAccountPerPerson
  BY DEF AccountInv, TokensMatch, CustomersMatch, OneAccountPerPerson
<1> QED BY <1>1, AccountSpec, PTL

\* A session that was deleted never comes back, however a rotation of its token
\* overlaps with the deletion (refresh, logout and withdraw in
\* customer-auth.service.ts).
THEOREM DeletedSessionsStay == Spec => RevokedStaysRevoked
<1>1. ASSUME AccountInv, [Next]_vars, NEW s \in Slot, session[s] = Deleted
      PROVE  session'[s] = Deleted
  <2>1. ASSUME NEW w \in Worker, CommitLogin(w) PROVE session'[s] = Deleted
    BY <1>1, <2>1 DEF CommitLogin, createSocialCustomer, WithoutSessionsOf, Live,
                      updateExistingSocialCustomer
  <2>2. ASSUME NEW w \in Worker, issueAuthResponse(w) PROVE session'[s] = Deleted
    <3>1. Unused # Deleted
      BY CustomersAssumption DEF Unused, Deleted
    <3> QED BY <1>1, <2>2, <3>1 DEF issueAuthResponse, AccountInv, TablesTyped
  <2>3. ASSUME NEW w \in Worker, CommitRefresh(w) PROVE session'[s] = Deleted
    BY <1>1, <2>3 DEF CommitRefresh, Live, AccountInv, TablesTyped
  <2>4. ASSUME NEW w \in Worker,
               \/ \E p \in Verified, n \in Name \union {"none"} : BeginLogin(w, p, n)
               \/ \E given \in issued, p \in Person \union {NoPerson},
                     n \in Name \union {"none"} : BeginSignup(w, given, p, n)
               \/ CommitSignup(w)
               \/ \E given \in issued : BeginRefresh(w, given)
               \/ AbortRequest(w)
        PROVE  session'[s] = Deleted
    BY <1>1, <2>4 DEF BeginLogin, BeginSignup, CommitSignup, BeginRefresh, AbortRequest
  <2>5. ASSUME NEW given \in issued, Logout(given) \/ Withdraw(given)
        PROVE  session'[s] = Deleted
    BY <1>1, <2>5 DEF Logout, WithoutToken, Withdraw, WithoutSessionsOf, Holds, Live
  <2>6. ASSUME NEW given \in issued, NEW n \in Name, UpdateMe(given, n)
        PROVE  session'[s] = Deleted
    BY <1>1, <2>6 DEF UpdateMe
  <2>7. CASE Tick \/ UNCHANGED vars
    BY <1>1, <2>7 DEF Tick, vars
  <2> QED BY <1>1, <2>1, <2>2, <2>3, <2>4, <2>5, <2>6, <2>7 DEF Next
<1>2. AccountInv /\ [Next]_vars => [RevokedStays]_vars
  BY <1>1 DEF RevokedStays
<1> QED BY <1>2, AccountSpec, PTL DEF Spec, RevokedStaysRevoked

----------------------------------------------------------------------------
(* Credentials: what two clients may still miss *)

\* Twice the wrong passwords in a row that are left, plus two, when the counts
\* the two clients may write back are a and b: the greater one climbs to the
\* limit M, and then the lower one undoes it again and again.
Climbs(M, a) == (M - a - 1) * (M - a)

Left(M, a, b) == IF a <= b THEN 2 * (M - b) + Climbs(M, a)
                 ELSE 2 * (M - a) + Climbs(M, b)

LEMMA ClimbsNat ==
  ASSUME NEW M \in Nat, NEW a \in 0..M - 1
  PROVE  Climbs(M, a) \in Nat
<1> DEFINE n == M - a - 1
<1>1. n \in Nat
  OBVIOUS
<1>2. Climbs(M, a) = n * (n + 1)
  BY DEF Climbs
<1> HIDE DEF n
<1>3. n * (n + 1) \in Nat
  BY <1>1
<1> QED BY <1>2, <1>3

LEMMA ClimbsFall ==
  ASSUME NEW M \in Nat, NEW a \in 0..M - 1, NEW c \in 0..M - 1, a <= c
  PROVE  Climbs(M, c) <= Climbs(M, a)
<1> DEFINE m == M - c - 1
           n == M - a - 1
<1>1. m \in Nat /\ n \in Nat /\ m <= n
  OBVIOUS
<1>2. Climbs(M, c) = m * (m + 1) /\ Climbs(M, a) = n * (n + 1)
  BY DEF Climbs
<1> HIDE DEF m, n
<1>3. m * (m + 1) <= n * (n + 1)
  <2>1. m * (m + 1) <= n * (m + 1)
    BY <1>1
  <2>2. n * (m + 1) <= n * (n + 1)
    BY <1>1
  <2> QED BY <1>1, <2>1, <2>2
<1> QED BY <1>2, <1>3

LEMMA ClimbsStep ==
  ASSUME NEW M \in Nat, NEW a \in Nat, a + 1 <= M - 1
  PROVE  Climbs(M, a) = Climbs(M, a + 1) + 2 * (M - a - 1)
<1> DEFINE n == M - a - 2
<1>1. n \in Nat
  OBVIOUS
<1>2. Climbs(M, a) = (n + 1) * (n + 2) /\ Climbs(M, a + 1) = n * (n + 1)
      /\ M - a - 1 = n + 1
  BY DEF Climbs
<1> HIDE DEF n
<1>3. (n + 1) * (n + 2) = n * (n + 1) + 2 * (n + 1)
  BY <1>1
<1> QED BY <1>2, <1>3

\* The greater both counts, the less is left.
LEMMA LeftFalls ==
  ASSUME NEW M \in Nat, NEW a \in 0..M - 1, NEW b \in 0..M - 1,
         NEW c \in 0..M - 1, NEW d \in 0..M - 1, a <= c, b <= d
  PROVE  Left(M, c, d) <= Left(M, a, b)
<1>1. \A x, y \in 0..M - 1 : Climbs(M, x) \in Nat /\ (x <= y => Climbs(M, y) <= Climbs(M, x))
  BY ClimbsNat, ClimbsFall
<1> QED BY <1>1 DEF Left

LEMMA LeftNat ==
  ASSUME NEW M \in Nat, NEW a \in 0..M - 1, NEW b \in 0..M - 1
  PROVE  Left(M, a, b) \in Nat /\ Left(M, a, b) >= 2
<1>1. Climbs(M, a) \in Nat /\ Climbs(M, b) \in Nat
  BY ClimbsNat
<1> QED BY <1>1 DEF Left

LEMMA LeftAtFirst ==
  ASSUME NEW M \in Nat \ {0}, NEW a \in 0..M - 1, NEW b \in 0..M - 1
  PROVE  Left(M, a, b) <= M * (M + 1)
<1>1. Left(M, a, b) <= Left(M, 0, 0)
  BY LeftFalls
<1>2. Left(M, 0, 0) = M * (M + 1)
  BY DEF Left, Climbs
<1> QED BY <1>1, <1>2, LeftNat

\* A miss that does not lock uses one up: either the count that is written is
\* one more than the client's, or both clients have it now.
LEMMA LeftAfterMiss ==
  ASSUME NEW M \in Nat, NEW a \in 0..M - 1, NEW b \in 0..M - 1,
         NEW l \in Nat, l + 1 <= M - 1, b <= l, NEW c \in 0..M - 1,
         a <= c \/ c = l + 1
  PROVE  Left(M, c, l + 1) + 2 <= Left(M, a, b)
<1>1. \A x, y \in 0..M - 1 : Climbs(M, x) \in Nat /\ (x <= y => Climbs(M, y) <= Climbs(M, x))
  BY ClimbsNat, ClimbsFall
<1>2. a \in Nat /\ b \in Nat /\ b + 1 \in 0..M - 1 /\ l + 1 \in 0..M - 1 /\ l \in 0..M - 1
  OBVIOUS
<1>3. /\ Left(M, a, b) \in Nat /\ Left(M, c, l + 1) \in Nat
      /\ Left(M, a, b + 1) \in Nat
  BY <1>2, LeftNat
<1>4. CASE c = l + 1
  <2>1. Left(M, c, l + 1) = Climbs(M, l)
    BY <1>4, <1>1, <1>2, ClimbsStep DEF Left
  <2>2. Left(M, a, b) >= 2 + Climbs(M, l)
    BY <1>1, <1>2 DEF Left
  <2>3. Climbs(M, l) \in Nat
    BY <1>1, <1>2
  <2> QED BY <1>3, <2>1, <2>2, <2>3
<1>5. CASE a <= c
  <2>1. Left(M, c, l + 1) <= Left(M, a, b + 1)
    BY <1>2, <1>5, LeftFalls
  <2>2. Left(M, a, b + 1) + 2 <= Left(M, a, b)
    <3>1. Climbs(M, a) \in Nat /\ Climbs(M, b) \in Nat /\ Climbs(M, b + 1) \in Nat
      BY <1>1, <1>2
    <3>2. Climbs(M, b) = Climbs(M, b + 1) + 2 * (M - b - 1)
      BY <1>2, ClimbsStep
    <3>3. CASE a <= b
      BY <1>2, <3>1, <3>3 DEF Left
    <3>4. CASE a = b + 1
      BY <1>2, <3>1, <3>2, <3>4 DEF Left
    <3>5. CASE a > b + 1
      BY <1>2, <3>1, <3>2, <3>5 DEF Left
    <3> QED BY <1>2, <3>3, <3>4, <3>5
  <2> QED BY <1>3, <2>1, <2>2
<1> QED BY <1>4, <1>5

----------------------------------------------------------------------------
(* Credentials: the invariant *)

\* The count that is written back next, at most, and what a client may write.
Top == IF failures < MAX_LOGIN_FAILURES THEN failures ELSE MAX_LOGIN_FAILURES - 1

Low(w) == IF attempt[w].op = "login" /\ attempt[w].failures < Top
          THEN attempt[w].failures ELSE Top

WithinBudget(a, b) ==
    2 * streak + Left(MAX_LOGIN_FAILURES, a, b)
        <= MAX_LOGIN_FAILURES * (MAX_LOGIN_FAILURES + 1)

\* Two clients, one, or none.
MissesLeft ==
    /\ \A v, w \in Client : v # w => WithinBudget(Low(v), Low(w))
    /\ \A w \in Client : (\A v \in Client : v = w) => WithinBudget(Low(w), Top)
    /\ Client = {} => streak = 0

\* A session, or a request under way, has the present password, or was under way
\* when the password or active changed.
PresentOrLate ==
    /\ \A s \in sessions : s.password = password \/ s.late
    /\ \A w \in Client : attempt[w].op # "idle" =>
          attempt[w].password = password \/ attempt[w].late

CredentialsInv ==
    /\ CredentialsTypeOK
    /\ PresentOrLate
    /\ Cardinality(Client) <= 2 => MissesLeft

LEMMA LowTyped ==
  CredentialsTypeOK =>
      Top \in 0..MAX_LOGIN_FAILURES - 1
      /\ \A u \in Client : Low(u) \in 0..MAX_LOGIN_FAILURES - 1 /\ Low(u) <= Top
BY CredentialsAssumption DEF CredentialsTypeOK, Attempt, Top, Low

LEMMA LowTypedNext ==
  ASSUME CredentialsTypeOK'
  PROVE  (Top \in 0..MAX_LOGIN_FAILURES - 1
          /\ \A u \in Client : Low(u) \in 0..MAX_LOGIN_FAILURES - 1 /\ Low(u) <= Top)'
BY LowTyped, PTL

LEMMA LimitNat ==
  /\ MAX_LOGIN_FAILURES \in Nat \ {0}
  /\ MAX_LOGIN_FAILURES * (MAX_LOGIN_FAILURES + 1) \in Nat
BY CredentialsAssumption

\* Of three clients two are one.
LEMMA TwoClients ==
  ASSUME Cardinality(Client) <= 2,
         NEW u \in Client, NEW v \in Client, NEW w \in Client
  PROVE  u = v \/ v = w \/ u = w
<1> SUFFICES ASSUME u # v, v # w, u # w PROVE FALSE
  OBVIOUS
<1>1. IsFiniteSet({u}) /\ Cardinality({u}) = 1
  BY FS_Singleton
<1>2. IsFiniteSet({u} \union {v}) /\ Cardinality({u} \union {v}) = 2
  BY <1>1, FS_AddElement
<1>3. Cardinality(({u} \union {v}) \union {w}) = 3
  BY <1>2, FS_AddElement
<1>4. ({u} \union {v}) \union {w} \in SUBSET Client
  OBVIOUS
<1>5. Cardinality(({u} \union {v}) \union {w}) <= Cardinality(Client)
        /\ Cardinality(Client) \in Nat
  BY <1>4, CredentialsAssumption, FS_Subset, FS_CardinalityType
<1> QED BY <1>3, <1>5

\* A sign-in that ends or begins with the present count leaves as much.
LEMMA CountsStay ==
  ASSUME CredentialsTypeOK, CredentialsTypeOK', MissesLeft,
         UNCHANGED <<failures, streak>>,
         \A w \in Client : attempt'[w].op = "login" =>
            \/ attempt'[w].failures = failures
            \/ attempt[w].op = "login" /\ attempt'[w].failures = attempt[w].failures
  PROVE  MissesLeft'
<1>1. Top' = Top
  BY DEF Top
<1>2. \A w \in Client : Low(w)' >= Low(w)
  <2> SUFFICES ASSUME NEW w \in Client PROVE Low(w)' >= Low(w)
    OBVIOUS
  <2>1. /\ failures \in Nat /\ attempt[w].failures \in Nat /\ attempt'[w].failures \in Nat
        /\ Top <= failures /\ Top \in Nat
    BY LimitNat DEF CredentialsTypeOK, Attempt, Top
  <2> QED BY <1>1, <2>1 DEF Low
<1>3. /\ Top \in 0..MAX_LOGIN_FAILURES - 1
      /\ \A w \in Client : /\ Low(w) \in 0..MAX_LOGIN_FAILURES - 1
                           /\ Low(w)' \in 0..MAX_LOGIN_FAILURES - 1
  <2>1. (Top \in 0..MAX_LOGIN_FAILURES - 1
         /\ \A u \in Client : Low(u) \in 0..MAX_LOGIN_FAILURES - 1 /\ Low(u) <= Top)'
    BY LowTypedNext
  <2> QED BY <2>1, LowTyped
<1>4. ASSUME NEW a \in 0..MAX_LOGIN_FAILURES - 1, NEW b \in 0..MAX_LOGIN_FAILURES - 1,
             NEW c \in 0..MAX_LOGIN_FAILURES - 1, NEW d \in 0..MAX_LOGIN_FAILURES - 1,
             a <= c, b <= d, WithinBudget(a, b)
      PROVE  2 * streak' + Left(MAX_LOGIN_FAILURES, c, d)
                <= MAX_LOGIN_FAILURES * (MAX_LOGIN_FAILURES + 1)
  <2>1. Left(MAX_LOGIN_FAILURES, c, d) <= Left(MAX_LOGIN_FAILURES, a, b)
    BY <1>4, LimitNat, LeftFalls
  <2>2. Left(MAX_LOGIN_FAILURES, c, d) \in Nat /\ Left(MAX_LOGIN_FAILURES, a, b) \in Nat
    BY LimitNat, LeftNat
  <2>3. streak \in Nat
    BY DEF CredentialsTypeOK
  <2> QED BY <1>4, <2>1, <2>2, <2>3, LimitNat DEF WithinBudget
<1>5. \A v, w \in Client : v # w => WithinBudget(Low(v), Low(w))'
  <2> SUFFICES ASSUME NEW v \in Client, NEW w \in Client, v # w
               PROVE  WithinBudget(Low(v), Low(w))'
    OBVIOUS
  <2>1. WithinBudget(Low(v), Low(w))
    BY DEF MissesLeft
  <2> QED BY <1>2, <1>3, <1>4, <2>1 DEF WithinBudget
<1>6. \A w \in Client : (\A v \in Client : v = w) => WithinBudget(Low(w), Top)'
  <2> SUFFICES ASSUME NEW w \in Client, \A v \in Client : v = w
               PROVE  WithinBudget(Low(w), Top)'
    OBVIOUS
  <2>1. WithinBudget(Low(w), Top)
    BY DEF MissesLeft
  <2> QED BY <1>1, <1>2, <1>3, <1>4, <2>1 DEF WithinBudget
<1> QED BY <1>5, <1>6 DEF MissesLeft

\* Whatever locks or signs in begins a new row.
LEMMA NewRow ==
  ASSUME CredentialsTypeOK', streak' = 0
  PROVE  MissesLeft'
<1>1. (Top \in 0..MAX_LOGIN_FAILURES - 1
       /\ \A u \in Client : Low(u) \in 0..MAX_LOGIN_FAILURES - 1 /\ Low(u) <= Top)'
  BY LowTypedNext
<1>2. \A a, b \in 0..MAX_LOGIN_FAILURES - 1 :
         /\ Left(MAX_LOGIN_FAILURES, a, b)
                <= MAX_LOGIN_FAILURES * (MAX_LOGIN_FAILURES + 1)
         /\ Left(MAX_LOGIN_FAILURES, a, b) \in Nat
  BY LimitNat, LeftAtFirst, LeftNat
<1>3. \A a, b \in 0..MAX_LOGIN_FAILURES - 1 :
         2 * streak' + Left(MAX_LOGIN_FAILURES, a, b)
                <= MAX_LOGIN_FAILURES * (MAX_LOGIN_FAILURES + 1)
  BY <1>2
<1> QED BY <1>1, <1>3 DEF MissesLeft, WithinBudget

\* One more miss, which does not lock.
LEMMA MissUsesOne ==
  ASSUME CredentialsTypeOK, CredentialsTypeOK', MissesLeft, Cardinality(Client) <= 2,
         NEW w \in Client, attempt[w].op = "login",
         attempt[w].failures + 1 < MAX_LOGIN_FAILURES,
         failures' = attempt[w].failures + 1,
         streak' = streak + 1,
         attempt' = [attempt EXCEPT ![w] = NoAttempt]
  PROVE  MissesLeft'
<1> DEFINE l == attempt[w].failures
<1>1. l \in Nat /\ failures \in Nat /\ l + 1 <= MAX_LOGIN_FAILURES - 1
  BY LimitNat DEF CredentialsTypeOK, Attempt
<1>2. Top' = l + 1
  BY <1>1, LimitNat DEF Top
<1>3. Low(w)' = l + 1 /\ Low(w) <= l
  BY <1>1, <1>2, LimitNat DEF Low, NoAttempt, CredentialsTypeOK, Top
<1>4. \A v \in Client : v # w => Low(v) <= Low(v)' \/ Low(v)' = l + 1
  <2> SUFFICES ASSUME NEW v \in Client, v # w
               PROVE  Low(v) <= Low(v)' \/ Low(v)' = l + 1
    OBVIOUS
  <2>1. attempt'[v] = attempt[v] /\ attempt[v].failures \in Nat
    BY DEF CredentialsTypeOK, Attempt
  <2>2. Top \in Nat
    BY LowTyped
  <2> QED BY <1>1, <1>2, <2>1, <2>2 DEF Low
<1> HIDE DEF l
<1>5. /\ Top \in 0..MAX_LOGIN_FAILURES - 1
      /\ \A v \in Client : /\ Low(v) \in 0..MAX_LOGIN_FAILURES - 1
                           /\ Low(v)' \in 0..MAX_LOGIN_FAILURES - 1
  <2>1. (Top \in 0..MAX_LOGIN_FAILURES - 1
         /\ \A u \in Client : Low(u) \in 0..MAX_LOGIN_FAILURES - 1 /\ Low(u) <= Top)'
    BY LowTypedNext
  <2>2. Top \in 0..MAX_LOGIN_FAILURES - 1
         /\ \A u \in Client : Low(u) \in 0..MAX_LOGIN_FAILURES - 1 /\ Low(u) <= Top
    BY LowTyped
  <2> QED BY <2>1, <2>2
<1>6. ASSUME NEW a \in 0..MAX_LOGIN_FAILURES - 1, NEW c \in 0..MAX_LOGIN_FAILURES - 1,
             a <= c \/ c = l + 1, WithinBudget(a, Low(w))
      PROVE  2 * streak' + Left(MAX_LOGIN_FAILURES, c, l + 1)
                <= MAX_LOGIN_FAILURES * (MAX_LOGIN_FAILURES + 1)
  <2>1. Left(MAX_LOGIN_FAILURES, c, l + 1) + 2 <= Left(MAX_LOGIN_FAILURES, a, Low(w))
    BY <1>1, <1>3, <1>5, <1>6, LimitNat, LeftAfterMiss
  <2>2. l + 1 \in 0..MAX_LOGIN_FAILURES - 1
    BY <1>1, LimitNat
  <2>3. /\ Left(MAX_LOGIN_FAILURES, c, l + 1) \in Nat
        /\ Left(MAX_LOGIN_FAILURES, a, Low(w)) \in Nat
    BY <1>5, <2>2, LimitNat, LeftNat
  <2>4. streak \in Nat
    BY DEF CredentialsTypeOK
  <2> QED BY <1>6, <2>1, <2>3, <2>4, LimitNat DEF WithinBudget
<1>7. \A a, b \in 0..MAX_LOGIN_FAILURES - 1 :
         Left(MAX_LOGIN_FAILURES, a, b) = Left(MAX_LOGIN_FAILURES, b, a)
  BY LimitNat DEF Left, Climbs
<1>8. ASSUME NEW v \in Client, v # w
      PROVE  WithinBudget(Low(v), Low(w))' /\ WithinBudget(Low(w), Low(v))'
  <2>1. WithinBudget(Low(v), Low(w))
    BY <1>8 DEF MissesLeft
  <2>2. 2 * streak' + Left(MAX_LOGIN_FAILURES, Low(v)', l + 1)
           <= MAX_LOGIN_FAILURES * (MAX_LOGIN_FAILURES + 1)
    BY <1>4, <1>5, <1>6, <1>8, <2>1
  <2> QED BY <1>3, <1>5, <1>7, <2>2 DEF WithinBudget
<1>9. \A u, v \in Client : u # v => WithinBudget(Low(u), Low(v))'
  BY <1>8, TwoClients
<1>10. \A u \in Client : (\A v \in Client : v = u) => WithinBudget(Low(u), Top)'
  <2> SUFFICES ASSUME \A v \in Client : v = w
               PROVE  WithinBudget(Low(w), Top)'
    OBVIOUS
  <2>1. WithinBudget(Low(w), Top)
    BY DEF MissesLeft
  <2>2. WithinBudget(Top, Low(w))
    BY <1>5, <1>7, <2>1 DEF WithinBudget
  <2>3. 2 * streak' + Left(MAX_LOGIN_FAILURES, l + 1, l + 1)
           <= MAX_LOGIN_FAILURES * (MAX_LOGIN_FAILURES + 1)
    BY <1>3, <1>5, <1>6, <2>2
  <2> QED BY <1>2, <1>3, <2>3 DEF WithinBudget
<1> QED BY <1>9, <1>10 DEF MissesLeft
----------------------------------------------------------------------------
(* Credentials: steps *)

LEMMA IdleAttempt ==
  NoAttempt \in Attempt /\ NoAttempt.op = "idle"
BY CredentialsAssumption DEF NoAttempt, Attempt, AttemptOps, Guess, Password

\* Being marked late changes nothing else of a request.
LEMMA LateAttempt ==
  ASSUME NEW r \in Attempt
  PROVE  /\ [r EXCEPT !.late = TRUE] \in Attempt
         /\ [r EXCEPT !.late = TRUE].op = r.op
         /\ [r EXCEPT !.late = TRUE].failures = r.failures
         /\ [r EXCEPT !.late = TRUE].late
BY DEF Attempt

LEMMA OtherOp ==
  ASSUME NEW r \in Attempt, NEW op \in AttemptOps
  PROVE  /\ [r EXCEPT !.op = op] \in Attempt
         /\ [r EXCEPT !.op = op].op = op
         /\ [r EXCEPT !.op = op].password = r.password
         /\ [r EXCEPT !.op = op].late = r.late
BY DEF Attempt

\* The requests after a change of the password or of active.
AllLate ==
    attempt' \in [Client -> Attempt]
    /\ \A w \in Client :
          /\ attempt'[w].op # "idle" => attempt'[w].late
          /\ attempt'[w].op = "login" =>
                attempt[w].op = "login" /\ attempt'[w].failures = attempt[w].failures

LEMMA MarkedLate ==
  ASSUME CredentialsTypeOK,
         NEW u,
         attempt' = [w \in Client |->
                        IF w = u THEN NoAttempt
                        ELSE IF attempt[w].op = "idle" THEN attempt[w]
                        ELSE [attempt[w] EXCEPT !.late = TRUE]]
  PROVE  AllLate
<1>1. \A w \in Client : attempt[w] \in Attempt
  BY DEF CredentialsTypeOK
<1>2. ASSUME NEW w \in Client
      PROVE  /\ attempt'[w] \in Attempt
             /\ attempt'[w].op # "idle" => attempt'[w].late
             /\ attempt'[w].op = "login" =>
                   attempt[w].op = "login" /\ attempt'[w].failures = attempt[w].failures
  <2> DEFINE r == [attempt[w] EXCEPT !.late = TRUE]
  <2>1. r \in Attempt /\ r.op = attempt[w].op /\ r.failures = attempt[w].failures /\ r.late
    BY <1>1, LateAttempt
  <2>2. attempt'[w] \in {NoAttempt, attempt[w], r}
        /\ (attempt'[w] = attempt[w] => attempt[w].op = "idle" \/ attempt[w] \in {NoAttempt, r})
    OBVIOUS
  <2> HIDE DEF r
  <2> QED BY <1>1, <2>1, <2>2, IdleAttempt
<1> QED BY <1>2 DEF AllLate

LEMMA MarkedLateAll ==
  ASSUME CredentialsTypeOK,
         attempt' = [w \in Client |->
                        IF attempt[w].op = "idle" THEN attempt[w]
                        ELSE [attempt[w] EXCEPT !.late = TRUE]]
  PROVE  AllLate
<1>1. \A w \in Client : attempt[w] \in Attempt
  BY DEF CredentialsTypeOK
<1>2. ASSUME NEW w \in Client
      PROVE  /\ attempt'[w] \in Attempt
             /\ attempt'[w].op # "idle" => attempt'[w].late
             /\ attempt'[w].op = "login" =>
                   attempt[w].op = "login" /\ attempt'[w].failures = attempt[w].failures
  <2> DEFINE r == [attempt[w] EXCEPT !.late = TRUE]
  <2>1. r \in Attempt /\ r.op = attempt[w].op /\ r.failures = attempt[w].failures /\ r.late
    BY <1>1, LateAttempt
  <2>2. attempt'[w] = IF attempt[w].op = "idle" THEN attempt[w] ELSE r
    OBVIOUS
  <2> HIDE DEF r
  <2> QED BY <1>1, <2>1, <2>2
<1> QED BY <1>2 DEF AllLate

\* One request goes on, and nothing is counted.
LEMMA OneAttempt ==
  ASSUME CredentialsInv, NEW w \in Client, NEW r \in Attempt,
         attempt' = [attempt EXCEPT ![w] = r],
         r.op = "login" => r.failures = failures,
         r.op # "idle" => r.password = password \/ r.late,
         sessions' \in SUBSET Session,
         \A s \in sessions' : s.password = password \/ s.late,
         UNCHANGED <<kind, failures, lockedTo, password, active, streak, clock>>
  PROVE  CredentialsInv'
<1>1. CredentialsTypeOK'
  BY DEF CredentialsInv, CredentialsTypeOK
<1>2. \A v \in Client : attempt'[v] = IF v = w THEN r ELSE attempt[v]
  BY DEF CredentialsInv, CredentialsTypeOK
<1>3. PresentOrLate'
  BY <1>2 DEF CredentialsInv, PresentOrLate
<1>4. Cardinality(Client) <= 2 => MissesLeft'
  <2> SUFFICES ASSUME Cardinality(Client) <= 2 PROVE MissesLeft'
    OBVIOUS
  <2>1. \A v \in Client : attempt'[v].op = "login" =>
           \/ attempt'[v].failures = failures
           \/ attempt[v].op = "login" /\ attempt'[v].failures = attempt[v].failures
    BY <1>2
  <2> QED BY <1>1, <2>1, CountsStay DEF CredentialsInv
<1> QED BY <1>1, <1>3, <1>4 DEF CredentialsInv

\* The count starts anew, and no request or session is older than before.
LEMMA CountsEnd ==
  ASSUME CredentialsInv, ResetFailures,
         attempt' \in [Client -> Attempt], sessions' \in SUBSET Session,
         password' \in Password, active' \in BOOLEAN,
         \A s \in sessions' : s.password = password' \/ s.late,
         \A w \in Client : attempt'[w].op # "idle" =>
            attempt'[w].password = password' \/ attempt'[w].late,
         UNCHANGED <<kind, clock>>
  PROVE  CredentialsInv'
<1>1. failures' = 0 /\ lockedTo' = 0 /\ streak' = 0
  BY DEF ResetFailures
<1>2. CredentialsTypeOK'
  BY <1>1 DEF CredentialsInv, CredentialsTypeOK
<1>3. MissesLeft'
  BY <1>1, <1>2, NewRow
<1> QED BY <1>2, <1>3 DEF CredentialsInv, PresentOrLate

LEMMA BeginsKeep ==
  ASSUME CredentialsInv, NEW w \in Client, NEW g \in Guess,
         ReadAccount(w, g) \/ BeginChange(w, g)
  PROVE  CredentialsInv'
<1>1. PICK op \in {"login", "change"} : StartAttempt(w, op, g)
  BY DEF ReadAccount, BeginChange
<1> DEFINE r == [op |-> op, guess |-> g, failures |-> failures,
                 password |-> password, late |-> FALSE]
<1>2. r \in Attempt /\ r.failures = failures /\ r.password = password
  BY DEF CredentialsInv, CredentialsTypeOK, Attempt, AttemptOps
<1>3. attempt' = [attempt EXCEPT ![w] = r]
  BY <1>1 DEF StartAttempt
<1>4. UNCHANGED <<kind, failures, lockedTo, password, active, sessions, streak, clock>>
  BY DEF ReadAccount, BeginChange
<1> HIDE DEF r
<1> QED BY <1>2, <1>3, <1>4, OneAttempt DEF CredentialsInv, CredentialsTypeOK, PresentOrLate

LEMMA EndsKeep ==
  ASSUME CredentialsInv, NEW w \in Client, NoOpenStore(w) \/ AbortAttempt(w)
  PROVE  CredentialsInv'
<1>1. attempt' = [attempt EXCEPT ![w] = NoAttempt]
      /\ UNCHANGED <<kind, failures, lockedTo, password, active, sessions, streak, clock>>
  BY DEF NoOpenStore, AbortAttempt, EndAttempt
<1> QED BY <1>1, IdleAttempt, OneAttempt DEF CredentialsInv, CredentialsTypeOK, PresentOrLate

LEMMA MissKeeps ==
  ASSUME CredentialsInv, NEW w \in Client, Miss(w)
  PROVE  CredentialsInv'
<1> DEFINE r == attempt[w]
<1>1. /\ r.op = "login" /\ failures' = r.failures + 1
      /\ lockedTo' = IF ShouldLock(r) THEN clock + LOGIN_LOCK ELSE 0
      /\ streak' = IF ShouldLock(r) THEN 0 ELSE streak + 1
      /\ attempt' = [attempt EXCEPT ![w] = NoAttempt]
      /\ UNCHANGED <<kind, password, active, sessions, clock>>
  BY DEF Miss, EndAttempt
<1>2. r.failures \in Nat /\ failures' \in Nat /\ lockedTo' \in Nat /\ streak' \in Nat
  BY <1>1, CredentialsAssumption DEF CredentialsInv, CredentialsTypeOK, Attempt
<1>3. CredentialsTypeOK'
  BY <1>1, <1>2, IdleAttempt DEF CredentialsInv, CredentialsTypeOK
<1>4. PresentOrLate'
  BY <1>1, IdleAttempt DEF CredentialsInv, CredentialsTypeOK, PresentOrLate
<1>5. Cardinality(Client) <= 2 => MissesLeft'
  <2>1. CASE ShouldLock(r)
    BY <1>1, <1>3, <2>1, NewRow
  <2>2. CASE ~ShouldLock(r)
    <3> SUFFICES ASSUME Cardinality(Client) <= 2 PROVE MissesLeft'
      OBVIOUS
    <3>1. CredentialsTypeOK /\ MissesLeft
      BY DEF CredentialsInv
    <3>2. attempt[w].failures + 1 < MAX_LOGIN_FAILURES
      BY <1>2, <2>2, LimitNat DEF ShouldLock
    <3>3. streak' = streak + 1
      BY <1>1, <2>2
    <3>4. attempt[w].op = "login" /\ failures' = attempt[w].failures + 1
          /\ attempt' = [attempt EXCEPT ![w] = NoAttempt]
      BY <1>1
    <3> QED BY <1>3, <3>1, <3>2, <3>3, <3>4, MissUsesOne
  <2> QED BY <2>1, <2>2
<1> QED BY <1>3, <1>4, <1>5 DEF CredentialsInv

LEMMA ResetsKeep ==
  ASSUME CredentialsInv, NEW w \in Client, ResetOfOwner(w) \/ ResetOfAdmin(w)
  PROVE  CredentialsInv'
<1>1. attempt[w] \in Attempt /\ attempt[w].op # "idle"
      /\ ResetFailures /\ UNCHANGED <<kind, password, active, sessions, clock>>
  BY DEF ResetOfOwner, ResetOfAdmin, CredentialsInv, CredentialsTypeOK
<1>2. PICK r \in Attempt :
         /\ attempt' = [attempt EXCEPT ![w] = r]
         /\ r.op # "idle" => r.password = attempt[w].password /\ r.late = attempt[w].late
  <2>1. CASE ResetOfAdmin(w)
    BY <2>1, IdleAttempt DEF ResetOfAdmin, EndAttempt
  <2>2. CASE ResetOfOwner(w)
    <3>1. attempt' = [attempt EXCEPT ![w] = [attempt[w] EXCEPT !.op = "insert"]]
      BY <2>2 DEF ResetOfOwner
    <3> QED BY <1>1, <3>1, OtherOp DEF AttemptOps
  <2> QED BY <2>1, <2>2
<1>3. \A v \in Client : attempt'[v] = IF v = w THEN r ELSE attempt[v]
  BY <1>2 DEF CredentialsInv, CredentialsTypeOK
<1>4. \A v \in Client : attempt'[v].op # "idle" =>
         attempt'[v].password = password' \/ attempt'[v].late
  BY <1>1, <1>2, <1>3 DEF CredentialsInv, PresentOrLate
<1>5. attempt' \in [Client -> Attempt]
  BY <1>2 DEF CredentialsInv, CredentialsTypeOK
<1> QED BY <1>1, <1>4, <1>5, CountsEnd DEF CredentialsInv, CredentialsTypeOK, PresentOrLate

LEMMA InsertTokenKeeps ==
  ASSUME CredentialsInv, NEW w \in Client, InsertToken(w)
  PROVE  CredentialsInv'
<1> DEFINE s == [password |-> attempt[w].password, late |-> attempt[w].late]
<1>1. attempt[w] \in Attempt /\ attempt[w].op # "idle"
      /\ sessions' = sessions \union {s}
      /\ UNCHANGED <<kind, failures, lockedTo, password, active, streak, clock>>
  BY DEF InsertToken, CredentialsInv, CredentialsTypeOK
<1>2. s \in Session /\ (s.password = password \/ s.late)
  BY <1>1 DEF CredentialsInv, PresentOrLate, Attempt, Session
<1>3. PICK r \in Attempt :
         /\ attempt' = [attempt EXCEPT ![w] = r]
         /\ r.op # "login"
         /\ r.op # "idle" => r.password = attempt[w].password /\ r.late = attempt[w].late
  <2>1. CASE kind = "owner"
    BY <2>1, IdleAttempt DEF InsertToken, EndAttempt
  <2>2. CASE kind # "owner"
    <3>1. attempt' = [attempt EXCEPT ![w] = [attempt[w] EXCEPT !.op = "reset"]]
      BY <2>2 DEF InsertToken
    <3> QED BY <1>1, <3>1, OtherOp DEF AttemptOps
  <2> QED BY <2>1, <2>2
<1> HIDE DEF s
<1>4. sessions' \in SUBSET Session
      /\ \A t \in sessions' : t.password = password \/ t.late
  BY <1>1, <1>2 DEF CredentialsInv, CredentialsTypeOK, PresentOrLate
<1>5. r.op # "idle" => r.password = password \/ r.late
  BY <1>1, <1>3 DEF CredentialsInv, PresentOrLate
<1> QED BY <1>1, <1>3, <1>4, <1>5, OneAttempt

LEMMA ChangesKeep ==
  ASSUME CredentialsInv,
         (\E w \in Client : CommitChange(w)) \/ ResetPassword \/ Deactivate
  PROVE  CredentialsInv'
<1>1. AllLate
  <2>1. CASE \E w \in Client : CommitChange(w)
    BY <2>1, MarkedLate DEF CommitChange, MarkLate, CredentialsInv
  <2>2. CASE ResetPassword \/ Deactivate
    BY <2>2, MarkedLateAll DEF ResetPassword, Deactivate, CredentialsInv
  <2> QED BY <2>1, <2>2
<1>2. /\ sessions' = {} /\ password' \in Password /\ active' \in BOOLEAN
      /\ UNCHANGED <<kind, clock>>
  BY DEF CommitChange, ResetPassword, Deactivate, SetPassword, CredentialsInv,
         CredentialsTypeOK
<1>3. CASE ResetPassword
  BY <1>1, <1>2, <1>3, CountsEnd DEF ResetPassword, AllLate
<1>4. CASE UNCHANGED <<failures, lockedTo, streak>>
  <2>1. CredentialsTypeOK'
    BY <1>1, <1>2, <1>4 DEF AllLate, CredentialsInv, CredentialsTypeOK
  <2>2. PresentOrLate'
    BY <1>1, <1>2 DEF AllLate, PresentOrLate
  <2>3. Cardinality(Client) <= 2 => MissesLeft'
    BY <1>1, <1>4, <2>1, CountsStay DEF AllLate, CredentialsInv
  <2> QED BY <2>1, <2>2, <2>3 DEF CredentialsInv
<1> QED BY <1>3, <1>4 DEF CommitChange, Deactivate

LEMMA CredentialsStep ==
  ASSUME CredentialsInv, [CredentialsNext]_credentialVars
  PROVE  CredentialsInv'
<1>1. ASSUME NEW s \in sessions, EndSession(s)
      PROVE  CredentialsInv'
  <2>1. sessions' \in SUBSET sessions
        /\ UNCHANGED <<kind, failures, lockedTo, password, active, streak, attempt, clock>>
    BY <1>1 DEF EndSession
  <2>2. CredentialsTypeOK' /\ PresentOrLate'
    BY <2>1 DEF CredentialsInv, CredentialsTypeOK, PresentOrLate
  <2>3. Cardinality(Client) <= 2 => MissesLeft'
    BY <2>1, <2>2, CountsStay DEF CredentialsInv
  <2> QED BY <2>2, <2>3 DEF CredentialsInv
<1>2. CASE Activate
  BY <1>2, CountsEnd DEF Activate, CredentialsInv, CredentialsTypeOK, PresentOrLate
<1>3. CASE ClockTicks \/ UNCHANGED credentialVars
  <2>1. UNCHANGED <<kind, failures, lockedTo, password, active, sessions, streak, attempt>>
    BY <1>3 DEF ClockTicks, credentialVars
  <2>2. clock' \in 1..MaxClock + 1
    BY <1>3, CredentialsAssumption
       DEF ClockTicks, credentialVars, CredentialsInv, CredentialsTypeOK
  <2>3. CredentialsTypeOK' /\ PresentOrLate'
    BY <2>1, <2>2 DEF CredentialsInv, CredentialsTypeOK, PresentOrLate
  <2>4. Cardinality(Client) <= 2 => MissesLeft'
    BY <2>1, <2>3, CountsStay DEF CredentialsInv
  <2> QED BY <2>3, <2>4 DEF CredentialsInv
<1> QED
  BY <1>1, <1>2, <1>3, BeginsKeep, EndsKeep, MissKeeps, ResetsKeep, InsertTokenKeeps,
     ChangesKeep
     DEF CredentialsNext

LEMMA CredentialsInvInit == CredentialsInit => CredentialsInv
<1> SUFFICES ASSUME CredentialsInit PROVE CredentialsInv
  OBVIOUS
<1>1. active \in BOOLEAN
  BY DEF CredentialsInit
<1>2. CredentialsTypeOK
  BY <1>1, IdleAttempt, CredentialsAssumption
     DEF CredentialsInit, CredentialsTypeOK, Password
<1>3. PresentOrLate
  BY IdleAttempt DEF CredentialsInit, PresentOrLate
<1>4. /\ Top \in 0..MAX_LOGIN_FAILURES - 1
      /\ \A w \in Client : Low(w) \in 0..MAX_LOGIN_FAILURES - 1
  BY <1>2, LowTyped
<1>5. \A a, b \in 0..MAX_LOGIN_FAILURES - 1 : WithinBudget(a, b)
  BY LimitNat, LeftAtFirst, LeftNat DEF CredentialsInit, WithinBudget
<1>6. MissesLeft
  BY <1>4, <1>5 DEF CredentialsInit, MissesLeft
<1> QED BY <1>2, <1>3, <1>6 DEF CredentialsInv

LEMMA CredentialsSpecInv == CredentialsSpec => []CredentialsInv
BY CredentialsInvInit, CredentialsStep, PTL DEF CredentialsSpec

----------------------------------------------------------------------------
(* Credentials: theorems *)

\* The account, its sessions and the requests under way keep their types (login
\* and changePassword in auth.service.ts and admin-auth.service.ts).
THEOREM CredentialsTypeCorrect == CredentialsSpec => []CredentialsTypeOK
<1>1. CredentialsInv => CredentialsTypeOK
  BY DEF CredentialsInv
<1> QED BY <1>1, CredentialsSpecInv, PTL

\* However signing in, changing and resetting the password and deactivating
\* overlap, a session that refresh accepts has the present password, or its
\* sign-in was under way at a change (changePassword in auth.service.ts and
\* admin-auth.service.ts).
THEOREM OldSessionsEnd == CredentialsSpec => []OldSessionsOverlap
<1>1. CredentialsInv => OldSessionsOverlap
  BY DEF CredentialsInv, PresentOrLate, OldSessionsOverlap
<1> QED BY <1>1, CredentialsSpecInv, PTL

\* Two clients at a time miss M(M+1)/2 - 1 times in a row at most before the
\* account is locked, M being the limit (login in auth.service.ts and
\* admin-auth.service.ts).
THEOREM MissesAreBounded == CredentialsSpec => []MissesBounded
<1>1. CredentialsInv => MissesBounded
  <2> SUFFICES ASSUME CredentialsInv, Cardinality(Client) <= 2
               PROVE  streak < (MAX_LOGIN_FAILURES * (MAX_LOGIN_FAILURES + 1)) \div 2
    BY DEF MissesBounded
  <2>1. streak \in Nat /\ MissesLeft
    BY DEF CredentialsInv, CredentialsTypeOK
  <2>2. 2 * streak + 2 <= MAX_LOGIN_FAILURES * (MAX_LOGIN_FAILURES + 1)
    <3>1. CASE Client = {}
      BY <2>1, <3>1, LimitNat DEF MissesLeft
    <3>2. ASSUME NEW a \in 0..MAX_LOGIN_FAILURES - 1, NEW b \in 0..MAX_LOGIN_FAILURES - 1,
                 WithinBudget(a, b)
          PROVE  2 * streak + 2 <= MAX_LOGIN_FAILURES * (MAX_LOGIN_FAILURES + 1)
      BY <2>1, <3>2, LimitNat, LeftNat DEF WithinBudget
    <3>3. /\ Top \in 0..MAX_LOGIN_FAILURES - 1
          /\ \A w \in Client : Low(w) \in 0..MAX_LOGIN_FAILURES - 1
      BY LowTyped DEF CredentialsInv
    <3>4. CASE Client # {}
      <4>1. PICK w \in Client : TRUE
        BY <3>4
      <4>2. CASE \A v \in Client : v = w
        BY <2>1, <3>2, <3>3, <4>2 DEF MissesLeft
      <4>3. CASE ~\A v \in Client : v = w
        BY <2>1, <3>2, <3>3, <4>3 DEF MissesLeft
      <4> QED BY <4>2, <4>3
    <3> QED BY <3>1, <3>4
  <2>3. ASSUME NEW n \in Nat, 2 * streak + 2 <= n
        PROVE  streak < n \div 2
    BY <2>1, <2>3
  <2> QED BY <2>2, <2>3, LimitNat
<1> QED BY <1>1, CredentialsSpecInv, PTL

----------------------------------------------------------------------------
(* EmailVerification: the invariant *)

\* A visitor who mails or compares a code names one that was given.
NamesCode(v) == v.op \in {"mail", "miss", "match"} => v.row \in CodeId

\* Whose wrong code was compared with the row's and is not counted yet.
MissesOf(r) == {w \in Visitor : verifying[w].op = "miss" /\ verifying[w].row = r}

OpenedOnce == \A q, r \in CodeId : Open(q) /\ Open(r) => q = r

\* A wrong code is counted, or about to be, unless its row was deleted. A
\* comparison needs an attempt that is left.
AttemptsCount ==
    \A r \in CodeId :
        /\ tried[r] <= MAX_ATTEMPTS + Cardinality(Visitor) - 1
        /\ tried[r] >= Cardinality(MissesOf(r))
        /\ code[r] # Replaced => tried[r] = code[r].attempts + Cardinality(MissesOf(r))

EmailInv ==
    /\ EmailTypeOK
    /\ \A w \in Visitor : NamesCode(verifying[w])
    /\ OpenedOnce
    /\ AttemptsCount

\* The status tells what a row is.
LEMMA RowStatus ==
  ASSUME NEW c \in CodeRow \union {NotGiven, Replaced}
  PROVE  /\ c.attempts \in Nat
         /\ c.status \in {"open", "verified"} <=> c \in CodeRow
         /\ c.status = "unused" <=> c = NotGiven
         /\ c.status = "deleted" <=> c = Replaced
BY DEF CodeRow, NotGiven, Replaced

LEMMA EmailInvInit == EmailInit => EmailInv
<1> SUFFICES ASSUME EmailInit PROVE EmailInv
  OBVIOUS
<1>1. EmailTypeOK
  <2>1. NoVerification \in Verification
    BY DEF Verification, NoVerification
  <2>2. owner \in BOOLEAN
    BY DEF EmailInit
  <2>3. minute \in 0..MaxMinute
    BY EmailAssumption DEF EmailInit
  <2> QED BY <2>1, <2>2, <2>3 DEF EmailInit, EmailTypeOK
<1>2. \A w \in Visitor : NamesCode(verifying[w])
  BY DEF EmailInit, NamesCode, NoVerification
<1>3. OpenedOnce
  BY DEF EmailInit, OpenedOnce, Open, NotGiven
<1>4. AttemptsCount
  <2> SUFFICES ASSUME NEW r \in CodeId
               PROVE  /\ tried[r] <= MAX_ATTEMPTS + Cardinality(Visitor) - 1
                      /\ tried[r] >= Cardinality(MissesOf(r))
                      /\ tried[r] = code[r].attempts + Cardinality(MissesOf(r))
    BY DEF AttemptsCount
  <2>1. MissesOf(r) = {}
    BY DEF EmailInit, MissesOf, NoVerification
  <2>2. Cardinality(MissesOf(r)) = 0
    BY <2>1, FS_EmptySet
  <2>3. Cardinality(Visitor) \in Nat
    BY EmailAssumption, FS_CardinalityType
  <2> QED BY <2>2, <2>3, EmailAssumption DEF EmailInit, NotGiven
<1> QED BY <1>1, <1>2, <1>3, <1>4 DEF EmailInv

\* The misses of a row are finitely many, one more or one less when one visitor
\* enters or leaves.
LEMMA MissesFinite ==
  ASSUME NEW r
  PROVE  /\ IsFiniteSet(MissesOf(r)) /\ Cardinality(MissesOf(r)) \in Nat
         /\ Cardinality(MissesOf(r)) <= Cardinality(Visitor)
         /\ Cardinality(Visitor) \in Nat
<1>1. MissesOf(r) \in SUBSET Visitor
  BY DEF MissesOf
<1> QED BY <1>1, EmailAssumption, FS_Subset, FS_CardinalityType

LEMMA MissEnters ==
  ASSUME EmailInv, NEW w \in Visitor, NEW v,
         verifying[w].op # "miss", v.op = "miss",
         verifying' = [verifying EXCEPT ![w] = v]
  PROVE  \A r \in CodeId :
            Cardinality(MissesOf(r))' = IF r = v.row THEN Cardinality(MissesOf(r)) + 1
                                        ELSE Cardinality(MissesOf(r))
<1> SUFFICES ASSUME NEW r \in CodeId
             PROVE  Cardinality(MissesOf(r))' =
                       IF r = v.row THEN Cardinality(MissesOf(r)) + 1
                       ELSE Cardinality(MissesOf(r))
  OBVIOUS
<1>1. w \notin MissesOf(r)
  BY DEF MissesOf
<1>2. MissesOf(r)' = IF r = v.row THEN MissesOf(r) \union {w} ELSE MissesOf(r)
  BY DEF EmailInv, EmailTypeOK, MissesOf
<1> QED BY <1>1, <1>2, MissesFinite, FS_AddElement

LEMMA MissLeaves ==
  ASSUME EmailInv, NEW w \in Visitor, EndVerifying(w)
  PROVE  \A r \in CodeId :
            Cardinality(MissesOf(r))' =
               IF w \in MissesOf(r) THEN Cardinality(MissesOf(r)) - 1
               ELSE Cardinality(MissesOf(r))
<1> SUFFICES ASSUME NEW r \in CodeId
             PROVE  Cardinality(MissesOf(r))' =
                       IF w \in MissesOf(r) THEN Cardinality(MissesOf(r)) - 1
                       ELSE Cardinality(MissesOf(r))
  OBVIOUS
<1>1. MissesOf(r)' = MissesOf(r) \ {w}
  BY DEF EmailInv, EmailTypeOK, MissesOf, EndVerifying, NoVerification
<1> QED BY <1>1, MissesFinite, FS_RemoveElement

LEMMA MissesStay ==
  ASSUME EmailInv, NEW w \in Visitor, NEW v,
         verifying[w].op # "miss", v.op # "miss",
         verifying' = [verifying EXCEPT ![w] = v]
  PROVE  \A r \in CodeId : MissesOf(r)' = MissesOf(r)
BY DEF EmailInv, EmailTypeOK, MissesOf

\* A visitor does something else, and no code or count changes.
LEMMA VisitorStep ==
  ASSUME EmailInv, NEW w \in Visitor, NEW v \in Verification, NamesCode(v),
         verifying[w].op # "miss", v.op # "miss",
         verifying' = [verifying EXCEPT ![w] = v],
         UNCHANGED <<code, tried, minute>>,
         owner' \in BOOLEAN, sent' \in SUBSET CodeId
  PROVE  EmailInv'
<1>1. EmailTypeOK'
  BY DEF EmailInv, EmailTypeOK
<1>2. (\A u \in Visitor : NamesCode(verifying[u]))'
  BY DEF EmailInv, EmailTypeOK, NamesCode
<1>3. OpenedOnce'
  BY DEF EmailInv, OpenedOnce, Open
<1>4. AttemptsCount'
  BY MissesStay DEF EmailInv, AttemptsCount
<1> QED BY <1>1, <1>2, <1>3, <1>4 DEF EmailInv

LEMMA IdleVisitor ==
  /\ NoVerification \in Verification
  /\ NoVerification.op = "idle"
  /\ NamesCode(NoVerification)
BY DEF Verification, NoVerification, NamesCode

----------------------------------------------------------------------------
(* Steps *)

LEMMA SaveCodeKeeps ==
  ASSUME EmailInv, NEW w \in Visitor, saveCode(w)
  PROVE  EmailInv'
<1>1. PICK r \in CodeId :
         /\ code[r] = NotGiven
         /\ code' = [q \in CodeId |->
               IF q = r THEN [status |-> "open", attempts |-> 0, at |-> minute]
               ELSE IF Open(q) THEN Replaced ELSE code[q]]
         /\ verifying' = [verifying EXCEPT ![w] = [op |-> "mail", row |-> r]]
  BY DEF saveCode
<1>2. verifying[w].op # "miss" /\ UNCHANGED <<sent, tried, owner, minute>>
  BY DEF saveCode
<1>3. EmailTypeOK'
  BY <1>1, <1>2 DEF EmailInv, EmailTypeOK, CodeRow, Verification
<1>4. (\A u \in Visitor : NamesCode(verifying[u]))'
  BY <1>1 DEF EmailInv, EmailTypeOK, NamesCode
<1>5. OpenedOnce'
  <2>1. \A q \in CodeId : Open(q)' => q = r
    BY <1>1 DEF Open, Replaced
  <2> QED BY <2>1 DEF OpenedOnce
<1>6. AttemptsCount'
  <2> SUFFICES ASSUME NEW q \in CodeId
               PROVE  /\ tried[q] <= MAX_ATTEMPTS + Cardinality(Visitor) - 1
                      /\ tried[q] >= Cardinality(MissesOf(q))
                      /\ code'[q] # Replaced =>
                            tried[q] = code'[q].attempts + Cardinality(MissesOf(q))
    BY <1>1, <1>2, MissesStay DEF AttemptsCount
  <2>1. code'[q] # Replaced => code[q] # Replaced /\ code'[q].attempts = code[q].attempts
    BY <1>1 DEF NotGiven, Replaced
  <2> QED BY <2>1 DEF EmailInv, AttemptsCount
<1> QED BY <1>3, <1>4, <1>5, <1>6 DEF EmailInv

LEMMA BeginVerifyKeeps ==
  ASSUME EmailInv, NEW w \in Visitor, NEW given, BeginVerify(w, given)
  PROVE  EmailInv'
<1>1. PICK r \in CodeId :
         /\ MayCompare(r)
         /\ StartVerifying(w, IF given = r THEN "match" ELSE "miss", r)
         /\ tried' = IF given = r THEN tried ELSE [tried EXCEPT ![r] = @ + 1]
         /\ UNCHANGED <<code, sent, owner, minute>>
  BY DEF BeginVerify
<1>2. verifying[w].op = "idle"
  BY <1>1 DEF StartVerifying
<1>3. CASE given = r
  <2> DEFINE v == [op |-> "match", row |-> r]
  <2>1. v \in Verification /\ NamesCode(v) /\ v.op # "miss"
    BY DEF Verification, NamesCode
  <2>2. verifying' = [verifying EXCEPT ![w] = v]
    BY <1>1, <1>3 DEF StartVerifying
  <2> HIDE DEF v
  <2> QED BY <1>1, <1>2, <1>3, <2>1, <2>2, VisitorStep DEF EmailInv, EmailTypeOK
<1>4. CASE given # r
  <2> DEFINE v == [op |-> "miss", row |-> r]
  <2>1. v \in Verification /\ v.op = "miss" /\ v.row = r
    BY DEF Verification
  <2>2. verifying' = [verifying EXCEPT ![w] = v]
    BY <1>1, <1>4 DEF StartVerifying
  <2>3. tried' = [tried EXCEPT ![r] = @ + 1]
    BY <1>1, <1>4
  <2> HIDE DEF v
  <2>4. EmailTypeOK'
    BY <1>1, <2>1, <2>2, <2>3 DEF EmailInv, EmailTypeOK
  <2>5. (\A u \in Visitor : NamesCode(verifying[u]))'
    BY <2>1, <2>2 DEF EmailInv, EmailTypeOK, NamesCode
  <2>6. OpenedOnce'
    BY <1>1 DEF EmailInv, OpenedOnce, Open
  <2>7. AttemptsCount'
    <3> SUFFICES ASSUME NEW q \in CodeId
                 PROVE  /\ tried'[q] <= MAX_ATTEMPTS + Cardinality(Visitor) - 1
                        /\ tried'[q] >= Cardinality(MissesOf(q))'
                        /\ code[q] # Replaced =>
                              tried'[q] = code[q].attempts + Cardinality(MissesOf(q))'
      BY <1>1 DEF AttemptsCount
    <3>1. Cardinality(MissesOf(q))' = IF q = r THEN Cardinality(MissesOf(q)) + 1
                                      ELSE Cardinality(MissesOf(q))
      BY <1>2, <2>1, <2>2, MissEnters
    <3>2. tried'[q] = IF q = r THEN tried[q] + 1 ELSE tried[q]
      BY <2>3 DEF EmailInv, EmailTypeOK
    <3>3. code[r] # Replaced /\ code[r].attempts < MAX_ATTEMPTS
      BY <1>1 DEF MayCompare, Open, Replaced
    <3>4. /\ tried[q] \in Nat /\ code[q].attempts \in Nat
          /\ Cardinality(MissesOf(q)) \in Nat /\ Cardinality(Visitor) \in Nat
      BY MissesFinite, RowStatus DEF EmailInv, EmailTypeOK
    <3>5. Cardinality(MissesOf(q))' \in Nat /\ Cardinality(MissesOf(q))' <= Cardinality(Visitor)
      <4>1. MissesOf(q)' \in SUBSET Visitor
        BY DEF MissesOf
      <4> QED BY <4>1, EmailAssumption, FS_Subset, FS_CardinalityType
    <3>6. /\ tried[q] <= MAX_ATTEMPTS + Cardinality(Visitor) - 1
          /\ tried[q] >= Cardinality(MissesOf(q))
          /\ code[q] # Replaced =>
                tried[q] = code[q].attempts + Cardinality(MissesOf(q))
      BY DEF EmailInv, AttemptsCount
    <3> HIDE DEF MissesOf
    <3> QED BY <3>1, <3>2, <3>3, <3>4, <3>5, <3>6, EmailAssumption
  <2> QED BY <2>4, <2>5, <2>6, <2>7 DEF EmailInv
<1> QED BY <1>3, <1>4

LEMMA CountAttemptKeeps ==
  ASSUME EmailInv, NEW w \in Visitor, CountAttempt(w)
  PROVE  EmailInv'
<1> DEFINE r == verifying[w].row
<1>1. /\ verifying[w].op = "miss" /\ Kept(r) /\ r \in CodeId
      /\ code' = [code EXCEPT ![r].attempts = @ + 1]
      /\ EndVerifying(w) /\ UNCHANGED <<sent, tried, owner, minute>>
  BY DEF CountAttempt, EmailInv, NamesCode
<1>2. code[r] \in CodeRow /\ code[r].attempts \in Nat /\ code[r] # Replaced
  BY <1>1 DEF EmailInv, EmailTypeOK, Kept, CodeRow, NotGiven, Replaced
<1>3. code'[r] \in CodeRow /\ code'[r].status = code[r].status
      /\ code'[r].attempts = code[r].attempts + 1
  BY <1>1, <1>2 DEF EmailInv, EmailTypeOK, CodeRow
<1>4. \A q \in CodeId : q # r => code'[q] = code[q]
  BY <1>1 DEF EmailInv, EmailTypeOK
<1>5. EmailTypeOK'
  <2>1. code' \in [CodeId -> CodeRow \union {NotGiven, Replaced}]
    BY <1>1, <1>3 DEF EmailInv, EmailTypeOK
  <2> QED BY <1>1, <2>1, IdleVisitor DEF EmailInv, EmailTypeOK, EndVerifying
<1>6. (\A u \in Visitor : NamesCode(verifying[u]))'
  BY <1>1, IdleVisitor DEF EmailInv, EmailTypeOK, NamesCode, EndVerifying
<1>7. OpenedOnce'
  BY <1>3, <1>4 DEF EmailInv, OpenedOnce, Open
<1>8. AttemptsCount'
  <2> SUFFICES ASSUME NEW q \in CodeId
               PROVE  /\ tried[q] <= MAX_ATTEMPTS + Cardinality(Visitor) - 1
                      /\ tried[q] >= Cardinality(MissesOf(q))'
                      /\ code'[q] # Replaced =>
                            tried[q] = code'[q].attempts + Cardinality(MissesOf(q))'
    BY <1>1 DEF AttemptsCount
  <2>1. Cardinality(MissesOf(q))' = IF q = r THEN Cardinality(MissesOf(q)) - 1
                                    ELSE Cardinality(MissesOf(q))
    <3>1. w \in MissesOf(q) <=> q = r
      BY <1>1 DEF MissesOf
    <3> QED BY <1>1, <3>1, MissLeaves
  <2>2. /\ tried[q] \in Nat /\ code[q].attempts \in Nat
        /\ Cardinality(MissesOf(q)) \in Nat
    BY MissesFinite, RowStatus DEF EmailInv, EmailTypeOK
  <2>3. /\ tried[q] <= MAX_ATTEMPTS + Cardinality(Visitor) - 1
        /\ tried[q] >= Cardinality(MissesOf(q))
        /\ code[q] # Replaced =>
              tried[q] = code[q].attempts + Cardinality(MissesOf(q))
    BY DEF EmailInv, AttemptsCount
  <2> HIDE DEF r
  <2> QED BY <1>2, <1>3, <1>4, <2>1, <2>2, <2>3
<1> QED BY <1>5, <1>6, <1>7, <1>8 DEF EmailInv

LEMMA MarkVerifiedKeeps ==
  ASSUME EmailInv, NEW w \in Visitor, MarkVerified(w)
  PROVE  EmailInv'
<1> DEFINE r == verifying[w].row
<1>1. /\ verifying[w].op = "match" /\ Kept(r) /\ r \in CodeId
      /\ code' = [code EXCEPT ![r].status = "verified"]
      /\ EndVerifying(w) /\ UNCHANGED <<sent, tried, owner, minute>>
  BY DEF MarkVerified, EmailInv, NamesCode
<1>2. code[r] \in CodeRow /\ code[r] # Replaced
  BY <1>1 DEF EmailInv, EmailTypeOK, Kept, CodeRow, NotGiven, Replaced
<1>3. code'[r] \in CodeRow /\ code'[r].status = "verified"
      /\ code'[r].attempts = code[r].attempts
  BY <1>1, <1>2 DEF EmailInv, EmailTypeOK, CodeRow
<1>4. \A q \in CodeId : q # r => code'[q] = code[q]
  BY <1>1 DEF EmailInv, EmailTypeOK
<1>5. EmailTypeOK'
  <2>1. code' \in [CodeId -> CodeRow \union {NotGiven, Replaced}]
    BY <1>1, <1>3 DEF EmailInv, EmailTypeOK
  <2> QED BY <1>1, <2>1, IdleVisitor DEF EmailInv, EmailTypeOK, EndVerifying
<1>6. (\A u \in Visitor : NamesCode(verifying[u]))'
  BY <1>1, IdleVisitor DEF EmailInv, EmailTypeOK, NamesCode, EndVerifying
<1>7. OpenedOnce'
  BY <1>3, <1>4 DEF EmailInv, OpenedOnce, Open
<1>8. AttemptsCount'
  <2>1. \A q \in CodeId : MissesOf(q)' = MissesOf(q)
    BY <1>1, IdleVisitor, MissesStay DEF EndVerifying
  <2> QED BY <1>1, <1>2, <1>3, <1>4, <2>1 DEF EmailInv, AttemptsCount
<1> QED BY <1>5, <1>6, <1>7, <1>8 DEF EmailInv

LEMMA AbortVerifyingKeeps ==
  ASSUME EmailInv, NEW w \in Visitor, AbortVerifying(w)
  PROVE  EmailInv'
<1>1. CASE verifying[w].op # "miss"
  BY <1>1, IdleVisitor, VisitorStep
     DEF AbortVerifying, EndVerifying, EmailInv, EmailTypeOK
<1>2. CASE verifying[w].op = "miss"
  <2> DEFINE r == verifying[w].row
  <2>1. /\ r \in CodeId
        /\ tried' = [tried EXCEPT ![r] = @ - 1]
        /\ EndVerifying(w) /\ UNCHANGED <<code, sent, owner, minute>>
    BY <1>2 DEF AbortVerifying, EmailInv, NamesCode
  <2>2. \A q \in CodeId :
           /\ Cardinality(MissesOf(q))' = IF q = r THEN Cardinality(MissesOf(q)) - 1
                                          ELSE Cardinality(MissesOf(q))
           /\ q = r => Cardinality(MissesOf(q)) >= 1
    <3> SUFFICES ASSUME NEW q \in CodeId
                 PROVE  /\ Cardinality(MissesOf(q))' =
                              IF q = r THEN Cardinality(MissesOf(q)) - 1
                              ELSE Cardinality(MissesOf(q))
                        /\ q = r => Cardinality(MissesOf(q)) >= 1
      OBVIOUS
    <3>1. w \in MissesOf(q) <=> q = r
      BY <1>2 DEF MissesOf
    <3>2. w \in MissesOf(q) => Cardinality(MissesOf(q)) # 0
      BY MissesFinite, FS_EmptySet
    <3> QED BY <2>1, <3>1, <3>2, MissLeaves, MissesFinite
  <2>3. \A q \in CodeId : tried'[q] = IF q = r THEN tried[q] - 1 ELSE tried[q]
    BY <2>1 DEF EmailInv, EmailTypeOK
  <2>4. \A q \in CodeId :
           /\ tried[q] \in Nat /\ code[q].attempts \in Nat
           /\ Cardinality(MissesOf(q)) \in Nat /\ Cardinality(Visitor) \in Nat
    BY MissesFinite, RowStatus DEF EmailInv, EmailTypeOK
  <2>5. \A q \in CodeId :
           /\ tried[q] <= MAX_ATTEMPTS + Cardinality(Visitor) - 1
           /\ tried[q] >= Cardinality(MissesOf(q))
           /\ code[q] # Replaced =>
                 tried[q] = code[q].attempts + Cardinality(MissesOf(q))
    BY DEF EmailInv, AttemptsCount
  <2>6. EmailTypeOK'
    <3>1. tried[r] >= 1
      BY <2>1, <2>2, <2>4, <2>5
    <3>2. tried' \in [CodeId -> Nat]
      BY <2>1, <2>3, <2>4, <3>1 DEF EmailInv, EmailTypeOK
    <3> QED BY <2>1, <3>2, IdleVisitor DEF EmailInv, EmailTypeOK, EndVerifying
  <2>7. (\A u \in Visitor : NamesCode(verifying[u]))'
    BY <2>1, IdleVisitor DEF EmailInv, EmailTypeOK, NamesCode, EndVerifying
  <2>8. OpenedOnce'
    BY <2>1 DEF EmailInv, OpenedOnce, Open
  <2>9. AttemptsCount'
    <3> SUFFICES ASSUME NEW q \in CodeId
                 PROVE  /\ tried'[q] <= MAX_ATTEMPTS + Cardinality(Visitor) - 1
                        /\ tried'[q] >= Cardinality(MissesOf(q))'
                        /\ code[q] # Replaced =>
                              tried'[q] = code[q].attempts + Cardinality(MissesOf(q))'
      BY <2>1 DEF AttemptsCount
    <3> HIDE DEF r
    <3> QED BY <2>2, <2>3, <2>4, <2>5, EmailAssumption
  <2> QED BY <2>6, <2>7, <2>8, <2>9 DEF EmailInv
<1> QED BY <1>1, <1>2

LEMMA EmailStep ==
  ASSUME EmailInv, [EmailNext]_emailVars
  PROVE  EmailInv'
<1>1. ASSUME NEW w \in Visitor, BeginSend(w) \/ BeginOwnerRegister(w)
      PROVE  EmailInv'
  <2>1. PICK op \in {"send", "register"} :
           /\ verifying[w].op = "idle"
           /\ verifying' = [verifying EXCEPT ![w] = [op |-> op, row |-> NoCode]]
           /\ UNCHANGED <<code, sent, tried, owner, minute>>
    BY <1>1 DEF BeginSend, BeginOwnerRegister, StartVerifying
  <2> DEFINE v == [op |-> op, row |-> NoCode]
  <2>2. v \in Verification /\ NamesCode(v) /\ v.op # "miss"
    BY DEF Verification, NamesCode
  <2> HIDE DEF v
  <2> QED BY <2>1, <2>2, VisitorStep DEF EmailInv, EmailTypeOK, v
<1>2. ASSUME NEW w \in Visitor, sendVerificationEmail(w)
      PROVE  EmailInv'
  BY <1>2, IdleVisitor, VisitorStep
     DEF sendVerificationEmail, EndVerifying, EmailInv, EmailTypeOK, NamesCode
<1>3. ASSUME NEW w \in Visitor, CommitRegister(w)
      PROVE  EmailInv'
  BY <1>3, IdleVisitor, VisitorStep
     DEF CommitRegister, EndVerifying, EmailInv, EmailTypeOK
<1>4. ASSUME FreeAddress \/ MinutePasses \/ UNCHANGED emailVars
      PROVE  EmailInv'
  <2>1. UNCHANGED <<code, sent, tried, verifying>>
    BY <1>4 DEF FreeAddress, MinutePasses, emailVars
  <2>2. owner' \in BOOLEAN
    BY <1>4 DEF EmailInv, EmailTypeOK, FreeAddress, MinutePasses, emailVars
  <2>3. minute' \in 0..MaxMinute
    BY <1>4, EmailAssumption
       DEF EmailInv, EmailTypeOK, FreeAddress, MinutePasses, emailVars
  <2>4. EmailTypeOK'
    BY <2>1, <2>2, <2>3 DEF EmailInv, EmailTypeOK
  <2>5. AttemptsCount'
    BY <2>1 DEF EmailInv, AttemptsCount, MissesOf
  <2> QED BY <2>1, <2>4, <2>5 DEF EmailInv, OpenedOnce, Open
<1> QED
  BY <1>1, <1>2, <1>3, <1>4, SaveCodeKeeps, BeginVerifyKeeps, CountAttemptKeeps,
     MarkVerifiedKeeps, AbortVerifyingKeeps
     DEF EmailNext

LEMMA EmailSpecInv == EmailSpec => []EmailInv
BY EmailInvInit, EmailStep, PTL DEF EmailSpec

\* Every code, count and request keeps its type (send, verify and register in
\* email-verification.service.ts and auth.service.ts).
THEOREM EmailTypeCorrect == EmailSpec => []EmailTypeOK
<1>1. EmailInv => EmailTypeOK
  BY DEF EmailInv
<1> QED BY <1>1, EmailSpecInv, PTL

\* However many visitors present codes at once, a code answers a bounded number
\* of wrong ones (verifyCode in email-verification.service.ts).
THEOREM AttemptsBounded == EmailSpec => []AttemptBudget
<1>1. EmailInv => AttemptBudget
  BY DEF EmailInv, AttemptsCount, AttemptBudget
<1> QED BY <1>1, EmailSpecInv, PTL

\* One code of an address at most can still be verified, however sending and
\* verifying overlap (saveCode in email-verification.service.ts).
THEOREM OneCodeOpen == EmailSpec => []OneOpenCode
<1>1. EmailInv => OneOpenCode
  <2> SUFFICES ASSUME EmailInv
               PROVE  Cardinality({r \in CodeId : Open(r)}) <= 1
    BY DEF OneOpenCode
  <2>1. CASE \E r \in CodeId : Open(r)
    <3>1. PICK r \in CodeId : Open(r)
      BY <2>1
    <3>2. {q \in CodeId : Open(q)} = {r}
      BY <3>1 DEF EmailInv, OpenedOnce
    <3> QED BY <3>2, FS_Singleton
  <2>2. CASE ~\E r \in CodeId : Open(r)
    <3>1. {q \in CodeId : Open(q)} = {}
      BY <2>2
    <3> QED BY <3>1, FS_EmptySet
  <2> QED BY <2>1, <2>2
<1> QED BY <1>1, EmailSpecInv, PTL
=============================================================================

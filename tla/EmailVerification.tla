------------------------- MODULE EmailVerification -------------------------
(***************************************************************************)
(* The codes sent to one e-mail address before an owner registers with it: *)
(* sending, verifying, and the check that registering makes.               *)
(*                                                                         *)
(* Every row of email_verifications has its own code, so presenting a code *)
(* is naming a row, or no row. created_at is in whole seconds: the newest  *)
(* row is one of those with the greatest, in no particular order.          *)
(***************************************************************************)
EXTENDS Integers, FiniteSets

CONSTANTS
    CodeId,         \* ids of email_verifications, in the order they are given
    NoCode,
    MAX_ATTEMPTS,   \* EMAIL_VERIFICATION_MAX_ATTEMPTS
    CODE_LIFE,      \* EMAIL_VERIFICATION_CODE_EXPIRES_IN
    MaxMinute,      \* bound on the clock
    Visitor         \* requests served at the same time

ASSUME EmailAssumption ==
    /\ CodeId \subseteq Nat /\ NoCode \notin CodeId
    /\ MAX_ATTEMPTS \in Nat \ {0}
    /\ CODE_LIFE \in Nat \ {0}
    /\ MaxMinute \in Nat
    /\ IsFiniteSet(Visitor)

VARIABLES
    code,       \* rows of email_verifications
    sent,       \* rows whose code was mailed
    tried,      \* wrong codes compared with a row's, by requests not aborted
    owner,      \* an owner has the address
    verifying,  \* what each visitor is in the middle of
    minute

\* tried is auxiliary: no action depends on it.
emailVars == <<code, sent, tried, owner, verifying, minute>>

CodeRow == [status : {"open", "verified"}, attempts : Nat, at : 0..MaxMinute]

NotGiven == [status |-> "unused", attempts |-> 0, at |-> 0]
Replaced == [status |-> "deleted", attempts |-> 0, at |-> 0]

Verification == [op : {"idle", "send", "mail", "miss", "match", "register"},
                 row : CodeId \union {NoCode}]

NoVerification == [op |-> "idle", row |-> NoCode]

EmailTypeOK ==
    /\ code \in [CodeId -> CodeRow \union {NotGiven, Replaced}]
    /\ sent \in SUBSET CodeId
    /\ tried \in [CodeId -> Nat]
    /\ owner \in BOOLEAN
    /\ verifying \in [Visitor -> Verification]
    /\ minute \in 0..MaxMinute

EmailInit ==
    /\ code = [r \in CodeId |-> NotGiven]
    /\ sent = {}
    /\ tried = [r \in CodeId |-> 0]
    /\ owner = FALSE
    /\ verifying = [w \in Visitor |-> NoVerification]
    /\ minute = 0

----------------------------------------------------------------------------

Kept(r) == code[r].status \in {"open", "verified"}

Open(r) == code[r].status = "open"

Newest(r) == Kept(r) /\ \A q \in CodeId : Kept(q) => code[q].at <= code[r].at

CodeExpired(r) == code[r].at + CODE_LIFE <= minute

StartVerifying(w, op, r) ==
    /\ verifying[w].op = "idle"
    /\ verifying' = [verifying EXCEPT ![w] = [op |-> op, row |-> r]]

EndVerifying(w) == verifying' = [verifying EXCEPT ![w] = NoVerification]

\* sendEmailVerification: assertEmailAvailable, then saveCode's transaction,
\* which deletes before it inserts, then the mail.
BeginSend(w) ==
    /\ ~owner
    /\ StartVerifying(w, "send", NoCode)
    /\ UNCHANGED <<code, sent, tried, owner, minute>>

\* Faulty: the rows of earlier codes are left.
InsertCode(w) ==
    /\ verifying[w].op = "send"
    /\ \E r \in CodeId :
          /\ code[r] = NotGiven
          /\ \A q \in CodeId : code[q] = NotGiven => r <= q
          /\ code' = [code EXCEPT ![r] = [status |-> "open", attempts |-> 0,
                                         at |-> minute]]
          /\ verifying' = [verifying EXCEPT ![w] = [op |-> "mail", row |-> r]]
    /\ UNCHANGED <<sent, tried, owner, minute>>

saveCode(w) ==
    /\ verifying[w].op = "send"
    /\ \E r \in CodeId :
          /\ code[r] = NotGiven
          /\ \A q \in CodeId : code[q] = NotGiven => r <= q
          /\ code' = [q \in CodeId |->
                IF q = r THEN [status |-> "open", attempts |-> 0, at |-> minute]
                ELSE IF Open(q) THEN Replaced ELSE code[q]]
          /\ verifying' = [verifying EXCEPT ![w] = [op |-> "mail", row |-> r]]
    /\ UNCHANGED <<sent, tried, owner, minute>>

sendVerificationEmail(w) ==
    /\ verifying[w].op = "mail"
    /\ sent' = sent \union {verifying[w].row}
    /\ EndVerifying(w)
    /\ UNCHANGED <<code, tried, owner, minute>>

\* verifyCode: the newest row is read, and may be compared with the code given.
MayCompare(r) ==
    /\ Newest(r)
    /\ Open(r)
    /\ code[r].attempts < MAX_ATTEMPTS
    /\ ~CodeExpired(r)

BeginVerify(w, given) ==
    \E r \in CodeId :
        /\ MayCompare(r)
        /\ StartVerifying(w, IF given = r THEN "match" ELSE "miss", r)
        /\ tried' = IF given = r THEN tried ELSE [tried EXCEPT ![r] = @ + 1]
        /\ UNCHANGED <<code, sent, owner, minute>>

\* Faulty: the count is set, not incremented.
CountOneAttempt(w) ==
    LET r == verifying[w].row IN
    /\ verifying[w].op = "miss" /\ Kept(r)
    /\ code' = [code EXCEPT ![r].attempts = 1]
    /\ EndVerifying(w)
    /\ UNCHANGED <<sent, tried, owner, minute>>

\* Both updates are by id, and fail when the row was deleted meanwhile.
CountAttempt(w) ==
    LET r == verifying[w].row IN
    /\ verifying[w].op = "miss" /\ Kept(r)
    /\ code' = [code EXCEPT ![r].attempts = @ + 1]
    /\ EndVerifying(w)
    /\ UNCHANGED <<sent, tried, owner, minute>>

MarkVerified(w) ==
    LET r == verifying[w].row IN
    /\ verifying[w].op = "match" /\ Kept(r)
    /\ code' = [code EXCEPT ![r].status = "verified"]
    /\ EndVerifying(w)
    /\ UNCHANGED <<sent, tried, owner, minute>>

\* register: assertEmailVerified and assertEmailAvailable, then the INSERT,
\* which owners' unique address refuses a second time. The verified row stays.
assertEmailVerified == \E r \in CodeId : Newest(r) /\ code[r].status = "verified"

BeginOwnerRegister(w) ==
    /\ assertEmailVerified
    /\ ~owner
    /\ StartVerifying(w, "register", NoCode)
    /\ UNCHANGED <<code, sent, tried, owner, minute>>

CommitRegister(w) ==
    /\ verifying[w].op = "register" /\ ~owner
    /\ owner' = TRUE
    /\ EndVerifying(w)
    /\ UNCHANGED <<code, sent, tried, minute>>

\* The owner withdraws (StoreAccounts), which frees the address.
FreeAddress ==
    /\ owner' = FALSE
    /\ UNCHANGED <<code, sent, tried, verifying, minute>>

\* A statement or the mail fails, or the process stops.
AbortVerifying(w) ==
    /\ verifying[w].op # "idle"
    /\ EndVerifying(w)
    /\ tried' = IF verifying[w].op = "miss"
                THEN [tried EXCEPT ![verifying[w].row] = @ - 1]
                ELSE tried
    /\ UNCHANGED <<code, sent, owner, minute>>

MinutePasses ==
    /\ minute < MaxMinute
    /\ minute' = minute + 1
    /\ UNCHANGED <<code, sent, tried, owner, verifying>>

EmailNext ==
    \/ \E w \in Visitor :
          \/ BeginSend(w) \/ saveCode(w) \/ sendVerificationEmail(w)
          \/ \E given \in sent \union {NoCode} : BeginVerify(w, given)
          \/ CountAttempt(w) \/ MarkVerified(w)
          \/ BeginOwnerRegister(w) \/ CommitRegister(w) \/ AbortVerifying(w)
    \/ FreeAddress
    \/ MinutePasses

EmailSpec == EmailInit /\ [][EmailNext]_emailVars

----------------------------------------------------------------------------
\* However many requests compare codes at once, a code answers MAX_ATTEMPTS
\* wrong ones and at most one more for every other request that had passed the
\* check, since the count is read in one statement and incremented in another
\* (email-verification.service.ts, verifyCode).
AttemptBudget ==
    \A r \in CodeId : tried[r] <= MAX_ATTEMPTS + Cardinality(Visitor) - 1

\* Asking for a code again makes the one before worthless: one row at most can
\* still be verified, and a request that had read an older one finds it
\* deleted (email-verification.service.ts, saveCode and verifyCode).
OneOpenCode == Cardinality({r \in CodeId : Open(r)}) <= 1
=============================================================================

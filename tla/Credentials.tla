---------------------------- MODULE Credentials ----------------------------
(***************************************************************************)
(* Sign-in with a password to one account, an owner's or an                *)
(* administrator's: the count of failed attempts and the lock, changing    *)
(* the password, logging out, and for an administrator the command line    *)
(* that resets, deactivates and activates.                                 *)
(*                                                                         *)
(* A sign-in reads the account once, compares the password (bcrypt, which  *)
(* takes a while) and then writes what it computed from what it had read.  *)
(* Passwords are numbered in the order they were set.                      *)
(***************************************************************************)
EXTENDS Integers, FiniteSets

CONSTANTS
    MAX_LOGIN_FAILURES,
    LOGIN_LOCK,         \* LOGIN_LOCK_MINUTES, in ticks of the clock
    MaxPasswords,       \* bound on the passwords the account has had
    MaxClock,           \* bound on the clock
    Client              \* requests served at the same time

ASSUME CredentialsAssumption ==
    /\ MAX_LOGIN_FAILURES \in Nat \ {0}
    /\ LOGIN_LOCK \in Nat \ {0}
    /\ MaxPasswords \in Nat \ {0}
    /\ MaxClock \in Nat
    /\ IsFiniteSet(Client)

VARIABLES
    kind,       \* a row of owners, or of admins
    failures,   \* login_count
    lockedTo,   \* login_locked_until; 0, which is past, is NULL
    password,   \* password_hash
    active,     \* admins.is_active
    sessions,   \* refresh tokens of the account
    streak,     \* wrong passwords in a row since the last sign-in or lock
    attempt,    \* what each client is in the middle of
    clock

\* streak, and late below, are auxiliary: no action depends on them.
credentialVars ==
    <<kind, failures, lockedTo, password, active, sessions, streak, attempt, clock>>

\* A password that was set, or 0 for any other.
Password == 1..MaxPasswords
Guess == {0} \union Password

\* The password the sign-in compared; late, if the password or active changed
\* between the read of the account and the INSERT of the token.
Session == [password : Password, late : BOOLEAN]

AttemptOps == {"idle", "login", "insert", "reset", "change"}

Attempt == [op : AttemptOps, guess : Guess, failures : Nat, password : Password,
            late : BOOLEAN]

NoAttempt == [op |-> "idle", guess |-> 0, failures |-> 0, password |-> 1,
              late |-> FALSE]

CredentialsTypeOK ==
    /\ kind \in {"owner", "admin"}
    /\ failures \in Nat
    /\ lockedTo \in Nat
    /\ password \in Password
    /\ active \in BOOLEAN
    /\ sessions \in SUBSET Session
    /\ streak \in Nat
    /\ attempt \in [Client -> Attempt]
    /\ clock \in 1..MaxClock + 1

CredentialsInit ==
    /\ kind \in {"owner", "admin"}
    /\ failures = 0
    /\ lockedTo = 0
    /\ password = 1
    /\ active = TRUE
    /\ sessions = {}
    /\ streak = 0
    /\ attempt = [w \in Client |-> NoAttempt]
    /\ clock = 1

----------------------------------------------------------------------------

StartAttempt(w, op, guess) ==
    /\ attempt[w].op = "idle"
    /\ attempt' = [attempt EXCEPT ![w] = [op |-> op, guess |-> guess,
                                          failures |-> failures,
                                          password |-> password, late |-> FALSE]]

EndAttempt(w) == attempt' = [attempt EXCEPT ![w] = NoAttempt]

\* Sign-ins in flight when the account's sessions are deleted.
MarkLate(ended) ==
    attempt' = [w \in Client |->
               IF w = ended THEN NoAttempt
               ELSE IF attempt[w].op = "idle" THEN attempt[w]
               ELSE [attempt[w] EXCEPT !.late = TRUE]]

Locked == lockedTo > clock

Unblocked == kind = "admin" => active

Right(r) == r.guess = r.password

\* login: the account is read. A locked account, or an administrator's that is
\* not active, is refused before the password is compared.
ReadAccount(w, guess) ==
    /\ ~Locked
    /\ Unblocked
    /\ StartAttempt(w, "login", guess)
    /\ UNCHANGED <<kind, failures, lockedTo, password, active, sessions, streak, clock>>

\* Faulty: locked by the attempt after the last that is allowed.
LockOneLater(r) == r.failures >= MAX_LOGIN_FAILURES

ShouldLock(r) == r.failures + 1 >= MAX_LOGIN_FAILURES

\* A wrong password: the count that was read, plus one, and the lock or NULL.
Miss(w) ==
    LET r == attempt[w] IN
    /\ r.op = "login"
    /\ ~Right(r)
    /\ failures' = r.failures + 1
    /\ lockedTo' = IF ShouldLock(r) THEN clock + LOGIN_LOCK ELSE 0
    /\ streak' = IF ShouldLock(r) THEN 0 ELSE streak + 1
    /\ EndAttempt(w)
    /\ UNCHANGED <<kind, password, active, sessions, clock>>

\* The owner has no open store: refused, and nothing is written.
NoOpenStore(w) ==
    /\ attempt[w].op = "login" /\ Right(attempt[w]) /\ kind = "owner"
    /\ EndAttempt(w)
    /\ UNCHANGED <<kind, failures, lockedTo, password, active, sessions, streak, clock>>

ResetFailures ==
    failures' = 0 /\ lockedTo' = 0 /\ streak' = 0

\* An owner's sign-in writes the counters and then inserts the token, an
\* administrator's inserts the token and then writes the counters.
ResetOfOwner(w) ==
    /\ attempt[w].op = "login" /\ Right(attempt[w]) /\ kind = "owner"
    /\ ResetFailures
    /\ attempt' = [attempt EXCEPT ![w].op = "insert"]
    /\ UNCHANGED <<kind, password, active, sessions, clock>>

InsertToken(w) ==
    LET r == attempt[w] IN
    /\ \/ r.op = "insert"
       \/ r.op = "login" /\ Right(r) /\ kind = "admin"
    /\ sessions' = sessions \union {[password |-> r.password, late |-> r.late]}
    /\ IF kind = "owner" THEN EndAttempt(w)
       ELSE attempt' = [attempt EXCEPT ![w].op = "reset"]
    /\ UNCHANGED <<kind, failures, lockedTo, password, active, streak, clock>>

ResetOfAdmin(w) ==
    /\ attempt[w].op = "reset"
    /\ ResetFailures
    /\ EndAttempt(w)
    /\ UNCHANGED <<kind, password, active, sessions, clock>>

\* logout deletes a token by its value. Sessions alike in password and late
\* are one element, so that one of them may stay.
EndSession(s) ==
    /\ sessions' \in {sessions, sessions \ {s}}
    /\ UNCHANGED <<kind, failures, lockedTo, password, active, streak, attempt, clock>>

\* changePassword: the current password is compared, and the new one set with
\* the deletion of the sessions in one transaction.
BeginChange(w, guess) ==
    /\ guess = password
    /\ StartAttempt(w, "change", guess)
    /\ UNCHANGED <<kind, failures, lockedTo, password, active, sessions, streak, clock>>

\* Faulty: the sessions are left to expire.
SetPasswordOnly ==
    /\ \E p \in Password : p > password /\ password' = p
    /\ UNCHANGED sessions

SetPassword ==
    /\ \E p \in Password : p > password /\ password' = p
    /\ sessions' = {}

CommitChange(w) ==
    /\ attempt[w].op = "change"
    /\ SetPassword
    /\ MarkLate(w)
    /\ UNCHANGED <<kind, failures, lockedTo, active, streak, clock>>

\* npm run admin -- reset-password, deactivate, activate.
ResetPassword ==
    /\ kind = "admin"
    /\ SetPassword
    /\ ResetFailures
    /\ attempt' = [w \in Client |-> IF attempt[w].op = "idle" THEN attempt[w]
                                    ELSE [attempt[w] EXCEPT !.late = TRUE]]
    /\ UNCHANGED <<kind, active, clock>>

Deactivate ==
    /\ kind = "admin"
    /\ active' = FALSE
    /\ sessions' = {}
    /\ attempt' = [w \in Client |-> IF attempt[w].op = "idle" THEN attempt[w]
                                    ELSE [attempt[w] EXCEPT !.late = TRUE]]
    /\ UNCHANGED <<kind, failures, lockedTo, password, streak, clock>>

Activate ==
    /\ kind = "admin"
    /\ active' = TRUE
    /\ ResetFailures
    /\ UNCHANGED <<kind, password, sessions, attempt, clock>>

AbortAttempt(w) ==
    /\ attempt[w].op # "idle"
    /\ EndAttempt(w)
    /\ UNCHANGED <<kind, failures, lockedTo, password, active, sessions, streak, clock>>

ClockTicks ==
    /\ clock <= MaxClock
    /\ clock' = clock + 1
    /\ UNCHANGED <<kind, failures, lockedTo, password, active, sessions, streak, attempt>>

CredentialsNext ==
    \/ \E w \in Client :
          \/ \E g \in Guess : ReadAccount(w, g) \/ BeginChange(w, g)
          \/ Miss(w) \/ NoOpenStore(w) \/ ResetOfOwner(w) \/ InsertToken(w)
          \/ ResetOfAdmin(w) \/ CommitChange(w) \/ AbortAttempt(w)
    \/ \E s \in sessions : EndSession(s)
    \/ ResetPassword \/ Deactivate \/ Activate
    \/ ClockTicks

CredentialsSpec == CredentialsInit /\ [][CredentialsNext]_credentialVars

----------------------------------------------------------------------------
\* The tokens refresh accepts: an administrator's has to be active.
Refreshable(s) == s \in sessions /\ Unblocked

\* Changing or resetting the password, and deactivating, leave no session that
\* refresh accepts but those of the present password and those of a sign-in
\* that was under way (auth.service.ts and admin-auth.service.ts,
\* changePassword; admin-cli.ts, reset-password and deactivate).
OldSessionsOverlap ==
    \A s \in sessions : Refreshable(s) => s.password = password \/ s.late

\* Two sign-ins at a time undo each other's counting, but not without end: at
\* most M + (M - 1) + ... + 1 wrong passwords in a row, M being the limit,
\* until the account is locked (auth.service.ts and admin-auth.service.ts,
\* login, which write the count that they read before the comparison, plus 1).
MissesBounded ==
    Cardinality(Client) <= 2 =>
        streak < (MAX_LOGIN_FAILURES * (MAX_LOGIN_FAILURES + 1)) \div 2
=============================================================================

------------------------------ MODULE Sessions ------------------------------
(***************************************************************************)
(* Sign-in: PIN login and PIN change with the failure counter and its      *)
(* lock, refresh-token rotation, logout, and issueSession, which revokes   *)
(* all tokens of the user and inserts a new one in two statements.         *)
(*                                                                         *)
(* One action is one SQL statement (or the comparison of the PIN, which    *)
(* takes bcrypt's time); every await is a point where other requests run   *)
(* and where this one may die.  A token that is revoked or has expired is  *)
(* never looked at again, so its row is as good as gone; a new token is    *)
(* random and never equals an old one.                                     *)
(***************************************************************************)
EXTENDS AccountState

CONSTANTS
    RefreshTokens,  \* refresh tokens that can exist at one time
    PinMaxAttempts, \* PIN_MAX_ATTEMPTS
    MaxExpiries     \* bound on the PIN locks that run out

ASSUME PinAssumption ==
    /\ PinMaxAttempts \in Nat \ {0}
    /\ MaxExpiries \in Nat
    /\ IsFiniteSet(RefreshTokens)

VARIABLES
    blocked,    \* users for whom assertCanAuthenticate throws
    pin,        \* [Users -> pin_failed_attempts and pin_locked_until]
    tokens,     \* [RefreshTokens -> owner of an active token, or Null]
    auth,       \* [Procs -> where the request is]
    guesses,    \* history: wrong PINs answered since the counter was cleared,
                \* and the locks that ran out since then
    overlap     \* history: sign-ins in flight when all tokens were last revoked

sessVars == <<blocked, pin, tokens, auth, guesses, overlap>>

SessIdle == [pc |-> "idle"]
PinSteps == {"compare", "fail", "clear", "set_pin"}
AuthRequests ==
         {SessIdle}
    \cup [pc: PinSteps, why: {"login", "change"}, user: Users]
    \cup [pc: {"load", "rotate", "logout"}, user: Users, token: RefreshTokens]
    \cup [pc: {"revoke_all", "insert", "sign_out"}, user: Users]

SessTypeOK ==
    /\ blocked \subseteq Users
    /\ pin \in [Users -> [failed: Nat, lock: {"none", "future", "past"}]]
    /\ tokens \in [RefreshTokens -> Users \cup {Null}]
    /\ auth \in [Procs -> AuthRequests]
    /\ guesses \in [Users -> [wrong: Nat, expiries: 0 .. MaxExpiries]]
    /\ overlap \in [Users -> Nat]

NoFailures == [failed |-> 0, lock |-> "none"]
NoGuesses == [wrong |-> 0, expiries |-> 0]

SessInit ==
    /\ blocked = {}
    /\ pin = [u \in Users |-> NoFailures]
    /\ tokens = [t \in RefreshTokens |-> Null]
    /\ auth = [p \in Procs |-> SessIdle]
    /\ guesses = [u \in Users |-> NoGuesses]
    /\ overlap = [u \in Users |-> 0]

Step(p, next) == auth' = [auth EXCEPT ![p] = next]
At(pc, u) == [pc |-> pc, user |-> u]

-----------------------------------------------------------------------------
(* PINs: loginWithPin, changeUserPin, setUserPin.                          *)

\* An account without a PIN is refused like a wrong handle: nothing changes.
PinStart(p, u, why) ==
    /\ auth[p] = SessIdle
    /\ u \notin blocked
    /\ pin[u].lock # "future"
    /\ Step(p, [pc |-> "compare", why |-> why, user |-> u])
    /\ UNCHANGED <<blocked, pin, tokens, guesses, overlap>>

ComparePin(p) ==
    /\ auth[p].pc = "compare"
    /\ \E pc \in {"clear", "fail"} : auth' = [auth EXCEPT ![p].pc = pc]
    /\ UNCHANGED <<blocked, pin, tokens, guesses, overlap>>

Guessed(u) == guesses' = [guesses EXCEPT ![u].wrong = @ + 1]

\* (Mutant: every failure starts a count of its own.)
RecordPinFailureFromZero(p) ==
    /\ auth[p].pc = "fail"
    /\ pin' = [pin EXCEPT ![auth[p].user].failed = 1]
    /\ Guessed(auth[p].user)
    /\ Step(p, SessIdle)
    /\ UNCHANGED <<blocked, tokens, overlap>>

\* recordPinFailure: one atomic UPDATE, which extends a running lock and does
\* not restart the count when a lock has run out.
RecordPinFailure(p) ==
    /\ auth[p].pc = "fail"
    /\ pin' = [pin EXCEPT ![auth[p].user] =
                 [failed |-> @.failed + 1,
                  lock   |-> IF @.failed + 1 >= PinMaxAttempts
                             THEN "future" ELSE @.lock]]
    /\ Guessed(auth[p].user)
    /\ Step(p, SessIdle)
    /\ UNCHANGED <<blocked, tokens, overlap>>

\* The right PIN ends a lock that another request set in the meantime.
ClearPinFailures(p) ==
    LET u == auth[p].user
    IN  /\ auth[p].pc = "clear"
        /\ pin' = [pin EXCEPT ![u] = NoFailures]
        /\ guesses' = [guesses EXCEPT ![u] = NoGuesses]
        /\ IF auth[p].why = "login"
           THEN Step(p, At("revoke_all", u))
           ELSE auth' = [auth EXCEPT ![p].pc = "set_pin"]
        /\ UNCHANGED <<blocked, tokens, overlap>>

\* POST /auth/pin: the access token is enough.
SetPinStart(p, u) ==
    /\ auth[p] = SessIdle
    /\ u \notin blocked
    /\ Step(p, [pc |-> "set_pin", why |-> "change", user |-> u])
    /\ UNCHANGED <<blocked, pin, tokens, guesses, overlap>>

\* (Mutant: the counter is set to NULL with the lock.)
SetPinWithoutCounter(p) ==
    LET u == auth[p].user
    IN  /\ auth[p].pc = "set_pin"
        /\ pin' = [pin EXCEPT ![u] = [failed |-> Null, lock |-> "none"]]
        /\ guesses' = [guesses EXCEPT ![u] = NoGuesses]
        /\ Step(p, SessIdle)
        /\ UNCHANGED <<blocked, tokens, overlap>>

SetPin(p) ==
    LET u == auth[p].user
    IN  /\ auth[p].pc = "set_pin"
        /\ pin' = [pin EXCEPT ![u] = NoFailures]
        /\ guesses' = [guesses EXCEPT ![u] = NoGuesses]
        /\ Step(p, SessIdle)
        /\ UNCHANGED <<blocked, tokens, overlap>>

LockRunsOut(u) ==
    /\ pin[u].lock = "future"
    /\ guesses[u].expiries < MaxExpiries
    /\ pin' = [pin EXCEPT ![u].lock = "past"]
    /\ guesses' = [guesses EXCEPT ![u].expiries = @ + 1]
    /\ UNCHANGED <<blocked, tokens, auth, overlap>>

-----------------------------------------------------------------------------
(* Tokens: refresh, logout, logoutAll, issueSession.                       *)

RefreshStart(p, t) ==
    /\ auth[p] = SessIdle
    /\ tokens[t] # Null
    /\ Step(p, [pc |-> "load", user |-> tokens[t], token |-> t])
    /\ UNCHANGED <<blocked, pin, tokens, guesses, overlap>>

RefreshLoad(p) ==
    /\ auth[p].pc = "load"
    /\ IF auth[p].user \in blocked
       THEN Step(p, SessIdle)
       ELSE auth' = [auth EXCEPT ![p].pc = "rotate"]
    /\ UNCHANGED <<blocked, pin, tokens, guesses, overlap>>

\* (Mutant: a refresh that found its token revoked the others already.)
RevokeTokenThenInsert(p) ==
    /\ auth[p].pc \in {"rotate", "logout"}
    /\ tokens' = [tokens EXCEPT ![auth[p].token] = Null]
    /\ IF auth[p].pc = "rotate"
       THEN Step(p, At("insert", auth[p].user))
       ELSE Step(p, SessIdle)
    /\ UNCHANGED <<blocked, pin, guesses, overlap>>

\* revokeToken does not look at what it found: of two refreshes with one
\* token both go on.
RevokeToken(p) ==
    /\ auth[p].pc \in {"rotate", "logout"}
    /\ tokens' = [tokens EXCEPT ![auth[p].token] = Null]
    /\ IF auth[p].pc = "rotate"
       THEN Step(p, At("revoke_all", auth[p].user))
       ELSE Step(p, SessIdle)
    /\ UNCHANGED <<blocked, pin, guesses, overlap>>

RevokeAllForUser(p) ==
    LET u == auth[p].user
    IN  /\ auth[p].pc \in {"revoke_all", "sign_out"}
        /\ tokens' = [t \in RefreshTokens |-> IF tokens[t] = u THEN Null ELSE tokens[t]]
        /\ IF auth[p].pc = "revoke_all"
           THEN Step(p, At("insert", u))
           ELSE Step(p, SessIdle)
        /\ overlap' = [overlap EXCEPT ![u] =
                         Cardinality({q \in Procs : auth'[q].pc = "insert"
                                                    /\ auth'[q].user = u})]
        /\ UNCHANGED <<blocked, pin, guesses>>

\* No request holds the new token yet.
FreshRefreshToken(t) ==
    /\ tokens[t] = Null
    /\ \A q \in Procs : auth[q].pc \in {"load", "rotate", "logout"} => auth[q].token # t

InsertRefreshToken(p, t) ==
    /\ auth[p].pc = "insert"
    /\ FreshRefreshToken(t)
    /\ tokens' = [tokens EXCEPT ![t] = auth[p].user]
    /\ Step(p, SessIdle)
    /\ UNCHANGED <<blocked, pin, guesses, overlap>>

\* A token that is not the caller's, or is no longer active, signs out
\* everywhere.
Logout(p, u, t) ==
    /\ auth[p] = SessIdle
    /\ u \notin blocked
    /\ IF tokens[t] = u
       THEN Step(p, [pc |-> "logout", user |-> u, token |-> t])
       ELSE Step(p, At("sign_out", u))
    /\ UNCHANGED <<blocked, pin, tokens, guesses, overlap>>

LogoutAll(p, u) ==
    /\ auth[p] = SessIdle
    /\ u \notin blocked
    /\ Step(p, At("sign_out", u))
    /\ UNCHANGED <<blocked, pin, tokens, guesses, overlap>>

TokenExpires(t) ==
    /\ tokens[t] # Null
    /\ tokens' = [tokens EXCEPT ![t] = Null]
    /\ UNCHANGED <<blocked, pin, auth, guesses, overlap>>

-----------------------------------------------------------------------------
\* Moderation and deletion (module Onboarding) change whether an account may
\* authenticate, at any time and without a look at its sessions.
AccountChanges(u) ==
    /\ blocked' = IF u \in blocked THEN blocked \ {u} ELSE blocked \cup {u}
    /\ UNCHANGED <<pin, tokens, auth, guesses, overlap>>

\* The request dies; its statements so far are committed.
SessDie(p) ==
    /\ auth[p] # SessIdle
    /\ Step(p, SessIdle)
    /\ UNCHANGED <<blocked, pin, tokens, guesses, overlap>>

SessNext ==
    \/ \E p \in Procs :
          \/ \E u \in Users :
                \/ \E why \in {"login", "change"} : PinStart(p, u, why)
                \/ SetPinStart(p, u)
                \/ \E t \in RefreshTokens : Logout(p, u, t)
                \/ LogoutAll(p, u)
          \/ ComparePin(p) \/ RecordPinFailure(p) \/ ClearPinFailures(p) \/ SetPin(p)
          \/ RefreshLoad(p) \/ RevokeToken(p) \/ RevokeAllForUser(p)
          \/ \E t \in RefreshTokens : RefreshStart(p, t) \/ InsertRefreshToken(p, t)
          \/ SessDie(p)
    \/ \E u \in Users : LockRunsOut(u) \/ AccountChanges(u)
    \/ \E t \in RefreshTokens : TokenExpires(t)

SessSpec == SessInit /\ [][SessNext]_sessVars

-----------------------------------------------------------------------------
(* Properties.                                                             *)

\* A sign-in ends every earlier session, except those of sign-ins that were
\* between its two statements: the most that is true of "one active refresh
\* token per user (single session)", which holds when sign-ins do not overlap.
SessionPerSignIn ==
    \A u \in Users :
        Cardinality({t \in RefreshTokens : tokens[t] = u}) <= overlap[u]

\* However the guesses of concurrent requests interleave with the check of
\* the lock, which precedes the comparison, at most PIN_MAX_ATTEMPTS - 1 wrong
\* guesses are answered, and one for each request in flight when the lock
\* falls, and again when it has run out.
GuessesAreBounded ==
    \A u \in Users :
        guesses[u].wrong <= PinMaxAttempts - 1
                            + Cardinality(Procs) * (1 + guesses[u].expiries)

=============================================================================

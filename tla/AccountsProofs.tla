--------------------------- MODULE AccountsProofs ---------------------------
(***************************************************************************)
(* Proofs about sign-in and the life of accounts, for any number of users, *)
(* requests, refresh tokens, documents, onboarding sessions and handles.   *)
(*                                                                         *)
(* Each of the counted properties of Sessions is made inductive by adding  *)
(* the requests on their way to what has been counted: the tokens of a     *)
(* user and the sign-ins about to insert one; the wrong PINs answered and  *)
(* the requests past the check of the lock.  Onboarding rests on who owns  *)
(* an account: what a session row or a request took from an identity stays *)
(* true, because accounts keep their identity and no row is ever removed.  *)
(***************************************************************************)
EXTENDS MCAccounts, FiniteSetTheorems, TLAPS

-----------------------------------------------------------------------------
(* Sessions: types.                                                        *)

\* Values of a row of pin, and of guesses.
Pins == [failed: Nat, lock: {"none", "future", "past"}]
Guesses == [wrong: Nat, expiries: 0 .. MaxExpiries]

\* A request carries the fields its step reads.
LEMMA AuthKinds ==
    ASSUME SessTypeOK, NEW p \in Procs
    PROVE  /\ auth[p].pc \in PinSteps =>
                 /\ auth[p] \in [pc: PinSteps, why: {"login", "change"}, user: Users]
                 /\ auth[p].user \in Users
           /\ auth[p].pc \in {"load", "rotate", "logout"} =>
                 /\ auth[p] \in [pc: {"load", "rotate", "logout"}, user: Users,
                                 token: RefreshTokens]
                 /\ auth[p].user \in Users /\ auth[p].token \in RefreshTokens
           /\ auth[p].pc \in {"revoke_all", "insert", "sign_out"} => auth[p].user \in Users
<1>1. auth[p] \in AuthRequests
  BY DEF SessTypeOK
<1>2. CASE auth[p] = SessIdle
  BY <1>2 DEF SessIdle, PinSteps
<1>3. CASE auth[p] \in [pc: PinSteps, why: {"login", "change"}, user: Users]
  BY <1>3 DEF PinSteps
<1>4. CASE auth[p] \in [pc: {"load", "rotate", "logout"}, user: Users, token: RefreshTokens]
  BY <1>4 DEF PinSteps
<1>5. CASE auth[p] \in [pc: {"revoke_all", "insert", "sign_out"}, user: Users]
  BY <1>5 DEF PinSteps
<1> QED BY <1>1, <1>2, <1>3, <1>4, <1>5 DEF AuthRequests

\* Every step moves one request to a state that is one, or none.
LEMMA AuthMoves ==
    ASSUME SessTypeOK, [SessNext]_sessVars
    PROVE  \/ auth' = auth
           \/ \E p \in Procs, next \in AuthRequests : auth' = [auth EXCEPT ![p] = next]
<1> DEFINE Goal ==
           \/ auth' = auth
           \/ \E p \in Procs, next \in AuthRequests : auth' = [auth EXCEPT ![p] = next]
<1> SUFFICES Goal
  OBVIOUS
<1>0. SessIdle \in AuthRequests
  BY DEF AuthRequests
<1>1. ASSUME NEW p \in Procs,
             \/ RecordPinFailure(p) \/ SetPin(p) \/ SessDie(p)
      PROVE  Goal
  BY <1>0, <1>1 DEF RecordPinFailure, SetPin, SessDie, Step
<1>2. ASSUME NEW p \in Procs, NEW u \in Users, NEW pc \in {"revoke_all", "insert", "sign_out"},
             Step(p, At(pc, u))
      PROVE  Goal
  <2>1. At(pc, u) \in AuthRequests
    BY DEF AuthRequests, At
  <2> QED BY <1>2, <2>1 DEF Step
<1>3. ASSUME NEW p \in Procs, NEW u \in Users, NEW why \in {"login", "change"},
             NEW pc \in PinSteps, auth' = [auth EXCEPT ![p] = [pc |-> pc, why |-> why, user |-> u]]
      PROVE  Goal
  <2>1. [pc |-> pc, why |-> why, user |-> u] \in AuthRequests
    BY DEF AuthRequests
  <2> QED BY <1>3, <2>1
<1>4. ASSUME NEW p \in Procs, NEW u \in Users, NEW t \in RefreshTokens,
             NEW pc \in {"load", "rotate", "logout"},
             auth' = [auth EXCEPT ![p] = [pc |-> pc, user |-> u, token |-> t]]
      PROVE  Goal
  <2>1. [pc |-> pc, user |-> u, token |-> t] \in AuthRequests
    BY DEF AuthRequests
  <2> QED BY <1>4, <2>1
<1>5. ASSUME NEW p \in Procs, auth[p].pc \in PinSteps, NEW pc \in PinSteps,
             auth' = [auth EXCEPT ![p].pc = pc]
      PROVE  Goal
  <2>1. PICK u \in Users, why \in {"login", "change"} :
           auth[p] = [pc |-> auth[p].pc, why |-> why, user |-> u]
    BY <1>5, AuthKinds
  <2>2. [auth[p] EXCEPT !.pc = pc] = [pc |-> pc, why |-> why, user |-> u]
    BY <2>1
  <2>3. auth' = [auth EXCEPT ![p] = [pc |-> pc, why |-> why, user |-> u]]
    BY <1>5, <2>2
  <2> QED BY <1>3, <2>3
<1>6. ASSUME NEW p \in Procs, NEW u \in Users,
             \/ \E why \in {"login", "change"} : PinStart(p, u, why)
             \/ SetPinStart(p, u)
      PROVE  Goal
  BY <1>3, <1>6 DEF PinStart, SetPinStart, Step, PinSteps
<1>7. ASSUME NEW p \in Procs, ComparePin(p)
      PROVE  Goal
  BY <1>5, <1>7 DEF ComparePin, PinSteps
<1>8. ASSUME NEW p \in Procs, ClearPinFailures(p)
      PROVE  Goal
  <2>1. auth[p].user \in Users
    BY <1>8, AuthKinds DEF ClearPinFailures, PinSteps
  <2> QED BY <1>2, <1>5, <1>8, <2>1 DEF ClearPinFailures, PinSteps
<1>9. ASSUME NEW p \in Procs, NEW u \in Users, NEW t \in RefreshTokens, Logout(p, u, t)
      PROVE  Goal
  BY <1>2, <1>4, <1>9 DEF Logout, Step
<1>10. ASSUME NEW p \in Procs, NEW u \in Users, LogoutAll(p, u)
       PROVE  Goal
  BY <1>2, <1>10 DEF LogoutAll
<1>11. ASSUME NEW p \in Procs, RefreshLoad(p)
       PROVE  Goal
  <2>1. CASE Step(p, SessIdle)
    BY <1>0, <2>1 DEF Step
  <2>2. CASE auth' = [auth EXCEPT ![p].pc = "rotate"]
    <3>1. PICK u \in Users, t \in RefreshTokens :
             auth[p] = [pc |-> auth[p].pc, user |-> u, token |-> t]
      BY <1>11, AuthKinds DEF RefreshLoad
    <3>2. [auth[p] EXCEPT !.pc = "rotate"] = [pc |-> "rotate", user |-> u, token |-> t]
      BY <3>1
    <3>3. auth' = [auth EXCEPT ![p] = [pc |-> "rotate", user |-> u, token |-> t]]
      BY <2>2, <3>2
    <3> QED BY <1>4, <3>3
  <2> QED BY <1>11, <2>1, <2>2 DEF RefreshLoad
<1>12. ASSUME NEW p \in Procs, RevokeToken(p) \/ RevokeAllForUser(p)
       PROVE  Goal
  <2>1. auth[p].user \in Users
    BY <1>12, AuthKinds DEF RevokeToken, RevokeAllForUser
  <2>2. CASE Step(p, SessIdle)
    BY <1>0, <2>2 DEF Step
  <2> QED BY <1>2, <1>12, <2>1, <2>2 DEF RevokeToken, RevokeAllForUser
<1>13. ASSUME NEW p \in Procs, NEW t \in RefreshTokens, RefreshStart(p, t)
       PROVE  Goal
  <2>1. tokens[t] \in Users
    BY <1>13 DEF RefreshStart, SessTypeOK
  <2> QED BY <1>4, <1>13, <2>1 DEF RefreshStart, Step
<1>14. ASSUME NEW p \in Procs, NEW t \in RefreshTokens, InsertRefreshToken(p, t)
       PROVE  Goal
  BY <1>0, <1>14 DEF InsertRefreshToken, Step
<1>15. ASSUME \/ \E u \in Users : LockRunsOut(u) \/ AccountChanges(u)
              \/ \E t \in RefreshTokens : TokenExpires(t)
              \/ UNCHANGED sessVars
       PROVE  Goal
  BY <1>15 DEF LockRunsOut, AccountChanges, TokenExpires, sessVars
<1> HIDE DEF Goal
<1> QED
  BY <1>1, <1>6, <1>7, <1>8, <1>9, <1>10, <1>11, <1>12, <1>13, <1>14, <1>15 DEF SessNext

\* Every step keeps the types: the counters only grow by one or are cleared, a
\* lock that runs out stays within its bound, and a sign-in counts finitely many.
LEMMA SessTypeStep ==
    ASSUME SessTypeOK, [SessNext]_sessVars
    PROVE  SessTypeOK'
<1> DEFINE Goal == /\ blocked' \subseteq Users
                   /\ pin' \in [Users -> Pins]
                   /\ tokens' \in [RefreshTokens -> Users \cup {Null}]
                   /\ guesses' \in [Users -> Guesses]
                   /\ overlap' \in [Users -> Nat]
<1>1. /\ blocked \subseteq Users /\ pin \in [Users -> Pins]
      /\ tokens \in [RefreshTokens -> Users \cup {Null}]
      /\ guesses \in [Users -> Guesses] /\ overlap \in [Users -> Nat]
  BY DEF SessTypeOK, Pins, Guesses
<1>2. auth' \in [Procs -> AuthRequests]
  BY AuthMoves DEF SessTypeOK
<1>3. MaxExpiries \in Nat /\ NoFailures \in Pins /\ NoGuesses \in Guesses
  BY PinAssumption DEF NoFailures, NoGuesses, Pins, Guesses
<1>4. ASSUME NEW p \in Procs,
             \/ \E u \in Users :
                   \/ \E why \in {"login", "change"} : PinStart(p, u, why)
                   \/ SetPinStart(p, u)
                   \/ \E t \in RefreshTokens : Logout(p, u, t)
                   \/ LogoutAll(p, u)
             \/ ComparePin(p) \/ RefreshLoad(p) \/ SessDie(p)
             \/ \E t \in RefreshTokens : RefreshStart(p, t)
      PROVE  Goal
  BY <1>1, <1>4 DEF PinStart, SetPinStart, Logout, LogoutAll, ComparePin, RefreshLoad,
                    SessDie, RefreshStart
<1>5. ASSUME NEW p \in Procs, RecordPinFailure(p)
      PROVE  Goal
  <2>1. PICK u \in Users : u = auth[p].user
    BY <1>5, AuthKinds DEF RecordPinFailure, PinSteps
  <2>2. pin[u] \in Pins /\ guesses[u] \in Guesses
    BY <1>1
  <2>3. [failed |-> pin[u].failed + 1,
         lock |-> IF pin[u].failed + 1 >= PinMaxAttempts THEN "future" ELSE pin[u].lock] \in Pins
    BY <2>2 DEF Pins
  <2>4. [guesses[u] EXCEPT !.wrong = @ + 1] \in Guesses
    BY <2>2 DEF Guesses
  <2>5. pin' \in [Users -> Pins]
    BY <1>1, <1>5, <2>1, <2>3 DEF RecordPinFailure
  <2>6. guesses' \in [Users -> Guesses]
    BY <1>1, <1>5, <2>1, <2>4 DEF RecordPinFailure, Guessed
  <2> QED BY <1>1, <1>5, <2>5, <2>6 DEF RecordPinFailure
<1>6. ASSUME NEW p \in Procs, ClearPinFailures(p) \/ SetPin(p)
      PROVE  Goal
  BY <1>1, <1>3, <1>6 DEF ClearPinFailures, SetPin
<1>7. ASSUME NEW u \in Users, LockRunsOut(u)
      PROVE  Goal
  <2>1. pin[u] \in Pins /\ guesses[u] \in Guesses
    BY <1>1
  <2>2. [pin[u] EXCEPT !.lock = "past"] \in Pins
    BY <2>1 DEF Pins
  <2>3. [guesses[u] EXCEPT !.expiries = @ + 1] \in Guesses
    <3>1. guesses[u].expiries + 1 \in 0 .. MaxExpiries
      BY <1>3, <1>7, <2>1 DEF LockRunsOut, Guesses
    <3> QED BY <2>1, <3>1 DEF Guesses
  <2>4. pin' \in [Users -> Pins]
    BY <1>1, <1>7, <2>2 DEF LockRunsOut
  <2>5. guesses' \in [Users -> Guesses]
    BY <1>1, <1>7, <2>3 DEF LockRunsOut
  <2> QED BY <1>1, <1>7, <2>4, <2>5 DEF LockRunsOut
<1>8. ASSUME NEW p \in Procs, RevokeToken(p)
      PROVE  Goal
  BY <1>1, <1>8 DEF RevokeToken
<1>9. ASSUME NEW p \in Procs, RevokeAllForUser(p)
      PROVE  Goal
  <2> DEFINE signingIn(u) == {q \in Procs : auth'[q].pc = "insert" /\ auth'[q].user = u}
  <2>1. \A u : Cardinality(signingIn(u)) \in Nat
    <3>1. \A u : signingIn(u) \subseteq Procs
      OBVIOUS
    <3> QED BY <3>1, AccountsAssumption, FS_Subset, FS_CardinalityType
  <2>2. overlap' = [overlap EXCEPT ![auth[p].user] = Cardinality(signingIn(auth[p].user))]
    BY <1>9 DEF RevokeAllForUser
  <2> HIDE DEF signingIn
  <2>3. overlap' \in [Users -> Nat]
    BY <1>1, <2>1, <2>2
  <2> QED BY <1>1, <1>9, <2>3 DEF RevokeAllForUser
<1>10. ASSUME NEW p \in Procs, NEW t \in RefreshTokens, InsertRefreshToken(p, t)
       PROVE  Goal
  <2>1. auth[p].user \in Users
    BY <1>10, AuthKinds DEF InsertRefreshToken
  <2> QED BY <1>1, <1>10, <2>1 DEF InsertRefreshToken
<1>11. ASSUME \/ \E u \in Users : AccountChanges(u)
              \/ \E t \in RefreshTokens : TokenExpires(t)
              \/ UNCHANGED sessVars
       PROVE  Goal
  BY <1>1, <1>11 DEF AccountChanges, TokenExpires, sessVars
<1>12. Goal
  <2> HIDE DEF Goal
  <2> QED BY <1>4, <1>5, <1>6, <1>7, <1>8, <1>9, <1>10, <1>11 DEF SessNext
<1> QED BY <1>2, <1>12 DEF SessTypeOK, Pins, Guesses

-----------------------------------------------------------------------------
(* Sessions: one per sign-in.                                              *)

\* A user's active tokens, and the sign-ins about to insert one.
Active(u) == {t \in RefreshTokens : tokens[t] = u}
Inserting(u) == {p \in Procs : auth[p].pc = "insert" /\ auth[p].user = u}

\* The sign-ins that overlapped the last revocation have at most one token
\* each: it is there, or the request is about to insert it.
SignInsCounted ==
    \A u \in Users : Cardinality(Active(u)) + Cardinality(Inserting(u)) <= overlap[u]

\* Both are finite.
LEMMA TokensAreCounted ==
    ASSUME NEW u
    PROVE  /\ IsFiniteSet(Active(u)) /\ Cardinality(Active(u)) \in Nat
           /\ IsFiniteSet(Inserting(u)) /\ Cardinality(Inserting(u)) \in Nat
<1>1. /\ Active(u) \subseteq RefreshTokens /\ IsFiniteSet(RefreshTokens)
      /\ Inserting(u) \subseteq Procs /\ IsFiniteSet(Procs)
  BY AccountsAssumption, PinAssumption DEF Active, Inserting
<1> QED BY <1>1, FS_Subset, FS_CardinalityType

\* Every step keeps the count: only revokeAllForUser lets sign-ins be added, and
\* it ends all tokens; an insert turns a sign-in into a token.
LEMMA SignInsStep ==
    ASSUME SessTypeOK, SignInsCounted, [SessNext]_sessVars
    PROVE  SignInsCounted'
<1>1. overlap \in [Users -> Nat]
  BY DEF SessTypeOK
\* Tokens go and sign-ins are abandoned.
<1>2. ASSUME overlap' = overlap,
             \A u \in Users : Active(u)' \subseteq Active(u)
                             /\ Inserting(u)' \subseteq Inserting(u)
      PROVE  SignInsCounted'
  <2> SUFFICES ASSUME NEW u \in Users
               PROVE  Cardinality(Active(u)') + Cardinality(Inserting(u)') <= overlap'[u]
    BY DEF SignInsCounted
  <2>1. /\ Cardinality(Active(u)') \in Nat /\ Cardinality(Inserting(u)') \in Nat
        /\ Cardinality(Active(u)') <= Cardinality(Active(u))
        /\ Cardinality(Inserting(u)') <= Cardinality(Inserting(u))
    <3>1. Active(u)' \subseteq Active(u) /\ Inserting(u)' \subseteq Inserting(u)
      BY <1>2
    <3>2. IsFiniteSet(Active(u)) /\ IsFiniteSet(Inserting(u))
      BY TokensAreCounted
    <3>3. Cardinality(Active(u)') <= Cardinality(Active(u)) /\ IsFiniteSet(Active(u)')
      BY <3>1, <3>2, FS_Subset
    <3>4. Cardinality(Inserting(u)') <= Cardinality(Inserting(u)) /\ IsFiniteSet(Inserting(u)')
      BY <3>1, <3>2, FS_Subset
    <3> QED BY <3>3, <3>4, FS_CardinalityType
  <2> QED BY <1>1, <1>2, <2>1, TokensAreCounted DEF SignInsCounted
<1>3. ASSUME NEW p \in Procs, NEW next, auth' = [auth EXCEPT ![p] = next], next.pc # "insert"
      PROVE  \A u \in Users : Inserting(u)' \subseteq Inserting(u)
  BY <1>3 DEF Inserting, SessTypeOK
<1>4. ASSUME NEW p \in Procs, NEW t \in RefreshTokens, InsertRefreshToken(p, t)
      PROVE  SignInsCounted'
  <2>1. PICK v \in Users : v = auth[p].user
    BY <1>4, AuthKinds DEF InsertRefreshToken
  <2>2. v # Null /\ auth[p].pc = "insert" /\ tokens[t] = Null
    BY <1>4, AccountsAssumption DEF InsertRefreshToken, FreshRefreshToken
  <2>3. /\ tokens' = [tokens EXCEPT ![t] = v] /\ auth' = [auth EXCEPT ![p] = SessIdle]
        /\ overlap' = overlap
    BY <1>4, <2>1 DEF InsertRefreshToken, Step
  <2>4. /\ t \notin Active(v) /\ Active(v)' = Active(v) \cup {t}
        /\ p \in Inserting(v) /\ Inserting(v)' = Inserting(v) \ {p}
    BY <2>1, <2>2, <2>3 DEF Active, Inserting, SessTypeOK, SessIdle
  <2>5. \A u \in Users \ {v} : Active(u)' = Active(u) /\ Inserting(u)' = Inserting(u)
    <3> SUFFICES ASSUME NEW u \in Users \ {v}
                 PROVE  Active(u)' = Active(u) /\ Inserting(u)' = Inserting(u)
      OBVIOUS
    <3>1. u # Null /\ tokens'[t] # u /\ \A x \in RefreshTokens \ {t} : tokens'[x] = tokens[x]
      BY <2>3, AccountsAssumption DEF SessTypeOK
    <3>2. auth'[p].pc # "insert" /\ \A q \in Procs \ {p} : auth'[q] = auth[q]
      BY <2>3 DEF SessTypeOK, SessIdle
    <3> QED BY <2>1, <2>2, <3>1, <3>2 DEF Active, Inserting
  <2>6. /\ Cardinality(Active(v)') = Cardinality(Active(v)) + 1
        /\ Cardinality(Inserting(v)') = Cardinality(Inserting(v)) - 1
    <3>1. Cardinality(Active(v) \cup {t}) = Cardinality(Active(v)) + 1
      BY <2>4, TokensAreCounted, FS_AddElement
    <3>2. Cardinality(Inserting(v) \ {p}) = Cardinality(Inserting(v)) - 1
      BY <2>4, TokensAreCounted, FS_RemoveElement
    <3> QED BY <2>4, <3>1, <3>2
  <2>7. Cardinality(Active(v)') + Cardinality(Inserting(v)') <= overlap'[v]
    BY <1>1, <2>3, <2>6, TokensAreCounted DEF SignInsCounted
  <2>8. \A u \in Users \ {v} :
           Cardinality(Active(u)') + Cardinality(Inserting(u)') <= overlap'[u]
    BY <2>3, <2>5 DEF SignInsCounted
  <2> QED BY <2>7, <2>8 DEF SignInsCounted
<1>5. ASSUME NEW p \in Procs, RevokeAllForUser(p)
      PROVE  SignInsCounted'
  <2>1. PICK v \in Users : v = auth[p].user
    BY <1>5, AuthKinds DEF RevokeAllForUser
  <2>2. /\ tokens' = [t \in RefreshTokens |-> IF tokens[t] = v THEN Null ELSE tokens[t]]
        /\ overlap' = [overlap EXCEPT ![v] = Cardinality(Inserting(v)')]
        /\ \/ auth' = [auth EXCEPT ![p] = At("insert", v)]
           \/ auth' = [auth EXCEPT ![p] = SessIdle]
        /\ auth[p].pc # "insert"
    BY <1>5, <2>1 DEF RevokeAllForUser, Step, Inserting
  <2>3. Active(v)' = {}
    BY <2>2, AccountsAssumption DEF Active
  <2>4. Cardinality(Active(v)') + Cardinality(Inserting(v)') <= overlap'[v]
    <3>1. Inserting(v)' \subseteq Procs /\ IsFiniteSet(Procs)
      BY AccountsAssumption DEF Inserting
    <3>2. Cardinality(Inserting(v)') \in Nat
      BY <3>1, FS_Subset, FS_CardinalityType
    <3>3. overlap'[v] = Cardinality(Inserting(v)')
      BY <1>1, <2>2
    <3> QED BY <2>3, <3>2, <3>3, FS_EmptySet
  <2>5. ASSUME NEW u \in Users \ {v}
        PROVE  Cardinality(Active(u)') + Cardinality(Inserting(u)') <= overlap'[u]
    <3>1. Active(u)' = Active(u)
      BY <2>2, AccountsAssumption DEF Active
    <3>2. Inserting(u)' = Inserting(u)
      <4>1. \A q \in Procs \ {p} : auth'[q] = auth[q]
        BY <2>2 DEF SessTypeOK
      <4>2. auth'[p].pc # "insert" \/ auth'[p].user = v
        BY <2>2 DEF SessTypeOK, At, SessIdle
      <4>3. auth[p].pc # "insert"
        BY <2>2
      <4> QED BY <4>1, <4>2, <4>3 DEF Inserting
    <3> QED BY <1>1, <2>2, <3>1, <3>2 DEF SignInsCounted
  <2> QED BY <2>4, <2>5 DEF SignInsCounted
<1>6. ASSUME NEW p \in Procs, RevokeToken(p)
      PROVE  SignInsCounted'
  <2>1. \A u \in Users : Active(u)' \subseteq Active(u)
    BY <1>6, AccountsAssumption DEF RevokeToken, Active, SessTypeOK
  <2>2. \A u \in Users : Inserting(u)' \subseteq Inserting(u)
    BY <1>3, <1>6 DEF RevokeToken, Step, SessIdle, At
  <2> QED BY <1>2, <1>6, <2>1, <2>2 DEF RevokeToken
<1>7. ASSUME NEW t \in RefreshTokens, TokenExpires(t)
      PROVE  SignInsCounted'
  <2>1. \A u \in Users : Active(u)' \subseteq Active(u)
    BY <1>7, AccountsAssumption DEF TokenExpires, Active, SessTypeOK
  <2>2. \A u \in Users : Inserting(u)' \subseteq Inserting(u)
    BY <1>7 DEF TokenExpires, Inserting
  <2> QED BY <1>2, <1>7, <2>1, <2>2 DEF TokenExpires
\* The other steps are of requests that insert nothing.
<1>8. ASSUME NEW p \in Procs, auth[p].pc \in PinSteps, NEW pc \in PinSteps,
             auth' = [auth EXCEPT ![p].pc = pc]
      PROVE  \A u \in Users : Inserting(u)' \subseteq Inserting(u)
  <2>1. [auth[p] EXCEPT !.pc = pc].pc # "insert"
    BY <1>8, AuthKinds DEF PinSteps
  <2> QED BY <1>3, <1>8, <2>1
<1>9. ASSUME UNCHANGED <<tokens, overlap>>,
             \A u \in Users : Inserting(u)' \subseteq Inserting(u)
      PROVE  SignInsCounted'
  BY <1>2, <1>9 DEF Active
<1>10. ASSUME NEW p \in Procs, NEW u \in Users,
              \/ \E why \in {"login", "change"} : PinStart(p, u, why)
              \/ SetPinStart(p, u)
              \/ \E t \in RefreshTokens : Logout(p, u, t)
              \/ LogoutAll(p, u)
       PROVE  SignInsCounted'
  <2>1. UNCHANGED <<tokens, overlap>>
    BY <1>10 DEF PinStart, SetPinStart, Logout, LogoutAll
  <2>2. ASSUME NEW next, Step(p, next), next.pc # "insert"
        PROVE  SignInsCounted'
    BY <1>3, <1>9, <2>1, <2>2 DEF Step
  <2>3. ASSUME NEW why, PinStart(p, u, why)
        PROVE  SignInsCounted'
    <3>1. [pc |-> "compare", why |-> why, user |-> u].pc # "insert"
      OBVIOUS
    <3> QED BY <2>2, <2>3, <3>1 DEF PinStart
  <2>4. ASSUME SetPinStart(p, u)
        PROVE  SignInsCounted'
    <3>1. [pc |-> "set_pin", why |-> "change", user |-> u].pc # "insert"
      OBVIOUS
    <3> QED BY <2>2, <2>4, <3>1 DEF SetPinStart
  <2>5. At("sign_out", u).pc # "insert"
    BY DEF At
  <2>6. ASSUME NEW t, Logout(p, u, t)
        PROVE  SignInsCounted'
    <3>1. [pc |-> "logout", user |-> u, token |-> t].pc # "insert"
      OBVIOUS
    <3> QED BY <2>2, <2>5, <2>6, <3>1 DEF Logout
  <2> QED BY <1>10, <2>2, <2>3, <2>4, <2>5, <2>6 DEF LogoutAll
<1>11. ASSUME NEW p \in Procs, RecordPinFailure(p) \/ SetPin(p) \/ SessDie(p)
       PROVE  SignInsCounted'
  BY <1>3, <1>9, <1>11 DEF RecordPinFailure, SetPin, SessDie, Step, SessIdle
<1>12. ASSUME NEW p \in Procs, ComparePin(p)
       PROVE  SignInsCounted'
  BY <1>8, <1>9, <1>12 DEF ComparePin, PinSteps
<1>13. ASSUME NEW p \in Procs, ClearPinFailures(p)
       PROVE  SignInsCounted'
  BY <1>3, <1>8, <1>9, <1>13 DEF ClearPinFailures, PinSteps, Step, At
<1>14. ASSUME NEW p \in Procs, RefreshLoad(p)
       PROVE  SignInsCounted'
  <2>1. [auth[p] EXCEPT !.pc = "rotate"].pc # "insert"
    BY <1>14, AuthKinds DEF RefreshLoad
  <2>2. \A u \in Users : Inserting(u)' \subseteq Inserting(u)
    BY <1>3, <1>14, <2>1 DEF RefreshLoad, Step, SessIdle
  <2> QED BY <1>9, <1>14, <2>2 DEF RefreshLoad
<1>15. ASSUME NEW p \in Procs, NEW t \in RefreshTokens, RefreshStart(p, t)
       PROVE  SignInsCounted'
  <2> DEFINE next == [pc |-> "load", user |-> tokens[t], token |-> t]
  <2>1. next.pc # "insert"
    OBVIOUS
  <2>2. auth' = [auth EXCEPT ![p] = next] /\ UNCHANGED <<tokens, overlap>>
    BY <1>15 DEF RefreshStart, Step
  <2> HIDE DEF next
  <2> QED BY <1>3, <1>9, <2>1, <2>2
<1>16. ASSUME UNCHANGED <<tokens, auth, overlap>>
       PROVE  SignInsCounted'
  BY <1>9, <1>16 DEF Inserting
<1>17. ASSUME \/ \E u \in Users : LockRunsOut(u) \/ AccountChanges(u)
              \/ UNCHANGED sessVars
       PROVE  SignInsCounted'
  BY <1>16, <1>17 DEF LockRunsOut, AccountChanges, sessVars
<1> QED
  BY <1>4, <1>5, <1>6, <1>7, <1>10, <1>11, <1>12, <1>13, <1>14, <1>15, <1>17 DEF SessNext

-----------------------------------------------------------------------------
(* Sessions: wrong guesses.                                                *)

\* The requests past the check of the lock that may still answer a wrong PIN.
Guessing(u) == {p \in Procs : auth[p].pc \in {"compare", "fail"} /\ auth[p].user = u}

\* The wrong guesses that may be answered before the lock falls (again).
Allowed(u) == PinMaxAttempts - 1 + Cardinality(Procs) * guesses[u].expiries

\* The requests past the check of a lock are counted with the wrong guesses
\* that set it.
Counted(u) ==
    /\ pin[u].failed = guesses[u].wrong
    /\ pin[u].lock = "none"   => guesses[u].wrong <= PinMaxAttempts - 1
    /\ pin[u].lock = "past"   => guesses[u].wrong <= Allowed(u)
    /\ pin[u].lock = "future" =>
          guesses[u].wrong + Cardinality(Guessing(u)) <= Allowed(u) + Cardinality(Procs)

\* The same for every user.
GuessesCounted == \A u \in Users : Counted(u)

\* There are no more such requests than requests.
LEMMA RequestsAreCounted ==
    ASSUME NEW u
    PROVE  /\ IsFiniteSet(Guessing(u)) /\ Cardinality(Guessing(u)) \in Nat
           /\ Cardinality(Procs) \in Nat /\ Cardinality(Guessing(u)) <= Cardinality(Procs)
<1>1. Guessing(u) \subseteq Procs /\ IsFiniteSet(Procs)
  BY AccountsAssumption DEF Guessing
<1> QED BY <1>1, FS_Subset, FS_CardinalityType

\* One more lock allows one more guess for each request.
LEMMA AllowedGrows ==
    ASSUME NEW n \in Nat, NEW e \in Nat
    PROVE  n * e \in Nat /\ n * (1 + e) = n + n * e
OBVIOUS

\* What is allowed is at least what a user has before the first lock.
LEMMA AllowanceIsNumber ==
    ASSUME SessTypeOK, NEW u \in Users
    PROVE  Allowed(u) \in Nat /\ PinMaxAttempts - 1 <= Allowed(u)
<1>1. guesses[u].expiries \in Nat /\ Cardinality(Procs) \in Nat /\ PinMaxAttempts \in Nat \ {0}
  <2>1. guesses[u].expiries \in 0 .. MaxExpiries
    BY DEF SessTypeOK
  <2> QED BY <2>1, PinAssumption, RequestsAreCounted
<1>2. Cardinality(Procs) * guesses[u].expiries \in Nat
  BY <1>1, AllowedGrows
<1> QED BY <1>1, <1>2 DEF Allowed

\* A user whose counters do not change stays within them while no request joins
\* those past the check.
LEMMA FewerGuesses ==
    ASSUME SessTypeOK, NEW u \in Users, Counted(u),
           pin'[u] = pin[u], guesses'[u] = guesses[u],
           pin[u].lock = "future" => Guessing(u)' \subseteq Guessing(u)
    PROVE  Counted(u)'
<1>1. CASE pin[u].lock # "future"
  BY <1>1 DEF Counted, Allowed
<1>2. CASE pin[u].lock = "future"
  <2>1. Cardinality(Guessing(u)') <= Cardinality(Guessing(u)) /\ IsFiniteSet(Guessing(u)')
    BY <1>2, RequestsAreCounted, FS_Subset
  <2>2. Cardinality(Guessing(u)') \in Nat
    BY <2>1, FS_CardinalityType
  <2>3. guesses[u].wrong + Cardinality(Guessing(u)) <= Allowed(u) + Cardinality(Procs)
    BY <1>2 DEF Counted
  <2>4. /\ guesses[u].wrong \in Nat /\ Allowed(u) \in Nat
        /\ Cardinality(Procs) \in Nat /\ Cardinality(Guessing(u)) \in Nat
    BY AllowanceIsNumber, RequestsAreCounted DEF SessTypeOK
  <2>5. guesses[u].wrong + Cardinality(Guessing(u)') <= Allowed(u) + Cardinality(Procs)
    BY <2>1, <2>2, <2>3, <2>4
  <2>6. Allowed(u)' = Allowed(u)
    BY DEF Allowed
  <2> QED BY <1>2, <2>5, <2>6 DEF Counted
<1> QED BY <1>1, <1>2

\* Every step keeps the count: only an account that is not locked lets a request
\* past the check, and recordPinFailure takes one away for the guess it counts.
LEMMA GuessesStep ==
    ASSUME SessTypeOK, GuessesCounted, [SessNext]_sessVars
    PROVE  GuessesCounted'
<1>1. /\ pin \in [Users -> Pins] /\ guesses \in [Users -> Guesses]
      /\ auth \in [Procs -> AuthRequests]
  BY DEF SessTypeOK, Pins, Guesses
<1>2. ASSUME UNCHANGED <<pin, guesses>>,
             \A u \in Users : pin[u].lock = "future" => Guessing(u)' \subseteq Guessing(u)
      PROVE  GuessesCounted'
  BY <1>2, FewerGuesses DEF GuessesCounted
<1>3. ASSUME NEW p \in Procs, NEW next, next.pc \notin {"compare", "fail"},
             auth' = [auth EXCEPT ![p] = next]
      PROVE  \A u : Guessing(u)' \subseteq Guessing(u)
  BY <1>1, <1>3 DEF Guessing
<1>4. ASSUME NEW p \in Procs, NEW v \in Users, NEW next, next.pc \notin {"compare", "fail"},
             auth' = [auth EXCEPT ![p] = next],
             pin' = [pin EXCEPT ![v] = NoFailures], guesses' = [guesses EXCEPT ![v] = NoGuesses]
      PROVE  GuessesCounted'
  <2> SUFFICES ASSUME NEW u \in Users
               PROVE  Counted(u)'
    BY DEF GuessesCounted
  <2>1. CASE u = v
    <3>1. pin'[u] = NoFailures /\ guesses'[u] = NoGuesses
      BY <1>1, <1>4, <2>1
    <3> QED BY <3>1, PinAssumption DEF Counted, NoFailures, NoGuesses
  <2>2. CASE u # v
    <3>1. pin'[u] = pin[u] /\ guesses'[u] = guesses[u]
      BY <1>1, <1>4, <2>2
    <3>2. Guessing(u)' \subseteq Guessing(u)
      BY <1>3, <1>4
    <3> QED BY <3>1, <3>2, FewerGuesses DEF GuessesCounted
  <2> QED BY <2>1, <2>2
<1>5. ASSUME NEW p \in Procs, RecordPinFailure(p)
      PROVE  GuessesCounted'
  <2>1. PICK v \in Users : v = auth[p].user
    BY <1>5, AuthKinds DEF RecordPinFailure, PinSteps
  <2>2. /\ auth' = [auth EXCEPT ![p] = SessIdle] /\ auth[p].pc = "fail"
        /\ pin' = [pin EXCEPT ![v] =
                     [failed |-> pin[v].failed + 1,
                      lock |-> IF pin[v].failed + 1 >= PinMaxAttempts
                               THEN "future" ELSE pin[v].lock]]
        /\ guesses' = [guesses EXCEPT ![v].wrong = @ + 1]
    BY <1>5, <2>1 DEF RecordPinFailure, Step, Guessed
  <2>3. ASSUME NEW u \in Users \ {v}
        PROVE  Counted(u)'
    <3>1. pin'[u] = pin[u] /\ guesses'[u] = guesses[u]
      BY <1>1, <2>2
    <3>2. Guessing(u)' \subseteq Guessing(u)
      BY <1>3, <2>2 DEF SessIdle
    <3> QED BY <3>1, <3>2, FewerGuesses DEF GuessesCounted
  <2>4. Cardinality(Guessing(v)') = Cardinality(Guessing(v)) - 1
    <3>1. p \in Guessing(v) /\ Guessing(v)' = Guessing(v) \ {p}
      BY <1>1, <2>1, <2>2 DEF Guessing, SessIdle
    <3> QED BY <3>1, RequestsAreCounted, FS_RemoveElement
  <2>5. /\ guesses'[v].wrong = guesses[v].wrong + 1 /\ guesses'[v].expiries = guesses[v].expiries
        /\ pin'[v].failed = pin[v].failed + 1
        /\ pin[v].failed + 1 >= PinMaxAttempts => pin'[v].lock = "future"
        /\ pin[v].failed + 1 < PinMaxAttempts => pin'[v].lock = pin[v].lock
    <3>1. guesses[v] \in Guesses /\ pin[v].failed \in Nat
      BY <1>1 DEF Pins
    <3>2. guesses'[v].wrong = guesses[v].wrong + 1 /\ guesses'[v].expiries = guesses[v].expiries
      BY <1>1, <2>2, <3>1 DEF Guesses
    <3> QED BY <1>1, <2>2, <3>1, <3>2, PinAssumption
  <2>6. Allowed(v)' = Allowed(v)
    BY <2>5 DEF Allowed
  <2>7. Counted(v)'
    <3>1. /\ guesses[v].wrong \in Nat /\ Allowed(v) \in Nat /\ PinMaxAttempts - 1 <= Allowed(v)
          /\ PinMaxAttempts \in Nat
          /\ Cardinality(Procs) \in Nat /\ Cardinality(Guessing(v)) \in Nat
          /\ Cardinality(Guessing(v)) <= Cardinality(Procs)
      BY <1>1, PinAssumption, AllowanceIsNumber, RequestsAreCounted DEF Guesses
    <3>2. Counted(v) /\ pin[v].lock \in {"none", "past", "future"}
      BY <1>1 DEF GuessesCounted, Pins
    <3> QED BY <2>4, <2>5, <2>6, <3>1, <3>2 DEF Counted
  <2> QED BY <2>3, <2>7 DEF GuessesCounted
<1>6. ASSUME NEW v \in Users, LockRunsOut(v)
      PROVE  GuessesCounted'
  <2>1. /\ pin[v].lock = "future" /\ pin'[v].lock = "past" /\ pin'[v].failed = pin[v].failed
        /\ guesses'[v].wrong = guesses[v].wrong
        /\ guesses'[v].expiries = guesses[v].expiries + 1
    <3>1. pin[v] \in Pins /\ guesses[v] \in Guesses
      BY <1>1
    <3>2. pin'[v] = [pin[v] EXCEPT !.lock = "past"]
      BY <1>1, <1>6 DEF LockRunsOut
    <3>3. guesses'[v] = [guesses[v] EXCEPT !.expiries = @ + 1]
      BY <1>1, <1>6 DEF LockRunsOut
    <3>4. guesses'[v].wrong = guesses[v].wrong /\ guesses'[v].expiries = guesses[v].expiries + 1
      BY <3>1, <3>3 DEF Guesses
    <3> QED BY <1>6, <3>1, <3>2, <3>4 DEF Pins, LockRunsOut
  <2>2. Allowed(v)' = Allowed(v) + Cardinality(Procs)
    <3>1. /\ guesses[v].expiries \in Nat /\ Cardinality(Procs) \in Nat
          /\ PinMaxAttempts \in Nat
      BY <1>1, PinAssumption, RequestsAreCounted DEF Guesses
    <3>2. /\ Cardinality(Procs) * (guesses[v].expiries + 1)
             = Cardinality(Procs) + Cardinality(Procs) * guesses[v].expiries
          /\ Cardinality(Procs) * guesses[v].expiries \in Nat
      BY <3>1, AllowedGrows
    <3>3. Allowed(v)' = PinMaxAttempts - 1 + Cardinality(Procs) * (guesses[v].expiries + 1)
      BY <2>1 DEF Allowed
    <3> QED BY <3>1, <3>2, <3>3 DEF Allowed
  <2>3. Counted(v)'
    <3>1. guesses[v].wrong + Cardinality(Guessing(v)) <= Allowed(v) + Cardinality(Procs)
      BY <2>1 DEF GuessesCounted, Counted
    <3>2. /\ guesses[v].wrong \in Nat /\ Cardinality(Guessing(v)) \in Nat
          /\ Allowed(v) \in Nat /\ Cardinality(Procs) \in Nat
      BY <1>1, AllowanceIsNumber, RequestsAreCounted DEF Guesses
    <3>3. guesses'[v].wrong <= Allowed(v)'
      BY <2>1, <2>2, <3>1, <3>2
    <3> QED BY <2>1, <3>3 DEF GuessesCounted, Counted
  <2>4. ASSUME NEW u \in Users \ {v}
        PROVE  Counted(u)'
    <3>1. pin'[u] = pin[u] /\ guesses'[u] = guesses[u] /\ Guessing(u)' = Guessing(u)
      BY <1>1, <1>6 DEF LockRunsOut, Guessing
    <3> QED BY <3>1, FewerGuesses DEF GuessesCounted
  <2> QED BY <2>3, <2>4 DEF GuessesCounted
\* Only a request for an account that is not locked starts a comparison.
<1>7. ASSUME NEW p \in Procs, NEW v \in Users, NEW why, PinStart(p, v, why)
      PROVE  GuessesCounted'
  <2> DEFINE next == [pc |-> "compare", why |-> why, user |-> v]
  <2>1. auth' = [auth EXCEPT ![p] = next] /\ pin[v].lock # "future" /\ UNCHANGED <<pin, guesses>>
    BY <1>7 DEF PinStart, Step
  <2>2. \A u \in Users \ {v} : Guessing(u)' \subseteq Guessing(u)
    BY <1>1, <2>1 DEF Guessing
  <2> HIDE DEF next
  <2> QED BY <1>2, <2>1, <2>2
<1>8. ASSUME NEW p \in Procs, ComparePin(p)
      PROVE  GuessesCounted'
  <2>1. PICK pc \in {"clear", "fail"} : auth' = [auth EXCEPT ![p].pc = pc]
    BY <1>8 DEF ComparePin
  <2>2. auth[p].pc = "compare" /\ auth[p] \in [pc: PinSteps, why: {"login", "change"}, user: Users]
    BY <1>8, AuthKinds DEF ComparePin, PinSteps
  <2>3. auth'[p].user = auth[p].user /\ \A q \in Procs \ {p} : auth'[q] = auth[q]
    BY <1>1, <2>1, <2>2
  <2>4. \A u : Guessing(u)' \subseteq Guessing(u)
    BY <2>2, <2>3 DEF Guessing
  <2> QED BY <1>2, <1>8, <2>4 DEF ComparePin
<1>9. ASSUME NEW p \in Procs, NEW u \in Users,
             \/ SetPinStart(p, u)
             \/ \E t \in RefreshTokens : Logout(p, u, t)
             \/ LogoutAll(p, u)
      PROVE  GuessesCounted'
  <2>1. UNCHANGED <<pin, guesses>>
    BY <1>9 DEF SetPinStart, Logout, LogoutAll
  <2>2. ASSUME NEW next, Step(p, next), next.pc \notin {"compare", "fail"}
        PROVE  GuessesCounted'
    BY <1>2, <1>3, <2>1, <2>2 DEF Step
  <2>3. ASSUME SetPinStart(p, u)
        PROVE  GuessesCounted'
    <3>1. [pc |-> "set_pin", why |-> "change", user |-> u].pc \notin {"compare", "fail"}
      OBVIOUS
    <3> QED BY <2>2, <2>3, <3>1 DEF SetPinStart
  <2>4. At("sign_out", u).pc \notin {"compare", "fail"}
    BY DEF At
  <2>5. ASSUME NEW t, Logout(p, u, t)
        PROVE  GuessesCounted'
    <3>1. [pc |-> "logout", user |-> u, token |-> t].pc \notin {"compare", "fail"}
      OBVIOUS
    <3> QED BY <2>2, <2>4, <2>5, <3>1 DEF Logout
  <2> QED BY <1>9, <2>2, <2>3, <2>4, <2>5 DEF LogoutAll
<1>10. ASSUME NEW p \in Procs, ClearPinFailures(p)
       PROVE  GuessesCounted'
  <2>1. PICK v \in Users : v = auth[p].user
    BY <1>10, AuthKinds DEF ClearPinFailures, PinSteps
  <2>2. /\ pin' = [pin EXCEPT ![v] = NoFailures] /\ guesses' = [guesses EXCEPT ![v] = NoGuesses]
        /\ \/ auth' = [auth EXCEPT ![p] = At("revoke_all", v)]
           \/ auth' = [auth EXCEPT ![p] = [auth[p] EXCEPT !.pc = "set_pin"]]
    BY <1>10, <2>1 DEF ClearPinFailures, Step
  <2>3. At("revoke_all", v).pc \notin {"compare", "fail"}
    BY DEF At
  <2>4. [auth[p] EXCEPT !.pc = "set_pin"].pc \notin {"compare", "fail"}
    BY <1>10, AuthKinds DEF ClearPinFailures, PinSteps
  <2> QED BY <1>4, <2>2, <2>3, <2>4
<1>11. ASSUME NEW p \in Procs, SetPin(p)
       PROVE  GuessesCounted'
  <2>1. auth[p].user \in Users
    BY <1>11, AuthKinds DEF SetPin, PinSteps
  <2>2. SessIdle.pc \notin {"compare", "fail"}
    BY DEF SessIdle
  <2> QED BY <1>4, <1>11, <2>1, <2>2 DEF SetPin, Step
<1>12. ASSUME NEW p \in Procs, NEW next, auth' = [auth EXCEPT ![p] = next],
              next.pc \notin {"compare", "fail"}, UNCHANGED <<pin, guesses>>
       PROVE  GuessesCounted'
  BY <1>2, <1>3, <1>12
<1>13. ASSUME NEW p \in Procs,
              \/ RefreshLoad(p) \/ RevokeToken(p) \/ RevokeAllForUser(p) \/ SessDie(p)
              \/ \E t \in RefreshTokens : InsertRefreshToken(p, t)
       PROVE  GuessesCounted'
  <2>1. UNCHANGED <<pin, guesses>>
    BY <1>13 DEF RefreshLoad, RevokeToken, RevokeAllForUser, SessDie, InsertRefreshToken
  <2>2. SessIdle.pc \notin {"compare", "fail"}
        /\ \A u : At("revoke_all", u).pc \notin {"compare", "fail"}
        /\ \A v : At("insert", v).pc \notin {"compare", "fail"}
    BY DEF SessIdle, At
  <2>3. RefreshLoad(p) => [auth[p] EXCEPT !.pc = "rotate"].pc \notin {"compare", "fail"}
    BY AuthKinds DEF RefreshLoad
  <2>4. \/ auth' = [auth EXCEPT ![p] = SessIdle]
        \/ auth' = [auth EXCEPT ![p] = At("revoke_all", auth[p].user)]
        \/ auth' = [auth EXCEPT ![p] = At("insert", auth[p].user)]
        \/ RefreshLoad(p) /\ auth' = [auth EXCEPT ![p] = [auth[p] EXCEPT !.pc = "rotate"]]
    BY <1>13 DEF RefreshLoad, RevokeToken, RevokeAllForUser, SessDie, InsertRefreshToken, Step
  <2> QED BY <1>12, <2>1, <2>2, <2>3, <2>4
<1>14. ASSUME NEW p \in Procs, NEW t \in RefreshTokens, RefreshStart(p, t)
       PROVE  GuessesCounted'
  <2> DEFINE next == [pc |-> "load", user |-> tokens[t], token |-> t]
  <2>1. next.pc \notin {"compare", "fail"}
    OBVIOUS
  <2>2. auth' = [auth EXCEPT ![p] = next] /\ UNCHANGED <<pin, guesses>>
    BY <1>14 DEF RefreshStart, Step
  <2> HIDE DEF next
  <2> QED BY <1>12, <2>1, <2>2
<1>15. ASSUME \/ \E u \in Users : AccountChanges(u)
              \/ \E t \in RefreshTokens : TokenExpires(t)
              \/ UNCHANGED sessVars
       PROVE  GuessesCounted'
  <2>1. UNCHANGED <<pin, guesses, auth>>
    BY <1>15 DEF AccountChanges, TokenExpires, sessVars
  <2> QED BY <1>2, <2>1 DEF Guessing
<1> QED
  BY <1>5, <1>6, <1>7, <1>8, <1>9, <1>10, <1>11, <1>13, <1>14, <1>15 DEF SessNext

-----------------------------------------------------------------------------
(* Onboarding: the invariant.                                              *)

\* The account u is there and is of the identity of d.
Owns(u, d) == accounts[u] # Null /\ accounts[u].identity = d

\* Every account's identity has a row.
Anchored == \A u \in Users : accounts[u] # Null => identities[accounts[u].identity] # Null

\* The account an identity names as its current one is of this identity.
CurrentIsOwn ==
    \A d \in Docs :
        identities[d] # Null /\ identities[d].current # Null => Owns(identities[d].current, d)

\* What a session row or a request says of the account it found.
Verified(row) ==
    /\ row.doc # Null <=> row.branch # Null
    /\ row.matched # Null => row.doc # Null /\ Owns(row.matched, row.doc)

\* All rows do so.
SessionsAreVerified == \A s \in OnbSessions : onb[s] # Null => Verified(onb[s])

\* What a request goes by still holds: its session row is there, and the account
\* it read is of the document it goes by.
Founded(r) ==
    /\ r.pc \notin {"idle", "delete", "rename"} => onb[r.s] # Null
    /\ r.pc = "patch_verified" /\ r.matched # Null => Owns(r.matched, r.doc)
    /\ r.pc = "issue" => Owns(r.user, r.doc)
    /\ r.pc \in {"delete", "rename"} => accounts[r.user] # Null

\* All requests do so.
RequestsAreFounded == \A p \in Procs : Founded(work[p])

\* u is in the partial unique index for d.
Holds(u, d) == Owns(u, d) /\ HoldsIdentity(accounts[u].status)

\* The index has one entry for each identity.
SoleHolder == \A d \in Docs : \A u, v \in Users : Holds(u, d) /\ Holds(v, d) => u = v

\* Completions signed in to accounts of the document they verified.
SignInsAreOwn == \A x \in signedIn : Owns(x[2], x[1])

\* The inductive invariant of Onboarding.
OnbInv ==
    /\ OnbTypeOK
    /\ Anchored /\ CurrentIsOwn /\ SessionsAreVerified /\ RequestsAreFounded
    /\ SoleHolder /\ SignInsAreOwn

\* Accounts do not vanish or change hands, and no session row is removed.
Kept ==
    /\ \A u \in Users : accounts[u] # Null =>
          accounts'[u] # Null /\ accounts'[u].identity = accounts[u].identity
    /\ \A s \in OnbSessions : onb[s] # Null => onb'[s] # Null

\* A request carries the fields its step reads.
LEMMA RequestKinds ==
    ASSUME NEW r \in OnbRequests
    PROVE  /\ r.pc \notin {"idle", "delete", "rename"} => r.s \in OnbSessions
           /\ r.pc = "patch_status" => r.status \in OnbStatuses
           /\ r.pc \in {"classify", "patch_verified", "validate", "patch_handle",
                        "validate_again", "create", "issue"} => r.doc \in Docs
           /\ r.pc = "patch_verified" => r.branch \in Branches /\ r.matched \in Users \cup {Null}
           /\ r.pc \in {"validate", "patch_handle", "validate_again", "create"} =>
                 /\ r \in [pc: {"validate", "patch_handle", "validate_again", "create"},
                           s: OnbSessions, doc: Docs, branch: Branches, handle: Handles]
                 /\ r.branch \in Branches
           /\ r.pc \in {"validate", "patch_handle", "validate_again", "create", "rename"} =>
                 r.handle \in Handles
           /\ r.pc \in {"issue", "delete", "rename"} => r.user \in Users
<1>1. CASE r = OnbIdle
  BY <1>1 DEF OnbIdle
<1>2. CASE r \in [pc: {"patch_status"}, s: OnbSessions, status: OnbStatuses]
  BY <1>2
<1>3. CASE r \in [pc: {"classify"}, s: OnbSessions, doc: Docs]
  BY <1>3
<1>4. CASE r \in [pc: {"patch_verified"}, s: OnbSessions, doc: Docs, branch: Branches,
                  matched: Users \cup {Null}]
  BY <1>4
<1>5. CASE r \in [pc: {"validate", "patch_handle", "validate_again", "create"}, s: OnbSessions,
                  doc: Docs, branch: Branches, handle: Handles]
  BY <1>5
<1>6. CASE r \in [pc: {"issue"}, s: OnbSessions, doc: Docs, user: Users]
  BY <1>6
<1>7. CASE r \in [pc: {"mark"}, s: OnbSessions]
  BY <1>7
<1>8. CASE r \in [pc: {"delete"}, user: Users]
  BY <1>8
<1>9. CASE r \in [pc: {"rename"}, user: Users, handle: Handles]
  BY <1>9
<1> QED
  BY <1>1, <1>2, <1>3, <1>4, <1>5, <1>6, <1>7, <1>8, <1>9 DEF OnbRequests

\* What was somebody's stays his.
LEMMA OwnsStays ==
    ASSUME Kept, NEW u \in Users, NEW d, Owns(u, d)
    PROVE  Owns(u, d)'
BY DEF Kept, Owns

\* What a request goes by is not taken away by others.
LEMMA FoundedStays ==
    ASSUME Kept, NEW r \in OnbRequests, Founded(r)
    PROVE  Founded(r)'
<1>1. r.pc \notin {"idle", "delete", "rename"} => onb'[r.s] # Null
  BY RequestKinds DEF Kept, Founded
<1>2. r.pc = "patch_verified" /\ r.matched # Null => Owns(r.matched, r.doc)'
  BY RequestKinds, OwnsStays DEF Founded
<1>3. r.pc = "issue" => Owns(r.user, r.doc)'
  BY RequestKinds, OwnsStays DEF Founded
<1>4. r.pc \in {"delete", "rename"} => accounts'[r.user] # Null
  BY RequestKinds DEF Kept, Founded
<1> QED BY <1>1, <1>2, <1>3, <1>4 DEF Founded

\* A request may move to any state that is founded.
LEMMA WorkMove ==
    ASSUME OnbInv, Kept, NEW p \in Procs, NEW r \in OnbRequests, Founded(r)', Do(p, r)
    PROVE  work' \in [Procs -> OnbRequests] /\ RequestsAreFounded'
<1>1. work \in [Procs -> OnbRequests] /\ work' = [work EXCEPT ![p] = r]
  BY DEF OnbInv, OnbTypeOK, Do
<1>2. ASSUME NEW q \in Procs
      PROVE  Founded(work[q])'
  <2>1. PICK x \in OnbRequests : x = work'[q]
    BY <1>1
  <2>2. Founded(x)'
    <3>1. CASE q = p
      BY <1>1, <2>1, <3>1
    <3>2. CASE q # p
      <4>1. x = work[q]
        BY <1>1, <2>1, <3>2
      <4>2. Founded(x)
        BY <4>1 DEF OnbInv, RequestsAreFounded
      <4> QED BY <4>2, FoundedStays
    <3> QED BY <3>1, <3>2
  <2> QED BY <2>1, <2>2 DEF Founded, Owns
<1> QED BY <1>1, <1>2 DEF RequestsAreFounded

\* A request may end, or die, at any time.
LEMMA IdleIsFounded ==
    OnbIdle \in OnbRequests /\ Founded(OnbIdle) /\ Founded(OnbIdle)'
BY DEF OnbRequests, OnbIdle, Founded

\* Steps that only move a request.
LEMMA RequestStep ==
    ASSUME OnbInv, NEW p \in Procs, NEW r \in OnbRequests, Founded(r), Do(p, r),
           UNCHANGED <<identities, accounts, onb, signedIn, moderations>>
    PROVE  OnbInv'
<1>1. Kept
  BY DEF Kept
<1>2. Founded(r)'
  BY <1>1, FoundedStays
<1>3. work' \in [Procs -> OnbRequests] /\ RequestsAreFounded'
  BY <1>1, <1>2, WorkMove
<1>4. OnbTypeOK'
  BY <1>3 DEF OnbInv, OnbTypeOK
<1>5. Anchored' /\ CurrentIsOwn' /\ SoleHolder' /\ SignInsAreOwn'
  BY DEF OnbInv, Anchored, CurrentIsOwn, SoleHolder, SignInsAreOwn, Owns, Holds
<1>6. SessionsAreVerified'
  BY DEF OnbInv, SessionsAreVerified, Verified, Owns
<1> QED BY <1>3, <1>4, <1>5, <1>6 DEF OnbInv

\* Steps that write a session row.
LEMMA RowStep ==
    ASSUME OnbInv, NEW s \in OnbSessions, NEW row \in OnbRow, Verified(row),
           onb' = [onb EXCEPT ![s] = row],
           work' = work \/ \E p \in Procs : Do(p, OnbIdle),
           UNCHANGED <<identities, accounts, signedIn, moderations>>
    PROVE  OnbInv'
<1>1. onb \in [OnbSessions -> OnbRow \cup {Null}] /\ row # Null
  BY OnbRowsAssumption DEF OnbInv, OnbTypeOK
<1>2. Kept
  BY <1>1 DEF Kept
<1>3. work' \in [Procs -> OnbRequests] /\ RequestsAreFounded'
  <2>1. CASE work' = work
    <3>1. work \in [Procs -> OnbRequests]
      BY DEF OnbInv, OnbTypeOK
    <3>2. ASSUME NEW p \in Procs
          PROVE  Founded(work[p])'
      <4>1. PICK r \in OnbRequests : r = work[p]
        BY <3>1
      <4>2. Founded(r)'
        BY <1>2, <4>1, FoundedStays DEF OnbInv, RequestsAreFounded
      <4> QED BY <2>1, <4>1, <4>2 DEF Founded, Owns
    <3> QED BY <2>1, <3>1, <3>2 DEF RequestsAreFounded
  <2>2. CASE \E p \in Procs : Do(p, OnbIdle)
    BY <1>2, <2>2, WorkMove, IdleIsFounded
  <2> QED BY <2>1, <2>2
<1>4. onb' \in [OnbSessions -> OnbRow \cup {Null}]
  BY <1>1
<1>5. OnbTypeOK'
  BY <1>3, <1>4 DEF OnbInv, OnbTypeOK
<1>6. Anchored' /\ CurrentIsOwn' /\ SoleHolder' /\ SignInsAreOwn'
  BY DEF OnbInv, Anchored, CurrentIsOwn, SoleHolder, SignInsAreOwn, Owns, Holds
<1>7. SessionsAreVerified'
  <2> SUFFICES ASSUME NEW t \in OnbSessions, onb'[t] # Null
               PROVE  Verified(onb[t])'
    BY DEF SessionsAreVerified
  <2>1. CASE t = s
    BY <1>1, <2>1 DEF Verified, Owns
  <2>2. CASE t # s
    BY <1>1, <2>2 DEF OnbInv, SessionsAreVerified, Verified, Owns
  <2> QED BY <2>1, <2>2
<1> QED BY <1>3, <1>5, <1>6, <1>7 DEF OnbInv

\* What a session row holds.
LEMMA RowFields ==
    ASSUME OnbInv, NEW s \in OnbSessions, onb[s] # Null
    PROVE  /\ onb[s] \in OnbRow
           /\ onb[s].doc \in Docs \cup {Null} /\ onb[s].branch \in Branches \cup {Null}
           /\ onb[s].matched \in Users \cup {Null} /\ onb[s].handle \in Handles \cup {Null}
           /\ Verified(onb[s])
<1>1. onb[s] \in OnbRow
  BY DEF OnbInv, OnbTypeOK
<1> QED BY <1>1 DEF OnbRow, OnbInv, SessionsAreVerified

\* What is known of a request.
LEMMA RequestFields ==
    ASSUME OnbInv, NEW p \in Procs
    PROVE  work[p] \in OnbRequests /\ Founded(work[p])
BY DEF OnbInv, OnbTypeOK, RequestsAreFounded

\* The steps that read a session row, and those that read what it refers to.
LEMMA ReadStep ==
    ASSUME OnbInv, NEW p \in Procs, NEW s \in OnbSessions,
           \/ DigilockerStart(p, s) \/ LivenessStart(p, s) \/ LivenessComplete(p, s) \/ Match(p, s)
           \/ \E d \in Docs : Callback(p, s, d)
           \/ \E h \in Handles : ChooseHandle(p, s, h)
           \/ CompleteRecovery(p, s) \/ CompleteSignup(p, s)
    PROVE  OnbInv'
<1> DEFINE Rest == UNCHANGED <<identities, accounts, onb, signedIn, moderations>>
<1>1. onb[s] # Null /\ Rest
  BY DEF DigilockerStart, LivenessStart, LivenessComplete, Match, Callback, ChooseHandle,
         CompleteRecovery, CompleteSignup, Loads
<1>2. ASSUME NEW status \in OnbStatuses,
             Do(p, [pc |-> "patch_status", s |-> s, status |-> status])
      PROVE  OnbInv'
  <2> DEFINE r == [pc |-> "patch_status", s |-> s, status |-> status]
  <2>1. r \in OnbRequests
    BY DEF OnbRequests
  <2>2. Founded(r)
    BY <1>1 DEF Founded
  <2> HIDE DEF r
  <2> QED BY <1>1, <1>2, <2>1, <2>2, RequestStep DEF r
<1>3. ASSUME DigilockerStart(p, s) \/ LivenessStart(p, s) \/ LivenessComplete(p, s) \/ Match(p, s)
      PROVE  OnbInv'
  BY <1>2, <1>3 DEF DigilockerStart, LivenessStart, LivenessComplete, Match, OnbStatuses
<1>4. ASSUME NEW d \in Docs, Callback(p, s, d)
      PROVE  OnbInv'
  <2> DEFINE r == [pc |-> "classify", s |-> s, doc |-> d]
  <2>1. r \in OnbRequests /\ Do(p, r)
    BY <1>4 DEF OnbRequests, Callback
  <2>2. Founded(r)
    BY <1>1 DEF Founded
  <2> HIDE DEF r
  <2> QED BY <1>1, <2>1, <2>2, RequestStep
<1>5. ASSUME NEW h \in Handles, NEW pc \in {"validate", "validate_again"}, onb[s].doc # Null,
             Do(p, [pc |-> pc, s |-> s, doc |-> onb[s].doc, branch |-> onb[s].branch,
                    handle |-> h])
      PROVE  OnbInv'
  <2>1. PICK d \in Docs, b \in Branches : d = onb[s].doc /\ b = onb[s].branch
    BY <1>1, <1>5, RowFields DEF Verified
  <2> DEFINE r == [pc |-> pc, s |-> s, doc |-> d, branch |-> b, handle |-> h]
  <2>2. r \in OnbRequests /\ Do(p, r)
    BY <1>5, <2>1 DEF OnbRequests
  <2>3. Founded(r)
    BY <1>1 DEF Founded
  <2> HIDE DEF r
  <2> QED BY <1>1, <2>2, <2>3, RequestStep
<1>6. ASSUME NEW h \in Handles, ChooseHandle(p, s, h)
      PROVE  OnbInv'
  BY <1>5, <1>6 DEF ChooseHandle
<1>7. ASSUME CompleteRecovery(p, s)
      PROVE  OnbInv'
  <2>1. PICK d \in Docs, u \in Users : d = onb[s].doc /\ u = onb[s].matched /\ Owns(u, d)
    BY <1>1, <1>7, RowFields DEF CompleteRecovery, Verified
  <2> DEFINE r == [pc |-> "issue", s |-> s, doc |-> d, user |-> u]
  <2>2. r \in OnbRequests /\ Do(p, r)
    BY <1>7, <2>1 DEF OnbRequests, CompleteRecovery
  <2>3. Founded(r)
    BY <1>1, <2>1 DEF Founded
  <2> HIDE DEF r
  <2> QED BY <1>1, <2>2, <2>3, RequestStep
<1>8. ASSUME CompleteSignup(p, s)
      PROVE  OnbInv'
  <2>1. PICK h \in Handles : h = onb[s].handle
    BY <1>1, <1>8, RowFields DEF CompleteSignup
  <2>2. onb[s].branch # Null
    <3>1. Null \notin Proceedable(onb[s].purpose)
      <4>1. onb[s].purpose \in Purposes
        BY <1>1, RowFields DEF OnbRow
      <4>2. Proceedable(onb[s].purpose) \subseteq Branches
        BY <4>1 DEF Proceedable, Purposes, Branches
      <4> QED BY <4>2, OnbRowsAssumption
    <3> QED BY <1>8, <3>1 DEF CompleteSignup
  <2>3. onb[s].doc # Null
    BY <1>1, <2>2, RowFields DEF Verified
  <2> QED BY <1>5, <1>8, <2>1, <2>3 DEF CompleteSignup
<1> QED BY <1>3, <1>4, <1>6, <1>7, <1>8

\* classify takes the account from the identity, which names its own.
LEMMA ClassifyStep ==
    ASSUME OnbInv, NEW p \in Procs, Classify(p)
    PROVE  OnbInv'
<1>1. PICK s \in OnbSessions, d \in Docs : s = work[p].s /\ d = work[p].doc /\ onb[s] # Null
  BY RequestFields, RequestKinds DEF Classify, Founded
<1>2. PICK b \in Branches, m \in Users \cup {Null} :
         /\ b = IF identities[d] = Null THEN "new" ELSE identities[d].status
         /\ m = IF identities[d] = Null THEN Null ELSE identities[d].current
  BY DEF OnbInv, OnbTypeOK, IdentityRow, Branches
<1>3. m # Null => Owns(m, d)
  BY <1>2 DEF OnbInv, CurrentIsOwn
<1> DEFINE r == [pc |-> "patch_verified", s |-> s, doc |-> d, branch |-> b, matched |-> m]
<1>4. Do(p, r) /\ UNCHANGED <<identities, accounts, onb, signedIn, moderations>>
  BY <1>1, <1>2 DEF Classify
<1>5. r \in OnbRequests /\ Founded(r)
  BY <1>1, <1>3 DEF OnbRequests, Founded
<1> HIDE DEF r
<1> QED BY <1>4, <1>5, RequestStep

\* Validating a handle moves the request on or ends it.
LEMMA ValidateStep ==
    ASSUME OnbInv, NEW p \in Procs, ValidateHandle(p) \/ ValidateAgain(p)
    PROVE  OnbInv'
<1>1. UNCHANGED <<identities, accounts, onb, signedIn, moderations>>
  BY DEF ValidateHandle, ValidateAgain
<1>2. CASE Do(p, OnbIdle)
  BY <1>1, <1>2, RequestStep, IdleIsFounded
<1>3. ASSUME NEW pc \in {"patch_handle", "create"}, work' = [work EXCEPT ![p].pc = pc]
      PROVE  OnbInv'
  <2>1. /\ work[p] \in [pc: {"validate", "patch_handle", "validate_again", "create"},
                        s: OnbSessions, doc: Docs, branch: Branches, handle: Handles]
        /\ onb[work[p].s] # Null
    BY RequestFields, RequestKinds DEF ValidateHandle, ValidateAgain, Founded
  <2>2. PICK s \in OnbSessions, d \in Docs, b \in Branches, h \in Handles :
           /\ work[p] = [pc |-> work[p].pc, s |-> s, doc |-> d, branch |-> b, handle |-> h]
           /\ onb[s] # Null
    BY <2>1
  <2> DEFINE r == [pc |-> pc, s |-> s, doc |-> d, branch |-> b, handle |-> h]
  <2>3. [work[p] EXCEPT !.pc = pc] = r
    BY <2>2
  <2>4. Do(p, r)
    BY <1>3, <2>3 DEF Do
  <2>5. r \in OnbRequests /\ Founded(r)
    BY <2>2 DEF OnbRequests, Founded
  <2> HIDE DEF r
  <2> QED BY <1>1, <2>4, <2>5, RequestStep
<1> QED BY <1>2, <1>3 DEF ValidateHandle, ValidateAgain

\* A patch writes what the request found, which is still so, over whatever the
\* row has become.
LEMMA PatchStep ==
    ASSUME OnbInv, NEW p \in Procs,
           PatchStatus(p) \/ PatchVerified(p) \/ PatchHandle(p) \/ MarkCompleted(p)
    PROVE  OnbInv'
<1>1. /\ Do(p, OnbIdle) /\ UNCHANGED <<identities, accounts, signedIn, moderations>>
      /\ work[p] \in OnbRequests /\ Founded(work[p])
  BY RequestFields DEF PatchStatus, PatchVerified, PatchHandle, MarkCompleted
<1>2. PICK s \in OnbSessions : s = work[p].s /\ onb[s] # Null
  BY <1>1, RequestKinds DEF PatchStatus, PatchVerified, PatchHandle, MarkCompleted, Founded
<1>3. onb[s] \in OnbRow /\ Verified(onb[s])
  BY <1>2, RowFields
<1>4. ASSUME NEW status \in OnbStatuses, onb' = [onb EXCEPT ![s].status = status]
      PROVE  OnbInv'
  <2>1. PICK row : row = [onb[s] EXCEPT !.status = status]
    OBVIOUS
  <2>2. row \in OnbRow /\ Verified(row)
    BY <1>3, <2>1 DEF OnbRow, Verified
  <2> QED BY <1>1, <1>4, <2>1, <2>2, RowStep
<1>5. ASSUME PatchHandle(p)
      PROVE  OnbInv'
  <2>1. PICK h \in Handles : h = work[p].handle
    BY <1>1, <1>5, RequestKinds DEF PatchHandle
  <2>2. PICK row : row = [onb[s] EXCEPT !.handle = h]
    OBVIOUS
  <2>3. row \in OnbRow /\ Verified(row)
    BY <1>3, <2>2 DEF OnbRow, Verified
  <2>4. onb' = [onb EXCEPT ![s] = row]
    BY <1>2, <1>5, <2>1, <2>2 DEF PatchHandle
  <2> QED BY <1>1, <2>3, <2>4, RowStep
<1>6. ASSUME PatchVerified(p)
      PROVE  OnbInv'
  <2>1. PICK d \in Docs, b \in Branches, m \in Users \cup {Null} :
           /\ d = work[p].doc /\ b = work[p].branch /\ m = work[p].matched
           /\ m # Null => Owns(m, d)
    BY <1>1, <1>6, RequestKinds DEF PatchVerified, Founded
  <2>2. PICK row : row = [onb[s] EXCEPT !.status = "digilocker_verified", !.doc = d,
                                        !.branch = b, !.matched = m]
    OBVIOUS
  <2>3. d # Null /\ b # Null
    BY OnboardingAssumption, OnbRowsAssumption
  <2>4. row \in OnbRow
    BY <1>3, <2>2 DEF OnbRow, OnbStatuses
  <2>5. row.doc = d /\ row.branch = b /\ row.matched = m
    BY <1>3, <2>2 DEF OnbRow
  <2>6. Verified(row)
    BY <2>1, <2>3, <2>5 DEF Verified
  <2>7. onb' = [onb EXCEPT ![s] = row]
    BY <1>2, <1>6, <2>1, <2>2 DEF PatchVerified
  <2> QED BY <1>1, <2>4, <2>6, <2>7, RowStep
<1>7. ASSUME PatchStatus(p) \/ MarkCompleted(p)
      PROVE  OnbInv'
  <2>1. PatchStatus(p) => work[p].status \in OnbStatuses
    BY <1>1, RequestKinds DEF PatchStatus
  <2> QED BY <1>2, <1>4, <1>7, <2>1 DEF PatchStatus, MarkCompleted, OnbStatuses
<1> QED BY <1>5, <1>6, <1>7

\* A new session has verified nothing.
LEMMA StartStep ==
    ASSUME OnbInv, NEW s \in OnbSessions, NEW purpose \in Purposes, OnbStart(s, purpose)
    PROVE  OnbInv'
<1> DEFINE row == [purpose |-> purpose, status |-> "device_checked", doc |-> Null,
                   branch |-> Null, matched |-> Null, handle |-> Null]
<1>1. row \in OnbRow /\ Verified(row)
  BY DEF OnbRow, OnbStatuses, Verified
<1>2. /\ onb' = [onb EXCEPT ![s] = row] /\ work' = work
      /\ UNCHANGED <<identities, accounts, signedIn, moderations>>
  BY DEF OnbStart
<1> HIDE DEF row
<1> QED BY <1>1, <1>2, RowStep

\* issueSession signs in to the account the request goes by.
LEMMA IssueStep ==
    ASSUME OnbInv, NEW p \in Procs, IssueSession(p)
    PROVE  OnbInv'
<1>1. PICK s \in OnbSessions, d \in Docs, u \in Users :
         s = work[p].s /\ d = work[p].doc /\ u = work[p].user /\ onb[s] # Null /\ Owns(u, d)
  BY RequestFields, RequestKinds DEF IssueSession, Founded
<1> DEFINE r == [pc |-> "mark", s |-> s]
<1>2. /\ signedIn' = signedIn \cup {<<d, u>>} /\ Do(p, r)
      /\ UNCHANGED <<identities, accounts, onb, moderations>>
  BY <1>1 DEF IssueSession
<1>3. r \in OnbRequests /\ Founded(r)
  BY <1>1 DEF OnbRequests, Founded
<1> HIDE DEF r
<1>4. Kept
  BY <1>2 DEF Kept
<1>5. work' \in [Procs -> OnbRequests] /\ RequestsAreFounded'
  BY <1>2, <1>3, <1>4, FoundedStays, WorkMove
<1>6. OnbTypeOK'
  BY <1>2, <1>5 DEF OnbInv, OnbTypeOK
<1>7. SignInsAreOwn'
  BY <1>1, <1>2 DEF OnbInv, SignInsAreOwn, Owns
<1>8. Anchored' /\ CurrentIsOwn' /\ SoleHolder'
  BY <1>2 DEF OnbInv, Anchored, CurrentIsOwn, SoleHolder, Owns, Holds
<1>9. SessionsAreVerified'
  BY <1>2 DEF OnbInv, SessionsAreVerified, Verified, Owns
<1> QED BY <1>5, <1>6, <1>7, <1>8, <1>9 DEF OnbInv

\* Requests that die, and those of signed-in users that start.
LEMMA OtherRequestStep ==
    ASSUME OnbInv, NEW p \in Procs,
           \/ OnbDie(p)
           \/ \E u \in Users : DeleteStart(p, u) \/ \E h \in Handles : RenameStart(p, u, h)
    PROVE  OnbInv'
<1>1. UNCHANGED <<identities, accounts, onb, signedIn, moderations>>
  BY DEF OnbDie, DeleteStart, RenameStart
<1>2. CASE OnbDie(p)
  BY <1>1, <1>2, RequestStep, IdleIsFounded DEF OnbDie
<1>3. ASSUME NEW u \in Users, DeleteStart(p, u)
      PROVE  OnbInv'
  <2> DEFINE r == [pc |-> "delete", user |-> u]
  <2>1. r \in OnbRequests /\ Founded(r) /\ Do(p, r)
    BY <1>3 DEF OnbRequests, Founded, DeleteStart, SignedInAs
  <2> HIDE DEF r
  <2> QED BY <1>1, <2>1, RequestStep
<1>4. ASSUME NEW u \in Users, NEW h \in Handles, RenameStart(p, u, h)
      PROVE  OnbInv'
  <2> DEFINE r == [pc |-> "rename", user |-> u, handle |-> h]
  <2>1. r \in OnbRequests /\ Founded(r) /\ Do(p, r)
    BY <1>4 DEF OnbRequests, Founded, RenameStart, SignedInAs
  <2> HIDE DEF r
  <2> QED BY <1>1, <2>1, RequestStep
<1> QED BY <1>2, <1>3, <1>4

\* Steps that write users and identities.
LEMMA AccountStep ==
    ASSUME OnbInv, Kept, UNCHANGED <<onb, signedIn>>,
           identities' \in [Docs -> IdentityRow \cup {Null}],
           accounts' \in [Users -> AccountRow \cup {Null}],
           work' \in [Procs -> OnbRequests], RequestsAreFounded',
           moderations' \in 0 .. MaxModerations,
           Anchored', CurrentIsOwn', SoleHolder'
    PROVE  OnbInv'
<1>1. OnbTypeOK'
  BY DEF OnbInv, OnbTypeOK
<1>2. SessionsAreVerified'
  <2> SUFFICES ASSUME NEW s \in OnbSessions, onb[s] # Null
               PROVE  Verified(onb[s])'
    BY DEF SessionsAreVerified
  <2>1. /\ Verified(onb[s])
        /\ onb[s].matched \in Users \cup {Null}
    BY RowFields
  <2>2. onb[s].matched # Null => Owns(onb[s].matched, onb[s].doc)'
    BY <2>1, OwnsStays DEF Verified
  <2> QED BY <2>1, <2>2 DEF Verified
<1>3. SignInsAreOwn'
  <2> SUFFICES ASSUME NEW x \in signedIn
               PROVE  Owns(x[2], x[1])'
    BY DEF SignInsAreOwn
  <2>1. x[2] \in Users /\ Owns(x[2], x[1])
    BY DEF OnbInv, OnbTypeOK, SignInsAreOwn
  <2> QED BY <2>1, OwnsStays
<1> QED BY <1>1, <1>2, <1>3 DEF OnbInv

\* Changes of an account's status or handle leave its identity.
LEMMA AccountRowChanges ==
    ASSUME NEW row \in AccountRow, NEW status \in Statuses, NEW h \in AllHandles
    PROVE  /\ [row EXCEPT !.status = status] \in AccountRow
           /\ [row EXCEPT !.status = status].identity = row.identity
           /\ [row EXCEPT !.status = status].status = status
           /\ [row EXCEPT !.handle = h] \in AccountRow
           /\ [row EXCEPT !.handle = h].identity = row.identity
           /\ [row EXCEPT !.handle = h].status = row.status
           /\ [row EXCEPT !.status = status, !.handle = h] \in AccountRow
           /\ [row EXCEPT !.status = status, !.handle = h].identity = row.identity
           /\ [row EXCEPT !.status = status, !.handle = h].status = status
           /\ [row EXCEPT !.handle = h, !.renamed = TRUE] \in AccountRow
           /\ [row EXCEPT !.handle = h, !.renamed = TRUE].identity = row.identity
           /\ [row EXCEPT !.handle = h, !.renamed = TRUE].status = row.status
BY DEF AccountRow

\* What is known of the rows of users and identities.
LEMMA AccountFields ==
    ASSUME OnbInv
    PROVE  /\ accounts \in [Users -> AccountRow \cup {Null}]
           /\ identities \in [Docs -> IdentityRow \cup {Null}]
           /\ Null \notin AccountRow /\ Null \notin IdentityRow
           /\ \A u \in Users : accounts[u] # Null =>
                 /\ accounts[u] \in AccountRow /\ accounts[u].identity \in Docs
                 /\ accounts[u].handle \in AllHandles
                 /\ identities[accounts[u].identity] # Null
BY OnbRowsAssumption DEF OnbInv, OnbTypeOK, Anchored, AccountRow

\* softDeleteAccount gives up the place in the index.
LEMMA DeleteStep ==
    ASSUME OnbInv, NEW p \in Procs, SoftDelete(p)
    PROVE  OnbInv'
<1>1. PICK u \in Users : u = work[p].user /\ accounts[u] # Null
  BY RequestFields, RequestKinds DEF SoftDelete, Founded
<1>2. PICK d \in Docs, h \in AllHandles :
         d = accounts[u].identity /\ h = accounts[u].handle /\ identities[d] # Null
  BY <1>1, AccountFields
<1>3. PICK row : row = [accounts[u] EXCEPT !.status = "self_deleted", !.handle = Tombstone]
  OBVIOUS
<1>4. row \in AccountRow /\ row.identity = d /\ row.status = "self_deleted" /\ row # Null
  <2>1. accounts[u] \in AccountRow /\ "self_deleted" \in Statuses /\ Tombstone \in AllHandles
    BY <1>1, AccountFields DEF Statuses, AllHandles
  <2>2. row \in AccountRow /\ row.identity = accounts[u].identity /\ row.status = "self_deleted"
    BY <1>3, <2>1, AccountRowChanges
  <2> QED BY <1>2, <2>2, AccountFields
<1> DEFINE idRow == [status |-> "self_deleted", current |-> Null, lastHandle |-> h]
<1>5. idRow \in IdentityRow /\ idRow.current = Null /\ idRow # Null
  BY OnbRowsAssumption DEF IdentityRow
<1>6. /\ accounts' = [accounts EXCEPT ![u] = row]
      /\ identities' = [identities EXCEPT ![d] = idRow]
      /\ Do(p, OnbIdle) /\ UNCHANGED <<onb, signedIn, moderations>>
  BY <1>1, <1>2, <1>3 DEF SoftDelete
<1> HIDE DEF idRow
<1>7. Kept
  BY <1>2, <1>4, <1>6, AccountFields DEF Kept
<1>8. /\ accounts' \in [Users -> AccountRow \cup {Null}]
      /\ identities' \in [Docs -> IdentityRow \cup {Null}]
      /\ moderations' \in 0 .. MaxModerations
  BY <1>4, <1>5, <1>6, AccountFields DEF OnbInv, OnbTypeOK
<1>9. work' \in [Procs -> OnbRequests] /\ RequestsAreFounded'
  BY <1>6, <1>7, WorkMove, IdleIsFounded
<1>10. Anchored'
  BY <1>2, <1>4, <1>5, <1>6, AccountFields DEF Anchored
<1>11. CurrentIsOwn'
  <2> SUFFICES ASSUME NEW c \in Docs, identities'[c] # Null, identities'[c].current # Null
               PROVE  Owns(identities[c].current, c)'
    BY DEF CurrentIsOwn
  <2>1. c # d /\ identities'[c] = identities[c]
    BY <1>5, <1>6, AccountFields
  <2>2. PICK v \in Users : v = identities[c].current
    BY <2>1, AccountFields DEF IdentityRow
  <2>3. Owns(v, c)'
    BY <1>7, <2>1, <2>2, OwnsStays DEF OnbInv, CurrentIsOwn
  <2> QED BY <2>1, <2>2, <2>3 DEF Owns
<1>12. SoleHolder'
  <2>1. \A v \in Users, c \in Docs : Holds(v, c)' => Holds(v, c)
    BY <1>4, <1>6, AccountFields DEF Holds, Owns, HoldsIdentity
  <2> QED BY <2>1 DEF SoleHolder, OnbInv
<1> QED BY <1>6, <1>7, <1>8, <1>9, <1>10, <1>11, <1>12, AccountStep

\* changeHandle touches handles only.
LEMMA RenameStep ==
    ASSUME OnbInv, NEW p \in Procs, Rename(p)
    PROVE  OnbInv'
<1>1. PICK u \in Users, h \in Handles : u = work[p].user /\ h = work[p].handle /\ accounts[u] # Null
  BY RequestFields, RequestKinds DEF Rename, Founded
<1>2. Do(p, OnbIdle) /\ UNCHANGED <<onb, signedIn, moderations>>
  BY DEF Rename
<1>3. CASE UNCHANGED <<identities, accounts>>
  BY <1>2, <1>3, RequestStep, IdleIsFounded
<1>4. ASSUME accounts' = [accounts EXCEPT ![u].handle = h, ![u].renamed = TRUE],
             identities' = [d \in Docs |-> IF identities[d] # Null /\ identities[d].current = u
                                           THEN [identities[d] EXCEPT !.lastHandle = h]
                                           ELSE identities[d]]
      PROVE  OnbInv'
  <2>1. PICK row : row = [accounts[u] EXCEPT !.handle = h, !.renamed = TRUE]
    OBVIOUS
  <2>2. /\ row \in AccountRow /\ row.identity = accounts[u].identity
        /\ row.status = accounts[u].status /\ row # Null
    <3>1. accounts[u] \in AccountRow /\ h \in AllHandles /\ "active" \in Statuses
      BY <1>1, AccountFields DEF Statuses, AllHandles
    <3>2. /\ row \in AccountRow /\ row.identity = accounts[u].identity
          /\ row.status = accounts[u].status
      BY <2>1, <3>1, AccountRowChanges
    <3> QED BY <3>2, AccountFields
  <2>3. accounts' = [accounts EXCEPT ![u] = row]
    BY <1>4, <2>1
  <2>4. ASSUME NEW d \in Docs
        PROVE  /\ identities'[d] \in IdentityRow \cup {Null}
               /\ identities'[d] # Null <=> identities[d] # Null
               /\ identities'[d] # Null => identities'[d].current = identities[d].current
    <3>1. CASE identities[d] # Null /\ identities[d].current = u
      <4>1. PICK old \in IdentityRow : old = identities[d]
        BY <3>1, AccountFields
      <4>2. /\ [old EXCEPT !.lastHandle = h] \in IdentityRow
            /\ [old EXCEPT !.lastHandle = h].current = old.current
        BY DEF IdentityRow, AllHandles
      <4> QED BY <1>4, <3>1, <4>1, <4>2, OnbRowsAssumption
    <3>2. CASE ~(identities[d] # Null /\ identities[d].current = u)
      BY <1>4, <3>2, AccountFields
    <3> QED BY <3>1, <3>2
  <2>5. identities' \in [Docs -> IdentityRow \cup {Null}]
    BY <1>4, <2>4
  <2>6. accounts' \in [Users -> AccountRow \cup {Null}] /\ moderations' \in 0 .. MaxModerations
    BY <1>2, <2>2, <2>3, AccountFields DEF OnbInv, OnbTypeOK
  <2>7. Kept
    BY <1>2, <2>2, <2>3, AccountFields DEF Kept
  <2>8. work' \in [Procs -> OnbRequests] /\ RequestsAreFounded'
    BY <1>2, <2>7, WorkMove, IdleIsFounded
  <2>9. Anchored'
    BY <1>1, <2>2, <2>3, <2>4, AccountFields DEF Anchored
  <2>10. CurrentIsOwn'
    <3> SUFFICES ASSUME NEW c \in Docs, identities'[c] # Null, identities'[c].current # Null
                 PROVE  Owns(identities[c].current, c)'
      BY DEF CurrentIsOwn
    <3>1. identities[c] # Null /\ identities'[c].current = identities[c].current
      BY <2>4
    <3>2. PICK v \in Users : v = identities[c].current
      BY <3>1, AccountFields DEF IdentityRow
    <3>3. Owns(v, c)'
      BY <2>7, <3>1, <3>2, OwnsStays DEF OnbInv, CurrentIsOwn
    <3> QED BY <3>1, <3>2, <3>3 DEF Owns
  <2>11. SoleHolder'
    <3>1. \A v \in Users, c \in Docs : Holds(v, c)' => Holds(v, c)
      BY <1>1, <2>2, <2>3, AccountFields DEF Holds, Owns
    <3> QED BY <3>1 DEF SoleHolder, OnbInv
  <2> QED BY <1>2, <2>5, <2>6, <2>7, <2>8, <2>9, <2>10, <2>11, AccountStep
<1> QED BY <1>1, <1>3, <1>4 DEF Rename

\* What the unique index lets through.
LEMMA HeldByOne ==
    ASSUME NEW rows, NEW d, Cardinality(IdentityHeldBy(rows, d)) <= 1,
           NEW u \in IdentityHeldBy(rows, d), NEW v \in IdentityHeldBy(rows, d)
    PROVE  u = v
<1> SUFFICES ASSUME u # v PROVE FALSE
  OBVIOUS
<1>1. IsFiniteSet(IdentityHeldBy(rows, d)) /\ Cardinality(IdentityHeldBy(rows, d)) \in Nat
  <2>1. IdentityHeldBy(rows, d) \subseteq Users /\ IsFiniteSet(Users)
    BY AccountsAssumption DEF IdentityHeldBy
  <2> QED BY <2>1, FS_Subset, FS_CardinalityType
<1>2. Cardinality({u, v}) = 2
  <2>1. IsFiniteSet({u}) /\ Cardinality({u}) = 1
    BY FS_Singleton
  <2>2. Cardinality({u} \cup {v}) = 2
    BY <2>1, FS_AddElement
  <2>3. {u} \cup {v} = {u, v}
    OBVIOUS
  <2> QED BY <2>2, <2>3
<1>3. {u, v} \subseteq IdentityHeldBy(rows, d)
  OBVIOUS
<1>4. Cardinality({u, v}) <= Cardinality(IdentityHeldBy(rows, d))
  BY <1>1, <1>3, FS_Subset
<1> QED BY <1>1, <1>2, <1>4

\* moderateUser may bring an account back, if the index has no other.
LEMMA ModerateStep ==
    ASSUME OnbInv, NEW u \in Users, NEW change \in Transitions, Moderate(u, change)
    PROVE  OnbInv'
<1>1. PICK d \in Docs : d = accounts[u].identity /\ identities[d] # Null /\ accounts[u] # Null
  BY AccountFields DEF Moderate
<1>2. PICK row : row = [accounts[u] EXCEPT !.status = change.to]
  OBVIOUS
<1>3. row \in AccountRow /\ row.identity = d /\ row.status = change.to /\ row # Null
  <2>1. change.to \in Statuses
    BY DEF Transitions, Statuses
  <2>2. accounts[u] \in AccountRow /\ Tombstone \in AllHandles
    BY <1>1, AccountFields DEF AllHandles
  <2>3. row \in AccountRow /\ row.identity = accounts[u].identity /\ row.status = change.to
    BY <1>2, <2>1, <2>2, AccountRowChanges
  <2> QED BY <1>1, <2>3, AccountFields
<1>4. PICK rows : rows = [accounts EXCEPT ![u] = row]
  OBVIOUS
<1>5. /\ accounts' = rows /\ Cardinality(IdentityHeldBy(rows, d)) <= 1
      /\ moderations' = moderations + 1 /\ moderations < MaxModerations
      /\ UNCHANGED <<onb, work, signedIn>>
      /\ identities' = IF change.identity = Null THEN identities
                       ELSE [identities EXCEPT ![d].status = change.identity]
  BY <1>1, <1>2, <1>4 DEF Moderate
<1>6. ASSUME NEW c \in Docs
      PROVE  /\ identities'[c] \in IdentityRow \cup {Null}
             /\ identities'[c] # Null <=> identities[c] # Null
             /\ identities'[c] # Null => identities'[c].current = identities[c].current
  <2>1. CASE change.identity = Null \/ c # d
    BY <1>5, <2>1, AccountFields
  <2>2. CASE change.identity # Null /\ c = d
    <3>1. PICK old \in IdentityRow : old = identities[d]
      BY <1>1, AccountFields
    <3>2. change.identity \in {"active", "suspended", "banned", "self_deleted"}
      BY <2>2 DEF Transitions
    <3>3. /\ [old EXCEPT !.status = change.identity] \in IdentityRow
          /\ [old EXCEPT !.status = change.identity].current = old.current
      BY <3>2 DEF IdentityRow
    <3>4. identities'[c] = [old EXCEPT !.status = change.identity]
      BY <1>5, <2>2, <3>1, AccountFields
    <3> QED BY <1>1, <2>2, <3>1, <3>3, <3>4, OnbRowsAssumption
  <2> QED BY <2>1, <2>2
<1>7. identities' \in [Docs -> IdentityRow \cup {Null}]
  BY <1>5, <1>6, AccountFields
<1>8. accounts' \in [Users -> AccountRow \cup {Null}] /\ moderations' \in 0 .. MaxModerations
  <2>1. accounts' \in [Users -> AccountRow \cup {Null}]
    BY <1>3, <1>4, <1>5, AccountFields
  <2>2. moderations' \in 0 .. MaxModerations
    BY <1>5, OnboardingAssumption DEF OnbInv, OnbTypeOK
  <2> QED BY <2>1, <2>2
<1>9. Kept
  BY <1>1, <1>3, <1>4, <1>5, AccountFields DEF Kept
<1>10. work' \in [Procs -> OnbRequests] /\ RequestsAreFounded'
  <2>1. work \in [Procs -> OnbRequests]
    BY DEF OnbInv, OnbTypeOK
  <2>2. ASSUME NEW p \in Procs
        PROVE  Founded(work[p])'
    <3>1. PICK r \in OnbRequests : r = work[p]
      BY <2>1
    <3>2. Founded(r)'
      BY <1>9, <3>1, FoundedStays DEF OnbInv, RequestsAreFounded
    <3> QED BY <1>5, <3>1, <3>2 DEF Founded, Owns
  <2> QED BY <1>5, <2>1, <2>2 DEF RequestsAreFounded
<1>11. Anchored'
  BY <1>1, <1>3, <1>4, <1>5, <1>6, AccountFields DEF Anchored
<1>12. CurrentIsOwn'
  <2> SUFFICES ASSUME NEW c \in Docs, identities'[c] # Null, identities'[c].current # Null
               PROVE  Owns(identities[c].current, c)'
    BY DEF CurrentIsOwn
  <2>1. identities[c] # Null /\ identities'[c].current = identities[c].current
    BY <1>6
  <2>2. PICK v \in Users : v = identities[c].current
    BY <2>1, AccountFields DEF IdentityRow
  <2>3. Owns(v, c)'
    BY <1>9, <2>1, <2>2, OwnsStays DEF OnbInv, CurrentIsOwn
  <2> QED BY <2>1, <2>2, <2>3 DEF Owns
<1>13. SoleHolder'
  <2> SUFFICES ASSUME NEW c \in Docs, NEW v \in Users, NEW w \in Users, Holds(v, c)', Holds(w, c)'
               PROVE  v = w
    BY DEF SoleHolder
  <2>1. CASE c = d
    <3>1. v \in IdentityHeldBy(rows, d) /\ w \in IdentityHeldBy(rows, d)
      BY <1>5, <2>1 DEF Holds, Owns, IdentityHeldBy
    <3> QED BY <1>5, <3>1, HeldByOne
  <2>2. CASE c # d
    <3>1. Holds(v, c) /\ Holds(w, c)
      BY <1>3, <1>4, <1>5, <2>2, AccountFields DEF Holds, Owns
    <3> QED BY <3>1 DEF OnbInv, SoleHolder
  <2> QED BY <2>1, <2>2
<1> QED BY <1>5, <1>7, <1>8, <1>9, <1>10, <1>11, <1>12, <1>13, AccountStep

\* createAccount succeeds only where the index has no entry for the identity, and
\* makes the new account its current one.
LEMMA CreateStep ==
    ASSUME OnbInv, NEW p \in Procs, NEW u \in Users, CreateAccount(p, u)
    PROVE  OnbInv'
<1>1. PICK s \in OnbSessions, d \in Docs, h \in Handles :
         s = work[p].s /\ d = work[p].doc /\ h = work[p].handle /\ onb[s] # Null
  BY RequestFields, RequestKinds DEF CreateAccount, Founded
<1>2. PICK rows : rows = IF work[p].branch = "self_deleted" THEN Tombstoned(d) ELSE accounts
  OBVIOUS
<1>3. ASSUME NEW v \in Users
      PROVE  /\ rows[v] \in AccountRow \cup {Null}
             /\ rows[v] # Null <=> accounts[v] # Null
             /\ rows[v] # Null => /\ rows[v].identity = accounts[v].identity
                                  /\ rows[v].status = accounts[v].status
  <2>1. CASE rows[v] = accounts[v]
    BY <2>1, AccountFields
  <2>2. CASE accounts[v] # Null /\ rows[v] = [accounts[v] EXCEPT !.handle = Tombstone]
    <3>1. PICK old \in AccountRow : old = accounts[v]
      BY <2>2, AccountFields
    <3>2. /\ [old EXCEPT !.handle = Tombstone] \in AccountRow
          /\ [old EXCEPT !.handle = Tombstone].identity = old.identity
          /\ [old EXCEPT !.handle = Tombstone].status = old.status
      BY DEF AccountRow, AllHandles
    <3> QED BY <2>2, <3>1, <3>2, AccountFields
  <2> QED BY <1>2, <2>1, <2>2 DEF Tombstoned
<1>4. rows \in [Users -> AccountRow \cup {Null}]
  BY <1>2, <1>3, AccountFields DEF Tombstoned
<1> DEFINE row == [identity |-> d, status |-> "active", handle |-> h, renamed |-> FALSE]
           idRow == [status |-> "active", current |-> u, lastHandle |-> h]
           next == [pc |-> "issue", s |-> s, doc |-> d, user |-> u]
<1>5. row \in AccountRow /\ row.identity = d
  BY DEF AccountRow, Statuses, AllHandles
<1>6. idRow \in IdentityRow /\ idRow.current = u
  BY DEF IdentityRow, AllHandles
<1>7. /\ next \in OnbRequests /\ next.pc = "issue" /\ next.s = s /\ next.doc = d /\ next.user = u
  BY DEF OnbRequests
<1>8. accounts[u] = Null /\ UNCHANGED <<onb, signedIn, moderations>>
  BY DEF CreateAccount
<1>9. \/ Do(p, OnbIdle) /\ UNCHANGED <<identities, accounts>>
      \/ /\ IdentityHeldBy(rows, d) = {}
         /\ identities' = [identities EXCEPT ![d] = idRow]
         /\ accounts' = [rows EXCEPT ![u] = row]
         /\ Do(p, next)
  BY <1>1, <1>2 DEF CreateAccount
<1> HIDE DEF row, idRow, next
<1>10. CASE Do(p, OnbIdle) /\ UNCHANGED <<identities, accounts>>
  BY <1>8, <1>10, RequestStep, IdleIsFounded
<1>11. ASSUME IdentityHeldBy(rows, d) = {},
              identities' = [identities EXCEPT ![d] = idRow],
              accounts' = [rows EXCEPT ![u] = row], Do(p, next)
       PROVE  OnbInv'
  <2>1. Kept
    BY <1>3, <1>4, <1>8, <1>11 DEF Kept
  <2>2. row # Null /\ idRow # Null
    BY <1>5, <1>6, AccountFields
  <2>3. /\ accounts' \in [Users -> AccountRow \cup {Null}]
        /\ identities' \in [Docs -> IdentityRow \cup {Null}]
    BY <1>4, <1>5, <1>6, <1>11, AccountFields
  <2>4. accounts'[u] = row /\ Owns(u, d)'
    BY <1>4, <1>5, <1>11, <2>2 DEF Owns
  <2>5. Founded(next)'
    BY <1>1, <1>7, <1>8, <2>4 DEF Founded
  <2>6. work' \in [Procs -> OnbRequests] /\ RequestsAreFounded'
    BY <1>7, <1>11, <2>1, <2>5, WorkMove
  <2>7. Anchored'
    BY <1>3, <1>4, <1>5, <1>11, <2>2, AccountFields DEF Anchored
  <2>8. CurrentIsOwn'
    <3> SUFFICES ASSUME NEW c \in Docs, identities'[c] # Null, identities'[c].current # Null
                 PROVE  Owns(identities[c].current, c)'
      BY DEF CurrentIsOwn
    <3>1. CASE c = d
      <4>1. identities'[c].current = u
        BY <1>6, <1>11, <3>1, AccountFields
      <4> QED BY <2>4, <3>1, <4>1 DEF Owns
    <3>2. CASE c # d
      <4>1. identities'[c] = identities[c]
        BY <1>11, <3>2, AccountFields
      <4>2. PICK v \in Users : v = identities[c].current
        BY <4>1, AccountFields DEF IdentityRow
      <4>3. Owns(v, c)'
        BY <2>1, <4>1, <4>2, OwnsStays DEF OnbInv, CurrentIsOwn
      <4> QED BY <4>1, <4>2, <4>3 DEF Owns
    <3> QED BY <3>1, <3>2
  <2>9. SoleHolder'
    <3>1. ASSUME NEW v \in Users \ {u}, NEW c \in Docs, Holds(v, c)'
          PROVE  Holds(v, c) /\ c # d
      <4>1. accounts'[v] = rows[v]
        BY <1>4, <1>11
      <4>2. Holds(v, c)
        <5>1. /\ rows[v] # Null /\ rows[v].identity = c /\ HoldsIdentity(rows[v].status)
          BY <3>1, <4>1 DEF Holds, Owns
        <5>2. /\ accounts[v] # Null /\ rows[v].identity = accounts[v].identity
              /\ rows[v].status = accounts[v].status
          BY <1>3, <5>1
        <5> QED BY <5>1, <5>2 DEF Holds, Owns
      <4>3. v \notin IdentityHeldBy(rows, d)
        BY <1>11
      <4> QED BY <3>1, <4>1, <4>2, <4>3 DEF Holds, Owns, IdentityHeldBy
    <3>2. \A c \in Docs : Holds(u, c)' => c = d
      BY <1>5, <2>4 DEF Holds, Owns
    <3> QED BY <3>1, <3>2 DEF OnbInv, SoleHolder
  <2>10. moderations' \in 0 .. MaxModerations
    BY <1>8 DEF OnbInv, OnbTypeOK
  <2> QED BY <1>8, <2>1, <2>3, <2>6, <2>7, <2>8, <2>9, <2>10, AccountStep
<1> QED BY <1>9, <1>10, <1>11

\* Every step keeps the invariant.
LEMMA OnbStep ==
    ASSUME OnbInv, [OnbNext]_onbVars
    PROVE  OnbInv'
<1>1. CASE UNCHANGED onbVars
  BY <1>1 DEF onbVars, OnbInv, OnbTypeOK, Anchored, CurrentIsOwn, SessionsAreVerified, Verified,
              RequestsAreFounded, Founded, SoleHolder, Holds, SignInsAreOwn, Owns
<1> QED
  BY <1>1, ReadStep, ClassifyStep, ValidateStep, PatchStep, StartStep, IssueStep,
     OtherRequestStep, DeleteStep, RenameStep, ModerateStep, CreateStep DEF OnbNext

\* Accounts from before are each of a document of their own.
LEMMA OnbInitial ==
    ASSUME OnbInit
    PROVE  OnbInv
<1>1. PICK owner \in [Docs -> Users \cup {Null}], name \in [Docs -> Handles] :
    LET Held == {d \in Docs : owner[d] # Null}
        DocOf(u) == CHOOSE d \in Held : owner[d] = u
    IN  /\ \A c, d \in Held : c # d => owner[c] # owner[d] /\ name[c] # name[d]
        /\ identities = [d \in Docs |->
              IF d \in Held
              THEN [status |-> "active", current |-> owner[d], lastHandle |-> name[d]]
              ELSE Null]
        /\ accounts = [u \in Users |->
              IF \E d \in Held : owner[d] = u
              THEN [identity |-> DocOf(u), status |-> "active",
                    handle |-> name[DocOf(u)], renamed |-> FALSE]
              ELSE Null]
        /\ onb = [s \in OnbSessions |-> Null]
        /\ work = [p \in Procs |-> OnbIdle]
        /\ signedIn = {}
        /\ moderations = 0
  BY DEF OnbInit
<1> DEFINE Held == {d \in Docs : owner[d] # Null}
           DocOf(u) == CHOOSE d \in Held : owner[d] = u
           idRow(d) == [status |-> "active", current |-> owner[d], lastHandle |-> name[d]]
           row(u) == [identity |-> DocOf(u), status |-> "active",
                      handle |-> name[DocOf(u)], renamed |-> FALSE]
<1>2. /\ \A c, d \in Held : c # d => owner[c] # owner[d]
      /\ identities = [d \in Docs |-> IF d \in Held THEN idRow(d) ELSE Null]
      /\ accounts = [u \in Users |-> IF \E d \in Held : owner[d] = u THEN row(u) ELSE Null]
      /\ onb = [s \in OnbSessions |-> Null] /\ work = [p \in Procs |-> OnbIdle]
      /\ signedIn = {} /\ moderations = 0
  BY <1>1
<1>3. \A u \in Users : (\E d \in Held : owner[d] = u) => DocOf(u) \in Held /\ owner[DocOf(u)] = u
  OBVIOUS
<1>4. \A d \in Held : idRow(d) \in IdentityRow /\ idRow(d).current = owner[d]
  BY DEF IdentityRow, AllHandles
<1>5. \A u \in Users : DocOf(u) \in Held => row(u) \in AccountRow /\ row(u).identity = DocOf(u)
  BY DEF AccountRow, Statuses, AllHandles
<1>6. Held \subseteq Docs /\ \A d \in Held : owner[d] \in Users
  OBVIOUS
<1> HIDE DEF Held, DocOf, idRow, row
<1>7. \A u \in Users : accounts[u] # Null =>
         /\ accounts[u] = row(u) /\ DocOf(u) \in Held /\ owner[DocOf(u)] = u
  BY <1>2, <1>3
<1>8. OnbTypeOK
  <2>1. identities \in [Docs -> IdentityRow \cup {Null}]
    BY <1>2, <1>4
  <2>2. accounts \in [Users -> AccountRow \cup {Null}]
    BY <1>2, <1>3, <1>5
  <2>3. work \in [Procs -> OnbRequests]
    BY <1>2, IdleIsFounded
  <2> QED BY <1>2, <2>1, <2>2, <2>3, OnboardingAssumption DEF OnbTypeOK
<1>9. Anchored
  BY <1>2, <1>4, <1>5, <1>6, <1>7, OnbRowsAssumption DEF Anchored
<1>10. CurrentIsOwn
  <2> SUFFICES ASSUME NEW d \in Docs, identities[d] # Null
               PROVE  Owns(identities[d].current, d)
    BY DEF CurrentIsOwn
  <2>1. d \in Held /\ identities[d].current = owner[d] /\ owner[d] \in Users
    BY <1>2, <1>4, <1>6
  <2>2. DocOf(owner[d]) = d
    BY <1>2, <1>3, <2>1
  <2>3. accounts[owner[d]] = row(owner[d])
    BY <1>2, <2>1
  <2> QED BY <1>5, <2>1, <2>2, <2>3, OnbRowsAssumption DEF Owns
<1>11. SoleHolder
  <2> SUFFICES ASSUME NEW d \in Docs, NEW u \in Users, NEW v \in Users, Holds(u, d), Holds(v, d)
               PROVE  u = v
    BY DEF SoleHolder
  <2>1. DocOf(u) = d /\ DocOf(v) = d
    BY <1>5, <1>7 DEF Holds, Owns
  <2> QED BY <1>7, <2>1 DEF Holds, Owns
<1>12. SessionsAreVerified /\ RequestsAreFounded /\ SignInsAreOwn
  BY <1>2 DEF SessionsAreVerified, RequestsAreFounded, SignInsAreOwn, Founded, OnbIdle
<1> QED BY <1>8, <1>9, <1>10, <1>11, <1>12 DEF OnbInv

-----------------------------------------------------------------------------
(* Both, as the run composes them.                                         *)

\* The invariants of both modules.
AccountsInv ==
    /\ SessTypeOK /\ SignInsCounted /\ GuessesCounted
    /\ OnbInv
    /\ side \in {"onboarding", "sign_in"}

\* Nobody is signed in and nothing was guessed.
LEMMA SessInitial ==
    ASSUME SessInit
    PROVE  SessTypeOK /\ SignInsCounted /\ GuessesCounted
<1>1. NoFailures \in Pins /\ NoGuesses \in Guesses
  BY PinAssumption DEF NoFailures, NoGuesses, Pins, Guesses
<1>2. SessTypeOK
  BY <1>1 DEF SessInit, SessTypeOK, Pins, Guesses, AuthRequests
<1>3. SignInsCounted
  <2> SUFFICES ASSUME NEW u \in Users
               PROVE  Cardinality(Active(u)) + Cardinality(Inserting(u)) <= overlap[u]
    BY DEF SignInsCounted
  <2>1. Active(u) = {} /\ Inserting(u) = {}
    BY AccountsAssumption DEF SessInit, Active, Inserting, SessIdle
  <2> QED BY <2>1, FS_EmptySet DEF SessInit
<1>4. GuessesCounted
  BY PinAssumption DEF SessInit, GuessesCounted, Counted, NoFailures, NoGuesses
<1> QED BY <1>2, <1>3, <1>4

\* A behaviour follows one module and leaves the other's variables alone.
LEMMA AccountsInvariant ==
    Spec => []AccountsInv
<1>1. Init => AccountsInv
  BY SessInitial, OnbInitial DEF Init, AccountsInv
<1>2. AccountsInv /\ [Next]_<<sessVars, onbVars, side>> => AccountsInv'
  <2> SUFFICES ASSUME AccountsInv, [Next]_<<sessVars, onbVars, side>>
               PROVE  AccountsInv'
    OBVIOUS
  <2>1. [SessNext]_sessVars /\ [OnbNext]_onbVars /\ side' = side
    BY DEF Next
  <2>2. SessTypeOK' /\ SignInsCounted' /\ GuessesCounted'
    BY <2>1, SessTypeStep, SignInsStep, GuessesStep DEF AccountsInv
  <2>3. OnbInv'
    BY <2>1, OnbStep DEF AccountsInv
  <2> QED BY <2>1, <2>2, <2>3 DEF AccountsInv
<1> QED BY <1>1, <1>2, PTL DEF Spec

\* Sessions, PIN counters, tokens, onboarding rows, identities and accounts hold
\* only what their rows can hold, whatever requests die between their statements.
THEOREM AccountsTypeCorrect == Spec => []AccountsTypeOK
<1>1. AccountsInv => AccountsTypeOK
  BY DEF AccountsInv, OnbInv, AccountsTypeOK
<1> QED BY <1>1, AccountsInvariant, PTL

\* A user never has more active refresh tokens than sign-ins overlapped the last
\* revokeAllForUser, however many refreshes and logins meet.
THEOREM SessionsPerSignIn == Spec => []SessionPerSignIn
<1>1. AccountsInv => SessionPerSignIn
  <2> SUFFICES ASSUME AccountsInv, NEW u \in Users
               PROVE  Cardinality(Active(u)) <= overlap[u]
    BY DEF SessionPerSignIn, Active
  <2>1. Cardinality(Active(u)) + Cardinality(Inserting(u)) <= overlap[u]
    BY DEF AccountsInv, SignInsCounted
  <2>2. overlap[u] \in Nat
    BY DEF AccountsInv, SessTypeOK
  <2> QED BY <2>1, <2>2, TokensAreCounted
<1> QED BY <1>1, AccountsInvariant, PTL

\* However the requests past the check of the lock interleave with
\* recordPinFailure, the wrong PINs answered are at most PIN_MAX_ATTEMPTS - 1, and
\* one for each request at every lock.
THEOREM WrongGuessesAreBounded == Spec => []GuessesAreBounded
<1>1. AccountsInv => GuessesAreBounded
  <2> SUFFICES ASSUME AccountsInv, NEW u \in Users
               PROVE  guesses[u].wrong <= PinMaxAttempts - 1
                                          + Cardinality(Procs) * (1 + guesses[u].expiries)
    BY DEF GuessesAreBounded
  <2>1. SessTypeOK /\ Counted(u)
    BY DEF AccountsInv, GuessesCounted
  <2>2. /\ guesses[u].wrong \in Nat /\ guesses[u].expiries \in 0 .. MaxExpiries
        /\ pin[u].lock \in {"none", "past", "future"}
    BY <2>1 DEF SessTypeOK
  <2>3. /\ Cardinality(Procs) \in Nat /\ Cardinality(Guessing(u)) \in Nat
        /\ guesses[u].expiries \in Nat /\ PinMaxAttempts \in Nat
        /\ Allowed(u) \in Nat /\ PinMaxAttempts - 1 <= Allowed(u)
    BY <2>1, <2>2, PinAssumption, AllowanceIsNumber, RequestsAreCounted
  <2>4. guesses[u].wrong <= Allowed(u) + Cardinality(Procs)
    BY <2>1, <2>2, <2>3 DEF Counted
  <2>5. Allowed(u) + Cardinality(Procs)
           = PinMaxAttempts - 1 + Cardinality(Procs) * (1 + guesses[u].expiries)
    <3>1. /\ Cardinality(Procs) * guesses[u].expiries \in Nat
          /\ Cardinality(Procs) * (1 + guesses[u].expiries)
                = Cardinality(Procs) + Cardinality(Procs) * guesses[u].expiries
      BY <2>3, AllowedGrows
    <3> QED BY <2>3, <3>1 DEF Allowed
  <2> QED BY <2>4, <2>5
<1> QED BY <1>1, AccountsInvariant, PTL

\* uq_users_active_identity, the handlers that write users and moderation leave
\* an identity at most one account that is not deleted or banned.
THEOREM OneAccount == Spec => []OneAccountPerIdentity
<1>1. AccountsInv => OneAccountPerIdentity
  <2> SUFFICES ASSUME AccountsInv, NEW d \in Docs
               PROVE  Cardinality({u \in Users :
                         /\ accounts[u] # Null /\ accounts[u].identity = d
                         /\ accounts[u].status \notin {"banned", "self_deleted"}}) <= 1
    BY DEF OneAccountPerIdentity
  <2> DEFINE S == {u \in Users :
                     /\ accounts[u] # Null /\ accounts[u].identity = d
                     /\ accounts[u].status \notin {"banned", "self_deleted"}}
  <2>1. \A u \in S : Holds(u, d)
    <3> SUFFICES ASSUME NEW u \in S PROVE Holds(u, d)
      OBVIOUS
    <3>1. accounts[u].status \in Statuses
      BY AccountFields DEF AccountsInv, AccountRow
    <3> QED BY <3>1 DEF Holds, Owns, HoldsIdentity, Statuses
  <2>2. \A u, v \in S : u = v
    BY <2>1 DEF AccountsInv, OnbInv, SoleHolder
  <2> HIDE DEF S
  <2>3. CASE S = {}
    BY <2>3, FS_EmptySet DEF S
  <2>4. CASE S # {}
    <3>1. PICK u : S = {u}
      BY <2>2, <2>4
    <3>2. Cardinality(S) = 1
      BY <3>1, FS_Singleton
    <3> QED BY <3>2 DEF S
  <2> QED BY <2>3, <2>4
<1> QED BY <1>1, AccountsInvariant, PTL

\* complete signs in to an account of the document its session verified, whatever
\* stale patches did to the row between.
THEOREM RecoveriesAreOwn == Spec => []RecoveryIsOwn
<1>1. AccountsInv => RecoveryIsOwn
  BY DEF AccountsInv, OnbInv, SignInsAreOwn, RecoveryIsOwn, Owns
<1> QED BY <1>1, AccountsInvariant, PTL

=============================================================================

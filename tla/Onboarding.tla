----------------------------- MODULE Onboarding -----------------------------
(***************************************************************************)
(* The life of an account: the onboarding session's state machine (KYC,    *)
(* liveness, handle, completion), the identity a document anchors, the     *)
(* account it may hold, self-deletion and return, handle changes and       *)
(* moderation.                                                             *)
(*                                                                         *)
(* A handler reads the session (loadActive, expect), waits for a provider  *)
(* or another statement, and then patches the row whatever it has become.  *)
(* One action is one statement or one transaction; requests may die after  *)
(* any of them.  A document stands for its doc_hash and for the identity   *)
(* anchored to it.  An expired session only refuses further requests, and  *)
(* no client has to go on, so expiry needs no action of its own.           *)
(***************************************************************************)
EXTENDS AccountState

CONSTANTS
    Docs,           \* documents people verify with
    OnbSessions,    \* onboarding session ids
    Handles,        \* handles people want
    Tombstone,      \* a deleted account's handle, deleted_<its own id>
    MaxModerations  \* bound on the moderators' actions

ASSUME OnboardingAssumption ==
    /\ Tombstone \notin Handles
    /\ MaxModerations \in Nat
    /\ Null \notin Docs \cup Handles

VARIABLES
    identities,     \* [Docs -> row, or Null]
    accounts,       \* users: [Users -> row, or Null]
    onb,            \* onboarding_sessions: [OnbSessions -> row, or Null]
    work,           \* [Procs -> where the request is]
    signedIn,       \* <<document verified, account signed in to>> of completions
    moderations     \* actions of moderators so far

onbVars == <<identities, accounts, onb, work, signedIn, moderations>>

Purposes == {"signup", "recovery", "pin_reset"}
Branches == {"new", "active", "self_deleted", "suspended", "banned"}
OnbStatuses == {"device_checked", "digilocker_started", "digilocker_verified",
                "liveness_started", "matched", "completed"}

AllHandles == Handles \cup {Tombstone}

IdentityRow == [status: {"active", "suspended", "banned", "self_deleted"},
                current: Users \cup {Null}, lastHandle: AllHandles]
AccountRow == [identity: Docs, status: Statuses, handle: AllHandles, renamed: BOOLEAN]
OnbRow == [purpose: Purposes, status: OnbStatuses, doc: Docs \cup {Null},
           branch: Branches \cup {Null}, matched: Users \cup {Null},
           handle: Handles \cup {Null}]

ASSUME OnbRowsAssumption == Null \notin IdentityRow \cup AccountRow \cup OnbRow \cup Branches

OnbIdle == [pc |-> "idle"]
OnbRequests ==
         {OnbIdle}
    \cup [pc: {"patch_status"}, s: OnbSessions, status: OnbStatuses]
    \cup [pc: {"classify"}, s: OnbSessions, doc: Docs]
    \cup [pc: {"patch_verified"}, s: OnbSessions, doc: Docs, branch: Branches,
          matched: Users \cup {Null}]
    \cup [pc: {"validate", "patch_handle", "validate_again", "create"}, s: OnbSessions,
          doc: Docs, branch: Branches, handle: Handles]
    \cup [pc: {"issue"}, s: OnbSessions, doc: Docs, user: Users]
    \cup [pc: {"mark"}, s: OnbSessions]
    \cup [pc: {"delete"}, user: Users]
    \cup [pc: {"rename"}, user: Users, handle: Handles]

OnbTypeOK ==
    /\ identities \in [Docs -> IdentityRow \cup {Null}]
    /\ accounts \in [Users -> AccountRow \cup {Null}]
    /\ onb \in [OnbSessions -> OnbRow \cup {Null}]
    /\ work \in [Procs -> OnbRequests]
    /\ signedIn \subseteq Docs \X Users
    /\ moderations \in 0 .. MaxModerations

\* Some documents may have an account from before.
OnbInit ==
    \E owner \in [Docs -> Users \cup {Null}], name \in [Docs -> Handles] :
        LET Held == {d \in Docs : owner[d] # Null}
            DocOf(u) == CHOOSE d \in Held : owner[d] = u
        IN  /\ \A c, d \in Held : c # d => owner[c] # owner[d] /\ name[c] # name[d]
            /\ identities = [d \in Docs |->
                  IF d \in Held
                  THEN [status |-> "active", current |-> owner[d], lastHandle |-> name[d]]
                  ELSE Null]
            /\ accounts = [u \in Users |->
                  IF \E d \in Held : owner[d] = u
                  THEN [identity |-> DocOf(u), status |-> "active",
                        handle |-> name[DocOf(u)], renamed |-> FALSE]
                  ELSE Null]
            /\ onb = [s \in OnbSessions |-> Null]
            /\ work = [p \in Procs |-> OnbIdle]
            /\ signedIn = {}
            /\ moderations = 0

Do(p, next) == work' = [work EXCEPT ![p] = next]
Loads(p, s, statuses) ==
    work[p] = OnbIdle /\ onb[s] # Null /\ onb[s].status \in statuses

-----------------------------------------------------------------------------
(* The steps up to matched.                                                *)

OnbStart(s, purpose) ==
    /\ onb[s] = Null
    /\ onb' = [onb EXCEPT ![s] =
                 [purpose |-> purpose, status |-> "device_checked", doc |-> Null,
                  branch |-> Null, matched |-> Null, handle |-> Null]]
    /\ UNCHANGED <<identities, accounts, work, signedIn, moderations>>

DigilockerStart(p, s) ==
    /\ Loads(p, s, {"device_checked", "digilocker_started"})
    /\ Do(p, [pc |-> "patch_status", s |-> s, status |-> "digilocker_started"])
    /\ UNCHANGED <<identities, accounts, onb, signedIn, moderations>>

LivenessStart(p, s) ==
    /\ Loads(p, s, {"digilocker_verified"})
    /\ Do(p, [pc |-> "patch_status", s |-> s, status |-> "liveness_started"])
    /\ UNCHANGED <<identities, accounts, onb, signedIn, moderations>>

LivenessComplete(p, s) ==
    /\ Loads(p, s, {"liveness_started"})
    /\ Do(p, [pc |-> "patch_status", s |-> s, status |-> "matched"])
    /\ UNCHANGED <<identities, accounts, onb, signedIn, moderations>>

\* match, kept for older clients, wants an existing identity.
Match(p, s) ==
    /\ Loads(p, s, {"liveness_started"})
    /\ onb[s].branch \notin {"new", Null}
    /\ Do(p, [pc |-> "patch_status", s |-> s, status |-> "matched"])
    /\ UNCHANGED <<identities, accounts, onb, signedIn, moderations>>

\* patch, WHERE session_id: it does not look at the status it overwrites.
PatchStatus(p) ==
    /\ work[p].pc = "patch_status"
    /\ onb' = [onb EXCEPT ![work[p].s].status = work[p].status]
    /\ Do(p, OnbIdle)
    /\ UNCHANGED <<identities, accounts, signedIn, moderations>>

\* digilockerCallback: the provider returns the document that was verified,
Callback(p, s, d) ==
    /\ Loads(p, s, {"digilocker_started"})
    /\ Do(p, [pc |-> "classify", s |-> s, doc |-> d])
    /\ UNCHANGED <<identities, accounts, onb, signedIn, moderations>>

\* classify reads its identity,
Classify(p) ==
    LET row == identities[work[p].doc]
    IN  /\ work[p].pc = "classify"
        /\ Do(p, [pc |-> "patch_verified", s |-> work[p].s, doc |-> work[p].doc,
                  branch  |-> IF row = Null THEN "new" ELSE row.status,
                  matched |-> IF row = Null THEN Null ELSE row.current])
        /\ UNCHANGED <<identities, accounts, onb, signedIn, moderations>>

\* and one patch stores what was found.
PatchVerified(p) ==
    /\ work[p].pc = "patch_verified"
    /\ onb' = [onb EXCEPT ![work[p].s] =
                 [@ EXCEPT !.status = "digilocker_verified", !.doc = work[p].doc,
                           !.branch = work[p].branch, !.matched = work[p].matched]]
    /\ Do(p, OnbIdle)
    /\ UNCHANGED <<identities, accounts, signedIn, moderations>>

-----------------------------------------------------------------------------
(* Handles: setHandle, checkHandleForSession.                              *)

HandleTaken(h) == \E u \in Users : accounts[u] # Null /\ accounts[u].handle = h

\* Whoever returns has to take the handle he left with; others a free one.
ValidHandle(branch, d, h) ==
    IF branch = "self_deleted" THEN h = identities[d].lastHandle ELSE ~HandleTaken(h)

\* checkHandleForSession only wants a verified document, setHandle more.
ChooseHandle(p, s, h) ==
    /\ Loads(p, s, OnbStatuses \ {"completed"})
    /\ onb[s].doc # Null
    /\ Do(p, [pc |-> "validate", s |-> s, doc |-> onb[s].doc,
              branch |-> onb[s].branch, handle |-> h])
    /\ UNCHANGED <<identities, accounts, onb, signedIn, moderations>>

ValidateHandle(p) ==
    /\ work[p].pc = "validate"
    /\ IF ValidHandle(work[p].branch, work[p].doc, work[p].handle)
       THEN work' = [work EXCEPT ![p].pc = "patch_handle"]
       ELSE Do(p, OnbIdle)
    /\ UNCHANGED <<identities, accounts, onb, signedIn, moderations>>

PatchHandle(p) ==
    /\ work[p].pc = "patch_handle"
    /\ onb' = [onb EXCEPT ![work[p].s].handle = work[p].handle]
    /\ Do(p, OnbIdle)
    /\ UNCHANGED <<identities, accounts, signedIn, moderations>>

-----------------------------------------------------------------------------
(* complete                                                                *)

Proceedable(purpose) ==
    CASE purpose = "signup"    -> {"new", "self_deleted"}
      [] purpose = "recovery"  -> {"active", "self_deleted"}
      [] purpose = "pin_reset" -> {"active"}

\* What the session says now is what the request goes by to its end.
CompleteRecovery(p, s) ==
    /\ Loads(p, s, {"matched"})
    /\ onb[s].branch = "active" /\ onb[s].branch \in Proceedable(onb[s].purpose)
    /\ onb[s].matched # Null
    /\ Do(p, [pc |-> "issue", s |-> s, doc |-> onb[s].doc, user |-> onb[s].matched])
    /\ UNCHANGED <<identities, accounts, onb, signedIn, moderations>>

\* An active identity without an account falls through to the signup path,
\* whose insert of a second identity must fail.
CompleteSignup(p, s) ==
    /\ Loads(p, s, {"matched"})
    /\ onb[s].branch \in Proceedable(onb[s].purpose)
    /\ ~(onb[s].branch = "active" /\ onb[s].matched # Null)
    /\ onb[s].handle # Null
    /\ Do(p, [pc |-> "validate_again", s |-> s, doc |-> onb[s].doc,
              branch |-> onb[s].branch, handle |-> onb[s].handle])
    /\ UNCHANGED <<identities, accounts, onb, signedIn, moderations>>

ValidateAgain(p) ==
    /\ work[p].pc = "validate_again"
    /\ IF ValidHandle(work[p].branch, work[p].doc, work[p].handle)
       THEN work' = [work EXCEPT ![p].pc = "create"]
       ELSE Do(p, OnbIdle)
    /\ UNCHANGED <<identities, accounts, onb, signedIn, moderations>>

\* tombstoneSelfDeletedHandles: whatever handle a deleted account of this
\* identity still has is freed.
Tombstoned(d) ==
    [u \in Users |->
        IF accounts[u] # Null /\ accounts[u].identity = d /\ accounts[u].status = "self_deleted"
        THEN [accounts[u] EXCEPT !.handle = Tombstone] ELSE accounts[u]]

\* uq_users_active_identity
IdentityHeldBy(rows, d) ==
    {u \in Users : rows[u] # Null /\ rows[u].identity = d /\ HoldsIdentity(rows[u].status)}

\* createAccount: one transaction, which a unique index may refuse as a whole
\* (doc_hash of a new identity, the handle, the account of the identity).
\* Afterwards the request signs in to the account it made.
CreateAccount(p, u) ==
    LET d    == work[p].doc
        h    == work[p].handle
        back == work[p].branch = "self_deleted"
        rows == IF back THEN Tombstoned(d) ELSE accounts
        fits == /\ back \/ identities[d] = Null
                /\ \A v \in Users : rows[v] # Null => rows[v].handle # h
                /\ IdentityHeldBy(rows, d) = {}
    IN  /\ work[p].pc = "create"
        /\ accounts[u] = Null
        /\ IF fits
           THEN /\ identities' = [identities EXCEPT ![d] =
                                    [status |-> "active", current |-> u, lastHandle |-> h]]
                /\ accounts' = [rows EXCEPT ![u] =
                                  [identity |-> d, status |-> "active", handle |-> h,
                                   renamed |-> FALSE]]
                /\ Do(p, [pc |-> "issue", s |-> work[p].s, doc |-> d, user |-> u])
           ELSE Do(p, OnbIdle) /\ UNCHANGED <<identities, accounts>>
        /\ UNCHANGED <<onb, signedIn, moderations>>

\* (Mutant: the matched account is read from the session again.)
IssueSessionReread(p) ==
    LET now == onb[work[p].s].matched
    IN  /\ work[p].pc = "issue"
        /\ signedIn' = signedIn \cup
             {<<work[p].doc, IF now = Null THEN work[p].user ELSE now>>}
        /\ Do(p, [pc |-> "mark", s |-> work[p].s])
        /\ UNCHANGED <<identities, accounts, onb, moderations>>

\* issueSession (module Sessions has its two statements), after setPin in a
\* recovery.
IssueSession(p) ==
    /\ work[p].pc = "issue"
    /\ signedIn' = signedIn \cup {<<work[p].doc, work[p].user>>}
    /\ Do(p, [pc |-> "mark", s |-> work[p].s])
    /\ UNCHANGED <<identities, accounts, onb, moderations>>

MarkCompleted(p) ==
    /\ work[p].pc = "mark"
    /\ onb' = [onb EXCEPT ![work[p].s].status = "completed"]
    /\ Do(p, OnbIdle)
    /\ UNCHANGED <<identities, accounts, signedIn, moderations>>

-----------------------------------------------------------------------------
(* Deletion, handle changes, moderation.                                   *)

SignedInAs(p, u) ==
    work[p] = OnbIdle /\ accounts[u] # Null /\ CanAuth(accounts[u].status)

DeleteStart(p, u) ==
    /\ SignedInAs(p, u)
    /\ Do(p, [pc |-> "delete", user |-> u])
    /\ UNCHANGED <<identities, accounts, onb, signedIn, moderations>>

\* softDeleteAccount: the account as it is now, not as it was authenticated.
SoftDelete(p) ==
    LET u == work[p].user
    IN  /\ work[p].pc = "delete"
        /\ accounts' = [accounts EXCEPT ![u].status = "self_deleted",
                                        ![u].handle = Tombstone]
        /\ identities' = [identities EXCEPT ![accounts[u].identity] =
                            [status |-> "self_deleted", current |-> Null,
                             lastHandle |-> accounts[u].handle]]
        /\ Do(p, OnbIdle)
        /\ UNCHANGED <<onb, signedIn, moderations>>

\* changeHandle: the cooldown and the handle are read, ...
RenameStart(p, u, h) ==
    /\ SignedInAs(p, u)
    /\ ~accounts[u].renamed
    /\ ~HandleTaken(h)
    /\ Do(p, [pc |-> "rename", user |-> u, handle |-> h])
    /\ UNCHANGED <<identities, accounts, onb, signedIn, moderations>>

\* ... and written later; only the unique handle is checked again.
Rename(p) ==
    LET u == work[p].user
        h == work[p].handle
    IN  /\ work[p].pc = "rename"
        /\ IF \E v \in Users \ {u} : accounts[v] # Null /\ accounts[v].handle = h
           THEN UNCHANGED <<identities, accounts>>
           ELSE /\ accounts' = [accounts EXCEPT ![u].handle = h, ![u].renamed = TRUE]
                /\ identities' =
                     [d \in Docs |-> IF identities[d] # Null /\ identities[d].current = u
                                     THEN [identities[d] EXCEPT !.lastHandle = h]
                                     ELSE identities[d]]
        /\ Do(p, OnbIdle)
        /\ UNCHANGED <<onb, signedIn, moderations>>

\* (Mutant: the identity is restricted too, which identity_status lacks.)
TransitionsOfBoth ==
    {[to |-> t, identity |-> t] : t \in {"suspended", "banned", "restricted", "active"}}

\* TRANSITIONS: a restriction leaves the identity alone.
Transitions ==
    {[to |-> "suspended", identity |-> "suspended"], [to |-> "banned", identity |-> "banned"],
     [to |-> "restricted", identity |-> Null], [to |-> "active", identity |-> "active"]}

\* moderateUser, for any account and whatever state it is in; only the unique
\* index can refuse it.
Moderate(u, change) ==
    LET rows == [accounts EXCEPT ![u].status = change.to]
    IN  /\ moderations < MaxModerations
        /\ accounts[u] # Null
        /\ Cardinality(IdentityHeldBy(rows, accounts[u].identity)) <= 1
        /\ moderations' = moderations + 1
        /\ accounts' = rows
        /\ identities' = IF change.identity = Null THEN identities
                         ELSE [identities EXCEPT ![accounts[u].identity].status = change.identity]
        /\ UNCHANGED <<onb, work, signedIn>>

OnbDie(p) ==
    /\ work[p] # OnbIdle
    /\ Do(p, OnbIdle)
    /\ UNCHANGED <<identities, accounts, onb, signedIn, moderations>>

OnbNext ==
    \/ \E s \in OnbSessions, purpose \in Purposes : OnbStart(s, purpose)
    \/ \E p \in Procs :
          \/ \E s \in OnbSessions :
                \/ DigilockerStart(p, s) \/ LivenessStart(p, s)
                \/ LivenessComplete(p, s) \/ Match(p, s)
                \/ \E d \in Docs : Callback(p, s, d)
                \/ \E h \in Handles : ChooseHandle(p, s, h)
                \/ CompleteRecovery(p, s) \/ CompleteSignup(p, s)
          \/ PatchStatus(p) \/ Classify(p) \/ PatchVerified(p)
          \/ ValidateHandle(p) \/ PatchHandle(p) \/ ValidateAgain(p)
          \/ \E u \in Users :
                \/ CreateAccount(p, u) \/ DeleteStart(p, u)
                \/ \E h \in Handles : RenameStart(p, u, h)
          \/ IssueSession(p) \/ MarkCompleted(p) \/ SoftDelete(p) \/ Rename(p)
          \/ OnbDie(p)
    \/ \E u \in Users, change \in Transitions : Moderate(u, change)

OnbSpec == OnbInit /\ [][OnbNext]_onbVars

-----------------------------------------------------------------------------
(* Properties.                                                             *)

\* Of one person's accounts all but one are deleted or banned, whatever
\* requests complete together, and whichever deleted account a moderator acts
\* on after its owner came back ("at most one active user account",
\* identity.ts).
OneAccountPerIdentity ==
    \A d \in Docs :
        Cardinality({u \in Users :
            /\ accounts[u] # Null /\ accounts[u].identity = d
            /\ accounts[u].status \notin {"banned", "self_deleted"}}) <= 1

\* Completing a session signs in to (and may set the PIN of) an account of the
\* very document this session verified, even when a stale step made the
\* session verify another document meanwhile (complete's matchedUserId).
RecoveryIsOwn ==
    \A x \in signedIn : accounts[x[2]] # Null /\ accounts[x[2]].identity = x[1]

\* "Your previous handle is reserved for your return": nobody else has the
\* handle a deleted identity left with (validateHandleForSession).
HandleIsReserved ==
    \A d \in Docs : \A u \in Users :
        /\ identities[d] # Null /\ identities[d].status = "self_deleted"
        /\ accounts[u] # Null /\ accounts[u].identity # d
        => accounts[u].handle # identities[d].lastHandle \/ accounts[u].handle = Tombstone

=============================================================================

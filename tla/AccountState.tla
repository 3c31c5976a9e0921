---------------------------- MODULE AccountState ----------------------------
(***************************************************************************)
(* What a row of users says about an account, shared by the models of      *)
(* sign-in (Sessions) and of the account's life (Onboarding).  The         *)
(* statuses under_review and restricted are treated alike everywhere, and  *)
(* so are banned and ousted: one of each stands for both.  is_active is    *)
(* always written together with the status and follows from it.            *)
(***************************************************************************)
EXTENDS Integers, FiniteSets

CONSTANTS
    Users,      \* user ids
    Procs,      \* requests in flight
    Null        \* SQL NULL / no row

ASSUME AccountsAssumption == IsFiniteSet(Users) /\ IsFiniteSet(Procs) /\ Null \notin Users

Statuses == {"active", "restricted", "suspended", "banned", "self_deleted"}

\* authBlockReason: a restricted account still signs in.
CanAuth(status) == status \in {"active", "restricted"}

\* (Mutant: the index leaves suspended accounts out.)
HoldsIdentityUnlessSuspended(status) == status \in {"active", "restricted"}

\* The rows the partial unique index uq_users_active_identity ranges over.
HoldsIdentity(status) == status \in {"active", "restricted", "suspended"}

=============================================================================

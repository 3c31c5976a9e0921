----------------------------- MODULE MCAccounts -----------------------------
(***************************************************************************)
(* Sign-in and the life of accounts, checked in one run.  They share only  *)
(* which accounts may authenticate: Sessions lets that change at any time, *)
(* and Onboarding sees a sign-in as one step.  So a behaviour follows one  *)
(* of them and leaves the other where it began.                            *)
(***************************************************************************)
EXTENDS Onboarding, Sessions, TLC

VARIABLE side

Init ==
    /\ SessInit
    /\ OnbInit
    /\ \/ side = "onboarding"
       \/ side = "sign_in" /\ accounts = [u \in Users |-> Null]

Next ==
    /\ side' = side
    /\ \/ side = "onboarding" /\ OnbNext  /\ UNCHANGED sessVars
       \/ side = "sign_in"    /\ SessNext /\ UNCHANGED onbVars

Spec == Init /\ [][Next]_<<sessVars, onbVars, side>>

Sym ==      Permutations(Users) \cup Permutations(Procs) \cup Permutations(Docs)
       \cup Permutations(RefreshTokens) \cup Permutations(Handles)

\* Sessions, attempts, onboarding and accounts hold only what their rows and
\* requests can hold, whichever of the two modules a behaviour follows.
AccountsTypeOK == SessTypeOK /\ OnbTypeOK /\ side \in {"onboarding", "sign_in"}

=============================================================================

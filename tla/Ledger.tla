------------------------------- MODULE Ledger -------------------------------
(***************************************************************************)
(* What the wallet promises its callers, with no database in sight: a      *)
(* balance per user and the set of entries posted so far.  A posting is    *)
(* one atomic step, a reference is posted at most once for all users, and  *)
(* no posting takes a balance below zero.  WalletTxn implements this       *)
(* specification under the refinement mapping given there.                 *)
(***************************************************************************)
EXTENDS Integers

CONSTANTS
    Users,      \* account holders
    Refs,       \* idempotency references of the postings
    Amounts,    \* signed deltas a caller may ask for (paise)
    Null        \* "no wallet row yet"

VARIABLES
    balance,    \* [Users -> balance, or Null before the wallet exists]
    posted      \* set of [user, ref, amount]

ledgerVars == <<balance, posted>>

Init ==
    /\ balance = [u \in Users |-> Null]
    /\ posted = {}

\* A wallet is opened empty.
Open(u) ==
    /\ balance[u] = Null
    /\ balance' = [balance EXCEPT ![u] = 0]
    /\ UNCHANGED posted

\* One posting: a new reference, an existing wallet, no overdraft.
Post(u, ref, amount) ==
    /\ balance[u] # Null
    /\ \A e \in posted : e.ref # ref
    /\ balance[u] + amount >= 0
    /\ balance' = [balance EXCEPT ![u] = @ + amount]
    /\ posted' = posted \cup {[user |-> u, ref |-> ref, amount |-> amount]}

Next ==
    \E u \in Users :
        \/ Open(u)
        \/ \E ref \in Refs, amount \in Amounts : Post(u, ref, amount)

Spec == Init /\ [][Next]_ledgerVars
=============================================================================

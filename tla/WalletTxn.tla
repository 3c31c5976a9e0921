----------------------------- MODULE WalletTxn -----------------------------
(***************************************************************************)
(* The wallet tables and the one transaction that writes them,             *)
(* wallet.repository.ts:applyTxn, at the grain of its SQL statements under *)
(* READ COMMITTED: the idempotency lookup, the row lock (SELECT ... FOR    *)
(* UPDATE), and the update + insert that commit.  The lookup is done       *)
(* BEFORE the lock is taken, so it is the unique index on                  *)
(* wallet_transactions.ref, not the lookup, that stops a reference from    *)
(* being applied twice.  A connection may be lost between any two          *)
(* statements; the database then rolls back and drops the lock.            *)
(*                                                                         *)
(* TxnSpec runs the transaction under its most general caller: any         *)
(* request, for any user, reference and amount, repeated at will.  Wallet  *)
(* and MaskedCall compose the same actions with the code's real callers.   *)
(***************************************************************************)
EXTENDS Integers, Sequences, FiniteSets

CONSTANTS
    Users,      \* account holders
    Refs,       \* values of the ref column callers use
    Amounts,    \* signed deltas of the general caller
    Procs,      \* request handlers in flight (database connections)
    Null        \* SQL NULL / no row

ASSUME AmountsAssumption == Amounts \subseteq Int
ASSUME NullAssumption    == Null \notin Int /\ Null \notin Procs

VARIABLES
    wallets,    \* [Users -> balance_paise, or Null when the row is missing]
    entries,    \* [Users -> Seq of wallet_transactions rows, in commit order]
    rowLock,    \* [Users -> handler holding the wallet row's lock, or Null]
    tx          \* [Procs -> state of the handler's applyTxn call]

txnVars == <<wallets, entries, rowLock, tx>>

Entry == [ref: Refs, amount: Int, balanceAfter: Int]

NoTxn == [pc |-> "none"]
Outcomes == {"applied", "replayed", "not_found", "insufficient", "duplicate"}
Running == [pc: {"prior", "lock"}, user: Users, ref: Refs, amount: Amounts]
Writing == [pc: {"write"}, user: Users, ref: Refs, amount: Amounts, next: Int]
Done    == [pc: {"done"}, user: Users, ref: Refs, amount: Amounts, outcome: Outcomes]

TxnTypeOK ==
    /\ wallets \in [Users -> Int \cup {Null}]
    /\ entries \in [Users -> Seq(Entry)]
    /\ rowLock \in [Users -> Procs \cup {Null}]
    /\ tx \in [Procs -> {NoTxn} \cup Running \cup Writing \cup Done]

TxnInit ==
    /\ wallets = [u \in Users |-> Null]
    /\ entries = [u \in Users |-> <<>>]
    /\ rowLock = [u \in Users |-> Null]
    /\ tx = [p \in Procs |-> NoTxn]

-----------------------------------------------------------------------------
(* ensureWallet: INSERT ... ON CONFLICT DO NOTHING, then read the row.     *)
Ensured(u) == [wallets EXCEPT ![u] = IF @ = Null THEN 0 ELSE @]

\* The transaction a caller starts: db.transaction(async (tx) => ...).
Started(u, ref, amount) ==
    [pc |-> "prior", user |-> u, ref |-> ref, amount |-> amount]

Finished(p, result) ==
    [pc |-> "done", user |-> tx[p].user, ref |-> tx[p].ref,
     amount |-> tx[p].amount, outcome |-> result]

\* The user's own committed rows carrying this reference.
HasPrior(u, ref) == \E i \in DOMAIN entries[u] : entries[u][i].ref = ref

\* idx_wallet_txn_ref_unique: the index ranges over every user's rows.
RefTaken(ref) == \E u \in Users : HasPrior(u, ref)

\* Statement 1: a prior entry with this ref wins and is returned unchanged.
ReadPrior(p) ==
    /\ tx[p].pc = "prior"
    /\ tx' = [tx EXCEPT ![p] =
                 IF HasPrior(tx[p].user, tx[p].ref)
                 THEN Finished(p, "replayed")
                 ELSE [@ EXCEPT !.pc = "lock"]]
    /\ UNCHANGED <<wallets, entries, rowLock>>

\* (Mutant: the balance is read with a plain SELECT, so nothing is waited for
\* and nothing is locked.)
ReadRowUnlocked(p) ==
    LET next == wallets[tx[p].user] + tx[p].amount
    IN  /\ tx[p].pc = "lock"
        /\ tx' = [tx EXCEPT ![p] =
                     IF wallets[@.user] = Null THEN Finished(p, "not_found")
                     ELSE IF next < 0 THEN Finished(p, "insufficient")
                     ELSE [pc |-> "write", user |-> @.user, ref |-> @.ref,
                           amount |-> @.amount, next |-> next]]
        /\ UNCHANGED <<wallets, entries, rowLock>>

\* Statement 2: SELECT ... FOR UPDATE waits for the holder of the row; the
\* checks throw, which rolls the transaction back and frees the row.
LockRow(p) ==
    LET u    == tx[p].user
        next == wallets[u] + tx[p].amount
    IN  /\ tx[p].pc = "lock"
        /\ rowLock[u] = Null
        /\ IF wallets[u] = Null
           THEN /\ tx' = [tx EXCEPT ![p] = Finished(p, "not_found")]
                /\ UNCHANGED rowLock
           ELSE IF next < 0
           THEN /\ tx' = [tx EXCEPT ![p] = Finished(p, "insufficient")]
                /\ UNCHANGED rowLock
           ELSE /\ tx' = [tx EXCEPT ![p] =
                            [pc |-> "write", user |-> u, ref |-> @.ref,
                             amount |-> @.amount, next |-> next]]
                /\ rowLock' = [rowLock EXCEPT ![u] = p]
        /\ UNCHANGED <<wallets, entries>>

Posting(p) ==
    entries' = [entries EXCEPT ![tx[p].user] =
                  Append(@, [ref |-> tx[p].ref, amount |-> tx[p].amount,
                             balanceAfter |-> tx[p].next])]

\* (Mutant: wallet_transactions.ref has no unique index.)
WriteWithoutUniqueRef(p) ==
    /\ tx[p].pc = "write"
    /\ wallets' = [wallets EXCEPT ![tx[p].user] = tx[p].next]
    /\ Posting(p)
    /\ tx' = [tx EXCEPT ![p] = Finished(p, "applied")]
    /\ rowLock' = [rowLock EXCEPT ![tx[p].user] = Null]

\* (Mutant: update and insert are not one transaction, so a failed insert
\* leaves the update in place.)
WriteWithoutTransaction(p) ==
    /\ tx[p].pc = "write"
    /\ wallets' = [wallets EXCEPT ![tx[p].user] = tx[p].next]
    /\ IF RefTaken(tx[p].ref)
       THEN tx' = [tx EXCEPT ![p] = Finished(p, "duplicate")] /\ UNCHANGED entries
       ELSE tx' = [tx EXCEPT ![p] = Finished(p, "applied")] /\ Posting(p)
    /\ rowLock' = [rowLock EXCEPT ![tx[p].user] = Null]

\* (Mutant: the error path of the insert keeps the transaction open.)
WriteKeepingLockOnError(p) ==
    /\ tx[p].pc = "write"
    /\ IF RefTaken(tx[p].ref)
       THEN /\ tx' = [tx EXCEPT ![p] = Finished(p, "duplicate")]
            /\ UNCHANGED <<wallets, entries, rowLock>>
       ELSE /\ wallets' = [wallets EXCEPT ![tx[p].user] = tx[p].next]
            /\ Posting(p)
            /\ tx' = [tx EXCEPT ![p] = Finished(p, "applied")]
            /\ rowLock' = [rowLock EXCEPT ![tx[p].user] = Null]

\* Statements 3 and 4 and the commit.  A reference already in the table
\* fails the insert: the update is rolled back with it.
WriteAndCommit(p) ==
    LET u == tx[p].user
    IN  /\ tx[p].pc = "write"
        /\ IF RefTaken(tx[p].ref)
           THEN /\ tx' = [tx EXCEPT ![p] = Finished(p, "duplicate")]
                /\ UNCHANGED <<wallets, entries>>
           ELSE /\ wallets' = [wallets EXCEPT ![u] = tx[p].next]
                /\ entries' = [entries EXCEPT ![u] =
                                 Append(@, [ref |-> tx[p].ref,
                                            amount |-> tx[p].amount,
                                            balanceAfter |-> tx[p].next])]
                /\ tx' = [tx EXCEPT ![p] = Finished(p, "applied")]
        /\ rowLock' = [rowLock EXCEPT ![u] = Null]

\* The connection or the process is lost: everything uncommitted is undone.
AbortTxn(p) ==
    /\ tx' = [tx EXCEPT ![p] = NoTxn]
    /\ rowLock' = [u \in Users |-> IF rowLock[u] = p THEN Null ELSE rowLock[u]]
    /\ UNCHANGED <<wallets, entries>>

TxnStep(p) == ReadPrior(p) \/ LockRow(p) \/ WriteAndCommit(p)

-----------------------------------------------------------------------------
(* The most general caller.                                                *)
OpenWallet(u) ==
    /\ wallets' = Ensured(u)
    /\ UNCHANGED <<entries, rowLock, tx>>

BeginTxn(p, u, ref, amount) ==
    /\ tx[p] = NoTxn
    /\ tx' = [tx EXCEPT ![p] = Started(u, ref, amount)]
    /\ UNCHANGED <<wallets, entries, rowLock>>

EndTxn(p) ==
    /\ tx[p].pc = "done"
    /\ tx' = [tx EXCEPT ![p] = NoTxn]
    /\ UNCHANGED <<wallets, entries, rowLock>>

TxnNext ==
    \/ \E u \in Users : OpenWallet(u)
    \/ \E p \in Procs :
          \/ \E u \in Users, ref \in Refs, amount \in Amounts :
                BeginTxn(p, u, ref, amount)
          \/ TxnStep(p)
          \/ AbortTxn(p)
          \/ EndTxn(p)

TxnSpec == TxnInit /\ [][TxnNext]_txnVars

(***************************************************************************)
(* A handler's own statements are executed as long as its connection       *)
(* lives, and PostgreSQL queues the waiters of a row lock, so a waiter     *)
(* that finds the row free again and again gets it.                        *)
(***************************************************************************)
TxnFairness ==
    \A p \in Procs :
        /\ WF_txnVars(ReadPrior(p))
        /\ SF_txnVars(LockRow(p))
        /\ WF_txnVars(WriteAndCommit(p))

FairTxnSpec == TxnSpec /\ TxnFairness

-----------------------------------------------------------------------------
(* Properties.                                                             *)

\* balance_after really is a running balance: every row's snapshot is the
\* previous row's plus its own amount, none is negative, and the wallet row
\* equals the last snapshot.  Concurrent debits and credits that read the same
\* balance would break it (applyTxn's FOR UPDATE).
Previous(u, i) == IF i = 1 THEN 0 ELSE entries[u][i - 1].balanceAfter

RunningBalance ==
    \A u \in Users :
        /\ \A i \in DOMAIN entries[u] :
              /\ entries[u][i].balanceAfter = Previous(u, i) + entries[u][i].amount
              /\ entries[u][i].balanceAfter >= 0
        /\ entries[u] # <<>> =>
              wallets[u] = entries[u][Len(entries[u])].balanceAfter
        /\ entries[u] = <<>> => wallets[u] \in {0, Null}

\* A reference is applied at most once over all wallets, whatever the retries
\* and the races between the lookup and the insert ("a replayed provider
\* callback or client retry never double-applies").
AppliedOnce ==
    \A u, v \in Users : \A i \in DOMAIN entries[u], j \in DOMAIN entries[v] :
        entries[u][i].ref = entries[v][j].ref => u = v /\ i = j

\* A row lock is held by a transaction about to write that very row, and the
\* balance it computed under the lock is still current, and no overdraw,
\* when it commits.
LockedReadIsCurrent ==
    \A p \in Procs :
        tx[p].pc = "write" =>
            /\ rowLock[tx[p].user] = p
            /\ wallets[tx[p].user] \in Int
            /\ tx[p].next = wallets[tx[p].user] + tx[p].amount
            /\ tx[p].next >= 0

\* Every transaction ends, so no failed check or failed insert of another
\* handler leaves the wallet row locked for ever.
TxnEnds ==
    \A p \in Procs : tx[p].pc = "prior" ~> tx[p].pc \in {"done", "none"}

(***************************************************************************)
(* Refinement: the tables implement the atomic ledger.                     *)
(***************************************************************************)
PostedBy(u) ==
    {[user |-> u, ref |-> entries[u][i].ref, amount |-> entries[u][i].amount] :
        i \in DOMAIN entries[u]}

Posted == UNION {PostedBy(u) : u \in Users}

L == INSTANCE Ledger WITH balance <- wallets, posted <- Posted

\* The committed tables only ever change as one atomic, idempotent posting.
ImplementsLedger == L!Spec

=============================================================================

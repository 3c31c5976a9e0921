-------------------------- MODULE WalletTxnProofs --------------------------
(***************************************************************************)
(* Proofs about applyTxn under its most general caller.  The inductive     *)
(* invariant is the conjunction of the type invariant, what the row lock   *)
(* guarantees, and the two properties of the committed rows.               *)
(***************************************************************************)
EXTENDS WalletTxn, TLAPS

TxnInv ==
    /\ TxnTypeOK
    /\ LockedReadIsCurrent
    /\ RunningBalance
    /\ AppliedOnce

-----------------------------------------------------------------------------
(* Type correctness.                                                       *)

\* The pc of a transaction says which kind of record it is.
LEMMA TxnKinds ==
    ASSUME TxnTypeOK, NEW p \in Procs
    PROVE  /\ tx[p].pc \in {"prior", "lock"} => tx[p] \in Running
           /\ tx[p].pc = "write" => tx[p] \in Writing
           /\ tx[p].pc = "done" => tx[p] \in Done
<1>1. tx[p] \in {NoTxn} \cup Running \cup Writing \cup Done
  BY DEF TxnTypeOK
<1>2. NoTxn.pc = "none"
  BY DEF NoTxn
<1>3. \A r \in Running : r.pc \in {"prior", "lock"}
  BY DEF Running
<1>4. \A r \in Writing : r.pc = "write"
  BY DEF Writing
<1>5. \A r \in Done : r.pc = "done"
  BY DEF Done
<1> QED
  BY <1>1, <1>2, <1>3, <1>4, <1>5

LEMMA TxnInitType == TxnInit => TxnTypeOK
BY DEF TxnInit, TxnTypeOK

LEMMA EnsuredType ==
    ASSUME NEW u \in Users, wallets \in [Users -> Int \cup {Null}]
    PROVE  Ensured(u) \in [Users -> Int \cup {Null}]
BY DEF Ensured

LEMMA ReadPriorType ==
    ASSUME TxnTypeOK, NEW p \in Procs, ReadPrior(p)
    PROVE  TxnTypeOK'
<1>1. tx[p] \in Running
  BY TxnKinds DEF ReadPrior
<1>2. Finished(p, "replayed") \in Done
  BY <1>1 DEF Finished, Done, Running, Outcomes
<1>3. [tx[p] EXCEPT !.pc = "lock"] \in Running
  BY <1>1 DEF Running
<1> QED
  BY <1>2, <1>3 DEF TxnTypeOK, ReadPrior

LEMMA LockRowType ==
    ASSUME TxnTypeOK, NEW p \in Procs, LockRow(p)
    PROVE  TxnTypeOK'
<1> DEFINE u == tx[p].user
           next == wallets[u] + tx[p].amount
<1>1. tx[p] \in Running
  BY TxnKinds DEF LockRow
<1>2. u \in Users /\ tx[p].amount \in Int
  BY <1>1, AmountsAssumption DEF Running
<1>3. \A r \in Outcomes : Finished(p, r) \in Done
  BY <1>1 DEF Finished, Done, Running
<1>4. CASE wallets[u] = Null
  BY <1>3, <1>4 DEF TxnTypeOK, LockRow, Outcomes
<1>5. CASE wallets[u] # Null /\ next < 0
  BY <1>3, <1>5 DEF TxnTypeOK, LockRow, Outcomes
<1>6. CASE wallets[u] # Null /\ ~(next < 0)
  <2>1. wallets[u] \in Int
    BY <1>2, <1>6 DEF TxnTypeOK
  <2>2. [pc |-> "write", user |-> u, ref |-> tx[p].ref,
         amount |-> tx[p].amount, next |-> next] \in Writing
    BY <1>1, <1>2, <2>1 DEF Writing, Running
  <2> QED
    BY <1>2, <1>6, <2>2 DEF TxnTypeOK, LockRow
<1> QED
  BY <1>4, <1>5, <1>6

LEMMA WriteType ==
    ASSUME TxnTypeOK, NEW p \in Procs, WriteAndCommit(p)
    PROVE  TxnTypeOK'
<1> DEFINE u == tx[p].user
           e == [ref |-> tx[p].ref, amount |-> tx[p].amount,
                 balanceAfter |-> tx[p].next]
<1>1. tx[p] \in Writing
  BY TxnKinds DEF WriteAndCommit
<1>2. u \in Users /\ tx[p].next \in Int /\ e \in Entry
  BY <1>1, AmountsAssumption DEF Writing, Entry
<1>3. \A r \in Outcomes : Finished(p, r) \in Done
  BY <1>1 DEF Finished, Done, Writing
<1>4. Append(entries[u], e) \in Seq(Entry)
  BY <1>2 DEF TxnTypeOK
<1>5. rowLock' \in [Users -> Procs \cup {Null}]
  BY <1>2 DEF TxnTypeOK, WriteAndCommit
<1>6. CASE RefTaken(tx[p].ref)
  BY <1>3, <1>5, <1>6 DEF TxnTypeOK, WriteAndCommit, Outcomes
<1>7. CASE ~RefTaken(tx[p].ref)
  BY <1>2, <1>3, <1>4, <1>5, <1>7 DEF TxnTypeOK, WriteAndCommit, Outcomes
<1> QED
  BY <1>6, <1>7

LEMMA CallerType ==
    ASSUME TxnTypeOK, NEW p \in Procs
    PROVE  /\ AbortTxn(p) => TxnTypeOK'
           /\ EndTxn(p) => TxnTypeOK'
           /\ \A u \in Users, ref \in Refs, amount \in Amounts :
                 BeginTxn(p, u, ref, amount) => TxnTypeOK'
<1>1. AbortTxn(p) => TxnTypeOK'
  BY DEF TxnTypeOK, AbortTxn
<1>2. EndTxn(p) => TxnTypeOK'
  BY DEF TxnTypeOK, EndTxn
<1>3. ASSUME NEW u \in Users, NEW ref \in Refs, NEW amount \in Amounts,
             BeginTxn(p, u, ref, amount)
      PROVE  TxnTypeOK'
  <2>1. Started(u, ref, amount) \in Running
    BY DEF Started, Running
  <2> QED
    BY <1>3, <2>1 DEF TxnTypeOK, BeginTxn
<1> QED
  BY <1>1, <1>2, <1>3

LEMMA TxnNextType == TxnTypeOK /\ [TxnNext]_txnVars => TxnTypeOK'
<1> SUFFICES ASSUME TxnTypeOK, [TxnNext]_txnVars
             PROVE  TxnTypeOK'
  OBVIOUS
<1>1. ASSUME NEW u \in Users, OpenWallet(u)
      PROVE  TxnTypeOK'
  BY <1>1, EnsuredType DEF TxnTypeOK, OpenWallet
<1>2. ASSUME NEW p \in Procs, TxnStep(p)
      PROVE  TxnTypeOK'
  BY <1>2, ReadPriorType, LockRowType, WriteType DEF TxnStep
<1>3. CASE UNCHANGED txnVars
  BY <1>3 DEF TxnTypeOK, txnVars
<1> QED
  BY <1>1, <1>2, <1>3, CallerType DEF TxnNext

\* The tables and the handlers' transactions keep their types for any users,
\* references, amounts and number of concurrent handlers.
THEOREM TxnTypeCorrect == TxnSpec => []TxnTypeOK
BY TxnInitType, TxnNextType, PTL DEF TxnSpec

-----------------------------------------------------------------------------
(* Safety.  Each lemma is one step of the transaction.                     *)

LEMMA TxnInitInv == TxnInit => TxnInv
<1> SUFFICES ASSUME TxnInit PROVE TxnInv
  OBVIOUS
<1>1. LockedReadIsCurrent
  BY DEF TxnInit, LockedReadIsCurrent, NoTxn
<1>2. RunningBalance
  BY DEF TxnInit, RunningBalance
<1>3. AppliedOnce
  BY DEF TxnInit, AppliedOnce
<1> QED
  BY <1>1, <1>2, <1>3, TxnInitType DEF TxnInv

\* A step that leaves the committed rows and the balances alone keeps what
\* is said of them.
LEMMA SameRows ==
    ASSUME RunningBalance, AppliedOnce, UNCHANGED <<wallets, entries>>
    PROVE  RunningBalance' /\ AppliedOnce'
<1>1. RunningBalance'
  BY DEF RunningBalance, Previous
<1>2. AppliedOnce'
  BY DEF AppliedOnce
<1> QED
  BY <1>1, <1>2

LEMMA OpenWalletInv ==
    ASSUME TxnInv, NEW u \in Users, OpenWallet(u)
    PROVE  LockedReadIsCurrent' /\ RunningBalance' /\ AppliedOnce'
<1>1. \A v \in Users : wallets'[v] = IF wallets[v] = Null /\ v = u THEN 0 ELSE wallets[v]
  BY DEF TxnInv, TxnTypeOK, OpenWallet, Ensured
<1>2. entries' = entries /\ rowLock' = rowLock /\ tx' = tx
  BY DEF OpenWallet
<1>3. LockedReadIsCurrent'
  <2> SUFFICES ASSUME NEW p \in Procs, tx[p].pc = "write"
               PROVE  /\ rowLock[tx[p].user] = p
                      /\ wallets'[tx[p].user] \in Int
                      /\ tx[p].next = wallets'[tx[p].user] + tx[p].amount
                      /\ tx[p].next >= 0
    BY <1>2 DEF LockedReadIsCurrent
  <2>1. tx[p].user \in Users
    BY TxnKinds DEF TxnInv, Writing
  <2>2. wallets[tx[p].user] \in Int
    BY DEF TxnInv, LockedReadIsCurrent
  <2>3. wallets'[tx[p].user] = wallets[tx[p].user]
    BY <1>1, <2>1, <2>2, NullAssumption
  <2> QED
    BY <2>2, <2>3 DEF TxnInv, LockedReadIsCurrent
<1>4. RunningBalance'
  <2> SUFFICES ASSUME NEW v \in Users
               PROVE  /\ \A i \in DOMAIN entries[v] :
                            /\ entries[v][i].balanceAfter =
                                 (IF i = 1 THEN 0 ELSE entries[v][i - 1].balanceAfter)
                                   + entries[v][i].amount
                            /\ entries[v][i].balanceAfter >= 0
                      /\ entries[v] # <<>> =>
                            wallets'[v] = entries[v][Len(entries[v])].balanceAfter
                      /\ entries[v] = <<>> => wallets'[v] \in {0, Null}
    BY <1>2 DEF RunningBalance, Previous
  <2>1. entries[v] # <<>> => wallets[v] \in Int
    <3>1. ASSUME entries[v] # <<>>
          PROVE  /\ Len(entries[v]) \in 1 .. Len(entries[v])
                 /\ entries[v][Len(entries[v])] \in Entry
      BY <3>1 DEF TxnInv, TxnTypeOK
    <3> QED
      BY <3>1 DEF TxnInv, RunningBalance, Entry
  <2> QED
    BY <1>1, <2>1, NullAssumption DEF TxnInv, RunningBalance, Previous
<1>5. AppliedOnce'
  BY <1>2 DEF TxnInv, AppliedOnce
<1> QED
  BY <1>3, <1>4, <1>5

\* A step of p that writes no row keeps the lock discipline if it takes no
\* lock of another handler and leaves p itself not writing.
LEMMA NotWriting ==
    ASSUME TxnInv, NEW p \in Procs, NEW t,
           tx' = [tx EXCEPT ![p] = t], t.pc # "write", wallets' = wallets,
           \A u \in Users : rowLock[u] # p => rowLock'[u] = rowLock[u]
    PROVE  LockedReadIsCurrent'
<1> SUFFICES ASSUME NEW q \in Procs, tx'[q].pc = "write"
             PROVE  /\ rowLock'[tx'[q].user] = q
                    /\ wallets'[tx'[q].user] \in Int
                    /\ tx'[q].next = wallets'[tx'[q].user] + tx'[q].amount
                    /\ tx'[q].next >= 0
  BY DEF LockedReadIsCurrent
<1>1. q # p /\ tx'[q] = tx[q]
  BY DEF TxnInv, TxnTypeOK
<1>2. tx[q].user \in Users
  BY <1>1, TxnKinds DEF TxnInv, Writing
<1> QED
  BY <1>1, <1>2 DEF TxnInv, LockedReadIsCurrent

LEMMA ReadPriorInv ==
    ASSUME TxnInv, NEW p \in Procs, ReadPrior(p)
    PROVE  LockedReadIsCurrent' /\ RunningBalance' /\ AppliedOnce'
<1> DEFINE t == IF HasPrior(tx[p].user, tx[p].ref)
                THEN Finished(p, "replayed")
                ELSE [tx[p] EXCEPT !.pc = "lock"]
<1>1. tx[p] \in Running
  BY TxnKinds DEF ReadPrior, TxnInv
<1>2. t.pc # "write"
  BY <1>1 DEF Finished, Running
<1>3. tx' = [tx EXCEPT ![p] = t] /\ UNCHANGED <<wallets, entries, rowLock>>
  BY DEF ReadPrior
<1>4. LockedReadIsCurrent'
  BY <1>2, <1>3, NotWriting
<1> QED
  BY <1>3, <1>4, SameRows DEF TxnInv

LEMMA LockRowInv ==
    ASSUME TxnInv, NEW p \in Procs, LockRow(p)
    PROVE  LockedReadIsCurrent' /\ RunningBalance' /\ AppliedOnce'
<1> DEFINE u == tx[p].user
           next == wallets[u] + tx[p].amount
<1>1. tx[p] \in Running
  BY TxnKinds DEF LockRow, TxnInv
<1>2. u \in Users /\ tx[p].amount \in Int
  BY <1>1, AmountsAssumption DEF Running
<1>3. UNCHANGED <<wallets, entries>>
  BY DEF LockRow
<1>4. LockedReadIsCurrent'
  <2>1. CASE wallets[u] = Null
    <3>1. tx' = [tx EXCEPT ![p] = Finished(p, "not_found")] /\ rowLock' = rowLock
      BY <2>1 DEF LockRow
    <3>2. Finished(p, "not_found").pc # "write"
      BY DEF Finished
    <3> QED
      BY <1>3, <3>1, <3>2, NotWriting
  <2>2. CASE wallets[u] # Null /\ next < 0
    <3>1. tx' = [tx EXCEPT ![p] = Finished(p, "insufficient")] /\ rowLock' = rowLock
      BY <2>2 DEF LockRow
    <3>2. Finished(p, "insufficient").pc # "write"
      BY DEF Finished
    <3> QED
      BY <1>3, <3>1, <3>2, NotWriting
  <2>3. CASE wallets[u] # Null /\ ~(next < 0)
    <3>1. wallets[u] \in Int /\ next >= 0
      BY <1>2, <2>3 DEF TxnInv, TxnTypeOK
    <3>2. /\ rowLock[u] = Null
          /\ rowLock' = [rowLock EXCEPT ![u] = p]
          /\ tx' = [tx EXCEPT ![p] =
                       [pc |-> "write", user |-> u, ref |-> tx[p].ref,
                        amount |-> tx[p].amount, next |-> next]]
      BY <2>3 DEF LockRow
    <3> SUFFICES ASSUME NEW q \in Procs, tx'[q].pc = "write"
                 PROVE  /\ rowLock'[tx'[q].user] = q
                        /\ wallets[tx'[q].user] \in Int
                        /\ tx'[q].next = wallets[tx'[q].user] + tx'[q].amount
                        /\ tx'[q].next >= 0
      BY <1>3 DEF LockedReadIsCurrent
    <3>3. CASE q = p
      BY <1>2, <3>1, <3>2, <3>3 DEF TxnInv, TxnTypeOK
    <3>4. CASE q # p
      <4>1. tx'[q] = tx[q]
        BY <3>2, <3>4 DEF TxnInv, TxnTypeOK
      <4>2. tx[q].user \in Users /\ rowLock[tx[q].user] = q
        BY <4>1, TxnKinds DEF TxnInv, Writing, LockedReadIsCurrent
      <4>3. tx[q].user # u
        BY <3>2, <4>2, NullAssumption
      <4> QED
        BY <3>2, <4>1, <4>2, <4>3 DEF TxnInv, LockedReadIsCurrent, TxnTypeOK
    <3> QED
      BY <3>3, <3>4
  <2> QED
    BY <2>1, <2>2, <2>3
<1> QED
  BY <1>3, <1>4, SameRows DEF TxnInv

LEMMA WriteInv ==
    ASSUME TxnInv, NEW p \in Procs, WriteAndCommit(p)
    PROVE  LockedReadIsCurrent' /\ RunningBalance' /\ AppliedOnce'
<1> DEFINE u == tx[p].user
           e == [ref |-> tx[p].ref, amount |-> tx[p].amount,
                 balanceAfter |-> tx[p].next]
<1>1. tx[p] \in Writing
  BY TxnKinds DEF WriteAndCommit, TxnInv
<1>2. u \in Users /\ tx[p].amount \in Int /\ tx[p].next \in Int
  BY <1>1, AmountsAssumption DEF Writing
<1>3. /\ rowLock[u] = p
      /\ wallets[u] \in Int
      /\ tx[p].next = wallets[u] + tx[p].amount
      /\ tx[p].next >= 0
  BY DEF WriteAndCommit, TxnInv, LockedReadIsCurrent
<1>4. \A v \in Users : rowLock[v] # p => rowLock'[v] = rowLock[v]
  BY <1>3 DEF WriteAndCommit, TxnInv, TxnTypeOK
<1>5. CASE RefTaken(tx[p].ref)
  <2>1. tx' = [tx EXCEPT ![p] = Finished(p, "duplicate")] /\ UNCHANGED <<wallets, entries>>
    BY <1>5 DEF WriteAndCommit
  <2>2. Finished(p, "duplicate").pc # "write"
    BY DEF Finished
  <2>3. LockedReadIsCurrent'
    BY <1>4, <2>1, <2>2, NotWriting
  <2> QED
    BY <2>1, <2>3, SameRows DEF TxnInv
<1>6. CASE ~RefTaken(tx[p].ref)
  <2>1. /\ wallets' = [wallets EXCEPT ![u] = tx[p].next]
        /\ entries' = [entries EXCEPT ![u] = Append(@, e)]
        /\ tx' = [tx EXCEPT ![p] = Finished(p, "applied")]
    BY <1>6 DEF WriteAndCommit
  <2>2. /\ wallets'[u] = tx[p].next
        /\ entries'[u] = Append(entries[u], e)
        /\ \A v \in Users : v # u => wallets'[v] = wallets[v] /\ entries'[v] = entries[v]
    BY <1>2, <2>1 DEF TxnInv, TxnTypeOK
  <2>3. LockedReadIsCurrent'
    <3> SUFFICES ASSUME NEW q \in Procs, tx'[q].pc = "write"
                 PROVE  /\ rowLock'[tx'[q].user] = q
                        /\ wallets'[tx'[q].user] \in Int
                        /\ tx'[q].next = wallets'[tx'[q].user] + tx'[q].amount
                        /\ tx'[q].next >= 0
      BY DEF LockedReadIsCurrent
    <3>1. q # p /\ tx'[q] = tx[q]
      BY <2>1 DEF TxnInv, TxnTypeOK, Finished
    <3>2. tx[q].user \in Users /\ rowLock[tx[q].user] = q
      BY <3>1, TxnKinds DEF TxnInv, Writing, LockedReadIsCurrent
    <3>3. tx[q].user # u
      BY <1>3, <3>1, <3>2
    <3> QED
      BY <1>4, <2>2, <3>1, <3>2, <3>3 DEF TxnInv, LockedReadIsCurrent
  <2>4. RunningBalance'
    <3> SUFFICES ASSUME NEW v \in Users
                 PROVE  /\ \A i \in DOMAIN entries'[v] :
                              /\ entries'[v][i].balanceAfter =
                                   (IF i = 1 THEN 0 ELSE entries'[v][i - 1].balanceAfter)
                                     + entries'[v][i].amount
                              /\ entries'[v][i].balanceAfter >= 0
                        /\ entries'[v] # <<>> =>
                              wallets'[v] = entries'[v][Len(entries'[v])].balanceAfter
                        /\ entries'[v] = <<>> => wallets'[v] \in {0, Null}
      BY DEF RunningBalance, Previous
    <3>1. CASE v # u
      BY <2>2, <3>1 DEF TxnInv, RunningBalance, Previous
    <3>2. CASE v = u
      <4> DEFINE n == Len(entries[u])
      <4>1. /\ entries[u] \in Seq(Entry)
            /\ n \in Nat
            /\ DOMAIN entries[u] = 1 .. n
        BY <1>2 DEF TxnInv, TxnTypeOK
      <4>2. /\ Len(entries'[u]) = n + 1
            /\ DOMAIN entries'[u] = 1 .. (n + 1)
            /\ \A i \in 1 .. n : entries'[u][i] = entries[u][i]
            /\ entries'[u][n + 1] = e
        BY <2>2, <4>1
      <4>3. wallets[u] = IF n = 0 THEN 0 ELSE entries[u][n].balanceAfter
        BY <1>2, <1>3, <4>1, NullAssumption DEF TxnInv, RunningBalance
      <4>4. ASSUME NEW i \in 1 .. n
            PROVE  /\ entries'[u][i].balanceAfter =
                         (IF i = 1 THEN 0 ELSE entries'[u][i - 1].balanceAfter)
                           + entries'[u][i].amount
                   /\ entries'[u][i].balanceAfter >= 0
        <5>1. /\ entries[u][i].balanceAfter =
                    (IF i = 1 THEN 0 ELSE entries[u][i - 1].balanceAfter)
                      + entries[u][i].amount
              /\ entries[u][i].balanceAfter >= 0
          BY <1>2, <4>1 DEF TxnInv, RunningBalance, Previous
        <5>2. i # 1 => i - 1 \in 1 .. n
          BY <4>1
        <5> QED
          BY <4>2, <5>1, <5>2
      <4>5. /\ e.balanceAfter = (IF n + 1 = 1 THEN 0 ELSE entries'[u][n].balanceAfter) + e.amount
            /\ e.balanceAfter >= 0
        <5>1. n # 0 => n \in 1 .. n
          BY <4>1
        <5>2. e.balanceAfter = tx[p].next /\ e.amount = tx[p].amount
          OBVIOUS
        <5> QED
          BY <1>3, <4>1, <4>2, <4>3, <5>1, <5>2
      <4>6. entries'[u] # <<>> /\ wallets'[u] = entries'[u][Len(entries'[u])].balanceAfter
        BY <2>2, <4>1, <4>2
      <4>7. \A i \in 1 .. (n + 1) : i \in 1 .. n \/ i = n + 1
        BY <4>1
      <4>8. (n + 1) - 1 = n
        BY <4>1
      <4> QED
        BY <3>2, <4>2, <4>4, <4>5, <4>6, <4>7, <4>8
    <3> QED
      BY <3>1, <3>2
  <2>5. AppliedOnce'
    <3> SUFFICES ASSUME NEW v \in Users, NEW w \in Users,
                        NEW i \in DOMAIN entries'[v], NEW j \in DOMAIN entries'[w],
                        entries'[v][i].ref = entries'[w][j].ref
                 PROVE  v = w /\ i = j
      BY DEF AppliedOnce
    <3>1. \A x \in Users : \A k \in DOMAIN entries[x] : entries[x][k].ref # tx[p].ref
      BY <1>6 DEF RefTaken, HasPrior
    <3>2. ASSUME NEW x \in Users, NEW k \in DOMAIN entries'[x]
          PROVE  \/ k \in DOMAIN entries[x] /\ entries'[x][k] = entries[x][k]
                 \/ x = u /\ k = Len(entries[u]) + 1 /\ entries'[x][k].ref = tx[p].ref
      <4>1. entries[u] \in Seq(Entry)
        BY <1>2 DEF TxnInv, TxnTypeOK
      <4>2. CASE x # u
        BY <2>2, <3>2, <4>2
      <4>3. CASE x = u
        <5>1. k \in 1 .. (Len(entries[u]) + 1)
          BY <2>2, <3>2, <4>1, <4>3
        <5>2. CASE k = Len(entries[u]) + 1
          <6>1. entries'[u][k] = e
            BY <2>2, <4>1, <5>2
          <6> QED
            BY <4>3, <5>2, <6>1
        <5>3. CASE k \in 1 .. Len(entries[u])
          BY <2>2, <4>1, <4>3, <5>3
        <5> QED
          BY <4>1, <5>1, <5>2, <5>3
      <4> QED
        BY <4>2, <4>3
    <3> QED
      BY <3>1, <3>2 DEF TxnInv, AppliedOnce
  <2> QED
    BY <2>3, <2>4, <2>5
<1> QED
  BY <1>5, <1>6

LEMMA CallerInv ==
    ASSUME TxnInv, NEW p \in Procs,
           \/ AbortTxn(p)
           \/ EndTxn(p)
           \/ \E u \in Users, ref \in Refs, amount \in Amounts :
                 BeginTxn(p, u, ref, amount)
    PROVE  LockedReadIsCurrent' /\ RunningBalance' /\ AppliedOnce'
<1>1. PICK t : tx' = [tx EXCEPT ![p] = t] /\ t.pc # "write"
  BY DEF AbortTxn, EndTxn, BeginTxn, NoTxn, Started
<1>2. UNCHANGED <<wallets, entries>>
  BY DEF AbortTxn, EndTxn, BeginTxn
<1>3. \A v \in Users : rowLock[v] # p => rowLock'[v] = rowLock[v]
  BY DEF AbortTxn, EndTxn, BeginTxn
<1>4. LockedReadIsCurrent'
  BY <1>1, <1>2, <1>3, NotWriting
<1> QED
  BY <1>2, <1>4, SameRows DEF TxnInv

LEMMA TxnNextInv == TxnInv /\ [TxnNext]_txnVars => TxnInv'
<1> SUFFICES ASSUME TxnInv, [TxnNext]_txnVars
             PROVE  LockedReadIsCurrent' /\ RunningBalance' /\ AppliedOnce'
  BY TxnNextType DEF TxnInv
<1>1. ASSUME NEW u \in Users, OpenWallet(u)
      PROVE  LockedReadIsCurrent' /\ RunningBalance' /\ AppliedOnce'
  BY <1>1, OpenWalletInv
<1>2. ASSUME NEW p \in Procs, TxnStep(p)
      PROVE  LockedReadIsCurrent' /\ RunningBalance' /\ AppliedOnce'
  BY <1>2, ReadPriorInv, LockRowInv, WriteInv DEF TxnStep
<1>3. CASE UNCHANGED txnVars
  <2>1. LockedReadIsCurrent'
    BY <1>3 DEF txnVars, TxnInv, LockedReadIsCurrent
  <2> QED
    BY <1>3, <2>1, SameRows DEF txnVars, TxnInv
<1> QED
  BY <1>1, <1>2, <1>3, CallerInv DEF TxnNext

LEMMA TxnInvariant == TxnSpec => []TxnInv
BY TxnInitInv, TxnNextInv, PTL DEF TxnSpec

\* The ledger's balance_after column is a running balance that never goes
\* below zero and ends in the wallet's balance, for any mix of concurrent
\* debits and credits.
THEOREM TxnRunningBalance == TxnSpec => []RunningBalance
<1>1. TxnInv => RunningBalance
  BY DEF TxnInv
<1> QED
  BY <1>1, TxnInvariant, PTL

\* No reference is applied twice, however often it is submitted and wherever
\* the attempts interleave or die.
THEOREM TxnAppliedOnce == TxnSpec => []AppliedOnce
<1>1. TxnInv => AppliedOnce
  BY DEF TxnInv
<1> QED
  BY <1>1, TxnInvariant, PTL

\* The balance read under the row lock is current until the commit.
THEOREM TxnLockedRead == TxnSpec => []LockedReadIsCurrent
<1>1. TxnInv => LockedReadIsCurrent
  BY DEF TxnInv
<1> QED
  BY <1>1, TxnInvariant, PTL

\* The statements of a transaction keep whose posting it is, and add at most
\* that posting to the ledger, behind every other of its wallet.
LEMMA TxnStepPosts ==
    ASSUME TxnTypeOK, NEW p \in Procs, TxnStep(p)
    PROVE  /\ \A q \in Procs : tx'[q] # NoTxn =>
                 /\ tx[q] # NoTxn
                 /\ tx'[q].user = tx[q].user /\ tx'[q].ref = tx[q].ref
                 /\ tx'[q].amount = tx[q].amount
           /\ \A u \in Users : \A i \in DOMAIN entries[u] :
                 i \in DOMAIN entries'[u] /\ entries'[u][i] = entries[u][i]
           /\ \A u \in Users : \A i \in DOMAIN entries'[u] :
                 \/ i \in DOMAIN entries[u] /\ entries'[u][i] = entries[u][i]
                 \/ /\ tx[p] # NoTxn /\ u = tx[p].user
                    /\ entries'[u][i].ref = tx[p].ref
                    /\ entries'[u][i].amount = tx[p].amount
                    /\ \A j \in DOMAIN entries[u] : j < i
<1>1. tx[p] # NoTxn /\ tx[p] \in Running \cup Writing
  BY TxnKinds DEF TxnStep, ReadPrior, LockRow, WriteAndCommit, NoTxn
<1>2. tx[p].user \in Users
  BY <1>1 DEF Running, Writing
<1>3. \A q \in Procs \ {p} : tx'[q] = tx[q]
  BY DEF TxnStep, ReadPrior, LockRow, WriteAndCommit, TxnTypeOK
<1>4. /\ tx'[p].user = tx[p].user /\ tx'[p].ref = tx[p].ref
      /\ tx'[p].amount = tx[p].amount
  <2>1. CASE ReadPrior(p)
    <3>1. tx[p] \in Running
      BY <2>1, TxnKinds DEF ReadPrior
    <3> QED BY <2>1, <3>1 DEF ReadPrior, Finished, TxnTypeOK, Running
  <2>2. CASE LockRow(p)
    BY <2>2 DEF LockRow, Finished, TxnTypeOK
  <2>3. CASE WriteAndCommit(p)
    BY <2>3 DEF WriteAndCommit, Finished, TxnTypeOK
  <2> QED BY <2>1, <2>2, <2>3 DEF TxnStep
<1>5. CASE entries' = entries
  BY <1>1, <1>3, <1>4, <1>5
<1>6. CASE entries' # entries
  <2> DEFINE e == [ref |-> tx[p].ref, amount |-> tx[p].amount,
                   balanceAfter |-> tx[p].next]
             u == tx[p].user
  <2>1. entries' = [entries EXCEPT ![u] = Append(@, e)]
    BY <1>6 DEF TxnStep, ReadPrior, LockRow, WriteAndCommit
  <2>2. e.ref = tx[p].ref /\ e.amount = tx[p].amount
    OBVIOUS
  <2> HIDE DEF e
  <2>3. \A v \in Users : entries[v] \in Seq(Entry)
    BY DEF TxnTypeOK
  <2>4. entries'[u] = Append(entries[u], e) /\ \A v \in Users \ {u} : entries'[v] = entries[v]
    BY <1>2, <2>1 DEF TxnTypeOK
  <2>5. /\ DOMAIN entries[u] = 1 .. Len(entries[u])
        /\ DOMAIN entries'[u] = 1 .. Len(entries[u]) + 1
        /\ Len(entries[u]) \in Nat
        /\ \A i \in 1 .. Len(entries[u]) : entries'[u][i] = entries[u][i]
        /\ entries'[u][Len(entries[u]) + 1] = e
    <3>1. e \in Entry
      <4>1. tx[p] \in Writing
        BY <1>6, TxnKinds DEF TxnStep, ReadPrior, LockRow, WriteAndCommit
      <4> QED BY <4>1, AmountsAssumption DEF Writing, Entry, e
    <3>2. entries[u] \in Seq(Entry)
      BY <1>2, <2>3
    <3> QED BY <2>4, <3>1, <3>2
  <2>6. \A v \in Users : \A i \in DOMAIN entries[v] :
           i \in DOMAIN entries'[v] /\ entries'[v][i] = entries[v][i]
    BY <2>4, <2>5
  <2>7. ASSUME NEW v \in Users, NEW i \in DOMAIN entries'[v]
        PROVE  \/ i \in DOMAIN entries[v] /\ entries'[v][i] = entries[v][i]
               \/ /\ v = u /\ entries'[v][i] = e
                  /\ \A j \in DOMAIN entries[v] : j < i
    <3>1. CASE v # u
      BY <2>4, <2>7, <3>1
    <3>2. CASE v = u
      BY <2>5, <2>7, <3>2
    <3> QED BY <3>1, <3>2
  <2> QED BY <1>1, <1>3, <1>4, <2>2, <2>6, <2>7
<1> QED BY <1>5, <1>6

\* The ledger only grows, and by postings of transactions only.
LEMMA TxnNextPosts ==
    ASSUME TxnTypeOK, [TxnNext]_txnVars
    PROVE  /\ \A u \in Users : \A i \in DOMAIN entries[u] :
                 i \in DOMAIN entries'[u] /\ entries'[u][i] = entries[u][i]
           /\ \A u, ref : HasPrior(u, ref) /\ u \in Users => HasPrior(u, ref)'
           /\ \A ref : RefTaken(ref) => RefTaken(ref)'
           /\ entries' = entries \/ \E p \in Procs : TxnStep(p)
<1>1. ASSUME NEW p \in Procs, TxnStep(p)
      PROVE  \A u \in Users : \A i \in DOMAIN entries[u] :
                i \in DOMAIN entries'[u] /\ entries'[u][i] = entries[u][i]
  BY <1>1, TxnStepPosts
<1>2. entries' = entries \/ \E p \in Procs : TxnStep(p)
  BY DEF TxnNext, txnVars, OpenWallet, BeginTxn, EndTxn, AbortTxn
<1>3. \A u \in Users : \A i \in DOMAIN entries[u] :
         i \in DOMAIN entries'[u] /\ entries'[u][i] = entries[u][i]
  BY <1>1, <1>2
<1>4. \A u, ref : HasPrior(u, ref) /\ u \in Users => HasPrior(u, ref)'
  BY <1>3 DEF HasPrior
<1> QED BY <1>2, <1>3, <1>4 DEF RefTaken

\* A caller told that its posting was applied finds it in the ledger.
AppliedIsPosted ==
    \A p \in Procs : tx[p].pc = "done" /\ tx[p].outcome = "applied"
        => HasPrior(tx[p].user, tx[p].ref)

LEMMA AppliedStep ==
    ASSUME TxnTypeOK, AppliedIsPosted, [TxnNext]_txnVars
    PROVE  AppliedIsPosted'
<1> SUFFICES ASSUME NEW q \in Procs, tx'[q].pc = "done", tx'[q].outcome = "applied"
             PROVE  HasPrior(tx[q].user, tx[q].ref)'
  BY DEF AppliedIsPosted
<1>1. CASE tx'[q] = tx[q]
  <2>1. HasPrior(tx[q].user, tx[q].ref) /\ tx[q].user \in Users
    BY <1>1, TxnKinds DEF AppliedIsPosted, Done
  <2>2. \E i \in DOMAIN entries'[tx[q].user] : entries'[tx[q].user][i].ref = tx[q].ref
    BY <2>1, TxnNextPosts DEF HasPrior
  <2> QED BY <1>1, <2>2 DEF HasPrior
<1>2. CASE WriteAndCommit(q) /\ ~RefTaken(tx[q].ref)
  <2> DEFINE u == tx[q].user
             e == [ref |-> tx[q].ref, amount |-> tx[q].amount,
                   balanceAfter |-> tx[q].next]
  <2>1. tx[q] \in Writing
    BY <1>2, TxnKinds DEF WriteAndCommit
  <2>2. u \in Users /\ e \in Entry
    BY <2>1, AmountsAssumption DEF Writing, Entry
  <2>3. /\ entries'[u] = Append(entries[u], e)
        /\ tx'[q].user = u /\ tx'[q].ref = tx[q].ref
    BY <1>2, <2>2 DEF WriteAndCommit, Finished, TxnTypeOK
  <2>4. entries[u] \in Seq(Entry)
    BY <2>2 DEF TxnTypeOK
  <2>5. e.ref = tx[q].ref
    OBVIOUS
  <2> HIDE DEF e
  <2>6. /\ Len(entries[u]) + 1 \in DOMAIN entries'[u]
        /\ entries'[u][Len(entries[u]) + 1] = e
    BY <2>2, <2>3, <2>4
  <2> QED BY <2>3, <2>5, <2>6 DEF HasPrior
<1>3. CASE \E p \in Procs : TxnStep(p)
  <2>1. PICK p \in Procs : TxnStep(p)
    BY <1>3
  <2>2. CASE p # q
    BY <1>1, <2>1, <2>2 DEF TxnStep, ReadPrior, LockRow, WriteAndCommit, TxnTypeOK
  <2>3. CASE p = q
    <3>1. CASE ReadPrior(q)
      <4>1. tx[q] \in Running
        BY <3>1, TxnKinds DEF ReadPrior
      <4> QED BY <3>1, <4>1 DEF ReadPrior, Finished, Running, TxnTypeOK
    <3>2. CASE LockRow(q)
      BY <3>2 DEF LockRow, Finished, TxnTypeOK
    <3>3. CASE WriteAndCommit(q) /\ RefTaken(tx[q].ref)
      BY <3>3 DEF WriteAndCommit, Finished, TxnTypeOK
    <3> QED BY <1>2, <2>1, <2>3, <3>1, <3>2, <3>3 DEF TxnStep
  <2> QED BY <2>2, <2>3
<1>4. CASE tx' # tx /\ ~\E p \in Procs : TxnStep(p)
  <2>1. PICK p \in Procs : \E t : tx' = [tx EXCEPT ![p] = t] /\ t.pc # "done"
    BY <1>4 DEF TxnNext, txnVars, OpenWallet, BeginTxn, EndTxn, AbortTxn, Started, NoTxn
  <2>2. PICK t : tx' = [tx EXCEPT ![p] = t] /\ t.pc # "done"
    BY <2>1
  <2> QED BY <1>1, <2>2 DEF TxnTypeOK
<1> QED BY <1>1, <1>3, <1>4

-----------------------------------------------------------------------------
(* Refinement: the tables implement the atomic ledger.                     *)

LEMMA InitRefines == TxnInit => L!Init
<1> SUFFICES ASSUME TxnInit PROVE L!Init
  OBVIOUS
<1>1. \A u \in Users : PostedBy(u) = {}
  BY DEF TxnInit, PostedBy
<1>2. Posted = {}
  BY <1>1 DEF Posted
<1> QED
  BY <1>2 DEF L!Init, TxnInit

\* Posted reads nothing but the rows.
LEMMA PostedUnchanged ==
    ASSUME entries' = entries
    PROVE  Posted' = Posted
BY DEF Posted, PostedBy

LEMMA OpenRefines ==
    ASSUME TxnInv, NEW u \in Users, OpenWallet(u)
    PROVE  [L!Next]_(L!ledgerVars)
<1>1. Posted' = Posted
  BY PostedUnchanged DEF OpenWallet
<1>2. CASE wallets[u] = Null
  <2>1. wallets' = [wallets EXCEPT ![u] = 0]
    BY <1>2 DEF OpenWallet, Ensured
  <2>2. L!Open(u)
    BY <1>1, <1>2, <2>1 DEF L!Open
  <2> QED
    BY <2>2 DEF L!Next
<1>3. CASE wallets[u] # Null
  <2>1. wallets' = wallets
    BY <1>3 DEF OpenWallet, Ensured, TxnInv, TxnTypeOK
  <2> QED
    BY <1>1, <2>1 DEF L!ledgerVars
<1> QED
  BY <1>2, <1>3

\* Appending a row posts exactly that row.
LEMMA PostedAppend ==
    ASSUME entries \in [Users -> Seq(Entry)],
           NEW u \in Users, NEW e \in Entry,
           entries' = [entries EXCEPT ![u] = Append(@, e)]
    PROVE  Posted' = Posted \cup {[user |-> u, ref |-> e.ref, amount |-> e.amount]}
<1> DEFINE n == Len(entries[u])
           x == [user |-> u, ref |-> e.ref, amount |-> e.amount]
<1>1. /\ entries[u] \in Seq(Entry)
      /\ entries'[u] = Append(entries[u], e)
  OBVIOUS
<1>2. /\ n \in Nat
      /\ DOMAIN entries[u] = 1 .. n
      /\ DOMAIN entries'[u] = 1 .. (n + 1)
      /\ \A i \in 1 .. n : entries'[u][i] = entries[u][i]
      /\ entries'[u][n + 1] = e
  BY <1>1
<1>3. \A y : y \in PostedBy(u)' <=> y \in PostedBy(u) \/ y = x
  <2>1. ASSUME NEW y, y \in PostedBy(u)'
        PROVE  y \in PostedBy(u) \/ y = x
    <3>1. PICK i \in 1 .. (n + 1) :
             y = [user |-> u, ref |-> entries'[u][i].ref,
                  amount |-> entries'[u][i].amount]
      BY <1>2, <2>1 DEF PostedBy
    <3>2. CASE i = n + 1
      BY <1>2, <3>1, <3>2
    <3>3. CASE i \in 1 .. n
      BY <1>2, <3>1, <3>3 DEF PostedBy
    <3> QED
      BY <1>2, <3>2, <3>3
  <2>2. ASSUME NEW y, y \in PostedBy(u)
        PROVE  y \in PostedBy(u)'
    <3>1. PICK i \in 1 .. n :
             y = [user |-> u, ref |-> entries[u][i].ref,
                  amount |-> entries[u][i].amount]
      BY <1>2, <2>2 DEF PostedBy
    <3>2. i \in DOMAIN entries'[u] /\ entries'[u][i] = entries[u][i]
      BY <1>2
    <3> QED
      BY <3>1, <3>2 DEF PostedBy
  <2>3. x \in PostedBy(u)'
    <3>1. n + 1 \in DOMAIN entries'[u]
      BY <1>2
    <3> QED
      BY <1>2, <3>1 DEF PostedBy
  <2> QED
    BY <2>1, <2>2, <2>3
<1>4. \A v \in Users : v # u => PostedBy(v)' = PostedBy(v)
  BY DEF PostedBy
<1>5. \A y : y \in Posted' <=> \E v \in Users : y \in PostedBy(v)'
  BY DEF Posted
<1>6. \A y : y \in Posted <=> \E v \in Users : y \in PostedBy(v)
  BY DEF Posted
<1>7. \A y : y \in Posted' <=> y \in Posted \/ y = x
  BY <1>3, <1>4, <1>5, <1>6
<1> QED
  BY <1>7

LEMMA WriteRefines ==
    ASSUME TxnInv, NEW p \in Procs, WriteAndCommit(p)
    PROVE  [L!Next]_(L!ledgerVars)
<1> DEFINE u == tx[p].user
           e == [ref |-> tx[p].ref, amount |-> tx[p].amount,
                 balanceAfter |-> tx[p].next]
           x == [user |-> u, ref |-> tx[p].ref, amount |-> tx[p].amount]
<1>1. tx[p] \in Writing
  BY TxnKinds DEF WriteAndCommit, TxnInv
<1>2. u \in Users /\ tx[p].ref \in Refs /\ tx[p].amount \in Amounts
  BY <1>1 DEF Writing
<1>3. /\ wallets[u] \in Int
      /\ tx[p].next = wallets[u] + tx[p].amount
      /\ tx[p].next >= 0
  BY DEF WriteAndCommit, TxnInv, LockedReadIsCurrent
<1>4. CASE RefTaken(tx[p].ref)
  <2>1. UNCHANGED <<wallets, entries>>
    BY <1>4 DEF WriteAndCommit
  <2> QED
    BY <2>1, PostedUnchanged DEF L!ledgerVars
<1>5. CASE ~RefTaken(tx[p].ref)
  <2>1. /\ wallets' = [wallets EXCEPT ![u] = tx[p].next]
        /\ entries' = [entries EXCEPT ![u] = Append(@, e)]
    BY <1>5 DEF WriteAndCommit
  <2>2. \A y \in Posted : y.ref # tx[p].ref
    BY <1>5 DEF Posted, PostedBy, RefTaken, HasPrior
  <2>3. Posted' = Posted \cup {x}
    <3>1. e \in Entry
      BY <1>1, AmountsAssumption DEF Writing, Entry
    <3> QED
      BY <1>2, <2>1, <3>1, PostedAppend DEF TxnInv, TxnTypeOK
  <2>4. L!Post(u, tx[p].ref, tx[p].amount)
    BY <1>2, <1>3, <2>1, <2>2, <2>3, NullAssumption DEF L!Post, TxnInv, TxnTypeOK
  <2> QED
    BY <1>2, <2>4 DEF L!Next
<1> QED
  BY <1>4, <1>5

LEMMA TxnNextRefines ==
    TxnInv /\ [TxnNext]_txnVars => [L!Next]_(L!ledgerVars)
<1> SUFFICES ASSUME TxnInv, [TxnNext]_txnVars
             PROVE  [L!Next]_(L!ledgerVars)
  OBVIOUS
<1>1. ASSUME UNCHANGED <<wallets, entries>>
      PROVE  [L!Next]_(L!ledgerVars)
  BY <1>1, PostedUnchanged DEF L!ledgerVars
<1>2. ASSUME NEW p \in Procs, TxnStep(p)
      PROVE  [L!Next]_(L!ledgerVars)
  <2>1. CASE ReadPrior(p)
    BY <1>1, <2>1 DEF ReadPrior
  <2>2. CASE LockRow(p)
    BY <1>1, <2>2 DEF LockRow
  <2>3. CASE WriteAndCommit(p)
    BY <2>3, WriteRefines
  <2> QED
    BY <1>2, <2>1, <2>2, <2>3 DEF TxnStep
<1>3. ASSUME NEW p \in Procs,
             \/ AbortTxn(p)
             \/ EndTxn(p)
             \/ \E u \in Users, ref \in Refs, amount \in Amounts :
                   BeginTxn(p, u, ref, amount)
      PROVE  [L!Next]_(L!ledgerVars)
  BY <1>1, <1>3 DEF AbortTxn, EndTxn, BeginTxn
<1>4. CASE UNCHANGED txnVars
  BY <1>1, <1>4 DEF txnVars
<1> QED
  BY <1>2, <1>3, <1>4, OpenRefines DEF TxnNext

\* applyTxn, with its unlocked lookup, its row lock and its unique index, is
\* indistinguishable from the atomic, idempotent posting of Ledger.
THEOREM TxnImplementsLedger == TxnSpec => ImplementsLedger
BY InitRefines, TxnNextRefines, TxnInvariant, PTL
   DEF TxnSpec, ImplementsLedger, L!Spec

=============================================================================

----------------------------- MODULE MaskedCall -----------------------------
(***************************************************************************)
(* Masked calling: a caller reserves HoldPaise, a pooled virtual number is *)
(* leased, the telephony provider bridges the two parties, and ending the  *)
(* call bills it and refunds the unused part of the hold.  The wallet side *)
(* is the applyTxn of module WalletTxn, statement by statement.            *)
(*                                                                         *)
(* One member of Calls stands for one dial: its landing token, and the row *)
(* of masked_calls it may produce.  The clock counts started minutes: a    *)
(* call connected at time s and ended at time e is billed e - s of them.   *)
(***************************************************************************)
EXTENDS WalletTxn, FiniteSetsExt

CONSTANTS
    Calls,          \* dials
    Numbers,        \* virtual numbers with status 'active', as a sequence
    Rate,           \* RATE_PAISE_PER_MIN
    HoldMinutes,    \* MAX_MINUTES_HOLD
    Funds,          \* what each wallet was topped up with beforehand
    MaxTime,        \* bound on the clock
    MaxCrashes      \* bound on the requests that die half way

HoldPaise == Rate * HoldMinutes
NumberSet == {Numbers[i] : i \in DOMAIN Numbers}

FundRef(u)   == <<"topup", u>>
HoldRef(c)   == <<"mhold", c>>
FailRef(c)   == <<"mrel-fail", c>>
SettleRef(c) == <<"mrel", c>>

ASSUME BillingAssumption ==
    /\ Rate \in Nat \ {0} /\ HoldMinutes \in Nat \ {0}
    /\ Funds \in Nat
    /\ MaxTime \in Nat /\ MaxCrashes \in Nat
ASSUME DialsAssumption ==
    /\ \A u \in Users : FundRef(u) \in Refs
    /\ \A c \in Calls : {HoldRef(c), FailRef(c), SettleRef(c)} \subseteq Refs
    /\ -HoldPaise \in Amounts /\ 1 .. HoldPaise \subseteq Amounts
ASSUME NumbersAssumption == Numbers \in Seq(NumberSet)

VARIABLES
    pool,       \* number_pool, least recently used first
    poolLock,   \* number -> handler whose lease has its row locked
    calls,      \* masked_calls: [Calls -> row, or Null]
    live,       \* dials whose bridge the provider has up
    req,        \* [Procs -> where the handler is]
    now,        \* minutes
    crashes

callVars == <<pool, poolLock, calls, live, req, now, crashes>>
vars == <<txnVars, callVars>>

Row == [caller: Users, number: NumberSet,
        status: {"ringing_callee", "connected", "ended"},
        connectedAt: 0 .. MaxTime \cup {Null},
        cost: Nat]

\* SQL NULL is no row.
ASSUME NullCallAssumption == Null \notin Row

Idle == [pc |-> "idle"]
Requests ==
         {Idle}
    \cup [pc: {"hold", "lease", "refund"}, call: Calls, user: Users]
    \cup [pc: {"leasing", "place", "insert"}, call: Calls, user: Users,
          number: NumberSet]
    \cup [pc: {"hangup", "mark", "settle"}, call: Calls, cost: Nat]

TypeOK ==
    /\ TxnTypeOK
    /\ pool \in [DOMAIN Numbers -> NumberSet]
    /\ poolLock \in [NumberSet -> Procs \cup {Null}]
    /\ calls \in [Calls -> Row \cup {Null}]
    /\ live \subseteq Calls
    /\ req \in [Procs -> Requests]
    /\ now \in 0 .. MaxTime
    /\ crashes \in 0 .. MaxCrashes

Init ==
    /\ wallets = [u \in Users |-> Funds]
    /\ entries = [u \in Users |->
                    <<[ref |-> FundRef(u), amount |-> Funds, balanceAfter |-> Funds]>>]
    /\ rowLock = [u \in Users |-> Null]
    /\ tx = [p \in Procs |-> NoTxn]
    /\ pool = Numbers
    /\ poolLock = [n \in NumberSet |-> Null]
    /\ calls = [c \in Calls |-> Null]
    /\ live = {}
    /\ req = [p \in Procs |-> Idle]
    /\ now = 0
    /\ crashes = 0

Goto(p, r) == req' = [req EXCEPT ![p] = r]
At(p, pc) == req[p].pc = pc

-----------------------------------------------------------------------------
(* initiate                                                                *)

\* crypto.randomBytes: no two dials share a landing token.
FreshDial(c) ==
    /\ ~RefTaken(HoldRef(c))
    /\ \A q \in Procs : req[q] # Idle => req[q].call # c
    /\ calls[c] = Null

\* ensureWallet finds the row (every caller here has topped up).
InitiateStart(p, u, c) ==
    /\ req[p] = Idle
    /\ FreshDial(c)
    /\ BeginTxn(p, u, HoldRef(c), -HoldPaise)
    /\ Goto(p, [pc |-> "hold", call |-> c, user |-> u])
    /\ UNCHANGED <<pool, poolLock, calls, live, now, crashes>>

\* (Mutant: the dial goes on whatever the hold came to.)
HoldDoneAnyway(p) ==
    /\ At(p, "hold")
    /\ EndTxn(p)
    /\ Goto(p, [req[p] EXCEPT !.pc = "lease"])
    /\ UNCHANGED <<pool, poolLock, calls, live, now, crashes>>

\* INSUFFICIENT_BALANCE is thrown to the client before anything is leased.
HoldDone(p) ==
    /\ At(p, "hold")
    /\ EndTxn(p)
    /\ Goto(p, IF tx[p].outcome = "applied" THEN [req[p] EXCEPT !.pc = "lease"]
                                            ELSE Idle)
    /\ UNCHANGED <<pool, poolLock, calls, live, now, crashes>>

\* settleHold(caller, HOLD_PAISE, 0, mrel-fail-token)
RefundHold(p) ==
    /\ BeginTxn(p, req[p].user, FailRef(req[p].call), HoldPaise)
    /\ req' = [req EXCEPT ![p] =
                 [pc |-> "refund", call |-> @.call, user |-> @.user]]

\* ORDER BY updated_at LIMIT 1 FOR UPDATE SKIP LOCKED: the least recently used
\* number no other lease has locked at this moment.
LeasePick(p) ==
    LET free == {i \in DOMAIN pool : poolLock[pool[i]] = Null}
    IN  /\ At(p, "lease")
        /\ IF free = {}
           THEN RefundHold(p) /\ UNCHANGED poolLock
           ELSE \E i \in free :
                  /\ \A j \in free : i <= j
                  /\ poolLock' = [poolLock EXCEPT ![pool[i]] = p]
                  /\ Goto(p, [pc |-> "leasing", call |-> req[p].call,
                              user |-> req[p].user, number |-> pool[i]])
                  /\ UNCHANGED txnVars
        /\ UNCHANGED <<pool, calls, live, now, crashes>>

\* The number is stamped with the token and moved to the end of the order;
\* its status stays 'active'.
LeaseCommit(p) ==
    LET n == req[p].number
    IN  /\ At(p, "leasing")
        /\ \E i \in DOMAIN pool :
              /\ pool[i] = n
              /\ pool' = SubSeq(pool, 1, i - 1) \o SubSeq(pool, i + 1, Len(pool))
                           \o <<n>>
        /\ poolLock' = [poolLock EXCEPT ![n] = Null]
        /\ req' = [req EXCEPT ![p].pc = "place"]
        /\ UNCHANGED <<txnVars, calls, live, now, crashes>>

\* The lease throws: rolled back, the hold refunded, the error rethrown.
LeaseThrows(p) ==
    /\ At(p, "leasing")
    /\ poolLock' = [poolLock EXCEPT ![req[p].number] = Null]
    /\ RefundHold(p)
    /\ UNCHANGED <<pool, calls, live, now, crashes>>

RefundDone(p) ==
    /\ At(p, "refund")
    /\ EndTxn(p)
    /\ Goto(p, Idle)
    /\ UNCHANGED <<pool, poolLock, calls, live, now, crashes>>

PlaceCall(p) ==
    /\ At(p, "place")
    /\ live' = live \cup {req[p].call}
    /\ req' = [req EXCEPT ![p].pc = "insert"]
    /\ UNCHANGED <<txnVars, pool, poolLock, calls, now, crashes>>

\* The provider refuses, or answers with something unusable after dialling:
\* placeMaskedCall throws outside any try.
PlaceThrows(p) ==
    /\ At(p, "place")
    /\ live' \in {live, live \cup {req[p].call}}
    /\ Goto(p, Idle)
    /\ UNCHANGED <<txnVars, pool, poolLock, calls, now, crashes>>

\* (Mutant: cost_paise starts out NULL.)
InsertCallNoCost(p) ==
    /\ At(p, "insert")
    /\ calls' = [calls EXCEPT ![req[p].call] =
                   [caller |-> req[p].user, number |-> req[p].number,
                    status |-> "ringing_callee", connectedAt |-> Null,
                    cost |-> Null]]
    /\ Goto(p, Idle)
    /\ UNCHANGED <<txnVars, pool, poolLock, live, now, crashes>>

InsertCall(p) ==
    /\ At(p, "insert")
    /\ calls' = [calls EXCEPT ![req[p].call] =
                   [caller |-> req[p].user, number |-> req[p].number,
                    status |-> "ringing_callee", connectedAt |-> Null,
                    cost |-> 0]]
    /\ Goto(p, Idle)
    /\ UNCHANGED <<txnVars, pool, poolLock, live, now, crashes>>

-----------------------------------------------------------------------------
(* markConnected and end                                                   *)

MarkConnected(c) ==
    /\ calls[c] # Null
    /\ calls[c].status = "ringing_callee"
    /\ calls' = [calls EXCEPT ![c].status = "connected", ![c].connectedAt = now]
    /\ UNCHANGED <<txnVars, pool, poolLock, live, req, now, crashes>>

\* (Mutant: every dial is billed its first minute, answered or not.)
EndStartMinimumCharge(p, c) ==
    /\ req[p] = Idle
    /\ calls[c] # Null
    /\ calls[c].status # "ended"
    /\ Goto(p, [pc |-> "hangup", call |-> c,
                cost |-> IF calls[c].connectedAt = Null THEN Rate
                         ELSE (now - calls[c].connectedAt) * Rate])
    /\ UNCHANGED <<txnVars, pool, poolLock, calls, live, now, crashes>>

\* The row is read and the cost computed from it; an ended call is returned
\* as it is.
EndStart(p, c) ==
    /\ req[p] = Idle
    /\ calls[c] # Null
    /\ calls[c].status # "ended"
    /\ Goto(p, [pc |-> "hangup", call |-> c,
                cost |-> IF calls[c].connectedAt = Null THEN 0
                         ELSE (now - calls[c].connectedAt) * Rate])
    /\ UNCHANGED <<txnVars, pool, poolLock, calls, live, now, crashes>>

\* A refusal by the provider is only logged.
Hangup(p) ==
    /\ At(p, "hangup")
    /\ live' \in {live, live \ {req[p].call}}
    /\ req' = [req EXCEPT ![p].pc = "mark"]
    /\ UNCHANGED <<txnVars, pool, poolLock, calls, now, crashes>>

HangupThrows(p) ==
    /\ At(p, "hangup")
    /\ Goto(p, Idle)
    /\ UNCHANGED <<txnVars, pool, poolLock, calls, live, now, crashes>>

Ended(row, cost) ==
    IF row.status = "ended" THEN row
    ELSE [row EXCEPT !.status = "ended", !.cost = cost]

\* (Mutant: only a call that was connected is settled.)
MarkEndedSettlesConnected(p) ==
    LET c      == req[p].call
        refund == HoldPaise - req[p].cost
    IN  /\ At(p, "mark")
        /\ calls' = [calls EXCEPT ![c] = Ended(@, req[p].cost)]
        /\ IF refund > 0 /\ calls[c].connectedAt # Null
           THEN /\ BeginTxn(p, calls[c].caller, SettleRef(c), refund)
                /\ req' = [req EXCEPT ![p].pc = "settle"]
           ELSE Goto(p, Idle) /\ UNCHANGED txnVars
        /\ UNCHANGED <<pool, poolLock, live, now, crashes>>

\* markEnded's conditional update, then settleHold with this handler's own
\* cost whether or not the update won.
MarkEnded(p) ==
    LET c      == req[p].call
        refund == HoldPaise - req[p].cost
    IN  /\ At(p, "mark")
        /\ calls' = [calls EXCEPT ![c] = Ended(@, req[p].cost)]
        /\ IF refund > 0
           THEN /\ BeginTxn(p, calls[c].caller, SettleRef(c), refund)
                /\ req' = [req EXCEPT ![p].pc = "settle"]
           ELSE Goto(p, Idle) /\ UNCHANGED txnVars
        /\ UNCHANGED <<pool, poolLock, live, now, crashes>>

SettleDone(p) ==
    /\ At(p, "settle")
    /\ EndTxn(p)
    /\ Goto(p, Idle)
    /\ UNCHANGED <<pool, poolLock, calls, live, now, crashes>>

-----------------------------------------------------------------------------
Call_TxnStep(p) == TxnStep(p) /\ UNCHANGED callVars

Tick ==
    /\ now < MaxTime
    /\ now' = now + 1
    /\ UNCHANGED <<txnVars, pool, poolLock, calls, live, req, crashes>>

\* The request dies: its open transactions (wallet or lease) roll back.
Crash(p) ==
    /\ req[p] # Idle
    /\ crashes < MaxCrashes
    /\ crashes' = crashes + 1
    /\ Goto(p, Idle)
    /\ AbortTxn(p)
    /\ poolLock' = [n \in NumberSet |-> IF poolLock[n] = p THEN Null ELSE poolLock[n]]
    /\ UNCHANGED <<pool, calls, live, now>>

\* What a live handler does next, errors of the provider and the pool aside.
HandlerStep(p) ==
    \/ Call_TxnStep(p)
    \/ HoldDone(p) \/ LeasePick(p) \/ LeaseCommit(p) \/ RefundDone(p)
    \/ PlaceCall(p) \/ InsertCall(p)
    \/ Hangup(p) \/ MarkEnded(p) \/ SettleDone(p)

Next ==
    \/ Tick
    \/ \E c \in Calls : MarkConnected(c)
    \/ \E p \in Procs :
          \/ HandlerStep(p)
          \/ LeaseThrows(p) \/ PlaceThrows(p) \/ HangupThrows(p)
          \/ Crash(p)
          \/ \E c \in Calls :
                \/ EndStart(p, c)
                \/ \E u \in Users : InitiateStart(p, u, c)

Spec == Init /\ [][Next]_vars

\* A live handler runs to its response (a waiter on a row lock is queued).
\* Nobody has to dial, to end a call or to answer one.
Fairness == \A p \in Procs : SF_vars(HandlerStep(p))

FairSpec == Spec /\ Fairness

-----------------------------------------------------------------------------
(* Properties.                                                             *)

RowsFor(refs) ==
    UNION {{<<u, i>> : i \in {j \in DOMAIN entries[u] : entries[u][j].ref \in refs}} :
           u \in Users}

\* What a dial has cost its caller so far.
NetDebit(c) ==
    -MapThenSumSet(LAMBDA k : entries[k[1]][k[2]].amount,
                   RowsFor({HoldRef(c), FailRef(c), SettleRef(c)}))

InHand(c) == \E p \in Procs : req[p] # Idle /\ req[p].call = c

\* No interleaving of ends, retries, failures and crashes charges a dial more
\* than its hold or pays the caller for it, and a settled call that was never
\* connected has cost nothing, whatever rows its ends had read (settleHold's
\* references, the row end computes its cost from, and the WHERE clauses of
\* markConnected and markEnded).
NetWithinHold ==
    \A c \in Calls :
        /\ NetDebit(c) \in 0 .. HoldPaise
        /\ calls[c] # Null /\ calls[c].connectedAt = Null /\ RefTaken(SettleRef(c))
              => NetDebit(c) = 0

\* The provider bridges a call only against a hold that was taken and not
\* given back as a failed dial's (initiate's order of steps and its catch).
LiveIsPaidFor ==
    \A c \in live : RefTaken(HoldRef(c)) /\ ~RefTaken(FailRef(c))

\* masked.service.ts on end: it refunds "the unused remainder so the net debit
\* equals the actual cost. Idempotent on the call id."
NetDebitEqualsCost ==
    \A c \in Calls :
        calls[c] # Null /\ calls[c].status = "ended" /\ ~InHand(c)
            => NetDebit(c) = calls[c].cost

\* An ended call is settled as long as no request dies: no lock, no lost race
\* and no error of another dial keeps the unused part of the hold.  (A request
\* that dies between markEnded and settleHold does: a retry finds the call ended
\* and returns early.)
EndedIsSettled ==
    \A c \in Calls :
        calls[c] # Null /\ calls[c].status = "ended"
            ~> \/ RefTaken(SettleRef(c))
               \/ calls[c] # Null /\ calls[c].cost >= HoldPaise
               \/ crashes > 0

\* masked.repository.ts on leaseVirtualNumber: the lease "avoids two calls
\* grabbing the same number" and "returns null when the pool is exhausted".
NumberExclusive ==
    \A c, d \in Calls :
        /\ c # d
        /\ calls[c] # Null /\ calls[c].status # "ended"
        /\ calls[d] # Null /\ calls[d].status # "ended"
        => calls[c].number # calls[d].number

\* masked.service.ts on the hold: "Released/settled on end."  A dial that came
\* to nothing, with no handler left working on it, has got its hold back.
FailedDialIsReleased ==
    \A c \in Calls :
        RefTaken(HoldRef(c)) /\ calls[c] = Null /\ ~InHand(c)
            => RefTaken(FailRef(c))

=============================================================================

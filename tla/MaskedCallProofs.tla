---------------------------- MODULE MaskedCallProofs ----------------------------
(***************************************************************************)
(* Proofs about masked calling for any number of users, dials, numbers and *)
(* requests: its types, that a live bridge is paid for, and that a dial    *)
(* never costs its caller more than the hold nor pays him for it.  Its     *)
(* steps are steps or stutters of the transaction engine, so the ledger's  *)
(* own invariants hold here as well.                                       *)
(*                                                                         *)
(* NetWithinHold speaks of rows of three postings written steps, and       *)
(* requests, apart.  Inv carries what each of them was begun for: a dial   *)
(* belongs to one request until its row is there, from its hold onwards    *)
(* that hold is posted, a failed dial never gets a row, and an open        *)
(* transaction is the one its request asked for.                           *)
(***************************************************************************)
EXTENDS MaskedCall, WalletTxnProofs, SequenceTheorems

-----------------------------------------------------------------------------
(* The inductive invariant.                                                *)

\* A request that is setting up a call, before its row is inserted.
Dialling(p) == req[p].pc \in {"hold", "lease", "leasing", "refund", "place", "insert"}

\* A request that is ending a call.
Ending(p) == req[p].pc \in {"hangup", "mark", "settle"}

\* A call is set up by the one request that dialled it.
OneDiallerPerCall ==
    \A p, q \in Procs :
        Dialling(p) /\ Dialling(q) /\ req[p].call = req[q].call => p = q

\* The call being set up has no row yet, and past its first step its hold is
\* on the caller's wallet.
DiallersHold ==
    \A p \in Procs : Dialling(p) =>
        /\ calls[req[p].call] = Null
        /\ req[p].pc # "hold" => HasPrior(req[p].user, HoldRef(req[p].call))

\* A request ends a call that has its row, and charges nothing for one that
\* was never connected.
EndersHaveCalls ==
    \A p \in Procs : Ending(p) =>
        /\ calls[req[p].call] # Null
        /\ calls[req[p].call].connectedAt = Null => req[p].cost = 0

\* A row of masked_calls stands for a hold on its caller's wallet.
CallsAreHeld ==
    \A c \in Calls : calls[c] # Null =>
        /\ HasPrior(calls[c].caller, HoldRef(c))
        /\ calls[c].connectedAt # Null => calls[c].connectedAt <= now

\* Whoever still sets the call up is at this step.
OnlyAt(c, pc) == \A p \in Procs : Dialling(p) /\ req[p].call = c => req[p].pc = pc

\* A dial whose hold was given back is over: no row, no bridge, and at most the
\* request that gives it back is left.
FailedAreOver ==
    \A c \in Calls : RefTaken(FailRef(c)) =>
        /\ RefTaken(HoldRef(c)) /\ calls[c] = Null /\ c \notin live
        /\ OnlyAt(c, "refund")

\* The provider bridges a call with its hold, and the request that asked for it
\* has only its insert left.
LiveAreHeld ==
    \A c \in live : RefTaken(HoldRef(c)) /\ OnlyAt(c, "insert")

\* The open transaction of p posts this, for this step of its request.
TxnIsFor(p, pc, u, ref, amount) ==
    /\ req[p].pc = pc
    /\ tx[p].user = u /\ tx[p].ref = ref /\ tx[p].amount = amount

\* An open transaction is a hold, a failed dial's refund or a settlement.
TxnsMatch ==
    \A p \in Procs : tx[p] # NoTxn =>
        \/ TxnIsFor(p, "hold", req[p].user, HoldRef(req[p].call), -HoldPaise)
        \/ TxnIsFor(p, "refund", req[p].user, FailRef(req[p].call), HoldPaise)
        \/ /\ HoldPaise - req[p].cost > 0
           /\ TxnIsFor(p, "settle", calls[req[p].call].caller, SettleRef(req[p].call),
                       HoldPaise - req[p].cost)

\* What an entry under a reference of masked calling may be.
Legal(ref, amount) ==
    \A c \in Calls :
        /\ ref = HoldRef(c) => amount = -HoldPaise
        /\ ref = FailRef(c) => amount = HoldPaise
        /\ ref = SettleRef(c) =>
              /\ amount \in 1 .. HoldPaise /\ calls[c] # Null
              /\ calls[c].connectedAt = Null => amount = HoldPaise

EntriesAreLegal ==
    \A u \in Users : \A i \in DOMAIN entries[u] :
        Legal(entries[u][i].ref, entries[u][i].amount)

Inv ==
    /\ TypeOK
    /\ OneDiallerPerCall /\ DiallersHold /\ EndersHaveCalls
    /\ CallsAreHeld /\ FailedAreOver /\ LiveAreHeld
    /\ TxnsMatch /\ AppliedIsPosted /\ EntriesAreLegal

-----------------------------------------------------------------------------
(* Types.                                                                  *)

\* A request carries the fields its step reads.
LEMMA RequestKinds ==
    ASSUME TypeOK, NEW p \in Procs
    PROVE  /\ req[p].pc \in {"hold", "lease", "refund"} =>
                 req[p] \in [pc: {"hold", "lease", "refund"}, call: Calls, user: Users]
           /\ req[p].pc \in {"leasing", "place", "insert"} =>
                 req[p] \in [pc: {"leasing", "place", "insert"}, call: Calls, user: Users,
                             number: NumberSet]
           /\ req[p].pc \in {"hangup", "mark", "settle"} =>
                 req[p] \in [pc: {"hangup", "mark", "settle"}, call: Calls, cost: Nat]
           /\ req[p] # Idle => req[p].pc # "idle" /\ req[p].call \in Calls
<1>1. req[p] \in Requests
  BY DEF TypeOK
<1> QED BY <1>1 DEF Requests, Idle

\* A hold is some minutes at some price.
LEMMA HoldIsPositive == HoldPaise \in Nat /\ HoldPaise > 0
<1>1. \A a, b \in Nat \ {0} : a * b \in Nat /\ a * b > 0
  OBVIOUS
<1> QED BY <1>1, BillingAssumption DEF HoldPaise

\* Moving one request to a typed state keeps all of them typed.
LEMMA GotoTyped ==
    ASSUME TypeOK, NEW p \in Procs, NEW r \in Requests, req' = [req EXCEPT ![p] = r]
    PROVE  req' \in [Procs -> Requests]
  BY DEF TypeOK

\* Masked calling touches the wallet tables only as the engine allows: each
\* step is a step of the engine under its most general caller, or leaves them.
LEMMA StepIsTxnStep ==
    ASSUME TypeOK, EndersHaveCalls, [Next]_vars
    PROVE  [TxnNext]_txnVars
<1>1. ASSUME NEW p \in Procs, NEW u \in Users, NEW ref \in Refs, NEW amount \in Amounts,
             BeginTxn(p, u, ref, amount)
      PROVE  TxnNext
  BY <1>1 DEF TxnNext
<1>2. ASSUME NEW p \in Procs, TxnStep(p) \/ EndTxn(p) \/ AbortTxn(p)
      PROVE  TxnNext
  BY <1>2 DEF TxnNext
<1>3. HoldPaise \in Amounts
  BY HoldIsPositive, DialsAssumption
<1>4. ASSUME NEW p \in Procs, NEW u \in Users, NEW c \in Calls, InitiateStart(p, u, c)
      PROVE  TxnNext
  BY <1>1, <1>4, DialsAssumption DEF InitiateStart
<1>5. ASSUME NEW p \in Procs, RefundHold(p), req[p].pc \in {"lease", "leasing"}
      PROVE  TxnNext
  <2>1. req[p].user \in Users /\ req[p].call \in Calls
    BY <1>5, RequestKinds
  <2>2. FailRef(req[p].call) \in Refs
    BY <2>1, DialsAssumption
  <2> QED BY <1>1, <1>3, <1>5, <2>1, <2>2 DEF RefundHold
<1>6. ASSUME NEW p \in Procs, LeasePick(p) \/ LeaseThrows(p)
      PROVE  TxnNext \/ UNCHANGED txnVars
  BY <1>5, <1>6 DEF LeasePick, LeaseThrows, At
<1>7. ASSUME NEW p \in Procs, MarkEnded(p)
      PROVE  TxnNext \/ UNCHANGED txnVars
  <2> DEFINE c == req[p].call
             refund == HoldPaise - req[p].cost
  <2>1. req[p].pc = "mark" /\ c \in Calls /\ req[p].cost \in Nat
    BY <1>7, RequestKinds DEF MarkEnded, At
  <2>2. calls[c] \in Row
    BY <2>1 DEF TypeOK, EndersHaveCalls, Ending
  <2>3. calls[c].caller \in Users
    BY <2>2 DEF Row
  <2>4. SettleRef(c) \in Refs
    BY <2>1, DialsAssumption
  <2>5. refund > 0 => refund \in Amounts
    BY <2>1, HoldIsPositive, DialsAssumption
  <2> QED BY <1>1, <1>7, <2>3, <2>4, <2>5 DEF MarkEnded
<1>8. ASSUME NEW p \in Procs,
             \/ Call_TxnStep(p) \/ HoldDone(p) \/ RefundDone(p) \/ SettleDone(p) \/ Crash(p)
      PROVE  TxnNext
  BY <1>2, <1>8 DEF Call_TxnStep, HoldDone, RefundDone, SettleDone, Crash
<1>9. ASSUME NEW p \in Procs,
             \/ LeaseCommit(p) \/ PlaceCall(p) \/ InsertCall(p) \/ Hangup(p)
             \/ PlaceThrows(p) \/ HangupThrows(p)
             \/ \E c \in Calls : EndStart(p, c)
      PROVE  UNCHANGED txnVars
  BY <1>9 DEF LeaseCommit, PlaceCall, InsertCall, Hangup, PlaceThrows, HangupThrows, EndStart
<1>10. ASSUME Tick \/ \E c \in Calls : MarkConnected(c)
       PROVE  UNCHANGED txnVars
  BY <1>10 DEF Tick, MarkConnected
<1>11. CASE UNCHANGED vars
  BY <1>11 DEF vars
<1> QED
  BY <1>4, <1>6, <1>7, <1>8, <1>9, <1>10, <1>11 DEF Next, HandlerStep

\* No step leaves a request half way between two of its states.
LEMMA RequestTypeStep ==
    ASSUME TypeOK, CallsAreHeld, [Next]_vars
    PROVE  req' \in [Procs -> Requests]
<1>1. Idle \in Requests
  BY DEF Requests
<1>2. ASSUME NEW p \in Procs,
             \/ RefundDone(p) \/ PlaceThrows(p) \/ InsertCall(p) \/ HangupThrows(p)
             \/ SettleDone(p) \/ Crash(p)
      PROVE  req' \in [Procs -> Requests]
  BY <1>1, <1>2, GotoTyped
  DEF RefundDone, PlaceThrows, InsertCall, HangupThrows, SettleDone, Crash, Goto
<1>3. ASSUME NEW p \in Procs, NEW u \in Users, NEW c \in Calls, InitiateStart(p, u, c)
      PROVE  req' \in [Procs -> Requests]
  <2>1. [pc |-> "hold", call |-> c, user |-> u] \in Requests
    BY DEF Requests
  <2> QED BY <1>3, <2>1, GotoTyped DEF InitiateStart, Goto
<1>4. ASSUME NEW p \in Procs, HoldDone(p)
      PROVE  req' \in [Procs -> Requests]
  <2>1. req[p] \in [pc: {"hold", "lease", "refund"}, call: Calls, user: Users]
    BY <1>4, RequestKinds DEF HoldDone, At
  <2>2. [req[p] EXCEPT !.pc = "lease"] \in Requests
    BY <2>1 DEF Requests
  <2> QED BY <1>1, <1>4, <2>2, GotoTyped DEF HoldDone, Goto
<1>5. ASSUME NEW p \in Procs, RefundHold(p), req[p].call \in Calls, req[p].user \in Users
      PROVE  req' \in [Procs -> Requests]
  <2>1. [pc |-> "refund", call |-> req[p].call, user |-> req[p].user] \in Requests
    BY <1>5 DEF Requests
  <2>2. req' = [req EXCEPT ![p] = [pc |-> "refund", call |-> req[p].call, user |-> req[p].user]]
    BY <1>5 DEF RefundHold, TypeOK
  <2> QED BY <2>1, <2>2, GotoTyped
<1>6. ASSUME NEW p \in Procs, LeaseThrows(p)
      PROVE  req' \in [Procs -> Requests]
  BY <1>5, <1>6, RequestKinds DEF LeaseThrows, At
<1>7. ASSUME NEW p \in Procs, LeasePick(p)
      PROVE  req' \in [Procs -> Requests]
  <2>1. req[p].call \in Calls /\ req[p].user \in Users
    BY <1>7, RequestKinds DEF LeasePick, At
  <2>2. ASSUME NEW i \in DOMAIN pool,
               Goto(p, [pc |-> "leasing", call |-> req[p].call,
                        user |-> req[p].user, number |-> pool[i]])
        PROVE  req' \in [Procs -> Requests]
    <3>1. pool[i] \in NumberSet
      BY DEF TypeOK
    <3>2. [pc |-> "leasing", call |-> req[p].call,
           user |-> req[p].user, number |-> pool[i]] \in Requests
      BY <2>1, <3>1 DEF Requests
    <3> QED BY <2>2, <3>2, GotoTyped DEF Goto
  <2> QED BY <1>5, <1>7, <2>1, <2>2 DEF LeasePick
<1>8. ASSUME NEW p \in Procs, LeaseCommit(p) \/ PlaceCall(p)
      PROVE  req' \in [Procs -> Requests]
  <2>1. req[p] \in [pc: {"leasing", "place", "insert"}, call: Calls, user: Users,
                    number: NumberSet]
    BY <1>8, RequestKinds DEF LeaseCommit, PlaceCall, At
  <2>2. [req[p] EXCEPT !.pc = "place"] \in Requests /\ [req[p] EXCEPT !.pc = "insert"] \in Requests
    BY <2>1 DEF Requests
  <2> QED BY <1>8, <2>2 DEF LeaseCommit, PlaceCall, TypeOK
<1>9. ASSUME NEW p \in Procs, NEW c \in Calls, EndStart(p, c)
      PROVE  req' \in [Procs -> Requests]
  <2> DEFINE cost == IF calls[c].connectedAt = Null THEN 0
                     ELSE (now - calls[c].connectedAt) * Rate
  <2>1. calls[c] \in Row /\ calls[c].connectedAt \in 0 .. MaxTime \cup {Null}
    BY <1>9 DEF EndStart, TypeOK, Row
  <2>2. calls[c].connectedAt # Null => now - calls[c].connectedAt \in Nat
    BY <1>9, <2>1 DEF EndStart, CallsAreHeld, TypeOK
  <2>3. \A a, b \in Nat : a * b \in Nat
    OBVIOUS
  <2>4. cost \in Nat
    BY <2>2, <2>3, BillingAssumption
  <2> HIDE DEF cost
  <2>5. [pc |-> "hangup", call |-> c, cost |-> cost] \in Requests
    BY <2>4 DEF Requests
  <2> QED BY <1>9, <2>5, GotoTyped DEF EndStart, Goto, cost
<1>10. ASSUME NEW p \in Procs, Hangup(p) \/ MarkEnded(p)
       PROVE  req' \in [Procs -> Requests]
  <2>1. req[p] \in [pc: {"hangup", "mark", "settle"}, call: Calls, cost: Nat]
    BY <1>10, RequestKinds DEF Hangup, MarkEnded, At
  <2>2. [req[p] EXCEPT !.pc = "mark"] \in Requests /\ [req[p] EXCEPT !.pc = "settle"] \in Requests
    BY <2>1 DEF Requests
  <2> QED BY <1>1, <1>10, <2>2 DEF Hangup, MarkEnded, TypeOK, Goto
<1>11. ASSUME \/ Tick \/ UNCHANGED vars
              \/ \E c \in Calls : MarkConnected(c)
              \/ \E p \in Procs : Call_TxnStep(p)
       PROVE  req' \in [Procs -> Requests]
  BY <1>11 DEF Tick, MarkConnected, Call_TxnStep, callVars, vars, TypeOK
<1> QED
  BY <1>2, <1>3, <1>4, <1>6, <1>7, <1>8, <1>9, <1>10, <1>11 DEF Next, HandlerStep

\* Moving one number to the end keeps the pool's length and its numbers.
LEMMA PoolMoves ==
    ASSUME TypeOK, NEW i \in DOMAIN pool
    PROVE  SubSeq(pool, 1, i - 1) \o SubSeq(pool, i + 1, Len(pool)) \o <<pool[i]>>
              \in [DOMAIN Numbers -> NumberSet]
<1> DEFINE a == SubSeq(pool, 1, i - 1)
           b == SubSeq(pool, i + 1, Len(pool))
           n == Len(Numbers)
<1>1. DOMAIN Numbers = 1 .. n /\ n \in Nat
  BY NumbersAssumption
<1>2. pool \in [1 .. n -> NumberSet]
  BY <1>1 DEF TypeOK
<1>3. pool \in Seq(NumberSet) /\ Len(pool) = n /\ i \in 1 .. n
  BY <1>1, <1>2
<1>4. a \in Seq(NumberSet) /\ Len(a) = i - 1
  BY <1>3
<1>5. b \in Seq(NumberSet) /\ Len(b) = n - i
  BY <1>3
<1>6. <<pool[i]>> \in Seq(NumberSet) /\ Len(<<pool[i]>>) = 1
  BY <1>3
<1> HIDE DEF a, b
<1>7. a \o b \in Seq(NumberSet) /\ Len(a \o b) = n - 1
  <2>1. (i - 1) + (n - i) = n - 1
    BY <1>1, <1>3
  <2>2. a \o b \in Seq(NumberSet) /\ Len(a \o b) = Len(a) + Len(b)
    BY <1>4, <1>5, ConcatProperties
  <2> QED BY <1>4, <1>5, <2>1, <2>2
<1>8. (a \o b) \o <<pool[i]>> \in Seq(NumberSet) /\ Len((a \o b) \o <<pool[i]>>) = n
  <2>1. n - 1 + 1 = n
    BY <1>1
  <2> HIDE DEF n
  <2> QED BY <1>6, <1>7, <2>1, ConcatProperties
<1>9. (a \o b) \o <<pool[i]>> \in [1 .. n -> NumberSet]
  <2> DEFINE z == (a \o b) \o <<pool[i]>>
  <2>1. z \in Seq(NumberSet) /\ Len(z) = n
    BY <1>8
  <2> HIDE DEF z, n
  <2>2. z \in [1 .. n -> NumberSet]
    BY <2>1
  <2> QED BY <2>2 DEF z
<1> QED BY <1>1, <1>9 DEF a, b

-----------------------------------------------------------------------------
(* What a step does to the calls.                                          *)

\* What a step can do to masked_calls.
LEMMA CallSteps ==
    ASSUME TypeOK, [Next]_vars
    PROVE  \/ UNCHANGED calls
           \/ \E p \in Procs : InsertCall(p)
           \/ \E c \in Calls : MarkConnected(c)
           \/ \E p \in Procs : MarkEnded(p)
<1>1. ASSUME NEW p \in Procs, HandlerStep(p)
      PROVE  UNCHANGED calls \/ InsertCall(p) \/ MarkEnded(p)
  BY <1>1 DEF HandlerStep, Call_TxnStep, callVars, HoldDone, LeasePick, LeaseCommit,
              RefundDone, PlaceCall, Hangup, SettleDone
<1> QED
  BY <1>1 DEF Next, Tick, LeaseThrows, PlaceThrows, HangupThrows, Crash, EndStart,
              InitiateStart, vars, callVars

\* A step keeps the calls that are there and their callers; a call that was
\* connected stays so; only a dialler adds a call.
LEMMA CallsAreKept ==
    ASSUME TypeOK, DiallersHold, EndersHaveCalls, [Next]_vars
    PROVE  /\ calls' \in [Calls -> Row \cup {Null}]
           /\ \A c \in Calls : calls[c] # Null =>
                 /\ calls'[c] # Null
                 /\ calls'[c].caller = calls[c].caller
                 /\ calls'[c].connectedAt = Null => calls[c].connectedAt = Null
                 /\ calls'[c].connectedAt \in {calls[c].connectedAt, now}
           /\ \A c \in Calls : calls[c] = Null /\ calls'[c] # Null =>
                 \E p \in Procs :
                    /\ InsertCall(p) /\ req[p].call = c
                    /\ calls'[c].connectedAt = Null /\ calls'[c].caller = req[p].user
<1> DEFINE Goal ==
           /\ calls' \in [Calls -> Row \cup {Null}]
           /\ \A c \in Calls : calls[c] # Null =>
                 /\ calls'[c] # Null
                 /\ calls'[c].caller = calls[c].caller
                 /\ calls'[c].connectedAt = Null => calls[c].connectedAt = Null
                 /\ calls'[c].connectedAt \in {calls[c].connectedAt, now}
           /\ \A c \in Calls : calls[c] = Null /\ calls'[c] # Null =>
                 \E p \in Procs :
                    /\ InsertCall(p) /\ req[p].call = c
                    /\ calls'[c].connectedAt = Null /\ calls'[c].caller = req[p].user
<1>0. calls \in [Calls -> Row \cup {Null}]
  BY DEF TypeOK
<1>1. CASE UNCHANGED calls
  BY <1>0, <1>1
\* A row that is there is replaced by one that keeps what matters.
<1>2. ASSUME NEW c \in Calls, NEW r \in Row, calls[c] # Null,
             calls' = [calls EXCEPT ![c] = r],
             r.caller = calls[c].caller,
             r.connectedAt = Null => calls[c].connectedAt = Null,
             r.connectedAt \in {calls[c].connectedAt, now}
      PROVE  Goal
  <2>1. calls'[c] = r /\ \A d \in Calls \ {c} : calls'[d] = calls[d]
    BY <1>0, <1>2
  <2>2. r # Null
    BY NullCallAssumption
  <2>3. calls' \in [Calls -> Row \cup {Null}]
    BY <1>0, <1>2
  <2> QED BY <1>2, <2>1, <2>2, <2>3
<1>3. ASSUME NEW p \in Procs, InsertCall(p)
      PROVE  Goal
  <2> DEFINE c == req[p].call
             r == [caller |-> req[p].user, number |-> req[p].number,
                   status |-> "ringing_callee", connectedAt |-> Null, cost |-> 0]
  <2>1. /\ req[p].pc = "insert"
        /\ c \in Calls /\ req[p].user \in Users /\ req[p].number \in NumberSet
    BY <1>3, RequestKinds DEF InsertCall, At
  <2>2. calls[c] = Null
    BY <2>1 DEF DiallersHold, Dialling
  <2>3. r \in Row
    BY <2>1 DEF Row
  <2>4. r.connectedAt = Null /\ r.caller = req[p].user
    OBVIOUS
  <2>5. calls' = [calls EXCEPT ![c] = r]
    BY <1>3 DEF InsertCall
  <2> HIDE DEF r
  <2>6. calls'[c] = r /\ \A d \in Calls \ {c} : calls'[d] = calls[d]
    BY <1>0, <2>1, <2>5
  <2> QED BY <1>0, <1>3, <2>1, <2>2, <2>3, <2>4, <2>5, <2>6
<1>4. ASSUME NEW c \in Calls, MarkConnected(c)
      PROVE  Goal
  <2> DEFINE r == [calls[c] EXCEPT !.status = "connected", !.connectedAt = now]
  <2>1. calls[c] \in Row /\ calls[c] # Null
    BY <1>0, <1>4 DEF MarkConnected
  <2>2. now \in 0 .. MaxTime /\ now # Null
    BY NullAssumption, BillingAssumption DEF TypeOK
  <2>3. r \in Row /\ r.caller = calls[c].caller /\ r.connectedAt = now
    BY <2>1, <2>2 DEF Row
  <2>4. calls' = [calls EXCEPT ![c] = r]
    BY <1>0, <1>4 DEF MarkConnected
  <2> HIDE DEF r
  <2> QED BY <1>2, <2>1, <2>2, <2>3, <2>4
<1>5. ASSUME NEW p \in Procs, MarkEnded(p)
      PROVE  Goal
  <2> DEFINE c == req[p].call
             r == Ended(calls[c], req[p].cost)
  <2>1. req[p].pc = "mark" /\ c \in Calls /\ req[p].cost \in Nat
    BY <1>5, RequestKinds DEF MarkEnded, At
  <2>2. calls[c] \in Row /\ calls[c] # Null
    BY <1>0, <2>1 DEF EndersHaveCalls, Ending
  <2>3. /\ r \in Row /\ r.caller = calls[c].caller
        /\ r.connectedAt = calls[c].connectedAt
    BY <2>1, <2>2 DEF Row, Ended
  <2>4. calls' = [calls EXCEPT ![c] = r]
    BY <1>5 DEF MarkEnded
  <2> HIDE DEF r
  <2> QED BY <1>2, <2>1, <2>2, <2>3, <2>4
<1> QED BY <1>1, <1>3, <1>4, <1>5, CallSteps

\* Every step keeps the types.
LEMMA TypeStep ==
    ASSUME Inv, [Next]_vars
    PROVE  TypeOK'
<1> USE DEF Inv
<1>1. TxnTypeOK'
  BY StepIsTxnStep, TxnNextType DEF TypeOK
<1>2. req' \in [Procs -> Requests]
  BY RequestTypeStep
<1>3. calls' \in [Calls -> Row \cup {Null}]
  BY CallsAreKept
<1> DEFINE Goal == /\ pool' \in [DOMAIN Numbers -> NumberSet]
                   /\ poolLock' \in [NumberSet -> Procs \cup {Null}]
                   /\ live' \subseteq Calls
                   /\ now' \in 0 .. MaxTime
                   /\ crashes' \in 0 .. MaxCrashes
<1>4. /\ pool \in [DOMAIN Numbers -> NumberSet]
      /\ poolLock \in [NumberSet -> Procs \cup {Null}]
      /\ live \subseteq Calls
      /\ now \in 0 .. MaxTime
      /\ crashes \in 0 .. MaxCrashes
  BY DEF TypeOK
<1>5. ASSUME NEW p \in Procs, LeaseCommit(p)
      PROVE  Goal
  <2>1. PICK i \in DOMAIN pool :
           pool' = SubSeq(pool, 1, i - 1) \o SubSeq(pool, i + 1, Len(pool)) \o <<pool[i]>>
    BY <1>5 DEF LeaseCommit
  <2>2. pool' \in [DOMAIN Numbers -> NumberSet]
    BY <2>1, PoolMoves
  <2> QED BY <1>4, <1>5, <2>2 DEF LeaseCommit
<1>6. ASSUME NEW p \in Procs, LeasePick(p) \/ LeaseThrows(p) \/ Crash(p)
      PROVE  Goal
  <2>1. poolLock' \in [NumberSet -> Procs \cup {Null}]
    BY <1>4, <1>6 DEF LeasePick, LeaseThrows, Crash
  <2>2. crashes' \in 0 .. MaxCrashes
    BY <1>4, <1>6, BillingAssumption DEF LeasePick, LeaseThrows, Crash
  <2> QED BY <1>4, <1>6, <2>1, <2>2 DEF LeasePick, LeaseThrows, Crash
<1>7. ASSUME NEW p \in Procs, PlaceCall(p) \/ PlaceThrows(p) \/ Hangup(p)
      PROVE  Goal
  <2>1. req[p].call \in Calls
    BY <1>7, RequestKinds DEF PlaceCall, PlaceThrows, Hangup, At
  <2> QED BY <1>4, <1>7, <2>1 DEF PlaceCall, PlaceThrows, Hangup
<1>8. ASSUME NEW p \in Procs,
             \/ Call_TxnStep(p) \/ HoldDone(p) \/ RefundDone(p) \/ InsertCall(p)
             \/ MarkEnded(p) \/ SettleDone(p) \/ HangupThrows(p)
             \/ \E c \in Calls : EndStart(p, c) \/ \E u \in Users : InitiateStart(p, u, c)
      PROVE  Goal
  BY <1>4, <1>8 DEF Call_TxnStep, callVars, HoldDone, RefundDone, InsertCall, MarkEnded,
                    SettleDone, HangupThrows, EndStart, InitiateStart
<1>9. ASSUME Tick
      PROVE  Goal
  <2>1. now' \in 0 .. MaxTime
    BY <1>4, <1>9, BillingAssumption DEF Tick
  <2>2. UNCHANGED <<pool, poolLock, live, crashes>>
    BY <1>9 DEF Tick
  <2> QED BY <1>4, <2>1, <2>2
<1>10. ASSUME \/ UNCHANGED vars
              \/ \E c \in Calls : MarkConnected(c)
       PROVE  Goal
  BY <1>4, <1>10 DEF vars, callVars, MarkConnected
<1>11. Goal
  BY <1>5, <1>6, <1>7, <1>8, <1>9, <1>10 DEF Next, HandlerStep
<1> QED BY <1>1, <1>2, <1>3, <1>11 DEF TypeOK

-----------------------------------------------------------------------------
(* What a step does to the requests, to live and to the transactions.      *)

\* A request that dials was dialling that call for that user before, or has
\* just begun; one that ends a call likewise.
LEMMA RequestMoves ==
    ASSUME TypeOK, [Next]_vars, NEW q \in Procs
    PROVE  /\ Dialling(q)' =>
                 \/ req'[q] = req[q]
                 \/ /\ Dialling(q)
                    /\ req'[q].call = req[q].call /\ req'[q].user = req[q].user
                    /\ \/ req[q].pc = "hold" /\ HoldDone(q) /\ tx[q].outcome = "applied"
                       \/ req[q].pc \in {"lease", "leasing"}
                       \/ req[q].pc = "place" /\ req'[q].pc = "insert"
                 \/ \E u \in Users, c \in Calls :
                       InitiateStart(q, u, c) /\ req'[q].call = c /\ req'[q].pc = "hold"
           /\ Ending(q)' =>
                 \/ Ending(q) /\ req'[q].call = req[q].call /\ req'[q].cost = req[q].cost
                 \/ \E c \in Calls : EndStart(q, c) /\ req'[q].call = c
<1> DEFINE Goal ==
           /\ Dialling(q)' =>
                 \/ req'[q] = req[q]
                 \/ /\ Dialling(q)
                    /\ req'[q].call = req[q].call /\ req'[q].user = req[q].user
                    /\ \/ req[q].pc = "hold" /\ HoldDone(q) /\ tx[q].outcome = "applied"
                       \/ req[q].pc \in {"lease", "leasing"}
                       \/ req[q].pc = "place" /\ req'[q].pc = "insert"
                 \/ \E u \in Users, c \in Calls :
                       InitiateStart(q, u, c) /\ req'[q].call = c /\ req'[q].pc = "hold"
           /\ Ending(q)' =>
                 \/ Ending(q) /\ req'[q].call = req[q].call /\ req'[q].cost = req[q].cost
                 \/ \E c \in Calls : EndStart(q, c) /\ req'[q].call = c
<1> SUFFICES Goal
  OBVIOUS
<1>1. CASE req'[q] = req[q]
  BY <1>1 DEF Dialling, Ending
<1>2. CASE req'[q] = Idle
  BY <1>2 DEF Dialling, Ending, Idle
<1>3. CASE \E u \in Users, c \in Calls : InitiateStart(q, u, c)
  <2>1. PICK u \in Users, c \in Calls : InitiateStart(q, u, c)
    BY <1>3
  <2>2. req'[q] = [pc |-> "hold", call |-> c, user |-> u]
    BY <2>1 DEF InitiateStart, Goto, TypeOK
  <2>3. req'[q].call = c /\ req'[q].pc = "hold"
    BY <2>2
  <2> QED BY <2>1, <2>3 DEF Dialling, Ending
<1>4. CASE HoldDone(q)
  <2>1. req[q] \in [pc: {"hold", "lease", "refund"}, call: Calls, user: Users]
    BY <1>4, RequestKinds DEF HoldDone, At
  <2>2. CASE tx[q].outcome = "applied"
    <3>1. req'[q] = [req[q] EXCEPT !.pc = "lease"] /\ req[q].pc = "hold"
      BY <1>4, <2>2 DEF HoldDone, Goto, TypeOK, At
    <3> QED BY <1>4, <2>1, <2>2, <3>1 DEF Dialling, Ending
  <2>3. CASE tx[q].outcome # "applied"
    BY <1>2, <1>4, <2>3 DEF HoldDone, Goto, TypeOK
  <2> QED BY <2>2, <2>3
<1>5. CASE RefundHold(q) /\ req[q].pc \in {"lease", "leasing"}
  <2>1. req'[q] = [pc |-> "refund", call |-> req[q].call, user |-> req[q].user]
    BY <1>5 DEF RefundHold, TypeOK
  <2> QED BY <1>5, <2>1 DEF Dialling, Ending
<1>6. CASE LeasePick(q)
  <2>1. CASE RefundHold(q)
    BY <1>5, <1>6, <2>1 DEF LeasePick, At
  <2>2. ASSUME NEW n, Goto(q, [pc |-> "leasing", call |-> req[q].call,
                               user |-> req[q].user, number |-> n])
        PROVE  Goal
    BY <1>6, <2>2 DEF LeasePick, At, Goto, TypeOK, Dialling, Ending
  <2> QED BY <1>6, <2>1, <2>2 DEF LeasePick
<1>7. CASE LeaseCommit(q) \/ PlaceCall(q)
  <2>1. req[q] \in [pc: {"leasing", "place", "insert"}, call: Calls, user: Users,
                    number: NumberSet]
    BY <1>7, RequestKinds DEF LeaseCommit, PlaceCall, At
  <2>2. \/ req[q].pc = "leasing" /\ req'[q] = [req[q] EXCEPT !.pc = "place"]
        \/ req[q].pc = "place" /\ req'[q] = [req[q] EXCEPT !.pc = "insert"]
    BY <1>7 DEF LeaseCommit, PlaceCall, At, TypeOK
  <2> QED BY <2>1, <2>2 DEF Dialling, Ending
<1>8. CASE Hangup(q) \/ MarkEnded(q)
  <2>1. req[q] \in [pc: {"hangup", "mark", "settle"}, call: Calls, cost: Nat]
    BY <1>8, RequestKinds DEF Hangup, MarkEnded, At
  <2>2. \/ req'[q] = Idle
        \/ req'[q] = [req[q] EXCEPT !.pc = "mark"]
        \/ req'[q] = [req[q] EXCEPT !.pc = "settle"]
    BY <1>8 DEF Hangup, MarkEnded, Goto, TypeOK
  <2> QED BY <1>2, <2>1, <2>2 DEF Dialling, Ending
<1>9. CASE \E c \in Calls : EndStart(q, c)
  <2>1. PICK c \in Calls : EndStart(q, c)
    BY <1>9
  <2>2. req'[q].call = c /\ req'[q].pc = "hangup"
    BY <2>1 DEF EndStart, Goto, TypeOK
  <2> QED BY <2>1, <2>2 DEF Dialling, Ending
<1>10. CASE \/ RefundDone(q) \/ PlaceThrows(q) \/ InsertCall(q) \/ HangupThrows(q)
            \/ SettleDone(q) \/ Crash(q)
  BY <1>2, <1>10
  DEF RefundDone, PlaceThrows, InsertCall, HangupThrows, SettleDone, Crash, Goto, TypeOK
<1>11. ASSUME NEW p \in Procs, p # q, NEW r, req' = [req EXCEPT ![p] = r]
       PROVE  Goal
  BY <1>1, <1>11 DEF TypeOK
<1>12. ASSUME NEW p \in Procs, p # q,
              \/ HandlerStep(p) \/ LeaseThrows(p) \/ PlaceThrows(p) \/ HangupThrows(p)
              \/ Crash(p)
              \/ \E c \in Calls : EndStart(p, c) \/ \E u \in Users : InitiateStart(p, u, c)
       PROVE  req'[q] = req[q]
  BY <1>12
  DEF HandlerStep, LeaseThrows, PlaceThrows, HangupThrows, Crash, EndStart, InitiateStart,
      Goto, Call_TxnStep, callVars, HoldDone, LeasePick, RefundHold, LeaseCommit, RefundDone,
      PlaceCall, InsertCall, Hangup, MarkEnded, SettleDone, TypeOK
<1>13. ASSUME \/ Tick \/ UNCHANGED vars
              \/ \E c \in Calls : MarkConnected(c)
              \/ Call_TxnStep(q)
       PROVE  req'[q] = req[q]
  BY <1>13 DEF Tick, MarkConnected, Call_TxnStep, callVars, vars
<1> HIDE DEF Goal
<1> QED
  BY <1>1, <1>3, <1>4, <1>5, <1>6, <1>7, <1>8, <1>9, <1>10, <1>12, <1>13
  DEF Next, HandlerStep, LeaseThrows, At

\* The provider bridges a call for the request that places it.
LEMMA LiveSteps ==
    ASSUME TypeOK, [Next]_vars
    PROVE  \A c \in live' : c \in live \/
              \E p \in Procs : req[p].pc = "place" /\ req[p].call = c
                               /\ req'[p].pc \in {"insert", "idle"}
<1>1. ASSUME NEW p \in Procs, PlaceCall(p) \/ PlaceThrows(p)
      PROVE  /\ live' \subseteq live \cup {req[p].call}
             /\ req[p].pc = "place" /\ req'[p].pc \in {"insert", "idle"}
  <2>1. req[p] \in [pc: {"leasing", "place", "insert"}, call: Calls, user: Users,
                    number: NumberSet]
    BY <1>1, RequestKinds DEF PlaceCall, PlaceThrows, At
  <2> QED BY <1>1, <2>1 DEF PlaceCall, PlaceThrows, At, Goto, Idle, TypeOK
<1>2. \/ live' \subseteq live
      \/ \E p \in Procs : PlaceCall(p) \/ PlaceThrows(p)
  <2>1. ASSUME NEW p \in Procs, HandlerStep(p), ~PlaceCall(p)
        PROVE  live' \subseteq live
    BY <2>1 DEF HandlerStep, Call_TxnStep, callVars, HoldDone, LeasePick, LeaseCommit,
                RefundDone, InsertCall, Hangup, MarkEnded, SettleDone
  <2> QED BY <2>1 DEF Next, Tick, MarkConnected, LeaseThrows, HangupThrows, Crash,
                      EndStart, InitiateStart, vars, callVars
<1> QED BY <1>1, <1>2

\* A handler's transaction is the one its request began.
LEMMA TxnMoves ==
    ASSUME TypeOK, TxnsMatch, [Next]_vars, NEW q \in Procs, tx'[q] # NoTxn
    PROVE  \/ /\ tx[q] # NoTxn /\ req'[q] = req[q]
              /\ tx'[q].user = tx[q].user /\ tx'[q].ref = tx[q].ref
              /\ tx'[q].amount = tx[q].amount
           \/ \E u \in Users, c \in Calls :
                 /\ req'[q] = [pc |-> "hold", call |-> c, user |-> u]
                 /\ tx'[q] = Started(u, HoldRef(c), -HoldPaise)
           \/ /\ req'[q] = [pc |-> "refund", call |-> req[q].call, user |-> req[q].user]
              /\ tx'[q] = Started(req[q].user, FailRef(req[q].call), HoldPaise)
           \/ /\ req[q].pc = "mark" /\ HoldPaise - req[q].cost > 0
              /\ req'[q] = [req[q] EXCEPT !.pc = "settle"]
              /\ tx'[q] = Started(calls[req[q].call].caller, SettleRef(req[q].call),
                                  HoldPaise - req[q].cost)
<1> DEFINE Goal ==
           \/ /\ tx[q] # NoTxn /\ req'[q] = req[q]
              /\ tx'[q].user = tx[q].user /\ tx'[q].ref = tx[q].ref
              /\ tx'[q].amount = tx[q].amount
           \/ \E u \in Users, c \in Calls :
                 /\ req'[q] = [pc |-> "hold", call |-> c, user |-> u]
                 /\ tx'[q] = Started(u, HoldRef(c), -HoldPaise)
           \/ /\ req'[q] = [pc |-> "refund", call |-> req[q].call, user |-> req[q].user]
              /\ tx'[q] = Started(req[q].user, FailRef(req[q].call), HoldPaise)
           \/ /\ req[q].pc = "mark" /\ HoldPaise - req[q].cost > 0
              /\ req'[q] = [req[q] EXCEPT !.pc = "settle"]
              /\ tx'[q] = Started(calls[req[q].call].caller, SettleRef(req[q].call),
                                  HoldPaise - req[q].cost)
<1> SUFFICES Goal
  OBVIOUS
<1>1. CASE req'[q] = req[q] /\ tx'[q] = tx[q]
  BY <1>1
<1>2. CASE \E u \in Users, c \in Calls : InitiateStart(q, u, c)
  BY <1>2 DEF InitiateStart, BeginTxn, Goto, TypeOK, TxnTypeOK
<1>3. CASE RefundHold(q)
  BY <1>3 DEF RefundHold, BeginTxn, TypeOK, TxnTypeOK
<1>4. CASE MarkEnded(q) /\ ~UNCHANGED txnVars
  BY <1>4 DEF MarkEnded, At, BeginTxn, TypeOK, TxnTypeOK
<1>5. CASE Call_TxnStep(q)
  BY <1>5, TxnStepPosts DEF Call_TxnStep, callVars, TypeOK
<1>6. CASE HoldDone(q) \/ RefundDone(q) \/ SettleDone(q) \/ Crash(q)
  BY <1>6 DEF HoldDone, RefundDone, SettleDone, Crash, EndTxn, AbortTxn, TypeOK, TxnTypeOK
\* The other moves are made with no transaction open.
<1>7. CASE UNCHANGED txnVars /\ req[q].pc \notin {"hold", "refund", "settle"}
  BY <1>7 DEF txnVars, TxnsMatch, TxnIsFor
<1>8. ASSUME NEW p \in Procs, p # q, NEW r, req' = [req EXCEPT ![p] = r]
      PROVE  req'[q] = req[q]
  BY <1>8 DEF TypeOK
<1>9. ASSUME NEW p \in Procs, p # q, NEW t, tx' = [tx EXCEPT ![p] = t]
      PROVE  tx'[q] = tx[q]
  BY <1>9 DEF TypeOK, TxnTypeOK
<1>10. ASSUME NEW p \in Procs, p # q,
              \/ HandlerStep(p) \/ LeaseThrows(p) \/ PlaceThrows(p) \/ HangupThrows(p)
              \/ Crash(p)
              \/ \E c \in Calls : EndStart(p, c) \/ \E u \in Users : InitiateStart(p, u, c)
       PROVE  req'[q] = req[q] /\ tx'[q] = tx[q]
  <2>1. req'[q] = req[q]
    BY <1>8, <1>10
    DEF HandlerStep, LeaseThrows, PlaceThrows, HangupThrows, Crash, EndStart, InitiateStart,
        Goto, Call_TxnStep, callVars, HoldDone, LeasePick, RefundHold, LeaseCommit,
        RefundDone, PlaceCall, InsertCall, Hangup, MarkEnded, SettleDone, TypeOK
  <2>2. tx'[q] = tx[q]
    BY <1>10
    DEF HandlerStep, LeaseThrows, PlaceThrows, HangupThrows, Crash, EndStart, InitiateStart,
        Call_TxnStep, HoldDone, LeasePick, RefundHold, LeaseCommit,
        RefundDone, PlaceCall, InsertCall, Hangup, MarkEnded, SettleDone, TypeOK, TxnTypeOK,
        TxnStep, ReadPrior, LockRow, WriteAndCommit, BeginTxn, EndTxn, AbortTxn, txnVars
  <2> QED BY <2>1, <2>2
<1>11. ASSUME \/ Tick \/ UNCHANGED vars
              \/ \E c \in Calls : MarkConnected(c)
       PROVE  req'[q] = req[q] /\ tx'[q] = tx[q]
  BY <1>11 DEF Tick, MarkConnected, vars, txnVars, callVars
<1>12. ASSUME \/ LeaseCommit(q) \/ PlaceCall(q) \/ InsertCall(q) \/ Hangup(q)
              \/ PlaceThrows(q) \/ HangupThrows(q)
              \/ \E c \in Calls : EndStart(q, c)
              \/ LeasePick(q) /\ ~RefundHold(q)
              \/ MarkEnded(q) /\ UNCHANGED txnVars
       PROVE  UNCHANGED txnVars /\ req[q].pc \notin {"hold", "refund", "settle"}
  <2>1. CASE LeasePick(q) /\ ~RefundHold(q)
    BY <2>1 DEF LeasePick, At
  <2>2. CASE MarkEnded(q) /\ UNCHANGED txnVars
    BY <2>2 DEF MarkEnded, At
  <2>3. CASE \E c \in Calls : EndStart(q, c)
    BY <2>3 DEF EndStart, Idle
  <2> QED
    BY <1>12, <2>1, <2>2, <2>3
    DEF LeaseCommit, PlaceCall, InsertCall, Hangup, PlaceThrows, HangupThrows, At
<1> HIDE DEF Goal
<1> QED
  BY <1>1, <1>2, <1>3, <1>4, <1>5, <1>6, <1>7, <1>10, <1>11, <1>12
  DEF Next, HandlerStep, LeaseThrows

-----------------------------------------------------------------------------
(* The invariant, one conjunct after the other.                            *)

\* A posted reference stays posted.
LEMMA PriorsAreKept ==
    ASSUME Inv, [Next]_vars
    PROVE  /\ \A u, ref : HasPrior(u, ref) /\ u \in Users => HasPrior(u, ref)'
           /\ \A ref : RefTaken(ref) => RefTaken(ref)'
BY StepIsTxnStep, TxnNextPosts DEF Inv, TypeOK

\* A request that dials carries its call and its caller.
LEMMA DiallerTyped ==
    ASSUME TypeOK, NEW p \in Procs, Dialling(p)
    PROVE  req[p].call \in Calls /\ req[p].user \in Users
BY RequestKinds DEF Dialling

\* A call id is taken by one dial: the two requests would both have begun it.
LEMMA OneDiallerStep ==
    ASSUME Inv, [Next]_vars
    PROVE  OneDiallerPerCall'
<1> USE DEF Inv
<1> SUFFICES ASSUME NEW p \in Procs, NEW q \in Procs, Dialling(p)', Dialling(q)',
                    req'[p].call = req'[q].call, p # q
             PROVE  FALSE
  BY DEF OneDiallerPerCall
\* A fresh dial is nobody else's.
<1>1. ASSUME NEW a \in Procs, NEW b \in Procs, a # b,
             NEW u \in Users, NEW c \in Calls, InitiateStart(a, u, c), Dialling(b)'
      PROVE  req'[b].call # c
  <2>1. req'[b] = req[b]
    BY <1>1 DEF InitiateStart, Goto, TypeOK
  <2>2. Dialling(b) /\ req[b] # Idle
    BY <1>1, <2>1 DEF Dialling, Idle
  <2> QED BY <1>1, <2>1, <2>2 DEF InitiateStart, FreshDial
<1>2. ASSUME NEW a \in Procs, Dialling(a)',
             \A u \in Users, c \in Calls : ~InitiateStart(a, u, c)
      PROVE  Dialling(a) /\ req'[a].call = req[a].call
  BY <1>2, RequestMoves DEF Dialling
<1>3. ASSUME NEW a \in Procs, NEW b \in Procs, a # b, Dialling(b)',
             NEW u \in Users, NEW c \in Calls, InitiateStart(a, u, c)
      PROVE  req'[a].call # req'[b].call
  <2>1. req'[a].call = c
    BY <1>3 DEF InitiateStart, Goto, TypeOK
  <2> QED BY <1>1, <1>3, <2>1
<1>4. \A u \in Users, c \in Calls : ~InitiateStart(p, u, c) /\ ~InitiateStart(q, u, c)
  BY <1>3
<1> QED BY <1>2, <1>4 DEF OneDiallerPerCall

\* The row of a call being set up is its own dialler's to insert.
LEMMA DiallersStep ==
    ASSUME Inv, [Next]_vars
    PROVE  DiallersHold'
<1> USE DEF Inv
<1> SUFFICES ASSUME NEW q \in Procs, Dialling(q)'
             PROVE  /\ calls'[req'[q].call] = Null
                    /\ req'[q].pc # "hold" => HasPrior(req[q].user, HoldRef(req[q].call))'
  BY DEF DiallersHold
<1>1. CASE \E u \in Users, c \in Calls : InitiateStart(q, u, c) /\ req'[q].call = c
                                          /\ req'[q].pc = "hold"
  BY <1>1 DEF InitiateStart, FreshDial
<1>2. CASE Dialling(q) /\ req'[q].call = req[q].call /\ req'[q].user = req[q].user
  <2>1. req[q].call \in Calls /\ req[q].user \in Users /\ calls[req[q].call] = Null
    BY <1>2, DiallerTyped DEF DiallersHold
  <2>2. calls'[req[q].call] = Null
    <3> SUFFICES ASSUME calls'[req[q].call] # Null PROVE FALSE
      OBVIOUS
    <3>1. PICK p \in Procs : InsertCall(p) /\ req[p].call = req[q].call
      BY <2>1, CallsAreKept
    <3>2. p = q
      BY <1>2, <3>1 DEF InsertCall, At, Dialling, OneDiallerPerCall
    <3> QED BY <3>1, <3>2 DEF InsertCall, Goto, Dialling, Idle, TypeOK
  <2>3. req'[q].pc # "hold" => HasPrior(req[q].user, HoldRef(req[q].call))
    <3>1. CASE req[q].pc # "hold"
      BY <1>2, <3>1 DEF DiallersHold
    <3>2. CASE req[q].pc = "hold" /\ HoldDone(q) /\ tx[q].outcome = "applied"
      <4>1. tx[q].pc = "done" /\ tx[q] # NoTxn
        BY <3>2 DEF HoldDone, EndTxn, NoTxn
      <4>2. tx[q].user = req[q].user /\ tx[q].ref = HoldRef(req[q].call)
        BY <3>2, <4>1 DEF TxnsMatch, TxnIsFor
      <4> QED BY <3>2, <4>1, <4>2 DEF AppliedIsPosted
    <3>3. req[q].pc = "hold" =>
             req'[q].pc = "hold" \/ (HoldDone(q) /\ tx[q].outcome = "applied")
      BY <1>2, RequestMoves
    <3> QED BY <3>1, <3>2, <3>3
  <2>4. req'[q].pc # "hold" => HasPrior(req[q].user, HoldRef(req[q].call))'
    <3> SUFFICES ASSUME req'[q].pc # "hold"
                 PROVE  HasPrior(req[q].user, HoldRef(req[q].call))'
      OBVIOUS
    <3>1. \E i \in DOMAIN entries[req[q].user] :
             entries[req[q].user][i].ref = HoldRef(req[q].call)
      BY <2>3 DEF HasPrior
    <3>2. \E i \in DOMAIN entries'[req[q].user] :
             entries'[req[q].user][i].ref = HoldRef(req[q].call)
      BY <2>1, <3>1, StepIsTxnStep, TxnNextPosts DEF TypeOK
    <3> QED BY <1>2, <3>2 DEF HasPrior, HoldRef
  <2> QED BY <1>2, <2>2, <2>4
<1>3. req'[q] = req[q] => Dialling(q)
  BY DEF Dialling
<1> QED BY <1>1, <1>2, <1>3, RequestMoves

\* Rows are not removed, and a cost is measured on a connected call.
LEMMA EndersStep ==
    ASSUME Inv, [Next]_vars
    PROVE  EndersHaveCalls'
<1> USE DEF Inv
<1> SUFFICES ASSUME NEW q \in Procs, Ending(q)'
             PROVE  /\ calls'[req'[q].call] # Null
                    /\ calls'[req'[q].call].connectedAt = Null => req'[q].cost = 0
  BY DEF EndersHaveCalls
<1>1. CASE Ending(q) /\ req'[q].call = req[q].call /\ req'[q].cost = req[q].cost
  <2>1. req[q].call \in Calls
    BY <1>1, RequestKinds DEF Ending
  <2> QED BY <1>1, <2>1, CallsAreKept DEF EndersHaveCalls
<1>2. ASSUME NEW c \in Calls, EndStart(q, c)
      PROVE  /\ req'[q].call = c
             /\ calls'[c] # Null
             /\ calls'[c].connectedAt = Null => req'[q].cost = 0
  BY <1>2 DEF EndStart, Goto, TypeOK
<1> QED BY <1>1, <1>2, RequestMoves

\* A row is inserted after its hold; a connection is never in the future.
LEMMA CallsStep ==
    ASSUME Inv, [Next]_vars
    PROVE  CallsAreHeld'
<1> USE DEF Inv
<1> SUFFICES ASSUME NEW c \in Calls, calls'[c] # Null
             PROVE  /\ HasPrior(calls[c].caller, HoldRef(c))'
                    /\ calls'[c].connectedAt # Null => calls'[c].connectedAt <= now'
  BY DEF CallsAreHeld
<1>1. now \in Int /\ now' \in Int /\ now <= now'
  <2>1. now' = now \/ now' = now + 1
    BY DEF Next, HandlerStep, Tick, MarkConnected, LeaseThrows, PlaceThrows, HangupThrows,
           Crash, EndStart, InitiateStart, Call_TxnStep, callVars, HoldDone, LeasePick,
           LeaseCommit, RefundDone, PlaceCall, InsertCall, Hangup, MarkEnded, SettleDone, vars
  <2> QED BY <2>1 DEF TypeOK
<1>2. ASSUME NEW u \in Users, HasPrior(u, HoldRef(c)), calls'[c].caller = u
      PROVE  HasPrior(calls[c].caller, HoldRef(c))'
  <2>1. \E i \in DOMAIN entries'[u] : entries'[u][i].ref = HoldRef(c)
    BY <1>2, StepIsTxnStep, TxnNextPosts DEF HasPrior, TypeOK
  <2> QED BY <1>2, <2>1 DEF HasPrior, HoldRef
<1>3. CASE calls[c] # Null
  <2>1. calls[c] \in Row /\ calls[c].caller \in Users
        /\ calls[c].connectedAt \in 0 .. MaxTime \cup {Null}
    BY <1>3 DEF TypeOK, Row
  <2>2. /\ calls'[c].caller = calls[c].caller
        /\ calls'[c].connectedAt \in {calls[c].connectedAt, now}
    BY <1>3, CallsAreKept
  <2> QED BY <1>1, <1>2, <1>3, <2>1, <2>2 DEF CallsAreHeld
<1>4. CASE calls[c] = Null
  <2>1. PICK p \in Procs :
           /\ InsertCall(p) /\ req[p].call = c
           /\ calls'[c].connectedAt = Null /\ calls'[c].caller = req[p].user
    BY <1>4, CallsAreKept
  <2>2. Dialling(p) /\ req[p].pc # "hold"
    BY <2>1 DEF InsertCall, At, Dialling
  <2>3. req[p].user \in Users /\ HasPrior(req[p].user, HoldRef(c))
    BY <2>1, <2>2, DiallerTyped DEF DiallersHold
  <2> QED BY <1>2, <2>1, <2>3
<1> QED BY <1>3, <1>4

\* Who posts: a step that adds a reference to the ledger is the commit of the
\* transaction carrying it, and moves no request.
LEMMA NewRefs ==
    ASSUME Inv, [Next]_vars, NEW ref, RefTaken(ref)', ~RefTaken(ref)
    PROVE  \E p \in Procs : tx[p] # NoTxn /\ tx[p].ref = ref /\ UNCHANGED callVars
<1> USE DEF Inv
<1>1. PICK u \in Users : \E i \in DOMAIN entries'[u] : entries'[u][i].ref = ref
  BY DEF RefTaken, HasPrior
<1>2. PICK i \in DOMAIN entries'[u] : entries'[u][i].ref = ref
  BY <1>1
<1>3. ~(i \in DOMAIN entries[u] /\ entries'[u][i] = entries[u][i])
  BY <1>2 DEF RefTaken, HasPrior
<1>4. PICK p \in Procs : Call_TxnStep(p)
  <2>1. entries' # entries
    BY <1>3
  <2> QED BY <2>1 DEF Next, HandlerStep, Tick, MarkConnected, LeaseThrows, PlaceThrows,
           HangupThrows, Crash, EndStart, InitiateStart, HoldDone, LeasePick, RefundHold,
           LeaseCommit, RefundDone, PlaceCall, InsertCall, Hangup, MarkEnded, SettleDone,
           vars, txnVars, BeginTxn, EndTxn, AbortTxn
<1>5. tx[p] # NoTxn /\ u = tx[p].user /\ entries'[u][i].ref = tx[p].ref
  BY <1>3, <1>4, TxnStepPosts DEF Call_TxnStep, TypeOK
<1> QED BY <1>2, <1>4, <1>5 DEF Call_TxnStep

\* A refund is begun by the one dialler, which then goes no further.
LEMMA FailedStep ==
    ASSUME Inv, [Next]_vars
    PROVE  FailedAreOver'
<1> USE DEF Inv
<1> SUFFICES ASSUME NEW c \in Calls, RefTaken(FailRef(c))'
             PROVE  /\ RefTaken(HoldRef(c))' /\ calls'[c] = Null /\ c \notin live'
                    /\ OnlyAt(c, "refund")'
  BY DEF FailedAreOver
<1>0. \A p \in Procs : Dialling(p) => req[p].call \in Calls
  BY DiallerTyped
<1>1. CASE RefTaken(FailRef(c))
  <2>1. /\ RefTaken(HoldRef(c)) /\ calls[c] = Null /\ c \notin live
        /\ OnlyAt(c, "refund")
    BY <1>1 DEF FailedAreOver
  <2>2. RefTaken(HoldRef(c))'
    BY <2>1, PriorsAreKept
  <2>3. calls'[c] = Null
    <3> SUFFICES ASSUME calls'[c] # Null PROVE FALSE
      OBVIOUS
    <3>1. PICK p \in Procs : InsertCall(p) /\ req[p].call = c
      BY <2>1, CallsAreKept
    <3> QED BY <2>1, <3>1 DEF InsertCall, At, OnlyAt, Dialling
  <2>4. c \notin live'
    BY <2>1, LiveSteps DEF OnlyAt, Dialling
  <2>5. OnlyAt(c, "refund")'
    <3> SUFFICES ASSUME NEW q \in Procs, Dialling(q)', req'[q].call = c
                 PROVE  req'[q].pc = "refund"
      BY DEF OnlyAt
    <3>1. \A u \in Users : ~InitiateStart(q, u, c)
      BY <2>1 DEF InitiateStart, FreshDial
    <3>2. Dialling(q) /\ req[q].call = c => req[q].pc = "refund"
      BY <2>1 DEF OnlyAt
    <3>3. req'[q] = req[q] => Dialling(q)
      BY DEF Dialling
    <3> QED BY <3>1, <3>2, <3>3, RequestMoves
  <2> QED BY <2>1, <2>2, <2>3, <2>4, <2>5
<1>2. CASE ~RefTaken(FailRef(c))
  <2>1. PICK p \in Procs : tx[p] # NoTxn /\ tx[p].ref = FailRef(c) /\ UNCHANGED callVars
    BY <1>2, NewRefs
  <2>2. req[p].pc = "refund" /\ req[p].call = c
    BY <2>1 DEF TxnsMatch, TxnIsFor, FailRef, HoldRef, SettleRef
  <2>3. Dialling(p) /\ req[p].user \in Users
    BY <2>2, DiallerTyped DEF Dialling
  <2>4. calls[c] = Null /\ RefTaken(HoldRef(c))
    BY <2>2, <2>3 DEF DiallersHold, RefTaken
  <2>5. OnlyAt(c, "refund")
    BY <2>2, <2>3 DEF OnlyAt, OneDiallerPerCall
  <2>6. c \notin live
    BY <2>2, <2>3 DEF LiveAreHeld, OnlyAt
  <2>7. OnlyAt(c, "refund")'
    BY <2>1, <2>5 DEF OnlyAt, Dialling, callVars
  <2> QED BY <2>1, <2>4, <2>6, <2>7, PriorsAreKept DEF callVars
<1> QED BY <1>1, <1>2

LEMMA LiveStep ==
    ASSUME Inv, [Next]_vars
    PROVE  LiveAreHeld'
<1> USE DEF Inv
<1> SUFFICES ASSUME NEW c \in live'
             PROVE  RefTaken(HoldRef(c))' /\ OnlyAt(c, "insert")'
  BY DEF LiveAreHeld
<1>1. ASSUME RefTaken(HoldRef(c)),
             \A q \in Procs : Dialling(q)' /\ Dialling(q) /\ req'[q].call = c
                                /\ req[q].call = c => req'[q].pc = "insert"
      PROVE  RefTaken(HoldRef(c))' /\ OnlyAt(c, "insert")'
  <2>1. RefTaken(HoldRef(c))'
    BY <1>1, PriorsAreKept
  <2>2. ASSUME NEW q \in Procs, Dialling(q)', req'[q].call = c
        PROVE  req'[q].pc = "insert"
    <3>1. \A u \in Users : ~InitiateStart(q, u, c)
      BY <1>1 DEF InitiateStart, FreshDial
    <3>2. req'[q] = req[q] => Dialling(q)
      BY <2>2 DEF Dialling
    <3> QED BY <1>1, <2>2, <3>1, <3>2, RequestMoves
  <2> QED BY <2>1, <2>2 DEF OnlyAt
<1>2. CASE c \in live
  <2>1. RefTaken(HoldRef(c)) /\ OnlyAt(c, "insert")
    BY <1>2 DEF LiveAreHeld
  <2>2. ASSUME NEW q \in Procs, Dialling(q)', Dialling(q), req[q].call = c
        PROVE  req'[q].pc = "insert"
    <3>1. req[q].pc = "insert"
      BY <2>1, <2>2 DEF OnlyAt
    <3>2. \A u \in Users, d \in Calls : ~InitiateStart(q, u, d)
      BY <3>1 DEF InitiateStart, Idle
    <3> QED BY <2>2, <3>1, <3>2, RequestMoves
  <2> QED BY <1>1, <2>1, <2>2
<1>3. CASE c \notin live
  <2>1. PICK p \in Procs : /\ req[p].pc = "place" /\ req[p].call = c
                           /\ req'[p].pc \in {"insert", "idle"}
    BY <1>3, LiveSteps
  <2>2. Dialling(p) /\ req[p].user \in Users
    BY <2>1, DiallerTyped DEF Dialling
  <2>3. RefTaken(HoldRef(c))
    BY <2>1, <2>2 DEF DiallersHold, RefTaken
  <2>4. ASSUME NEW q \in Procs, Dialling(q)', Dialling(q), req[q].call = c
        PROVE  req'[q].pc = "insert"
    <3>1. q = p
      BY <2>1, <2>2, <2>4 DEF OneDiallerPerCall
    <3> QED BY <2>1, <2>4, <3>1 DEF Dialling
  <2> QED BY <1>1, <2>3, <2>4
<1> QED BY <1>2, <1>3

\* A transaction is finished by the step that began it.
LEMMA TxnsStep ==
    ASSUME Inv, [Next]_vars
    PROVE  TxnsMatch'
<1> USE DEF Inv
<1> SUFFICES ASSUME NEW q \in Procs, tx'[q] # NoTxn
             PROVE  \/ TxnIsFor(q, "hold", req[q].user, HoldRef(req[q].call), -HoldPaise)'
                    \/ TxnIsFor(q, "refund", req[q].user, FailRef(req[q].call), HoldPaise)'
                    \/ /\ HoldPaise - req'[q].cost > 0
                       /\ TxnIsFor(q, "settle", calls[req[q].call].caller,
                                   SettleRef(req[q].call), HoldPaise - req[q].cost)'
  BY DEF TxnsMatch
<1>1. CASE /\ tx[q] # NoTxn /\ req'[q] = req[q]
           /\ tx'[q].user = tx[q].user /\ tx'[q].ref = tx[q].ref
           /\ tx'[q].amount = tx[q].amount
  <2>1. req[q].pc = "settle" => calls'[req[q].call].caller = calls[req[q].call].caller
    <3> SUFFICES ASSUME req[q].pc = "settle"
                 PROVE  calls'[req[q].call].caller = calls[req[q].call].caller
      OBVIOUS
    <3>1. req[q].call \in Calls /\ calls[req[q].call] # Null
      BY RequestKinds DEF EndersHaveCalls, Ending
    <3> QED BY <3>1, CallsAreKept
  <2> QED BY <1>1, <2>1 DEF TxnsMatch, TxnIsFor, HoldRef, FailRef, SettleRef
<1>2. CASE \E u \in Users, c \in Calls :
              /\ req'[q] = [pc |-> "hold", call |-> c, user |-> u]
              /\ tx'[q] = Started(u, HoldRef(c), -HoldPaise)
  BY <1>2 DEF Started, TxnIsFor, HoldRef, HoldPaise
<1>3. CASE /\ req'[q] = [pc |-> "refund", call |-> req[q].call, user |-> req[q].user]
           /\ tx'[q] = Started(req[q].user, FailRef(req[q].call), HoldPaise)
  BY <1>3 DEF Started, TxnIsFor, FailRef, HoldPaise
<1>4. CASE /\ req[q].pc = "mark" /\ HoldPaise - req[q].cost > 0
           /\ req'[q] = [req[q] EXCEPT !.pc = "settle"]
           /\ tx'[q] = Started(calls[req[q].call].caller, SettleRef(req[q].call),
                               HoldPaise - req[q].cost)
  <2>1. /\ req[q] \in [pc: {"hangup", "mark", "settle"}, call: Calls, cost: Nat]
        /\ req[q].call \in Calls
    BY <1>4, RequestKinds
  <2>2. calls'[req[q].call].caller = calls[req[q].call].caller
    BY <1>4, <2>1, CallsAreKept DEF EndersHaveCalls, Ending
  <2>3. req'[q].pc = "settle" /\ req'[q].call = req[q].call /\ req'[q].cost = req[q].cost
    BY <1>4, <2>1
  <2> QED BY <1>4, <2>2, <2>3 DEF Started, TxnIsFor, SettleRef, HoldPaise
<1> QED BY <1>1, <1>2, <1>3, <1>4, TxnMoves

\* What an open transaction will post is legal when it does.
LEMMA TxnIsLegal ==
    ASSUME Inv, NEW p \in Procs, tx[p] # NoTxn
    PROVE  Legal(tx[p].ref, tx[p].amount)
<1> USE DEF Inv
<1>1. CASE TxnIsFor(p, "hold", req[p].user, HoldRef(req[p].call), -HoldPaise)
  BY <1>1 DEF Legal, TxnIsFor, HoldRef, FailRef, SettleRef
<1>2. CASE TxnIsFor(p, "refund", req[p].user, FailRef(req[p].call), HoldPaise)
  BY <1>2 DEF Legal, TxnIsFor, HoldRef, FailRef, SettleRef
<1>3. CASE /\ HoldPaise - req[p].cost > 0
           /\ TxnIsFor(p, "settle", calls[req[p].call].caller, SettleRef(req[p].call),
                       HoldPaise - req[p].cost)
  <2> DEFINE c == req[p].call
             a == HoldPaise - req[p].cost
  <2>1. req[p].pc = "settle" /\ tx[p].ref = SettleRef(c) /\ tx[p].amount = a
    BY <1>3 DEF TxnIsFor
  <2>2. c \in Calls /\ req[p].cost \in Nat
    BY <2>1, RequestKinds
  <2>3. calls[c] # Null /\ (calls[c].connectedAt = Null => a = HoldPaise)
    BY <2>1, HoldIsPositive DEF EndersHaveCalls, Ending
  <2>4. a \in 1 .. HoldPaise
    BY <1>3, <2>2, HoldIsPositive
  <2> HIDE DEF c, a
  <2> QED BY <2>1, <2>3, <2>4 DEF Legal, HoldRef, FailRef, SettleRef
<1> QED BY <1>1, <1>2, <1>3 DEF TxnsMatch

\* A new entry is its transaction's, hence legal.
LEMMA EntriesStep ==
    ASSUME Inv, [Next]_vars
    PROVE  EntriesAreLegal'
<1> USE DEF Inv
<1> SUFFICES ASSUME NEW u \in Users, NEW i \in DOMAIN entries'[u]
             PROVE  Legal(entries[u][i].ref, entries[u][i].amount)'
  BY DEF EntriesAreLegal
<1>1. ASSUME NEW ref, NEW amount, Legal(ref, amount),
             entries'[u][i].ref = ref, entries'[u][i].amount = amount
      PROVE  Legal(entries[u][i].ref, entries[u][i].amount)'
  BY <1>1, CallsAreKept DEF Legal, HoldRef, FailRef, SettleRef, HoldPaise
<1>2. CASE i \in DOMAIN entries[u] /\ entries'[u][i] = entries[u][i]
  BY <1>1, <1>2 DEF EntriesAreLegal
<1>3. ASSUME NEW p \in Procs, tx[p] # NoTxn,
             entries'[u][i].ref = tx[p].ref, entries'[u][i].amount = tx[p].amount
      PROVE  Legal(entries[u][i].ref, entries[u][i].amount)'
  BY <1>1, <1>3, TxnIsLegal
<1>4. entries' = entries \/ \E p \in Procs : TxnStep(p)
  BY StepIsTxnStep, TxnNextPosts DEF TypeOK
<1> QED BY <1>2, <1>3, <1>4, TxnStepPosts DEF TypeOK

\* Initially nothing is dialled, open or posted but the opening funds.
LEMMA InvInit ==
    ASSUME Init
    PROVE  Inv /\ TxnInv
<1>1. \A u \in Users : \A i \in DOMAIN entries[u] :
         i = 1 /\ entries[u][i] = [ref |-> FundRef(u), amount |-> Funds, balanceAfter |-> Funds]
  BY DEF Init
<1>2. TxnTypeOK
  <2>1. \A u \in Users :
           [ref |-> FundRef(u), amount |-> Funds, balanceAfter |-> Funds] \in Entry
    BY BillingAssumption, DialsAssumption DEF Entry
  <2>2. entries \in [Users -> Seq(Entry)]
    BY <2>1 DEF Init
  <2> QED BY <2>2, BillingAssumption DEF Init, TxnTypeOK
<1>3. TypeOK
  <2>1. pool \in [DOMAIN Numbers -> NumberSet]
    BY NumbersAssumption DEF Init
  <2> QED BY <1>2, <2>1, BillingAssumption DEF Init, TypeOK, Requests
<1>4. /\ OneDiallerPerCall /\ DiallersHold /\ EndersHaveCalls
      /\ CallsAreHeld /\ LiveAreHeld /\ TxnsMatch /\ AppliedIsPosted
  BY DEF Init, OneDiallerPerCall, DiallersHold, EndersHaveCalls, CallsAreHeld, LiveAreHeld,
         TxnsMatch, AppliedIsPosted, Dialling, Ending, Idle, NoTxn
<1>5. FailedAreOver /\ EntriesAreLegal
  <2>1. \A u, c : FundRef(u) # HoldRef(c) /\ FundRef(u) # FailRef(c) /\ FundRef(u) # SettleRef(c)
    BY DEF FundRef, HoldRef, FailRef, SettleRef
  <2>2. ASSUME NEW u \in Users, NEW i \in DOMAIN entries[u]
        PROVE  entries[u][i].ref = FundRef(u)
    <3>1. entries[u][i] = [ref |-> FundRef(u), amount |-> Funds, balanceAfter |-> Funds]
      BY <1>1
    <3> QED BY <3>1
  <2>3. \A c : ~RefTaken(FailRef(c))
    BY <2>1, <2>2 DEF RefTaken, HasPrior
  <2> QED BY <2>1, <2>2, <2>3 DEF FailedAreOver, EntriesAreLegal, Legal
<1>6. LockedReadIsCurrent /\ AppliedOnce
  BY <1>1 DEF Init, LockedReadIsCurrent, AppliedOnce, NoTxn, FundRef
<1>7. RunningBalance
  <2> SUFFICES ASSUME NEW u \in Users
               PROVE  /\ \A i \in DOMAIN entries[u] :
                           /\ entries[u][i].balanceAfter = Previous(u, i) + entries[u][i].amount
                           /\ entries[u][i].balanceAfter >= 0
                      /\ wallets[u] = entries[u][Len(entries[u])].balanceAfter
                      /\ entries[u] # <<>>
    BY DEF RunningBalance
  <2>1. Len(entries[u]) = 1 /\ entries[u] # <<>> /\ wallets[u] = Funds
    BY DEF Init
  <2>2. entries[u][1].balanceAfter = Funds /\ entries[u][1].amount = Funds
    BY DEF Init
  <2> QED BY <1>1, <2>1, <2>2, BillingAssumption DEF Previous
<1> QED BY <1>2, <1>3, <1>4, <1>5, <1>6, <1>7 DEF Inv, TxnInv

\* Every step keeps the invariant.
LEMMA InvStep ==
    ASSUME Inv, TxnInv, [Next]_vars
    PROVE  Inv' /\ TxnInv'
<1>1. [TxnNext]_txnVars
  BY StepIsTxnStep DEF Inv
<1>2. TxnInv'
  BY <1>1, TxnNextInv
<1>3. AppliedIsPosted'
  BY <1>1, AppliedStep DEF Inv, TxnInv
<1> QED
  BY <1>2, <1>3, TypeStep, OneDiallerStep, DiallersStep, EndersStep, CallsStep, FailedStep,
     LiveStep, TxnsStep, EntriesStep
  DEF Inv

\* The invariant holds in every reachable state.
LEMMA Invariant == Spec => [](Inv /\ TxnInv)
<1>1. Init => Inv /\ TxnInv
  BY InvInit
<1>2. Inv /\ TxnInv /\ [Next]_vars => (Inv /\ TxnInv)'
  BY InvStep
<1> QED BY <1>1, <1>2, PTL DEF Spec

-----------------------------------------------------------------------------
(* The theorems.                                                           *)

\* Calls, pool, requests and the wallet tables keep their types: no cost is
\* negative, no row of masked_calls is half written, and moving a leased
\* number to the end loses none.
THEOREM MaskedTypeCorrect == Spec => []TypeOK
<1>1. Inv => TypeOK
  BY DEF Inv
<1> QED BY <1>1, Invariant, PTL

\* What WalletTxnProofs shows of the ledger under any caller holds under masked
\* calling: a running balance without overdraw, no reference applied twice.
THEOREM MaskedLedger == Spec => [](RunningBalance /\ AppliedOnce)
<1>1. TxnInv => RunningBalance /\ AppliedOnce
  BY DEF TxnInv
<1> QED BY <1>1, Invariant, PTL

\* The provider bridges a call only against a hold that was taken and not given
\* back as a failed dial's.
THEOREM MaskedLiveIsPaidFor == Spec => []LiveIsPaidFor
<1>1. Inv => LiveIsPaidFor
  <2> SUFFICES ASSUME Inv, NEW c \in live
               PROVE  RefTaken(HoldRef(c)) /\ ~RefTaken(FailRef(c))
    BY DEF LiveIsPaidFor
  <2>1. c \in Calls
    BY DEF Inv, TypeOK
  <2> QED BY <2>1 DEF Inv, LiveAreHeld, FailedAreOver
<1> QED BY <1>1, Invariant, PTL

\* What RowsFor collects: positions in the ledger.
LEMMA RowsForRows ==
    ASSUME NEW refs, NEW k
    PROVE  k \in RowsFor(refs) <=>
              \E u \in Users : \E i \in DOMAIN entries[u] :
                 k = <<u, i>> /\ entries[u][i].ref \in refs
  BY DEF RowsFor

\* The rows of one dial add up as they are written.
LEMMA NetOfTwo ==
    ASSUME NEW c, NEW a, NEW b,
           RowsFor({HoldRef(c), FailRef(c), SettleRef(c)}) \subseteq {a, b},
           \A k \in RowsFor({HoldRef(c), FailRef(c), SettleRef(c)}) :
              entries[k[1]][k[2]].amount \in Int
    PROVE  NetDebit(c) =
              LET S == RowsFor({HoldRef(c), FailRef(c), SettleRef(c)})
                  x == entries[a[1]][a[2]].amount
                  y == entries[b[1]][b[2]].amount
              IN  IF S = {} THEN 0
                  ELSE IF S = {a} THEN -x
                  ELSE IF S = {b} THEN -y
                  ELSE -(x + y)
<1> DEFINE S == RowsFor({HoldRef(c), FailRef(c), SettleRef(c)})
           f(k) == entries[k[1]][k[2]].amount
           pick(s) == CHOOSE x \in s : TRUE
           G(g, s) == IF s = {} THEN 0 ELSE f(pick(s)) + g[s \ {pick(s)}]
           g0 == [s \in SUBSET S |->
                    IF s = {} THEN 0 ELSE IF s = {a} THEN f(a)
                    ELSE IF s = {b} THEN f(b) ELSE f(a) + f(b)]
           iter == CHOOSE g : g = [s \in SUBSET S |-> G(g, s)]
<1>1. NetDebit(c) = -iter[S]
  BY DEF NetDebit, MapThenSumSet, MapThenFoldSet
<1>2. S \subseteq {a, b} /\ (a \in S => f(a) \in Int) /\ (b \in S => f(b) \in Int)
  OBVIOUS
<1>3. pick({a}) = a /\ pick({b}) = b /\ pick({a, b}) \in {a, b}
  OBVIOUS
<1>4. {a} \ {a} = {} /\ {b} \ {b} = {} /\ {a} # {} /\ {b} # {} /\ {a, b} # {}
  OBVIOUS
<1>5. a # b => /\ {a, b} \ {a} = {b} /\ {a, b} \ {b} = {a}
               /\ {a} # {b} /\ {a, b} # {a} /\ {a, b} # {b}
  OBVIOUS
<1>6. \A s \in SUBSET S : s \in {{}, {a}, {b}, {a, b}}
  BY <1>2
<1> HIDE DEF S, f, pick
<1>7. ASSUME NEW s \in SUBSET S
      PROVE  g0[s] = G(g0, s)
  <2>1. CASE s = {}
    BY <2>1
  <2>2. CASE s = {a}
    <3>1. pick(s) = a /\ s \ {a} = {} /\ s # {}
      BY <1>3, <1>4, <2>2
    <3>2. g0[{}] = 0 /\ g0[s] = f(a)
      BY <1>4, <2>2
    <3> QED BY <1>2, <3>1, <3>2
  <2>3. CASE s = {b} /\ a # b
    <3>1. pick(s) = b /\ s \ {b} = {} /\ s # {}
      BY <1>3, <1>4, <2>3
    <3>2. g0[{}] = 0 /\ g0[s] = f(b)
      BY <1>4, <1>5, <2>3
    <3> QED BY <1>2, <3>1, <3>2
  <2>4. CASE s = {a, b} /\ a # b
    <3>1. g0[{a}] = f(a) /\ g0[{b}] = f(b) /\ g0[s] = f(a) + f(b)
      BY <1>4, <1>5, <2>4
    <3>2. s # {} /\ s \ {a} = {b} /\ s \ {b} = {a}
      BY <1>4, <1>5, <2>4
    <3>3. CASE pick(s) = a
      BY <1>2, <3>1, <3>2, <3>3
    <3>4. CASE pick(s) = b
      BY <1>2, <3>1, <3>2, <3>4
    <3>5. pick(s) \in {a, b}
      BY <1>3, <2>4
    <3> QED BY <3>3, <3>4, <3>5
  <2>5. a = b => {a} = {b} /\ {a, b} = {a}
    OBVIOUS
  <2> QED BY <1>6, <2>1, <2>2, <2>3, <2>4, <2>5
<1>8. iter = [s \in SUBSET S |-> G(iter, s)]
  <2>1. g0 = [s \in SUBSET S |-> G(g0, s)]
    BY <1>7
  <2> QED BY <2>1
<1> HIDE DEF g0
<1>9. \A s \in SUBSET S : iter[s] = G(iter, s)
  BY <1>8
<1> HIDE DEF iter
<1>10. iter[{}] = 0
  BY <1>9
<1>11. {a} \in SUBSET S => iter[{a}] = f(a)
  <2>1. {a} \in SUBSET S => iter[{a}] = f(pick({a})) + iter[{a} \ {pick({a})}]
    BY <1>4, <1>9
  <2>2. {a} \in SUBSET S => iter[{a}] = f(a) + iter[{}]
    BY <1>3, <1>4, <2>1
  <2> QED BY <1>2, <1>10, <2>2
<1>12. {b} \in SUBSET S => iter[{b}] = f(b)
  <2>1. {b} \in SUBSET S => iter[{b}] = f(pick({b})) + iter[{b} \ {pick({b})}]
    BY <1>4, <1>9
  <2>2. {b} \in SUBSET S => iter[{b}] = f(b) + iter[{}]
    BY <1>3, <1>4, <2>1
  <2> QED BY <1>2, <1>10, <2>2
<1>13. S = {a, b} /\ a # b => iter[S] = f(a) + f(b)
  <2> SUFFICES ASSUME S = {a, b}, a # b PROVE iter[S] = f(a) + f(b)
    OBVIOUS
  <2>1. iter[S] = f(pick(S)) + iter[S \ {pick(S)}]
    <3>1. S \in SUBSET S /\ S # {}
      OBVIOUS
    <3> QED BY <1>9, <3>1
  <2>2. iter[{a}] = f(a) /\ iter[{b}] = f(b)
    BY <1>11, <1>12
  <2>5. S \ {a} = {b} /\ S \ {b} = {a} /\ {a} \in SUBSET S /\ {b} \in SUBSET S
    BY <1>5
  <2>3. CASE pick(S) = a
    <3>1. iter[S] = f(a) + iter[{b}]
      BY <2>1, <2>3, <2>5
    <3> QED BY <2>2, <3>1
  <2>4. CASE pick(S) = b
    <3>1. iter[S] = f(b) + iter[{a}]
      BY <2>1, <2>4, <2>5
    <3> QED BY <1>2, <2>2, <3>1
  <2> QED BY <1>3, <2>3, <2>4
<1>14. CASE S = {}
  BY <1>1, <1>10, <1>14 DEF S, f
<1>15. CASE S = {a}
  <2>1. S # {} /\ iter[S] = f(a)
    BY <1>4, <1>11, <1>15
  <2> QED BY <1>1, <1>15, <2>1 DEF S, f
<1>16. CASE S = {b} /\ a # b
  <2>1. S # {} /\ S # {a} /\ iter[S] = f(b)
    BY <1>4, <1>5, <1>12, <1>16
  <2> QED BY <1>1, <1>16, <2>1 DEF S, f
<1>17. CASE S = {a, b} /\ a # b
  <2>1. S # {} /\ S # {a} /\ S # {b} /\ iter[S] = f(a) + f(b)
    BY <1>4, <1>5, <1>13, <1>17
  <2> QED BY <1>1, <2>1 DEF S, f
<1>18. S = {} \/ S = {a} \/ (S = {b} /\ a # b) \/ (S = {a, b} /\ a # b)
  BY <1>2
<1> QED BY <1>14, <1>15, <1>16, <1>17, <1>18 DEF S, f

\* No interleaving of ends, retries, failures and crashes charges a dial more
\* than its hold or pays the caller for it, and a settled call that was never
\* connected has cost nothing.
THEOREM MaskedNetWithinHold == Spec => []NetWithinHold
<1>1. ASSUME Inv, TxnInv
      PROVE  NetWithinHold
  <2> SUFFICES ASSUME NEW c \in Calls
               PROVE  /\ NetDebit(c) \in 0 .. HoldPaise
                      /\ (calls[c] # Null /\ calls[c].connectedAt = Null
                            /\ RefTaken(SettleRef(c))) => NetDebit(c) = 0
    BY DEF NetWithinHold
  <2> DEFINE refs == {HoldRef(c), FailRef(c), SettleRef(c)}
             S == RowsFor(refs)
  \* A refund has a hold before it, and there is one refund at most.
  <2>1. RefTaken(FailRef(c)) => RefTaken(HoldRef(c)) /\ calls[c] = Null
    BY <1>1 DEF Inv, FailedAreOver
  <2>2. RefTaken(SettleRef(c)) => RefTaken(HoldRef(c)) /\ calls[c] # Null
    <3> SUFFICES ASSUME RefTaken(SettleRef(c))
                 PROVE  RefTaken(HoldRef(c)) /\ calls[c] # Null
      OBVIOUS
    <3>1. calls[c] # Null
      BY <1>1 DEF Inv, EntriesAreLegal, Legal, RefTaken, HasPrior
    <3>2. calls[c].caller \in Users
      BY <1>1, <3>1 DEF Inv, TypeOK, Row
    <3> QED BY <1>1, <3>1, <3>2 DEF Inv, CallsAreHeld, RefTaken
  <2> DEFINE IsRow(k, ref) == /\ k[1] \in Users /\ k[2] \in DOMAIN entries[k[1]]
                              /\ entries[k[1]][k[2]].ref = ref
                              /\ ref \in refs => k \in S
                              /\ \A j \in S : entries[j[1]][j[2]].ref = ref => j = k
  <2>3. ASSUME NEW ref, RefTaken(ref)
        PROVE  \E k : IsRow(k, ref)
    <3>1. PICK u \in Users : \E i \in DOMAIN entries[u] : entries[u][i].ref = ref
      BY <2>3 DEF RefTaken, HasPrior
    <3>2. PICK i \in DOMAIN entries[u] : entries[u][i].ref = ref
      BY <3>1
    <3>3. ref \in refs => <<u, i>> \in S
      BY <3>2, RowsForRows
    <3>4. \A j \in S : entries[j[1]][j[2]].ref = ref => j = <<u, i>>
      <4> SUFFICES ASSUME NEW j \in S, entries[j[1]][j[2]].ref = ref
                   PROVE  j = <<u, i>>
        OBVIOUS
      <4>1. PICK v \in Users : \E m \in DOMAIN entries[v] : j = <<v, m>>
        BY RowsForRows
      <4>2. PICK m \in DOMAIN entries[v] : j = <<v, m>>
        BY <4>1
      <4>3. entries[v][m].ref = ref
        BY <4>2
      <4>4. v = u /\ m = i
        BY <1>1, <3>2, <4>3 DEF TxnInv, AppliedOnce
      <4> QED BY <4>2, <4>4
    <3>5. <<u, i>>[1] = u /\ <<u, i>>[2] = i
      OBVIOUS
    <3> QED BY <3>2, <3>3, <3>4, <3>5
  <2>4. ASSUME NEW j \in S
        PROVE  /\ entries[j[1]][j[2]].ref \in refs
               /\ RefTaken(entries[j[1]][j[2]].ref)
    <3>1. PICK v \in Users : \E m \in DOMAIN entries[v] :
             j = <<v, m>> /\ entries[v][m].ref \in refs
      BY RowsForRows
    <3>2. PICK m \in DOMAIN entries[v] : j = <<v, m>> /\ entries[v][m].ref \in refs
      BY <3>1
    <3> QED BY <3>2 DEF RefTaken, HasPrior
  <2>5. ASSUME NEW k, k[1] \in Users, k[2] \in DOMAIN entries[k[1]]
        PROVE  /\ entries[k[1]][k[2]].ref = HoldRef(c) => entries[k[1]][k[2]].amount = -HoldPaise
               /\ entries[k[1]][k[2]].ref = FailRef(c) => entries[k[1]][k[2]].amount = HoldPaise
               /\ entries[k[1]][k[2]].ref = SettleRef(c) =>
                     /\ entries[k[1]][k[2]].amount \in 1 .. HoldPaise
                     /\ calls[c].connectedAt = Null => entries[k[1]][k[2]].amount = HoldPaise
    BY <1>1, <2>5 DEF Inv, EntriesAreLegal, Legal
  <2>6. \A j \in S : entries[j[1]][j[2]].amount \in Int
    <3> SUFFICES ASSUME NEW j \in S PROVE entries[j[1]][j[2]].amount \in Int
      OBVIOUS
    <3>1. PICK v \in Users : \E m \in DOMAIN entries[v] : j = <<v, m>>
      BY RowsForRows
    <3>2. PICK m \in DOMAIN entries[v] : j = <<v, m>>
      BY <3>1
    <3>3. entries[v][m] \in Entry
      BY <1>1 DEF TxnInv, TxnTypeOK
    <3> QED BY <3>2, <3>3 DEF Entry
  <2>7. CASE ~RefTaken(HoldRef(c))
    <3>1. S = {}
      BY <2>1, <2>2, <2>4, <2>7
    <3>2. NetDebit(c) = 0
      <4> HIDE DEF S
      <4>1. S \subseteq {c, c}
        BY <3>1
      <4> QED BY <2>6, <3>1, <4>1, NetOfTwo DEF S
    <3> QED BY <2>2, <2>7, <3>2, HoldIsPositive
  <2>8. CASE RefTaken(HoldRef(c))
    <3>0. \E k : IsRow(k, HoldRef(c))
      <4> HIDE DEF IsRow
      <4> QED BY <2>3, <2>8
    <3>1. PICK k : IsRow(k, HoldRef(c))
      BY <3>0
    <3>2. k \in S /\ entries[k[1]][k[2]].amount = -HoldPaise
      BY <2>5, <3>1
    <3>3. CASE ~RefTaken(FailRef(c)) /\ ~RefTaken(SettleRef(c))
      <4>1. S = {k}
        BY <2>4, <3>1, <3>2, <3>3
      <4>2. NetDebit(c) = HoldPaise
        <5> HIDE DEF S
        <5>1. S \subseteq {k, k}
          BY <4>1
        <5>2. S # {}
          BY <4>1
        <5>3. NetDebit(c) = -entries[k[1]][k[2]].amount
          BY <2>6, <4>1, <5>1, <5>2, NetOfTwo DEF S
        <5> QED BY <3>2, <5>3, HoldIsPositive
      <4> QED BY <3>3, <4>2, HoldIsPositive
    <3>4. ASSUME NEW ref \in {FailRef(c), SettleRef(c)}, RefTaken(ref),
                 \A r \in {FailRef(c), SettleRef(c)} : RefTaken(r) => r = ref
          PROVE  \E m : /\ S = {k, m} /\ k # m
                        /\ entries[m[1]][m[2]].amount \in 1 .. HoldPaise
                        /\ NetDebit(c) = HoldPaise - entries[m[1]][m[2]].amount
                        /\ ref = FailRef(c) => entries[m[1]][m[2]].amount = HoldPaise
                        /\ ref = SettleRef(c) /\ calls[c].connectedAt = Null =>
                              entries[m[1]][m[2]].amount = HoldPaise
      <4>0. \E m : IsRow(m, ref)
        <5> HIDE DEF IsRow
        <5> QED BY <2>3, <3>4
      <4>1. PICK m : IsRow(m, ref)
        BY <4>0
      <4>2. m \in S
        BY <4>1
      <4>3. S = {k, m}
        BY <2>4, <3>1, <3>2, <3>4, <4>1, <4>2
      <4>4. k # m
        BY <3>1, <4>1 DEF HoldRef, FailRef, SettleRef
      <4>5. /\ entries[m[1]][m[2]].amount \in 1 .. HoldPaise
            /\ ref = FailRef(c) => entries[m[1]][m[2]].amount = HoldPaise
            /\ ref = SettleRef(c) /\ calls[c].connectedAt = Null =>
                  entries[m[1]][m[2]].amount = HoldPaise
        BY <2>5, <4>1, HoldIsPositive
      <4>6. NetDebit(c) = -(entries[k[1]][k[2]].amount + entries[m[1]][m[2]].amount)
        <5> HIDE DEF S
        <5>1. S \subseteq {k, m} /\ S # {} /\ S # {k} /\ S # {m}
          BY <4>3, <4>4
        <5> QED BY <2>6, <5>1, NetOfTwo DEF S
      <4>7. NetDebit(c) = HoldPaise - entries[m[1]][m[2]].amount
        BY <3>2, <4>5, <4>6, HoldIsPositive
      <4> QED BY <4>3, <4>4, <4>5, <4>7
    <3>5. CASE RefTaken(FailRef(c))
      <4>1. ~RefTaken(SettleRef(c))
        BY <2>1, <2>2, <3>5
      <4>2. \E m : /\ NetDebit(c) = HoldPaise - entries[m[1]][m[2]].amount
                   /\ entries[m[1]][m[2]].amount \in 1 .. HoldPaise
        BY <3>4, <3>5, <4>1
      <4> QED BY <4>1, <4>2, HoldIsPositive
    <3>6. CASE RefTaken(SettleRef(c)) /\ ~RefTaken(FailRef(c))
      <4>1. \E m : /\ NetDebit(c) = HoldPaise - entries[m[1]][m[2]].amount
                   /\ entries[m[1]][m[2]].amount \in 1 .. HoldPaise
                   /\ calls[c].connectedAt = Null => entries[m[1]][m[2]].amount = HoldPaise
        BY <3>4, <3>6
      <4> QED BY <4>1, HoldIsPositive
    <3> QED BY <3>3, <3>5, <3>6
  <2> QED BY <2>7, <2>8
<1> QED BY <1>1, Invariant, PTL

=============================================================================

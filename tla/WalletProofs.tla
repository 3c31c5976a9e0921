---------------------------- MODULE WalletProofs ----------------------------
(***************************************************************************)
(* Proofs about the wallet service for any number of users, orders, packs  *)
(* and requests: it touches the wallet tables only as the transaction      *)
(* engine allows (so what WalletTxnProofs shows of them holds here), and   *)
(* money enters a wallet only against a captured payment.                  *)
(*                                                                         *)
(* CreditBacked is not inductive: the entry is written three steps after   *)
(* the order was looked up.  WalletInv carries what was looked up through  *)
(* the request and its transaction to the entry.                           *)
(***************************************************************************)
EXTENDS Wallet, WalletTxnProofs

\* The order a transaction or an entry credits is captured, marked paid, and
\* that user's, for that amount.
Backed(o, u, amount) ==
    /\ o \in captured
    /\ orders[o] = [user |-> u, amount |-> amount, status |-> "paid"]

\* An order id is used by one request until its row is there.
OrdersAreFresh ==
    /\ \A o \in Orders : orders[o] # Null => o \in issued
    /\ \A o \in captured : orders[o] # Null
    /\ \A p \in Procs : req[p].pc = "insert_order" =>
          /\ req[p].order \in issued
          /\ orders[req[p].order] = Null
          /\ \A q \in Procs \ {p} :
                req[q].pc = "insert_order" => req[q].order # req[p].order

\* What the lookup of a verify or webhook found is still so.
LookupsHold ==
    \A p \in Procs : req[p].pc \in {"mark_paid", "credit"} =>
        /\ req[p].order \in captured
        /\ orders[req[p].order].user = req[p].user

\* What a posting of the service may be: a credit of a captured order, a hold,
\* or a refund to the wallet the hold was taken from.
Legal(u, ref, amount) ==
    /\ \A o \in Orders : ref = TopupRef(o) => Backed(o, u, amount)
    /\ \A t \in Tokens : ref = HoldRef(t) => amount = -HoldPaise
    /\ \A t \in Tokens : ref = ReleaseRef(t) =>
          amount \in 1 .. HoldPaise /\ HasPrior(u, HoldRef(t))

TxnsAreLegal ==
    \A p \in Procs : tx[p] # NoTxn => Legal(tx[p].user, tx[p].ref, tx[p].amount)

EntriesAreLegal ==
    \A u \in Users : \A i \in DOMAIN entries[u] :
        Legal(u, entries[u][i].ref, entries[u][i].amount)

\* A refund comes after a hold of its token in its wallet.
RefundsFollow ==
    \A u \in Users, t \in Tokens : \A i \in DOMAIN entries[u] :
        entries[u][i].ref = ReleaseRef(t) =>
           \E j \in DOMAIN entries[u] : j < i /\ entries[u][j].ref = HoldRef(t)

WalletInv ==
    /\ TypeOK /\ OrdersAreFresh /\ LookupsHold
    /\ TxnsAreLegal /\ EntriesAreLegal /\ RefundsFollow

-----------------------------------------------------------------------------
(* Types, and what the service does to the wallet tables.                  *)

LEMMA RequestKinds ==
    ASSUME TypeOK, NEW p \in Procs
    PROVE  /\ req[p].pc = "create_order" => req[p].user \in Users /\ req[p].amount \in Packs
           /\ req[p].pc = "insert_order" =>
                 /\ req[p].user \in Users /\ req[p].amount \in Packs
                 /\ req[p].order \in Orders
           /\ req[p].pc \in {"mark_paid", "credit"} =>
                 /\ req[p] \in [pc: {"mark_paid", "credit"}, via: {"verify", "webhook"},
                                user: Users, order: Orders]
                 /\ req[p].user \in Users /\ req[p].order \in Orders
           /\ req[p].pc = "hold" => req[p].user \in Users /\ req[p].token \in Tokens
  BY DEF TypeOK, Requests, Idle

\* Who looked an order up holds a row with a price of the list.
LEMMA LookedUp ==
    ASSUME TypeOK, OrdersAreFresh, LookupsHold, NEW p \in Procs, req[p].pc = "mark_paid"
    PROVE  /\ req[p].user \in Users /\ req[p].order \in Orders
           /\ req[p].order \in captured
           /\ orders[req[p].order] \in Row
           /\ orders[req[p].order].user = req[p].user
           /\ orders[req[p].order].amount \in Packs
<1>1. req[p].user \in Users /\ req[p].order \in Orders
  BY RequestKinds
<1>2. req[p].order \in captured /\ orders[req[p].order].user = req[p].user
  BY DEF LookupsHold
<1>3. orders[req[p].order] \in Row
  BY <1>1, <1>2 DEF OrdersAreFresh, TypeOK
<1> QED BY <1>1, <1>2, <1>3 DEF Row

LEMMA StepIsTxnStep ==
    ASSUME TypeOK, OrdersAreFresh, LookupsHold, [Next]_vars
    PROVE  [TxnNext]_txnVars
<1>1. CASE UNCHANGED txnVars
  BY <1>1
<1>2. ASSUME NEW p \in Procs, NEW u \in Users, NEW ref \in Refs, NEW amount \in Amounts,
             BeginTxn(p, u, ref, amount)
      PROVE  TxnNext
  BY <1>2 DEF TxnNext
<1>3. ASSUME NEW u \in Users, OpenWallet(u)
      PROVE  TxnNext
  BY <1>3 DEF TxnNext
<1>4. ASSUME NEW p \in Procs, MarkPaid(p)
      PROVE  TxnNext
  <2>1. /\ BeginTxn(p, req[p].user, TopupRef(req[p].order), orders[req[p].order].amount)
        /\ req[p].pc = "mark_paid"
    BY <1>4 DEF MarkPaid
  <2>2. /\ req[p].user \in Users /\ req[p].order \in Orders
        /\ orders[req[p].order].amount \in Packs
    BY <2>1, LookedUp
  <2> QED BY <1>2, <2>1, <2>2, CallsAssumption
<1>5. ASSUME NEW p \in Procs, Hold(p)
      PROVE  TxnNext
  <2>1. req[p].user \in Users /\ req[p].token \in Tokens
    BY <1>5, RequestKinds DEF Hold
  <2> QED BY <1>2, <1>5, <2>1, CallsAssumption DEF Hold
<1>6. ASSUME NEW p \in Procs, NEW u \in Users, NEW t \in Tokens, NEW cost \in Costs,
             SettleHold(p, u, t, cost)
      PROVE  TxnNext
  <2>1. Refund(HoldPaise, cost) \in Amounts
    BY <1>6, CallsAssumption, MoneyAssumption DEF SettleHold, Refund
  <2> QED BY <1>2, <1>6, <2>1, CallsAssumption DEF SettleHold
<1>7. ASSUME NEW p \in Procs, Wallet_TxnStep(p) \/ Respond(p) \/ Crash(p)
      PROVE  TxnNext
  BY <1>7 DEF Wallet_TxnStep, Respond, Crash, TxnNext
<1>8. ASSUME NEW p \in Procs, NEW u \in Users,
             \/ \E amount \in Packs : TopupStart(p, u, amount)
             \/ \E t \in Tokens : HoldStart(p, u, t)
      PROVE  TxnNext
  BY <1>3, <1>8 DEF TopupStart, HoldStart
<1>9. ASSUME NEW p \in Procs,
             \/ TopupRefused(p) \/ TopupInsertOrder(p)
             \/ \E o \in Orders :
                   \/ TopupCreateOrder(p, o) \/ WebhookStart(p, o)
                   \/ \E u \in Users : VerifyStart(p, u, o)
      PROVE  UNCHANGED txnVars
  BY <1>9 DEF TopupRefused, TopupInsertOrder, TopupCreateOrder, WebhookStart, VerifyStart
<1>10. ASSUME NEW o \in Orders, Pay(o)
       PROVE  UNCHANGED txnVars
  BY <1>10 DEF Pay
<1>11. CASE UNCHANGED vars
  BY <1>11 DEF vars
<1> QED
  BY <1>1, <1>4, <1>5, <1>6, <1>7, <1>8, <1>9, <1>10, <1>11
  DEF Next, HandlerStep

\* A request's new place is one of the places a request can be in.
LEMMA GotoTyped ==
    ASSUME TypeOK, NEW p \in Procs, NEW r \in Requests, Goto(p, r)
    PROVE  req' \in [Procs -> Requests]
  BY DEF TypeOK, Goto

LEMMA RequestTypeStep ==
    ASSUME TypeOK, [Next]_vars
    PROVE  req' \in [Procs -> Requests]
<1>1. CASE UNCHANGED vars
  BY <1>1 DEF TypeOK, vars, walletVars
<1>2. ASSUME NEW o \in Orders, Pay(o)
      PROVE  req' \in [Procs -> Requests]
  BY <1>2 DEF Pay, TypeOK
<1>3. ASSUME NEW p \in Procs, TopupRefused(p) \/ TopupInsertOrder(p) \/ Respond(p) \/ Crash(p)
      PROVE  req' \in [Procs -> Requests]
  BY <1>3, GotoTyped DEF TopupRefused, TopupInsertOrder, Respond, Crash, Requests
<1>4. ASSUME NEW p \in Procs, NEW u \in Users, NEW amount \in Packs, TopupStart(p, u, amount)
      PROVE  req' \in [Procs -> Requests]
  <2>1. [pc |-> "create_order", user |-> u, amount |-> amount] \in Requests
    BY DEF Requests
  <2> QED BY <1>4, <2>1, GotoTyped DEF TopupStart
<1>5. ASSUME NEW p \in Procs, NEW o \in Orders, TopupCreateOrder(p, o)
      PROVE  req' \in [Procs -> Requests]
  <2>1. [pc |-> "insert_order", user |-> req[p].user,
         amount |-> req[p].amount, order |-> o] \in Requests
    BY <1>5, RequestKinds DEF Requests, TopupCreateOrder
  <2> QED BY <1>5, <2>1, GotoTyped DEF TopupCreateOrder
<1>6. ASSUME NEW p \in Procs, NEW u \in Users, NEW o \in Orders, VerifyStart(p, u, o)
      PROVE  req' \in [Procs -> Requests]
  <2>1. [pc |-> "mark_paid", via |-> "verify", user |-> u, order |-> o] \in Requests
    BY DEF Requests
  <2> QED BY <1>6, <2>1, GotoTyped DEF VerifyStart
<1>7. ASSUME NEW p \in Procs, NEW o \in Orders, WebhookStart(p, o)
      PROVE  req' \in [Procs -> Requests]
  <2>1. orders[o].user \in Users
    BY <1>7 DEF WebhookStart, TypeOK, Row
  <2>2. [pc |-> "mark_paid", via |-> "webhook", user |-> orders[o].user, order |-> o]
           \in Requests
    BY <2>1 DEF Requests
  <2> QED BY <1>7, <2>2, GotoTyped DEF WebhookStart
<1>8. ASSUME NEW p \in Procs, MarkPaid(p)
      PROVE  req' \in [Procs -> Requests]
  <2>1. req[p] \in [pc: {"mark_paid", "credit"}, via: {"verify", "webhook"},
                    user: Users, order: Orders]
    BY <1>8, RequestKinds DEF MarkPaid
  <2>2. [req[p] EXCEPT !.pc = "credit"] \in Requests
    BY <2>1 DEF Requests
  <2> QED BY <1>8, <2>2 DEF MarkPaid, TypeOK
<1>9. ASSUME NEW p \in Procs, NEW u \in Users, NEW t \in Tokens, HoldStart(p, u, t)
      PROVE  req' \in [Procs -> Requests]
  <2>1. [pc |-> "hold", user |-> u, token |-> t] \in Requests
    BY DEF Requests
  <2> QED BY <1>9, <2>1, GotoTyped DEF HoldStart
<1>10. ASSUME NEW p \in Procs,
              \/ Hold(p)
              \/ \E u \in Users, t \in Tokens, cost \in Costs : SettleHold(p, u, t, cost)
       PROVE  req' \in [Procs -> Requests]
  <2>1. [pc |-> "wallet"] \in Requests
    BY DEF Requests
  <2> QED BY <1>10, <2>1, GotoTyped DEF Hold, SettleHold
<1>11. ASSUME NEW p \in Procs, Wallet_TxnStep(p)
       PROVE  req' \in [Procs -> Requests]
  BY <1>11 DEF Wallet_TxnStep, walletVars, TypeOK
<1> QED
  BY <1>1, <1>2, <1>3, <1>4, <1>5, <1>6, <1>7, <1>8, <1>9, <1>10, <1>11
  DEF Next, HandlerStep

\* What a step can do to the orders.
LEMMA OrderSteps ==
    ASSUME TypeOK, OrdersAreFresh, LookupsHold, [Next]_vars
    PROVE  \/ UNCHANGED <<orders, captured>>
           \/ \E o \in Orders :
                 /\ orders[o] # Null
                 /\ captured' = captured \cup {o} /\ orders' = orders
           \/ \E o \in Orders, r \in Row :
                 /\ orders[o] = Null
                 /\ orders' = [orders EXCEPT ![o] = r] /\ captured' = captured
           \/ \E o \in Orders :
                 /\ orders[o] \in Row
                 /\ orders' = [orders EXCEPT ![o].status = "paid"] /\ captured' = captured
<1> DEFINE Goal ==
           \/ UNCHANGED <<orders, captured>>
           \/ \E o \in Orders :
                 /\ orders[o] # Null
                 /\ captured' = captured \cup {o} /\ orders' = orders
           \/ \E o \in Orders, r \in Row :
                 /\ orders[o] = Null
                 /\ orders' = [orders EXCEPT ![o] = r] /\ captured' = captured
           \/ \E o \in Orders :
                 /\ orders[o] \in Row
                 /\ orders' = [orders EXCEPT ![o].status = "paid"] /\ captured' = captured
<1>1. ASSUME NEW o \in Orders, Pay(o)
      PROVE  Goal
  BY <1>1 DEF Pay
<1>2. ASSUME NEW p \in Procs, TopupInsertOrder(p)
      PROVE  Goal
  <2> DEFINE o == req[p].order
             r == [user |-> req[p].user, amount |-> req[p].amount, status |-> "created"]
  <2>1. /\ req[p].user \in Users /\ req[p].amount \in Packs /\ o \in Orders
        /\ orders[o] = Null
    BY <1>2, RequestKinds DEF TopupInsertOrder, OrdersAreFresh
  <2>2. r \in Row
    BY <2>1 DEF Row
  <2>3. orders' = [orders EXCEPT ![o] = r] /\ captured' = captured
    BY <1>2 DEF TopupInsertOrder
  <2> QED BY <2>1, <2>2, <2>3
<1>3. ASSUME NEW p \in Procs, MarkPaid(p)
      PROVE  Goal
  <2>1. req[p].order \in Orders /\ orders[req[p].order] \in Row
    BY <1>3, LookedUp DEF MarkPaid
  <2>2. orders' = [orders EXCEPT ![req[p].order].status = "paid"] /\ captured' = captured
    BY <1>3 DEF MarkPaid
  <2> QED BY <2>1, <2>2
<1>4. ASSUME NEW p \in Procs,
             \/ TopupRefused(p) \/ Hold(p) \/ Wallet_TxnStep(p) \/ Respond(p) \/ Crash(p)
             \/ \E o \in Orders : TopupCreateOrder(p, o) \/ WebhookStart(p, o)
      PROVE  Goal
  BY <1>4 DEF TopupRefused, Hold, Wallet_TxnStep, walletVars, Respond, Crash,
              TopupCreateOrder, WebhookStart
<1>5. ASSUME NEW p \in Procs, NEW u \in Users,
             \/ \E amount \in Packs : TopupStart(p, u, amount)
             \/ \E o \in Orders : VerifyStart(p, u, o)
             \/ \E t \in Tokens : HoldStart(p, u, t) \/ \E cost \in Costs : SettleHold(p, u, t, cost)
      PROVE  Goal
  BY <1>5 DEF TopupStart, VerifyStart, HoldStart, SettleHold
<1>6. CASE UNCHANGED vars
  BY <1>6 DEF vars, walletVars
<1> QED BY <1>1, <1>2, <1>3, <1>4, <1>5, <1>6 DEF Next, HandlerStep

\* An order that is there stays, its owner's and for its price; what was
\* captured or paid stays so.
LEMMA OrdersAreKept ==
    ASSUME TypeOK, OrdersAreFresh, LookupsHold, [Next]_vars
    PROVE  /\ captured \subseteq captured'
           /\ orders' \in [Orders -> Row \cup {Null}]
           /\ \A o \in Orders : orders[o] # Null =>
                 /\ orders'[o] # Null
                 /\ orders'[o].user = orders[o].user
                 /\ orders'[o].amount = orders[o].amount
                 /\ orders[o].status = "paid" => orders'[o] = orders[o]
<1>1. orders \in [Orders -> Row \cup {Null}]
  BY DEF TypeOK
<1>2. ASSUME NEW o \in Orders, orders[o] \in Row,
             orders' = [orders EXCEPT ![o].status = "paid"], captured' = captured
      PROVE  /\ orders' \in [Orders -> Row \cup {Null}]
             /\ orders'[o] \in Row
             /\ orders'[o].user = orders[o].user
             /\ orders'[o].amount = orders[o].amount
             /\ orders[o].status = "paid" => orders'[o] = orders[o]
             /\ \A d \in Orders \ {o} : orders'[d] = orders[d]
  BY <1>1, <1>2 DEF Row
<1>3. ASSUME NEW o \in Orders, NEW r \in Row, orders[o] = Null,
             orders' = [orders EXCEPT ![o] = r]
      PROVE  /\ orders' \in [Orders -> Row \cup {Null}]
             /\ \A d \in Orders \ {o} : orders'[d] = orders[d]
  BY <1>1, <1>3
<1> QED BY <1>1, <1>2, <1>3, OrderSteps, NullOrderAssumption

LEMMA BackedStays ==
    ASSUME TypeOK, OrdersAreFresh, LookupsHold, [Next]_vars,
           NEW o \in Orders, NEW u, NEW amount, Backed(o, u, amount)
    PROVE  Backed(o, u, amount)'
<1>1. orders[o] # Null /\ orders[o].status = "paid" /\ o \in captured
  BY DEF Backed, OrdersAreFresh
<1>2. orders'[o] = orders[o] /\ o \in captured'
  BY <1>1, OrdersAreKept
<1> QED BY <1>2 DEF Backed

LEMMA TypeStep ==
    ASSUME TypeOK, OrdersAreFresh, LookupsHold, [Next]_vars
    PROVE  TypeOK'
<1>1. TxnTypeOK'
  BY StepIsTxnStep, TxnNextType DEF TypeOK
<1>2. req' \in [Procs -> Requests]
  BY RequestTypeStep
<1>3. orders' \in [Orders -> Row \cup {Null}]
  BY OrdersAreKept
<1>4. /\ captured' \subseteq issued' /\ issued' \subseteq Orders
      /\ acked' \subseteq captured'
      /\ crashes' \in 0 .. MaxCrashes
  <2> DEFINE Goal == /\ captured' \subseteq issued' /\ issued' \subseteq Orders
                     /\ acked' \subseteq captured'
                     /\ crashes' \in 0 .. MaxCrashes
  <2>0. /\ captured \subseteq issued /\ issued \subseteq Orders
        /\ acked \subseteq captured /\ crashes \in 0 .. MaxCrashes
    BY DEF TypeOK
  <2>1. ASSUME NEW o \in Orders, Pay(o)
        PROVE  Goal
    BY <2>0, <2>1 DEF Pay, OrdersAreFresh
  <2>2. ASSUME NEW p \in Procs, NEW o \in Orders, TopupCreateOrder(p, o)
        PROVE  Goal
    BY <2>0, <2>2 DEF TopupCreateOrder
  <2>3. ASSUME NEW p \in Procs, Respond(p)
        PROVE  Goal
    <3>1. acked' = acked \/ (acked' = acked \cup {req[p].order} /\ req[p].pc = "credit")
      BY <2>3 DEF Respond
    <3>2. req[p].pc = "credit" => req[p].order \in captured
      BY DEF LookupsHold
    <3> QED BY <2>0, <2>3, <3>1, <3>2 DEF Respond
  <2>4. ASSUME NEW p \in Procs, Crash(p)
        PROVE  Goal
    BY <2>0, <2>4, MoneyAssumption DEF Crash
  <2>5. ASSUME NEW p \in Procs,
               \/ TopupRefused(p) \/ TopupInsertOrder(p) \/ MarkPaid(p) \/ Hold(p)
               \/ Wallet_TxnStep(p)
               \/ \E o \in Orders : WebhookStart(p, o)
        PROVE  Goal
    BY <2>0, <2>5 DEF TopupRefused, TopupInsertOrder, MarkPaid, Hold, Wallet_TxnStep,
                      walletVars, WebhookStart
  <2>6. ASSUME NEW p \in Procs, NEW u \in Users,
               \/ \E amount \in Packs : TopupStart(p, u, amount)
               \/ \E o \in Orders : VerifyStart(p, u, o)
               \/ \E t \in Tokens : HoldStart(p, u, t) \/ \E cost \in Costs : SettleHold(p, u, t, cost)
        PROVE  Goal
    BY <2>0, <2>6 DEF TopupStart, VerifyStart, HoldStart, SettleHold
  <2>7. CASE UNCHANGED vars
    BY <2>0, <2>7 DEF vars, walletVars
  <2> QED BY <2>1, <2>2, <2>3, <2>4, <2>5, <2>6, <2>7 DEF Next, HandlerStep
<1> QED BY <1>1, <1>2, <1>3, <1>4 DEF TypeOK

-----------------------------------------------------------------------------
(* The requests.                                                           *)

\* The steps that take a request to a place the invariant speaks of.
LEMMA RequestMoves ==
    ASSUME TypeOK, [Next]_vars, NEW q \in Procs
    PROVE  \/ req'[q] = req[q]
           \/ req'[q].pc \in {"idle", "create_order", "hold", "wallet"}
           \/ \E o \in Orders : \/ TopupCreateOrder(q, o) \/ WebhookStart(q, o)
                                \/ \E u \in Users : VerifyStart(q, u, o)
           \/ MarkPaid(q)
<1> DEFINE Goal ==
           \/ req'[q] = req[q]
           \/ req'[q].pc \in {"idle", "create_order", "hold", "wallet"}
           \/ \E o \in Orders : \/ TopupCreateOrder(q, o) \/ WebhookStart(q, o)
                                \/ \E u \in Users : VerifyStart(q, u, o)
           \/ MarkPaid(q)
<1>1. ASSUME NEW p \in Procs, NEW r, Goto(p, r), p # q
      PROVE  Goal
  BY <1>1 DEF Goto, TypeOK
<1>2. ASSUME NEW r, Goto(q, r), r.pc \in {"idle", "create_order", "hold", "wallet"}
      PROVE  Goal
  BY <1>2 DEF Goto, TypeOK
<1>3. ASSUME NEW p \in Procs,
             \/ TopupRefused(p) \/ TopupInsertOrder(p) \/ Respond(p) \/ Crash(p) \/ Hold(p)
      PROVE  Goal
  BY <1>1, <1>2, <1>3 DEF TopupRefused, TopupInsertOrder, Respond, Crash, Hold, Idle
<1>4. ASSUME NEW p \in Procs, NEW u \in Users,
             \/ \E amount \in Packs : TopupStart(p, u, amount)
             \/ \E t \in Tokens : HoldStart(p, u, t) \/ \E cost \in Costs : SettleHold(p, u, t, cost)
      PROVE  Goal
  BY <1>1, <1>2, <1>4 DEF TopupStart, HoldStart, SettleHold
<1>5. ASSUME NEW p \in Procs, NEW o \in Orders,
             \/ TopupCreateOrder(p, o) \/ WebhookStart(p, o)
             \/ \E u \in Users : VerifyStart(p, u, o)
      PROVE  Goal
  <2>1. CASE p = q
    BY <1>5, <2>1
  <2>2. CASE p # q
    BY <1>1, <1>5, <2>2 DEF TopupCreateOrder, WebhookStart, VerifyStart
  <2> QED BY <2>1, <2>2
<1>6. ASSUME NEW p \in Procs, MarkPaid(p)
      PROVE  Goal
  BY <1>6 DEF MarkPaid, TypeOK
<1>7. ASSUME \/ \E o \in Orders : Pay(o)
             \/ \E p \in Procs : Wallet_TxnStep(p)
             \/ UNCHANGED vars
      PROVE  Goal
  BY <1>7 DEF Pay, Wallet_TxnStep, walletVars, vars
<1> QED BY <1>3, <1>4, <1>5, <1>6, <1>7 DEF Next, HandlerStep

LEMMA LookupsStep ==
    ASSUME TypeOK, OrdersAreFresh, LookupsHold, [Next]_vars
    PROVE  LookupsHold'
<1> SUFFICES ASSUME NEW q \in Procs, req'[q].pc \in {"mark_paid", "credit"}
             PROVE  req'[q].order \in captured' /\ orders'[req'[q].order].user = req'[q].user
  BY DEF LookupsHold
<1>1. ASSUME NEW o \in Orders, o \in captured, orders[o] # Null,
             req'[q].order = o, req'[q].user = orders[o].user
      PROVE  req'[q].order \in captured' /\ orders'[req'[q].order].user = req'[q].user
  BY <1>1, OrdersAreKept
<1>2. ASSUME req[q].pc \in {"mark_paid", "credit"},
             req'[q].order = req[q].order, req'[q].user = req[q].user
      PROVE  req'[q].order \in captured' /\ orders'[req'[q].order].user = req'[q].user
  <2>1. /\ req[q].order \in Orders /\ req[q].order \in captured
        /\ orders[req[q].order] # Null /\ orders[req[q].order].user = req[q].user
    BY <1>2, RequestKinds DEF LookupsHold, OrdersAreFresh
  <2> QED BY <1>1, <1>2, <2>1
<1>3. CASE req'[q] = req[q]
  BY <1>2, <1>3
<1>4. CASE MarkPaid(q)
  <2>1. req[q].pc = "mark_paid" /\ req' = [req EXCEPT ![q].pc = "credit"]
    BY <1>4 DEF MarkPaid
  <2>2. req[q] \in [pc: {"mark_paid", "credit"}, via: {"verify", "webhook"},
                    user: Users, order: Orders]
    BY <2>1, RequestKinds
  <2>3. req'[q].order = req[q].order /\ req'[q].user = req[q].user
    BY <2>1, <2>2 DEF TypeOK
  <2> QED BY <1>2, <2>1, <2>3
<1>5. ASSUME NEW o \in Orders, WebhookStart(q, o) \/ \E u \in Users : VerifyStart(q, u, o)
      PROVE  /\ o \in captured /\ orders[o] # Null
             /\ req'[q].order = o /\ req'[q].user = orders[o].user
  BY <1>5 DEF WebhookStart, VerifyStart, Goto, TypeOK
<1>6. ASSUME NEW o \in Orders, TopupCreateOrder(q, o)
      PROVE  FALSE
  BY <1>6 DEF TopupCreateOrder, Goto, TypeOK
<1> QED BY <1>1, <1>3, <1>4, <1>5, <1>6, RequestMoves

LEMMA FreshStep ==
    ASSUME TypeOK, OrdersAreFresh, LookupsHold, [Next]_vars
    PROVE  OrdersAreFresh'
<1>1. \A o \in captured' : orders'[o] # Null
  <2>1. captured \subseteq Orders
    BY DEF TypeOK
  <2>2. \A o \in captured' : o \in Orders /\ orders[o] # Null
    BY <2>1, OrderSteps DEF OrdersAreFresh
  <2> QED BY <2>2, OrdersAreKept
\* Every step but the two of creating an order.
<1>2. ASSUME issued' = issued,
             \A o \in Orders : orders'[o] = Null <=> orders[o] = Null,
             \A q \in Procs : req'[q] = req[q] \/ req'[q].pc # "insert_order"
      PROVE  OrdersAreFresh'
  <2>1. \A q \in Procs : req[q].pc = "insert_order" => req[q].order \in Orders
    BY RequestKinds
  <2> QED BY <1>1, <1>2, <2>1 DEF OrdersAreFresh
<1>3. ASSUME NEW p \in Procs, NEW o \in Orders, TopupCreateOrder(p, o)
      PROVE  OrdersAreFresh'
  <2>1. /\ o \notin issued /\ issued' = issued \cup {o}
        /\ orders' = orders
        /\ req'[p].pc = "insert_order" /\ req'[p].order = o
        /\ \A q \in Procs \ {p} : req'[q] = req[q]
    BY <1>3 DEF TopupCreateOrder, Goto, TypeOK
  <2>2. orders[o] = Null
    BY <2>1 DEF OrdersAreFresh
  <2> QED BY <1>1, <2>1, <2>2 DEF OrdersAreFresh
<1>4. ASSUME NEW p \in Procs, TopupInsertOrder(p)
      PROVE  OrdersAreFresh'
  <2> DEFINE o == req[p].order
  <2>1. /\ req[p].pc = "insert_order" /\ o \in Orders /\ o \in issued
        /\ issued' = issued
        /\ \A d \in Orders \ {o} : orders'[d] = orders[d]
        /\ req'[p].pc = "idle"
        /\ \A q \in Procs \ {p} : req'[q] = req[q]
    BY <1>4, RequestKinds DEF TopupInsertOrder, Goto, TypeOK, Idle, OrdersAreFresh
  <2>2. \A q \in Procs : req[q].pc = "insert_order" => req[q].order \in Orders
    BY RequestKinds
  <2> QED BY <1>1, <2>1, <2>2 DEF OrdersAreFresh
<1>5. ASSUME \A p \in Procs : ~TopupInsertOrder(p) /\ \A o \in Orders : ~TopupCreateOrder(p, o)
      PROVE  OrdersAreFresh'
  <2>1. issued' = issued
    BY <1>5 DEF Next, HandlerStep, Pay, TopupRefused, MarkPaid, Hold, Wallet_TxnStep,
                Respond, Crash, TopupStart, VerifyStart, WebhookStart, HoldStart,
                SettleHold, vars, walletVars
  <2>2. \A o \in Orders : orders'[o] = Null <=> orders[o] = Null
    <3>1. CASE UNCHANGED orders
      BY <3>1
    <3>2. ASSUME NEW p \in Procs, MarkPaid(p)
          PROVE  \A o \in Orders : orders'[o] = Null <=> orders[o] = Null
      <4>1. req[p].order \in Orders /\ orders[req[p].order] \in Row
        BY <3>2, LookedUp DEF MarkPaid
      <4>2. \A o \in Orders \ {req[p].order} : orders'[o] = orders[o]
        BY <3>2 DEF MarkPaid, TypeOK
      <4>3. orders'[req[p].order] # Null
        BY <4>1, OrdersAreKept, NullOrderAssumption
      <4> QED BY <4>1, <4>2, <4>3, NullOrderAssumption
    <3>3. UNCHANGED orders \/ \E p \in Procs : MarkPaid(p)
      BY <1>5 DEF Next, HandlerStep, Pay, TopupRefused, Hold, Wallet_TxnStep,
                  Respond, Crash, TopupStart, VerifyStart, WebhookStart, HoldStart,
                  SettleHold, vars, walletVars
    <3> QED BY <3>1, <3>2, <3>3
  <2>3. ASSUME NEW q \in Procs
        PROVE  req'[q] = req[q] \/ req'[q].pc # "insert_order"
    <3>1. CASE MarkPaid(q)
      BY <3>1, RequestKinds DEF MarkPaid, TypeOK
    <3>2. ASSUME NEW o \in Orders, WebhookStart(q, o) \/ \E u \in Users : VerifyStart(q, u, o)
          PROVE  req'[q].pc # "insert_order"
      BY <3>2 DEF WebhookStart, VerifyStart, Goto, TypeOK
    <3> QED BY <1>5, <3>1, <3>2, RequestMoves
  <2> QED BY <1>2, <2>1, <2>2, <2>3
<1> QED BY <1>3, <1>4, <1>5

-----------------------------------------------------------------------------
(* The postings.                                                           *)

\* The ledger only grows.
LEMMA EntriesAreKept ==
    ASSUME TypeOK, OrdersAreFresh, LookupsHold, [Next]_vars
    PROVE  \A u \in Users : \A i \in DOMAIN entries[u] :
              i \in DOMAIN entries'[u] /\ entries'[u][i] = entries[u][i]
BY StepIsTxnStep, TxnNextPosts DEF TypeOK

LEMMA LegalStays ==
    ASSUME TypeOK, OrdersAreFresh, LookupsHold, [Next]_vars,
           NEW u \in Users, NEW ref, NEW amount, Legal(u, ref, amount)
    PROVE  Legal(u, ref, amount)'
<1>1. \A o \in Orders : Backed(o, u, amount) => Backed(o, u, amount)'
  BY BackedStays
<1>2. \A r : HasPrior(u, r) => HasPrior(u, r)'
  BY EntriesAreKept DEF HasPrior
<1> QED BY <1>1, <1>2 DEF Legal

\* The references of top-ups, holds and refunds are apart.
LEMMA RefsAreApart ==
    /\ \A o, d : TopupRef(o) = TopupRef(d) => o = d
    /\ \A t, d : HoldRef(t) = HoldRef(d) => t = d
    /\ \A t, d : ReleaseRef(t) = ReleaseRef(d) => t = d
    /\ \A o, t : TopupRef(o) # HoldRef(t) /\ TopupRef(o) # ReleaseRef(t)
    /\ \A t, d : HoldRef(t) # ReleaseRef(d)
  BY DEF TopupRef, HoldRef, ReleaseRef

\* A transaction that begins is legal once its step is done.
LEMMA BeginIsLegal ==
    ASSUME WalletInv, [Next]_vars, NEW p \in Procs
    PROVE  /\ MarkPaid(p) => /\ tx'[p].user \in Users
                             /\ Legal(tx[p].user, tx[p].ref, tx[p].amount)'
           /\ Hold(p) => Legal(tx[p].user, tx[p].ref, tx[p].amount)'
           /\ \A u \in Users, t \in Tokens, cost \in Costs : SettleHold(p, u, t, cost) =>
                 Legal(tx[p].user, tx[p].ref, tx[p].amount)'
<1> USE DEF WalletInv
<1>1. ASSUME MarkPaid(p)
      PROVE  /\ tx'[p].user \in Users
             /\ Legal(tx[p].user, tx[p].ref, tx[p].amount)'
  <2> DEFINE o == req[p].order
  <2>1. /\ req[p].user \in Users /\ o \in Orders /\ o \in captured
        /\ orders[o] \in Row /\ orders[o].user = req[p].user
    BY <1>1, LookedUp DEF MarkPaid
  <2>2. /\ tx'[p].user = req[p].user /\ tx'[p].ref = TopupRef(o)
        /\ tx'[p].amount = orders[o].amount
    BY <1>1 DEF MarkPaid, BeginTxn, Started, TypeOK, TxnTypeOK
  <2>3. orders'[o] = [user |-> req[p].user, amount |-> orders[o].amount, status |-> "paid"]
    BY <1>1, <2>1 DEF MarkPaid, TypeOK, Row
  <2>4. o \in captured'
    BY <1>1, <2>1 DEF MarkPaid
  <2>5. \A d \in Orders : TopupRef(d) = TopupRef(o) => d = o
    BY RefsAreApart
  <2>6. \A t \in Tokens : TopupRef(o) # HoldRef(t) /\ TopupRef(o) # ReleaseRef(t)
    BY RefsAreApart
  <2> HIDE DEF o
  <2> QED BY <2>1, <2>2, <2>3, <2>4, <2>5, <2>6 DEF Legal, Backed
<1>2. ASSUME Hold(p)
      PROVE  Legal(tx[p].user, tx[p].ref, tx[p].amount)'
  <2>1. tx'[p].ref = HoldRef(req[p].token) /\ tx'[p].amount = -HoldPaise
    BY <1>2 DEF Hold, BeginTxn, Started, TypeOK, TxnTypeOK
  <2>2. /\ \A d \in Orders : TopupRef(d) # HoldRef(req[p].token)
        /\ \A t \in Tokens : ReleaseRef(t) # HoldRef(req[p].token)
    BY RefsAreApart
  <2> QED BY <2>1, <2>2 DEF Legal
<1>3. ASSUME NEW u \in Users, NEW t \in Tokens, NEW cost \in Costs, SettleHold(p, u, t, cost)
      PROVE  Legal(tx[p].user, tx[p].ref, tx[p].amount)'
  <2>1. /\ tx'[p].user = u /\ tx'[p].ref = ReleaseRef(t)
        /\ tx'[p].amount = Refund(HoldPaise, cost)
    BY <1>3 DEF SettleHold, BeginTxn, Started, TypeOK, TxnTypeOK
  <2>2. Refund(HoldPaise, cost) \in 1 .. HoldPaise
    BY <1>3, MoneyAssumption DEF Refund, SettleHold
  <2>3. \E i \in DOMAIN entries'[u] : entries'[u][i].ref = HoldRef(t)
    BY <1>3 DEF SettleHold, BeginTxn, HasPrior
  <2>4. /\ \A d \in Orders : TopupRef(d) # ReleaseRef(t)
        /\ \A d \in Tokens : HoldRef(d) # ReleaseRef(t)
        /\ \A d \in Tokens : ReleaseRef(d) = ReleaseRef(t) => d = t
    BY RefsAreApart
  <2> QED BY <2>1, <2>2, <2>3, <2>4 DEF Legal, HasPrior
<1> QED BY <1>1, <1>2, <1>3

LEMMA TxnsStep ==
    ASSUME WalletInv, [Next]_vars
    PROVE  TxnsAreLegal'
<1> USE DEF WalletInv
<1> SUFFICES ASSUME NEW q \in Procs, tx'[q] # NoTxn
             PROVE  Legal(tx[q].user, tx[q].ref, tx[q].amount)'
  BY DEF TxnsAreLegal
<1>1. CASE tx[q] # NoTxn /\ tx'[q].user = tx[q].user /\ tx'[q].ref = tx[q].ref
           /\ tx'[q].amount = tx[q].amount
  <2>1. Legal(tx[q].user, tx[q].ref, tx[q].amount)
    BY <1>1 DEF TxnsAreLegal
  <2>2. tx[q].user \in Users
    BY <1>1 DEF TypeOK, TxnTypeOK, Running, Writing, Done
  <2>3. /\ \A o \in Orders : Backed(o, tx[q].user, tx[q].amount) =>
              /\ o \in captured'
              /\ orders'[o] = [user |-> tx[q].user, amount |-> tx[q].amount,
                               status |-> "paid"]
        /\ \A r : HasPrior(tx[q].user, r) =>
              \E i \in DOMAIN entries'[tx[q].user] : entries'[tx[q].user][i].ref = r
    <3>1. \A o \in Orders : Backed(o, tx[q].user, tx[q].amount) =>
              /\ o \in captured'
              /\ orders'[o] = [user |-> tx[q].user, amount |-> tx[q].amount,
                               status |-> "paid"]
      BY BackedStays DEF Backed
    <3>2. \A i \in DOMAIN entries[tx[q].user] :
             i \in DOMAIN entries'[tx[q].user] /\
             entries'[tx[q].user][i] = entries[tx[q].user][i]
      BY <2>2, EntriesAreKept
    <3> QED BY <3>1, <3>2 DEF HasPrior
  <2> QED BY <1>1, <2>1, <2>3 DEF Legal, Backed, HasPrior
<1>2. CASE MarkPaid(q) \/ Hold(q) \/ \E u \in Users, t \in Tokens, cost \in Costs :
              SettleHold(q, u, t, cost)
  BY <1>2, BeginIsLegal
<1>3. CASE \E p \in Procs : TxnStep(p)
  BY <1>1, <1>3, TxnStepPosts DEF TypeOK
<1>4. CASE \E p \in Procs : EndTxn(p) \/ AbortTxn(p)
  BY <1>1, <1>4 DEF EndTxn, AbortTxn, TypeOK, TxnTypeOK
<1>5. CASE UNCHANGED tx
  BY <1>1, <1>5
<1>6. ASSUME NEW p \in Procs, p # q,
             MarkPaid(p) \/ Hold(p) \/ \E u \in Users, t \in Tokens, cost \in Costs :
                SettleHold(p, u, t, cost)
      PROVE  tx'[q] = tx[q]
  BY <1>6 DEF MarkPaid, Hold, SettleHold, BeginTxn, TypeOK, TxnTypeOK
<1>7. \/ UNCHANGED tx
      \/ \E p \in Procs : TxnStep(p) \/ EndTxn(p) \/ AbortTxn(p)
      \/ \E p \in Procs :
            \/ MarkPaid(p) \/ Hold(p)
            \/ \E u \in Users, t \in Tokens, cost \in Costs : SettleHold(p, u, t, cost)
  <2>1. ASSUME NEW p \in Procs, HandlerStep(p)
        PROVE  \/ UNCHANGED tx \/ TxnStep(p) \/ EndTxn(p) \/ MarkPaid(p) \/ Hold(p)
    BY <2>1 DEF HandlerStep, TopupCreateOrder, TopupRefused, TopupInsertOrder,
                Wallet_TxnStep, Respond, txnVars
  <2> QED BY <2>1 DEF Next, Pay, Crash, TopupStart, OpenWallet, VerifyStart,
                      HoldStart, WebhookStart, vars, txnVars
<1> QED BY <1>1, <1>2, <1>3, <1>4, <1>5, <1>6, <1>7

LEMMA EntriesStep ==
    ASSUME WalletInv, [Next]_vars
    PROVE  EntriesAreLegal'
<1> USE DEF WalletInv
<1> SUFFICES ASSUME NEW u \in Users, NEW i \in DOMAIN entries'[u]
             PROVE  Legal(u, entries[u][i].ref, entries[u][i].amount)'
  BY DEF EntriesAreLegal
<1>1. ASSUME NEW ref, NEW amount, Legal(u, ref, amount),
             entries'[u][i].ref = ref, entries'[u][i].amount = amount
      PROVE  Legal(u, entries[u][i].ref, entries[u][i].amount)'
  <2>1. Legal(u, ref, amount)'
    BY <1>1, LegalStays
  <2> QED BY <1>1, <2>1 DEF Legal, Backed, HasPrior
<1>2. CASE i \in DOMAIN entries[u] /\ entries'[u][i] = entries[u][i]
  <2>1. Legal(u, entries[u][i].ref, entries[u][i].amount)
    BY <1>2 DEF EntriesAreLegal
  <2> QED BY <1>1, <1>2, <2>1
<1>3. ASSUME NEW p \in Procs, tx[p] # NoTxn, u = tx[p].user,
             entries'[u][i].ref = tx[p].ref, entries'[u][i].amount = tx[p].amount
      PROVE  Legal(u, entries[u][i].ref, entries[u][i].amount)'
  BY <1>1, <1>3 DEF TxnsAreLegal
<1>4. entries' = entries \/ \E p \in Procs : TxnStep(p)
  BY StepIsTxnStep DEF TxnNext, txnVars, OpenWallet, BeginTxn, EndTxn, AbortTxn
<1> QED BY <1>2, <1>3, <1>4, TxnStepPosts DEF TypeOK

LEMMA RefundsStep ==
    ASSUME WalletInv, [Next]_vars
    PROVE  RefundsFollow'
<1> USE DEF WalletInv
<1> SUFFICES ASSUME NEW u \in Users, NEW t \in Tokens, NEW i \in DOMAIN entries'[u],
                    entries'[u][i].ref = ReleaseRef(t)
             PROVE  \E j \in DOMAIN entries'[u] : j < i /\ entries'[u][j].ref = HoldRef(t)
  BY DEF RefundsFollow
<1>1. \A j \in DOMAIN entries[u] : j \in DOMAIN entries'[u] /\ entries'[u][j] = entries[u][j]
  BY EntriesAreKept
<1>2. CASE i \in DOMAIN entries[u] /\ entries'[u][i] = entries[u][i]
  <2>1. PICK j \in DOMAIN entries[u] : j < i /\ entries[u][j].ref = HoldRef(t)
    BY <1>2 DEF RefundsFollow
  <2> QED BY <1>1, <2>1
<1>3. ASSUME NEW p \in Procs, tx[p] # NoTxn, u = tx[p].user, entries'[u][i].ref = tx[p].ref,
             \A j \in DOMAIN entries[u] : j < i
      PROVE  \E j \in DOMAIN entries'[u] : j < i /\ entries'[u][j].ref = HoldRef(t)
  <2>1. HasPrior(u, HoldRef(t))
    BY <1>3 DEF TxnsAreLegal, Legal
  <2>2. PICK j \in DOMAIN entries[u] : entries[u][j].ref = HoldRef(t)
    BY <2>1 DEF HasPrior
  <2> QED BY <1>1, <1>3, <2>2
<1>4. entries' = entries \/ \E p \in Procs : TxnStep(p)
  BY StepIsTxnStep DEF TxnNext, txnVars, OpenWallet, BeginTxn, EndTxn, AbortTxn
<1>5. CASE entries' = entries
  BY <1>2, <1>5
<1>6. ASSUME NEW p \in Procs, TxnStep(p)
      PROVE  \/ i \in DOMAIN entries[u] /\ entries'[u][i] = entries[u][i]
             \/ /\ tx[p] # NoTxn /\ u = tx[p].user /\ entries'[u][i].ref = tx[p].ref
                /\ \A j \in DOMAIN entries[u] : j < i
  BY <1>6, TxnStepPosts DEF TypeOK
<1> QED BY <1>2, <1>3, <1>4, <1>5, <1>6

LEMMA WalletInvInit ==
    ASSUME Init
    PROVE  WalletInv
<1>1. TypeOK
  BY TxnInitType, MoneyAssumption DEF Init, TypeOK, Requests
<1>2. OrdersAreFresh /\ LookupsHold
  BY DEF Init, OrdersAreFresh, LookupsHold, Idle
<1>3. TxnsAreLegal /\ EntriesAreLegal /\ RefundsFollow
  BY DEF Init, TxnInit, TxnsAreLegal, EntriesAreLegal, RefundsFollow
<1> QED BY <1>1, <1>2, <1>3 DEF WalletInv

LEMMA WalletInvStep ==
    ASSUME WalletInv, [Next]_vars
    PROVE  WalletInv'
  BY TypeStep, LookupsStep, FreshStep, TxnsStep, EntriesStep, RefundsStep DEF WalletInv

LEMMA WalletInvariant == Spec => []WalletInv
<1>1. Init => WalletInv
  BY WalletInvInit
<1>2. WalletInv /\ [Next]_vars => WalletInv'
  BY WalletInvStep
<1> QED BY <1>1, <1>2, PTL DEF Spec

-----------------------------------------------------------------------------
(* The theorems.                                                           *)

\* Orders, requests and the wallet tables keep their types; in particular only
\* a captured payment is acknowledged, and only an issued order captured.
THEOREM WalletTypeCorrect == Spec => []TypeOK
<1>1. WalletInv => TypeOK
  BY DEF WalletInv
<1> QED BY <1>1, WalletInvariant, PTL

\* The service reaches the wallet tables only through ensureWallet and
\* applyTxn, with references and amounts the transaction engine is proved for.
THEOREM WalletImplementsTxn == Spec => ImplementsTxn
<1>1. Init => TxnInit
  BY DEF Init
<1>2. WalletInv /\ [Next]_vars => [TxnNext]_txnVars
  BY StepIsTxnStep DEF WalletInv
<1> QED BY <1>1, <1>2, WalletInvariant, PTL DEF Spec, ImplementsTxn, TxnSpec

\* Hence the ledger of the service is a running balance without overdraw ...
THEOREM WalletRunningBalance == Spec => []RunningBalance
BY WalletImplementsTxn, TxnRunningBalance, PTL DEF ImplementsTxn

\* ... in which no top-up, hold or refund is posted twice.
THEOREM WalletAppliedOnce == Spec => []AppliedOnce
BY WalletImplementsTxn, TxnAppliedOnce, PTL DEF ImplementsTxn

LEMMA EntriesForRows ==
    ASSUME NEW ref, NEW e
    PROVE  e \in EntriesFor(ref) <=>
              \E u \in Users : \E i \in DOMAIN entries[u] :
                 /\ entries[u][i].ref = ref
                 /\ e = [user |-> u, amount |-> entries[u][i].amount]
  BY DEF EntriesFor

\* A credit of an order went to the user who placed it, for its price, and the
\* order was captured and marked paid before, whoever posted the signed payment
\* and wherever verify, webhook and crashes interleave.
THEOREM WalletCreditBacked == Spec => []CreditBacked
<1>1. ASSUME WalletInv
      PROVE  CreditBacked
  <2> SUFFICES ASSUME NEW o \in Orders, NEW e \in EntriesFor(TopupRef(o))
               PROVE  /\ o \in captured
                      /\ orders[o] = [user |-> e.user, amount |-> e.amount,
                                      status |-> "paid"]
    BY DEF CreditBacked
  <2>0. PICK u \in Users : \E i \in DOMAIN entries[u] :
           /\ entries[u][i].ref = TopupRef(o)
           /\ e = [user |-> u, amount |-> entries[u][i].amount]
    BY EntriesForRows
  <2>1. PICK i \in DOMAIN entries[u] :
           /\ entries[u][i].ref = TopupRef(o)
           /\ e = [user |-> u, amount |-> entries[u][i].amount]
    BY <2>0
  <2>2. Legal(u, TopupRef(o), entries[u][i].amount)
    BY <1>1, <2>1 DEF WalletInv, EntriesAreLegal
  <2> QED BY <2>1, <2>2 DEF Legal, Backed
<1> QED BY <1>1, WalletInvariant, PTL

LEMMA RowsForRows ==
    ASSUME NEW ref, NEW row
    PROVE  row \in RowsFor(ref) <=>
              \E u \in Users : \E i \in DOMAIN entries[u] :
                 entries[u][i].ref = ref /\ row = <<u, i>>
  BY DEF RowsFor

\* However often a call is settled, there is one refund, after the hold and in
\* the wallet that paid it, and the caller has paid between nothing and the hold.
THEOREM WalletRefundWithinHold == Spec => []RefundWithinHold
<1>1. ASSUME WalletInv, AppliedOnce
      PROVE  RefundWithinHold
  <2> SUFFICES ASSUME NEW t \in Tokens, NEW refund \in RowsFor(ReleaseRef(t))
               PROVE  /\ RowsFor(ReleaseRef(t)) = {refund}
                      /\ \E hold \in RowsFor(HoldRef(t)) :
                            /\ hold[1] = refund[1] /\ hold[2] < refund[2]
                            /\ AmountAt(hold) + AmountAt(refund) \in -HoldPaise .. 0
    BY DEF RefundWithinHold
  <2>1. PICK u \in Users : \E i \in DOMAIN entries[u] :
           entries[u][i].ref = ReleaseRef(t) /\ refund = <<u, i>>
    BY RowsForRows
  <2>2. PICK i \in DOMAIN entries[u] : entries[u][i].ref = ReleaseRef(t) /\ refund = <<u, i>>
    BY <2>1
  <2>3. ASSUME NEW row \in RowsFor(ReleaseRef(t))
        PROVE  row = refund
    <3>1. PICK v \in Users : \E j \in DOMAIN entries[v] :
             entries[v][j].ref = ReleaseRef(t) /\ row = <<v, j>>
      BY RowsForRows
    <3>2. PICK j \in DOMAIN entries[v] : entries[v][j].ref = ReleaseRef(t) /\ row = <<v, j>>
      BY <3>1
    <3>3. u = v /\ i = j
      BY <1>1, <2>2, <3>2 DEF AppliedOnce
    <3> QED BY <2>2, <3>2, <3>3
  <2>4. PICK k \in DOMAIN entries[u] : k < i /\ entries[u][k].ref = HoldRef(t)
    BY <1>1, <2>2 DEF WalletInv, RefundsFollow
  <2> DEFINE hold == <<u, k>>
  <2>5. hold \in RowsFor(HoldRef(t)) /\ hold[1] = refund[1] /\ hold[2] < refund[2]
    <3>1. hold \in RowsFor(HoldRef(t))
      BY <2>4, RowsForRows
    <3> QED BY <2>2, <2>4, <3>1
  <2>6. entries[u][k].amount = -HoldPaise
    BY <1>1, <2>4 DEF WalletInv, EntriesAreLegal, Legal
  <2>7. entries[u][i].amount \in 1 .. HoldPaise
    BY <1>1, <2>2 DEF WalletInv, EntriesAreLegal, Legal
  <2>8. AmountAt(hold) + AmountAt(refund) \in -HoldPaise .. 0
    <3>1. AmountAt(hold) = -HoldPaise /\ AmountAt(refund) \in 1 .. HoldPaise
      BY <2>2, <2>6, <2>7 DEF AmountAt
    <3> HIDE DEF hold
    <3> QED BY <3>1, MoneyAssumption
  <2> QED BY <2>3, <2>5, <2>8
<1> QED BY <1>1, WalletInvariant, WalletAppliedOnce, PTL

=============================================================================

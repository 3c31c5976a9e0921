------------------------------- MODULE Wallet -------------------------------
(***************************************************************************)
(* The wallet service: top-up orders, client verification, the payment     *)
(* provider's webhook, and the hold / settle primitives masked calling     *)
(* uses, all running applyTxn (module WalletTxn) over the same tables.     *)
(*                                                                         *)
(* A handler is one HTTP request; every await in the service is a point    *)
(* where other handlers run and where the request may die.  The provider   *)
(* is external: it issues orders, captures payments, and delivers each     *)
(* payment.captured event late, repeatedly and in any order until it is    *)
(* acknowledged.                                                           *)
(***************************************************************************)
EXTENDS WalletTxn

CONSTANTS
    Orders,         \* order ids the payment provider can issue
    Packs,          \* prices of the top-up packs (paise)
    Tokens,         \* landing tokens of masked calls
    HoldPaise,      \* amount masked calling reserves
    Costs,          \* costs a masked call may be settled with
    MaxCrashes      \* bound on the requests that die half way

TopupRef(o)   == <<"topup", o>>
HoldRef(t)    == <<"mhold", t>>
ReleaseRef(t) == <<"mrel", t>>

ASSUME MoneyAssumption ==
    /\ Packs \subseteq Nat \ {0}
    /\ Costs \subseteq Nat
    /\ HoldPaise \in Nat \ {0}
    /\ MaxCrashes \in Nat
ASSUME CallsAssumption ==
    /\ \A o \in Orders : TopupRef(o) \in Refs
    /\ \A t \in Tokens : HoldRef(t) \in Refs /\ ReleaseRef(t) \in Refs
    /\ Packs \subseteq Amounts
    /\ -HoldPaise \in Amounts
    /\ \A c \in Costs : HoldPaise > c => HoldPaise - c \in Amounts

VARIABLES
    issued,     \* orders the provider has created
    captured,   \* orders whose payment the provider has captured
    acked,      \* orders whose webhook was answered 2xx
    orders,     \* payment_orders: [Orders -> row, or Null]
    req,        \* [Procs -> where the handler is]
    crashes     \* requests that have died so far

walletVars == <<issued, captured, acked, orders, req, crashes>>
vars == <<txnVars, walletVars>>

Row == [user: Users, amount: Packs, status: {"created", "paid"}]

\* SQL NULL is no row.
ASSUME NullOrderAssumption == Null \notin Row

Idle == [pc |-> "idle"]
Requests ==
         {Idle}
    \cup [pc: {"create_order"}, user: Users, amount: Packs]
    \cup [pc: {"insert_order"}, user: Users, amount: Packs, order: Orders]
    \cup [pc: {"mark_paid", "credit"}, via: {"verify", "webhook"},
          user: Users, order: Orders]
    \cup [pc: {"hold"}, user: Users, token: Tokens]
    \cup [pc: {"wallet"}]

TypeOK ==
    /\ TxnTypeOK
    /\ captured \subseteq issued /\ issued \subseteq Orders
    /\ acked \subseteq captured
    /\ orders \in [Orders -> Row \cup {Null}]
    /\ req \in [Procs -> Requests]
    /\ crashes \in 0 .. MaxCrashes

Init ==
    /\ TxnInit
    /\ issued = {} /\ captured = {} /\ acked = {}
    /\ orders = [o \in Orders |-> Null]
    /\ req = [p \in Procs |-> Idle]
    /\ crashes = 0

Goto(p, r) == req' = [req EXCEPT ![p] = r]

-----------------------------------------------------------------------------
(* createTopupOrder                                                        *)

TopupStart(p, u, amount) ==
    /\ req[p] = Idle
    /\ OpenWallet(u)
    /\ Goto(p, [pc |-> "create_order", user |-> u, amount |-> amount])
    /\ UNCHANGED <<issued, captured, acked, orders, crashes>>

\* payments.createOrder: the provider issues a fresh id ...
TopupCreateOrder(p, o) ==
    /\ req[p].pc = "create_order"
    /\ o \notin issued
    /\ issued' = issued \cup {o}
    /\ Goto(p, [pc |-> "insert_order", user |-> req[p].user,
                amount |-> req[p].amount, order |-> o])
    /\ UNCHANGED <<txnVars, captured, acked, orders, crashes>>

\* ... or refuses, and the request fails with nothing written.
TopupRefused(p) ==
    /\ req[p].pc = "create_order"
    /\ Goto(p, Idle)
    /\ UNCHANGED <<txnVars, issued, captured, acked, orders, crashes>>

\* (Mutant: the row stores the price in rupees.)
TopupInsertRupees(p) ==
    /\ req[p].pc = "insert_order"
    /\ orders' = [orders EXCEPT ![req[p].order] =
                    [user |-> req[p].user, amount |-> req[p].amount \div 100,
                     status |-> "created"]]
    /\ Goto(p, Idle)
    /\ UNCHANGED <<txnVars, issued, captured, acked, crashes>>

TopupInsertOrder(p) ==
    /\ req[p].pc = "insert_order"
    /\ orders' = [orders EXCEPT ![req[p].order] =
                    [user |-> req[p].user, amount |-> req[p].amount,
                     status |-> "created"]]
    /\ Goto(p, Idle)
    /\ UNCHANGED <<txnVars, issued, captured, acked, crashes>>

\* The customer pays an order the response told them about.
Pay(o) ==
    /\ orders[o] # Null
    /\ o \notin captured
    /\ captured' = captured \cup {o}
    /\ UNCHANGED <<txnVars, issued, acked, orders, req, crashes>>

-----------------------------------------------------------------------------
(* verifyTopup and handleWebhook: look the order up, mark it paid, credit. *)

\* (Mutant: whoever posts the signed payment is credited.)
VerifyStartAnyUser(p, u, o) ==
    /\ req[p] = Idle
    /\ o \in captured
    /\ orders[o] # Null
    /\ Goto(p, [pc |-> "mark_paid", via |-> "verify", user |-> u, order |-> o])
    /\ UNCHANGED <<txnVars, issued, captured, acked, orders, crashes>>

\* A valid signature exists only for a captured payment.  Anyone holding the
\* triple may post it: only the order's owner passes the check.
VerifyStart(p, u, o) ==
    /\ req[p] = Idle
    /\ o \in captured
    /\ orders[o] # Null /\ orders[o].user = u
    /\ Goto(p, [pc |-> "mark_paid", via |-> "verify", user |-> u, order |-> o])
    /\ UNCHANGED <<txnVars, issued, captured, acked, orders, crashes>>

WebhookStart(p, o) ==
    /\ req[p] = Idle
    /\ o \in captured
    /\ orders[o] # Null
    /\ Goto(p, [pc |-> "mark_paid", via |-> "webhook",
                user |-> orders[o].user, order |-> o])
    /\ UNCHANGED <<txnVars, issued, captured, acked, orders, crashes>>

\* (Mutant: an order found already paid is taken for credited.)
MarkPaidOnce(p) ==
    LET o == req[p].order
    IN  /\ req[p].pc = "mark_paid"
        /\ IF orders[o].status = "paid"
           THEN Goto(p, Idle) /\ UNCHANGED <<orders, txnVars>>
           ELSE /\ orders' = [orders EXCEPT ![o].status = "paid"]
                /\ BeginTxn(p, req[p].user, TopupRef(o), orders[o].amount)
                /\ req' = [req EXCEPT ![p].pc = "credit"]
        /\ UNCHANGED <<issued, captured, acked, crashes>>

\* markOrderPaid commits on its own; its result is not looked at, and the
\* credit's transaction is a separate one.
MarkPaid(p) ==
    LET o == req[p].order
    IN  /\ req[p].pc = "mark_paid"
        /\ orders' = [orders EXCEPT ![o].status = "paid"]
        /\ BeginTxn(p, req[p].user, TopupRef(o), orders[o].amount)
        /\ req' = [req EXCEPT ![p].pc = "credit"]
        /\ UNCHANGED <<issued, captured, acked, crashes>>

\* The response: 2xx for a fresh or a repeated credit, an error otherwise.
Respond(p) ==
    /\ EndTxn(p)
    /\ Goto(p, Idle)
    /\ acked' = IF /\ req[p].pc = "credit" /\ req[p].via = "webhook"
                   /\ tx[p].outcome \in {"applied", "replayed"}
                THEN acked \cup {req[p].order}
                ELSE acked
    /\ UNCHANGED <<issued, captured, orders, crashes>>

-----------------------------------------------------------------------------
(* hold and settleHold, as masked calling calls them.                      *)

\* A landing token is random: no other request ever carries it.
FreshToken(t) ==
    /\ ~RefTaken(HoldRef(t))
    /\ \A q \in Procs :
          /\ tx[q] # NoTxn => tx[q].ref # HoldRef(t)
          /\ req[q].pc = "hold" => req[q].token # t

HoldStart(p, u, t) ==
    /\ req[p] = Idle
    /\ FreshToken(t)
    /\ OpenWallet(u)
    /\ Goto(p, [pc |-> "hold", user |-> u, token |-> t])
    /\ UNCHANGED <<issued, captured, acked, orders, crashes>>

Hold(p) ==
    /\ req[p].pc = "hold"
    /\ BeginTxn(p, req[p].user, HoldRef(req[p].token), -HoldPaise)
    /\ Goto(p, [pc |-> "wallet"])
    /\ UNCHANGED <<issued, captured, acked, orders, crashes>>

Refund(held, cost) == IF held > cost THEN held - cost ELSE 0

\* A call may be settled several times, with costs measured independently; a
\* refund of zero returns before any transaction.
SettleHold(p, u, t, cost) ==
    /\ req[p] = Idle
    /\ HasPrior(u, HoldRef(t))
    /\ Refund(HoldPaise, cost) # 0
    /\ BeginTxn(p, u, ReleaseRef(t), Refund(HoldPaise, cost))
    /\ Goto(p, [pc |-> "wallet"])
    /\ UNCHANGED <<issued, captured, acked, orders, crashes>>

-----------------------------------------------------------------------------
\* The statements of a handler's applyTxn.
Wallet_TxnStep(p) == TxnStep(p) /\ UNCHANGED walletVars

\* (Mutant: a lost connection's row lock is never released.)
CrashKeepingLocks(p) ==
    /\ req[p] # Idle
    /\ crashes < MaxCrashes
    /\ crashes' = crashes + 1
    /\ Goto(p, Idle)
    /\ tx' = [tx EXCEPT ![p] = NoTxn]
    /\ UNCHANGED <<wallets, entries, rowLock, issued, captured, acked, orders>>

\* The request dies between two awaits: its transaction is rolled back, what
\* it had committed or caused outside stays.
Crash(p) ==
    /\ req[p] # Idle
    /\ crashes < MaxCrashes
    /\ crashes' = crashes + 1
    /\ Goto(p, Idle)
    /\ AbortTxn(p)
    /\ UNCHANGED <<issued, captured, acked, orders>>

HandlerStep(p) ==
    \/ \E o \in Orders : TopupCreateOrder(p, o)
    \/ TopupRefused(p)
    \/ TopupInsertOrder(p)
    \/ MarkPaid(p)
    \/ Hold(p)
    \/ Wallet_TxnStep(p)
    \/ Respond(p)

Next ==
    \/ \E o \in Orders : Pay(o)
    \/ \E p \in Procs :
          \/ HandlerStep(p)
          \/ Crash(p)
          \/ \E u \in Users :
                \/ \E amount \in Packs : TopupStart(p, u, amount)
                \/ \E o \in Orders : VerifyStart(p, u, o)
                \/ \E t \in Tokens :
                      \/ HoldStart(p, u, t)
                      \/ \E cost \in Costs : SettleHold(p, u, t, cost)
          \/ \E o \in Orders : WebhookStart(p, o)

Spec == Init /\ [][Next]_vars

(***************************************************************************)
(* A live handler runs to its response (and a waiter on a row lock that is *)
(* free again and again gets it: PostgreSQL queues waiters).  The provider *)
(* redelivers an event until it is acknowledged.  Nothing else is fair: no *)
(* customer has to pay, verify or call.                                    *)
(***************************************************************************)
Fairness ==
    /\ \A p \in Procs : SF_vars(HandlerStep(p))
    /\ \A o \in Orders :
          SF_vars(o \notin acked /\ \E p \in Procs : WebhookStart(p, o))

FairSpec == Spec /\ Fairness

-----------------------------------------------------------------------------
(* Properties.                                                             *)

\* The service only ever touches the wallet tables through applyTxn and
\* ensureWallet: what TxnSpec guarantees to its general caller holds here.
ImplementsTxn == TxnSpec

EntriesFor(ref) ==
    UNION {{[user |-> u, amount |-> entries[u][i].amount] :
               i \in {j \in DOMAIN entries[u] : entries[u][j].ref = ref}} :
           u \in Users}

Credited(o) == EntriesFor(TopupRef(o)) # {}

\* Money enters a wallet only against a captured payment: every credit of an
\* order went to the user who placed it, for the price of its pack, after the
\* order was marked paid, whoever posted the signed payment and whatever
\* raced (verifyTopup's owner check, handleWebhook).
CreditBacked ==
    \A o \in Orders : \A e \in EntriesFor(TopupRef(o)) :
        /\ o \in captured
        /\ orders[o] = [user |-> e.user, amount |-> e.amount, status |-> "paid"]

\* Where the rows of a reference are: the wallet and the place in it.
RowsFor(ref) ==
    UNION {{<<u, i>> : i \in {j \in DOMAIN entries[u] : entries[u][j].ref = ref}} :
           u \in Users}
AmountAt(row) == entries[row[1]][row[2]].amount

\* However often a call is settled, by whichever ends of it and with whatever
\* costs, there is one refund, after the hold and in the wallet that paid it,
\* and the two leave the caller at a cost between nothing and the hold.
RefundWithinHold ==
    \A t \in Tokens : \A refund \in RowsFor(ReleaseRef(t)) :
        /\ RowsFor(ReleaseRef(t)) = {refund}
        /\ \E hold \in RowsFor(HoldRef(t)) :
              /\ hold[1] = refund[1] /\ hold[2] < refund[2]
              /\ AmountAt(hold) + AmountAt(refund) \in -HoldPaise .. 0

\* A captured payment reaches the wallet even if the request that marked the
\* order paid died before its credit ("a webhook + client verify can both
\* fire"): the retry credits although it finds the order already paid.
CapturedIsCredited ==
    \A o \in Orders : o \in captured ~> Credited(o)

=============================================================================

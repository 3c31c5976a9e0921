------------------------------ MODULE Business ------------------------------
(***************************************************************************)
(* One business: its verification by admins, who are handed its API key    *)
(* once, and the counter QR its staff mint with the key for customers to   *)
(* subscribe to a channel.  Subscriptions and messages are module Delivery.*)
(***************************************************************************)
EXTENDS Requests

CONSTANT MaxKeys        \* bound on the API keys minted
ASSUME KeysAssumption == MaxKeys \in Nat

VARIABLES
    biz,        \* its row: status and the key whose hash it holds
    epoch,      \* rejections so far
    minted,     \* keys minted so far, which numbers the next
    toldKeys,   \* the keys admins were handed
    qr,         \* the counter QR in Redis: "none", "live", "gone"
    takers,     \* the customers it subscribed
    shared      \* two requests have read it before either deleted it

businessVars == <<biz, epoch, minted, toldKeys, qr, takers, shared>>

Key(n, e) == [n |-> n, epoch |-> e]
NoKey == Key(0, 0)

BusinessInit ==
    /\ biz = [status |-> "pending", key |-> NoKey]
    /\ epoch = 0 /\ minted = 0 /\ toldKeys = {}
    /\ qr = "none" /\ takers = {} /\ shared = FALSE

QrUnchanged == UNCHANGED <<qr, takers, shared>>

-----------------------------------------------------------------------------
\* verifyAndIssueKey: the row is read, whatever its status ...
VerifyBegins(p) ==
    /\ Enter(p, [op |-> "verify", at |-> "set", key |-> NoKey])
    /\ UNCHANGED businessVars

SetsKey(p) ==
    /\ minted < MaxKeys /\ minted' = minted + 1
    /\ biz' = [status |-> "verified", key |-> Key(minted + 1, epoch)]
    /\ req' = [req EXCEPT ![p].at = "log", ![p].key = Key(minted + 1, epoch)]
    /\ UNCHANGED deaths

\* (Mutant: whether or not it is verified.)
SetVerifiedAgain(p) ==
    /\ At(p, "verify", "set")
    /\ SetsKey(p)
    /\ UNCHANGED <<epoch, toldKeys>> /\ QrUnchanged

\* ... a fresh key is set unless the business is verified ...
SetVerified(p) ==
    /\ At(p, "verify", "set")
    /\ IF biz.status = "verified" THEN Finish(p) /\ UNCHANGED <<biz, minted>>
       ELSE SetsKey(p)
    /\ UNCHANGED <<epoch, toldKeys>> /\ QrUnchanged

\* ... the action is logged, and the reply carries the key.
HandOverKey(p) ==
    /\ At(p, "verify", "log")
    /\ toldKeys' = toldKeys \cup {req[p].key}
    /\ Finish(p)
    /\ UNCHANGED <<biz, epoch, minted>> /\ QrUnchanged

\* setRejected: from any status; the hash stays in the row.
RejectBusiness ==
    /\ epoch < MaxKeys /\ epoch' = epoch + 1
    /\ biz' = [biz EXCEPT !.status = "rejected"]
    /\ UNCHANGED <<minted, toldKeys, reqVars>> /\ QrUnchanged

\* requireBusiness: the key's hash is the row's, and the status verified.
Authenticates(k) == biz.status = "verified" /\ biz.key = k

\* mintCounterQr, by a request that was authenticated before.  Every mint has
\* a token of its own; the model follows the first.
MintCounterQr(p) ==
    /\ \/ /\ \E k \in toldKeys : Authenticates(k)
          /\ Enter(p, [op |-> "mint", at |-> "set"]) /\ UNCHANGED qr
       \/ At(p, "mint", "set") /\ qr' = (IF qr = "none" THEN "live" ELSE qr) /\ Finish(p)
    /\ UNCHANGED <<biz, epoch, minted, toldKeys, takers, shared>>

\* consumeCounterQr: GET ...
ReadCounterQr(p) ==
    /\ qr = "live"
    /\ \E u \in Users : Enter(p, [op |-> "redeem", at |-> "del", by |-> u])
    /\ UNCHANGED businessVars

\* (Mutant: the token is left for its time to live.)
DeleteCounterQrNever(p) ==
    /\ At(p, "redeem", "del")
    /\ Goto(p, "subscribe")
    /\ UNCHANGED businessVars

\* ... then DEL, which does not say whether there was a key to delete ...
DeleteCounterQr(p) ==
    /\ At(p, "redeem", "del")
    /\ qr' = "gone"
    /\ shared' = (shared \/ \E q \in Procs \ {p} : At(q, "redeem", "del"))
    /\ Goto(p, "subscribe")
    /\ UNCHANGED <<biz, epoch, minted, toldKeys, takers>>

\* ... and the subscription, unless the customer has blocked the business.
SubscribeCounterQr(p) ==
    /\ At(p, "redeem", "subscribe")
    /\ takers' \in {takers, takers \cup {req[p].by}}
    /\ Finish(p)
    /\ UNCHANGED <<biz, epoch, minted, toldKeys, qr, shared>>

CounterQrExpires ==
    /\ qr = "live" /\ qr' = "gone"
    /\ UNCHANGED <<biz, epoch, minted, toldKeys, takers, shared, reqVars>>

BusinessDie(p) == Die(p) /\ UNCHANGED businessVars

BusinessNext ==
    \/ \E p \in Procs :
          \/ VerifyBegins(p) \/ SetVerified(p) \/ HandOverKey(p) \/ MintCounterQr(p)
          \/ ReadCounterQr(p) \/ DeleteCounterQr(p) \/ SubscribeCounterQr(p) \/ BusinessDie(p)
    \/ RejectBusiness \/ CounterQrExpires

-----------------------------------------------------------------------------
BusinessTypeOK ==
    /\ biz.status \in {"pending", "verified", "rejected"}
    /\ {biz.key} \cup toldKeys \subseteq [n : 0..MaxKeys, epoch : 0..MaxKeys]
    /\ minted \in 0..MaxKeys /\ epoch \in 0..MaxKeys
    /\ qr \in {"none", "live", "gone"} /\ takers \subseteq Users /\ shared \in BOOLEAN

\* "The plaintext key is returned exactly once" and "a 60s single-use counter
\* QR".  A key an admin was handed opens the business until it is rejected, no
\* second verification replaces it; and a verified business has a key that was
\* or is being handed over, unless the verifying process died with it: nobody
\* can then use the business before it is rejected.  The QR subscribes one
\* customer; it is read and deleted in two steps, so that two requests that
\* read it together both get through.
HandedOutOnce ==
    /\ \A k \in toldKeys : biz.status = "verified" /\ k.epoch = epoch => Authenticates(k)
    /\ biz.status = "verified" =>
          \/ biz.key \in toldKeys
          \/ \E p \in Procs : At(p, "verify", "log") /\ req[p].key = biz.key
          \/ deaths > 0
    /\ Cardinality(takers) <= 1 \/ shared

=============================================================================

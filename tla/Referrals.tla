----------------------------- MODULE Referrals -----------------------------
(***************************************************************************)
(* Refer & Earn: applying a code credits pending rewards, the hourly worker*)
(* moves the referrer's reward to withdrawable, and a payout request sends *)
(* the money through the payout provider and then debits the wallet.       *)
(*                                                                         *)
(* A transaction of the repository is one action; the awaits between a     *)
(* service's read, its call to the provider and its transaction are        *)
(* interleaving points.  The ledger is kept as one total per user and      *)
(* entry type, which is all the balance snapshot can be compared with.     *)
(***************************************************************************)
EXTENDS Integers, FiniteSets

CONSTANTS
    Members,        \* users; every one of them has a referral code
    Callers,        \* API requests in flight
    Workers,        \* worker processes (two of them overlap in a rolling deploy)
    NoReferral,     \* no referrals row
    RewardPaise,    \* REFERRER_REWARD_PAISE
    BonusPaise,     \* REFEREE_BONUS_PAISE
    PayoutAmounts,  \* amounts asked for, none below MIN_PAYOUT_PAISE
    BatchSize,      \* referrals a scan loads (500)
    MaxSends,       \* bound on the payouts the provider is asked for
    MaxDeaths       \* bound on the requests that die half way

ASSUME ReferralBounds ==
    /\ RewardPaise \in Nat \ {0} /\ BonusPaise \in Nat \ {0}
    /\ PayoutAmounts \subseteq Nat \ {0}
    /\ BatchSize \in Nat \ {0}
    /\ MaxSends \in Nat /\ MaxDeaths \in Nat
    /\ IsFiniteSet(Members)
ASSUME NoReferralAssumption == NoReferral \notin [referrer: Members, status: {"qualifying", "qualified"}]

VARIABLES
    referrals,  \* [Members -> the row of which the member is referred_id]
    refWallet,  \* referral_wallets (a missing row reads as the default one)
    ledger,     \* referral_ledger: total by entry type
    genuine,    \* members who are active with trust_score >= 30
    batch,      \* [Workers -> referrals its scan has still to qualify]
    caller,     \* [Callers -> where the request is]
    answered,   \* payouts the provider has answered with, by member: their sum
    failed,     \* what of that it answered with status 'failed': money not sent
    paidRows,   \* sum of the payouts rows ('processing'), by member
    sends,
    deaths

payoutVars == <<answered, failed, sends>>
referralVars ==
    <<referrals, refWallet, ledger, genuine, batch, caller, payoutVars, paidRows, deaths>>

Referral == [referrer: Members, status: {"qualifying", "qualified"}]

EmptyWallet == [earned |-> 0, pending |-> 0, withdrawable |-> 0, unlocked |-> FALSE]
RefWallets  == [earned: Nat, pending: Nat, withdrawable: Nat, unlocked: BOOLEAN]

EmptyLedger == [bonus |-> 0, moved |-> 0, withdrawn |-> 0]

Free == [pc |-> "free"]

ReferralsInit ==
    /\ referrals = [m \in Members |-> NoReferral]
    /\ refWallet = [m \in Members |-> EmptyWallet]
    /\ ledger = [m \in Members |-> EmptyLedger]
    /\ genuine = {}
    /\ batch = [w \in Workers |-> {}]
    /\ caller = [k \in Callers |-> Free]
    /\ answered = [m \in Members |-> 0]
    /\ failed = [m \in Members |-> 0]
    /\ paidRows = [m \in Members |-> 0]
    /\ sends = 0
    /\ deaths = 0

Moves(k, state) == caller' = [caller EXCEPT ![k] = state]

-----------------------------------------------------------------------------
(* apply                                                                   *)

\* The code is somebody else's, and no referral of the member is found.
ApplyStart(k, member, referrer) ==
    /\ caller[k] = Free
    /\ referrer # member
    /\ referrals[member] = NoReferral
    /\ Moves(k, [pc |-> "apply", member |-> member, referrer |-> referrer])
    /\ UNCHANGED <<referrals, refWallet, ledger, genuine, batch, payoutVars,
                   paidRows, deaths>>

Earn(wallet, paise) ==
    [wallet EXCEPT !.earned = @ + paise, !.pending = @ + paise]

\* createReferralWithReward: one transaction; a referral another request
\* committed meanwhile wins (ON CONFLICT DO NOTHING on referred_id).
createReferralWithReward(k) ==
    LET member   == caller[k].member
        referrer == caller[k].referrer
    IN  /\ caller[k].pc = "apply"
        /\ IF referrals[member] # NoReferral
           THEN UNCHANGED <<referrals, refWallet, ledger>>
           ELSE /\ referrals' = [referrals EXCEPT ![member] =
                                   [referrer |-> referrer, status |-> "qualifying"]]
                /\ refWallet' = [refWallet EXCEPT
                                   ![referrer] = Earn(@, RewardPaise),
                                   ![member]   = Earn(@, BonusPaise)]
                /\ ledger' = [ledger EXCEPT
                                   ![referrer].bonus = @ + RewardPaise,
                                   ![member].bonus   = @ + BonusPaise]
        /\ Moves(k, Free)
        /\ UNCHANGED <<genuine, batch, payoutVars, paidRows, deaths>>

-----------------------------------------------------------------------------
(* The qualification scan.                                                 *)

\* (Mutant: the scan loads qualified referrals too.)
EligibleAnyStatus == {m \in genuine : referrals[m] # NoReferral}

Eligible == {m \in genuine : /\ referrals[m] # NoReferral
                             /\ referrals[m].status = "qualifying"}

\* LIMIT without an order: any BatchSize of the eligible referrals.
ScanStarts(w) ==
    /\ batch[w] = {}
    /\ \E chosen \in SUBSET Eligible :
          /\ chosen # {}
          /\ Cardinality(chosen) <= BatchSize
          /\ chosen # Eligible => Cardinality(chosen) = BatchSize
          /\ batch' = [batch EXCEPT ![w] = chosen]
    /\ UNCHANGED <<referrals, refWallet, ledger, genuine, caller, payoutVars,
                   paidRows, deaths>>

\* (Mutant: the reward stays pending as well.)
QualifiedStillPending(wallet) ==
    [wallet EXCEPT !.withdrawable = @ + RewardPaise, !.unlocked = TRUE]

Qualified(wallet) ==
    [wallet EXCEPT !.pending = IF @ >= RewardPaise THEN @ - RewardPaise ELSE 0,
                   !.withdrawable = @ + RewardPaise,
                   !.unlocked = TRUE]

\* (Mutant: the UPDATE does not look at the status.)
QualifyAnyStatus(m) ==
    /\ referrals[m] # NoReferral
    /\ LET referrer == referrals[m].referrer
       IN  /\ referrals' = [referrals EXCEPT ![m].status = "qualified"]
           /\ refWallet' = [refWallet EXCEPT ![referrer] = Qualified(@)]
           /\ ledger' = [ledger EXCEPT ![referrer].moved = @ + RewardPaise]

\* qualifyOne, and the API's qualifyReferral, which is the same transaction:
\* the status decides; the member's standing is not looked at again.
Qualify(m) ==
    /\ referrals[m] # NoReferral
    /\ IF referrals[m].status = "qualifying"
       THEN LET referrer == referrals[m].referrer
            IN  /\ referrals' = [referrals EXCEPT ![m].status = "qualified"]
                /\ refWallet' = [refWallet EXCEPT ![referrer] = Qualified(@)]
                /\ ledger' = [ledger EXCEPT ![referrer].moved = @ + RewardPaise]
       ELSE UNCHANGED <<referrals, refWallet, ledger>>

qualifyOne(w, m) ==
    /\ m \in batch[w]
    /\ Qualify(m)
    /\ batch' = [batch EXCEPT ![w] = @ \ {m}]
    /\ UNCHANGED <<genuine, caller, payoutVars, paidRows, deaths>>

\* The transaction throws: logged, and the scan goes on with the next one.
QualifyFails(w, m) ==
    /\ m \in batch[w]
    /\ batch' = [batch EXCEPT ![w] = @ \ {m}]
    /\ UNCHANGED <<referrals, refWallet, ledger, genuine, caller, payoutVars,
                   paidRows, deaths>>

\* Trust recomputation and moderation decide who counts as genuine.
StandingChanges(m) ==
    /\ genuine' = IF m \in genuine THEN genuine \ {m} ELSE genuine \cup {m}
    /\ UNCHANGED <<referrals, refWallet, ledger, batch, caller, payoutVars,
                   paidRows, deaths>>

-----------------------------------------------------------------------------
(* requestPayout                                                           *)

PayoutStart(k, m, amount) ==
    /\ caller[k] = Free
    /\ refWallet[m].unlocked
    /\ refWallet[m].withdrawable >= amount
    /\ Moves(k, [pc |-> "send", member |-> m, amount |-> amount])
    /\ UNCHANGED <<referrals, refWallet, ledger, genuine, batch, payoutVars,
                   paidRows, deaths>>

\* provider.createPayout: the idempotency key holds the time, so every request
\* is a payout of its own.  A payout answered with status 'failed' is one too:
\* requestPayout takes its reference and does not look at its status.
PayoutSend(k) ==
    LET m      == caller[k].member
        amount == caller[k].amount
    IN  /\ caller[k].pc = "send"
        /\ sends < MaxSends
        /\ sends' = sends + 1
        /\ answered' = [answered EXCEPT ![m] = @ + amount]
        /\ \/ UNCHANGED failed
           \/ failed' = [failed EXCEPT ![m] = @ + amount]
        /\ Moves(k, [caller[k] EXCEPT !.pc = "debit"])
        /\ UNCHANGED <<referrals, refWallet, ledger, genuine, batch, paidRows, deaths>>

\* (Mutant: an error of the provider is swallowed.)
PayoutRefusedIgnored(k) ==
    /\ caller[k].pc = "send"
    /\ Moves(k, [caller[k] EXCEPT !.pc = "debit"])
    /\ UNCHANGED <<referrals, refWallet, ledger, genuine, batch, payoutVars,
                   paidRows, deaths>>

\* The provider's call throws.
PayoutRefused(k) ==
    /\ caller[k].pc = "send"
    /\ Moves(k, Free)
    /\ UNCHANGED <<referrals, refWallet, ledger, genuine, batch, payoutVars,
                   paidRows, deaths>>

\* (Mutant: the debit trusts the balance requestPayout read.)
createPayoutUnconditional(k) ==
    LET m      == caller[k].member
        amount == caller[k].amount
    IN  /\ caller[k].pc = "debit"
        /\ refWallet' = [refWallet EXCEPT ![m].withdrawable = @ - amount]
        /\ paidRows' = [paidRows EXCEPT ![m] = @ + amount]
        /\ ledger' = [ledger EXCEPT ![m].withdrawn = @ + amount]
        /\ Moves(k, Free)
        /\ UNCHANGED <<referrals, genuine, batch, payoutVars, deaths>>

\* createPayout: the debit is conditional; when it finds too little the
\* request fails, and the money stays sent.
createPayout(k) ==
    LET m      == caller[k].member
        amount == caller[k].amount
    IN  /\ caller[k].pc = "debit"
        /\ IF refWallet[m].withdrawable >= amount
           THEN /\ refWallet' = [refWallet EXCEPT ![m].withdrawable = @ - amount]
                /\ paidRows' = [paidRows EXCEPT ![m] = @ + amount]
                /\ ledger' = [ledger EXCEPT ![m].withdrawn = @ + amount]
           ELSE UNCHANGED <<refWallet, paidRows, ledger>>
        /\ Moves(k, Free)
        /\ UNCHANGED <<referrals, genuine, batch, payoutVars, deaths>>

\* The transaction throws after the transfer (a method removed meanwhile breaks
\* its foreign key).
PayoutThrows(k) ==
    /\ caller[k].pc = "debit"
    /\ Moves(k, Free)
    /\ UNCHANGED <<referrals, refWallet, ledger, genuine, batch, payoutVars,
                   paidRows, deaths>>

-----------------------------------------------------------------------------
\* The request dies, or the provider's answer never arrives.
RequestLost(k) ==
    /\ caller[k] # Free
    /\ deaths < MaxDeaths
    /\ deaths' = deaths + 1
    /\ Moves(k, Free)
    /\ UNCHANGED <<referrals, refWallet, ledger, genuine, batch, payoutVars, paidRows>>

\* The worker dies between two referrals; the next scan starts afresh.
ScanDies(w) ==
    /\ batch[w] # {}
    /\ deaths < MaxDeaths
    /\ deaths' = deaths + 1
    /\ batch' = [batch EXCEPT ![w] = {}]
    /\ UNCHANGED <<referrals, refWallet, ledger, genuine, caller, payoutVars, paidRows>>

ReferralsNext ==
    \/ \E m \in Members : StandingChanges(m)
    \/ \E w \in Workers :
          \/ ScanStarts(w) \/ ScanDies(w)
          \/ \E m \in Members : qualifyOne(w, m) \/ QualifyFails(w, m)
    \/ \E k \in Callers :
          \/ createReferralWithReward(k)
          \/ PayoutSend(k) \/ PayoutRefused(k)
          \/ createPayout(k) \/ PayoutThrows(k)
          \/ RequestLost(k)
          \/ \E m \in Members :
                \/ \E r \in Members : ApplyStart(k, m, r)
                \/ \E amount \in PayoutAmounts : PayoutStart(k, m, amount)

ReferralsSpec == ReferralsInit /\ [][ReferralsNext]_referralVars

\* The scheduler keeps starting scans and a scan goes through its batch; a
\* transaction that is tried again and again succeeds in the end.
ReferralsFairness ==
    /\ \A w \in Workers : SF_referralVars(ScanStarts(w))
    /\ \A m \in Members : SF_referralVars(\E w \in Workers : qualifyOne(w, m))

FairReferralsSpec == ReferralsSpec /\ ReferralsFairness

-----------------------------------------------------------------------------
(* Properties.                                                             *)

ReferredBy(m) == {n \in Members : referrals[n] # NoReferral /\ referrals[n].referrer = m}
IsQualified(m) == referrals[m] # NoReferral /\ referrals[m].status = "qualified"
QualifiedBy(m) == {n \in ReferredBy(m) : IsQualified(n)}

\* The balance snapshot is what the ledger adds up to: nothing is lost or
\* invented on the way pending -> withdrawable -> payout, the GREATEST(0,..)
\* of the move never hides a shortfall, and no payout takes a balance below
\* zero (referral_wallets against referral_ledger).
SnapshotIsLedger ==
    \A m \in Members :
        /\ refWallet[m] \in RefWallets
        /\ refWallet[m].earned = ledger[m].bonus
        /\ refWallet[m].pending = ledger[m].bonus - ledger[m].moved
        /\ refWallet[m].withdrawable = ledger[m].moved - ledger[m].withdrawn

\* A member is referred once and each referral pays its referrer once, however
\* many requests apply a code and however many scans qualify the referral
\* (referred_id's unique index and the status guard).
PaidPerReferral ==
    \A m \in Members :
        /\ ledger[m].bonus = RewardPaise * Cardinality(ReferredBy(m))
                             + (IF referrals[m] = NoReferral THEN 0 ELSE BonusPaise)
        /\ ledger[m].moved = RewardPaise * Cardinality(QualifiedBy(m))
        /\ refWallet[m].unlocked <=> QualifiedBy(m) # {}

\* A payouts row exists only for a payout the provider has answered with, and
\* is matched by its debit: no row without an answer, no debit without a row,
\* although requests die, throw or find the balance gone in between.  It says
\* no more than that of the money: of what was answered, `failed` was not sent.
RowsAreAnsweredAndDebited ==
    \A m \in Members :
        /\ paidRows[m] <= answered[m]
        /\ paidRows[m] = ledger[m].withdrawn

\* A referral whose member stays genuine is qualified in the end, also when
\* more are eligible than one scan loads and scans die half way.
GenuineIsRewarded ==
    \A m \in Members :
        m \in Eligible ~> m \notin genuine \/ IsQualified(m)

Sent(m) == answered[m] - failed[m]

\* referrals.repository.ts on createPayout: it "throws (via the caller's
\* balance check) if funds are insufficient", so no more than what the member
\* had earned is ever sent.
SentIsEarned == \A m \in Members : Sent(m) <= ledger[m].moved

=============================================================================

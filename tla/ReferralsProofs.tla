-------------------------- MODULE ReferralsProofs --------------------------
(***************************************************************************)
(* Proofs about Refer & Earn for any number of members, requests, workers, *)
(* amounts, sends and deaths.                                              *)
(*                                                                         *)
(* The snapshot and the rewards are proved together: qualifying takes the  *)
(* reward from what is pending, and that it is there follows from counting *)
(* the referrals that have not qualified.  That payouts rows are covered   *)
(* by answers of the provider is not inductive by itself: between the      *)
(* answer and the debit a request owes it.  TransfersCovered carries the   *)
(* sum of what the requests owe, as a function on sets of requests, so     *)
(* that any number of them may be on their way.                            *)
(***************************************************************************)
EXTENDS Referrals, FiniteSetTheorems, TLAPS

\* What only a payout request changes is left alone together.
USE DEF payoutVars

-----------------------------------------------------------------------------
(* Types.                                                                  *)

\* Where a request can be: applying another member's code, or at one of the
\* two steps of a payout.
CallerStates ==
    {Free} \cup {s \in [pc: {"apply"}, member: Members, referrer: Members] : s.referrer # s.member}
           \cup [pc: {"send", "debit"}, member: Members, amount: PayoutAmounts]

\* The totals of a member, none negative.
Ledgers == [bonus: Nat, moved: Nat, withdrawn: Nat]

\* What the rows, requests and scans can hold.
ReferralTypeOK ==
    /\ referrals \in [Members -> Referral \cup {NoReferral}]
    /\ refWallet \in [Members -> RefWallets]
    /\ ledger \in [Members -> Ledgers]
    /\ genuine \subseteq Members
    /\ batch \in [Workers -> SUBSET Members]
    /\ caller \in [Callers -> CallerStates]
    /\ answered \in [Members -> Nat]
    /\ failed \in [Members -> Nat]
    /\ paidRows \in [Members -> Nat]
    /\ sends \in 0 .. MaxSends
    /\ deaths \in 0 .. MaxDeaths

-----------------------------------------------------------------------------
(* What a step writes.                                                     *)

\* What applying a code writes to the rows of the two members.
LEMMA RewardIsPosted ==
    ASSUME ReferralTypeOK, NEW r \in Members, NEW m \in Members, r # m,
           refWallet' = [refWallet EXCEPT ![r] = Earn(@, RewardPaise),
                                          ![m] = Earn(@, BonusPaise)],
           ledger' = [ledger EXCEPT ![r].bonus = @ + RewardPaise,
                                    ![m].bonus = @ + BonusPaise]
    PROVE  /\ refWallet' \in [Members -> RefWallets]
           /\ ledger' \in [Members -> Ledgers]
           /\ \A x \in Members :
                 LET paise == IF x = r THEN RewardPaise ELSE IF x = m THEN BonusPaise ELSE 0
                 IN  /\ refWallet'[x].earned = refWallet[x].earned + paise
                     /\ refWallet'[x].pending = refWallet[x].pending + paise
                     /\ refWallet'[x].withdrawable = refWallet[x].withdrawable
                     /\ refWallet'[x].unlocked = refWallet[x].unlocked
                     /\ ledger'[x].bonus = ledger[x].bonus + paise
                     /\ ledger'[x].moved = ledger[x].moved
                     /\ ledger'[x].withdrawn = ledger[x].withdrawn
<1>1. RewardPaise \in Nat /\ BonusPaise \in Nat
  BY ReferralBounds
<1>2. ASSUME NEW w \in RefWallets, NEW paise \in Nat
      PROVE  /\ Earn(w, paise) \in RefWallets
             /\ Earn(w, paise).earned = w.earned + paise
             /\ Earn(w, paise).pending = w.pending + paise
             /\ Earn(w, paise).withdrawable = w.withdrawable
             /\ Earn(w, paise).unlocked = w.unlocked
  <2>1. w.earned + paise \in Nat /\ w.pending + paise \in Nat
    BY DEF RefWallets
  <2>2. Earn(w, paise) \in RefWallets
    BY <2>1 DEF Earn, RefWallets
  <2>3. /\ Earn(w, paise).earned = w.earned + paise
        /\ Earn(w, paise).pending = w.pending + paise
        /\ Earn(w, paise).withdrawable = w.withdrawable
    BY DEF Earn, RefWallets
  <2>4. Earn(w, paise).unlocked = w.unlocked
    BY DEF Earn, RefWallets
  <2> QED BY <2>2, <2>3, <2>4
<1>3. refWallet \in [Members -> RefWallets] /\ ledger \in [Members -> Ledgers]
  BY DEF ReferralTypeOK
<1>4. /\ refWallet'[r] = Earn(refWallet[r], RewardPaise)
      /\ refWallet'[m] = Earn(refWallet[m], BonusPaise)
      /\ \A x \in Members \ {r, m} : refWallet'[x] = refWallet[x]
      /\ DOMAIN refWallet' = Members
      /\ refWallet' = [x \in Members |-> refWallet'[x]]
  BY <1>3
<1>5. /\ ledger'[r] = [ledger[r] EXCEPT !.bonus = ledger[r].bonus + RewardPaise]
      /\ ledger'[m] = [ledger[m] EXCEPT !.bonus = ledger[m].bonus + BonusPaise]
      /\ \A x \in Members \ {r, m} : ledger'[x] = ledger[x]
      /\ ledger' = [x \in Members |-> ledger'[x]]
  BY <1>3
<1> DEFINE Posts(x, paise) ==
              /\ refWallet'[x] \in RefWallets /\ ledger'[x] \in Ledgers
              /\ refWallet'[x].earned = refWallet[x].earned + paise
              /\ refWallet'[x].pending = refWallet[x].pending + paise
              /\ refWallet'[x].withdrawable = refWallet[x].withdrawable
              /\ refWallet'[x].unlocked = refWallet[x].unlocked
              /\ ledger'[x].bonus = ledger[x].bonus + paise
              /\ ledger'[x].moved = ledger[x].moved
              /\ ledger'[x].withdrawn = ledger[x].withdrawn
<1>6. ASSUME NEW x \in Members, NEW paise \in Nat,
             refWallet'[x] = Earn(refWallet[x], paise),
             ledger'[x] = [ledger[x] EXCEPT !.bonus = ledger[x].bonus + paise]
      PROVE  Posts(x, paise)
  <2>1. refWallet[x] \in RefWallets /\ ledger[x] \in Ledgers
    BY <1>3
  <2>2. /\ refWallet'[x] \in RefWallets
        /\ refWallet'[x].earned = refWallet[x].earned + paise
        /\ refWallet'[x].pending = refWallet[x].pending + paise
        /\ refWallet'[x].withdrawable = refWallet[x].withdrawable
    BY <1>2, <1>6, <2>1
  <2>3. refWallet'[x].unlocked = refWallet[x].unlocked
    BY <1>2, <1>6, <2>1
  <2>4. /\ ledger'[x] \in Ledgers
        /\ ledger'[x].bonus = ledger[x].bonus + paise
        /\ ledger'[x].moved = ledger[x].moved
        /\ ledger'[x].withdrawn = ledger[x].withdrawn
    <3> DEFINE l == ledger[x]
    <3>1. l \in Ledgers /\ ledger'[x] = [l EXCEPT !.bonus = l.bonus + paise]
      BY <1>6, <2>1
    <3> HIDE DEF l
    <3>2. /\ ledger'[x] \in Ledgers
          /\ ledger'[x].bonus = l.bonus + paise
          /\ ledger'[x].moved = l.moved
          /\ ledger'[x].withdrawn = l.withdrawn
      BY <3>1 DEF Ledgers
    <3> QED BY <3>2 DEF l
  <2> QED BY <2>2, <2>3, <2>4
<1>7. ASSUME NEW x \in Members \ {r, m}
      PROVE  Posts(x, 0)
  <2>1. refWallet'[x] = refWallet[x] /\ ledger'[x] = ledger[x]
    BY <1>4, <1>5
  <2>2. refWallet[x] \in RefWallets /\ ledger[x] \in Ledgers
    BY <1>3
  <2> QED BY <2>1, <2>2 DEF RefWallets, Ledgers
<1>8. Posts(r, RewardPaise) /\ Posts(m, BonusPaise)
  <2> HIDE DEF Posts
  <2> QED BY <1>1, <1>4, <1>5, <1>6
<1>9. ASSUME NEW x \in Members
       PROVE  Posts(x, IF x = r THEN RewardPaise ELSE IF x = m THEN BonusPaise ELSE 0)
  <2> HIDE DEF Posts
  <2> QED BY <1>7, <1>8
<1>10. refWallet' \in [Members -> RefWallets] /\ ledger' \in [Members -> Ledgers]
  BY <1>4, <1>5, <1>9
<1> QED BY <1>9, <1>10

\* What qualifying writes to the rows of the referrer, who has the reward
\* pending.
LEMMA RewardIsMoved ==
    ASSUME ReferralTypeOK, NEW r \in Members,
           refWallet[r].pending >= RewardPaise,
           refWallet' = [refWallet EXCEPT ![r] = Qualified(@)],
           ledger' = [ledger EXCEPT ![r].moved = @ + RewardPaise]
    PROVE  /\ refWallet' \in [Members -> RefWallets]
           /\ ledger' \in [Members -> Ledgers]
           /\ \A x \in Members \ {r} : refWallet'[x] = refWallet[x] /\ ledger'[x] = ledger[x]
           /\ refWallet'[r].earned = refWallet[r].earned
           /\ refWallet'[r].pending = refWallet[r].pending - RewardPaise
           /\ refWallet'[r].withdrawable = refWallet[r].withdrawable + RewardPaise
           /\ refWallet'[r].unlocked = TRUE
           /\ ledger'[r].bonus = ledger[r].bonus
           /\ ledger'[r].moved = ledger[r].moved + RewardPaise
           /\ ledger'[r].withdrawn = ledger[r].withdrawn
<1>1. RewardPaise \in Nat
  BY ReferralBounds
<1>2. refWallet \in [Members -> RefWallets] /\ ledger \in [Members -> Ledgers]
  BY DEF ReferralTypeOK
<1>3. refWallet[r] \in RefWallets /\ ledger[r] \in Ledgers
  BY <1>2
<1>4. refWallet'[r] = Qualified(refWallet[r])
  BY <1>2
<1>5. /\ refWallet[r].earned \in Nat /\ refWallet[r].pending - RewardPaise \in Nat
      /\ refWallet[r].withdrawable + RewardPaise \in Nat
  BY <1>1, <1>3 DEF RefWallets
<1>6. /\ refWallet'[r] \in RefWallets
      /\ refWallet'[r].earned = refWallet[r].earned
      /\ refWallet'[r].pending = refWallet[r].pending - RewardPaise
      /\ refWallet'[r].withdrawable = refWallet[r].withdrawable + RewardPaise
      /\ refWallet'[r].unlocked = TRUE
  <2> DEFINE w == refWallet[r]
  <2>1. w \in RefWallets /\ refWallet'[r] = Qualified(w) /\ w.pending >= RewardPaise
    BY <1>3, <1>4
  <2> HIDE DEF w
  <2>2. refWallet'[r] = [w EXCEPT !.pending = w.pending - RewardPaise,
                                  !.withdrawable = w.withdrawable + RewardPaise,
                                  !.unlocked = TRUE]
    BY <2>1 DEF Qualified
  <2>3. /\ refWallet'[r].earned = w.earned
        /\ refWallet'[r].pending = w.pending - RewardPaise
        /\ refWallet'[r].withdrawable = w.withdrawable + RewardPaise
    BY <2>1, <2>2 DEF RefWallets
  <2>4. refWallet'[r].unlocked = TRUE
    BY <2>1, <2>2 DEF RefWallets
  <2>5. refWallet'[r] \in RefWallets
    <3>1. \A a \in Nat, b \in Nat :
             [w EXCEPT !.pending = a, !.withdrawable = b, !.unlocked = TRUE] \in RefWallets
      BY <2>1 DEF RefWallets
    <3> QED BY <1>5, <2>2, <3>1 DEF w
  <2> QED BY <2>3, <2>4, <2>5 DEF w
<1>7. ledger'[r] = [bonus |-> ledger[r].bonus, moved |-> ledger[r].moved + RewardPaise,
                    withdrawn |-> ledger[r].withdrawn]
  <2>1. [ledger[r] EXCEPT !.moved = ledger[r].moved + RewardPaise]
           = [bonus |-> ledger[r].bonus, moved |-> ledger[r].moved + RewardPaise,
              withdrawn |-> ledger[r].withdrawn]
    BY <1>3 DEF Ledgers
  <2>2. ledger'[r] = [ledger[r] EXCEPT !.moved = ledger[r].moved + RewardPaise]
    BY <1>2
  <2> QED BY <2>1, <2>2
<1>8. /\ ledger'[r] \in Ledgers
      /\ ledger'[r].bonus = ledger[r].bonus
      /\ ledger'[r].moved = ledger[r].moved + RewardPaise
      /\ ledger'[r].withdrawn = ledger[r].withdrawn
  BY <1>1, <1>3, <1>7 DEF Ledgers
<1>9. \A x \in Members \ {r} : refWallet'[x] = refWallet[x] /\ ledger'[x] = ledger[x]
  BY <1>2
<1>10. refWallet' \in [Members -> RefWallets]
  BY <1>2, <1>6
<1>11. ledger' \in [Members -> Ledgers]
  <2>1. ledger' = [x \in Members |-> ledger'[x]]
    BY <1>2
  <2> QED BY <1>2, <1>8, <1>9, <2>1
<1> QED BY <1>6, <1>8, <1>9, <1>10, <1>11

\* What a payout row's transaction writes to the rows of its member.
LEMMA PayoutIsDebited ==
    ASSUME ReferralTypeOK, NEW m \in Members, NEW amount \in Nat,
           refWallet[m].withdrawable >= amount,
           refWallet' = [refWallet EXCEPT ![m].withdrawable = @ - amount],
           paidRows' = [paidRows EXCEPT ![m] = @ + amount],
           ledger' = [ledger EXCEPT ![m].withdrawn = @ + amount]
    PROVE  /\ refWallet' \in [Members -> RefWallets]
           /\ ledger' \in [Members -> Ledgers]
           /\ paidRows' \in [Members -> Nat]
           /\ \A x \in Members \ {m} : /\ refWallet'[x] = refWallet[x]
                                       /\ ledger'[x] = ledger[x]
                                       /\ paidRows'[x] = paidRows[x]
           /\ refWallet'[m].earned = refWallet[m].earned
           /\ refWallet'[m].pending = refWallet[m].pending
           /\ refWallet'[m].withdrawable = refWallet[m].withdrawable - amount
           /\ refWallet'[m].unlocked = refWallet[m].unlocked
           /\ ledger'[m].bonus = ledger[m].bonus
           /\ ledger'[m].moved = ledger[m].moved
           /\ ledger'[m].withdrawn = ledger[m].withdrawn + amount
           /\ paidRows'[m] = paidRows[m] + amount
<1>1. /\ refWallet \in [Members -> RefWallets] /\ ledger \in [Members -> Ledgers]
      /\ paidRows \in [Members -> Nat]
  BY DEF ReferralTypeOK
<1>2. refWallet[m] \in RefWallets /\ ledger[m] \in Ledgers
  BY <1>1
<1>3. refWallet'[m] = [refWallet[m] EXCEPT !.withdrawable = refWallet[m].withdrawable - amount]
  BY <1>1
<1>4. ledger'[m] = [ledger[m] EXCEPT !.withdrawn = ledger[m].withdrawn + amount]
  BY <1>1
<1>5. /\ refWallet'[m] \in RefWallets
      /\ refWallet'[m].earned = refWallet[m].earned
      /\ refWallet'[m].pending = refWallet[m].pending
      /\ refWallet'[m].withdrawable = refWallet[m].withdrawable - amount
      /\ refWallet'[m].unlocked = refWallet[m].unlocked
  BY <1>2, <1>3 DEF RefWallets
<1>6. /\ ledger'[m] \in Ledgers
      /\ ledger'[m].bonus = ledger[m].bonus
      /\ ledger'[m].moved = ledger[m].moved
      /\ ledger'[m].withdrawn = ledger[m].withdrawn + amount
  BY <1>2, <1>4 DEF Ledgers
<1>7. /\ \A x \in Members \ {m} : /\ refWallet'[x] = refWallet[x]
                                  /\ ledger'[x] = ledger[x]
                                  /\ paidRows'[x] = paidRows[x]
      /\ paidRows' \in [Members -> Nat] /\ paidRows'[m] = paidRows[m] + amount
  BY <1>1
<1>8. refWallet' \in [Members -> RefWallets]
  <2>1. refWallet' = [x \in Members |-> refWallet'[x]]
    BY <1>1
  <2> QED BY <1>1, <1>5, <1>7, <2>1
<1>9. ledger' \in [Members -> Ledgers]
  <2>1. ledger' = [x \in Members |-> ledger'[x]]
    BY <1>1
  <2> QED BY <1>1, <1>6, <1>7, <2>1
<1> QED BY <1>5, <1>6, <1>7, <1>8, <1>9

-----------------------------------------------------------------------------
(* The inductive invariant.                                                *)

\* What each request has had answered for m without having debited it.
Transferred(m) ==
    [k \in Callers |-> IF caller[k].pc = "debit" /\ caller[k].member = m
                       THEN caller[k].amount ELSE 0]

\* total[K] is the sum of f over K, for every set K of requests.
IsSum(total, f) ==
    /\ total \in [SUBSET Callers -> Nat]
    /\ total[{}] = 0
    /\ \A K \in SUBSET Callers : \A k \in Callers \ K : total[K \cup {k}] = total[K] + f[k]

\* What was answered covers the payouts rows and the debits still to come.
TransfersCovered ==
    \A m \in Members :
        \E total : IsSum(total, Transferred(m)) /\ paidRows[m] + total[Callers] <= answered[m]

\* A payouts row stands for a debit of the ledger.
RowsAreDebited == \A m \in Members : paidRows[m] = ledger[m].withdrawn

ReferralInv ==
    /\ ReferralTypeOK
    /\ SnapshotIsLedger
    /\ PaidPerReferral
    /\ TransfersCovered
    /\ RowsAreDebited

-----------------------------------------------------------------------------
(* What a step may be.                                                     *)

\* A code is applied for the first time.
Rewards(k) ==
    LET m == caller[k].member
        r == caller[k].referrer
    IN  /\ caller[k].pc = "apply" /\ referrals[m] = NoReferral
        /\ referrals' = [referrals EXCEPT ![m] = [referrer |-> r, status |-> "qualifying"]]
        /\ refWallet' = [refWallet EXCEPT ![r] = Earn(@, RewardPaise),
                                          ![m] = Earn(@, BonusPaise)]
        /\ ledger' = [ledger EXCEPT ![r].bonus = @ + RewardPaise,
                                    ![m].bonus = @ + BonusPaise]
        /\ UNCHANGED paidRows

\* A referral qualifies.
Qualifies(m) ==
    LET r == referrals[m].referrer
    IN  /\ referrals[m] # NoReferral /\ referrals[m].status = "qualifying"
        /\ referrals' = [referrals EXCEPT ![m].status = "qualified"]
        /\ refWallet' = [refWallet EXCEPT ![r] = Qualified(@)]
        /\ ledger' = [ledger EXCEPT ![r].moved = @ + RewardPaise]
        /\ UNCHANGED paidRows

\* A payouts row is inserted with its debit.
Debits(k) ==
    LET m      == caller[k].member
        amount == caller[k].amount
    IN  /\ caller[k].pc = "debit" /\ refWallet[m].withdrawable >= amount
        /\ refWallet' = [refWallet EXCEPT ![m].withdrawable = @ - amount]
        /\ paidRows' = [paidRows EXCEPT ![m] = @ + amount]
        /\ ledger' = [ledger EXCEPT ![m].withdrawn = @ + amount]
        /\ UNCHANGED referrals

\* Every step leaves the money rows alone or is one of these three.
LEMMA RowSteps ==
    ASSUME [ReferralsNext]_referralVars
    PROVE  \/ UNCHANGED <<referrals, refWallet, ledger, paidRows>>
           \/ \E k \in Callers : Rewards(k)
           \/ \E m \in Members : Qualifies(m)
           \/ \E k \in Callers : Debits(k)
<1>1. ASSUME NEW k \in Callers, createReferralWithReward(k)
      PROVE  UNCHANGED <<referrals, refWallet, ledger, paidRows>> \/ Rewards(k)
  BY <1>1 DEF createReferralWithReward, Rewards
<1>2. ASSUME NEW w \in Workers, NEW m \in Members, qualifyOne(w, m)
      PROVE  UNCHANGED <<referrals, refWallet, ledger, paidRows>> \/ Qualifies(m)
  BY <1>2 DEF qualifyOne, Qualify, Qualifies
<1>3. ASSUME NEW k \in Callers, createPayout(k)
      PROVE  UNCHANGED <<referrals, refWallet, ledger, paidRows>> \/ Debits(k)
  BY <1>3 DEF createPayout, Debits
<1> QED
  BY <1>1, <1>2, <1>3
  DEF ReferralsNext, StandingChanges, ScanStarts, ScanDies, QualifyFails, PayoutSend,
      PayoutRefused, PayoutThrows, RequestLost, ApplyStart, PayoutStart, referralVars

\* A request carries the fields its step reads.
LEMMA CallerKinds ==
    ASSUME ReferralTypeOK, NEW k \in Callers
    PROVE  /\ caller[k].pc = "apply" =>
                 /\ caller[k].member \in Members /\ caller[k].referrer \in Members
                 /\ caller[k].referrer # caller[k].member
           /\ caller[k].pc \in {"send", "debit"} =>
                 /\ caller[k] \in [pc: {"send", "debit"}, member: Members, amount: PayoutAmounts]
                 /\ caller[k].member \in Members /\ caller[k].amount \in PayoutAmounts
                 /\ caller[k].amount \in Nat
<1>1. caller[k] \in CallerStates
  BY DEF ReferralTypeOK
<1>2. PayoutAmounts \subseteq Nat
  BY ReferralBounds
<1>3. CASE caller[k] = Free
  BY <1>3 DEF Free
<1>4. CASE caller[k] \in [pc: {"apply"}, member: Members, referrer: Members]
           /\ caller[k].referrer # caller[k].member
  <2>1. caller[k].pc = "apply" /\ caller[k].member \in Members /\ caller[k].referrer \in Members
    BY <1>4
  <2> QED BY <1>4, <2>1
<1>5. CASE caller[k] \in [pc: {"send", "debit"}, member: Members, amount: PayoutAmounts]
  <2>1. /\ caller[k].pc # "apply" /\ caller[k].member \in Members
        /\ caller[k].amount \in PayoutAmounts
    BY <1>5
  <2> QED BY <1>2, <1>5, <2>1
<1> QED BY <1>1, <1>3, <1>4, <1>5 DEF CallerStates

\* The members a code brought in, and those of them who qualified, are counted.
LEMMA CountsAreNumbers ==
    ASSUME NEW m
    PROVE  /\ IsFiniteSet(ReferredBy(m)) /\ IsFiniteSet(QualifiedBy(m))
           /\ Cardinality(ReferredBy(m)) \in Nat /\ Cardinality(QualifiedBy(m)) \in Nat
           /\ QualifiedBy(m) # ReferredBy(m) =>
                 Cardinality(QualifiedBy(m)) < Cardinality(ReferredBy(m))
<1>1. IsFiniteSet(Members) /\ ReferredBy(m) \subseteq Members
      /\ QualifiedBy(m) \subseteq ReferredBy(m)
  BY ReferralBounds DEF ReferredBy, QualifiedBy
<1>2. IsFiniteSet(ReferredBy(m)) /\ IsFiniteSet(QualifiedBy(m))
  BY <1>1, FS_Subset
<1> QED BY <1>1, <1>2, FS_Subset, FS_CardinalityType

\* One more of them is one more reward.
LEMMA OneMoreReward ==
    ASSUME NEW n \in Nat
    PROVE  /\ RewardPaise * n \in Nat
           /\ RewardPaise * (n + 1) = RewardPaise * n + RewardPaise
           /\ \A b \in Nat : n < b => RewardPaise * b - RewardPaise * n >= RewardPaise
<1>1. RewardPaise \in Nat
  BY ReferralBounds
<1>2. \A a, i \in Nat : a * i \in Nat /\ a * (i + 1) = a * i + a
  OBVIOUS
<1>3. \A a, i, d \in Nat : a * (i + 1 + d) = a * i + a + a * d
  OBVIOUS
<1>4. ASSUME NEW b \in Nat, n < b
      PROVE  RewardPaise * b - RewardPaise * n >= RewardPaise
  <2>1. b - n - 1 \in Nat /\ b = n + 1 + (b - n - 1)
    BY <1>4
  <2>2. RewardPaise * b = RewardPaise * n + RewardPaise + RewardPaise * (b - n - 1)
    BY <1>1, <1>3, <2>1
  <2>3. /\ RewardPaise * (b - n - 1) \in Nat /\ RewardPaise * n \in Nat
        /\ RewardPaise * b \in Nat
    BY <1>1, <1>2, <2>1
  <2> QED BY <1>1, <2>2, <2>3
<1> QED BY <1>1, <1>2, <1>4

\* The reward of a referral that has still to qualify is pending.
LEMMA RewardIsPending ==
    ASSUME ReferralTypeOK, SnapshotIsLedger, PaidPerReferral,
           NEW m \in Members, referrals[m] # NoReferral, referrals[m].status = "qualifying"
    PROVE  LET r == referrals[m].referrer
           IN  r \in Members /\ refWallet[r].pending >= RewardPaise
<1> DEFINE r == referrals[m].referrer
           b == Cardinality(ReferredBy(r))
           q == Cardinality(QualifiedBy(r))
<1>1. r \in Members
  BY DEF ReferralTypeOK, Referral
<1>2. m \in ReferredBy(r) /\ m \notin QualifiedBy(r)
  BY DEF ReferredBy, QualifiedBy, IsQualified
<1>3. b \in Nat /\ q \in Nat /\ q < b
  BY <1>2, CountsAreNumbers
<1>4. RewardPaise * b - RewardPaise * q >= RewardPaise
  BY <1>3, OneMoreReward
<1>5. RewardPaise * b \in Nat /\ RewardPaise * q \in Nat /\ RewardPaise \in Nat /\ BonusPaise \in Nat
  BY <1>3, OneMoreReward, ReferralBounds
<1>6. /\ refWallet[r].pending = ledger[r].bonus - ledger[r].moved
      /\ ledger[r].moved = RewardPaise * q
      /\ \/ ledger[r].bonus = RewardPaise * b
         \/ ledger[r].bonus = RewardPaise * b + BonusPaise
  <2>1. ledger[r].bonus = RewardPaise * b + (IF referrals[r] = NoReferral THEN 0 ELSE BonusPaise)
    BY <1>1 DEF PaidPerReferral
  <2>2. ledger[r].moved = RewardPaise * q /\ refWallet[r].pending = ledger[r].bonus - ledger[r].moved
    BY <1>1 DEF PaidPerReferral, SnapshotIsLedger
  <2> QED BY <1>5, <2>1, <2>2
<1> HIDE DEF b, q
<1>7. refWallet[r].pending >= RewardPaise
  BY <1>4, <1>5, <1>6
<1> QED BY <1>1, <1>7

\* A reward or a debit moves the snapshot and the ledger by the same amounts.
LEMMA SnapshotStep ==
    ASSUME ReferralTypeOK, SnapshotIsLedger, PaidPerReferral, [ReferralsNext]_referralVars
    PROVE  /\ SnapshotIsLedger'
           /\ refWallet' \in [Members -> RefWallets] /\ ledger' \in [Members -> Ledgers]
<1> DEFINE Goal == /\ SnapshotIsLedger'
                   /\ refWallet' \in [Members -> RefWallets]
                   /\ ledger' \in [Members -> Ledgers]
           Same(x) == refWallet'[x] = refWallet[x] /\ ledger'[x] = ledger[x]
           Agrees(x) == /\ refWallet'[x].earned = ledger'[x].bonus
                        /\ refWallet'[x].pending = ledger'[x].bonus - ledger'[x].moved
                        /\ refWallet'[x].withdrawable = ledger'[x].moved - ledger'[x].withdrawn
<1> SUFFICES Goal
  OBVIOUS
<1>1. /\ refWallet \in [Members -> RefWallets] /\ ledger \in [Members -> Ledgers]
      /\ RewardPaise \in Nat /\ BonusPaise \in Nat
  BY ReferralBounds DEF ReferralTypeOK
<1>2. ASSUME refWallet' \in [Members -> RefWallets], ledger' \in [Members -> Ledgers],
             \A x \in Members : Same(x) \/ Agrees(x)
      PROVE  Goal
  BY <1>2 DEF SnapshotIsLedger
<1>3. ASSUME NEW x \in Members
      PROVE  /\ ledger[x].bonus \in Nat /\ ledger[x].moved \in Nat /\ ledger[x].withdrawn \in Nat
             /\ refWallet[x].earned = ledger[x].bonus
             /\ refWallet[x].pending = ledger[x].bonus - ledger[x].moved
             /\ refWallet[x].withdrawable = ledger[x].moved - ledger[x].withdrawn
  <2>1. ledger[x] \in Ledgers
    BY <1>1
  <2> QED BY <2>1 DEF Ledgers, SnapshotIsLedger
<1>4. CASE UNCHANGED <<referrals, refWallet, ledger, paidRows>>
  BY <1>1, <1>2, <1>4
<1>5. ASSUME NEW k \in Callers, Rewards(k)
      PROVE  Goal
  <2> DEFINE m == caller[k].member
             r == caller[k].referrer
             paise(x) == IF x = r THEN RewardPaise ELSE IF x = m THEN BonusPaise ELSE 0
  <2>1. m \in Members /\ r \in Members /\ r # m
    BY <1>5, CallerKinds DEF Rewards
  <2>2. /\ refWallet' \in [Members -> RefWallets] /\ ledger' \in [Members -> Ledgers]
        /\ \A x \in Members :
                     /\ refWallet'[x].earned = refWallet[x].earned + paise(x)
                     /\ refWallet'[x].pending = refWallet[x].pending + paise(x)
                     /\ refWallet'[x].withdrawable = refWallet[x].withdrawable
                     /\ ledger'[x].bonus = ledger[x].bonus + paise(x)
                     /\ ledger'[x].moved = ledger[x].moved
                     /\ ledger'[x].withdrawn = ledger[x].withdrawn
    <3>1. /\ refWallet' = [refWallet EXCEPT ![r] = Earn(@, RewardPaise),
                                            ![m] = Earn(@, BonusPaise)]
          /\ ledger' = [ledger EXCEPT ![r].bonus = @ + RewardPaise,
                                      ![m].bonus = @ + BonusPaise]
      BY <1>5 DEF Rewards
    <3> HIDE DEF m, r
    <3> QED BY <2>1, <3>1, RewardIsPosted
  <2>3. \A x \in Members : paise(x) \in Nat
    BY <1>1
  <2> HIDE DEF paise
  <2>4. ASSUME NEW x \in Members PROVE Agrees(x)
    BY <1>3, <2>2, <2>3
  <2> QED BY <1>2, <2>2, <2>4
<1>6. ASSUME NEW m \in Members, Qualifies(m)
      PROVE  Goal
  <2> DEFINE r == referrals[m].referrer
  <2>1. r \in Members /\ refWallet[r].pending >= RewardPaise
    BY <1>6, RewardIsPending DEF Qualifies
  <2>2. /\ refWallet' = [refWallet EXCEPT ![r] = Qualified(@)]
        /\ ledger' = [ledger EXCEPT ![r].moved = @ + RewardPaise]
    BY <1>6 DEF Qualifies
  <2> HIDE DEF r
  <2>3. /\ refWallet' \in [Members -> RefWallets]
        /\ ledger' \in [Members -> Ledgers]
        /\ \A x \in Members \ {r} : refWallet'[x] = refWallet[x] /\ ledger'[x] = ledger[x]
        /\ refWallet'[r].earned = refWallet[r].earned
        /\ refWallet'[r].pending = refWallet[r].pending - RewardPaise
        /\ refWallet'[r].withdrawable = refWallet[r].withdrawable + RewardPaise
        /\ ledger'[r].bonus = ledger[r].bonus
        /\ ledger'[r].moved = ledger[r].moved + RewardPaise
        /\ ledger'[r].withdrawn = ledger[r].withdrawn
    BY <2>1, <2>2, RewardIsMoved
  <2>4. Agrees(r)
    BY <1>1, <1>3, <2>1, <2>3
  <2> QED BY <1>2, <2>3, <2>4
<1>7. ASSUME NEW k \in Callers, Debits(k)
      PROVE  Goal
  <2> DEFINE m == caller[k].member
             amount == caller[k].amount
  <2>1. m \in Members /\ amount \in Nat
    BY <1>7, CallerKinds DEF Debits
  <2>2. /\ refWallet[m].withdrawable >= amount
        /\ refWallet' = [refWallet EXCEPT ![m].withdrawable = @ - amount]
        /\ paidRows' = [paidRows EXCEPT ![m] = @ + amount]
        /\ ledger' = [ledger EXCEPT ![m].withdrawn = @ + amount]
    BY <1>7 DEF Debits
  <2> HIDE DEF m, amount
  <2>3. /\ refWallet' \in [Members -> RefWallets]
        /\ ledger' \in [Members -> Ledgers]
        /\ \A x \in Members \ {m} : refWallet'[x] = refWallet[x] /\ ledger'[x] = ledger[x]
        /\ refWallet'[m].earned = refWallet[m].earned
        /\ refWallet'[m].pending = refWallet[m].pending
        /\ refWallet'[m].withdrawable = refWallet[m].withdrawable - amount
        /\ ledger'[m].bonus = ledger[m].bonus
        /\ ledger'[m].moved = ledger[m].moved
        /\ ledger'[m].withdrawn = ledger[m].withdrawn + amount
    BY <2>1, <2>2, PayoutIsDebited
  <2>4. Agrees(m)
    BY <1>3, <2>1, <2>3
  <2> QED BY <1>2, <2>3, <2>4
<1> HIDE DEF Goal
<1> QED BY <1>4, <1>5, <1>6, <1>7, RowSteps

\* Whom a code brought in, and who of them qualified, changes by one member
\* at most.
LEMMA ReferredMoves ==
    ASSUME ReferralTypeOK, NEW m \in Members, NEW r \in Members,
           NEW status \in {"qualifying", "qualified"},
           referrals' = [referrals EXCEPT ![m] = [referrer |-> r, status |-> status]],
           referrals[m] = NoReferral \/ referrals[m].referrer = r
    PROVE  /\ ReferredBy(r)' = ReferredBy(r) \cup {m}
           /\ QualifiedBy(r)' = IF status = "qualified" THEN QualifiedBy(r) \cup {m}
                                ELSE QualifiedBy(r) \ {m}
           /\ \A x \in Members \ {r} :
                 ReferredBy(x)' = ReferredBy(x) /\ QualifiedBy(x)' = QualifiedBy(x)
<1> DEFINE row == [referrer |-> r, status |-> status]
<1>1. referrals'[m] = row /\ \A n \in Members \ {m} : referrals'[n] = referrals[n]
  BY DEF ReferralTypeOK
<1>2. row # NoReferral /\ row.referrer = r /\ row.status = status
  BY NoReferralAssumption DEF Referral
<1> QED BY <1>1, <1>2 DEF ReferredBy, QualifiedBy, IsQualified

\* A reward is posted with its referral, and moved with its qualification.
LEMMA PaidStep ==
    ASSUME ReferralTypeOK, SnapshotIsLedger, PaidPerReferral, [ReferralsNext]_referralVars
    PROVE  PaidPerReferral' /\ referrals' \in [Members -> Referral \cup {NoReferral}]
<1> DEFINE Goal == PaidPerReferral' /\ referrals' \in [Members -> Referral \cup {NoReferral}]
           Bonus(x) == ledger[x].bonus = RewardPaise * Cardinality(ReferredBy(x))
                             + (IF referrals[x] = NoReferral THEN 0 ELSE BonusPaise)
           Moved(x) == ledger[x].moved = RewardPaise * Cardinality(QualifiedBy(x))
           Unlocked(x) == refWallet[x].unlocked <=> QualifiedBy(x) # {}
<1> SUFFICES Goal
  OBVIOUS
<1>1. /\ referrals \in [Members -> Referral \cup {NoReferral}]
      /\ ledger \in [Members -> Ledgers] /\ RewardPaise \in Nat /\ BonusPaise \in Nat
  BY ReferralBounds DEF ReferralTypeOK
<1>2. \A x \in Members : /\ Bonus(x) /\ Moved(x) /\ Unlocked(x)
                         /\ ledger[x].bonus \in Nat /\ ledger[x].moved \in Nat
                         /\ ledger[x].withdrawn \in Nat
  BY <1>1 DEF PaidPerReferral, Ledgers
<1>3. CASE UNCHANGED <<referrals, refWallet, ledger>>
  BY <1>1, <1>3 DEF PaidPerReferral, ReferredBy, QualifiedBy, IsQualified
<1>4. ASSUME NEW k \in Callers, Rewards(k)
      PROVE  Goal
  <2>1. PICK m \in Members, r \in Members :
           m = caller[k].member /\ r = caller[k].referrer /\ r # m
    BY <1>4, CallerKinds DEF Rewards
  <2> DEFINE row == [referrer |-> r, status |-> "qualifying"]
  <2>2. /\ referrals[m] = NoReferral
        /\ referrals' = [referrals EXCEPT ![m] = row]
        /\ refWallet' = [refWallet EXCEPT ![r] = Earn(@, RewardPaise),
                                          ![m] = Earn(@, BonusPaise)]
        /\ ledger' = [ledger EXCEPT ![r].bonus = @ + RewardPaise,
                                    ![m].bonus = @ + BonusPaise]
    BY <1>4, <2>1 DEF Rewards
  <2>3. row \in Referral /\ row # NoReferral
    BY <2>1, NoReferralAssumption DEF Referral
  <2>4. /\ referrals' \in [Members -> Referral \cup {NoReferral}]
        /\ referrals'[m] # NoReferral
        /\ \A x \in Members \ {m} : referrals'[x] = referrals[x]
    BY <1>1, <2>1, <2>2, <2>3
  <2>5. /\ ReferredBy(r)' = ReferredBy(r) \cup {m}
        /\ QualifiedBy(r)' = QualifiedBy(r) \ {m}
        /\ \A x \in Members \ {r} :
              ReferredBy(x)' = ReferredBy(x) /\ QualifiedBy(x)' = QualifiedBy(x)
    BY <2>1, <2>2, ReferredMoves
  <2>6. m \notin ReferredBy(r) /\ m \notin QualifiedBy(r)
    BY <2>2 DEF ReferredBy, QualifiedBy
  <2>7. Cardinality(ReferredBy(r)') = Cardinality(ReferredBy(r)) + 1
    BY <2>5, <2>6, CountsAreNumbers, FS_AddElement
  <2>8. \A x \in Members : QualifiedBy(x)' = QualifiedBy(x)
    BY <2>5, <2>6
  <2>9. \A x \in Members :
           /\ refWallet'[x].unlocked = refWallet[x].unlocked
           /\ ledger'[x].moved = ledger[x].moved
    BY <2>1, <2>2, RewardIsPosted
  <2>10. /\ ledger'[r].bonus = ledger[r].bonus + RewardPaise
         /\ ledger'[m].bonus = ledger[m].bonus + BonusPaise
         /\ \A x \in Members \ {r, m} : ledger'[x].bonus = ledger[x].bonus
    <3>1. \A x \in Members :
             ledger'[x].bonus = ledger[x].bonus +
                (IF x = r THEN RewardPaise ELSE IF x = m THEN BonusPaise ELSE 0)
      <4>1. /\ refWallet' = [refWallet EXCEPT ![r] = Earn(@, RewardPaise),
                                              ![m] = Earn(@, BonusPaise)]
            /\ ledger' = [ledger EXCEPT ![r].bonus = @ + RewardPaise,
                                        ![m].bonus = @ + BonusPaise]
            /\ r # m
        BY <2>1, <2>2
      <4> QED BY <4>1, RewardIsPosted
    <3>2. \A x \in Members : ledger[x].bonus + 0 = ledger[x].bonus
      BY <1>2
    <3> QED BY <2>1, <3>1, <3>2
  <2>11. \A x \in Members : Moved(x)' /\ Unlocked(x)'
    BY <1>2, <2>8, <2>9
  <2>12. Bonus(r)'
    <3>1. RewardPaise * (Cardinality(ReferredBy(r)) + 1)
             = RewardPaise * Cardinality(ReferredBy(r)) + RewardPaise
          /\ RewardPaise * Cardinality(ReferredBy(r)) \in Nat
      BY CountsAreNumbers, OneMoreReward
    <3>2. referrals'[r] = referrals[r]
      BY <2>1, <2>4
    <3> QED BY <1>1, <1>2, <2>1, <2>7, <2>10, <3>1, <3>2
  <2>13. Bonus(m)'
    <3>1. RewardPaise * Cardinality(ReferredBy(m)) \in Nat
      BY CountsAreNumbers, OneMoreReward
    <3> QED BY <1>1, <1>2, <2>1, <2>2, <2>4, <2>5, <2>10, <3>1
  <2>14. \A x \in Members \ {r, m} : Bonus(x)'
    BY <1>2, <2>4, <2>5, <2>10
  <2> QED BY <2>4, <2>11, <2>12, <2>13, <2>14 DEF PaidPerReferral
<1>5. ASSUME NEW m \in Members, Qualifies(m)
      PROVE  Goal
  <2>1. PICK r \in Members :
           /\ r = referrals[m].referrer
           /\ referrals[m] \in Referral /\ referrals[m] # NoReferral
           /\ referrals[m].status = "qualifying"
           /\ refWallet[r].pending >= RewardPaise
    BY <1>1, <1>5, RewardIsPending DEF Qualifies
  <2> DEFINE row == [referrer |-> r, status |-> "qualified"]
  <2>2. /\ refWallet' = [refWallet EXCEPT ![r] = Qualified(@)]
        /\ ledger' = [ledger EXCEPT ![r].moved = @ + RewardPaise]
    BY <1>5, <2>1 DEF Qualifies
  <2>3. referrals' = [referrals EXCEPT ![m] = row]
    <3>1. [referrals[m] EXCEPT !.status = "qualified"] = row
      BY <2>1 DEF Referral
    <3> QED BY <1>1, <1>5, <3>1 DEF Qualifies
  <2>4. m \in ReferredBy(r) /\ m \notin QualifiedBy(r)
    BY <2>1 DEF ReferredBy, QualifiedBy, IsQualified
  <2>5. /\ ReferredBy(r)' = ReferredBy(r) \cup {m}
        /\ QualifiedBy(r)' = QualifiedBy(r) \cup {m}
        /\ \A x \in Members \ {r} :
              ReferredBy(x)' = ReferredBy(x) /\ QualifiedBy(x)' = QualifiedBy(x)
    BY <2>1, <2>3, ReferredMoves
  <2>6. row \in Referral /\ row # NoReferral
    BY <2>1, NoReferralAssumption DEF Referral
  <2>7. /\ referrals' \in [Members -> Referral \cup {NoReferral}]
        /\ \A x \in Members : referrals'[x] = NoReferral <=> referrals[x] = NoReferral
    BY <1>1, <2>1, <2>3, <2>6
  <2>8. Cardinality(QualifiedBy(r)') = Cardinality(QualifiedBy(r)) + 1
    BY <2>4, <2>5, CountsAreNumbers, FS_AddElement
  <2>9. \A x \in Members : ReferredBy(x)' = ReferredBy(x)
    BY <2>4, <2>5
  <2>10. /\ \A x \in Members \ {r} : refWallet'[x] = refWallet[x] /\ ledger'[x] = ledger[x]
         /\ refWallet'[r].unlocked = TRUE
         /\ ledger'[r].bonus = ledger[r].bonus
         /\ ledger'[r].moved = ledger[r].moved + RewardPaise
    BY <2>1, <2>2, RewardIsMoved
  <2>11. Moved(r)'
    <3>1. RewardPaise * (Cardinality(QualifiedBy(r)) + 1)
             = RewardPaise * Cardinality(QualifiedBy(r)) + RewardPaise
      BY CountsAreNumbers, OneMoreReward
    <3> QED BY <1>2, <2>1, <2>8, <2>10, <3>1
  <2>12. Unlocked(r)'
    BY <2>5, <2>10
  <2>13. \A x \in Members : Bonus(x)'
    BY <1>2, <2>7, <2>9, <2>10
  <2>14. \A x \in Members \ {r} : Moved(x)' /\ Unlocked(x)'
    BY <1>2, <2>5, <2>10
  <2> QED BY <2>7, <2>11, <2>12, <2>13, <2>14 DEF PaidPerReferral
<1>6. ASSUME NEW k \in Callers, Debits(k)
      PROVE  Goal
  <2>1. PICK m \in Members, amount \in Nat :
           m = caller[k].member /\ amount = caller[k].amount
    BY <1>6, CallerKinds DEF Debits
  <2>2. /\ refWallet[m].withdrawable >= amount
        /\ refWallet' = [refWallet EXCEPT ![m].withdrawable = @ - amount]
        /\ paidRows' = [paidRows EXCEPT ![m] = @ + amount]
        /\ ledger' = [ledger EXCEPT ![m].withdrawn = @ + amount]
        /\ referrals' = referrals
    BY <1>6, <2>1 DEF Debits
  <2>3. \A x \in Members : /\ refWallet'[x].unlocked = refWallet[x].unlocked
                           /\ ledger'[x].bonus = ledger[x].bonus
                           /\ ledger'[x].moved = ledger[x].moved
    BY <2>1, <2>2, PayoutIsDebited
  <2>4. \A x \in Members : ReferredBy(x)' = ReferredBy(x) /\ QualifiedBy(x)' = QualifiedBy(x)
    BY <2>2 DEF ReferredBy, QualifiedBy, IsQualified
  <2>5. \A x \in Members : Bonus(x)' /\ Moved(x)' /\ Unlocked(x)'
    BY <1>2, <2>2, <2>3, <2>4
  <2> QED BY <1>1, <2>2, <2>5 DEF PaidPerReferral
<1> HIDE DEF Goal
<1> QED BY <1>3, <1>4, <1>5, <1>6, RowSteps

-----------------------------------------------------------------------------
(* Sums over the requests.                                                 *)

\* A sum follows a change of one of its terms.
LEMMA SumMoves ==
    ASSUME NEW f \in [Callers -> Nat], NEW total, IsSum(total, f),
           NEW k \in Callers, NEW v \in Nat
    PROVE  \E moved : /\ IsSum(moved, [f EXCEPT ![k] = v])
                      /\ moved[Callers] + f[k] = total[Callers] + v
<1> DEFINE g == [f EXCEPT ![k] = v]
           moved == [K \in SUBSET Callers |-> IF k \in K THEN total[K] - f[k] + v ELSE total[K]]
<1>1. /\ total \in [SUBSET Callers -> Nat] /\ total[{}] = 0
      /\ \A K \in SUBSET Callers : \A j \in Callers \ K : total[K \cup {j}] = total[K] + f[j]
  BY DEF IsSum
<1>2. g[k] = v /\ \A j \in Callers \ {k} : g[j] = f[j]
  OBVIOUS
<1>3. ASSUME NEW K \in SUBSET Callers, k \in K
      PROVE  total[K] \in Nat /\ total[K] >= f[k]
  <2>1. K \ {k} \in SUBSET Callers /\ k \in Callers \ (K \ {k}) /\ (K \ {k}) \cup {k} = K
    BY <1>3
  <2>2. total[K] = total[K \ {k}] + f[k] /\ total[K \ {k}] \in Nat
    BY <1>1, <2>1
  <2> QED BY <2>2
<1>4. moved \in [SUBSET Callers -> Nat]
  BY <1>1, <1>3
<1>5. moved[{}] = 0
  BY <1>1
<1>6. ASSUME NEW K \in SUBSET Callers, NEW j \in Callers \ K
      PROVE  moved[K \cup {j}] = moved[K] + g[j]
  <2>1. K \cup {j} \in SUBSET Callers /\ total[K \cup {j}] = total[K] + f[j]
        /\ total[K] \in Nat /\ f[j] \in Nat /\ f[k] \in Nat
    BY <1>1
  <2>2. CASE k \in K
    BY <1>2, <2>1, <2>2
  <2>3. CASE k = j
    BY <1>2, <2>1, <2>3
  <2>4. CASE k \notin K \cup {j}
    BY <1>2, <2>1, <2>4
  <2> QED BY <2>2, <2>3, <2>4
<1>7. moved[Callers] + f[k] = total[Callers] + v
  BY <1>3
<1> HIDE DEF moved
<1> QED BY <1>4, <1>5, <1>6, <1>7 DEF IsSum

\* A step moves one request, and what it pays out it had transferred.
LEMMA TransferSteps ==
    ASSUME ReferralTypeOK, [ReferralsNext]_referralVars
    PROVE  \/ UNCHANGED <<caller, answered, paidRows>>
           \/ \E k \in Callers, s \in CallerStates :
                 /\ caller' = [caller EXCEPT ![k] = s]
                 /\ answered' \in [Members -> Nat] /\ paidRows' \in [Members -> Nat]
                 /\ \A m \in Members :
                       paidRows'[m] + Transferred(m)'[k] + answered[m]
                          <= paidRows[m] + Transferred(m)[k] + answered'[m]
<1> DEFINE Goal ==
           \/ UNCHANGED <<caller, answered, paidRows>>
           \/ \E k \in Callers, s \in CallerStates :
                 /\ caller' = [caller EXCEPT ![k] = s]
                 /\ answered' \in [Members -> Nat] /\ paidRows' \in [Members -> Nat]
                 /\ \A m \in Members :
                       paidRows'[m] + Transferred(m)'[k] + answered[m]
                          <= paidRows[m] + Transferred(m)[k] + answered'[m]
<1> SUFFICES Goal
  OBVIOUS
<1>1. /\ caller \in [Callers -> CallerStates]
      /\ answered \in [Members -> Nat] /\ paidRows \in [Members -> Nat]
  BY DEF ReferralTypeOK
<1>2. ASSUME NEW k \in Callers, NEW m \in Members
      PROVE  /\ Transferred(m)[k] \in Nat
             /\ Transferred(m)[k] = IF caller[k].pc = "debit" /\ caller[k].member = m
                                    THEN caller[k].amount ELSE 0
             /\ Transferred(m)'[k] = IF caller'[k].pc = "debit" /\ caller'[k].member = m
                                     THEN caller'[k].amount ELSE 0
  BY CallerKinds DEF Transferred
\* The request leaves, or goes where nothing is owed to anybody.
<1>3. ASSUME NEW k \in Callers, NEW s \in CallerStates, s.pc # "debit",
             Moves(k, s), UNCHANGED <<answered, paidRows>>
      PROVE  Goal
  <2>1. caller'[k] = s
    BY <1>1, <1>3 DEF Moves
  <2>2. ASSUME NEW m \in Members
        PROVE  paidRows'[m] + Transferred(m)'[k] + answered[m]
                  <= paidRows[m] + Transferred(m)[k] + answered'[m]
    <3>1. Transferred(m)'[k] = 0 /\ Transferred(m)[k] \in Nat
      BY <1>2, <1>3, <2>1
    <3>2. /\ paidRows'[m] = paidRows[m] /\ answered'[m] = answered[m]
          /\ paidRows[m] \in Nat /\ answered[m] \in Nat
      BY <1>1, <1>3
    <3> QED BY <3>1, <3>2
  <2> QED BY <1>1, <1>3, <2>2 DEF Moves
<1>4. Free \in CallerStates /\ Free.pc # "debit"
  BY DEF CallerStates, Free
<1>5. ASSUME NEW k \in Callers, NEW m \in Members, NEW r \in Members, ApplyStart(k, m, r)
      PROVE  Goal
  <2> DEFINE s == [pc |-> "apply", member |-> m, referrer |-> r]
  <2>1. s \in CallerStates /\ s.pc # "debit"
    BY <1>5 DEF ApplyStart, CallerStates
  <2> QED BY <1>3, <1>5, <2>1 DEF ApplyStart
<1>6. ASSUME NEW k \in Callers, NEW m \in Members, NEW amount \in PayoutAmounts,
             PayoutStart(k, m, amount)
      PROVE  Goal
  <2> DEFINE s == [pc |-> "send", member |-> m, amount |-> amount]
  <2>1. s \in CallerStates /\ s.pc # "debit"
    BY DEF CallerStates
  <2> QED BY <1>3, <1>6, <2>1 DEF PayoutStart
\* What is answered is owed from then on.
<1>7. ASSUME NEW k \in Callers, PayoutSend(k)
      PROVE  Goal
  <2> DEFINE s == [caller[k] EXCEPT !.pc = "debit"]
  <2>1. PICK m \in Members, amount \in Nat : m = caller[k].member /\ amount = caller[k].amount
    BY <1>7, CallerKinds DEF PayoutSend
  <2>2. /\ s \in CallerStates
        /\ s.pc = "debit" /\ s.member = m /\ s.amount = amount
    <3>1. caller[k] \in [pc: {"send", "debit"}, member: Members, amount: PayoutAmounts]
      BY <1>7, CallerKinds DEF PayoutSend
    <3> QED BY <2>1, <3>1 DEF CallerStates
  <2>3. caller' = [caller EXCEPT ![k] = s] /\ caller'[k] = s
    BY <1>1, <1>7 DEF PayoutSend, Moves
  <2>4. /\ answered' = [answered EXCEPT ![m] = @ + amount] /\ paidRows' = paidRows
        /\ caller[k].pc = "send"
    BY <1>7, <2>1 DEF PayoutSend
  <2> HIDE DEF s
  <2>5. answered' \in [Members -> Nat] /\ paidRows' \in [Members -> Nat]
    BY <1>1, <2>1, <2>4
  <2>6. ASSUME NEW x \in Members
        PROVE  paidRows'[x] + Transferred(x)'[k] + answered[x]
                  <= paidRows[x] + Transferred(x)[k] + answered'[x]
    <3>1. Transferred(x)[k] = 0 /\ Transferred(x)'[k] = IF x = m THEN amount ELSE 0
      BY <1>2, <2>2, <2>3, <2>4
    <3>2. answered'[x] = IF x = m THEN answered[x] + amount ELSE answered[x]
      BY <1>1, <2>1, <2>4
    <3>3. paidRows'[x] = paidRows[x] /\ paidRows[x] \in Nat /\ answered[x] \in Nat
      BY <1>1, <2>4
    <3> QED BY <2>1, <3>1, <3>2, <3>3
  <2> QED BY <2>2, <2>3, <2>5, <2>6
\* What is debited was owed.
<1>8. ASSUME NEW k \in Callers, createPayout(k)
      PROVE  Goal
  <2>1. PICK m \in Members, amount \in Nat : m = caller[k].member /\ amount = caller[k].amount
    BY <1>8, CallerKinds DEF createPayout
  <2>2. CASE UNCHANGED paidRows
    BY <1>3, <1>4, <1>8, <2>2 DEF createPayout
  <2>3. CASE paidRows' = [paidRows EXCEPT ![m] = @ + amount]
    <3>1. /\ caller[k].pc = "debit" /\ answered' = answered
          /\ caller' = [caller EXCEPT ![k] = Free] /\ caller'[k] = Free
      BY <1>1, <1>8 DEF createPayout, Moves
    <3>2. paidRows' \in [Members -> Nat]
      BY <1>1, <2>3
    <3>3. ASSUME NEW x \in Members
          PROVE  paidRows'[x] + Transferred(x)'[k] + answered[x]
                    <= paidRows[x] + Transferred(x)[k] + answered'[x]
      <4>1. Transferred(x)'[k] = 0 /\ Transferred(x)[k] = IF x = m THEN amount ELSE 0
        BY <1>2, <1>4, <2>1, <3>1
      <4>2. paidRows'[x] = IF x = m THEN paidRows[x] + amount ELSE paidRows[x]
        BY <1>1, <2>1, <2>3
      <4>3. answered'[x] = answered[x] /\ paidRows[x] \in Nat /\ answered[x] \in Nat
        BY <1>1, <3>1
      <4> QED BY <2>1, <4>1, <4>2, <4>3
    <3> QED BY <1>1, <1>4, <3>1, <3>2, <3>3
  <2> QED BY <1>8, <2>1, <2>2, <2>3 DEF createPayout
<1>9. ASSUME NEW k \in Callers,
             \/ createReferralWithReward(k) \/ PayoutRefused(k) \/ PayoutThrows(k)
             \/ RequestLost(k)
      PROVE  Goal
  <2>1. Moves(k, Free) /\ UNCHANGED <<answered, paidRows>>
    BY <1>9 DEF createReferralWithReward, PayoutRefused, PayoutThrows, RequestLost
  <2> QED BY <1>3, <1>4, <2>1
<1>10. ASSUME \/ \E m \in Members : StandingChanges(m)
              \/ \E w \in Workers :
                    \/ ScanStarts(w) \/ ScanDies(w)
                    \/ \E m \in Members : qualifyOne(w, m) \/ QualifyFails(w, m)
              \/ UNCHANGED referralVars
       PROVE  Goal
  BY <1>10 DEF StandingChanges, ScanStarts, ScanDies, qualifyOne, QualifyFails, referralVars
<1> HIDE DEF Goal
<1> QED BY <1>5, <1>6, <1>7, <1>8, <1>9, <1>10 DEF ReferralsNext

\* The sum owed follows the one request that moves.
LEMMA CoveredStep ==
    ASSUME ReferralTypeOK, TransfersCovered, [ReferralsNext]_referralVars
    PROVE  TransfersCovered'
<1>1. CASE UNCHANGED <<caller, answered, paidRows>>
  BY <1>1 DEF TransfersCovered, Transferred
<1>2. ASSUME NEW k \in Callers, NEW s \in CallerStates,
             caller' = [caller EXCEPT ![k] = s],
             answered' \in [Members -> Nat], paidRows' \in [Members -> Nat],
             \A m \in Members : paidRows'[m] + Transferred(m)'[k] + answered[m]
                                <= paidRows[m] + Transferred(m)[k] + answered'[m]
      PROVE  TransfersCovered'
  <2> SUFFICES ASSUME NEW m \in Members
               PROVE  \E total : /\ IsSum(total, Transferred(m)')
                                 /\ paidRows'[m] + total[Callers] <= answered'[m]
    BY DEF TransfersCovered
  <2>1. PICK total : IsSum(total, Transferred(m)) /\ paidRows[m] + total[Callers] <= answered[m]
    BY DEF TransfersCovered
  <2>2. Transferred(m) \in [Callers -> Nat]
    BY CallerKinds DEF Transferred
  <2>3. caller' \in [Callers -> CallerStates]
    BY <1>2 DEF ReferralTypeOK
  <2> DEFINE v == Transferred(m)'[k]
  <2>4. v \in Nat
    <3>1. caller'[k] \in CallerStates /\ PayoutAmounts \subseteq Nat
      BY <2>3, ReferralBounds
    <3>2. caller'[k].pc = "debit" => caller'[k].amount \in Nat
      <4>1. CASE caller'[k] = Free
        BY <4>1 DEF Free
      <4>2. CASE caller'[k] \in [pc: {"apply"}, member: Members, referrer: Members]
        BY <4>2
      <4>3. CASE caller'[k] \in [pc: {"send", "debit"}, member: Members, amount: PayoutAmounts]
        BY <3>1, <4>3
      <4> QED BY <3>1, <4>1, <4>2, <4>3 DEF CallerStates
    <3> QED BY <3>2 DEF Transferred
  <2>5. Transferred(m)' = [Transferred(m) EXCEPT ![k] = v]
    <3>1. \A j \in Callers \ {k} : caller'[j] = caller[j]
      BY <1>2 DEF ReferralTypeOK
    <3>2. \A j \in Callers \ {k} : Transferred(m)'[j] = Transferred(m)[j]
      BY <3>1 DEF Transferred
    <3>3. Transferred(m)' = [j \in Callers |-> Transferred(m)'[j]]
      BY DEF Transferred
    <3> QED BY <2>2, <3>2, <3>3
  <2>6. \E moved : /\ IsSum(moved, [Transferred(m) EXCEPT ![k] = v])
                   /\ moved[Callers] + Transferred(m)[k] = total[Callers] + v
    <3> HIDE DEF v
    <3> QED BY <2>1, <2>2, <2>4, SumMoves
  <2>7. PICK moved : /\ IsSum(moved, Transferred(m)')
                     /\ moved[Callers] + Transferred(m)[k] = total[Callers] + v
    BY <2>5, <2>6
  <2>8. total[Callers] \in Nat /\ moved[Callers] \in Nat /\ Transferred(m)[k] \in Nat
    BY <2>1, <2>2, <2>7 DEF IsSum
  <2>9. /\ paidRows[m] \in Nat /\ answered[m] \in Nat /\ paidRows'[m] \in Nat /\ answered'[m] \in Nat
        /\ paidRows'[m] + v + answered[m] <= paidRows[m] + Transferred(m)[k] + answered'[m]
    BY <1>2 DEF ReferralTypeOK
  <2>10. paidRows'[m] + moved[Callers] <= answered'[m]
    <3> HIDE DEF v
    <3> QED BY <2>1, <2>4, <2>7, <2>8, <2>9
  <2> QED BY <2>7, <2>10
<1> QED BY <1>1, <1>2, TransferSteps

-----------------------------------------------------------------------------
(* The invariant.                                                          *)

\* A payouts row and its debit are written together.
LEMMA DebitedStep ==
    ASSUME ReferralTypeOK, SnapshotIsLedger, PaidPerReferral, RowsAreDebited,
           [ReferralsNext]_referralVars
    PROVE  RowsAreDebited'
<1>1. CASE UNCHANGED <<referrals, refWallet, ledger, paidRows>>
  BY <1>1 DEF RowsAreDebited
<1>2. ASSUME NEW k \in Callers, Rewards(k)
      PROVE  RowsAreDebited'
  <2>1. PICK m \in Members, r \in Members :
           m = caller[k].member /\ r = caller[k].referrer /\ r # m
    BY <1>2, CallerKinds DEF Rewards
  <2>2. /\ refWallet' = [refWallet EXCEPT ![r] = Earn(@, RewardPaise),
                                          ![m] = Earn(@, BonusPaise)]
        /\ ledger' = [ledger EXCEPT ![r].bonus = @ + RewardPaise,
                                    ![m].bonus = @ + BonusPaise]
        /\ paidRows' = paidRows
    BY <1>2, <2>1 DEF Rewards
  <2>3. \A x \in Members : ledger'[x].withdrawn = ledger[x].withdrawn
    BY <2>1, <2>2, RewardIsPosted
  <2> QED BY <2>2, <2>3 DEF RowsAreDebited
<1>3. ASSUME NEW m \in Members, Qualifies(m)
      PROVE  RowsAreDebited'
  <2>1. PICK r \in Members : r = referrals[m].referrer /\ refWallet[r].pending >= RewardPaise
    BY <1>3, RewardIsPending DEF Qualifies
  <2>2. /\ refWallet' = [refWallet EXCEPT ![r] = Qualified(@)]
        /\ ledger' = [ledger EXCEPT ![r].moved = @ + RewardPaise]
        /\ paidRows' = paidRows
    BY <1>3, <2>1 DEF Qualifies
  <2>3. \A x \in Members : ledger'[x].withdrawn = ledger[x].withdrawn
    BY <2>1, <2>2, RewardIsMoved
  <2> QED BY <2>2, <2>3 DEF RowsAreDebited
<1>4. ASSUME NEW k \in Callers, Debits(k)
      PROVE  RowsAreDebited'
  <2>1. PICK m \in Members, amount \in Nat : m = caller[k].member /\ amount = caller[k].amount
    BY <1>4, CallerKinds DEF Debits
  <2>2. /\ refWallet[m].withdrawable >= amount
        /\ refWallet' = [refWallet EXCEPT ![m].withdrawable = @ - amount]
        /\ paidRows' = [paidRows EXCEPT ![m] = @ + amount]
        /\ ledger' = [ledger EXCEPT ![m].withdrawn = @ + amount]
    BY <1>4, <2>1 DEF Debits
  <2>3. /\ \A x \in Members \ {m} : ledger'[x] = ledger[x] /\ paidRows'[x] = paidRows[x]
        /\ ledger'[m].withdrawn = ledger[m].withdrawn + amount
        /\ paidRows'[m] = paidRows[m] + amount
    <3>1. \A x \in Members \ {m} : /\ refWallet'[x] = refWallet[x]
                                    /\ ledger'[x] = ledger[x]
                                    /\ paidRows'[x] = paidRows[x]
      BY <2>2, PayoutIsDebited
    <3>2. ledger'[m].withdrawn = ledger[m].withdrawn + amount
      BY <2>2, PayoutIsDebited
    <3> QED BY <2>2, <3>1, <3>2 DEF ReferralTypeOK
  <2> QED BY <2>3 DEF RowsAreDebited
<1> QED BY <1>1, <1>2, <1>3, <1>4, RowSteps

\* Every step keeps the types; what is subtracted was there.
LEMMA ReferralTypeStep ==
    ASSUME ReferralTypeOK, SnapshotIsLedger, PaidPerReferral, [ReferralsNext]_referralVars
    PROVE  ReferralTypeOK'
<1>1. /\ referrals' \in [Members -> Referral \cup {NoReferral}]
      /\ refWallet' \in [Members -> RefWallets] /\ ledger' \in [Members -> Ledgers]
  BY PaidStep, SnapshotStep
<1>2. /\ caller' \in [Callers -> CallerStates]
      /\ answered' \in [Members -> Nat] /\ paidRows' \in [Members -> Nat]
  <2>1. /\ caller \in [Callers -> CallerStates]
        /\ answered \in [Members -> Nat] /\ paidRows \in [Members -> Nat]
    BY DEF ReferralTypeOK
  <2> QED BY <2>1, TransferSteps
<1> DEFINE Rest == /\ genuine' \subseteq Members
                   /\ batch' \in [Workers -> SUBSET Members]
                   /\ failed' \in [Members -> Nat]
                   /\ sends' \in 0 .. MaxSends
                   /\ deaths' \in 0 .. MaxDeaths
<1>3. /\ genuine \subseteq Members /\ batch \in [Workers -> SUBSET Members]
      /\ failed \in [Members -> Nat]
      /\ sends \in 0 .. MaxSends /\ deaths \in 0 .. MaxDeaths
      /\ MaxSends \in Nat /\ MaxDeaths \in Nat
  BY ReferralBounds DEF ReferralTypeOK
<1>4. ASSUME NEW w \in Workers, ScanStarts(w)
      PROVE  Rest
  BY <1>3, <1>4 DEF ScanStarts, Eligible
<1>5. ASSUME NEW w \in Workers, ScanDies(w)
      PROVE  Rest
  BY <1>3, <1>5 DEF ScanDies
<1>6. ASSUME NEW w \in Workers, NEW m \in Members, qualifyOne(w, m) \/ QualifyFails(w, m)
      PROVE  Rest
  BY <1>3, <1>6 DEF qualifyOne, QualifyFails
<1>7. ASSUME NEW m \in Members, StandingChanges(m)
      PROVE  Rest
  BY <1>3, <1>7 DEF StandingChanges
<1>8. ASSUME NEW k \in Callers,
             \/ createReferralWithReward(k) \/ PayoutRefused(k)
             \/ createPayout(k) \/ PayoutThrows(k)
             \/ \E m \in Members :
                   \/ \E r \in Members : ApplyStart(k, m, r)
                   \/ \E amount \in PayoutAmounts : PayoutStart(k, m, amount)
      PROVE  Rest
  BY <1>3, <1>8
  DEF createReferralWithReward, PayoutRefused, createPayout, PayoutThrows, ApplyStart,
      PayoutStart
<1>9. ASSUME NEW k \in Callers, PayoutSend(k) \/ RequestLost(k)
      PROVE  Rest
  <2>1. /\ sends' = sends \/ (sends < MaxSends /\ sends' = sends + 1)
        /\ deaths' = deaths \/ (deaths < MaxDeaths /\ deaths' = deaths + 1)
    BY <1>9 DEF PayoutSend, RequestLost
  <2>2. genuine' = genuine /\ batch' = batch
    BY <1>9 DEF PayoutSend, RequestLost
  <2>3. failed' \in [Members -> Nat]
    <3>1. CASE RequestLost(k)
      BY <1>3, <3>1 DEF RequestLost
    <3>2. CASE PayoutSend(k)
      <4>1. PICK m \in Members, amount \in Nat : m = caller[k].member /\ amount = caller[k].amount
        BY <3>2, CallerKinds DEF PayoutSend
      <4>2. failed' = failed \/ failed' = [failed EXCEPT ![m] = @ + amount]
        BY <3>2, <4>1 DEF PayoutSend
      <4> QED BY <1>3, <4>1, <4>2
    <3> QED BY <1>9, <3>1, <3>2
  <2> QED BY <1>3, <2>1, <2>2, <2>3
<1>10. ASSUME UNCHANGED referralVars
       PROVE  Rest
  BY <1>3, <1>10 DEF referralVars
<1>11. Rest
  <2> HIDE DEF Rest
  <2> QED BY <1>4, <1>5, <1>6, <1>7, <1>8, <1>9, <1>10 DEF ReferralsNext
<1> QED BY <1>1, <1>2, <1>11 DEF ReferralTypeOK

\* Initially nobody is referred, owed or paid.
LEMMA ReferralInit == ReferralsInit => ReferralInv
<1> SUFFICES ASSUME ReferralsInit PROVE ReferralInv
  OBVIOUS
<1>1. EmptyWallet \in RefWallets /\ EmptyLedger \in Ledgers /\ Free \in CallerStates
  BY DEF EmptyWallet, RefWallets, EmptyLedger, Ledgers, CallerStates
<1>2. ReferralTypeOK
  BY <1>1, ReferralBounds DEF ReferralsInit, ReferralTypeOK
<1>3. SnapshotIsLedger
  <2>1. \A m \in Members : refWallet[m] = EmptyWallet /\ ledger[m] = EmptyLedger
    BY DEF ReferralsInit
  <2> QED BY <1>1, <2>1 DEF SnapshotIsLedger, EmptyWallet, EmptyLedger
<1>4. PaidPerReferral
  <2>1. \A m : ReferredBy(m) = {} /\ QualifiedBy(m) = {}
    BY DEF ReferralsInit, ReferredBy, QualifiedBy
  <2>2. Cardinality({}) = 0 /\ RewardPaise * 0 = 0
    BY FS_EmptySet, ReferralBounds
  <2>3. \A m \in Members : /\ referrals[m] = NoReferral /\ ledger[m].bonus = 0
                           /\ ledger[m].moved = 0 /\ refWallet[m].unlocked = FALSE
    BY DEF ReferralsInit, EmptyWallet, EmptyLedger
  <2> QED BY <2>1, <2>2, <2>3 DEF PaidPerReferral
<1>5. TransfersCovered
  <2> DEFINE none == [K \in SUBSET Callers |-> 0]
  <2> SUFFICES ASSUME NEW m \in Members
               PROVE  \E total : IsSum(total, Transferred(m))
                                 /\ paidRows[m] + total[Callers] <= answered[m]
    BY DEF TransfersCovered
  <2>1. \A k \in Callers : Transferred(m)[k] = 0
    BY DEF Transferred, ReferralsInit, Free
  <2>2. IsSum(none, Transferred(m))
    BY <2>1 DEF IsSum
  <2>3. none[Callers] = 0 /\ paidRows[m] = 0 /\ answered[m] = 0
    BY DEF ReferralsInit
  <2> HIDE DEF none
  <2>4. paidRows[m] + none[Callers] <= answered[m]
    BY <2>3
  <2> QED BY <2>2, <2>4
<1>6. RowsAreDebited
  BY DEF ReferralsInit, EmptyLedger, RowsAreDebited
<1> QED BY <1>2, <1>3, <1>4, <1>5, <1>6 DEF ReferralInv

\* The invariant holds in every reachable state.
LEMMA ReferralInvariant == ReferralsSpec => []ReferralInv
<1>1. ReferralsInit => ReferralInv
  BY ReferralInit
<1>2. ReferralInv /\ [ReferralsNext]_referralVars => ReferralInv'
  BY ReferralTypeStep, SnapshotStep, PaidStep, CoveredStep, DebitedStep DEF ReferralInv
<1> QED BY <1>1, <1>2, PTL DEF ReferralsSpec

-----------------------------------------------------------------------------
(* The theorems.                                                           *)

\* Referrals, balances, totals and requests keep their types: no balance and no
\* total is ever negative.
THEOREM ReferralTypeCorrect == ReferralsSpec => []ReferralTypeOK
<1>1. ReferralInv => ReferralTypeOK
  BY DEF ReferralInv
<1> QED BY <1>1, ReferralInvariant, PTL

\* The snapshot in referral_wallets is what referral_ledger adds up to, so the
\* GREATEST(0, ..) of the move never hides a shortfall and no payout takes a
\* balance below zero.
THEOREM ReferralSnapshotIsLedger == ReferralsSpec => []SnapshotIsLedger
<1>1. ReferralInv => SnapshotIsLedger
  BY DEF ReferralInv
<1> QED BY <1>1, ReferralInvariant, PTL

\* Each referral pays its referrer once, whatever requests and scans overlap.
THEOREM ReferralPaidPerReferral == ReferralsSpec => []PaidPerReferral
<1>1. ReferralInv => PaidPerReferral
  BY DEF ReferralInv
<1> QED BY <1>1, ReferralInvariant, PTL

\* A payouts row exists only for a payout the provider has answered with, and
\* with its debit.
THEOREM ReferralRowsAreAnsweredAndDebited == ReferralsSpec => []RowsAreAnsweredAndDebited
<1>1. ReferralInv => RowsAreAnsweredAndDebited
  <2> SUFFICES ASSUME ReferralInv, NEW m \in Members
               PROVE  paidRows[m] <= answered[m] /\ paidRows[m] = ledger[m].withdrawn
    BY DEF RowsAreAnsweredAndDebited
  <2>1. PICK total : IsSum(total, Transferred(m)) /\ paidRows[m] + total[Callers] <= answered[m]
    BY DEF ReferralInv, TransfersCovered
  <2>2. total[Callers] \in Nat /\ paidRows[m] \in Nat /\ answered[m] \in Nat
    BY <2>1 DEF IsSum, ReferralInv, ReferralTypeOK
  <2> QED BY <2>1, <2>2 DEF ReferralInv, RowsAreDebited
<1> QED BY <1>1, ReferralInvariant, PTL

=============================================================================

SPECIFICATION FairReferralsSpec
CONSTANTS
    Members = {m1, m2}
    Callers = {k1, k2}
    Workers = {w1, w2}
    NoReferral = NoReferral
    RewardPaise = 3
    BonusPaise = 1
    PayoutAmounts = {2}
    BatchSize = 1
    MaxSends = 2
    MaxDeaths = 1
INVARIANTS
    SentIsEarned

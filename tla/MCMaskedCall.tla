---------------------------- MODULE MCMaskedCall ----------------------------
(* MaskedCall on small instances.                                          *)
EXTENDS MaskedCall, TLC

CONSTANTS n1, n2

MCOneNumber == <<n1>>
MCTwoNumbers == <<n1, n2>>

MCRefs ==
         {FundRef(u) : u \in Users}
    \cup {HoldRef(c) : c \in Calls}
    \cup {FailRef(c) : c \in Calls}
    \cup {SettleRef(c) : c \in Calls}

MCAmounts == {-HoldPaise} \cup 1 .. HoldPaise

=============================================================================

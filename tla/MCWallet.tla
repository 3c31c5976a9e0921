------------------------------ MODULE MCWallet ------------------------------
(***************************************************************************)
(* Wallet on small instances.  A behaviour follows one side: the service   *)
(* with its real callers, or the transaction engine alone under its most   *)
(* general caller, which repeats references and amounts at will.           *)
(***************************************************************************)
EXTENDS Wallet, TLC

VARIABLE side

EngineRefs == {<<"engine", 1>>, <<"engine", 2>>}
\* One deposit and one withdrawal that a balance of one deposit covers once.
EngineAmounts == {2, -1}

MCRefs ==
         {TopupRef(o) : o \in Orders}
    \cup {HoldRef(t) : t \in Tokens}
    \cup {ReleaseRef(t) : t \in Tokens}
    \cup EngineRefs

MCAmounts ==
         Packs \cup {-HoldPaise} \cup {HoldPaise - c : c \in Costs}
    \cup EngineAmounts

EngineNext ==
    /\ UNCHANGED walletVars
    /\ \/ \E u \in Users : OpenWallet(u)
       \/ \E p \in Procs :
             \/ \E u \in Users, ref \in EngineRefs, amount \in EngineAmounts :
                   BeginTxn(p, u, ref, amount)
             \/ TxnStep(p)
             \/ AbortTxn(p)
             \/ EndTxn(p)

MCInit == Init /\ side \in {"service", "engine"}

MCNext ==
    /\ side' = side
    /\ \/ side = "service" /\ Next
       \/ side = "engine" /\ EngineNext

\* HandlerStep holds the statements of a transaction on both sides.
MCSpec == MCInit /\ [][MCNext]_<<vars, side>> /\ Fairness

=============================================================================

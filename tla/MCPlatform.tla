----------------------------- MODULE MCPlatform -----------------------------
(***************************************************************************)
(* The smaller services, checked in one run.  They share processes, users  *)
(* and the way a handler is cut into steps, and no other state: so a       *)
(* behaviour follows one of them, its side, and leaves the others where    *)
(* they began.                                                             *)
(***************************************************************************)
EXTENDS Idempotency, Groups, Activities, Contacts, Grants, Business, Delivery,
        Standing, Jobs, Caches, Reputation, TLC

VARIABLE side

Sides == {"idempotency", "groups", "activities", "contacts", "grants",
          "business", "delivery", "standing", "jobs", "caches", "reputation"}

\* The behaviour model's verdicts: none, and one that takes an account with a
\* complete profile exactly to the review threshold and any other below it.
MCDeltas == {0, -50}

platformVars == <<reqVars, idemVars, groupVars, activityVars, contactVars, grantVars,
                  businessVars, deliveryVars, standingVars, jobsVars,
                  cacheVars, reputationVars, side>>

Init ==
    /\ side \in Sides
    /\ ReqInit /\ IdemInit /\ GroupInit /\ ActivityInit /\ ContactInit /\ GrantInit
    /\ BusinessInit /\ DeliveryInit /\ StandingInit /\ JobsInit
    /\ CachesInit /\ ReputationInit
    /\ side # "contacts" => chat = "none"
    /\ side # "grants"   => grant = Approval
    /\ side # "delivery" => \A u \in Users : sub[u] = "none"

\* UNCHANGED for the variables of every side but s.
OthersUnchanged(s) ==
    /\ s # "idempotency" => UNCHANGED idemVars
    /\ s # "groups"      => UNCHANGED groupVars
    /\ s # "activities"  => UNCHANGED activityVars
    /\ s # "contacts"    => UNCHANGED contactVars
    /\ s # "grants"      => UNCHANGED grantVars
    /\ s # "business"    => UNCHANGED businessVars
    /\ s # "delivery"    => UNCHANGED deliveryVars
    /\ s # "standing"    => UNCHANGED standingVars
    /\ s # "jobs"        => UNCHANGED jobsVars
    /\ s # "caches"      => UNCHANGED cacheVars
    /\ s # "reputation"  => UNCHANGED reputationVars

Next ==
    /\ side' = side /\ OthersUnchanged(side)
    /\ \/ side = "idempotency" /\ IdemNext
       \/ side = "groups"      /\ GroupNext
       \/ side = "activities"  /\ ActivityNext
       \/ side = "contacts"    /\ ContactNext
       \/ side = "grants"      /\ GrantNext
       \/ side = "business"    /\ BusinessNext
       \/ side = "delivery"    /\ DeliveryNext
       \/ side = "standing"    /\ StandingNext
       \/ side = "jobs"        /\ JobsNext
       \/ side = "caches"      /\ CachesNext
       \/ side = "reputation"  /\ ReputationNext

Spec == Init /\ [][Next]_platformVars

Sym == Permutations(Users) \cup Permutations(Procs)

\* Every variable of every service holds what its table or key can hold.
PlatformTypeOK ==
    /\ side \in Sides /\ deaths \in 0..MaxDeaths
    /\ IdemTypeOK /\ GroupTypeOK /\ ActivityTypeOK /\ ContactTypeOK /\ GrantTypeOK
    /\ BusinessTypeOK /\ DeliveryTypeOK /\ StandingTypeOK /\ JobsTypeOK
    /\ CachesTypeOK /\ ReputationTypeOK

=============================================================================

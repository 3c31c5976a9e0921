----------------------------- MODULE Reputation -----------------------------
(***************************************************************************)
(* The crowd reputation of one phone number that is not a user's: what     *)
(* dialers observed of it, one row per observer and hour, and the row the  *)
(* nightly job computes from them.  An observation is stamped when its     *)
(* insert begins and visible when it commits; the job stamps its row when  *)
(* its statement begins, and reads what is visible then.                   *)
(*                                                                         *)
(* Abstractions: every observation is young enough for the job's 180 days  *)
(* and has weight 1.                                                       *)
(***************************************************************************)
EXTENDS Requests

CONSTANTS Outcomes,         \* the outcomes the dialers of a behaviour report
          MinObservations,  \* fewer leave the score neutral
          MaxNights         \* bound on the nightly runs

\* What each kind of outcome adds, as a share of the observations.
Points == [picked_up |-> 25, saved |-> 30, blocked |-> -50, declined |-> -20,
           hung_up_fast |-> -15]

ASSUME ReputationAssumption ==
    Outcomes \subseteq DOMAIN Points /\ MinObservations \in Nat /\ MaxNights \in Nat

VARIABLES
    observations,   \* committed: by observer (one number, one hour), or Null
    reputation,     \* shadow_numbers: count, score and last_updated_at, or Null
    now, nights     \* order of the stamps; nightly runs begun

reputationVars == <<observations, reputation, now, nights>>

ReputationInit ==
    /\ observations = [u \in Users |-> Null] /\ reputation = Null
    /\ now = 0 /\ nights = 0

Observed == {u \in Users : observations[u] # Null}

\* Another of the observer's requests within the hour changes nothing.
Observe(p, u, outcome) ==
    /\ observations[u] = Null
    /\ \A q \in Procs : req[q].op = "observe" => req[q].by # u
    /\ Enter(p, [op |-> "observe", by |-> u, row |-> [at |-> now, outcome |-> outcome]])
    /\ now' = now + 1
    /\ UNCHANGED <<observations, reputation, nights>>

\* INSERT .. ON CONFLICT DO NOTHING commits.
RecordObservation(p) ==
    /\ req[p].op = "observe" /\ Finish(p)
    /\ observations' = [observations EXCEPT ![req[p].by] = req[p].row]
    /\ UNCHANGED <<reputation, now, nights>>

\* The observations a run aggregates: none that is older than the row.
Aggregated ==
    {u \in Observed : reputation = Null \/ reputation.at <= observations[u].at}

Total(seen) == Sets!MapThenSumSet(LAMBDA u : Points[observations[u].outcome], seen)
Clamp(raw) == Sets!Max({0, Sets!Min({100, raw})})

\* ROUND of 50 + Total / n, which is never negative.
ShadowScore(seen) ==
    LET n == Cardinality(seen)
    IN  IF n < MinObservations THEN 50
        ELSE Clamp((2 * (50 * n + Total(seen)) + n) \div (2 * n))

\* The job's one statement takes its snapshot; GROUP BY leaves nothing to
\* upsert when it sees no observation.
ShadowRecompute(p) ==
    /\ nights < MaxNights /\ nights' = nights + 1 /\ now' = now + 1
    /\ Aggregated # {}
    /\ Enter(p, [op |-> "shadow",
                 row |-> [count |-> Cardinality(Aggregated),
                          score |-> ShadowScore(Aggregated), at |-> now]])
    /\ UNCHANGED <<observations, reputation>>

\* ON CONFLICT DO UPDATE: every column is replaced.
UpsertReputation(p) ==
    /\ req[p].op = "shadow" /\ Finish(p)
    /\ reputation' = req[p].row
    /\ UNCHANGED <<observations, now, nights>>

ReputationNext ==
    \E p \in Procs :
       \/ \E u \in Users, outcome \in Outcomes : Observe(p, u, outcome)
       \/ RecordObservation(p) \/ ShadowRecompute(p) \/ UpsertReputation(p)
       \/ Die(p) /\ UNCHANGED reputationVars

-----------------------------------------------------------------------------
ReputationTypeOK ==
    /\ \A u \in Observed : observations[u].at \in 0..now /\ observations[u].outcome \in Outcomes
    /\ reputation # Null =>
          /\ reputation.count \in 1..Cardinality(Users)
          /\ reputation.score \in 0..100 /\ reputation.at \in 0..now
    /\ nights \in 0..MaxNights

\* A nightly run that touches a number aggregates all of the window's
\* observations of it: the row counts every one that was committed when the run
\* began ("Aggregates the last 180 days of dialer_observations into
\* per-phone-hash reputation rows").
AggregatesWindow ==
    [][\A p \in Procs : req[p] = Idle /\ req'[p].op = "shadow" =>
          req'[p].row.count = Cardinality(Observed)]_<<reqVars, reputationVars>>

=============================================================================

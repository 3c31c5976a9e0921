------------------------------ MODULE Standing ------------------------------
(***************************************************************************)
(* The standing of one account: its trust score and tier, written by the   *)
(* API from verification alone and by the worker with the model's verdict, *)
(* with a history of the changes; the review flag; the status an admin     *)
(* gives it, with the audit log; and the appeals of its owner.             *)
(***************************************************************************)
EXTENDS Requests

CONSTANTS
    Deltas,     \* what the behaviour model may add to a score
    MaxWork     \* bound on the requests and jobs of one behaviour

ASSUME StandingAssumption == Deltas \subseteq -100..100 /\ MaxWork \in Nat

VARIABLES
    completed,      \* the verification factors the account has completed
    score, tier, review, status,    \* its row of users
    history,        \* trust_score_history, with the decisions made before each row
    decisions,      \* admin decisions that have taken effect
    audit,          \* rows of admin_actions
    appeals,        \* account_appeals: whom each names, and its status
    work,           \* requests and jobs begun
    rewritten,          \* a score was written under an API request that rewrites it
    stacked         \* a submit found no open appeal while another ran, or one was reopened

standingVars == <<completed, score, tier, review, status, history,
                  decisions, audit, appeals, work, rewritten, stacked>>
userRow == <<score, tier, review, status>>
appealVars == <<appeals, stacked>>

Weights == [device_integrity |-> 10, liveness_check |-> 25, govt_id_verified |-> 30,
            phone_verified |-> 15, profile_complete |-> 5, account_age |-> 5]
Onboarded == {"device_integrity", "liveness_check", "govt_id_verified"}
ReviewThreshold == 20
TierFloor == [anonymous |-> 0, basic |-> 30, verified |-> 50, premium |-> 80]

PointsOf(factors) == Sets!MapThenSumSet(LAMBDA f : Weights[f], factors)
VerificationPoints == PointsOf(completed)
ClampScore(raw) == Sets!Max({0, Sets!Min({100, raw})})
ScoreToTier(s) ==
    CHOOSE t \in DOMAIN TierFloor :
       /\ TierFloor[t] <= s
       /\ \A u \in DOMAIN TierFloor : TierFloor[u] <= s => TierFloor[u] <= TierFloor[t]

ModeratedTo == [suspend |-> "suspended", ban |-> "banned", restrict |-> "restricted",
                review |-> "under_review", restore |-> "active"]

StandingInit ==
    /\ completed = Onboarded /\ score = 65 /\ tier = "verified"
    /\ review = FALSE /\ status = "active"
    /\ history = <<>> /\ decisions = 0 /\ audit = 0 /\ appeals = <<>>
    /\ work = 0 /\ rewritten = FALSE /\ stacked = FALSE

Scoring(op, at, new) == [op |-> op, at |-> at, new |-> new, old |-> Null]
HistoryRow(old, new, by) == [old |-> old, new |-> new, by |-> by, decisions |-> decisions]
StartWork(p, r) == work < MaxWork /\ work' = work + 1 /\ Enter(p, r)
\* Requests of the API between their read of the score and their history row.
Rewriting(except) ==
    \E q \in Procs \ {except} : req[q].op = "persist" /\ req[q].at \in {"update", "history"}

\* setAvatar: the profile becomes complete or incomplete, then the points count.
SetAvatar(p) ==
    /\ \E done \in BOOLEAN :
          completed' = IF done THEN completed \cup {"profile_complete"}
                               ELSE completed \ {"profile_complete"}
    /\ StartWork(p, Scoring("persist", "compute", Null))
    /\ UNCHANGED <<userRow, history, decisions, audit, appealVars, rewritten>>

AccountAges ==
    /\ "account_age" \notin completed /\ completed' = completed \cup {"account_age"}
    /\ UNCHANGED <<userRow, history, decisions, audit, appealVars, rewritten, reqVars, work>>

PersistCompute(p) ==
    /\ At(p, "persist", "compute")
    /\ req' = [req EXCEPT ![p].at = "read", ![p].new = ClampScore(VerificationPoints)]
    /\ UNCHANGED <<standingVars, deaths>>

PersistRead(p) ==
    /\ At(p, "persist", "read")
    /\ IF score = req[p].new THEN req' = [req EXCEPT ![p] = Idle]
       ELSE req' = [req EXCEPT ![p].at = "update", ![p].old = score]
    /\ UNCHANGED <<standingVars, deaths>>

\* Neither a lock nor a condition: whatever was written meanwhile is replaced.
PersistUpdate(p) ==
    /\ At(p, "persist", "update") /\ Goto(p, "history")
    /\ score' = req[p].new /\ tier' = ScoreToTier(req[p].new)
    /\ rewritten' = (rewritten \/ Rewriting(p))
    /\ UNCHANGED <<completed, review, status, history, decisions, audit, appealVars, work>>

PersistHistory(p) ==
    /\ At(p, "persist", "history")
    /\ history' = Append(history, HistoryRow(req[p].old, req[p].new, "api"))
    /\ Finish(p)
    /\ UNCHANGED <<completed, userRow, decisions, audit, appealVars, rewritten, work>>

\* The worker's own sum of the points, with the model's verdict on top.
WorkerScore(delta) == ClampScore(VerificationPoints + delta)

\* The worker computes the score before it takes the lock.
Recompute(p) ==
    /\ \E delta \in Deltas : StartWork(p, Scoring("recompute", "apply", WorkerScore(delta)))
    /\ UNCHANGED <<completed, userRow, history, decisions, audit, appealVars, rewritten>>

\* (Mutant: history only when the tier changes.)
ApplyRecomputeByTier(p) ==
    /\ At(p, "recompute", "apply") /\ Finish(p)
    /\ score' = req[p].new /\ tier' = ScoreToTier(req[p].new)
    /\ rewritten' = (rewritten \/ (score # req[p].new /\ Rewriting(p)))
    /\ history' = IF tier = tier' THEN history
                  ELSE Append(history, HistoryRow(score, req[p].new, "worker"))
    /\ review' = (review \/ (score >= ReviewThreshold /\ req[p].new < ReviewThreshold))
    /\ UNCHANGED <<completed, status, decisions, audit, appealVars, work>>

\* Under FOR UPDATE: score and history if they change, and a sharp drop, or the
\* model's override, puts the account under review.
ApplyRecompute(p) ==
    /\ At(p, "recompute", "apply") /\ Finish(p)
    /\ score' = req[p].new /\ tier' = ScoreToTier(req[p].new)
    /\ rewritten' = (rewritten \/ (score # req[p].new /\ Rewriting(p)))
    /\ history' = IF score = req[p].new THEN history
                  ELSE Append(history, HistoryRow(score, req[p].new, "worker"))
    /\ \E override \in BOOLEAN :
          review' = (review \/ override
                       \/ (score >= ReviewThreshold /\ req[p].new < ReviewThreshold))
    /\ UNCHANGED <<completed, status, decisions, audit, appealVars, work>>

\* applyAccountState, one transaction; the audit row is a statement of its own.
ModerateUser(p, action) ==
    /\ decisions' = decisions + 1
    /\ StartWork(p, [op |-> "admin", at |-> "log"])
    /\ status' = ModeratedTo[action] /\ review' = (action = "review")
    /\ UNCHANGED <<completed, score, tier, history, audit, appealVars, rewritten>>

Verdicts == {"in_review", "restored", "upheld", "rejected"}

\* Any status to any status.
ResolveAppeal(p, a, to) ==
    /\ decisions' = decisions + 1
    /\ StartWork(p, [op |-> "admin", at |-> "log"])
    /\ appeals' = [appeals EXCEPT ![a].status = to]
    /\ stacked' = (stacked \/ (to = "in_review" /\ appeals[a].status \notin {"submitted", "in_review"}))
    /\ UNCHANGED <<completed, userRow, history, audit, rewritten>>

LogAction(p) ==
    /\ At(p, "admin", "log") /\ Finish(p)
    /\ audit' = audit + 1
    /\ UNCHANGED <<completed, userRow, history, decisions, appealVars, rewritten, work>>

\* The appeal names the identity, the user, or (through a session) both.
Subjects == {{"identity"}, {"user"}, {"identity", "user"}}
IsOpen(a) == a.status \in {"submitted", "in_review"}
FindOpen(subject) == \E i \in DOMAIN appeals : IsOpen(appeals[i]) /\ appeals[i].subject \cap subject # {}

Submit(p, subject) ==
    /\ ~FindOpen(subject)
    /\ StartWork(p, [op |-> "appeal", at |-> "create", subject |-> subject])
    /\ stacked' = (stacked \/ \E q \in Procs : req[q].op = "appeal")
    /\ UNCHANGED <<completed, userRow, history, decisions, audit, appeals, rewritten>>

CreateAppeal(p) ==
    /\ At(p, "appeal", "create") /\ Finish(p)
    /\ appeals' = Append(appeals, [subject |-> req[p].subject, status |-> "submitted"])
    /\ UNCHANGED <<completed, userRow, history, decisions, audit, stacked, rewritten, work>>

\* A death between the new score and its history row leaves the row out.
StandingDie(p) ==
    /\ Die(p)
    /\ rewritten' = (rewritten \/ At(p, "persist", "history"))
    /\ UNCHANGED <<completed, userRow, history, decisions, audit, appealVars, work>>

PersistVerificationScore(p) ==
    PersistCompute(p) \/ PersistRead(p) \/ PersistUpdate(p) \/ PersistHistory(p)
RecomputeJob(p) == Recompute(p) \/ ApplyRecompute(p)
AdminStep(p) ==
    \/ \E action \in DOMAIN ModeratedTo : ModerateUser(p, action)
    \/ \E a \in DOMAIN appeals, to \in Verdicts : ResolveAppeal(p, a, to)
    \/ LogAction(p)
OwnerStep(p) ==
    \/ SetAvatar(p) \/ CreateAppeal(p)
    \/ \E subject \in Subjects : Submit(p, subject)

StandingNext ==
    \/ \E p \in Procs :
          \/ PersistVerificationScore(p) \/ RecomputeJob(p)
          \/ AdminStep(p) \/ OwnerStep(p) \/ StandingDie(p)
    \/ AccountAges

-----------------------------------------------------------------------------
StandingTypeOK ==
    /\ completed \subseteq DOMAIN Weights
    /\ score \in 0..100 /\ tier \in DOMAIN TierFloor
    /\ review \in BOOLEAN /\ status \in {ModeratedTo[a] : a \in DOMAIN ModeratedTo}
    /\ \A i \in DOMAIN history : history[i].old \in 0..100 /\ history[i].new \in 0..100
    /\ {decisions, audit} \subseteq 0..MaxWork /\ work \in 0..MaxWork
    /\ \A i \in DOMAIN appeals : appeals[i].subject \in Subjects
    /\ {rewritten, stacked} \subseteq BOOLEAN

LastScore == IF history = <<>> THEN 65 ELSE history[Len(history)].new
Recorded == \A p \in Procs : ~At(p, "persist", "history")

\* The history accounts for the score: each row begins where the one before
\* ended and the last ends at the score, with its tier, unless the API rewrote
\* the score across another writer or died before its row.  A recompute that
\* takes the score below the threshold has put the account under review, until
\* an admin decides.  Every decision has its audit row, is about to write it,
\* or died first.  And no two open appeals name a subject in common, except
\* when two were filed at once or an admin reopened one.
StandingIsOnRecord ==
    /\ tier = ScoreToTier(score)
    /\ ~rewritten =>
          /\ Recorded => LastScore = score
          /\ \A i \in 2..Len(history) : history[i].old = history[i - 1].new
    /\ \A i \in DOMAIN history :
          i = Len(history) /\ history[i].by = "worker" /\ history[i].decisions = decisions
             /\ history[i].old >= ReviewThreshold /\ history[i].new < ReviewThreshold => review
    /\ decisions - audit - Cardinality({p \in Procs : At(p, "admin", "log")}) \in 0..deaths
    /\ ~stacked =>
          \A i, j \in DOMAIN appeals :
             IsOpen(appeals[i]) /\ IsOpen(appeals[j]) /\ i # j =>
                appeals[i].subject \cap appeals[j].subject = {}

=============================================================================

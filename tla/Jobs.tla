-------------------------------- MODULE Jobs --------------------------------
(***************************************************************************)
(* Work that a request leaves for the worker in a table: data exports,     *)
(* each with a queue job of its own and a backstop that enqueues it again, *)
(* and handle propagation, whose pending rows a scan collects.  The queue  *)
(* is BullMQ: a job id is used once for as long as its job is kept, a job  *)
(* whose worker is gone, or only thought gone, is handed out again as often*)
(* as BullMQ lets a job stall, and nothing sets a number of attempts.      *)
(***************************************************************************)
EXTENDS Requests

CONSTANTS MaxRows,      \* bound on the rows of both tables
          MaxFailures,  \* bound on failures of the queue, a job or a provider
          MaxEvictions, \* bound on jobs that the queue stops keeping
          MaxStalls     \* times the queue hands a stalled job out again
ASSUME JobsAssumption == {MaxRows, MaxFailures, MaxEvictions, MaxStalls} \subseteq Nat

VARIABLES
    row,        \* per kind and user: the row's status, or Null
    exportJob,  \* per user: the queue's job data-export-<request>
    lock,       \* per user: the worker that has this job's lock, or Null
    stalls,     \* per user: how often this job has stalled
    blame,      \* per kind and user: what went wrong with that row
    failures, evictions

queueVars == <<exportJob, lock, stalls>>
jobsVars == <<row, queueVars, blame, failures, evictions>>

Kinds == {"export", "rename"}
RowStatuses == {"requested", "processing", "ready", "failed"}
JobStates == {"none", "waiting", "active", "kept"}
\* A worker's death; a throw before the claim or that the catch recorded; one
\* that left the row processing; a job that stalled once too often.
Faults == {"died", "failed", "stuck", "stalled"}
ASSUME NoRowAssumption == Null \notin RowStatuses

JobsInit ==
    /\ row = [k \in Kinds |-> [u \in Users |-> Null]]
    /\ exportJob = [u \in Users |-> "none"]
    /\ lock = [u \in Users |-> Null]
    /\ stalls = [u \in Users |-> 0]
    /\ blame = [k \in Kinds |-> [u \in Users |-> {}]]
    /\ failures = 0 /\ evictions = 0

Work(op, u, at) == [op |-> op, of |-> u, at |-> at]
RowsLeft == Cardinality({r \in Kinds \X Users : row[r[1]][r[2]] # Null}) < MaxRows
SetRow(k, u, status) == row' = [row EXCEPT ![k][u] = status]
Blame(k, u, what) == blame' = [blame EXCEPT ![k][u] = @ \cup {what}]
Failure == failures < MaxFailures /\ failures' = failures + 1

\* The claim's UPDATE throws before its commit, or its answer is lost after it.
ClaimFails(k, u, claimable) ==
    /\ Failure
    /\ \/ UNCHANGED row /\ Blame(k, u, "failed")
       \/ row[k][u] \in claimable /\ SetRow(k, u, "processing") /\ Blame(k, u, "stuck")

\* The work throws, and the catch sets the row to failed unless it throws too.
WorkFails(k, u) ==
    /\ Failure
    /\ \/ SetRow(k, u, "failed") /\ Blame(k, u, "failed")
       \/ UNCHANGED row /\ Blame(k, u, "stuck")

\* An add under an id whose job the queue still holds does nothing.
Enqueued(u) == IF exportJob[u] = "none" THEN [exportJob EXCEPT ![u] = "waiting"] ELSE exportJob
\* The worker returns or throws: without attempts a failed job is kept as well.
\* A worker that has lost the lock ends nothing.
JobEnds(p, u) ==
    /\ IF exportJob[u] = "active" /\ lock[u] = p
       THEN exportJob' = [exportJob EXCEPT ![u] = "kept"] /\ lock' = [lock EXCEPT ![u] = Null]
       ELSE UNCHANGED <<exportJob, lock>>
    /\ UNCHANGED stalls

RequestExport(p, u) ==
    /\ row.export[u] = Null /\ RowsLeft
    /\ Enter(p, Work("ask", u, "enqueue")) /\ SetRow("export", u, "requested")
    /\ UNCHANGED <<queueVars, blame, failures, evictions>>

\* The backstop scan meets a row that is still requested.
StuckExport(p, u) ==
    /\ row.export[u] = "requested"
    /\ Enter(p, Work("ask", u, "enqueue"))
    /\ UNCHANGED jobsVars

\* An outage of the queue is swallowed by the request and ends the scan.
EnqueueExport(p) ==
    /\ At(p, "ask", "enqueue") /\ Finish(p)
    /\ \/ exportJob' = Enqueued(req[p].of) /\ UNCHANGED failures
       \/ Failure /\ UNCHANGED exportJob
    /\ UNCHANGED <<row, lock, stalls, blame, evictions>>

TakeJob(p, u) ==
    /\ exportJob[u] = "waiting"
    /\ Enter(p, Work("export", u, "claim"))
    /\ exportJob' = [exportJob EXCEPT ![u] = "active"]
    /\ lock' = [lock EXCEPT ![u] = p]
    /\ UNCHANGED <<row, stalls, blame, failures, evictions>>

\* (Mutant: the claim does not look at the status.)
ClaimExportAny(p) ==
    /\ At(p, "export", "claim") /\ Goto(p, "build")
    /\ SetRow("export", req[p].of, "processing")
    /\ UNCHANGED <<queueVars, blame, failures, evictions>>

\* UPDATE .. WHERE status IN (requested, failed): only one claim has the row.
ClaimExport(p) == LET u == req[p].of IN
    /\ At(p, "export", "claim")
    /\ \/ /\ row.export[u] \in {"requested", "failed"}
          /\ SetRow("export", u, "processing") /\ Goto(p, "build")
          /\ UNCHANGED <<queueVars, blame, failures>>
       \/ /\ row.export[u] \notin {"requested", "failed"}
          /\ JobEnds(p, u) /\ Finish(p) /\ UNCHANGED <<row, blame, failures>>
       \/ ClaimFails("export", u, {"requested", "failed"}) /\ JobEnds(p, u) /\ Finish(p)
    /\ UNCHANGED evictions

\* Gather, upload, ready.
BuildExport(p) ==
    /\ At(p, "export", "build")
    /\ SetRow("export", req[p].of, "ready") /\ JobEnds(p, req[p].of) /\ Finish(p)
    /\ UNCHANGED <<blame, failures, evictions>>

\* The data, the storage or the last UPDATE fails: the job throws.
BuildFails(p) ==
    /\ At(p, "export", "build") /\ WorkFails("export", req[p].of)
    /\ JobEnds(p, req[p].of) /\ Finish(p)
    /\ UNCHANGED evictions

\* An active job whose lock has run out, its worker alive or not: it goes back,
\* or it is failed and kept.
JobStalls(u) ==
    /\ exportJob[u] = "active" /\ Failure
    /\ lock' = [lock EXCEPT ![u] = Null]
    /\ IF stalls[u] < MaxStalls
       THEN /\ exportJob' = [exportJob EXCEPT ![u] = "waiting"]
            /\ stalls' = [stalls EXCEPT ![u] = @ + 1]
            /\ UNCHANGED blame
       ELSE /\ exportJob' = [exportJob EXCEPT ![u] = "kept"]
            /\ Blame("export", u, "stalled")
            /\ UNCHANGED stalls
    /\ UNCHANGED <<row, evictions, reqVars>>

JobEvicted(u) ==
    /\ exportJob[u] = "kept" /\ evictions < MaxEvictions
    /\ exportJob' = [exportJob EXCEPT ![u] = "none"]
    /\ stalls' = [stalls EXCEPT ![u] = 0]
    /\ evictions' = evictions + 1
    /\ UNCHANGED <<row, lock, blame, failures, reqVars>>

\* changeHandle: the new handle and the row that announces it.
QueueRename(u) ==
    /\ row.rename[u] = Null /\ RowsLeft /\ SetRow("rename", u, "requested")
    /\ UNCHANGED <<queueVars, blame, failures, evictions, reqVars>>

\* The scan has read this row as pending; it may claim it much later.
ScanRenames(p, u) ==
    /\ row.rename[u] = "requested"
    /\ Enter(p, Work("rename", u, "claim"))
    /\ UNCHANGED jobsVars

ClaimRename(p) == LET u == req[p].of IN
    /\ At(p, "rename", "claim")
    /\ \/ /\ row.rename[u] = "requested"
          /\ SetRow("rename", u, "processing") /\ Goto(p, "upsert")
          /\ UNCHANGED <<blame, failures>>
       \/ /\ row.rename[u] # "requested"
          /\ Finish(p) /\ UNCHANGED <<row, blame, failures>>
       \/ ClaimFails("rename", u, {"requested"}) /\ Finish(p)
    /\ UNCHANGED <<queueVars, evictions>>

\* The identity is upserted at the media provider, or something throws.
PropagateRename(p) == LET u == req[p].of IN
    /\ At(p, "rename", "upsert") /\ Finish(p)
    /\ \/ SetRow("rename", u, "ready") /\ UNCHANGED <<blame, failures>>
       \/ WorkFails("rename", u)
    /\ UNCHANGED <<queueVars, evictions>>

JobsDie(p) ==
    /\ Die(p)
    /\ IF req[p].op \in Kinds THEN Blame(req[p].op, req[p].of, "died") ELSE UNCHANGED blame
    /\ UNCHANGED <<row, queueVars, failures, evictions>>

JobsNext ==
    \/ \E p \in Procs :
          \/ EnqueueExport(p) \/ ClaimExport(p) \/ BuildExport(p) \/ BuildFails(p)
          \/ ClaimRename(p) \/ PropagateRename(p) \/ JobsDie(p)
          \/ \E u \in Users :
                RequestExport(p, u) \/ StuckExport(p, u) \/ TakeJob(p, u) \/ ScanRenames(p, u)
    \/ \E u \in Users : JobStalls(u) \/ JobEvicted(u) \/ QueueRename(u)

-----------------------------------------------------------------------------
JobsTypeOK ==
    /\ row \in [Kinds -> [Users -> RowStatuses \cup {Null}]]
    /\ exportJob \in [Users -> JobStates]
    /\ lock \in [Users -> Procs \cup {Null}] /\ stalls \in [Users -> 0..MaxStalls]
    /\ blame \in [Kinds -> [Users -> SUBSET Faults]]
    /\ failures \in 0..MaxFailures /\ evictions \in 0..MaxEvictions

Workers(k, u) == {p \in Procs : req[p].op = k /\ req[p].of = u /\ req[p].at # "claim"}

\* A row is worked by one worker at a time, by one exactly while it says so
\* and by none once it is done: although its job is handed out twice and scans
\* overlap.  Only a worker's death, a claim whose answer is lost or a catch that
\* throws too leaves it processing for good (no claim takes it from there); only
\* a failure leaves it failed; and only a failed claim or a job that stalled too
\* often leaves a kept job that makes the backstop deaf.  In every other state a
\* row not yet ready has a job, or a scan that will still find it.
RowsAreWorkedOnce ==
    \A k \in Kinds, u \in Users :
       /\ Workers(k, u) # {} => row[k][u] = "processing" /\ Cardinality(Workers(k, u)) = 1
       /\ row[k][u] = "processing" => Workers(k, u) # {} \/ {"died", "stuck"} \cap blame[k][u] # {}
       /\ row[k][u] = "failed" => "failed" \in blame[k][u]
       /\ k = "export" /\ row[k][u] = "requested" /\ exportJob[u] = "kept" =>
             {"failed", "stalled"} \cap blame[k][u] # {}

=============================================================================

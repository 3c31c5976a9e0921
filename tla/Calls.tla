------------------------------- MODULE Calls -------------------------------
(***************************************************************************)
(* In-app calls: a call row starts ringing, and the callee, either         *)
(* participant's `end`, and the worker's ring-timeout job race to move it. *)
(* Every move is one conditional UPDATE, but `end` picks its UPDATE from a *)
(* row it read before, and the job runs late, or twice.                    *)
(*                                                                         *)
(* One member of Dials stands for one call of the initiate route; the two  *)
(* participants are its roles.  A clock tick is the unit RingTimeout is    *)
(* counted in.  Names carry the component so that it can be composed.      *)
(***************************************************************************)
EXTENDS Integers

CONSTANTS
    Dials,          \* calls that can be initiated
    Handlers,       \* API requests in flight
    NoValue,        \* SQL NULL / no row
    RingTimeout,    \* RING_TIMEOUT_SECONDS, in ticks
    StatementWait,  \* how long an UPDATE can wait for the row (its now() is older)
    LastTick,       \* bound on the clock while no job is due
    MaxLost,        \* bound on the API requests that die half way
    MaxStalls       \* times the queue hands a stalled job out again

ASSUME CallsBounds ==
    /\ RingTimeout \in Nat \ {0}
    /\ {StatementWait, LastTick, MaxLost, MaxStalls} \subseteq Nat
    /\ NoValue \notin Nat

VARIABLES
    callRow,    \* calls: [Dials -> row, or NoValue]
    ringJob,    \* the ring-timeout job of each call
    queueUp,    \* Redis answers the queue client
    handler,    \* [Handlers -> where the request is]
    clock,
    lost        \* API requests that have died so far

callVars == <<callRow, ringJob, queueUp, handler, clock, lost>>

Unanswered == {"ringing"}
Over       == {"declined", "missed", "ended"}
Moment     == Nat \cup {NoValue}

CallRow == [status: Unanswered \cup {"answered"} \cup Over,
            createdAt: Nat, startedAt: Moment, endedAt: Moment, duration: Moment]

\* SQL NULL is no row.
ASSUME NullIsNoRow == NoValue \notin CallRow

Reasons == {"declined", "missed", "none"}

NoRequest == [pc |-> "idle"]
CallRequests ==
         {NoRequest}
    \cup [pc: {"create", "enqueue"}, call: Dials]
    \cup [pc: {"decline", "miss", "finish"}, call: Dials, reason: Reasons]

NoJob == [pc |-> "none", due |-> 0, stalls |-> 0]
RingJobs == [pc: {"none", "delayed", "active", "updated", "done", "failed"},
             due: Nat, stalls: 0 .. MaxStalls]

CallsTypeOK ==
    /\ callRow \in [Dials -> CallRow \cup {NoValue}]
    /\ ringJob \in [Dials -> RingJobs]
    /\ queueUp \in BOOLEAN
    /\ handler \in [Handlers -> CallRequests]
    /\ clock \in Nat
    /\ lost \in 0 .. MaxLost

CallsInit ==
    /\ callRow = [c \in Dials |-> NoValue]
    /\ ringJob = [c \in Dials |-> NoJob]
    /\ queueUp = TRUE
    /\ handler = [h \in Handlers |-> NoRequest]
    /\ clock = 0
    /\ lost = 0

Exists(c)   == callRow[c] # NoValue
Ringing(c)  == Exists(c) /\ callRow[c].status \in Unanswered
IsOver(c)   == Exists(c) /\ callRow[c].status \in Over
On(h, pc)   == handler[h].pc = pc
Finish(h)   == handler' = [handler EXCEPT ![h] = NoRequest]
GoOn(h, pc) == handler' = [handler EXCEPT ![h].pc = pc]

\* now() is the moment the statement began, before any wait for the row.
Now(c) == {t \in callRow[c].createdAt .. clock : t + StatementWait >= clock}

-----------------------------------------------------------------------------
(* The conditional UPDATEs of calls.repository.ts.                         *)

markAnswered(c) ==
    /\ Ringing(c)
    /\ \E t \in Now(c) :
          callRow' = [callRow EXCEPT ![c].status = "answered", ![c].startedAt = t]

MovedTo(c, status, t) ==
    callRow' = [callRow EXCEPT ![c].status = status, ![c].endedAt = t]

markDeclined(c) == Ringing(c) /\ \E t \in Now(c) : MovedTo(c, "declined", t)

markMissedIfUnanswered(c) == Ringing(c) /\ \E t \in Now(c) : MovedTo(c, "missed", t)

\* (Mutant: without GREATEST.)
SignedTalkTime(row, t) == IF row.startedAt = NoValue THEN 0 ELSE t - row.startedAt

\* GREATEST(0, COALESCE(now() - started_at, 0))
TalkTime(row, t) ==
    IF row.startedAt = NoValue \/ t < row.startedAt THEN 0 ELSE t - row.startedAt

markEnded(c) ==
    /\ Exists(c) /\ ~IsOver(c)
    /\ \E t \in Now(c) :
          callRow' = [callRow EXCEPT ![c].status = "ended", ![c].endedAt = t,
                                     ![c].duration = TalkTime(callRow[c], t)]

-----------------------------------------------------------------------------
(* initiate                                                                *)

\* The callee is active, is not the caller and has not blocked the caller; the
\* media provider has both users.
InitiateChecked(h, c) ==
    /\ On(h, "idle")
    /\ ~Exists(c) /\ \A g \in Handlers : ~On(g, "idle") => handler[g].call # c
    /\ handler' = [handler EXCEPT ![h] = [pc |-> "create", call |-> c]]
    /\ UNCHANGED <<callRow, ringJob, queueUp, clock, lost>>

CreateCall(h) ==
    /\ On(h, "create")
    /\ callRow' = [callRow EXCEPT ![handler[h].call] =
                     [status |-> "ringing", createdAt |-> clock,
                      startedAt |-> NoValue, endedAt |-> NoValue,
                      duration |-> NoValue]]
    /\ GoOn(h, "enqueue")
    /\ UNCHANGED <<ringJob, queueUp, clock, lost>>

\* (Mutant: the request waits for the job's result.)
EnqueueAndWait(h) ==
    LET c == handler[h].call
    IN  /\ On(h, "enqueue")
        /\ queueUp
        /\ IF ringJob[c] = NoJob
           THEN /\ ringJob' = [ringJob EXCEPT ![c] = [pc |-> "delayed",
                                 due |-> clock + RingTimeout, stalls |-> 0]]
                /\ UNCHANGED handler
           ELSE ringJob[c].pc = "done" /\ Finish(h) /\ UNCHANGED ringJob
        /\ UNCHANGED <<callRow, queueUp, clock, lost>>

\* The queue client has no retry limit: while Redis is away the call to add
\* waits.  An error Redis answers with is caught and logged.
Enqueue(h) ==
    /\ On(h, "enqueue")
    /\ queueUp
    /\ \/ ringJob' = [ringJob EXCEPT ![handler[h].call] =
                        [pc |-> "delayed", due |-> clock + RingTimeout, stalls |-> 0]]
       \/ UNCHANGED ringJob
    /\ Finish(h)
    /\ UNCHANGED <<callRow, queueUp, clock, lost>>

-----------------------------------------------------------------------------
(* answer, decline and end                                                 *)

\* Only the callee passes the check; a call that is no longer ringing is
\* refused and left alone.
Answer(c) ==
    /\ markAnswered(c)
    /\ UNCHANGED <<ringJob, queueUp, handler, clock, lost>>

Decline(c) ==
    /\ markDeclined(c)
    /\ UNCHANGED <<ringJob, queueUp, handler, clock, lost>>

\* (Mutant: the reason is ignored, as the comment in end says it once was.)
EndStartIgnoringReason(h, c, reason) ==
    /\ On(h, "idle")
    /\ Exists(c)
    /\ handler' = [handler EXCEPT ![h] = [call |-> c, reason |-> reason, pc |-> "finish"]]
    /\ UNCHANGED <<callRow, ringJob, queueUp, clock, lost>>

\* The row is read, and with the reason it decides which UPDATE is tried.
EndStart(h, c, reason) ==
    /\ On(h, "idle")
    /\ Exists(c)
    /\ handler' = [handler EXCEPT ![h] =
                     [call |-> c, reason |-> reason,
                      pc |-> CASE Ringing(c) /\ reason = "declined" -> "decline"
                               [] Ringing(c) /\ reason = "missed"   -> "miss"
                               [] OTHER                             -> "finish"]]
    /\ UNCHANGED <<callRow, ringJob, queueUp, clock, lost>>

\* Another request moved the row first: fall through to markEnded.
EndDecline(h) ==
    /\ On(h, "decline")
    /\ IF Ringing(handler[h].call)
       THEN markDeclined(handler[h].call) /\ Finish(h)
       ELSE GoOn(h, "finish") /\ UNCHANGED callRow
    /\ UNCHANGED <<ringJob, queueUp, clock, lost>>

\* (Mutant: a lost race is taken for an outcome; markEnded is not tried.)
EndMissWithoutFallThrough(h) ==
    /\ On(h, "miss")
    /\ IF Ringing(handler[h].call)
       THEN markMissedIfUnanswered(handler[h].call)
       ELSE UNCHANGED callRow
    /\ Finish(h)
    /\ UNCHANGED <<ringJob, queueUp, clock, lost>>

EndMiss(h) ==
    /\ On(h, "miss")
    /\ IF Ringing(handler[h].call)
       THEN markMissedIfUnanswered(handler[h].call) /\ Finish(h)
       ELSE GoOn(h, "finish") /\ UNCHANGED callRow
    /\ UNCHANGED <<ringJob, queueUp, clock, lost>>

EndFinish(h) ==
    /\ On(h, "finish")
    /\ IF IsOver(handler[h].call)
       THEN UNCHANGED callRow
       ELSE markEnded(handler[h].call)
    /\ Finish(h)
    /\ UNCHANGED <<ringJob, queueUp, clock, lost>>

-----------------------------------------------------------------------------
(* The worker's ring-timeout job.                                          *)

JobStep(c, from, to) ==
    /\ ringJob[c].pc = from
    /\ ringJob' = [ringJob EXCEPT ![c].pc = to]
    /\ UNCHANGED <<queueUp, handler, clock, lost>>

RingTimeoutStarts(c) ==
    /\ queueUp /\ ringJob[c].due <= clock
    /\ JobStep(c, "delayed", "active")
    /\ UNCHANGED callRow

\* (Mutant: the job's UPDATE does not look at the status.)
RingTimeoutOverwrites(c) ==
    /\ JobStep(c, "active", "updated")
    /\ \E t \in Now(c) : MovedTo(c, "missed", t)

RingTimeoutUpdates(c) ==
    /\ JobStep(c, "active", "updated")
    /\ IF Ringing(c) THEN markMissedIfUnanswered(c) ELSE UNCHANGED callRow

RingTimeoutCompletes(c) ==
    /\ queueUp
    /\ JobStep(c, "updated", "done")
    /\ UNCHANGED callRow

\* The UPDATE throws: jobs are added without attempts, so it is never retried.
RingTimeoutFails(c) ==
    /\ JobStep(c, "active", "failed")
    /\ UNCHANGED callRow

\* (Mutant: a stalled job counts as done.)
WorkerDiesWithJob(c) ==
    /\ ringJob[c].pc \in {"active", "updated"}
    /\ ringJob' = [ringJob EXCEPT ![c].pc = "done"]
    /\ UNCHANGED <<callRow, queueUp, handler, clock, lost>>

\* (Mutant: a stalled job is handed out for ever.)
WorkerDiesUncounted(c) ==
    /\ ringJob[c].pc \in {"active", "updated"}
    /\ ringJob' = [ringJob EXCEPT ![c].pc = "delayed", ![c].stalls = @ + 1]
    /\ UNCHANGED <<callRow, queueUp, handler, clock, lost>>

\* The worker dies with the job: the queue hands it out again, a bounded
\* number of times.
WorkerDies(c) ==
    /\ ringJob[c].pc \in {"active", "updated"}
    /\ \/ /\ ringJob[c].stalls < MaxStalls
          /\ ringJob' = [ringJob EXCEPT ![c].pc = "delayed", ![c].stalls = @ + 1]
       \/ /\ ringJob[c].stalls = MaxStalls
          /\ ringJob' = [ringJob EXCEPT ![c].pc = "failed"]
    /\ UNCHANGED <<callRow, queueUp, handler, clock, lost>>

-----------------------------------------------------------------------------
(* The surroundings.                                                       *)

Tick ==
    /\ clock < LastTick \/ \E c \in Dials : ringJob[c].pc = "delayed" /\ clock < ringJob[c].due
    /\ clock' = clock + 1
    /\ UNCHANGED <<callRow, ringJob, queueUp, handler, lost>>

QueueGoes ==
    /\ queueUp
    /\ queueUp' = FALSE
    /\ UNCHANGED <<callRow, ringJob, handler, clock, lost>>

QueueComesBack ==
    /\ ~queueUp
    /\ queueUp' = TRUE
    /\ UNCHANGED <<callRow, ringJob, handler, clock, lost>>

RequestDies(h) ==
    /\ ~On(h, "idle")
    /\ lost < MaxLost
    /\ lost' = lost + 1
    /\ Finish(h)
    /\ UNCHANGED <<callRow, ringJob, queueUp, clock>>

RequestStep(h) ==
    \/ CreateCall(h) \/ Enqueue(h)
    \/ EndDecline(h) \/ EndMiss(h) \/ EndFinish(h)

JobNext(c) ==
    \/ RingTimeoutStarts(c) \/ RingTimeoutUpdates(c) \/ RingTimeoutCompletes(c)

CallsNext ==
    \/ Tick \/ QueueGoes \/ QueueComesBack
    \/ \E h \in Handlers :
          \/ RequestStep(h) \/ RequestDies(h)
          \/ \E c \in Dials :
                \/ InitiateChecked(h, c)
                \/ \E reason \in Reasons : EndStart(h, c, reason)
    \/ \E c \in Dials :
          \/ Answer(c) \/ Decline(c)
          \/ JobNext(c) \/ RingTimeoutFails(c) \/ WorkerDies(c)

CallsSpec == CallsInit /\ [][CallsNext]_callVars

(***************************************************************************)
(* Time passes, a live request and a live worker go on (also when Redis    *)
(* comes and goes), and an outage ends.  No participant has to answer,     *)
(* decline or end.                                                         *)
(***************************************************************************)
CallsFairness ==
    /\ WF_callVars(Tick)
    /\ WF_callVars(QueueComesBack)
    /\ \A h \in Handlers : SF_callVars(RequestStep(h))
    /\ \A c \in Dials : SF_callVars(JobNext(c))

FairCallsSpec == CallsSpec /\ CallsFairness

-----------------------------------------------------------------------------
(* Properties.                                                             *)

\* The call log tells the truth about the talk: a declined or missed call was
\* never answered, an ended one that was never answered has no talk time, and
\* no talk time is longer than the call existed, whichever of answer, decline,
\* end and timeout came first and however long their statements waited.
LogIsTrue ==
    \A c \in Dials :
        LET row == callRow[c]
        IN  Exists(c) =>
              /\ (row.status \in {"ringing", "declined", "missed"}) =>
                    row.startedAt = NoValue
              /\ row.status = "answered" => row.endedAt = NoValue
              /\ row.status = "ended" =>
                    /\ row.duration \in 0 .. (row.endedAt - row.createdAt)
                    /\ row.startedAt = NoValue => row.duration = 0

\* A finished call stays as it was recorded: a second end, a late answer and a
\* job that runs late or twice change nothing ("a double end is a no-op").
OverIsFinal ==
    [][\A c \in Dials : IsOver(c) => callRow'[c] = callRow[c]]_callVars

\* An outcome is recorded only for its own cause.  In particular no end that
\* gave a reason stores an unanswered call as 'ended', which would show a
\* decline as a missed call, and no call is missed before its time unless a
\* participant said so.
EndedBy(c, reasons) ==
    \E h \in Handlers :
        /\ ~On(h, "idle") /\ handler'[h] = NoRequest
        /\ handler[h].pc \in {"decline", "miss", "finish"}
        /\ handler[h].call = c /\ handler[h].reason \in reasons

OutcomeHasItsCause ==
    [][\A c \in Dials :
          /\ Ringing(c) /\ callRow'[c].status = "missed" =>
                clock >= callRow[c].createdAt + RingTimeout \/ EndedBy(c, {"missed"})
          /\ Ringing(c) /\ callRow'[c].status = "ended" => EndedBy(c, {"none"})
          /\ Exists(c) /\ ~Ringing(c) /\ callRow'[c] # callRow[c] =>
                EndedBy(c, Reasons)]_callVars

\* When an end request gets its answer the call is over, also when the row it
\* had read was out of date (a call answered while its caller gave up).
EndTakesEffect ==
    [][\A h \in Handlers :
          /\ handler[h].pc \in {"decline", "miss", "finish"}
          /\ handler'[h] = NoRequest /\ lost' = lost
          => callRow'[handler[h].call].status \in Over]_callVars

\* A call whose timeout was scheduled stops ringing even if no client ever
\* says a word, unless the job itself fails ("the backstop for a callee who
\* never answered and a client that never sent decline/end").
BackstopFires ==
    \A c \in Dials :
        ringJob[c].pc = "delayed" ~> ~Ringing(c) \/ ringJob[c].pc = "failed"

\* Placing a call is answered in the end, whatever happens to the queue while
\* the timeout is being scheduled, provided an outage ends.
InitiateResponds ==
    \A h \in Handlers : handler[h].pc \in {"create", "enqueue"} ~> On(h, "idle")

=============================================================================

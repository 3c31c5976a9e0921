---------------------------- MODULE CallsProofs ----------------------------
(***************************************************************************)
(* Proofs that the log of in-app calls is truthful and final for any       *)
(* number of calls and requests, any ring timeout and any statement wait.  *)
(*                                                                         *)
(* The properties are not inductive: that a call is missed in time depends *)
(* on when its job was scheduled, that a finished call stays finished on   *)
(* nobody being about to create its row.  CallsInv adds what the rows, the *)
(* requests half way through and the jobs know of each other.              *)
(***************************************************************************)
EXTENDS Calls, TLAPS

\* A row in its life: when it was created, answered, finished.
RowInOrder(row) ==
    /\ row.createdAt <= clock
    /\ row.status \in Unanswered \cup {"answered"} => row.endedAt = NoValue
    /\ row.status \in Unanswered \cup {"declined", "missed"} => row.startedAt = NoValue
    /\ row.startedAt # NoValue => row.createdAt <= row.startedAt
    /\ row.status = "ended" =>
          /\ row.endedAt \in Nat
          /\ row.duration \in 0 .. (row.endedAt - row.createdAt)
          /\ row.startedAt = NoValue => row.duration = 0

RowsInOrder == \A c \in Dials : Exists(c) => RowInOrder(callRow[c])

\* Only one request can be about to create a call, and nothing else knows of
\* that call yet; every other request is about a call that has its row.
RequestsHaveRows ==
    \A h \in Handlers :
        /\ On(h, "create") =>
              /\ ~Exists(handler[h].call)
              /\ ringJob[handler[h].call] = NoJob
              /\ \A g \in Handlers \ {h} :
                    ~On(g, "idle") => handler[g].call # handler[h].call
        /\ ~On(h, "idle") /\ ~On(h, "create") => Exists(handler[h].call)

\* A job is due no sooner than the timeout after its call, and runs when due.
JobsAreDue ==
    \A c \in Dials :
        /\ ringJob[c].pc # "none" =>
              Exists(c) /\ ringJob[c].due >= callRow[c].createdAt + RingTimeout
        /\ ringJob[c].pc = "none" => ringJob[c] = NoJob
        /\ ringJob[c].pc = "active" => ringJob[c].due <= clock

CallsInv == CallsTypeOK /\ RowsInOrder /\ RequestsHaveRows /\ JobsAreDue

-----------------------------------------------------------------------------
(* Type correctness.                                                       *)

\* The row of c moved to a status: still a row in order, of the same age.
RowMoved(c, statuses) ==
    \E r \in CallRow :
        /\ callRow' = [callRow EXCEPT ![c] = r]
        /\ r.status \in statuses
        /\ r.createdAt = callRow[c].createdAt
        /\ RowInOrder(r)

\* What each conditional UPDATE does to the row it moves, and that it leaves
\* the others alone.
LEMMA RowMoves ==
    ASSUME CallsTypeOK, RowsInOrder, NEW c \in Dials
    PROVE  /\ markAnswered(c) => RowMoved(c, {"answered"})
           /\ markDeclined(c) => RowMoved(c, {"declined"})
           /\ markMissedIfUnanswered(c) => RowMoved(c, {"missed"})
           /\ markEnded(c) => RowMoved(c, {"ended"})
<1> DEFINE row == callRow[c]
<1>1. ASSUME Exists(c)
      PROVE  row \in CallRow /\ RowInOrder(row)
  BY <1>1 DEF CallsTypeOK, Exists, RowsInOrder
<1>2. ASSUME Exists(c), NEW t \in Now(c)
      PROVE  t \in Nat /\ row.createdAt <= t /\ t <= clock
  BY <1>1, <1>2 DEF Now, CallsTypeOK, CallRow
<1>3. ASSUME markAnswered(c) PROVE RowMoved(c, {"answered"})
  <2>1. PICK t \in Now(c) :
           callRow' = [callRow EXCEPT ![c].status = "answered", ![c].startedAt = t]
    BY <1>3 DEF markAnswered
  <2> DEFINE r == [row EXCEPT !.status = "answered", !.startedAt = t]
  <2>2. callRow' = [callRow EXCEPT ![c] = r]
    BY <2>1 DEF CallsTypeOK
  <2>3. row.status = "ringing" /\ Exists(c)
    BY <1>3 DEF markAnswered, Ringing, Unanswered
  <2>4. r \in CallRow
    BY <2>3, <1>1, <1>2 DEF CallRow, Moment
  <2>5. r.status = "answered" /\ r.createdAt = row.createdAt /\ RowInOrder(r)
    BY <2>3, <1>1, <1>2, CallsBounds DEF CallRow, Moment, RowInOrder, Unanswered
  <2> QED BY <2>2, <2>4, <2>5 DEF RowMoved
<1>4. ASSUME NEW status \in {"declined", "missed"}, Ringing(c), NEW t \in Now(c),
             MovedTo(c, status, t)
      PROVE  RowMoved(c, {status})
  <2> DEFINE r == [row EXCEPT !.status = status, !.endedAt = t]
  <2>1. callRow' = [callRow EXCEPT ![c] = r]
    BY <1>4 DEF CallsTypeOK, MovedTo
  <2>2. row.status = "ringing" /\ Exists(c)
    BY <1>4 DEF Ringing, Unanswered
  <2>3. r \in CallRow
    BY <2>2, <1>1, <1>2 DEF CallRow, Moment, Over
  <2>4. r.status = status /\ r.createdAt = row.createdAt /\ RowInOrder(r)
    BY <2>2, <1>1, <1>2, CallsBounds DEF CallRow, Moment, RowInOrder, Unanswered
  <2> QED BY <2>1, <2>3, <2>4 DEF RowMoved
<1>5. ASSUME markDeclined(c) PROVE RowMoved(c, {"declined"})
  BY <1>4, <1>5 DEF markDeclined
<1>6. ASSUME markMissedIfUnanswered(c) PROVE RowMoved(c, {"missed"})
  BY <1>4, <1>6 DEF markMissedIfUnanswered
<1>7. ASSUME markEnded(c) PROVE RowMoved(c, {"ended"})
  <2>1. PICK t \in Now(c) :
           callRow' = [callRow EXCEPT ![c].status = "ended", ![c].endedAt = t,
                                      ![c].duration = TalkTime(callRow[c], t)]
    BY <1>7 DEF markEnded
  <2> DEFINE talk == TalkTime(row, t)
             r    == [row EXCEPT !.status = "ended", !.endedAt = t, !.duration = talk]
  <2>2. callRow' = [callRow EXCEPT ![c] = r]
    BY <2>1 DEF CallsTypeOK
  <2>3. row.status \in {"ringing", "answered"} /\ Exists(c)
    BY <1>7, <1>1 DEF markEnded, IsOver, CallRow, Unanswered, Over
  <2>4. talk \in 0 .. (t - row.createdAt) /\ (row.startedAt = NoValue => talk = 0)
    BY <2>3, <1>1, <1>2, CallsBounds DEF TalkTime, CallRow, Moment, RowInOrder
  <2> HIDE DEF talk
  <2>5. r \in CallRow
    <3>1. t \in Nat /\ row.createdAt \in Nat /\ row.createdAt <= t
      BY <2>3, <1>1, <1>2 DEF CallRow
    <3>2. talk \in Nat
      BY <3>1, <2>4
    <3> QED BY <2>3, <3>1, <3>2, <1>1 DEF CallRow, Moment, Over
  <2>6. r.status = "ended" /\ r.createdAt = row.createdAt /\ RowInOrder(r)
    BY <2>3, <2>4, <1>1, <1>2 DEF CallRow, Moment, RowInOrder, Unanswered
  <2> QED BY <2>2, <2>5, <2>6 DEF RowMoved
<1> QED BY <1>3, <1>5, <1>6, <1>7

LEMMA CallsTypeInit == CallsInit => CallsTypeOK
  BY CallsBounds DEF CallsInit, CallsTypeOK, NoRequest, CallRequests, NoJob, RingJobs

\* Every request that is not idle is about a dial.
LEMMA RequestIsTyped ==
    ASSUME CallsTypeOK, NEW h \in Handlers, ~On(h, "idle")
    PROVE  /\ handler[h].call \in Dials
           /\ handler[h].pc \in {"create", "enqueue", "decline", "miss", "finish"}
           /\ handler[h].pc \in {"decline", "miss", "finish"} => handler[h].reason \in Reasons
  BY DEF CallsTypeOK, CallRequests, NoRequest, On

LEMMA CallsTypeStep ==
    ASSUME CallsTypeOK, RowsInOrder, [CallsNext]_callVars
    PROVE  CallsTypeOK'
<1> USE CallsBounds
<1>1. CASE UNCHANGED callVars
  BY <1>1 DEF CallsTypeOK, callVars
<1>2. CASE Tick \/ QueueGoes \/ QueueComesBack
  <2>1. CASE Tick
    BY <2>1 DEF Tick, CallsTypeOK
  <2>2. CASE QueueGoes \/ QueueComesBack
    BY <2>2, ZenonT(30) DEF QueueGoes, QueueComesBack, CallsTypeOK
  <2> QED BY <1>2, <2>1, <2>2
<1>3. ASSUME NEW h \in Handlers, CreateCall(h)
      PROVE  CallsTypeOK'
  <2>1. handler[h].call \in Dials /\ handler[h] \in [pc: {"create", "enqueue"}, call: Dials]
    BY <1>3 DEF CreateCall, On, CallsTypeOK, CallRequests, NoRequest
  <2>2. callRow' \in [Dials -> CallRow \cup {NoValue}]
    BY <1>3, <2>1 DEF CreateCall, CallsTypeOK, CallRow, Moment, Unanswered
  <2>3. handler' \in [Handlers -> CallRequests]
    BY <1>3, <2>1 DEF CreateCall, GoOn, CallsTypeOK, CallRequests
  <2> QED BY <1>3, <2>2, <2>3 DEF CreateCall, CallsTypeOK
<1>4. ASSUME NEW h \in Handlers, Enqueue(h)
      PROVE  CallsTypeOK'
  <2>1. handler[h].call \in Dials
    BY <1>4, RequestIsTyped DEF Enqueue, On
  <2>2. clock + RingTimeout \in Nat
    BY DEF CallsTypeOK
  <2>3. ringJob' \in [Dials -> RingJobs]
    BY <1>4, <2>1, <2>2 DEF Enqueue, CallsTypeOK, RingJobs
  <2> QED BY <1>4, <2>3 DEF Enqueue, Finish, CallsTypeOK, CallRequests
<1>5. ASSUME NEW h \in Handlers, EndDecline(h) \/ EndMiss(h) \/ EndFinish(h)
      PROVE  CallsTypeOK'
  <2>1. /\ handler[h].call \in Dials
        /\ handler[h] \in [pc: {"decline", "miss", "finish"}, call: Dials, reason: Reasons]
    BY <1>5 DEF EndDecline, EndMiss, EndFinish, On, CallsTypeOK, CallRequests, NoRequest
  <2>2. callRow' \in [Dials -> CallRow \cup {NoValue}]
    BY <1>5, <2>1, RowMoves DEF RowMoved, EndDecline, EndMiss, EndFinish, CallsTypeOK
  <2>3. handler' \in [Handlers -> CallRequests]
    BY <1>5, <2>1 DEF EndDecline, EndMiss, EndFinish, Finish, GoOn, CallsTypeOK, CallRequests
  <2> QED BY <1>5, <2>2, <2>3 DEF EndDecline, EndMiss, EndFinish, CallsTypeOK
<1>6. ASSUME NEW h \in Handlers, RequestDies(h)
      PROVE  CallsTypeOK'
  BY <1>6 DEF RequestDies, Finish, CallsTypeOK, CallRequests
<1>7. ASSUME NEW h \in Handlers, NEW c \in Dials, InitiateChecked(h, c)
      PROVE  CallsTypeOK'
  BY <1>7 DEF InitiateChecked, CallsTypeOK, CallRequests
<1>8. ASSUME NEW h \in Handlers, NEW c \in Dials, NEW reason \in Reasons,
             EndStart(h, c, reason)
      PROVE  CallsTypeOK'
  BY <1>8 DEF EndStart, CallsTypeOK, CallRequests
<1>9. ASSUME NEW c \in Dials, Answer(c) \/ Decline(c)
      PROVE  CallsTypeOK'
  BY <1>9, RowMoves DEF RowMoved, Answer, Decline, CallsTypeOK
<1>10. ASSUME NEW c \in Dials, JobNext(c) \/ RingTimeoutFails(c)
       PROVE  CallsTypeOK'
  <2>1. callRow' \in [Dials -> CallRow \cup {NoValue}]
    BY <1>10, RowMoves
    DEF RowMoved, JobNext, RingTimeoutStarts, RingTimeoutUpdates, RingTimeoutCompletes,
        RingTimeoutFails, CallsTypeOK
  <2>2. PICK pc \in {"active", "updated", "done", "failed"} :
           ringJob' = [ringJob EXCEPT ![c].pc = pc]
    BY <1>10
    DEF JobNext, RingTimeoutStarts, RingTimeoutUpdates, RingTimeoutCompletes,
        RingTimeoutFails, JobStep
  <2>3. ringJob' \in [Dials -> RingJobs]
    BY <2>2 DEF CallsTypeOK, RingJobs
  <2> QED
    BY <1>10, <2>1, <2>3
    DEF JobNext, RingTimeoutStarts, RingTimeoutUpdates, RingTimeoutCompletes,
        RingTimeoutFails, JobStep, CallsTypeOK
<1>11. ASSUME NEW c \in Dials, WorkerDies(c)
       PROVE  CallsTypeOK'
  <2>1. ringJob[c] \in RingJobs /\ MaxStalls \in Nat
    BY DEF CallsTypeOK
  <2>2. CASE ringJob' = [ringJob EXCEPT ![c].pc = "failed"]
    BY <1>11, <2>1, <2>2 DEF WorkerDies, CallsTypeOK, RingJobs
  <2>3. CASE /\ ringJob[c].stalls < MaxStalls
             /\ ringJob' = [ringJob EXCEPT ![c].pc = "delayed", ![c].stalls = @ + 1]
    BY <1>11, <2>1, <2>3 DEF WorkerDies, CallsTypeOK, RingJobs
  <2> QED BY <1>11, <2>2, <2>3 DEF WorkerDies
<1> QED
  BY <1>1, <1>2, <1>3, <1>4, <1>5, <1>6, <1>7, <1>8, <1>9, <1>10, <1>11
  DEF CallsNext, RequestStep

-----------------------------------------------------------------------------
(* The rows.                                                               *)

\* Every step leaves the rows alone, creates one, or moves one that was not
\* over; and time does not run backwards.
LEMMA RowChanges ==
    ASSUME CallsTypeOK, RowsInOrder, [CallsNext]_callVars
    PROVE  /\ clock \in Nat /\ clock' \in Nat /\ clock <= clock'
           /\ \/ callRow' = callRow
              \/ \E h \in Handlers : CreateCall(h)
              \/ /\ clock' = clock
                 /\ \E c \in Dials : /\ Exists(c) /\ ~IsOver(c)
                                     /\ RowMoved(c, {"answered"} \cup Over)
<1> DEFINE Goal ==
              \/ callRow' = callRow
              \/ \E h \in Handlers : CreateCall(h)
              \/ /\ clock' = clock
                 /\ \E c \in Dials : /\ Exists(c) /\ ~IsOver(c)
                                     /\ RowMoved(c, {"answered"} \cup Over)
<1>1. clock \in Nat /\ clock' \in Nat /\ clock <= clock'
  <2>1. clock' = clock \/ clock' = clock + 1
    BY DEF CallsNext, callVars, Tick, QueueGoes, QueueComesBack, RequestStep,
           CreateCall, Enqueue, EndDecline, EndMiss, EndFinish, RequestDies,
           InitiateChecked, EndStart, Answer, Decline, JobNext, RingTimeoutStarts,
           RingTimeoutUpdates, RingTimeoutCompletes, RingTimeoutFails, JobStep,
           WorkerDies
  <2> QED BY <2>1 DEF CallsTypeOK
<1>2. ASSUME NEW c \in Dials, clock' = clock,
             markAnswered(c) \/ markDeclined(c) \/ markMissedIfUnanswered(c) \/ markEnded(c)
      PROVE  Goal
  <2>1. Exists(c) /\ ~IsOver(c)
    BY <1>2 DEF markAnswered, markDeclined, markMissedIfUnanswered, markEnded,
                Ringing, IsOver, Unanswered, Over
  <2>2. RowMoved(c, {"answered"} \cup Over)
    BY <1>2, RowMoves DEF RowMoved, Over
  <2> QED BY <1>2, <2>1, <2>2
<1>3. ASSUME NEW h \in Handlers, EndDecline(h) \/ EndMiss(h) \/ EndFinish(h)
      PROVE  Goal
  <2>1. handler[h].call \in Dials /\ clock' = clock
    BY <1>3, RequestIsTyped DEF EndDecline, EndMiss, EndFinish, On
  <2> QED BY <1>2, <1>3, <2>1 DEF EndDecline, EndMiss, EndFinish
<1>4. ASSUME NEW c \in Dials, Answer(c) \/ Decline(c) \/ RingTimeoutUpdates(c)
      PROVE  Goal
  BY <1>2, <1>4 DEF Answer, Decline, RingTimeoutUpdates, JobStep
<1>5. Goal
  <2>1. \/ callRow' = callRow
        \/ \E h \in Handlers :
              CreateCall(h) \/ EndDecline(h) \/ EndMiss(h) \/ EndFinish(h)
        \/ \E c \in Dials : Answer(c) \/ Decline(c) \/ RingTimeoutUpdates(c)
    BY DEF CallsNext, callVars, Tick, QueueGoes, QueueComesBack, RequestStep, Enqueue,
           RequestDies, InitiateChecked, EndStart, JobNext, RingTimeoutStarts,
           RingTimeoutCompletes, RingTimeoutFails, WorkerDies
  <2> QED BY <1>3, <1>4, <2>1
<1> QED BY <1>1, <1>5

\* A row is never removed or made younger, and once over it never changes.
LEMMA RowsAreKept ==
    ASSUME CallsTypeOK, RowsInOrder, RequestsHaveRows, [CallsNext]_callVars,
           NEW c \in Dials, Exists(c)
    PROVE  /\ Exists(c)'
           /\ callRow'[c].createdAt = callRow[c].createdAt
           /\ IsOver(c) => callRow'[c] = callRow[c]
<1>1. CASE callRow' = callRow
  BY <1>1 DEF Exists
<1>2. ASSUME NEW h \in Handlers, CreateCall(h)
      PROVE  callRow'[c] = callRow[c]
  BY <1>2 DEF CreateCall, RequestsHaveRows, CallsTypeOK
<1>3. ASSUME NEW d \in Dials, Exists(d), ~IsOver(d), RowMoved(d, {"answered"} \cup Over)
      PROVE  /\ Exists(c)'
             /\ callRow'[c].createdAt = callRow[c].createdAt
             /\ IsOver(c) => callRow'[c] = callRow[c]
  <2>1. PICK r \in CallRow : /\ callRow' = [callRow EXCEPT ![d] = r]
                             /\ r.createdAt = callRow[d].createdAt
    BY <1>3 DEF RowMoved
  <2>2. r # NoValue
    BY <2>1, NullIsNoRow
  <2> QED BY <1>3, <2>1, <2>2 DEF Exists, CallsTypeOK
<1> QED BY <1>1, <1>2, <1>3, RowChanges DEF Exists

LEMMA RowsInOrderStep ==
    ASSUME CallsTypeOK, RowsInOrder, [CallsNext]_callVars
    PROVE  RowsInOrder'
<1>1. clock \in Nat /\ clock' \in Nat /\ clock <= clock'
  BY RowChanges
<1>2. ASSUME NEW r \in CallRow, RowInOrder(r)
      PROVE  RowInOrder(r)'
  BY <1>1, <1>2 DEF RowInOrder, CallRow
<1>3. CASE callRow' = callRow
  <2> SUFFICES ASSUME NEW c \in Dials, Exists(c)'
               PROVE  RowInOrder(callRow[c])'
    BY DEF RowsInOrder
  <2>1. Exists(c) /\ callRow'[c] \in CallRow
    BY <1>3 DEF Exists, CallsTypeOK
  <2> QED BY <1>2, <1>3, <2>1 DEF RowsInOrder, RowInOrder
<1>4. ASSUME NEW h \in Handlers, CreateCall(h)
      PROVE  RowsInOrder'
  <2> DEFINE new == [status |-> "ringing", createdAt |-> clock,
                     startedAt |-> NoValue, endedAt |-> NoValue, duration |-> NoValue]
  <2>1. clock' = clock /\ callRow' = [callRow EXCEPT ![handler[h].call] = new]
    BY <1>4 DEF CreateCall
  <2>2. RowInOrder(new)
    BY <1>1 DEF RowInOrder, Unanswered
  <2> HIDE DEF new
  <2> SUFFICES ASSUME NEW c \in Dials, Exists(c)'
               PROVE  RowInOrder(callRow'[c])
    BY <2>1 DEF RowsInOrder, RowInOrder
  <2>3. callRow'[c] = new \/ callRow'[c] = callRow[c]
    BY <2>1 DEF CallsTypeOK
  <2>4. CASE callRow'[c] = callRow[c]
    BY <2>4 DEF RowsInOrder, Exists
  <2> QED BY <2>2, <2>3, <2>4
<1>5. ASSUME clock' = clock, NEW d \in Dials, RowMoved(d, {"answered"} \cup Over)
      PROVE  RowsInOrder'
  <2>1. PICK r \in CallRow : callRow' = [callRow EXCEPT ![d] = r] /\ RowInOrder(r)
    BY <1>5 DEF RowMoved
  <2> SUFFICES ASSUME NEW c \in Dials, Exists(c)'
               PROVE  RowInOrder(callRow'[c])
    BY <1>5 DEF RowsInOrder, RowInOrder
  <2>2. callRow'[c] = r \/ callRow'[c] = callRow[c]
    BY <2>1 DEF CallsTypeOK
  <2>3. CASE callRow'[c] = callRow[c]
    BY <2>3 DEF RowsInOrder, Exists
  <2> QED BY <2>1, <2>2, <2>3
<1> QED BY <1>3, <1>4, <1>5, RowChanges

-----------------------------------------------------------------------------
(* The requests and the jobs.                                              *)

LEMMA RequestsHaveRowsStep ==
    ASSUME CallsInv, [CallsNext]_callVars
    PROVE  RequestsHaveRows'
<1> USE DEF CallsInv
<1>1. CASE UNCHANGED <<callRow, ringJob, handler>>
  BY <1>1 DEF RequestsHaveRows, On, Exists
<1>2. ASSUME NEW h \in Handlers, NEW c \in Dials, InitiateChecked(h, c)
      PROVE  RequestsHaveRows'
  <2>1. ringJob[c] = NoJob
    BY <1>2 DEF InitiateChecked, JobsAreDue
  <2>2. handler' = [handler EXCEPT ![h] = [pc |-> "create", call |-> c]]
    BY <1>2 DEF InitiateChecked
  <2>3. ~Exists(c) /\ \A g \in Handlers : ~On(g, "idle") => handler[g].call # c
    BY <1>2 DEF InitiateChecked
  <2>4. UNCHANGED <<callRow, ringJob>>
    BY <1>2 DEF InitiateChecked
  <2> QED BY <2>1, <2>2, <2>3, <2>4 DEF RequestsHaveRows, On, Exists, CallsTypeOK
<1>3. ASSUME NEW h \in Handlers, NEW c \in Dials, NEW reason \in Reasons,
             EndStart(h, c, reason)
      PROVE  RequestsHaveRows'
  <2>1. PICK pc \in {"decline", "miss", "finish"} :
           handler' = [handler EXCEPT ![h] = [call |-> c, reason |-> reason, pc |-> pc]]
    BY <1>3 DEF EndStart
  <2>2. Exists(c) /\ UNCHANGED <<callRow, ringJob>>
    BY <1>3 DEF EndStart
  <2> QED BY <2>1, <2>2 DEF RequestsHaveRows, On, Exists, CallsTypeOK
<1>4. ASSUME NEW h \in Handlers, CreateCall(h)
      PROVE  RequestsHaveRows'
  <2> DEFINE d == handler[h].call
             new == [status |-> "ringing", createdAt |-> clock,
                     startedAt |-> NoValue, endedAt |-> NoValue, duration |-> NoValue]
  <2>1. d \in Dials /\ On(h, "create")
    BY <1>4, RequestIsTyped DEF CreateCall, On
  <2>2. new \in CallRow
    BY DEF CallRow, Unanswered, Moment, CallsTypeOK
  <2>3. callRow' = [callRow EXCEPT ![d] = new] /\ UNCHANGED ringJob
    BY <1>4 DEF CreateCall
  <2>4. handler' = [handler EXCEPT ![h].pc = "enqueue"]
    BY <1>4 DEF CreateCall, GoOn
  <2>5. \A g \in Handlers \ {h} : ~On(g, "idle") => handler[g].call # d
    BY <2>1 DEF RequestsHaveRows
  <2>6. new # NoValue
    BY <2>2, NullIsNoRow
  <2> HIDE DEF new
  <2>7. \A c \in Dials : (Exists(c))' <=> Exists(c) \/ c = d
    BY <2>1, <2>3, <2>6 DEF Exists, CallsTypeOK
  <2>8. \A g \in Handlers \ {h} : handler'[g] = handler[g]
    BY <2>4 DEF CallsTypeOK
  <2>9. handler'[h].pc = "enqueue" /\ handler'[h].call = d
    BY <2>1, <2>4 DEF CallsTypeOK, CallRequests, NoRequest, On
  <2>10. ASSUME NEW g \in Handlers, On(g, "create")'
         PROVE  /\ g # h /\ On(g, "create") /\ handler[g].call # d
                /\ handler'[g] = handler[g]
                /\ handler[g].call \in Dials
    BY <2>5, <2>8, <2>9, <2>10, RequestIsTyped DEF On
  <2>11. ASSUME NEW g \in Handlers, On(g, "create")'
         PROVE  /\ ~(Exists(handler[g].call))'
                /\ ringJob'[handler[g].call] = NoJob
                /\ \A k \in Handlers \ {g} :
                      ~On(k, "idle")' => handler'[k].call # handler[g].call
    BY <2>3, <2>5, <2>7, <2>8, <2>9, <2>10, <2>11 DEF RequestsHaveRows, On
  <2>12. ASSUME NEW g \in Handlers, ~On(g, "idle")', ~On(g, "create")'
         PROVE  (Exists(handler[g].call))'
    <3>1. CASE g = h
      BY <2>1, <2>7, <2>9, <3>1 DEF Exists
    <3>2. CASE g # h
      <4>1. ~On(g, "idle") /\ ~On(g, "create") /\ handler'[g] = handler[g]
        BY <2>8, <2>12, <3>2 DEF On
      <4>2. handler[g].call \in Dials /\ Exists(handler[g].call)
        BY <4>1, RequestIsTyped DEF RequestsHaveRows
      <4> QED BY <2>7, <4>1, <4>2 DEF Exists
    <3> QED BY <3>1, <3>2
  <2> QED BY <2>10, <2>11, <2>12 DEF RequestsHaveRows, Exists
\* Every other step leaves no request on "create" that was not, drops jobs
\* only for dials that have their row, and takes no row away.
<1>5. ASSUME \A c \in Dials : Exists(c) => Exists(c)',
             \A c \in Dials : ~Exists(c) => ~Exists(c)' /\ ringJob'[c] = ringJob[c],
             \A g \in Handlers :
                \/ handler'[g] = handler[g]
                \/ handler'[g] = NoRequest
                \/ /\ handler[g].pc \in {"decline", "miss"}
                   /\ handler'[g].pc = "finish" /\ handler'[g].call = handler[g].call
      PROVE  RequestsHaveRows'
  <2>1. ASSUME NEW g \in Handlers, ~On(g, "idle")'
        PROVE  /\ ~On(g, "idle")
               /\ On(g, "create")' <=> On(g, "create")
               /\ handler'[g].call = handler[g].call
               /\ handler[g].call \in Dials
    BY <1>5, <2>1, RequestIsTyped DEF On, NoRequest
  <2>2. ASSUME NEW g \in Handlers, On(g, "create")'
        PROVE  /\ ~Exists(handler[g].call)'
               /\ ringJob'[handler'[g].call] = NoJob
               /\ \A k \in Handlers \ {g} :
                     ~On(k, "idle")' => handler'[k].call # handler'[g].call
    <3>1. ~On(g, "idle")'
      BY <2>2 DEF On
    <3>2. On(g, "create") /\ handler'[g].call = handler[g].call /\ handler[g].call \in Dials
      BY <2>1, <2>2, <3>1
    <3>3. ~Exists(handler[g].call) /\ ringJob[handler[g].call] = NoJob
      BY <3>2 DEF RequestsHaveRows
    <3>4. ~Exists(handler[g].call)' /\ ringJob'[handler'[g].call] = NoJob
      BY <1>5, <3>2, <3>3 DEF Exists
    <3>5. \A k \in Handlers \ {g} : ~On(k, "idle")' => handler'[k].call # handler'[g].call
      BY <2>1, <3>2 DEF RequestsHaveRows
    <3> QED BY <3>4, <3>5
  <2>3. ASSUME NEW g \in Handlers, ~On(g, "idle")', ~On(g, "create")'
        PROVE  Exists(handler[g].call)'
    <3>1. /\ ~On(g, "idle") /\ ~On(g, "create")
          /\ handler'[g].call = handler[g].call /\ handler[g].call \in Dials
      BY <2>1, <2>3
    <3>2. Exists(handler[g].call)
      BY <3>1 DEF RequestsHaveRows
    <3> QED BY <1>5, <3>1, <3>2 DEF Exists
  <2> QED BY <2>2, <2>3 DEF RequestsHaveRows
<1>6. ASSUME NEW h \in Handlers,
             \/ Enqueue(h) \/ EndDecline(h) \/ EndMiss(h) \/ EndFinish(h) \/ RequestDies(h)
      PROVE  /\ \A g \in Handlers :
                   \/ handler'[g] = handler[g]
                   \/ handler'[g] = NoRequest
                   \/ /\ handler[g].pc \in {"decline", "miss"}
                      /\ handler'[g].pc = "finish" /\ handler'[g].call = handler[g].call
             /\ \A c \in Dials : ~Exists(c) => ringJob'[c] = ringJob[c]
             /\ \A g \in Handlers : ~CreateCall(g)
  <2>1. \/ handler' = [handler EXCEPT ![h] = NoRequest]
        \/ handler[h].pc \in {"decline", "miss"} /\ handler' = [handler EXCEPT ![h].pc = "finish"]
    BY <1>6 DEF Enqueue, EndDecline, EndMiss, EndFinish, RequestDies, Finish, GoOn, On
  <2>2. \A g \in Handlers :
           \/ handler'[g] = handler[g]
           \/ handler'[g] = NoRequest
           \/ /\ handler[g].pc \in {"decline", "miss"}
              /\ handler'[g].pc = "finish" /\ handler'[g].call = handler[g].call
    BY <2>1 DEF CallsTypeOK, CallRequests, NoRequest
  <2>3. ASSUME NEW c \in Dials, ~Exists(c)
        PROVE  ringJob'[c] = ringJob[c]
    <3>1. CASE Enqueue(h)
      <4>1. Exists(handler[h].call) /\ handler[h].call \in Dials
        BY <3>1, RequestIsTyped DEF Enqueue, On, RequestsHaveRows
      <4> QED BY <2>3, <3>1, <4>1 DEF Enqueue, CallsTypeOK
    <3>2. CASE ~Enqueue(h)
      BY <1>6, <3>2 DEF EndDecline, EndMiss, EndFinish, RequestDies
    <3> QED BY <3>1, <3>2
  <2>4. ASSUME NEW g \in Handlers, CreateCall(g)
        PROVE  FALSE
    <3>1. handler'[h] = NoRequest \/ handler'[h].pc = "finish"
      BY <2>1 DEF CallsTypeOK, CallRequests, NoRequest
    <3>2. handler[g].pc = "create" /\ handler'[g].pc = "enqueue"
      BY <2>4 DEF CreateCall, On, GoOn, CallsTypeOK, CallRequests, NoRequest
    <3>3. g # h
      BY <3>1, <3>2 DEF NoRequest
    <3>4. handler'[g] = handler[g]
      BY <2>1, <3>3 DEF CallsTypeOK
    <3> QED BY <3>2, <3>4
  <2> QED BY <2>2, <2>3, <2>4
<1>7. ASSUME NEW d \in Dials,
             Answer(d) \/ Decline(d) \/ JobNext(d) \/ RingTimeoutFails(d) \/ WorkerDies(d)
      PROVE  /\ handler' = handler
             /\ \A c \in Dials : ~Exists(c) => ringJob'[c] = ringJob[c]
             /\ \A g \in Handlers : ~CreateCall(g)
  <2>1. handler' = handler
    BY <1>7 DEF Answer, Decline, JobNext, RingTimeoutStarts, RingTimeoutUpdates,
                RingTimeoutCompletes, RingTimeoutFails, JobStep, WorkerDies
  <2>2. ASSUME Answer(d) \/ Decline(d)
        PROVE  \A c \in Dials : ~Exists(c) => ringJob'[c] = ringJob[c]
    BY <2>2 DEF Answer, Decline
  <2>3. ASSUME JobNext(d) \/ RingTimeoutFails(d) \/ WorkerDies(d)
        PROVE  \A c \in Dials : ~Exists(c) => ringJob'[c] = ringJob[c]
    <3>1. ringJob[d].pc # "none"
      BY <2>3 DEF JobNext, RingTimeoutStarts, RingTimeoutUpdates,
                  RingTimeoutCompletes, RingTimeoutFails, JobStep, WorkerDies
    <3>2. Exists(d)
      BY <3>1 DEF JobsAreDue
    <3>3. \A c \in Dials \ {d} : ringJob'[c] = ringJob[c]
      BY <2>3 DEF JobNext, RingTimeoutStarts, RingTimeoutUpdates, RingTimeoutCompletes,
                  RingTimeoutFails, JobStep, WorkerDies, CallsTypeOK
    <3> QED BY <3>2, <3>3
  <2>4. ASSUME NEW g \in Handlers, CreateCall(g)
        PROVE  FALSE
    <3>1. handler[g].pc = "create" /\ handler'[g].pc = "enqueue"
      BY <2>4 DEF CreateCall, On, GoOn, CallsTypeOK, CallRequests, NoRequest
    <3> QED BY <2>1, <3>1
  <2> QED BY <1>7, <2>1, <2>2, <2>3, <2>4
<1>8. ASSUME \A c \in Dials : ~Exists(c) => ringJob'[c] = ringJob[c],
             \A g \in Handlers : ~CreateCall(g)
      PROVE  /\ \A c \in Dials : Exists(c) => Exists(c)'
             /\ \A c \in Dials : ~Exists(c) => ~Exists(c)' /\ ringJob'[c] = ringJob[c]
  <2>1. \A c \in Dials : Exists(c) => Exists(c)'
    BY RowsAreKept
  <2>2. ASSUME NEW c \in Dials, ~Exists(c)
        PROVE  ~Exists(c)'
    <3>1. CASE callRow' = callRow
      BY <2>2, <3>1 DEF Exists
    <3>2. ASSUME NEW d \in Dials, Exists(d), RowMoved(d, {"answered"} \cup Over)
          PROVE  callRow'[c] = callRow[c]
      BY <2>2, <3>2 DEF RowMoved, CallsTypeOK
    <3> QED BY <1>8, <2>2, <3>1, <3>2, RowChanges DEF Exists
  <2> QED BY <1>8, <2>1, <2>2
<1>9. ASSUME NEW h \in Handlers,
             \/ Enqueue(h) \/ EndDecline(h) \/ EndMiss(h) \/ EndFinish(h) \/ RequestDies(h)
      PROVE  RequestsHaveRows'
  BY <1>5, <1>6, <1>8, <1>9
<1>10. ASSUME NEW d \in Dials,
              Answer(d) \/ Decline(d) \/ JobNext(d) \/ RingTimeoutFails(d) \/ WorkerDies(d)
       PROVE  RequestsHaveRows'
  BY <1>5, <1>7, <1>8, <1>10
<1>11. ASSUME UNCHANGED callVars \/ Tick \/ QueueGoes \/ QueueComesBack
       PROVE  RequestsHaveRows'
  BY <1>1, <1>11 DEF callVars, Tick, QueueGoes, QueueComesBack
<1> QED BY <1>2, <1>3, <1>4, <1>9, <1>10, <1>11 DEF CallsNext, RequestStep

LEMMA JobsAreDueStep ==
    ASSUME CallsInv, [CallsNext]_callVars
    PROVE  JobsAreDue'
<1> USE DEF CallsInv
<1> USE CallsBounds
<1>1. /\ clock \in Nat /\ clock' \in Nat /\ clock <= clock'
      /\ RingTimeout \in Nat
  BY RowChanges
<1>2. \A c \in Dials : Exists(c) => Exists(c)' /\ callRow'[c].createdAt = callRow[c].createdAt
  BY RowsAreKept
<1>3. \A c \in Dials : ringJob[c] \in RingJobs
  BY DEF CallsTypeOK
<1>4. CASE ringJob' = ringJob
  BY <1>1, <1>2, <1>3, <1>4 DEF JobsAreDue, RingJobs
<1>5. ASSUME NEW h \in Handlers, Enqueue(h)
      PROVE  JobsAreDue'
  <2> DEFINE d == handler[h].call
             job == [pc |-> "delayed", due |-> clock + RingTimeout, stalls |-> 0]
  <2>1. d \in Dials /\ Exists(d)
    BY <1>5, RequestIsTyped DEF Enqueue, On, RequestsHaveRows
  <2>2. callRow[d].createdAt \in Nat /\ callRow[d].createdAt <= clock
    BY <2>1 DEF RowsInOrder, RowInOrder, CallsTypeOK, Exists, CallRow
  <2>3. UNCHANGED <<callRow, clock>>
    BY <1>5 DEF Enqueue
  <2>4. CASE ringJob' = [ringJob EXCEPT ![d] = job]
    <3>1. job.due = clock + RingTimeout /\ job.pc = "delayed"
      OBVIOUS
    <3> HIDE DEF job
    <3> QED BY <1>1, <2>1, <2>2, <2>3, <2>4, <3>1 DEF JobsAreDue, CallsTypeOK, Exists
  <2> QED BY <1>4, <1>5, <2>4 DEF Enqueue
<1>6. ASSUME NEW d \in Dials, NEW pc \in {"delayed", "active", "updated", "done", "failed"},
             ringJob[d].pc # "none",
             pc = "active" => ringJob[d].due <= clock /\ clock' = clock,
             \/ ringJob' = [ringJob EXCEPT ![d].pc = pc]
             \/ ringJob' = [ringJob EXCEPT ![d].pc = pc, ![d].stalls = @ + 1]
      PROVE  JobsAreDue'
  <2>1. /\ ringJob'[d].pc = pc /\ ringJob'[d].due = ringJob[d].due
        /\ \A c \in Dials \ {d} : ringJob'[c] = ringJob[c]
    BY <1>3, <1>6 DEF RingJobs, CallsTypeOK
  <2> QED BY <1>1, <1>2, <1>3, <1>6, <2>1 DEF JobsAreDue, RingJobs
<1>7. ASSUME NEW d \in Dials, JobNext(d) \/ RingTimeoutFails(d) \/ WorkerDies(d)
      PROVE  JobsAreDue'
  <2>1. ringJob[d].pc # "none" /\ clock' = clock
    BY <1>7 DEF JobNext, RingTimeoutStarts, RingTimeoutUpdates,
                RingTimeoutCompletes, RingTimeoutFails, JobStep, WorkerDies
  <2> QED
    BY <1>6, <1>7, <2>1
    DEF JobNext, RingTimeoutStarts, RingTimeoutUpdates, RingTimeoutCompletes,
        RingTimeoutFails, JobStep, WorkerDies
<1>8. \/ ringJob' = ringJob
      \/ \E h \in Handlers : Enqueue(h)
      \/ \E d \in Dials : JobNext(d) \/ RingTimeoutFails(d) \/ WorkerDies(d)
  BY DEF CallsNext, callVars, Tick, QueueGoes, QueueComesBack, RequestStep, CreateCall,
         EndDecline, EndMiss, EndFinish, RequestDies, InitiateChecked, EndStart, Answer,
         Decline
<1> QED BY <1>4, <1>5, <1>7, <1>8

-----------------------------------------------------------------------------
(* The theorems.                                                           *)

LEMMA CallsInvInit == CallsInit => CallsInv
<1> SUFFICES ASSUME CallsInit PROVE CallsInv
  OBVIOUS
<1>1. CallsTypeOK
  BY CallsTypeInit
<1>2. RowsInOrder /\ RequestsHaveRows /\ JobsAreDue
  BY DEF CallsInit, RowsInOrder, RequestsHaveRows, JobsAreDue, Exists, On, NoRequest, NoJob
<1> QED BY <1>1, <1>2 DEF CallsInv

LEMMA CallsInvStep == CallsInv /\ [CallsNext]_callVars => CallsInv'
  BY CallsTypeStep, RowsInOrderStep, RequestsHaveRowsStep, JobsAreDueStep DEF CallsInv

LEMMA CallsInvHolds == CallsSpec => []CallsInv
  BY CallsInvInit, CallsInvStep, PTL DEF CallsSpec

\* The call rows, the requests in flight and the ring-timeout jobs keep their
\* shapes (calls.ts, calls.service.ts, RingTimeoutJob) in every reachable state.
THEOREM CallsTypeCorrect == CallsSpec => []CallsTypeOK
<1>1. CallsInv => CallsTypeOK
  BY DEF CallsInv
<1> QED BY <1>1, CallsInvHolds, PTL

\* The log never claims a talk that did not happen, or one longer than the
\* call: markAnswered, markDeclined, markMissedIfUnanswered and markEnded may
\* come in any order, and wait for each other's row.
THEOREM CallsLogIsTrue == CallsSpec => []LogIsTrue
<1>1. CallsInv => LogIsTrue
  BY DEF CallsInv, LogIsTrue, RowsInOrder, RowInOrder, Unanswered
<1> QED BY <1>1, CallsInvHolds, PTL

\* No request and no ring-timeout job, late or repeated, changes a call that
\* was declined, missed or ended.
THEOREM CallsOverIsFinal == CallsSpec => OverIsFinal
<1>1. CallsInv /\ [CallsNext]_callVars
         => [\A c \in Dials : IsOver(c) => callRow'[c] = callRow[c]]_callVars
  BY RowsAreKept DEF CallsInv, IsOver
<1> QED BY <1>1, CallsInvHolds, PTL DEF CallsSpec, OverIsFinal

\* An end request on its way to markMissedIfUnanswered was given that reason,
\* and one on its way to markEnded either had none or is about a call that
\* stopped ringing.
EndsKnowTheirReason ==
    \A h \in Handlers :
        /\ On(h, "miss") => handler[h].reason = "missed"
        /\ On(h, "finish") /\ Ringing(handler[h].call) => handler[h].reason = "none"

\* A call that stopped ringing does not ring again.
LEMMA RingingEnds ==
    ASSUME CallsInv, [CallsNext]_callVars, NEW c \in Dials, Exists(c), ~Ringing(c)
    PROVE  ~Ringing(c)'
<1> USE DEF CallsInv
<1>1. CASE callRow' = callRow
  BY <1>1 DEF Ringing, Exists
<1>2. ASSUME NEW h \in Handlers, CreateCall(h)
      PROVE  callRow'[c] = callRow[c]
  BY <1>2 DEF CreateCall, RequestsHaveRows, CallsTypeOK
<1>3. ASSUME NEW d \in Dials, RowMoved(d, {"answered"} \cup Over)
      PROVE  callRow'[c] = callRow[c] \/ callRow'[c].status \in {"answered"} \cup Over
  BY <1>3 DEF RowMoved, CallsTypeOK
<1> QED BY <1>1, <1>2, <1>3, RowChanges DEF Ringing, Exists, Unanswered, Over

LEMMA EndsKnowTheirReasonStep ==
    ASSUME CallsInv, EndsKnowTheirReason, [CallsNext]_callVars
    PROVE  EndsKnowTheirReason'
<1> SUFFICES ASSUME NEW h \in Handlers
             PROVE  /\ On(h, "miss")' => handler'[h].reason = "missed"
                    /\ On(h, "finish")' /\ Ringing(handler[h].call)'
                          => handler'[h].reason = "none"
  BY DEF EndsKnowTheirReason
<1> USE DEF CallsInv
<1>1. CASE handler'[h] = handler[h]
  <2>1. On(h, "finish") => handler[h].call \in Dials /\ Exists(handler[h].call)
    BY RequestIsTyped DEF RequestsHaveRows, On
  <2> QED BY <1>1, <2>1, RingingEnds DEF EndsKnowTheirReason, On, Ringing, Exists
<1>2. CASE handler'[h].pc \in {"idle", "create", "enqueue"}
  BY <1>2 DEF On
<1>3. ASSUME NEW c \in Dials, NEW reason \in Reasons, EndStart(h, c, reason)
      PROVE  /\ On(h, "miss")' => handler'[h].reason = "missed"
             /\ On(h, "finish")' /\ Ringing(handler[h].call)'
                   => handler'[h].reason = "none"
  <2>1. /\ handler'[h].call = c /\ handler'[h].reason = reason /\ callRow' = callRow
        /\ handler'[h].pc = CASE Ringing(c) /\ reason = "declined" -> "decline"
                               [] Ringing(c) /\ reason = "missed"   -> "miss"
                               [] OTHER                             -> "finish"
    BY <1>3 DEF EndStart, CallsTypeOK
  <2>2. CASE Ringing(c) /\ reason = "declined"
    BY <2>1, <2>2 DEF On
  <2>3. CASE Ringing(c) /\ reason = "missed"
    BY <2>1, <2>3 DEF On
  <2>4. CASE Ringing(c) /\ reason = "none"
    BY <2>1, <2>4 DEF On
  <2>5. CASE ~Ringing(c)
    BY <2>1, <2>5 DEF On, Ringing, Exists
  <2> QED BY <2>2, <2>3, <2>4, <2>5 DEF Reasons
<1>4. CASE EndDecline(h) \/ EndMiss(h)
  <2>1. handler[h].call \in Dials /\ Exists(handler[h].call)
    BY <1>4, RequestIsTyped DEF EndDecline, EndMiss, RequestsHaveRows, On
  <2>2. CASE handler' = [handler EXCEPT ![h] = NoRequest]
    BY <1>2, <2>2 DEF CallsTypeOK, NoRequest
  <2>3. CASE /\ ~Ringing(handler[h].call) /\ callRow' = callRow
             /\ handler' = [handler EXCEPT ![h].pc = "finish"]
    <3>1. handler'[h].call = handler[h].call /\ handler'[h].pc = "finish"
      BY <1>4, <2>3 DEF EndDecline, EndMiss, On, CallsTypeOK, CallRequests, NoRequest
    <3> QED BY <2>3, <3>1 DEF On, Ringing, Exists
  <2> QED BY <1>4, <2>2, <2>3 DEF EndDecline, EndMiss, Finish, GoOn
<1>5. \/ handler'[h] = handler[h]
      \/ handler'[h].pc \in {"idle", "create", "enqueue"}
      \/ \E c \in Dials, reason \in Reasons : EndStart(h, c, reason)
      \/ EndDecline(h) \/ EndMiss(h)
  <2>1. ASSUME NEW g \in Handlers,
               \/ CreateCall(g) \/ Enqueue(g) \/ EndFinish(g) \/ RequestDies(g)
               \/ \E c \in Dials : InitiateChecked(g, c)
        PROVE  handler'[h] = handler[h] \/ handler'[h].pc \in {"idle", "create", "enqueue"}
    BY <2>1 DEF CreateCall, Enqueue, EndFinish, RequestDies, InitiateChecked, Finish,
                GoOn, CallsTypeOK, CallRequests, NoRequest, On
  <2>2. ASSUME NEW g \in Handlers \ {h},
               \/ EndDecline(g) \/ EndMiss(g)
               \/ \E c \in Dials, reason \in Reasons : EndStart(g, c, reason)
        PROVE  handler'[h] = handler[h]
    BY <2>2 DEF EndDecline, EndMiss, EndStart, Finish, GoOn, CallsTypeOK
  <2>3. ASSUME NEW c \in Dials, Answer(c) \/ Decline(c) \/ JobNext(c) \/ RingTimeoutFails(c) \/ WorkerDies(c)
        PROVE  handler'[h] = handler[h]
    BY <2>3 DEF Answer, Decline, JobNext, RingTimeoutStarts, RingTimeoutUpdates,
                RingTimeoutCompletes, RingTimeoutFails, JobStep, WorkerDies
  <2>4. ASSUME UNCHANGED callVars \/ Tick \/ QueueGoes \/ QueueComesBack
        PROVE  handler'[h] = handler[h]
    BY <2>4 DEF callVars, Tick, QueueGoes, QueueComesBack
  <2> QED BY <2>1, <2>2, <2>3, <2>4 DEF CallsNext, RequestStep
<1> QED BY <1>1, <1>2, <1>3, <1>4, <1>5

LEMMA EndsKnowTheirReasonHolds == CallsSpec => []EndsKnowTheirReason
<1>1. CallsInit => EndsKnowTheirReason
  BY DEF CallsInit, EndsKnowTheirReason, On, NoRequest
<1>2. CallsInv /\ EndsKnowTheirReason /\ [CallsNext]_callVars => EndsKnowTheirReason'
  BY EndsKnowTheirReasonStep
<1> QED BY <1>1, <1>2, CallsInvHolds, PTL DEF CallsSpec

\* One step of OutcomeHasItsCause, for one call.
Caused(c) ==
    /\ Ringing(c) /\ callRow'[c].status = "missed" =>
          clock >= callRow[c].createdAt + RingTimeout \/ EndedBy(c, {"missed"})
    /\ Ringing(c) /\ callRow'[c].status = "ended" => EndedBy(c, {"none"})
    /\ Exists(c) /\ ~Ringing(c) /\ callRow'[c] # callRow[c] => EndedBy(c, Reasons)

LEMMA OutcomeStep ==
    ASSUME CallsInv, EndsKnowTheirReason, [CallsNext]_callVars, NEW c \in Dials
    PROVE  Caused(c)
<1> USE DEF CallsInv
<1>1. CASE callRow'[c] = callRow[c]
  BY <1>1 DEF Caused, Ringing, Unanswered
<1>2. CASE ~Exists(c)
  BY <1>2 DEF Caused, Ringing
\* What a conditional UPDATE of a call makes of c.
<1>3. ASSUME NEW d \in Dials
      PROVE  /\ markAnswered(d) /\ callRow'[c] # callRow[c] =>
                   c = d /\ Ringing(c) /\ callRow'[c].status = "answered"
             /\ markDeclined(d) /\ callRow'[c] # callRow[c] =>
                   c = d /\ Ringing(c) /\ callRow'[c].status = "declined"
             /\ markMissedIfUnanswered(d) /\ callRow'[c] # callRow[c] =>
                   c = d /\ Ringing(c) /\ callRow'[c].status = "missed"
             /\ markEnded(d) /\ callRow'[c] # callRow[c] =>
                   c = d /\ callRow'[c].status = "ended"
  <2>1. \A statuses : RowMoved(d, statuses) /\ callRow'[c] # callRow[c] =>
                         c = d /\ callRow'[c].status \in statuses
    BY DEF RowMoved, CallsTypeOK
  <2> QED
    BY <2>1, RowMoves DEF markAnswered, markDeclined, markMissedIfUnanswered
<1>4. ASSUME NEW h \in Handlers, CreateCall(h), Exists(c)
      PROVE  callRow'[c] = callRow[c]
  BY <1>4 DEF CreateCall, RequestsHaveRows, CallsTypeOK
<1>5. ASSUME NEW h \in Handlers, EndDecline(h), callRow'[c] # callRow[c]
      PROVE  Caused(c)
  <2>1. handler[h].call \in Dials
    BY <1>5, RequestIsTyped DEF EndDecline, On
  <2>2. Ringing(c) /\ callRow'[c].status = "declined"
    BY <1>3, <1>5, <2>1 DEF EndDecline
  <2> QED BY <2>2 DEF Caused
<1>6. ASSUME NEW h \in Handlers, EndMiss(h), callRow'[c] # callRow[c]
      PROVE  Caused(c)
  <2>1. handler[h].call \in Dials /\ handler[h].reason = "missed"
    BY <1>6, RequestIsTyped DEF EndMiss, On, EndsKnowTheirReason
  <2>2. Ringing(c) /\ callRow'[c].status = "missed" /\ c = handler[h].call
    BY <1>3, <1>6, <2>1 DEF EndMiss
  <2>3. handler'[h] = NoRequest
    BY <1>6, <2>2 DEF EndMiss, Finish, CallsTypeOK
  <2>4. EndedBy(c, {"missed"})
    BY <1>6, <2>1, <2>2, <2>3 DEF EndedBy, EndMiss, On
  <2> QED BY <2>2, <2>4 DEF Caused
<1>7. ASSUME NEW h \in Handlers, EndFinish(h), callRow'[c] # callRow[c]
      PROVE  Caused(c)
  <2>1. handler[h].call \in Dials /\ handler[h].reason \in Reasons
    BY <1>7, RequestIsTyped DEF EndFinish, On
  <2>2. callRow'[c].status = "ended" /\ c = handler[h].call
    BY <1>3, <1>7, <2>1 DEF EndFinish
  <2>3. handler'[h] = NoRequest
    BY <1>7 DEF EndFinish, Finish, CallsTypeOK
  <2>4. EndedBy(c, Reasons)
    BY <1>7, <2>1, <2>2, <2>3 DEF EndedBy, EndFinish, On
  <2>5. Ringing(c) => EndedBy(c, {"none"})
    BY <1>7, <2>1, <2>2, <2>3 DEF EndedBy, EndFinish, On, EndsKnowTheirReason
  <2> QED BY <2>2, <2>4, <2>5 DEF Caused
<1>8. ASSUME NEW d \in Dials, Answer(d) \/ Decline(d), callRow'[c] # callRow[c]
      PROVE  Caused(c)
  BY <1>3, <1>8 DEF Answer, Decline, Caused
<1>9. ASSUME NEW d \in Dials, RingTimeoutUpdates(d), callRow'[c] # callRow[c]
      PROVE  Caused(c)
  <2>1. c = d /\ Ringing(c) /\ callRow'[c].status = "missed"
    BY <1>3, <1>9 DEF RingTimeoutUpdates
  <2>2. ringJob[c].pc = "active"
    BY <1>9, <2>1 DEF RingTimeoutUpdates, JobStep
  <2>3. /\ ringJob[c].due >= callRow[c].createdAt + RingTimeout
        /\ ringJob[c].due <= clock
    BY <2>2 DEF JobsAreDue
  <2>4. /\ ringJob[c].due \in Nat /\ clock \in Nat
        /\ callRow[c].createdAt \in Nat /\ RingTimeout \in Nat
    BY <2>1, CallsBounds DEF CallsTypeOK, RingJobs, CallRow, Ringing, Exists
  <2>5. clock >= callRow[c].createdAt + RingTimeout
    BY <2>3, <2>4
  <2> QED BY <2>1, <2>5 DEF Caused
<1>10. \/ callRow' = callRow
       \/ \E h \in Handlers :
             CreateCall(h) \/ EndDecline(h) \/ EndMiss(h) \/ EndFinish(h)
       \/ \E d \in Dials : Answer(d) \/ Decline(d) \/ RingTimeoutUpdates(d)
  BY DEF CallsNext, callVars, Tick, QueueGoes, QueueComesBack, RequestStep, Enqueue,
         RequestDies, InitiateChecked, EndStart, JobNext, RingTimeoutStarts,
         RingTimeoutCompletes, RingTimeoutFails, WorkerDies
<1> QED BY <1>1, <1>2, <1>4, <1>5, <1>6, <1>7, <1>8, <1>9, <1>10

\* A call is missed only when its time was up or a participant said so, and
\* 'ended' before an answer only by an end without a reason, for any ring
\* timeout and however late or often the ring-timeout job runs.
THEOREM CallsOutcomeHasItsCause == CallsSpec => OutcomeHasItsCause
<1>1. CallsInv /\ EndsKnowTheirReason /\ [CallsNext]_callVars
         => [\A c \in Dials : Caused(c)]_callVars
  BY OutcomeStep
<1>2. CallsSpec => [][\A c \in Dials : Caused(c)]_callVars
  BY <1>1, CallsInvHolds, EndsKnowTheirReasonHolds, PTL DEF CallsSpec
<1> QED BY <1>2 DEF OutcomeHasItsCause, Caused

LEMMA EndTakesEffectStep ==
    ASSUME CallsInv, [CallsNext]_callVars, NEW h \in Handlers,
           handler[h].pc \in {"decline", "miss", "finish"},
           handler'[h] = NoRequest, lost' = lost
    PROVE  callRow'[handler[h].call].status \in Over
<1> USE DEF CallsInv
<1> DEFINE d == handler[h].call
<1>1. d \in Dials /\ Exists(d) /\ handler[h].pc # "idle"
  BY RequestIsTyped DEF RequestsHaveRows, On
<1>2. handler'[h] # handler[h] /\ handler'[h].pc = "idle"
  BY <1>1 DEF NoRequest
<1>3. \A statuses : RowMoved(d, statuses) => callRow'[d].status \in statuses
  BY <1>1 DEF RowMoved, CallsTypeOK
<1>4. CASE EndDecline(h) \/ EndMiss(h)
  <2>1. markDeclined(d) \/ markMissedIfUnanswered(d)
    BY <1>2, <1>4 DEF EndDecline, EndMiss, GoOn, CallsTypeOK, On, CallRequests, NoRequest
  <2> QED BY <1>1, <1>3, <2>1, RowMoves DEF Over
<1>5. CASE EndFinish(h)
  <2>1. CASE IsOver(d)
    BY <1>5, <2>1 DEF EndFinish, IsOver
  <2>2. CASE markEnded(d)
    BY <1>1, <1>3, <2>2, RowMoves DEF Over
  <2> QED BY <1>5, <2>1, <2>2 DEF EndFinish
<1>6. EndDecline(h) \/ EndMiss(h) \/ EndFinish(h)
  <2>1. ASSUME NEW g \in Handlers, g # h,
               \/ CreateCall(g) \/ Enqueue(g) \/ EndDecline(g) \/ EndMiss(g) \/ EndFinish(g)
               \/ RequestDies(g)
               \/ \E c \in Dials : InitiateChecked(g, c)
               \/ \E c \in Dials, reason \in Reasons : EndStart(g, c, reason)
        PROVE  FALSE
    <3>1. handler'[h] = handler[h]
      BY <2>1 DEF CreateCall, Enqueue, EndDecline, EndMiss, EndFinish, RequestDies,
                  InitiateChecked, EndStart, Finish, GoOn, CallsTypeOK
    <3> QED BY <1>2, <3>1
  <2>2. ~CreateCall(h) /\ ~Enqueue(h) /\ \A c \in Dials : ~InitiateChecked(h, c)
    BY DEF CreateCall, Enqueue, InitiateChecked, On
  <2>3. \A c \in Dials, reason \in Reasons : ~EndStart(h, c, reason)
    BY DEF EndStart, On
  <2>4. ~RequestDies(h)
    BY DEF RequestDies, CallsTypeOK
  <2>5. ASSUME NEW c \in Dials,
               Answer(c) \/ Decline(c) \/ JobNext(c) \/ RingTimeoutFails(c) \/ WorkerDies(c)
        PROVE  FALSE
    BY <1>2, <2>5 DEF Answer, Decline, JobNext, RingTimeoutStarts, RingTimeoutUpdates,
                      RingTimeoutCompletes, RingTimeoutFails, JobStep, WorkerDies
  <2>6. ASSUME UNCHANGED callVars \/ Tick \/ QueueGoes \/ QueueComesBack
        PROVE  FALSE
    BY <1>2, <2>6 DEF callVars, Tick, QueueGoes, QueueComesBack
  <2> QED BY <2>1, <2>2, <2>3, <2>4, <2>5, <2>6 DEF CallsNext, RequestStep
<1> QED BY <1>4, <1>5, <1>6

\* An end request that is answered leaves its call over, whatever moved the
\* row after the request read it.
THEOREM CallsEndTakesEffect == CallsSpec => EndTakesEffect
<1>1. CallsInv /\ [CallsNext]_callVars
         => [\A h \in Handlers :
               /\ handler[h].pc \in {"decline", "miss", "finish"}
               /\ handler'[h] = NoRequest /\ lost' = lost
               => callRow'[handler[h].call].status \in Over]_callVars
  BY EndTakesEffectStep
<1> QED BY <1>1, CallsInvHolds, PTL DEF CallsSpec, EndTakesEffect

=============================================================================

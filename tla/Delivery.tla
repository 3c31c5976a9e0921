------------------------------ MODULE Delivery ------------------------------
(***************************************************************************)
(* A business's messages to the subscribers of one channel, on one day:    *)
(* the API's broadcast, which delivers at once, and the worker's job for   *)
(* scheduled messages, which claims the message, asks who is to get it     *)
(* and works through the list, while users come and go.  A scheduled       *)
(* message is a row that no code of the repository inserts.                *)
(***************************************************************************)
EXTENDS Requests

CONSTANTS
    MaxMessages,    \* bound on the messages
    DailyLimit,     \* the channel's daily_limit_per_subscriber
    MaxSubscribers, \* bound on the subscribers to begin with
    MaxChanges      \* bound on what users change
ASSUME DeliveryAssumption ==
    /\ {MaxMessages, MaxSubscribers, MaxChanges} \subseteq Nat
    /\ DailyLimit \in Nat \ {0}

SubStatuses == {"none", "active", "off"}
MessageStatuses == {"queued", "due", "sending", "sent", "failed"}
DeliveryStatuses == {"none", "pending", "delivered", "failed"}

VARIABLES
    sub,        \* per user: the subscription, "none", "active", "off"
    blockers,   \* users who have blocked the business
    message,    \* business_messages
    delivery,   \* per message and user: the row of business_message_deliveries
    pushes,     \* per message: how often each user's devices were called
    crowded,    \* subscribers two jobs were on their way to at once
    changes     \* what users have changed so far

deliveryVars == <<sub, blockers, message, delivery, pushes, crowded, changes>>

Mids == DOMAIN message
Message(by, status, total) == [by |-> by, status |-> status, total |-> total, delivered |-> 0]

DeliveryInit ==
    /\ sub \in {s \in [Users -> {"none", "active"}] :
                   Cardinality({u \in Users : s[u] = "active"}) <= MaxSubscribers}
    /\ blockers = {}
    /\ message = <<>> /\ delivery = <<>> /\ pushes = <<>>
    /\ crowded = {} /\ changes = 0

NewMessage(msg) ==
    /\ Len(message) < MaxMessages
    /\ message' = Append(message, msg)
    /\ delivery' = Append(delivery, [u \in Users |-> "none"])
    /\ pushes' = Append(pushes, [u \in Users |-> 0])

\* activeSubscribers: active, and have not blocked the business.
ActiveSubscribers == {u \in Users : sub[u] = "active"} \ blockers

DeliveredToday(u) == Cardinality({m \in Mids : delivery[m][u] = "delivered"})

\* Whom other jobs are about to reach.
Underway(p) == UNION {req[q].todo : q \in {q \in Procs \ {p} : req[q].op = "deliver"}}

Fan(op, at, m, todo) == [op |-> op, at |-> at, id |-> m, todo |-> todo, ok |-> 0, failed |-> 0]

-----------------------------------------------------------------------------
UserChanges == changes < MaxChanges /\ changes' = changes + 1
\* unsubscribe, pause, resume, respond: the status of a row of the user's own.
SetStatus(u, s) == sub[u] # "none" /\ sub' = [sub EXCEPT ![u] = s]

\* Active, whatever it was.
Subscribe ==
    /\ UserChanges
    /\ \E u \in Users : sub' = [sub EXCEPT ![u] = "active"]
    /\ UNCHANGED <<blockers, message, delivery, pushes, crowded, reqVars>>

Unsubscribe ==
    /\ UserChanges
    /\ \E u \in Users : SetStatus(u, "off")
    /\ UNCHANGED <<blockers, message, delivery, pushes, crowded, reqVars>>

ResumeSubscription ==
    /\ UserChanges
    /\ \E u \in Users : SetStatus(u, "active")
    /\ UNCHANGED <<blockers, message, delivery, pushes, crowded, reqVars>>

BlockBusiness ==
    /\ UserChanges
    /\ \E u \in Users : blockers' = blockers \cup {u}
    /\ UNCHANGED <<sub, message, delivery, pushes, crowded, reqVars>>

UnblockBusiness ==
    /\ UserChanges
    /\ \E u \in blockers : blockers' = blockers \ {u}
    /\ UNCHANGED <<sub, message, delivery, pushes, crowded, reqVars>>

\* broadcast: the subscribers are read, whatever the daily limit ...
Broadcast(p) ==
    /\ Enter(p, Fan("broadcast", "create", 0, ActiveSubscribers))
    /\ UNCHANGED deliveryVars

\* ... the message created, queued ...
CreateMessage(p) ==
    /\ At(p, "broadcast", "create")
    /\ NewMessage(Message("broadcast", "queued", Cardinality(req[p].todo)))
    /\ req' = [req EXCEPT ![p].at = "rows", ![p].id = Len(message) + 1]
    /\ UNCHANGED <<sub, blockers, crowded, changes, deaths>>

\* ... and all rows written as delivered, before the first push.
RecordDeliveries(p) ==
    /\ At(p, "broadcast", "rows")
    /\ delivery' = [delivery EXCEPT ![req[p].id] =
                       [u \in Users |-> IF u \in req[p].todo THEN "delivered" ELSE @[u]]]
    /\ Goto(p, "push")
    /\ UNCHANGED <<sub, blockers, message, pushes, crowded, changes>>

-----------------------------------------------------------------------------
ScheduleMessage ==
    /\ NewMessage(Message("schedule", "due", 0))
    /\ UNCHANGED <<sub, blockers, crowded, changes, reqVars>>

\* (Mutant: a redelivered job goes on with a message that is being sent.)
ClaimMessageAgain(p) ==
    /\ \E m \in Mids :
          /\ message[m].status \in {"due", "sending"}
          /\ Enter(p, Fan("deliver", "who", m, {}))
          /\ message' = [message EXCEPT ![m].status = "sending"]
    /\ UNCHANGED <<sub, blockers, delivery, pushes, crowded, changes>>

\* The job of a due message, once or again: the queue redelivers a stalled job.
\* The claim needs the status it takes away.
ClaimMessage(p) ==
    /\ \E m \in Mids :
          /\ message[m].status = "due"
          /\ Enter(p, Fan("deliver", "who", m, {}))
          /\ message' = [message EXCEPT ![m].status = "sending"]
    /\ UNCHANGED <<sub, blockers, delivery, pushes, crowded, changes>>

\* Active users who have not blocked the business and are below the limit.
FindSubscribers(p) ==
    /\ At(p, "deliver", "who")
    /\ LET subs == {u \in ActiveSubscribers : DeliveredToday(u) < DailyLimit} IN
          /\ req' = [req EXCEPT ![p].at = IF subs = {} THEN "final" ELSE "pending",
                                ![p].todo = subs]
          /\ crowded' = crowded \cup (subs \cap Underway(p))
    /\ UNCHANGED <<sub, blockers, message, delivery, pushes, changes, deaths>>

InsertPending(p) ==
    /\ At(p, "deliver", "pending")
    /\ delivery' = [delivery EXCEPT ![req[p].id] =
                       [u \in Users |-> IF u \in req[p].todo /\ @[u] = "none" THEN "pending" ELSE @[u]]]
    /\ Goto(p, "push")
    /\ UNCHANGED <<sub, blockers, message, pushes, crowded, changes>>

\* One subscriber's devices: reached, or not (opted out of the category, or
\* every push failed).  The broadcast ignores which.
Push(p) ==
    /\ req[p].op \in {"broadcast", "deliver"} /\ req[p].at = "push"
    /\ \E u \in req[p].todo :
          /\ pushes' = [pushes EXCEPT ![req[p].id][u] = @ + 1]
          /\ IF req[p].op = "broadcast"
             THEN req' = [req EXCEPT ![p].todo = @ \ {u}, ![p].ok = @ + 1,
                                     ![p].at = IF req[p].todo = {u} THEN "final" ELSE "push"]
             ELSE \E ok \in BOOLEAN :
                     req' = [req EXCEPT ![p] = [op |-> "deliver", at |-> "mark", id |-> req[p].id,
                                todo |-> req[p].todo, ok |-> req[p].ok, failed |-> req[p].failed,
                                user |-> u, reached |-> ok]]
    /\ UNCHANGED <<sub, blockers, message, delivery, crowded, changes, deaths>>

\* The worker writes each outcome to the row.
MarkDelivery(p) ==
    /\ At(p, "deliver", "mark")
    /\ LET u == req[p].user  ok == req[p].reached  rest == req[p].todo \ {u} IN
          /\ delivery' = [delivery EXCEPT ![req[p].id][u] = IF ok THEN "delivered" ELSE "failed"]
          /\ req' = [req EXCEPT ![p] =
                [Fan("deliver", IF rest = {} THEN "final" ELSE "push", req[p].id, rest)
                   EXCEPT !.ok = req[p].ok + (IF ok THEN 1 ELSE 0),
                          !.failed = req[p].failed + (IF ok THEN 0 ELSE 1)]]
    /\ UNCHANGED <<sub, blockers, message, pushes, crowded, changes, deaths>>

\* No subscriber at all is a message that was sent.
FinalizeMessage(p) ==
    /\ \/ At(p, "broadcast", "final") \/ At(p, "deliver", "final")
       \/ At(p, "broadcast", "push") /\ req[p].todo = {}
    /\ LET r == req[p] IN
          message' = [message EXCEPT
             ![r.id].status    = IF r.ok > 0 \/ r.failed = 0 THEN "sent" ELSE "failed",
             ![r.id].total     = r.ok + r.failed,
             ![r.id].delivered = r.ok]
    /\ Finish(p)
    /\ UNCHANGED <<sub, blockers, delivery, pushes, crowded, changes>>

DeliveryDie(p) == Die(p) /\ UNCHANGED deliveryVars

BusinessStep(p) == Broadcast(p) \/ CreateMessage(p) \/ RecordDeliveries(p)
DeliverJobStep(p) == ClaimMessage(p) \/ FindSubscribers(p) \/ InsertPending(p) \/ MarkDelivery(p)
CustomerStep == Subscribe \/ Unsubscribe \/ ResumeSubscription \/ BlockBusiness \/ UnblockBusiness

DeliveryNext ==
    \/ \E p \in Procs :
          BusinessStep(p) \/ DeliverJobStep(p) \/ Push(p) \/ FinalizeMessage(p) \/ DeliveryDie(p)
    \/ CustomerStep \/ ScheduleMessage

-----------------------------------------------------------------------------
DeliveryTypeOK ==
    /\ sub \in [Users -> SubStatuses] /\ blockers \subseteq Users
    /\ \A m \in Mids :
          /\ message[m].status \in MessageStatuses
          /\ delivery[m] \in [Users -> DeliveryStatuses]
    /\ crowded \subseteq Users /\ changes \in 0..MaxChanges

\* What a finished message reports is what happened: its counts are those of
\* its rows, nothing is pending, and everyone in it was called once.  A job run
\* twice calls nobody twice, and a subscriber gets no more scheduled messages a
\* day than the channel's limit, unless two jobs were under way to him at once:
\* each counts before it delivers.  (Broadcasts do not look at the limit.)
ReportIsTrue ==
    /\ \A m \in Mids :
          /\ \A u \in Users : pushes[m][u] <= 1
          /\ message[m].status \in {"sent", "failed"} =>
                /\ message[m].total = Cardinality({u \in Users : delivery[m][u] # "none"})
                /\ message[m].delivered = Cardinality({u \in Users : delivery[m][u] = "delivered"})
                /\ \A u \in Users : delivery[m][u] # "none" <=> pushes[m][u] = 1
    /\ \A u \in Users \ crowded :
          Cardinality({m \in Mids : message[m].by = "schedule" /\ delivery[m][u] = "delivered"})
             <= DailyLimit

=============================================================================

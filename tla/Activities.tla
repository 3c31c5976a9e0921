----------------------------- MODULE Activities -----------------------------
(***************************************************************************)
(* Shared activities of one scope, a direct pair or a group: the host      *)
(* starts a session, others join and leave, the controller (the host, who  *)
(* never hands over) drives the playback state.  Every operation loads the *)
(* session first and writes in later statements.  Which users are in       *)
(* the scope, the pair or the group's members, is a choice of every step:  *)
(* a group changes meanwhile.  The presenter and the participants' roles   *)
(* are written and shown, and decide nothing.                              *)
(***************************************************************************)
EXTENDS Requests

CONSTANTS MaxActivities, MaxRevision    \* bounds on sessions and updates
ASSUME ActivityAssumption == MaxActivities \in Nat /\ MaxRevision \in Nat

VARIABLES
    activity,   \* the sessions so far: status, host, state revision
    presence,   \* per session: the users with a row that has no left_at
    orphaned    \* sessions whose host's request died between two statements

activityVars == <<activity, presence, orphaned>>

Aids == DOMAIN activity
ActiveActivities == {a \in Aids : activity[a].status = "active"}
Activity(host) == [status |-> "active", host |-> host, revision |-> 0]

ActivityInit == activity = <<>> /\ presence = <<>> /\ orphaned = {}

\* findById; what the handler takes from the row may be stale when it writes.
Loads(p, op, u, a) == Enter(p, [op |-> op, at |-> "write", by |-> u, id |-> a])

-----------------------------------------------------------------------------
\* start: nobody of the scope may be in an active session ...
StartActivity(p) ==
    /\ ActiveActivities = {} /\ Len(activity) < MaxActivities
    /\ \E u \in Users : Enter(p, [op |-> "start", at |-> "create", by |-> u])
    /\ UNCHANGED activityVars

\* ... the unique index lets one of several inserts through ...
CreateActivity(p) ==
    /\ At(p, "start", "create")
    /\ IF ActiveActivities = {} /\ Len(activity) < MaxActivities
       THEN /\ activity' = Append(activity, Activity(req[p].by))
            /\ presence' = Append(presence, {})
            /\ req' = [req EXCEPT ![p] = [op |-> "start", at |-> "host", by |-> req[p].by,
                                          id |-> Len(activity) + 1]]
            /\ UNCHANGED deaths
       ELSE Finish(p) /\ UNCHANGED <<activity, presence>>
    /\ UNCHANGED orphaned

\* ... and the host becomes a participant.  The upsert also brings back a
\* participant who has left; the role it writes decides nothing and is left out.
AddParticipant(p) ==
    /\ At(p, "start", "host") \/ At(p, "join", "write")
    /\ presence' = [presence EXCEPT ![req[p].id] = @ \cup {req[p].by}]
    /\ Finish(p)
    /\ UNCHANGED <<activity, orphaned>>

JoinActivity(p) ==
    /\ \E u \in Users, a \in ActiveActivities : Loads(p, "join", u, a)
    /\ UNCHANGED activityVars

\* leave asks for no membership, and only who has joined leaves a trace.  That
\* the host leaves an active session is decided here, acted upon two steps on.
LeaveActivity(p) ==
    /\ \E u \in Users, a \in Aids :
          /\ u \in presence[a] \/ activity[a].host = u
          /\ Enter(p, [op |-> "quit", at |-> "write", by |-> u, id |-> a,
                       ends |-> activity[a].host = u /\ activity[a].status = "active"])
    /\ UNCHANGED activityVars

Leaves(p) == presence' = [presence EXCEPT ![req[p].id] = @ \ {req[p].by}]

\* (Mutant: a host who leaves does not take the session along.)
MarkLeftOnly(p) ==
    /\ At(p, "quit", "write")
    /\ Leaves(p)
    /\ Finish(p)
    /\ UNCHANGED <<activity, orphaned>>

MarkLeft(p) ==
    /\ At(p, "quit", "write")
    /\ Leaves(p)
    /\ IF req[p].ends THEN Goto(p, "end") ELSE Finish(p)
    /\ UNCHANGED <<activity, orphaned>>

\* end: the host, who is also controller and creator, at any status.
LoadEnd(p) ==
    /\ \E a \in Aids : Loads(p, "end", activity[a].host, a)
    /\ UNCHANGED activityVars

\* The host's leave, or end: WHERE status = 'active'.
EndActivity(p) ==
    /\ At(p, "quit", "end") \/ At(p, "end", "write")
    /\ activity' = [activity EXCEPT ![req[p].id].status = "ended"]
    /\ Finish(p)
    /\ UNCHANGED <<presence, orphaned>>

\* updateState by the controller, on the revision its client last saw.
LoadState(p) ==
    /\ \E a \in ActiveActivities, base \in 0..MaxRevision - 1 :
          /\ base <= activity[a].revision
          /\ Enter(p, [op |-> "state", at |-> "write", by |-> activity[a].host,
                       id |-> a, base |-> base])
    /\ UNCHANGED activityVars

UpdateState(p) ==
    /\ At(p, "state", "write")
    /\ LET a == req[p].id IN
          activity' = IF activity[a].status = "active" /\ activity[a].revision = req[p].base
                      THEN [activity EXCEPT ![a].revision = @ + 1] ELSE activity
    /\ Finish(p)
    /\ UNCHANGED <<presence, orphaned>>

ActivityDie(p) ==
    /\ Die(p)
    /\ orphaned' = IF At(p, "start", "host") \/ At(p, "quit", "end")
                   THEN orphaned \cup {req[p].id} ELSE orphaned
    /\ UNCHANGED <<activity, presence>>

ActivityNext ==
    \E p \in Procs :
       \/ StartActivity(p) \/ CreateActivity(p) \/ AddParticipant(p) \/ JoinActivity(p)
       \/ LeaveActivity(p) \/ MarkLeft(p) \/ LoadEnd(p) \/ EndActivity(p)
       \/ LoadState(p) \/ UpdateState(p) \/ ActivityDie(p)

-----------------------------------------------------------------------------
ActivityTypeOK ==
    /\ \A a \in Aids :
          /\ activity[a] \in [status : {"active", "ended"}, host : Users,
                              revision : 0..MaxRevision]
          /\ presence[a] \subseteq Users
    /\ orphaned \subseteq Aids

\* "Host leaving ends the session for everyone": an active session, the one
\* that keeps the scope from starting another, has its host in it.  Only the
\* host's own request may be between the two statements of start or of leave,
\* or has died there.  Joins, other leaves, ends and a second request of the
\* host in flight do not break it.
HostIsPresent ==
    \A a \in ActiveActivities :
       \/ activity[a].host \in presence[a]
       \/ \E p \in Procs : \/ At(p, "start", "host") /\ req[p].id = a
                           \/ At(p, "quit", "end") /\ req[p].id = a
       \/ a \in orphaned

=============================================================================

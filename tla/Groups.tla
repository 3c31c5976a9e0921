------------------------------- MODULE Groups -------------------------------
(***************************************************************************)
(* A group chat's membership: the mirror the API keeps to authorise admin  *)
(* actions.  Every handler reads roles and counts in statements of their   *)
(* own and writes in a later one, with no transaction around them.         *)
(* Renaming (update) changes nothing the other operations look at.         *)
(***************************************************************************)
EXTENDS Requests

CONSTANT MaxMembers     \* MAX_MEMBERS, 256 in the code
ASSUME MembersAssumption == MaxMembers \in Nat \ {0}

VARIABLES
    groupRow,   \* "none", "live", "deleted": the row of group_channels
    role,       \* per user: "none", "member", "admin" (group_members)
    raced       \* which limits two requests in flight have contended for

groupVars == <<groupRow, role, raced>>

Roles == {"none", "member", "admin"}
Members == {u \in Users : role[u] # "none"}
Admins  == {u \in Users : role[u] = "admin"}

GroupInit ==
    /\ groupRow = "none"
    /\ role = [u \in Users |-> "none"]
    /\ raced = {}

GroupReq(op, at, by, target, to) ==
    [op |-> op, at |-> at, by |-> by, target |-> target, to |-> to]

\* Others in flight that may take an admin away / add members.
Takers(p) == {q \in Procs \ {p} : req[q].op \in {"demote", "remove", "leave"}}
Adders(p) == {q \in Procs \ {p} : req[q].op = "addMembers"}
Race(kind, others) == raced' = IF others # {} THEN raced \cup {kind} ELSE raced

\* The rows already there are left alone.
WithMembers(ids) == [u \in Users |-> IF u \in ids /\ role[u] = "none" THEN "member" ELSE role[u]]
NewGroup == groupRow = "none" /\ groupRow' = "live"
\* The rows cascade with the group.
DeleteGroup == groupRow' = "deleted" /\ role' = [u \in Users |-> "none"]

-----------------------------------------------------------------------------
\* create: the group's row first; too many members are refused after it.
CreateGroup(p) ==
    /\ NewGroup
    /\ \E u \in Users, others \in SUBSET Users :
          IF Cardinality(others \ {u}) + 1 > MaxMembers
          THEN UNCHANGED reqVars
          ELSE Enter(p, GroupReq("create", "members", u, others \ {u}, "member"))
    /\ UNCHANGED <<role, raced>>

CreateMembers(p) ==
    /\ At(p, "create", "members")
    /\ role' = [WithMembers(req[p].target) EXCEPT ![req[p].by] = "admin"]
    /\ Finish(p)
    /\ UNCHANGED <<groupRow, raced>>

\* requireAdmin, at the head of every admin operation.
AdminBegins(p) ==
    /\ groupRow = "live"
    /\ \E u \in Admins, t \in Users :
          \/ Enter(p, GroupReq("addMembers", "count", u, {t} \ {u}, "member"))
          \/ Enter(p, GroupReq("promote", "target", u, t, "admin"))
          \/ Enter(p, GroupReq("demote", "target", u, t, "member"))
          \/ t # u /\ Enter(p, GroupReq("remove", "write", u, t, "none"))
          \/ Enter(p, GroupReq("deleteGroup", "write", u, t, "none"))
    /\ UNCHANGED groupVars

\* addMembers: the members are counted, the ids inserted in the next statement.
CountMembers(p) ==
    /\ At(p, "addMembers", "count")
    /\ IF Cardinality(Members) + Cardinality(req[p].target) > MaxMembers
       THEN Finish(p) ELSE Goto(p, "write")
    /\ UNCHANGED groupVars

\* Conflicting ids are skipped; the foreign key refuses a deleted group.
AddMembers(p) ==
    /\ At(p, "addMembers", "write")
    /\ IF groupRow = "live"
       THEN /\ role' = WithMembers(req[p].target)
            /\ Race("size", Adders(p))
       ELSE UNCHANGED <<role, raced>>
    /\ Finish(p)
    /\ UNCHANGED groupRow

\* setRole: the target must be a member ...
FindTarget(p) ==
    /\ \/ At(p, "promote", "target")
       \/ At(p, "demote", "target")
    /\ IF role[req[p].target] = "none" THEN Finish(p)
       ELSE Goto(p, IF req[p].op = "demote" THEN "count" ELSE "write")
    /\ UNCHANGED groupVars

\* (Mutant: the count of admins is not looked at.)
CountAdminsNever(p) ==
    /\ At(p, "demote", "count")
    /\ Goto(p, "write")
    /\ UNCHANGED groupVars

\* ... and a demotion must leave an admin.
CountAdmins(p) ==
    /\ At(p, "demote", "count")
    /\ IF Cardinality(Admins) <= 1 THEN Finish(p) ELSE Goto(p, "write")
    /\ UNCHANGED groupVars

\* The update of one membership row, if it is still there ...
SetRole(p) ==
    /\ \/ At(p, "promote", "write") /\ UNCHANGED raced
       \/ At(p, "demote", "write")  /\ Race("admin", Takers(p))
    /\ LET t == req[p].target IN
          role' = IF role[t] = "none" THEN role ELSE [role EXCEPT ![t] = req[p].to]
    /\ Finish(p)
    /\ UNCHANGED groupRow

\* ... or its removal.
RemoveMember(p) ==
    /\ At(p, "remove", "write") \/ At(p, "leave", "write")
    /\ role' = [role EXCEPT ![req[p].target] = "none"]
    /\ Race("admin", Takers(p))
    /\ Finish(p)
    /\ UNCHANGED groupRow

\* leave: the leaver's role is read, then the members are counted ...
LeaveBegins(p) ==
    /\ \E u \in Members : Enter(p, GroupReq("leave", "count", u, u, role[u]))
    /\ UNCHANGED groupVars

\* ... the last member takes the group along ...
LeaveCounts(p) ==
    /\ At(p, "leave", "count")
    /\ IF Cardinality(Members) = 1 THEN Goto(p, "delete")
       ELSE IF req[p].to = "admin" THEN Goto(p, "admins")
       ELSE req' = [req EXCEPT ![p].at = "write", ![p].to = "none"] /\ UNCHANGED deaths
    /\ UNCHANGED groupVars

\* ... and the last admin has to promote somebody first.
LeaveCountsAdmins(p) ==
    /\ At(p, "leave", "admins")
    /\ IF Cardinality(Admins) = 1 THEN Finish(p)
       ELSE req' = [req EXCEPT ![p].at = "write", ![p].to = "none"] /\ UNCHANGED deaths
    /\ UNCHANGED groupVars

RemoveGroup(p) ==
    /\ \/ At(p, "leave", "delete")
       \/ At(p, "deleteGroup", "write")
    /\ DeleteGroup
    /\ Finish(p)
    /\ UNCHANGED raced

GroupDie(p) == Die(p) /\ UNCHANGED groupVars

GroupNext ==
    \E p \in Procs :
       \/ CreateGroup(p) \/ CreateMembers(p) \/ AdminBegins(p)
       \/ CountMembers(p) \/ AddMembers(p)
       \/ FindTarget(p) \/ CountAdmins(p) \/ SetRole(p) \/ RemoveMember(p)
       \/ LeaveBegins(p) \/ LeaveCounts(p) \/ LeaveCountsAdmins(p)
       \/ RemoveGroup(p) \/ GroupDie(p)

-----------------------------------------------------------------------------
GroupTypeOK ==
    /\ groupRow \in {"none", "live", "deleted"}
    /\ role \in [Users -> Roles]
    /\ raced \subseteq {"admin", "size"}

\* "A group must keep at least one admin", and at most MAX_MEMBERS members.
\* The checks are reads before the write, so the code keeps this only as long
\* as no two requests that take an admin away, or no two that add members, are
\* in flight together; no sequence of requests one after the other, and no
\* death of a process among them, leaves a group without an admin or too large.
GroupIsGoverned ==
    /\ Members # {} => Admins # {} \/ "admin" \in raced
    /\ Cardinality(Members) <= MaxMembers \/ "size" \in raced

=============================================================================

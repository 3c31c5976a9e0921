------------------------------ MODULE Contacts ------------------------------
(***************************************************************************)
(* The edge of one owner to one contact, its block, and what the block is  *)
(* for: chats the contact opens.  Blocking, by itself or with a report,    *)
(* takes two statements, an upsert that resets the type and an update that *)
(* sets it, with the owner's other requests and the worker's expiry of     *)
(* temporary connections between them.                                     *)
(***************************************************************************)
EXTENDS Requests

CONSTANT MaxReports     \* bound on report rows in the 24-hour window
ASSUME ReportsAssumption == MaxReports \in Nat

VARIABLES
    edge,       \* the row of connections: its type and temporary_expires_at
    reports,    \* the owner's reports of the contact in the window
    chat,       \* the pair's chat channel: "none", "old cid" or "new cid"
    logged,     \* message of the webhook: logged or not
    promised,   \* the owner was last told that the contact is blocked
    torn        \* a block was cut in two, by a death or by a removal

contactVars == <<edge, reports, chat, logged, promised, torn>>

EdgeTypes == {"unknown", "temporary", "trusted", "blocked"}
Untils == {"never", "ahead", "past"}
Edge(type, until) == [type |-> type, until |-> until]
NoEdge == Edge("none", "never")

ContactInit ==
    /\ edge = NoEdge /\ reports = 0 /\ logged = FALSE
    /\ chat \in {"none", "old cid"}
    /\ promised = FALSE /\ torn = FALSE

Owner(op, at) == [op |-> op, at |-> at]
Told(type) == promised' = (type = "blocked")

\* p is between the two statements of a block.
Cut(p) == At(p, "block", "set") \/ At(p, "report", "set")

\* INSERT ... ON CONFLICT: the type defaults to unknown before the COALESCE can
\* see that none was given, and the expiry of an existing row is kept.
Upsert(type, until) ==
    edge' = IF edge = NoEdge THEN Edge(type, until) ELSE [edge EXCEPT !.type = type]

\* No row, no update.
Update(type) == edge # NoEdge /\ edge' = [edge EXCEPT !.type = type]
Delete == edge # NoEdge /\ edge' = NoEdge
SetType(type) == edge' = IF edge = NoEdge THEN edge ELSE [edge EXCEPT !.type = type]

-----------------------------------------------------------------------------
AddContact(p) ==
    /\ req[p] = Idle
    /\ \E t \in EdgeTypes \ {"blocked"} : \E u \in {"never"} \cup (IF t = "temporary" THEN {"ahead"} ELSE {}) :
          Upsert(t, u) /\ Told(t)
    /\ UNCHANGED <<reports, chat, logged, torn, reqVars>>

\* update: a patch that names a type; the body cannot name an expiry.
PatchContact(p) ==
    /\ req[p] = Idle
    /\ \E t \in EdgeTypes \ {"blocked"} : Update(t) /\ Told(t)
    /\ UNCHANGED <<reports, chat, logged, torn, reqVars>>

\* A block in flight finds no row to set when the edge is removed under it.
RemoveContact(p) ==
    /\ req[p] = Idle
    /\ Delete /\ Told("none")
    /\ torn' = (torn \/ \E q \in Procs : Cut(q))
    /\ UNCHANGED <<reports, chat, logged, reqVars>>

BlockBegins(p) ==
    /\ Enter(p, Owner("block", "upsert"))
    /\ UNCHANGED contactVars

RecentDuplicate == reports > 0

\* file: a duplicate within 24 hours is refused, by a read of its own.
FileReport(p) ==
    /\ ~RecentDuplicate
    /\ Enter(p, Owner("report", "create"))
    /\ UNCHANGED contactVars

CreateReport(p) ==
    /\ At(p, "report", "create") /\ reports < MaxReports
    /\ reports' = reports + 1
    /\ Finish(p) \/ Goto(p, "upsert")       \* blockAlso
    /\ UNCHANGED <<edge, chat, logged, promised, torn>>

WindowPasses ==
    /\ reports > 0 /\ reports' = 0
    /\ UNCHANGED <<edge, chat, logged, promised, torn, reqVars>>

BlockUpsert(p) ==
    /\ At(p, "block", "upsert") \/ At(p, "report", "upsert")
    /\ Upsert("unknown", "never")
    /\ Goto(p, "set")
    /\ UNCHANGED <<reports, chat, logged, promised, torn>>

BlockSet(p) ==
    /\ At(p, "block", "set") \/ At(p, "report", "set")
    /\ SetType("blocked") /\ Told("blocked")
    /\ Finish(p)
    /\ torn' = (torn /\ edge = NoEdge)
    /\ UNCHANGED <<reports, chat, logged>>

\* unblock: the block is read, then taken away.
UnblockBegins(p) ==
    /\ edge.type = "blocked"
    /\ Enter(p, Owner("unblock", "set"))
    /\ UNCHANGED contactVars

UnblockSet(p) ==
    /\ At(p, "unblock", "set")
    /\ SetType("unknown") /\ Told("unknown")
    /\ Finish(p)
    /\ UNCHANGED <<reports, chat, logged, torn>>

-----------------------------------------------------------------------------
TimePasses ==
    /\ edge.until = "ahead" /\ edge' = [edge EXCEPT !.until = "past"]
    /\ UNCHANGED <<reports, chat, logged, promised, torn, reqVars>>

\* (Mutant: whatever the type, as long as a window has elapsed.)
ConnectionExpiryOfAny ==
    /\ edge.until = "past"
    /\ edge' = Edge("unknown", "never")
    /\ UNCHANGED <<reports, chat, logged, promised, torn, reqVars>>

\* The connection-expiry job: one guarded update.  (It also asks for the
\* contact's trust to be recomputed: module Standing.)
ConnectionExpiry ==
    /\ edge.type = "temporary" /\ edge.until = "past"
    /\ edge' = Edge("unknown", "never")
    /\ UNCHANGED <<reports, chat, logged, promised, torn, reqVars>>

IsBlockedBy(sender) == sender = "contact" /\ edge.type = "blocked"

\* openChannel: a contact who is blocked is refused; the owner is not ...
OpenChannel(p) ==
    /\ \E u \in {"owner", "contact"} : ~IsBlockedBy(u) /\ Enter(p, Owner("open", "insert"))
    /\ UNCHANGED contactVars

\* ... and the row is inserted, or one under the old cid is moved.
EnsureChannel(p) ==
    /\ At(p, "open", "insert")
    /\ IF chat = "old cid" THEN Goto(p, "migrate") /\ UNCHANGED chat
       ELSE Finish(p) /\ chat' = "new cid"
    /\ UNCHANGED <<edge, reports, logged, promised, torn>>

MigrateChannel(p) ==
    /\ At(p, "open", "migrate")
    /\ chat' = "new cid"
    /\ Finish(p)
    /\ UNCHANGED <<edge, reports, logged, promised, torn>>

\* message.new, as often as Stream delivers it; an unknown cid is dropped.
ChatWebhook ==
    /\ chat # "none" /\ logged' = TRUE
    /\ UNCHANGED <<edge, reports, chat, promised, torn, reqVars>>

ContactDie(p) ==
    /\ Die(p)
    /\ torn' = (torn \/ Cut(p))
    /\ UNCHANGED <<edge, reports, chat, logged, promised>>

EdgeStep(p) ==
    \/ AddContact(p) \/ PatchContact(p) \/ RemoveContact(p)
    \/ BlockBegins(p) \/ BlockUpsert(p) \/ BlockSet(p) \/ UnblockBegins(p) \/ UnblockSet(p)
ReportStep(p) == FileReport(p) \/ CreateReport(p)
ChatStep(p)   == OpenChannel(p) \/ EnsureChannel(p) \/ MigrateChannel(p)

ContactNext ==
    \/ \E p \in Procs : EdgeStep(p) \/ ReportStep(p) \/ ChatStep(p) \/ ContactDie(p)
    \/ WindowPasses \/ TimePasses \/ ConnectionExpiry \/ ChatWebhook

-----------------------------------------------------------------------------
ContactTypeOK ==
    /\ edge \in [type : EdgeTypes, until : Untils] \cup {NoEdge}
    /\ reports \in 0..MaxReports
    /\ chat \in {"none", "old cid", "new cid"} /\ logged \in BOOLEAN
    /\ promised \in BOOLEAN /\ torn \in BOOLEAN

\* A block stands until its owner undoes it: once the owner has been told that
\* the contact is blocked, by a block or by a report with blockAlso, and has no
\* other block in flight (whose upsert lifts the standing one for a moment),
\* the edge is blocked: no expiry, no earlier request that was overtaken and
\* nothing the contact does lifts it.  The two statements have no transaction,
\* so a death or a removal of the contact between them is the exception.
BlockStands ==
    \/ promised => edge.type = "blocked"
    \/ \E p \in Procs : Cut(p)
    \/ torn

=============================================================================

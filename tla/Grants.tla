------------------------------- MODULE Grants -------------------------------
(***************************************************************************)
(* What a user grants for a while: a contact share (a link or QR, with so  *)
(* many uses), an approval request to answer, a reachability channel.      *)
(* Each ends by use, by answer, by revocation or by its expiry, and the    *)
(* handlers look at the row in one statement and change it in another.     *)
(* A behaviour follows one grant.  No handler uses a channel's token, so   *)
(* a channel's uses do not count.                                          *)
(***************************************************************************)
EXTENDS Requests

CONSTANT MaxUses        \* the largest max_uses of a share
ASSUME UsesAssumption == MaxUses \in Nat \ {0}

VARIABLES
    grant,      \* the row
    clock,      \* its expires_at: "none", "ahead" or "past"
    ends,       \* the uses it had when it was first revoked, or Null
    answers,    \* the answers to an approval that clients were told of
    late,       \* it was used or answered after its expiry ...
    overtaken   \* ... which came while a request was between look and change

grantVars == <<grant, clock, ends, answers, late, overtaken>>

\* A disposable share has max_uses, 1 by default; a permanent one may have none.
Share(max) == [kind |-> "share", active |-> TRUE, uses |-> 0, max |-> max]
Approval   == [kind |-> "approval", status |-> "pending"]
Channel    == [kind |-> "channel", status |-> "active"]

GrantInit ==
    /\ \/ \E m \in {Null} \cup 1..MaxUses : grant = Share(m) /\ clock \in {"none", "ahead"}
       \/ grant = Approval /\ clock = "ahead"
       \/ grant = Channel /\ clock \in {"none", "ahead"}
    /\ ends = Null /\ answers = {} /\ late = FALSE /\ overtaken = FALSE

\* The rows of the three tables, uses being bounded.
ShareRow == [kind : {"share"}, active : BOOLEAN, uses : 0..MaxUses + 1, max : {Null} \cup 1..MaxUses]
ApprovalRow == [kind : {"approval"}, status : {"pending", "approved", "denied", "expired"}]
ChannelRow  == [kind : {"channel"}, status : {"active", "revoked", "expired"}]

Is(kind) == grant.kind = kind
Expired == clock = "past"

\* expires_at goes by; a request that has looked at the row does not look again.
GrantExpires ==
    /\ clock = "ahead" /\ clock' = "past"
    /\ overtaken' = \E p \in Procs : At(p, "scan", "record") \/ At(p, "respond", "write")
    /\ UNCHANGED <<grant, ends, answers, late, reqVars>>

-----------------------------------------------------------------------------
FindActiveShare == Is("share") /\ grant.active /\ ~Expired

\* resolveShare: an active, unexpired share is found by its token ...
ResolveShare(p) ==
    /\ FindActiveShare
    /\ Enter(p, [op |-> "scan", at |-> "record"])
    /\ UNCHANGED grantVars

Spent == grant.max # Null /\ grant.uses + 1 >= grant.max

\* (Mutant: the scan is recorded whatever has become of the share meanwhile.)
RecordScanOfAny(p) ==
    /\ At(p, "scan", "record")
    /\ grant.uses <= MaxUses
    /\ grant' = [grant EXCEPT !.uses = @ + 1, !.active = @ /\ ~Spent]
    /\ late' = (late \/ Expired)
    /\ Finish(p)
    /\ UNCHANGED <<clock, ends, answers, overtaken>>

\* ... and the scan recorded, the last one closing the share, unless it has
\* been spent or revoked meanwhile.  The expiry is not looked at again.
RecordScan(p) ==
    /\ At(p, "scan", "record")
    /\ IF grant.active /\ (grant.max = Null \/ grant.uses < grant.max)
       THEN /\ grant.uses <= MaxUses    \* bound on the uses of an unlimited share
            /\ grant' = [grant EXCEPT !.uses = @ + 1, !.active = ~Spent]
            /\ late' = (late \/ Expired)
       ELSE UNCHANGED <<grant, late>>
    /\ Finish(p)
    /\ UNCHANGED <<clock, ends, answers, overtaken>>

RevokeShare ==
    /\ Is("share") /\ grant' = [grant EXCEPT !.active = FALSE]
    /\ ends' = IF ends = Null THEN grant.uses ELSE ends
    /\ UNCHANGED <<clock, answers, late, overtaken, reqVars>>

-----------------------------------------------------------------------------
\* Listing and reading sweep too, and do nothing else.
ExpireOverdue ==
    /\ Is("approval") /\ grant.status = "pending" /\ Expired
    /\ grant' = [grant EXCEPT !.status = "expired"]
    /\ UNCHANGED <<clock, ends, answers, late, overtaken, reqVars>>

\* respond: sweep and read; an answered or expired request is refused ...
RespondBegins(p) ==
    /\ Is("approval") /\ grant.status = "pending" /\ ~Expired
    /\ \E d \in {"approved", "denied"} : Enter(p, [op |-> "respond", at |-> "write", as |-> d])
    /\ UNCHANGED grantVars

\* ... the answer is written if the status is still pending ...
RespondIfPending(p) ==
    /\ At(p, "respond", "write")
    /\ IF grant.status = "pending"
       THEN grant' = [grant EXCEPT !.status = req[p].as] /\ late' = Expired /\ Goto(p, "tell")
       ELSE Finish(p) /\ UNCHANGED <<grant, late>>
    /\ UNCHANGED <<clock, ends, answers, overtaken>>

\* ... and the client told.
TellAnswer(p) ==
    /\ At(p, "respond", "tell")
    /\ answers' = answers \cup {req[p].as}
    /\ Finish(p)
    /\ UNCHANGED <<grant, clock, ends, late, overtaken>>

-----------------------------------------------------------------------------
\* From any status.
RevokeChannel ==
    /\ Is("channel") /\ grant' = [grant EXCEPT !.status = "revoked"]
    /\ ends' = 0
    /\ UNCHANGED <<clock, answers, late, overtaken, reqVars>>

\* The channel-expiry job.
ChannelExpiry ==
    /\ Is("channel") /\ grant.status = "active" /\ Expired
    /\ grant' = [grant EXCEPT !.status = "expired"]
    /\ UNCHANGED <<clock, ends, answers, late, overtaken, reqVars>>

GrantDie(p) == Die(p) /\ UNCHANGED grantVars

ReachabilityStep ==
    \/ \E p \in Procs : ResolveShare(p) \/ RecordScan(p)
    \/ RevokeShare \/ RevokeChannel
ApprovalStep ==
    \/ \E p \in Procs : RespondBegins(p) \/ RespondIfPending(p) \/ TellAnswer(p)
    \/ ExpireOverdue

GrantNext ==
    \/ ReachabilityStep \/ ApprovalStep
    \/ ChannelExpiry \/ GrantExpires
    \/ \E p \in Procs : GrantDie(p)

-----------------------------------------------------------------------------
GrantTypeOK ==
    /\ grant \in ShareRow \/ grant \in ApprovalRow \/ grant \in ChannelRow
    /\ clock \in {"none", "ahead", "past"}
    /\ ends \in {Null} \cup Nat /\ answers \subseteq {"approved", "denied"}
    /\ late \in BOOLEAN /\ overtaken \in BOOLEAN

\* A grant gives what it says and no more.  However many scans of a share are
\* in flight, it is not used more often than max_uses, and not at all once its
\* owner was told that it is revoked; an approval is answered once, with the
\* answer its client is told; a revoked channel does not become an expired one.
\* Only a request that had looked at the row before the expiry can still use
\* or answer it afterwards.
GrantsHonoured ==
    /\ Is("share") =>
          /\ grant.max # Null => /\ grant.uses <= grant.max
                                 /\ grant.active => grant.uses < grant.max
          /\ ends # Null => ~grant.active /\ grant.uses = ends
    /\ Is("approval") => answers \subseteq {grant.status}
    /\ Is("channel") /\ ends # Null => grant.status = "revoked"
    /\ late => overtaken

=============================================================================

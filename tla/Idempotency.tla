---------------------------- MODULE Idempotency ----------------------------
(***************************************************************************)
(* The idempotency middleware of the payout, call, wallet and masked-call  *)
(* routes: retries of one request under one Idempotency-Key, over Redis,   *)
(* in front of a handler that has an effect, refuses, or fails with or     *)
(* without having had its effect.  Redis fails open; the write that keeps  *)
(* or clears the key is not awaited and may be lost.                       *)
(***************************************************************************)
EXTENDS Requests

CONSTANT MaxFaults      \* bound on what may excuse a second effect
ASSUME FaultsAssumption == MaxFaults \in Nat

VARIABLES
    entry,      \* the key in Redis: Absent, Pending, or the stored reply
    effects,    \* how often the handler's effect was committed
    told,       \* the replies clients have received
    excuses     \* runs not under the lock, effects behind a 5xx, expiries

idemVars == <<entry, effects, told, excuses>>

MaxEffects == MaxFaults + 2
Reply(status, effect) == [status |-> status, effect |-> effect]
Conflict == Reply("conflict", 0)
Absent   == Reply("absent", 0)
Pending  == Reply("pending", 0)
\* The replies that are kept for replay, with the effect the handler had, or 0.
Stored == {Reply("ok", n) : n \in 1..MaxEffects} \cup {Reply("refused", n) : n \in 0..MaxEffects}
Replies == Stored \cup {Conflict} \cup {Reply("failed", n) : n \in 0..MaxEffects}

IdemInit == entry = Absent /\ effects = 0 /\ told = {} /\ excuses = 0

Excuse == excuses < MaxFaults /\ excuses' = excuses + 1
Begin(locked) == [op |-> "keyed", at |-> "handler", locked |-> locked, reply |-> Null]

\* (Mutant: SET without NX.)
AcquireWithoutNX(p) ==
    /\ Enter(p, Begin(TRUE))
    /\ entry' = Pending
    /\ UNCHANGED <<effects, told, excuses>>

\* SET key pending EX NX: the first request goes on, the others look.
Acquire(p) ==
    /\ IF entry = Absent
       THEN Enter(p, Begin(TRUE)) /\ entry' = Pending
       ELSE Enter(p, [Begin(FALSE) EXCEPT !.at = "look"]) /\ UNCHANGED entry
    /\ UNCHANGED <<effects, told, excuses>>

\* GET: replay a stored reply; pending, or gone meanwhile, is a conflict.
Look(p) ==
    /\ At(p, "keyed", "look")
    /\ told' = told \cup {IF entry \in Stored THEN entry ELSE Conflict}
    /\ Finish(p)
    /\ UNCHANGED <<entry, effects, excuses>>

\* Redis answers neither SET nor GET: the handler runs without the lock.
FailOpen(p) ==
    /\ Excuse
    /\ \/ Enter(p, Begin(FALSE))
       \/ At(p, "keyed", "look") /\ Goto(p, "handler")
    /\ UNCHANGED <<entry, effects, told>>

\* The handler: done, or a 4xx or 5xx before or after the effect.  requestPayout
\* is refused after it: it sends the payout and then finds the balance gone.
Handle(p) ==
    /\ At(p, "keyed", "handler")
    /\ \E acts \in BOOLEAN, status \in {"ok", "refused", "failed"} :
          /\ status = "ok" => acts
          /\ effects + (IF acts THEN 1 ELSE 0) <= MaxEffects
          /\ effects' = IF acts THEN effects + 1 ELSE effects
          /\ IF acts /\ status = "failed" THEN Excuse ELSE UNCHANGED excuses
          /\ req' = [req EXCEPT ![p].at = "reply",
                       ![p].reply = Reply(status, IF acts THEN effects + 1 ELSE 0)]
    /\ UNCHANGED <<entry, told, deaths>>

\* res.json: the reply leaves; under the lock a write of the key is on its way.
Respond(p) ==
    /\ At(p, "keyed", "reply")
    /\ told' = told \cup {req[p].reply}
    /\ IF req[p].locked THEN Goto(p, "record") ELSE Finish(p)
    /\ UNCHANGED <<entry, effects, excuses>>

\* (Mutant: a 5xx is kept for replay like any other reply.)
RecordAnything(p) ==
    /\ At(p, "keyed", "record")
    /\ entry' = req[p].reply
    /\ Finish(p)
    /\ UNCHANGED <<effects, told, excuses>>

\* The write arrives: a 5xx clears the key, anything else is kept.
Record(p) ==
    /\ At(p, "keyed", "record")
    /\ entry' = IF req[p].reply.status = "failed" THEN Absent ELSE req[p].reply
    /\ Finish(p)
    /\ UNCHANGED <<effects, told, excuses>>

\* The key lives for 24 hours, whatever it holds.
KeyExpires ==
    /\ entry # Absent /\ Excuse
    /\ entry' = Absent
    /\ UNCHANGED <<effects, told, reqVars>>

\* A process that dies at "record" is also a write that Redis lost.
IdemDie(p) == Die(p) /\ UNCHANGED idemVars

IdemNext ==
    \/ \E p \in Procs :
          \/ Acquire(p) \/ Look(p) \/ FailOpen(p) \/ Handle(p)
          \/ Respond(p) \/ Record(p) \/ IdemDie(p)
    \/ KeyExpires

IdemSpec == ReqInit /\ IdemInit /\ [][IdemNext]_<<reqVars, idemVars>>

-----------------------------------------------------------------------------
IdemTypeOK ==
    /\ entry \in {Absent, Pending} \cup Stored
    /\ effects \in 0..MaxEffects
    /\ told \subseteq Replies
    /\ excuses \in 0..MaxFaults

\* Retries under one key have one effect, except for what the middleware gives
\* up on purpose: each second effect has a 5xx that hid the first, an outage of
\* Redis, or the key's expiry to excuse it.  Without an excuse all clients that
\* are answered by the handler or by a replay, done or refused, are answered the
\* same, and no later retry adds to the effect, or to none, behind that answer.
OneEffectPerKey ==
    /\ effects <= 1 + excuses
    /\ excuses = 0 => \A a, b \in told \cap Stored : a = b /\ a.effect = effects

=============================================================================

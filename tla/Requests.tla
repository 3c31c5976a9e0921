------------------------------ MODULE Requests ------------------------------
(***************************************************************************)
(* What the models of the smaller services share: requests in flight.  A   *)
(* process of the API or of the worker runs one handler at a time, and     *)
(* every await in it is a step boundary: req[p] says where p stands and    *)
(* what it carries over the await.  A process may die at any await; what   *)
(* it has written stays, what it carries is lost.                          *)
(***************************************************************************)
EXTENDS Integers, Sequences, FiniteSets
Sets == INSTANCE FiniteSetsExt

CONSTANTS
    Users,      \* user ids
    Procs,      \* processes: one request or job each
    Null,       \* SQL NULL / no row
    MaxDeaths   \* bound on the processes that die in one behaviour

ASSUME DeathsAssumption == MaxDeaths \in Nat
ASSUME ProcsAssumption  == IsFiniteSet(Procs)
ASSUME UsersAssumption  == IsFiniteSet(Users)

VARIABLES
    req,        \* per process: the handler it runs, or Idle
    deaths      \* processes that died so far

reqVars == <<req, deaths>>

Idle == [op |-> "idle"]

ReqInit == req = [p \in Procs |-> Idle] /\ deaths = 0

\* The handler r begins in an idle process.
Enter(p, r) == req[p] = Idle /\ req' = [req EXCEPT ![p] = r] /\ UNCHANGED deaths

\* p stands at await `at` of handler op.
At(p, op, at) == req[p].op = op /\ req[p].at = at

Goto(p, at) == req' = [req EXCEPT ![p].at = at] /\ UNCHANGED deaths

\* The handler returns or throws.
Finish(p) == req' = [req EXCEPT ![p] = Idle] /\ UNCHANGED deaths

Die(p) ==
    /\ req[p] # Idle /\ deaths < MaxDeaths
    /\ req' = [req EXCEPT ![p] = Idle]
    /\ deaths' = deaths + 1

=============================================================================

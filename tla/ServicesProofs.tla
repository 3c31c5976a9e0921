--------------------------- MODULE ServicesProofs ---------------------------
(***************************************************************************)
(* Proofs about the smaller services, for any number of users, processes,  *)
(* rows and deaths.  Each section strengthens one service's property to an *)
(* invariant of every request in flight, and shows that the service begins *)
(* in it and keeps it; the last section puts them together and states the  *)
(* properties that the run of MCPlatform checks.                           *)
(***************************************************************************)
EXTENDS MCPlatform, IdempotencyProofs, SequenceTheorems, WellFoundedInduction

\* A counter below its bound has room for one more.
LEMMA OneMore ==
    ASSUME NEW m \in Nat, NEW n \in 0..m, n < m
    PROVE  n + 1 \in 0..m
OBVIOUS

\* Nothing counted yet is within every bound.
LEMMA NoneYet ==
    ASSUME NEW m \in Nat
    PROVE  0 \in 0..m
OBVIOUS

-----------------------------------------------------------------------------
(* Sums.                                                                   *)

\* The element a sum takes next.
Picked(s) == CHOOSE x \in s : TRUE

\* g adds up what f makes of the elements of every subset of S.
Sums(g, f, S) ==
    g = [s \in SUBSET S |-> IF s = {} THEN 0 ELSE f[Picked(s)] + g[s \ {Picked(s)}]]

\* PointsOf is the fold of the library, written out.
LEMMA PointsAreASum ==
    ASSUME NEW S
    PROVE  PointsOf(S) = (CHOOSE g : Sums(g, Weights, S))[S]
BY DEF PointsOf, Sets!MapThenSumSet, Sets!MapThenFoldSet, Sums, Picked

\* What some number does, a least number does.
LEMMA LeastOne ==
    ASSUME NEW T \in SUBSET Nat, T # {}
    PROVE  \E n \in T : \A k \in T : n <= k
<1>1. PICK n \in T : \A k \in T : ~(<<k, n>> \in OpToRel(<, Nat))
  BY WFMin, NatLessThanWellFounded
<1>2. \A k \in T : ~(k < n)
  BY <1>1 DEF OpToRel
<1> QED BY <1>2

\* A sum that has taken an element has one less to take.
LEMMA OneLess ==
    ASSUME NEW S, IsFiniteSet(S), NEW s \in SUBSET S, s # {}
    PROVE  /\ s \ {Picked(s)} \in SUBSET S /\ Picked(s) \in S
           /\ Cardinality(s) \in Nat /\ Cardinality(s) # 0
           /\ Cardinality(s \ {Picked(s)}) = Cardinality(s) - 1
<1>1. Picked(s) \in s
  BY DEF Picked
<1>2. IsFiniteSet(s)
  BY FS_Subset
<1>3. Cardinality(s) \in Nat /\ Cardinality(s) # 0
  BY <1>2, FS_CardinalityType, FS_EmptySet
<1>4. Cardinality(s \ {Picked(s)}) = Cardinality(s) - 1
  BY <1>1, <1>2, FS_RemoveElement
<1> QED BY <1>1, <1>3, <1>4

\* Every finite set has such a sum: up to a number of elements at a time.
LEMMA SumExists ==
    ASSUME NEW S, IsFiniteSet(S), NEW f
    PROVE  \E g : Sums(g, f, S)
<1> DEFINE Upto(n) == {s \in SUBSET S : Cardinality(s) <= n}
           Added(g, s) == IF s = {} THEN 0 ELSE f[Picked(s)] + g[s \ {Picked(s)}]
           Partly(n) == \E g : g = [s \in Upto(n) |-> Added(g, s)]
           Missing == {n \in Nat : ~Partly(n)}
<1>1. \A s \in SUBSET S : IsFiniteSet(s) /\ Cardinality(s) \in Nat
  BY FS_Subset, FS_CardinalityType
<1>2. Missing = {}
  <2>1. SUFFICES ASSUME Missing # {}
                 PROVE  FALSE
    OBVIOUS
  <2>2. PICK n \in Missing : \A k \in Missing : n <= k
    BY <2>1, LeastOne
  <2>3. n \in Nat /\ ~Partly(n)
    OBVIOUS
  <2>4. CASE n = 0
    <3> DEFINE g == [s \in Upto(0) |-> 0]
    <3>1. \A s \in Upto(0) : s = {}
      <4>1. ASSUME NEW s \in Upto(0), s # {}
            PROVE  FALSE
        <5>1. Cardinality(s) # 0 /\ Cardinality(s) \in Nat
          BY <4>1, OneLess
        <5> QED BY <5>1
      <4> QED BY <4>1
    <3>2. g = [s \in Upto(0) |-> Added(g, s)]
      BY <3>1
    <3> HIDE DEF g, Added, Upto
    <3>3. Partly(0)
      BY <3>2
    <3> QED BY <2>3, <2>4, <3>3
  <2>5. CASE n # 0
    <3>1. n - 1 \in Nat /\ n - 1 \notin Missing
      <4>1. n - 1 \in Nat /\ ~(n <= n - 1)
        BY <2>3, <2>5
      <4> HIDE DEF Missing
      <4> QED BY <2>2, <4>1
    <3>2. PICK h : h = [s \in Upto(n - 1) |-> Added(h, s)]
      BY <3>1
    <3> DEFINE g == [s \in Upto(n) |-> Added(h, s)]
    <3>3. \A s \in Upto(n - 1) : s \in Upto(n) /\ g[s] = h[s]
      <4>1. ASSUME NEW s \in Upto(n - 1)
            PROVE  s \in Upto(n) /\ g[s] = h[s]
        <5>1. s \in Upto(n)
          <6>1. Cardinality(s) \in Nat /\ Cardinality(s) <= n - 1
            BY <1>1
          <6> QED BY <2>3, <6>1
        <5>2. h[s] = Added(h, s)
          <6> HIDE DEF Added, Upto
          <6> QED BY <3>2
        <5>3. g[s] = Added(h, s)
          <6> HIDE DEF Added, Upto
          <6> QED BY <5>1
        <5> QED BY <5>1, <5>2, <5>3
      <4> QED BY <4>1
    <3>4. \A s \in Upto(n) : s # {} => s \ {Picked(s)} \in Upto(n - 1)
      <4>1. ASSUME NEW s \in Upto(n), s # {}
            PROVE  s \ {Picked(s)} \in Upto(n - 1)
        <5>1. /\ s \ {Picked(s)} \in SUBSET S /\ Cardinality(s) \in Nat
              /\ Cardinality(s \ {Picked(s)}) = Cardinality(s) - 1
          BY <4>1, OneLess
        <5>2. Cardinality(s) <= n
          OBVIOUS
        <5> QED BY <2>3, <5>1, <5>2
      <4> QED BY <4>1
    <3>5. \A s \in Upto(n) : Added(h, s) = Added(g, s)
      <4> HIDE DEF g, Upto
      <4> QED BY <3>3, <3>4
    <3>6. g = [s \in Upto(n) |-> Added(g, s)]
      <4>1. g = [s \in Upto(n) |-> Added(h, s)]
        OBVIOUS
      <4> HIDE DEF g, Upto, Added
      <4> QED BY <3>5, <4>1
    <3> HIDE DEF g, Added, Upto
    <3>7. Partly(n)
      BY <3>6
    <3> QED BY <2>3, <3>7
  <2> QED BY <2>4, <2>5
<1>3. Cardinality(S) \in Nat /\ \A s \in SUBSET S : Cardinality(s) <= Cardinality(S)
  BY FS_Subset, FS_CardinalityType
<1>4. Upto(Cardinality(S)) = SUBSET S
  BY <1>3
<1>5. PICK g : g = [s \in Upto(Cardinality(S)) |-> Added(g, s)]
  <2>1. Partly(Cardinality(S))
    BY <1>2, <1>3
  <2> QED BY <2>1
<1>6. g = [s \in SUBSET S |-> Added(g, s)]
  <2> HIDE DEF Added, Upto
  <2> QED BY <1>4, <1>5
<1> QED BY <1>6 DEF Sums

\* A sum of integers is an integer.
LEMMA SumIsInteger ==
    ASSUME NEW S, IsFiniteSet(S), NEW f, \A x \in S : f[x] \in Int, NEW g, Sums(g, f, S)
    PROVE  g[S] \in Int
<1> DEFINE Wrong == {n \in Nat : \E s \in SUBSET S : Cardinality(s) = n /\ g[s] \notin Int}
<1>1. \A s \in SUBSET S : g[s] = IF s = {} THEN 0 ELSE f[Picked(s)] + g[s \ {Picked(s)}]
  BY DEF Sums
<1>2. Wrong = {}
  <2>1. SUFFICES ASSUME Wrong # {}
                 PROVE  FALSE
    OBVIOUS
  <2>2. PICK n \in Wrong : \A k \in Wrong : n <= k
    BY <2>1, LeastOne
  <2>3. PICK s \in SUBSET S : Cardinality(s) = n /\ g[s] \notin Int
    OBVIOUS
  <2>4. s # {}
    <3>1. g[{}] = 0
      BY <1>1
    <3> QED BY <2>3, <3>1
  <2>5. /\ s \ {Picked(s)} \in SUBSET S /\ Picked(s) \in S /\ n \in Nat /\ n # 0
        /\ Cardinality(s \ {Picked(s)}) = n - 1
    BY <2>3, <2>4, OneLess
  <2>6. n - 1 \notin Wrong /\ n - 1 \in Nat
    BY <2>2, <2>5
  <2>7. g[s \ {Picked(s)}] \in Int
    BY <2>5, <2>6
  <2>8. g[s] = f[Picked(s)] + g[s \ {Picked(s)}]
    BY <1>1, <2>4
  <2> QED BY <2>3, <2>5, <2>7, <2>8
<1>3. S \in SUBSET S /\ Cardinality(S) \in Nat
  BY FS_CardinalityType
<1> QED BY <1>2, <1>3

\* The weights of any set of verifications add up to an integer ...
LEMMA PointsAreIntegers ==
    ASSUME NEW S \in SUBSET DOMAIN Weights
    PROVE  PointsOf(S) \in Int
<1>1. DOMAIN Weights = {"device_integrity", "liveness_check", "govt_id_verified",
                        "phone_verified", "profile_complete", "account_age"}
      /\ \A x \in DOMAIN Weights : Weights[x] \in Int
  BY DEF Weights
<1>2. IsFiniteSet(S)
  <2>1. IsFiniteSet({"device_integrity", "liveness_check", "govt_id_verified"}
                    \cup {"phone_verified", "profile_complete", "account_age"})
    <3>1. \A a, b, c : IsFiniteSet({a, b, c})
      <4>1. ASSUME NEW a, NEW b, NEW c
            PROVE  IsFiniteSet({a, b, c})
        <5>1. IsFiniteSet({} \cup {a})
          BY FS_EmptySet, FS_AddElement
        <5>2. IsFiniteSet(({} \cup {a}) \cup {b})
          BY <5>1, FS_AddElement
        <5>3. IsFiniteSet((({} \cup {a}) \cup {b}) \cup {c})
          BY <5>2, FS_AddElement
        <5>4. (({} \cup {a}) \cup {b}) \cup {c} = {a, b, c}
          OBVIOUS
        <5> QED BY <5>3, <5>4
      <4> QED BY <4>1
    <3> QED BY <3>1, FS_Union
  <2>2. {"device_integrity", "liveness_check", "govt_id_verified"}
           \cup {"phone_verified", "profile_complete", "account_age"} = DOMAIN Weights
    BY <1>1
  <2> QED BY <2>1, <2>2, FS_Subset
<1>3. Sums(CHOOSE g : Sums(g, Weights, S), Weights, S)
  BY <1>2, SumExists
<1> QED BY <1>1, <1>2, <1>3, SumIsInteger, PointsAreASum

\* ... and so do the points of any set of observations.
LEMMA TotalIsAnInteger ==
    ASSUME NEW S, IsFiniteSet(S), \A u \in S : Points[observations[u].outcome] \in Int
    PROVE  Total(S) \in Int
<1> DEFINE f == [u \in S |-> Points[observations[u].outcome]]
           Adds(g) ==
              g = [s \in SUBSET S |-> IF s = {} THEN 0
                                      ELSE Points[observations[Picked(s)].outcome]
                                              + g[s \ {Picked(s)}]]
<1>1. Total(S) = (CHOOSE g : Adds(g))[S]
  BY DEF Total, Sets!MapThenSumSet, Sets!MapThenFoldSet, Picked
<1>2. \A s \in SUBSET S : s # {} => f[Picked(s)] = Points[observations[Picked(s)].outcome]
  BY DEF Picked
<1>3. \A g : Adds(g) <=> Sums(g, f, S)
  <2>1. ASSUME NEW g
        PROVE  Adds(g) <=> Sums(g, f, S)
    <3>1. \A s \in SUBSET S : (IF s = {} THEN 0 ELSE f[Picked(s)] + g[s \ {Picked(s)}])
             = IF s = {} THEN 0 ELSE Points[observations[Picked(s)].outcome] + g[s \ {Picked(s)}]
      <4> HIDE DEF f
      <4> QED BY <1>2
    <3> HIDE DEF f
    <3> QED BY <3>1 DEF Sums
  <2> QED BY <2>1
<1>4. PICK h : Adds(h)
  BY <1>3, SumExists
<1>5. Adds(CHOOSE g : Adds(g))
  <2> HIDE DEF Adds
  <2> QED BY <1>4
<1>6. \A x \in S : f[x] \in Int
  OBVIOUS
<1> HIDE DEF f, Adds
<1>7. PICK g : Sums(g, f, S) /\ Total(S) = g[S]
  BY <1>1, <1>3, <1>5
<1> QED BY <1>6, <1>7, SumIsInteger

\* A clamped number is a score out of a hundred.
LEMMA ClampedIsAScore ==
    ASSUME NEW n \in Int
    PROVE  ClampScore(n) \in 0..100 /\ Clamp(n) \in 0..100
<1>1. \A a, b \in Int : Sets!Min({a, b}) = IF a <= b THEN a ELSE b
  BY DEF Sets!Min
<1>2. \A a, b \in Int : Sets!Max({a, b}) = IF a >= b THEN a ELSE b
  BY DEF Sets!Max
<1>3. PICK m \in Int : m = Sets!Min({100, n}) /\ m <= 100
  BY <1>1
<1>4. Sets!Max({0, m}) \in 0..100
  <2>1. Sets!Max({0, m}) = IF 0 >= m THEN 0 ELSE m
    BY <1>2
  <2> QED BY <1>3, <2>1
<1> QED BY <1>3, <1>4 DEF ClampScore, Clamp

-----------------------------------------------------------------------------
(* Groups.                                                                 *)

\* What a request of the service can have in hand, by where it stands.
GroupRequests ==
         {Idle}
    \cup [op: {"create"}, at: {"members"}, by: Users, target: SUBSET Users, to: {"member"}]
    \cup [op: {"addMembers"}, at: {"count", "write"}, by: Users, target: SUBSET Users, to: {"member"}]
    \cup [op: {"promote"}, at: {"target", "write"}, by: Users, target: Users, to: {"admin"}]
    \cup [op: {"demote"}, at: {"target", "count", "write"}, by: Users, target: Users, to: {"member"}]
    \cup [op: {"remove", "deleteGroup"}, at: {"write"}, by: Users, target: Users, to: {"none"}]
    \cup [op: {"leave"}, at: {"count", "admins", "delete"}, by: Users, target: Users, to: {"member", "admin"}]
    \cup [op: {"leave"}, at: {"write"}, by: Users, target: Users, to: {"none"}]

\* A request that has passed the last check before it takes a role away.
Cleared(r) ==
    \/ r.op \in {"demote", "remove", "leave"} /\ r.at = "write"
    \/ r.op = "leave" /\ r.at = "count" /\ r.to = "member"
Adds(r) == r.op = "addMembers" /\ r.at = "write"

\* Nobody asks anything of a group that is not there.
NothingBeforeTheGroup ==
    groupRow = "none" => Members = {} /\ \A q \in Procs : req[q] = Idle

\* Until the creator's row is there nobody can ask anything of the group.
CreatesAlone ==
    \A p \in Procs : req[p].op = "create" =>
       /\ groupRow = "live" /\ Members = {}
       /\ Cardinality(req[p].target) + 1 <= MaxMembers
       /\ \A q \in Procs : q # p => req[q] = Idle

\* Once everyone has left, no request is under way that could bring someone back.
EmptyIsQuiet ==
    "admin" \notin raced /\ groupRow = "live" /\ Members = {} =>
       \A q \in Procs : req[q].op \in {"idle", "create"}

\* What the checks have found still holds when the write comes.
AdminsStay ==
    "admin" \notin raced =>
       \A p \in Procs : Cleared(req[p]) => Members = {} \/ Admins \ {req[p].target} # {}
RoomStays ==
    "size" \notin raced =>
       \A p \in Procs : Adds(req[p]) => Cardinality(Members) + Cardinality(req[p].target) <= MaxMembers

\* The invariant of the service.
GroupInv ==
    /\ req \in [Procs -> GroupRequests] /\ GroupTypeOK
    /\ NothingBeforeTheGroup /\ CreatesAlone /\ EmptyIsQuiet
    /\ AdminsStay /\ RoomStays /\ GroupIsGoverned

\* A request that goes on to its next await keeps what it asks for ...
LEMMA GroupRequest ==
    ASSUME NEW r \in GroupRequests, NEW at,
           \/ r.op = "addMembers" /\ at \in {"count", "write"}
           \/ r.op = "promote" /\ at = "write"
           \/ r.op = "demote" /\ at \in {"count", "write"}
           \/ r.op = "leave" /\ r.at # "write" /\ at \in {"admins", "delete"},
           NEW s, s = [r EXCEPT !.at = at]
    PROVE  /\ s \in GroupRequests
           /\ s.op = r.op /\ s.target = r.target /\ s.at = at
<1>1. CASE r \in [op: {"addMembers"}, at: {"count", "write"}, by: Users, target: SUBSET Users, to: {"member"}]
  BY <1>1 DEF GroupRequests
<1>2. CASE r \in [op: {"promote"}, at: {"target", "write"}, by: Users, target: Users, to: {"admin"}]
  BY <1>2 DEF GroupRequests
<1>3. CASE r \in [op: {"demote"}, at: {"target", "count", "write"}, by: Users, target: Users, to: {"member"}]
  BY <1>3 DEF GroupRequests
<1>4. CASE r \in [op: {"leave"}, at: {"count", "admins", "delete"}, by: Users, target: Users, to: {"member", "admin"}]
  BY <1>4 DEF GroupRequests
<1> QED BY <1>1, <1>2, <1>3, <1>4 DEF GroupRequests, Idle

\* ... also a leave that has passed its last check.
LEMMA LeaveRequest ==
    ASSUME NEW r \in GroupRequests, r.op = "leave",
           NEW s, s = [r EXCEPT !.at = "write", !.to = "none"]
    PROVE  /\ s \in GroupRequests
           /\ s.op = "leave" /\ s.target = r.target
<1>1. CASE r \in [op: {"leave"}, at: {"count", "admins", "delete"}, by: Users, target: Users, to: {"member", "admin"}]
  BY <1>1 DEF GroupRequests
<1>2. CASE r \in [op: {"leave"}, at: {"write"}, by: Users, target: Users, to: {"none"}]
  BY <1>2 DEF GroupRequests
<1> QED BY <1>1, <1>2 DEF GroupRequests, Idle

\* Of two or more there is always another.
LEMMA TwoHaveAnother ==
    ASSUME NEW S, IsFiniteSet(S), NEW x, S # {}, Cardinality(S) # 1
    PROVE  S \ {x} # {}
<1> SUFFICES ASSUME S \ {x} = {} PROVE FALSE
  OBVIOUS
<1>1. S = {x}
  OBVIOUS
<1> QED BY <1>1, FS_Singleton

\* Every step of the service keeps its invariant.
LEMMA GroupKept ==
    ASSUME GroupInv, [GroupNext]_<<reqVars, groupVars>>
    PROVE  GroupInv'
<1> DEFINE R == GroupRequests
<1>1. /\ req \in [Procs -> R] /\ groupRow \in {"none", "live", "deleted"}
      /\ role \in [Users -> Roles] /\ raced \subseteq {"admin", "size"}
      /\ NothingBeforeTheGroup /\ CreatesAlone /\ EmptyIsQuiet
      /\ AdminsStay /\ RoomStays /\ GroupIsGoverned
  BY DEF GroupInv, GroupTypeOK
<1>2. Idle \in R /\ Idle.op = "idle" /\ \A r \in R : r.op = "idle" => r = Idle
  BY DEF GroupRequests, Idle
<1>3. \A r \in R : /\ r.op \in {"create", "addMembers"} => r.target \subseteq Users
                   /\ r.op \in {"promote", "demote", "remove", "leave", "deleteGroup"} => r.target \in Users
  BY DEF GroupRequests, Idle
<1>4. /\ \A S \in SUBSET Users : IsFiniteSet(S) /\ Cardinality(S) \in Nat
      /\ Members \in SUBSET Users /\ Members' \in SUBSET Users
      /\ MaxMembers \in Nat \ {0}
  BY UsersAssumption, FS_Subset, FS_CardinalityType, MembersAssumption DEF Members
<1>5. Admins \subseteq Members
  BY DEF Admins, Members
<1> HIDE DEF R
<1>6. ASSUME req' \in [Procs -> R], groupRow' \in {"none", "live", "deleted"},
             role' \in [Users -> Roles], raced' \subseteq {"admin", "size"},
             NothingBeforeTheGroup', CreatesAlone', EmptyIsQuiet',
             AdminsStay', RoomStays', GroupIsGoverned'
      PROVE  GroupInv'
  BY <1>6 DEF GroupInv, GroupTypeOK, R
<1>7. UNCHANGED groupVars =>
         /\ UNCHANGED <<groupRow, role, raced>>
         /\ Members' = Members /\ Admins' = Admins
  BY DEF groupVars, Members, Admins
\* A request begins, moves on or ends, and the group is as it was.
<1>8. ASSUME NEW p \in Procs, NEW r \in R, req' = [req EXCEPT ![p] = r], UNCHANGED groupVars,
              \/ r = Idle
              \/ req[p] # Idle /\ r.op = req[p].op /\ r.op # "create"
              \/ req[p] = Idle /\ Members # {} /\ r.op # "create",
              "admin" \notin raced /\ Cleared(r) => Members = {} \/ Admins \ {r.target} # {},
              "size" \notin raced /\ Adds(r) =>
                 Cardinality(Members) + Cardinality(r.target) <= MaxMembers
       PROVE  GroupInv'
  <2>1. req' \in [Procs -> R] /\ \A q \in Procs : req'[q] = IF q = p THEN r ELSE req[q]
    BY <1>1, <1>8
  <2>2. NothingBeforeTheGroup'
    BY <1>1, <1>7, <1>8, <2>1 DEF NothingBeforeTheGroup
  <2>3. CreatesAlone'
    BY <1>1, <1>2, <1>7, <1>8, <2>1 DEF CreatesAlone
  <2>4. EmptyIsQuiet'
    BY <1>1, <1>2, <1>7, <1>8, <2>1 DEF EmptyIsQuiet
  <2>5. AdminsStay'
    BY <1>1, <1>7, <1>8, <2>1 DEF AdminsStay
  <2>6. RoomStays'
    BY <1>1, <1>7, <1>8, <2>1 DEF RoomStays
  <2>7. GroupIsGoverned'
    BY <1>1, <1>7, <1>8 DEF GroupIsGoverned
  <2> QED BY <1>1, <1>6, <1>7, <1>8, <2>1, <2>2, <2>3, <2>4, <2>5, <2>6, <2>7
\* A request of the group is not Idle; no creation is in flight beside it.
<1>9. ASSUME NEW p \in Procs, req[p].op \notin {"idle", "create"}
       PROVE  /\ \A q \in Procs : req[q].op # "create"
              /\ groupRow # "none"
              /\ "admin" \notin raced /\ groupRow = "live" => Members # {}
  BY <1>1, <1>2, <1>9 DEF CreatesAlone, NothingBeforeTheGroup, EmptyIsQuiet
<1>10. ASSUME NEW p \in Procs, req' = [req EXCEPT ![p] = Idle]
       PROVE  /\ req' \in [Procs -> R] /\ req'[p] = Idle
              /\ \A q \in Procs : q # p => req'[q] = req[q]
              /\ \A q \in Procs : req'[q].op # "idle" => q # p
  BY <1>1, <1>2, <1>10
<1>11. ASSUME NEW p \in Procs, CreateGroup(p)
       PROVE  GroupInv'
  <2>1. /\ groupRow = "none" /\ groupRow' = "live" /\ UNCHANGED <<role, raced>>
        /\ Members' = Members /\ Admins' = Admins /\ Members = {}
        /\ \A q \in Procs : req[q] = Idle
    BY <1>1, <1>11 DEF CreateGroup, NewGroup, Members, Admins, NothingBeforeTheGroup
  <2>2. GroupIsGoverned' /\ NothingBeforeTheGroup'
    BY <1>1, <2>1 DEF GroupIsGoverned, NothingBeforeTheGroup
  <2>3. CASE UNCHANGED reqVars
    <3>1. req' = req
      BY <2>3 DEF reqVars
    <3>2. CreatesAlone' /\ EmptyIsQuiet' /\ AdminsStay' /\ RoomStays'
      BY <1>2, <2>1, <3>1 DEF CreatesAlone, EmptyIsQuiet, AdminsStay, RoomStays, Cleared, Adds
    <3> QED BY <1>1, <1>6, <2>1, <2>2, <3>1, <3>2
  <2>4. ASSUME NEW u \in Users, NEW others \in SUBSET Users,
               Cardinality(others \ {u}) + 1 <= MaxMembers,
               Enter(p, GroupReq("create", "members", u, others \ {u}, "member"))
        PROVE  GroupInv'
    <3>1. PICK r : r = GroupReq("create", "members", u, others \ {u}, "member")
      OBVIOUS
    <3>2. r \in R /\ r.op = "create" /\ r.target = others \ {u}
      BY <3>1 DEF R, GroupRequests, GroupReq
    <3>3. req' = [req EXCEPT ![p] = r]
      BY <2>4, <3>1 DEF Enter
    <3>4. req' \in [Procs -> R] /\ \A q \in Procs : req'[q] = IF q = p THEN r ELSE Idle
      BY <1>1, <2>1, <3>2, <3>3
    <3>5. CreatesAlone'
      BY <1>2, <2>1, <2>4, <3>2, <3>4 DEF CreatesAlone
    <3>6. EmptyIsQuiet' /\ AdminsStay' /\ RoomStays'
      BY <1>2, <2>1, <3>2, <3>4 DEF EmptyIsQuiet, AdminsStay, RoomStays, Cleared, Adds
    <3> QED BY <1>1, <1>6, <2>1, <2>2, <3>4, <3>5, <3>6
  <2>5. PICK u \in Users, others \in SUBSET Users :
           IF Cardinality(others \ {u}) + 1 > MaxMembers
           THEN UNCHANGED reqVars
           ELSE Enter(p, GroupReq("create", "members", u, others \ {u}, "member"))
    BY <1>11 DEF CreateGroup
  <2>6. Cardinality(others \ {u}) \in Nat
    BY <1>4
  <2> QED BY <1>4, <2>3, <2>4, <2>5, <2>6
<1>12. ASSUME NEW p \in Procs, CreateMembers(p)
       PROVE  GroupInv'
  <2>1. /\ req[p].op = "create" /\ req' = [req EXCEPT ![p] = Idle]
        /\ UNCHANGED <<groupRow, raced>>
        /\ role' = [WithMembers(req[p].target) EXCEPT ![req[p].by] = "admin"]
    BY <1>12 DEF CreateMembers, At, Finish
  <2>2. PICK u \in Users, S \in SUBSET Users : u = req[p].by /\ S = req[p].target
    BY <1>1, <2>1 DEF R, GroupRequests, Idle
  <2>3. /\ groupRow = "live" /\ Members = {} /\ Cardinality(S) + 1 <= MaxMembers
        /\ \A q \in Procs : req'[q] = Idle
    BY <1>1, <1>10, <2>1, <2>2 DEF CreatesAlone
  <2>4. WithMembers(S) = [v \in Users |-> IF v \in S THEN "member" ELSE "none"]
    BY <2>3 DEF WithMembers, Members
  <2>5. role' = [v \in Users |-> IF v = u THEN "admin" ELSE IF v \in S THEN "member" ELSE "none"]
    BY <2>1, <2>2, <2>4
  <2>6. role' \in [Users -> Roles]
    BY <2>5 DEF Roles
  <2>7. Members' = S \cup {u} /\ u \in Admins'
    BY <2>5 DEF Members, Admins
  <2>8. Cardinality(Members') <= Cardinality(S) + 1 /\ Cardinality(Members') \in Nat
    BY <1>4, <2>7, FS_AddElement
  <2>9. GroupIsGoverned'
    <3>1. Cardinality(Members') <= MaxMembers
      BY <1>4, <2>3, <2>8
    <3> QED BY <2>7, <3>1 DEF GroupIsGoverned
  <2>10. NothingBeforeTheGroup' /\ CreatesAlone' /\ EmptyIsQuiet' /\ AdminsStay' /\ RoomStays'
    BY <1>2, <2>1, <2>3
       DEF NothingBeforeTheGroup, CreatesAlone, EmptyIsQuiet, AdminsStay, RoomStays, Cleared, Adds
  <2> QED BY <1>1, <1>6, <1>10, <2>1, <2>6, <2>9, <2>10
<1>13. ASSUME NEW p \in Procs, AdminBegins(p)
       PROVE  GroupInv'
  <2>1. PICK u \in Admins, t \in Users :
           \/ Enter(p, GroupReq("addMembers", "count", u, {t} \ {u}, "member"))
           \/ Enter(p, GroupReq("promote", "target", u, t, "admin"))
           \/ Enter(p, GroupReq("demote", "target", u, t, "member"))
           \/ t # u /\ Enter(p, GroupReq("remove", "write", u, t, "none"))
           \/ Enter(p, GroupReq("deleteGroup", "write", u, t, "none"))
    BY <1>13 DEF AdminBegins
  <2>2. u \in Users /\ Members # {}
    BY <1>5 DEF Admins
  <2>3. \A op, at, by, target, to :
           /\ GroupReq(op, at, by, target, to).op = op /\ GroupReq(op, at, by, target, to).at = at
           /\ GroupReq(op, at, by, target, to).target = target
    BY DEF GroupReq
  <2>4. /\ GroupReq("addMembers", "count", u, {t} \ {u}, "member") \in R
        /\ GroupReq("promote", "target", u, t, "admin") \in R
        /\ GroupReq("demote", "target", u, t, "member") \in R
        /\ GroupReq("remove", "write", u, t, "none") \in R
        /\ GroupReq("deleteGroup", "write", u, t, "none") \in R
    BY <2>2 DEF GroupReq, R, GroupRequests
  <2>5. ASSUME NEW r \in R, Enter(p, r), r.op # "create", ~Adds(r),
               Cleared(r) => Admins \ {r.target} # {}
        PROVE  GroupInv'
    BY <1>8, <1>13, <2>2, <2>5 DEF Enter, AdminBegins
  <2>6. CASE Enter(p, GroupReq("addMembers", "count", u, {t} \ {u}, "member"))
    <3>1. PICK r \in R : Enter(p, r) /\ r.op = "addMembers" /\ r.at = "count"
      BY <2>3, <2>4, <2>6
    <3> QED BY <2>5, <3>1 DEF Cleared, Adds
  <2>7. CASE Enter(p, GroupReq("promote", "target", u, t, "admin"))
    <3>1. PICK r \in R : Enter(p, r) /\ r.op = "promote"
      BY <2>3, <2>4, <2>7
    <3> QED BY <2>5, <3>1 DEF Cleared, Adds
  <2>8. CASE Enter(p, GroupReq("demote", "target", u, t, "member"))
    <3>1. PICK r \in R : Enter(p, r) /\ r.op = "demote" /\ r.at = "target"
      BY <2>3, <2>4, <2>8
    <3> QED BY <2>5, <3>1 DEF Cleared, Adds
  <2>9. CASE t # u /\ Enter(p, GroupReq("remove", "write", u, t, "none"))
    <3>1. PICK r \in R : Enter(p, r) /\ r.op = "remove" /\ r.target = t
      BY <2>3, <2>4, <2>9
    <3>2. u \in Admins \ {r.target}
      BY <2>9, <3>1
    <3> QED BY <2>5, <3>1, <3>2 DEF Adds
  <2>10. CASE Enter(p, GroupReq("deleteGroup", "write", u, t, "none"))
    <3>1. PICK r \in R : Enter(p, r) /\ r.op = "deleteGroup"
      BY <2>3, <2>4, <2>10
    <3> QED BY <2>5, <3>1 DEF Cleared, Adds
  <2> QED BY <2>1, <2>6, <2>7, <2>8, <2>9, <2>10
<1>14. ASSUME NEW p \in Procs, CountMembers(p)
       PROVE  GroupInv'
  <2>1. req[p].op = "addMembers" /\ req[p] # Idle /\ UNCHANGED groupVars
    BY <1>2, <1>14 DEF CountMembers, At
  <2>2. CASE Finish(p)
    BY <1>2, <1>8, <2>1, <2>2 DEF Finish, Cleared, Adds
  <2>3. CASE ~Finish(p)
    <3>1. /\ Goto(p, "write")
          /\ ~(Cardinality(Members) + Cardinality(req[p].target) > MaxMembers)
      BY <1>14, <2>3 DEF CountMembers
    <3>8. PICK r : r = [req[p] EXCEPT !.at = "write"]
      OBVIOUS
    <3>2. r \in R /\ r.op = "addMembers" /\ r.target = req[p].target
      BY <1>1, <2>1, <3>8, GroupRequest DEF R
    <3>3. Cardinality(Members) + Cardinality(r.target) <= MaxMembers
      BY <1>1, <1>3, <1>4, <2>1, <3>1, <3>2
    <3>4. req' = [req EXCEPT ![p] = r]
      BY <3>1, <3>8 DEF Goto
    <3>5. ~Cleared(r)
      BY <3>2 DEF Cleared
    <3> QED BY <1>8, <2>1, <3>2, <3>3, <3>4, <3>5
  <2> QED BY <2>2, <2>3
<1>15. ASSUME NEW p \in Procs, AddMembers(p)
       PROVE  GroupInv'
  <2>1. /\ req[p].op = "addMembers" /\ Adds(req[p]) /\ req' = [req EXCEPT ![p] = Idle] /\ groupRow' = groupRow
    BY <1>15 DEF AddMembers, At, Finish, Adds
  <2>2. CASE groupRow # "live"
    <3>1. UNCHANGED groupVars
      BY <1>15, <2>2 DEF AddMembers, groupVars
    <3> QED BY <1>2, <1>8, <2>1, <3>1 DEF Cleared, Adds
  <2>3. CASE groupRow = "live"
    <3>1. PICK S \in SUBSET Users : S = req[p].target
      BY <1>1, <1>3, <2>1
    <3>2. role' = WithMembers(S) /\ Race("size", Adders(p))
      BY <1>15, <2>3, <3>1 DEF AddMembers
    <3>3. role' \in [Users -> Roles]
      BY <1>1, <3>2 DEF WithMembers, Roles
    <3>4. Members' = Members \cup S /\ Admins' = Admins
      BY <1>1, <3>2 DEF WithMembers, Members, Admins, Roles
    <3>5. /\ raced' \subseteq {"admin", "size"}
          /\ "admin" \in raced' <=> "admin" \in raced
          /\ "size" \notin raced' => "size" \notin raced /\ Adders(p) = {}
      BY <1>1, <3>2 DEF Race
    <3>6. NothingBeforeTheGroup'
      BY <1>9, <2>1 DEF NothingBeforeTheGroup
    <3>7. CreatesAlone'
      BY <1>2, <1>9, <1>10, <2>1 DEF CreatesAlone
    <3>8. EmptyIsQuiet'
      BY <1>9, <2>1, <2>3, <3>4, <3>5 DEF EmptyIsQuiet
    <3>9. AdminsStay'
      BY <1>1, <1>2, <1>9, <1>10, <2>1, <2>3, <3>4, <3>5 DEF AdminsStay, Cleared
    <3>10. RoomStays'
      BY <1>2, <1>10, <2>1, <3>5 DEF RoomStays, Adds, Adders
    <3>11. Members' # {} => Admins' # {} \/ "admin" \in raced'
      BY <1>1, <1>9, <2>1, <2>3, <3>4, <3>5 DEF GroupIsGoverned
    <3>12. Cardinality(Members') <= MaxMembers \/ "size" \in raced'
      <4> SUFFICES ASSUME "size" \notin raced' PROVE Cardinality(Members') <= MaxMembers
        OBVIOUS
      <4>1. Cardinality(Members) + Cardinality(S) <= MaxMembers
        BY <1>1, <2>1, <3>1, <3>5 DEF RoomStays
      <4>2. Cardinality(Members \cup S) <= Cardinality(Members) + Cardinality(S)
        <5>1. Cardinality(Members \cup S) =
                 Cardinality(Members) + Cardinality(S) - Cardinality(Members \cap S)
          BY <1>4, FS_Union
        <5>2. Members \cap S \in SUBSET Users
          OBVIOUS
        <5> QED BY <1>4, <5>1, <5>2
      <4>3. Members \cup S \in SUBSET Users
        BY <1>4
      <4> QED BY <1>4, <3>4, <4>1, <4>2, <4>3
    <3>13. GroupIsGoverned'
      BY <3>11, <3>12 DEF GroupIsGoverned
    <3> QED BY <1>1, <1>6, <1>10, <2>1, <3>3, <3>5, <3>6, <3>7, <3>8, <3>9, <3>10, <3>13
  <2> QED BY <2>2, <2>3
<1>16. ASSUME NEW p \in Procs, FindTarget(p) \/ CountAdmins(p)
       PROVE  GroupInv'
  <2>1. /\ req[p].op \in {"promote", "demote"} /\ UNCHANGED groupVars /\ req[p] # Idle
    BY <1>2, <1>16 DEF FindTarget, CountAdmins, At
  <2>2. CASE Finish(p)
    BY <1>2, <1>8, <2>1, <2>2 DEF Finish, Cleared, Adds
  <2>3. CASE FindTarget(p) /\ ~Finish(p)
    <3>1. PICK at \in {"count", "write"} : Goto(p, at) /\ (req[p].op = "demote" <=> at = "count")
      BY <2>3 DEF FindTarget
    <3>8. PICK r : r = [req[p] EXCEPT !.at = at]
      OBVIOUS
    <3>2. r \in R /\ r.op = req[p].op /\ r.at = at
      BY <1>1, <2>1, <3>1, <3>8, GroupRequest DEF R
    <3>3. req' = [req EXCEPT ![p] = r]
      BY <3>1, <3>8 DEF Goto
    <3>4. ~Cleared(r) /\ ~Adds(r)
      BY <2>1, <3>1, <3>2 DEF Cleared, Adds
    <3> QED BY <1>8, <2>1, <3>2, <3>3, <3>4
  <2>4. CASE CountAdmins(p) /\ ~Finish(p)
    <3>1. Goto(p, "write") /\ ~(Cardinality(Admins) <= 1) /\ req[p].op = "demote"
      BY <2>4 DEF CountAdmins, At
    <3>8. PICK r : r = [req[p] EXCEPT !.at = "write"]
      OBVIOUS
    <3>2. r \in R /\ r.op = req[p].op
      BY <1>1, <2>1, <3>1, <3>8, GroupRequest DEF R
    <3>3. req' = [req EXCEPT ![p] = r] /\ ~Adds(r)
      BY <3>1, <3>2, <3>8 DEF Goto, Adds
    <3>4. Admins \ {r.target} # {}
      <4>1. IsFiniteSet(Admins) /\ Admins # {} /\ Cardinality(Admins) # 1
        BY <1>4, <1>5, <3>1, FS_Subset, FS_EmptySet
      <4> QED BY <4>1, TwoHaveAnother
    <3> QED BY <1>8, <2>1, <3>1, <3>2, <3>3, <3>4
  <2> QED BY <1>16, <2>2, <2>3, <2>4
<1>17. ASSUME NEW p \in Procs, SetRole(p)
       PROVE  GroupInv'
  <2>1. /\ req[p].op \in {"promote", "demote"} /\ req[p].at = "write"
        /\ req' = [req EXCEPT ![p] = Idle] /\ groupRow' = groupRow
    BY <1>17 DEF SetRole, At, Finish
  <2>2. PICK t \in Users : t = req[p].target
    BY <1>1, <1>3, <2>1
  <2>3. PICK to \in {"admin", "member"} : to = req[p].to /\ (req[p].op = "promote" <=> to = "admin")
    BY <1>1, <2>1 DEF R, GroupRequests, Idle
  <2>4. role' = IF role[t] = "none" THEN role ELSE [role EXCEPT ![t] = to]
    BY <1>17, <2>2, <2>3 DEF SetRole
  <2>5. role' \in [Users -> Roles] /\ Members' = Members
    BY <1>1, <2>3, <2>4 DEF Members, Roles
  <2>6. /\ to = "admin"  => Admins \subseteq Admins'
        /\ to = "member" => Admins' = Admins \ {t}
    BY <1>1, <2>4 DEF Admins
  <2>7. /\ raced' \subseteq {"admin", "size"}
        /\ "size" \in raced' <=> "size" \in raced
        /\ "admin" \notin raced' => "admin" \notin raced /\ (to = "member" => Takers(p) = {})
    BY <1>1, <1>17, <2>3 DEF SetRole, Race, At
  <2>8. NothingBeforeTheGroup'
    BY <1>9, <2>1 DEF NothingBeforeTheGroup
  <2>9. CreatesAlone'
    BY <1>2, <1>9, <1>10, <2>1 DEF CreatesAlone
  <2>10. EmptyIsQuiet'
    BY <1>1, <1>2, <1>10, <2>1, <2>5, <2>7 DEF EmptyIsQuiet
  <2>11. RoomStays'
    BY <1>1, <1>2, <1>10, <2>1, <2>5, <2>7 DEF RoomStays, Adds
  <2>12. AdminsStay' /\ (Members' # {} => Admins' # {} \/ "admin" \in raced')
    <3>1. CASE to = "admin"
      BY <1>1, <1>2, <1>10, <2>1, <2>5, <2>6, <2>7, <3>1 DEF AdminsStay, GroupIsGoverned, Cleared
    <3>2. CASE to = "member"
      <4>1. "admin" \notin raced' => Members = {} \/ Admins' # {}
        BY <1>1, <2>1, <2>2, <2>3, <2>6, <2>7, <3>2 DEF AdminsStay, Cleared
      <4>2. "admin" \notin raced' => \A q \in Procs : ~Cleared(req'[q])
        BY <1>2, <1>10, <2>1, <2>7, <3>2 DEF Takers, Cleared
      <4> QED BY <2>5, <4>1, <4>2 DEF AdminsStay
    <3> QED BY <3>1, <3>2
  <2>13. GroupIsGoverned'
    BY <1>1, <2>5, <2>7, <2>12 DEF GroupIsGoverned
  <2> QED BY <1>1, <1>6, <1>10, <2>1, <2>5, <2>7, <2>8, <2>9, <2>10, <2>11, <2>12, <2>13
<1>18. ASSUME NEW p \in Procs, RemoveMember(p)
       PROVE  GroupInv'
  <2>1. /\ req[p].op \in {"remove", "leave"} /\ req[p].at = "write"
        /\ req' = [req EXCEPT ![p] = Idle] /\ groupRow' = groupRow
        /\ role' = [role EXCEPT ![req[p].target] = "none"] /\ Race("admin", Takers(p))
    BY <1>18 DEF RemoveMember, At, Finish
  <2>2. PICK t \in Users : t = req[p].target
    BY <1>1, <1>3, <2>1
  <2>3. role' \in [Users -> Roles] /\ Members' = Members \ {t} /\ Admins' = Admins \ {t}
    BY <1>1, <2>1, <2>2 DEF Members, Admins, Roles
  <2>4. /\ raced' \subseteq {"admin", "size"}
        /\ "size" \in raced' <=> "size" \in raced
        /\ "admin" \notin raced' => "admin" \notin raced /\ Takers(p) = {}
    BY <1>1, <2>1 DEF Race
  <2>5. "admin" \notin raced' => Members = {} \/ Admins' # {}
    BY <1>1, <2>1, <2>2, <2>3, <2>4 DEF AdminsStay, Cleared
  <2>6. "admin" \notin raced' => \A q \in Procs : ~Cleared(req'[q])
    BY <1>2, <1>10, <2>1, <2>4 DEF Takers, Cleared
  <2>7. AdminsStay' /\ NothingBeforeTheGroup' /\ CreatesAlone'
    BY <1>2, <1>9, <1>10, <2>1, <2>6 DEF AdminsStay, NothingBeforeTheGroup, CreatesAlone
  <2>8. Admins' \subseteq Members'
    BY DEF Admins, Members
  <2>9. EmptyIsQuiet'
    BY <1>1, <1>2, <1>9, <1>10, <2>1, <2>4, <2>5, <2>8 DEF EmptyIsQuiet
  <2>10. Cardinality(Members') <= Cardinality(Members)
    BY <1>4, <2>3, FS_Subset
  <2>11. RoomStays'
    <3> SUFFICES ASSUME "size" \notin raced', NEW q \in Procs, Adds(req'[q])
                 PROVE  Cardinality(Members') + Cardinality(req'[q].target) <= MaxMembers
      BY DEF RoomStays
    <3>1. q # p /\ req'[q] = req[q] /\ Adds(req[q])
      BY <1>2, <1>10, <2>1 DEF Adds
    <3>2. Cardinality(Members) + Cardinality(req[q].target) <= MaxMembers
      BY <1>1, <2>4, <3>1 DEF RoomStays
    <3>3. Cardinality(req[q].target) \in Nat
      BY <1>1, <1>3, <1>4, <3>1 DEF Adds
    <3> QED BY <1>4, <2>10, <3>1, <3>2, <3>3
  <2>12. GroupIsGoverned'
    <3>1. Cardinality(Members') <= MaxMembers \/ "size" \in raced'
      BY <1>1, <1>4, <2>4, <2>10 DEF GroupIsGoverned
    <3> QED BY <2>3, <2>5, <3>1 DEF GroupIsGoverned
  <2> QED BY <1>1, <1>6, <1>10, <2>1, <2>3, <2>4, <2>7, <2>9, <2>11, <2>12
<1>19. ASSUME NEW p \in Procs, LeaveBegins(p)
       PROVE  GroupInv'
  <2>1. PICK u \in Members : Enter(p, GroupReq("leave", "count", u, u, role[u]))
    BY <1>19 DEF LeaveBegins
  <2>2. u \in Users /\ role[u] \in {"member", "admin"} /\ Members # {}
    BY <1>1, <1>4 DEF Members, Roles
  <2>3. PICK r : r = GroupReq("leave", "count", u, u, role[u])
    OBVIOUS
  <2>4. r \in R /\ r.op = "leave" /\ r.target = u /\ r.at = "count" /\ r.to = role[u]
    BY <2>2, <2>3 DEF R, GroupRequests, GroupReq
  <2>5. req[p] = Idle /\ req' = [req EXCEPT ![p] = r] /\ UNCHANGED groupVars
    BY <1>19, <2>1, <2>3 DEF Enter, LeaveBegins
  <2>6. "admin" \notin raced /\ Cleared(r) => Members = {} \/ Admins \ {r.target} # {}
    <3>1. ASSUME "admin" \notin raced, Cleared(r)
          PROVE  Admins \ {u} # {}
      <4>1. u \notin Admins
        BY <2>4, <3>1 DEF Cleared, Admins
      <4>2. Admins # {}
        BY <1>1, <2>2, <3>1 DEF GroupIsGoverned
      <4> QED BY <4>1, <4>2
    <3> QED BY <2>4, <3>1
  <2> QED BY <1>8, <2>2, <2>4, <2>5, <2>6 DEF Adds
<1>20. ASSUME NEW p \in Procs, LeaveCounts(p) \/ LeaveCountsAdmins(p)
       PROVE  GroupInv'
  <2>1. /\ req[p].op = "leave" /\ UNCHANGED groupVars /\ req[p] # Idle
        /\ req[p].at # "write"
    BY <1>2, <1>20 DEF LeaveCounts, LeaveCountsAdmins, At
  <2>2. CASE Finish(p)
    BY <1>2, <1>8, <2>1, <2>2 DEF Finish, Cleared, Adds
  <2>3. ASSUME NEW at \in {"admins", "delete"}, Goto(p, at)
        PROVE  GroupInv'
    <3>8. PICK r : r = [req[p] EXCEPT !.at = at]
      OBVIOUS
    <3>1. r \in R /\ r.op = "leave" /\ r.at = at
      BY <1>1, <2>1, <3>8, GroupRequest DEF R
    <3>2. req' = [req EXCEPT ![p] = r]
      BY <2>3, <3>8 DEF Goto
    <3>3. ~Cleared(r) /\ ~Adds(r)
      BY <2>3, <3>1 DEF Cleared, Adds
    <3> QED BY <1>8, <2>1, <3>1, <3>2, <3>3
  <2>4. ASSUME req' = [req EXCEPT ![p].at = "write", ![p].to = "none"],
               "admin" \notin raced => Members = {} \/ Admins \ {req[p].target} # {}
        PROVE  GroupInv'
    <3>1. PICK r \in R : /\ r = [req[p] EXCEPT !.at = "write", !.to = "none"]
                         /\ r.op = "leave" /\ r.target = req[p].target
      BY <1>1, <2>1, LeaveRequest DEF R
    <3>2. req' = [req EXCEPT ![p] = r] /\ ~Adds(r)
      BY <2>4, <3>1 DEF Adds
    <3> QED BY <1>8, <2>1, <2>4, <3>1, <3>2
  <2>5. CASE LeaveCounts(p)
    <3>1. CASE Cardinality(Members) = 1
      BY <2>3, <2>5, <3>1 DEF LeaveCounts
    <3>2. CASE Cardinality(Members) # 1 /\ req[p].to = "admin"
      BY <2>3, <2>5, <3>2 DEF LeaveCounts
    <3>3. CASE Cardinality(Members) # 1 /\ req[p].to # "admin"
      <4>1. req[p].at = "count" /\ req[p].to = "member"
        BY <1>1, <2>1, <2>5, <3>3 DEF LeaveCounts, At, R, GroupRequests, Idle
      <4>2. "admin" \notin raced => Members = {} \/ Admins \ {req[p].target} # {}
        BY <1>1, <2>1, <4>1 DEF AdminsStay, Cleared
      <4> QED BY <2>4, <2>5, <3>3, <4>2 DEF LeaveCounts
    <3> QED BY <3>1, <3>2, <3>3
  <2>6. CASE LeaveCountsAdmins(p) /\ ~Finish(p)
    <3>1. Cardinality(Admins) # 1 /\ req' = [req EXCEPT ![p].at = "write", ![p].to = "none"]
      BY <2>6 DEF LeaveCountsAdmins
    <3>2. IsFiniteSet(Admins)
      BY <1>4, <1>5, FS_Subset
    <3>3. "admin" \notin raced => Members = {} \/ Admins \ {req[p].target} # {}
      BY <1>1, <3>1, <3>2, TwoHaveAnother DEF GroupIsGoverned
    <3> QED BY <2>4, <3>1, <3>3
  <2> QED BY <1>20, <2>2, <2>5, <2>6
<1>21. ASSUME NEW p \in Procs, RemoveGroup(p)
       PROVE  GroupInv'
  <2>1. /\ req[p].op \in {"leave", "deleteGroup"} /\ req' = [req EXCEPT ![p] = Idle]
        /\ groupRow' = "deleted" /\ role' = [u \in Users |-> "none"] /\ raced' = raced
    BY <1>21 DEF RemoveGroup, At, DeleteGroup, Finish
  <2>2. role' \in [Users -> Roles] /\ Members' = {}
    BY <2>1 DEF Members, Roles
  <2>3. Cardinality(Members') = 0
    BY <2>2, FS_EmptySet
  <2>4. NothingBeforeTheGroup' /\ CreatesAlone' /\ EmptyIsQuiet' /\ AdminsStay'
    BY <1>2, <1>9, <1>10, <2>1, <2>2
       DEF NothingBeforeTheGroup, CreatesAlone, EmptyIsQuiet, AdminsStay
  <2>5. RoomStays'
    <3> SUFFICES ASSUME "size" \notin raced', NEW q \in Procs, Adds(req'[q])
                 PROVE  Cardinality(Members') + Cardinality(req'[q].target) <= MaxMembers
      BY DEF RoomStays
    <3>1. q # p /\ req'[q] = req[q] /\ Adds(req[q])
      BY <1>2, <1>10, <2>1 DEF Adds
    <3>2. Cardinality(Members) + Cardinality(req[q].target) <= MaxMembers
      BY <1>1, <2>1, <3>1 DEF RoomStays
    <3>3. Cardinality(req[q].target) \in Nat /\ Cardinality(Members) \in Nat
      BY <1>1, <1>3, <1>4, <3>1 DEF Adds
    <3> QED BY <1>4, <2>3, <3>1, <3>2, <3>3
  <2>6. GroupIsGoverned'
    BY <1>4, <2>2, <2>3 DEF GroupIsGoverned
  <2> QED BY <1>1, <1>6, <1>10, <2>1, <2>2, <2>4, <2>5, <2>6
<1>22. ASSUME NEW p \in Procs, GroupDie(p)
       PROVE  GroupInv'
  BY <1>2, <1>8, <1>22 DEF GroupDie, Die, Cleared, Adds
<1>23. ASSUME UNCHANGED <<reqVars, groupVars>>
       PROVE  GroupInv'
  <2>1. req' = req /\ UNCHANGED groupVars
    BY <1>23 DEF reqVars
  <2> QED
    BY <1>1, <1>6, <1>7, <2>1
       DEF NothingBeforeTheGroup, CreatesAlone, EmptyIsQuiet, AdminsStay, RoomStays, GroupIsGoverned
<1> QED
  BY <1>11, <1>12, <1>13, <1>14, <1>15, <1>16, <1>17, <1>18, <1>19, <1>20, <1>21, <1>22, <1>23
     DEF GroupNext

\* A new platform has no group.
LEMMA GroupInitial ==
    ASSUME ReqInit, GroupInit
    PROVE  GroupInv
<1>1. /\ req = [p \in Procs |-> Idle] /\ groupRow = "none" /\ raced = {}
      /\ role = [u \in Users |-> "none"]
  BY DEF ReqInit, GroupInit
<1>2. Members = {} /\ Cardinality(Members) = 0
  BY <1>1, FS_EmptySet DEF Members
<1>3. GroupIsGoverned
  BY <1>2, MembersAssumption DEF GroupIsGoverned
<1>4. GroupTypeOK
  BY <1>1 DEF GroupTypeOK, Roles
<1>5. \A p \in Procs : req[p] = Idle /\ req[p].op = "idle"
  BY <1>1 DEF Idle
<1>6. NothingBeforeTheGroup /\ CreatesAlone /\ EmptyIsQuiet /\ AdminsStay /\ RoomStays
  BY <1>1, <1>2, <1>5
     DEF NothingBeforeTheGroup, CreatesAlone, EmptyIsQuiet, AdminsStay, RoomStays, Cleared, Adds
<1> QED BY <1>1, <1>3, <1>4, <1>6 DEF GroupInv, GroupRequests

-----------------------------------------------------------------------------
(* Activities.                                                             *)

\* The rows, and what a request can have in hand.
ActivityRows == [status : {"active", "ended"}, host : Users, revision : 0..MaxRevision]
ActivityRequests ==
         {Idle}
    \cup [op: {"start"}, at: {"create"}, by: Users]
    \cup [op: {"start"}, at: {"host"}, by: Users, id: Nat]
    \cup [op: {"join", "end"}, at: {"write"}, by: Users, id: Nat]
    \cup [op: {"quit"}, at: {"write", "end"}, by: Users, id: Nat, ends: BOOLEAN]
    \cup [op: {"state"}, at: {"write"}, by: Users, id: Nat, base: 0..MaxRevision - 1]

\* A request that has loaded, or made, its session.
HasSession(r) == r.op \in {"join", "end", "quit", "state"} \/ (r.op = "start" /\ r.at = "host")

\* A request that has a session has one that is there.
ActivityTypes ==
    /\ req \in [Procs -> ActivityRequests]
    /\ activity \in Seq(ActivityRows) /\ presence \in Seq(SUBSET Users)
    /\ Len(presence) = Len(activity) /\ orphaned \subseteq 1..Len(activity)
    /\ \A p \in Procs : HasSession(req[p]) => req[p].id \in 1..Len(activity)

\* Who is about to enter the session just created is its host.
StartersAreHosts ==
    \A p \in Procs : At(p, "start", "host") => activity[req[p].id].host = req[p].by

\* A host who has been let go without ending the session had no session to end.
HostsLeaveTheEnded ==
    \A p \in Procs :
       At(p, "quit", "write") /\ ~req[p].ends /\ activity[req[p].id].host = req[p].by =>
          activity[req[p].id].status = "ended"

\* The invariant of the service.
ActivityInv == ActivityTypes /\ StartersAreHosts /\ HostsLeaveTheEnded /\ HostIsPresent

\* Its own request is about to bring the host into session a, or to end it.
AtTheDoor(r, a) ==
    /\ r.id = a
    /\ \/ r.op = "start" /\ r.at = "host"
       \/ r.op = "quit" /\ r.at = "end"

\* What the invariant says of the rows includes the type invariant.
LEMMA ActivityTyped ==
    ASSUME ActivityTypes
    PROVE  ActivityTypeOK
<1>1. /\ activity \in Seq(ActivityRows) /\ presence \in Seq(SUBSET Users)
      /\ Len(presence) = Len(activity) /\ orphaned \subseteq 1..Len(activity)
  BY DEF ActivityTypes
<1>2. Aids = 1..Len(activity)
  BY <1>1 DEF Aids
<1>3. \A a \in Aids : activity[a] \in ActivityRows /\ presence[a] \in SUBSET Users
  BY <1>1, <1>2
<1> QED BY <1>1, <1>2, <1>3 DEF ActivityTypeOK, ActivityRows

\* The host who has left goes on to end the session.
LEMMA QuitRequest ==
    ASSUME NEW r \in [op: {"quit"}, at: {"write", "end"}, by: Users, id: Nat, ends: BOOLEAN],
           NEW s, s = [r EXCEPT !.at = "end"]
    PROVE  /\ s \in [op: {"quit"}, at: {"write", "end"}, by: Users, id: Nat, ends: BOOLEAN]
           /\ s.op = "quit" /\ s.at = "end" /\ s.id = r.id
OBVIOUS

\* Every step of the service keeps its invariant.
LEMMA ActivityKept ==
    ASSUME ActivityInv, [ActivityNext]_<<reqVars, activityVars>>
    PROVE  ActivityInv'
<1> DEFINE R == ActivityRequests
           Rows == ActivityRows
           Crowds == SUBSET Users
<1>1. /\ req \in [Procs -> R] /\ activity \in Seq(Rows) /\ presence \in Seq(Crowds)
      /\ Len(presence) = Len(activity) /\ orphaned \subseteq 1..Len(activity)
      /\ \A p \in Procs : HasSession(req[p]) => req[p].id \in 1..Len(activity)
      /\ StartersAreHosts /\ HostsLeaveTheEnded /\ HostIsPresent
      /\ Len(activity) \in Nat /\ MaxActivities \in Nat /\ MaxRevision \in Nat
  BY ActivityAssumption DEF ActivityInv, ActivityTypes
<1>2. Idle \in R /\ ~HasSession(Idle) /\ Idle.op = "idle"
  BY DEF ActivityRequests, HasSession, Idle
<1>3. /\ \A a \in 1..Len(activity) : activity[a] \in Rows /\ presence[a] \in Crowds
      /\ DOMAIN activity = 1..Len(activity)
      /\ \A x \in Rows : x.status \in {"active", "ended"} /\ x.host \in Users
      /\ \A r \in R : r.op # "idle" => r.by \in Users
  <2>1. \A a \in 1..Len(activity) : activity[a] \in Rows /\ presence[a] \in Crowds
    BY <1>1
  <2>2. \A x \in Rows : x.status \in {"active", "ended"} /\ x.host \in Users
    BY DEF ActivityRows
  <2>3. \A r \in R : r.op # "idle" => r.by \in Users
    BY DEF ActivityRequests, Idle
  <2> QED BY <1>1, <2>1, <2>2, <2>3
<1> HIDE DEF R, Rows, Crowds
<1>4. ASSUME req' \in [Procs -> R], activity' \in Seq(Rows), presence' \in Seq(Crowds),
             Len(presence') = Len(activity'), orphaned' \subseteq 1..Len(activity'),
             \A p \in Procs : HasSession(req'[p]) => req'[p].id \in 1..Len(activity'),
             StartersAreHosts', HostsLeaveTheEnded', HostIsPresent'
      PROVE  ActivityInv'
  BY <1>4 DEF ActivityInv, ActivityTypes, R, Rows, Crowds
<1>5. /\ \A a \in 1..Len(activity) : activity[a].status = "active" =>
            \/ activity[a].host \in presence[a]
            \/ \E p \in Procs : AtTheDoor(req[p], a)
            \/ a \in orphaned
  <2> SUFFICES ASSUME NEW a \in 1..Len(activity), activity[a].status = "active"
               PROVE  \/ activity[a].host \in presence[a]
                      \/ \E p \in Procs : AtTheDoor(req[p], a)
                      \/ a \in orphaned
    OBVIOUS
  <2>1. a \in ActiveActivities
    BY <1>3 DEF ActiveActivities, Aids
  <2>2. ASSUME NEW p \in Procs, \/ At(p, "start", "host") /\ req[p].id = a
                                \/ At(p, "quit", "end") /\ req[p].id = a
        PROVE  AtTheDoor(req[p], a)
    BY <2>2 DEF At, AtTheDoor
  <2> QED BY <1>1, <2>1, <2>2 DEF HostIsPresent
<1>6. ASSUME activity' \in Seq(Rows),
             \A a \in 1..Len(activity') : activity'[a].status = "active" =>
                \/ activity'[a].host \in presence'[a]
                \/ \E p \in Procs : AtTheDoor(req'[p], a)
                \/ a \in orphaned'
      PROVE  HostIsPresent'
  <2>1. DOMAIN activity' = 1..Len(activity')
    BY <1>6
  <2> QED BY <1>6, <2>1 DEF HostIsPresent, ActiveActivities, Aids, AtTheDoor, At
\* The request of one process moves on while the sessions stay.
<1>7. ASSUME NEW p \in Procs, NEW r \in R, req' = [req EXCEPT ![p] = r],
             UNCHANGED activityVars,
             HasSession(r) => r.id \in 1..Len(activity),
             ~(r.op = "start" /\ r.at = "host"),
             r.op = "quit" /\ r.at = "write" /\ ~r.ends /\ activity[r.id].host = r.by =>
                activity[r.id].status = "ended",
             \A a \in 1..Len(activity) : ~AtTheDoor(req[p], a)
      PROVE  ActivityInv'
  <2>1. UNCHANGED <<activity, presence, orphaned>>
    BY <1>7 DEF activityVars
  <2>2. req' \in [Procs -> R] /\ \A q \in Procs : req'[q] = IF q = p THEN r ELSE req[q]
    BY <1>1, <1>7
  <2>3. StartersAreHosts' /\ HostsLeaveTheEnded'
    BY <1>1, <1>7, <2>1, <2>2 DEF StartersAreHosts, HostsLeaveTheEnded, At
  <2>4. HostIsPresent'
    BY <1>1, <1>5, <1>6, <1>7, <2>1, <2>2
  <2>5. \A q \in Procs : HasSession(req'[q]) => req'[q].id \in 1..Len(activity')
    BY <1>1, <1>7, <2>1, <2>2
  <2> QED BY <1>1, <1>4, <2>1, <2>2, <2>3, <2>4, <2>5
<1>8. ASSUME NEW p \in Procs, NEW r, Enter(p, r)
      PROVE  \A a : ~AtTheDoor(req[p], a)
  BY <1>2, <1>8 DEF Enter, AtTheDoor
<1>9. ASSUME NEW p \in Procs, StartActivity(p)
       PROVE  ActivityInv'
  <2>1. PICK u \in Users : Enter(p, [op |-> "start", at |-> "create", by |-> u])
    BY <1>9 DEF StartActivity
  <2>2. PICK r : r = [op |-> "start", at |-> "create", by |-> u]
    OBVIOUS
  <2>3. r \in R /\ r.op = "start" /\ r.at = "create"
    BY <2>2 DEF R, ActivityRequests
  <2>4. req' = [req EXCEPT ![p] = r] /\ UNCHANGED activityVars
    BY <1>9, <2>1, <2>2 DEF Enter, StartActivity
  <2> QED BY <1>7, <1>8, <2>1, <2>3, <2>4 DEF HasSession
<1>10. ASSUME NEW p \in Procs, CreateActivity(p)
       PROVE  ActivityInv'
  <2>1. req[p].op = "start" /\ req[p].at = "create" /\ \A a : ~AtTheDoor(req[p], a)
        /\ orphaned' = orphaned
    BY <1>10 DEF CreateActivity, At, AtTheDoor
  <2>2. CASE Finish(p) /\ UNCHANGED <<activity, presence>>
    BY <1>2, <1>7, <2>1, <2>2 DEF Finish, activityVars
  <2>3. CASE ~(Finish(p) /\ UNCHANGED <<activity, presence>>)
    <3>1. PICK u \in Users : u = req[p].by
      BY <1>1, <1>3, <2>1
    <3>2. PICK n \in Nat : n = Len(activity) + 1
      BY <1>1
    <3>3. PICK r : r = [op |-> "start", at |-> "host", by |-> u, id |-> n]
      OBVIOUS
    <3>4. r \in R /\ r.op = "start" /\ r.at = "host" /\ r.by = u /\ r.id = n
      BY <3>3 DEF R, ActivityRequests
    <3>5. /\ activity' = Append(activity, Activity(u)) /\ presence' = Append(presence, {})
          /\ req' = [req EXCEPT ![p] = r]
      BY <1>10, <2>3, <3>1, <3>2, <3>3 DEF CreateActivity
    <3>6. Activity(u) \in Rows /\ Activity(u).host = u
      BY <1>1 DEF Activity, Rows, ActivityRows
    <3>7. {} \in Crowds
      BY DEF Crowds
    <3>8. activity' \in Seq(Rows) /\ presence' \in Seq(Crowds)
      BY <1>1, <3>5, <3>6, <3>7
    <3>9. /\ Len(activity') = n /\ Len(presence') = n /\ activity'[n].host = u
          /\ \A a \in 1..Len(activity) : activity'[a] = activity[a] /\ presence'[a] = presence[a]
      BY <1>1, <3>2, <3>5, <3>6
    <3>10. \A a \in 1..n : a = n \/ a \in 1..Len(activity)
      BY <1>1, <3>2
    <3>11. \A a \in 1..Len(activity) : a \in 1..n
      BY <1>1, <3>2
    <3>12. req' \in [Procs -> R] /\ \A q \in Procs : req'[q] = IF q = p THEN r ELSE req[q]
      BY <1>1, <3>4, <3>5
    <3>13. n \in 1..n
      BY <1>1, <3>2
    <3>14. \A q \in Procs : HasSession(req'[q]) => req'[q].id \in 1..Len(activity')
      BY <1>1, <3>4, <3>9, <3>11, <3>12, <3>13
    <3>15. \A q \in Procs : q # p /\ HasSession(req[q]) => activity'[req[q].id] = activity[req[q].id]
      BY <1>1, <3>9
    <3>16. StartersAreHosts'
      BY <1>1, <3>4, <3>9, <3>12, <3>15 DEF StartersAreHosts, At, HasSession
    <3>17. HostsLeaveTheEnded'
      BY <1>1, <3>4, <3>9, <3>12, <3>15 DEF HostsLeaveTheEnded, At, HasSession
    <3>18. HostIsPresent'
      <4> SUFFICES ASSUME NEW a \in 1..Len(activity'), activity'[a].status = "active"
                   PROVE  \/ activity'[a].host \in presence'[a]
                          \/ \E q \in Procs : AtTheDoor(req'[q], a)
                          \/ a \in orphaned'
        BY <1>6, <3>8
      <4>1. CASE a = n
        <5>1. req'[p] = r /\ AtTheDoor(r, n)
          <6>1. AtTheDoor(r, n)
            BY <3>4 DEF AtTheDoor
          <6> QED BY <3>12, <6>1
        <5> QED BY <4>1, <5>1
      <4>2. CASE a \in 1..Len(activity)
        BY <1>5, <2>1, <3>9, <3>12, <4>2
      <4> QED BY <3>9, <3>10, <4>1, <4>2
    <3>19. orphaned' \subseteq 1..Len(activity')
      BY <1>1, <2>1, <3>9, <3>11
    <3> QED BY <1>4, <3>8, <3>9, <3>12, <3>14, <3>16, <3>17, <3>18, <3>19
  <2> QED BY <2>2, <2>3
\* Who comes and goes: the sessions keep their hosts and their statuses.
<1>11. ASSUME NEW p \in Procs, NEW r \in R, NEW S \in Crowds, NEW b,
              HasSession(req[p]), b = req[p].id,
              req' = [req EXCEPT ![p] = r], presence' = [presence EXCEPT ![b] = S],
              UNCHANGED <<activity, orphaned>>,
              HasSession(r) => r.id = b,
              ~(r.op = "start" /\ r.at = "host"), ~(r.op = "quit" /\ r.at = "write"),
              \/ activity[b].host \in S
              \/ AtTheDoor(r, b)
              \/ activity[b].status = "ended"
              \/ /\ presence[b] \subseteq S \cup {req[p].by} /\ req[p].by # activity[b].host
                 /\ ~AtTheDoor(req[p], b)
       PROVE  ActivityInv'
  <2>1. b \in 1..Len(activity) /\ \A a : AtTheDoor(req[p], a) => a = b
    BY <1>1, <1>11 DEF AtTheDoor
  <2>2. /\ presence' \in Seq(Crowds) /\ Len(presence') = Len(presence) /\ presence'[b] = S
        /\ \A a \in 1..Len(activity) : a # b => presence'[a] = presence[a]
    BY <1>1, <1>11, <2>1
  <2>3. req' \in [Procs -> R] /\ \A q \in Procs : req'[q] = IF q = p THEN r ELSE req[q]
    BY <1>1, <1>11
  <2>4. \A q \in Procs : HasSession(req'[q]) => req'[q].id \in 1..Len(activity')
    BY <1>1, <1>11, <2>1, <2>3
  <2>5. StartersAreHosts' /\ HostsLeaveTheEnded'
    BY <1>1, <1>11, <2>3 DEF StartersAreHosts, HostsLeaveTheEnded, At
  <2>6. HostIsPresent'
    <3> SUFFICES ASSUME NEW a \in 1..Len(activity), activity[a].status = "active"
                 PROVE  \/ activity[a].host \in presence'[a]
                        \/ \E q \in Procs : AtTheDoor(req'[q], a)
                        \/ a \in orphaned
      BY <1>1, <1>6, <1>11
    <3>1. CASE a # b
      BY <1>5, <2>1, <2>2, <2>3, <3>1
    <3>2. CASE a = b
      <4>1. CASE activity[b].host \in S
        BY <2>2, <3>2, <4>1
      <4>2. CASE AtTheDoor(r, b)
        BY <2>3, <3>2, <4>2
      <4>3. CASE /\ presence[b] \subseteq S \cup {req[p].by} /\ req[p].by # activity[b].host
                 /\ ~AtTheDoor(req[p], b)
        BY <1>5, <2>2, <2>3, <3>2, <4>3
      <4> QED BY <1>11, <3>2, <4>1, <4>2, <4>3
    <3> QED BY <3>1, <3>2
  <2> QED BY <1>1, <1>4, <1>11, <2>2, <2>3, <2>4, <2>5, <2>6
\* A session changes, keeps its host and does not begin again.
<1>12. ASSUME NEW p \in Procs, NEW x \in Rows, NEW b,
              HasSession(req[p]), b = req[p].id, ~(req[p].op = "start"),
              req' = [req EXCEPT ![p] = Idle], activity' = [activity EXCEPT ![b] = x],
              UNCHANGED <<presence, orphaned>>,
              x.host = activity[b].host, activity[b].status = "ended" => x.status = "ended",
              AtTheDoor(req[p], b) => x.status = "ended"
       PROVE  ActivityInv'
  <2>1. b \in 1..Len(activity) /\ \A a : AtTheDoor(req[p], a) => a = b
    BY <1>1, <1>12 DEF AtTheDoor
  <2>2. /\ activity' \in Seq(Rows) /\ Len(activity') = Len(activity) /\ activity'[b] = x
        /\ \A a \in 1..Len(activity) : a # b => activity'[a] = activity[a]
    BY <1>1, <1>12, <2>1
  <2>3. req' \in [Procs -> R] /\ \A q \in Procs : req'[q] = IF q = p THEN Idle ELSE req[q]
    BY <1>1, <1>2, <1>12
  <2>4. \A q \in Procs : HasSession(req'[q]) => req'[q].id \in 1..Len(activity')
    BY <1>1, <1>2, <2>2, <2>3
  <2>5. \A a \in 1..Len(activity) : /\ activity'[a].host = activity[a].host
                                    /\ activity[a].status = "ended" => activity'[a].status = "ended"
    BY <1>12, <2>2
  <2>6. StartersAreHosts'
    BY <1>1, <1>2, <2>3, <2>5 DEF StartersAreHosts, At, HasSession
  <2>7. HostsLeaveTheEnded'
    BY <1>1, <1>2, <2>3, <2>5 DEF HostsLeaveTheEnded, At, HasSession
  <2>8. HostIsPresent'
    <3> SUFFICES ASSUME NEW a \in 1..Len(activity), activity'[a].status = "active"
                 PROVE  \/ activity'[a].host \in presence[a]
                        \/ \E q \in Procs : AtTheDoor(req'[q], a)
                        \/ a \in orphaned
      BY <1>1, <1>6, <1>12, <2>2
    <3>1. activity[a].status = "active" /\ ~AtTheDoor(req[p], a)
      <4>1. activity[a].status \in {"active", "ended"}
        BY <1>3
      <4>2. activity[a].status # "ended"
        BY <2>5
      <4>3. ~AtTheDoor(req[p], a)
        BY <1>12, <2>1, <2>2
      <4> QED BY <4>1, <4>2, <4>3
    <3> QED BY <1>5, <2>3, <2>5, <3>1
  <2> QED BY <1>1, <1>4, <1>12, <2>2, <2>3, <2>4, <2>6, <2>7, <2>8
<1>13. ASSUME NEW p \in Procs, AddParticipant(p)
       PROVE  ActivityInv'
  <2>1. /\ HasSession(req[p]) /\ req[p].op \in {"start", "join"}
        /\ req[p].op = "start" => At(p, "start", "host")
        /\ req[p].op = "join" => \A a : ~AtTheDoor(req[p], a)
        /\ req' = [req EXCEPT ![p] = Idle] /\ UNCHANGED <<activity, orphaned>>
        /\ presence' = [presence EXCEPT ![req[p].id] = @ \cup {req[p].by}]
    BY <1>13 DEF AddParticipant, At, HasSession, Finish, AtTheDoor
  <2>2. PICK b : b = req[p].id
    OBVIOUS
  <2>3. PICK u \in Users : u = req[p].by
    BY <1>1, <1>3, <2>1
  <2>4. b \in 1..Len(activity)
    BY <1>1, <2>1, <2>2
  <2>5. PICK S : S = presence[b] \cup {u}
    OBVIOUS
  <2>6. S \in Crowds /\ presence' = [presence EXCEPT ![b] = S]
    BY <1>3, <2>1, <2>2, <2>3, <2>4, <2>5 DEF Crowds
  <2>7. CASE req[p].op = "start"
    <3>1. activity[b].host \in S
      BY <1>1, <2>1, <2>2, <2>3, <2>5, <2>7 DEF StartersAreHosts
    <3> QED BY <1>2, <1>11, <2>1, <2>2, <2>6, <3>1
  <2>8. CASE req[p].op = "join"
    <3>1. \/ activity[b].host \in S
          \/ /\ presence[b] \subseteq S \cup {req[p].by} /\ req[p].by # activity[b].host
             /\ ~AtTheDoor(req[p], b)
      BY <2>1, <2>3, <2>5, <2>8
    <3> QED BY <1>2, <1>11, <2>1, <2>2, <2>6, <3>1
  <2> QED BY <2>1, <2>7, <2>8
<1>14. ASSUME NEW p \in Procs, JoinActivity(p)
       PROVE  ActivityInv'
  <2>1. PICK u \in Users, a \in ActiveActivities : Loads(p, "join", u, a)
    BY <1>14 DEF JoinActivity
  <2>2. a \in 1..Len(activity) /\ a \in Nat
    BY <1>1, <1>3 DEF ActiveActivities, Aids
  <2>3. PICK r : r = [op |-> "join", at |-> "write", by |-> u, id |-> a]
    OBVIOUS
  <2>4. r \in R /\ r.op = "join" /\ r.id = a
    BY <2>2, <2>3 DEF R, ActivityRequests
  <2>5. Enter(p, r) /\ req' = [req EXCEPT ![p] = r] /\ UNCHANGED activityVars
    BY <1>14, <2>1, <2>3 DEF Loads, Enter, JoinActivity
  <2> QED BY <1>7, <1>8, <2>2, <2>4, <2>5
<1>15. ASSUME NEW p \in Procs, LeaveActivity(p)
       PROVE  ActivityInv'
  <2>1. PICK u \in Users, a \in Aids :
           Enter(p, [op |-> "quit", at |-> "write", by |-> u, id |-> a,
                     ends |-> activity[a].host = u /\ activity[a].status = "active"])
    BY <1>15 DEF LeaveActivity
  <2>2. a \in 1..Len(activity) /\ a \in Nat
    BY <1>1, <1>3 DEF Aids
  <2>3. PICK e \in BOOLEAN : e = (activity[a].host = u /\ activity[a].status = "active")
    OBVIOUS
  <2>4. PICK r : r = [op |-> "quit", at |-> "write", by |-> u, id |-> a, ends |-> e]
    OBVIOUS
  <2>5. r \in R /\ r.op = "quit" /\ r.by = u /\ r.id = a /\ r.ends = e
    BY <2>2, <2>4 DEF R, ActivityRequests
  <2>6. Enter(p, r) /\ req' = [req EXCEPT ![p] = r] /\ UNCHANGED activityVars
    BY <1>15, <2>1, <2>3, <2>4 DEF Enter, LeaveActivity
  <2>7. ~r.ends /\ activity[r.id].host = r.by => activity[r.id].status = "ended"
    BY <1>3, <2>2, <2>3, <2>5
  <2> QED BY <1>7, <1>8, <2>2, <2>5, <2>6, <2>7
<1>16. ASSUME NEW p \in Procs, MarkLeft(p)
       PROVE  ActivityInv'
  <2>1. /\ HasSession(req[p]) /\ At(p, "quit", "write") /\ req[p].op = "quit" /\ req[p].at = "write"
        /\ \A a : ~AtTheDoor(req[p], a)
        /\ IF req[p].ends THEN Goto(p, "end") ELSE Finish(p)
        /\ UNCHANGED <<activity, orphaned>>
        /\ presence' = [presence EXCEPT ![req[p].id] = @ \ {req[p].by}]
    BY <1>16 DEF MarkLeft, At, HasSession, Leaves, AtTheDoor
  <2>2. PICK b : b = req[p].id
    OBVIOUS
  <2>3. PICK u \in Users : u = req[p].by
    BY <1>1, <1>3, <2>1
  <2>4. b \in 1..Len(activity)
    BY <1>1, <2>1, <2>2
  <2>5. PICK S : S = presence[b] \ {u}
    OBVIOUS
  <2>6. S \in Crowds /\ presence' = [presence EXCEPT ![b] = S]
    BY <1>3, <2>1, <2>2, <2>3, <2>4, <2>5 DEF Crowds
  <2>7. CASE req[p].ends
    <3>1. PICK r : r = [req[p] EXCEPT !.at = "end"]
      OBVIOUS
    <3>2. r \in R /\ r.op = "quit" /\ r.at = "end" /\ r.id = b
      <4>1. req[p] \in [op: {"quit"}, at: {"write", "end"}, by: Users, id: Nat, ends: BOOLEAN]
        BY <1>1, <2>1 DEF R, ActivityRequests, Idle
      <4>2. /\ r \in [op: {"quit"}, at: {"write", "end"}, by: Users, id: Nat, ends: BOOLEAN]
            /\ r.op = "quit" /\ r.at = "end" /\ r.id = req[p].id
        BY <3>1, <4>1, QuitRequest
      <4> QED BY <2>2, <4>2 DEF R, ActivityRequests
    <3>3. req' = [req EXCEPT ![p] = r]
      BY <2>1, <2>7, <3>1 DEF Goto
    <3> QED BY <1>11, <2>1, <2>2, <2>6, <3>2, <3>3 DEF AtTheDoor
  <2>8. CASE ~req[p].ends
    <3>1. req' = [req EXCEPT ![p] = Idle]
      BY <2>1, <2>8 DEF Finish
    <3>2. \/ activity[b].status = "ended"
          \/ /\ presence[b] \subseteq S \cup {req[p].by} /\ req[p].by # activity[b].host
             /\ ~AtTheDoor(req[p], b)
      BY <1>1, <2>1, <2>2, <2>3, <2>5, <2>8 DEF HostsLeaveTheEnded
    <3> QED BY <1>2, <1>11, <2>1, <2>2, <2>6, <3>1, <3>2
  <2> QED BY <2>7, <2>8
<1>17. ASSUME NEW p \in Procs, LoadEnd(p)
       PROVE  ActivityInv'
  <2>1. PICK a \in Aids : Loads(p, "end", activity[a].host, a)
    BY <1>17 DEF LoadEnd
  <2>2. a \in 1..Len(activity) /\ a \in Nat
    BY <1>1, <1>3 DEF Aids
  <2>3. PICK u \in Users : u = activity[a].host
    BY <1>3, <2>2
  <2>4. PICK r : r = [op |-> "end", at |-> "write", by |-> u, id |-> a]
    OBVIOUS
  <2>5. r \in R /\ r.op = "end" /\ r.id = a
    BY <2>2, <2>4 DEF R, ActivityRequests
  <2>6. Enter(p, r) /\ req' = [req EXCEPT ![p] = r] /\ UNCHANGED activityVars
    BY <1>17, <2>1, <2>3, <2>4 DEF Loads, Enter, LoadEnd
  <2> QED BY <1>7, <1>8, <2>2, <2>5, <2>6
<1>18. ASSUME NEW p \in Procs, EndActivity(p)
       PROVE  ActivityInv'
  <2>1. /\ HasSession(req[p]) /\ req[p].op \in {"quit", "end"}
        /\ req' = [req EXCEPT ![p] = Idle] /\ UNCHANGED <<presence, orphaned>>
        /\ activity' = [activity EXCEPT ![req[p].id].status = "ended"]
    BY <1>18 DEF EndActivity, At, HasSession, Finish
  <2>2. PICK b : b = req[p].id
    OBVIOUS
  <2>3. b \in 1..Len(activity)
    BY <1>1, <2>1, <2>2
  <2>4. PICK x : x = [activity[b] EXCEPT !.status = "ended"]
    OBVIOUS
  <2>5. x \in Rows /\ x.status = "ended" /\ x.host = activity[b].host
    BY <1>3, <2>3, <2>4 DEF Rows, ActivityRows
  <2>6. activity' = [activity EXCEPT ![b] = x]
    BY <2>1, <2>2, <2>4
  <2> QED BY <1>12, <2>1, <2>2, <2>5, <2>6
<1>19. ASSUME NEW p \in Procs, LoadState(p)
       PROVE  ActivityInv'
  <2>1. PICK a \in ActiveActivities, base \in 0..MaxRevision - 1 :
           Enter(p, [op |-> "state", at |-> "write", by |-> activity[a].host,
                     id |-> a, base |-> base])
    BY <1>19 DEF LoadState
  <2>2. a \in 1..Len(activity) /\ a \in Nat
    BY <1>1, <1>3 DEF ActiveActivities, Aids
  <2>3. PICK u \in Users : u = activity[a].host
    BY <1>3, <2>2
  <2>4. PICK r : r = [op |-> "state", at |-> "write", by |-> u, id |-> a, base |-> base]
    OBVIOUS
  <2>5. r \in R /\ r.op = "state" /\ r.id = a
    BY <2>2, <2>4 DEF R, ActivityRequests
  <2>6. Enter(p, r) /\ req' = [req EXCEPT ![p] = r] /\ UNCHANGED activityVars
    BY <1>19, <2>1, <2>3, <2>4 DEF Enter, LoadState
  <2> QED BY <1>7, <1>8, <2>2, <2>5, <2>6
<1>20. ASSUME NEW p \in Procs, UpdateState(p)
       PROVE  ActivityInv'
  <2>1. /\ HasSession(req[p]) /\ req[p].op = "state" /\ \A a : ~AtTheDoor(req[p], a)
        /\ req' = [req EXCEPT ![p] = Idle] /\ UNCHANGED <<presence, orphaned>>
    BY <1>20 DEF UpdateState, At, HasSession, Finish, AtTheDoor
  <2>2. PICK b : b = req[p].id
    OBVIOUS
  <2>3. b \in 1..Len(activity)
    BY <1>1, <2>1, <2>2
  <2>4. CASE activity' = activity
    BY <1>2, <1>7, <2>1, <2>4 DEF activityVars
  <2>5. CASE activity' # activity
    <3>1. /\ activity[b].status = "active" /\ activity[b].revision = req[p].base
          /\ activity' = [activity EXCEPT ![b].revision = @ + 1]
      BY <1>20, <2>2, <2>5 DEF UpdateState
    <3>2. req[p].base \in 0..MaxRevision - 1
      BY <1>1, <2>1 DEF R, ActivityRequests, Idle
    <3>3. activity[b].revision + 1 \in 0..MaxRevision
      <4>1. ASSUME NEW n, NEW m \in Nat, n \in 0..m - 1 PROVE n + 1 \in 0..m
        BY <4>1
      <4> QED BY <1>1, <3>1, <3>2, <4>1
    <3>4. PICK x : x = [activity[b] EXCEPT !.revision = activity[b].revision + 1]
      OBVIOUS
    <3>5. x \in Rows /\ x.host = activity[b].host /\ x.status = activity[b].status
      BY <1>3, <2>3, <3>3, <3>4 DEF Rows, ActivityRows
    <3>6. activity' = [activity EXCEPT ![b] = x]
      BY <3>1, <3>4
    <3> QED BY <1>12, <2>1, <2>2, <3>1, <3>5, <3>6
  <2> QED BY <2>4, <2>5
<1>21. ASSUME NEW p \in Procs, ActivityDie(p)
       PROVE  ActivityInv'
  <2>1. /\ req' = [req EXCEPT ![p] = Idle] /\ UNCHANGED <<activity, presence>>
        /\ orphaned' = IF At(p, "start", "host") \/ At(p, "quit", "end")
                       THEN orphaned \cup {req[p].id} ELSE orphaned
    BY <1>21 DEF ActivityDie, Die
  <2>2. CASE \A a \in 1..Len(activity) : ~AtTheDoor(req[p], a)
    <3>1. ~(At(p, "start", "host") \/ At(p, "quit", "end"))
      <4>1. ASSUME At(p, "start", "host") \/ At(p, "quit", "end")
            PROVE  FALSE
        <5>1. HasSession(req[p]) /\ AtTheDoor(req[p], req[p].id)
          BY <4>1 DEF At, AtTheDoor, HasSession
        <5> QED BY <1>1, <2>2, <5>1
      <4> QED BY <4>1
    <3>2. orphaned' = orphaned
      BY <2>1, <3>1
    <3> QED BY <1>2, <1>7, <2>1, <2>2, <3>2 DEF activityVars
  <2>3. ASSUME NEW b \in 1..Len(activity), AtTheDoor(req[p], b)
        PROVE  ActivityInv'
    <3>1. orphaned' = orphaned \cup {b} /\ \A a : AtTheDoor(req[p], a) => a = b
      BY <2>1, <2>3 DEF At, AtTheDoor
    <3>2. req' \in [Procs -> R] /\ \A q \in Procs : req'[q] = IF q = p THEN Idle ELSE req[q]
      BY <1>1, <1>2, <2>1
    <3>3. StartersAreHosts' /\ HostsLeaveTheEnded'
      BY <1>1, <1>2, <2>1, <3>2 DEF StartersAreHosts, HostsLeaveTheEnded, At
    <3>4. HostIsPresent'
      BY <1>1, <1>5, <1>6, <2>1, <3>1, <3>2
    <3>5. \A q \in Procs : HasSession(req'[q]) => req'[q].id \in 1..Len(activity')
      BY <1>1, <1>2, <2>1, <3>2
    <3> QED BY <1>1, <1>4, <2>1, <2>3, <3>1, <3>2, <3>3, <3>4, <3>5
  <2> QED BY <2>2, <2>3
<1>22. ASSUME UNCHANGED <<reqVars, activityVars>>
       PROVE  ActivityInv'
  <2>1. UNCHANGED <<req, activity, presence, orphaned>>
    BY <1>22 DEF reqVars, activityVars
  <2>2. StartersAreHosts' /\ HostsLeaveTheEnded' /\ HostIsPresent'
    BY <1>1, <2>1 DEF StartersAreHosts, HostsLeaveTheEnded, HostIsPresent, ActiveActivities, Aids, At
  <2> QED BY <1>1, <1>4, <2>1, <2>2
<1> QED
  BY <1>9, <1>10, <1>13, <1>14, <1>15, <1>16, <1>17, <1>18, <1>19, <1>20, <1>21, <1>22
     DEF ActivityNext

\* A new platform has no session.
LEMMA ActivityInitial ==
    ASSUME ReqInit, ActivityInit
    PROVE  ActivityInv
<1>1. /\ req = [p \in Procs |-> Idle] /\ activity = <<>> /\ presence = <<>> /\ orphaned = {}
  BY DEF ReqInit, ActivityInit
<1>2. /\ activity \in Seq(ActivityRows) /\ presence \in Seq(SUBSET Users)
      /\ Len(activity) = 0 /\ Len(presence) = 0
  BY <1>1
<1>3. \A p \in Procs : req[p] = Idle /\ req[p].op = "idle" /\ ~HasSession(req[p])
  BY <1>1 DEF Idle, HasSession
<1>4. req \in [Procs -> ActivityRequests]
  BY <1>1 DEF ActivityRequests
<1>5. ActivityTypes
  BY <1>1, <1>2, <1>3, <1>4 DEF ActivityTypes
<1>6. StartersAreHosts /\ HostsLeaveTheEnded
  BY <1>3 DEF StartersAreHosts, HostsLeaveTheEnded, At
<1>7. HostIsPresent
  BY <1>1 DEF HostIsPresent, ActiveActivities, Aids
<1> QED BY <1>5, <1>6, <1>7 DEF ActivityInv

-----------------------------------------------------------------------------
(* Contacts.                                                               *)

\* What a request of the service can have in hand, by where it stands.
ContactRequests ==
         {Idle}
    \cup [op: {"block"}, at: {"upsert", "set"}]
    \cup [op: {"report"}, at: {"create", "upsert", "set"}]
    \cup [op: {"unblock"}, at: {"set"}]
    \cup [op: {"open"}, at: {"insert", "migrate"}]

\* The row a block set down is there until the block is done, or it is torn.
CutsHaveARow == edge = NoEdge => torn \/ \A p \in Procs : ~Cut(p)

\* The invariant of the service.
ContactInv ==
    /\ req \in [Procs -> ContactRequests] /\ ContactTypeOK
    /\ BlockStands /\ CutsHaveARow

\* A request that goes on to its next statement is still one of the service.
LEMMA ContactRequest ==
    ASSUME NEW r \in ContactRequests,
           NEW at, \/ r.op = "block" /\ at \in {"upsert", "set"}
                   \/ r.op = "report" /\ at \in {"create", "upsert", "set"}
                   \/ r.op = "open" /\ at \in {"insert", "migrate"}
    PROVE  /\ [r EXCEPT !.at = at] \in ContactRequests
           /\ [r EXCEPT !.at = at].op = r.op /\ [r EXCEPT !.at = at].at = at
BY DEF ContactRequests, Idle

\* Every step of the service keeps its invariant.
LEMMA ContactKept ==
    ASSUME ContactInv, [ContactNext]_<<reqVars, contactVars>>
    PROVE  ContactInv'
<1> DEFINE R == ContactRequests
           EdgeRows == [type : EdgeTypes, until : Untils]
<1>1. /\ req \in [Procs -> R] /\ BlockStands /\ CutsHaveARow
      /\ edge \in EdgeRows \cup {NoEdge}
      /\ reports \in 0..MaxReports
      /\ chat \in {"none", "old cid", "new cid"} /\ logged \in BOOLEAN
      /\ promised \in BOOLEAN /\ torn \in BOOLEAN
  BY DEF ContactInv, ContactTypeOK
<1>2. /\ Idle \in R /\ Idle.op = "idle"
      /\ \A op, at : Owner(op, at).op = op /\ Owner(op, at).at = at
  BY DEF ContactRequests, Idle, Owner
<1>3. /\ NoEdge \notin EdgeRows /\ NoEdge.type = "none" /\ NoEdge.until = "never"
      /\ \A t \in EdgeTypes, u \in Untils : Edge(t, u) \in EdgeRows
      /\ \A t, u : Edge(t, u).type = t /\ Edge(t, u).until = u
      /\ \A e \in EdgeRows, t \in EdgeTypes :
            [e EXCEPT !.type = t] \in EdgeRows /\ [e EXCEPT !.type = t].type = t
      /\ \A e \in EdgeRows, u \in Untils :
            [e EXCEPT !.until = u] \in EdgeRows /\ [e EXCEPT !.until = u].type = e.type
  BY DEF NoEdge, Edge, EdgeTypes, Untils
<1> HIDE DEF EdgeRows, R
<1>4. \A t \in EdgeTypes, u \in Untils :
         /\ Upsert(t, u) => edge' \in EdgeRows /\ edge'.type = t
         /\ Update(t)    => edge' \in EdgeRows /\ edge'.type = t
         /\ SetType(t)   => IF edge = NoEdge THEN edge' = edge
                            ELSE edge' \in EdgeRows /\ edge'.type = t
  <2> SUFFICES ASSUME NEW t \in EdgeTypes, NEW u \in Untils
               PROVE  /\ Upsert(t, u) => edge' \in EdgeRows /\ edge'.type = t
                      /\ Update(t)    => edge' \in EdgeRows /\ edge'.type = t
                      /\ SetType(t)   => IF edge = NoEdge THEN edge' = edge
                                         ELSE edge' \in EdgeRows /\ edge'.type = t
    OBVIOUS
  <2>1. edge # NoEdge => [edge EXCEPT !.type = t] \in EdgeRows /\ [edge EXCEPT !.type = t].type = t
    BY <1>1, <1>3
  <2>2. Edge(t, u) \in EdgeRows /\ Edge(t, u).type = t
    BY <1>3
  <2>3. Upsert(t, u) => edge' \in EdgeRows /\ edge'.type = t
    BY <2>1, <2>2 DEF Upsert
  <2>4. Update(t) => edge' \in EdgeRows /\ edge'.type = t
    BY <2>1 DEF Update
  <2>5. SetType(t) => IF edge = NoEdge THEN edge' = edge
                      ELSE edge' \in EdgeRows /\ edge'.type = t
    BY <2>1 DEF SetType
  <2> QED BY <2>3, <2>4, <2>5
\* A process that moves to where no block is cut, from where none was.
<1>5. ASSUME NEW p \in Procs, ~Cut(p), NEW r, req' = [req EXCEPT ![p] = r],
             r.op \notin {"block", "report"} \/ r.at # "set"
      PROVE  \A q \in Procs : Cut(q)' <=> Cut(q)
  BY <1>1, <1>5 DEF Cut, At
<1>6. ASSUME UNCHANGED req
      PROVE  \A q \in Procs : Cut(q)' <=> Cut(q)
  BY <1>6 DEF Cut, At
\* What leaves the cuts, the edge and the promise alone breaks nothing.
<1>7. ASSUME \A q \in Procs : Cut(q)' <=> Cut(q), UNCHANGED <<edge, promised, torn>>
      PROVE  BlockStands' /\ CutsHaveARow'
  BY <1>1, <1>7 DEF BlockStands, CutsHaveARow
<1>8. ASSUME NEW p \in Procs, AddContact(p)
      PROVE  ContactInv'
  <2>1. PICK t \in EdgeTypes \ {"blocked"}, u \in Untils : Upsert(t, u) /\ Told(t)
    BY <1>8 DEF AddContact, Untils
  <2>2. edge' \in EdgeRows /\ promised' = FALSE
    BY <1>4, <2>1 DEF Told
  <2>3. BlockStands' /\ CutsHaveARow'
    BY <1>3, <2>2 DEF BlockStands, CutsHaveARow
  <2>4. UNCHANGED <<reports, chat, logged, torn, req>>
    BY <1>8 DEF AddContact, reqVars
  <2>5. ContactTypeOK'
    BY <1>1, <2>2, <2>4 DEF ContactTypeOK, EdgeRows
  <2> QED BY <1>1, <2>3, <2>4, <2>5 DEF ContactInv, R
<1>9. ASSUME NEW p \in Procs, PatchContact(p)
      PROVE  ContactInv'
  <2>1. PICK t \in EdgeTypes \ {"blocked"} : Update(t) /\ Told(t)
    BY <1>9 DEF PatchContact
  <2>2. edge' \in EdgeRows /\ promised' = FALSE
    BY <1>4, <2>1 DEF Told, Untils
  <2>3. BlockStands' /\ CutsHaveARow'
    BY <1>3, <2>2 DEF BlockStands, CutsHaveARow
  <2>4. UNCHANGED <<reports, chat, logged, torn, req>>
    BY <1>9 DEF PatchContact, reqVars
  <2>5. ContactTypeOK'
    BY <1>1, <2>2, <2>4 DEF ContactTypeOK, EdgeRows
  <2> QED BY <1>1, <2>3, <2>4, <2>5 DEF ContactInv, R
<1>10. ASSUME NEW p \in Procs, RemoveContact(p)
       PROVE  ContactInv'
  <2>1. /\ edge' = NoEdge /\ promised' = FALSE
        /\ torn' = (torn \/ \E q \in Procs : Cut(q))
        /\ UNCHANGED <<reports, chat, logged, req>>
    BY <1>10 DEF RemoveContact, Delete, Told, reqVars
  <2>2. BlockStands' /\ CutsHaveARow'
    BY <1>6, <2>1 DEF BlockStands, CutsHaveARow
  <2>3. torn' \in BOOLEAN
    BY <2>1
  <2>4. ContactTypeOK'
    BY <1>1, <2>1, <2>3 DEF ContactTypeOK
  <2> QED BY <1>1, <2>1, <2>2, <2>4 DEF ContactInv, R
<1>11. ASSUME NEW p \in Procs, NEW r \in R, Enter(p, r), UNCHANGED contactVars,
              r.op \notin {"block", "report"} \/ r.at # "set"
       PROVE  ContactInv'
  <2>1. req' = [req EXCEPT ![p] = r] /\ req[p] = Idle
    BY <1>11 DEF Enter
  <2>2. BlockStands' /\ CutsHaveARow'
    BY <1>2, <1>5, <1>7, <1>11, <2>1 DEF Cut, At, contactVars
  <2>3. ContactTypeOK'
    BY <1>1, <1>11 DEF ContactTypeOK, EdgeRows, contactVars
  <2>4. req' \in [Procs -> R]
    BY <1>1, <1>11, <2>1
  <2> QED BY <2>2, <2>3, <2>4 DEF ContactInv, R
<1>12. ASSUME NEW p \in Procs, \/ BlockBegins(p) \/ FileReport(p)
                               \/ UnblockBegins(p) \/ OpenChannel(p)
       PROVE  ContactInv'
  <2>1. /\ Owner("block", "upsert") \in R /\ Owner("report", "create") \in R
        /\ Owner("unblock", "set") \in R /\ Owner("open", "insert") \in R
    BY DEF R, ContactRequests, Owner
  <2> QED
    BY <1>2, <1>11, <1>12, <2>1 DEF BlockBegins, FileReport, UnblockBegins, OpenChannel
<1>13. ASSUME NEW p \in Procs, CreateReport(p)
       PROVE  ContactInv'
  <2>1. req[p].op = "report" /\ req[p].at = "create" /\ reports' = reports + 1
        /\ reports < MaxReports /\ UNCHANGED <<edge, chat, logged, promised, torn>>
    BY <1>13 DEF CreateReport, At
  <2>2. PICK r \in R : /\ req' = [req EXCEPT ![p] = r]
                       /\ r.op \notin {"block", "report"} \/ r.at # "set"
    <3>1. PICK r : r = [req[p] EXCEPT !.at = "upsert"]
      OBVIOUS
    <3>2. r \in R
      BY <1>1, <2>1, <3>1, ContactRequest DEF R
    <3>3. r.at = "upsert"
      BY <1>1, <2>1, <3>1, ContactRequest DEF R
    <3>4. req' = [req EXCEPT ![p] = Idle] \/ req' = [req EXCEPT ![p] = r]
      BY <1>13, <3>1 DEF CreateReport, Finish, Goto
    <3> QED BY <1>2, <3>2, <3>3, <3>4
  <2>3. req' \in [Procs -> R] /\ \A q \in Procs : Cut(q)' <=> Cut(q)
    BY <1>1, <1>5, <2>1, <2>2 DEF Cut, At
  <2>4. reports' \in 0..MaxReports
    BY <1>1, <2>1, OneMore, ReportsAssumption
  <2>5. ContactTypeOK'
    BY <1>1, <2>1, <2>4 DEF ContactTypeOK, EdgeRows
  <2> QED BY <1>7, <2>1, <2>3, <2>5 DEF ContactInv, R
<1>14. ASSUME NEW p \in Procs, BlockUpsert(p)
       PROVE  ContactInv'
  <2>1. edge' \in EdgeRows
    BY <1>4, <1>14 DEF BlockUpsert, EdgeTypes, Untils
  <2>2. /\ req[p].op \in {"block", "report"} /\ req[p].at = "upsert"
        /\ UNCHANGED <<reports, chat, logged, promised, torn>>
    BY <1>14 DEF BlockUpsert, At
  <2>3. PICK r : r = [req[p] EXCEPT !.at = "set"]
    OBVIOUS
  <2>4. r \in R /\ req' = [req EXCEPT ![p] = r]
    BY <1>1, <1>14, <2>2, <2>3, ContactRequest DEF R, BlockUpsert, Goto
  <2>5. r.op \in {"block", "report"} /\ r.at = "set"
    BY <1>1, <2>2, <2>3, ContactRequest DEF R
  <2>6. req' \in [Procs -> R] /\ Cut(p)'
    BY <1>1, <2>4, <2>5 DEF Cut, At
  <2>7. BlockStands' /\ CutsHaveARow'
    BY <1>3, <2>1, <2>6 DEF BlockStands, CutsHaveARow
  <2>8. ContactTypeOK'
    BY <1>1, <2>1, <2>2 DEF ContactTypeOK, EdgeRows
  <2> QED BY <2>6, <2>7, <2>8 DEF ContactInv, R
\* The type is set where the row still is; where it is not the block was torn.
<1>15. ASSUME NEW p \in Procs, BlockSet(p)
       PROVE  ContactInv'
  <2>1. /\ Cut(p) /\ SetType("blocked") /\ torn' = (torn /\ edge = NoEdge)
        /\ req' = [req EXCEPT ![p] = Idle] /\ promised' = TRUE
        /\ UNCHANGED <<reports, chat, logged>>
    BY <1>15 DEF BlockSet, Cut, Finish, Told
  <2>2. req' \in [Procs -> R]
    BY <1>1, <1>2, <2>1
  <2>3. /\ BlockStands' /\ CutsHaveARow'
        /\ edge' \in EdgeRows \cup {NoEdge} /\ torn' \in BOOLEAN
    <3>1. CASE edge = NoEdge
      <4>1. edge' = NoEdge /\ torn' = TRUE
        BY <1>1, <1>4, <2>1, <3>1 DEF CutsHaveARow, EdgeTypes, Untils
      <4> QED BY <4>1 DEF BlockStands, CutsHaveARow
    <3>2. CASE edge # NoEdge
      <4>1. edge' \in EdgeRows /\ edge'.type = "blocked" /\ torn' = FALSE
        BY <1>4, <2>1, <3>2 DEF EdgeTypes, Untils
      <4> QED BY <1>3, <4>1 DEF BlockStands, CutsHaveARow
    <3> QED BY <3>1, <3>2
  <2>4. ContactTypeOK'
    BY <1>1, <2>1, <2>3 DEF ContactTypeOK, EdgeRows
  <2> QED BY <2>2, <2>3, <2>4 DEF ContactInv, R
<1>16. ASSUME NEW p \in Procs, UnblockSet(p)
       PROVE  ContactInv'
  <2>1. /\ req[p].op = "unblock" /\ SetType("unknown")
        /\ req' = [req EXCEPT ![p] = Idle] /\ promised' = FALSE
        /\ UNCHANGED <<reports, chat, logged, torn>>
    BY <1>16 DEF UnblockSet, At, Finish, Told
  <2>2. req' \in [Procs -> R] /\ \A q \in Procs : Cut(q)' <=> Cut(q)
    BY <1>1, <1>2, <1>5, <2>1 DEF Cut, At
  <2>3. /\ edge' \in EdgeRows \cup {NoEdge}
        /\ edge' = NoEdge => edge = NoEdge
    BY <1>1, <1>3, <1>4, <2>1 DEF EdgeTypes, Untils
  <2>4. BlockStands' /\ CutsHaveARow'
    BY <1>1, <2>1, <2>2, <2>3 DEF BlockStands, CutsHaveARow
  <2>5. ContactTypeOK'
    BY <1>1, <2>1, <2>3 DEF ContactTypeOK, EdgeRows
  <2> QED BY <2>2, <2>4, <2>5 DEF ContactInv, R
<1>17. ASSUME NEW p \in Procs, EnsureChannel(p) \/ MigrateChannel(p)
       PROVE  ContactInv'
  <2>1. req[p].op = "open" /\ UNCHANGED <<edge, reports, logged, promised, torn>>
    BY <1>17 DEF EnsureChannel, MigrateChannel, At
  <2>2. PICK r : r = [req[p] EXCEPT !.at = "migrate"]
    OBVIOUS
  <2>3. r \in R /\ r.at = "migrate"
    BY <1>1, <2>1, <2>2, ContactRequest DEF R
  <2>4. req' = [req EXCEPT ![p] = Idle] \/ req' = [req EXCEPT ![p] = r]
    BY <1>17, <2>2 DEF EnsureChannel, MigrateChannel, Finish, Goto
  <2>5. req' \in [Procs -> R] /\ \A q \in Procs : Cut(q)' <=> Cut(q)
    BY <1>1, <1>2, <1>5, <2>1, <2>3, <2>4 DEF Cut, At
  <2>6. chat' \in {chat, "new cid"}
    BY <1>17 DEF EnsureChannel, MigrateChannel
  <2>7. ContactTypeOK'
    BY <1>1, <2>1, <2>6 DEF ContactTypeOK, EdgeRows
  <2> QED BY <1>7, <2>1, <2>5, <2>7 DEF ContactInv, R
<1>18. ASSUME NEW p \in Procs, ContactDie(p)
       PROVE  ContactInv'
  <2>1. /\ req' = [req EXCEPT ![p] = Idle] /\ torn' = (torn \/ Cut(p))
        /\ UNCHANGED <<edge, reports, chat, logged, promised>>
    BY <1>18 DEF ContactDie, Die
  <2>2. req' \in [Procs -> R] /\ torn' \in BOOLEAN
    BY <1>1, <1>2, <2>1
  <2>3. ContactTypeOK'
    BY <1>1, <2>1, <2>2 DEF ContactTypeOK, EdgeRows
  <2>4. CASE Cut(p)
    <3>1. torn'
      BY <2>1, <2>4
    <3> QED BY <2>2, <2>3, <3>1 DEF ContactInv, BlockStands, CutsHaveARow, R
  <2>5. CASE ~Cut(p)
    <3>1. torn' = torn /\ \A q \in Procs : Cut(q)' <=> Cut(q)
      BY <1>1, <1>2, <1>5, <2>1, <2>5
    <3> QED BY <1>7, <2>1, <2>2, <2>3, <3>1 DEF ContactInv, R
  <2> QED BY <2>4, <2>5
<1>19. ASSUME WindowPasses \/ ChatWebhook
       PROVE  ContactInv'
  <2>1. UNCHANGED <<edge, chat, promised, torn, req>>
    BY <1>19 DEF WindowPasses, ChatWebhook, reqVars
  <2>2. reports' \in {reports, 0} /\ logged' \in {logged, TRUE}
    BY <1>19 DEF WindowPasses, ChatWebhook
  <2>3. reports' \in 0..MaxReports
    BY <1>1, <2>2, NoneYet, ReportsAssumption
  <2>4. ContactTypeOK'
    BY <1>1, <2>1, <2>2, <2>3 DEF ContactTypeOK, EdgeRows
  <2> QED BY <1>1, <1>6, <1>7, <2>1, <2>4 DEF ContactInv, R
<1>20. ASSUME TimePasses \/ ConnectionExpiry
       PROVE  ContactInv'
  <2>1. UNCHANGED <<reports, chat, logged, promised, torn, req>>
    BY <1>20 DEF TimePasses, ConnectionExpiry, reqVars
  <2>2. edge \in EdgeRows
    BY <1>1, <1>3, <1>20 DEF TimePasses, ConnectionExpiry
  <2>3. /\ edge' \in EdgeRows
        /\ edge'.type = edge.type \/ edge.type = "temporary"
    <3>1. CASE TimePasses
      <4>1. edge' = [edge EXCEPT !.until = "past"]
        BY <3>1 DEF TimePasses
      <4> QED BY <1>3, <2>2, <4>1 DEF Untils
    <3>2. CASE ConnectionExpiry
      BY <1>3, <3>2 DEF ConnectionExpiry, EdgeTypes, Untils
    <3> QED BY <1>20, <3>1, <3>2
  <2>4. BlockStands' /\ CutsHaveARow'
    BY <1>1, <1>3, <1>6, <2>1, <2>3 DEF BlockStands, CutsHaveARow
  <2>5. ContactTypeOK'
    BY <1>1, <2>1, <2>3 DEF ContactTypeOK, EdgeRows
  <2> QED BY <1>1, <2>1, <2>4, <2>5 DEF ContactInv, R
<1>21. ASSUME UNCHANGED <<reqVars, contactVars>>
       PROVE  ContactInv'
  <2>1. UNCHANGED <<edge, reports, chat, logged, promised, torn, req>>
    BY <1>21 DEF reqVars, contactVars
  <2>2. ContactTypeOK'
    BY <1>1, <2>1 DEF ContactTypeOK, EdgeRows
  <2> QED BY <1>1, <1>6, <1>7, <2>1, <2>2 DEF ContactInv, R
<1> QED
  BY <1>8, <1>9, <1>10, <1>12, <1>13, <1>14, <1>15, <1>16, <1>17, <1>18, <1>19, <1>20, <1>21
     DEF ContactNext, EdgeStep, ReportStep, ChatStep

\* A new contact is not blocked, also while other services run.
LEMMA ContactInitial ==
    ASSUME ContactInit
    PROVE  ContactTypeOK /\ BlockStands /\ (ReqInit => ContactInv)
<1>1. ContactTypeOK /\ BlockStands
  BY NoneYet, ReportsAssumption DEF ContactInit, ContactTypeOK, BlockStands
<1>2. ASSUME ReqInit
      PROVE  ContactInv
  <2>1. req = [p \in Procs |-> Idle]
    BY <1>2 DEF ReqInit
  <2>2. CutsHaveARow
    BY <2>1 DEF CutsHaveARow, Cut, At, Idle
  <2> QED BY <1>1, <2>1, <2>2 DEF ContactInv, ContactRequests
<1> QED BY <1>1, <1>2

-----------------------------------------------------------------------------
(* Grants.                                                                 *)

\* What a request of the service can have in hand, by where it stands.
GrantRequests ==
         {Idle}
    \cup [op: {"scan"}, at: {"record"}]
    \cup [op: {"respond"}, at: {"write", "tell"}, as: {"approved", "denied"}]

\* Requests and rows are of the same kind.
GrantKinds ==
    \A p \in Procs : /\ req[p].op = "scan"    => grant.kind = "share"
                     /\ req[p].op = "respond" => grant.kind = "approval"

\* The property, by kind; who is about to tell an answer has written it.
ShareHonoured ==
    grant.kind = "share" =>
       /\ grant.max # Null => grant.uses <= grant.max /\ (grant.active => grant.uses < grant.max)
       /\ ends # Null => ~grant.active /\ grant.uses = ends
ApprovalHonoured ==
    grant.kind = "approval" =>
       /\ answers \subseteq {grant.status}
       /\ \A p \in Procs : At(p, "respond", "tell") => grant.status = req[p].as
ChannelHonoured == grant.kind = "channel" /\ ends # Null => grant.status = "revoked"

\* p has looked at the row and has not changed it yet.
Looked(p) == At(p, "scan", "record") \/ At(p, "respond", "write")

\* Nobody looks at an expired grant: who still has it in hand was overtaken.
LateIsOvertaken ==
    /\ late => Expired /\ overtaken
    /\ \A p \in Procs : Expired /\ Looked(p) => overtaken

\* The invariant of the service.
GrantInv ==
    /\ req \in [Procs -> GrantRequests] /\ GrantTypeOK /\ GrantKinds
    /\ ShareHonoured /\ ApprovalHonoured /\ ChannelHonoured /\ LateIsOvertaken

\* A use of a share changes its count and what follows from it.
LEMMA ShareUsed ==
    ASSUME NEW g \in ShareRow, NEW n \in 0..MaxUses + 1, NEW b \in BOOLEAN,
           NEW h, h = [g EXCEPT !.uses = n, !.active = b]
    PROVE  h \in ShareRow /\ h.kind = "share" /\ h.uses = n /\ h.active = b /\ h.max = g.max
BY DEF ShareRow

\* A revocation changes nothing else of a share.
LEMMA ShareRevoked ==
    ASSUME NEW g \in ShareRow, NEW h, h = [g EXCEPT !.active = FALSE]
    PROVE  h \in ShareRow /\ h.kind = "share" /\ h.uses = g.uses /\ ~h.active /\ h.max = g.max
BY DEF ShareRow

\* The invariant includes the properties that are checked.
LEMMA GrantHonoured ==
    ASSUME GrantInv
    PROVE  GrantTypeOK /\ GrantsHonoured
BY DEF GrantInv, GrantsHonoured, ShareHonoured, ApprovalHonoured, ChannelHonoured,
       LateIsOvertaken, Is

\* Every step of the service keeps its invariant.
LEMMA GrantKept ==
    ASSUME GrantInv, [GrantNext]_<<reqVars, grantVars>>
    PROVE  GrantInv'
<1> DEFINE R == GrantRequests
           Grants == ShareRow \cup ApprovalRow \cup ChannelRow
<1>1. /\ req \in [Procs -> R] /\ grant \in Grants
      /\ clock \in {"none", "ahead", "past"} /\ ends \in {Null} \cup Nat
      /\ answers \subseteq {"approved", "denied"} /\ late \in BOOLEAN /\ overtaken \in BOOLEAN
      /\ GrantKinds /\ ShareHonoured /\ ApprovalHonoured /\ ChannelHonoured /\ LateIsOvertaken
  BY DEF GrantInv, GrantTypeOK
<1>2. /\ Idle \in R /\ Idle.op = "idle"
      /\ MaxUses \in Nat
  BY UsesAssumption DEF GrantRequests, Idle
<1>3. /\ grant.kind = "share"    => grant \in ShareRow
      /\ grant.kind = "approval" => grant \in ApprovalRow
      /\ grant.kind = "channel"  => grant \in ChannelRow
      /\ grant.kind \in {"share", "approval", "channel"}
  BY <1>1 DEF ShareRow, ApprovalRow, ChannelRow
<1>4. ASSUME req' \in [Procs -> R], grant' \in Grants,
             clock' \in {"none", "ahead", "past"}, ends' \in {Null} \cup Nat,
             answers' \subseteq {"approved", "denied"}, late' \in BOOLEAN, overtaken' \in BOOLEAN,
             GrantKinds', ShareHonoured', ApprovalHonoured', ChannelHonoured', LateIsOvertaken'
      PROVE  GrantInv'
  BY <1>4 DEF GrantInv, GrantTypeOK
<1> HIDE DEF R, Grants
\* One request moves on: what it may be told of the row, and where it may stand.
<1>5. ASSUME NEW p \in Procs, NEW r \in R, req' = [req EXCEPT ![p] = r], UNCHANGED grantVars,
             r.op = "scan" => grant.kind = "share",
             r.op = "respond" => grant.kind = "approval" /\ r.at = "write",
             r.op \in {"scan", "respond"} => ~Expired
      PROVE  GrantInv'
  <2>1. UNCHANGED <<grant, clock, ends, answers, late, overtaken>>
    BY <1>5 DEF grantVars
  <2>2. req' \in [Procs -> R] /\ \A q \in Procs : req'[q] = IF q = p THEN r ELSE req[q]
    BY <1>1, <1>5
  <2>3. GrantKinds' /\ ShareHonoured' /\ ChannelHonoured'
    BY <1>1, <1>5, <2>1, <2>2 DEF GrantKinds, ShareHonoured, ChannelHonoured
  <2>4. ApprovalHonoured'
    BY <1>1, <1>5, <2>1, <2>2 DEF ApprovalHonoured, At
  <2>5. LateIsOvertaken'
    BY <1>1, <1>5, <2>1, <2>2 DEF LateIsOvertaken, Looked, At, Expired
  <2> QED BY <1>1, <1>4, <2>1, <2>2, <2>3, <2>4, <2>5
<1>6. ASSUME UNCHANGED <<reqVars, grantVars>>
      PROVE  GrantInv'
  <2>1. UNCHANGED <<req, grant, clock, ends, answers, late, overtaken>>
    BY <1>6 DEF reqVars, grantVars
  <2> QED
    BY <1>1, <1>4, <2>1 DEF GrantKinds, ShareHonoured, ApprovalHonoured, ChannelHonoured,
                            LateIsOvertaken, Looked, At, Expired
<1>7. ASSUME NEW p \in Procs, GrantDie(p)
      PROVE  GrantInv'
  BY <1>2, <1>5, <1>7 DEF GrantDie, Die
<1>8. ASSUME GrantExpires
      PROVE  GrantInv'
  <2>1. /\ clock = "ahead" /\ clock' = "past" /\ UNCHANGED <<grant, ends, answers, late, req>>
        /\ overtaken' = \E p \in Procs : Looked(p)
    BY <1>8 DEF GrantExpires, Looked, reqVars
  <2>2. late = FALSE
    BY <1>1, <2>1 DEF LateIsOvertaken, Expired
  <2>3. LateIsOvertaken'
    BY <2>1, <2>2 DEF LateIsOvertaken, Looked, At
  <2>4. overtaken' \in BOOLEAN
    BY <2>1
  <2>5. GrantKinds' /\ ShareHonoured' /\ ApprovalHonoured' /\ ChannelHonoured'
    BY <1>1, <2>1 DEF GrantKinds, ShareHonoured, ApprovalHonoured, ChannelHonoured, At
  <2> QED BY <1>1, <1>4, <2>1, <2>3, <2>4, <2>5
<1>9. ASSUME NEW p \in Procs, ResolveShare(p)
      PROVE  GrantInv'
  <2>1. PICK r : r = [op |-> "scan", at |-> "record"]
    OBVIOUS
  <2>2. r \in R /\ r.op = "scan"
    BY <2>1 DEF R, GrantRequests
  <2>3. /\ req' = [req EXCEPT ![p] = r] /\ UNCHANGED grantVars
        /\ grant.kind = "share" /\ ~Expired
    BY <1>9, <2>1 DEF ResolveShare, Enter, FindActiveShare, Is
  <2> QED BY <1>5, <2>2, <2>3
\* A scan counts while the share is open, and the last one closes it.
<1>10. ASSUME NEW p \in Procs, RecordScan(p)
       PROVE  GrantInv'
  <2>1. /\ req[p].op = "scan" /\ Looked(p) /\ req' = [req EXCEPT ![p] = Idle]
        /\ UNCHANGED <<clock, ends, answers, overtaken>>
        /\ grant.kind = "share" /\ grant \in ShareRow
    BY <1>1, <1>3, <1>10 DEF RecordScan, At, Finish, Looked, GrantKinds
  <2>2. CASE UNCHANGED <<grant, late>>
    BY <1>2, <1>5, <2>1, <2>2 DEF grantVars
  <2>3. CASE ~UNCHANGED <<grant, late>>
    <3>1. /\ grant.active /\ (grant.max = Null \/ grant.uses < grant.max)
          /\ grant.uses <= MaxUses
          /\ grant' = [grant EXCEPT !.uses = @ + 1, !.active = ~Spent]
          /\ late' = (late \/ Expired)
      BY <1>10, <2>3 DEF RecordScan
    <3>2. PICK b \in BOOLEAN : b = ~Spent
      OBVIOUS
    <3>3. grant.uses \in 0..MaxUses + 1 /\ grant.max \in {Null} \cup 1..MaxUses
      BY <2>1 DEF ShareRow
    <3>4. PICK n \in 0..MaxUses + 1 : n = grant.uses + 1
      BY <1>2, <3>1, <3>3
    <3>5. grant' = [grant EXCEPT !.uses = n, !.active = b]
      BY <3>1, <3>2, <3>4
    <3>6. /\ grant' \in ShareRow /\ grant'.kind = "share" /\ grant'.uses = n
          /\ grant'.active = b /\ grant'.max = grant.max
      <4>1. PICK g \in ShareRow : g = grant
        BY <2>1
      <4>2. PICK h : h = grant'
        OBVIOUS
      <4>3. h = [g EXCEPT !.uses = n, !.active = b]
        BY <3>5, <4>1, <4>2
      <4>4. h \in ShareRow /\ h.kind = "share" /\ h.uses = n /\ h.active = b /\ h.max = g.max
        BY <4>1, <4>3 DEF ShareRow
      <4> QED BY <4>1, <4>2, <4>4
    <3>7. ends = Null
      BY <1>1, <2>1, <3>1 DEF ShareHonoured
    <3>8. grant.max # Null => n <= grant.max /\ (b => n < grant.max)
      <4>1. ASSUME grant.max # Null
            PROVE  n <= grant.max /\ (b => n < grant.max)
        <5>1. grant.max \in Nat /\ grant.uses \in Nat /\ grant.uses < grant.max
          BY <1>2, <3>1, <3>3, <4>1
        <5>2. b => ~(grant.uses + 1 >= grant.max)
          BY <3>2, <4>1 DEF Spent
        <5> QED BY <3>4, <5>1, <5>2
      <4> QED BY <4>1
    <3>9. ShareHonoured'
      BY <2>1, <3>6, <3>7, <3>8 DEF ShareHonoured
    <3>10. req' \in [Procs -> R] /\ \A q \in Procs : req'[q] = IF q = p THEN Idle ELSE req[q]
      BY <1>1, <1>2, <2>1
    <3>11. GrantKinds' /\ ApprovalHonoured' /\ ChannelHonoured'
      BY <1>1, <1>2, <2>1, <3>6, <3>10 DEF GrantKinds, ApprovalHonoured, ChannelHonoured
    <3>12. LateIsOvertaken'
      BY <1>1, <1>2, <2>1, <3>1, <3>10 DEF LateIsOvertaken, Looked, At, Expired
    <3>13. grant' \in Grants /\ late' \in BOOLEAN
      BY <1>1, <3>1, <3>6 DEF Grants
    <3> QED BY <1>1, <1>4, <2>1, <3>9, <3>10, <3>11, <3>12, <3>13
  <2> QED BY <2>2, <2>3
<1>11. ASSUME RevokeShare
       PROVE  GrantInv'
  <2>1. /\ grant.kind = "share" /\ grant \in ShareRow
        /\ grant' = [grant EXCEPT !.active = FALSE]
        /\ ends' = IF ends = Null THEN grant.uses ELSE ends
        /\ UNCHANGED <<clock, answers, late, overtaken, req>>
    BY <1>3, <1>11 DEF RevokeShare, Is, reqVars
  <2>2. /\ grant' \in ShareRow /\ grant'.kind = "share" /\ grant'.uses = grant.uses
        /\ ~grant'.active /\ grant'.max = grant.max
    BY <2>1, ShareRevoked
  <2>3. ends' \in {Null} \cup Nat
    <3>1. grant.uses \in 0..MaxUses + 1
      BY <2>1 DEF ShareRow
    <3> QED BY <1>1, <1>2, <2>1, <3>1
  <2>4. ShareHonoured'
    BY <1>1, <2>1, <2>2 DEF ShareHonoured
  <2>5. GrantKinds' /\ ApprovalHonoured' /\ ChannelHonoured' /\ LateIsOvertaken'
    BY <1>1, <2>1, <2>2
       DEF GrantKinds, ApprovalHonoured, ChannelHonoured, LateIsOvertaken, Looked, At, Expired
  <2>6. grant' \in Grants
    BY <2>2 DEF Grants
  <2> QED BY <1>1, <1>4, <2>1, <2>3, <2>4, <2>5, <2>6
<1>12. ASSUME ExpireOverdue
       PROVE  GrantInv'
  <2>1. /\ grant.kind = "approval" /\ grant \in ApprovalRow /\ grant.status = "pending"
        /\ grant' = [grant EXCEPT !.status = "expired"]
        /\ UNCHANGED <<clock, ends, answers, late, overtaken, req>>
    BY <1>3, <1>12 DEF ExpireOverdue, Is, reqVars
  <2>2. grant' \in ApprovalRow /\ grant'.kind = "approval" /\ grant'.status = "expired"
    BY <2>1 DEF ApprovalRow
  <2>3. answers = {} /\ \A p \in Procs : ~At(p, "respond", "tell")
    <3>1. answers = {}
      BY <1>1, <2>1 DEF ApprovalHonoured
    <3>2. \A p \in Procs : At(p, "respond", "tell") => req[p].as # "pending"
      BY <1>1 DEF At, R, GrantRequests, Idle
    <3> QED BY <1>1, <2>1, <3>1, <3>2 DEF ApprovalHonoured
  <2>4. ApprovalHonoured'
    BY <2>1, <2>3 DEF ApprovalHonoured, At
  <2>5. GrantKinds' /\ ShareHonoured' /\ ChannelHonoured' /\ LateIsOvertaken'
    BY <1>1, <2>1, <2>2
       DEF GrantKinds, ShareHonoured, ChannelHonoured, LateIsOvertaken, Looked, At, Expired
  <2>6. grant' \in Grants
    BY <2>2 DEF Grants
  <2> QED BY <1>1, <1>4, <2>1, <2>4, <2>5, <2>6
<1>13. ASSUME NEW p \in Procs, RespondBegins(p)
       PROVE  GrantInv'
  <2>1. PICK d \in {"approved", "denied"} : Enter(p, [op |-> "respond", at |-> "write", as |-> d])
    BY <1>13 DEF RespondBegins
  <2>2. PICK r : r = [op |-> "respond", at |-> "write", as |-> d]
    OBVIOUS
  <2>3. r \in R /\ r.op = "respond" /\ r.at = "write"
    BY <2>2 DEF R, GrantRequests
  <2>4. /\ req' = [req EXCEPT ![p] = r] /\ UNCHANGED grantVars
        /\ grant.kind = "approval" /\ ~Expired
    BY <1>13, <2>1, <2>2 DEF RespondBegins, Enter, Is
  <2> QED BY <1>5, <2>3, <2>4
<1>14. ASSUME NEW p \in Procs, RespondIfPending(p)
       PROVE  GrantInv'
  <2>1. /\ req[p].op = "respond" /\ req[p].at = "write" /\ Looked(p)
        /\ UNCHANGED <<clock, ends, answers, overtaken>>
        /\ grant.kind = "approval" /\ grant \in ApprovalRow
    BY <1>1, <1>3, <1>14 DEF RespondIfPending, At, Looked, GrantKinds
  <2>2. CASE grant.status # "pending"
    <3>1. req' = [req EXCEPT ![p] = Idle] /\ UNCHANGED grantVars
      BY <1>14, <2>1, <2>2 DEF RespondIfPending, Finish, grantVars
    <3> QED BY <1>2, <1>5, <3>1
  <2>3. CASE grant.status = "pending"
    <3>1. PICK d \in {"approved", "denied"} : d = req[p].as
      BY <1>1, <2>1 DEF R, GrantRequests, Idle
    <3>2. PICK r : r = [req[p] EXCEPT !.at = "tell"]
      OBVIOUS
    <3>3. r \in R /\ r.op = "respond" /\ r.at = "tell" /\ r.as = d
      BY <1>1, <2>1, <3>1, <3>2 DEF R, GrantRequests, Idle
    <3>4. /\ grant' = [grant EXCEPT !.status = d] /\ late' = Expired
          /\ req' = [req EXCEPT ![p] = r]
      BY <1>14, <2>3, <3>1, <3>2 DEF RespondIfPending, Goto
    <3>5. grant' \in ApprovalRow /\ grant'.kind = "approval" /\ grant'.status = d
      BY <2>1, <3>4 DEF ApprovalRow
    <3>6. req' \in [Procs -> R] /\ \A q \in Procs : req'[q] = IF q = p THEN r ELSE req[q]
      BY <1>1, <3>3, <3>4
    <3>7. answers = {} /\ \A q \in Procs : ~At(q, "respond", "tell")
      <4>1. answers = {}
        BY <1>1, <2>1, <2>3 DEF ApprovalHonoured
      <4>2. \A q \in Procs : At(q, "respond", "tell") => req[q].as # "pending"
        BY <1>1 DEF At, R, GrantRequests, Idle
      <4> QED BY <1>1, <2>1, <2>3, <4>1, <4>2 DEF ApprovalHonoured
    <3>8. ApprovalHonoured'
      BY <2>1, <3>3, <3>5, <3>6, <3>7 DEF ApprovalHonoured, At
    <3>9. GrantKinds' /\ ShareHonoured' /\ ChannelHonoured'
      BY <1>1, <2>1, <3>3, <3>5, <3>6 DEF GrantKinds, ShareHonoured, ChannelHonoured
    <3>10. LateIsOvertaken'
      BY <1>1, <2>1, <3>3, <3>4, <3>6 DEF LateIsOvertaken, Looked, At, Expired
    <3>11. grant' \in Grants /\ late' \in BOOLEAN
      BY <3>4, <3>5 DEF Grants, Expired
    <3> QED BY <1>1, <1>4, <2>1, <3>6, <3>8, <3>9, <3>10, <3>11
  <2> QED BY <2>2, <2>3
<1>15. ASSUME NEW p \in Procs, TellAnswer(p)
       PROVE  GrantInv'
  <2>1. /\ At(p, "respond", "tell") /\ req[p].op = "respond"
        /\ req' = [req EXCEPT ![p] = Idle] /\ answers' = answers \cup {req[p].as}
        /\ UNCHANGED <<grant, clock, ends, late, overtaken>>
    BY <1>15 DEF TellAnswer, At, Finish
  <2>2. /\ grant.kind = "approval" /\ req[p].as = grant.status
        /\ req[p].as \in {"approved", "denied"}
    BY <1>1, <2>1 DEF GrantKinds, ApprovalHonoured, R, GrantRequests, Idle
  <2>3. req' \in [Procs -> R] /\ \A q \in Procs : req'[q] = IF q = p THEN Idle ELSE req[q]
    BY <1>1, <1>2, <2>1
  <2>4. ApprovalHonoured'
    BY <1>1, <1>2, <2>1, <2>2, <2>3 DEF ApprovalHonoured, At
  <2>5. GrantKinds' /\ ShareHonoured' /\ ChannelHonoured' /\ LateIsOvertaken'
    BY <1>1, <1>2, <2>1, <2>3
       DEF GrantKinds, ShareHonoured, ChannelHonoured, LateIsOvertaken, Looked, At, Expired
  <2>6. answers' \subseteq {"approved", "denied"}
    BY <1>1, <2>1, <2>2
  <2> QED BY <1>1, <1>4, <2>1, <2>3, <2>4, <2>5, <2>6
<1>16. ASSUME RevokeChannel \/ ChannelExpiry
       PROVE  GrantInv'
  <2>1. /\ grant.kind = "channel" /\ grant \in ChannelRow
        /\ UNCHANGED <<clock, answers, late, overtaken, req>>
    BY <1>3, <1>16 DEF RevokeChannel, ChannelExpiry, Is, reqVars
  <2>2. PICK s \in {"revoked", "expired"} : grant' = [grant EXCEPT !.status = s]
    BY <1>16 DEF RevokeChannel, ChannelExpiry
  <2>3. grant' \in ChannelRow /\ grant'.kind = "channel" /\ grant'.status = s
    BY <2>1, <2>2 DEF ChannelRow
  <2>4. ChannelHonoured' /\ ends' \in {Null} \cup Nat
    <3>1. CASE RevokeChannel
      <4>1. grant' = [grant EXCEPT !.status = "revoked"] /\ ends' = 0
        BY <3>1 DEF RevokeChannel
      <4>2. grant'.status = "revoked"
        BY <2>1, <4>1 DEF ChannelRow
      <4> QED BY <4>1, <4>2 DEF ChannelHonoured
    <3>2. CASE ChannelExpiry
      <4>1. grant.status = "active" /\ ends' = ends
        BY <3>2 DEF ChannelExpiry
      <4>2. ends = Null
        BY <1>1, <2>1, <4>1 DEF ChannelHonoured
      <4> QED BY <1>1, <4>1, <4>2 DEF ChannelHonoured
    <3> QED BY <1>16, <3>1, <3>2
  <2>5. GrantKinds' /\ ShareHonoured' /\ ApprovalHonoured' /\ LateIsOvertaken'
    BY <1>1, <2>1, <2>3
       DEF GrantKinds, ShareHonoured, ApprovalHonoured, LateIsOvertaken, Looked, At, Expired
  <2>6. grant' \in Grants
    BY <2>3 DEF Grants
  <2> QED BY <1>1, <1>4, <2>1, <2>4, <2>5, <2>6
<1> QED
  BY <1>6, <1>7, <1>8, <1>9, <1>10, <1>11, <1>12, <1>13, <1>14, <1>15, <1>16
     DEF GrantNext, ReachabilityStep, ApprovalStep

\* A new grant is unused and unanswered.
LEMMA GrantInitial ==
    ASSUME ReqInit, GrantInit
    PROVE  GrantInv
<1>1. /\ req = [p \in Procs |-> Idle] /\ ends = Null /\ answers = {}
      /\ late = FALSE /\ overtaken = FALSE /\ clock \in {"none", "ahead", "past"}
  BY DEF ReqInit, GrantInit
<1>2. \A p \in Procs : req[p] = Idle /\ req[p].op = "idle"
  BY <1>1 DEF Idle
<1>3. /\ grant \in ShareRow \/ grant \in ApprovalRow \/ grant \in ChannelRow
      /\ ShareHonoured
  <2>1. ASSUME NEW m \in {Null} \cup 1..MaxUses, grant = Share(m)
        PROVE  grant \in ShareRow /\ ShareHonoured
    <3>1. 0 \in 0..MaxUses + 1
      BY UsesAssumption
    <3>2. grant \in ShareRow
      BY <2>1, <3>1 DEF Share, ShareRow
    <3>3. grant.max = m /\ grant.uses = 0
      BY <2>1 DEF Share
    <3> QED BY <1>1, <2>1, <3>2, <3>3, UsesAssumption DEF ShareHonoured
  <2>2. CASE grant = Approval
    BY <2>2 DEF Approval, ApprovalRow, ShareHonoured
  <2>3. CASE grant = Channel
    BY <2>3 DEF Channel, ChannelRow, ShareHonoured
  <2> QED BY <2>1, <2>2, <2>3 DEF GrantInit
<1>4. GrantKinds /\ ApprovalHonoured /\ ChannelHonoured /\ LateIsOvertaken
  BY <1>1, <1>2 DEF GrantKinds, ApprovalHonoured, ChannelHonoured, LateIsOvertaken, Looked, At, Expired
<1>5. GrantTypeOK
  BY <1>1, <1>3 DEF GrantTypeOK
<1>6. req \in [Procs -> GrantRequests]
  BY <1>1 DEF GrantRequests
<1> QED BY <1>3, <1>4, <1>5, <1>6 DEF GrantInv

-----------------------------------------------------------------------------
(* Business.                                                               *)

\* The rows, and what a request can have in hand.
ApiKeys == [n : 0..MaxKeys, epoch : 0..MaxKeys]
BusinessRows == [status : {"pending", "verified", "rejected"}, key : ApiKeys]
BusinessRequests ==
         {Idle}
    \cup [op: {"verify"}, at: {"set", "log"}, key: ApiKeys]
    \cup [op: {"mint"}, at: {"set"}]
    \cup [op: {"redeem"}, at: {"del", "subscribe"}, by: Users]

\* k was made before the last rejection, or it is the key of a verified row.
OpensUntilRejected(k) ==
    /\ k.epoch <= epoch
    /\ k.epoch = epoch => biz.status = "verified" /\ biz.key = k

\* Every key told, or in hand to be told, opens the business.
KeysOpen ==
    /\ \A k \in toldKeys : OpensUntilRejected(k)
    /\ \A p \in Procs : At(p, "verify", "log") => OpensUntilRejected(req[p].key)
\* The key of a verified business is told or about to be.
KeyIsOut ==
    biz.status = "verified" =>
       \/ biz.key \in toldKeys
       \/ \E p \in Procs : At(p, "verify", "log") /\ req[p].key = biz.key
       \/ deaths > 0

\* Of the requests that read the QR one at most gets to subscribe, unless two
\* read it before either deleted it.
Reads(p) == At(p, "redeem", "del")
Subscribes(p) == At(p, "redeem", "subscribe")
Untaken == takers = {} /\ \A p \in Procs : ~Subscribes(p)
BeingTaken ==
    /\ takers = {} /\ qr = "gone" /\ \A p \in Procs : ~Reads(p)
    /\ \E p \in Procs : \A q \in Procs : Subscribes(q) => q = p
Taken ==
    /\ qr = "gone" /\ \A p \in Procs : ~Reads(p) /\ ~Subscribes(p)
    /\ \E u \in Users : takers = {u}
OneTaker == shared \/ Untaken \/ BeingTaken \/ Taken

\* The invariant of the service.
BusinessInv ==
    /\ req \in [Procs -> BusinessRequests] /\ deaths \in Nat
    /\ biz \in BusinessRows /\ toldKeys \subseteq ApiKeys
    /\ minted \in 0..MaxKeys /\ epoch \in 0..MaxKeys
    /\ qr \in {"none", "live", "gone"} /\ takers \subseteq Users /\ shared \in BOOLEAN
    /\ KeysOpen /\ KeyIsOut /\ OneTaker

\* The invariant includes the properties that are checked.
LEMMA BusinessSafe ==
    ASSUME BusinessInv
    PROVE  BusinessTypeOK /\ HandedOutOnce
<1>1. BusinessTypeOK
  BY DEF BusinessInv, BusinessTypeOK, BusinessRows, ApiKeys
<1>2. \A k \in toldKeys : biz.status = "verified" /\ k.epoch = epoch => Authenticates(k)
  BY DEF BusinessInv, KeysOpen, OpensUntilRejected, Authenticates
<1>3. Cardinality(takers) <= 1 \/ shared
  <2>1. CASE takers = {}
    <3>1. Cardinality({}) = 0
      BY FS_EmptySet
    <3> QED BY <2>1, <3>1
  <2>2. ASSUME NEW u \in Users, takers = {u}
        PROVE  Cardinality(takers) <= 1
    <3>1. Cardinality({u}) = 1
      BY FS_Singleton
    <3> QED BY <2>2, <3>1
  <2> QED BY <2>1, <2>2 DEF BusinessInv, OneTaker, Untaken, BeingTaken, Taken
<1> QED BY <1>1, <1>2, <1>3 DEF HandedOutOnce, BusinessInv, KeyIsOut

\* A redemption that has deleted the QR goes on to subscribe.
LEMMA RedeemRequest ==
    ASSUME NEW r \in BusinessRequests, r.op = "redeem", NEW s, s = [r EXCEPT !.at = "subscribe"]
    PROVE  s \in BusinessRequests /\ s.op = "redeem" /\ s.at = "subscribe"
BY DEF BusinessRequests, Idle

\* Every step of the service keeps its invariant.
LEMMA BusinessKept ==
    ASSUME BusinessInv, [BusinessNext]_<<reqVars, businessVars>>
    PROVE  BusinessInv'
<1> DEFINE R == BusinessRequests
           Rows == BusinessRows
           Keys == ApiKeys
<1>1. /\ req \in [Procs -> R] /\ deaths \in Nat
      /\ biz \in Rows /\ toldKeys \subseteq Keys
      /\ minted \in 0..MaxKeys /\ epoch \in 0..MaxKeys
      /\ qr \in {"none", "live", "gone"} /\ takers \subseteq Users /\ shared \in BOOLEAN
      /\ KeysOpen /\ KeyIsOut /\ OneTaker
  BY DEF BusinessInv
<1>2. /\ Idle \in R /\ Idle.op = "idle"
      /\ \A p \in Procs : At(p, "verify", "log") => req[p].key \in Keys
      /\ \A p \in Procs : At(p, "redeem", "subscribe") => req[p].by \in Users
  BY <1>1 DEF BusinessRequests, Idle, At
<1>3. ASSUME req' \in [Procs -> R], deaths' \in Nat, biz' \in Rows, toldKeys' \subseteq Keys,
             minted' \in 0..MaxKeys, epoch' \in 0..MaxKeys,
             qr' \in {"none", "live", "gone"}, takers' \subseteq Users, shared' \in BOOLEAN,
             KeysOpen', KeyIsOut', OneTaker'
      PROVE  BusinessInv'
  BY <1>3 DEF BusinessInv
<1>4. NoKey \in Keys /\ \A n, e \in 0..MaxKeys : Key(n, e) \in Keys /\ Key(n, e).epoch = e
  BY KeysAssumption DEF NoKey, Key, ApiKeys
<1> HIDE DEF R, Rows, Keys
\* A request that has nothing to do with the QR, or that dies with it.
<1>5. ASSUME NEW p \in Procs, NEW r \in R, req' = [req EXCEPT ![p] = r],
             UNCHANGED <<qr, takers, shared>>, r.op # "redeem"
      PROVE  OneTaker' /\ req' \in [Procs -> R]
  <2>1. req' \in [Procs -> R] /\ \A q \in Procs : req'[q] = IF q = p THEN r ELSE req[q]
    BY <1>1, <1>5
  <2>2. \A q \in Procs : (Reads(q)' => Reads(q)) /\ (Subscribes(q)' => Subscribes(q))
    BY <1>5, <2>1 DEF Reads, Subscribes, At
  <2>3. Untaken => Untaken'
    BY <1>5, <2>2 DEF Untaken
  <2>4. BeingTaken => BeingTaken'
    BY <1>5, <2>2 DEF BeingTaken
  <2>5. Taken => Taken'
    BY <1>5, <2>2 DEF Taken
  <2> QED BY <1>1, <1>5, <2>1, <2>3, <2>4, <2>5 DEF OneTaker
\* A request that neither has nor gets a key.
<1>6. ASSUME NEW p \in Procs, NEW r \in R, req' = [req EXCEPT ![p] = r],
             UNCHANGED <<biz, epoch, toldKeys, deaths>>,
             ~At(p, "verify", "log"), r.op = "verify" => r.at = "set"
      PROVE  KeysOpen' /\ KeyIsOut'
  <2>1. \A q \in Procs : req'[q] = IF q = p THEN r ELSE req[q]
    BY <1>1, <1>6
  <2>2. \A q \in Procs : /\ At(q, "verify", "log")' <=> At(q, "verify", "log")
                         /\ At(q, "verify", "log") => req'[q] = req[q]
    BY <1>6, <2>1 DEF At
  <2>3. KeysOpen'
    BY <1>1, <1>6, <2>2 DEF KeysOpen, OpensUntilRejected
  <2>4. KeyIsOut'
    BY <1>1, <1>6, <2>2 DEF KeyIsOut
  <2> QED BY <2>3, <2>4
<1>7. ASSUME UNCHANGED <<reqVars, businessVars>>
      PROVE  BusinessInv'
  <2>1. UNCHANGED <<req, deaths, biz, epoch, minted, toldKeys, qr, takers, shared>>
    BY <1>7 DEF reqVars, businessVars
  <2>2. KeysOpen' /\ KeyIsOut'
    BY <1>1, <2>1 DEF KeysOpen, KeyIsOut, OpensUntilRejected, At
  <2>3. OneTaker'
    BY <1>1, <2>1 DEF OneTaker, Untaken, BeingTaken, Taken, Reads, Subscribes, At
  <2> QED BY <1>1, <1>3, <2>1, <2>2, <2>3
<1>8. ASSUME NEW p \in Procs, VerifyBegins(p)
      PROVE  BusinessInv'
  <2>1. PICK r : r = [op |-> "verify", at |-> "set", key |-> NoKey]
    OBVIOUS
  <2>2. r \in R /\ r.op = "verify" /\ r.at = "set"
    BY <1>4, <2>1 DEF R, Keys, BusinessRequests
  <2>3. /\ req' = [req EXCEPT ![p] = r] /\ req[p] = Idle
        /\ UNCHANGED <<biz, epoch, minted, toldKeys, qr, takers, shared, deaths>>
    BY <1>8, <2>1 DEF VerifyBegins, Enter, businessVars
  <2>4. ~At(p, "verify", "log")
    BY <1>2, <2>3 DEF At
  <2>5. OneTaker' /\ req' \in [Procs -> R]
    BY <1>5, <2>2, <2>3
  <2>6. KeysOpen' /\ KeyIsOut'
    BY <1>6, <2>2, <2>3, <2>4
  <2> QED BY <1>1, <1>3, <2>3, <2>5, <2>6
\* A row that is not verified has no key that opens it: the new one is alone.
<1>9. ASSUME NEW p \in Procs, SetVerified(p)
      PROVE  BusinessInv'
  <2>1. /\ At(p, "verify", "set") /\ req[p].op = "verify" /\ req[p].at = "set"
        /\ UNCHANGED <<epoch, toldKeys, qr, takers, shared>>
    BY <1>9 DEF SetVerified, At, QrUnchanged
  <2>2. ~At(p, "verify", "log")
    BY <2>1 DEF At
  <2>3. CASE biz.status = "verified"
    <3>1. req' = [req EXCEPT ![p] = Idle] /\ UNCHANGED <<biz, minted, deaths>>
      BY <1>9, <2>3 DEF SetVerified, Finish
    <3>2. OneTaker' /\ req' \in [Procs -> R]
      BY <1>2, <1>5, <2>1, <3>1
    <3>3. KeysOpen' /\ KeyIsOut'
      BY <1>2, <1>6, <2>1, <2>2, <3>1
    <3> QED BY <1>1, <1>3, <2>1, <3>1, <3>2, <3>3
  <2>4. CASE biz.status # "verified"
    <3>1. /\ minted < MaxKeys /\ minted' = minted + 1 /\ deaths' = deaths
          /\ biz' = [status |-> "verified", key |-> Key(minted + 1, epoch)]
          /\ req' = [req EXCEPT ![p].at = "log", ![p].key = Key(minted + 1, epoch)]
      BY <1>9, <2>4 DEF SetVerified, SetsKey
    <3>2. minted + 1 \in 0..MaxKeys
      BY <1>1, <3>1, OneMore, KeysAssumption
    <3>3. PICK k \in Keys : k = Key(minted + 1, epoch) /\ k.epoch = epoch
      BY <1>1, <1>4, <3>2
    <3>4. PICK q \in R : q = req[p]
      BY <1>1
    <3>5. PICK r : r = [q EXCEPT !.at = "log", !.key = k]
      OBVIOUS
    <3>6. r \in R /\ r.op = "verify" /\ r.at = "log" /\ r.key = k
      <4>1. q \in [op: {"verify"}, at: {"set", "log"}, key: ApiKeys]
        BY <2>1, <3>4 DEF R, BusinessRequests, Idle
      <4>2. r \in [op: {"verify"}, at: {"log"}, key: {k}]
        BY <3>5, <4>1
      <4> QED BY <4>2 DEF R, Keys, BusinessRequests
    <3>7. req' = [req EXCEPT ![p] = r]
      BY <1>1, <3>1, <3>3, <3>4, <3>5
    <3>8. biz' = [status |-> "verified", key |-> k]
      BY <3>1, <3>3
    <3>9. biz' \in Rows /\ biz'.status = "verified" /\ biz'.key = k
      BY <3>8 DEF Rows, Keys, BusinessRows
    <3>10. OneTaker' /\ req' \in [Procs -> R]
      BY <1>5, <2>1, <3>6, <3>7
    <3>11. \A o \in Procs : req'[o] = IF o = p THEN r ELSE req[o]
      BY <1>1, <3>7
    <3>12. KeyIsOut'
      BY <3>6, <3>9, <3>11 DEF KeyIsOut, At
    <3>13. \A j \in toldKeys : j.epoch <= epoch /\ j.epoch # epoch
      BY <1>1, <2>4 DEF KeysOpen, OpensUntilRejected
    <3>14. \A o \in Procs : At(o, "verify", "log") =>
              req[o].key.epoch <= epoch /\ req[o].key.epoch # epoch
      BY <1>1, <2>4 DEF KeysOpen, OpensUntilRejected
    <3>15. \A j \in toldKeys' : OpensUntilRejected(j)'
      BY <2>1, <3>13 DEF OpensUntilRejected
    <3>16. ASSUME NEW o \in Procs, At(o, "verify", "log")'
           PROVE  OpensUntilRejected(req[o].key)'
      <4>1. CASE o = p
        <5>1. req'[o].key = k /\ epoch <= epoch
          BY <1>1, <3>6, <3>11, <4>1
        <5> QED BY <2>1, <3>3, <3>9, <5>1 DEF OpensUntilRejected
      <4>2. CASE o # p
        <5>1. req'[o] = req[o] /\ At(o, "verify", "log")
          BY <3>11, <3>16, <4>2 DEF At
        <5> QED BY <2>1, <3>14, <5>1 DEF OpensUntilRejected
      <4> QED BY <4>1, <4>2
    <3>17. KeysOpen'
      BY <3>15, <3>16 DEF KeysOpen
    <3>18. minted' \in 0..MaxKeys
      BY <3>1, <3>2
    <3> QED BY <1>1, <1>3, <2>1, <3>1, <3>9, <3>10, <3>12, <3>17, <3>18
  <2> QED BY <2>3, <2>4
<1>10. ASSUME NEW p \in Procs, HandOverKey(p)
       PROVE  BusinessInv'
  <2>1. /\ At(p, "verify", "log") /\ toldKeys' = toldKeys \cup {req[p].key}
        /\ req' = [req EXCEPT ![p] = Idle]
        /\ UNCHANGED <<biz, epoch, minted, qr, takers, shared, deaths>>
    BY <1>10 DEF HandOverKey, Finish, QrUnchanged
  <2>2. OneTaker' /\ req' \in [Procs -> R]
    BY <1>2, <1>5, <2>1
  <2>3. \A q \in Procs : req'[q] = IF q = p THEN Idle ELSE req[q]
    BY <1>1, <2>1
  <2>4. \A q \in Procs : /\ At(q, "verify", "log")' => q # p /\ At(q, "verify", "log")
                         /\ At(q, "verify", "log") /\ q # p => At(q, "verify", "log")'
                         /\ q # p => req'[q] = req[q]
    BY <1>2, <2>3 DEF At
  <2>5. \A k \in toldKeys' : OpensUntilRejected(k)
    BY <1>1, <2>1 DEF KeysOpen
  <2>6. KeysOpen'
    BY <1>1, <2>1, <2>4, <2>5 DEF KeysOpen, OpensUntilRejected
  <2>7. KeyIsOut'
    BY <1>1, <2>1, <2>4 DEF KeyIsOut
  <2>8. toldKeys' \subseteq Keys
    BY <1>1, <1>2, <2>1
  <2> QED BY <1>1, <1>3, <2>1, <2>2, <2>6, <2>7, <2>8
<1>11. ASSUME RejectBusiness
       PROVE  BusinessInv'
  <2>1. /\ epoch < MaxKeys /\ epoch' = epoch + 1
        /\ biz' = [biz EXCEPT !.status = "rejected"]
        /\ UNCHANGED <<minted, toldKeys, req, deaths, qr, takers, shared>>
    BY <1>11 DEF RejectBusiness, reqVars, QrUnchanged
  <2>2. biz' \in Rows /\ biz'.status = "rejected"
    BY <1>1, <2>1 DEF Rows, BusinessRows
  <2>3. epoch' \in 0..MaxKeys
    BY <1>1, <2>1, OneMore, KeysAssumption
  <2>4. \A k \in Keys : k.epoch \in Nat
    BY DEF Keys, ApiKeys
  <2>5. \A k \in Keys : k.epoch <= epoch => k.epoch <= epoch' /\ k.epoch # epoch'
    <3>1. ASSUME NEW n \in Nat, NEW m \in Nat, n <= m
          PROVE  n <= m + 1 /\ n # m + 1
      BY <3>1
    <3> QED BY <1>1, <2>1, <2>4, <3>1
  <2>6. \A k \in toldKeys : k \in Keys /\ k.epoch <= epoch
    BY <1>1 DEF KeysOpen, OpensUntilRejected
  <2>7. \A p \in Procs : At(p, "verify", "log") =>
           req[p].key \in Keys /\ req[p].key.epoch <= epoch
    BY <1>1, <1>2 DEF KeysOpen, OpensUntilRejected
  <2>8. KeysOpen'
    BY <2>1, <2>5, <2>6, <2>7 DEF KeysOpen, OpensUntilRejected, At
  <2>9. KeyIsOut'
    BY <2>2 DEF KeyIsOut
  <2>10. OneTaker'
    BY <1>1, <2>1 DEF OneTaker, Untaken, BeingTaken, Taken, Reads, Subscribes, At
  <2> QED BY <1>1, <1>3, <2>1, <2>2, <2>3, <2>8, <2>9, <2>10
<1>12. ASSUME NEW p \in Procs, MintCounterQr(p)
       PROVE  BusinessInv'
  <2>1. UNCHANGED <<biz, epoch, minted, toldKeys, takers, shared>>
    BY <1>12 DEF MintCounterQr
  <2>2. PICK r : r = [op |-> "mint", at |-> "set"]
    OBVIOUS
  <2>3. r \in R /\ r.op = "mint"
    BY <2>2 DEF R, BusinessRequests
  <2>4. CASE Enter(p, [op |-> "mint", at |-> "set"]) /\ UNCHANGED qr
    <3>1. req' = [req EXCEPT ![p] = r] /\ req[p] = Idle /\ UNCHANGED <<deaths, qr>>
      BY <2>2, <2>4 DEF Enter
    <3>2. OneTaker' /\ req' \in [Procs -> R]
      BY <1>5, <2>1, <2>3, <3>1
    <3>3. ~At(p, "verify", "log")
      BY <1>2, <3>1 DEF At
    <3>4. KeysOpen' /\ KeyIsOut'
      BY <1>6, <2>1, <2>3, <3>1, <3>3
    <3> QED BY <1>1, <1>3, <2>1, <3>1, <3>2, <3>4
  <2>5. CASE At(p, "mint", "set") /\ qr' = (IF qr = "none" THEN "live" ELSE qr) /\ Finish(p)
    <3>1. req' = [req EXCEPT ![p] = Idle] /\ UNCHANGED deaths /\ ~At(p, "verify", "log")
      BY <2>5 DEF Finish, At
    <3>2. KeysOpen' /\ KeyIsOut'
      BY <1>2, <1>6, <2>1, <3>1
    <3>3. req' \in [Procs -> R] /\ \A q \in Procs : req'[q] = IF q = p THEN Idle ELSE req[q]
      BY <1>1, <1>2, <3>1
    <3>4. \A q \in Procs : (Reads(q)' => Reads(q)) /\ (Subscribes(q)' => Subscribes(q))
      BY <1>2, <3>3 DEF Reads, Subscribes, At
    <3>5. qr = "gone" => qr' = "gone"
      BY <2>5
    <3>6. (Untaken => Untaken') /\ (BeingTaken => BeingTaken') /\ (Taken => Taken')
      BY <2>1, <3>4, <3>5 DEF Untaken, BeingTaken, Taken
    <3>7. qr' \in {"none", "live", "gone"}
      BY <1>1, <2>5
    <3>8. OneTaker'
      BY <1>1, <2>1, <3>6 DEF OneTaker
    <3> QED BY <1>1, <1>3, <2>1, <3>1, <3>2, <3>3, <3>7, <3>8
  <2> QED BY <1>12, <2>4, <2>5 DEF MintCounterQr
<1>13. ASSUME NEW p \in Procs, ReadCounterQr(p)
       PROVE  BusinessInv'
  <2>1. PICK u \in Users : Enter(p, [op |-> "redeem", at |-> "del", by |-> u])
    BY <1>13 DEF ReadCounterQr
  <2>2. PICK r : r = [op |-> "redeem", at |-> "del", by |-> u]
    OBVIOUS
  <2>3. r \in R /\ r.op = "redeem" /\ r.at = "del"
    BY <2>2 DEF R, BusinessRequests
  <2>4. /\ req' = [req EXCEPT ![p] = r] /\ req[p] = Idle /\ qr = "live"
        /\ UNCHANGED <<deaths, biz, epoch, minted, toldKeys, qr, takers, shared>>
    BY <1>13, <2>1, <2>2 DEF ReadCounterQr, Enter, businessVars
  <2>5. ~At(p, "verify", "log")
    BY <1>2, <2>4 DEF At
  <2>6. KeysOpen' /\ KeyIsOut'
    BY <1>6, <2>3, <2>4, <2>5
  <2>7. req' \in [Procs -> R] /\ \A q \in Procs : req'[q] = IF q = p THEN r ELSE req[q]
    BY <1>1, <2>3, <2>4
  <2>8. shared \/ Untaken
    BY <1>1, <2>4 DEF OneTaker, BeingTaken, Taken
  <2>9. Untaken => Untaken'
    BY <2>3, <2>4, <2>7 DEF Untaken, Subscribes, At
  <2>10. OneTaker'
    BY <2>4, <2>8, <2>9 DEF OneTaker
  <2> QED BY <1>1, <1>3, <2>4, <2>6, <2>7, <2>10
\* The first to delete the QR is the one to subscribe, unless another read it too.
<1>14. ASSUME NEW p \in Procs, DeleteCounterQr(p)
       PROVE  BusinessInv'
  <2>1. /\ Reads(p) /\ req[p].op = "redeem" /\ qr' = "gone"
        /\ shared' = (shared \/ \E q \in Procs \ {p} : Reads(q))
        /\ req' = [req EXCEPT ![p].at = "subscribe"]
        /\ UNCHANGED <<deaths, biz, epoch, minted, toldKeys, takers>>
    BY <1>14 DEF DeleteCounterQr, Goto, At, Reads
  <2>2. PICK q \in R : q = req[p]
    BY <1>1
  <2>3. PICK r : r = [q EXCEPT !.at = "subscribe"]
    OBVIOUS
  <2>4. r \in R /\ r.op = "redeem" /\ r.at = "subscribe"
    BY <2>1, <2>2, <2>3, RedeemRequest DEF R
  <2>5. req' = [req EXCEPT ![p] = r]
    BY <1>1, <2>1, <2>2, <2>3
  <2>6. req' \in [Procs -> R] /\ \A o \in Procs : req'[o] = IF o = p THEN r ELSE req[o]
    BY <1>1, <2>4, <2>5
  <2>7. KeysOpen' /\ KeyIsOut'
    <3>1. ~At(p, "verify", "log")
      BY <2>1 DEF At
    <3> QED BY <1>6, <2>1, <2>4, <2>5, <3>1
  <2>8. ASSUME ~shared, \A o \in Procs \ {p} : ~Reads(o)
        PROVE  BeingTaken'
    <3>1. Untaken
      BY <1>1, <2>1, <2>8 DEF OneTaker, BeingTaken, Taken
    <3>2. \A o \in Procs : ~Reads(o)'
      BY <2>4, <2>6, <2>8 DEF Reads, At
    <3>3. \A o \in Procs : Subscribes(o)' => o = p
      BY <2>6, <3>1 DEF Untaken, Subscribes, At
    <3> QED BY <2>1, <3>1, <3>2, <3>3 DEF BeingTaken, Untaken
  <2>9. OneTaker'
    BY <2>1, <2>8 DEF OneTaker
  <2>10. shared' \in BOOLEAN
    BY <2>1
  <2> QED BY <1>1, <1>3, <2>1, <2>6, <2>7, <2>9, <2>10
<1>15. ASSUME NEW p \in Procs, SubscribeCounterQr(p)
       PROVE  BusinessInv'
  <2>1. /\ Subscribes(p) /\ req[p].op = "redeem" /\ req' = [req EXCEPT ![p] = Idle]
        /\ takers' \in {takers, takers \cup {req[p].by}}
        /\ UNCHANGED <<deaths, biz, epoch, minted, toldKeys, qr, shared>>
    BY <1>15 DEF SubscribeCounterQr, Finish, At, Subscribes
  <2>2. PICK u \in Users : u = req[p].by
    BY <1>2, <2>1 DEF Subscribes
  <2>3. takers' \subseteq Users
    BY <1>1, <2>1, <2>2
  <2>4. req' \in [Procs -> R] /\ \A q \in Procs : req'[q] = IF q = p THEN Idle ELSE req[q]
    BY <1>1, <1>2, <2>1
  <2>5. KeysOpen' /\ KeyIsOut'
    <3>1. ~At(p, "verify", "log")
      BY <2>1 DEF At
    <3> QED BY <1>2, <1>6, <2>1, <3>1
  <2>6. ASSUME ~shared
        PROVE  Untaken' \/ Taken'
    <3>1. BeingTaken
      BY <1>1, <2>1, <2>6 DEF OneTaker, Untaken, Taken
    <3>2. PICK o \in Procs : \A q \in Procs : Subscribes(q) => q = o
      BY <3>1 DEF BeingTaken
    <3>3. o = p
      BY <2>1, <3>2
    <3>4. \A q \in Procs : ~Reads(q)' /\ ~Subscribes(q)'
      BY <1>2, <2>4, <3>1, <3>2, <3>3 DEF BeingTaken, Reads, Subscribes, At
    <3>5. takers' = {} \/ takers' = {u}
      BY <2>1, <2>2, <3>1 DEF BeingTaken
    <3> QED BY <2>1, <3>1, <3>4, <3>5 DEF Untaken, Taken, BeingTaken
  <2>7. OneTaker'
    BY <2>1, <2>6 DEF OneTaker
  <2> QED BY <1>1, <1>3, <2>1, <2>3, <2>4, <2>5, <2>7
<1>16. ASSUME CounterQrExpires
       PROVE  BusinessInv'
  <2>1. /\ qr = "live" /\ qr' = "gone"
        /\ UNCHANGED <<req, deaths, biz, epoch, minted, toldKeys, takers, shared>>
    BY <1>16 DEF CounterQrExpires, reqVars
  <2>2. KeysOpen' /\ KeyIsOut'
    BY <1>1, <2>1 DEF KeysOpen, KeyIsOut, OpensUntilRejected, At
  <2>3. shared \/ Untaken
    BY <1>1, <2>1 DEF OneTaker, BeingTaken, Taken
  <2>4. OneTaker'
    BY <2>1, <2>3 DEF OneTaker, Untaken, Subscribes, At
  <2> QED BY <1>1, <1>3, <2>1, <2>2, <2>4
\* Who dies with a key in hand is why the key is lost.
<1>17. ASSUME NEW p \in Procs, BusinessDie(p)
       PROVE  BusinessInv'
  <2>1. /\ req' = [req EXCEPT ![p] = Idle] /\ deaths' = deaths + 1
        /\ UNCHANGED <<biz, epoch, minted, toldKeys, qr, takers, shared>>
    BY <1>17 DEF BusinessDie, Die, businessVars
  <2>2. OneTaker' /\ req' \in [Procs -> R]
    BY <1>2, <1>5, <2>1
  <2>3. deaths' \in Nat /\ deaths' > 0
    BY <1>1, <2>1
  <2>4. KeyIsOut'
    BY <2>3 DEF KeyIsOut
  <2>5. \A q \in Procs : req'[q] = IF q = p THEN Idle ELSE req[q]
    BY <1>1, <2>1
  <2>6. \A q \in Procs : At(q, "verify", "log")' => At(q, "verify", "log") /\ req'[q] = req[q]
    BY <1>2, <2>5 DEF At
  <2>7. KeysOpen'
    BY <1>1, <2>1, <2>6 DEF KeysOpen, OpensUntilRejected
  <2> QED BY <1>1, <1>3, <2>1, <2>2, <2>3, <2>4, <2>7
<1> QED
  BY <1>7, <1>8, <1>9, <1>10, <1>11, <1>12, <1>13, <1>14, <1>15, <1>16, <1>17
     DEF BusinessNext

\* A new business has no key.
LEMMA BusinessInitial ==
    ASSUME ReqInit, BusinessInit
    PROVE  BusinessInv
<1>1. /\ req = [p \in Procs |-> Idle] /\ deaths = 0
      /\ biz = [status |-> "pending", key |-> NoKey]
      /\ epoch = 0 /\ minted = 0 /\ toldKeys = {}
      /\ qr = "none" /\ takers = {} /\ shared = FALSE
  BY DEF ReqInit, BusinessInit
<1>2. \A p \in Procs : req[p] = Idle /\ req[p].op = "idle"
  BY <1>1 DEF Idle
<1>3. 0 \in 0..MaxKeys
  BY KeysAssumption
<1>4. biz \in BusinessRows /\ biz.status = "pending"
  BY <1>1, <1>3 DEF BusinessRows, ApiKeys, NoKey, Key
<1>5. req \in [Procs -> BusinessRequests]
  BY <1>1 DEF BusinessRequests
<1>6. KeysOpen /\ KeyIsOut
  BY <1>1, <1>2, <1>4 DEF KeysOpen, KeyIsOut, At
<1>7. OneTaker
  BY <1>1, <1>2 DEF OneTaker, Untaken, Subscribes, At
<1> QED BY <1>1, <1>3, <1>4, <1>5, <1>6, <1>7 DEF BusinessInv

-----------------------------------------------------------------------------
(* Delivery.                                                               *)

\* The rows, and what a request can have in hand.
MessageRows ==
    [by : {"broadcast", "schedule"}, status : MessageStatuses, total : Nat, delivered : Nat]
DeliveryRows == [Users -> DeliveryStatuses]
PushCounts == [Users -> {0, 1}]

Creates == [op: {"broadcast"}, at: {"create"}, id: {0}, todo: SUBSET Users, ok: {0}, failed: {0}]
Fans == [op: {"broadcast", "deliver"}, at: {"rows", "who", "pending", "push", "final"}, id: Nat,
         todo: SUBSET Users, ok: Nat, failed: Nat]
Marks == [op: {"deliver"}, at: {"mark"}, id: Nat, todo: SUBSET Users, ok: Nat, failed: Nat,
          user: Users, reached: BOOLEAN]
DeliveryRequests == {Idle} \cup Creates \cup Fans \cup Marks

\* The request r has a message, which the rows d and the calls c are of.
HasMessage(r) == r.op = "deliver" \/ (r.op = "broadcast" /\ r.at # "create")
Fresh(d, c) == \A u \in Users : d[u] = "none" /\ c[u] = 0
Got(d, s, todo) == {u \in Users \ todo : d[u] = s}

\* Before it writes rows there are none; then it has the devices of todo still
\* to call, and the counts and calls of everyone else.
Midway(r, d, c) ==
    /\ \A u \in r.todo : d[u] = IF r.op = "broadcast" THEN "delivered" ELSE "pending"
    /\ \A u \in r.todo : c[u] = IF r.at = "mark" /\ u = r.user THEN 1 ELSE 0
    /\ \A u \in Users \ r.todo : /\ d[u] \in {"none", "delivered", "failed"}
                                 /\ d[u] # "none" <=> c[u] = 1
    /\ r.ok = Cardinality(Got(d, "delivered", r.todo))
    /\ r.failed = Cardinality(Got(d, "failed", r.todo))
    /\ r.at = "mark" => r.user \in r.todo
    /\ r.at = "final" => r.todo = {}
Progress(r, d, c) ==
    \/ r.at \in {"rows", "who", "pending"} /\ Fresh(d, c) /\ r.ok = 0 /\ r.failed = 0
    \/ r.at \in {"push", "mark", "final"} /\ Midway(r, d, c)

\* What the row w of a finished message says of its rows and calls.
Reported(w, d, c) ==
    /\ w.total = Cardinality({u \in Users : d[u] # "none"})
    /\ w.delivered = Cardinality({u \in Users : d[u] = "delivered"})
    /\ \A u \in Users : d[u] # "none" <=> c[u] = 1

\* A message that is queued or being sent is one request's at most.
Alone ==
    \A p \in Procs : HasMessage(req[p]) =>
       /\ req[p].id \in 1..Len(message)
       /\ req[p].op = "broadcast" => /\ message[req[p].id].status = "queued"
                                     /\ message[req[p].id].by = "broadcast"
       /\ req[p].op = "deliver" => message[req[p].id].status = "sending"
       /\ \A q \in Procs : HasMessage(req[q]) /\ req[q].id = req[p].id => q = p
\* The progress of a request is that of its message.
EachUnderway ==
    \A p \in Procs : HasMessage(req[p]) =>
       Progress(req[p], delivery[req[p].id], pushes[req[p].id])
\* A message not yet claimed is untouched, a finished one says what happened.
EachMessage ==
    \A m \in 1..Len(message) :
       /\ message[m].status = "due" => Fresh(delivery[m], pushes[m])
       /\ message[m].status \in {"sent", "failed"} => Reported(message[m], delivery[m], pushes[m])

\* Nobody but the crowded has two jobs on their way, and nobody at his limit one.
ScheduledTo(u) ==
    {m \in 1..Len(message) : message[m].by = "schedule" /\ delivery[m][u] = "delivered"}
OnTheWay(p, u) == req[p].op = "deliver" /\ u \in req[p].todo
LimitKept ==
    \A u \in Users \ crowded :
       /\ Cardinality(ScheduledTo(u)) <= DailyLimit
       /\ \A p \in Procs : OnTheWay(p, u) =>
             /\ Cardinality(ScheduledTo(u)) < DailyLimit
             /\ \A q \in Procs : OnTheWay(q, u) => q = p

\* The invariant of the service.
DeliveryInv ==
    /\ req \in [Procs -> DeliveryRequests]
    /\ sub \in [Users -> SubStatuses] /\ blockers \subseteq Users
    /\ crowded \subseteq Users /\ changes \in 0..MaxChanges
    /\ message \in Seq(MessageRows) /\ delivery \in Seq(DeliveryRows) /\ pushes \in Seq(PushCounts)
    /\ Len(delivery) = Len(message) /\ Len(pushes) = Len(message)
    /\ Alone /\ EachUnderway /\ EachMessage /\ LimitKept

\* The invariant includes the properties that are checked.
LEMMA DeliverySafe ==
    ASSUME DeliveryInv
    PROVE  DeliveryTypeOK /\ ReportIsTrue
<1>1. /\ message \in Seq(MessageRows) /\ delivery \in Seq(DeliveryRows) /\ pushes \in Seq(PushCounts)
      /\ Len(delivery) = Len(message) /\ Len(pushes) = Len(message)
      /\ EachMessage /\ LimitKept
  BY DEF DeliveryInv
<1>2. Mids = 1..Len(message)
  BY <1>1 DEF Mids
<1>3. \A m \in Mids : /\ message[m] \in MessageRows /\ delivery[m] \in DeliveryRows
                      /\ pushes[m] \in PushCounts
  BY <1>1, <1>2, ElementOfSeq
<1>4. DeliveryTypeOK
  <2>1. \A w \in MessageRows : w.status \in MessageStatuses
    BY DEF MessageRows
  <2>2. \A m \in Mids : message[m].status \in MessageStatuses
                        /\ delivery[m] \in [Users -> DeliveryStatuses]
    BY <1>3, <2>1 DEF DeliveryRows
  <2> QED BY <2>2 DEF DeliveryTypeOK, DeliveryInv
<1>5. \A m \in Mids, u \in Users : pushes[m][u] <= 1
  <2>1. \A m \in Mids, u \in Users : pushes[m][u] \in {0, 1}
    BY <1>3 DEF PushCounts
  <2>2. \A n \in {0, 1} : n <= 1
    OBVIOUS
  <2> QED BY <2>1, <2>2
<1>6. \A m \in Mids : message[m].status \in {"sent", "failed"} =>
         /\ message[m].total = Cardinality({u \in Users : delivery[m][u] # "none"})
         /\ message[m].delivered = Cardinality({u \in Users : delivery[m][u] = "delivered"})
         /\ \A u \in Users : delivery[m][u] # "none" <=> pushes[m][u] = 1
  BY <1>1, <1>2 DEF EachMessage, Reported
<1>7. \A u \in Users \ crowded :
         Cardinality({m \in Mids : message[m].by = "schedule" /\ delivery[m][u] = "delivered"})
            <= DailyLimit
  BY <1>1, <1>2 DEF LimitKept, ScheduledTo
<1> QED BY <1>4, <1>5, <1>6, <1>7 DEF ReportIsTrue

\* The receivers of one kind can be counted.
LEMMA GotIsFinite ==
    ASSUME NEW d, NEW s, NEW todo
    PROVE  IsFiniteSet(Got(d, s, todo)) /\ Cardinality(Got(d, s, todo)) \in Nat
<1>1. Got(d, s, todo) \subseteq Users
  BY DEF Got
<1> QED BY <1>1, UsersAssumption, FS_Subset, FS_CardinalityType

\* The rows of a message are written, all at once.
LEMMA RowsWritten ==
    ASSUME NEW s, NEW d, NEW c, NEW st, NEW d2,
           Fresh(d, c), s.todo \subseteq Users, s.at = "push", s.ok = 0, s.failed = 0,
           s.op = "broadcast" => st = "delivered", s.op # "broadcast" => st = "pending",
           d2 = [u \in Users |-> IF u \in s.todo THEN st ELSE d[u]]
    PROVE  Progress(s, d2, c)
<1>1. \A u \in Users : d2[u] = IF u \in s.todo THEN st ELSE "none"
  BY DEF Fresh
<1>2. \A u \in Users : c[u] = 0
  BY DEF Fresh
<1>3. Got(d2, "delivered", s.todo) = {} /\ Got(d2, "failed", s.todo) = {}
  BY <1>1 DEF Got
<1>4. Cardinality({}) = 0
  BY FS_EmptySet
<1>5. Midway(s, d2, c)
  BY <1>1, <1>2, <1>3, <1>4 DEF Midway
<1> QED BY <1>5 DEF Progress

\* A message for nobody is done with no row and no call.
LEMMA NobodyToReach ==
    ASSUME NEW s, NEW d, NEW c, Fresh(d, c),
           s.todo = {}, s.at = "final", s.ok = 0, s.failed = 0
    PROVE  Progress(s, d, c)
<1>1. Got(d, "delivered", {}) = {} /\ Got(d, "failed", {}) = {}
  BY DEF Got, Fresh
<1>2. Cardinality({}) = 0
  BY FS_EmptySet
<1>3. Midway(s, d, c)
  BY <1>1, <1>2 DEF Midway, Fresh
<1> QED BY <1>3 DEF Progress

\* The worker has called one subscriber's devices, and not written the outcome.
LEMMA OneCalled ==
    ASSUME NEW r, NEW s, NEW d, NEW c, NEW c2, NEW u \in r.todo, Midway(r, d, c),
           r.todo \subseteq Users, r.at = "push", s.at = "mark", s.user = u, s.op = r.op,
           s.todo = r.todo, s.ok = r.ok, s.failed = r.failed,
           \A v \in Users : v # u => c2[v] = c[v], c2[u] = 1
    PROVE  Progress(s, d, c2)
<1>1. \A v \in s.todo : v \in Users
  OBVIOUS
<1>2. Midway(s, d, c2)
  BY <1>1 DEF Midway
<1> QED BY <1>2 DEF Progress

\* One subscriber's row has its outcome and the subscriber was called: the
\* counts take one more.
LEMMA OneReached ==
    ASSUME NEW r, NEW s, NEW d, NEW c, NEW d2, NEW c2, NEW u \in r.todo, NEW st \in {"delivered", "failed"},
           Midway(r, d, c), r.todo \subseteq Users,
           d2 \in [Users -> DeliveryStatuses], c2 \in [Users -> {0, 1}],
           \A v \in Users : v # u => d2[v] = d[v] /\ c2[v] = c[v],
           d2[u] = st, c2[u] = 1,
           r.at = "mark" => r.user = u,
           s.op = r.op, s.todo = r.todo \ {u},
           s.at = "push" \/ (s.at = "final" /\ s.todo = {}),
           st = "delivered" => s.ok = r.ok + 1 /\ s.failed = r.failed,
           st = "failed" => s.ok = r.ok /\ s.failed = r.failed + 1
    PROVE  Progress(s, d2, c2)
<1>1. /\ \A v \in s.todo : v \in r.todo /\ v # u /\ v \in Users
      /\ \A v \in Users \ s.todo : v = u \/ v \in Users \ r.todo
      /\ u \in Users
  OBVIOUS
<1>2. \A v \in s.todo : d2[v] = IF s.op = "broadcast" THEN "delivered" ELSE "pending"
  BY <1>1 DEF Midway
<1>3. \A v \in s.todo : c2[v] = 0
  BY <1>1 DEF Midway
<1>4. \A v \in Users \ s.todo : /\ d2[v] \in {"none", "delivered", "failed"}
                                /\ d2[v] # "none" <=> c2[v] = 1
  BY <1>1 DEF Midway
<1>5. /\ Got(d2, st, s.todo) = Got(d, st, r.todo) \cup {u}
      /\ u \notin Got(d, st, r.todo)
      /\ \A o : o # st => Got(d2, o, s.todo) = Got(d, o, r.todo)
  BY <1>1 DEF Got
<1>6. Cardinality(Got(d2, st, s.todo)) = Cardinality(Got(d, st, r.todo)) + 1
  <2>1. PICK g : g = Got(d, st, r.todo)
    OBVIOUS
  <2>2. IsFiniteSet(g) /\ u \notin g
    BY <1>5, <2>1, GotIsFinite
  <2>3. Cardinality(g \cup {u}) = Cardinality(g) + 1
    BY <2>2, FS_AddElement
  <2> QED BY <1>5, <2>1, <2>3
<1>7. /\ r.ok = Cardinality(Got(d, "delivered", r.todo))
      /\ r.failed = Cardinality(Got(d, "failed", r.todo))
  BY DEF Midway
<1>8. /\ s.ok = Cardinality(Got(d2, "delivered", s.todo))
      /\ s.failed = Cardinality(Got(d2, "failed", s.todo))
  <2>1. CASE st = "delivered"
    BY <1>5, <1>6, <1>7, <2>1
  <2>2. CASE st = "failed"
    BY <1>5, <1>6, <1>7, <2>2
  <2> QED BY <2>1, <2>2
<1>9. Midway(s, d2, c2)
  BY <1>2, <1>3, <1>4, <1>8 DEF Midway
<1> QED BY <1>9 DEF Progress

\* Everyone was called: the counts are those of the rows.
LEMMA AllReached ==
    ASSUME NEW r, NEW d, NEW c, NEW w, Midway(r, d, c), r.todo = {},
           w.total = r.ok + r.failed, w.delivered = r.ok
    PROVE  Reported(w, d, c)
<1>1. /\ Got(d, "delivered", {}) = {u \in Users : d[u] = "delivered"}
      /\ Got(d, "delivered", {}) \cup Got(d, "failed", {}) = {u \in Users : d[u] # "none"}
      /\ Got(d, "delivered", {}) \cap Got(d, "failed", {}) = {}
  BY DEF Got, Midway
<1>2. Cardinality(Got(d, "delivered", {}) \cup Got(d, "failed", {}))
         = Cardinality(Got(d, "delivered", {})) + Cardinality(Got(d, "failed", {})) - Cardinality({})
  BY <1>1, GotIsFinite, FS_Union
<1>3. Cardinality({}) = 0
  BY FS_EmptySet
<1>4. /\ r.ok = Cardinality(Got(d, "delivered", {})) /\ r.failed = Cardinality(Got(d, "failed", {}))
      /\ Cardinality(Got(d, "delivered", {})) \in Nat /\ Cardinality(Got(d, "failed", {})) \in Nat
  BY GotIsFinite DEF Midway
<1>5. w.total = Cardinality({u \in Users : d[u] # "none"})
  <2>1. PICK a \in Nat, b \in Nat :
           /\ a = Cardinality(Got(d, "delivered", {})) /\ b = Cardinality(Got(d, "failed", {}))
           /\ Cardinality({u \in Users : d[u] # "none"}) = a + b - Cardinality({})
    BY <1>1, <1>2, <1>4
  <2>2. a + b - 0 = a + b
    OBVIOUS
  <2>3. w.total = a + b
    BY <1>4, <2>1
  <2> QED BY <1>3, <2>1, <2>2, <2>3
<1>6. \A u \in Users : d[u] # "none" <=> c[u] = 1
  BY DEF Midway
<1> QED BY <1>1, <1>4, <1>5, <1>6 DEF Reported

\* Every step of the service keeps its invariant.
LEMMA DeliveryKept ==
    ASSUME DeliveryInv, [DeliveryNext]_<<reqVars, deliveryVars>>
    PROVE  DeliveryInv'
<1> DEFINE R == DeliveryRequests
           Rows == MessageRows
           D == DeliveryRows
           C == PushCounts
           N == Len(message)
<1>1. /\ req \in [Procs -> R]
      /\ sub \in [Users -> SubStatuses] /\ blockers \subseteq Users
      /\ crowded \subseteq Users /\ changes \in 0..MaxChanges
      /\ message \in Seq(Rows) /\ delivery \in Seq(D) /\ pushes \in Seq(C)
      /\ Len(delivery) = N /\ Len(pushes) = N /\ N \in Nat
      /\ Alone /\ EachUnderway /\ EachMessage /\ LimitKept
  BY DEF DeliveryInv
<1>2. /\ Idle \in R /\ Idle.op = "idle" /\ ~HasMessage(Idle)
      /\ \A m \in 1..N : message[m] \in Rows /\ delivery[m] \in D /\ pushes[m] \in C
  BY <1>1, ElementOfSeq DEF DeliveryRequests, Idle, HasMessage
<1>3. ASSUME req' \in [Procs -> R],
             sub' \in [Users -> SubStatuses], blockers' \subseteq Users,
             crowded' \subseteq Users, changes' \in 0..MaxChanges,
             message' \in Seq(Rows), delivery' \in Seq(D), pushes' \in Seq(C),
             Len(delivery') = Len(message'), Len(pushes') = Len(message'),
             Alone', EachUnderway', EachMessage', LimitKept'
      PROVE  DeliveryInv'
  BY <1>3 DEF DeliveryInv
<1>4. /\ \A d \in D : d \in [Users -> DeliveryStatuses]
      /\ \A c \in C : c \in [Users -> {0, 1}]
      /\ \A w \in Rows : w.by \in {"broadcast", "schedule"}
  BY DEF DeliveryRows, PushCounts, MessageRows
<1> HIDE DEF R, Rows, D, C, N
\* One request moves on.
<1>5. ASSUME NEW p \in Procs, NEW r \in R, req' = [req EXCEPT ![p] = r]
      PROVE  /\ req' \in [Procs -> R]
             /\ \A q \in Procs : req'[q] = IF q = p THEN r ELSE req[q]
  BY <1>1, <1>5
\* ... and has no message: the others go on with theirs.
<1>6. ASSUME NEW p \in Procs, NEW r \in R, req' = [req EXCEPT ![p] = r], ~HasMessage(r),
             UNCHANGED <<message, delivery, pushes>>
      PROVE  Alone' /\ EachUnderway' /\ EachMessage'
  <2>1. \A q \in Procs : req'[q] = IF q = p THEN r ELSE req[q]
    BY <1>5, <1>6
  <2>2. \A q \in Procs : HasMessage(req'[q]) => req'[q] = req[q]
    BY <1>6, <2>1
  <2>3. Alone'
    BY <1>1, <1>6, <2>2 DEF Alone
  <2>4. EachUnderway'
    BY <1>1, <1>6, <2>2 DEF EachUnderway
  <2> QED BY <1>1, <1>6, <2>3, <2>4 DEF EachMessage
\* ... and goes on with its message m, changing its rows and its calls.
<1>7. ASSUME NEW p \in Procs, NEW r \in R, req' = [req EXCEPT ![p] = r],
             NEW m, HasMessage(req[p]), req[p].id = m,
             HasMessage(r), r.op = req[p].op, r.id = m,
             NEW d \in D, NEW c \in C, Progress(r, d, c), UNCHANGED message,
             delivery' = [delivery EXCEPT ![m] = d], pushes' = [pushes EXCEPT ![m] = c]
      PROVE  /\ message' \in Seq(Rows) /\ delivery' \in Seq(D) /\ pushes' \in Seq(C)
             /\ Len(delivery') = Len(message') /\ Len(pushes') = Len(message')
             /\ Alone' /\ EachUnderway' /\ EachMessage'
  <2>1. \A q \in Procs : req'[q] = IF q = p THEN r ELSE req[q]
    BY <1>5, <1>7
  <2>2. /\ m \in 1..N /\ message[m].status \in {"queued", "sending"}
        /\ \A q \in Procs : HasMessage(req[q]) /\ req[q].id = m => q = p
    BY <1>1, <1>7 DEF Alone, N, HasMessage
  <2>3. /\ delivery' \in Seq(D) /\ Len(delivery') = N
        /\ \A i \in 1..N : delivery'[i] = IF i = m THEN d ELSE delivery[i]
    BY <1>1, <1>7, <2>2, ExceptSeq
  <2>4. /\ pushes' \in Seq(C) /\ Len(pushes') = N
        /\ \A i \in 1..N : pushes'[i] = IF i = m THEN c ELSE pushes[i]
    BY <1>1, <1>7, <2>2, ExceptSeq
  <2>5. \A q \in Procs : q # p /\ HasMessage(req[q]) => req[q].id \in 1..N /\ req[q].id # m
    BY <1>1, <2>2 DEF Alone, N
  <2>6. Alone'
    BY <1>1, <1>7, <2>1, <2>2, <2>5 DEF Alone
  <2>7. EachUnderway'
    BY <1>1, <1>7, <2>1, <2>2, <2>3, <2>4, <2>5 DEF EachUnderway
  <2>8. EachMessage'
    BY <1>1, <1>7, <2>2, <2>3, <2>4 DEF EachMessage, N
  <2> QED BY <1>1, <1>7, <2>3, <2>4, <2>6, <2>7, <2>8 DEF N
<1>8. \A m \in 1..N : /\ delivery = [delivery EXCEPT ![m] = delivery[m]]
                      /\ pushes = [pushes EXCEPT ![m] = pushes[m]]
  BY <1>1
\* Nobody is newly on his way to a subscriber.
<1>9. ASSUME UNCHANGED crowded, \A u \in Users : ScheduledTo(u)' = ScheduledTo(u),
             \A q \in Procs : \/ req'[q].op # "deliver"
                              \/ req[q].op = "deliver" /\ req'[q].todo \subseteq req[q].todo
                              \/ req'[q].todo = {}
      PROVE  LimitKept'
  <2>1. \A q \in Procs, u \in Users : OnTheWay(q, u)' => OnTheWay(q, u)
    BY <1>9 DEF OnTheWay
  <2> QED BY <1>1, <1>9, <2>1 DEF LimitKept
<1>10. ASSUME Len(message') = N,
              \A i \in 1..N : /\ message'[i].by = message[i].by
                              /\ message[i].by = "schedule" => \A u \in Users :
                                    delivery'[i][u] = "delivered" <=> delivery[i][u] = "delivered"
       PROVE  \A u \in Users : ScheduledTo(u)' = ScheduledTo(u)
  BY <1>10 DEF ScheduledTo, N
<1>11. ASSUME UNCHANGED <<message, delivery>>
       PROVE  \A u \in Users : ScheduledTo(u)' = ScheduledTo(u)
  BY <1>11 DEF ScheduledTo
<1>12. ASSUME NEW w \in Rows, NewMessage(w)
       PROVE  /\ message' \in Seq(Rows) /\ delivery' \in Seq(D) /\ pushes' \in Seq(C)
              /\ Len(message') = N + 1 /\ Len(delivery') = N + 1 /\ Len(pushes') = N + 1
              /\ \A i \in 1..N : /\ message'[i] = message[i] /\ delivery'[i] = delivery[i]
                                 /\ pushes'[i] = pushes[i]
              /\ message'[N + 1] = w /\ Fresh(delivery'[N + 1], pushes'[N + 1])
              /\ \A u \in Users : ScheduledTo(u)' = ScheduledTo(u)
  <2>1. PICK d, c : d = [u \in Users |-> "none"] /\ c = [u \in Users |-> 0]
    OBVIOUS
  <2>2. d \in D /\ c \in C /\ Fresh(d, c)
    BY <2>1 DEF D, C, DeliveryRows, PushCounts, DeliveryStatuses, Fresh
  <2>3. message' = Append(message, w) /\ delivery' = Append(delivery, d) /\ pushes' = Append(pushes, c)
    BY <1>12, <2>1 DEF NewMessage
  <2>4. /\ message' \in Seq(Rows) /\ Len(message') = N + 1 /\ message'[N + 1] = w
        /\ \A i \in 1..N : message'[i] = message[i]
    BY <1>1, <2>3, AppendProperties DEF N
  <2>5. /\ delivery' \in Seq(D) /\ Len(delivery') = N + 1 /\ delivery'[N + 1] = d
        /\ \A i \in 1..N : delivery'[i] = delivery[i]
    BY <1>1, <2>2, <2>3, AppendProperties
  <2>6. /\ pushes' \in Seq(C) /\ Len(pushes') = N + 1 /\ pushes'[N + 1] = c
        /\ \A i \in 1..N : pushes'[i] = pushes[i]
    BY <1>1, <2>2, <2>3, AppendProperties
  <2>7. \A i \in 1..N + 1 : i \in 1..N \/ i = N + 1
    BY <1>1
  <2>8. \A i \in 1..N : i \in 1..N + 1
    BY <1>1
  <2>9. ASSUME NEW u \in Users
        PROVE  ScheduledTo(u)' = ScheduledTo(u)
    <3>1. d[u] # "delivered"
      BY <2>1
    <3> QED BY <2>4, <2>5, <2>7, <2>8, <3>1 DEF ScheduledTo, N
  <2> QED BY <2>2, <2>4, <2>5, <2>6, <2>9
<1>13. ASSUME NEW p \in Procs, NEW r, Enter(p, r)
       PROVE  req' = [req EXCEPT ![p] = r] /\ req[p] = Idle
  BY <1>13 DEF Enter
\* A request that takes a message nobody has leaves everyone alone with his own.
<1>14. ASSUME NEW p \in Procs, NEW r \in R, \A o \in Procs : req'[o] = IF o = p THEN r ELSE req[o],
              r.id \in 1..Len(message'), 1..N \subseteq 1..Len(message'),
              r.op = "broadcast" => /\ message'[r.id].status = "queued"
                                    /\ message'[r.id].by = "broadcast",
              r.op = "deliver" => message'[r.id].status = "sending",
              \A o \in Procs : HasMessage(req[o]) =>
                 req[o].id # r.id /\ message'[req[o].id] = message[req[o].id]
       PROVE  Alone'
  <2>1. ASSUME NEW o \in Procs, HasMessage(req'[o])
        PROVE  /\ req'[o].id \in 1..Len(message')
               /\ req'[o].op = "broadcast" => /\ message'[req'[o].id].status = "queued"
                                               /\ message'[req'[o].id].by = "broadcast"
               /\ req'[o].op = "deliver" => message'[req'[o].id].status = "sending"
    <3>1. CASE o = p
      BY <1>14, <3>1
    <3>2. CASE o # p
      <4>1. req'[o] = req[o] /\ HasMessage(req[o])
        BY <1>14, <2>1, <3>2
      <4>2. req[o].id \in 1..N
        BY <1>1, <4>1 DEF Alone, N
      <4> QED BY <1>1, <1>14, <4>1, <4>2 DEF Alone
    <3> QED BY <3>1, <3>2
  <2>2. ASSUME NEW o \in Procs, NEW q \in Procs, HasMessage(req'[o]), HasMessage(req'[q]),
               req'[q].id = req'[o].id
        PROVE  q = o
    <3>1. CASE o = p \/ q = p
      BY <1>14, <2>2, <3>1
    <3>2. CASE o # p /\ q # p
      BY <1>1, <1>14, <2>2, <3>2 DEF Alone
    <3> QED BY <3>1, <3>2
  <2> QED BY <2>1, <2>2 DEF Alone
\* Rows of the requests in flight, by where they stand.
<1>15. \A q \in R : /\ q.op \in {"broadcast", "deliver"} /\ q.at \in {"rows", "who", "pending", "push", "final"}
                          => q \in Fans
                    /\ q.op = "broadcast" /\ q.at = "create" => q \in Creates
                    /\ q.op = "deliver" /\ q.at = "mark" => q \in Marks
  BY DEF R, DeliveryRequests, Creates, Fans, Marks, Idle
<1>16. ASSUME CustomerStep
       PROVE  DeliveryInv'
  <2>1. /\ UNCHANGED <<message, delivery, pushes, crowded, req>>
        /\ changes < MaxChanges /\ changes' = changes + 1
    BY <1>16 DEF CustomerStep, Subscribe, Unsubscribe, ResumeSubscription, BlockBusiness,
                 UnblockBusiness, UserChanges, reqVars
  <2>2. changes' \in 0..MaxChanges
    BY <1>1, <2>1, OneMore, DeliveryAssumption
  <2>3. blockers' \subseteq Users
    BY <1>1, <1>16 DEF CustomerStep, Subscribe, Unsubscribe, ResumeSubscription, BlockBusiness,
                       UnblockBusiness
  <2>4. sub' \in [Users -> SubStatuses]
    <3>1. \A u \in Users : /\ [sub EXCEPT ![u] = "active"] \in [Users -> SubStatuses]
                           /\ [sub EXCEPT ![u] = "off"] \in [Users -> SubStatuses]
      BY <1>1 DEF SubStatuses
    <3> QED BY <1>1, <1>16, <3>1 DEF CustomerStep, Subscribe, Unsubscribe, ResumeSubscription,
                                     BlockBusiness, UnblockBusiness, SetStatus
  <2>5. Alone' /\ EachUnderway' /\ EachMessage'
    BY <1>1, <2>1 DEF Alone, EachUnderway, EachMessage
  <2>6. LimitKept'
    BY <1>9, <1>11, <2>1
  <2> QED BY <1>1, <1>3, <2>1, <2>2, <2>3, <2>4, <2>5, <2>6 DEF N
<1>17. ASSUME NEW p \in Procs, Broadcast(p)
       PROVE  DeliveryInv'
  <2>1. PICK r : r = Fan("broadcast", "create", 0, ActiveSubscribers)
    OBVIOUS
  <2>2. r \in R /\ r.op = "broadcast" /\ ~HasMessage(r)
    <3>1. ActiveSubscribers \subseteq Users
      BY DEF ActiveSubscribers
    <3> QED BY <2>1, <3>1 DEF Fan, R, DeliveryRequests, Creates, HasMessage
  <2>3. Enter(p, r) /\ UNCHANGED <<sub, blockers, message, delivery, pushes, crowded, changes>>
    BY <1>17, <2>1 DEF Broadcast, deliveryVars
  <2>4. req' = [req EXCEPT ![p] = r]
    BY <1>13, <2>3
  <2>5. req' \in [Procs -> R] /\ \A q \in Procs : req'[q] = IF q = p THEN r ELSE req[q]
    BY <1>5, <2>2, <2>4
  <2>6. Alone' /\ EachUnderway' /\ EachMessage'
    BY <1>6, <2>2, <2>3, <2>4
  <2>7. LimitKept'
    BY <1>9, <1>11, <2>2, <2>3, <2>5
  <2> QED BY <1>1, <1>3, <2>3, <2>5, <2>6, <2>7 DEF N
<1>18. ASSUME NEW p \in Procs, CreateMessage(p)
       PROVE  DeliveryInv'
  <2>1. PICK q \in R : q = req[p]
    BY <1>1
  <2>2. q.op = "broadcast" /\ q.at = "create" /\ q \in Creates
    BY <1>15, <1>18, <2>1 DEF CreateMessage, At
  <2>3. PICK n \in Nat : n = N + 1
    BY <1>1
  <2>4. PICK r : r = [q EXCEPT !.at = "rows", !.id = n]
    OBVIOUS
  <2>5. r \in [op: {"broadcast"}, at: {"rows"}, id: {n}, todo: SUBSET Users, ok: {0}, failed: {0}]
    BY <2>2, <2>4 DEF Creates
  <2>6. /\ r \in R /\ r.op = "broadcast" /\ r.at = "rows" /\ r.id = n /\ r.ok = 0 /\ r.failed = 0
        /\ HasMessage(r)
    BY <2>5 DEF R, DeliveryRequests, Fans, HasMessage
  <2>7. PICK w : w = Message("broadcast", "queued", Cardinality(q.todo))
    OBVIOUS
  <2>8. w \in Rows /\ w.by = "broadcast" /\ w.status = "queued"
    <3>1. q.todo \subseteq Users
      BY <2>2 DEF Creates
    <3>2. Cardinality(q.todo) \in Nat
      BY <3>1, UsersAssumption, FS_Subset, FS_CardinalityType
    <3> QED BY <2>7, <3>2 DEF Message, Rows, MessageRows, MessageStatuses
  <2>9. /\ NewMessage(w) /\ req' = [req EXCEPT ![p] = r]
        /\ UNCHANGED <<sub, blockers, crowded, changes>>
    BY <1>1, <1>18, <2>1, <2>3, <2>4, <2>7 DEF CreateMessage, N
  <2>10. /\ message' \in Seq(Rows) /\ delivery' \in Seq(D) /\ pushes' \in Seq(C)
         /\ Len(message') = n /\ Len(delivery') = n /\ Len(pushes') = n
         /\ \A i \in 1..N : /\ message'[i] = message[i] /\ delivery'[i] = delivery[i]
                            /\ pushes'[i] = pushes[i]
         /\ message'[n] = w /\ Fresh(delivery'[n], pushes'[n])
         /\ \A u \in Users : ScheduledTo(u)' = ScheduledTo(u)
    BY <1>12, <2>3, <2>8, <2>9
  <2>11. req' \in [Procs -> R] /\ \A o \in Procs : req'[o] = IF o = p THEN r ELSE req[o]
    BY <1>5, <2>6, <2>9
  <2>12. /\ n \in 1..n /\ n \notin 1..N /\ \A i \in 1..N : i \in 1..n
         /\ \A i \in 1..n : i \in 1..N \/ i = n
    BY <1>1, <2>3
  <2>13. \A o \in Procs : HasMessage(req[o]) => req[o].id \in 1..N
    BY <1>1 DEF Alone, N
  <2>14. Alone'
    <3>1. r.id \in 1..Len(message') /\ 1..N \subseteq 1..Len(message')
      BY <2>6, <2>10, <2>12
    <3>2. /\ message'[r.id].status = "queued" /\ message'[r.id].by = "broadcast"
          /\ r.op # "deliver"
      BY <2>6, <2>8, <2>10
    <3>3. \A o \in Procs : HasMessage(req[o]) =>
             req[o].id # r.id /\ message'[req[o].id] = message[req[o].id]
      BY <2>6, <2>10, <2>12, <2>13
    <3> QED BY <1>14, <2>6, <2>11, <3>1, <3>2, <3>3
  <2>15. EachUnderway'
    <3>1. Progress(r, delivery'[n], pushes'[n])
      BY <2>6, <2>10 DEF Progress
    <3> QED BY <1>1, <2>6, <2>10, <2>11, <2>13, <3>1 DEF EachUnderway
  <2>16. EachMessage'
    BY <1>1, <2>8, <2>10, <2>12 DEF EachMessage, N
  <2>17. LimitKept'
    BY <1>9, <2>6, <2>9, <2>10, <2>11
  <2> QED BY <1>1, <1>3, <2>9, <2>10, <2>11, <2>14, <2>15, <2>16, <2>17
<1>19. ASSUME ScheduleMessage
       PROVE  DeliveryInv'
  <2>1. PICK w : w = Message("schedule", "due", 0)
    OBVIOUS
  <2>2. w \in Rows /\ w.status = "due"
    BY <2>1 DEF Message, Rows, MessageRows, MessageStatuses
  <2>3. NewMessage(w) /\ UNCHANGED <<req, sub, blockers, crowded, changes>>
    BY <1>19, <2>1 DEF ScheduleMessage, reqVars
  <2>4. /\ message' \in Seq(Rows) /\ delivery' \in Seq(D) /\ pushes' \in Seq(C)
        /\ Len(message') = N + 1 /\ Len(delivery') = N + 1 /\ Len(pushes') = N + 1
        /\ \A i \in 1..N : /\ message'[i] = message[i] /\ delivery'[i] = delivery[i]
                           /\ pushes'[i] = pushes[i]
        /\ message'[N + 1] = w /\ Fresh(delivery'[N + 1], pushes'[N + 1])
        /\ \A u \in Users : ScheduledTo(u)' = ScheduledTo(u)
    BY <1>12, <2>2, <2>3
  <2>5. (\A i \in 1..N : i \in 1..N + 1) /\ \A i \in 1..N + 1 : i \in 1..N \/ i = N + 1
    BY <1>1
  <2>6. \A o \in Procs : HasMessage(req[o]) => req[o].id \in 1..N
    BY <1>1 DEF Alone, N
  <2>7. Alone'
    BY <1>1, <2>3, <2>4, <2>5, <2>6 DEF Alone, N
  <2>8. EachUnderway'
    BY <1>1, <2>3, <2>4, <2>6 DEF EachUnderway
  <2>9. EachMessage'
    BY <1>1, <2>2, <2>4, <2>5 DEF EachMessage, N
  <2>10. LimitKept'
    BY <1>9, <2>3, <2>4
  <2> QED BY <1>1, <1>3, <2>3, <2>4, <2>7, <2>8, <2>9, <2>10
\* The claim takes the status away that it needs: nobody else has the message.
<1>20. ASSUME NEW p \in Procs, ClaimMessage(p)
       PROVE  DeliveryInv'
  <2>1. PICK m \in 1..N : /\ message[m].status = "due" /\ Enter(p, Fan("deliver", "who", m, {}))
                          /\ message' = [message EXCEPT ![m].status = "sending"]
    <3>1. Mids = 1..N
      BY <1>1 DEF Mids, N
    <3> QED BY <1>20, <3>1 DEF ClaimMessage
  <2>2. PICK r : r = Fan("deliver", "who", m, {})
    OBVIOUS
  <2>3. /\ r \in R /\ r.op = "deliver" /\ r.at = "who" /\ r.id = m /\ r.ok = 0 /\ r.failed = 0
        /\ r.todo = {} /\ HasMessage(r)
    BY <1>1, <2>2 DEF Fan, R, DeliveryRequests, Fans, HasMessage
  <2>4. /\ req' = [req EXCEPT ![p] = r]
        /\ UNCHANGED <<sub, blockers, delivery, pushes, crowded, changes>>
    BY <1>13, <1>20, <2>1, <2>2 DEF ClaimMessage
  <2>5. req' \in [Procs -> R] /\ \A o \in Procs : req'[o] = IF o = p THEN r ELSE req[o]
    BY <1>5, <2>3, <2>4
  <2>6. PICK v \in Rows : v = message[m]
    BY <1>2
  <2>7. PICK w : w = [v EXCEPT !.status = "sending"]
    OBVIOUS
  <2>8. w \in Rows /\ w.status = "sending" /\ w.by = v.by
    BY <2>7 DEF Rows, MessageRows, MessageStatuses
  <2>9. message' = [message EXCEPT ![m] = w]
    BY <1>1, <2>1, <2>6, <2>7
  <2>10. /\ message' \in Seq(Rows) /\ Len(message') = N
         /\ \A i \in 1..N : message'[i] = IF i = m THEN w ELSE message[i]
    BY <1>1, <2>8, <2>9, ExceptSeq DEF N
  <2>11. \A o \in Procs : HasMessage(req[o]) => req[o].id \in 1..N /\ req[o].id # m
    BY <1>1, <2>1 DEF Alone, N, HasMessage
  <2>12. Alone'
    <3>1. r.id \in 1..Len(message') /\ 1..N \subseteq 1..Len(message')
      BY <2>3, <2>10
    <3>2. message'[r.id].status = "sending" /\ r.op # "broadcast"
      BY <2>3, <2>8, <2>10
    <3>3. \A o \in Procs : HasMessage(req[o]) =>
             req[o].id # r.id /\ message'[req[o].id] = message[req[o].id]
      BY <2>3, <2>10, <2>11
    <3> QED BY <1>14, <2>3, <2>5, <3>1, <3>2, <3>3
  <2>13. EachUnderway'
    <3>1. Fresh(delivery[m], pushes[m])
      BY <1>1, <2>1 DEF EachMessage, N
    <3>2. Progress(r, delivery[m], pushes[m])
      BY <2>3, <3>1 DEF Progress
    <3> QED BY <1>1, <2>3, <2>4, <2>5, <3>2 DEF EachUnderway
  <2>14. EachMessage'
    BY <1>1, <2>4, <2>8, <2>10 DEF EachMessage, N
  <2>15. \A u \in Users : ScheduledTo(u)' = ScheduledTo(u)
    BY <1>10, <2>4, <2>6, <2>8, <2>10
  <2>16. LimitKept'
    BY <1>9, <2>3, <2>4, <2>5, <2>15
  <2> QED BY <1>1, <1>3, <2>4, <2>5, <2>10, <2>12, <2>13, <2>14, <2>16 DEF N
<1>21. ASSUME UNCHANGED <<reqVars, deliveryVars>>
       PROVE  DeliveryInv'
  <2>1. UNCHANGED <<req, sub, blockers, message, delivery, pushes, crowded, changes>>
    BY <1>21 DEF reqVars, deliveryVars
  <2>2. Alone' /\ EachUnderway' /\ EachMessage'
    BY <1>1, <2>1 DEF Alone, EachUnderway, EachMessage
  <2>3. LimitKept'
    BY <1>9, <1>11, <2>1
  <2> QED BY <1>1, <1>3, <2>1, <2>2, <2>3 DEF N
<1>22. ASSUME NEW p \in Procs, DeliveryDie(p)
       PROVE  DeliveryInv'
  <2>1. /\ req' = [req EXCEPT ![p] = Idle]
        /\ UNCHANGED <<sub, blockers, message, delivery, pushes, crowded, changes>>
    BY <1>22 DEF DeliveryDie, Die, deliveryVars
  <2>2. req' \in [Procs -> R] /\ \A o \in Procs : req'[o] = IF o = p THEN Idle ELSE req[o]
    BY <1>2, <1>5, <2>1
  <2>3. Alone' /\ EachUnderway' /\ EachMessage'
    BY <1>2, <1>6, <2>1
  <2>4. LimitKept'
    BY <1>2, <1>9, <1>11, <2>1, <2>2
  <2> QED BY <1>1, <1>3, <2>1, <2>2, <2>3, <2>4 DEF N
<1>23. ASSUME NEW p \in Procs, RecordDeliveries(p)
       PROVE  DeliveryInv'
  <2>1. PICK q \in R : q = req[p]
    BY <1>1
  <2>2. q.op = "broadcast" /\ q.at = "rows" /\ q \in Fans /\ HasMessage(q)
    BY <1>15, <1>23, <2>1 DEF RecordDeliveries, At, HasMessage
  <2>3. PICK r : r = [q EXCEPT !.at = "push"]
    OBVIOUS
  <2>4. /\ r \in [op: {"broadcast"}, at: {"push"}, id: Nat, todo: SUBSET Users, ok: Nat, failed: Nat]
        /\ r.id = q.id /\ r.todo = q.todo /\ r.ok = q.ok /\ r.failed = q.failed
    BY <2>2, <2>3 DEF Fans
  <2>5. r \in R /\ r.op = "broadcast" /\ r.at = "push" /\ HasMessage(r) /\ r.todo \subseteq Users
    BY <2>4 DEF R, DeliveryRequests, Fans, HasMessage
  <2>6. PICK m : m = q.id
    OBVIOUS
  <2>7. m \in 1..N /\ message[m].by = "broadcast"
    BY <1>1, <2>1, <2>2, <2>6 DEF Alone, N
  <2>8. PICK d \in D, c \in C : d = delivery[m] /\ c = pushes[m]
    BY <1>2, <2>7
  <2>9. Fresh(d, c) /\ q.ok = 0 /\ q.failed = 0
    BY <1>1, <2>1, <2>2, <2>6, <2>8 DEF EachUnderway, Progress
  <2>10. PICK e : e = [u \in Users |-> IF u \in r.todo THEN "delivered" ELSE d[u]]
    OBVIOUS
  <2>11. e \in D
    BY <1>4, <2>10 DEF D, DeliveryRows, DeliveryStatuses
  <2>12. Progress(r, e, c)
    BY <2>4, <2>5, <2>9, <2>10, RowsWritten
  <2>13. /\ req' = [req EXCEPT ![p] = r] /\ UNCHANGED <<sub, blockers, message, pushes, crowded, changes>>
         /\ delivery' = [delivery EXCEPT ![m] = e]
    <3>1. delivery' = [delivery EXCEPT ![m] = [u \in Users |-> IF u \in q.todo THEN "delivered" ELSE @[u]]]
      BY <1>23, <2>1, <2>6 DEF RecordDeliveries
    <3>2. delivery' = [delivery EXCEPT ![m] = e]
      BY <2>4, <2>8, <2>10, <3>1
    <3> QED BY <1>1, <1>23, <2>1, <2>3, <3>2 DEF RecordDeliveries, Goto
  <2>14. pushes' = [pushes EXCEPT ![m] = c]
    BY <1>8, <2>7, <2>8, <2>13
  <2>15. /\ message' \in Seq(Rows) /\ delivery' \in Seq(D) /\ pushes' \in Seq(C)
         /\ Len(delivery') = Len(message') /\ Len(pushes') = Len(message')
         /\ Alone' /\ EachUnderway' /\ EachMessage'
    <3>1. HasMessage(req[p]) /\ req[p].id = m /\ r.op = req[p].op /\ r.id = m
      BY <2>1, <2>2, <2>4, <2>5, <2>6
    <3> QED BY <1>7, <2>5, <2>11, <2>12, <2>13, <2>14, <3>1
  <2>16. req' \in [Procs -> R] /\ \A o \in Procs : req'[o] = IF o = p THEN r ELSE req[o]
    BY <1>5, <2>5, <2>13
  <2>17. \A u \in Users : ScheduledTo(u)' = ScheduledTo(u)
    <3>1. \A i \in 1..N : i # m => delivery'[i] = delivery[i]
      BY <1>1, <2>7, <2>11, <2>13, ExceptSeq
    <3> QED BY <1>10, <2>7, <2>13, <3>1 DEF N
  <2>18. LimitKept'
    BY <1>9, <2>5, <2>13, <2>16, <2>17
  <2> QED BY <1>1, <1>3, <2>13, <2>15, <2>16, <2>18
<1>24. ASSUME NEW p \in Procs, InsertPending(p)
       PROVE  DeliveryInv'
  <2>1. PICK q \in R : q = req[p]
    BY <1>1
  <2>2. q.op = "deliver" /\ q.at = "pending" /\ q \in Fans /\ HasMessage(q)
    BY <1>15, <1>24, <2>1 DEF InsertPending, At, HasMessage
  <2>3. PICK r : r = [q EXCEPT !.at = "push"]
    OBVIOUS
  <2>4. /\ r \in [op: {"deliver"}, at: {"push"}, id: Nat, todo: SUBSET Users, ok: Nat, failed: Nat]
        /\ r.id = q.id /\ r.todo = q.todo /\ r.ok = q.ok /\ r.failed = q.failed
    BY <2>2, <2>3 DEF Fans
  <2>5. r \in R /\ r.op = "deliver" /\ r.at = "push" /\ HasMessage(r) /\ r.todo \subseteq Users
    BY <2>4 DEF R, DeliveryRequests, Fans, HasMessage
  <2>6. PICK m : m = q.id
    OBVIOUS
  <2>7. m \in 1..N
    BY <1>1, <2>1, <2>2, <2>6 DEF Alone, N
  <2>8. PICK d \in D, c \in C : d = delivery[m] /\ c = pushes[m]
    BY <1>2, <2>7
  <2>9. Fresh(d, c) /\ q.ok = 0 /\ q.failed = 0
    BY <1>1, <2>1, <2>2, <2>6, <2>8 DEF EachUnderway, Progress
  <2>10. PICK e : e = [u \in Users |-> IF u \in r.todo THEN "pending" ELSE d[u]]
    OBVIOUS
  <2>11. e \in D
    BY <1>4, <2>10 DEF D, DeliveryRows, DeliveryStatuses
  <2>12. Progress(r, e, c)
    BY <2>4, <2>5, <2>9, <2>10, RowsWritten
  <2>13. /\ req' = [req EXCEPT ![p] = r] /\ UNCHANGED <<sub, blockers, message, pushes, crowded, changes>>
         /\ delivery' = [delivery EXCEPT ![m] = e]
    <3>1. delivery' = [delivery EXCEPT ![m] =
                          [u \in Users |-> IF u \in q.todo /\ @[u] = "none" THEN "pending" ELSE @[u]]]
      BY <1>24, <2>1, <2>6 DEF InsertPending
    <3>2. [u \in Users |-> IF u \in q.todo /\ d[u] = "none" THEN "pending" ELSE d[u]] = e
      BY <2>4, <2>9, <2>10 DEF Fresh
    <3>3. delivery' = [delivery EXCEPT ![m] = e]
      BY <2>8, <3>1, <3>2
    <3> QED BY <1>1, <1>24, <2>1, <2>3, <3>3 DEF InsertPending, Goto
  <2>14. pushes' = [pushes EXCEPT ![m] = c]
    BY <1>8, <2>7, <2>8, <2>13
  <2>15. /\ message' \in Seq(Rows) /\ delivery' \in Seq(D) /\ pushes' \in Seq(C)
         /\ Len(delivery') = Len(message') /\ Len(pushes') = Len(message')
         /\ Alone' /\ EachUnderway' /\ EachMessage'
    <3>1. HasMessage(req[p]) /\ req[p].id = m /\ r.op = req[p].op /\ r.id = m
      BY <2>1, <2>2, <2>4, <2>5, <2>6
    <3> QED BY <1>7, <2>5, <2>11, <2>12, <2>13, <2>14, <3>1
  <2>16. req' \in [Procs -> R] /\ \A o \in Procs : req'[o] = IF o = p THEN r ELSE req[o]
    BY <1>5, <2>5, <2>13
  <2>17. \A u \in Users : ScheduledTo(u)' = ScheduledTo(u)
    <3>1. \A i \in 1..N : delivery'[i] = IF i = m THEN e ELSE delivery[i]
      BY <1>1, <2>7, <2>11, <2>13, ExceptSeq
    <3>2. \A u \in Users : e[u] # "delivered" /\ d[u] # "delivered"
      BY <2>9, <2>10 DEF Fresh
    <3>3. \A i \in 1..N, u \in Users : delivery'[i][u] = "delivered" <=> delivery[i][u] = "delivered"
      BY <2>8, <3>1, <3>2
    <3> QED BY <1>10, <2>13, <3>3 DEF N
  <2>18. LimitKept'
    BY <1>9, <2>1, <2>2, <2>4, <2>13, <2>16, <2>17
  <2> QED BY <1>1, <1>3, <2>13, <2>15, <2>16, <2>18
\* Whom another job is on its way to as well is crowded from now on.
<1>25. ASSUME NEW p \in Procs, FindSubscribers(p)
       PROVE  DeliveryInv'
  <2>1. PICK q \in R : q = req[p]
    BY <1>1
  <2>2. q.op = "deliver" /\ q.at = "who" /\ q \in Fans /\ HasMessage(q)
    BY <1>15, <1>25, <2>1 DEF FindSubscribers, At, HasMessage
  <2>3. PICK subs : subs = {u \in ActiveSubscribers : DeliveredToday(u) < DailyLimit}
    OBVIOUS
  <2>4. PICK a : a = IF subs = {} THEN "final" ELSE "pending"
    OBVIOUS
  <2>5. PICK r : r = [q EXCEPT !.at = a, !.todo = subs]
    OBVIOUS
  <2>6. PICK m : m = q.id
    OBVIOUS
  <2>7. m \in 1..N
    BY <1>1, <2>1, <2>2, <2>6 DEF Alone, N
  <2>8. PICK d \in D, c \in C : d = delivery[m] /\ c = pushes[m]
    BY <1>2, <2>7
  <2>9. Fresh(d, c) /\ q.ok = 0 /\ q.failed = 0
    BY <1>1, <2>1, <2>2, <2>6, <2>8 DEF EachUnderway, Progress
  <2>10. subs \subseteq Users
    BY <2>3 DEF ActiveSubscribers
  <2>11. r \in [op: {"deliver"}, at: {a}, id: {m}, todo: {subs}, ok: {0}, failed: {0}]
    <3>1. q \in [op: {"deliver"}, at: {"who"}, id: {m}, todo: SUBSET Users, ok: {0}, failed: {0}]
      BY <2>2, <2>6, <2>9 DEF Fans
    <3> QED BY <2>5, <3>1
  <2>12. /\ r \in R /\ r.op = "deliver" /\ r.at = a /\ r.id = m /\ r.todo = subs
         /\ r.ok = 0 /\ r.failed = 0 /\ HasMessage(r)
    <3>1. m \in Nat
      BY <1>1, <2>7
    <3>2. r \in Fans
      BY <2>4, <2>10, <2>11, <3>1 DEF Fans
    <3> QED BY <2>11, <3>2 DEF R, DeliveryRequests, HasMessage
  <2>13. Progress(r, d, c)
    <3>1. CASE subs = {}
      BY <2>4, <2>9, <2>12, <3>1, NobodyToReach
    <3>2. CASE subs # {}
      BY <2>4, <2>9, <2>12, <3>2 DEF Progress
    <3> QED BY <3>1, <3>2
  <2>14. /\ req' = [req EXCEPT ![p] = r] /\ crowded' = crowded \cup (subs \cap Underway(p))
         /\ UNCHANGED <<sub, blockers, message, delivery, pushes, changes>>
    BY <1>1, <1>25, <2>1, <2>3, <2>4, <2>5 DEF FindSubscribers
  <2>15. delivery' = [delivery EXCEPT ![m] = d] /\ pushes' = [pushes EXCEPT ![m] = c]
    BY <1>8, <2>7, <2>8, <2>14
  <2>16. /\ message' \in Seq(Rows) /\ delivery' \in Seq(D) /\ pushes' \in Seq(C)
         /\ Len(delivery') = Len(message') /\ Len(pushes') = Len(message')
         /\ Alone' /\ EachUnderway' /\ EachMessage'
    <3>1. HasMessage(req[p]) /\ req[p].id = m /\ r.op = req[p].op /\ r.id = m
      BY <2>1, <2>2, <2>6, <2>12
    <3>2. req' = [req EXCEPT ![p] = r] /\ UNCHANGED message
      BY <2>14
    <3>3. r \in R /\ HasMessage(r)
      BY <2>12
    <3> QED BY <1>7, <2>13, <2>15, <3>1, <3>2, <3>3
  <2>17. req' \in [Procs -> R] /\ \A o \in Procs : req'[o] = IF o = p THEN r ELSE req[o]
    BY <1>5, <2>12, <2>14
  <2>18. \A u \in Users : ScheduledTo(u)' = ScheduledTo(u)
    BY <1>11, <2>14
  <2>19. \A o \in Procs, u \in Users :
            /\ OnTheWay(o, u)' => IF o = p THEN u \in subs ELSE OnTheWay(o, u)
            /\ OnTheWay(o, u) /\ o # p => u \in Underway(p)
    BY <2>12, <2>17 DEF OnTheWay, Underway
  <2>20. \A u \in subs : Cardinality(ScheduledTo(u)) < DailyLimit
    <3>1. ASSUME NEW u \in subs
          PROVE  Cardinality(ScheduledTo(u)) < DailyLimit
      <4>1. Mids = 1..N
        BY <1>1 DEF Mids, N
      <4>2. PICK t : t = {i \in Mids : delivery[i][u] = "delivered"}
        OBVIOUS
      <4>3. t \subseteq 1..N /\ ScheduledTo(u) \subseteq t
        BY <4>1, <4>2 DEF ScheduledTo, N
      <4>4. IsFiniteSet(1..N)
        BY <1>1, FS_Interval
      <4>5. IsFiniteSet(t)
        BY <4>3, <4>4, FS_Subset
      <4>6. /\ Cardinality(t) \in Nat /\ Cardinality(ScheduledTo(u)) \in Nat
            /\ Cardinality(ScheduledTo(u)) <= Cardinality(t)
        BY <4>3, <4>5, FS_Subset, FS_CardinalityType
      <4>7. Cardinality(t) < DailyLimit
        BY <2>3, <3>1, <4>2 DEF DeliveredToday
      <4> QED BY <4>6, <4>7, DeliveryAssumption
    <3> QED BY <3>1
  <2>21. LimitKept'
    <3>1. ASSUME NEW u \in Users \ crowded', NEW o \in Procs, OnTheWay(o, u)'
          PROVE  /\ Cardinality(ScheduledTo(u)) < DailyLimit
                 /\ \A v \in Procs : OnTheWay(v, u)' => v = o
      <4>1. u \notin crowded /\ u \in Users /\ ~(u \in subs /\ u \in Underway(p))
        BY <2>14, <3>1
      <4>2. CASE o = p
        BY <2>19, <2>20, <3>1, <4>1, <4>2
      <4>3. CASE o # p
        BY <1>1, <2>19, <3>1, <4>1, <4>3 DEF LimitKept
      <4> QED BY <4>2, <4>3
    <3>2. \A u \in Users \ crowded' : Cardinality(ScheduledTo(u)) <= DailyLimit
      BY <1>1, <2>14 DEF LimitKept
    <3> QED BY <2>18, <3>1, <3>2 DEF LimitKept
  <2>22. crowded' \subseteq Users
    BY <1>1, <2>10, <2>14
  <2> QED BY <1>1, <1>3, <2>14, <2>16, <2>17, <2>21, <2>22
<1>26. ASSUME NEW p \in Procs, Push(p)
       PROVE  DeliveryInv'
  <2>1. PICK q \in R : q = req[p]
    BY <1>1
  <2>2. q.op \in {"broadcast", "deliver"} /\ q.at = "push" /\ q \in Fans /\ HasMessage(q)
    BY <1>15, <1>26, <2>1 DEF Push, HasMessage
  <2>3. PICK m : m = q.id
    OBVIOUS
  <2>4. m \in 1..N
    BY <1>1, <2>1, <2>2, <2>3 DEF Alone, N
  <2>5. PICK d \in D, c \in C : d = delivery[m] /\ c = pushes[m]
    BY <1>2, <2>4
  <2>6. Midway(q, d, c) /\ q.todo \subseteq Users
    BY <1>1, <2>1, <2>2, <2>3, <2>5 DEF EachUnderway, Progress, Fans
  <2>7. PICK u \in q.todo :
           /\ pushes' = [pushes EXCEPT ![m][u] = @ + 1]
           /\ IF q.op = "broadcast"
              THEN req' = [req EXCEPT ![p].todo = @ \ {u}, ![p].ok = @ + 1,
                                      ![p].at = IF q.todo = {u} THEN "final" ELSE "push"]
              ELSE \E ok \in BOOLEAN :
                      req' = [req EXCEPT ![p] = [op |-> "deliver", at |-> "mark", id |-> m,
                                 todo |-> q.todo, ok |-> q.ok, failed |-> q.failed,
                                 user |-> u, reached |-> ok]]
    BY <1>26, <2>1, <2>3 DEF Push
  <2>8. UNCHANGED <<sub, blockers, message, delivery, crowded, changes>>
    BY <1>26 DEF Push
  <2>9. PICK e : e = [c EXCEPT ![u] = 1]
    OBVIOUS
  <2>10. u \in Users /\ c[u] = 0
    BY <2>2, <2>6, <2>7 DEF Midway
  <2>11. /\ e \in C /\ e[u] = 1 /\ \A v \in Users : v # u => e[v] = c[v]
    BY <1>4, <2>9, <2>10 DEF C, PushCounts
  <2>12. pushes' = [pushes EXCEPT ![m] = e]
    <3>1. c[u] + 1 = 1
      BY <2>10
    <3>2. e = [c EXCEPT ![u] = c[u] + 1]
      BY <2>9, <3>1
    <3> QED BY <1>1, <2>4, <2>5, <2>7, <3>2
  <2>13. delivery' = [delivery EXCEPT ![m] = d]
    BY <1>8, <2>4, <2>5, <2>8
  <2>14. ASSUME NEW r \in R, req' = [req EXCEPT ![p] = r], HasMessage(r), r.op = q.op, r.id = m,
                r.todo \subseteq q.todo, Progress(r, d, e)
         PROVE  DeliveryInv'
    <3>1. HasMessage(req[p]) /\ req[p].id = m /\ r.op = req[p].op
      BY <2>1, <2>2, <2>3, <2>14
    <3>2. /\ message' \in Seq(Rows) /\ delivery' \in Seq(D) /\ pushes' \in Seq(C)
          /\ Len(delivery') = Len(message') /\ Len(pushes') = Len(message')
          /\ Alone' /\ EachUnderway' /\ EachMessage'
      BY <1>7, <2>5, <2>8, <2>11, <2>12, <2>13, <2>14, <3>1
    <3>3. req' \in [Procs -> R] /\ \A o \in Procs : req'[o] = IF o = p THEN r ELSE req[o]
      BY <1>5, <2>14
    <3>4. \A v \in Users : ScheduledTo(v)' = ScheduledTo(v)
      BY <1>11, <2>8
    <3>5. LimitKept'
      BY <1>9, <2>1, <2>8, <2>14, <3>3, <3>4
    <3> QED BY <1>1, <1>3, <2>8, <3>2, <3>3, <3>5
  <2>15. CASE q.op = "broadcast"
    <3>1. PICK t, n, a : /\ t = q.todo \ {u} /\ n = q.ok + 1
                         /\ a = IF q.todo = {u} THEN "final" ELSE "push"
      OBVIOUS
    <3>2. PICK r : r = [q EXCEPT !.todo = t, !.ok = n, !.at = a]
      OBVIOUS
    <3>3. t \subseteq Users /\ n \in Nat /\ a \in {"final", "push"} /\ (a = "final" => t = {})
      BY <2>2, <2>6, <3>1 DEF Fans
    <3>4. q \in [op: {"broadcast"}, at: {"push"}, id: {m}, todo: SUBSET Users, ok: Nat, failed: {q.failed}]
      BY <2>2, <2>3, <2>15 DEF Fans
    <3>5. r \in [op: {"broadcast"}, at: {a}, id: {m}, todo: {t}, ok: {n}, failed: {q.failed}]
      BY <3>2, <3>4
    <3>6. /\ r \in R /\ r.op = "broadcast" /\ r.at = a /\ r.id = m /\ r.todo = t
          /\ r.ok = n /\ r.failed = q.failed /\ HasMessage(r)
      <4>1. m \in Nat /\ q.failed \in Nat
        BY <1>1, <2>2, <2>4 DEF Fans
      <4>2. r \in Fans
        BY <3>3, <3>5, <4>1 DEF Fans
      <4>3. a # "create"
        BY <3>3
      <4> QED BY <3>5, <4>2, <4>3 DEF R, DeliveryRequests, HasMessage
    <3>7. req' = [req EXCEPT ![p] = r]
      <4>1. req' = [req EXCEPT ![p].todo = @ \ {u}, ![p].ok = @ + 1, ![p].at = a]
        BY <2>7, <2>15, <3>1
      <4> QED BY <1>1, <2>1, <3>1, <3>2, <4>1
    <3>8. d[u] = "delivered"
      BY <2>6, <2>7, <2>15 DEF Midway
    <3>9. Progress(r, d, e)
      BY <1>4, <2>2, <2>5, <2>6, <2>7, <2>11, <2>15, <3>1, <3>3, <3>6, <3>8, OneReached
    <3>10. r.todo \subseteq q.todo
      BY <3>1, <3>6
    <3> QED BY <2>14, <2>15, <3>6, <3>7, <3>9, <3>10
  <2>16. CASE q.op = "deliver"
    <3>1. PICK ok \in BOOLEAN :
             req' = [req EXCEPT ![p] = [op |-> "deliver", at |-> "mark", id |-> m,
                        todo |-> q.todo, ok |-> q.ok, failed |-> q.failed, user |-> u, reached |-> ok]]
      BY <2>7, <2>16
    <3>2. PICK r : r = [op |-> "deliver", at |-> "mark", id |-> m, todo |-> q.todo, ok |-> q.ok,
                        failed |-> q.failed, user |-> u, reached |-> ok]
      OBVIOUS
    <3>3. /\ r.op = "deliver" /\ r.at = "mark" /\ r.id = m /\ r.todo = q.todo /\ r.ok = q.ok
          /\ r.failed = q.failed /\ r.user = u
      BY <3>2
    <3>4. m \in Nat /\ q.ok \in Nat /\ q.failed \in Nat
      BY <1>1, <2>2, <2>4 DEF Fans
    <3>5. r \in R /\ HasMessage(r)
      BY <2>6, <2>10, <3>2, <3>4 DEF R, DeliveryRequests, Marks, HasMessage
    <3>6. Progress(r, d, e)
      BY <2>2, <2>6, <2>7, <2>11, <2>16, <3>3, OneCalled
    <3> QED BY <2>14, <2>16, <3>1, <3>2, <3>3, <3>5, <3>6
  <2> QED BY <2>2, <2>15, <2>16
\* One scheduled message more for someone below the limit whom no other job is
\* on its way to.
<1>27. ASSUME NEW p \in Procs, MarkDelivery(p)
       PROVE  DeliveryInv'
  <2>1. PICK q \in R : q = req[p]
    BY <1>1
  <2>2. q.op = "deliver" /\ q.at = "mark" /\ q \in Marks /\ HasMessage(q)
    BY <1>15, <1>27, <2>1 DEF MarkDelivery, At, HasMessage
  <2>3. PICK m, u, ok, rest : m = q.id /\ u = q.user /\ ok = q.reached /\ rest = q.todo \ {u}
    OBVIOUS
  <2>4. m \in 1..N
    BY <1>1, <2>1, <2>2, <2>3 DEF Alone, N
  <2>5. PICK d \in D, c \in C : d = delivery[m] /\ c = pushes[m]
    BY <1>2, <2>4
  <2>6. Midway(q, d, c) /\ q.todo \subseteq Users
    BY <1>1, <2>1, <2>2, <2>3, <2>5 DEF EachUnderway, Progress, Marks
  <2>7. u \in q.todo /\ u \in Users /\ c[u] = 1 /\ ok \in BOOLEAN
    BY <2>2, <2>3, <2>6 DEF Midway, Marks
  <2>8. PICK st \in {"delivered", "failed"} : st = IF ok THEN "delivered" ELSE "failed"
    OBVIOUS
  <2>9. PICK e : e = [d EXCEPT ![u] = st]
    OBVIOUS
  <2>10. e \in D /\ e[u] = st /\ \A v \in Users : v # u => e[v] = d[v]
    BY <1>4, <2>7, <2>8, <2>9 DEF D, DeliveryRows, DeliveryStatuses
  <2>11. PICK n \in Nat, f \in Nat : /\ n = q.ok + (IF ok THEN 1 ELSE 0)
                                     /\ f = q.failed + (IF ok THEN 0 ELSE 1)
    BY <2>2 DEF Marks
  <2>12. PICK a \in {"final", "push"} : a = IF rest = {} THEN "final" ELSE "push"
    OBVIOUS
  <2>13. PICK r : r = [Fan("deliver", a, m, rest) EXCEPT !.ok = n, !.failed = f]
    OBVIOUS
  <2>14. Fan("deliver", a, m, rest) \in [op: {"deliver"}, at: {a}, id: {m}, todo: {rest}, ok: Nat, failed: Nat]
    BY DEF Fan
  <2>15. r \in [op: {"deliver"}, at: {a}, id: {m}, todo: {rest}, ok: {n}, failed: {f}]
    BY <2>13, <2>14
  <2>16. /\ r \in R /\ r.op = "deliver" /\ r.at = a /\ r.id = m /\ r.todo = rest
         /\ r.ok = n /\ r.failed = f /\ HasMessage(r)
    <3>1. m \in Nat /\ rest \subseteq Users
      BY <1>1, <2>3, <2>4, <2>6
    <3>2. r \in Fans
      BY <2>15, <3>1 DEF Fans
    <3> QED BY <2>15, <3>2 DEF R, DeliveryRequests, HasMessage
  <2>17. /\ delivery' = [delivery EXCEPT ![m][u] = st]
         /\ req' = [req EXCEPT ![p] = r]
         /\ UNCHANGED <<sub, blockers, message, pushes, crowded, changes>>
    BY <1>27, <2>1, <2>3, <2>8, <2>11, <2>12, <2>13 DEF MarkDelivery
  <2>18. delivery' = [delivery EXCEPT ![m] = e]
    BY <1>1, <2>4, <2>5, <2>9, <2>17
  <2>19. pushes' = [pushes EXCEPT ![m] = c]
    BY <1>8, <2>4, <2>5, <2>17
  <2>20. Progress(r, e, c)
    <3>1. /\ st = "delivered" => r.ok = q.ok + 1 /\ r.failed = q.failed
          /\ st = "failed" => r.ok = q.ok /\ r.failed = q.failed + 1
      BY <2>2, <2>8, <2>11, <2>16 DEF Marks
    <3>2. r.op = q.op /\ r.todo = q.todo \ {u} /\ (r.at = "push" \/ (r.at = "final" /\ r.todo = {}))
      BY <2>2, <2>3, <2>12, <2>16
    <3>3. e \in [Users -> DeliveryStatuses] /\ c \in [Users -> {0, 1}]
      BY <1>4, <2>5, <2>10
    <3> QED BY <2>3, <2>6, <2>7, <2>10, <3>1, <3>2, <3>3, OneReached
  <2>21. /\ message' \in Seq(Rows) /\ delivery' \in Seq(D) /\ pushes' \in Seq(C)
         /\ Len(delivery') = Len(message') /\ Len(pushes') = Len(message')
         /\ Alone' /\ EachUnderway' /\ EachMessage'
    <3>1. HasMessage(req[p]) /\ req[p].id = m /\ r.op = req[p].op /\ r.id = m
      BY <2>1, <2>2, <2>3, <2>16
    <3>2. req' = [req EXCEPT ![p] = r] /\ UNCHANGED message
      BY <2>17
    <3>3. r \in R /\ HasMessage(r)
      BY <2>16
    <3> QED BY <1>7, <2>10, <2>18, <2>19, <2>20, <3>1, <3>2, <3>3
  <2>22. req' \in [Procs -> R] /\ \A o \in Procs : req'[o] = IF o = p THEN r ELSE req[o]
    BY <1>5, <2>16, <2>17
  <2>23. \A i \in 1..N : delivery'[i] = IF i = m THEN e ELSE delivery[i]
    BY <1>1, <2>4, <2>10, <2>18, ExceptSeq
  <2>24. /\ \A v \in Users : v # u => ScheduledTo(v)' = ScheduledTo(v)
         /\ ScheduledTo(u)' \subseteq ScheduledTo(u) \cup {m}
    BY <2>5, <2>7, <2>10, <2>17, <2>23 DEF ScheduledTo, N
  <2>25. \A o \in Procs, v \in Users : OnTheWay(o, v)' => OnTheWay(o, v) /\ (o = p => v # u)
    BY <2>1, <2>2, <2>3, <2>16, <2>22 DEF OnTheWay
  <2>26. OnTheWay(p, u)
    BY <2>1, <2>2, <2>7 DEF OnTheWay
  <2>27. u \notin crowded => /\ Cardinality(ScheduledTo(u)') <= DailyLimit
                             /\ \A o \in Procs : ~OnTheWay(o, u)'
    <3>1. ASSUME u \notin crowded
          PROVE  /\ Cardinality(ScheduledTo(u)) < DailyLimit
                 /\ \A o \in Procs : OnTheWay(o, u) => o = p
      BY <1>1, <2>7, <2>26, <3>1 DEF LimitKept
    <3>2. Cardinality(ScheduledTo(u)) < DailyLimit => Cardinality(ScheduledTo(u)') <= DailyLimit
      <4>1. PICK s, t : s = ScheduledTo(u) /\ t = ScheduledTo(u)'
        OBVIOUS
      <4>2. IsFiniteSet(s) /\ t \subseteq s \cup {m}
        <5>1. s \subseteq 1..N
          BY <4>1 DEF ScheduledTo, N
        <5>2. IsFiniteSet(1..N)
          BY <1>1, FS_Interval
        <5> QED BY <2>24, <4>1, <5>1, <5>2, FS_Subset
      <4>3. IsFiniteSet(s \cup {m}) /\ Cardinality(s \cup {m}) <= Cardinality(s) + 1
        <5>1. Cardinality(s) \in Nat
          BY <4>2, FS_CardinalityType
        <5>2. /\ IsFiniteSet(s \cup {m})
              /\ Cardinality(s \cup {m}) = IF m \in s THEN Cardinality(s) ELSE Cardinality(s) + 1
          BY <4>2, FS_AddElement
        <5> QED BY <5>1, <5>2
      <4>4. Cardinality(t) <= Cardinality(s \cup {m}) /\ Cardinality(t) \in Nat
            /\ Cardinality(s \cup {m}) \in Nat /\ Cardinality(s) \in Nat
        BY <4>2, <4>3, FS_Subset, FS_CardinalityType
      <4>5. Cardinality(s) < DailyLimit => Cardinality(t) <= DailyLimit
        BY <4>3, <4>4, DeliveryAssumption
      <4> QED BY <4>1, <4>5
    <3> QED BY <2>7, <2>25, <3>1, <3>2
  <2>28. ASSUME NEW v \in Users \ crowded, v # u
         PROVE  /\ Cardinality(ScheduledTo(v)') <= DailyLimit
                /\ \A o \in Procs : OnTheWay(o, v)' =>
                      /\ Cardinality(ScheduledTo(v)') < DailyLimit
                      /\ \A w \in Procs : OnTheWay(w, v)' => w = o
    BY <1>1, <2>24, <2>25, <2>28 DEF LimitKept
  <2>29. LimitKept'
    BY <2>17, <2>27, <2>28 DEF LimitKept
  <2> QED BY <1>1, <1>3, <2>17, <2>21, <2>22, <2>29
<1>28. ASSUME NEW p \in Procs, FinalizeMessage(p)
       PROVE  DeliveryInv'
  <2>1. PICK q \in R : q = req[p]
    BY <1>1
  <2>2. /\ q \in Fans /\ HasMessage(q) /\ q.at \in {"push", "final"}
        /\ q.at = "push" => q.todo = {}
    BY <1>15, <1>28, <2>1 DEF FinalizeMessage, At, HasMessage
  <2>3. PICK m : m = q.id
    OBVIOUS
  <2>4. m \in 1..N /\ \A o \in Procs : HasMessage(req[o]) /\ req[o].id = m => o = p
    BY <1>1, <2>1, <2>2, <2>3 DEF Alone, N
  <2>5. PICK d \in D, c \in C : d = delivery[m] /\ c = pushes[m]
    BY <1>2, <2>4
  <2>6. Midway(q, d, c)
    BY <1>1, <2>1, <2>2, <2>3, <2>5 DEF EachUnderway, Progress
  <2>7. q.todo = {}
    BY <2>2, <2>6 DEF Midway
  <2>8. PICK v \in Rows : v = message[m]
    BY <1>2, <2>4
  <2>9. PICK st \in {"sent", "failed"}, n \in Nat, k \in Nat :
           /\ st = IF q.ok > 0 \/ q.failed = 0 THEN "sent" ELSE "failed"
           /\ n = q.ok + q.failed /\ k = q.ok
    <3>1. q.ok \in Nat /\ q.failed \in Nat
      BY <2>2 DEF Fans
    <3> QED BY <3>1
  <2>10. PICK w : w = [v EXCEPT !.status = st, !.total = n, !.delivered = k]
    OBVIOUS
  <2>11. w \in [by : {v.by}, status : {st}, total : {n}, delivered : {k}]
    <3>1. v \in [by : {v.by}, status : MessageStatuses, total : Nat, delivered : Nat]
      BY <2>8 DEF Rows, MessageRows
    <3> QED BY <2>10, <3>1
  <2>12. w \in Rows /\ w.by = v.by /\ w.status = st /\ w.total = n /\ w.delivered = k
    <3>1. v.by \in {"broadcast", "schedule"}
      BY <1>4, <2>8
    <3> QED BY <2>9, <2>11, <3>1 DEF Rows, MessageRows, MessageStatuses
  <2>13. /\ req' = [req EXCEPT ![p] = Idle] /\ message' = [message EXCEPT ![m] = w]
         /\ UNCHANGED <<sub, blockers, delivery, pushes, crowded, changes>>
    <3>1. message' = [message EXCEPT ![m].status = st, ![m].total = n, ![m].delivered = k]
      BY <1>28, <2>1, <2>3, <2>9 DEF FinalizeMessage
    <3>2. message' = [message EXCEPT ![m] = w]
      BY <1>1, <2>4, <2>8, <2>10, <3>1
    <3> QED BY <1>28, <3>2 DEF FinalizeMessage, Finish
  <2>14. req' \in [Procs -> R] /\ \A o \in Procs : req'[o] = IF o = p THEN Idle ELSE req[o]
    BY <1>2, <1>5, <2>13
  <2>15. /\ message' \in Seq(Rows) /\ Len(message') = N
         /\ \A i \in 1..N : message'[i] = IF i = m THEN w ELSE message[i]
    BY <1>1, <2>4, <2>12, <2>13, ExceptSeq DEF N
  <2>16. \A o \in Procs : HasMessage(req'[o]) =>
            /\ HasMessage(req[o]) /\ req'[o] = req[o] /\ o # p
            /\ req[o].id \in 1..N /\ message'[req[o].id] = message[req[o].id]
    <3>1. ASSUME NEW o \in Procs, HasMessage(req'[o])
          PROVE  HasMessage(req[o]) /\ req'[o] = req[o] /\ o # p
      BY <1>2, <2>14, <3>1
    <3>2. ASSUME NEW o \in Procs, HasMessage(req[o]), o # p
          PROVE  req[o].id \in 1..N /\ req[o].id # m
      BY <1>1, <2>4, <3>2 DEF Alone, N
    <3> QED BY <2>15, <3>1, <3>2
  <2>17. Alone'
    BY <1>1, <2>15, <2>16 DEF Alone, N
  <2>18. EachUnderway'
    BY <1>1, <2>13, <2>16 DEF EachUnderway
  <2>19. Reported(w, d, c)
    BY <2>6, <2>7, <2>9, <2>12, AllReached
  <2>20. EachMessage'
    <3>1. st # "due"
      BY <2>9
    <3> QED BY <1>1, <2>5, <2>12, <2>13, <2>15, <2>19, <3>1 DEF EachMessage, N
  <2>21. \A u \in Users : ScheduledTo(u)' = ScheduledTo(u)
    BY <1>10, <2>8, <2>12, <2>13, <2>15
  <2>22. LimitKept'
    BY <1>2, <1>9, <2>13, <2>14, <2>21
  <2> QED BY <1>1, <1>3, <2>13, <2>14, <2>15, <2>17, <2>18, <2>20, <2>22 DEF N
<1> QED
  BY <1>16, <1>17, <1>18, <1>19, <1>20, <1>21, <1>22, <1>23, <1>24, <1>25, <1>26,
     <1>27, <1>28
     DEF DeliveryNext, BusinessStep, DeliverJobStep

\* A new platform has no messages.
LEMMA DeliveryInitial ==
    ASSUME ReqInit, DeliveryInit
    PROVE  DeliveryInv
<1>1. /\ req = [p \in Procs |-> Idle] /\ blockers = {} /\ message = <<>> /\ delivery = <<>>
      /\ pushes = <<>> /\ crowded = {} /\ changes = 0 /\ sub \in [Users -> {"none", "active"}]
  BY DEF ReqInit, DeliveryInit
<1>2. \A p \in Procs : req[p] = Idle /\ req[p].op = "idle" /\ ~HasMessage(req[p])
  BY <1>1 DEF Idle, HasMessage
<1>3. req \in [Procs -> DeliveryRequests]
  BY <1>1 DEF DeliveryRequests
<1>4. sub \in [Users -> SubStatuses]
  BY <1>1 DEF SubStatuses
<1>5. /\ message \in Seq(MessageRows) /\ delivery \in Seq(DeliveryRows) /\ pushes \in Seq(PushCounts)
      /\ Len(message) = 0 /\ Len(delivery) = 0 /\ Len(pushes) = 0
  BY <1>1
<1>6. changes \in 0..MaxChanges
  BY <1>1, DeliveryAssumption
<1>7. Alone /\ EachUnderway /\ EachMessage
  BY <1>2, <1>5 DEF Alone, EachUnderway, EachMessage
<1>8. LimitKept
  <2>1. ASSUME NEW u \in Users
        PROVE  Cardinality(ScheduledTo(u)) <= DailyLimit
    <3>1. ScheduledTo(u) = {}
      BY <1>5 DEF ScheduledTo
    <3>2. Cardinality({}) = 0
      BY FS_EmptySet
    <3> QED BY <3>1, <3>2, DeliveryAssumption
  <2>2. \A p \in Procs, u \in Users : ~OnTheWay(p, u)
    BY <1>2 DEF OnTheWay
  <2> QED BY <2>1, <2>2 DEF LimitKept
<1> QED BY <1>1, <1>3, <1>4, <1>5, <1>6, <1>7, <1>8 DEF DeliveryInv

-----------------------------------------------------------------------------
(* Standing.                                                               *)

\* The rows, and what a request can have in hand.
Scores == 0..100
HistoryRows == [old : Scores, new : Scores, by : {"api", "worker"}, decisions : Nat]
AppealRows == [subject : Subjects, status : {"submitted"} \cup Verdicts]
StandingRequests ==
         {Idle}
    \cup [op: {"persist"}, at: {"compute"}, new: {Null}, old: {Null}]
    \cup [op: {"persist"}, at: {"read"}, new: Scores, old: {Null}]
    \cup [op: {"persist"}, at: {"update", "history"}, new: Scores, old: Scores]
    \cup [op: {"recompute"}, at: {"apply"}, new: Scores, old: {Null}]
    \cup [op: {"admin"}, at: {"log"}]
    \cup [op: {"appeal"}, at: {"create"}, subject: Subjects]

LastOf(h) == IF h = <<>> THEN 65 ELSE h[Len(h)].new
Chained(h) == \A i \in 2..Len(h) : h[i].old = h[i - 1].new

\* As long as the API has not rewritten a score across another writer: one
\* request at most has a history row to write, which continues the history up
\* to the score; and who is about to write has read the score that stands.
ScoreOnRecord ==
    ~rewritten =>
       /\ Recorded => LastOf(history) = score
       /\ Chained(history)
       /\ \A p \in Procs : At(p, "persist", "update") => req[p].old = score
       /\ \A p \in Procs : At(p, "persist", "history") =>
             /\ req[p].new = score /\ req[p].old = LastOf(history)
             /\ \A q \in Procs : At(q, "persist", "history") => q = p

\* A row was written after as many decisions as there are, or fewer.
RowsAreDated == \A i \in 1..Len(history) : history[i].decisions <= decisions
\* A drop that no decision has followed is under review.
DropIsReviewed ==
    \A i \in 1..Len(history) :
       i = Len(history) /\ history[i].by = "worker" /\ history[i].decisions = decisions
          /\ history[i].old >= ReviewThreshold /\ history[i].new < ReviewThreshold => review

\* Every decision is in the audit log, about to be, or lost with its request.
Logging == {p \in Procs : At(p, "admin", "log")}
DecisionsAreLogged == decisions - audit - Cardinality(Logging) \in 0..deaths

\* While none was filed at once or reopened: one request at most is about to
\* file an appeal, and the open ones are none of its subject's.
AppealsApart ==
    ~stacked =>
       /\ \A i, j \in 1..Len(appeals) :
             IsOpen(appeals[i]) /\ IsOpen(appeals[j]) /\ i # j =>
                appeals[i].subject \cap appeals[j].subject = {}
       /\ \A p \in Procs : req[p].op = "appeal" =>
             /\ \A q \in Procs : req[q].op = "appeal" => q = p
             /\ \A i \in 1..Len(appeals) :
                   IsOpen(appeals[i]) => appeals[i].subject \cap req[p].subject = {}

\* The invariant of the service.
StandingInv ==
    /\ req \in [Procs -> StandingRequests] /\ deaths \in Nat
    /\ completed \subseteq DOMAIN Weights /\ score \in Scores /\ review \in BOOLEAN
    /\ history \in Seq(HistoryRows) /\ appeals \in Seq(AppealRows)
    /\ decisions \in Nat /\ audit \in Nat
    /\ rewritten \in BOOLEAN /\ stacked \in BOOLEAN
    /\ tier = ScoreToTier(score)
    /\ ScoreOnRecord /\ RowsAreDated /\ DropIsReviewed /\ DecisionsAreLogged /\ AppealsApart

\* The invariant includes the property that is checked.
LEMMA StandingSafe ==
    ASSUME StandingInv
    PROVE  StandingIsOnRecord
<1>1. /\ history \in Seq(HistoryRows) /\ appeals \in Seq(AppealRows)
      /\ tier = ScoreToTier(score)
      /\ ScoreOnRecord /\ DropIsReviewed /\ DecisionsAreLogged /\ AppealsApart
  BY DEF StandingInv
<1>2. DOMAIN history = 1..Len(history) /\ DOMAIN appeals = 1..Len(appeals)
  BY <1>1
<1>3. LastScore = LastOf(history)
  BY DEF LastScore, LastOf
<1>4. ~rewritten =>
         /\ Recorded => LastScore = score
         /\ \A i \in 2..Len(history) : history[i].old = history[i - 1].new
  BY <1>1, <1>3 DEF ScoreOnRecord, Chained
<1>5. \A i \in DOMAIN history :
         i = Len(history) /\ history[i].by = "worker" /\ history[i].decisions = decisions
            /\ history[i].old >= ReviewThreshold /\ history[i].new < ReviewThreshold => review
  BY <1>1, <1>2 DEF DropIsReviewed
<1>6. decisions - audit - Cardinality({p \in Procs : At(p, "admin", "log")}) \in 0..deaths
  BY <1>1 DEF DecisionsAreLogged, Logging
<1>7. ~stacked => \A i, j \in DOMAIN appeals :
         IsOpen(appeals[i]) /\ IsOpen(appeals[j]) /\ i # j =>
            appeals[i].subject \cap appeals[j].subject = {}
  BY <1>1, <1>2 DEF AppealsApart
<1> QED BY <1>1, <1>4, <1>5, <1>6, <1>7 DEF StandingIsOnRecord

\* A row that begins where the history ends continues it.
LEMMA RowContinues ==
    ASSUME NEW h \in Seq(HistoryRows), NEW w \in HistoryRows
    PROVE  /\ Append(h, w) \in Seq(HistoryRows)
           /\ Len(Append(h, w)) = Len(h) + 1 /\ Len(h) \in Nat
           /\ \A i \in 1..Len(h) : Append(h, w)[i] = h[i]
           /\ Append(h, w)[Len(h) + 1] = w
           /\ LastOf(Append(h, w)) = w.new
           /\ Chained(h) /\ w.old = LastOf(h) => Chained(Append(h, w))
<1>1. /\ Append(h, w) \in Seq(HistoryRows) /\ Append(h, w) # <<>>
      /\ Len(Append(h, w)) = Len(h) + 1 /\ Len(h) \in Nat
      /\ \A i \in 1..Len(h) : Append(h, w)[i] = h[i]
      /\ Append(h, w)[Len(h) + 1] = w
  BY AppendProperties, LenProperties
<1>2. LastOf(Append(h, w)) = w.new
  BY <1>1 DEF LastOf
<1>3. ASSUME Chained(h), w.old = LastOf(h), NEW i \in 2..Len(h) + 1
      PROVE  Append(h, w)[i].old = Append(h, w)[i - 1].new
  <2>1. CASE i <= Len(h)
    <3>1. i \in 1..Len(h) /\ i - 1 \in 1..Len(h) /\ i \in 2..Len(h)
      BY <1>1, <1>3, <2>1
    <3>2. h[i].old = h[i - 1].new
      BY <1>3, <3>1 DEF Chained
    <3> QED BY <1>1, <3>1, <3>2
  <2>2. CASE i = Len(h) + 1
    <3>1. i - 1 = Len(h) /\ Len(h) \in 1..Len(h)
      BY <1>1, <1>3, <2>2
    <3>2. h # <<>>
      BY <3>1
    <3>3. w.old = h[Len(h)].new
      BY <1>3, <3>2 DEF LastOf
    <3> QED BY <1>1, <2>2, <3>1, <3>3
  <2> QED BY <1>1, <1>3, <2>1, <2>2
<1> QED BY <1>1, <1>2, <1>3 DEF Chained

\* Every step of the service keeps its invariant.
LEMMA StandingKept ==
    ASSUME StandingInv, [StandingNext]_<<reqVars, standingVars>>
    PROVE  StandingInv'
<1> DEFINE R == StandingRequests
           Row == HistoryRows
           Filed == AppealRows
<1>1. /\ req \in [Procs -> R] /\ deaths \in Nat
      /\ completed \subseteq DOMAIN Weights /\ score \in Scores /\ review \in BOOLEAN
      /\ history \in Seq(Row) /\ appeals \in Seq(Filed)
      /\ decisions \in Nat /\ audit \in Nat
      /\ rewritten \in BOOLEAN /\ stacked \in BOOLEAN
      /\ tier = ScoreToTier(score)
      /\ ScoreOnRecord /\ RowsAreDated /\ DropIsReviewed /\ DecisionsAreLogged /\ AppealsApart
  BY DEF StandingInv
<1>2. /\ Idle \in R /\ Idle.op = "idle"
  BY DEF StandingRequests, Idle
<1>3. ASSUME req' \in [Procs -> R], deaths' \in Nat,
             completed' \subseteq DOMAIN Weights, score' \in Scores, review' \in BOOLEAN,
             history' \in Seq(Row), appeals' \in Seq(Filed), decisions' \in Nat, audit' \in Nat,
             rewritten' \in BOOLEAN, stacked' \in BOOLEAN, tier' = ScoreToTier(score'),
             ScoreOnRecord', RowsAreDated', DropIsReviewed', DecisionsAreLogged', AppealsApart'
      PROVE  StandingInv'
  BY <1>3 DEF StandingInv
<1>4. /\ IsFiniteSet(Logging) /\ Cardinality(Logging) \in Nat
      /\ \A p \in Procs : p \in Logging <=> At(p, "admin", "log")
  <2>1. Logging \subseteq Procs
    BY DEF Logging
  <2> QED BY <2>1, ProcsAssumption, FS_Subset, FS_CardinalityType DEF Logging
<1>5. ClampScore(VerificationPoints) \in Scores
      /\ \A d \in Deltas : WorkerScore(d) \in Scores
  <2>1. PointsOf(completed) \in Int
    BY <1>1, PointsAreIntegers
  <2>2. \A d \in Deltas : PointsOf(completed) + d \in Int
    BY <2>1, StandingAssumption
  <2> QED BY <2>1, <2>2, ClampedIsAScore DEF Scores, VerificationPoints, WorkerScore
<1> HIDE DEF R, Row, Filed
\* One request moves on.
<1>6. ASSUME NEW p \in Procs, NEW r \in R, req' = [req EXCEPT ![p] = r]
      PROVE  /\ req' \in [Procs -> R]
             /\ \A q \in Procs : req'[q] = IF q = p THEN r ELSE req[q]
  BY <1>1, <1>6
\* ... which has no history row in hand, and gets none.
<1>7. ASSUME NEW p \in Procs, NEW r \in R, req' = [req EXCEPT ![p] = r],
             UNCHANGED <<score, history, rewritten>>, ~At(p, "persist", "history"),
             r.op = "persist" => \/ r.at \in {"compute", "read"}
                                 \/ r.at = "update" /\ r.old = score
      PROVE  ScoreOnRecord'
  <2>1. \A q \in Procs : req'[q] = IF q = p THEN r ELSE req[q]
    BY <1>6, <1>7
  <2>2. \A q \in Procs : At(q, "persist", "history")' <=> At(q, "persist", "history")
    BY <1>7, <2>1 DEF At
  <2>3. \A q \in Procs : At(q, "persist", "history") => req'[q] = req[q]
    BY <1>7, <2>1
  <2>4. Recorded' <=> Recorded
    BY <2>2 DEF Recorded
  <2>5. \A q \in Procs : At(q, "persist", "update")' =>
           \/ q # p /\ At(q, "persist", "update") /\ req'[q] = req[q]
           \/ q = p /\ req'[q].old = score
    BY <1>7, <2>1 DEF At
  <2> QED BY <1>1, <1>7, <2>2, <2>3, <2>4, <2>5 DEF ScoreOnRecord
\* ... which neither has decided nor decides.
<1>8. ASSUME NEW p \in Procs, NEW r \in R, req' = [req EXCEPT ![p] = r],
             UNCHANGED <<decisions, audit, deaths>>, ~At(p, "admin", "log"), r.op # "admin"
      PROVE  DecisionsAreLogged'
  <2>1. \A q \in Procs : req'[q] = IF q = p THEN r ELSE req[q]
    BY <1>6, <1>8
  <2>2. Logging' = Logging
    BY <1>8, <2>1 DEF Logging, At
  <2> QED BY <1>1, <1>8, <2>2 DEF DecisionsAreLogged
\* ... which files no appeal.
<1>9. ASSUME NEW p \in Procs, NEW r \in R, req' = [req EXCEPT ![p] = r],
             UNCHANGED <<appeals, stacked>>, r.op # "appeal"
      PROVE  AppealsApart'
  <2>1. \A q \in Procs : req'[q] = IF q = p THEN r ELSE req[q]
    BY <1>6, <1>9
  <2>2. \A q \in Procs : req'[q].op = "appeal" => req[q].op = "appeal" /\ req'[q] = req[q]
    BY <1>9, <2>1
  <2> QED BY <1>1, <1>9, <2>2 DEF AppealsApart
<1>10. ASSUME UNCHANGED <<history, decisions>>, review => review'
       PROVE  RowsAreDated' /\ DropIsReviewed'
  BY <1>1, <1>10 DEF RowsAreDated, DropIsReviewed
\* A request between two of its reads.
<1>11. ASSUME NEW p \in Procs, NEW r \in R, req' = [req EXCEPT ![p] = r],
              UNCHANGED <<score, tier, review, status, history, decisions, audit,
                          appeals, stacked, rewritten, deaths>>,
              completed' \subseteq DOMAIN Weights,
              req[p].op # "admin", r.op \notin {"admin", "appeal"}, ~At(p, "persist", "history"),
              r.op = "persist" => \/ r.at \in {"compute", "read"}
                                  \/ r.at = "update" /\ r.old = score
       PROVE  StandingInv'
  <2>1. req' \in [Procs -> R]
    BY <1>6, <1>11
  <2>2. ScoreOnRecord'
    BY <1>7, <1>11
  <2>3. ~At(p, "admin", "log")
    BY <1>11 DEF At
  <2>4. DecisionsAreLogged'
    BY <1>8, <1>11, <2>3
  <2>5. AppealsApart'
    BY <1>9, <1>11
  <2>6. RowsAreDated' /\ DropIsReviewed'
    BY <1>10, <1>11
  <2> QED BY <1>1, <1>3, <1>11, <2>1, <2>2, <2>4, <2>5, <2>6
<1>12. ASSUME NEW p \in Procs, NEW r, StartWork(p, r)
       PROVE  /\ req' = [req EXCEPT ![p] = r] /\ deaths' = deaths /\ req[p].op = "idle"
              /\ ~At(p, "persist", "history") /\ ~At(p, "admin", "log")
  BY <1>2, <1>12 DEF StartWork, Enter, At
<1>13. ASSUME NEW p \in Procs, SetAvatar(p)
       PROVE  StandingInv'
  <2>1. PICK r : r = Scoring("persist", "compute", Null)
    OBVIOUS
  <2>2. r \in R /\ r.op = "persist" /\ r.at = "compute"
    BY <2>1 DEF Scoring, R, StandingRequests
  <2>3. /\ UNCHANGED <<score, tier, review, status, history, decisions, audit,
                       appeals, stacked, rewritten>>
        /\ StartWork(p, r)
    BY <1>13, <2>1 DEF SetAvatar, userRow, appealVars
  <2>4. /\ req' = [req EXCEPT ![p] = r] /\ deaths' = deaths /\ req[p].op = "idle"
        /\ ~At(p, "persist", "history")
    BY <1>12, <2>3
  <2>5. completed' \subseteq DOMAIN Weights
    <3>1. "profile_complete" \in DOMAIN Weights
      BY DEF Weights
    <3> QED BY <1>1, <1>13, <3>1 DEF SetAvatar
  <2> QED BY <1>11, <2>2, <2>3, <2>4, <2>5
<1>14. ASSUME AccountAges
       PROVE  StandingInv'
  <2>1. UNCHANGED <<req, deaths, score, tier, review, status, history, decisions, audit,
                    appeals, stacked, rewritten>>
    BY <1>14 DEF AccountAges, userRow, appealVars, reqVars
  <2>2. completed' \subseteq DOMAIN Weights
    <3>1. "account_age" \in DOMAIN Weights
      BY DEF Weights
    <3> QED BY <1>1, <1>14, <3>1 DEF AccountAges
  <2>3. ScoreOnRecord'
    BY <1>1, <2>1 DEF ScoreOnRecord, Recorded, At
  <2>4. DecisionsAreLogged'
    BY <1>1, <2>1 DEF DecisionsAreLogged, Logging, At
  <2>5. AppealsApart'
    BY <1>1, <2>1 DEF AppealsApart
  <2>6. RowsAreDated' /\ DropIsReviewed'
    BY <1>10, <2>1
  <2> QED BY <1>1, <1>3, <2>1, <2>2, <2>3, <2>4, <2>5, <2>6
<1>15. ASSUME NEW p \in Procs, PersistCompute(p)
       PROVE  StandingInv'
  <2>1. PICK n \in Scores : n = ClampScore(VerificationPoints)
    BY <1>5
  <2>2. PICK q \in R : q = req[p]
    BY <1>1
  <2>3. PICK r : r = [q EXCEPT !.at = "read", !.new = n]
    OBVIOUS
  <2>4. q.op = "persist" /\ q.at = "compute"
    BY <1>15, <2>2 DEF PersistCompute, At
  <2>5. q \in [op: {"persist"}, at: {"compute"}, new: {Null}, old: {Null}]
    BY <2>4 DEF R, StandingRequests, Idle
  <2>6. r \in [op: {"persist"}, at: {"read"}, new: {n}, old: {Null}]
    BY <2>3, <2>5
  <2>7. r \in R /\ r.op = "persist" /\ r.at = "read"
    BY <2>6 DEF R, StandingRequests
  <2>8. req' = [req EXCEPT ![p] = r]
    BY <1>1, <1>15, <2>1, <2>2, <2>3 DEF PersistCompute
  <2>9. UNCHANGED <<completed, score, tier, review, status, history, decisions, audit,
                    appeals, stacked, rewritten, deaths>>
    BY <1>15 DEF PersistCompute, standingVars
  <2>10. req[p].op # "admin" /\ ~At(p, "persist", "history")
    BY <2>2, <2>4 DEF At
  <2> QED BY <1>1, <1>11, <2>7, <2>8, <2>9, <2>10
<1>16. ASSUME NEW p \in Procs, PersistRead(p)
       PROVE  StandingInv'
  <2>1. PICK q \in R : q = req[p]
    BY <1>1
  <2>2. q.op = "persist" /\ q.at = "read"
    BY <1>16, <2>1 DEF PersistRead, At
  <2>3. /\ req[p].op # "admin" /\ ~At(p, "persist", "history")
        /\ UNCHANGED <<completed, score, tier, review, status, history, decisions, audit,
                       appeals, stacked, rewritten, deaths>>
    BY <1>16, <2>1, <2>2 DEF PersistRead, standingVars, At
  <2>4. CASE score = req[p].new
    <3>1. req' = [req EXCEPT ![p] = Idle]
      BY <1>16, <2>4 DEF PersistRead
    <3> QED BY <1>1, <1>2, <1>11, <2>3, <3>1
  <2>5. CASE score # req[p].new
    <3>1. PICK n \in Scores : n = score
      BY <1>1
    <3>2. PICK r : r = [q EXCEPT !.at = "update", !.old = n]
      OBVIOUS
    <3>3. q \in [op: {"persist"}, at: {"read"}, new: Scores, old: {Null}]
      BY <2>2 DEF R, StandingRequests, Idle
    <3>4. r \in [op: {"persist"}, at: {"update"}, new: Scores, old: {n}]
      BY <3>2, <3>3
    <3>5. r \in R /\ r.op = "persist" /\ r.at = "update" /\ r.old = score
      BY <3>1, <3>4 DEF R, StandingRequests
    <3>6. req' = [req EXCEPT ![p] = r]
      BY <1>1, <1>16, <2>1, <2>5, <3>1, <3>2 DEF PersistRead
    <3> QED BY <1>1, <1>11, <2>3, <3>5, <3>6
  <2> QED BY <2>4, <2>5
\* Who writes alone has read the score that the history ends at.
<1>17. ASSUME NEW p \in Procs, PersistUpdate(p)
       PROVE  StandingInv'
  <2>1. PICK q \in R : q = req[p]
    BY <1>1
  <2>2. q.op = "persist" /\ q.at = "update" /\ At(p, "persist", "update")
    BY <1>17, <2>1 DEF PersistUpdate, At
  <2>3. PICK r : r = [q EXCEPT !.at = "history"]
    OBVIOUS
  <2>4. q \in [op: {"persist"}, at: {"update", "history"}, new: Scores, old: Scores]
    BY <2>2 DEF R, StandingRequests, Idle
  <2>5. /\ r \in [op: {"persist"}, at: {"history"}, new: Scores, old: Scores]
        /\ r.new = q.new /\ r.old = q.old
    BY <2>3, <2>4
  <2>6. r \in R /\ r.op = "persist" /\ r.at = "history"
    BY <2>5 DEF R, StandingRequests
  <2>7. /\ req' = [req EXCEPT ![p] = r]
        /\ score' = q.new /\ tier' = ScoreToTier(score')
        /\ rewritten' = (rewritten \/ Rewriting(p))
        /\ UNCHANGED <<completed, review, status, history, decisions, audit, appeals, stacked, deaths>>
    BY <1>1, <1>17, <2>1, <2>3 DEF PersistUpdate, Goto, appealVars
  <2>8. req' \in [Procs -> R] /\ \A o \in Procs : req'[o] = IF o = p THEN r ELSE req[o]
    BY <1>6, <2>6, <2>7
  <2>9. DecisionsAreLogged' /\ AppealsApart' /\ RowsAreDated' /\ DropIsReviewed'
    <3>1. ~At(p, "admin", "log")
      BY <2>1, <2>2 DEF At
    <3>2. DecisionsAreLogged'
      BY <1>8, <2>6, <2>7, <3>1
    <3>3. AppealsApart'
      BY <1>9, <2>6, <2>7
    <3> QED BY <1>10, <2>7, <3>2, <3>3
  <2>10. ASSUME ~rewritten'
         PROVE  /\ ~Recorded' /\ Chained(history)
                /\ \A o \in Procs : ~At(o, "persist", "update")'
                /\ \A o \in Procs : At(o, "persist", "history")' => o = p
                /\ r.new = score' /\ r.old = LastOf(history)
    <3>1. ~rewritten /\ \A o \in Procs : o # p =>
             ~At(o, "persist", "update") /\ ~At(o, "persist", "history")
      BY <2>7, <2>10 DEF Rewriting, At
    <3>2. Recorded
      BY <2>1, <2>2, <3>1 DEF Recorded, At
    <3>3. LastOf(history) = score /\ Chained(history) /\ q.old = score
      BY <1>1, <2>1, <2>2, <3>1, <3>2 DEF ScoreOnRecord
    <3>4. /\ \A o \in Procs : ~At(o, "persist", "update")'
          /\ \A o \in Procs : At(o, "persist", "history")' <=> o = p
      BY <2>6, <2>8, <3>1 DEF At
    <3>5. ~Recorded'
      BY <3>4 DEF Recorded
    <3> QED BY <2>5, <2>7, <3>3, <3>4, <3>5
  <2>11. ScoreOnRecord'
    BY <2>7, <2>8, <2>10 DEF ScoreOnRecord
  <2>12. rewritten' \in BOOLEAN /\ score' \in Scores
    BY <2>4, <2>7
  <2> QED BY <1>1, <1>3, <2>7, <2>8, <2>9, <2>11, <2>12
<1>18. ASSUME NEW p \in Procs, PersistHistory(p)
       PROVE  StandingInv'
  <2>1. PICK q \in R : q = req[p]
    BY <1>1
  <2>2. q.op = "persist" /\ q.at = "history" /\ At(p, "persist", "history")
    BY <1>18, <2>1 DEF PersistHistory, At
  <2>3. q \in [op: {"persist"}, at: {"update", "history"}, new: Scores, old: Scores]
    BY <2>2 DEF R, StandingRequests, Idle
  <2>4. PICK w : w = HistoryRow(q.old, q.new, "api")
    OBVIOUS
  <2>5. w \in Row /\ w.old = q.old /\ w.new = q.new /\ w.by = "api" /\ w.decisions = decisions
    BY <1>1, <2>3, <2>4 DEF HistoryRow, Row, HistoryRows
  <2>6. /\ req' = [req EXCEPT ![p] = Idle] /\ history' = Append(history, w)
        /\ UNCHANGED <<completed, score, tier, review, status, decisions, audit,
                       appeals, stacked, rewritten, deaths>>
    BY <1>18, <2>1, <2>4 DEF PersistHistory, Finish, userRow, appealVars
  <2>7. req' \in [Procs -> R] /\ \A o \in Procs : req'[o] = IF o = p THEN Idle ELSE req[o]
    BY <1>2, <1>6, <2>6
  <2>8. /\ history' \in Seq(Row) /\ Len(history') = Len(history) + 1 /\ Len(history) \in Nat
        /\ \A i \in 1..Len(history) : history'[i] = history[i]
        /\ history'[Len(history) + 1] = w /\ LastOf(history') = w.new
        /\ Chained(history) /\ w.old = LastOf(history) => Chained(history')
    BY <1>1, <2>5, <2>6, RowContinues DEF Row
  <2>9. RowsAreDated' /\ DropIsReviewed'
    <3>1. \A i \in 1..Len(history') : i \in 1..Len(history) \/ i = Len(history) + 1
      BY <2>8
    <3>2. decisions <= decisions
      BY <1>1
    <3>3. RowsAreDated'
      BY <1>1, <2>5, <2>6, <2>8, <3>1, <3>2 DEF RowsAreDated
    <3>4. DropIsReviewed'
      BY <2>5, <2>8 DEF DropIsReviewed
    <3> QED BY <3>3, <3>4
  <2>10. ~At(p, "admin", "log")
    BY <2>1, <2>2 DEF At
  <2>11. DecisionsAreLogged'
    BY <1>2, <1>8, <2>6, <2>10
  <2>12. AppealsApart'
    BY <1>2, <1>9, <2>6
  <2>13. ASSUME ~rewritten
         PROVE  /\ LastOf(history') = score /\ Chained(history')
                /\ \A o \in Procs : ~At(o, "persist", "history")'
                /\ \A o \in Procs : At(o, "persist", "update")' =>
                      At(o, "persist", "update") /\ req'[o] = req[o]
    <3>1. /\ q.new = score /\ q.old = LastOf(history) /\ Chained(history)
          /\ \A o \in Procs : At(o, "persist", "history") => o = p
      BY <1>1, <2>1, <2>2, <2>13 DEF ScoreOnRecord
    <3>2. /\ \A o \in Procs : At(o, "persist", "history")' => o # p /\ At(o, "persist", "history")
          /\ \A o \in Procs : At(o, "persist", "update")' =>
                      At(o, "persist", "update") /\ req'[o] = req[o]
      BY <1>2, <2>7 DEF At
    <3> QED BY <2>5, <2>8, <3>1, <3>2
  <2>14. ScoreOnRecord'
    BY <1>1, <2>6, <2>13 DEF ScoreOnRecord
  <2> QED BY <1>1, <1>3, <2>6, <2>7, <2>8, <2>9, <2>11, <2>12, <2>14
<1>19. ASSUME NEW p \in Procs, Recompute(p)
       PROVE  StandingInv'
  <2>1. PICK d \in Deltas : StartWork(p, Scoring("recompute", "apply", WorkerScore(d)))
    BY <1>19 DEF Recompute
  <2>2. PICK r : r = Scoring("recompute", "apply", WorkerScore(d))
    OBVIOUS
  <2>3. r \in R /\ r.op = "recompute"
    BY <1>5, <2>2 DEF Scoring, R, StandingRequests
  <2>4. /\ req' = [req EXCEPT ![p] = r] /\ deaths' = deaths /\ req[p].op = "idle"
        /\ ~At(p, "persist", "history")
    BY <1>12, <2>1, <2>2
  <2>5. UNCHANGED <<completed, score, tier, review, status, history, decisions, audit,
                    appeals, stacked, rewritten>>
    BY <1>19 DEF Recompute, userRow, appealVars
  <2> QED BY <1>1, <1>11, <2>3, <2>4, <2>5
\* The worker reads and writes under one lock; a new row is marked by its review.
<1>20. ASSUME NEW p \in Procs, ApplyRecompute(p)
       PROVE  StandingInv'
  <2>1. PICK q \in R : q = req[p]
    BY <1>1
  <2>2. q.op = "recompute" /\ ~At(p, "persist", "history") /\ ~At(p, "admin", "log")
    BY <1>20, <2>1 DEF ApplyRecompute, At
  <2>3. q.new \in Scores
    BY <2>2 DEF R, StandingRequests, Idle
  <2>4. PICK override \in BOOLEAN :
           review' = (review \/ override \/ (score >= ReviewThreshold /\ q.new < ReviewThreshold))
    BY <1>20, <2>1 DEF ApplyRecompute
  <2>5. /\ req' = [req EXCEPT ![p] = Idle] /\ score' = q.new /\ tier' = ScoreToTier(score')
        /\ rewritten' = (rewritten \/ (score # q.new /\ Rewriting(p)))
        /\ UNCHANGED <<completed, status, decisions, audit, appeals, stacked, deaths>>
    BY <1>20, <2>1 DEF ApplyRecompute, Finish, appealVars
  <2>6. req' \in [Procs -> R] /\ \A o \in Procs : req'[o] = IF o = p THEN Idle ELSE req[o]
    BY <1>2, <1>6, <2>5
  <2>7. DecisionsAreLogged' /\ AppealsApart'
    BY <1>2, <1>8, <1>9, <2>2, <2>5
  <2>8. score' \in Scores /\ review' \in BOOLEAN /\ rewritten' \in BOOLEAN
    BY <2>3, <2>4, <2>5
  <2>9. CASE score = q.new
    <3>1. UNCHANGED <<score, history, rewritten>>
      BY <1>1, <1>20, <2>1, <2>5, <2>9 DEF ApplyRecompute
    <3>2. ScoreOnRecord'
      BY <1>2, <1>7, <2>2, <2>5, <3>1
    <3>3. review => review'
      BY <2>4
    <3>4. RowsAreDated' /\ DropIsReviewed'
      BY <1>10, <2>5, <3>1, <3>3
    <3> QED BY <1>1, <1>3, <2>5, <2>6, <2>7, <2>8, <3>1, <3>2, <3>4
  <2>10. CASE score # q.new
    <3>1. PICK w : w = HistoryRow(score, q.new, "worker")
      OBVIOUS
    <3>2. w \in Row /\ w.old = score /\ w.new = q.new
      BY <1>1, <2>3, <3>1 DEF HistoryRow, Row, HistoryRows
    <3>3. w.decisions = decisions
      BY <3>1 DEF HistoryRow
    <3>4. history' = Append(history, w)
      BY <1>20, <2>1, <2>10, <3>1 DEF ApplyRecompute
    <3>5. /\ history' \in Seq(Row) /\ Len(history') = Len(history) + 1 /\ Len(history) \in Nat
          /\ \A i \in 1..Len(history) : history'[i] = history[i]
          /\ history'[Len(history) + 1] = w /\ LastOf(history') = w.new
          /\ Chained(history) /\ w.old = LastOf(history) => Chained(history')
      BY <1>1, <3>2, <3>4, RowContinues DEF Row
    <3>6. \A i \in 1..Len(history') : i \in 1..Len(history) \/ i = Len(history) + 1
      BY <3>5
    <3>7. decisions <= decisions
      BY <1>1
    <3>8. RowsAreDated'
      BY <1>1, <2>5, <3>3, <3>5, <3>6, <3>7 DEF RowsAreDated
    <3>9. w.old >= ReviewThreshold /\ w.new < ReviewThreshold => review'
      BY <2>4, <3>2
    <3>10. DropIsReviewed'
      BY <3>5, <3>9 DEF DropIsReviewed
    <3>11. ASSUME ~rewritten'
           PROVE  /\ \A o \in Procs : ~At(o, "persist", "update")' /\ ~At(o, "persist", "history")'
                  /\ LastOf(history') = score' /\ Chained(history')
      <4>1. ~rewritten /\ \A o \in Procs : o # p =>
               ~At(o, "persist", "update") /\ ~At(o, "persist", "history")
        BY <2>5, <2>10, <3>11 DEF Rewriting, At
      <4>2. Recorded
        BY <2>2, <4>1 DEF Recorded
      <4>3. LastOf(history) = score /\ Chained(history)
        BY <1>1, <4>1, <4>2 DEF ScoreOnRecord
      <4>4. \A o \in Procs : ~At(o, "persist", "update")' /\ ~At(o, "persist", "history")'
        BY <1>2, <2>6, <4>1 DEF At
      <4> QED BY <2>5, <3>2, <3>5, <4>3, <4>4
    <3>12. ScoreOnRecord'
      BY <3>11 DEF ScoreOnRecord
    <3> QED BY <1>1, <1>3, <2>5, <2>6, <2>7, <2>8, <3>5, <3>8, <3>10, <3>12
  <2> QED BY <2>9, <2>10
\* An admin decides: the history rows become older, the audit row is to come.
<1>21. ASSUME NEW p \in Procs, req' = [req EXCEPT ![p] = [op |-> "admin", at |-> "log"]],
              decisions' = decisions + 1, req[p].op = "idle",
              UNCHANGED <<score, history, audit, rewritten, deaths>>
       PROVE  /\ req' \in [Procs -> R] /\ ScoreOnRecord' /\ RowsAreDated' /\ DropIsReviewed'
              /\ DecisionsAreLogged' /\ decisions' \in Nat
              /\ \A q \in Procs : req'[q].op = "appeal" => req[q].op = "appeal" /\ req'[q] = req[q]
  <2>1. PICK r : r = [op |-> "admin", at |-> "log"]
    OBVIOUS
  <2>2. r \in R /\ r.op = "admin" /\ r.at = "log" /\ req' = [req EXCEPT ![p] = r]
    BY <1>21, <2>1 DEF R, StandingRequests
  <2>3. req' \in [Procs -> R] /\ \A q \in Procs : req'[q] = IF q = p THEN r ELSE req[q]
    BY <1>6, <2>2
  <2>4. ~At(p, "persist", "history") /\ ~At(p, "admin", "log")
    BY <1>21 DEF At
  <2>5. ScoreOnRecord'
    BY <1>7, <1>21, <2>2, <2>4
  <2>6. \A i \in 1..Len(history) : history[i].decisions \in Nat /\ history[i].decisions <= decisions
    <3>1. \A i \in 1..Len(history) : history[i] \in Row
      BY <1>1, ElementOfSeq
    <3>2. \A w \in Row : w.decisions \in Nat
      BY DEF Row, HistoryRows
    <3> QED BY <1>1, <3>1, <3>2 DEF RowsAreDated
  <2>7. \A n \in Nat : n <= decisions => n <= decisions' /\ n # decisions'
    BY <1>1, <1>21
  <2>8. RowsAreDated' /\ DropIsReviewed'
    BY <1>21, <2>6, <2>7 DEF RowsAreDated, DropIsReviewed
  <2>9. Logging' = Logging \cup {p} /\ p \notin Logging
    BY <2>2, <2>3, <2>4 DEF Logging, At
  <2>10. Cardinality(Logging') = Cardinality(Logging) + 1
    BY <1>4, <2>9, FS_AddElement
  <2>11. DecisionsAreLogged'
    BY <1>1, <1>4, <1>21, <2>10 DEF DecisionsAreLogged
  <2>12. \A q \in Procs : req'[q].op = "appeal" => req[q].op = "appeal" /\ req'[q] = req[q]
    BY <2>2, <2>3
  <2> QED BY <1>1, <1>21, <2>3, <2>5, <2>8, <2>11, <2>12
<1>22. ASSUME NEW p \in Procs, NEW action \in DOMAIN ModeratedTo, ModerateUser(p, action)
       PROVE  StandingInv'
  <2>1. /\ decisions' = decisions + 1 /\ StartWork(p, [op |-> "admin", at |-> "log"])
        /\ review' \in BOOLEAN
        /\ UNCHANGED <<completed, score, tier, history, audit, appeals, stacked, rewritten>>
    BY <1>22 DEF ModerateUser, appealVars
  <2>2. /\ req' = [req EXCEPT ![p] = [op |-> "admin", at |-> "log"]] /\ deaths' = deaths
        /\ req[p].op = "idle"
    BY <1>12, <2>1
  <2>3. /\ req' \in [Procs -> R] /\ ScoreOnRecord' /\ RowsAreDated' /\ DropIsReviewed'
        /\ DecisionsAreLogged' /\ decisions' \in Nat
        /\ \A q \in Procs : req'[q].op = "appeal" => req[q].op = "appeal" /\ req'[q] = req[q]
    BY <1>21, <2>1, <2>2
  <2>4. AppealsApart'
    BY <1>1, <2>1, <2>3 DEF AppealsApart
  <2> QED BY <1>1, <1>3, <2>1, <2>2, <2>3, <2>4
<1>23. ASSUME NEW p \in Procs, NEW a \in DOMAIN appeals, NEW to \in Verdicts, ResolveAppeal(p, a, to)
       PROVE  StandingInv'
  <2>1. /\ decisions' = decisions + 1 /\ StartWork(p, [op |-> "admin", at |-> "log"])
        /\ appeals' = [appeals EXCEPT ![a].status = to]
        /\ stacked' = (stacked \/ (to = "in_review" /\ appeals[a].status \notin {"submitted", "in_review"}))
        /\ UNCHANGED <<completed, score, tier, review, status, history, audit, rewritten>>
    BY <1>23 DEF ResolveAppeal, userRow
  <2>2. /\ req' = [req EXCEPT ![p] = [op |-> "admin", at |-> "log"]] /\ deaths' = deaths
        /\ req[p].op = "idle"
    BY <1>12, <2>1
  <2>3. /\ req' \in [Procs -> R] /\ ScoreOnRecord' /\ RowsAreDated' /\ DropIsReviewed'
        /\ DecisionsAreLogged' /\ decisions' \in Nat
        /\ \A q \in Procs : req'[q].op = "appeal" => req[q].op = "appeal" /\ req'[q] = req[q]
    BY <1>21, <2>1, <2>2
  <2>4. a \in 1..Len(appeals) /\ Len(appeals) \in Nat
    BY <1>1
  <2>5. PICK x \in Filed : x = appeals[a]
    BY <1>1, <2>4
  <2>6. PICK y : y = [x EXCEPT !.status = to]
    OBVIOUS
  <2>7. y \in Filed /\ y.subject = x.subject /\ y.status = to
    BY <2>6 DEF Filed, AppealRows
  <2>8. appeals' = [appeals EXCEPT ![a] = y]
    BY <1>1, <2>1, <2>4, <2>5, <2>6
  <2>9. /\ appeals' \in Seq(Filed) /\ Len(appeals') = Len(appeals)
        /\ \A i \in 1..Len(appeals) : appeals'[i] = IF i = a THEN y ELSE appeals[i]
    BY <1>1, <2>4, <2>7, <2>8, ExceptSeq
  <2>10. ASSUME ~stacked', NEW i \in 1..Len(appeals), IsOpen(appeals'[i])
         PROVE  ~stacked /\ IsOpen(appeals[i]) /\ appeals'[i].subject = appeals[i].subject
    <3>1. CASE i = a
      <4>1. to = "in_review"
        BY <2>7, <2>9, <2>10, <3>1 DEF IsOpen, Verdicts
      <4>2. ~stacked /\ appeals[a].status \in {"submitted", "in_review"}
        BY <2>1, <2>10, <4>1
      <4> QED BY <2>5, <2>7, <2>9, <3>1, <4>2 DEF IsOpen
    <3>2. CASE i # a
      BY <2>1, <2>9, <2>10, <3>2
    <3> QED BY <3>1, <3>2
  <2>11. AppealsApart'
    <3>1. ASSUME ~stacked', NEW i \in 1..Len(appeals), NEW j \in 1..Len(appeals), i # j,
                 IsOpen(appeals'[i]), IsOpen(appeals'[j])
          PROVE  appeals'[i].subject \cap appeals'[j].subject = {}
      BY <1>1, <2>10, <3>1 DEF AppealsApart
    <3>2. ~stacked' => ~stacked
      BY <2>1
    <3>3. ASSUME ~stacked', NEW q \in Procs, req'[q].op = "appeal"
          PROVE  /\ \A o \in Procs : req'[o].op = "appeal" => o = q
                 /\ \A i \in 1..Len(appeals) :
                       IsOpen(appeals'[i]) => appeals'[i].subject \cap req'[q].subject = {}
      BY <1>1, <2>3, <2>10, <3>2, <3>3 DEF AppealsApart
    <3> QED BY <2>9, <3>1, <3>3 DEF AppealsApart
  <2>12. stacked' \in BOOLEAN
    BY <2>1
  <2> QED BY <1>1, <1>3, <2>1, <2>2, <2>3, <2>9, <2>11, <2>12
<1>24. ASSUME NEW p \in Procs, LogAction(p)
       PROVE  StandingInv'
  <2>1. /\ At(p, "admin", "log") /\ req[p].op = "admin"
        /\ req' = [req EXCEPT ![p] = Idle] /\ audit' = audit + 1
        /\ UNCHANGED <<completed, score, tier, review, status, history, decisions,
                       appeals, stacked, rewritten, deaths>>
    BY <1>24 DEF LogAction, At, Finish, userRow, appealVars
  <2>2. req' \in [Procs -> R] /\ \A q \in Procs : req'[q] = IF q = p THEN Idle ELSE req[q]
    BY <1>2, <1>6, <2>1
  <2>3. Logging' = Logging \ {p} /\ p \in Logging
    BY <1>2, <2>1, <2>2 DEF Logging, At
  <2>4. Cardinality(Logging') = Cardinality(Logging) - 1
    BY <1>4, <2>3, FS_RemoveElement
  <2>5. DecisionsAreLogged'
    BY <1>1, <1>4, <2>1, <2>4 DEF DecisionsAreLogged
  <2>6. ~At(p, "persist", "history")
    BY <2>1 DEF At
  <2>7. ScoreOnRecord'
    BY <1>2, <1>7, <2>1, <2>6
  <2>8. AppealsApart'
    BY <1>2, <1>9, <2>1
  <2>9. RowsAreDated' /\ DropIsReviewed'
    BY <1>10, <2>1
  <2>10. audit' \in Nat
    BY <1>1, <2>1
  <2> QED BY <1>1, <1>3, <2>1, <2>2, <2>5, <2>7, <2>8, <2>9, <2>10
\* The one request that files an appeal found no open one of its subject's.
<1>25. ASSUME NEW p \in Procs, NEW subject \in Subjects, Submit(p, subject)
       PROVE  StandingInv'
  <2>1. PICK r : r = [op |-> "appeal", at |-> "create", subject |-> subject]
    OBVIOUS
  <2>2. r \in R /\ r.op = "appeal" /\ r.subject = subject
    BY <2>1 DEF R, StandingRequests
  <2>3. /\ ~FindOpen(subject) /\ StartWork(p, r)
        /\ stacked' = (stacked \/ \E q \in Procs : req[q].op = "appeal")
        /\ UNCHANGED <<completed, score, tier, review, status, history, decisions, audit,
                       appeals, rewritten>>
    BY <1>25, <2>1 DEF Submit, userRow
  <2>4. /\ req' = [req EXCEPT ![p] = r] /\ deaths' = deaths /\ req[p].op = "idle"
        /\ ~At(p, "persist", "history") /\ ~At(p, "admin", "log")
    BY <1>12, <2>3
  <2>5. req' \in [Procs -> R] /\ \A q \in Procs : req'[q] = IF q = p THEN r ELSE req[q]
    BY <1>6, <2>2, <2>4
  <2>6. ScoreOnRecord'
    BY <1>7, <2>2, <2>3, <2>4
  <2>7. DecisionsAreLogged'
    BY <1>8, <2>2, <2>3, <2>4
  <2>8. RowsAreDated' /\ DropIsReviewed'
    BY <1>10, <2>3
  <2>9. \A i \in 1..Len(appeals) : IsOpen(appeals[i]) => appeals[i].subject \cap subject = {}
    <3>1. DOMAIN appeals = 1..Len(appeals)
      BY <1>1
    <3> QED BY <2>3, <3>1 DEF FindOpen
  <2>10. ~stacked' => ~stacked /\ \A q \in Procs : req[q].op # "appeal"
    BY <2>3
  <2>11. \A q \in Procs : ~stacked' /\ req'[q].op = "appeal" => q = p
    BY <2>5, <2>10
  <2>12. AppealsApart'
    BY <1>1, <2>2, <2>3, <2>5, <2>9, <2>10, <2>11 DEF AppealsApart
  <2>13. stacked' \in BOOLEAN
    BY <2>3
  <2> QED BY <1>1, <1>3, <2>3, <2>4, <2>5, <2>6, <2>7, <2>8, <2>12, <2>13
<1>26. ASSUME NEW p \in Procs, CreateAppeal(p)
       PROVE  StandingInv'
  <2>1. PICK q \in R : q = req[p]
    BY <1>1
  <2>2. q.op = "appeal" /\ ~At(p, "persist", "history") /\ ~At(p, "admin", "log")
    BY <1>26, <2>1 DEF CreateAppeal, At
  <2>3. q.subject \in Subjects
    BY <2>2 DEF R, StandingRequests, Idle
  <2>4. PICK x : x = [subject |-> q.subject, status |-> "submitted"]
    OBVIOUS
  <2>5. x \in Filed /\ x.subject = q.subject
    BY <2>3, <2>4 DEF Filed, AppealRows
  <2>6. /\ req' = [req EXCEPT ![p] = Idle] /\ appeals' = Append(appeals, x)
        /\ UNCHANGED <<completed, score, tier, review, status, history, decisions, audit,
                       stacked, rewritten, deaths>>
    BY <1>26, <2>1, <2>4 DEF CreateAppeal, Finish, userRow
  <2>7. req' \in [Procs -> R] /\ \A o \in Procs : req'[o] = IF o = p THEN Idle ELSE req[o]
    BY <1>2, <1>6, <2>6
  <2>8. ScoreOnRecord'
    BY <1>2, <1>7, <2>2, <2>6
  <2>9. DecisionsAreLogged'
    BY <1>2, <1>8, <2>2, <2>6
  <2>10. RowsAreDated' /\ DropIsReviewed'
    BY <1>10, <2>6
  <2>11. /\ appeals' \in Seq(Filed) /\ Len(appeals') = Len(appeals) + 1 /\ Len(appeals) \in Nat
         /\ \A i \in 1..Len(appeals) : appeals'[i] = appeals[i]
         /\ appeals'[Len(appeals) + 1] = x
    BY <1>1, <2>5, <2>6, AppendProperties, LenProperties
  <2>12. \A i \in 1..Len(appeals') : i \in 1..Len(appeals) \/ i = Len(appeals) + 1
    BY <2>11
  <2>13. ASSUME ~stacked
         PROVE  /\ \A i \in 1..Len(appeals) : IsOpen(appeals[i]) => appeals[i].subject \cap x.subject = {}
                /\ \A o \in Procs : req'[o].op # "appeal"
    BY <1>1, <1>2, <2>1, <2>2, <2>5, <2>7, <2>13 DEF AppealsApart
  <2>14. ASSUME ~stacked, NEW i \in 1..Len(appeals'), NEW j \in 1..Len(appeals'), i # j,
                IsOpen(appeals'[i]), IsOpen(appeals'[j])
         PROVE  appeals'[i].subject \cap appeals'[j].subject = {}
    <3>1. CASE i \in 1..Len(appeals) /\ j \in 1..Len(appeals)
      BY <1>1, <2>11, <2>14, <3>1 DEF AppealsApart
    <3>2. CASE i \in 1..Len(appeals) /\ j = Len(appeals) + 1
      BY <2>11, <2>13, <2>14, <3>2
    <3>3. CASE i = Len(appeals) + 1 /\ j \in 1..Len(appeals)
      BY <2>11, <2>13, <2>14, <3>3
    <3> QED BY <2>12, <2>14, <3>1, <3>2, <3>3
  <2>15. AppealsApart'
    BY <2>6, <2>13, <2>14 DEF AppealsApart
  <2> QED BY <1>1, <1>3, <2>6, <2>7, <2>8, <2>9, <2>10, <2>11, <2>15
<1>27. ASSUME NEW p \in Procs, StandingDie(p)
       PROVE  StandingInv'
  <2>1. /\ req' = [req EXCEPT ![p] = Idle] /\ deaths' = deaths + 1
        /\ rewritten' = (rewritten \/ At(p, "persist", "history"))
        /\ UNCHANGED <<completed, score, tier, review, status, history, decisions, audit,
                       appeals, stacked>>
    BY <1>27 DEF StandingDie, Die, userRow, appealVars
  <2>2. req' \in [Procs -> R] /\ \A q \in Procs : req'[q] = IF q = p THEN Idle ELSE req[q]
    BY <1>2, <1>6, <2>1
  <2>3. ScoreOnRecord'
    <3>1. CASE rewritten'
      BY <3>1 DEF ScoreOnRecord
    <3>2. CASE ~rewritten'
      <4>1. ~At(p, "persist", "history") /\ rewritten' = rewritten
        BY <1>1, <2>1, <3>2
      <4> QED BY <1>2, <1>7, <2>1, <4>1
    <3> QED BY <3>1, <3>2
  <2>4. DecisionsAreLogged'
    <3>1. CASE At(p, "admin", "log")
      <4>1. Logging' = Logging \ {p} /\ p \in Logging
        BY <1>2, <2>2, <3>1 DEF Logging, At
      <4>2. Cardinality(Logging') = Cardinality(Logging) - 1
        BY <1>4, <4>1, FS_RemoveElement
      <4> QED BY <1>1, <1>4, <2>1, <4>2 DEF DecisionsAreLogged
    <3>2. CASE ~At(p, "admin", "log")
      <4>1. Logging' = Logging
        BY <1>2, <2>2, <3>2 DEF Logging, At
      <4> QED BY <1>1, <1>4, <2>1, <4>1 DEF DecisionsAreLogged
    <3> QED BY <3>1, <3>2
  <2>5. AppealsApart'
    BY <1>2, <1>9, <2>1
  <2>6. RowsAreDated' /\ DropIsReviewed'
    BY <1>10, <2>1
  <2>7. deaths' \in Nat /\ rewritten' \in BOOLEAN
    BY <1>1, <2>1 DEF At
  <2> QED BY <1>1, <1>3, <2>1, <2>2, <2>3, <2>4, <2>5, <2>6, <2>7
<1>28. ASSUME UNCHANGED <<reqVars, standingVars>>
       PROVE  StandingInv'
  <2>1. UNCHANGED <<req, deaths, completed, score, tier, review, status, history, decisions,
                    audit, appeals, stacked, rewritten>>
    BY <1>28 DEF reqVars, standingVars
  <2>2. ScoreOnRecord'
    BY <1>1, <2>1 DEF ScoreOnRecord, Recorded, At
  <2>3. DecisionsAreLogged'
    BY <1>1, <2>1 DEF DecisionsAreLogged, Logging, At
  <2>4. AppealsApart'
    BY <1>1, <2>1 DEF AppealsApart
  <2>5. RowsAreDated' /\ DropIsReviewed'
    BY <1>10, <2>1
  <2> QED BY <1>1, <1>3, <2>1, <2>2, <2>3, <2>4, <2>5
<1> QED
  BY <1>13, <1>14, <1>15, <1>16, <1>17, <1>18, <1>19, <1>20, <1>22, <1>23, <1>24, <1>25,
     <1>26, <1>27, <1>28
     DEF StandingNext, PersistVerificationScore, RecomputeJob, AdminStep, OwnerStep

\* 65 is at or above the floor of "verified", and below that of "premium".
LEMMA FirstTier == ScoreToTier(65) = "verified"
<1>1. /\ DOMAIN TierFloor = {"anonymous", "basic", "verified", "premium"}
      /\ TierFloor["anonymous"] = 0 /\ TierFloor["basic"] = 30
      /\ TierFloor["verified"] = 50 /\ TierFloor["premium"] = 80
  BY DEF TierFloor
<1> DEFINE Fits(t) == /\ TierFloor[t] <= 65
                      /\ \A u \in DOMAIN TierFloor :
                            TierFloor[u] <= 65 => TierFloor[u] <= TierFloor[t]
<1>2. "verified" \in DOMAIN TierFloor /\ Fits("verified")
  BY <1>1
<1>3. \A t \in DOMAIN TierFloor : Fits(t) => t = "verified"
  BY <1>1
<1>4. (CHOOSE t \in DOMAIN TierFloor : Fits(t)) = "verified"
  BY <1>2, <1>3
<1> QED BY <1>4 DEF ScoreToTier

\* A new account has 65 points, its tier and no history.
LEMMA StandingInitial ==
    ASSUME ReqInit, StandingInit
    PROVE  StandingInv
<1>1. /\ req = [p \in Procs |-> Idle] /\ deaths = 0
      /\ completed = Onboarded /\ score = 65 /\ tier = "verified" /\ review = FALSE
      /\ history = <<>> /\ decisions = 0 /\ audit = 0 /\ appeals = <<>>
      /\ rewritten = FALSE /\ stacked = FALSE
  BY DEF ReqInit, StandingInit
<1>2. \A p \in Procs : req[p] = Idle /\ req[p].op = "idle"
  BY <1>1 DEF Idle
<1>3. req \in [Procs -> StandingRequests]
  BY <1>1 DEF StandingRequests
<1>4. completed \subseteq DOMAIN Weights
  BY <1>1 DEF Onboarded, Weights
<1>5. score \in Scores
  BY <1>1 DEF Scores
<1>6. history \in Seq(HistoryRows) /\ appeals \in Seq(AppealRows)
      /\ Len(history) = 0 /\ Len(appeals) = 0
  BY <1>1
<1>7. tier = ScoreToTier(score)
  BY <1>1, FirstTier
<1>8. ScoreOnRecord
  BY <1>1, <1>2, <1>6 DEF ScoreOnRecord, LastOf, Chained, At
<1>9. RowsAreDated /\ DropIsReviewed
  BY <1>6 DEF RowsAreDated, DropIsReviewed
<1>10. DecisionsAreLogged
  <2>1. Logging = {}
    BY <1>2 DEF Logging, At
  <2>2. Cardinality(Logging) = 0
    BY <2>1, FS_EmptySet
  <2> QED BY <1>1, <2>2 DEF DecisionsAreLogged
<1>11. AppealsApart
  BY <1>2, <1>6 DEF AppealsApart
<1> QED BY <1>1, <1>3, <1>4, <1>5, <1>6, <1>7, <1>8, <1>9, <1>10, <1>11 DEF StandingInv

\* Every decision is a request's.
StandingCounts ==
    /\ status \in {ModeratedTo[a] : a \in DOMAIN ModeratedTo}
    /\ work \in 0..MaxWork /\ decisions \in 0..work

\* Only a request that starts counts as work, and may decide.
LEMMA StandingCounted ==
    ASSUME StandingCounts, [StandingNext]_<<reqVars, standingVars>>
    PROVE  StandingCounts'
<1>1. /\ status \in {ModeratedTo[a] : a \in DOMAIN ModeratedTo}
      /\ work \in Nat /\ work <= MaxWork /\ decisions \in Nat /\ decisions <= work
      /\ MaxWork \in Nat
  BY StandingAssumption DEF StandingCounts
<1>2. ASSUME UNCHANGED <<status, work, decisions>>
      PROVE  StandingCounts'
  BY <1>2 DEF StandingCounts
<1>3. ASSUME NEW p \in Procs, NEW r, StartWork(p, r),
             status' \in {ModeratedTo[a] : a \in DOMAIN ModeratedTo},
             decisions' \in {decisions, decisions + 1}
      PROVE  StandingCounts'
  <2>1. work < MaxWork /\ work' = work + 1
    BY <1>3 DEF StartWork
  <2>2. work' \in 0..MaxWork /\ decisions' \in 0..work'
    BY <1>1, <1>3, <2>1
  <2> QED BY <1>3, <2>2 DEF StandingCounts
<1>4. ASSUME NEW p \in Procs, SetAvatar(p)
      PROVE  StandingCounts'
  BY <1>1, <1>3, <1>4 DEF SetAvatar, userRow
<1>5. ASSUME NEW p \in Procs, Recompute(p)
      PROVE  StandingCounts'
  <2>1. PICK d \in Deltas : StartWork(p, Scoring("recompute", "apply", WorkerScore(d)))
    BY <1>5 DEF Recompute
  <2> QED BY <1>1, <1>3, <1>5, <2>1 DEF Recompute, userRow
<1>6. ASSUME NEW p \in Procs, NEW action \in DOMAIN ModeratedTo, ModerateUser(p, action)
      PROVE  StandingCounts'
  BY <1>3, <1>6 DEF ModerateUser
<1>7. ASSUME NEW p \in Procs, NEW a \in DOMAIN appeals, NEW to \in Verdicts, ResolveAppeal(p, a, to)
      PROVE  StandingCounts'
  BY <1>1, <1>3, <1>7 DEF ResolveAppeal, userRow
<1>8. ASSUME NEW p \in Procs, NEW subject \in Subjects, Submit(p, subject)
      PROVE  StandingCounts'
  BY <1>1, <1>3, <1>8 DEF Submit, userRow
<1>9. ASSUME NEW p \in Procs,
             \/ PersistVerificationScore(p)
             \/ ApplyRecompute(p)
             \/ LogAction(p)
             \/ CreateAppeal(p)
             \/ StandingDie(p)
      PROVE  StandingCounts'
  <2>1. UNCHANGED <<status, work, decisions>>
    BY <1>9 DEF PersistVerificationScore, PersistCompute, PersistRead, PersistUpdate,
                PersistHistory, ApplyRecompute, LogAction, CreateAppeal, StandingDie,
                standingVars, userRow
  <2> QED BY <1>2, <2>1
<1>10. ASSUME AccountAges \/ UNCHANGED <<reqVars, standingVars>>
       PROVE  StandingCounts'
  <2>1. UNCHANGED <<status, work, decisions>>
    BY <1>10 DEF AccountAges, standingVars, userRow
  <2> QED BY <1>2, <2>1
<1> QED
  BY <1>4, <1>5, <1>6, <1>7, <1>8, <1>9, <1>10 DEF StandingNext, RecomputeJob, AdminStep, OwnerStep

\* Every score has a tier: the highest of those whose floor it reaches.
LEMMA EveryScoreHasATier ==
    ASSUME NEW s \in Scores
    PROVE  ScoreToTier(s) \in DOMAIN TierFloor
<1>1. /\ DOMAIN TierFloor = {"anonymous", "basic", "verified", "premium"}
      /\ TierFloor["anonymous"] = 0 /\ TierFloor["basic"] = 30
      /\ TierFloor["verified"] = 50 /\ TierFloor["premium"] = 80
  BY DEF TierFloor
<1> DEFINE Fits(t) == /\ TierFloor[t] <= s
                      /\ \A u \in DOMAIN TierFloor :
                            TierFloor[u] <= s => TierFloor[u] <= TierFloor[t]
<1>2. \E t \in DOMAIN TierFloor : Fits(t)
  <2>1. CASE s < 30
    <3>1. Fits("anonymous")
      BY <1>1, <2>1 DEF Scores
    <3> QED BY <1>1, <3>1
  <2>2. CASE s >= 30 /\ s < 50
    <3>1. Fits("basic")
      BY <1>1, <2>2 DEF Scores
    <3> QED BY <1>1, <3>1
  <2>3. CASE s >= 50 /\ s < 80
    <3>1. Fits("verified")
      BY <1>1, <2>3 DEF Scores
    <3> QED BY <1>1, <3>1
  <2>4. CASE s >= 80
    <3>1. Fits("premium")
      BY <1>1, <2>4 DEF Scores
    <3> QED BY <1>1, <3>1
  <2> QED BY <2>1, <2>2, <2>3, <2>4 DEF Scores
<1>3. (CHOOSE t \in DOMAIN TierFloor : Fits(t)) \in DOMAIN TierFloor
  <2> HIDE DEF Fits
  <2> QED BY <1>2
<1> QED BY <1>3 DEF ScoreToTier

\* The two invariants together include the type invariant.
LEMMA StandingTyped ==
    ASSUME StandingInv, StandingCounts
    PROVE  StandingTypeOK
<1>1. /\ completed \subseteq DOMAIN Weights /\ score \in Scores /\ tier \in DOMAIN TierFloor
      /\ review \in BOOLEAN
  BY EveryScoreHasATier DEF StandingInv
<1>2. history \in Seq(HistoryRows) /\ appeals \in Seq(AppealRows)
  BY DEF StandingInv
<1>3. \A i \in DOMAIN history : history[i].old \in 0..100 /\ history[i].new \in 0..100
  <2>1. \A i \in DOMAIN history : history[i] \in HistoryRows
    BY <1>2
  <2> QED BY <2>1 DEF HistoryRows, Scores
<1>4. \A i \in DOMAIN appeals : appeals[i].subject \in Subjects
  <2>1. \A i \in DOMAIN appeals : appeals[i] \in AppealRows
    BY <1>2
  <2> QED BY <2>1 DEF AppealRows
<1>5. decisions \in 0..MaxWork /\ work \in 0..MaxWork
  BY StandingAssumption DEF StandingCounts
\* What is not audited yet is being logged, or its request has died.
<1>6. audit \in 0..MaxWork
  <2>1. Cardinality(Logging) \in Nat
    <3>1. Logging \subseteq Procs
      BY DEF Logging
    <3> QED BY <3>1, ProcsAssumption, FS_Subset, FS_CardinalityType
  <2>2. decisions - audit - Cardinality(Logging) >= 0 /\ audit \in Nat
    BY DEF StandingInv, DecisionsAreLogged
  <2> QED BY <1>5, <2>1, <2>2, StandingAssumption
<1>7. {rewritten, stacked} \subseteq BOOLEAN
  BY DEF StandingInv
<1> QED
  BY <1>1, <1>3, <1>4, <1>5, <1>6, <1>7 DEF StandingTypeOK, StandingCounts, Scores

\* A new account is active, and nobody has worked on it.
LEMMA StandingCountsBegin ==
    ASSUME StandingInit
    PROVE  StandingCounts
<1>1. status = "active" /\ work = 0 /\ decisions = 0
  BY DEF StandingInit
<1>2. "restore" \in DOMAIN ModeratedTo /\ ModeratedTo["restore"] = "active"
  BY DEF ModeratedTo
<1> QED BY <1>1, <1>2, StandingAssumption DEF StandingCounts

-----------------------------------------------------------------------------
(* Jobs.                                                                   *)

\* What a request or a worker can have in hand.
JobRequests ==
         {Idle}
    \cup [op: {"ask"}, of: Users, at: {"enqueue"}]
    \cup [op: {"export"}, of: Users, at: {"claim", "build"}]
    \cup [op: {"rename"}, of: Users, at: {"claim", "upsert"}]

Works(p, k, u) == p \in Workers(k, u)

\* The row a worker has is processing, and no other worker has it.
WorkersHaveTheRow ==
    \A k \in Kinds, u \in Users : \A p, q \in Procs :
       Works(p, k, u) => row[k][u] = "processing" /\ (Works(q, k, u) => p = q)

\* A row is processing under a worker, or since a worker died or was left by
\* an UPDATE that failed.
RowsHaveAWorker ==
    \A k \in Kinds, u \in Users :
       row[k][u] = "processing" =>
          \/ \E p \in Procs : Works(p, k, u)
          \/ "died" \in blame[k][u]
          \/ "stuck" \in blame[k][u]

\* A failed row failed.
FailuresAreBlamed ==
    \A k \in Kinds, u \in Users : row[k][u] = "failed" => "failed" \in blame[k][u]

\* A kept job shuts the backstop out only after a failure or too many stalls.
KeptJobsAreBlamed ==
    \A u \in Users : row["export"][u] = "requested" /\ exportJob[u] = "kept" =>
       "failed" \in blame["export"][u] \/ "stalled" \in blame["export"][u]

\* Jobs and requests for an export come after its row.
JobsHaveARow ==
    /\ \A u \in Users : exportJob[u] # "none" => row["export"][u] # Null
    /\ \A p \in Procs : req[p].op \in {"ask", "export"} => row["export"][req[p].of] # Null

\* The invariant of the service.
JobsInv ==
    /\ req \in [Procs -> JobRequests] /\ JobsTypeOK
    /\ WorkersHaveTheRow /\ RowsHaveAWorker /\ FailuresAreBlamed
    /\ KeptJobsAreBlamed /\ JobsHaveARow

\* A worker that goes on to its next await keeps its row.
LEMMA JobRequest ==
    ASSUME NEW r \in JobRequests, NEW at,
           \/ r.op = "export" /\ at \in {"claim", "build"}
           \/ r.op = "rename" /\ at \in {"claim", "upsert"}
    PROVE  /\ [r EXCEPT !.at = at] \in JobRequests /\ [r EXCEPT !.at = at].at = at
           /\ [r EXCEPT !.at = at].op = r.op /\ [r EXCEPT !.at = at].of = r.of
BY DEF JobRequests, Idle

\* One entry of a table by kind and user is set.
LEMMA EntrySet ==
    ASSUME NEW S, NEW f \in [Kinds -> [Users -> S]], NEW k \in Kinds, NEW u \in Users, NEW x \in S,
           NEW g, g = [f EXCEPT ![k][u] = x]
    PROVE  /\ g \in [Kinds -> [Users -> S]] /\ g[k][u] = x
           /\ \A l \in Kinds, v \in Users : l # k \/ v # u => g[l][v] = f[l][v]
OBVIOUS

\* Only a worker takes a lock, and no job stalls more often than it may.
LEMMA LocksTyped ==
    ASSUME lock \in [Users -> Procs \cup {Null}], stalls \in [Users -> 0..MaxStalls],
           [JobsNext]_<<reqVars, jobsVars>>
    PROVE  lock' \in [Users -> Procs \cup {Null}] /\ stalls' \in [Users -> 0..MaxStalls]
<1> DEFINE Locks == [Users -> Procs \cup {Null}]
           Stalls == [Users -> 0..MaxStalls]
<1>1. UNCHANGED <<lock, stalls>> => lock' \in Locks /\ stalls' \in Stalls
  OBVIOUS
<1>2. ASSUME NEW u, lock' = [lock EXCEPT ![u] = Null]
      PROVE  lock' \in Locks
  BY <1>2
<1>3. \A p, u : JobEnds(p, u) => lock' \in Locks /\ stalls' \in Stalls
  BY <1>2 DEF JobEnds
<1>4. ASSUME NEW u, NEW n \in 0..MaxStalls, stalls' = [stalls EXCEPT ![u] = n]
      PROVE  stalls' \in Stalls
  BY <1>4
<1>5. ASSUME NEW p \in Procs, NEW u \in Users, TakeJob(p, u)
      PROVE  lock' \in Locks /\ stalls' \in Stalls
  BY <1>5 DEF TakeJob
<1>6. ASSUME NEW u \in Users, JobStalls(u)
      PROVE  lock' \in Locks /\ stalls' \in Stalls
  <2>1. lock' = [lock EXCEPT ![u] = Null]
    BY <1>6 DEF JobStalls
  <2>2. CASE stalls[u] < MaxStalls
    <3>1. PICK n : n = stalls[u] + 1
      OBVIOUS
    <3>2. stalls' = [stalls EXCEPT ![u] = n]
      BY <1>6, <2>2, <3>1 DEF JobStalls
    <3>3. n \in 0..MaxStalls
      BY <2>2, <3>1, OneMore, JobsAssumption
    <3> QED BY <1>2, <1>4, <2>1, <3>2, <3>3
  <2>3. CASE ~(stalls[u] < MaxStalls)
    BY <1>2, <1>6, <2>1, <2>3 DEF JobStalls
  <2> QED BY <2>2, <2>3
<1>7. ASSUME NEW u \in Users, JobEvicted(u)
      PROVE  lock' \in Locks /\ stalls' \in Stalls
  <2>1. lock' = lock /\ stalls' = [stalls EXCEPT ![u] = 0] /\ 0 \in 0..MaxStalls
    BY <1>7, NoneYet, JobsAssumption DEF JobEvicted
  <2> QED BY <1>4, <2>1
<1>8. ASSUME NEW u \in Users, QueueRename(u)
      PROVE  UNCHANGED <<lock, stalls>>
  BY <1>8 DEF QueueRename, queueVars
<1>9. ASSUME NEW p \in Procs, NEW u \in Users,
              RequestExport(p, u) \/ StuckExport(p, u) \/ ScanRenames(p, u)
       PROVE  UNCHANGED <<lock, stalls>>
  BY <1>9 DEF RequestExport, StuckExport, ScanRenames, jobsVars, queueVars
<1>10. ASSUME NEW p \in Procs, EnqueueExport(p) \/ ClaimRename(p) \/ PropagateRename(p) \/ JobsDie(p)
      PROVE  UNCHANGED <<lock, stalls>>
  BY <1>10 DEF EnqueueExport, ClaimRename, PropagateRename, JobsDie, queueVars
<1>11. ASSUME NEW p \in Procs, ClaimExport(p) \/ BuildExport(p) \/ BuildFails(p)
       PROVE  lock' \in Locks /\ stalls' \in Stalls
  <2>1. CASE ClaimExport(p)
    <3>1. UNCHANGED queueVars \/ JobEnds(p, req[p].of)
      BY <2>1 DEF ClaimExport
    <3> QED BY <1>1, <1>3, <3>1 DEF queueVars
  <2>2. CASE BuildExport(p) \/ BuildFails(p)
    BY <1>3, <2>2 DEF BuildExport, BuildFails
  <2> QED BY <1>11, <2>1, <2>2
<1>12. UNCHANGED <<reqVars, jobsVars>> => UNCHANGED <<lock, stalls>>
  BY DEF jobsVars, queueVars
<1> HIDE DEF Locks, Stalls
<1>13. ASSUME NEW p \in Procs,
              \/ EnqueueExport(p) \/ ClaimExport(p) \/ BuildExport(p) \/ BuildFails(p)
              \/ ClaimRename(p) \/ PropagateRename(p) \/ JobsDie(p)
              \/ \E u \in Users :
                    RequestExport(p, u) \/ StuckExport(p, u) \/ TakeJob(p, u) \/ ScanRenames(p, u)
       PROVE  lock' \in Locks /\ stalls' \in Stalls
  BY <1>1, <1>5, <1>10, <1>11, <1>9, <1>13
<1>14. ASSUME NEW u \in Users, JobStalls(u) \/ JobEvicted(u) \/ QueueRename(u)
       PROVE  lock' \in Locks /\ stalls' \in Stalls
  BY <1>1, <1>6, <1>7, <1>8, <1>14
<1>15. lock' \in Locks /\ stalls' \in Stalls
  BY <1>1, <1>12, <1>13, <1>14 DEF JobsNext
<1> QED BY <1>15 DEF Locks, Stalls

\* Every step of the service keeps its invariant.
LEMMA JobsKept ==
    ASSUME JobsInv, [JobsNext]_<<reqVars, jobsVars>>
    PROVE  JobsInv'
<1> DEFINE R == JobRequests
           Blames == SUBSET Faults
           Locked == lock \in [Users -> Procs \cup {Null}] /\ stalls \in [Users -> 0..MaxStalls]
           Rows == RowStatuses \cup {Null}
           Runs == [Users -> JobStates]
           RowsKept == WorkersHaveTheRow /\ RowsHaveAWorker /\ FailuresAreBlamed
           BacklogKept == KeptJobsAreBlamed /\ JobsHaveARow
<1>1. /\ req \in [Procs -> R] /\ row \in [Kinds -> [Users -> Rows]]
      /\ exportJob \in Runs /\ blame \in [Kinds -> [Users -> Blames]]
      /\ failures \in 0..MaxFailures /\ evictions \in 0..MaxEvictions
      /\ WorkersHaveTheRow /\ RowsHaveAWorker /\ FailuresAreBlamed
      /\ KeptJobsAreBlamed /\ JobsHaveARow
  BY DEF JobsInv, JobsTypeOK
<1>2. /\ Idle \in R /\ Idle.op = "idle" /\ Kinds = {"export", "rename"}
      /\ \A r \in R : r.op # "idle" => r.of \in Users
      /\ \A r \in R : r.op \in {"idle", "ask", "export", "rename"}
      /\ \A u \in Users : /\ Work("ask", u, "enqueue") \in R
                          /\ Work("export", u, "claim") \in R
                          /\ Work("rename", u, "claim") \in R
  BY DEF JobRequests, Idle, Work, Kinds
<1>3. \A op, u, at : Work(op, u, at).op = op /\ Work(op, u, at).of = u /\ Work(op, u, at).at = at
  BY DEF Work
<1>4. \A p, k, u : Works(p, k, u) <=> p \in Procs /\ req[p].op = k /\ req[p].of = u /\ req[p].at # "claim"
  BY DEF Works, Workers
<1>5. \A p, k, u : Works(p, k, u)' <=> p \in Procs /\ req'[p].op = k /\ req'[p].of = u /\ req'[p].at # "claim"
  BY DEF Works, Workers
<1>6. failures < MaxFailures /\ failures' = failures + 1 => failures' \in 0..MaxFailures
  BY <1>1, OneMore, JobsAssumption
<1>7. Locked'
  BY LocksTyped DEF JobsInv, JobsTypeOK
<1> HIDE DEF R, Blames, Rows, Runs, Locked, BacklogKept, RowsKept
\* A process that moves without becoming a worker or having been one.
<1>8. ASSUME NEW p \in Procs, NEW r \in R, req' = [req EXCEPT ![p] = r],
             req[p].op \notin Kinds \/ req[p].at = "claim",
             r.op \notin Kinds \/ r.at = "claim"
      PROVE  /\ req' \in [Procs -> R]
             /\ \A q, k, u : k \in Kinds => (Works(q, k, u)' <=> Works(q, k, u))
  BY <1>1, <1>4, <1>5, <1>8
<1>9. ASSUME UNCHANGED req
      PROVE  \A q, k, u : Works(q, k, u)' <=> Works(q, k, u)
  BY <1>4, <1>5, <1>9
<1>10. ASSUME \A q, k, u : k \in Kinds => (Works(q, k, u)' <=> Works(q, k, u)),
             row' = row, \A k \in Kinds, u \in Users : blame[k][u] \subseteq blame'[k][u]
      PROVE  RowsKept'
  BY <1>1, <1>10 DEF RowsKept, WorkersHaveTheRow, RowsHaveAWorker, FailuresAreBlamed
<1>11. ASSUME NEW k \in Kinds, NEW u \in Users, NEW x \in Rows, SetRow(k, u, x)
      PROVE  /\ row' \in [Kinds -> [Users -> Rows]] /\ row'[k][u] = x
             /\ \A l \in Kinds, v \in Users : l # k \/ v # u => row'[l][v] = row[l][v]
  BY <1>1, <1>11, EntrySet DEF SetRow
<1>12. ASSUME NEW k \in Kinds, NEW u \in Users, NEW w \in Faults, Blame(k, u, w)
       PROVE  /\ blame' \in [Kinds -> [Users -> Blames]] /\ w \in blame'[k][u]
              /\ \A l \in Kinds, v \in Users : blame[l][v] \subseteq blame'[l][v]
  <2> DEFINE b == blame[k][u] \cup {w}
  <2>1. b \in Blames
    BY <1>1 DEF Blames
  <2>2. blame' = [blame EXCEPT ![k][u] = b]
    BY <1>12 DEF Blame
  <2>3. /\ blame' \in [Kinds -> [Users -> Blames]] /\ blame'[k][u] = b
        /\ \A l \in Kinds, v \in Users : l # k \/ v # u => blame'[l][v] = blame[l][v]
    BY <1>1, <2>1, <2>2, EntrySet
  <2> QED BY <2>3
<1>13. Null \in Rows /\ {"requested", "processing", "ready", "failed"} \subseteq Rows
  BY DEF Rows, RowStatuses
\* What a move of a process leaves of the order of rows and jobs.
<1>14. ASSUME NEW p \in Procs, NEW r \in R, req' = [req EXCEPT ![p] = r],
              r.op \in {"ask", "export"} => row["export"][r.of] # Null,
              \A u \in Users : row["export"][u] # Null => row'["export"][u] # Null
       PROVE  \A q \in Procs : req'[q].op \in {"ask", "export"} => row'["export"][req'[q].of] # Null
  BY <1>1, <1>2, <1>14 DEF JobsHaveARow
<1>15. ASSUME req' \in [Procs -> R], row' \in [Kinds -> [Users -> Rows]], exportJob' \in Runs,
              blame' \in [Kinds -> [Users -> Blames]],
              failures' \in 0..MaxFailures, evictions' \in 0..MaxEvictions,
              RowsKept', BacklogKept'
       PROVE  JobsInv'
  BY <1>15, <1>7 DEF JobsInv, JobsTypeOK, R, Rows, Runs, Blames, Locked, RowsKept, BacklogKept
<1>16. ASSUME NEW u \in Users, NEW s \in JobStates, NEW f, f = [exportJob EXCEPT ![u] = s]
       PROVE  f \in Runs /\ f[u] = s /\ \A v \in Users : v # u => f[v] = exportJob[v]
  BY <1>1, <1>16 DEF Runs
<1>17. {"none", "waiting", "active", "kept"} = JobStates
  BY DEF JobStates
<1>18. {"died", "failed", "stuck", "stalled"} = Faults
  BY DEF Faults
<1>19. UNCHANGED queueVars => UNCHANGED exportJob
  BY DEF queueVars
<1>20. ASSUME NEW p, NEW u \in Users, JobEnds(p, u)
       PROVE  /\ exportJob' \in Runs /\ \A v \in Users : v # u => exportJob'[v] = exportJob[v]
              /\ exportJob'[u] = "none" => exportJob[u] = "none"
              /\ exportJob[u] = "none" => exportJob'[u] = "none"
  <2>1. PICK s : s = IF exportJob[u] = "active" /\ lock[u] = p THEN "kept" ELSE exportJob[u]
    OBVIOUS
  <2>2. s \in JobStates /\ (s = "none" <=> exportJob[u] = "none")
    BY <1>1, <1>17, <2>1 DEF Runs
  <2>3. exportJob' = [exportJob EXCEPT ![u] = s]
    <3>1. CASE exportJob[u] = "active" /\ lock[u] = p
      BY <1>20, <2>1, <3>1 DEF JobEnds
    <3>2. CASE ~(exportJob[u] = "active" /\ lock[u] = p)
      <4>1. exportJob' = exportJob /\ s = exportJob[u]
        BY <1>20, <2>1, <3>2 DEF JobEnds
      <4> QED BY <1>1, <4>1 DEF Runs
    <3> QED BY <3>1, <3>2
  <2>4. /\ exportJob' \in Runs /\ exportJob'[u] = s
        /\ \A v \in Users : v # u => exportJob'[v] = exportJob[v]
    BY <1>1, <2>2, <2>3 DEF Runs
  <2> QED BY <2>2, <2>4

\* The one entry of the rows that a step sets, and its workers.
<1>21. ASSUME NEW k \in Kinds, NEW u \in Users, NEW x \in Rows, SetRow(k, u, x),
              \A l \in Kinds, v \in Users : blame[l][v] \subseteq blame'[l][v],
              \A q, l, v : l \in Kinds /\ (l # k \/ v # u) => (Works(q, l, v)' <=> Works(q, l, v)),
              \A q, t \in Procs : Works(q, k, u)' => x = "processing" /\ (Works(t, k, u)' => q = t),
              x = "processing" => \/ \E q \in Procs : Works(q, k, u)'
                                  \/ "stuck" \in blame'[k][u],
              x = "failed" => "failed" \in blame'[k][u]
       PROVE  RowsKept' /\ row' \in [Kinds -> [Users -> Rows]] /\ row'[k][u] = x
              /\ \A l \in Kinds, v \in Users : l # k \/ v # u => row'[l][v] = row[l][v]
  <2>1. /\ row' \in [Kinds -> [Users -> Rows]] /\ row'[k][u] = x
        /\ \A l \in Kinds, v \in Users : l # k \/ v # u => row'[l][v] = row[l][v]
    BY <1>11, <1>21
  <2>2. WorkersHaveTheRow'
    <3>1. ASSUME NEW l \in Kinds, NEW v \in Users, NEW q \in Procs, NEW t \in Procs, Works(q, l, v)'
          PROVE  row'[l][v] = "processing" /\ (Works(t, l, v)' => q = t)
      <4>1. CASE l = k /\ v = u
        BY <1>21, <2>1, <3>1, <4>1
      <4>2. CASE l # k \/ v # u
        BY <1>1, <1>21, <2>1, <3>1, <4>2 DEF WorkersHaveTheRow
      <4> QED BY <4>1, <4>2
    <3> QED BY <3>1 DEF WorkersHaveTheRow
  <2>3. RowsHaveAWorker'
    <3>1. ASSUME NEW l \in Kinds, NEW v \in Users, row'[l][v] = "processing"
          PROVE  \/ \E q \in Procs : Works(q, l, v)'
                 \/ "died" \in blame'[l][v]
                 \/ "stuck" \in blame'[l][v]
      <4>1. CASE l = k /\ v = u
        BY <1>21, <2>1, <3>1, <4>1
      <4>2. CASE l # k \/ v # u
        BY <1>1, <1>21, <2>1, <3>1, <4>2 DEF RowsHaveAWorker
      <4> QED BY <4>1, <4>2
    <3> QED BY <3>1 DEF RowsHaveAWorker
  <2>4. FailuresAreBlamed'
    BY <1>1, <1>21, <2>1 DEF FailuresAreBlamed
  <2> QED BY <2>1, <2>2, <2>3, <2>4 DEF RowsKept
\* The row and the job of the one user whose export a step is about.
<1>22. ASSUME NEW u \in Users, \A v \in Users : v # u =>
                 /\ exportJob'[v] = exportJob[v] /\ row'["export"][v] = row["export"][v]
                 /\ blame["export"][v] \subseteq blame'["export"][v],
              exportJob'[u] # "none" => row'["export"][u] # Null,
              row'["export"][u] = "requested" /\ exportJob'[u] = "kept" =>
                 "failed" \in blame'["export"][u] \/ "stalled" \in blame'["export"][u],
              \A q \in Procs : req'[q].op \in {"ask", "export"} => row'["export"][req'[q].of] # Null
       PROVE  BacklogKept'
  <2>1. KeptJobsAreBlamed'
    BY <1>1, <1>22 DEF KeptJobsAreBlamed
  <2>2. JobsHaveARow'
    BY <1>1, <1>22 DEF JobsHaveARow
  <2> QED BY <2>1, <2>2 DEF BacklogKept
<1>23. ASSUME UNCHANGED exportJob, row' = row, 
              \A l \in Kinds, v \in Users : blame[l][v] \subseteq blame'[l][v],
              \A q \in Procs : req'[q].op \in {"ask", "export"} => row'["export"][req'[q].of] # Null
       PROVE  BacklogKept'
  BY <1>1, <1>2, <1>23 DEF BacklogKept, KeptJobsAreBlamed, JobsHaveARow
<1>24. blame' = blame => /\ \A l \in Kinds, v \in Users : blame[l][v] \subseteq blame'[l][v]
                         /\ blame' \in [Kinds -> [Users -> Blames]]
  BY <1>1
<1>25. ASSUME NEW p \in Procs, NEW u \in Users, RequestExport(p, u)
       PROVE  JobsInv'
  <2> DEFINE r == Work("ask", u, "enqueue")
  <2>1. /\ row["export"][u] = Null /\ req[p] = Idle /\ req' = [req EXCEPT ![p] = r]
        /\ SetRow("export", u, "requested")
        /\ UNCHANGED <<exportJob, blame, failures, evictions>>
    BY <1>25, <1>19 DEF RequestExport, Enter
  <2>3. /\ req' \in [Procs -> R]
        /\ \A q, k, v : k \in Kinds => (Works(q, k, v)' <=> Works(q, k, v))
    <3>1. r \in R /\ r.op \notin Kinds /\ req[p].op \notin Kinds
      BY <1>2, <1>3, <2>1
    <3> QED BY <1>8, <2>1, <3>1
  <2>4. \A q \in Procs : ~Works(q, "export", u)
    BY <1>1, <1>2, <2>1, NoRowAssumption DEF WorkersHaveTheRow, RowStatuses
  <2>5. /\ RowsKept' /\ row' \in [Kinds -> [Users -> Rows]] /\ row'["export"][u] = "requested"
        /\ \A l \in Kinds, v \in Users : l # "export" \/ v # u => row'[l][v] = row[l][v]
    <3>1. "export" \in Kinds /\ "requested" \in Rows
      BY <1>2, <1>13
    <3> QED BY <1>21, <1>24, <2>1, <2>3, <2>4, <3>1
  <2>6. /\ "requested" # Null /\ exportJob[u] = "none"
    BY <1>1, <2>1, NoRowAssumption DEF JobsHaveARow, RowStatuses
  <2>7. \A q \in Procs : req'[q].op \in {"ask", "export"} => row'["export"][req'[q].of] # Null
    BY <1>1, <1>2, <1>3, <2>1, <2>5, <2>6 DEF JobsHaveARow
  <2>8. BacklogKept'
    BY <1>2, <1>22, <2>1, <2>5, <2>6, <2>7
  <2> QED BY <1>1, <1>15, <1>24, <2>1, <2>3, <2>5, <2>8
<1>26. "requested" # Null /\ "processing" # Null /\ "failed" # Null /\ "ready" # Null
  BY NoRowAssumption DEF RowStatuses
\* A scan has met a row and takes it up.
<1>27. ASSUME NEW p \in Procs, NEW u \in Users, StuckExport(p, u) \/ ScanRenames(p, u)
       PROVE  JobsInv'
  <2>1. UNCHANGED <<row, exportJob, blame, failures, evictions>>
    BY <1>27, <1>19 DEF StuckExport, ScanRenames, jobsVars
  <2>2. PICK r \in R :
           /\ req[p] = Idle /\ req' = [req EXCEPT ![p] = r]
           /\ r.op \notin Kinds \/ r.at = "claim"
           /\ r.op \in {"ask", "export"} => row["export"][r.of] # Null
    <3>1. CASE StuckExport(p, u)
      <4> DEFINE r == Work("ask", u, "enqueue")
      <4>1. /\ req[p] = Idle /\ req' = [req EXCEPT ![p] = r] /\ row["export"][u] = "requested"
        BY <3>1 DEF StuckExport, Enter
      <4>2. r \in R /\ r.op \notin Kinds /\ r.of = u
        BY <1>2, <1>3
      <4> QED BY <1>26, <4>1, <4>2
    <3>2. CASE ScanRenames(p, u)
      <4> DEFINE r == Work("rename", u, "claim")
      <4>1. req[p] = Idle /\ req' = [req EXCEPT ![p] = r]
        BY <3>2 DEF ScanRenames, Enter
      <4>2. r \in R /\ r.op = "rename" /\ r.at = "claim"
        BY <1>2, <1>3
      <4> QED BY <4>1, <4>2
    <3> QED BY <1>27, <3>1, <3>2
  <2>3. /\ req' \in [Procs -> R]
        /\ \A q, k, v : k \in Kinds => (Works(q, k, v)' <=> Works(q, k, v))
    <3>1. req[p].op \notin Kinds
      BY <1>2, <2>2
    <3> QED BY <1>8, <2>2, <3>1
  <2>4. RowsKept'
    BY <1>10, <1>24, <2>1, <2>3
  <2>5. \A q \in Procs : req'[q].op \in {"ask", "export"} => row'["export"][req'[q].of] # Null
    BY <1>14, <2>1, <2>2
  <2>6. BacklogKept'
    BY <1>23, <1>24, <2>1, <2>5
  <2> QED BY <1>1, <1>15, <1>24, <2>1, <2>3, <2>4, <2>6
<1>28. ASSUME NEW p \in Procs, EnqueueExport(p)
       PROVE  JobsInv'
  <2>1. /\ req[p].op = "ask" /\ req' = [req EXCEPT ![p] = Idle]
        /\ UNCHANGED <<row, blame, evictions>>
    BY <1>28 DEF EnqueueExport, At, Finish
  <2>2. PICK u \in Users : u = req[p].of /\ row["export"][u] # Null
    BY <1>1, <1>2, <2>1 DEF JobsHaveARow
  <2>3. /\ req' \in [Procs -> R]
        /\ \A q, k, v : k \in Kinds => (Works(q, k, v)' <=> Works(q, k, v))
    <3>1. req[p].op \notin Kinds /\ Idle \in R /\ Idle.op \notin Kinds
      BY <1>2, <2>1
    <3> QED BY <1>8, <2>1, <3>1
  <2>4. RowsKept'
    BY <1>10, <1>24, <2>1, <2>3
  <2>5. \A q \in Procs : req'[q].op \in {"ask", "export"} => row'["export"][req'[q].of] # Null
    BY <1>2, <1>14, <2>1
  <2>6. /\ exportJob' \in Runs /\ \A v \in Users : v # u => exportJob'[v] = exportJob[v]
        /\ exportJob'[u] = "kept" => exportJob[u] = "kept"
    <3>1. CASE exportJob' = exportJob
      BY <1>1, <3>1
    <3>2. CASE exportJob' = Enqueued(u)
      <4>1. CASE exportJob[u] = "none"
        <5>1. exportJob' = [exportJob EXCEPT ![u] = "waiting"]
          BY <3>2, <4>1 DEF Enqueued
        <5> QED BY <1>1, <1>17, <5>1 DEF Runs
      <4>2. CASE exportJob[u] # "none"
        BY <1>1, <3>2, <4>2 DEF Enqueued
      <4> QED BY <4>1, <4>2
    <3> QED BY <1>28, <2>2, <3>1, <3>2 DEF EnqueueExport
  <2>7. BacklogKept'
    <3>1. row'["export"][u] = "requested" /\ exportJob'[u] = "kept" =>
             "failed" \in blame'["export"][u] \/ "stalled" \in blame'["export"][u]
      BY <1>1, <2>1, <2>6 DEF KeptJobsAreBlamed
    <3> QED BY <1>22, <2>1, <2>2, <2>5, <2>6, <3>1
  <2>8. failures' \in 0..MaxFailures
    BY <1>1, <1>6, <1>28 DEF EnqueueExport, Failure
  <2> QED BY <1>1, <1>15, <1>24, <2>1, <2>3, <2>4, <2>6, <2>7, <2>8
<1>29. ASSUME NEW p \in Procs, NEW u \in Users, TakeJob(p, u)
       PROVE  JobsInv'
  <2> DEFINE r == Work("export", u, "claim")
  <2>1. /\ req[p] = Idle /\ req' = [req EXCEPT ![p] = r] /\ exportJob[u] = "waiting"
        /\ exportJob' = [exportJob EXCEPT ![u] = "active"]
        /\ UNCHANGED <<row, blame, failures, evictions>>
    BY <1>29 DEF TakeJob, Enter
  <2>2. r \in R /\ r.op = "export" /\ r.of = u /\ r.at = "claim"
    BY <1>2, <1>3
  <2>3. /\ req' \in [Procs -> R]
        /\ \A q, k, v : k \in Kinds => (Works(q, k, v)' <=> Works(q, k, v))
    <3>1. req[p].op \notin Kinds
      BY <1>2, <2>1
    <3> QED BY <1>8, <2>1, <2>2, <3>1
  <2>4. RowsKept'
    BY <1>10, <1>24, <2>1, <2>3
  <2>5. row["export"][u] # Null
    BY <1>1, <2>1 DEF JobsHaveARow
  <2>6. \A q \in Procs : req'[q].op \in {"ask", "export"} => row'["export"][req'[q].of] # Null
    BY <1>14, <2>1, <2>2, <2>5
  <2>7. /\ exportJob' \in Runs /\ exportJob'[u] = "active"
        /\ \A v \in Users : v # u => exportJob'[v] = exportJob[v]
    BY <1>1, <1>17, <2>1 DEF Runs
  <2>8. BacklogKept'
    BY <1>22, <2>1, <2>5, <2>6, <2>7
  <2> QED BY <1>1, <1>15, <1>24, <2>1, <2>3, <2>4, <2>7, <2>8
\* A claim that meets no row it may take, or that fails at once: the job ends.
<1>30. ASSUME NEW p \in Procs, NEW u \in Users, req[p].op = "export", req[p].at = "claim",
              req[p].of = u, row' = row, JobEnds(p, u), Finish(p), evictions' = evictions,
              \/ UNCHANGED <<blame, failures>> /\ row["export"][u] # "requested"
              \/ Failure /\ Blame("export", u, "failed")
       PROVE  JobsInv'
  <2>1. req' = [req EXCEPT ![p] = Idle]
    BY <1>30 DEF Finish
  <2>2. /\ req' \in [Procs -> R]
        /\ \A q, k, v : k \in Kinds => (Works(q, k, v)' <=> Works(q, k, v))
    <3>1. Idle \in R /\ Idle.op \notin Kinds
      BY <1>2
    <3> QED BY <1>8, <1>30, <2>1, <3>1
  <2>3. /\ blame' \in [Kinds -> [Users -> Blames]]
        /\ \A l \in Kinds, v \in Users : blame[l][v] \subseteq blame'[l][v]
        /\ row["export"][u] = "requested" => "failed" \in blame'["export"][u]
        /\ failures' \in 0..MaxFailures
    <3>1. CASE UNCHANGED <<blame, failures>> /\ row["export"][u] # "requested"
      BY <1>1, <1>24, <3>1
    <3>2. CASE Failure /\ Blame("export", u, "failed")
      <4>1. "export" \in Kinds /\ "failed" \in Faults
        BY <1>2, <1>18
      <4> QED BY <1>6, <1>12, <3>2, <4>1 DEF Failure
    <3> QED BY <1>30, <3>1, <3>2
  <2>4. RowsKept'
    BY <1>10, <1>30, <2>2, <2>3
  <2>5. \A q \in Procs : req'[q].op \in {"ask", "export"} => row'["export"][req'[q].of] # Null
    BY <1>2, <1>14, <1>30, <2>1
  <2>6. row["export"][u] # Null
    BY <1>1, <1>30 DEF JobsHaveARow
  <2>7. BacklogKept'
    BY <1>2, <1>20, <1>22, <1>30, <2>3, <2>5, <2>6
  <2> QED BY <1>1, <1>15, <1>20, <1>30, <2>2, <2>3, <2>4, <2>7
\* A claim that takes its row: nobody had it.
<1>31. ASSUME NEW p \in Procs, NEW k \in Kinds, NEW u \in Users, NEW r \in R,
              req[p].op = k, req[p].at = "claim", req[p].of = u,
              r.op = k, r.of = u, r.at # "claim", req' = [req EXCEPT ![p] = r],
              row[k][u] # "processing", row[k][u] # Null, SetRow(k, u, "processing"),
              UNCHANGED <<exportJob, blame, failures, evictions>>
       PROVE  JobsInv'
  <2>1. req' \in [Procs -> R]
    BY <1>1, <1>31
  <2>2. \A q \in Procs : ~Works(q, k, u)
    BY <1>1, <1>31 DEF WorkersHaveTheRow
  <2>3. /\ \A q \in Procs : Works(q, k, u)' <=> q = p
        /\ \A q, l, v : l \in Kinds /\ (l # k \/ v # u) => (Works(q, l, v)' <=> Works(q, l, v))
    BY <1>1, <1>4, <1>5, <1>31, <2>2
  <2>4. /\ RowsKept' /\ row' \in [Kinds -> [Users -> Rows]] /\ row'[k][u] = "processing"
        /\ \A l \in Kinds, v \in Users : l # k \/ v # u => row'[l][v] = row[l][v]
    <3>1. "processing" \in Rows
      BY <1>13
    <3> QED BY <1>21, <1>24, <1>31, <2>3, <3>1
  <2>5. \A v \in Users : row["export"][v] # Null => row'["export"][v] # Null
    BY <1>2, <1>26, <2>4
  <2>6. \A q \in Procs : req'[q].op \in {"ask", "export"} => row'["export"][req'[q].of] # Null
    <3>1. r.op \in {"ask", "export"} => row["export"][r.of] # Null
      BY <1>2, <1>31
    <3> QED BY <1>14, <1>31, <2>5, <3>1
  <2>7. BacklogKept'
    <3>1. KeptJobsAreBlamed'
      BY <1>1, <1>2, <1>31, <2>4 DEF KeptJobsAreBlamed
    <3>2. JobsHaveARow'
      BY <1>1, <1>31, <2>5, <2>6 DEF JobsHaveARow
    <3> QED BY <3>1, <3>2 DEF BacklogKept
  <2> QED BY <1>1, <1>15, <1>24, <1>31, <2>1, <2>4, <2>7
\* A process is done with a row that it worked on or that nobody had.
<1>32. ASSUME NEW p \in Procs, NEW k \in Kinds, NEW u \in Users,
              NEW x \in {"ready", "failed", "processing"},
              req[p].op = k, req[p].of = u,
              req[p].at # "claim" \/ row[k][u] \notin {"processing", Null},
              SetRow(k, u, x), Finish(p), evictions' = evictions,
              k = "export" => JobEnds(p, u), k # "export" => UNCHANGED exportJob,
              \/ x = "ready" /\ UNCHANGED <<blame, failures>>
              \/ x = "failed" /\ Failure /\ Blame(k, u, "failed")
              \/ x = "processing" /\ Failure /\ Blame(k, u, "stuck")
       PROVE  JobsInv'
  <2>1. req' = [req EXCEPT ![p] = Idle]
    BY <1>32 DEF Finish
  <2>2. req' \in [Procs -> R]
    BY <1>1, <1>2, <2>1
  <2>3. \A q \in Procs : Works(q, k, u) => q = p
    BY <1>1, <1>4, <1>32 DEF WorkersHaveTheRow
  <2>4. /\ \A q \in Procs : ~Works(q, k, u)'
        /\ \A q, l, v : l \in Kinds /\ (l # k \/ v # u) => (Works(q, l, v)' <=> Works(q, l, v))
    BY <1>1, <1>2, <1>4, <1>5, <1>32, <2>1, <2>3
  <2>5. /\ blame' \in [Kinds -> [Users -> Blames]]
        /\ \A l \in Kinds, v \in Users : blame[l][v] \subseteq blame'[l][v]
        /\ x = "failed" => "failed" \in blame'[k][u]
        /\ x = "processing" => "stuck" \in blame'[k][u]
        /\ failures' \in 0..MaxFailures
    <3>1. CASE x = "failed" /\ Failure /\ Blame(k, u, "failed")
      BY <1>6, <1>12, <1>18, <3>1 DEF Failure
    <3>2. CASE x = "processing" /\ Failure /\ Blame(k, u, "stuck")
      BY <1>6, <1>12, <1>18, <3>2 DEF Failure
    <3>3. CASE x = "ready" /\ UNCHANGED <<blame, failures>>
      BY <1>1, <1>24, <3>3
    <3> QED BY <1>32, <3>1, <3>2, <3>3
  <2>6. /\ RowsKept' /\ row' \in [Kinds -> [Users -> Rows]] /\ row'[k][u] = x
        /\ \A l \in Kinds, v \in Users : l # k \/ v # u => row'[l][v] = row[l][v]
    <3>1. x \in Rows
      BY <1>13, <1>32
    <3> QED BY <1>21, <1>32, <2>4, <2>5, <3>1
  <2>7. x # Null /\ x # "requested"
    BY <1>26, <1>32
  <2>8. \A v \in Users : row["export"][v] # Null => row'["export"][v] # Null
    BY <1>2, <2>6, <2>7
  <2>9. \A q \in Procs : req'[q].op \in {"ask", "export"} => row'["export"][req'[q].of] # Null
    BY <1>2, <1>14, <2>1, <2>8
  <2>10. exportJob' \in Runs /\ BacklogKept'
    <3>1. CASE k = "export"
      BY <1>20, <1>22, <1>32, <2>5, <2>6, <2>7, <2>9, <3>1
    <3>2. CASE k = "rename"
      <4>1. exportJob' = exportJob /\ \A v \in Users : row'["export"][v] = row["export"][v]
        BY <1>2, <1>32, <2>6, <3>2
      <4>2. KeptJobsAreBlamed'
        BY <1>1, <1>2, <2>5, <4>1 DEF KeptJobsAreBlamed
      <4>3. JobsHaveARow'
        BY <1>1, <2>9, <4>1 DEF JobsHaveARow
      <4> QED BY <1>1, <4>1, <4>2, <4>3 DEF BacklogKept
    <3> QED BY <1>2, <3>1, <3>2
  <2> QED BY <1>1, <1>15, <1>32, <2>2, <2>5, <2>6, <2>10
<1>33. ASSUME NEW p \in Procs, ClaimExport(p)
       PROVE  JobsInv'
  <2>1. req[p].op = "export" /\ req[p].at = "claim" /\ evictions' = evictions
    BY <1>33 DEF ClaimExport, At
  <2>2. PICK u \in Users : u = req[p].of
    BY <1>1, <1>2, <2>1
  <2>3. CASE /\ row["export"][u] \in {"requested", "failed"}
             /\ SetRow("export", u, "processing") /\ Goto(p, "build")
             /\ UNCHANGED <<queueVars, blame, failures>>
    <3>1. PICK r : r = [req[p] EXCEPT !.at = "build"]
      OBVIOUS
    <3>2. r \in R /\ r.op = "export" /\ r.of = u /\ r.at = "build"
      BY <1>1, <2>1, <2>2, <3>1, JobRequest DEF R
    <3>3. req' = [req EXCEPT ![p] = r]
      BY <2>3, <3>1 DEF Goto
    <3>4. "export" \in Kinds /\ row["export"][u] # "processing" /\ row["export"][u] # Null
      BY <1>2, <1>26, <2>3
    <3>5. UNCHANGED <<exportJob, blame, failures, evictions>>
      BY <1>19, <2>1, <2>3
    <3> QED BY <1>31, <2>1, <2>2, <2>3, <3>2, <3>3, <3>4, <3>5
  <2>4. CASE /\ row["export"][u] \notin {"requested", "failed"}
             /\ JobEnds(p, u) /\ Finish(p) /\ UNCHANGED <<row, blame, failures>>
    <3>1. row["export"][u] # "requested" /\ JobEnds(p, u) /\ Finish(p) /\ UNCHANGED <<row, blame, failures>>
      BY <2>4
    <3> QED BY <1>30, <2>1, <2>2, <3>1
  <2>5. CASE ClaimFails("export", u, {"requested", "failed"}) /\ JobEnds(p, u) /\ Finish(p)
    <3>1. CASE UNCHANGED row /\ Blame("export", u, "failed")
      <4>1. Failure
        BY <2>5 DEF ClaimFails
      <4> QED BY <1>30, <2>1, <2>2, <2>5, <3>1, <4>1
    <3>2. CASE /\ row["export"][u] \in {"requested", "failed"}
               /\ SetRow("export", u, "processing") /\ Blame("export", u, "stuck")
      <4>1. Failure
        BY <2>5 DEF ClaimFails
      <4>2. "export" \in Kinds /\ row["export"][u] \notin {"processing", Null}
        BY <1>2, <1>26, <3>2
      <4> QED BY <1>32, <2>1, <2>2, <2>5, <3>2, <4>1, <4>2
    <3> QED BY <2>5, <3>1, <3>2 DEF ClaimFails
  <2> QED BY <1>33, <2>2, <2>3, <2>4, <2>5 DEF ClaimExport
<1>34. ASSUME NEW p \in Procs, ClaimRename(p)
       PROVE  JobsInv'
  <2>1. /\ req[p].op = "rename" /\ req[p].at = "claim"
        /\ UNCHANGED <<exportJob, evictions>>
    BY <1>34, <1>19 DEF ClaimRename, At
  <2>2. PICK u \in Users : u = req[p].of
    BY <1>1, <1>2, <2>1
  <2>3. CASE /\ row["rename"][u] = "requested"
             /\ SetRow("rename", u, "processing") /\ Goto(p, "upsert")
             /\ UNCHANGED <<blame, failures>>
    <3>1. PICK r : r = [req[p] EXCEPT !.at = "upsert"]
      OBVIOUS
    <3>2. r \in R /\ r.op = "rename" /\ r.of = u /\ r.at = "upsert"
      BY <1>1, <2>1, <2>2, <3>1, JobRequest DEF R
    <3>3. req' = [req EXCEPT ![p] = r]
      BY <2>3, <3>1 DEF Goto
    <3>4. "rename" \in Kinds /\ row["rename"][u] # "processing" /\ row["rename"][u] # Null
      BY <1>2, <1>26, <2>3
    <3>5. UNCHANGED <<exportJob, blame, failures, evictions>>
      BY <2>1, <2>3
    <3> QED BY <1>31, <2>1, <2>2, <2>3, <3>2, <3>3, <3>4, <3>5
  <2>4. CASE /\ Finish(p) /\ row' = row
             /\ \/ blame' = blame /\ failures' = failures
                \/ Failure /\ Blame("rename", u, "failed")
    <3>1. req' = [req EXCEPT ![p] = Idle] /\ row' = row
      BY <2>4 DEF Finish
    <3>6. /\ blame' \in [Kinds -> [Users -> Blames]]
          /\ \A l \in Kinds, v \in Users : blame[l][v] \subseteq blame'[l][v]
          /\ failures' \in 0..MaxFailures
      <4>1. "rename" \in Kinds /\ "failed" \in Faults
        BY <1>2, <1>18
      <4>2. CASE blame' = blame /\ failures' = failures
        BY <1>1, <1>24, <4>2
      <4>3. CASE Failure /\ Blame("rename", u, "failed")
        BY <1>6, <1>12, <4>1, <4>3 DEF Failure
      <4> QED BY <2>4, <4>2, <4>3
    <3>2. /\ req' \in [Procs -> R]
          /\ \A q, k, v : k \in Kinds => (Works(q, k, v)' <=> Works(q, k, v))
      <4>1. Idle \in R /\ Idle.op \notin Kinds
        BY <1>2
      <4> QED BY <1>8, <2>1, <3>1, <4>1
    <3>3. RowsKept'
      BY <1>10, <3>1, <3>2, <3>6
    <3>4. \A q \in Procs : req'[q].op \in {"ask", "export"} => row'["export"][req'[q].of] # Null
      BY <1>2, <1>14, <3>1
    <3>5. BacklogKept'
      BY <1>23, <2>1, <3>1, <3>4, <3>6
    <3> QED BY <1>1, <1>15, <2>1, <3>1, <3>2, <3>3, <3>5, <3>6
  <2>5. CASE /\ Failure /\ Finish(p) /\ row["rename"][u] = "requested"
             /\ SetRow("rename", u, "processing") /\ Blame("rename", u, "stuck")
    <3>1. "rename" \in Kinds /\ "rename" # "export" /\ row["rename"][u] \notin {"processing", Null}
      BY <1>2, <1>26, <2>5
    <3> QED BY <1>32, <2>1, <2>2, <2>5, <3>1
  <2>6. CASE ClaimFails("rename", u, {"requested"}) /\ Finish(p)
    <3>1. CASE UNCHANGED row /\ Blame("rename", u, "failed")
      <4>1. Failure
        BY <2>6 DEF ClaimFails
      <4> QED BY <2>4, <2>6, <3>1, <4>1
    <3>2. CASE /\ row["rename"][u] = "requested"
               /\ SetRow("rename", u, "processing") /\ Blame("rename", u, "stuck")
      <4>1. Failure
        BY <2>6 DEF ClaimFails
      <4> QED BY <2>5, <2>6, <3>2, <4>1
    <3> QED BY <2>6, <3>1, <3>2 DEF ClaimFails
  <2>7. CASE row["rename"][u] # "requested" /\ Finish(p) /\ UNCHANGED <<row, blame, failures>>
    <3>1. Finish(p) /\ row' = row /\ blame' = blame /\ failures' = failures
      BY <2>7
    <3> QED BY <2>4, <3>1
  <2> QED BY <1>34, <2>2, <2>3, <2>6, <2>7 DEF ClaimRename
<1>35. ASSUME NEW p \in Procs, BuildExport(p) \/ BuildFails(p) \/ PropagateRename(p)
       PROVE  JobsInv'
  <2>1. /\ req[p].op \in Kinds /\ req[p].at # "claim"
        /\ Finish(p) /\ evictions' = evictions
    BY <1>2, <1>35 DEF BuildExport, BuildFails, PropagateRename, At
  <2>2. PICK k \in Kinds, u \in Users : k = req[p].op /\ u = req[p].of
    BY <1>1, <1>2, <2>1
  <2>3. CASE BuildExport(p)
    <3>1. k = "export" /\ SetRow(k, u, "ready") /\ JobEnds(p, u) /\ UNCHANGED <<blame, failures>>
      BY <2>2, <2>3 DEF BuildExport, At
    <3> QED BY <1>32, <2>1, <2>2, <3>1
  <2>6. ASSUME WorkFails(k, u)
        PROVE  \/ SetRow(k, u, "failed") /\ Failure /\ Blame(k, u, "failed")
               \/ SetRow(k, u, "processing") /\ Failure /\ Blame(k, u, "stuck")
    <3>1. row[k][u] = "processing"
      BY <1>1, <1>4, <2>1, <2>2 DEF WorkersHaveTheRow
    <3>2. UNCHANGED row => SetRow(k, u, "processing")
      BY <1>1, <3>1 DEF SetRow
    <3> QED BY <2>6, <3>2 DEF WorkFails
  <2>4. CASE BuildFails(p)
    <3>1. k = "export" /\ JobEnds(p, u) /\ WorkFails(k, u)
      BY <2>2, <2>4 DEF BuildFails, At
    <3> QED BY <1>32, <2>1, <2>2, <2>6, <3>1
  <2>5. CASE PropagateRename(p)
    <3>1. k = "rename" /\ UNCHANGED exportJob
      BY <1>19, <2>2, <2>5 DEF PropagateRename, At
    <3>2. \/ SetRow(k, u, "ready") /\ UNCHANGED <<blame, failures>>
          \/ WorkFails(k, u)
      BY <2>2, <2>5, <3>1 DEF PropagateRename
    <3> QED BY <1>32, <2>1, <2>2, <2>6, <3>1, <3>2
  <2> QED BY <1>35, <2>3, <2>4, <2>5
\* A stalled job goes back or is given up, and one no longer kept is forgotten.
<1>36. ASSUME NEW u \in Users, JobStalls(u) \/ JobEvicted(u)
       PROVE  JobsInv'
  <2>1. UNCHANGED <<row, req>> /\ exportJob[u] # "none"
    BY <1>36 DEF JobStalls, JobEvicted, reqVars
  <2>2. PICK s \in {"waiting", "none", "kept"} :
           /\ exportJob' = [exportJob EXCEPT ![u] = s]
           /\ \/ s # "kept" /\ UNCHANGED blame
              \/ s = "kept" /\ Blame("export", u, "stalled")
    <3>1. CASE JobStalls(u) /\ stalls[u] < MaxStalls
      <4>1. exportJob' = [exportJob EXCEPT ![u] = "waiting"] /\ UNCHANGED blame
        BY <3>1 DEF JobStalls
      <4> QED BY <4>1
    <3>2. CASE JobStalls(u) /\ ~(stalls[u] < MaxStalls)
      <4>1. exportJob' = [exportJob EXCEPT ![u] = "kept"] /\ Blame("export", u, "stalled")
        BY <3>2 DEF JobStalls
      <4> QED BY <4>1
    <3>3. CASE JobEvicted(u)
      <4>1. exportJob' = [exportJob EXCEPT ![u] = "none"] /\ UNCHANGED blame
        BY <3>3 DEF JobEvicted
      <4> QED BY <4>1
    <3> QED BY <1>36, <3>1, <3>2, <3>3
  <2>3. exportJob' \in Runs /\ exportJob'[u] = s /\ \A v \in Users : v # u => exportJob'[v] = exportJob[v]
    <3>1. s \in JobStates
      BY <1>17
    <3> QED BY <1>1, <2>2, <3>1 DEF Runs
  <2>4. failures' \in 0..MaxFailures /\ evictions' \in 0..MaxEvictions
    <3>1. CASE JobStalls(u)
      BY <1>1, <1>6, <3>1 DEF JobStalls, Failure
    <3>2. CASE JobEvicted(u)
      <4>1. evictions < MaxEvictions /\ evictions' = evictions + 1 /\ failures' = failures
        BY <3>2 DEF JobEvicted
      <4> QED BY <1>1, <4>1, OneMore, JobsAssumption
    <3> QED BY <1>36, <3>1, <3>2
  <2>8. /\ blame' \in [Kinds -> [Users -> Blames]]
        /\ \A l \in Kinds, v \in Users : blame[l][v] \subseteq blame'[l][v]
        /\ s = "kept" => "stalled" \in blame'["export"][u]
    <3>1. "export" \in Kinds /\ "stalled" \in Faults
      BY <1>2, <1>18
    <3>2. CASE s # "kept" /\ UNCHANGED blame
      BY <1>24, <3>2
    <3>3. CASE s = "kept" /\ Blame("export", u, "stalled")
      BY <1>12, <3>1, <3>3
    <3> QED BY <2>2, <3>2, <3>3
  <2>5. RowsKept'
    BY <1>9, <1>10, <2>1, <2>8
  <2>6. \A q \in Procs : req'[q].op \in {"ask", "export"} => row'["export"][req'[q].of] # Null
    BY <1>1, <2>1 DEF JobsHaveARow
  <2>7. BacklogKept'
    <3>1. row["export"][u] # Null /\ "export" \in Kinds
      BY <1>1, <1>2, <2>1 DEF JobsHaveARow
    <3>2. \A v \in Users : v # u =>
             /\ exportJob'[v] = exportJob[v] /\ row'["export"][v] = row["export"][v]
             /\ blame["export"][v] \subseteq blame'["export"][v]
      BY <2>1, <2>3, <2>8, <3>1
    <3>3. exportJob'[u] = "kept" => "stalled" \in blame'["export"][u]
      BY <2>3, <2>8
    <3> QED BY <1>22, <2>1, <2>6, <3>1, <3>2, <3>3
  <2> QED BY <1>1, <1>15, <2>1, <2>3, <2>4, <2>5, <2>7, <2>8
<1>37. ASSUME NEW u \in Users, QueueRename(u)
       PROVE  JobsInv'
  <2>1. /\ row["rename"][u] = Null /\ SetRow("rename", u, "requested")
        /\ UNCHANGED <<exportJob, blame, failures, evictions, req>>
    BY <1>37, <1>19 DEF QueueRename, reqVars
  <2>2. \A q \in Procs : ~Works(q, "rename", u)
    BY <1>1, <1>2, <1>26, <2>1 DEF WorkersHaveTheRow
  <2>3. \A q, k, v : Works(q, k, v)' <=> Works(q, k, v)
    BY <1>9, <2>1
  <2>4. /\ RowsKept' /\ row' \in [Kinds -> [Users -> Rows]]
        /\ \A l \in Kinds, v \in Users : l # "rename" \/ v # u => row'[l][v] = row[l][v]
    <3>1. "rename" \in Kinds /\ "requested" \in Rows
      BY <1>2, <1>13
    <3> QED BY <1>21, <1>24, <2>1, <2>2, <2>3, <3>1
  <2>5. \A v \in Users : row'["export"][v] = row["export"][v]
    BY <1>2, <2>4
  <2>6. BacklogKept'
    <3>1. KeptJobsAreBlamed'
      BY <1>1, <2>1, <2>5 DEF KeptJobsAreBlamed
    <3>2. JobsHaveARow'
      BY <1>1, <1>2, <2>1, <2>5 DEF JobsHaveARow
    <3> QED BY <3>1, <3>2 DEF BacklogKept
  <2> QED BY <1>1, <1>15, <1>24, <2>1, <2>4, <2>6
<1>38. ASSUME NEW p \in Procs, JobsDie(p)
       PROVE  JobsInv'
  <2>1. /\ req' = [req EXCEPT ![p] = Idle] /\ req[p] # Idle
        /\ UNCHANGED <<row, exportJob, failures, evictions>>
    BY <1>38, <1>19 DEF JobsDie, Die
  <2>2. req' \in [Procs -> R]
    BY <1>1, <1>2, <2>1
  <2>3. \A q \in Procs : req'[q].op \in {"ask", "export"} => row'["export"][req'[q].of] # Null
    BY <1>2, <1>14, <2>1
  <2>4. CASE req[p].op \in Kinds
    <3>1. PICK k \in Kinds, u \in Users : k = req[p].op /\ u = req[p].of
      BY <1>1, <1>2, <2>4
    <3>2. /\ blame' \in [Kinds -> [Users -> Blames]] /\ "died" \in blame'[k][u]
          /\ \A l \in Kinds, v \in Users : blame[l][v] \subseteq blame'[l][v]
      <4>1. Blame(k, u, "died")
        BY <1>38, <2>4, <3>1 DEF JobsDie
      <4> QED BY <1>12, <1>18, <4>1
    <3>3. \A q, l, v : l \in Kinds => (Works(q, l, v)' => Works(q, l, v))
      BY <1>1, <1>2, <1>4, <1>5, <2>1
    <3>4. \A q, l, v : l \in Kinds /\ (l # k \/ v # u) => (Works(q, l, v)' <=> Works(q, l, v))
      BY <1>1, <1>2, <1>4, <1>5, <2>1, <3>1
    <3>5. WorkersHaveTheRow'
      BY <1>1, <2>1, <3>3 DEF WorkersHaveTheRow
    <3>6. RowsHaveAWorker'
      BY <1>1, <2>1, <3>2, <3>4 DEF RowsHaveAWorker
    <3>7. FailuresAreBlamed'
      BY <1>1, <2>1, <3>2 DEF FailuresAreBlamed
    <3>8. RowsKept'
      BY <3>5, <3>6, <3>7 DEF RowsKept
    <3>9. BacklogKept'
      BY <1>23, <2>1, <2>3, <3>2
    <3> QED BY <1>1, <1>15, <2>1, <2>2, <3>2, <3>8, <3>9
  <2>5. CASE req[p].op \notin Kinds
    <3>1. blame' = blame
      BY <1>38, <2>5 DEF JobsDie
    <3>2. \A q, k, v : k \in Kinds => (Works(q, k, v)' <=> Works(q, k, v))
      BY <1>2, <1>8, <2>1, <2>5
    <3>3. RowsKept'
      BY <1>10, <1>24, <2>1, <3>1, <3>2
    <3>4. BacklogKept'
      BY <1>23, <1>24, <2>1, <2>3, <3>1
    <3> QED BY <1>1, <1>15, <1>24, <2>1, <2>2, <3>1, <3>3, <3>4
  <2> QED BY <2>4, <2>5
<1>39. ASSUME UNCHANGED <<reqVars, jobsVars>>
       PROVE  JobsInv'
  <2>1. UNCHANGED <<req, row, exportJob, blame, failures, evictions>>
    BY <1>39, <1>19 DEF reqVars, jobsVars
  <2>2. RowsKept'
    BY <1>9, <1>10, <1>24, <2>1
  <2>3. \A q \in Procs : req'[q].op \in {"ask", "export"} => row'["export"][req'[q].of] # Null
    BY <1>1, <2>1 DEF JobsHaveARow
  <2>4. BacklogKept'
    BY <1>23, <1>24, <2>1, <2>3
  <2> QED BY <1>1, <1>15, <1>24, <2>1, <2>2, <2>4
<1> QED
  BY <1>25, <1>27, <1>28, <1>29, <1>33, <1>34, <1>35, <1>36, <1>37, <1>38, <1>39 DEF JobsNext

\* The invariant includes the properties that are checked.
LEMMA JobsSafe ==
    ASSUME JobsInv
    PROVE  JobsTypeOK /\ RowsAreWorkedOnce
<1> SUFFICES ASSUME NEW k \in Kinds, NEW u \in Users
             PROVE  /\ Workers(k, u) # {} =>
                          row[k][u] = "processing" /\ Cardinality(Workers(k, u)) = 1
                    /\ row[k][u] = "processing" =>
                          Workers(k, u) # {} \/ {"died", "stuck"} \cap blame[k][u] # {}
                    /\ row[k][u] = "failed" => "failed" \in blame[k][u]
                    /\ k = "export" /\ row[k][u] = "requested" /\ exportJob[u] = "kept" =>
                          {"failed", "stalled"} \cap blame[k][u] # {}
  BY DEF JobsInv, RowsAreWorkedOnce
<1>1. ASSUME Workers(k, u) # {}
      PROVE  row[k][u] = "processing" /\ Cardinality(Workers(k, u)) = 1
  <2>1. PICK p \in Procs : p \in Workers(k, u)
    BY <1>1 DEF Workers
  <2>2. row[k][u] = "processing" /\ \A q \in Procs : q \in Workers(k, u) => q = p
    BY <2>1 DEF JobsInv, WorkersHaveTheRow, Works
  <2>3. Workers(k, u) = {p}
    BY <2>1, <2>2 DEF Workers
  <2> QED BY <2>2, <2>3, FS_Singleton
<1>2. row[k][u] = "processing" => Workers(k, u) # {} \/ {"died", "stuck"} \cap blame[k][u] # {}
  <2>1. row[k][u] = "processing" =>
           \/ Workers(k, u) # {}
           \/ "died" \in blame[k][u] \/ "stuck" \in blame[k][u]
    BY DEF JobsInv, RowsHaveAWorker, Works
  <2> QED BY <2>1
<1>3. k = "export" /\ row[k][u] = "requested" /\ exportJob[u] = "kept" =>
         {"failed", "stalled"} \cap blame[k][u] # {}
  <2>1. k = "export" /\ row[k][u] = "requested" /\ exportJob[u] = "kept" =>
           "failed" \in blame[k][u] \/ "stalled" \in blame[k][u]
    BY DEF JobsInv, KeptJobsAreBlamed
  <2> QED BY <2>1
<1> QED BY <1>1, <1>2, <1>3 DEF JobsInv, FailuresAreBlamed

\* A new platform has no row and no job.
LEMMA JobsInitial ==
    ASSUME ReqInit, JobsInit
    PROVE  JobsInv
<1>1. /\ req = [p \in Procs |-> Idle] /\ row = [k \in Kinds |-> [u \in Users |-> Null]]
      /\ exportJob = [u \in Users |-> "none"] /\ blame = [k \in Kinds |-> [u \in Users |-> {}]]
      /\ failures = 0 /\ evictions = 0
      /\ lock = [u \in Users |-> Null] /\ stalls = [u \in Users |-> 0]
  BY DEF ReqInit, JobsInit
<1>2. "export" \in Kinds /\ \A k \in Kinds, u \in Users : row[k][u] = Null
  BY <1>1 DEF Kinds
<1>3. JobsTypeOK
  <2>1. failures \in 0..MaxFailures /\ evictions \in 0..MaxEvictions
    BY <1>1, NoneYet, JobsAssumption
  <2>2. row \in [Kinds -> [Users -> RowStatuses \cup {Null}]] /\ exportJob \in [Users -> JobStates]
    BY <1>1 DEF JobStates
  <2>3. blame \in [Kinds -> [Users -> SUBSET Faults]]
    BY <1>1
  <2>4. lock \in [Users -> Procs \cup {Null}] /\ stalls \in [Users -> 0..MaxStalls]
    <3>1. 0 \in 0..MaxStalls
      BY NoneYet, JobsAssumption
    <3> QED BY <1>1, <3>1
  <2> QED BY <2>1, <2>2, <2>3, <2>4 DEF JobsTypeOK
<1>4. \A p \in Procs : req[p] = Idle /\ req[p].op = "idle"
  BY <1>1 DEF Idle
<1>5. WorkersHaveTheRow
  BY <1>4 DEF WorkersHaveTheRow, Works, Workers, Kinds
<1>6. RowsHaveAWorker /\ FailuresAreBlamed /\ KeptJobsAreBlamed
  BY <1>2, NoRowAssumption DEF RowsHaveAWorker, FailuresAreBlamed, KeptJobsAreBlamed, RowStatuses
<1>7. JobsHaveARow
  BY <1>1, <1>4 DEF JobsHaveARow
<1>8. req \in [Procs -> JobRequests]
  BY <1>1 DEF JobRequests
<1> QED BY <1>3, <1>5, <1>6, <1>7, <1>8 DEF JobsInv

-----------------------------------------------------------------------------
(* Caches.                                                                 *)

\* What a request of the service can have in hand.
CacheRequests ==
         {Idle}
    \cup [op: {"config"}, at: {"load", "fill"}, value: 0..MaxFlagWrites \cup {Null}]
    \cup [op: {"flag"}, at: {"del"}]

\* A value that is stale has a write in flight or an excuse.
CachesInv == req \in [Procs -> CacheRequests] /\ CachesTypeOK /\ FlagsAreFresh

\* A write of the flags is what makes the cached ones stale, and it is in
\* flight until it has deleted the key or left an excuse.
LEMMA CachesKept ==
    ASSUME CachesInv, [CachesNext]_<<reqVars, cacheVars>>
    PROVE  CachesInv'
<1>1. /\ req \in [Procs -> CacheRequests] /\ CachesTypeOK /\ FlagsAreFresh
      /\ MaxFlagWrites \in Nat /\ MaxRedisErrors \in Nat
  BY CachesAssumption DEF CachesInv
\* A process that is not deleting the key may move anywhere.
<1>2. /\ flags \in 0..MaxFlagWrites /\ redisErrors \in 0..MaxRedisErrors
       /\ excuse \subseteq {"overtaken", "not deleted"}
  BY <1>1 DEF CachesTypeOK
<1>3. RedisFails => redisErrors' \in 0..MaxRedisErrors
  <2>1. ASSUME NEW n, NEW m \in Nat, n \in 0..m, n < m
        PROVE  n + 1 \in 0..m
    BY <2>1
  <2> QED BY <1>2, <2>1, CachesAssumption DEF RedisFails
<1>4. UNCHANGED redisErrors => redisErrors' \in 0..MaxRedisErrors
  BY <1>2
<1>5. ASSUME NEW p \in Procs, ~At(p, "flag", "del"), NEW r, req' = [req EXCEPT ![p] = r],
             UNCHANGED <<flags, cachedFlags, excuse>>
      PROVE  FlagsAreFresh'
  <2>1. \A q \in Procs : At(q, "flag", "del") => At(q, "flag", "del")'
    BY <1>1, <1>5 DEF At
  <2> QED BY <1>1, <1>5, <2>1 DEF FlagsAreFresh
<1>6. Idle \in CacheRequests /\ Idle.op = "idle"
  BY DEF CacheRequests, Idle
<1>7. ASSUME NEW p \in Procs, CacheGet(p)
      PROVE  CachesInv'
  <2> DEFINE r == [op |-> "config", at |-> "load", value |-> Null]
  <2>1. r \in CacheRequests
    BY DEF CacheRequests
  <2>2. req' = [req EXCEPT ![p] = r] /\ req[p] = Idle /\ UNCHANGED <<flags, cachedFlags, excuse>>
    BY <1>7 DEF CacheGet, Enter
  <2>3. req' \in [Procs -> CacheRequests]
    BY <1>1, <2>1, <2>2
  <2>4. FlagsAreFresh'
    BY <1>5, <1>6, <2>2 DEF At
  <2>5. redisErrors' \in 0..MaxRedisErrors
    BY <1>7, <1>3, <1>4 DEF CacheGet
  <2>6. CachesTypeOK'
    BY <1>1, <2>2, <2>5 DEF CachesTypeOK
  <2> QED BY <2>3, <2>4, <2>6 DEF CachesInv
<1>8. ASSUME NEW p \in Procs, Load(p)
      PROVE  CachesInv'
  <2>1. /\ req[p] \in [op: {"config"}, at: {"load", "fill"}, value: 0..MaxFlagWrites \cup {Null}]
        /\ req[p].op = "config"
    BY <1>1, <1>8 DEF Load, At, CacheRequests, Idle
  <2>2. PICK r : r = [req[p] EXCEPT !.at = "fill", !.value = flags]
    OBVIOUS
  <2>3. r \in CacheRequests
    BY <1>1, <2>1, <2>2 DEF CachesTypeOK, CacheRequests
  <2>4. req' = [req EXCEPT ![p] = r] /\ UNCHANGED cacheVars
    BY <1>8, <2>2 DEF Load
  <2>5. req' \in [Procs -> CacheRequests]
    BY <1>1, <2>3, <2>4
  <2>6. FlagsAreFresh'
    BY <1>5, <2>1, <2>4 DEF At, cacheVars
  <2>7. CachesTypeOK'
    BY <1>1, <2>4 DEF cacheVars, CachesTypeOK
  <2> QED BY <2>5, <2>6, <2>7 DEF CachesInv
<1>9. ASSUME NEW p \in Procs, CacheSet(p)
      PROVE  CachesInv'
  <2>1. req[p].op = "config" /\ req[p].value \in 0..MaxFlagWrites \cup {Null}
    BY <1>1, <1>9 DEF CacheSet, At, CacheRequests, Idle
  <2>2. req' = [req EXCEPT ![p] = Idle]
    BY <1>9 DEF CacheSet, Finish
  <2>3. req' \in [Procs -> CacheRequests]
    BY <1>1, <1>6, <2>2
  <2>4. CASE RedisFails /\ UNCHANGED <<flags, cachedFlags, excuse>>
    <3>1. FlagsAreFresh'
      BY <1>5, <2>1, <2>2, <2>4 DEF At
    <3>2. CachesTypeOK'
      BY <1>1, <1>3, <2>4 DEF CachesTypeOK
    <3> QED BY <2>3, <3>1, <3>2 DEF CachesInv
  <2>5. CASE /\ cachedFlags' = req[p].value
             /\ excuse' = IF req[p].value = flags THEN {} ELSE {"overtaken"}
             /\ UNCHANGED <<flags, redisErrors>>
    <3>1. FlagsAreFresh'
      BY <2>5 DEF FlagsAreFresh
    <3>2. excuse' \subseteq {"overtaken", "not deleted"}
      BY <2>5
    <3>3. CachesTypeOK'
      BY <1>1, <2>1, <2>5, <3>2 DEF CachesTypeOK
    <3> QED BY <2>3, <3>1, <3>3 DEF CachesInv
  <2> QED BY <1>9, <2>4, <2>5 DEF CacheSet
<1>10. ASSUME NEW p \in Procs, SetFlag(p)
      PROVE  CachesInv'
  <2> DEFINE r == [op |-> "flag", at |-> "del"]
  <2>1. r \in CacheRequests /\ req' = [req EXCEPT ![p] = r]
    BY <1>10 DEF CacheRequests, SetFlag, Enter
  <2>2. req' \in [Procs -> CacheRequests] /\ At(p, "flag", "del")'
    BY <1>1, <2>1 DEF At
  <2>3. /\ flags' = flags + 1 /\ flags < MaxFlagWrites
        /\ UNCHANGED <<cachedFlags, excuse, redisErrors>>
    BY <1>10 DEF SetFlag
  <2>4. flags' \in 0..MaxFlagWrites
    <3>1. ASSUME NEW n, NEW m \in Nat, n \in 0..m, n < m
          PROVE  n + 1 \in 0..m
      BY <3>1
    <3> QED BY <1>2, <2>3, <3>1, CachesAssumption
  <2>5. CachesTypeOK'
    BY <1>1, <2>3, <2>4 DEF CachesTypeOK
  <2> QED BY <2>2, <2>5 DEF CachesInv, FlagsAreFresh
<1>11. ASSUME NEW p \in Procs, CacheDel(p)
      PROVE  CachesInv'
  <2>1. req' \in [Procs -> CacheRequests]
    BY <1>1, <1>6, <1>11 DEF CacheDel, Finish
  <2>2. FlagsAreFresh'
    BY <1>11 DEF CacheDel, FlagsAreFresh
  <2>3. /\ redisErrors' \in 0..MaxRedisErrors /\ flags' = flags
        /\ cachedFlags' \in {cachedFlags, Null}
        /\ excuse' \subseteq {"overtaken", "not deleted"}
    BY <1>11, <1>2, <1>3, <1>4 DEF CacheDel
  <2>4. CachesTypeOK'
    BY <1>1, <2>3 DEF CachesTypeOK
  <2> QED BY <2>1, <2>2, <2>4 DEF CachesInv
<1>12. ASSUME CacheExpires
      PROVE  CachesInv'
  BY <1>1, <1>12 DEF CacheExpires, reqVars, CachesInv, CachesTypeOK, FlagsAreFresh
<1>13. ASSUME NEW p \in Procs, CachesDie(p)
       PROVE  CachesInv'
  <2>1. req' = [req EXCEPT ![p] = Idle] /\ req' \in [Procs -> CacheRequests]
    BY <1>1, <1>6, <1>13 DEF CachesDie, Die
  <2>2. CachesTypeOK'
    BY <1>1, <1>13 DEF CachesDie, CachesTypeOK
  <2>3. FlagsAreFresh'
    <3>1. CASE req[p].op = "flag"
      BY <1>13, <3>1 DEF CachesDie, FlagsAreFresh
    <3>2. CASE req[p].op # "flag"
      BY <1>5, <1>13, <2>1, <3>2 DEF CachesDie, At
    <3> QED BY <3>1, <3>2
  <2> QED BY <2>1, <2>2, <2>3 DEF CachesInv
<1>14. ASSUME UNCHANGED <<reqVars, cacheVars>>
       PROVE  CachesInv'
  BY <1>14 DEF reqVars, cacheVars, CachesInv, CachesTypeOK, FlagsAreFresh, At
<1> QED
  BY <1>7, <1>8, <1>9, <1>10, <1>11, <1>12, <1>13, <1>14 DEF CachesNext, Cached

\* An empty cache is fresh, also while other services run.
LEMMA CachesInitial ==
    ASSUME CachesInit
    PROVE  CachesTypeOK /\ FlagsAreFresh /\ (ReqInit => CachesInv)
BY CachesAssumption DEF CachesInit, CachesTypeOK, FlagsAreFresh, ReqInit, CachesInv, CacheRequests

-----------------------------------------------------------------------------
(* Reputation.                                                             *)

\* The rows, and what a request can have in hand.
Observations == [at : Nat, outcome : Outcomes]
ShadowRows == [count : 1..Cardinality(Users), score : 0..100, at : Nat]
ReputationRequests ==
         {Idle}
    \cup [op: {"observe"}, by: Users, row: Observations]
    \cup [op: {"shadow"}, row: ShadowRows]

\* No stamp is later than now, in a table or in hand.
ReputationInv ==
    /\ req \in [Procs -> ReputationRequests] /\ now \in Nat /\ nights \in 0..MaxNights
    /\ observations \in [Users -> Observations \cup {Null}]
    /\ reputation \in ShadowRows \cup {Null}
    /\ \A p \in Procs : req[p].op \in {"observe", "shadow"} => req[p].row.at <= now
    /\ \A u \in Observed : observations[u].at <= now
    /\ reputation # Null => reputation.at <= now

\* The invariant includes the type invariant.
LEMMA ReputationTyped ==
    ASSUME ReputationInv
    PROVE  ReputationTypeOK
<1>1. /\ now \in Nat /\ nights \in 0..MaxNights
      /\ observations \in [Users -> Observations \cup {Null}]
      /\ reputation \in ShadowRows \cup {Null}
      /\ \A u \in Observed : observations[u].at <= now
      /\ reputation # Null => reputation.at <= now
  BY DEF ReputationInv
<1>2. \A u \in Observed : observations[u].at \in 0..now /\ observations[u].outcome \in Outcomes
  BY <1>1 DEF Observed, Observations
<1>3. reputation # Null => /\ reputation.count \in 1..Cardinality(Users)
                           /\ reputation.score \in 0..100 /\ reputation.at \in 0..now
  BY <1>1 DEF ShadowRows
<1> QED BY <1>1, <1>2, <1>3 DEF ReputationTypeOK

\* What the nightly job computes of some observers is a score.
LEMMA ShadowScoreIsAScore ==
    ASSUME ReputationInv, NEW S \in SUBSET Observed, S # {}
    PROVE  ShadowScore(S) \in 0..100 /\ Cardinality(S) \in 1..Cardinality(Users)
<1>1. S \subseteq Users /\ IsFiniteSet(S) /\ Cardinality(S) \in Nat
      /\ Cardinality(Users) \in Nat /\ Cardinality(S) <= Cardinality(Users)
  <2>1. S \subseteq Users
    BY DEF Observed
  <2> QED BY <2>1, UsersAssumption, FS_Subset, FS_CardinalityType
<1>2. Cardinality(S) # 0
  BY <1>1, FS_EmptySet
<1>3. \A u \in S : Points[observations[u].outcome] \in Int
  <2>1. \A u \in S : observations[u] \in Observations
    BY DEF ReputationInv, Observed
  <2>2. \A o \in Outcomes : Points[o] \in Int
    <3>1. \A o \in DOMAIN Points : Points[o] \in Int
      BY DEF Points
    <3> QED BY <3>1, ReputationAssumption
  <2> QED BY <2>1, <2>2 DEF Observations
<1>4. PICK t \in Int : t = Total(S)
  BY <1>1, <1>3, TotalIsAnInteger
<1>5. PICK n \in Nat \ {0} : n = Cardinality(S)
  BY <1>1, <1>2
<1>6. PICK raw \in Int : raw = (2 * (50 * n + t) + n) \div (2 * n)
  <2>1. \A a \in Int, b \in Nat \ {0} : a \div b \in Int
    OBVIOUS
  <2>2. 2 * (50 * n + t) + n \in Int /\ 2 * n \in Nat \ {0}
    OBVIOUS
  <2> QED BY <2>1, <2>2
<1>7. ShadowScore(S) \in {50, Clamp(raw)}
  BY <1>4, <1>5, <1>6 DEF ShadowScore
<1> QED BY <1>1, <1>2, <1>7, ClampedIsAScore

\* Every step of the service keeps its invariant.
LEMMA ReputationKept ==
    ASSUME ReputationInv, [ReputationNext]_<<reqVars, reputationVars>>
    PROVE  ReputationInv'
<1> DEFINE R == ReputationRequests
           Seen == Observations
           Rows == ShadowRows
<1>1. /\ req \in [Procs -> R] /\ now \in Nat /\ nights \in 0..MaxNights
      /\ observations \in [Users -> Seen \cup {Null}] /\ reputation \in Rows \cup {Null}
      /\ \A p \in Procs : req[p].op \in {"observe", "shadow"} => req[p].row.at <= now
      /\ \A u \in Observed : observations[u].at <= now
      /\ reputation # Null => reputation.at <= now
  BY DEF ReputationInv
<1>2. Idle \in R /\ Idle.op = "idle"
  BY DEF ReputationRequests, Idle
\* Stamps in the tables stay behind the clock.
<1>3. /\ \A p \in Procs : req[p].op \in {"observe", "shadow"} => req[p].row.at \in Nat
      /\ \A u \in Observed : observations[u].at \in Nat
      /\ reputation # Null => reputation.at \in Nat
  BY <1>1 DEF ReputationRequests, Observations, ShadowRows, Idle, Observed
<1> HIDE DEF R, Seen, Rows
<1>4. ASSUME NEW p \in Procs, NEW r \in R, req' = [req EXCEPT ![p] = r],
             now' \in {now, now + 1}, nights' \in 0..MaxNights,
             r.op \in {"observe", "shadow"} => r.row.at = now,
             UNCHANGED <<observations, reputation>>
      PROVE  ReputationInv'
  <2>1. req' \in [Procs -> R] /\ \A q \in Procs : req'[q] = IF q = p THEN r ELSE req[q]
    BY <1>1, <1>4
  <2>2. now' \in Nat /\ \A n \in Nat : n <= now => n <= now'
    BY <1>1, <1>4
  <2>3. \A q \in Procs : req'[q].op \in {"observe", "shadow"} => req'[q].row.at <= now'
    BY <1>1, <1>3, <1>4, <2>1, <2>2
  <2>4. \A u \in Observed' : observations'[u].at <= now'
    BY <1>1, <1>3, <1>4, <2>2 DEF Observed
  <2>5. reputation' # Null => reputation'.at <= now'
    BY <1>1, <1>3, <1>4, <2>2
  <2> QED BY <1>1, <1>4, <2>1, <2>2, <2>3, <2>4, <2>5 DEF ReputationInv, R, Seen, Rows
<1>5. ASSUME NEW p \in Procs, NEW u \in Users, NEW outcome \in Outcomes, Observe(p, u, outcome)
      PROVE  ReputationInv'
  <2>1. PICK r : r = [op |-> "observe", by |-> u, row |-> [at |-> now, outcome |-> outcome]]
    OBVIOUS
  <2>2. r \in R /\ r.row.at = now
    BY <1>1, <2>1 DEF R, ReputationRequests, Observations
  <2>3. /\ req' = [req EXCEPT ![p] = r] /\ now' = now + 1
        /\ UNCHANGED <<observations, reputation, nights>>
    BY <1>5, <2>1 DEF Observe, Enter
  <2> QED BY <1>1, <1>4, <2>2, <2>3
<1>6. ASSUME NEW p \in Procs, RecordObservation(p)
      PROVE  ReputationInv'
  <2>1. PICK q \in R : q = req[p]
    BY <1>1
  <2>2. q.op = "observe" /\ q.row.at <= now
    BY <1>1, <1>6, <2>1 DEF RecordObservation
  <2>3. q.row \in Seen /\ q.by \in Users
    BY <2>2 DEF R, ReputationRequests, Idle, Seen
  <2>4. /\ req' = [req EXCEPT ![p] = Idle]
        /\ observations' = [observations EXCEPT ![q.by] = q.row]
        /\ UNCHANGED <<reputation, now, nights>>
    BY <1>6, <2>1 DEF RecordObservation, Finish
  <2>5. req' \in [Procs -> R] /\ \A o \in Procs : req'[o] = IF o = p THEN Idle ELSE req[o]
    BY <1>1, <1>2, <2>4
  <2>6. /\ observations' \in [Users -> Seen \cup {Null}]
        /\ \A u \in Users : observations'[u] = IF u = q.by THEN q.row ELSE observations[u]
    BY <1>1, <2>3, <2>4
  <2>7. \A u \in Observed' : observations'[u].at <= now'
    BY <1>1, <2>2, <2>4, <2>6 DEF Observed
  <2>8. \A o \in Procs : req'[o].op \in {"observe", "shadow"} => req'[o].row.at <= now'
    BY <1>1, <1>2, <2>4, <2>5
  <2> QED BY <1>1, <2>4, <2>5, <2>6, <2>7, <2>8 DEF ReputationInv, R, Seen, Rows
<1>7. ASSUME NEW p \in Procs, ShadowRecompute(p)
      PROVE  ReputationInv'
  <2>1. PICK w : w = [count |-> Cardinality(Aggregated), score |-> ShadowScore(Aggregated), at |-> now]
    OBVIOUS
  <2>2. Aggregated \in SUBSET Observed /\ Aggregated # {}
    BY <1>7 DEF Aggregated, ShadowRecompute
  <2>3. w \in Rows /\ w.at = now
    BY <1>1, <2>1, <2>2, ShadowScoreIsAScore DEF Rows, ShadowRows
  <2>4. PICK r : r = [op |-> "shadow", row |-> w]
    OBVIOUS
  <2>5. r \in R /\ r.row.at = now
    BY <2>3, <2>4 DEF R, ReputationRequests, Rows
  <2>6. /\ req' = [req EXCEPT ![p] = r] /\ now' = now + 1
        /\ nights < MaxNights /\ nights' = nights + 1
        /\ UNCHANGED <<observations, reputation>>
    BY <1>7, <2>1, <2>4 DEF ShadowRecompute, Enter
  <2>7. nights' \in 0..MaxNights
    BY <1>1, <2>6, ReputationAssumption
  <2> QED BY <1>4, <2>5, <2>6, <2>7
<1>8. ASSUME NEW p \in Procs, UpsertReputation(p)
      PROVE  ReputationInv'
  <2>1. PICK q \in R : q = req[p]
    BY <1>1
  <2>2. q.op = "shadow" /\ q.row.at <= now
    BY <1>1, <1>8, <2>1 DEF UpsertReputation
  <2>3. q.row \in Rows
    BY <2>2 DEF R, ReputationRequests, Idle, Rows
  <2>4. /\ req' = [req EXCEPT ![p] = Idle] /\ reputation' = q.row
        /\ UNCHANGED <<observations, now, nights>>
    BY <1>8, <2>1 DEF UpsertReputation, Finish
  <2>5. req' \in [Procs -> R] /\ \A o \in Procs : req'[o] = IF o = p THEN Idle ELSE req[o]
    BY <1>1, <1>2, <2>4
  <2>6. \A u \in Observed' : observations'[u].at <= now'
    BY <1>1, <2>4 DEF Observed
  <2>7. \A o \in Procs : req'[o].op \in {"observe", "shadow"} => req'[o].row.at <= now'
    BY <1>1, <1>2, <2>4, <2>5
  <2> QED BY <1>1, <2>2, <2>3, <2>4, <2>5, <2>6, <2>7 DEF ReputationInv, R, Seen, Rows
<1>9. ASSUME NEW p \in Procs, Die(p), UNCHANGED reputationVars
      PROVE  ReputationInv'
  <2>1. req' = [req EXCEPT ![p] = Idle] /\ UNCHANGED <<observations, reputation, now, nights>>
    BY <1>9 DEF Die, reputationVars
  <2> QED BY <1>1, <1>2, <1>4, <2>1
<1>10. ASSUME UNCHANGED <<reqVars, reputationVars>>
       PROVE  ReputationInv'
  BY <1>1, <1>10 DEF reqVars, reputationVars, ReputationInv, Observed, R, Seen, Rows
<1> QED
  BY <1>5, <1>6, <1>7, <1>8, <1>9, <1>10 DEF ReputationNext

\* A new platform has observed nothing.
LEMMA ReputationInitial ==
    ASSUME ReqInit, ReputationInit
    PROVE  ReputationInv
<1>1. /\ req = [p \in Procs |-> Idle] /\ observations = [u \in Users |-> Null]
      /\ reputation = Null /\ now = 0 /\ nights = 0
  BY DEF ReqInit, ReputationInit
<1>2. \A p \in Procs : req[p].op = "idle"
  BY <1>1 DEF Idle
<1>3. Observed = {}
  BY <1>1 DEF Observed
<1> QED
  BY <1>1, <1>2, <1>3, ReputationAssumption DEF ReputationInv, ReputationRequests

-----------------------------------------------------------------------------
(* The platform: one service runs, its side, and the others wait where     *)
(* they began.                                                             *)

\* The side has its invariant, the others wait in their initial states.
PlatformInv ==
    /\ side \in Sides /\ deaths \in 0..MaxDeaths
    /\ side = "idempotency" => IdemInv
    /\ side # "idempotency" => IdemInit
    /\ side = "groups" => GroupInv
    /\ side # "groups" => GroupInit
    /\ side = "activities" => ActivityInv
    /\ side # "activities" => ActivityInit
    /\ side = "contacts" => ContactInv
    /\ side # "contacts" => ContactInit
    /\ side = "grants" => GrantInv
    /\ side # "grants" => GrantInit
    /\ side = "business" => BusinessInv
    /\ side # "business" => BusinessInit
    /\ side = "delivery" => DeliveryInv
    /\ side # "delivery" => DeliveryInit
    /\ side = "standing" => StandingInv /\ StandingCounts
    /\ side # "standing" => StandingInit
    /\ side = "jobs" => JobsInv
    /\ side # "jobs" => JobsInit
    /\ side = "caches" => CachesInv
    /\ side # "caches" => CachesInit
    /\ side = "reputation" => ReputationInv
    /\ side # "reputation" => ReputationInit

\* Whichever service runs, a step is one death at most.
LEMMA DeathsAreBounded ==
    ASSUME deaths \in 0..MaxDeaths, [Next]_platformVars
    PROVE  deaths' \in 0..MaxDeaths
<1>1. ASSUME NEW p \in Procs, Die(p)
      PROVE  deaths' \in 0..MaxDeaths
  BY <1>1, OneMore, DeathsAssumption DEF Die
<1>2. ASSUME IdemNext
      PROVE  deaths' = deaths \/ \E p \in Procs : Die(p)
  BY <1>2 DEF IdemNext, Acquire, Look, FailOpen, Handle, Respond, Record, IdemDie,
          KeyExpires, Enter, Goto, Finish, reqVars
<1>3. ASSUME GroupNext
      PROVE  deaths' = deaths \/ \E p \in Procs : Die(p)
  BY <1>3 DEF GroupNext, CreateGroup, CreateMembers, AdminBegins, CountMembers,
          AddMembers, FindTarget, CountAdmins, SetRole, RemoveMember, LeaveBegins,
          LeaveCounts, LeaveCountsAdmins, RemoveGroup, GroupDie, Enter, Goto, Finish,
          reqVars
<1>4. ASSUME ActivityNext
      PROVE  deaths' = deaths \/ \E p \in Procs : Die(p)
  BY <1>4 DEF ActivityNext, StartActivity, CreateActivity, AddParticipant, JoinActivity,
          LeaveActivity, MarkLeft, LoadEnd, EndActivity, LoadState, UpdateState,
          ActivityDie, Loads, Enter, Goto, Finish, reqVars
<1>5. ASSUME ContactNext
      PROVE  deaths' = deaths \/ \E p \in Procs : Die(p)
  BY <1>5 DEF ContactNext, EdgeStep, ReportStep, ChatStep, AddContact, PatchContact,
          RemoveContact, BlockBegins, FileReport, CreateReport, WindowPasses,
          BlockUpsert, BlockSet, UnblockBegins, UnblockSet, TimePasses,
          ConnectionExpiry, OpenChannel, EnsureChannel, MigrateChannel, ChatWebhook,
          ContactDie, Enter, Goto, Finish, reqVars
<1>6. ASSUME GrantNext
      PROVE  deaths' = deaths \/ \E p \in Procs : Die(p)
  BY <1>6 DEF GrantNext, ReachabilityStep, ApprovalStep, GrantExpires, ResolveShare,
          RecordScan, RevokeShare, ExpireOverdue, RespondBegins, RespondIfPending,
          TellAnswer, RevokeChannel, ChannelExpiry, GrantDie, Enter, Goto, Finish,
          reqVars
<1>7. ASSUME BusinessNext
      PROVE  deaths' = deaths \/ \E p \in Procs : Die(p)
  BY <1>7 DEF BusinessNext, VerifyBegins, SetVerified, SetsKey, HandOverKey,
          MintCounterQr, ReadCounterQr, DeleteCounterQr, SubscribeCounterQr,
          BusinessDie, RejectBusiness, CounterQrExpires, Enter, Goto, Finish, reqVars
<1>8. ASSUME DeliveryNext
      PROVE  deaths' = deaths \/ \E p \in Procs : Die(p)
  BY <1>8 DEF DeliveryNext, BusinessStep, DeliverJobStep, Push, FinalizeMessage,
          DeliveryDie, CustomerStep, ScheduleMessage, Broadcast, CreateMessage,
          RecordDeliveries, ClaimMessage, FindSubscribers, InsertPending, MarkDelivery,
          Subscribe, Unsubscribe, ResumeSubscription, BlockBusiness, UnblockBusiness,
          Enter, Goto, Finish, reqVars
<1>9. ASSUME StandingNext
      PROVE  deaths' = deaths \/ \E p \in Procs : Die(p)
  BY <1>9 DEF StandingNext, PersistVerificationScore, RecomputeJob, AdminStep,
          OwnerStep, SetAvatar, AccountAges, PersistCompute, PersistRead, PersistUpdate,
          PersistHistory, Recompute, ApplyRecompute, ModerateUser, ResolveAppeal,
          LogAction, Submit, CreateAppeal, StandingDie, StartWork, Enter, Goto, Finish,
          reqVars
<1>10. ASSUME JobsNext
      PROVE  deaths' = deaths \/ \E p \in Procs : Die(p)
  BY <1>10 DEF JobsNext, RequestExport, StuckExport, EnqueueExport, TakeJob,
           ClaimExport, BuildExport, BuildFails, JobStalls, JobEvicted, QueueRename,
           ScanRenames, ClaimRename, PropagateRename, JobsDie, JobEnds, ClaimFails,
           WorkFails, Failure, Enter, Goto, Finish, reqVars
<1>11. ASSUME CachesNext
      PROVE  deaths' = deaths \/ \E p \in Procs : Die(p)
  BY <1>11 DEF CachesNext, Cached, CacheGet, Load, CacheSet, SetFlag, CacheDel,
           CacheExpires, CachesDie, Enter, Goto, Finish, reqVars
<1>12. ASSUME ReputationNext
      PROVE  deaths' = deaths \/ \E p \in Procs : Die(p)
  BY <1>12 DEF ReputationNext, Observe, RecordObservation, ShadowRecompute,
           UpsertReputation, Enter, Goto, Finish, reqVars
<1>13. CASE UNCHANGED platformVars
  BY <1>13 DEF platformVars, reqVars
<1> QED
  BY <1>1, <1>2, <1>3, <1>4, <1>5, <1>6, <1>7, <1>8, <1>9, <1>10, <1>11, <1>12, <1>13
     DEF Next

\* A step is one of the side's own, and nothing of another.
LEMMA SidesApart ==
    ASSUME [Next]_platformVars, side \in Sides
    PROVE  /\ side' = side
           /\ side = "idempotency" => [IdemNext]_<<reqVars, idemVars>>
           /\ side # "idempotency" => UNCHANGED idemVars
           /\ side = "groups" => [GroupNext]_<<reqVars, groupVars>>
           /\ side # "groups" => UNCHANGED groupVars
           /\ side = "activities" => [ActivityNext]_<<reqVars, activityVars>>
           /\ side # "activities" => UNCHANGED activityVars
           /\ side = "contacts" => [ContactNext]_<<reqVars, contactVars>>
           /\ side # "contacts" => UNCHANGED contactVars
           /\ side = "grants" => [GrantNext]_<<reqVars, grantVars>>
           /\ side # "grants" => UNCHANGED grantVars
           /\ side = "business" => [BusinessNext]_<<reqVars, businessVars>>
           /\ side # "business" => UNCHANGED businessVars
           /\ side = "delivery" => [DeliveryNext]_<<reqVars, deliveryVars>>
           /\ side # "delivery" => UNCHANGED deliveryVars
           /\ side = "standing" => [StandingNext]_<<reqVars, standingVars>>
           /\ side # "standing" => UNCHANGED standingVars
           /\ side = "jobs" => [JobsNext]_<<reqVars, jobsVars>>
           /\ side # "jobs" => UNCHANGED jobsVars
           /\ side = "caches" => [CachesNext]_<<reqVars, cacheVars>>
           /\ side # "caches" => UNCHANGED cacheVars
           /\ side = "reputation" => [ReputationNext]_<<reqVars, reputationVars>>
           /\ side # "reputation" => UNCHANGED reputationVars
<1>1. CASE Next
  BY <1>1 DEF Next, OthersUnchanged, Sides
<1>2. CASE UNCHANGED platformVars
  BY <1>2 DEF platformVars
<1> QED BY <1>1, <1>2

\* A step keeps the invariant of the side and leaves the other services alone.
LEMMA PlatformKept ==
    ASSUME PlatformInv, [Next]_platformVars
    PROVE  PlatformInv'
<1>1. /\ side \in Sides /\ side' = side /\ deaths' \in 0..MaxDeaths
  BY SidesApart, DeathsAreBounded DEF PlatformInv
<1>2. /\ side = "idempotency" => IdemInv'
      /\ side # "idempotency" => IdemInit'
  <2>1. CASE side = "idempotency"
    BY <1>1, <2>1, SidesApart, IdemKept DEF PlatformInv
  <2>2. CASE side # "idempotency"
    <3>1. UNCHANGED idemVars /\ IdemInit
      BY <1>1, <2>2, SidesApart DEF PlatformInv
    <3> QED BY <2>2, <3>1 DEF idemVars, IdemInit
  <2> QED BY <2>1, <2>2
<1>3. /\ side = "groups" => GroupInv'
      /\ side # "groups" => GroupInit'
  <2>1. CASE side = "groups"
    BY <1>1, <2>1, SidesApart, GroupKept DEF PlatformInv
  <2>2. CASE side # "groups"
    <3>1. UNCHANGED groupVars /\ GroupInit
      BY <1>1, <2>2, SidesApart DEF PlatformInv
    <3> QED BY <2>2, <3>1 DEF groupVars, GroupInit
  <2> QED BY <2>1, <2>2
<1>4. /\ side = "activities" => ActivityInv'
      /\ side # "activities" => ActivityInit'
  <2>1. CASE side = "activities"
    BY <1>1, <2>1, SidesApart, ActivityKept DEF PlatformInv
  <2>2. CASE side # "activities"
    <3>1. UNCHANGED activityVars /\ ActivityInit
      BY <1>1, <2>2, SidesApart DEF PlatformInv
    <3> QED BY <2>2, <3>1 DEF activityVars, ActivityInit
  <2> QED BY <2>1, <2>2
<1>5. /\ side = "contacts" => ContactInv'
      /\ side # "contacts" => ContactInit'
  <2>1. CASE side = "contacts"
    BY <1>1, <2>1, SidesApart, ContactKept DEF PlatformInv
  <2>2. CASE side # "contacts"
    <3>1. UNCHANGED contactVars /\ ContactInit
      BY <1>1, <2>2, SidesApart DEF PlatformInv
    <3> QED BY <2>2, <3>1 DEF contactVars, ContactInit
  <2> QED BY <2>1, <2>2
<1>6. /\ side = "grants" => GrantInv'
      /\ side # "grants" => GrantInit'
  <2>1. CASE side = "grants"
    BY <1>1, <2>1, SidesApart, GrantKept DEF PlatformInv
  <2>2. CASE side # "grants"
    <3>1. UNCHANGED grantVars /\ GrantInit
      BY <1>1, <2>2, SidesApart DEF PlatformInv
    <3> QED BY <2>2, <3>1 DEF grantVars, GrantInit
  <2> QED BY <2>1, <2>2
<1>7. /\ side = "business" => BusinessInv'
      /\ side # "business" => BusinessInit'
  <2>1. CASE side = "business"
    BY <1>1, <2>1, SidesApart, BusinessKept DEF PlatformInv
  <2>2. CASE side # "business"
    <3>1. UNCHANGED businessVars /\ BusinessInit
      BY <1>1, <2>2, SidesApart DEF PlatformInv
    <3> QED BY <2>2, <3>1 DEF businessVars, BusinessInit
  <2> QED BY <2>1, <2>2
<1>8. /\ side = "delivery" => DeliveryInv'
      /\ side # "delivery" => DeliveryInit'
  <2>1. CASE side = "delivery"
    BY <1>1, <2>1, SidesApart, DeliveryKept DEF PlatformInv
  <2>2. CASE side # "delivery"
    <3>1. UNCHANGED deliveryVars /\ DeliveryInit
      BY <1>1, <2>2, SidesApart DEF PlatformInv
    <3> QED BY <2>2, <3>1 DEF deliveryVars, DeliveryInit
  <2> QED BY <2>1, <2>2
<1>9. /\ side = "standing" => (StandingInv /\ StandingCounts)'
      /\ side # "standing" => StandingInit'
  <2>1. CASE side = "standing"
    BY <1>1, <2>1, SidesApart, StandingKept, StandingCounted DEF PlatformInv
  <2>2. CASE side # "standing"
    <3>1. UNCHANGED standingVars /\ StandingInit
      BY <1>1, <2>2, SidesApart DEF PlatformInv
    <3> QED BY <2>2, <3>1 DEF standingVars, StandingInit
  <2> QED BY <2>1, <2>2
<1>10. /\ side = "jobs" => JobsInv'
       /\ side # "jobs" => JobsInit'
  <2>1. CASE side = "jobs"
    BY <1>1, <2>1, SidesApart, JobsKept DEF PlatformInv
  <2>2. CASE side # "jobs"
    <3>1. UNCHANGED jobsVars /\ JobsInit
      BY <1>1, <2>2, SidesApart DEF PlatformInv
    <3> QED BY <2>2, <3>1 DEF jobsVars, queueVars, JobsInit
  <2> QED BY <2>1, <2>2
<1>11. /\ side = "caches" => CachesInv'
       /\ side # "caches" => CachesInit'
  <2>1. CASE side = "caches"
    BY <1>1, <2>1, SidesApart, CachesKept DEF PlatformInv
  <2>2. CASE side # "caches"
    <3>1. UNCHANGED cacheVars /\ CachesInit
      BY <1>1, <2>2, SidesApart DEF PlatformInv
    <3> QED BY <2>2, <3>1 DEF cacheVars, CachesInit
  <2> QED BY <2>1, <2>2
<1>12. /\ side = "reputation" => ReputationInv'
       /\ side # "reputation" => ReputationInit'
  <2>1. CASE side = "reputation"
    BY <1>1, <2>1, SidesApart, ReputationKept DEF PlatformInv
  <2>2. CASE side # "reputation"
    <3>1. UNCHANGED reputationVars /\ ReputationInit
      BY <1>1, <2>2, SidesApart DEF PlatformInv
    <3> QED BY <2>2, <3>1 DEF reputationVars, ReputationInit
  <2> QED BY <2>1, <2>2
<1> QED
  BY <1>1, <1>2, <1>3, <1>4, <1>5, <1>6, <1>7, <1>8, <1>9, <1>10, <1>11, <1>12 DEF
     PlatformInv

\* Every service can be the side.
LEMMA PlatformInitial ==
    ASSUME Init
    PROVE  PlatformInv
<1>1. /\ side \in Sides /\ ReqInit
      /\ IdemInit
      /\ GroupInit
      /\ ActivityInit
      /\ ContactInit
      /\ GrantInit
      /\ BusinessInit
      /\ DeliveryInit
      /\ StandingInit
      /\ JobsInit
      /\ CachesInit
      /\ ReputationInit
  BY DEF Init
<1>2. deaths \in 0..MaxDeaths
  BY <1>1, NoneYet, DeathsAssumption DEF ReqInit
<1> QED
  BY <1>1, <1>2, InitHolds, GroupInitial, ActivityInitial, ContactInitial, GrantInitial,
     BusinessInitial, DeliveryInitial, StandingInitial, JobsInitial, CachesInitial,
     ReputationInitial, StandingCountsBegin DEF PlatformInv

\* No other service has a request like an admin's of Standing or a worker's of Jobs.
LEMMA WhoseRequests ==
    ASSUME PlatformInv, NEW p \in Procs
    PROVE  /\ req[p].op = "admin" => side = "standing"
           /\ req[p].op \in Kinds => side = "jobs"
<1>1. side = "idempotency" => req[p].op \notin {"admin"} \cup Kinds
  <2>1. ASSUME NEW r \in KeyedRequests
        PROVE  r.op = "keyed"
    <3> DEFINE R == Stored \cup Failures
    <3>1. \/ r \in [op: {"keyed"}, at: {"look", "handler"}, locked: BOOLEAN, reply: {Null}]
          \/ r \in [op: {"keyed"}, at: {"reply"}, locked: BOOLEAN, reply: R]
          \/ r \in [op: {"keyed"}, at: {"record"}, locked: {TRUE}, reply: R]
      BY <2>1 DEF KeyedRequests
    <3> HIDE DEF R
    <3> QED BY <3>1
  <2>2. ASSUME side = "idempotency"
        PROVE  req[p].op \in {"idle", "keyed"}
    <3>1. req[p] = Idle \/ req[p] \in KeyedRequests
      BY <2>2 DEF PlatformInv, IdemInv, Types
    <3> QED BY <2>1, <3>1 DEF Idle
  <2> QED BY <2>2 DEF Kinds
<1>2. side = "groups" => req[p].op \notin {"admin"} \cup Kinds
  BY DEF PlatformInv, Kinds, Idle, GroupInv, GroupRequests
<1>3. side = "activities" => req[p].op \notin {"admin"} \cup Kinds
  BY DEF PlatformInv, Kinds, Idle, ActivityInv, ActivityTypes, ActivityRequests
<1>4. side = "contacts" => req[p].op \notin {"admin"} \cup Kinds
  BY DEF PlatformInv, Kinds, Idle, ContactInv, ContactRequests
<1>5. side = "grants" => req[p].op \notin {"admin"} \cup Kinds
  BY DEF PlatformInv, Kinds, Idle, GrantInv, GrantRequests
<1>6. side = "business" => req[p].op \notin {"admin"} \cup Kinds
  BY DEF PlatformInv, Kinds, Idle, BusinessInv, BusinessRequests
<1>7. side = "delivery" => req[p].op \notin {"admin"} \cup Kinds
  BY DEF PlatformInv, Kinds, Idle, DeliveryInv, DeliveryRequests, Creates, Fans, Marks
<1>8. side = "standing" => req[p].op \notin Kinds
  BY DEF PlatformInv, Kinds, Idle, StandingInv, StandingRequests
<1>9. side = "jobs" => req[p].op # "admin"
  BY DEF PlatformInv, Kinds, Idle, JobsInv, JobRequests
<1>10. side = "caches" => req[p].op \notin {"admin"} \cup Kinds
  BY DEF PlatformInv, Kinds, Idle, CachesInv, CacheRequests
<1>11. side = "reputation" => req[p].op \notin {"admin"} \cup Kinds
  BY DEF PlatformInv, Kinds, Idle, ReputationInv, ReputationRequests
<1> QED
  BY <1>1, <1>2, <1>3, <1>4, <1>5, <1>6, <1>7, <1>8, <1>9, <1>10, <1>11 DEF PlatformInv,
     Sides

-----------------------------------------------------------------------------
(* What holds of a service that waits.                                     *)

\* No key has been seen.
LEMMA IdemWaits ==
    ASSUME IdemInit
    PROVE  IdemTypeOK /\ OneEffectPerKey
<1>1. entry = Absent /\ effects = 0 /\ told = {} /\ excuses = 0
  BY DEF IdemInit
<1>2. 0 \in 0..MaxFaults /\ 0 \in 0..MaxEffects
  BY FaultsAssumption DEF MaxEffects
<1>3. IdemTypeOK
  BY <1>1, <1>2 DEF IdemTypeOK
<1>4. OneEffectPerKey
  BY <1>1 DEF OneEffectPerKey
<1> QED BY <1>3, <1>4

\* There is no group to govern.
LEMMA GroupWaits ==
    ASSUME GroupInit
    PROVE  GroupTypeOK /\ GroupIsGoverned
<1>1. /\ groupRow = "none" /\ raced = {}
      /\ role = [u \in Users |-> "none"]
  BY DEF GroupInit
<1>2. Members = {} /\ Cardinality(Members) = 0
  BY <1>1, FS_EmptySet DEF Members
<1>3. GroupIsGoverned
  BY <1>2, MembersAssumption DEF GroupIsGoverned
<1>4. GroupTypeOK
  BY <1>1 DEF GroupTypeOK, Roles
<1> QED BY <1>3, <1>4

\* There is no session to be in.
LEMMA ActivityWaits ==
    ASSUME ActivityInit
    PROVE  ActivityTypeOK /\ HostIsPresent
<1>1. activity = <<>> /\ orphaned = {}
  BY DEF ActivityInit
<1>2. Aids = {}
  BY <1>1 DEF Aids
<1> QED BY <1>1, <1>2 DEF ActivityTypeOK, HostIsPresent, ActiveActivities

\* A grant that nobody uses is within its limits.
LEMMA GrantWaits ==
    ASSUME GrantInit
    PROVE  GrantTypeOK /\ GrantsHonoured
<1>1. /\ ends = Null /\ answers = {}
      /\ late = FALSE /\ overtaken = FALSE /\ clock \in {"none", "ahead", "past"}
  BY DEF GrantInit
<1>2. ASSUME NEW m \in {Null} \cup 1..MaxUses, grant = Share(m)
      PROVE  GrantTypeOK /\ GrantsHonoured
  <2>1. 0 \in 0..MaxUses + 1
    BY UsesAssumption
  <2>2. grant \in ShareRow
    BY <1>2, <2>1 DEF Share, ShareRow
  <2>3. grant.kind = "share" /\ grant.max = m /\ grant.uses = 0
    BY <1>2 DEF Share
  <2>4. m # Null => 0 <= m /\ 0 < m
    BY <1>2, UsesAssumption
  <2> QED BY <1>1, <2>2, <2>3, <2>4 DEF GrantTypeOK, GrantsHonoured, Is
<1>3. ASSUME grant = Approval
      PROVE  GrantTypeOK /\ GrantsHonoured
  BY <1>1, <1>3 DEF Approval, ApprovalRow, GrantTypeOK, GrantsHonoured, Is
<1>4. ASSUME grant = Channel
      PROVE  GrantTypeOK /\ GrantsHonoured
  BY <1>1, <1>4 DEF Channel, ChannelRow, GrantTypeOK, GrantsHonoured, Is
<1> QED BY <1>2, <1>3, <1>4 DEF GrantInit

\* A pending business has no key to open it.
LEMMA BusinessWaits ==
    ASSUME BusinessInit
    PROVE  BusinessTypeOK /\ HandedOutOnce
<1>1. /\ biz = [status |-> "pending", key |-> NoKey]
      /\ epoch = 0 /\ minted = 0 /\ toldKeys = {}
      /\ qr = "none" /\ takers = {} /\ shared = FALSE
  BY DEF BusinessInit
<1>2. 0 \in 0..MaxKeys
  BY KeysAssumption
<1>3. biz.status = "pending" /\ biz.key = [n |-> 0, epoch |-> 0]
  BY <1>1 DEF NoKey, Key
<1>4. Cardinality(takers) = 0
  BY <1>1, FS_EmptySet
<1>5. BusinessTypeOK
  <2>1. {biz.key} \cup toldKeys \subseteq [n : 0..MaxKeys, epoch : 0..MaxKeys]
    BY <1>1, <1>2, <1>3
  <2> QED BY <1>1, <1>2, <1>3, <2>1 DEF BusinessTypeOK
<1> QED BY <1>1, <1>3, <1>4, <1>5 DEF HandedOutOnce

\* There is no message to report.
LEMMA DeliveryWaits ==
    ASSUME DeliveryInit
    PROVE  DeliveryTypeOK /\ ReportIsTrue
<1>1. /\ blockers = {} /\ message = <<>> /\ crowded = {} /\ changes = 0
      /\ sub \in [Users -> {"none", "active"}]
  BY DEF DeliveryInit
<1>2. Mids = {}
  BY <1>1 DEF Mids
<1>3. DeliveryTypeOK
  <2>1. 0 \in 0..MaxChanges
    BY DeliveryAssumption
  <2>2. sub \in [Users -> SubStatuses]
    BY <1>1 DEF SubStatuses
  <2> QED BY <1>1, <1>2, <2>1, <2>2 DEF DeliveryTypeOK
<1>4. ReportIsTrue
  <2>1. \A u \in Users :
           {m \in Mids : message[m].by = "schedule" /\ delivery[m][u] = "delivered"} = {}
    BY <1>2
  <2>2. Cardinality({}) = 0
    BY FS_EmptySet
  <2>3. 0 <= DailyLimit
    BY DeliveryAssumption
  <2> QED BY <1>2, <2>1, <2>2, <2>3 DEF ReportIsTrue
<1> QED BY <1>3, <1>4

\* Deaths of other services' requests widen what the audit may be short of.
LEMMA StandingWaits ==
    ASSUME StandingInit, deaths \in Nat, \A p \in Procs : req[p].op # "admin"
    PROVE  StandingTypeOK /\ StandingIsOnRecord
<1>1. /\ completed = Onboarded /\ score = 65 /\ tier = "verified" /\ review = FALSE
      /\ status = "active" /\ history = <<>> /\ decisions = 0 /\ audit = 0 /\ appeals = <<>>
      /\ work = 0 /\ rewritten = FALSE /\ stacked = FALSE
  BY DEF StandingInit
<1>2. /\ history \in Seq({}) /\ Len(history) = 0
      /\ DOMAIN history = {} /\ DOMAIN appeals = {}
  BY <1>1
<1>3. tier = ScoreToTier(score)
  BY <1>1, FirstTier
<1>4. StandingTypeOK
  <2>1. 0 \in 0..MaxWork
    BY StandingAssumption
  <2>2. status \in {ModeratedTo[a] : a \in DOMAIN ModeratedTo}
    BY <1>1 DEF ModeratedTo
  <2>3. completed \subseteq DOMAIN Weights /\ tier \in DOMAIN TierFloor
    BY <1>1 DEF Onboarded, Weights, TierFloor
  <2>4. score \in 0..100
    BY <1>1
  <2> QED BY <1>1, <1>2, <2>1, <2>2, <2>3, <2>4 DEF StandingTypeOK
<1>5. Recorded => LastScore = score
  BY <1>1 DEF LastScore
<1>6. decisions - audit - Cardinality({p \in Procs : At(p, "admin", "log")}) \in 0..deaths
  <2>1. {p \in Procs : At(p, "admin", "log")} = {}
    BY DEF At
  <2>2. Cardinality({}) = 0
    BY FS_EmptySet
  <2>3. 0 - 0 - 0 \in 0..deaths
    OBVIOUS
  <2> QED BY <1>1, <2>1, <2>2, <2>3
<1>7. \A i \in 2..Len(history) : FALSE
  BY <1>2
<1> QED BY <1>2, <1>3, <1>4, <1>5, <1>6, <1>7 DEF StandingIsOnRecord

\* Other services' requests are not workers.
LEMMA JobsWait ==
    ASSUME JobsInit, \A p \in Procs : req[p].op \notin Kinds
    PROVE  JobsTypeOK /\ RowsAreWorkedOnce
<1>1. /\ row = [k \in Kinds |-> [u \in Users |-> Null]]
      /\ exportJob = [u \in Users |-> "none"] /\ blame = [k \in Kinds |-> [u \in Users |-> {}]]
      /\ failures = 0 /\ evictions = 0
      /\ lock = [u \in Users |-> Null] /\ stalls = [u \in Users |-> 0]
  BY DEF JobsInit
<1>2. JobsTypeOK
  <2>1. failures \in 0..MaxFailures /\ evictions \in 0..MaxEvictions
    BY <1>1, NoneYet, JobsAssumption
  <2>2. row \in [Kinds -> [Users -> RowStatuses \cup {Null}]] /\ exportJob \in [Users -> JobStates]
    BY <1>1 DEF JobStates
  <2>3. blame \in [Kinds -> [Users -> SUBSET Faults]]
    BY <1>1
  <2>4. lock \in [Users -> Procs \cup {Null}] /\ stalls \in [Users -> 0..MaxStalls]
    <3>1. 0 \in 0..MaxStalls
      BY NoneYet, JobsAssumption
    <3> QED BY <1>1, <3>1
  <2> QED BY <2>1, <2>2, <2>3, <2>4 DEF JobsTypeOK
<1>3. ASSUME NEW k \in Kinds, NEW u \in Users
      PROVE  Workers(k, u) = {} /\ row[k][u] \notin {"processing", "failed", "requested"}
  <2>1. Workers(k, u) = {}
    BY <1>3 DEF Workers
  <2>2. row[k][u] = Null
    BY <1>1, <1>3
  <2> QED BY <2>1, <2>2, NoRowAssumption DEF RowStatuses
<1>4. RowsAreWorkedOnce
  BY <1>3 DEF RowsAreWorkedOnce
<1> QED BY <1>2, <1>4

\* There is nothing stamped.
LEMMA ReputationWaits ==
    ASSUME ReputationInit
    PROVE  ReputationTypeOK
<1>1. /\ observations = [u \in Users |-> Null]
      /\ reputation = Null /\ now = 0 /\ nights = 0
  BY DEF ReputationInit
<1>2. Observed = {}
  BY <1>1 DEF Observed
<1> QED BY <1>1, <1>2, ReputationAssumption DEF ReputationTypeOK

-----------------------------------------------------------------------------
(* The properties that the run of MCPlatform checks.                       *)

\* Whatever the side, its requests and rows fit together, and nothing of the
\* other services has moved.
THEOREM PlatformInvHolds == Spec => []PlatformInv
<1>1. Init => PlatformInv
  BY PlatformInitial
<1>2. PlatformInv /\ [Next]_platformVars => PlatformInv'
  BY PlatformKept
<1> QED BY <1>1, <1>2, PTL DEF Spec

\* Every variable of every service holds what its table, key or queue can hold.
THEOREM PlatformTypeCorrect == Spec => []PlatformTypeOK
<1>1. ASSUME PlatformInv
      PROVE  PlatformTypeOK
  <2>1. side \in Sides /\ deaths \in 0..MaxDeaths /\ deaths \in Nat
    BY <1>1, DeathsAssumption DEF PlatformInv
  <2>2. IdemTypeOK
    BY <1>1, IdemWaits DEF PlatformInv, IdemInv, Types
  <2>3. GroupTypeOK
    BY <1>1, GroupWaits DEF PlatformInv, GroupInv
  <2>4. ActivityTypeOK
    BY <1>1, ActivityWaits, ActivityTyped DEF PlatformInv, ActivityInv
  <2>5. ContactTypeOK
    BY <1>1, ContactInitial DEF PlatformInv, ContactInv
  <2>6. GrantTypeOK
    BY <1>1, GrantWaits, GrantHonoured DEF PlatformInv
  <2>7. BusinessTypeOK
    BY <1>1, BusinessWaits, BusinessSafe DEF PlatformInv
  <2>8. DeliveryTypeOK
    BY <1>1, DeliveryWaits, DeliverySafe DEF PlatformInv
  <2>9. StandingTypeOK
    <3>1. CASE side = "standing"
      BY <1>1, <3>1, StandingTyped DEF PlatformInv
    <3>2. CASE side # "standing"
      <4>1. StandingInit /\ \A p \in Procs : req[p].op # "admin"
        BY <1>1, <3>2, WhoseRequests DEF PlatformInv
      <4> QED BY <2>1, <4>1, StandingWaits
    <3> QED BY <3>1, <3>2
  <2>10. JobsTypeOK
    <3>1. CASE side = "jobs"
      BY <1>1, <3>1, JobsSafe DEF PlatformInv
    <3>2. CASE side # "jobs"
      <4>1. JobsInit /\ \A p \in Procs : req[p].op \notin Kinds
        BY <1>1, <3>2, WhoseRequests DEF PlatformInv
      <4> QED BY <4>1, JobsWait
    <3> QED BY <3>1, <3>2
  <2>11. CachesTypeOK
    BY <1>1, CachesInitial DEF PlatformInv, CachesInv
  <2>12. ReputationTypeOK
    BY <1>1, ReputationWaits, ReputationTyped DEF PlatformInv
  <2> QED
    BY <2>1, <2>2, <2>3, <2>4, <2>5, <2>6, <2>7, <2>8, <2>9, <2>10, <2>11, <2>12
       DEF PlatformTypeOK
<1> QED BY <1>1, PlatformInvHolds, PTL

\* Idempotency middleware (idempotency.ts): retries under one key have one
\* effect, each further one has an excuse, and without an excuse every stored
\* answer that was told, a refusal that had an effect included, is the same one
\* and says what was done.
THEOREM PlatformOneEffect == Spec => []OneEffectPerKey
<1>1. PlatformInv => OneEffectPerKey
  BY IdemWaits, IdemSafe DEF PlatformInv
<1> QED BY <1>1, PlatformInvHolds, PTL

\* Groups (groups.service.ts): a group with members has an admin, and no more
\* than MAX_MEMBERS of them, unless two requests that take an admin away, or
\* two that add members, were in flight together.
THEOREM GroupStaysGoverned == Spec => []GroupIsGoverned
<1>1. PlatformInv => GroupIsGoverned
  BY GroupWaits DEF PlatformInv, GroupInv
<1> QED BY <1>1, PlatformInvHolds, PTL

\* Activities (activities.service.ts): the host is in every active session,
\* but for the time between the two statements of the host's own start or leave.
THEOREM HostStaysPresent == Spec => []HostIsPresent
<1>1. PlatformInv => HostIsPresent
  BY ActivityWaits DEF PlatformInv, ActivityInv
<1> QED BY <1>1, PlatformInvHolds, PTL

\* Contacts (contacts.service.ts): a block its owner was told of stands until
\* the owner undoes it, unless a process died between a block's statements.
THEOREM BlockStaysStanding == Spec => []BlockStands
<1>1. PlatformInv => BlockStands
  BY ContactInitial DEF PlatformInv, ContactInv
<1> QED BY <1>1, PlatformInvHolds, PTL

\* Shares, approvals and channels: a share is used no more often than max_uses
\* and not after its revocation, an approval has the one answer that was told,
\* and only who had looked before the expiry still uses or answers after it.
THEOREM GrantsStayHonoured == Spec => []GrantsHonoured
<1>1. PlatformInv => GrantsHonoured
  BY GrantWaits, GrantHonoured DEF PlatformInv
<1> QED BY <1>1, PlatformInvHolds, PTL

\* Business registration (business.service.ts): a key an admin was handed opens
\* the business until its rejection, a verified business has a key that was or
\* is being handed over unless that process died, and a counter QR that no two
\* requests read together subscribes one customer.
THEOREM KeysAreHandedOutOnce == Spec => []HandedOutOnce
<1>1. PlatformInv => HandedOutOnce
  BY BusinessWaits, BusinessSafe DEF PlatformInv
<1> QED BY <1>1, PlatformInvHolds, PTL

\* Business messages: what a finished message reports is what happened, nobody
\* is called twice for one message, and only two jobs under way to one
\* subscriber at once exceed the channel's daily limit.
THEOREM ReportsAreTrue == Spec => []ReportIsTrue
<1>1. PlatformInv => ReportIsTrue
  BY DeliveryWaits, DeliverySafe DEF PlatformInv
<1> QED BY <1>1, PlatformInvHolds, PTL

\* Trust scoring and moderation: the history accounts for the score, a drop
\* below the threshold is under review, every decision but those of dead
\* requests has its audit row, and open appeals that are about one subject were
\* filed at once or reopened.
THEOREM StandingStaysOnRecord == Spec => []StandingIsOnRecord
<1>1. ASSUME PlatformInv
      PROVE  StandingIsOnRecord
  <2>1. CASE side = "standing"
    BY <1>1, <2>1, StandingSafe DEF PlatformInv
  <2>2. CASE side # "standing"
    <3>1. StandingInit /\ deaths \in Nat /\ \A p \in Procs : req[p].op # "admin"
      BY <1>1, <2>2, WhoseRequests, DeathsAssumption DEF PlatformInv
    <3> QED BY <3>1, StandingWaits
  <2> QED BY <2>1, <2>2
<1> QED BY <1>1, PlatformInvHolds, PTL

\* Exports and renames (the workers): one worker at a time has a row, exactly
\* while it says processing; one that nobody works on any more was left by a
\* death or by an UPDATE that failed, and one that the backstop cannot start
\* again had a failed claim or a job that stalled too often.
THEOREM RowsStayWorkedOnce == Spec => []RowsAreWorkedOnce
<1>1. ASSUME PlatformInv
      PROVE  RowsAreWorkedOnce
  <2>1. CASE side = "jobs"
    BY <1>1, <2>1, JobsSafe DEF PlatformInv
  <2>2. CASE side # "jobs"
    <3>1. JobsInit /\ \A p \in Procs : req[p].op \notin Kinds
      BY <1>1, <2>2, WhoseRequests DEF PlatformInv
    <3> QED BY <3>1, JobsWait
  <2> QED BY <2>1, <2>2
<1> QED BY <1>1, PlatformInvHolds, PTL

\* Feature flags (the cached configuration): once a write has answered, launches
\* get the new flags, unless the key's deletion was lost or a read that had
\* loaded the old ones filled the key after it.
THEOREM FlagsStayFresh == Spec => []FlagsAreFresh
<1>1. PlatformInv => FlagsAreFresh
  BY CachesInitial DEF PlatformInv, CachesInv
<1> QED BY <1>1, PlatformInvHolds, PTL

=============================================================================

------------------------- MODULE IdempotencyProofs -------------------------
(***************************************************************************)
(* OneEffectPerKey for any number of requests, outages, expiries and       *)
(* deaths.                                                                 *)
(*                                                                         *)
(* The argument counts licences.  A handler that runs may have its effect  *)
(* once, a reply that will clear the key and a key that is absent each let *)
(* one more handler run.  Effects and licences together never exceed one   *)
(* more than the excuses (Licensed): whatever hands out another licence is *)
(* an excuse or gives one up.  Without an excuse the one licence is spent  *)
(* on the first answer, so it is also the last (AnswerIsLast).            *)
(***************************************************************************)
EXTENDS Idempotency, FiniteSetTheorems, TLAPS

Failures == {Reply("failed", n) : n \in 0..MaxEffects}
KeyedRequests ==
         [op: {"keyed"}, at: {"look", "handler"}, locked: BOOLEAN, reply: {Null}]
    \cup [op: {"keyed"}, at: {"reply"}, locked: BOOLEAN, reply: Stored \cup Failures]
    \cup [op: {"keyed"}, at: {"record"}, locked: {TRUE}, reply: Stored \cup Failures]

Types ==
    /\ IdemTypeOK
    /\ req \in [Procs -> {Idle} \cup KeyedRequests]

Answering(p) == req[p].op = "keyed" /\ req[p].at \in {"reply", "record"}
Handling == {p \in Procs : At(p, "keyed", "handler")}
Clearing == {p \in Procs : Answering(p) /\ req[p].locked /\ req[p].reply.status = "failed"}
FreeKey  == IF entry = Absent THEN 1 ELSE 0

Licensed ==
    effects + Cardinality(Handling) + Cardinality(Clearing) + FreeKey <= 1 + excuses

\* The answers, done or refused, that were given, are kept or are on their way.
Answers ==
    {r \in Stored : r \in told \cup {entry} \/ \E p \in Procs : Answering(p) /\ req[p].reply = r}

\* As long as nothing is excused, an answer ends the key's story.
AnswerIsLast ==
    excuses = 0 =>
       \A a \in Answers : /\ Handling = {} /\ Clearing = {} /\ entry # Absent
                          /\ a.effect = effects
                          /\ \A b \in Answers : a = b

IdemInv == Types /\ Licensed /\ AnswerIsLast

-----------------------------------------------------------------------------
(* Lemmas.                                                                 *)

\* How the size of a set of requests changes when one request moves.
LEMMA OneMoves ==
    ASSUME NEW S, NEW T, S \subseteq Procs, T \subseteq Procs, NEW p
    PROVE  /\ Cardinality(S) \in Nat /\ Cardinality(T) \in Nat
           /\ T \subseteq S => Cardinality(T) <= Cardinality(S)
           /\ T \subseteq S \cup {p} => Cardinality(T) <= Cardinality(S) + 1
           /\ p \in S /\ T \subseteq S \ {p} => Cardinality(T) <= Cardinality(S) - 1
<1>1. IsFiniteSet(S) /\ IsFiniteSet(T)
  BY ProcsAssumption, FS_Subset
<1>2. Cardinality(S) \in Nat /\ Cardinality(T) \in Nat
  BY <1>1, FS_CardinalityType
<1>3. T \subseteq S => Cardinality(T) <= Cardinality(S)
  BY <1>1, FS_Subset
<1>4. ASSUME T \subseteq S \cup {p}
      PROVE  Cardinality(T) <= Cardinality(S) + 1
  <2>1. /\ IsFiniteSet(S \cup {p})
        /\ Cardinality(S \cup {p}) \in {Cardinality(S), Cardinality(S) + 1}
    BY <1>1, <1>2, FS_AddElement
  <2>2. Cardinality(T) <= Cardinality(S \cup {p})
    BY <2>1, <1>4, FS_Subset
  <2> QED
    BY <2>1, <2>2, <1>2
<1>5. ASSUME p \in S, T \subseteq S \ {p}
      PROVE  Cardinality(T) <= Cardinality(S) - 1
  <2>1. IsFiniteSet(S \ {p}) /\ Cardinality(S \ {p}) = Cardinality(S) - 1
    BY <1>1, <1>5, FS_RemoveElement
  <2> QED
    BY <2>1, <1>5, FS_Subset
<1> QED
  BY <1>2, <1>3, <1>4, <1>5

\* When one request moves, it alone enters or leaves the sets that are counted.
LEMMA Counts ==
    ASSUME NEW p \in Procs, \A q \in Procs \ {p} : req'[q] = req[q]
    PROVE  /\ Cardinality(Handling) \in Nat /\ Cardinality(Handling)' \in Nat
           /\ Cardinality(Clearing) \in Nat /\ Cardinality(Clearing)' \in Nat
           /\ Cardinality(Handling)' <= Cardinality(Handling) + 1
           /\ Cardinality(Clearing)' <= Cardinality(Clearing) + 1
           /\ p \notin Handling' => Cardinality(Handling)' <= Cardinality(Handling)
           /\ p \notin Clearing' => Cardinality(Clearing)' <= Cardinality(Clearing)
           /\ p \in Handling /\ p \notin Handling' =>
                 Cardinality(Handling)' <= Cardinality(Handling) - 1
           /\ p \in Clearing /\ p \notin Clearing' =>
                 Cardinality(Clearing)' <= Cardinality(Clearing) - 1
<1>1. Handling \subseteq Procs /\ Handling' \subseteq Procs
  BY DEF Handling
<1>2. Clearing \subseteq Procs /\ Clearing' \subseteq Procs
  BY DEF Clearing
<1>3. Handling' \subseteq Handling \cup {p}
  BY DEF Handling, At
<1>4. Clearing' \subseteq Clearing \cup {p}
  BY DEF Clearing, Answering
<1>5. /\ Cardinality(Handling) \in Nat /\ Cardinality(Handling') \in Nat
      /\ Handling' \subseteq Handling => Cardinality(Handling') <= Cardinality(Handling)
      /\ Cardinality(Handling') <= Cardinality(Handling) + 1
      /\ p \in Handling /\ Handling' \subseteq Handling \ {p} =>
            Cardinality(Handling') <= Cardinality(Handling) - 1
  <2> DEFINE S == Handling
             T == Handling'
  <2> HIDE DEF S, T
  <2>1. S \subseteq Procs /\ T \subseteq Procs /\ T \subseteq S \cup {p}
    BY <1>1, <1>3 DEF S, T
  <2>2. /\ Cardinality(S) \in Nat /\ Cardinality(T) \in Nat
        /\ T \subseteq S => Cardinality(T) <= Cardinality(S)
        /\ Cardinality(T) <= Cardinality(S) + 1
        /\ p \in S /\ T \subseteq S \ {p} => Cardinality(T) <= Cardinality(S) - 1
    BY <2>1, OneMoves
  <2> QED
    BY <2>2 DEF S, T
<1>6. /\ Cardinality(Clearing) \in Nat /\ Cardinality(Clearing') \in Nat
      /\ Clearing' \subseteq Clearing => Cardinality(Clearing') <= Cardinality(Clearing)
      /\ Cardinality(Clearing') <= Cardinality(Clearing) + 1
      /\ p \in Clearing /\ Clearing' \subseteq Clearing \ {p} =>
            Cardinality(Clearing') <= Cardinality(Clearing) - 1
  <2> DEFINE S == Clearing
             T == Clearing'
  <2> HIDE DEF S, T
  <2>1. S \subseteq Procs /\ T \subseteq Procs /\ T \subseteq S \cup {p}
    BY <1>2, <1>4 DEF S, T
  <2>2. /\ Cardinality(S) \in Nat /\ Cardinality(T) \in Nat
        /\ T \subseteq S => Cardinality(T) <= Cardinality(S)
        /\ Cardinality(T) <= Cardinality(S) + 1
        /\ p \in S /\ T \subseteq S \ {p} => Cardinality(T) <= Cardinality(S) - 1
    BY <2>1, OneMoves
  <2> QED
    BY <2>2 DEF S, T
<1> QED
  BY <1>3, <1>4, <1>5, <1>6

\* What AnswerIsLast needs of a count: nothing is left of the one licence.
LEMMA LicenceSpent ==
    ASSUME Types, Licensed, excuses = 0, NEW p \in Handling
    PROVE  effects = 0 /\ Handling = {p} /\ Clearing = {} /\ entry # Absent
<1>1. IsFiniteSet(Handling) /\ IsFiniteSet(Clearing)
  BY ProcsAssumption, FS_Subset DEF Handling, Clearing
<1>2. Cardinality(Handling) \in Nat /\ Cardinality(Clearing) \in Nat
  BY <1>1, FS_CardinalityType
<1>3. effects \in Nat /\ FreeKey \in {0, 1}
  BY FaultsAssumption DEF Types, IdemTypeOK, MaxEffects, FreeKey
<1>4. Handling # {} /\ Cardinality(Handling) # 0
  BY <1>1, FS_EmptySet
<1>5. effects = 0 /\ Cardinality(Handling) = 1 /\ Cardinality(Clearing) = 0 /\ FreeKey = 0
  BY <1>2, <1>3, <1>4 DEF Licensed
<1>6. Clearing = {} /\ entry # Absent
  BY <1>1, <1>5, FS_EmptySet DEF FreeKey
<1>7. Handling = {p}
  BY <1>1, <1>5, FS_Singleton
<1> QED
  BY <1>5, <1>6, <1>7

\* What a keyed request is made of, at each of its awaits.
LEMMA RequestKinds ==
    ASSUME Types, NEW p \in Procs
    PROVE  /\ req[p] = Idle \/ req[p] \in KeyedRequests
           /\ req[p] = Idle => ~Answering(p) /\ p \notin Handling /\ p \notin Clearing
           /\ \A at \in {"look", "handler"} : At(p, "keyed", at) =>
                 /\ req[p].locked \in BOOLEAN
                 /\ req[p] = [op |-> "keyed", at |-> at,
                              locked |-> req[p].locked, reply |-> Null]
           /\ \A at \in {"reply", "record"} : At(p, "keyed", at) =>
                 /\ req[p].locked \in BOOLEAN /\ (at = "record" => req[p].locked)
                 /\ req[p].reply \in Stored \cup Failures
                 /\ req[p] = [op |-> "keyed", at |-> at,
                              locked |-> req[p].locked, reply |-> req[p].reply]
<1>1. req[p] = Idle \/ req[p] \in KeyedRequests
  BY DEF Types
<1>2. req[p] = Idle => ~Answering(p) /\ p \notin Handling /\ p \notin Clearing
  BY DEF Idle, Answering, Handling, Clearing, At
<1>3. ASSUME NEW at \in {"look", "handler"}, At(p, "keyed", at)
      PROVE  /\ req[p].locked \in BOOLEAN
             /\ req[p] = [op |-> "keyed", at |-> at,
                          locked |-> req[p].locked, reply |-> Null]
  <2>1. req[p].op = "keyed" /\ req[p].at = at /\ req[p] \in KeyedRequests
    BY <1>1, <1>3 DEF At, Idle
  <2>2. req[p] \in [op: {"keyed"}, at: {"look", "handler"}, locked: BOOLEAN, reply: {Null}]
    BY <2>1, <1>3 DEF KeyedRequests
  <2> QED
    BY <2>1, <2>2
<1>4. ASSUME NEW at \in {"reply", "record"}, At(p, "keyed", at)
      PROVE  /\ req[p].locked \in BOOLEAN /\ (at = "record" => req[p].locked)
             /\ req[p].reply \in Stored \cup Failures
             /\ req[p] = [op |-> "keyed", at |-> at,
                          locked |-> req[p].locked, reply |-> req[p].reply]
  <2>1. req[p].op = "keyed" /\ req[p].at = at /\ req[p] \in KeyedRequests
    BY <1>1, <1>4 DEF At, Idle
  <2>2. CASE at = "reply"
    <3>1. req[p] \in [op: {"keyed"}, at: {"reply"}, locked: BOOLEAN,
                      reply: Stored \cup Failures]
      BY <2>1, <2>2 DEF KeyedRequests
    <3> QED
      BY <2>1, <2>2, <3>1
  <2>3. CASE at = "record"
    <3>1. req[p] \in [op: {"keyed"}, at: {"record"}, locked: {TRUE},
                      reply: Stored \cup Failures]
      BY <2>1, <2>3 DEF KeyedRequests
    <3> QED
      BY <2>1, <2>3, <3>1
  <2> QED
    BY <1>4, <2>2, <2>3
<1> QED
  BY <1>1, <1>2, <1>3, <1>4

\* Moving a keyed request to another await, with or without its reply.
LEMMA Updates ==
    ASSUME NEW k, NEW l, NEW x, NEW y, NEW at, NEW to,
           k = [op |-> "keyed", at |-> at, locked |-> l, reply |-> x]
    PROVE  /\ [k EXCEPT !.at = to]
                = [op |-> "keyed", at |-> to, locked |-> l, reply |-> x]
           /\ [k EXCEPT !.reply = y]
                = [op |-> "keyed", at |-> at, locked |-> l, reply |-> y]
OBVIOUS

\* A step of p leaves every other request as it is.
Moves(p, r) == req' = [req EXCEPT ![p] = r]

LEMMA OneRequestMoves ==
    ASSUME Types, NEW p \in Procs, NEW r \in {Idle} \cup KeyedRequests, Moves(p, r)
    PROVE  /\ req' \in [Procs -> {Idle} \cup KeyedRequests]
           /\ req'[p] = r
           /\ \A q \in Procs \ {p} : /\ req'[q] = req[q]
                                     /\ Answering(q)' = Answering(q)
                                     /\ (q \in Handling)' = (q \in Handling)
                                     /\ (q \in Clearing)' = (q \in Clearing)
BY DEF Types, Moves, Answering, Handling, Clearing, At

\* The key's story stays at its end when p brings no new answer, handles
\* nothing and clears nothing.
LEMMA EndKept ==
    ASSUME AnswerIsLast, NEW p \in Procs,
           \A q \in Procs \ {p} : req'[q] = req[q],
           excuses' = excuses, effects' = effects,
           Answers # {} => (entry # Absent => entry' # Absent),
           \A a \in (told \cup {entry})' : a \in Stored => a \in Answers,
           Answering(p)' => Answering(p) /\ req'[p].reply = req[p].reply,
           Answers # {} => (p \in Handling' => p \in Handling),
           p \in Clearing' => p \in Clearing
    PROVE  AnswerIsLast'
<1>1. Answers # {} => Handling' \subseteq Handling /\ Clearing' \subseteq Clearing
  BY DEF Handling, Clearing, Answering, At
<1>2. \A q \in Procs : Answering(q)' => Answering(q) /\ req'[q].reply = req[q].reply
  BY DEF Answering
<1>3. Answers' \subseteq Answers
  BY <1>2 DEF Answers
<1> QED
  BY <1>1, <1>3 DEF AnswerIsLast

-----------------------------------------------------------------------------
(* Each action keeps IdemInv.                                              *)

LEMMA InitHolds == ReqInit /\ IdemInit => IdemInv
<1> SUFFICES ASSUME ReqInit, IdemInit PROVE IdemInv
  OBVIOUS
<1>1. \A p \in Procs : req[p] = Idle
  BY DEF ReqInit
<1>2. Types
  BY FaultsAssumption DEF ReqInit, IdemInit, Types, IdemTypeOK, MaxEffects
<1>3. Handling = {} /\ Clearing = {} /\ \A p \in Procs : ~Answering(p)
  BY <1>1, <1>2, RequestKinds DEF Handling, Clearing
<1>4. Licensed
  BY <1>3, FS_EmptySet DEF Licensed, FreeKey, IdemInit
<1>5. Answers = {}
  <2>1. Absent \notin Stored /\ told = {} /\ entry = Absent
    BY DEF IdemInit, Stored, Absent, Reply
  <2> QED
    BY <1>3, <2>1 DEF Answers
<1>6. AnswerIsLast
  BY <1>5 DEF AnswerIsLast
<1> QED
  BY <1>2, <1>4, <1>5, <1>6 DEF IdemInv

LEMMA AcquireKeeps ==
    ASSUME IdemInv, NEW p \in Procs, Acquire(p)
    PROVE  IdemInv'
<1> USE DEF IdemInv
<1>1. Types /\ req[p] = Idle /\ UNCHANGED <<effects, told, excuses>>
  BY DEF Acquire, Enter
<1>2. ~Answering(p) /\ p \notin Handling /\ p \notin Clearing
  BY <1>1, RequestKinds
<1>3. effects \in Nat /\ excuses \in Nat
  BY FaultsAssumption, <1>1 DEF Types, IdemTypeOK, MaxEffects
<1>4. CASE entry = Absent
  <2>1. Moves(p, Begin(TRUE)) /\ entry' = Pending
    BY <1>4 DEF Acquire, Enter, Moves
  <2>2. Begin(TRUE) \in KeyedRequests
    BY DEF Begin, KeyedRequests
  <2>3. /\ req' \in [Procs -> {Idle} \cup KeyedRequests] /\ req'[p] = Begin(TRUE)
        /\ \A q \in Procs \ {p} : req'[q] = req[q]
    BY <1>1, <2>1, <2>2, OneRequestMoves
  <2>4. ~Answering(p)' /\ p \notin Clearing'
    BY <2>3 DEF Answering, Clearing, Begin
  <2>5. Types'
    BY <1>1, <2>1, <2>3 DEF Types, IdemTypeOK
  <2>6. Licensed'
    <3>1. FreeKey = 1 /\ FreeKey' = 0
      BY <1>4, <2>1 DEF FreeKey, Absent, Pending, Reply
    <3> QED
      BY <1>1, <1>3, <2>3, <2>4, <3>1, Counts DEF Licensed
  <2>7. AnswerIsLast'
    <3>1. Pending \notin Stored
      BY DEF Pending, Stored, Reply
    <3>2. excuses = 0 => Answers = {}
      BY <1>4 DEF AnswerIsLast
    <3>3. Answers' \subseteq Answers
      <4>1. \A q \in Procs : Answering(q)' => Answering(q) /\ req'[q].reply = req[q].reply
        BY <2>3, <2>4 DEF Answering
      <4> QED
        BY <1>1, <2>1, <3>1, <4>1 DEF Answers
    <3> QED
      BY <1>1, <3>2, <3>3 DEF AnswerIsLast
  <2> QED
    BY <2>5, <2>6, <2>7
<1>5. CASE entry # Absent
  <2> DEFINE r == [op |-> "keyed", at |-> "look", locked |-> FALSE, reply |-> Null]
  <2>1. Moves(p, r) /\ entry' = entry
    BY <1>5 DEF Acquire, Enter, Moves, Begin
  <2>2. r \in KeyedRequests
    BY DEF KeyedRequests
  <2>3. /\ req' \in [Procs -> {Idle} \cup KeyedRequests] /\ req'[p] = r
        /\ \A q \in Procs \ {p} : req'[q] = req[q]
    BY <1>1, <2>1, <2>2, OneRequestMoves
  <2>4. ~Answering(p)' /\ p \notin Clearing' /\ p \notin Handling'
    BY <2>3 DEF Answering, Clearing, Handling, At
  <2> HIDE DEF r
  <2>5. Types'
    BY <1>1, <2>1, <2>3 DEF Types, IdemTypeOK
  <2>6. Licensed'
    <3>1. FreeKey' = FreeKey /\ FreeKey \in {0, 1}
      BY <2>1 DEF FreeKey
    <3> QED
      BY <1>1, <1>3, <2>3, <2>4, <3>1, Counts DEF Licensed
  <2>7. AnswerIsLast'
    <3>1. \A a \in (told \cup {entry})' : a \in Stored => a \in Answers
      BY <1>1, <2>1 DEF Answers
    <3> QED
      BY <1>1, <2>1, <2>3, <2>4, <3>1, EndKept
  <2> QED
    BY <2>5, <2>6, <2>7
<1> QED
  BY <1>4, <1>5

LEMMA LookKeeps ==
    ASSUME IdemInv, NEW p \in Procs, Look(p)
    PROVE  IdemInv'
<1> USE DEF IdemInv
<1> DEFINE answer == IF entry \in Stored THEN entry ELSE Conflict
<1>1. /\ Types /\ Moves(p, Idle) /\ told' = told \cup {answer}
      /\ UNCHANGED <<entry, effects, excuses>>
  BY DEF Look, Finish, Moves
<1>2. /\ req' \in [Procs -> {Idle} \cup KeyedRequests] /\ req'[p] = Idle
      /\ \A q \in Procs \ {p} : req'[q] = req[q]
  BY <1>1, OneRequestMoves
<1>3. effects \in Nat /\ excuses \in Nat
  BY FaultsAssumption, <1>1 DEF Types, IdemTypeOK, MaxEffects
<1>4. ~Answering(p)' /\ p \notin Handling' /\ p \notin Clearing'
  BY <1>2 DEF Answering, Handling, Clearing, At, Idle
<1>5. answer \in Replies /\ (answer = entry \/ answer = Conflict)
  BY DEF Replies
<1> HIDE DEF answer
<1>6. Types'
  BY <1>1, <1>2, <1>5 DEF Types, IdemTypeOK
<1>7. Licensed'
  <2>1. FreeKey' = FreeKey /\ FreeKey \in {0, 1}
    BY <1>1 DEF FreeKey
  <2> QED
    BY <1>1, <1>2, <1>3, <1>4, <2>1, Counts DEF Licensed
<1>8. AnswerIsLast'
  <2>1. Conflict \notin Stored
    BY DEF Conflict, Stored, Reply
  <2>2. \A a \in (told \cup {entry})' : a \in Stored => a \in Answers
    BY <1>1, <1>5, <2>1 DEF Answers
  <2> QED
    BY <1>1, <1>2, <1>4, <2>2, EndKept
<1> QED
  BY <1>6, <1>7, <1>8

LEMMA FailOpenKeeps ==
    ASSUME IdemInv, NEW p \in Procs, FailOpen(p)
    PROVE  IdemInv'
<1> USE DEF IdemInv
<1>1. /\ Types /\ UNCHANGED <<entry, effects, told>>
      /\ excuses < MaxFaults /\ excuses' = excuses + 1
  BY DEF FailOpen, Excuse
<1>2. PICK r \in KeyedRequests : Moves(p, r) /\ r.at = "handler"
  <2>1. CASE Enter(p, Begin(FALSE))
    <3>1. Begin(FALSE) \in KeyedRequests /\ Begin(FALSE).at = "handler"
      BY DEF Begin, KeyedRequests
    <3> QED
      BY <2>1, <3>1 DEF Enter, Moves
  <2>2. CASE At(p, "keyed", "look") /\ Goto(p, "handler")
    <3> DEFINE r == [op |-> "keyed", at |-> "handler",
                     locked |-> req[p].locked, reply |-> Null]
    <3>1. /\ req[p].locked \in BOOLEAN
          /\ req[p] = [op |-> "keyed", at |-> "look",
                       locked |-> req[p].locked, reply |-> Null]
      BY <1>1, <2>2, RequestKinds
    <3>2. [req[p] EXCEPT !.at = "handler"] = r
      BY <3>1
    <3>3. Moves(p, r)
      BY <1>1, <2>2, <3>2 DEF Goto, Moves, Types
    <3>4. r \in KeyedRequests /\ r.at = "handler"
      BY <3>1 DEF KeyedRequests
    <3> QED
      BY <3>3, <3>4
  <2> QED
    BY <2>1, <2>2 DEF FailOpen
<1>3. /\ req' \in [Procs -> {Idle} \cup KeyedRequests] /\ req'[p] = r
      /\ \A q \in Procs \ {p} : req'[q] = req[q]
  BY <1>1, <1>2, OneRequestMoves
<1>4. effects \in Nat /\ excuses \in Nat
  BY FaultsAssumption, <1>1 DEF Types, IdemTypeOK, MaxEffects
<1>5. ~Answering(p)' /\ p \notin Clearing'
  BY <1>2, <1>3 DEF Answering, Clearing
<1>6. Types'
  BY <1>1, <1>3, FaultsAssumption DEF Types, IdemTypeOK
<1>7. Licensed'
  <2>1. FreeKey' = FreeKey /\ FreeKey \in {0, 1}
    BY <1>1 DEF FreeKey
  <2> QED
    BY <1>1, <1>3, <1>4, <1>5, <2>1, Counts DEF Licensed
<1>8. AnswerIsLast'
  BY <1>1, <1>4 DEF AnswerIsLast
<1> QED
  BY <1>6, <1>7, <1>8

\* The licence to handle is spent: on the effect, on the reply that will clear
\* the key, or on neither; on both only with an excuse.
LEMMA HandleKeeps ==
    ASSUME IdemInv, NEW p \in Procs, Handle(p)
    PROVE  IdemInv'
<1> USE DEF IdemInv
<1>1. Types /\ At(p, "keyed", "handler") /\ UNCHANGED <<entry, told>>
  BY DEF Handle
<1>2. PICK acts \in BOOLEAN, status \in {"ok", "refused", "failed"} :
         /\ status = "ok" => acts
         /\ effects + (IF acts THEN 1 ELSE 0) <= MaxEffects
         /\ effects' = IF acts THEN effects + 1 ELSE effects
         /\ IF acts /\ status = "failed" THEN Excuse ELSE UNCHANGED excuses
         /\ req' = [req EXCEPT ![p].at = "reply",
                      ![p].reply = Reply(status, IF acts THEN effects + 1 ELSE 0)]
  BY DEF Handle
<1> DEFINE reply == Reply(status, IF acts THEN effects + 1 ELSE 0)
           r == [op |-> "keyed", at |-> "reply", locked |-> req[p].locked, reply |-> reply]
<1>3. effects \in Nat /\ excuses \in Nat /\ MaxEffects \in Nat
  BY FaultsAssumption, <1>1 DEF Types, IdemTypeOK, MaxEffects
<1>4. effects' \in 0..MaxEffects /\ effects <= effects' /\ excuses' \in 0..MaxFaults
  <2>1. effects' \in 0..MaxEffects /\ effects <= effects'
    BY <1>2, <1>3
  <2>2. CASE acts /\ status = "failed"
    BY <1>2, <1>3, <2>2, FaultsAssumption DEF Excuse
  <2>3. CASE ~(acts /\ status = "failed")
    BY <1>1, <1>2, <2>3 DEF Types, IdemTypeOK
  <2> QED
    BY <2>1, <2>2, <2>3
<1>5. reply \in Stored \cup Failures
  <2>1. CASE status = "ok"
    <3>1. effects + 1 \in 1..MaxEffects /\ reply = Reply("ok", effects + 1)
      BY <1>2, <1>3, <2>1
    <3> QED
      BY <3>1 DEF Stored
  <2>2. CASE status = "refused"
    <3>1. PICK n \in 0..MaxEffects : reply = Reply("refused", n)
      BY <1>2, <1>3, <2>2
    <3> QED
      BY <3>1 DEF Stored
  <2>3. CASE status = "failed"
    <3>1. PICK n \in 0..MaxEffects : reply = Reply("failed", n)
      BY <1>2, <1>3, <2>3
    <3> QED
      BY <3>1 DEF Failures
  <2> QED
    BY <2>1, <2>2, <2>3
<1>6. Moves(p, r) /\ r \in KeyedRequests
  <2>1. /\ req[p].locked \in BOOLEAN
        /\ req[p] = [op |-> "keyed", at |-> "handler",
                     locked |-> req[p].locked, reply |-> Null]
    BY <1>1, RequestKinds
  <2> HIDE DEF reply
  <2>2. req' = [req EXCEPT ![p] = [[req[p] EXCEPT !.at = "reply"] EXCEPT !.reply = reply]]
    BY <1>1, <1>2 DEF Types, reply
  <2>3. [[req[p] EXCEPT !.at = "reply"] EXCEPT !.reply = reply] = r
    <3> DEFINE k == [req[p] EXCEPT !.at = "reply"]
    <3>1. k = [op |-> "keyed", at |-> "reply", locked |-> req[p].locked, reply |-> Null]
      BY <2>1
    <3> HIDE DEF k
    <3>2. [k EXCEPT !.reply = reply] = r
      BY <3>1, Updates
    <3> QED
      BY <3>2 DEF k
  <2> QED
    BY <1>5, <2>1, <2>2, <2>3 DEF Moves, KeyedRequests
<1>7. reply.status = status /\ (effects = 0 => reply.effect = effects')
  BY <1>2, <1>3 DEF Reply
<1> HIDE DEF reply
<1>8. /\ req' \in [Procs -> {Idle} \cup KeyedRequests] /\ req'[p] = r
      /\ \A q \in Procs \ {p} : req'[q] = req[q]
  BY <1>1, <1>6, OneRequestMoves
<1>9. p \in Handling /\ p \notin Handling' /\ (status # "failed" => p \notin Clearing')
  BY <1>1, <1>7, <1>8 DEF Handling, Clearing, At
<1>10. Types'
  BY <1>1, <1>4, <1>8 DEF Types, IdemTypeOK
<1>11. Licensed'
  <2>1. FreeKey' = FreeKey /\ FreeKey \in {0, 1}
    BY <1>1 DEF FreeKey
  <2>2. CASE status # "failed"
    BY <1>2, <1>3, <1>8, <1>9, <2>1, <2>2, Counts DEF Licensed
  <2>3. CASE status = "failed"
    BY <1>2, <1>3, <1>8, <1>9, <2>1, <2>3, Counts DEF Licensed, Excuse
  <2> QED
    BY <2>2, <2>3
<1>12. AnswerIsLast'
  <2> SUFFICES ASSUME excuses' = 0, Answers' # {}
               PROVE  /\ (Handling = {} /\ Clearing = {} /\ entry # Absent)'
                      /\ \A a \in Answers' : a = reply /\ a.effect = effects'
    BY DEF AnswerIsLast
  <2>1. excuses = 0
    BY <1>2, <1>3 DEF Excuse
  <2>2. effects = 0 /\ Handling = {p} /\ Clearing = {} /\ entry # Absent
    BY <1>1, <1>9, <2>1, LicenceSpent
  <2>3. Answers = {}
    BY <2>1, <2>2 DEF AnswerIsLast
  <2>4. \A a \in Answers' : a = reply
    <3>1. \A q \in Procs \ {p} : Answering(q)' => Answering(q) /\ req'[q].reply = req[q].reply
      BY <1>8 DEF Answering
    <3>2. req'[p].reply = reply
      BY <1>8
    <3> QED
      BY <1>1, <2>3, <3>1, <3>2 DEF Answers
  <2>5. reply \in Stored
    BY <2>4 DEF Answers
  <2>6. status # "failed"
    BY <1>7, <2>5 DEF Stored, Reply
  <2>7. p \notin Handling' /\ p \notin Clearing' /\ entry' # Absent
    BY <1>1, <1>9, <2>2, <2>6
  <2>8. Handling' \subseteq Handling \cup {p} /\ Clearing' \subseteq Clearing \cup {p}
    BY <1>8 DEF Handling, Clearing, Answering, At
  <2> QED
    BY <1>7, <2>2, <2>4, <2>7, <2>8
<1> QED
  BY <1>10, <1>11, <1>12

LEMMA RespondKeeps ==
    ASSUME IdemInv, NEW p \in Procs, Respond(p)
    PROVE  IdemInv'
<1> USE DEF IdemInv
<1>1. /\ Types /\ At(p, "keyed", "reply") /\ told' = told \cup {req[p].reply}
      /\ UNCHANGED <<entry, effects, excuses>>
  BY DEF Respond
<1>2. /\ req[p].locked \in BOOLEAN /\ req[p].reply \in Stored \cup Failures
      /\ req[p] = [op |-> "keyed", at |-> "reply",
                   locked |-> req[p].locked, reply |-> req[p].reply]
      /\ Answering(p)
  BY <1>1, RequestKinds DEF Answering, At
<1>3. PICK r \in {Idle} \cup KeyedRequests :
         /\ Moves(p, r)
         /\ r = Idle \/ (req[p].locked /\ r = [req[p] EXCEPT !.at = "record"])
  <2>1. CASE req[p].locked
    <3> DEFINE r == [op |-> "keyed", at |-> "record", locked |-> req[p].locked,
                     reply |-> req[p].reply]
    <3>1. req[p].locked = TRUE
      BY <1>2, <2>1
    <3>2. [req[p] EXCEPT !.at = "record"] = r
      BY <1>2
    <3>3. r \in KeyedRequests
      BY <1>2, <3>1 DEF KeyedRequests
    <3>4. Moves(p, [req[p] EXCEPT !.at = "record"])
      BY <1>1, <2>1 DEF Respond, Goto, Moves, Types
    <3> QED
      BY <2>1, <3>2, <3>3, <3>4
  <2>2. CASE ~req[p].locked
    BY <2>2 DEF Respond, Finish, Moves
  <2> QED
    BY <1>2, <2>1, <2>2
<1>4. /\ req' \in [Procs -> {Idle} \cup KeyedRequests] /\ req'[p] = r
      /\ \A q \in Procs \ {p} : req'[q] = req[q]
  BY <1>1, <1>3, OneRequestMoves
<1>5. effects \in Nat /\ excuses \in Nat
  BY FaultsAssumption, <1>1 DEF Types, IdemTypeOK, MaxEffects
<1>6. /\ r # Idle => /\ r.at = "record" /\ r.reply = req[p].reply
                     /\ r.locked = req[p].locked
      /\ p \notin Handling'
      /\ r = Idle => ~Answering(p)' /\ p \notin Clearing'
  <2>1. ASSUME r # Idle
        PROVE  r.at = "record" /\ r.reply = req[p].reply /\ r.locked = req[p].locked
    BY <1>2, <1>3, <2>1
  <2> QED
    BY <1>4, <2>1 DEF Answering, Handling, Clearing, At, Idle
<1>7. /\ p \in Clearing' => p \in Clearing
      /\ Answering(p)' => req'[p].reply = req[p].reply
  BY <1>2, <1>4, <1>6 DEF Clearing
<1>8. Types'
  <2>1. req[p].reply \in Replies
    BY <1>2 DEF Replies, Failures
  <2> QED
    BY <1>1, <1>4, <2>1 DEF Types, IdemTypeOK
<1>9. Licensed'
  <2>1. FreeKey' = FreeKey /\ FreeKey \in {0, 1}
    BY <1>1 DEF FreeKey
  <2>2. Cardinality(Clearing)' <= Cardinality(Clearing)
    <3>1. Clearing' \subseteq Clearing /\ Clearing \subseteq Procs
      BY <1>4, <1>7 DEF Clearing, Answering
    <3> QED
      BY <3>1, ProcsAssumption, FS_Subset
  <2> QED
    BY <1>1, <1>4, <1>5, <1>6, <2>1, <2>2, Counts DEF Licensed
<1>10. AnswerIsLast'
  <2>1. \A a \in (told \cup {entry})' : a \in Stored => a \in Answers
    BY <1>1, <1>2 DEF Answers
  <2> QED
    BY <1>1, <1>2, <1>4, <1>6, <1>7, <2>1, EndKept
<1> QED
  BY <1>8, <1>9, <1>10

LEMMA RecordKeeps ==
    ASSUME IdemInv, NEW p \in Procs, Record(p)
    PROVE  IdemInv'
<1> USE DEF IdemInv
<1>1. /\ Types /\ At(p, "keyed", "record") /\ Moves(p, Idle)
      /\ entry' = IF req[p].reply.status = "failed" THEN Absent ELSE req[p].reply
      /\ UNCHANGED <<effects, told, excuses>>
  BY DEF Record, Finish, Moves
<1>2. req[p].locked /\ req[p].reply \in Stored \cup Failures /\ Answering(p)
  BY <1>1, RequestKinds DEF Answering, At
<1>3. /\ req' \in [Procs -> {Idle} \cup KeyedRequests] /\ req'[p] = Idle
      /\ \A q \in Procs \ {p} : req'[q] = req[q]
  BY <1>1, OneRequestMoves
<1>4. effects \in Nat /\ excuses \in Nat
  BY FaultsAssumption, <1>1 DEF Types, IdemTypeOK, MaxEffects
<1>5. ~Answering(p)' /\ p \notin Handling' /\ p \notin Clearing'
  BY <1>3 DEF Answering, Handling, Clearing, At, Idle
<1>6. Absent \notin Stored
  BY DEF Absent, Stored, Reply
<1>7. CASE req[p].reply.status = "failed"
  <2>1. entry' = Absent /\ p \in Clearing
    BY <1>1, <1>2, <1>7 DEF Clearing
  <2>2. Types'
    BY <1>1, <1>3, <2>1 DEF Types, IdemTypeOK
  <2>3. Licensed'
    <3>1. FreeKey' = 1 /\ FreeKey \in {0, 1}
      BY <2>1 DEF FreeKey
    <3> QED
      BY <1>1, <1>3, <1>4, <1>5, <2>1, <3>1, Counts DEF Licensed
  <2>4. AnswerIsLast'
    <3>1. excuses = 0 => Answers = {}
      BY <2>1 DEF AnswerIsLast
    <3>2. \A q \in Procs : Answering(q)' => Answering(q) /\ req'[q].reply = req[q].reply
      BY <1>3, <1>5 DEF Answering
    <3>3. Answers' \subseteq Answers
      BY <1>1, <1>6, <2>1, <3>2 DEF Answers
    <3> QED
      BY <1>1, <3>1, <3>3 DEF AnswerIsLast
  <2> QED
    BY <2>2, <2>3, <2>4
<1>8. CASE req[p].reply.status # "failed"
  <2>1. entry' = req[p].reply /\ entry' \in Stored
    BY <1>1, <1>2, <1>8 DEF Failures, Reply
  <2>2. entry' # Absent
    BY <2>1 DEF Stored, Absent, Reply
  <2>3. Types'
    BY <1>1, <1>3, <2>1 DEF Types, IdemTypeOK
  <2>4. Licensed'
    <3>1. FreeKey' = 0 /\ FreeKey \in {0, 1}
      BY <2>2 DEF FreeKey
    <3> QED
      BY <1>1, <1>3, <1>4, <1>5, <3>1, Counts DEF Licensed
  <2>5. AnswerIsLast'
    <3>1. \A a \in (told \cup {entry})' : a \in Stored => a \in Answers
      BY <1>1, <1>2, <2>1 DEF Answers
    <3> QED
      BY <1>1, <1>3, <1>5, <2>2, <3>1, EndKept
  <2> QED
    BY <2>3, <2>4, <2>5
<1> QED
  BY <1>7, <1>8

LEMMA KeyExpiresKeeps ==
    ASSUME IdemInv, KeyExpires
    PROVE  IdemInv'
<1> USE DEF IdemInv
<1>1. /\ Types /\ entry # Absent /\ entry' = Absent
      /\ excuses < MaxFaults /\ excuses' = excuses + 1
      /\ UNCHANGED <<effects, told, req, deaths>>
  BY DEF KeyExpires, Excuse, reqVars
<1>2. effects \in Nat /\ excuses \in Nat
  BY FaultsAssumption, <1>1 DEF Types, IdemTypeOK, MaxEffects
<1>3. Types'
  BY <1>1, <1>2, FaultsAssumption DEF Types, IdemTypeOK
<1>4. Licensed'
  <2>1. FreeKey = 0 /\ FreeKey' = 1
    BY <1>1 DEF FreeKey
  <2>2. Handling' = Handling /\ Clearing' = Clearing
    BY <1>1 DEF Handling, Clearing, Answering, At
  <2>3. Cardinality(Handling) \in Nat /\ Cardinality(Clearing) \in Nat
    <3>1. Handling \subseteq Procs /\ Clearing \subseteq Procs
      BY DEF Handling, Clearing
    <3> QED
      BY <3>1, ProcsAssumption, FS_Subset, FS_CardinalityType
  <2> QED
    BY <1>1, <1>2, <2>1, <2>2, <2>3 DEF Licensed
<1>5. AnswerIsLast'
  BY <1>1, <1>2 DEF AnswerIsLast
<1> QED
  BY <1>3, <1>4, <1>5

LEMMA DeathKeeps ==
    ASSUME IdemInv, NEW p \in Procs, IdemDie(p)
    PROVE  IdemInv'
<1> USE DEF IdemInv
<1>1. Types /\ Moves(p, Idle) /\ UNCHANGED <<entry, effects, told, excuses>>
  BY DEF IdemDie, Die, Moves, idemVars
<1>2. /\ req' \in [Procs -> {Idle} \cup KeyedRequests] /\ req'[p] = Idle
      /\ \A q \in Procs \ {p} : req'[q] = req[q]
  BY <1>1, OneRequestMoves
<1>3. effects \in Nat /\ excuses \in Nat
  BY FaultsAssumption, <1>1 DEF Types, IdemTypeOK, MaxEffects
<1>4. ~Answering(p)' /\ p \notin Handling' /\ p \notin Clearing'
  BY <1>2 DEF Answering, Handling, Clearing, At, Idle
<1>5. Types'
  BY <1>1, <1>2 DEF Types, IdemTypeOK
<1>6. Licensed'
  <2>1. FreeKey' = FreeKey /\ FreeKey \in {0, 1}
    BY <1>1 DEF FreeKey
  <2> QED
    BY <1>1, <1>2, <1>3, <1>4, <2>1, Counts DEF Licensed
<1>7. AnswerIsLast'
  <2>1. \A a \in (told \cup {entry})' : a \in Stored => a \in Answers
    BY <1>1 DEF Answers
  <2> QED
    BY <1>1, <1>2, <1>4, <2>1, EndKept
<1> QED
  BY <1>5, <1>6, <1>7

\* Every step of any request keeps the licences.
LEMMA IdemKept ==
    ASSUME IdemInv, [IdemNext]_<<reqVars, idemVars>>
    PROVE  IdemInv'
<1>1. ASSUME NEW p \in Procs, Acquire(p) PROVE IdemInv'
  BY <1>1, AcquireKeeps
<1>2. ASSUME NEW p \in Procs, Look(p) PROVE IdemInv'
  BY <1>2, LookKeeps
<1>3. ASSUME NEW p \in Procs, FailOpen(p) PROVE IdemInv'
  BY <1>3, FailOpenKeeps
<1>4. ASSUME NEW p \in Procs, Handle(p) PROVE IdemInv'
  BY <1>4, HandleKeeps
<1>5. ASSUME NEW p \in Procs, Respond(p) PROVE IdemInv'
  BY <1>5, RespondKeeps
<1>6. ASSUME NEW p \in Procs, Record(p) PROVE IdemInv'
  BY <1>6, RecordKeeps
<1>7. ASSUME NEW p \in Procs, IdemDie(p) PROVE IdemInv'
  BY <1>7, DeathKeeps
<1>8. CASE KeyExpires
  BY <1>8, KeyExpiresKeeps
<1>9. CASE UNCHANGED <<reqVars, idemVars>>
  <2>1. UNCHANGED <<req, entry, effects, told, excuses>>
    BY <1>9 DEF reqVars, idemVars
  <2> QED
    BY <2>1 DEF IdemInv, Types, IdemTypeOK, Licensed, AnswerIsLast, Answers,
                Handling, Clearing, FreeKey, Answering, At
<1> QED
  BY <1>1, <1>2, <1>3, <1>4, <1>5, <1>6, <1>7, <1>8, <1>9 DEF IdemNext

-----------------------------------------------------------------------------
(* Theorems.                                                               *)

\* What the invariant says of the effects and the replies told.
LEMMA IdemSafe ==
    ASSUME IdemInv
    PROVE  OneEffectPerKey
<1>1. Types /\ Licensed /\ AnswerIsLast
  BY DEF IdemInv
<1>2. effects \in Nat /\ excuses \in Nat
  BY <1>1, FaultsAssumption DEF Types, IdemTypeOK, MaxEffects
<1>3. effects <= 1 + excuses
  <2>1. Cardinality(Handling) \in Nat /\ Cardinality(Clearing) \in Nat
    <3>1. Handling \subseteq Procs /\ Clearing \subseteq Procs
      BY DEF Handling, Clearing
    <3> QED
      BY <3>1, ProcsAssumption, FS_Subset, FS_CardinalityType
  <2>2. FreeKey \in {0, 1}
    BY DEF FreeKey
  <2> QED
    BY <1>1, <1>2, <2>1, <2>2 DEF Licensed
<1>4. ASSUME excuses = 0, NEW a \in told \cap Stored, NEW b \in told \cap Stored
      PROVE  a = b /\ a.effect = effects
  <2>1. a \in Answers /\ b \in Answers
    BY <1>4 DEF Answers
  <2> QED
    BY <1>1, <1>4, <2>1 DEF AnswerIsLast
<1> QED
  BY <1>3, <1>4 DEF OneEffectPerKey

\* The licences are what the middleware keeps, in every step of any request.
THEOREM IdemInvHolds == IdemSpec => []IdemInv
<1>1. IdemInv /\ [IdemNext]_<<reqVars, idemVars>> => IdemInv'
  BY IdemKept
<1> QED
  BY <1>1, InitHolds, PTL DEF IdemSpec

\* The key, the effects and the replies told stay what the model lets them be.
THEOREM IdemTypeCorrect == IdemSpec => []IdemTypeOK
<1>1. IdemInv => IdemTypeOK
  BY DEF IdemInv, Types
<1> QED
  BY <1>1, IdemInvHolds, PTL

\* Retries of any number of clients under one key have one effect, and each
\* further one has an excuse; unexcused, all of them are answered the same, done
\* or refused, and the answer reports all the effect the requests had.
THEOREM IdemOneEffectPerKey == IdemSpec => []OneEffectPerKey
<1>1. IdemInv => OneEffectPerKey
  BY IdemSafe
<1> QED
  BY <1>1, IdemInvHolds, PTL

=============================================================================

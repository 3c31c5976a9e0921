------------------------------- MODULE Caches -------------------------------
(***************************************************************************)
(* The cache-aside helper and its one user, the client configuration: a    *)
(* read fills the Redis key from the table, a write changes the table and  *)
(* then deletes the key.  Redis errors are swallowed on both paths, and    *)
(* the key's time to live is what ends a stale value.                      *)
(***************************************************************************)
EXTENDS Requests

CONSTANTS MaxFlagWrites,  \* bound on writes of the flags
          MaxRedisErrors  \* bound on Redis commands that fail
ASSUME CachesAssumption == MaxFlagWrites \in Nat /\ MaxRedisErrors \in Nat

VARIABLES
    flags,      \* the contents of feature_flags, a version per write
    cachedFlags,\* config:feature_flags: the version it holds, or Null
    excuse,     \* what let the cached value be overtaken
    redisErrors

cacheVars == <<flags, cachedFlags, excuse, redisErrors>>

CachesInit == flags = 0 /\ cachedFlags = Null /\ excuse = {} /\ redisErrors = 0

RedisFails == redisErrors < MaxRedisErrors /\ redisErrors' = redisErrors + 1

\* GET /config.  A hit answers at once; an error counts as a miss.
CacheGet(p) ==
    /\ Enter(p, [op |-> "config", at |-> "load", value |-> Null])
    /\ \/ cachedFlags = Null /\ UNCHANGED redisErrors
       \/ RedisFails
    /\ UNCHANGED <<flags, cachedFlags, excuse>>

Load(p) ==
    /\ At(p, "config", "load")
    /\ req' = [req EXCEPT ![p].at = "fill", ![p].value = flags]
    /\ UNCHANGED <<cacheVars, deaths>>

CacheSet(p) ==
    /\ At(p, "config", "fill") /\ Finish(p)
    /\ \/ /\ cachedFlags' = req[p].value
          /\ excuse' = IF req[p].value = flags THEN {} ELSE {"overtaken"}
          /\ UNCHANGED redisErrors
       \/ RedisFails /\ UNCHANGED <<cachedFlags, excuse>>
    /\ UNCHANGED flags

\* (Mutant: a write of the flags that does not invalidate.)
SetFlagSilently(p) ==
    /\ req[p] = Idle /\ flags < MaxFlagWrites /\ flags' = flags + 1
    /\ UNCHANGED <<cachedFlags, excuse, redisErrors, reqVars>>

\* setFlag and deleteFlag write the table, whatever is cached ...
SetFlag(p) ==
    /\ flags < MaxFlagWrites /\ flags' = flags + 1
    /\ Enter(p, [op |-> "flag", at |-> "del"])
    /\ UNCHANGED <<cachedFlags, excuse, redisErrors>>

\* ... and then delete the key, or fail to without telling the admin.
CacheDel(p) ==
    /\ At(p, "flag", "del") /\ Finish(p)
    /\ \/ cachedFlags' = Null /\ excuse' = {} /\ UNCHANGED redisErrors
       \/ RedisFails /\ excuse' = excuse \cup {"not deleted"} /\ UNCHANGED cachedFlags
    /\ UNCHANGED flags

\* The key's 30 seconds are over.
CacheExpires ==
    /\ cachedFlags # Null /\ cachedFlags' = Null /\ excuse' = {}
    /\ UNCHANGED <<flags, redisErrors, reqVars>>

CachesDie(p) ==
    /\ Die(p)
    /\ excuse' = IF req[p].op = "flag" THEN excuse \cup {"not deleted"} ELSE excuse
    /\ UNCHANGED <<flags, cachedFlags, redisErrors>>

Cached(p) == CacheGet(p) \/ Load(p) \/ CacheSet(p)

CachesNext ==
    \/ \E p \in Procs : Cached(p) \/ SetFlag(p) \/ CacheDel(p) \/ CachesDie(p)
    \/ CacheExpires

-----------------------------------------------------------------------------
CachesTypeOK ==
    /\ flags \in 0..MaxFlagWrites /\ redisErrors \in 0..MaxRedisErrors
    /\ cachedFlags \in 0..MaxFlagWrites \cup {Null}
    /\ excuse \subseteq {"overtaken", "not deleted"}

\* Once a write of the flags has answered, launches get the new flags, unless
\* the deletion of the key was lost or a read that had loaded the table before
\* the write filled the key after the deletion; nothing else, and no order of
\* several writers, leaves an old value behind.  Such a value lasts until the
\* next deletion or fill, or the end of its 30 seconds (cached, setFlag).
FlagsAreFresh ==
    \/ cachedFlags \in {Null, flags}
    \/ \E p \in Procs : At(p, "flag", "del")
    \/ excuse # {}

=============================================================================

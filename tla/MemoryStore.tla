---------------------------- MODULE MemoryStore ----------------------------
(***************************************************************************)
(* idempotency.MemoryStore (idempotency/store_memory.go): keys with an     *)
(* expiry time behind a RWMutex, and a goroutine that evicts expired keys. *)
(*                                                                         *)
(* Exists reads under the read lock, looks at the clock without a lock,    *)
(* and takes the write lock to delete an expired key: three steps between  *)
(* which others run.  evict looks at the clock before it locks.            *)
(***************************************************************************)
EXTENDS Integers

CONSTANTS Callers,   \* goroutines that call the store
          Keys,
          TTLs,      \* the ttl arguments of Mark
          MaxTime,   \* bound on the clock
          Exclusive  \* TRUE: no Mark during an Exists.  A single Pipeline calls
                     \* the store so: Pipeline's OneBatchAtATime.

ASSUME StoreAssumption ==
    /\ MaxTime \in Nat /\ TTLs \subseteq Nat /\ Exclusive \in BOOLEAN

None == -1

VARIABLES now,      \* time.Now()
          keys,     \* s.keys: the expiry time of each key, None if absent
          stopped,  \* s.stopCh is closed
          closed,   \* s.keys is nil
          pc,       \* the callers: "idle", "check", "delete", "close"
          key,      \* key[g]: the argument of g's Exists
          entry,    \* entry[g]: the expiry time g's Exists has read
          answer,   \* answer[g]: what g's last Exists returned
          evictor,  \* evictLoop: "select", "sweep", "done"
          swept,    \* the clock as evict read it
          crashed,  \* a call has panicked
          expiry    \* expiry[k]: when the latest Mark of k runs out

vars == <<now, keys, stopped, closed, pc, key, entry, answer, evictor, swept, crashed, expiry>>
calls == <<pc, key, entry, answer>>
evict == <<evictor, swept>>

Init ==
    /\ now = 0
    /\ keys = [k \in Keys |-> None]
    /\ stopped = FALSE /\ closed = FALSE
    /\ pc = [g \in Callers |-> "idle"]
    /\ key \in [Callers -> Keys]
    /\ entry = [g \in Callers |-> None]
    /\ answer = [g \in Callers |-> FALSE]
    /\ evictor = "select" /\ swept = 0
    /\ crashed = FALSE
    /\ expiry = [k \in Keys |-> None]

Advance ==
    /\ now < MaxTime
    /\ now' = now + 1
    /\ UNCHANGED <<keys, stopped, closed, calls, evict, crashed, expiry>>

-----------------------------------------------------------------------------
(* Mutant: a key never expires.                                             *)
ExpiredNever(t) == FALSE

(* now.After(t)                                                             *)
Expired(t) == now > t

(* The read-locked lookup; an absent key is answered at once.               *)
ExistsRead(g, k) ==
    /\ pc[g] = "idle"
    /\ key' = [key EXCEPT ![g] = k]
    /\ entry' = [entry EXCEPT ![g] = keys[k]]
    /\ IF keys[k] = None
         THEN answer' = [answer EXCEPT ![g] = FALSE] /\ UNCHANGED pc
         ELSE pc' = [pc EXCEPT ![g] = "check"] /\ UNCHANGED answer
    /\ UNCHANGED <<now, keys, stopped, closed, evict, crashed, expiry>>

ExistsCheck(g) ==
    /\ pc[g] = "check"
    /\ IF Expired(entry[g])
         THEN pc' = [pc EXCEPT ![g] = "delete"] /\ UNCHANGED answer
         ELSE /\ answer' = [answer EXCEPT ![g] = TRUE]
              /\ pc' = [pc EXCEPT ![g] = "idle"]
    /\ UNCHANGED <<now, keys, stopped, closed, key, entry, evict, crashed, expiry>>

(* The key is deleted, whatever its entry has become since the lookup.      *)
ExistsDelete(g) ==
    /\ pc[g] = "delete"
    /\ keys' = [keys EXCEPT ![key[g]] = None]
    /\ answer' = [answer EXCEPT ![g] = FALSE]
    /\ pc' = [pc EXCEPT ![g] = "idle"]
    /\ UNCHANGED <<now, stopped, closed, key, entry, evict, crashed, expiry>>

(* Mutant: a key already present keeps its entry.                           *)
EntryOld(k, ttl) == IF keys[k] = None THEN now + ttl ELSE keys[k]

(* now.Add(ttl), whatever the map holds for k.                              *)
Entry(k, ttl) == now + ttl

(* Mark overwrites; after Close the map is nil and the write panics.        *)
Mark(g, k, ttl) ==
    /\ pc[g] = "idle"
    /\ Exclusive => \A h \in Callers : pc[h] \notin {"check", "delete"}
    /\ IF closed
         THEN crashed' = TRUE /\ UNCHANGED <<keys, expiry>>
         ELSE /\ keys' = [keys EXCEPT ![k] = Entry(k, ttl)]
              /\ expiry' = [expiry EXCEPT ![k] = now + ttl]
              /\ UNCHANGED crashed
    /\ UNCHANGED <<now, stopped, closed, calls, evict>>

(* Close closes stopCh, which panics the second time, then drops the map.   *)
CloseStop(g) ==
    /\ pc[g] = "idle"
    /\ IF stopped
         THEN crashed' = TRUE /\ UNCHANGED <<pc, stopped>>
         ELSE /\ stopped' = TRUE
              /\ pc' = [pc EXCEPT ![g] = "close"]
              /\ UNCHANGED crashed
    /\ UNCHANGED <<now, keys, closed, key, entry, answer, evict, expiry>>

CloseMap(g) ==
    /\ pc[g] = "close"
    /\ closed' = TRUE
    /\ keys' = [k \in Keys |-> None]
    /\ pc' = [pc EXCEPT ![g] = "idle"]
    /\ UNCHANGED <<now, stopped, key, entry, answer, evict, crashed, expiry>>

-----------------------------------------------------------------------------
(* A tick of evictLoop: the clock is read before the lock is taken.         *)
EvictTick ==
    /\ evictor = "select"
    /\ evictor' = "sweep"
    /\ swept' = now
    /\ UNCHANGED <<now, keys, stopped, closed, calls, crashed, expiry>>

(* Mutant: nothing is deleted.                                              *)
EvictableNever(k) == FALSE

(* now.After(entry), with the clock as evict has read it.                   *)
Evictable(k) == swept > keys[k]

EvictSweep ==
    /\ evictor = "sweep"
    /\ keys' = [k \in Keys |-> IF Evictable(k) THEN None ELSE keys[k]]
    /\ evictor' = "select"
    /\ UNCHANGED <<now, stopped, closed, calls, swept, crashed, expiry>>

EvictStop ==
    /\ evictor = "select" /\ stopped
    /\ evictor' = "done"
    /\ UNCHANGED <<now, keys, stopped, closed, calls, swept, crashed, expiry>>

-----------------------------------------------------------------------------
Evictor == EvictTick \/ EvictSweep \/ EvictStop

Next ==
    /\ ~crashed
    /\ \/ Advance \/ Evictor
       \/ \E g \in Callers :
            \/ \E k \in Keys : ExistsRead(g, k)
            \/ ExistsCheck(g) \/ ExistsDelete(g)
            \/ \E k \in Keys, ttl \in TTLs : Mark(g, k, ttl)
            \/ CloseStop(g) \/ CloseMap(g)

Spec == Init /\ [][Next]_vars

(* The ticker keeps firing and evictLoop is scheduled.                      *)
FairSpec == Spec /\ WF_vars(~crashed /\ Evictor)

-----------------------------------------------------------------------------
(* Expiry times are times, and a sweep never works with a time to come.     *)
TypeOK ==
    /\ now \in 0..MaxTime
    /\ keys \in [Keys -> Nat \cup {None}] /\ expiry \in [Keys -> Nat \cup {None}]
    /\ stopped \in BOOLEAN /\ closed \in BOOLEAN /\ crashed \in BOOLEAN
    /\ pc \in [Callers -> {"idle", "check", "delete", "close"}]
    /\ key \in [Callers -> Keys]
    /\ entry \in [Callers -> Nat \cup {None}] /\ answer \in [Callers -> BOOLEAN]
    /\ evictor \in {"select", "sweep", "done"} /\ swept \in 0..now

(* What the latest Mark promised: the key is remembered until its ttl has   *)
(* run out, whatever expired entries evict and Exists clear away meanwhile. *)
RememberedUntilExpiry ==
    \A k \in Keys : ~closed /\ expiry[k] >= now => keys[k] = expiry[k]

(* Exists, in its three steps, answers for the moment it returns: TRUE      *)
(* exactly when the latest Mark of the key has not run out.                 *)
AnswersAreCurrent ==
    [][\A g \in Callers :
         (pc'[g] = "idle" /\ (pc[g] \in {"check", "delete"} \/ answer'[g] # answer[g]))
            => closed \/ (answer'[g] <=> expiry[key'[g]] >= now)]_vars

(* An expired key does not stay in memory for ever, looked up or not.       *)
ExpiredIsEvicted ==
    \A k \in Keys :
        (keys[k] # None /\ keys[k] < now)
            ~> (keys[k] = None \/ keys[k] >= now \/ stopped \/ crashed)
=============================================================================

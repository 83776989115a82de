------------------------- MODULE MemoryStore_proofs -------------------------
(***************************************************************************)
(* For any number of callers, keys and ttls: as long as no Mark runs       *)
(* during an Exists, which is how one Pipeline calls its store, a marked   *)
(* key is remembered until it expires and Exists answers correctly, in     *)
(* spite of the lock it gives up between looking a key up and deleting it. *)
(***************************************************************************)
EXTENDS MemoryStore, TLAPS

(* An entry in the map is the one the latest Mark wrote.                    *)
StoredIsLatest == \A k \in Keys : keys[k] # None => keys[k] = expiry[k]

(* What an Exists has read is still the latest Mark, and what it is about   *)
(* to delete has expired.                                                   *)
LookupsStayValid ==
    \A g \in Callers :
        /\ pc[g] = "check" => entry[g] = expiry[key[g]]
        /\ pc[g] = "delete" => expiry[key[g]] < now

IInv ==
    /\ Exclusive
    /\ TypeOK
    /\ RememberedUntilExpiry
    /\ StoredIsLatest
    /\ LookupsStayValid

(* The type invariant, of every step of the store and its evictor.          *)
LEMMA TypeStep ==
    ASSUME TypeOK, Next
    PROVE  TypeOK'
<1> USE StoreAssumption DEF TypeOK, None
<1>1. CASE Advance
    BY <1>1 DEF Advance, calls, evict
<1>2. ASSUME NEW g \in Callers, NEW k \in Keys, ExistsRead(g, k) PROVE TypeOK'
    BY <1>2 DEF ExistsRead, evict
<1>3. ASSUME NEW g \in Callers, ExistsCheck(g) PROVE TypeOK'
    BY <1>3 DEF ExistsCheck, evict
<1>4. ASSUME NEW g \in Callers, ExistsDelete(g) PROVE TypeOK'
    BY <1>4 DEF ExistsDelete, evict
<1>5. ASSUME NEW g \in Callers, NEW k \in Keys, NEW ttl \in TTLs, Mark(g, k, ttl)
      PROVE  TypeOK'
  <2>1. now + ttl \in Nat
      OBVIOUS
  <2> QED BY <1>5, <2>1 DEF Mark, Entry, calls, evict
<1>6. ASSUME NEW g \in Callers, CloseStop(g) PROVE TypeOK'
    BY <1>6 DEF CloseStop, evict
<1>7. ASSUME NEW g \in Callers, CloseMap(g) PROVE TypeOK'
    BY <1>7 DEF CloseMap, evict
<1>8. CASE EvictTick
    BY <1>8 DEF EvictTick, calls
<1>9. CASE EvictSweep
    BY <1>9 DEF EvictSweep, Evictable, calls
<1>10. CASE EvictStop
    BY <1>10 DEF EvictStop, calls
<1> QED BY <1>1, <1>2, <1>3, <1>4, <1>5, <1>6, <1>7, <1>8, <1>9, <1>10 DEF Next, Evictor

(* One step keeps what the map, the clock and the lookups under way say of  *)
(* each other, provided Mark stays out of Exists.                           *)
LEMMA StoreStep ==
    ASSUME IInv, Next
    PROVE  RememberedUntilExpiry' /\ StoredIsLatest' /\ LookupsStayValid'
<1> USE StoreAssumption DEF IInv, TypeOK, RememberedUntilExpiry, StoredIsLatest,
                            LookupsStayValid, None
<1>1. CASE Advance
    BY <1>1 DEF Advance, calls, evict
<1>2. ASSUME NEW g \in Callers, NEW k \in Keys, ExistsRead(g, k)
      PROVE  RememberedUntilExpiry' /\ StoredIsLatest' /\ LookupsStayValid'
    BY <1>2 DEF ExistsRead, evict
<1>3. ASSUME NEW g \in Callers, ExistsCheck(g)
      PROVE  RememberedUntilExpiry' /\ StoredIsLatest' /\ LookupsStayValid'
    BY <1>3 DEF ExistsCheck, Expired, evict
<1>4. ASSUME NEW g \in Callers, ExistsDelete(g)
      PROVE  RememberedUntilExpiry' /\ StoredIsLatest' /\ LookupsStayValid'
    BY <1>4 DEF ExistsDelete, evict
<1>5. ASSUME NEW g \in Callers, NEW k \in Keys, NEW ttl \in TTLs, Mark(g, k, ttl)
      PROVE  RememberedUntilExpiry' /\ StoredIsLatest' /\ LookupsStayValid'
    BY <1>5 DEF Mark, Entry, calls, evict
<1>6. ASSUME NEW g \in Callers, CloseStop(g)
      PROVE  RememberedUntilExpiry' /\ StoredIsLatest' /\ LookupsStayValid'
    BY <1>6 DEF CloseStop, evict
<1>7. ASSUME NEW g \in Callers, CloseMap(g)
      PROVE  RememberedUntilExpiry' /\ StoredIsLatest' /\ LookupsStayValid'
    BY <1>7 DEF CloseMap, evict
<1>8. CASE EvictTick
    BY <1>8 DEF EvictTick, calls
<1>9. CASE EvictSweep
    BY <1>9 DEF EvictSweep, Evictable, calls
<1>10. CASE EvictStop
    BY <1>10 DEF EvictStop, calls
<1> QED BY <1>1, <1>2, <1>3, <1>4, <1>5, <1>6, <1>7, <1>8, <1>9, <1>10 DEF Next, Evictor

(* The strengthened invariant holds of every reachable state.               *)
LEMMA Invariance == Exclusive /\ Spec => []IInv
<1>1. Exclusive /\ Init => IInv
  <2>1. Init => TypeOK
    <3> SUFFICES ASSUME Init PROVE TypeOK
        OBVIOUS
    <3>1. /\ now \in 0..MaxTime /\ swept \in 0..now
          /\ keys \in [Keys -> Nat \cup {None}] /\ expiry \in [Keys -> Nat \cup {None}]
          /\ entry \in [Callers -> Nat \cup {None}]
        BY StoreAssumption DEF Init
    <3>2. answer \in [Callers -> BOOLEAN]
        BY Zenon DEF Init
    <3> QED BY <3>1, <3>2 DEF Init, TypeOK
  <2>2. Init => RememberedUntilExpiry /\ StoredIsLatest /\ LookupsStayValid
      BY DEF Init, RememberedUntilExpiry, StoredIsLatest, LookupsStayValid, None
  <2> QED BY <2>1, <2>2 DEF IInv
<1>2. IInv /\ [Next]_vars => IInv'
  <2>1. IInv /\ Next => IInv'
      BY TypeStep, StoreStep DEF IInv
  <2>2. IInv /\ UNCHANGED vars => IInv'
      BY DEF IInv, TypeOK, RememberedUntilExpiry, StoredIsLatest, LookupsStayValid, vars
  <2> QED BY <2>1, <2>2
<1> QED BY <1>1, <1>2, PTL DEF Spec

(* As long as no Mark runs during an Exists, neither evict nor Exists ever  *)
(* clears away a key whose latest Mark has not run out.                     *)
THEOREM RememberedWhenExclusive == Exclusive /\ Spec => []RememberedUntilExpiry
<1>1. IInv => RememberedUntilExpiry
    BY DEF IInv
<1> QED BY <1>1, Invariance, PTL

(* ... and the answer of Exists is right at the moment it returns, though   *)
(* it was looked up two steps earlier.                                      *)
THEOREM AnswersWhenExclusive == Exclusive /\ Spec => AnswersAreCurrent
<1> DEFINE Returns(g) ==
        (pc'[g] = "idle" /\ (pc[g] \in {"check", "delete"} \/ answer'[g] # answer[g]))
            => closed \/ (answer'[g] <=> expiry[key'[g]] >= now)
<1>1. ASSUME IInv, [Next]_vars, NEW g \in Callers PROVE Returns(g)
  <2> USE <1>1, StoreAssumption DEF IInv, TypeOK, RememberedUntilExpiry, LookupsStayValid, None
  <2>1. ASSUME NEW h \in Callers, NEW k \in Keys, ExistsRead(h, k) PROVE Returns(g)
      BY <2>1 DEF ExistsRead
  <2>2. ASSUME NEW h \in Callers, ExistsCheck(h) PROVE Returns(g)
      BY <2>2 DEF ExistsCheck, Expired
  <2>3. ASSUME NEW h \in Callers, ExistsDelete(h) PROVE Returns(g)
    <3>1. CASE h = g
      <4>1. answer'[g] = FALSE /\ key'[g] = key[g]
          BY <2>3, <3>1, Zenon DEF ExistsDelete
      <4>2. ~(expiry[key[g]] >= now)
          BY <2>3, <3>1 DEF ExistsDelete
      <4> QED BY <4>1, <4>2
    <3>2. CASE h # g
        BY <2>3, <3>2 DEF ExistsDelete
    <3> QED BY <3>1, <3>2
  <2>4. ASSUME NEW h \in Callers, NEW k \in Keys, NEW ttl \in TTLs, Mark(h, k, ttl)
        PROVE  Returns(g)
      BY <2>4 DEF Mark, Entry, calls
  <2>5. ASSUME NEW h \in Callers, CloseStop(h) \/ CloseMap(h) PROVE Returns(g)
      BY <2>5 DEF CloseStop, CloseMap
  <2>6. CASE Advance \/ Evictor
      BY <2>6 DEF Advance, Evictor, EvictTick, EvictSweep, Evictable, EvictStop, calls
  <2>7. CASE UNCHANGED vars
      BY <2>7 DEF vars
  <2> QED BY <2>1, <2>2, <2>3, <2>4, <2>5, <2>6, <2>7 DEF Next
<1>2. IInv /\ [Next]_vars => [\A g \in Callers : Returns(g)]_vars
    BY <1>1
<1> QED BY <1>2, Invariance, PTL DEF Spec, AnswersAreCurrent
=============================================================================

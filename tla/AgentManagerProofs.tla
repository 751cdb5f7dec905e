------------------------- MODULE AgentManagerProofs -------------------------
(***************************************************************************)
(* Proofs about the cache of agents, for any sessions, calls and capacity: *)
(* one builder per session, one reply per session, and a lock table that   *)
(* follows the cache.                                                      *)
(***************************************************************************)
EXTENDS AgentManager, TLAPS

-----------------------------------------------------------------------------
(* The inductive invariant. *)

(* A caller holds a clone of a lock from the table lookup to its return.    *)
Holding == \A c \in Callers : clone[c] # None <=> at[c] \in Locked \cup {"lock"}

(* As long as a caller has a clone the session's entry is that lock: this   *)
(* is what the reference count in prune_creation_lock is for.               *)
SameLock == \A c \in Callers : clone[c] # None => lockOf[SessionOf[c]] = clone[c]

(* Past Lock the caller has the guard of its lock.                          *)
Guarded == \A c \in Callers : at[c] \in Locked => guard[clone[c]] = c

(* Every entry has its session in the cache, or somebody who will add the   *)
(* session or prune the entry, unless a prune or a dropped call left it.    *)
Building == {"lock", "recheck", "build", "prune"}
Tended(s) ==
  \/ agent[s] # None \/ s \in left
  \/ \E c \in Callers : at[c] \in Building /\ SessionOf[c] = s
  \/ \E c \in Callers : at[c] = "evict" /\ victim[c] = s
  \/ \E x \in Removers : at[x] = "prune" /\ SessionOf[x] = s
LocksTended == \A s \in Sessions : lockOf[s] # None => Tended(s)

(* A call that prunes for an eviction has pushed a session out.             *)
Pushed == \A c \in Callers : at[c] = "evict" => victim[c] # None

(* A reply runs under its own token, unless a removal has taken it.         *)
TokenOfReply ==
  \A m \in Messages : at[m] \in {"run", "end"} => token[SessionOf[m]] = m \/ SessionOf[m] \in torn

IInv == TypeOK /\ Holding /\ SameLock /\ Guarded /\ Pushed /\ LocksTended /\ TokenOfReply
        /\ OneBuilder

-----------------------------------------------------------------------------

LEMMA AppendTyped ==
  ASSUME NEW S, NEW q \in Seq(S), NEW x \in S
  PROVE  Append(q, x) \in Seq(S)
OBVIOUS

(* Taking a session out of the queue leaves a queue of sessions.            *)
LEMMA WithoutTyped ==
  ASSUME TypeOK, NEW s \in Sessions
  PROVE  Without(s) \in Seq(Sessions)
<1>1. CASE s \in ToSet(lru)
  <2> DEFINE i == CHOOSE j \in DOMAIN lru : lru[j] = s
  <2>1. i \in DOMAIN lru
    BY <1>1 DEF ToSet
  <2>2. i \in 1..Len(lru)
    BY <2>1 DEF TypeOK
  <2>3. Without(s) = RemoveAt(lru, i)
    BY <1>1 DEF Without
  <2> HIDE DEF i
  <2>4. SubSeq(lru, 1, i - 1) \in Seq(Sessions)
    BY <2>2 DEF TypeOK
  <2>5. SubSeq(lru, i + 1, Len(lru)) \in Seq(Sessions)
    BY <2>2 DEF TypeOK
  <2> QED
    BY <2>3, <2>4, <2>5 DEF RemoveAt
<1>2. CASE s \notin ToSet(lru)
  BY <1>2 DEF Without, TypeOK
<1> QED
  BY <1>1, <1>2

LEMMA InitInv == Init => IInv
<1> SUFFICES ASSUME Init PROVE IInv
  OBVIOUS
<1>1. TypeOK
  BY CallsAssumption DEF Init, TypeOK, Stages, Calls
<1>2. Holding /\ SameLock /\ Guarded
  BY CallsAssumption DEF Init, Holding, SameLock, Guarded, Locked, Calls
<1>3. Pushed /\ LocksTended /\ TokenOfReply /\ OneBuilder
  BY CallsAssumption DEF Init, Pushed, LocksTended, TokenOfReply, OneBuilder, Calls
<1> QED
  BY <1>1, <1>2, <1>3 DEF IInv

(* Every step of a call keeps the invariant. *)

LEMMA FindInv ==
  ASSUME IInv, NEW c \in Callers, Find(c)
  PROVE  IInv'
<1> USE CallsAssumption
<1>1. TypeOK'
  <2>1. Without(SessionOf[c]) \in Seq(Sessions) /\ SessionOf[c] \in Sessions
    BY WithoutTyped DEF IInv, Calls
  <2>2. lru' \in {lru, Without(SessionOf[c]), Append(Without(SessionOf[c]), SessionOf[c])}
    BY DEF Find, Hit, Miss, Touch, Go, cache, locks, tokens
  <2>3. Append(Without(SessionOf[c]), SessionOf[c]) \in Seq(Sessions)
    BY <2>1, AppendTyped
  <2>4. lru' \in Seq(Sessions)
    BY <2>1, <2>2, <2>3 DEF IInv, TypeOK
  <2>5. got' \in [Callers -> Callers \cup {None}] /\ agent' \in [Sessions -> Callers \cup {None}]
    BY <2>1 DEF IInv, TypeOK, Find, Hit, Miss, Touch, Go, cache, locks, tokens
  <2>6. at' \in [Calls -> Stages]
    BY DEF IInv, TypeOK, Stages, Locked, Find, Hit, Miss, Touch, Go, cache, locks, tokens
  <2>7. <<locks, victim, tokens>>' = <<locks, victim, tokens>>
    BY DEF Find, Hit, Miss, Touch, Go, cache, locks, tokens
  <2> QED
    BY <2>4, <2>5, <2>6, <2>7 DEF IInv, TypeOK, locks, tokens
<1>2. Holding'
  BY DEF IInv, Holding, TypeOK, Calls, Locked, Find, Hit, Miss, Touch, Go, cache, locks, tokens
<1>3. SameLock'
  BY DEF IInv, Holding, SameLock, TypeOK, Calls, Locked, Find, Hit, Miss, Touch, Go, cache, locks, tokens
<1>4. Guarded'
  BY DEF IInv, Holding, Guarded, TypeOK, Calls, Locked, Find, Hit, Miss, Touch, Go, cache, locks, tokens
<1>5. LocksTended'
  BY DEF IInv, LocksTended, Tended, Building, TypeOK, Calls, Find, Hit, Miss, Touch, Go, cache, locks, tokens
<1>6. TokenOfReply'
  BY DEF IInv, TokenOfReply, TypeOK, Calls, Find, Hit, Miss, Touch, Go, cache, locks, tokens
<1>7. OneBuilder'
  BY DEF IInv, OneBuilder, SameLock, Guarded, Holding, TypeOK, Calls, Locked, Find, Hit, Miss, Touch, Go, cache, locks, tokens
<1>8. Pushed'
  BY DEF IInv, Pushed, TypeOK, Calls, Find, Hit, Miss, Touch, Go, cache, locks, tokens
<1> QED
  BY <1>1, <1>2, <1>3, <1>4, <1>5, <1>6, <1>7, <1>8 DEF IInv

LEMMA TakeEntryInv ==
  ASSUME IInv, NEW c \in Callers, TakeEntry(c)
  PROVE  IInv'
<1> USE CallsAssumption
<1>1. TypeOK'
  BY DEF IInv, TypeOK, Calls, Stages, Locked, TakeEntry, Go, cache, locks, tokens
<1>2. Holding'
  BY DEF IInv, Holding, TypeOK, Calls, Locked, TakeEntry, Go, cache, locks, tokens
<1>3. SameLock'
  BY DEF IInv, Holding, SameLock, TypeOK, Calls, Locked, TakeEntry, Go, cache, locks, tokens
<1>4. Guarded'
  BY DEF IInv, Holding, Guarded, TypeOK, Calls, Locked, TakeEntry, Go, cache, locks, tokens
<1>5. LocksTended'
  BY DEF IInv, LocksTended, Tended, Building, TypeOK, Calls, TakeEntry, Go, cache, locks, tokens
<1>6. TokenOfReply'
  BY DEF IInv, TokenOfReply, TypeOK, Calls, TakeEntry, Go, cache, locks, tokens
<1>7. OneBuilder'
  BY DEF IInv, OneBuilder, SameLock, Guarded, Holding, TypeOK, Calls, Locked, TakeEntry, Go, cache, locks, tokens
<1>8. Pushed'
  BY DEF IInv, Pushed, TypeOK, Calls, TakeEntry, Go, cache, locks, tokens
<1> QED
  BY <1>1, <1>2, <1>3, <1>4, <1>5, <1>6, <1>7, <1>8 DEF IInv

LEMMA LockInv ==
  ASSUME IInv, NEW c \in Callers, Lock(c)
  PROVE  IInv'
<1> USE CallsAssumption
<1>1. TypeOK'
  BY DEF IInv, TypeOK, Calls, Stages, Locked, Lock, Go, cache, locks, tokens
<1>2. Holding'
  BY DEF IInv, Holding, TypeOK, Calls, Locked, Lock, Go, cache, locks, tokens
<1>3. SameLock'
  BY DEF IInv, Holding, SameLock, TypeOK, Calls, Locked, Lock, Go, cache, locks, tokens
<1>4. Guarded'
  BY DEF IInv, Holding, Guarded, TypeOK, Calls, Locked, Lock, Go, cache, locks, tokens
<1>5. LocksTended'
  BY DEF IInv, LocksTended, Tended, Building, TypeOK, Calls, Lock, Go, cache, locks, tokens
<1>6. TokenOfReply'
  BY DEF IInv, TokenOfReply, TypeOK, Calls, Lock, Go, cache, locks, tokens
<1>7. OneBuilder'
  BY DEF IInv, OneBuilder, SameLock, Guarded, Holding, TypeOK, Calls, Locked, Lock, Go, cache, locks, tokens
<1>8. Pushed'
  BY DEF IInv, Pushed, TypeOK, Calls, Lock, Go, cache, locks, tokens
<1> QED
  BY <1>1, <1>2, <1>3, <1>4, <1>5, <1>6, <1>7, <1>8 DEF IInv

LEMMA RecheckInv ==
  ASSUME IInv, NEW c \in Callers, Recheck(c)
  PROVE  IInv'
<1> USE CallsAssumption
<1>1. TypeOK'
  <2>1. Without(SessionOf[c]) \in Seq(Sessions) /\ SessionOf[c] \in Sessions
    BY WithoutTyped DEF IInv, Calls
  <2>2. lru' \in {lru, Without(SessionOf[c]), Append(Without(SessionOf[c]), SessionOf[c])}
    BY DEF Recheck, Hit, Miss, Touch, Go, cache, locks, tokens
  <2>3. Append(Without(SessionOf[c]), SessionOf[c]) \in Seq(Sessions)
    BY <2>1, AppendTyped
  <2>4. lru' \in Seq(Sessions)
    BY <2>1, <2>2, <2>3 DEF IInv, TypeOK
  <2>5. got' \in [Callers -> Callers \cup {None}] /\ agent' \in [Sessions -> Callers \cup {None}]
    BY <2>1 DEF IInv, TypeOK, Recheck, Hit, Miss, Touch, Go, cache, locks, tokens
  <2>6. at' \in [Calls -> Stages]
    BY DEF IInv, TypeOK, Stages, Locked, Recheck, Hit, Miss, Touch, Go, cache, locks, tokens
  <2>7. <<locks, victim, tokens>>' = <<locks, victim, tokens>>
    BY DEF Recheck, Hit, Miss, Touch, Go, cache, locks, tokens
  <2> QED
    BY <2>4, <2>5, <2>6, <2>7 DEF IInv, TypeOK, locks, tokens
<1>2. Holding'
  BY DEF IInv, Holding, TypeOK, Calls, Locked, Recheck, Hit, Miss, Touch, Go, cache, locks, tokens
<1>3. SameLock'
  BY DEF IInv, Holding, SameLock, TypeOK, Calls, Locked, Recheck, Hit, Miss, Touch, Go, cache, locks, tokens
<1>4. Guarded'
  BY DEF IInv, Holding, Guarded, TypeOK, Calls, Locked, Recheck, Hit, Miss, Touch, Go, cache, locks, tokens
<1>5. LocksTended'
  BY DEF IInv, LocksTended, Tended, Building, TypeOK, Calls, Recheck, Hit, Miss, Touch, Go, cache, locks, tokens
<1>6. TokenOfReply'
  BY DEF IInv, TokenOfReply, TypeOK, Calls, Recheck, Hit, Miss, Touch, Go, cache, locks, tokens
<1>7. OneBuilder'
  BY DEF IInv, OneBuilder, SameLock, Guarded, Holding, TypeOK, Calls, Locked, Recheck, Hit, Miss, Touch, Go, cache, locks, tokens
<1>8. Pushed'
  BY DEF IInv, Pushed, TypeOK, Calls, Recheck, Hit, Miss, Touch, Go, cache, locks, tokens
<1> QED
  BY <1>1, <1>2, <1>3, <1>4, <1>5, <1>6, <1>7, <1>8 DEF IInv

LEMMA BuildFailsInv ==
  ASSUME IInv, NEW c \in Callers, BuildFails(c)
  PROVE  IInv'
<1> USE CallsAssumption
<1>1. TypeOK'
  BY DEF IInv, TypeOK, Calls, Stages, Locked, BuildFails, Release, Go, cache, locks, tokens
<1>2. Holding'
  BY DEF IInv, Holding, TypeOK, Calls, Locked, BuildFails, Release, Go, cache, locks, tokens
<1>3. SameLock'
  BY DEF IInv, Holding, SameLock, TypeOK, Calls, Locked, BuildFails, Release, Go, cache, locks, tokens
<1>4. Guarded'
  BY DEF IInv, Holding, Guarded, TypeOK, Calls, Locked, BuildFails, Release, Go, cache, locks, tokens
<1>5. LocksTended'
  BY DEF IInv, LocksTended, Tended, Building, TypeOK, Calls, BuildFails, Release, Go, cache, locks, tokens
<1>6. TokenOfReply'
  BY DEF IInv, TokenOfReply, TypeOK, Calls, BuildFails, Release, Go, cache, locks, tokens
<1>7. OneBuilder'
  BY DEF IInv, OneBuilder, SameLock, Guarded, Holding, TypeOK, Calls, Locked, BuildFails, Release, Go, cache, locks, tokens
<1>8. Pushed'
  BY DEF IInv, Pushed, TypeOK, Calls, BuildFails, Release, Go, cache, locks, tokens
<1> QED
  BY <1>1, <1>2, <1>3, <1>4, <1>5, <1>6, <1>7, <1>8 DEF IInv

LEMMA InsertInv ==
  ASSUME IInv, NEW c \in Callers, Insert(c)
  PROVE  IInv'
<1> USE CallsAssumption
<1>1. TypeOK'
  <2>1. Without(SessionOf[c]) \in Seq(Sessions) /\ SessionOf[c] \in Sessions
    BY WithoutTyped DEF IInv, Calls
  <2>2. Len(lru) = Capacity => lru # <<>> /\ Head(lru) \in Sessions /\ Tail(lru) \in Seq(Sessions)
    BY CapacityAssumption DEF IInv, TypeOK
  <2>3. lru' \in Seq(Sessions)
    BY <2>1, <2>2 DEF IInv, TypeOK, Insert, Go, cache, locks, tokens
  <2>4. victim' \in [Callers -> Sessions \cup {None}]
    BY <2>2 DEF IInv, TypeOK, Insert, Go, cache, locks, tokens
  <2>5. agent' \in [Sessions -> Callers \cup {None}]
    BY <2>1 DEF IInv, TypeOK, Insert, Go, cache, locks, tokens
  <2> QED
    BY <2>1, <2>3, <2>4, <2>5 DEF IInv, TypeOK, Calls, Stages, Locked, Insert, Go, cache, locks, tokens
<1>2. Holding'
  BY DEF IInv, Holding, TypeOK, Calls, Locked, Insert, Go, cache, locks, tokens
<1>3. SameLock'
  BY DEF IInv, Holding, SameLock, TypeOK, Calls, Locked, Insert, Go, cache, locks, tokens
<1>4. Guarded'
  BY DEF IInv, Holding, Guarded, TypeOK, Calls, Locked, Insert, Go, cache, locks, tokens
<1>5. LocksTended'
  <2> SUFFICES ASSUME NEW s \in Sessions, lockOf'[s] # None
               PROVE  Tended(s)'
    BY DEF LocksTended
  <2>1. Tended(s)
    BY DEF IInv, LocksTended, Insert, Go, cache, locks, tokens
  <2>2. CASE s = SessionOf[c]
    BY <2>2 DEF IInv, Tended, TypeOK, Insert, Go, cache, locks, tokens
  <2>3. CASE s # SessionOf[c] /\ agent[s] # None /\ agent'[s] = None
    <3>1. at'[c] = "evict" /\ victim'[c] = s
      BY <2>3 DEF IInv, TypeOK, Calls, Insert, Go, cache, locks, tokens
    <3> QED
      BY <3>1 DEF Tended
  <2>4. CASE s # SessionOf[c] /\ (agent[s] # None => agent'[s] # None)
    <3>1. \A x \in Calls : x # c => at'[x] = at[x]
      BY DEF IInv, TypeOK, Calls, Insert, Go, cache, locks, tokens
    <3>2. \A d \in Callers : d # c => victim'[d] = victim[d]
      BY DEF IInv, TypeOK, Insert, Go, cache, locks, tokens
    <3>3. at[c] # "evict" /\ c \notin Removers /\ left' = left
      BY DEF Insert, Go, cache, locks, tokens
    <3> QED
      BY <2>1, <2>4, <3>1, <3>2, <3>3 DEF Tended, Calls
  <2> QED
    BY <2>2, <2>3, <2>4
<1>6. TokenOfReply'
  BY DEF IInv, TokenOfReply, TypeOK, Calls, Insert, Go, cache, locks, tokens
<1>7. OneBuilder'
  BY DEF IInv, OneBuilder, SameLock, Guarded, Holding, TypeOK, Calls, Locked, Insert, Go, cache, locks, tokens
<1>8. Pushed'
  <2>1. Len(lru) = Capacity => Head(lru) \in Sessions
    BY CapacityAssumption DEF IInv, TypeOK
  <2>2. at'[c] = "evict" => victim'[c] \in Sessions
    <3>1. CASE Len(lru) = Capacity /\ agent[SessionOf[c]] = None
      <4>1. {Head(lru)} # {}
        OBVIOUS
      <4>2. victim'[c] = Head(lru)
        BY <3>1, <4>1 DEF IInv, TypeOK, Insert, Go, cache, locks, tokens
      <4> QED
        BY <2>1, <3>1, <4>2
    <3>2. CASE ~(Len(lru) = Capacity /\ agent[SessionOf[c]] = None)
      BY <3>2 DEF IInv, TypeOK, Calls, Insert, Go, cache, locks, tokens
    <3> QED
      BY <3>1, <3>2
  <2>3. \A e \in Callers : e # c => at'[e] = at[e] /\ victim'[e] = victim[e]
    BY DEF IInv, TypeOK, Insert, Go, cache, locks, tokens
  <2> QED
    BY <2>2, <2>3 DEF IInv, Pushed
<1> QED
  BY <1>1, <1>2, <1>3, <1>4, <1>5, <1>6, <1>7, <1>8 DEF IInv

LEMMA PruneEvictedInv ==
  ASSUME IInv, NEW c \in Callers, PruneEvicted(c)
  PROVE  IInv'
<1> USE CallsAssumption
<1>1. TypeOK'
  BY DEF IInv, Pushed, TypeOK, Calls, Stages, Locked, PruneEvicted, Prune, InUse, Go, cache, locks, tokens
<1>2. Holding'
  BY DEF IInv, Holding, TypeOK, Calls, Locked, PruneEvicted, Prune, InUse, Go, cache, locks, tokens
<1>3. SameLock'
  BY DEF IInv, Holding, SameLock, TypeOK, Calls, Locked, PruneEvicted, Prune, InUse, Go, cache, locks, tokens
<1>4. Guarded'
  BY DEF IInv, Holding, Guarded, TypeOK, Calls, Locked, PruneEvicted, Prune, InUse, Go, cache, locks, tokens
<1>5. LocksTended'
  BY DEF IInv, LocksTended, Tended, Building, TypeOK, Calls, PruneEvicted, Prune, InUse, Go, cache, locks, tokens
<1>6. TokenOfReply'
  BY DEF IInv, TokenOfReply, TypeOK, Calls, PruneEvicted, Prune, InUse, Go, cache, locks, tokens
<1>7. OneBuilder'
  BY DEF IInv, OneBuilder, SameLock, Guarded, Holding, TypeOK, Calls, Locked, PruneEvicted, Prune, InUse, Go, cache, locks, tokens
<1>8. Pushed'
  BY DEF IInv, Pushed, TypeOK, Calls, PruneEvicted, Prune, InUse, Go, cache, locks, tokens
<1> QED
  BY <1>1, <1>2, <1>3, <1>4, <1>5, <1>6, <1>7, <1>8 DEF IInv

LEMMA LeaveInv ==
  ASSUME IInv, NEW c \in Callers, Leave(c)
  PROVE  IInv'
<1> USE CallsAssumption
<1>1. TypeOK'
  BY DEF IInv, TypeOK, Calls, Stages, Locked, Leave, Release, Go, cache, locks, tokens
<1>2. Holding'
  BY DEF IInv, Holding, TypeOK, Calls, Locked, Leave, Release, Go, cache, locks, tokens
<1>3. SameLock'
  BY DEF IInv, Holding, SameLock, TypeOK, Calls, Locked, Leave, Release, Go, cache, locks, tokens
<1>4. Guarded'
  BY DEF IInv, Holding, Guarded, TypeOK, Calls, Locked, Leave, Release, Go, cache, locks, tokens
<1>5. LocksTended'
  BY DEF IInv, LocksTended, Tended, Building, TypeOK, Calls, Leave, Release, Go, cache, locks, tokens
<1>6. TokenOfReply'
  BY DEF IInv, TokenOfReply, TypeOK, Calls, Leave, Release, Go, cache, locks, tokens
<1>7. OneBuilder'
  BY DEF IInv, OneBuilder, SameLock, Guarded, Holding, TypeOK, Calls, Locked, Leave, Release, Go, cache, locks, tokens
<1>8. Pushed'
  BY DEF IInv, Pushed, TypeOK, Calls, Leave, Release, Go, cache, locks, tokens
<1> QED
  BY <1>1, <1>2, <1>3, <1>4, <1>5, <1>6, <1>7, <1>8 DEF IInv

LEMMA PruneFailedInv ==
  ASSUME IInv, NEW c \in Callers, PruneFailed(c)
  PROVE  IInv'
<1> USE CallsAssumption
<1>1. TypeOK'
  BY DEF IInv, TypeOK, Calls, Stages, Locked, PruneFailed, Prune, InUse, Go, cache, locks, tokens
<1>2. Holding'
  BY DEF IInv, Holding, TypeOK, Calls, Locked, PruneFailed, Prune, InUse, Go, cache, locks, tokens
<1>3. SameLock'
  BY DEF IInv, Holding, SameLock, TypeOK, Calls, Locked, PruneFailed, Prune, InUse, Go, cache, locks, tokens
<1>4. Guarded'
  BY DEF IInv, Holding, Guarded, TypeOK, Calls, Locked, PruneFailed, Prune, InUse, Go, cache, locks, tokens
<1>5. LocksTended'
  BY DEF IInv, LocksTended, Tended, Building, TypeOK, Calls, PruneFailed, Prune, InUse, Go, cache, locks, tokens
<1>6. TokenOfReply'
  BY DEF IInv, TokenOfReply, TypeOK, Calls, PruneFailed, Prune, InUse, Go, cache, locks, tokens
<1>7. OneBuilder'
  BY DEF IInv, OneBuilder, SameLock, Guarded, Holding, TypeOK, Calls, Locked, PruneFailed, Prune, InUse, Go, cache, locks, tokens
<1>8. Pushed'
  BY DEF IInv, Pushed, TypeOK, Calls, PruneFailed, Prune, InUse, Go, cache, locks, tokens
<1> QED
  BY <1>1, <1>2, <1>3, <1>4, <1>5, <1>6, <1>7, <1>8 DEF IInv

LEMMA TryRegisterInv ==
  ASSUME IInv, NEW m \in Messages, TryRegister(m)
  PROVE  IInv'
<1> USE CallsAssumption
<1>1. TypeOK'
  BY DEF IInv, TypeOK, Calls, Stages, Locked, TryRegister, Go, cache, locks, tokens
<1>2. Holding'
  BY DEF IInv, Holding, TypeOK, Calls, Locked, TryRegister, Go, cache, locks, tokens
<1>3. SameLock'
  BY DEF IInv, Holding, SameLock, TypeOK, Calls, Locked, TryRegister, Go, cache, locks, tokens
<1>4. Guarded'
  BY DEF IInv, Holding, Guarded, TypeOK, Calls, Locked, TryRegister, Go, cache, locks, tokens
<1>5. LocksTended'
  BY DEF IInv, LocksTended, Tended, Building, TypeOK, Calls, TryRegister, Go, cache, locks, tokens
<1>6. TokenOfReply'
  BY DEF IInv, TokenOfReply, TypeOK, Calls, TryRegister, Go, cache, locks, tokens
<1>7. OneBuilder'
  BY DEF IInv, OneBuilder, SameLock, Guarded, Holding, TypeOK, Calls, Locked, TryRegister, Go, cache, locks, tokens
<1>8. Pushed'
  BY DEF IInv, Pushed, TypeOK, Calls, TryRegister, Go, cache, locks, tokens
<1> QED
  BY <1>1, <1>2, <1>3, <1>4, <1>5, <1>6, <1>7, <1>8 DEF IInv

LEMMA ProviderFailsInv ==
  ASSUME IInv, NEW m \in Messages, ProviderFails(m)
  PROVE  IInv'
<1> USE CallsAssumption
<1>1. TypeOK'
  BY DEF IInv, TypeOK, Calls, Stages, Locked, ProviderFails, Go, cache, locks, tokens
<1>2. Holding'
  BY DEF IInv, Holding, TypeOK, Calls, Locked, ProviderFails, Go, cache, locks, tokens
<1>3. SameLock'
  BY DEF IInv, Holding, SameLock, TypeOK, Calls, Locked, ProviderFails, Go, cache, locks, tokens
<1>4. Guarded'
  BY DEF IInv, Holding, Guarded, TypeOK, Calls, Locked, ProviderFails, Go, cache, locks, tokens
<1>5. LocksTended'
  BY DEF IInv, LocksTended, Tended, Building, TypeOK, Calls, ProviderFails, Go, cache, locks, tokens
<1>6. TokenOfReply'
  BY DEF IInv, TokenOfReply, TypeOK, Calls, ProviderFails, Go, cache, locks, tokens
<1>7. OneBuilder'
  BY DEF IInv, OneBuilder, SameLock, Guarded, Holding, TypeOK, Calls, Locked, ProviderFails, Go, cache, locks, tokens
<1>8. Pushed'
  BY DEF IInv, Pushed, TypeOK, Calls, ProviderFails, Go, cache, locks, tokens
<1> QED
  BY <1>1, <1>2, <1>3, <1>4, <1>5, <1>6, <1>7, <1>8 DEF IInv

LEMMA ReplyEndsInv ==
  ASSUME IInv, NEW m \in Messages, ReplyEnds(m)
  PROVE  IInv'
<1> USE CallsAssumption
<1>1. TypeOK'
  BY DEF IInv, TypeOK, Calls, Stages, Locked, ReplyEnds, Go, cache, locks, tokens
<1>2. Holding'
  BY DEF IInv, Holding, TypeOK, Calls, Locked, ReplyEnds, Go, cache, locks, tokens
<1>3. SameLock'
  BY DEF IInv, Holding, SameLock, TypeOK, Calls, Locked, ReplyEnds, Go, cache, locks, tokens
<1>4. Guarded'
  BY DEF IInv, Holding, Guarded, TypeOK, Calls, Locked, ReplyEnds, Go, cache, locks, tokens
<1>5. LocksTended'
  BY DEF IInv, LocksTended, Tended, Building, TypeOK, Calls, ReplyEnds, Go, cache, locks, tokens
<1>6. TokenOfReply'
  BY DEF IInv, TokenOfReply, TypeOK, Calls, ReplyEnds, Go, cache, locks, tokens
<1>7. OneBuilder'
  BY DEF IInv, OneBuilder, SameLock, Guarded, Holding, TypeOK, Calls, Locked, ReplyEnds, Go, cache, locks, tokens
<1>8. Pushed'
  BY DEF IInv, Pushed, TypeOK, Calls, ReplyEnds, Go, cache, locks, tokens
<1> QED
  BY <1>1, <1>2, <1>3, <1>4, <1>5, <1>6, <1>7, <1>8 DEF IInv

LEMMA UnregisterInv ==
  ASSUME IInv, NEW m \in Messages, Unregister(m)
  PROVE  IInv'
<1> USE CallsAssumption
<1>1. TypeOK'
  BY DEF IInv, TypeOK, Calls, Stages, Locked, Unregister, Go, cache, locks, tokens
<1>2. Holding'
  BY DEF IInv, Holding, TypeOK, Calls, Locked, Unregister, Go, cache, locks, tokens
<1>3. SameLock'
  BY DEF IInv, Holding, SameLock, TypeOK, Calls, Locked, Unregister, Go, cache, locks, tokens
<1>4. Guarded'
  BY DEF IInv, Holding, Guarded, TypeOK, Calls, Locked, Unregister, Go, cache, locks, tokens
<1>5. LocksTended'
  BY DEF IInv, LocksTended, Tended, Building, TypeOK, Calls, Unregister, Go, cache, locks, tokens
<1>6. TokenOfReply'
  BY DEF IInv, TokenOfReply, TypeOK, Calls, Unregister, Go, cache, locks, tokens
<1>7. OneBuilder'
  BY DEF IInv, OneBuilder, SameLock, Guarded, Holding, TypeOK, Calls, Locked, Unregister, Go, cache, locks, tokens
<1>8. Pushed'
  BY DEF IInv, Pushed, TypeOK, Calls, Unregister, Go, cache, locks, tokens
<1> QED
  BY <1>1, <1>2, <1>3, <1>4, <1>5, <1>6, <1>7, <1>8 DEF IInv

LEMMA InterruptInv ==
  ASSUME IInv, NEW s \in Sessions, Interrupt(s)
  PROVE  IInv'
<1> USE CallsAssumption
<1>1. TypeOK'
  BY DEF IInv, TypeOK, Calls, Stages, Locked, Interrupt, cache, locks, tokens
<1>2. Holding'
  BY DEF IInv, Holding, TypeOK, Calls, Locked, Interrupt, cache, locks, tokens
<1>3. SameLock'
  BY DEF IInv, Holding, SameLock, TypeOK, Calls, Locked, Interrupt, cache, locks, tokens
<1>4. Guarded'
  BY DEF IInv, Holding, Guarded, TypeOK, Calls, Locked, Interrupt, cache, locks, tokens
<1>5. LocksTended'
  BY DEF IInv, LocksTended, Tended, Building, TypeOK, Calls, Interrupt, cache, locks, tokens
<1>6. TokenOfReply'
  BY DEF IInv, TokenOfReply, TypeOK, Calls, Interrupt, cache, locks, tokens
<1>7. OneBuilder'
  BY DEF IInv, OneBuilder, SameLock, Guarded, Holding, TypeOK, Calls, Locked, Interrupt, cache, locks, tokens
<1>8. Pushed'
  BY DEF IInv, Pushed, TypeOK, Calls, Interrupt, cache, locks, tokens
<1> QED
  BY <1>1, <1>2, <1>3, <1>4, <1>5, <1>6, <1>7, <1>8 DEF IInv

LEMMA CancelRemovedInv ==
  ASSUME IInv, NEW x \in Removers, CancelRemoved(x)
  PROVE  IInv'
<1> USE CallsAssumption
<1>1. TypeOK'
  BY DEF IInv, TypeOK, Calls, Stages, Locked, CancelRemoved, Go, cache, locks, tokens
<1>2. Holding'
  BY DEF IInv, Holding, TypeOK, Calls, Locked, CancelRemoved, Go, cache, locks, tokens
<1>3. SameLock'
  BY DEF IInv, Holding, SameLock, TypeOK, Calls, Locked, CancelRemoved, Go, cache, locks, tokens
<1>4. Guarded'
  BY DEF IInv, Holding, Guarded, TypeOK, Calls, Locked, CancelRemoved, Go, cache, locks, tokens
<1>5. LocksTended'
  BY DEF IInv, LocksTended, Tended, Building, TypeOK, Calls, CancelRemoved, Go, cache, locks, tokens
<1>6. TokenOfReply'
  BY DEF IInv, TokenOfReply, TypeOK, Calls, CancelRemoved, Go, cache, locks, tokens
<1>7. OneBuilder'
  BY DEF IInv, OneBuilder, SameLock, Guarded, Holding, TypeOK, Calls, Locked, CancelRemoved, Go, cache, locks, tokens
<1>8. Pushed'
  BY DEF IInv, Pushed, TypeOK, Calls, CancelRemoved, Go, cache, locks, tokens
<1> QED
  BY <1>1, <1>2, <1>3, <1>4, <1>5, <1>6, <1>7, <1>8 DEF IInv

LEMMA PopInv ==
  ASSUME IInv, NEW x \in Removers, Pop(x)
  PROVE  IInv'
<1> USE CallsAssumption
<1>1. TypeOK'
  <2>1. Without(SessionOf[x]) \in Seq(Sessions) /\ SessionOf[x] \in Sessions
    BY WithoutTyped DEF IInv, Calls
  <2>2. lru' \in {lru, Without(SessionOf[x]), Append(Without(SessionOf[x]), SessionOf[x])}
    BY DEF Pop, Go, cache, locks, tokens
  <2>3. Append(Without(SessionOf[x]), SessionOf[x]) \in Seq(Sessions)
    BY <2>1, AppendTyped
  <2>4. lru' \in Seq(Sessions)
    BY <2>1, <2>2, <2>3 DEF IInv, TypeOK
  <2>5. got' \in [Callers -> Callers \cup {None}] /\ agent' \in [Sessions -> Callers \cup {None}]
    BY <2>1 DEF IInv, TypeOK, Pop, Go, cache, locks, tokens
  <2>6. at' \in [Calls -> Stages]
    BY DEF IInv, TypeOK, Stages, Locked, Pop, Go, cache, locks, tokens
  <2>7. <<locks, victim, tokens>>' = <<locks, victim, tokens>>
    BY DEF Pop, Go, cache, locks, tokens
  <2> QED
    BY <2>4, <2>5, <2>6, <2>7 DEF IInv, TypeOK, locks, tokens
<1>2. Holding'
  BY DEF IInv, Holding, TypeOK, Calls, Locked, Pop, Go, cache, locks, tokens
<1>3. SameLock'
  BY DEF IInv, Holding, SameLock, TypeOK, Calls, Locked, Pop, Go, cache, locks, tokens
<1>4. Guarded'
  BY DEF IInv, Holding, Guarded, TypeOK, Calls, Locked, Pop, Go, cache, locks, tokens
<1>5. LocksTended'
  BY DEF IInv, LocksTended, Tended, Building, TypeOK, Calls, Pop, Go, cache, locks, tokens
<1>6. TokenOfReply'
  BY DEF IInv, TokenOfReply, TypeOK, Calls, Pop, Go, cache, locks, tokens
<1>7. OneBuilder'
  BY DEF IInv, OneBuilder, SameLock, Guarded, Holding, TypeOK, Calls, Locked, Pop, Go, cache, locks, tokens
<1>8. Pushed'
  BY DEF IInv, Pushed, TypeOK, Calls, Pop, Go, cache, locks, tokens
<1> QED
  BY <1>1, <1>2, <1>3, <1>4, <1>5, <1>6, <1>7, <1>8 DEF IInv

LEMMA PruneRemovedInv ==
  ASSUME IInv, NEW x \in Removers, PruneRemoved(x)
  PROVE  IInv'
<1> USE CallsAssumption
<1>1. TypeOK'
  BY DEF IInv, TypeOK, Calls, Stages, Locked, PruneRemoved, Prune, InUse, Go, cache, locks, tokens
<1>2. Holding'
  BY DEF IInv, Holding, TypeOK, Calls, Locked, PruneRemoved, Prune, InUse, Go, cache, locks, tokens
<1>3. SameLock'
  BY DEF IInv, Holding, SameLock, TypeOK, Calls, Locked, PruneRemoved, Prune, InUse, Go, cache, locks, tokens
<1>4. Guarded'
  BY DEF IInv, Holding, Guarded, TypeOK, Calls, Locked, PruneRemoved, Prune, InUse, Go, cache, locks, tokens
<1>5. LocksTended'
  BY DEF IInv, LocksTended, Tended, Building, TypeOK, Calls, PruneRemoved, Prune, InUse, Go, cache, locks, tokens
<1>6. TokenOfReply'
  BY DEF IInv, TokenOfReply, TypeOK, Calls, PruneRemoved, Prune, InUse, Go, cache, locks, tokens
<1>7. OneBuilder'
  BY DEF IInv, OneBuilder, SameLock, Guarded, Holding, TypeOK, Calls, Locked, PruneRemoved, Prune, InUse, Go, cache, locks, tokens
<1>8. Pushed'
  BY DEF IInv, Pushed, TypeOK, Calls, PruneRemoved, Prune, InUse, Go, cache, locks, tokens
<1> QED
  BY <1>1, <1>2, <1>3, <1>4, <1>5, <1>6, <1>7, <1>8 DEF IInv

(* What a dropped caller held is free again, and the entry it leaves is on  *)
(* the list of those left.                                                  *)
LEMMA DropCallInv ==
  ASSUME IInv, NEW c \in Callers, DropCall(c)
  PROVE  IInv'
<1> USE CallsAssumption
<1>0. PICK from \in {"entry", "lock", "recheck", "build", "evict", "prune"} : Go(c, from, "lost")
  BY DEF DropCall
<1>1. /\ at[c] = from /\ at' = [at EXCEPT ![c] = "lost"]
      /\ guard' = [l \in Callers |-> IF guard[l] = c THEN None ELSE guard[l]]
      /\ clone' = [clone EXCEPT ![c] = None]
      /\ UNCHANGED <<lru, agent, lockOf, got, victim, token, cancelled, torn>>
  BY <1>0 DEF DropCall, Go, cache, tokens
<1>2. at \in [Calls -> Stages] /\ c \in Calls /\ c \notin Removers /\ at'[c] = "lost"
      /\ \A x \in Calls : x # c => at'[x] = at[x]
  BY <1>1 DEF IInv, TypeOK, Calls
<1>3. clone'[c] = None /\ \A d \in Callers : d # c => clone'[d] = clone[d]
  BY <1>1 DEF IInv, TypeOK
<1>4. left \subseteq left'
  BY DEF DropCall
<1>5. TypeOK'
  <2>1. left' \subseteq Sessions
    <3>1. CASE at[c] = "entry"
      BY <3>1 DEF DropCall, IInv, TypeOK
    <3>2. CASE at[c] = "evict"
      BY <3>2 DEF DropCall, IInv, Pushed, TypeOK
    <3>3. CASE at[c] \notin {"entry", "evict"}
      <4>1. left' = left \cup {SessionOf[c]}
        BY <3>3 DEF DropCall
      <4> QED
        BY <4>1, <1>2 DEF IInv, TypeOK
    <3> QED
      BY <3>1, <3>2, <3>3
  <2>2. at' \in [Calls -> Stages]
    BY <1>1, <1>2 DEF Stages
  <2>3. guard' \in [Callers -> Callers \cup {None}] /\ clone' \in [Callers -> Callers \cup {None}]
    BY <1>1 DEF IInv, TypeOK
  <2> QED
    BY <1>1, <2>1, <2>2, <2>3 DEF IInv, TypeOK
<1>6. Holding'
  BY <1>2, <1>3 DEF IInv, Holding, Locked, Calls
<1>7. SameLock'
  BY <1>1, <1>3 DEF IInv, SameLock
<1>8. Guarded'
  <2> SUFFICES ASSUME NEW d \in Callers, at'[d] \in Locked
               PROVE  guard'[clone'[d]] = d
    BY DEF Guarded
  <2>1. d # c /\ at[d] \in Locked /\ clone'[d] = clone[d]
    BY <1>2, <1>3 DEF Locked, Calls
  <2>2. guard[clone[d]] = d /\ clone[d] \in Callers
    BY <2>1 DEF IInv, Guarded, Holding, TypeOK
  <2> QED
    BY <1>1, <2>1, <2>2
<1>9. LocksTended'
  <2> SUFFICES ASSUME NEW s \in Sessions, lockOf'[s] # None
               PROVE  Tended(s)'
    BY DEF LocksTended
  <2>1. Tended(s)
    BY <1>1 DEF IInv, LocksTended
  <2>2. CASE at[c] \in Building /\ SessionOf[c] = s
    <3>1. left' = left \cup {SessionOf[c]}
      BY <2>2 DEF DropCall, Building
    <3> QED
      BY <2>2, <3>1 DEF Tended
  <2>3. CASE at[c] = "evict" /\ victim[c] = s
    <3>1. left' = left \cup {victim[c]}
      BY <2>3 DEF DropCall
    <3> QED
      BY <2>3, <3>1 DEF Tended
  <2>4. CASE ~(at[c] \in Building /\ SessionOf[c] = s) /\ ~(at[c] = "evict" /\ victim[c] = s)
    BY <2>1, <2>4, <1>1, <1>2, <1>4 DEF Tended, Calls
  <2> QED
    BY <2>2, <2>3, <2>4
<1>10. TokenOfReply'
  BY <1>1, <1>2 DEF IInv, TokenOfReply, Calls
<1>11. OneBuilder'
  BY <1>1, <1>2 DEF IInv, OneBuilder, Calls
<1>12. Pushed'
  BY <1>1, <1>2 DEF IInv, Pushed, Calls
<1> QED
  BY <1>5, <1>6, <1>7, <1>8, <1>9, <1>10, <1>11, <1>12 DEF IInv

LEMMA NextInv == IInv /\ [Next]_vars => IInv'
<1> SUFFICES ASSUME IInv, [Next]_vars PROVE IInv'
  OBVIOUS
<1>1. CASE \E c \in Callers : GetOrCreate(c) \/ DropCall(c)
  BY <1>1, DropCallInv, FindInv, TakeEntryInv, LockInv, RecheckInv, BuildFailsInv, InsertInv, PruneEvictedInv,
     LeaveInv, PruneFailedInv DEF GetOrCreate
<1>2. CASE \E m \in Messages : Message(m) \/ ReplyEnds(m)
  BY <1>2, TryRegisterInv, ProviderFailsInv, ReplyEndsInv, UnregisterInv DEF Message
<1>3. CASE \E s \in Sessions : Interrupt(s)
  BY <1>3, InterruptInv
<1>4. CASE \E x \in Removers : RemoveSession(x)
  BY <1>4, CancelRemovedInv, PopInv, PruneRemovedInv DEF RemoveSession
<1>5. CASE UNCHANGED vars
  BY <1>5 DEF vars, cache, locks, tokens, IInv, TypeOK, Holding, SameLock, Guarded, Pushed, LocksTended, Tended,
              TokenOfReply, OneBuilder
<1> QED
  BY <1>1, <1>2, <1>3, <1>4, <1>5 DEF Next

LEMMA InvAlways == Spec => []IInv
BY InitInv, NextInv, PTL DEF Spec

-----------------------------------------------------------------------------

(* The variables keep their types, the queue and the tables included.       *)
THEOREM Typed == Spec => []TypeOK
BY InvAlways, PTL DEF IInv

(* A session's agent is built by one caller at a time, and what it builds   *)
(* is what the cache takes: the entry that callers serialize through is     *)
(* never replaced while one of them has a clone of it.                      *)
THEOREM OneBuilderTheorem == Spec => []OneBuilder
BY InvAlways, PTL DEF IInv

(* When no call is under way every lock belongs to a cached session, or to  *)
(* one whose lock a prune found in use or a dropped call left behind, and   *)
(* that no prune has swept since.                                           *)
THEOREM LocksTheorem == Spec => []LocksFollowSessions
<1>1. IInv => LocksFollowSessions
  BY CallsAssumption DEF IInv, LocksTended, Tended, Building, LocksFollowSessions, Quiet, Calls
<1> QED
  BY <1>1, InvAlways, PTL

(* Two replies of a session run together only after a removal has taken the *)
(* token of one.                                                            *)
THEOREM OneReplyTheorem == Spec => []OneReply
<1>1. IInv => OneReply
  BY DEF IInv, TokenOfReply, OneReply
<1> QED
  BY <1>1, InvAlways, PTL

=============================================================================

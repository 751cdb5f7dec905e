---------------------------- MODULE AgentManager ----------------------------
(***************************************************************************)
(* The cache of agents (execution/manager.rs): callers look a session's    *)
(* agent up or build it under the session's creation lock, the cache drops *)
(* the session used longest ago, sessions are removed, and creation locks  *)
(* are pruned.  Some callers are messages of the orchestrator extension    *)
(* (orchestrator.rs), which register a cancellation token for the session  *)
(* while the agent replies; the orchestrator's calls are dropped wherever  *)
(* they are when the run that makes them is cancelled.                     *)
(***************************************************************************)
EXTENDS Naturals, Sequences, SequencesExt, FiniteSets

CONSTANTS
  Sessions,
  Callers,      \* calls of get_or_create_agent
  Messages,     \* those made by handle_send_message
  Removers,     \* calls of remove_session_if_loaded
  SessionOf,    \* the session of each caller and remover
  Capacity,     \* max_sessions
  None

Calls == Callers \cup Removers

ASSUME CallsAssumption ==
  /\ Messages \subseteq Callers /\ Callers \cap Removers = {}
  /\ SessionOf \in [Calls -> Sessions]
  /\ None \notin Callers \cup Sessions

ASSUME CapacityAssumption == Capacity \in Nat \ {0}

VARIABLES
  lru,          \* sessions in the cache, the one used longest ago first
  agent,        \* the cached agent of each session, or None: who built it
  lockOf,       \* creation_locks: who made each session's lock, or None
  clone,        \* the lock each caller holds a clone of, or None
  guard,        \* who holds the guard of the lock each caller made, or None
  got,          \* the agent each caller has been given
  victim,       \* the session each caller's insertion has pushed out
  token,        \* cancel_tokens: whose token each session has, or None
  cancelled,    \* messages whose token has been cancelled
  at,           \* where each call is
  left,         \* history: sessions whose lock a prune or a dropped call left in place
  torn          \* history: sessions whose token a remover has taken

cache  == <<lru, agent>>
locks  == <<lockOf, clone, guard, left>>
tokens == <<token, cancelled, torn>>
vars   == <<cache, locks, got, victim, tokens, at>>

(* An agent and a lock are named after the caller that makes them: a caller *)
(* makes one of each at most.                                               *)
Locked == {"recheck", "build", "evict", "leave"}
Stages == Locked \cup {"new", "entry", "lock", "prune", "got", "run", "end", "done", "pop", "refused",
                    "lost"}

Init ==
  /\ lru = <<>> /\ agent = [s \in Sessions |-> None]
  /\ lockOf = [s \in Sessions |-> None]
  /\ clone = [c \in Callers |-> None] /\ guard = [l \in Callers |-> None]
  /\ got = [c \in Callers |-> None] /\ victim = [c \in Callers |-> None]
  /\ token = [s \in Sessions |-> None] /\ cancelled = {}
  /\ at = [x \in Calls |-> "new"]
  /\ left = {} /\ torn = {}

Go(x, from, to) == at[x] = from /\ at' = [at EXCEPT ![x] = to]

Without(s) ==
  IF s \in ToSet(lru) THEN RemoveAt(lru, CHOOSE i \in DOMAIN lru : lru[i] = s) ELSE lru

(* LruCache::get moves the session to the end of the queue. *)
Touch(s) == lru' = Append(Without(s), s)

-----------------------------------------------------------------------------
(* get_or_create_agent_with_runtime_context *)

Hit(c) ==
  LET s == SessionOf[c] IN
    /\ agent[s] # None
    /\ Touch(s)
    /\ got' = [got EXCEPT ![c] = agent[s]]
    /\ UNCHANGED <<agent, locks, victim, tokens>>

Miss(c) == agent[SessionOf[c]] = None /\ UNCHANGED <<cache, locks, got, victim, tokens>>

(* The fast path. *)
Find(c) ==
  \/ Go(c, "new", "got") /\ Hit(c)
  \/ Go(c, "new", "entry") /\ Miss(c)

(* The entry of the session's lock is made if there is none, and cloned. *)
TakeEntry(c) ==
  LET s == SessionOf[c]
      l == IF lockOf[s] = None THEN c ELSE lockOf[s] IN
    /\ Go(c, "entry", "lock")
    /\ lockOf' = [lockOf EXCEPT ![s] = l]
    /\ clone' = [clone EXCEPT ![c] = l]
    /\ UNCHANGED <<cache, guard, left, got, victim, tokens>>

(* Mutant: callers do not wait for each other. *)
LockFreely(c) ==
  /\ Go(c, "lock", "recheck")
  /\ UNCHANGED <<cache, locks, got, victim, tokens>>

Lock(c) ==
  /\ Go(c, "lock", "recheck")
  /\ guard[clone[c]] = None
  /\ guard' = [guard EXCEPT ![clone[c]] = c]
  /\ UNCHANGED <<cache, lockOf, clone, left, got, victim, tokens>>

(* create_agent_locked: the cache is looked at again, the agent is built,   *)
(* which may fail, and put into the cache unless there is one by now.       *)
Recheck(c) ==
  \/ Go(c, "recheck", "leave") /\ Hit(c)
  \/ Go(c, "recheck", "build") /\ Miss(c)

(* Mutant: the guard of a lock outlives the call that fails. *)
KeepGuard(c) ==
  /\ clone' = [clone EXCEPT ![c] = None]
  /\ UNCHANGED <<lockOf, guard, left>>

Release(c) ==
  /\ guard' = [guard EXCEPT ![clone[c]] = None]
  /\ clone' = [clone EXCEPT ![c] = None]
  /\ UNCHANGED <<lockOf, left>>

(* Guard and clone are dropped before the entry is pruned. *)
BuildFails(c) ==
  /\ Go(c, "build", "prune")
  /\ Release(c)
  /\ UNCHANGED <<cache, got, victim, tokens>>

(* An agent that is there by now is kept and handed out. *)
Insert(c) ==
  LET s == SessionOf[c]
      known == agent[s] # None
      out == IF Len(lru) = Capacity /\ ~known THEN {Head(lru)} ELSE {} IN
    /\ Go(c, "build", IF out = {} THEN "leave" ELSE "evict")
    /\ lru' = IF known THEN Append(Without(s), s)
              ELSE Append(IF out = {} THEN lru ELSE Tail(lru), s)
    /\ agent' = [t \in Sessions |-> IF t = s /\ ~known THEN c ELSE IF t \in out THEN None ELSE agent[t]]
    /\ got' = [got EXCEPT ![c] = agent'[s]]
    /\ victim' = [victim EXCEPT ![c] = IF out = {} THEN None ELSE Head(lru)]
    /\ UNCHANGED <<locks, tokens>>

(* prune_creation_lock: an entry whose lock is in use stays, for a later    *)
(* prune to sweep.                                                          *)
InUse(s) == \E c \in Callers : clone[c] # None /\ clone[c] = lockOf[s]

Prune(s) ==
  /\ lockOf' = [lockOf EXCEPT ![s] = IF InUse(s) THEN @ ELSE None]
  /\ left' = IF InUse(s) THEN left \cup {s} ELSE left \ {s}
  /\ UNCHANGED <<clone, guard>>

PruneEvicted(c) ==
  /\ Go(c, "evict", "leave")
  /\ Prune(victim[c])
  /\ UNCHANGED <<cache, got, victim, tokens>>

(* The guard and the clone are dropped as the function returns. *)
Leave(c) ==
  /\ Go(c, "leave", "got")
  /\ Release(c)
  /\ UNCHANGED <<cache, got, victim, tokens>>

(* Mutant: the error exit does not prune. *)
FailUnpruned(c) ==
  /\ Go(c, "prune", "refused")
  /\ UNCHANGED <<cache, locks, got, victim, tokens>>

PruneFailed(c) ==
  /\ Go(c, "prune", "refused")
  /\ Prune(SessionOf[c])
  /\ UNCHANGED <<cache, got, victim, tokens>>

(* The future is dropped at an await: guard and clone go with it, a prune   *)
(* that was still to come does not happen.                                  *)
DropCall(c) ==
  /\ \E from \in {"entry", "lock", "recheck", "build", "evict", "prune"} : Go(c, from, "lost")
  /\ guard' = [l \in Callers |-> IF guard[l] = c THEN None ELSE guard[l]]
  /\ clone' = [clone EXCEPT ![c] = None]
  /\ left' = left \cup (CASE at[c] = "entry" -> {}
                         [] at[c] = "evict" -> {victim[c]}
                         [] OTHER -> {SessionOf[c]})
  /\ UNCHANGED <<cache, lockOf, got, victim, tokens>>

GetOrCreate(c) ==
  \/ Find(c) \/ TakeEntry(c) \/ Lock(c) \/ Recheck(c) \/ BuildFails(c)
  \/ Insert(c) \/ PruneEvicted(c) \/ Leave(c) \/ PruneFailed(c)

-----------------------------------------------------------------------------
(* handle_send_message: one reply at a time per session.                    *)

(* Mutant: the table is overwritten. *)
RegisterOver(m) ==
  /\ Go(m, "got", "run")
  /\ token' = [token EXCEPT ![SessionOf[m]] = m]
  /\ UNCHANGED <<cache, locks, got, victim, cancelled, torn>>

TryRegister(m) ==
  LET free == token[SessionOf[m]] = None IN
    /\ Go(m, "got", IF free THEN "run" ELSE "refused")
    /\ token' = [token EXCEPT ![SessionOf[m]] = IF free THEN m ELSE @]
    /\ UNCHANGED <<cache, locks, got, victim, cancelled, torn>>

(* The provider the message would bring along cannot be made. *)
ProviderFails(m) ==
  /\ Go(m, "got", "refused")
  /\ UNCHANGED <<cache, locks, got, victim, tokens>>

(* The reply ends, fails or is given up; a dropped guard unregisters too.   *)
ReplyEnds(m) ==
  /\ Go(m, "run", "end")
  /\ UNCHANGED <<cache, locks, got, victim, tokens>>

(* Mutant: only a reply that was not cancelled unregisters. *)
UnregisterFinished(m) ==
  /\ Go(m, "end", "done")
  /\ token' = IF m \in cancelled THEN token ELSE [token EXCEPT ![SessionOf[m]] = None]
  /\ UNCHANGED <<cache, locks, got, victim, cancelled, torn>>

(* Whatever token the session has is removed. *)
Unregister(m) ==
  /\ Go(m, "end", "done")
  /\ token' = [token EXCEPT ![SessionOf[m]] = None]
  /\ UNCHANGED <<cache, locks, got, victim, cancelled, torn>>

Message(m) == TryRegister(m) \/ ProviderFails(m) \/ Unregister(m)

(* interrupt_agent: cancel_session *)
Interrupt(s) ==
  /\ token[s] # None
  /\ cancelled' = cancelled \cup {token[s]}
  /\ UNCHANGED <<cache, locks, got, victim, token, torn, at>>

-----------------------------------------------------------------------------
(* remove_session_if_loaded *)

CancelRemoved(x) ==
  LET s == SessionOf[x] IN
    /\ Go(x, "new", "pop")
    /\ cancelled' = IF token[s] = None THEN cancelled ELSE cancelled \cup {token[s]}
    /\ torn' = IF token[s] = None THEN torn ELSE torn \cup {s}
    /\ token' = [token EXCEPT ![s] = None]
    /\ UNCHANGED <<cache, locks, got, victim>>

Pop(x) ==
  LET s == SessionOf[x] IN
    /\ Go(x, "pop", IF agent[s] = None THEN "done" ELSE "prune")
    /\ lru' = Without(s)
    /\ agent' = [agent EXCEPT ![s] = None]
    /\ UNCHANGED <<locks, got, victim, tokens>>

PruneRemoved(x) ==
  /\ Go(x, "prune", "done")
  /\ Prune(SessionOf[x])
  /\ UNCHANGED <<cache, got, victim, tokens>>

RemoveSession(x) == CancelRemoved(x) \/ Pop(x) \/ PruneRemoved(x)

-----------------------------------------------------------------------------

Next ==
  \/ \E c \in Callers : GetOrCreate(c) \/ DropCall(c)
  \/ \E m \in Messages : Message(m) \/ ReplyEnds(m)
  \/ \E s \in Sessions : Interrupt(s)
  \/ \E x \in Removers : RemoveSession(x)

Spec == Init /\ [][Next]_vars

(* Handlers that have begun are polled until they return or are dropped;    *)
(* building an agent ends; no call need arrive, and no reply need end       *)
(* unless it is cancelled.                                                  *)
Begun(x) == at[x] # "new"

FairSpec ==
  /\ Spec
  /\ \A c \in Callers : WF_vars(Begun(c) /\ GetOrCreate(c))
  /\ \A m \in Messages : WF_vars(Message(m)) /\ WF_vars(m \in cancelled /\ ReplyEnds(m))
  /\ \A x \in Removers : WF_vars(Begun(x) /\ RemoveSession(x))

-----------------------------------------------------------------------------
(* Properties *)

TypeOK ==
  /\ lru \in Seq(Sessions) /\ agent \in [Sessions -> Callers \cup {None}]
  /\ lockOf \in [Sessions -> Callers \cup {None}]
  /\ clone \in [Callers -> Callers \cup {None}] /\ guard \in [Callers -> Callers \cup {None}]
  /\ got \in [Callers -> Callers \cup {None}] /\ victim \in [Callers -> Sessions \cup {None}]
  /\ token \in [Sessions -> Messages \cup {None}] /\ cancelled \subseteq Messages
  /\ at \in [Calls -> Stages] /\ left \subseteq Sessions /\ torn \subseteq Sessions

(* One caller at a time builds the agent of a session, whatever is evicted, *)
(* removed or pruned meanwhile (issue 9031: no two callers initialise the   *)
(* session's MCP servers), and what it builds is what the cache takes.      *)
OneBuilder ==
  \A c \in Callers : at[c] = "build" =>
    /\ agent[SessionOf[c]] = None
    /\ \A d \in Callers : at[d] = "build" /\ SessionOf[c] = SessionOf[d] => c = d

(* Once no call is under way the lock table is no larger than the cache,    *)
(* unless an entry was left behind and no prune has come by since: by a     *)
(* prune that found the lock in use, or by a call that was dropped before   *)
(* its agent was in the cache or its own prune was done                     *)
(* (prune_creation_lock: "a later removal or eviction will sweep it").      *)
Quiet == \A x \in Calls : at[x] \in {"new", "got", "run", "end", "done", "refused", "lost"}

LocksFollowSessions ==
  Quiet => \A s \in Sessions : lockOf[s] # None => agent[s] # None \/ s \in left

(* Two messages never drive a session's agent at the same time, unless a    *)
(* removal has taken the token of a reply that had not ended (the reply     *)
(* unregisters whatever token is there when it ends).                       *)
OneReply ==
  \A m, n \in Messages :
    at[m] = "run" /\ at[n] = "run" /\ SessionOf[m] = SessionOf[n] /\ m # n => SessionOf[m] \in torn

(* A session whose reply was interrupted does not stay busy.                *)
InterruptFrees ==
  \A m \in Messages : m \in cancelled ~> at[m] = "done" /\ token[SessionOf[m]] # m

(* Every call returns, with the agent or with an error, or is dropped: one  *)
(* that goes away does not keep the others waiting.                         *)
CallsReturn ==
  \A c \in Callers : at[c] = "entry" ~> at[c] \notin Locked \cup {"entry", "lock", "prune"}

=============================================================================

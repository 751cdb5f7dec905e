-------------------------- MODULE PromptRunsProofs --------------------------
(***************************************************************************)
(* Proofs about the prompt runs of a session, for any number of prompt,    *)
(* steer, close and load requests: the state is well typed, one run is let *)
(* in at a time, a close cannot miss a run, and a closed session is        *)
(* released.                                                               *)
(***************************************************************************)
EXTENDS PromptRuns, FiniteSetTheorems, TLAPS

(* Agents are numbered up to the number of requests because a request that *)
(* creates one has not had one before.                                     *)
Without == {"new", "insert", "open", "lookup", "create", "activate"}

Holders == {x \in Requests : agent[x] # NoAgent}

Counted ==
  /\ \A x \in Requests : at[x] \in Without => agent[x] = NoAgent
  /\ created <= Cardinality(Holders)

TypeInv == TypeOK /\ Counted

USE DEF NoAgent

(* A request that gets hold of an agent joins the holders. *)
LEMMA HoldersGrow ==
  ASSUME TypeOK, NEW x \in Requests, NEW a \in Nat \ {NoAgent},
         agent' = [agent EXCEPT ![x] = a]
  PROVE  /\ Cardinality(Holders) \in Nat /\ Cardinality(Holders') \in Nat
         /\ Cardinality(Holders) <= Cardinality(Holders')
         /\ Cardinality(Holders') <= Cardinality(Requests)
         /\ agent[x] = NoAgent => Cardinality(Holders') = Cardinality(Holders) + 1
<1>1. IsFiniteSet(Requests) /\ Holders \subseteq Requests /\ Holders' \subseteq Requests
  BY RequestsAssumption DEF Holders
<1>2. Holders' = Holders \cup {x}
  BY DEF Holders, TypeOK
<1>3. agent[x] = NoAgent => x \notin Holders
  BY DEF Holders
<1>4. IsFiniteSet(Holders) /\ Cardinality(Holders) \in Nat
  BY <1>1, FS_Subset, FS_CardinalityType
<1>5. Cardinality(Holders') <= Cardinality(Requests)
  BY <1>1, FS_Subset
<1>6. Cardinality(Holders') = IF x \in Holders THEN Cardinality(Holders)
                                               ELSE Cardinality(Holders) + 1
  BY <1>2, <1>4, FS_AddElement
<1> QED
  BY <1>3, <1>4, <1>5, <1>6

(* Steps that hand out no agent leave the holders alone. *)
LEMMA Unheld ==
  ASSUME Counted, agent' = agent, created' = created,
         \A x \in Requests : at'[x] \in Without => at[x] \in Without
  PROVE  Counted'
BY DEF Counted, Holders

(* get_or_create: the number of agents keeps up with their holders. *)
LEMMA CreateTyped ==
  ASSUME TypeInv, NEW x \in Requests, at[x] \in Without, GetOrCreate(x),
         \A y \in Requests : at'[y] \in Without => at[y] \in Without /\ y # x
  PROVE  /\ Counted' /\ created' \in Nat /\ cached' \in Agents
         /\ agent' \in [Requests -> Agents \cup {NoAgent}]
<1> DEFINE a == IF cached # NoAgent THEN cached ELSE created + 1
<1>1. a \in Nat \ {NoAgent} /\ agent' = [agent EXCEPT ![x] = a]
  <2>1. cached # NoAgent => cached \in Nat \ {NoAgent}
    BY FS_CardinalityType, RequestsAssumption DEF TypeInv, TypeOK, Agents
  <2> QED BY <2>1 DEF TypeInv, TypeOK, GetOrCreate
<1>2. agent[x] = NoAgent
  BY DEF TypeInv, Counted
<1>3. /\ Cardinality(Holders) \in Nat
      /\ Cardinality(Holders') = Cardinality(Holders) + 1
      /\ Cardinality(Holders') <= Cardinality(Requests)
  <2> HIDE DEF a
  <2> QED BY <1>1, <1>2, HoldersGrow DEF TypeInv
<1>4. created \in Nat /\ created <= Cardinality(Holders)
  BY DEF TypeInv, TypeOK, Counted
<1>5. created' \in Nat /\ created' <= Cardinality(Holders')
  BY <1>3, <1>4, <1>1 DEF GetOrCreate
<1>6. a \in Agents
  <2>1. cached # NoAgent => cached \in Agents
    BY DEF TypeInv, TypeOK
  <2>2. Cardinality(Requests) \in Nat
    BY FS_CardinalityType, RequestsAssumption
  <2>3. created + 1 \in Agents
    BY <1>3, <1>4, <2>2 DEF Agents
  <2> QED BY <2>1, <2>3
<1>7. \A y \in Requests : at'[y] \in Without => agent'[y] = NoAgent
  BY <1>1 DEF TypeInv, TypeOK, Counted
<1> QED
  BY <1>1, <1>5, <1>6, <1>7 DEF TypeInv, TypeOK, Counted, GetOrCreate

-----------------------------------------------------------------------------
(* Type correctness *)

(* get_session_agent, whoever calls it. *)
LEMMA SessionAgentTyped ==
  ASSUME TypeInv, NEW x \in Requests, NEW next \in {"begin", "recheck", "reopen"},
         \/ SessionAgent(x, next)
         \/ Register(x, next) /\ UNCHANGED <<active, closed, cancelled, queue, target, drained>>
  PROVE  TypeInv'
<1> USE DEF PromptStages, SteerStages, CloseStages, LoadStages, Without
<1> DEFINE Rest == UNCHANGED <<active, closed, cancelled, queue, target, drained>>
<1>1. CASE Lookup(x, next) /\ registered # NoAgent /\ Rest
  <2>1. TypeOK'
    BY <1>1 DEF TypeInv, TypeOK, Lookup, Go
  <2>2. registered \in Nat \ {NoAgent} /\ agent' = [agent EXCEPT ![x] = registered]
    BY <1>1, RequestsAssumption, FS_CardinalityType DEF TypeInv, TypeOK, Lookup, Agents
  <2>3. /\ Cardinality(Holders) \in Nat /\ Cardinality(Holders') \in Nat
        /\ Cardinality(Holders) <= Cardinality(Holders')
    BY <2>2, HoldersGrow DEF TypeInv
  <2>4. created' \in Nat /\ created' <= Cardinality(Holders')
    BY <1>1, <2>3 DEF TypeInv, TypeOK, Counted, Lookup
  <2>5. \A y \in Requests : at'[y] \in Without => agent'[y] = NoAgent
    BY <1>1 DEF TypeInv, TypeOK, Counted, Lookup, Go
  <2> QED BY <2>1, <2>4, <2>5 DEF TypeInv, Counted
<1>2. CASE Lookup(x, next) /\ registered = NoAgent /\ Rest
  BY <1>2, Unheld DEF TypeInv, TypeOK, Lookup, Go
<1>3. CASE Create(x) /\ Rest
  <2>1. at[x] \in Without /\ GetOrCreate(x)
    BY <1>3 DEF Create, Go
  <2>2. \A y \in Requests : at'[y] \in Without => at[y] \in Without /\ y # x
    BY <1>3 DEF Create, Go, TypeInv, TypeOK
  <2>3. Counted' /\ created' \in Nat /\ cached' \in Agents /\ agent' \in [Requests -> Agents \cup {NoAgent}]
    BY <2>1, <2>2, CreateTyped
  <2> QED BY <1>3, <2>3 DEF TypeInv, TypeOK, Create, Go
<1>4. CASE Register(x, next) /\ Rest
  BY <1>4, Unheld DEF TypeInv, TypeOK, Register, Go
<1> QED
  BY <1>1, <1>2, <1>3, <1>4 DEF SessionAgent, Lookup

(* The numbers given to agents never exceed the number of requests: the     *)
(* inductive form of TypeOK.                                                *)
LEMMA TypeInvStep ==
  TypeInv /\ [Next]_vars => TypeInv'
<1> SUFFICES ASSUME TypeInv, [Next]_vars
             PROVE  TypeInv'
  OBVIOUS
<1> USE DEF PromptStages, SteerStages, CloseStages, LoadStages
<1> DEFINE Quietly == agent' = agent /\ created' = created
<1>1. ASSUME NEW p \in Prompts, Prompt(p) \/ StreamEnds(p)
      PROVE  TypeInv'
  <2> p \in Requests /\ p # None
    BY RequestsAssumption DEF Requests
  <2>1. CASE \/ CheckNotClosed(p) \/ InsertRun(p) \/ CheckOpen(p) \/ Begin(p) \/ Drain(p)
             \/ SeeCancel(p) \/ RemoveRun(p) \/ DiscardSteers(p) \/ CheckClosed(p)
             \/ DropSession(p) \/ DropAgent(p) \/ StreamEnds(p) \/ CreateFails(p, "remove")
    <3>1. TypeOK'
      BY <2>1 DEF TypeInv, TypeOK, CheckNotClosed, InsertRun, CheckOpen, Begin, Drain, SeeCancel,
                  RemoveRun, DiscardSteers, CheckClosed, DropSession, DropAgent, StreamEnds,
                  CreateFails, Go
    <3>2. Quietly /\ \A x \in Requests : at'[x] \in Without => at[x] \in Without
      BY <2>1 DEF TypeInv, TypeOK, CheckNotClosed, InsertRun, CheckOpen, Begin, Drain, SeeCancel,
                  RemoveRun, DiscardSteers, CheckClosed, DropSession, DropAgent, StreamEnds,
                  CreateFails, Go, Without
    <3> QED BY <3>1, <3>2, Unheld DEF TypeInv
  <2>2. CASE SessionAgent(p, "begin")
    BY <2>2, SessionAgentTyped
  <2> QED BY <1>1, <2>1, <2>2 DEF Prompt
<1>2. ASSUME NEW s \in Steers, Steer(s)
      PROVE  TypeInv'
  <2> s \in Requests
    BY DEF Requests
  <2>1. CASE \/ SteerRequest(s) \/ SteerCheckOpen(s) \/ RequireAgain(s) \/ Push(s)
             \/ CreateFails(s, "refused")
    <3>1. TypeOK'
      BY <2>1 DEF TypeInv, TypeOK, SteerRequest, SteerCheckOpen, RequireAgain, Push, CreateFails, Go
    <3>2. Quietly /\ \A x \in Requests : at'[x] \in Without => at[x] \in Without
      BY <2>1 DEF TypeInv, TypeOK, SteerRequest, SteerCheckOpen, RequireAgain, Push, CreateFails, Go,
                  Without
    <3> QED BY <3>1, <3>2, Unheld DEF TypeInv
  <2>2. CASE SessionAgent(s, "recheck")
    BY <2>2, SessionAgentTyped
  <2> QED BY <1>2, <2>1, <2>2 DEF Steer
<1>3. ASSUME NEW x \in Closers, Close(x)
      PROVE  TypeInv'
  <2> x \in Requests
    BY DEF Requests
  <2>1. TypeOK'
    BY <1>3 DEF TypeInv, TypeOK, Close, CloseSession, CancelClosed, DropSession, DropAgent, Go
  <2>2. Quietly /\ \A y \in Requests : at'[y] \in Without => at[y] \in Without
    BY <1>3 DEF TypeInv, TypeOK, Close, CloseSession, CancelClosed, DropSession, DropAgent, Go,
                Without
  <2> QED BY <2>1, <2>2, Unheld DEF TypeInv
<1>4. ASSUME NEW x \in Loaders, Load(x)
      PROVE  TypeInv'
  <2> x \in Requests
    BY DEF Requests
  <2>1. CASE LoadAgent(x)
    <3>1. at[x] \in Without /\ GetOrCreate(x)
      BY <2>1 DEF LoadAgent, Go, Without
    <3>2. \A y \in Requests : at'[y] \in Without => at[y] \in Without /\ y # x
      BY <2>1 DEF LoadAgent, Go, TypeInv, TypeOK, Without
    <3>3. /\ Counted' /\ created' \in Nat /\ cached' \in Agents
          /\ agent' \in [Requests -> Agents \cup {NoAgent}]
      BY <3>1, <3>2, CreateTyped
    <3> QED BY <2>1, <3>3 DEF TypeInv, TypeOK, LoadAgent, Go
  <2>2. CASE LoadRegister(x)
    BY <2>2, SessionAgentTyped DEF LoadRegister
  <2>3. CASE PrepareLoad(x) \/ Reopen(x) \/ LoadFails(x)
    <3>1. TypeOK'
      BY <2>3 DEF TypeInv, TypeOK, PrepareLoad, Reopen, LoadFails, Go
    <3>2. Quietly /\ \A y \in Requests : at'[y] \in Without => at[y] \in Without
      BY <2>3 DEF TypeInv, TypeOK, PrepareLoad, Reopen, LoadFails, Go, Without
    <3> QED BY <3>1, <3>2, Unheld DEF TypeInv
  <2> QED BY <1>4, <2>1, <2>2, <2>3 DEF Load
<1>5. CASE Cancel
  BY <1>5, Unheld DEF TypeInv, TypeOK, Cancel
<1>6. CASE UNCHANGED vars
  BY <1>6, Unheld DEF TypeInv, TypeOK, vars
<1> QED
  BY <1>1, <1>2, <1>3, <1>4, <1>5, <1>6 DEF Next

LEMMA TypeInvInit == Init => TypeInv
<1> SUFFICES ASSUME Init PROVE TypeInv
  OBVIOUS
<1>1. Holders = {}
  BY DEF Init, Holders
<1>2. created <= Cardinality(Holders)
  BY <1>1, FS_EmptySet DEF Init
<1> QED
  BY <1>2 DEF Init, TypeInv, TypeOK, Counted, PromptStages

(* Every reachable state of the session has the shape TypeOK describes;     *)
(* in particular the agents a run of the handlers creates are no more than  *)
(* the requests that ask for one.                                           *)
THEOREM TypeCorrect == Spec => []TypeOK
<1>1. Spec => []TypeInv
  BY TypeInvInit, TypeInvStep, PTL DEF Spec
<1> QED
  BY <1>1, PTL DEF TypeInv

-----------------------------------------------------------------------------
(* One run at a time *)

(* A run is let in only when the table is empty, and taken out only by      *)
(* itself.                                                                  *)
LEMMA RunsExcludeStep ==
  ASSUME TypeOK, RunsExclude, [Next]_vars
  PROVE  RunsExclude'
<1> USE DEF RunsExclude, InProgress
<1>1. ASSUME NEW p \in Prompts, Prompt(p) \/ StreamEnds(p)
      PROVE  RunsExclude'
  <2> p \in Requests /\ p # None /\ Prompts \subseteq Requests
    BY RequestsAssumption DEF Requests
  <2>1. CASE InsertRun(p) \/ RemoveRun(p)
    BY <2>1, RequestsAssumption DEF TypeOK, InsertRun, RemoveRun, Go
  <2>2. CASE CheckNotClosed(p) \/ CheckOpen(p) \/ Begin(p) \/ Drain(p) \/ SeeCancel(p) \/ StreamEnds(p)
    BY <2>2 DEF TypeOK, CheckNotClosed, CheckOpen, Begin, Drain, SeeCancel, StreamEnds, Go
  <2>3. CASE DiscardSteers(p) \/ CheckClosed(p) \/ DropSession(p) \/ DropAgent(p)
    BY <2>3 DEF TypeOK, DiscardSteers, CheckClosed, DropSession, DropAgent, Go
  <2>4. CASE SessionAgent(p, "begin") \/ CreateFails(p, "remove")
    BY <2>4 DEF TypeOK, SessionAgent, Lookup, Create, CreateFails, Register, Go
  <2> QED BY <1>1, <2>1, <2>2, <2>3, <2>4 DEF Prompt
<1>2. ASSUME NEW x \in Requests \ Prompts, NEW to, at' = [at EXCEPT ![x] = to], active' = active
      PROVE  RunsExclude'
  BY <1>2 DEF TypeOK, Requests
<1>3. ASSUME NEW s \in Steers, Steer(s)
      PROVE  RunsExclude'
  <2>1. s \in Requests \ Prompts
    BY KindsAssumption DEF Requests
  <2>2. active' = active /\ \E to : at' = [at EXCEPT ![s] = to]
    BY <1>3 DEF Steer, SteerRequest, SteerCheckOpen, SessionAgent, Lookup, Create, CreateFails,
                Register, RequireAgain, Push, Go
  <2> QED BY <1>2, <2>1, <2>2
<1>4. ASSUME NEW x \in Closers, Close(x)
      PROVE  RunsExclude'
  <2>1. x \in Requests \ Prompts
    BY KindsAssumption DEF Requests
  <2>2. active' = active /\ \E to : at' = [at EXCEPT ![x] = to]
    BY <1>4 DEF Close, CloseSession, CancelClosed, DropSession, DropAgent, Go
  <2> QED BY <1>2, <2>1, <2>2
<1>5. ASSUME NEW x \in Loaders, Load(x)
      PROVE  RunsExclude'
  <2>1. x \in Requests \ Prompts
    BY KindsAssumption DEF Requests
  <2>2. active' = active /\ \E to : at' = [at EXCEPT ![x] = to]
    BY <1>5 DEF Load, PrepareLoad, LoadAgent, LoadRegister, Register, Reopen, LoadFails, Go
  <2> QED BY <1>2, <2>1, <2>2
<1>6. CASE Cancel \/ UNCHANGED vars
  BY <1>6 DEF Cancel, vars
<1> QED
  BY <1>1, <1>3, <1>4, <1>5, <1>6 DEF Next

LEMMA RunsExcludeInit == Init => RunsExclude
BY RequestsAssumption DEF Init, RunsExclude, InProgress, Requests

(* However the handlers interleave, the run that drives the session is the  *)
(* one in the table of active runs, so there is never a second one.         *)
THEOREM OneRunAtATime == Spec => []RunsExclude
BY TypeCorrect, RunsExcludeInit, RunsExcludeStep, PTL DEF Spec

-----------------------------------------------------------------------------
(* A close does not miss a run *)

(* The inductive form of CloseCancels: as soon as no close is between its   *)
(* mark and its look at the table, a run that passed its own look at the    *)
(* mark is cancelled.                                                       *)
LetIn(p) == at[p] \in {"lookup", "create", "register", "begin", "running"}

Caught ==
  closed /\ (\A x \in Closers : at[x] # "cancel") => \A p \in Prompts : LetIn(p) => p \in cancelled

LEMMA CaughtStep ==
  ASSUME TypeOK, RunsExclude, Caught, [Next]_vars
  PROVE  Caught'
<1> USE DEF Caught, LetIn
<1> /\ Prompts \subseteq Requests /\ Closers \subseteq Requests
    /\ Prompts \cap Closers = {}
  BY KindsAssumption DEF Requests
<1>1. ASSUME NEW p \in Prompts, Prompt(p) \/ StreamEnds(p)
      PROVE  Caught'
  <2>1. /\ closed' = closed /\ cancelled' = cancelled
        /\ \A x \in Requests \ {p} : at'[x] = at[x]
        /\ LetIn(p)' => LetIn(p) \/ ~closed
    BY <1>1 DEF TypeOK, Prompt, CheckNotClosed, InsertRun, CheckOpen, Begin, Drain, SeeCancel,
                RemoveRun, DiscardSteers, CheckClosed, DropSession, DropAgent, StreamEnds,
                SessionAgent, Lookup, Create, CreateFails, Register, Go
  <2> QED BY <2>1
<1>2. ASSUME NEW x \in Requests \ (Prompts \cup Closers), \E to : at' = [at EXCEPT ![x] = to],
             closed' => closed, cancelled' = cancelled
      PROVE  Caught'
  BY <1>2 DEF TypeOK
<1>3. ASSUME NEW s \in Steers, Steer(s)
      PROVE  Caught'
  <2>1. s \in Requests \ (Prompts \cup Closers)
    BY KindsAssumption DEF Requests
  <2>2. closed' = closed /\ cancelled' = cancelled /\ \E to : at' = [at EXCEPT ![s] = to]
    BY <1>3 DEF Steer, SteerRequest, SteerCheckOpen, SessionAgent, Lookup, Create, CreateFails,
                Register, RequireAgain, Push, Go
  <2> QED BY <1>2, <2>1, <2>2
<1>4. ASSUME NEW x \in Closers, Close(x)
      PROVE  Caught'
  <2>1. CASE CloseSession(x)
    BY <2>1 DEF CloseSession, Go, TypeOK
  <2>2. CASE CancelClosed(x)
    <3>1. \A p \in Prompts : LetIn(p)' => active = p
      BY <2>2 DEF CancelClosed, Go, TypeOK, RunsExclude, InProgress
    <3> QED BY <2>2, <3>1, RequestsAssumption DEF CancelClosed
  <2>3. CASE DropSession(x) \/ DropAgent(x)
    BY <2>3 DEF DropSession, DropAgent, Go, TypeOK
  <2> QED BY <1>4, <2>1, <2>2, <2>3 DEF Close
<1>5. ASSUME NEW x \in Loaders, Load(x)
      PROVE  Caught'
  <2>1. x \in Requests \ (Prompts \cup Closers)
    BY KindsAssumption DEF Requests
  <2>2. (closed' => closed) /\ cancelled' = cancelled /\ \E to : at' = [at EXCEPT ![x] = to]
    BY <1>5 DEF Load, PrepareLoad, LoadAgent, LoadRegister, Register, Reopen, LoadFails, Go
  <2> QED BY <1>2, <2>1, <2>2
<1>6. CASE Cancel
  BY <1>6 DEF Cancel
<1>7. CASE UNCHANGED vars
  BY <1>7 DEF vars
<1> QED
  BY <1>1, <1>3, <1>4, <1>5, <1>6, <1>7 DEF Next

(* A close request that is through has cancelled every run of the session   *)
(* that got past its own check, wherever the two met.                       *)
THEOREM CloseReachesRuns == Spec => []CloseCancels
<1>1. Init => Caught
  BY DEF Init, Caught
<1>2. Spec => []Caught
  BY <1>1, TypeCorrect, OneRunAtATime, CaughtStep, PTL DEF Spec
<1>3. Caught => CloseCancels
  BY DEF Caught, LetIn, CloseCancels
<1> QED
  BY <1>2, <1>3, PTL

-----------------------------------------------------------------------------
(* A closed session is released *)

(* The inductive form of ClosedIsReleased: an agent that a closed session   *)
(* still has is one the property excuses, one that a load under way is      *)
(* going to be excused for unless it reopens the session, or one that a     *)
(* prompt or a close on its way is going to drop.                           *)
Excused(a) ==
  \/ a = NoAgent \/ Revived(a)
  \/ \E x \in Loaders : at[x] \in {"register", "reopen"} /\ agent[x] = a

Dropping(stages) ==
  \/ \E x \in Closers : at[x] \in {"cancel", "dropSession"} \cup stages
  \/ \E p \in Prompts :
       at[p] \in {"open", "lookup", "create", "register", "begin", "running", "remove", "discard",
                 "check", "dropSession"} \cup stages

Releasing ==
  closed => /\ Excused(registered) \/ Dropping({})
            /\ Excused(cached) \/ Dropping({"dropAgent"})

(* An agent stays excused whatever a request does, unless a load succeeds:  *)
(* no request lets go of an agent, and a load that has failed has failed.   *)
LEMMA ExcusedStays ==
  ASSUME TypeInv, NEW x \in Requests, NEW to, NEW b, NEW a, Excused(a),
         at' = [at EXCEPT ![x] = to], agent' = [agent EXCEPT ![x] = b],
         b = agent[x] \/ agent[x] = NoAgent,
         x \in Loaders =>
           /\ at[x] # "refused"
           /\ (at[x] \in {"register", "reopen"} => to \in {"register", "reopen", "refused"})
  PROVE  Excused(a)'
<1> Steers \subseteq Requests /\ Loaders \subseteq Requests
  BY DEF Requests
<1>1. CASE a = NoAgent
  BY <1>1 DEF Excused
<1>2. \A y \in Requests : agent[y] = a /\ a # NoAgent => agent'[y] = a
  BY DEF TypeInv, TypeOK
<1>3. ASSUME NEW s \in Steers, agent[s] = a, a # NoAgent
      PROVE  Excused(a)'
  BY <1>2, <1>3 DEF Excused, Revived
<1>4. ASSUME NEW y \in Loaders, at[y] \in {"register", "reopen", "refused"}, agent[y] = a, a # NoAgent
      PROVE  Excused(a)'
  <2>1. at'[y] \in {"register", "reopen", "refused"}
    BY <1>4 DEF TypeInv, TypeOK, LoadStages
  <2> QED BY <1>2, <1>4, <2>1 DEF Excused, Revived
<1> QED
  BY <1>1, <1>3, <1>4 DEF Excused, Revived

LEMMA ReleasingStep ==
  ASSUME TypeInv, RunsExclude, Releasing, [Next]_vars
  PROVE  Releasing'
<1> USE DEF Releasing
<1> TypeOK
  BY DEF TypeInv
<1> /\ Prompts \subseteq Requests /\ Closers \subseteq Requests
    /\ Steers \subseteq Requests /\ Loaders \subseteq Requests
  BY DEF Requests
<1> DEFINE Stay == \A a : Excused(a) => Excused(a)'
<1>1. ASSUME NEW p \in Prompts, Prompt(p) \/ StreamEnds(p)
      PROVE  Releasing'
  <2>1. p \notin Loaders /\ p \notin Closers
    BY KindsAssumption
  <2>2. CASE \/ CheckNotClosed(p) \/ InsertRun(p) \/ CheckOpen(p) \/ CreateFails(p, "remove")
             \/ Begin(p) \/ Drain(p) \/ SeeCancel(p) \/ StreamEnds(p) \/ DiscardSteers(p)
             \/ RemoveRun(p) \/ CheckClosed(p) \/ DropSession(p) \/ DropAgent(p)
    <3>1. /\ closed' = closed /\ agent' = agent /\ \E to : at' = [at EXCEPT ![p] = to]
          /\ registered' \in {registered, NoAgent} /\ cached' \in {cached, NoAgent}
      BY <2>2 DEF TypeOK, CheckNotClosed, InsertRun, CheckOpen, CreateFails, Begin, Drain, SeeCancel,
                  StreamEnds, DiscardSteers, RemoveRun, CheckClosed, DropSession, DropAgent, Go
    <3>2. agent' = [agent EXCEPT ![p] = agent[p]]
      BY <3>1 DEF TypeOK
    <3>3. Stay
      BY <2>1, <3>1, <3>2, ExcusedStays
    <3>4. closed /\ Dropping({}) => registered' = NoAgent \/ Dropping({})'
      <4>1. RemoveRun(p) => active = p
        BY DEF RemoveRun, Go, RunsExclude, InProgress
      <4> QED
        BY <2>2, <4>1 DEF TypeOK, CheckNotClosed, InsertRun, CheckOpen, CreateFails, Begin, Drain,
              SeeCancel, StreamEnds, DiscardSteers, RemoveRun, CheckClosed, DropSession, DropAgent, Go,
              Dropping
    <3>5. closed /\ Dropping({"dropAgent"}) => cached' = NoAgent \/ Dropping({"dropAgent"})'
      <4>1. RemoveRun(p) => active = p
        BY DEF RemoveRun, Go, RunsExclude, InProgress
      <4> QED
        BY <2>2, <4>1 DEF TypeOK, CheckNotClosed, InsertRun, CheckOpen, CreateFails, Begin, Drain,
              SeeCancel, StreamEnds, DiscardSteers, RemoveRun, CheckClosed, DropSession, DropAgent, Go,
              Dropping
    <3> QED BY <3>1, <3>3, <3>4, <3>5 DEF Excused, Revived
  <2>3. CASE SessionAgent(p, "begin")
    <3>1. at'[p] \in {"create", "register", "begin"}
      BY <2>3 DEF TypeOK, SessionAgent, Lookup, Create, GetOrCreate, Register, Go
    <3> QED BY <3>1 DEF Dropping
  <2> QED BY <1>1, <2>2, <2>3 DEF Prompt
<1>2. ASSUME NEW x \in Requests \ (Prompts \cup Closers), NEW to, at' = [at EXCEPT ![x] = to]
      PROVE  /\ Dropping({}) => Dropping({})'
             /\ Dropping({"dropAgent"}) => Dropping({"dropAgent"})'
  BY <1>2 DEF TypeOK, Dropping
<1>3. ASSUME NEW s \in Steers, Steer(s)
      PROVE  Releasing'
  <2>1. s \in Requests \ (Prompts \cup Closers) /\ s \notin Loaders
    BY KindsAssumption
  <2>2. /\ closed' = closed
        /\ \E to : at' = [at EXCEPT ![s] = to]
        /\ agent'[s] = agent[s] \/ agent[s] = NoAgent
        /\ agent' = [agent EXCEPT ![s] = agent'[s]]
        /\ registered' \in {registered, agent'[s]} /\ cached' \in {cached, agent'[s]}
    BY <1>3 DEF TypeInv, TypeOK, Counted, Without, Steer, SteerRequest, SteerCheckOpen, SessionAgent,
                Lookup, Create, CreateFails, GetOrCreate, Register, RequireAgain, Push, Go
  <2>3. Stay
    BY <2>1, <2>2, ExcusedStays
  <2> QED BY <1>2, <2>1, <2>2, <2>3 DEF Excused, Revived
<1>4. ASSUME NEW x \in Closers, Close(x)
      PROVE  Releasing'
  <2>1. CASE CloseSession(x) \/ CancelClosed(x)
    <3>1. at'[x] \in {"cancel", "dropSession"}
      BY <2>1 DEF TypeOK, CloseSession, CancelClosed, Go
    <3> QED BY <3>1 DEF Dropping
  <2>2. CASE DropSession(x) \/ DropAgent(x)
    <3>1. /\ closed' = closed /\ agent' = agent /\ \E to : at' = [at EXCEPT ![x] = to]
          /\ registered' \in {registered, NoAgent} /\ cached' \in {cached, NoAgent}
      BY <2>2 DEF TypeOK, DropSession, DropAgent, Go
    <3>2. agent' = [agent EXCEPT ![x] = agent[x]] /\ x \notin Loaders
      BY <3>1, KindsAssumption DEF TypeOK
    <3>3. Stay
      BY <3>1, <3>2, ExcusedStays
    <3>4. /\ Dropping({}) => registered' = NoAgent \/ Dropping({})'
          /\ Dropping({"dropAgent"}) => cached' = NoAgent \/ Dropping({"dropAgent"})'
      BY <2>2 DEF TypeOK, DropSession, DropAgent, Go, Dropping
    <3> QED BY <3>1, <3>3, <3>4 DEF Excused, Revived
  <2> QED BY <1>4, <2>1, <2>2 DEF Close
<1>5. ASSUME NEW x \in Loaders, Load(x)
      PROVE  Releasing'
  <2>1. x \in Requests \ (Prompts \cup Closers)
    BY KindsAssumption
  <2>2. CASE Reopen(x)
    BY <2>2 DEF Reopen
  <2>3. CASE PrepareLoad(x) \/ LoadAgent(x) \/ LoadRegister(x) \/ LoadFails(x)
    <3>1. /\ closed' = closed
          /\ at[x] # "refused"
          /\ \E to : /\ at' = [at EXCEPT ![x] = to]
                    /\ (at[x] \in {"register", "reopen"} => to \in {"register", "reopen", "refused"})
          /\ agent'[x] = agent[x] \/ agent[x] = NoAgent
          /\ agent' = [agent EXCEPT ![x] = agent'[x]]
      BY <2>3 DEF TypeInv, TypeOK, Counted, Without, PrepareLoad, LoadAgent, LoadRegister, LoadFails,
                  GetOrCreate, Register, Go
    <3>2. Stay
      BY <3>1, ExcusedStays
    <3>3. /\ registered' = registered \/ Excused(registered)'
          /\ cached' = cached \/ Excused(cached)'
      BY <2>3 DEF TypeOK, PrepareLoad, LoadAgent, LoadRegister, LoadFails, GetOrCreate, Register, Go,
                  Excused
    <3>4. /\ Dropping({}) => Dropping({})'
          /\ Dropping({"dropAgent"}) => Dropping({"dropAgent"})'
      BY <1>2, <2>1, <3>1
    <3>5. /\ Excused(registered) => Excused(registered)'
          /\ Excused(cached) => Excused(cached)'
      BY <3>2, <3>3 DEF Excused, Revived
    <3> QED BY <3>1, <3>3, <3>4, <3>5
  <2> QED BY <1>5, <2>2, <2>3 DEF Load
<1>6. CASE Cancel \/ UNCHANGED vars
  BY <1>6 DEF Cancel, vars, Excused, Revived, Dropping
<1> QED
  BY <1>1, <1>3, <1>4, <1>5, <1>6 DEF Next

(* When every request is through, a session that is closed has no agent in  *)
(* memory but what a steer request or a failed load left there: whichever   *)
(* prompt or close was the last to touch it dropped it on its way out.      *)
THEOREM ClosedSessionIsReleased == Spec => []ClosedIsReleased
<1>1. Init => Releasing
  BY DEF Init, Releasing
<1>2. Spec => []TypeInv
  BY TypeInvInit, TypeInvStep, PTL DEF Spec
<1>3. Spec => []Releasing
  BY <1>1, <1>2, OneRunAtATime, ReleasingStep, PTL DEF Spec
<1>4. ASSUME TypeOK, Releasing
      PROVE  ClosedIsReleased
  BY <1>4 DEF TypeOK, Releasing, Excused, Dropping, Quiet, ClosedIsReleased, Requests
<1> QED
  BY <1>2, <1>3, <1>4, PTL DEF TypeInv

=============================================================================

--------------------------- MODULE RequestHistory ---------------------------
(***************************************************************************)
(* The turn machine with the requests it sends: every inference projects   *)
(* the snapshot its step works on (ProviderRequest), so a request depends  *)
(* on all the operations, crashes and cancellations that shaped the        *)
(* conversation before it.  Both variables are history variables.          *)
(***************************************************************************)
EXTENDS TurnProperties, ProviderRequest

LOCAL Seqs == INSTANCE SequencesExt

VARIABLES
  sent,      \* the last request, since the conversation was last rewritten
  withheld   \* tool requests a request was sent without, because they were open

requestVars == <<vars, sent, withheld>>

InferenceBegins == pc = "llm" /\ pc' = "provider"

(* A compaction or a retry replaces the conversation. *)
Rewritten == pc = "apply" /\ effects # <<>> /\ Head(effects).op = "replace" /\ effects' = Tail(effects)

Blocks(q) == Seqs!FlattenSeq([k \in DOMAIN q |-> q[k].blocks])

RequestsIn(q) == UNION {IdsOfType(q[k], "request") : k \in DOMAIN q}

ShownRequests(c) == UNION {c[i].ids : i \in {j \in ForProvider(c) : c[j].kind = "request"}}

RecordRequest ==
  IF InferenceBegins
  THEN /\ sent' = RequestFor(snap)
       /\ withheld' = withheld \cup (ShownRequests(snap) \ RequestsIn(sent'))
  ELSE /\ sent' = IF Rewritten THEN <<>> ELSE sent
       /\ UNCHANGED withheld

RequestInit == Init /\ sent = <<>> /\ withheld = {}
RequestNext == Next /\ RecordRequest

RequestSpec == RequestInit /\ [][RequestNext]_requestVars

(* Fairness as in TurnMachine!FairSpec. *)
RequestFairSpec == RequestSpec /\ WF_vars(Machine)

-----------------------------------------------------------------------------
(* What a strict provider asks of a request: the user speaks first and      *)
(* last, and the message after a tool request answers it.                   *)
Accepted(q, exempt) ==
  /\ Head(q).role = "user" /\ Last(q).role = "user"
  /\ \A k \in 1 .. Len(q) - 1 :
       /\ IdsOfType(q[k], "request") \ exempt \subseteq IdsOfType(q[k + 1], "response")
       /\ IdsOfType(q[k + 1], "response") \ exempt \subseteq IdsOfType(q[k], "request")

(* Every request the machine sends has its tool calls answered in the next  *)
(* message, whatever cut the turn into steps: a stream that failed after a  *)
(* call, calls answered one at a time, a steer between two answers, a       *)
(* compaction that hides a call whose response is still to come (the        *)
(* repairs of fix_conversation).  Exempt are calls an earlier request was   *)
(* sent without: inference goes on while a call waits for the user, and the *)
(* late response stands behind the text it produced.                        *)
RequestIsAccepted == [][InferenceBegins => Accepted(sent', withheld)]_requestVars

Kept(q) == SelectSeq(Blocks(q), LAMBDA b : b.of \notin withheld)

(* Requests only grow: what a provider has seen stays where it was (the     *)
(* promise of tests/prefix_invariance.rs), from one inference to the next,  *)
(* across steers, failed streams and runs that are taken up again.  Exempt  *)
(* are calls that were withheld and then answered, which appear in the      *)
(* middle, and conversations a compaction or a retry rewrote.               *)
RequestsExtend == [][InferenceBegins => Seqs!IsPrefix(Kept(sent), Kept(sent'))]_requestVars

=============================================================================

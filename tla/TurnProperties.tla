--------------------------- MODULE TurnProperties ---------------------------
(***************************************************************************)
(* What the turn state machine promises.  The module is checked by TLC     *)
(* through MCTurn and proved about in TurnProofs, PermissionProofs,        *)
(* TurnBoundsProofs and ToolCallProofs.                                    *)
(***************************************************************************)
EXTENDS TurnMachine

(* Shape of the state. *)
TypeOK ==
  /\ conv \in Seq(Message) /\ snap \in Seq(Message)
  /\ level \in [Tools -> {"default", "allow", "deny"}]
  /\ over \in BOOLEAN /\ goal \in BOOLEAN /\ grind \in BOOLEAN
  /\ queue \in Nat
  /\ pc \in Operations \cup {"idle", "load", "tools", "provider", "apply"}
  /\ effects \in Seq(Effect)
  /\ yielding \in BOOLEAN /\ cancelled \in BOOLEAN
  /\ running \subseteq Requests
  /\ executed \in [Requests -> Nat] /\ emitted \subseteq Requests
  /\ answers \subseteq Requests \X Answers
  /\ calls \in Nat /\ resets \in Nat
  /\ used \in [prompts: Nat, steers: Nat, errors: Nat, crashes: Nat]

-----------------------------------------------------------------------------
(* Tool requests *)

(* What entitles the agent to execute r: the user allowed this request, or  *)
(* the inspectors approve it under the user's standing permissions.         *)
Permitted(r) ==
  /\ \A ans \in Denying : <<r, ans>> \notin answers
  /\ (\E ans \in Allowing : <<r, ans>> \in answers) \/ Verdict(r, level) = "approved"

(* A tool runs only with permission (ops_tool_approval before              *)
(* ops_toolcalling and ops_recipe), whatever the order in which answers,   *)
(* cancellations and crashes fall between the marking of a request, the    *)
(* question to the user and the dispatch.                                  *)
ExecutionIsPermitted ==
  [][\A r \in Requests : executed'[r] > executed[r] => Permitted(r)]_vars

(* A request is executed at most once, plus once for each time the run was *)
(* cut off after the dispatch and before the response was stored: the      *)
(* persisted response is all that keeps the re-entrant machine from        *)
(* dispatching the request again.                                          *)
ExecutedOnce == \A r \in Requests : executed[r] <= 1 + used.crashes

(* No request gets a second response, whichever of the tool operation, the *)
(* recipe, the unknown-tool operation and the cancellation of an inference *)
(* answers it, and however runs are cut off and resumed.                   *)
AnsweredOnce ==
  \A i, j \in DOMAIN conv :
    i # j /\ conv[i].kind = "response" /\ conv[j].kind = "response"
      => conv[i].ids \cap conv[j].ids = {}

(* Requests that may stay open when no operation applies: the user has yet  *)
(* to decide, or it is the recipe's final output behind such a sibling.     *)
AwaitsUser(c, i) == RequestAt(c, i) \in Asked(c) /\ ~HasAnswer(c, RequestAt(c, i), Answers)

MayWait(c, i) ==
  \/ AwaitsUser(c, i)
  \/ /\ FinalOutput /\ RequestAt(c, i) \in Final
     /\ \E j \in Unanswered(c) : AwaitsUser(c, j)

(* When a run stops because no operation applies, every open request of    *)
(* the turn waits for the user: none, be it malformed, unknown, denied or  *)
(* half-marked before a crash, is left without anybody to answer it.       *)
NothingLeftBehind ==
  [][pc = "llm" /\ pc' = "idle" /\ ~cancelled /\ used'.crashes = used.crashes
       => \A i \in Unanswered(snap) : MayWait(snap, i)]_vars

(* Once a cancelled run has ended by itself after an inference was offered *)
(* or open, all requests of the turn it worked on are answered: approving  *)
(* one of them later cannot run it (InferenceRunner::cancel).              *)
RespondedIn(effs, r) ==
  \E k \in DOMAIN effs :
    effs[k].op = "append" /\ effs[k].msg.kind = "response" /\ r \in effs[k].msg.ids

CancelledRunCloses ==
  [][cancelled /\ pc \in {"llm", "provider"} /\ pc' # pc /\ used'.crashes = used.crashes
       => \A r \in IdsOf(snap, "request") :
            r \in AnsweredEver(snap) \/ RespondedIn(effects', r)]_vars

-----------------------------------------------------------------------------
(* The end of a turn *)

(* Between two inputs of the user, or two retries, the provider is called  *)
(* at most MaxTurns times, plus once per interrupted run: goal and grind   *)
(* reminders, Stop-hook denials and compactions do not extend the budget   *)
(* (ops_maxturns; cli.rs: "Maximum number of turns allowed without user    *)
(* input").                                                                *)
TurnBudget == calls <= MaxTurns + used.crashes

(* The run ends with the max-turns message only when the provider was       *)
(* called MaxTurns times (the test                                          *)
(* max_turns_counts_inference_calls_and_injects_budget).                    *)
BudgetCountsInferences ==
  [][pc = "max_turns" /\ pc' = "apply" => calls >= MaxTurns]_vars

(* A recipe's success checks restart a turn at most MaxRetries times       *)
(* between two inputs of the user (ops_retry keeps the count on the        *)
(* kickoff message, which must outlive every reset), plus once per         *)
(* interrupted run.                                                        *)
RetriesBounded == resets <= MaxRetries + used.crashes

(* A Stop hook cannot keep the agent from stopping for ever: at most       *)
(* BlockCap denials stand in a turn.                                       *)
DenialsBounded == HasKickoff(conv) => Cardinality(Denials(conv)) <= BlockCap

(* At most MaxContextErrorCompactions context-length errors of a turn are   *)
(* answered by a compaction, and the next one ends the run: compactions,    *)
(* which rewrite the turn, keep the errors that count them.                 *)
ReactiveCompactions(c) ==
  {i \in Turn(c) : i > 1 /\ c[i].kind = "summary" /\ c[i - 1].kind = "contextError"}

ReactiveCompactionsBounded ==
  HasKickoff(conv) => Cardinality(ReactiveCompactions(conv)) <= MaxContextErrorCompactions

(* Guidance the user queued is in the queue, on its way to the store or in *)
(* the conversation, as long as no run was cut off: neither a retry nor a  *)
(* compaction, which rewrite the conversation from a snapshot, loses it.   *)
SteersIn(c)  == Cardinality({i \in DOMAIN c : c[i].note = "steer"})
SteersIn2(effs) ==
  Cardinality({k \in DOMAIN effs : effs[k].op = "append" /\ effs[k].msg.note = "steer"})

SteersKept ==
  used.crashes = 0 => SteersIn(conv) + SteersIn2(effects) + queue = used.steers

(* A run of a recipe with a response schema that reaches the Stop hooks at  *)
(* the end of a turn has produced the structured output, with a response    *)
(* for every tool call that came with it, or the user has yet to decide on  *)
(* a call that holds it up (ops_recipe).                                    *)
EndsWithOutput(c) ==
  EndsTurn(c) => SuccessfulFinalOutput(c) \/ \E i \in Unanswered(c) : AwaitsUser(c, i)

RecipeEndsWithOutput ==
  [][FinalOutput /\ pc = "stop_hook" /\ pc' = "apply" => EndsWithOutput(snap)]_vars

(* Every run ends: operations that apply without yielding cannot keep the   *)
(* machine going for ever.                                                  *)
RunEnds == pc # "idle" ~> pc = "idle"

=============================================================================

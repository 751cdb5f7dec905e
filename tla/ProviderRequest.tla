--------------------------- MODULE ProviderRequest ---------------------------
(***************************************************************************)
(* The request an inference sends: the agent-visible conversation after    *)
(* the repairs of fix_conversation (goose-provider-types/conversation.rs)  *)
(* and the merging a provider that wants alternating roles needs.          *)
(*                                                                         *)
(* A message of a request has a role, the visibility it was stored with    *)
(* and a sequence of blocks: text, a tool request or a tool response.      *)
(* The passes that only rewrite a text or a thinking block (merging and    *)
(* trimming of text, placeholders for empty results, repeated signed       *)
(* thinking) are left out with the texts, and so are turn-context events.  *)
(***************************************************************************)
EXTENDS Conversation

LOCAL Seqs == INSTANCE SequencesExt

Piece(type, of)         == [type |-> type, of |-> of]
Wired(role, uv, blocks) == [role |-> role, uv |-> uv, blocks |-> blocks]

(* A stored message as the provider sees it.  A compaction's summary is a   *)
(* message in the user's name and one that tells the agent to go on.        *)
Wire(m) ==
  CASE m.kind = "request" ->
         <<Wired("assistant", m.uv, <<Piece("request", CHOOSE r \in m.ids : TRUE)>>)>>
    [] m.kind = "response" ->
         <<Wired("user", m.uv, [k \in 1 .. Cardinality(m.ids) |->
                                  Piece("response", Seqs!SetToSeq(m.ids)[k])])>>
    [] m.kind = "summary" ->
         <<Wired("user", FALSE, <<Piece("text", "summary")>>),
           Wired("assistant", FALSE, <<Piece("text", "continuation")>>)>>
    [] OTHER ->
         <<Wired(IF IsAssistant(m) THEN "assistant" ELSE "user", m.uv, <<Piece("text", m.kind)>>)>>

Shown(c) == Seqs!FlattenSeq([i \in DOMAIN c |-> IF i \in ForProvider(c) THEN Wire(c[i]) ELSE <<>>])

-----------------------------------------------------------------------------
(* fix_conversation *)

IdsOfType(m, type) == {m.blocks[k].of : k \in {j \in DOMAIN m.blocks : m.blocks[j].type = type}}

(* Keep the blocks of m that are no request in dropped and no response in it. *)
WithoutBlocks(m, type, dropped) ==
  [m EXCEPT !.blocks = SelectSeq(@, LAMBDA b : ~(b.type = type /\ b.of \in dropped))]

NonEmpty(ms) == SelectSeq(ms, LAMBDA m : m.blocks # <<>>)

(* One message of the scan: a response must answer a request that came      *)
(* before it and is still open.                                             *)
ScanMessage(scan, m) ==
  [open |-> (scan.open \ IdsOfType(m, "response")) \cup IdsOfType(m, "request"),
   kept |-> Append(scan.kept, WithoutBlocks(m, "response", IdsOfType(m, "response") \ scan.open))]

(* Mutant: requests that were never answered stay. *)
FixResponsesOnly(ms) == NonEmpty(Seqs!FoldLeft(ScanMessage, [open |-> {}, kept |-> <<>>], ms).kept)

FixToolCalling(ms) ==
  LET scan == Seqs!FoldLeft(ScanMessage, [open |-> {}, kept |-> <<>>], ms)
  IN  NonEmpty([k \in DOMAIN scan.kept |-> WithoutBlocks(scan.kept[k], "request", scan.open)])

WireRole(m) == IF m.role = "user" /\ IdsOfType(m, "response") # {} THEN "tool" ELSE m.role

(* Neighbours of one role become one message: across visibilities for the   *)
(* request only, never where the result is stored.                          *)
MergeConsecutive(ms, acrossVisibility) ==
  LET Merge(merged, m) ==
        IF /\ merged # <<>>
           /\ WireRole(Last(merged)) = WireRole(m)
           /\ acrossVisibility \/ Last(merged).uv = m.uv
        THEN [merged EXCEPT ![Len(merged)].blocks = @ \o m.blocks]
        ELSE Append(merged, m)
  IN  Seqs!FoldLeft(Merge, <<>>, ms)

FixLeadTrail(ms) ==
  LET led == IF ms # <<>> /\ Head(ms).role = "assistant" THEN Tail(ms) ELSE ms
  IN  IF led # <<>> /\ Last(led).role = "assistant" THEN Seqs!Front(led) ELSE led

PopulateIfEmpty(ms) == IF ms = <<>> THEN <<Wired("user", TRUE, <<Piece("text", "hello")>>)>> ELSE ms

FixMessages(ms) == PopulateIfEmpty(FixLeadTrail(MergeConsecutive(FixToolCalling(ms), FALSE)))

(* stream_response_from_provider: what goes out for conversation c. *)
RequestFor(c) == MergeConsecutive(FixMessages(Shown(c)), TRUE)

=============================================================================

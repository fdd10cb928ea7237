---------------------------- MODULE Conversation ----------------------------
(***************************************************************************)
(* The conversation kept in runtime.state.messages and the operations on   *)
(* it that the slash commands perform (commands/session.py) together with  *)
(* the history compaction of runtime/compaction.py.  Texts, arguments and  *)
(* token counts are abstracted; a message keeps its role, the chat.send    *)
(* request it came from and, for an assistant message, the number of tool  *)
(* calls it asks for (for a tool message, which of those it answers).      *)
(***************************************************************************)
EXTENDS Naturals, Sequences, FiniteSets

(* A compaction summary is a system message whose metadata carries the     *)
(* compaction mark; it has a role of its own here.                         *)
Roles == {"system", "summary", "user", "assistant", "tool"}
Message == [role : Roles, req : Nat, n : Nat]

UserMsg(r) == [role |-> "user", req |-> r, n |-> 0]
AssistantMsg(r, k) == [role |-> "assistant", req |-> r, n |-> k]
ToolMsg(r, k) == [role |-> "tool", req |-> r, n |-> k]
SummaryMsg == [role |-> "summary", req |-> 0, n |-> 0]

-----------------------------------------------------------------------------
(* Undo, and the turn count a resume computes.                             *)

UserPositions(h) == {i \in DOMAIN h : h[i].role = "user"}

(* The messages before the last prompt.                                    *)
BeforeLastPrompt(h) == {i \in DOMAIN h : \E j \in UserPositions(h) : i < j}

Undo(h) == IF UserPositions(h) = {} THEN h
           ELSE SubSeq(h, 1, Cardinality(BeforeLastPrompt(h)))

UserTurns(h) == Cardinality(UserPositions(h))

-----------------------------------------------------------------------------
(* Compaction.  The leading system messages stay, the rest is cut into     *)
(* turns that start at the user messages, and all turns but the last keep  *)
(* ones are replaced by one summary.                                       *)

PreambleLen(h) ==
  Cardinality({i \in DOMAIN h : \A j \in 1..i : h[j].role = "system"})

TurnStarts(h) ==
  LET p == PreambleLen(h)
  IN {i \in DOMAIN h : i > p /\ (i = p + 1 \/ h[i].role = "user")}

(* The messages that at least keep turns follow.                           *)
OldPart(h, keep) ==
  {i \in DOMAIN h : Cardinality({j \in TurnStarts(h) : i < j}) >= keep}

(* Mutant: the kept part starts behind the user message.                   *)
KeepFromLate(h, keep) == Cardinality(OldPart(h, keep)) + 2

(* The position where the kept turns begin.                                *)
KeepFrom(h, keep) == Cardinality(OldPart(h, keep)) + 1

Compactable(h, keep) == Cardinality(TurnStarts(h)) > keep

Compact(h, keep) ==
  IF ~Compactable(h, keep) THEN h
  ELSE SubSeq(h, 1, PreambleLen(h)) \o <<SummaryMsg>>
         \o SubSeq(h, KeepFrom(h, keep), Len(h))

-----------------------------------------------------------------------------
(* Tool results: pair_tool_results rejects the tool messages that follow   *)
(* an assistant message when a call has no result.  That it also rejects   *)
(* two results of one id, when the provider gave two calls the same, is    *)
(* left out.                                                               *)

Answered(h, i) ==
  \A k \in 1..h[i].n : i + k \in DOMAIN h /\ h[i + k] = ToolMsg(h[i].req, k)

Unanswered(h) == {i \in DOMAIN h : h[i].role = "assistant" /\ ~Answered(h, i)}

-----------------------------------------------------------------------------
(* The shape of a conversation.  Request 0 stands for what an earlier      *)
(* process stored and for the summary of a compaction.                     *)

(* The closest prompt before message i is one of its request.              *)
OpenedBy(h, i) ==
  \E u \in UserPositions(h) :
    /\ u <= i
    /\ h[u].req = h[i].req
    /\ \A v \in UserPositions(h) : v <= u \/ v > i

WholeTurns(h) ==
  \A i \in DOMAIN h :
    h[i].role \in {"assistant", "tool"} /\ h[i].req # 0 => OpenedBy(h, i)

PromptsInOrder(h) ==
  \A i, j \in UserPositions(h) :
    i < j => h[i].req < h[j].req \/ (h[i].req = 0 /\ h[j].req = 0)

LastPromptIs(h, r) ==
  \E u \in UserPositions(h) :
    h[u].req = r /\ \A v \in UserPositions(h) : v <= u

PromptRequests(h) == {h[i].req : i \in UserPositions(h)}

=============================================================================

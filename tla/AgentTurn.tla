------------------------------ MODULE AgentTurn ------------------------------
(***************************************************************************)
(* One chat turn: ChatTurnService.run_turn (chat.py) running AgentLoop     *)
(* (runtime/agent_loop.py) over a provider stream, with the tool calls     *)
(* dispatched through ApprovalGate (runtime/approvals.py).                 *)
(*                                                                         *)
(* Everything runs on one asyncio loop, so an action is the code between   *)
(* two awaits at which another handler can change what this code reads:    *)
(* the stop signal, the approval futures, the always-allow set and the     *)
(* conversation.  Awaits that only write an event frame are merged with    *)
(* the step that follows them.                                             *)
(***************************************************************************)
EXTENDS Conversation

CONSTANTS
  Tools,        \* the tool names a provider may call
  HighRisk,     \* the tools of HIGH_RISK_TOOLS among them
  GivenIds,     \* the call ids a provider gives; nothing keeps it from giving one twice
  Yolo,         \* GA_YOLO: approve everything
  MaxRounds,    \* AgentLoopConfig.max_turns
  MaxCalls,     \* bound: tool calls in one provider response
  MaxRequests   \* bound: request ids are 1..MaxRequests

ASSUME TurnAssumption ==
  /\ HighRisk \subseteq Tools
  /\ Yolo \in BOOLEAN
  /\ MaxRounds \in Nat \ {0}
  /\ MaxCalls \in Nat
  /\ MaxRequests \in Nat \ {0}

Ids == 1..MaxRequests

(* A call without an id from its provider has its tool's name for one.     *)
CallIds == GivenIds \cup Tools
Calls == {c \in [tool : Tools, id : CallIds] : c.id \in GivenIds \/ c.id = c.tool}

(* Which call it is, whatever its id: the turn, the round and the place.   *)
Positions == Ids \X (1..MaxRounds) \X (1..MaxCalls)

Decisions == {"allow_once", "allow_always", "deny"}
Phases == {"idle", "streaming", "approval", "running",
           "finishing", "stopping", "exhausted"}

VARIABLES
  messages,     \* runtime.state.messages
  turnCount,    \* runtime.state.turn_count
  cancelFlag,   \* GatewayServer._cancel_flag, read through stop_signal()
  alwaysAllow,  \* ApprovalStore.always_allow
  phase,        \* the await at which the running turn is suspended
  turnOf,       \* the request whose prompt the turn answers (0: none)
  round,        \* AgentLoop.run: turn
  history,      \* AgentLoop.run: history
  calls,        \* response.tool_calls of this round
  callNo,       \* the call being executed
  future,       \* ApprovalGate._pending by call id
  asked         \* the approval_request events emitted: ids, and whose they are

sessionVars == <<messages, turnCount>>
gateVars == <<alwaysAllow, future, asked>>
loopVars == <<phase, turnOf, round, history, calls, callNo>>
turnVars == <<messages, turnCount, cancelFlag, loopVars, gateVars>>

ThisCall == <<turnOf, round, callNo>>
CallId == calls[callNo].id
Tool == calls[callNo].tool

(* An asyncio Future of ApprovalGate: the call that awaits it, its state.  *)
Future(c, s) == [of |-> c, state |-> s]
NoFuture == Future(<<>>, "none")
Futures == {NoFuture} \cup [of : Positions, state : Decisions \cup {"waiting"}]

Asked(c, id) == [call |-> c, id |-> id]
AskedCalls == {a.call : a \in asked}

(* Mutant: the user is asked about one call only.                          *)
UngatedOnceAsked(t) == Yolo \/ t \notin HighRisk \/ asked # {}

(* ApprovalGate._decide answers allow_once without asking.                 *)
Ungated(t) == Yolo \/ t \notin HighRisk \/ t \in alwaysAllow

-----------------------------------------------------------------------------
TurnInit ==
  /\ messages = <<>>
  /\ turnCount = 0
  /\ cancelFlag = FALSE
  /\ alwaysAllow \in SUBSET HighRisk   \* whatever approvals.json held
  /\ phase = "idle"
  /\ turnOf = 0
  /\ round = 0
  /\ history = <<>>
  /\ calls = <<>>
  /\ callNo = 0
  /\ future = [i \in CallIds |-> NoFuture]
  /\ asked = {}

(* Mutant: the turn starts from the prompt alone.                          *)
BeginForgetful(r) ==
  /\ phase' = "streaming"
  /\ turnOf' = r
  /\ round' = 1
  /\ history' = <<UserMsg(r)>>
  /\ UNCHANGED <<messages, turnCount, calls, callNo, gateVars>>

(* run_turn up to its first await: the history is a copy of the            *)
(* conversation.  The stop signal was reset in the same segment, so the    *)
(* check at the head of the first round passes.                            *)
Begin(r) ==
  /\ phase' = "streaming"
  /\ turnOf' = r
  /\ round' = 1
  /\ history' = Append(messages, UserMsg(r))
  /\ UNCHANGED <<messages, turnCount, calls, callNo, gateVars>>

(* Mutant: one round too many.                                             *)
LoopHeadLate ==
  /\ round' = round + 1
  /\ phase' = IF round > MaxRounds THEN "exhausted"
              ELSE IF cancelFlag THEN "stopping" ELSE "streaming"
  /\ calls' = <<>>
  /\ callNo' = 0

(* Head of the for loop in AgentLoop.run: out of rounds, stopped, or the   *)
(* next request to the provider.                                           *)
LoopHead ==
  /\ round' = IF round < MaxRounds THEN round + 1 ELSE round
  /\ phase' = IF round = MaxRounds THEN "exhausted"
              ELSE IF cancelFlag THEN "stopping" ELSE "streaming"
  /\ calls' = <<>>
  /\ callNo' = 0

(* Mutant: the stop signal is not read between tool calls.                 *)
CallHeadUnstoppable(cs, k, fut) ==
  /\ calls' = cs
  /\ callNo' = k
  /\ round' = round
  /\ \/ /\ Ungated(cs[k].tool)
        /\ phase' = "running"
        /\ future' = fut
        /\ UNCHANGED asked
     \/ /\ ~Ungated(cs[k].tool)
        /\ phase' = "approval"
        /\ future' = [fut EXCEPT ![cs[k].id] = Future(<<turnOf, round, k>>, "waiting")]
        /\ asked' = asked \cup {Asked(<<turnOf, round, k>>, cs[k].id)}

(* Head of the for loop in _execute_tool_calls for call k of cs, up to the *)
(* first await inside ApprovalGate.run; fut is _pending at that moment.    *)
CallHead(cs, k, fut) ==
  /\ calls' = cs
  /\ callNo' = k
  /\ round' = round
  /\ \/ /\ cancelFlag
        /\ phase' = "stopping"
        /\ future' = fut
        /\ UNCHANGED asked
     \/ /\ ~cancelFlag
        /\ Ungated(cs[k].tool)
        /\ phase' = "running"
        /\ future' = fut
        /\ UNCHANGED asked
     \/ /\ ~cancelFlag
        /\ ~Ungated(cs[k].tool)
        /\ phase' = "approval"
        /\ future' = [fut EXCEPT ![cs[k].id] = Future(<<turnOf, round, k>>, "waiting")]
        /\ asked' = asked \cup {Asked(<<turnOf, round, k>>, cs[k].id)}

(* Mutant: only the first tool call of a response is executed.             *)
AfterCallFirstOnly(fut) ==
  /\ history' = Append(history, ToolMsg(turnOf, callNo))
  /\ LoopHead
  /\ future' = fut
  /\ UNCHANGED asked

(* A result message is appended; the next call of this response follows,   *)
(* or the next round after the last one.                                   *)
AfterCall(fut) ==
  /\ history' = Append(history, ToolMsg(turnOf, callNo))
  /\ \/ /\ callNo < Len(calls)
        /\ CallHead(calls, callNo + 1, fut)
     \/ /\ callNo = Len(calls)
        /\ LoopHead
        /\ future' = fut
        /\ UNCHANGED asked

-----------------------------------------------------------------------------
(* The provider stream.                                                    *)

(* A stream event was emitted and the stop signal is set.                  *)
StreamStopped ==
  /\ phase = "streaming"
  /\ cancelFlag
  /\ phase' = "stopping"
  /\ UNCHANGED <<turnOf, round, history, calls, callNo, gateVars>>
  /\ UNCHANGED <<messages, turnCount, cancelFlag>>

(* The stream ended with a final answer.                                   *)
StreamAnswers ==
  /\ phase = "streaming"
  /\ phase' = "finishing"
  /\ history' = Append(history, AssistantMsg(turnOf, 0))
  /\ UNCHANGED <<turnOf, round, calls, callNo, gateVars>>
  /\ UNCHANGED <<messages, turnCount, cancelFlag>>

(* The stream ended with tool calls; the first one is started.             *)
StreamCallsTools(cs) ==
  /\ phase = "streaming"
  /\ history' = Append(history, AssistantMsg(turnOf, Len(cs)))
  /\ CallHead(cs, 1, future)
  /\ UNCHANGED <<turnOf, alwaysAllow, messages, turnCount, cancelFlag>>

-----------------------------------------------------------------------------
(* The tool calls.                                                         *)

(* Mutant: no finally in _decide.                                          *)
PoppedNever == future

(* ApprovalGate._pending without the current call.                         *)
Popped == [future EXCEPT ![CallId] = NoFuture]

(* The tool returned, or the registry turned its error into a result.      *)
ToolReturns ==
  /\ phase = "running"
  /\ AfterCall(future)
  /\ UNCHANGED <<turnOf, alwaysAllow, messages, turnCount, cancelFlag>>

(* The user denied the call: an error result takes the tool's place.       *)
Denied ==
  /\ phase = "approval"
  /\ future[CallId].state = "deny"
  /\ AfterCall(Popped)
  /\ UNCHANGED <<turnOf, alwaysAllow, messages, turnCount, cancelFlag>>

(* What an allow_always answer adds to the store's set.                    *)
Remembered == IF future[CallId].state = "allow_always"
              THEN alwaysAllow \cup {Tool} ELSE alwaysAllow

(* The user allowed the call: the entry leaves _pending, allow_always is   *)
(* recorded, and the tool starts.  The stop signal is not read again.      *)
Approved ==
  /\ phase = "approval"
  /\ future[CallId].state \in {"allow_once", "allow_always"}
  /\ future' = Popped
  /\ alwaysAllow' = Remembered
  /\ phase' = "running"
  /\ UNCHANGED <<turnOf, round, history, calls, callNo, asked>>
  /\ UNCHANGED <<messages, turnCount, cancelFlag>>

-----------------------------------------------------------------------------
(* The end of the turn: run_turn returns or raises, and what is left of    *)
(* the loop is dropped.                                                    *)

LoopDropped ==
  /\ phase' = "idle"
  /\ turnOf' = 0
  /\ round' = 0
  /\ history' = <<>>
  /\ calls' = <<>>
  /\ callNo' = 0

(* AgentLoopResult.status.                                                 *)
LoopStatus == CASE phase = "finishing" -> "completed"
                [] phase = "stopping"  -> "stopped"
                [] phase = "exhausted" -> "max_turns_exceeded"

(* AgentLoop.run returned: its history becomes the conversation.           *)
TurnReturns ==
  /\ phase \in {"finishing", "stopping", "exhausted"}
  /\ messages' = history
  /\ turnCount' = turnCount + 1
  /\ LoopDropped
  /\ UNCHANGED gateVars

(* The provider raised: run_turn leaves the conversation as it was.        *)
ProviderRaises ==
  /\ phase = "streaming"
  /\ LoopDropped
  /\ UNCHANGED <<messages, turnCount, gateVars>>

(* approvals.json cannot be written: the name is already in the set, the   *)
(* exception leaves ApprovalGate.run and ends the turn.                    *)
AllowAlwaysRaises ==
  /\ phase = "approval"
  /\ future[CallId].state = "allow_always"
  /\ future' = Popped
  /\ alwaysAllow' = Remembered
  /\ LoopDropped
  /\ UNCHANGED <<messages, turnCount, asked>>

(* The task was cancelled at its await; the finally of _decide pops the    *)
(* pending entry.                                                          *)
TurnCancelled ==
  /\ LoopDropped
  /\ future' = IF phase = "approval" THEN Popped ELSE future
  /\ UNCHANGED <<messages, turnCount, alwaysAllow, asked>>

(* The steps of a turn that happen while it goes on.                       *)
ResponseCalls == UNION {[1..k -> Calls] : k \in 1..MaxCalls}

TurnStep ==
  \/ StreamStopped
  \/ StreamAnswers
  \/ \E cs \in ResponseCalls : StreamCallsTools(cs)
  \/ ToolReturns
  \/ Denied
  \/ Approved

-----------------------------------------------------------------------------
(* ApprovalGate.resolve, called by chat.approve.                           *)

(* Mutant: an answered future can be answered again.                       *)
ResolvableAgain(id) == future[id] # NoFuture

Resolvable(id) == future[id].state = "waiting"

Resolve(id, d) == future' = [future EXCEPT ![id] = Future(future[id].of, d)]

-----------------------------------------------------------------------------
TurnTypeOK ==
  /\ messages \in Seq(Message)
  /\ turnCount \in Nat
  /\ cancelFlag \in BOOLEAN
  /\ alwaysAllow \in SUBSET HighRisk
  /\ phase \in Phases
  /\ turnOf \in {0} \cup Ids
  /\ round \in 0..MaxRounds
  /\ history \in Seq(Message)
  /\ calls \in Seq(Calls)
  /\ callNo \in Nat
  /\ future \in [CallIds -> Futures]
  /\ asked \in SUBSET [call : Positions, id : CallIds]

=============================================================================

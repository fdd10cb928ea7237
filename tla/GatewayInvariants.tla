-------------------------- MODULE GatewayInvariants --------------------------
(***************************************************************************)
(* The inductive invariants behind the theorems of the gateway.  They say  *)
(* what the code of server.py, agent_loop.py and approvals.py relies on    *)
(* without writing it down.                                                *)
(***************************************************************************)
EXTENDS Gateway

(* The shape of a turn: the loop variables are set while a turn goes on,   *)
(* a call is current while the turn waits for it, and only high-risk tools *)
(* wait for the user.                                                      *)
TurnShape ==
  /\ phase = "idle" => turnOf = 0
  /\ phase # "idle" => turnOf \in Ids /\ round \in 1..MaxRounds
  /\ phase \in {"approval", "running"} =>
       callNo \in 1..Len(calls) /\ Len(calls) <= MaxCalls
  /\ phase = "approval" => Tool \in HighRisk

(* What was not received is blank, what was received has a task.           *)
RequestsInOrder ==
  \A r \in Ids :
    IF r > received
    THEN status[r] = "unsent" /\ reply[r] = NoReply /\ kind[r] = "none"
    ELSE status[r] # "unsent"

(* Only a turn and a tool run suspend a task before its response.          *)
RunningUnanswered ==
  \A r \in Ids : status[r] = "running" =>
    reply[r] = NoReply /\ kind[r] \in {"chat.send", "tools.run"}

(* The slot is held by a chat.send whose task is outstanding, and by every *)
(* chat.send that claimed it and whose task is.                            *)
SlotHeld ==
  /\ busy # 0 => /\ kind[busy] = "chat.send"
                 /\ status[busy] \in {"running", "writing", "written"}
                 /\ reply[busy].code # "busy"
  /\ \A r \in Ids :
       kind[r] = "chat.send" /\ status[r] \in {"writing", "written"}
         /\ reply[r].code # "busy" => busy = r

SlotInv ==
  TypeOK /\ TurnShape /\ RequestsInOrder /\ RunningUnanswered
    /\ SlotHeld /\ SingleFlight

(* A loop that stopped early stopped for a signal that is still set.       *)
StoppedBySignal == phase = "stopping" => cancelFlag

CancelInv == CancelReachesItsTarget /\ StatusReported /\ StoppedBySignal

(* The user was asked about the call that waits, and the calls asked about *)
(* lie behind the current one.                                             *)
AskedBefore ==
  /\ phase = "approval" => ThisCall \in AskedCalls
  /\ \A c \in AskedCalls :
       /\ c[1] <= received
       /\ phase \in {"streaming", "approval", "running"} /\ c[1] = turnOf =>
            \/ c[2] < round
            \/ c[2] = round /\ phase # "streaming" /\ c[3] <= callNo

(* Every decision that ApprovalGate holds was acknowledged to its sender,  *)
(* and a call that was decided waits for no other answer.                  *)
DecisionsAcknowledged ==
  /\ \A i \in CallIds : future[i].state \in Decisions =>
       \E q \in Ids : reply[q] = Reply(future[i].state, future[i].of)
  /\ \A q \in Ids : reply[q].code \in Decisions =>
       /\ reply[q].about \in AskedCalls
       /\ \A i \in CallIds : future[i].state = "waiting" => future[i].of # reply[q].about

ApprovalInv ==
  PendingIsCurrent /\ AskedBefore /\ DecisionsAcknowledged
    /\ OneAnswerPerCall /\ RunsOnlyWithConsent

(* Without a shutdown no task is lost, and serve() has left none behind    *)
(* when it returns.                                                        *)
ServeInv ==
  /\ ~shutdown => \A r \in Ids : status[r] # "lost"
  /\ serving = "closed" => InFlight = {}

(* The conversation and the history of the running turn are made of the    *)
(* turns of requests that were read; the prompt of the running turn is the *)
(* last one of its history.                                                *)
KnownRequests(h) == \A i \in DOMAIN h : h[i].req <= received

TurnsInv ==
  /\ TurnsInOrder /\ KnownRequests(messages)
  /\ phase # "idle" => /\ WholeTurns(history) /\ PromptsInOrder(history)
                       /\ KnownRequests(history) /\ LastPromptIs(history, turnOf)

(* Without session commands the running turn adds its own prompt to those  *)
(* of the conversation, which is still the one it started from.            *)
NoSessionMethods == \A r \in Ids : kind[r] \notin SessionMethods

SavedInv ==
  /\ NoTurnIsLost
  /\ NoSessionMethods /\ phase # "idle" =>
       /\ PromptRequests(history) = PromptRequests(messages) \cup {turnOf}
       /\ UserTurns(history) = UserTurns(messages) + 1

(* While a call is waited for, the history ends with the assistant message *)
(* of this round and the results of the calls before.  No other message    *)
(* of a running turn misses a result, unless the turn is being stopped.    *)
ThisRound == Len(history) + 1 - callNo

CallsUnderWay ==
  phase \in {"approval", "running"} =>
    /\ ThisRound \in DOMAIN history
    /\ history[ThisRound] = AssistantMsg(turnOf, Len(calls))
    /\ \A k \in 1..(callNo - 1) : history[ThisRound + k] = ToolMsg(turnOf, k)

OrphansInv ==
  /\ OrphanCallsAreCancelled
  /\ CallsUnderWay
  /\ phase # "idle" => \A i \in Unanswered(history) :
       \/ history[i].req = 0 \/ reply[history[i].req].code = "cancelled"
       \/ phase = "stopping" /\ history[i].req = turnOf
       \/ phase \in {"approval", "running"} /\ i = ThisRound

GatewayInv ==
  /\ SlotInv /\ CancelInv /\ ApprovalInv /\ ServeInv
  /\ TurnsInv /\ SavedInv /\ OrphansInv

=============================================================================

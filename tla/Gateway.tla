------------------------------ MODULE Gateway ------------------------------
(***************************************************************************)
(* GatewayServer (gateway/server.py): the JSON-RPC server that the TUI     *)
(* talks to over stdin and stdout.  One asyncio loop runs serve(), one     *)
(* task per received line, and inside the task of a chat.send the turn of  *)
(* module AgentTurn.                                                       *)
(*                                                                         *)
(* A handler that awaits nothing but its response runs to completion in    *)
(* the step that receives its line: asyncio starts the tasks in the order  *)
(* in which serve() created them, before it reads the next line.           *)
(***************************************************************************)
EXTENDS AgentTurn

CONSTANTS
  Methods,      \* the methods the frontend uses in this instance
  Archive,      \* the message lists sessions.db may hold
  KeepRecent    \* CompactionConfig.keep_recent_turns

AllMethods == {"chat.send", "chat.cancel", "chat.approve", "session.new",
               "session.resume", "commands.dispatch", "tools.run",
               "gateway.shutdown", "read_only", "malformed"}

ASSUME GatewayAssumption ==
  /\ Methods \subseteq AllMethods
  /\ \A h \in Archive : h \in Seq(Message) /\ \A i \in DOMAIN h : h[i].req = 0
  /\ KeepRecent \in Nat

VARIABLES
  busy,       \* _busy and _busy_request_id (0: not busy)
  received,   \* the requests read so far are 1..received
  kind,       \* their methods
  status,     \* where the task of a request is
  reply,      \* its Response
  outbox,     \* tasks queued on _writer_lock with a response, FIFO
  serving,    \* the loop of serve()
  shutdown    \* the _shutdown event

serverVars == <<busy, received, kind, status, reply, outbox, serving, shutdown>>
vars == <<turnVars, serverVars>>

(* "running": suspended in a turn or a tool.  "writing": its response      *)
(* waits for the lock or is being written.  "written": the client has the  *)
(* frame, the task has not resumed.  "lost": cancelled unanswered.         *)
Statuses == {"unsent", "running", "writing", "written", "done", "lost"}

Saved == {"completed", "cancelled", "stopped", "max_turns_exceeded"}
(* A chat.send that fails: ProviderAuthError and ProviderError have error  *)
(* codes; the other provider errors (rate limit, 5xx, protocol) do not end *)
(* in that name and come back as a result with status "error".             *)
Raised == {"auth", "provider", "error", "exception"}
Refused == {"invalid", "empty_prompt", "auth", "exception"}
Codes == Saved \cup Refused \cup Raised \cup Decisions
           \cup {"none", "busy", "cancelling", "rejected", "ok"}

(* about: the request a cancel or a busy refusal names, or the call whose  *)
(* future an approval resolved.                                            *)
Replies == [code : Codes, about : Seq(Nat)]
NoReply == [code |-> "none", about |-> <<>>]
Reply(code, about) == [code |-> code, about |-> about]

Init ==
  /\ TurnInit
  /\ busy = 0
  /\ received = 0
  /\ kind = [r \in Ids |-> "none"]
  /\ status = [r \in Ids |-> "unsent"]
  /\ reply = [r \in Ids |-> NoReply]
  /\ outbox = <<>>
  /\ serving = "reading"
  /\ shutdown = FALSE

-----------------------------------------------------------------------------
(* serve() read a line and created its task; the loop condition looks at   *)
(* the shutdown event before the task runs.                                *)
New == received + 1

Receive(m) ==
  /\ serving = "reading"
  /\ received < MaxRequests
  /\ m \in Methods
  /\ received' = New
  /\ kind' = [kind EXCEPT ![New] = m]
  /\ serving' = IF shutdown THEN "draining" ELSE "reading"

(* The task of r calls _emit_response and queues on the writer lock.       *)
Answer(r, x) ==
  /\ status' = [status EXCEPT ![r] = "writing"]
  /\ reply' = [reply EXCEPT ![r] = x]
  /\ outbox' = Append(outbox, r)

(* Mutant: the stop signal is reset before the slot is checked.            *)
ChatSendBusyResets ==
  /\ Receive("chat.send")
  /\ busy # 0
  /\ cancelFlag' = FALSE
  /\ Answer(New, Reply("busy", <<busy>>))
  /\ UNCHANGED <<busy, shutdown, messages, turnCount, loopVars, gateVars>>

(* chat.send while a turn is in flight.                                    *)
ChatSendBusy ==
  /\ Receive("chat.send")
  /\ busy # 0
  /\ Answer(New, Reply("busy", <<busy>>))
  /\ UNCHANGED <<busy, shutdown, turnVars>>

(* chat.send claims the slot but no turn starts: the prompt is missing or  *)
(* empty, or no provider can be built (no credentials, unknown transport). *)
ChatSendRefused(code) ==
  /\ Receive("chat.send")
  /\ busy = 0
  /\ busy' = New
  /\ cancelFlag' = FALSE
  /\ Answer(New, Reply(code, <<>>))
  /\ UNCHANGED <<shutdown, messages, turnCount, loopVars, gateVars>>

(* Mutant: the slot is claimed without looking whether it is free.         *)
ChatSendUnguarded ==
  /\ Receive("chat.send")
  /\ busy' = New
  /\ cancelFlag' = FALSE
  /\ Begin(New)
  /\ status' = [status EXCEPT ![New] = "running"]
  /\ UNCHANGED <<reply, outbox, shutdown>>

(* chat.send claims the free slot and starts its turn.                     *)
ChatSend ==
  /\ Receive("chat.send")
  /\ busy = 0
  /\ busy' = New
  /\ cancelFlag' = FALSE
  /\ Begin(New)
  /\ status' = [status EXCEPT ![New] = "running"]
  /\ UNCHANGED <<reply, outbox, shutdown>>

(* Mutant: any target cancels what is in flight.                           *)
CancelHitsAnything(target) == busy # 0

(* chat.cancel for the request named by target, or for whatever is in      *)
(* flight when target is empty.                                            *)
CancelHits(target) == busy # 0 /\ target \in {<<>>, <<busy>>}

ChatCancel(target) ==
  /\ Receive("chat.cancel")
  /\ IF CancelHits(target)
     THEN /\ cancelFlag' = TRUE
          /\ Answer(New, Reply("cancelling", IF target = <<>> THEN <<busy>> ELSE target))
     ELSE /\ UNCHANGED cancelFlag
          /\ Answer(New, Reply("rejected", <<>>))
  /\ UNCHANGED <<busy, shutdown, messages, turnCount, loopVars, gateVars>>

(* chat.approve with a call id: it decides the call that waits under it.   *)
ChatApprove(id, d) ==
  /\ Receive("chat.approve")
  /\ IF Resolvable(id)
     THEN /\ Resolve(id, d)
          /\ Answer(New, Reply(d, future[id].of))
     ELSE /\ UNCHANGED future
          /\ Answer(New, Reply("rejected", <<>>))
  /\ UNCHANGED <<busy, shutdown, messages, turnCount, cancelFlag, loopVars>>
  /\ UNCHANGED <<alwaysAllow, asked>>

(* The handlers that change the conversation.  None looks at _busy.        *)
ResetConversation ==
  /\ messages' = <<>>
  /\ turnCount' = 0

UndoTurn ==
  /\ messages' = Undo(messages)
  /\ turnCount' = IF UserPositions(messages) # {} /\ turnCount > 0
                  THEN turnCount - 1 ELSE turnCount

CompactConversation ==
  /\ messages' = Compact(messages, KeepRecent)
  /\ UNCHANGED turnCount

(* The stored messages, none when they cannot be read, or no change when   *)
(* the session is not in the store.                                        *)
ResumeConversation ==
  \/ \E h \in Archive : messages' = h /\ turnCount' = UserTurns(h)
  \/ ResetConversation
  \/ UNCHANGED sessionVars

AnswerOk == /\ Answer(New, Reply("ok", <<>>))
            /\ UNCHANGED <<busy, shutdown, cancelFlag, loopVars, gateVars>>

SessionNew == Receive("session.new") /\ ResetConversation /\ AnswerOk

SessionResume == Receive("session.resume") /\ ResumeConversation /\ AnswerOk

(* commands.dispatch: /new and /clear, /undo, /compact, or a command that  *)
(* leaves the conversation alone.                                          *)
CommandsDispatch ==
  /\ Receive("commands.dispatch")
  /\ \/ ResetConversation
     \/ UndoTurn
     \/ CompactConversation
     \/ UNCHANGED sessionVars
  /\ AnswerOk

(* A tool run for the user's !cmd: the registry directly, not the gate.    *)
ToolsRun ==
  /\ Receive("tools.run")
  /\ status' = [status EXCEPT ![New] = "running"]
  /\ UNCHANGED <<busy, reply, outbox, shutdown, turnVars>>

GatewayShutdown ==
  /\ Receive("gateway.shutdown")
  /\ shutdown' = TRUE
  /\ Answer(New, Reply("ok", <<>>))
  /\ UNCHANGED <<busy, turnVars>>

(* The read-only methods, and the lines and parameters that are rejected.  *)
ReadOnly == Receive("read_only") /\ UNCHANGED sessionVars /\ AnswerOk

Malformed ==
  /\ Receive("malformed")
  /\ Answer(New, Reply("invalid", <<>>))
  /\ UNCHANGED <<busy, shutdown, turnVars>>

-----------------------------------------------------------------------------
(* The turn of the chat.send in flight.                                    *)

TurnGoesOn == TurnStep /\ UNCHANGED serverVars

(* _method_chat_send: a stopped or completed turn is reported as cancelled *)
(* when the flag is set by then.                                           *)
Reported(s) == IF cancelFlag /\ s \in {"stopped", "completed"}
               THEN "cancelled" ELSE s

ChatSendReturns ==
  /\ TurnReturns
  /\ Answer(turnOf, Reply(Reported(LoopStatus), <<>>))
  /\ UNCHANGED <<cancelFlag, busy, received, kind, serving, shutdown>>

ChatSendRaises ==
  /\ \/ \E code \in Raised :
          ProviderRaises /\ Answer(turnOf, Reply(code, <<>>))
     \/ AllowAlwaysRaises /\ Answer(turnOf, Reply("exception", <<>>))
  /\ UNCHANGED <<cancelFlag, busy, received, kind, serving, shutdown>>

ToolsRunReturns(r) ==
  /\ kind[r] = "tools.run"
  /\ status[r] = "running"
  /\ Answer(r, Reply("ok", <<>>))
  /\ UNCHANGED <<turnVars, busy, received, kind, serving, shutdown>>

-----------------------------------------------------------------------------
(* Writing responses.  The executor thread writes the frame, then the task *)
(* resumes, leaves the lock and, for a chat.send that claimed the slot,    *)
(* releases it.                                                            *)

WriteFrame ==
  /\ outbox # <<>>
  /\ status[Head(outbox)] = "writing"
  /\ status' = [status EXCEPT ![Head(outbox)] = "written"]
  /\ UNCHANGED <<turnVars, busy, received, kind, reply, outbox, serving, shutdown>>

(* Mutant: a refused chat.send releases the slot too.                      *)
ClaimedByAny(r) == kind[r] = "chat.send"

(* pre_claimed_chat_send in _handle_line.                                  *)
Claimed(r) == kind[r] = "chat.send" /\ reply[r].code # "busy"

(* Mutant: only the task of a chat.send gives the lock back.               *)
TaskEndsHoldingLock ==
  LET r == Head(outbox)
  IN /\ outbox # <<>>
     /\ status[r] = "written"
     /\ status' = [status EXCEPT ![r] = "done"]
     /\ outbox' = IF Claimed(r) THEN Tail(outbox) ELSE outbox
     /\ IF Claimed(r) THEN busy' = 0 /\ cancelFlag' = FALSE
                      ELSE UNCHANGED <<busy, cancelFlag>>
     /\ UNCHANGED <<sessionVars, loopVars, gateVars>>
     /\ UNCHANGED <<received, kind, reply, serving, shutdown>>

(* The task at the head resumed and ends.                                  *)
TaskEnds ==
  LET r == Head(outbox)
  IN /\ outbox # <<>>
     /\ status[r] = "written"
     /\ status' = [status EXCEPT ![r] = "done"]
     /\ outbox' = Tail(outbox)
     /\ IF Claimed(r) THEN busy' = 0 /\ cancelFlag' = FALSE
                      ELSE UNCHANGED <<busy, cancelFlag>>
     /\ UNCHANGED <<sessionVars, loopVars, gateVars>>
     /\ UNCHANGED <<received, kind, reply, serving, shutdown>>

-----------------------------------------------------------------------------
(* The end of serve().                                                     *)

(* serve()'s in_flight set.                                                *)
InFlight == {r \in Ids : status[r] \in {"running", "writing", "written"}}

(* stdin reached its end, a line exceeded the limit of the reader, or a    *)
(* blank line was read after the shutdown event: the loop ends and         *)
(* outstanding tasks are left alone.                                       *)
StdinEnds ==
  /\ serving = "reading"
  /\ serving' = "draining"
  /\ UNCHANGED <<turnVars, busy, received, kind, status, reply, outbox, shutdown>>

(* Mutant: serve() awaits the next line only.                              *)
ShutdownUnnoticed == FALSE

(* The shutdown event woke serve() and no line did: every task is          *)
(* cancelled.  The frame at the head of the queue may be past recall in    *)
(* the executor thread.                                                    *)
ShutdownCancels ==
  /\ serving = "reading"
  /\ shutdown
  /\ serving' = "draining"
  /\ \E atHead \in {"done", "lost"} :
       status' = [r \in Ids |->
                    IF status[r] = "written" THEN "done"
                    ELSE IF status[r] = "writing" /\ r = Head(outbox) THEN atHead
                    ELSE IF r \in InFlight THEN "lost"
                    ELSE status[r]]
  /\ outbox' = <<>>
  /\ busy' = 0
  /\ cancelFlag' = FALSE
  /\ TurnCancelled
  /\ UNCHANGED <<received, kind, reply, shutdown>>

(* Mutant: serve() returns without waiting for its tasks.                  *)
ServeReturnsAtOnce ==
  /\ serving = "draining"
  /\ serving' = "closed"
  /\ UNCHANGED <<turnVars, busy, received, kind, status, reply, outbox, shutdown>>

(* gather() returned: the gateway.shutdown event is sent and serve() ends. *)
ServeReturns ==
  /\ serving = "draining"
  /\ InFlight = {}
  /\ serving' = "closed"
  /\ UNCHANGED <<turnVars, busy, received, kind, status, reply, outbox, shutdown>>

-----------------------------------------------------------------------------
(* A cancel names no request, or one whose id the frontend has used; an    *)
(* approval has the id of a call the user was asked about.                 *)
Targets == {<<>>} \cup {<<r>> : r \in 1..received}

Request ==
  \/ ChatSendBusy
  \/ \E code \in Refused : ChatSendRefused(code)
  \/ ChatSend
  \/ \E t \in Targets : ChatCancel(t)
  \/ \E a \in asked, d \in Decisions : ChatApprove(a.id, d)
  \/ SessionNew
  \/ SessionResume
  \/ CommandsDispatch
  \/ ToolsRun
  \/ GatewayShutdown
  \/ ReadOnly
  \/ Malformed

Work ==
  \/ TurnGoesOn
  \/ ChatSendReturns
  \/ ChatSendRaises
  \/ \E r \in Ids : ToolsRunReturns(r)
  \/ WriteFrame
  \/ TaskEnds

Next ==
  \/ Request
  \/ Work
  \/ StdinEnds
  \/ ShutdownCancels
  \/ ServeReturns

Spec == Init /\ [][Next]_vars

(* The event loop runs what is ready, the provider and the tools come back *)
(* and the frontend reads its pipe.  The user owes nothing.                *)
Fairness ==
  /\ WF_vars(TurnGoesOn \/ ChatSendReturns \/ ChatSendRaises)
  /\ \A r \in Ids : WF_vars(ToolsRunReturns(r))
  /\ WF_vars(WriteFrame)
  /\ WF_vars(TaskEnds)
  /\ WF_vars(ShutdownCancels)
  /\ WF_vars(ServeReturns)

FairSpec == Spec /\ Fairness

-----------------------------------------------------------------------------
(* Types of all variables.                                                 *)
TypeOK ==
  /\ TurnTypeOK
  /\ busy \in {0} \cup Ids
  /\ received \in 0..MaxRequests
  /\ kind \in [Ids -> AllMethods \cup {"none"}]
  /\ status \in [Ids -> Statuses]
  /\ reply \in [Ids -> Replies]
  /\ outbox \in Seq(Ids)
  /\ serving \in {"reading", "draining", "closed"}
  /\ shutdown \in BOOLEAN

(* "At most one in-flight chat.send": the task of a chat.send is suspended *)
(* in a turn exactly when the loop runs that turn and the busy slot names  *)
(* it, however requests, responses and shutdown interleave.                *)
SingleFlight ==
  /\ \A r \in Ids : kind[r] = "chat.send" /\ status[r] = "running"
                      => turnOf = r /\ busy = r
  /\ phase # "idle" => turnOf = busy /\ status[turnOf] = "running"
                         /\ kind[turnOf] = "chat.send"

(* A cancel that names a request never reaches a later one: the stop       *)
(* signal is set only while the slot is held by a request whose cancel the *)
(* server acknowledged.                                                    *)
CancelReachesItsTarget ==
  cancelFlag => /\ busy # 0
                /\ \E q \in Ids : reply[q] = Reply("cancelling", <<busy>>)

(* The statuses a client sees: "cancelled" only after an acknowledged      *)
(* cancel of that request, and never the loop's own "stopped", because the *)
(* flag that stopped the loop is still set when the result is built.       *)
StatusReported ==
  \A r \in Ids :
    /\ reply[r].code = "cancelled" =>
         \E q \in Ids : reply[q] = Reply("cancelling", <<r>>)
    /\ reply[r].code # "stopped"

(* A high-risk tool runs only with consent: it is on the always-allow list *)
(* or a chat.approve was told that it allowed, and it came while this very *)
(* call waited; none came that denied it.  Calls may share an id: what was *)
(* decided for an earlier one, or arrived before this one waited, does not *)
(* count.                                                                  *)
RunsOnlyWithConsent ==
  phase = "running" /\ Tool \in HighRisk /\ ~Yolo =>
    /\ \/ Tool \in alwaysAllow
       \/ \E q \in Ids : reply[q] = Reply("allow_once", ThisCall)
    /\ ~ \E q \in Ids : reply[q] = Reply("deny", ThisCall)

(* The first answer stands: a call that waits is decided by one            *)
(* chat.approve, and of several with one id each that is told "resolved"   *)
(* decided a call of its own.                                              *)
OneAnswerPerCall ==
  \A p, q \in Ids :
    reply[p].code \in Decisions /\ reply[q].code \in Decisions
      /\ reply[p].about = reply[q].about => p = q

(* _pending holds nothing but the future of the call the turn waits on: no *)
(* entry outlives a turn that ended, failed or was cancelled, to be        *)
(* resolved for a later call of the same id.                               *)
PendingIsCurrent ==
  \A i \in CallIds : future[i] # NoFuture =>
    phase = "approval" /\ i = CallId /\ future[i].of = ThisCall

(* Results are missing only from cancelled turns: an assistant message of  *)
(* the conversation with a tool call that has no result belongs to a       *)
(* request that was answered "cancelled".                                  *)
OrphanCallsAreCancelled ==
  \A i \in Unanswered(messages) :
    messages[i].req = 0 \/ reply[messages[i].req].code = "cancelled"

(* Without session commands no turn is lost: the prompts in the            *)
(* conversation are those of the turns that were saved, and turn_count     *)
(* counts them.                                                            *)
SessionMethods == {"session.new", "session.resume", "commands.dispatch"}

NoTurnIsLost ==
  (\A r \in Ids : kind[r] \notin SessionMethods) =>
    /\ PromptRequests(messages) = {r \in Ids : reply[r].code \in Saved}
    /\ turnCount = UserTurns(messages)

(* Under session commands racing with turns the conversation is still made *)
(* of whole turns, each message behind the prompt of its own request, in   *)
(* the order in which they were asked, each once and behind the stored     *)
(* ones.                                                                   *)
TurnsInOrder == WholeTurns(messages) /\ PromptsInOrder(messages)

(* Leaving serve() without a shutdown request abandons nothing: every      *)
(* request that was read has been answered and the slot is free.           *)
EndOfInputAnswersAll ==
  serving = "closed" =>
    /\ busy = 0 /\ phase = "idle"
    /\ ~shutdown => \A r \in 1..received : status[r] = "done"

(* Once the stop signal is set no further tool starts, except one whose    *)
(* approval was already pending.                                           *)
NoToolAfterCancel ==
  [][cancelFlag /\ phase' = "running" => ThisCall' = ThisCall]_vars

(* Every accepted request is answered or, by a shutdown, cancelled, unless *)
(* a turn waits for the user.                                              *)
WorkEnds ==
  \A r \in Ids : (status[r] \in {"running", "writing", "written"})
                   ~> (status[r] \in {"done", "lost"} \/ phase = "approval")

(* A shutdown takes serve() to its end whatever is suspended, queued on    *)
(* the writer lock or in the executor thread: no further line is needed,   *)
(* and one that is seen at the same time only makes serve() wait for its   *)
(* tasks, of which none but a turn that waits for the user holds it up.    *)
ShutdownTakesEffect ==
  shutdown ~> (serving = "closed" \/ (serving = "draining" /\ phase = "approval"))

-----------------------------------------------------------------------------
(* The server implements the contract its frontend sees.                   *)

VerdictOf(r) ==
  IF kind[r] # "chat.send" THEN "none"
  ELSE IF reply[r].code = "none"
       THEN IF status[r] = "lost" THEN "dropped" ELSE "none"
       ELSE IF reply[r].code \in {"busy", "cancelled"} THEN reply[r].code
       ELSE "over"

AcknowledgedCancels ==
  {r \in Ids : \E q \in Ids : reply[q] = Reply("cancelling", <<r>>)}

Chat == INSTANCE ChatContract
          WITH Requests <- Ids,
               slot <- busy,
               verdict <- [r \in Ids |-> VerdictOf(r)],
               cancels <- AcknowledgedCancels

(* Every behaviour of the server is one that the chat contract allows.     *)
ImplementsChat == Chat!Contract

-----------------------------------------------------------------------------
(* What the protocol document and the comments say, and TLC refutes.       *)

(* tasks/TUI_TS_PROTOCOL.md:45: "Every `request` produces exactly one      *)
(* `response`".                                                            *)
EveryRequestAnswered == \A r \in Ids : status[r] # "lost"

(* tasks/TUI_TS_PROTOCOL.md:252: after chat.cancel "the running chat.send  *)
(* finishes with result.status = cancelled"; it is not reported as a turn  *)
(* that ran to its end.                                                    *)
CancelledWhenAcknowledged ==
  \A q, r \in Ids :
    reply[q] = Reply("cancelling", <<r>>) =>
      reply[r].code \notin {"completed", "max_turns_exceeded"}

(* tasks/TUI_TS_PROTOCOL.md:243: chat.send and session.new "are queued":   *)
(* once session.new was answered, no older prompt is in the conversation.  *)
NewSessionIsEmpty ==
  \A n \in Ids : kind[n] = "session.new" =>
    \A i \in DOMAIN messages : messages[i].req > n

(* gateway/server.py:186: "On stdin EOF we let in-flight requests finish   *)
(* so their responses reach the client before exit".                       *)
EndOfInputExits == (serving = "draining" /\ ~shutdown) ~> (serving = "closed")

(* tasks/TUI_TS_PROTOCOL.md:82: gateway.shutdown "(then backend exits)".   *)
ShutdownExits == shutdown ~> (serving = "closed")

(* gateway/server.py:355: error results are mirrored "into the matching    *)
(* JSON-RPC error code so the frontend has one place to look": no provider *)
(* failure comes back as a result with status "error".                     *)
FailuresAreErrors == \A r \in Ids : reply[r].code # "error"

(* runtime/approvals.py:88: a pending approval is "awaiting a frontend     *)
(* decision": the decision it gets is one for its call.  The id says no    *)
(* more than the provider made it say: with a shared one, a repeated or    *)
(* late chat.approve for an earlier call decides the one that waits.       *)
AnswersMeetTheirCall ==
  [][\A a \in asked, d \in Decisions :
       ChatApprove(a.id, d) => reply'[New].about \in {<<>>, a.call}]_vars

(* tasks/TUI_TS_PROTOCOL.md:89: the turn_count of a ChatSendResult is the  *)
(* "total turns used by AgentLoop".                                        *)
TurnCountIsLoopTurns ==
  [][(phase = "finishing" /\ TurnReturns) => turnCount' = round]_vars

=============================================================================

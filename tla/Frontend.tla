------------------------------ MODULE Frontend ------------------------------
(***************************************************************************)
(* The TUI process: GatewayClient (gatewayClient.ts), the submit path, the *)
(* prompt queue and the keys of App (App.tsx), and entry.tsx around them,  *)
(* with the two pipes and a gateway that does what module Gateway allows.  *)
(*                                                                         *)
(* Node runs one macrotask at a time: a key, a timer, a chunk of stdout,   *)
(* the exit of the child.  The continuations of the promises it settled    *)
(* run before the next one, in an order that depends on how many async     *)
(* functions wrap each promise: any order here.                            *)
(***************************************************************************)
EXTENDS Naturals, Sequences, FiniteSets

CONSTANTS
  Kinds,        \* what the user may type, a subset of AllKinds
  MaxPrompts,   \* bound: lines the user submits
  MaxKeys,      \* bound: control keys the user presses
  MaxCalls,     \* bound: approvals one turn asks for
  MayFail       \* the child may not start, be of another version, or die

(* "exit" is /exit, "bang" a ! with nothing behind it, "local" the command *)
(* /rate-limit-options.                                                    *)
AllKinds == {"chat", "slash", "exit", "bash", "bang", "local"}

ASSUME FrontendAssumption ==
  /\ Kinds \subseteq AllKinds
  /\ MaxPrompts \in Nat \ {0}
  /\ MaxKeys \in Nat
  /\ MaxCalls \in Nat
  /\ MayFail \in BOOLEAN

Prompts == 1..MaxPrompts

(* A line takes one request, two when it is /exit, a control key and a     *)
(* decision one, and entry.tsx one for the status or for shutting down.    *)
Ids == 1..(1 + MaxPrompts * (2 + MaxCalls) + MaxKeys)

(* The calls a turn asks about; NoCall also stands for "no approval".      *)
Calls == Ids \X (1..MaxCalls)
NoCall == <<>>

PromptMethods == {"chat.send", "commands.dispatch", "tools.run"}
Methods == PromptMethods \cup
           {"chat.cancel", "chat.approve", "session.new", "runtime.status", "gateway.shutdown"}

VARIABLES
  ready,          \* readyPromise
  closed,         \* GatewayClient.closed
  nextId,         \* GatewayClient.nextId
  method,         \* the method of each request
  arg,            \* the prompt, the request or the call it is about
  call,           \* its promise; "pending" is being in GatewayClient.pending
  continuations,  \* the requests whose promise settled and whose caller waits
  chunk,          \* the lines of one chunk of stdout are being handled
  app,            \* how far entry.tsx got
  kindOf,         \* what was typed for each submitted prompt
  queue,          \* promptQueueRef.current.prompts
  timers,         \* the setTimeouts of scheduleNextQueuedPrompt
  active,         \* activeRequestRef.current (0: null)
  transcript,     \* the prompts among the items of the transcript
  approval,       \* pendingApproval
  keys,           \* control keys pressed so far
  toServer,       \* stdin of the gateway: request ids
  toClient,       \* stdout of the gateway: frames
  alive,          \* the child runs
  announced,      \* it has sent gateway.ready
  exitSeen,       \* its exit or error event was handled
  slot,           \* the chat.send that holds the busy slot (0: none)
  replied,        \* ... and was answered
  cancelled,      \* _cancel_flag
  asking,         \* the call whose approval the turn waits for
  asked,          \* how many calls the turn has asked about
  conversation,   \* the prompts in the conversation of the server
  copied,         \* ... in the copy the turn works on
  running,        \* the tools.run calls in flight
  stopping,       \* what gateway.shutdown did to serve()
  held            \* history: the prompts that went through the queue

callVars == <<nextId, method, arg, call>>
clientVars == <<ready, closed, callVars, continuations>>
queueVars == <<queue, timers, held>>
promptVars == <<kindOf, queueVars, active, transcript>>
turnVars == <<slot, replied, cancelled, asking, asked, conversation, copied>>
childVars == <<alive, announced, turnVars, running, stopping>>
vars == <<clientVars, chunk, app, promptVars, approval, keys, toServer, toClient,
          exitSeen, childVars>>

Submitted == Cardinality({p \in Prompts : kindOf[p] # "none"})
Pending == {i \in Ids : call[i] = "pending"}

Response(i, ok) == <<"response", i, ok>>
ReadyEvent(ok) == <<"ready", ok>>
ApprovalEvent(c) == <<"approval", c>>
Frames == {Response(i, ok) : i \in Ids, ok \in BOOLEAN}
          \cup {ReadyEvent(ok) : ok \in BOOLEAN}
          \cup {ApprovalEvent(c) : c \in Calls}

Init ==
  /\ ready = "waiting" /\ closed = FALSE /\ nextId = 1
  /\ method = [i \in Ids |-> "none"]
  /\ arg = [i \in Ids |-> NoCall]
  /\ call = [i \in Ids |-> "unused"]
  /\ continuations = {} /\ chunk = FALSE
  /\ app = "starting"
  /\ kindOf = [p \in Prompts |-> "none"]
  /\ queue = <<>> /\ timers = <<>> /\ held = {}
  /\ active = 0 /\ transcript = {} /\ approval = NoCall /\ keys = 0
  /\ toServer = <<>> /\ toClient = <<>>
  /\ alive = TRUE /\ announced = FALSE /\ exitSeen = FALSE
  /\ slot = 0 /\ replied = FALSE /\ cancelled = FALSE /\ asking = NoCall /\ asked = 0
  /\ conversation = {} /\ copied = {}
  /\ running = {} /\ stopping = "no"

-----------------------------------------------------------------------------
(* GatewayClient.                                                          *)

(* dispatch and call: the promise goes into pending and the line into the  *)
(* pipe; the destroyed stdin of a dead child drops it.  cs are the         *)
(* continuations left.  A closed client writes nothing, but App is gone    *)
(* then.                                                                   *)
Send(m, a, cs) ==
  /\ nextId' = nextId + 1
  /\ method' = [method EXCEPT ![nextId] = m]
  /\ arg' = [arg EXCEPT ![nextId] = a]
  /\ call' = [call EXCEPT ![nextId] = "pending"]
  /\ continuations' = cs
  /\ toServer' = IF alive THEN Append(toServer, nextId) ELSE toServer
  /\ UNCHANGED <<ready, closed>>

SendsNothing == UNCHANGED <<clientVars, toServer>>

(* failPending; cs are the continuations there are.                        *)
FailPending(cs) ==
  /\ call' = [i \in Ids |-> IF i \in Pending THEN "rejected" ELSE call[i]]
  /\ continuations' = cs \cup Pending

AppEnded == app \in {"done", "silent"}

(* main() goes on behind the await of ready().                             *)
ReadyWaits == app = "starting" /\ ready # "waiting"

Idle == continuations = {} /\ ~ReadyWaits /\ ~AppEnded

(* A macrotask begins when the continuations of the last one have run.     *)
Macrotask == Idle /\ chunk' = FALSE

(* Mutant: an error response settles nothing.                              *)
ResponseArrivesUnlessError(f) ==
  /\ f[1] = "response"
  /\ IF f[2] \in Pending /\ f[3]
     THEN /\ call' = [call EXCEPT ![f[2]] = "resolved"]
          /\ continuations' = continuations \cup {f[2]}
     ELSE UNCHANGED <<call, continuations>>
  /\ UNCHANGED <<ready, approval>>

(* handleResponse: unknown ids are ignored.                                *)
ResponseArrives(f) ==
  /\ f[1] = "response"
  /\ IF f[2] \in Pending
     THEN /\ call' = [call EXCEPT ![f[2]] = IF f[3] THEN "resolved" ELSE "rejected"]
          /\ continuations' = continuations \cup {f[2]}
     ELSE UNCHANGED <<call, continuations>>
  /\ UNCHANGED <<ready, approval>>

(* The once-listener of gateway.ready: another major version rejects.      *)
ReadyArrives(f) ==
  /\ f[1] = "ready"
  /\ ready' = IF f[2] THEN "resolved" ELSE "rejected"
  /\ UNCHANGED <<call, continuations, approval>>

(* App's listener for approval_request: one slot, overwritten.             *)
ApprovalArrives(f) ==
  /\ f[1] = "approval"
  /\ approval' = IF app = "running" THEN f[2] ELSE approval
  /\ UNCHANGED <<ready, call, continuations>>

(* One line of a chunk of stdout.                                          *)
LineArrives ==
  /\ toClient # <<>>
  /\ Idle \/ chunk
  /\ chunk' = TRUE
  /\ LET f == Head(toClient)
     IN ResponseArrives(f) \/ ReadyArrives(f) \/ ApprovalArrives(f)
  /\ toClient' = Tail(toClient)
  /\ UNCHANGED <<closed, nextId, method, arg, app, promptVars, keys, toServer, exitSeen, childVars>>

(* Mutant: the exit event leaves the pending calls alone.                  *)
ExitArrivesQuietly ==
  /\ Macrotask
  /\ ~alive /\ ~exitSeen
  /\ exitSeen' = TRUE
  /\ UNCHANGED <<clientVars, app, promptVars, approval, keys, toServer, toClient, childVars>>

(* The exit event of the child; lines may still be in the pipe.            *)
ExitArrives ==
  /\ Macrotask
  /\ ~alive /\ ~exitSeen
  /\ exitSeen' = TRUE
  /\ FailPending({})
  /\ UNCHANGED <<ready, closed, nextId, method, arg, app, promptVars, approval, keys>>
  /\ UNCHANGED <<toServer, toClient, childVars>>

(* The child could not be spawned: its error event rejects ready as well.  *)
SpawnFails ==
  /\ Macrotask
  /\ MayFail /\ alive /\ ~announced
  /\ alive' = FALSE
  /\ exitSeen' = TRUE
  /\ ready' = "rejected"
  /\ FailPending({})
  /\ UNCHANGED <<closed, nextId, method, arg, app, promptVars, approval, keys>>
  /\ UNCHANGED <<toServer, toClient, announced, turnVars, running, stopping>>

-----------------------------------------------------------------------------
(* App: submit and the queue.                                              *)

(* Mutant: the ref still holds what was taken until the next render.       *)
ScheduleNextStale(ts) ==
  /\ timers' = IF queue = <<>> THEN ts ELSE Append(ts, Head(queue))
  /\ UNCHANGED <<queue, held>>

(* Mutant: the newest prompt goes first.                                   *)
ScheduleNextLast(ts) ==
  /\ IF queue = <<>> THEN timers' = ts /\ UNCHANGED queue
     ELSE /\ timers' = Append(ts, queue[Len(queue)])
          /\ queue' = SubSeq(queue, 1, Len(queue) - 1)
  /\ UNCHANGED held

(* scheduleNextQueuedPrompt; ts are the timers there are.                  *)
ScheduleNext(ts) ==
  /\ IF queue = <<>> THEN timers' = ts /\ UNCHANGED queue
     ELSE timers' = Append(ts, Head(queue)) /\ queue' = Tail(queue)
  /\ UNCHANGED held

MethodOf(k) ==
  CASE k = "chat" -> "chat.send"
    [] k = "bash" -> "tools.run"
    [] k \in {"slash", "exit"} -> "commands.dispatch"

(* submitCore behind its look at the queue.  A ! without a command returns *)
(* at once, /rate-limit-options opens a dialog.                            *)
SubmitCore(p, k, ts) ==
  \/ /\ k \in {"chat", "slash", "exit", "bash"}
     /\ Send(MethodOf(k), p, continuations)
     /\ active' = IF k = "chat" THEN nextId ELSE active
     /\ transcript' = transcript \cup {p}
     /\ timers' = ts /\ UNCHANGED <<queue, held>>
  \/ /\ k = "bang"
     /\ timers' = ts /\ UNCHANGED <<queue, held>>
     /\ SendsNothing /\ UNCHANGED <<active, transcript>>
  \/ /\ k = "local"
     /\ ScheduleNext(ts)
     /\ SendsNothing /\ UNCHANGED <<active, transcript>>

(* A turn is active: the line is queued.                                   *)
Enqueue(p) ==
  /\ queue' = Append(queue, p)
  /\ held' = held \cup {p}
  /\ SendsNothing /\ UNCHANGED <<timers, active, transcript>>

(* The user submits a line; an approval prompt takes the focus away.       *)
Submit(k) ==
  /\ Macrotask
  /\ app = "running" /\ approval = NoCall
  /\ Submitted < MaxPrompts
  /\ LET p == Submitted + 1
     IN /\ kindOf' = [kindOf EXCEPT ![p] = k]
        /\ IF active # 0 THEN Enqueue(p) ELSE SubmitCore(p, k, timers)
  /\ UNCHANGED <<app, approval, keys, toClient, exitSeen, childVars>>

(* The timer of a queued prompt fires: allowQueue is false.                *)
TimerFires ==
  /\ Macrotask
  /\ timers # <<>>
  /\ SubmitCore(Head(timers), kindOf[Head(timers)], Tail(timers))
  /\ UNCHANGED <<kindOf, app, approval, keys, toClient, exitSeen, childVars>>

-----------------------------------------------------------------------------
(* What runs behind an await once request i settled.                       *)

Resumes(i, m) ==
  /\ i \in continuations /\ ~AppEnded
  /\ method[i] = m
  /\ chunk' = FALSE

(* ... and sends nothing.                                                  *)
Continues(i) ==
  /\ continuations' = continuations \ {i}
  /\ UNCHANGED <<ready, closed, callVars, toServer>>

NothingElse == UNCHANGED <<approval, keys, toClient, exitSeen, childVars>>

(* Mutant: the ref keeps the request.                                      *)
ChatSettledStale(i) ==
  /\ Resumes(i, "chat.send")
  /\ Continues(i)
  /\ ScheduleNext(timers)
  /\ UNCHANGED <<kindOf, active, transcript, app>> /\ NothingElse

(* The finally of the chat.send; its look at the status is left out.       *)
ChatSettled(i) ==
  /\ Resumes(i, "chat.send")
  /\ Continues(i)
  /\ active' = 0
  /\ ScheduleNext(timers)
  /\ UNCHANGED <<kindOf, transcript, app>> /\ NothingElse

(* /exit was answered: should_exit.                                        *)
ExitAgreed(i) == kindOf[arg[i]] = "exit" /\ call[i] = "resolved"

(* Mutant: only chat turns drain the queue.                                *)
CommandSettledIdle(i) ==
  /\ Resumes(i, "tools.run") \/ (Resumes(i, "commands.dispatch") /\ ~ExitAgreed(i))
  /\ Continues(i)
  /\ UNCHANGED <<promptVars, app>> /\ NothingElse

(* The finallys of commandsDispatch and toolsRun.                          *)
CommandSettled(i) ==
  /\ Resumes(i, "tools.run") \/ (Resumes(i, "commands.dispatch") /\ ~ExitAgreed(i))
  /\ Continues(i)
  /\ ScheduleNext(timers)
  /\ UNCHANGED <<kindOf, active, transcript, app>> /\ NothingElse

ExitCommandSettled(i) ==
  /\ Resumes(i, "commands.dispatch") /\ ExitAgreed(i)
  /\ Send("gateway.shutdown", 0, continuations \ {i})
  /\ UNCHANGED <<promptVars, app>> /\ NothingElse

(* The finally of shutdown: the child is killed, App or main() ends.       *)
ShutdownSettled(i) ==
  /\ Resumes(i, "gateway.shutdown")
  /\ closed' = TRUE
  /\ alive' = FALSE
  /\ FailPending(continuations \ {i})
  /\ app' = "done"
  /\ UNCHANGED <<ready, nextId, method, arg, promptVars, approval, keys, toServer, toClient>>
  /\ UNCHANGED <<exitSeen, announced, turnVars, running, stopping>>

(* entry.tsx has its status, or a refusal of it, and renders App.          *)
StatusSettled(i) ==
  /\ Resumes(i, "runtime.status")
  /\ Continues(i)
  /\ app' = "running"
  /\ UNCHANGED promptVars /\ NothingElse

(* chat.cancel, chat.approve, session.new: at most a notification.         *)
OtherSettled(i) ==
  /\ \E m \in {"chat.cancel", "chat.approve", "session.new"} : Resumes(i, m)
  /\ Continues(i)
  /\ UNCHANGED <<promptVars, app>> /\ NothingElse

(* main() behind the await of ready(): the status, or the end.             *)
ReadySettled ==
  /\ ReadyWaits
  /\ chunk' = FALSE
  /\ IF ready = "resolved"
     THEN Send("runtime.status", 0, continuations) /\ app' = "status"
     ELSE Send("gateway.shutdown", 0, continuations) /\ app' = "failed"
  /\ UNCHANGED promptVars /\ NothingElse

(* Node ends a process that waits for nothing: without an App that listens *)
(* to the terminal the child and the timers are all it can wait for.       *)
LoopEmpties ==
  /\ Macrotask
  /\ app # "running"
  /\ exitSeen /\ toClient = <<>> /\ timers = <<>>
  /\ app' = IF app \in {"failed", "leaving"} THEN "done" ELSE "silent"
  /\ UNCHANGED <<clientVars, promptVars, approval, keys, toServer, toClient, exitSeen, childVars>>

Continuation ==
  \/ ReadySettled
  \/ \E i \in continuations :
       \/ ChatSettled(i) \/ CommandSettled(i) \/ ExitCommandSettled(i)
       \/ ShutdownSettled(i) \/ StatusSettled(i) \/ OtherSettled(i)

-----------------------------------------------------------------------------
(* The keys.                                                               *)

ControlKey ==
  /\ Macrotask
  /\ app = "running"
  /\ keys < MaxKeys /\ keys' = keys + 1
  /\ UNCHANGED <<promptVars, approval, toClient, exitSeen, childVars>>

(* Mutant: Ctrl-G does not look at the active request.                     *)
InterruptAnyway ==
  /\ ControlKey /\ UNCHANGED app
  /\ Send("chat.cancel", active, continuations)

(* Mutant: the interrupt takes the approval prompt off the screen.         *)
InterruptHides ==
  /\ active # 0
  /\ Macrotask /\ app = "running" /\ keys < MaxKeys /\ keys' = keys + 1
  /\ approval' = NoCall
  /\ Send("chat.cancel", active, continuations)
  /\ UNCHANGED <<app, promptVars, toClient, exitSeen, childVars>>

(* Ctrl-G.                                                                 *)
Interrupt ==
  /\ active # 0
  /\ ControlKey /\ UNCHANGED app
  /\ Send("chat.cancel", active, continuations)

(* Ctrl-D on an empty input: App goes on until the shutdown settled.       *)
Quit ==
  /\ ControlKey /\ UNCHANGED app
  /\ Send("gateway.shutdown", 0, continuations)

(* Ctrl-C: Ink, rendered without options, unmounts App and hands the key   *)
(* to no one; main() goes on behind waitUntilExit and shuts down.          *)
CtrlC ==
  /\ ControlKey /\ app' = "leaving"
  /\ Send("gateway.shutdown", 0, continuations)

(* Ctrl-L.                                                                 *)
Clear ==
  /\ ControlKey /\ UNCHANGED app
  /\ Send("session.new", 0, continuations)

(* Mutant: the prompt stays on the screen when it was decided.             *)
DecideAgain ==
  /\ Macrotask
  /\ app = "running"
  /\ approval # NoCall
  /\ Send("chat.approve", approval, continuations)
  /\ UNCHANGED <<app, promptVars, approval, keys, toClient, exitSeen, childVars>>

(* A key that decides the approval that is shown.                          *)
Decide ==
  /\ Macrotask
  /\ app = "running"
  /\ approval # NoCall
  /\ approval' = NoCall
  /\ Send("chat.approve", approval, continuations)
  /\ UNCHANGED <<app, promptVars, keys, toClient, exitSeen, childVars>>

-----------------------------------------------------------------------------
(* The gateway, by what module Gateway allows of it.                       *)

ClientUnchanged == UNCHANGED <<clientVars, chunk, app, promptVars, approval, keys, exitSeen>>

Writes(f) == toClient' = Append(toClient, f)

(* gateway.ready; another major version is a failed start.                 *)
Announce ==
  /\ alive /\ ~announced
  /\ announced' = TRUE
  /\ \E ok \in {TRUE, ~MayFail} : Writes(ReadyEvent(ok))
  /\ UNCHANGED <<toServer, alive, turnVars, running, stopping>> /\ ClientUnchanged

(* serve() reads the next line, request i with method m.                   *)
Reads(i, m) ==
  /\ alive /\ announced /\ stopping = "no"
  /\ toServer # <<>>
  /\ i = Head(toServer) /\ method[i] = m
  /\ toServer' = Tail(toServer)
  /\ UNCHANGED <<alive, announced>> /\ ClientUnchanged

ReadsChatSend(i) ==
  /\ Reads(i, "chat.send")
  /\ IF slot = 0
     THEN /\ slot' = i /\ cancelled' = FALSE /\ asked' = 0 /\ copied' = conversation
          /\ UNCHANGED <<replied, toClient>>
     ELSE Writes(Response(i, FALSE)) /\ UNCHANGED <<slot, replied, cancelled, asked, copied>>
  /\ UNCHANGED <<asking, conversation, running, stopping>>

(* Only the flag is set: a turn that waits for an approval goes on waiting *)
(* for it.                                                                 *)
ReadsChatCancel(i) ==
  /\ Reads(i, "chat.cancel")
  /\ Writes(Response(i, slot = arg[i]))
  /\ cancelled' = (cancelled \/ slot = arg[i])
  /\ UNCHANGED <<slot, replied, asking, asked, conversation, copied, running, stopping>>

ReadsChatApprove(i) ==
  /\ Reads(i, "chat.approve")
  /\ Writes(Response(i, asking = arg[i]))
  /\ asking' = IF asking = arg[i] THEN NoCall ELSE asking
  /\ UNCHANGED <<slot, replied, cancelled, asked, conversation, copied, running, stopping>>

ReadsSessionNew(i) ==
  /\ Reads(i, "session.new")
  /\ Writes(Response(i, TRUE))
  /\ conversation' = {}
  /\ UNCHANGED <<slot, replied, cancelled, asking, asked, copied, running, stopping>>

(* A command may raise.                                                    *)
ReadsCommand(i) ==
  /\ Reads(i, "commands.dispatch") \/ Reads(i, "runtime.status")
  /\ \E ok \in BOOLEAN : Writes(Response(i, ok))
  /\ UNCHANGED <<turnVars, running, stopping>>

ReadsToolsRun(i) ==
  /\ Reads(i, "tools.run")
  /\ running' = running \cup {i}
  /\ UNCHANGED <<toClient, turnVars, stopping>>

(* serve() cancels its tasks and perhaps the one that answers this; or it  *)
(* saw a line at the same time, answers, and waits for all of them.        *)
ReadsShutdown(i) ==
  /\ Reads(i, "gateway.shutdown")
  /\ \/ stopping' \in {"cancels", "waits"} /\ Writes(Response(i, TRUE))
     \/ stopping' = "cancels" /\ UNCHANGED toClient
  /\ UNCHANGED <<turnVars, running>>

ReadLine ==
  \E i \in Ids :
    \/ ReadsChatSend(i) \/ ReadsChatCancel(i) \/ ReadsChatApprove(i) \/ ReadsSessionNew(i)
    \/ ReadsCommand(i) \/ ReadsToolsRun(i) \/ ReadsShutdown(i)

Works == alive /\ stopping # "cancels"

(* The turn asks for an approval.  The flag is read before each call, so a *)
(* cancelled turn asks for no other.                                       *)
TurnAsks ==
  /\ Works
  /\ slot # 0 /\ ~replied /\ ~cancelled /\ asking = NoCall /\ asked < MaxCalls
  /\ asked' = asked + 1
  /\ asking' = <<slot, asked + 1>>
  /\ Writes(ApprovalEvent(<<slot, asked + 1>>))
  /\ UNCHANGED <<toServer, alive, announced, slot, replied, cancelled, conversation, copied>>
  /\ UNCHANGED <<running, stopping>> /\ ClientUnchanged

(* The response of the turn is out ...                                     *)
TurnEnds ==
  /\ Works
  /\ slot # 0 /\ ~replied /\ asking = NoCall
  /\ replied' = TRUE
  /\ conversation' = copied \cup {arg[slot]}
  /\ Writes(Response(slot, TRUE))
  /\ UNCHANGED <<toServer, alive, announced, slot, cancelled, asking, asked, copied, running>>
  /\ UNCHANGED stopping /\ ClientUnchanged

(* ... and the task that wrote it resumes.                                 *)
SlotReleased ==
  /\ Works /\ replied
  /\ slot' = 0 /\ replied' = FALSE /\ cancelled' = FALSE
  /\ UNCHANGED <<toServer, toClient, alive, announced, asking, asked, conversation, copied>>
  /\ UNCHANGED <<running, stopping>>
  /\ ClientUnchanged

ToolsRunEnds(i) ==
  /\ Works
  /\ running' = running \ {i}
  /\ Writes(Response(i, TRUE))
  /\ UNCHANGED <<toServer, alive, announced, turnVars, stopping>> /\ ClientUnchanged

(* serve() returned.                                                       *)
BackendExits ==
  /\ alive
  /\ \/ stopping = "cancels"
     \/ stopping = "waits" /\ slot = 0 /\ running = {}
  /\ alive' = FALSE
  /\ UNCHANGED <<toServer, toClient, announced, turnVars, running, stopping>> /\ ClientUnchanged

Dies ==
  /\ MayFail /\ alive
  /\ alive' = FALSE
  /\ UNCHANGED <<toServer, toClient, announced, turnVars, running, stopping>> /\ ClientUnchanged

Backend ==
  \/ Announce \/ ReadLine \/ TurnEnds \/ SlotReleased \/ BackendExits
  \/ \E i \in running : ToolsRunEnds(i)

Client == LineArrives \/ ExitArrives \/ TimerFires \/ Continuation \/ LoopEmpties

User == (\E k \in Kinds : Submit(k)) \/ Interrupt \/ Quit \/ CtrlC \/ Clear

Next == Client \/ User \/ Decide \/ Backend \/ TurnAsks \/ SpawnFails \/ Dies

Spec == Init /\ [][Next]_vars

(* The loop of Node and that of the gateway run what is ready, and what    *)
(* was shown to the user is decided.                                       *)
Fairness ==
  /\ WF_vars(LineArrives) /\ WF_vars(ExitArrives) /\ WF_vars(TimerFires)
  /\ WF_vars(Continuation) /\ WF_vars(LoopEmpties)
  /\ WF_vars(Announce) /\ WF_vars(ReadLine) /\ WF_vars(TurnEnds)
  /\ WF_vars(SlotReleased) /\ WF_vars(BackendExits)
  /\ \A i \in Ids : WF_vars(i \in running /\ ToolsRunEnds(i))
  /\ WF_vars(Decide)

FairSpec == Spec /\ Fairness

-----------------------------------------------------------------------------
(* Properties.                                                             *)

Sent(m) == {i \in Ids : method[i] = m}
PromptRequests == {i \in Ids : method[i] \in PromptMethods}

(* Types; chat.cancel and chat.approve name a chat.send and a call of one. *)
TypeOK ==
  /\ ready \in {"waiting", "resolved", "rejected"}
  /\ closed \in BOOLEAN /\ chunk \in BOOLEAN
  /\ nextId \in Nat \ {0}
  /\ method \in [Ids -> Methods \cup {"none"}]
  /\ \A i \in PromptRequests : arg[i] \in Prompts
  /\ \A i \in Sent("chat.cancel") : arg[i] \in Sent("chat.send")
  /\ \A i \in Sent("chat.approve") : arg[i] \in Calls
  /\ call \in [Ids -> {"unused", "pending", "resolved", "rejected"}]
  /\ continuations \subseteq Ids
  /\ app \in {"starting", "status", "failed", "running", "leaving", "done", "silent"}
  /\ kindOf \in [Prompts -> Kinds \cup {"none"}]
  /\ queue \in Seq(Prompts) /\ timers \in Seq(Prompts) /\ held \subseteq Prompts
  /\ active \in Sent("chat.send") \cup {0}
  /\ transcript \subseteq Prompts
  /\ approval \in Calls \cup {NoCall}
  /\ keys \in 0..MaxKeys
  /\ toServer \in Seq(Ids) /\ toClient \in Seq(Frames)
  /\ {alive, announced, exitSeen, replied, cancelled} \subseteq BOOLEAN
  /\ slot \in Sent("chat.send") \cup {0}
  /\ asking \in Calls \cup {NoCall} /\ asked \in 0..MaxCalls
  /\ conversation \cup copied \subseteq Prompts
  /\ running \subseteq Ids
  /\ stopping \in {"no", "cancels", "waits"}

(* A line is neither lost nor sent twice on its way: what the user         *)
(* submitted is in the queue, with a timer, or was sent, at one place and  *)
(* once, and only a line that App handles itself can be at none.           *)
Places(p) ==
  Cardinality({i \in DOMAIN queue : queue[i] = p})
    + Cardinality({i \in DOMAIN timers : timers[i] = p})
    + Cardinality({i \in PromptRequests : arg[i] = p})

PromptsConserved ==
  \A p \in Prompts :
    /\ Places(p) <= 1
    /\ kindOf[p] \in {"chat", "slash", "exit", "bash"} => Places(p) = 1

(* Lines that were queued are sent in the order in which they were typed,  *)
(* however chat turns, commands and timers that drain the queue overlap.   *)
HeldRequests == {i \in PromptRequests : arg[i] \in held}

FirstInFirstOut ==
  /\ \A i, j \in HeldRequests : i < j => arg[i] < arg[j]
  /\ LET waiting == timers \o queue
     IN /\ \A i, j \in DOMAIN waiting : i < j => waiting[i] < waiting[j]
        /\ \A i \in HeldRequests, j \in DOMAIN waiting : arg[i] < waiting[j]

(* activeRequestRef never names a turn whose answer was handled: Ctrl-C    *)
(* would cancel nothing, and every further line be queued for ever.        *)
ActiveIsPending == active # 0 => active \in Pending \cup continuations

(* While the turn waits for a decision, also when it was cancelled         *)
(* meanwhile, the request for it is on the way, on the screen or decided:  *)
(* nothing takes the prompt away that holds turn, slot and queue.          *)
ApprovalReachable ==
  asking # NoCall /\ alive /\ app = "running" =>
    \/ \E i \in DOMAIN toClient : toClient[i] = ApprovalEvent(asking)
    \/ approval = asking
    \/ \E i \in DOMAIN toServer :
         method[toServer[i]] = "chat.approve" /\ arg[toServer[i]] = asking
    \/ stopping # "no"

(* A decision that is under way is the only one and for the call the turn  *)
(* waits for.  The gateway goes by the call id, which calls may share:     *)
(* what the user decides opens the gate for no other call, however         *)
(* cancels, turns and prompts overlap.                                     *)
DecisionsMeetTheirCall ==
  LET approves == {j \in DOMAIN toServer : method[toServer[j]] = "chat.approve"}
  IN alive => /\ \A j, k \in approves : j = k
              /\ \A j \in approves : arg[toServer[j]] = asking

(* Nobody awaits a call for ever that was made before the exit of the      *)
(* child was seen: it is answered, or refused, or rejected when the        *)
(* gateway cancels it unanswered, dies, or leaves its line in the pipe.    *)
CallsSettle ==
  \A i \in Ids : (i \in Pending /\ ~exitSeen) ~> (i \notin Pending \/ AppEnded)

(* Queued lines are sent in the end.                                       *)
QueueDrains ==
  (queue # <<>>) ~>
    (queue = <<>> \/ AppEnded \/ \E p \in Prompts : kindOf[p] = "bang")

(* A shutdown that was asked for before the exit of the child was seen     *)
(* ends the TUI, whether the gateway answers, is gone before it does, or   *)
(* its answer is lost.                                                     *)
ShutdownEnds ==
  (~exitSeen /\ Sent("gateway.shutdown") \cap Pending # {}) ~> AppEnded

-----------------------------------------------------------------------------
(* What the task report, the documents and the comments say, and TLC       *)
(* refutes.                                                                *)

(* tasks/TASK_REPORT.md:986: App "queues submissions made while a chat     *)
(* turn is running instead of starting overlapping turns".                 *)
NoOverlappingTurns == Cardinality(Sent("chat.send") \cap Pending) <= 1

(* tasks/TASK_REPORT.md:987: "Once the current turn finishes, queued       *)
(* prompts are executed in FIFO order": none is refused.                   *)
QueuedPromptsExecuted ==
  \A i \in HeldRequests \cap Sent("chat.send") : alive => call[i] # "rejected"

(* Something will drain the queue: a timer, or a request whose finally     *)
(* schedules the next line.                                                *)
Draining ==
  \/ timers # <<>>
  \/ \E i \in PromptRequests \cup Sent("gateway.shutdown") : i \in Pending \cup continuations

(* tasks/TASK_REPORT.md:989: "Local slash commands and ! shell commands    *)
(* also drain the queue after they finish, so queued work continues".      *)
QueuedWorkContinues == ~AppEnded /\ queue # <<>> => Draining

(* gatewayClient.ts:362: "The child may already be dead or the RPC may     *)
(* time out - we still want to release any pending callers and reap the    *)
(* process".                                                               *)
ShutdownAlwaysEnds == (Sent("gateway.shutdown") \cap Pending # {}) ~> AppEnded

(* entry.tsx:29 catches a failed start, reports it and shows the stderr of *)
(* the gateway.                                                            *)
StartFailureReported == app # "silent"

(* docs/SHORTCUTS.md:61: Ctrl-C: "first press cancels the in-flight turn;  *)
(* second press exits".                                                    *)
CtrlCCancelsFirst == [][app' = "leaving" => app = "leaving" \/ active = 0]_vars

(* docs/SHORTCUTS.md:60: Ctrl-L: "clear the visible transcript (server     *)
(* keeps history)".                                                        *)
ClearKeepsHistory == [][conversation \subseteq conversation']_vars

=============================================================================

# TLA+ verification of GenericAgent (`ga_engineered`)

`src/ga_engineered` is a terminal agent in two processes. A TypeScript TUI
(Ink/React) owns the terminal; a Python gateway owns the conversation, the
model provider and the tools. They exchange JSON lines over the gateway's stdin
and stdout. This directory holds TLA+ modules translated from that code, the
TLC configurations that check them on small instances, and TLAPS proofs of the
theorems that hold for every instance. `PROJECT.json` lists, for every
definition that models code, the source lines it stands for.

Paths below are relative to `src/ga_engineered/src/generic_agent_engineered/`
(Python) or `src/ga_engineered/ui-tui/src/` (TypeScript).

## 1. Inventory

| component | state | operations | hard part | what makes it correct |
|---|---|---|---|---|
| Gateway server, `gateway/server.py`, `gateway/protocol.py` | busy slot, stop flag, writer lock, in-flight tasks, shutdown event | `serve`, one handler per method, response writing | a task per line; handlers run between the awaits of a turn; shutdown and end of input race with everything | one turn at a time; a cancel hits only its target; every accepted request is answered; `serve` ends |
| Chat turn service, `chat.py` | none of its own (`runtime.state`) | `run_turn` | copies the conversation before a long await, stores it after | no turn lost, none twice, errors leave the conversation alone |
| Agent loop, `runtime/agent_loop.py` | history, round, calls of a response | `run`, provider stream, tool execution | the stop signal is polled at certain points only | no tool starts after a cancel; bounded rounds; calls and results pair up |
| Approval gate and store, `runtime/approvals.py`, `commands/permissions.py` | pending futures, always-allow set, `approvals.json` | `run`, `resolve`, `add_always_allow`, save, `/permissions` | the user answers late, twice, or never; the file cannot be written, or is written by several at once | a risky tool runs only with consent; first answer stands; no entry leaks; the file says what was decided |
| Conversation, `runtime/compaction.py`, `commands/session.py`, `state/workspace_views.py`, `runtime/messages.py` | list of messages, turn count | `/new`, `/undo`, `/compact`, resume | commands are not serialised with a turn | the conversation is made of whole turns in order |
| Session store, `state/session_store.py` | SQLite sessions, messages, full-text index | append, load, search | sequence numbers under concurrent writers | unique ordered sequence, index follows messages |
| Tools, `tools/` | enabled set | registry, file read/write/patch, code, browser | path checks, partial edits | a patch applies exactly once, a path stays inside its roots |
| Shell runner, `tools/shell.py` (and `tools/code_run.py`, which shares it) | child process, reader task, wait task | run, time out, stop | timeout vs. exit vs. stop; a pipe held by a process left behind; a reader that dies of a long line | the call ends, and its result has all the output |
| Browser bridge client, `browser/cdp_bridge.py` | session table, pending executions | connect, execute, acknowledge | reconnect while a command is in flight | a result reaches the execution that asked for it |
| Chrome extension, `assets/tmwd_cdp_bridge/background.js` | global `ws`, alarms, tabs with a debugger | connect, probe, keep alive, execute commands | one global for many sockets, handlers that share tabs, a worker that is killed at will | it finds the server again; every debugger is detached |
| Credentials, `auth/` | `auth.json`, OAuth callback result | put, delete, refresh, login | two processes modify one file, a crash between two system calls; duplicate callbacks | the file is whole, no record is lost or comes back, the state parameter is checked |
| Providers, `providers/` | accumulation of a stream | one class per wire format | fragments of tool calls | the response equals what was streamed |
| Memory, skills, configuration, slash commands, launcher | files and settings | load, search, merge | sequential | precedence of sources |
| TUI gateway client, `gatewayClient.ts` | pending calls, ready waiters, exit reason | call, on, ready, shutdown | exit or write error while calls are pending | every call settles |
| TUI application, `App.tsx` | active request, prompt queue, pending approval, throttle buffer | submit, cancel, approve, event handlers | refs updated in one macrotask and read in another | a queued prompt is sent once and in order, a prompt for approval is current |
| Transcript, `state/transcriptStore.ts`, `hooks/useStreamThrottle.ts` | rows, active turn, pending text, timer | one case per frame, `begin_turn`, `end_turn`, flush | throttled text against tools and turn ends; turns that overlap | the rows tell what the backend sent, each turn its own, and nothing spins for ever |
| Prompt, `components/textInput.tsx`, `hooks/useInputHistory.ts`, `state/modeDetector.ts`, `state/commandFilter.ts` with App's draft | draft, buffer, recall index, stash, matches, dialogs | keys, completion, recall, search | one key reaches every mounted handler; two copies of the text; searches answered late | what the user wrote is on the screen, or kept somewhere |
| Vim prompt, `state/vimReducer.ts`, `state/inputBuffer.ts`, `hooks/useVimInput.ts` | buffer, mode, operator, anchor, undo stack | one case per mode and key | ends of lines and text; a text of its own next to App's draft | cursor in the text, undo, App reads what is written |

The TUI calls the gateway (`chat.send`, `chat.cancel`, `chat.approve`, ...);
the gateway answers each call with one response frame and sends event frames.
Inside the gateway a `chat.send` task calls the turn service, which runs the
loop; the loop calls the provider and, through the gate, the tools; the gate
emits `approval_request` and waits for a `chat.approve` handled by another task.
All tasks share `runtime.state`, the stop flag, the gate and the writer lock.

The hazards, each at its line and with the properties that would catch it, are
listed in `PROJECT.json`.

## 2. Modules

| module | models | extends |
|---|---|---|
| `Conversation` | the message list, undo, resume's turn count, compaction, pairing of calls with results, as operators | |
| `AgentTurn` | one turn: `run_turn`, `AgentLoop`, the provider stream, the tool calls through `ApprovalGate` | `Conversation` |
| `Gateway` | `GatewayServer`: receiving lines, every method, responses, the slot, shutdown; its properties | `AgentTurn` |
| `ChatContract` | abstract specification of `chat.send`/`chat.cancel` as a frontend sees them | |
| `GatewayInvariants` | the inductive invariants | `Gateway` |
| `MCGateway` | instance for TLC | `GatewayInvariants` |
| `GatewayProofs` | lemmas about the operators of `Conversation`; theorems: types, single flight, cancellation, statuses, shutdown, the approval gate, the turns of the conversation, the refinement of `ChatContract` | `GatewayInvariants`, TLAPS |
| `FrontendProofs` | theorems about the TUI process | `Frontend`, TLAPS |
| `StoresProofs` | theorems about the shared files | `Stores`, TLAPS |
| `TranscriptProofs` | theorems about the rows of the transcript | `Transcript`, TLAPS |
| `BridgeProofs`, `ShellRunnerProofs` | theorems about the debugger of the bridge and the output of a command | `Bridge`, `ShellRunner`, TLAPS |
| `Frontend` | the TUI: `GatewayClient`, the submit path, queue and keys of `App`, `entry.tsx`; the two pipes; a gateway reduced to what the TUI can tell apart | |
| `Transcript`, `MCTranscript` | the rows of the transcript, the throttle, App's listeners, `begin_turn`/`end_turn`; a gateway reduced to the frames of a turn | |
| `InputBuffer` | the text buffer and what App reads out of a text, as operators | |
| `Composer`, `MCComposer` | App's draft: prompt, history, stash, overlays, file search, dialogs, queued prompts | `InputBuffer` |
| `ComposerProofs` | theorems: the prompt shows the draft, matches are of the query in it, what was written is kept | `Composer`, TLAPS |
| `VimReducer` | `reduceVim`, as operators | `InputBuffer` |
| `VimInput`, `MCVimInput` | the vim prompt next to App's draft | `VimReducer` |
| `VimInputProofs` | theorems: the bounds of the vim prompt, App's draft, undo | `VimInput`, TLAPS |
| `Bridge` | the extension's socket, alarms and debugger handlers | |
| `Stores` | `approvals.json` and `auth.json` under several gateways and crashes | |
| `ShellRunner` | `_run_process` with its reader, the pipe, the command and a process it leaves behind | |

### How the code maps to the state

*Atomicity.* The gateway is one asyncio loop. An action is the code between two
awaits at which another handler could change something this code reads. Two
consequences are used throughout:

- A handler whose only await is the writing of its response (cancel, approve,
  session commands, shutdown, the read-only methods) runs in the step that
  receives its line: `serve` creates the task and awaits again, and asyncio
  runs tasks in the order in which they became ready, before the next line.
- An await that only writes an event frame is merged with the step after it.
  A handler that runs during such an await commutes with the code before it,
  because that code only appended to the turn's own history.

*Turn.* `phase` names the await at which the turn is suspended: `streaming` (the
provider), `approval` (the future), `running` (a tool); and the three ways out of
the loop (`finishing`, `stopping`, `exhausted`), which still await an event
frame before `run_turn` stores the history. `LoopHead`, `CallHead` and
`AfterCall` are the heads and bodies of the two `for` loops. `future` is
`ApprovalGate._pending`: by call id the state of a future and the call that awaits
it. A call is identified by its turn, round and place (`ThisCall`), since calls may
share an id; `asked` holds the events that were sent, each with its id and its call.

*Server.* `busy` is `_busy` together with `_busy_request_id`. `status` of a
request follows its task: `running` (suspended in the turn or tool), `writing`
(its response is queued on the writer lock), `written` (the frame is out, the
task has not resumed), `done`, or `lost` when a shutdown cancelled it without a
response. The gap between `written` and `done` is real: the executor thread has
written the frame, the client may act on it, and only the task's `finally`
releases the slot (`server.py:268-271`). `outbox` is the FIFO of the lock.

*Environment of `Gateway`.* The frontend sends any method of `Methods` at any time, approves
only by ids it was shown, as often and as late as it likes, and cancels requests it
has sent. The provider answers, asks for any sequence of tools with any ids, or raises. `approvals.json` may start with any
set of tools and saving it may fail. stdin may end at any time.

*Frontend.* An action is one macrotask of Node (a key, a timer, the exit event),
one line of a chunk of stdout, or the continuation of one settled promise.
Continuations run before the next macrotask but after the remaining lines of
the chunk (`chunk`); their order depends on how many async functions wrap each
promise, so any order is allowed. `call` is the promise of a request, and
`pending` of the code is the set of requests whose call is pending. `active`,
`queue`, `approval` are `activeRequestRef`, `promptQueueRef`,
`pendingApproval`; `timers` the `setTimeout`s with the line each will submit.
`app` follows `main()`: `starting` (await `ready()`), `status`, `running` (App is
rendered), `leaving` (Ink has unmounted App), `failed`, and the ends `done` and
`silent`, the latter when Node stops because nothing keeps its loop alive.
`Ctrl-C` is not the branch of `App`: `render` is called without options, Ink's
`exitOnCtrlC` is on by default, and `useInput` does not see the key.

The gateway of `Frontend` reads one line at a time and does what `Gateway` lets
the TUI observe: the slot, the gap between a turn's response and the release of
the slot, approvals, a cancel that sets the flag and leaves a pending approval waiting
(`server.py:387`, `approvals.py:146`), `tools.run` in parallel, a shutdown that answers or loses
its answer and that cancels or waits, and death at any time (`MayFail`).

*Transcript.* A turn emits tokens, pieces of text and calls; `emitted` is what the
gateway has sent and `items` what the screen says, a row being a bubble or a tool
with the tokens it shows. `pending` and `handle` are the throttle's refs. Every
frame flushes the throttle before it is dispatched, except `content_delta` and
the response; the response only settles the promise of `chat.send`, whose
continuation (`TurnSettled`) dispatches `end_turn` and schedules the queue. A chunk of
stdout is several lines in one macrotask, and continuations run behind it, as in
`Frontend`. The gateway refuses a turn that overlaps, stops, raises without a
last frame, and answers before it releases the slot. Call ids are fresh, or 0 for
all calls of a provider that has none and repeats the tool's name.

*Composer.* `ui` is what React holds between two renders: the draft, the buffer
of the prompt, which dialogs are open, the recall index. A key is one step
of every handler that is mounted, each reading `ui` as it was rendered and
changing what the ones before it left (`Handled`, `DialogKey`: in either order where
the order of subscription varies); `Render` then runs the effects: the prompt takes
over a draft that has changed, and a changed query cancels the searches before
it. An edit happens at any place of the text, so the cursor is not kept. One
dialog stands for each kind: `history` and `quick` change the draft, `list` is any
picker that reads its own keys, `board` any whose keys App reads.

*Vim prompt.* `vim` is the reducer's state, `draft` is App's. `told` and `past` are
history variables: whether the last change of either text was reported, and the texts
that `u` should bring back.

*Bridge.* `ws` is the global and `socket` the state of each WebSocket object, which
lives on when the global leaves it. `alarms` survive a restart of the worker,
sockets and handlers do not. `probes` counts alarm handlers that await
`isServerAlive`. A command is at one of its awaits (`pc`) with the tabs it has to
visit and the tab it believes it is attached to (`held`); `handleCDP`, the fallback of
`handleWsExec` and `handleBatch` are the same steps with one or more tabs.

*Stores.* A gateway does one thing at a time, but each system call of it is a step.
`names` is the directory, `content` what the inodes hold: an `open(path, "w")`
truncates the inode the name leads to, a later write goes to the inode that was
opened, `os.replace` moves the name. A write behind another one may leave the
rest of a longer text (`Torn`). `decided`, `expected` and `blame` are history: what the
user decided, what the finished operations make of the records, and which of
the overlaps that the code does not exclude have happened.

*Shell runner.* `pc` is the await of `_run_process`: the sleep of the poll, the
second of `_terminate`, `wait_task`, `reader_task`. Around it is what asyncio does on
Python 3.11 and what the call depends on: the StreamReader's limit, the pause of the
transport once the buffer holds twice as much, and `Process.wait()`, which returns only
when the pipe is closed as well, unless the command ended before it was called
(`waitsForPipe`; later versions never wait for the pipe). Output is counted in pieces
as long as the longest line `readline` accepts; a piece ends a line or does not.
This call is the await that `tools.run` and a tool of `AgentTurn` stand for.

### Abstractions

- Texts, arguments, token counts, titles and the content of events are dropped;
  a message keeps its role, its request and its number of calls.
- Request ids are the order of arrival; the client numbers its requests the same way.
- The id of a tool call is what the provider makes it: one of `GivenIds`, or the tool's
  name when it sends none (`providers/openai_chat.py:144`, `anthropic_messages.py:176`,
  `openai_responses.py:128`). Nothing keeps two calls from sharing one. In `Frontend` a
  decision names the call whose prompt it answers; `DecisionsMeetTheirCall` shows that
  this is always the one that waits, so that an id that others share does no harm there.
- The loop's compaction by token budget is off: `ChatTurnService` passes no
  `token_budget` (`chat.py:89`), so `_compact_history` returns at once.
- A line longer than the reader's limit raises out of `readline` and ends
  `serve`'s loop like the end of input; both are `StdinEnds`.
- `tools.run` is one await without effect on the modelled state: it uses the
  registry directly, not the gate, by design (`server.py:88-91`).
- In `Frontend` the read-only requests (status after a turn, lists, file search)
  are left out, except the status `main()` waits for: they change nothing but
  their own entry in `pending`. A turn's outcome is one answer; content frames
  are left out. A line written between the death of the child and its exit
  event is dropped (Node may report it as an error instead). The effect that
  copies the queue's state into `promptQueueRef` after a render is left out:
  every reducer action is applied to the ref first.
- `always_allow` of `AgentTurn` only grows: `/permissions` works on a store object
  of its own (`commands/permissions.py:72`), which `Stores` models together with
  the file. `/sandbox-toggle` sets `settings.yolo`, which the gate, whose own
  `yolo` is fixed at the start (`server.py:87`), never reads.
- `Transcript` leaves out the rows of no turn (prompts, notices, errors), time
  stamps, previews and folding. A tool result that is an error closes its row
  like any other. A second turn is enough for "another turn": the reducer
  compares request ids for equality only.
- In `Composer` an answer to a file search is the query it was made for, or
  nothing; paste bursts, multi-line movement and the character under the
  cursor are left out, approvals and dialogs open at any time the code lets
  them.
- In `VimInput` App's dialogs are one flag; a remount brings the draft or a text
  picked from the history.
- In `Bridge` a script and the methods of the debugger succeed or throw; answers,
  which go to whatever the global leads to, are left out. A restart is a
  kill and the event that wakes the worker. That the keepalive alarm comes due during
  the handshake of a later socket counts as a failure, of which there are
  `MaxFailures`.
- In `Stores` no system call fails except an `os.replace` whose source is gone, and
  a text is written at once. `auth.json` exists from the start. Tokens are numbers
  that no record has held.

## 3. Runs

All bounds are constants of the configurations.

| run | bounds | shows |
|---|---|---|
| `gateway_approvals` | 4 requests (send, cancel, approve), 1 round, 2 calls, one gated and one ungated tool, one id that a provider gives besides the tools' names | types; consent given while the call waited; the first answer stands; nothing leaks in `_pending`; unanswered calls are only saved by cancelled turns; no tool starts after a cancel |
| `gateway_turns` | 4 requests (send, cancel, new, resume, commands), 2 rounds, 1 call, one stored session, keep 1 turn | single flight; a cancel hits its target; reported statuses; no turn is lost; the conversation is made of whole turns, each once, in order; refinement of `ChatContract` |
| `gateway_lifecycle` | 3 requests (send, approve, tools.run, shutdown, read-only, malformed), 2 rounds, fairness | end of input answers all; accepted work ends; a shutdown takes `serve` to its end |
| `frontend_queue` | 4 lines (chat, slash, bash, lone `!`), fairness | a line is in one place and is sent once; queued lines keep their order; the queue drains; `activeRequestRef` is never stale |
| `frontend_lifecycle` | 2 lines (chat, `/exit`, `/rate-limit-options`), 1 key, 2 approvals per turn, a gateway that may fail, fairness | types; the approval a turn waits for is on its way, shown or decided, also after a cancel; a decision is for the call that waits; every caller gets an answer or an error; a shutdown asked for before the exit of the child was seen ends the TUI |
| `transcript` | 2 turns of at most 3 and 2 tokens, 2 rounds, 1 command, 2 frames in the pipe | the active turn's tokens are on the screen, in the throttle or in the pipe, in order; a completed turn is shown; a bubble holds its own turn's text; finished rows stay; nothing spins for a turn that is over |
| `composer` | 6 keys, texts of 3 characters out of `a`, `/`, `@` (and `?`, `y` as keys), 1 command, 2 turns | the prompt shows App's draft; loaded matches are the query's; what was written is kept, but for the steps that `TextKept` names |
| `vim_input` | 7 keys or changes, texts of at most 4 characters out of `a`, blank, `/` and `@`, an undo stack of 2 | cursor, anchor and undo stack in bounds; `u` rewinds |
| `bridge` | 2 tabs, 2 commands, 3 sockets, 2 failures, fairness | once nothing fails any more the worker is connected for good; a tab with a debugger has a handler that will detach it |
| `stores` | 2 gateways, 2 tools, 2 providers, 4 operations, 1 crash | files stay whole and records are kept, but for the overlaps that `blame` names |
| `shell` | 6 pieces of output, a pipe of 2, a limit of 2, fairness | a result has all the output and a command that is gone; the call ends, but for the two cases `CallEnds` names |

Why the bounds suffice: the interesting cases of cancellation need two sends and
two cancels (a stale cancel needs a turn that ended and one that runs, a
duplicate needs a second) and two rounds (a cancel between rounds and at the round
limit). A cancel between calls needs two calls, as do approvals for a second pending
entry, with two answers to one call and a cancel; two calls of one tool, or of one given
id, are enough for an id that is shared. A
conversation is cut by `/compact` once there are more than `KeepRecent` = 1 turns
(the code's default is 3; the operators take it as a parameter), which two
prompts and a resumed session reach with two commands to spare; the stored messages carry request 0, those of a turn the id of its
`chat.send`, so that the properties tell them apart. The queue needs
one line in flight and three behind it for two lines to be on the way (a timer
and a queue) while a third is added. Two lines give a turn that ends
with an approval under way and a next one that asks anew. A transcript of text, tool and text again takes three
tokens, a second turn is what a late delta or `end_turn` can hit, a command is what lets
a queued prompt overlap with a turn, and two frames in the pipe form a chunk. Six keys
suffice to type, submit, recall, edit and stash, or to open a mention, search twice and
pick. Every
pair of tabs is a batch, so two commands meet in all ways on two tabs; with two failures
at most three sockets are not closed at once (with 4 allowed the state count is the same). Two
gateways and four operations hold two saves that overlap and a refresh inside a
logout; the crash falls between any two system calls. Two pieces end a reader, three more
pause the transport for good, and one stays in the pipe. Deadlock is not
checked: with `MaxRequests` lines read the frontend may stay silent for ever,
and a closed server stops, as does a TUI whose process ended.

The remaining run, `doc_persist`, refutes a sentence of the repository that
`PROJECT.json` quotes in a finding: decisions about tools are said to persist in
`approvals.json`, but the gate saves the set it has held since the start, so an `a`
answered after a `/permissions` command drops what that command wrote. One gateway
and two operations suffice.

The last sections of the modules state further sentences of that kind, which the
code does not keep either. They have no run of their own; TLC refutes each in a
configuration with the constants given here, or else with those of the module's run
(Gateway: `Archive <- OneStored`, `KeepRecent = 1`, 1 call; liveness under `FairSpec`).

| property | constants | what happens instead |
|---|---|---|
| `NewSessionIsEmpty` | Gateway: 2 requests: send, session.new | `session.new` is said to be queued behind a turn (`TUI_TS_PROTOCOL.md:243`); it runs at once, and the turn in flight puts its history back (`server.py:509`) |
| `FailuresAreErrors` | Gateway: 2 sends | provider failures are said to carry error codes (`server.py:355-358`); those of subclasses of `ProviderError` come back as results (`server.py:361`) |
| `NoOverlappingTurns` | Frontend: 3 lines: chat, bash | prompts are said to queue instead of overlapping (`TASK_REPORT.md:986`); the timer of a queued line does not look at the active request (`App.tsx:235`), and the refused prompt is lost |
| `ShutdownAlwaysEnds` | Frontend: 1 chat, 1 key, `MayFail` | `shutdown` is said to reap a dead child (`gatewayClient.ts:363`); it waits for the answer of a child that is gone |
| `CtrlCCancelsFirst` | Frontend: 1 chat, 1 key | the first Ctrl-C is said to cancel the turn (`SHORTCUTS.md:61`); Ink's `exitOnCtrlC` ends the TUI (`entry.tsx:42`) |
| `ClearKeepsHistory` | Frontend: 1 chat, 1 key | Ctrl-L is said to keep the history of the server (`SHORTCUTS.md:60`); `session.new` empties it (`App.tsx:674`) |
| `EveryRequestAnswered` | 2 requests: send, shutdown | a shutdown cancels tasks, which then never answer |
| `CancelledWhenAcknowledged` | 2 requests: send, cancel; 1 round | a cancel acknowledged after the status was computed, or in the last round, has no effect on it |
| `EndOfInputExits` | send, approve; a gated tool | a turn waiting for an approval keeps `serve` for ever |
| `ShutdownExits` | send, approve, shutdown; a gated tool | the event noticed together with a line or EOF cancels nothing |
| `TurnCountIsLoopTurns` | 2 sends, 2 rounds | `turn_count` counts the prompts of the session, not the loop's rounds |
| `AnswersMeetTheirCall` | Gateway: 3 requests: send, approve; a gated tool, 2 calls | a pending approval is said to await a decision of the frontend (`approvals.py:88`), which one is up to the id: two calls without an id of their own share the tool's name, and a second `chat.approve` for the first decides the one that waits now |
| `QueuedPromptsExecuted` | 2 chats | the response is out before the slot is free; the next prompt is refused |
| `QueuedWorkContinues` | 3 lines: chat, lone `!` | a queued lone `!` does not schedule the next line |
| `StartFailureReported` | `MayFail` | a child that exits before `gateway.ready` settles nothing, and Node ends |
| `NoDeltaStuck` | Transcript | the flush at the end of a turn is said to leave no delta behind (`useStreamThrottle.ts:11`); a turn that raises sends no frame that flushes, and its tail is shown later or in the next turn's bubble |
| `FinalTextTrusted` | Transcript | the response's text is said to be shown if nothing was streamed (`transcriptStore.ts:380`); a bubble of an earlier round suppresses it |
| `PrintableInserted` | VimInput | INSERT is said to insert any printable (`SHORTCUTS.md:80`); a `/` or `@` opens an overlay that takes the focus from the vim prompt |
| `UndoRestores` | VimInput | `u` is said to undo the last edit (`vimReducer.ts:12`); `o` and `O` record the text with the new line |
| `TimeoutEnds` | ShellRunner | a timeout is said to end the tool (`docs/ARCHITECTURE.md:117`, `shell.py:189`); a process left behind keeps the pipe, and after a line of more than 64 KiB with 128 KiB behind it nobody reads the pipe: the call, its turn and the busy slot stay for ever, and a cancel is not looked at (`defaults.py` gives the tools no stop signal) |
| `ParentNotified` | VimInput | the hook is said to notify App on value changes (`useVimInput.ts:24`); backspace and newlines are not told |

### Fairness

`Fairness` gives weak fairness to the turn (the provider and the tools come
back), to each `tools.run`, to the writing of a frame (the frontend reads its
pipe), to the resumption of a task whose frame was written, to the shutdown
event and to the return of `serve`: an asyncio loop runs every ready callback.
Nothing is assumed of the user: a pending approval may never be answered, which
is why `WorkEnds` and `ShutdownTakesEffect` except `phase = "approval"` and why
`EndOfInputExits` and `ShutdownExits` are violated. A provider that never
returns is outside the fairness assumption: the HTTP client has a timeout.

In `Frontend` the loop of Node and the gateway run what is ready, and a turn and
a `tools.run` end. `WF_vars(Decide)` is an assumption about the user: an approval
that is shown is decided some time, without which a queue, and the caller of a
`chat.send`, rightly wait for ever. Typing, keys, failures and further approvals are not fair.

In `Bridge` the browser fires alarms that are set, fetches and handshakes end, and a
server that was stopped is started again: the extension waits for it for as long as
that takes. Failures are bounded and not fair, commands need no fairness: `Reconnects` is
about the link alone.

In `ShellRunner` time passes, the loop runs what is ready and signals are delivered: SIGKILL
ends a command, SIGTERM one that does not ignore it. Nothing is assumed of the command or
of what it leaves behind: neither ends by itself.

`Transcript`, `Composer`, `VimInput` and `Stores` state safety only.

## 4. Proofs

The theorems about the gateway hold for every value of the constants under
`TurnAssumption` and `GatewayAssumption`: any tools, any number of requests, rounds
and calls, any archive, any `KeepRecent`. Those about the other modules rest on
`FrontendAssumption` (any kinds and number of lines, keys and approvals),
`StoresAssumption` (any finite set of gateways, any tools and providers, any number of
operations and crashes), `TranscriptAssumption` (any number of turns, rounds, tokens, commands
and frames in the pipe), `CharsAssumption`, `ComposerAssumption`, `HistoryAssumption` and `VimInputAssumption` (any alphabet with the characters
that are looked at, any commands, path and limit of the undo stack, texts, keys and turns without
bound; `NoText`, which stands for null, is not a text), `BridgeAssumption` (any tabs, commands, sockets and failures)
and `RunnerAssumption` (any pipe, limit and amount of output).

`GatewayProofs`:

- `TypeCorrect`: `TypeOK` is inductive. The work is in the conversation: undo,
  compaction and resume must return sequences of messages, which rests on the
  cardinality lemmas about the operators of `Conversation`.
- `AlwaysSingleFlight`: `SingleFlight` is not inductive. A
  response that is being written still holds the slot, so `SlotHeld` ties `busy`
  to the one unfinished `chat.send` that was not refused, `RunningUnanswered`
  and `RequestsInOrder` say which tasks can be suspended where, and `TurnShape`
  ties the loop variables to the phase. `SlotInv` is their conjunction.
- `CancelsReachTheirTarget`, `StatusesReported`, `NoToolsAfterCancel`: `CancelInv`
  adds that a loop which stopped early stopped for a signal that is still set. The
  lemma behind it is that a reply once given stands.
- `EndOfInputAnswered`: `ServeInv` adds that without a shutdown no task is lost.
- `AlwaysConsent`, `AlwaysOneAnswer`, `AlwaysPendingIsCurrent`: `ApprovalInv` is
  their conjunction with two facts the
  code relies on. `AskedBefore`: the user was asked about the call that waits, and the
  calls asked about lie behind the current one, so a call that starts was never decided
  before. `DecisionsAcknowledged`: what a future holds was told to the one who said it,
  as a decision of the call that awaits the future, and a call that was decided waits for
  no other answer, so an `allow` and a `deny` of the same call cannot both have been
  accepted. Ids play no part in this: what a shared id could carry from one call to the
  next is an entry of `_pending`, and `PendingIsCurrent` leaves none. The proof sorts the steps by what
  they do to the gate: nothing, an answer of the user, the begin, a step or the end
  of a turn.
- `AlwaysTurnsInOrder`: `TurnsInv` says of the history of the running turn what
  `TurnsInOrder` says of the conversation, and that its last prompt is the turn's. The
  lemmas say what each operation leaves of a sequence of whole turns: a message of the
  last turn extends it, undo cuts the last one off, compaction drops a prefix that ends
  where a turn begins.
- `NoTurnsLost`: without session methods the running turn adds its own prompt to those
  of the conversation it started from (`SavedInv`). It is this fact which `session.new`
  breaks, when the turn in flight puts its history back.
- `OrphansCancelled`: while a call is waited for, the history ends with the assistant
  message of this round and the results of the calls before it (`CallsUnderWay`), so the
  only message that misses a result is that one, or one of a turn that is being stopped
  (`OrphansInv`).
- `GatewayImplementsChat`: every step of the gateway is,
  under the mapping of `Gateway`, a step of `ChatContract` or a stutter. It needs
  `SlotInv`, `CancelInv` (a verdict "cancelled" has its acknowledged cancel) and
  `WritersAnswered` (only an answer is written), without which the slot could be
  released before its verdict.

`FrontendProofs` has one inductive invariant, `FrontendInv`, because its parts need each
other. `TypeOK` alone is not inductive: a request has an id in `Ids` because the number
of requests is bounded by what causes them (`RequestsCounted`), and that holds because
every line is sent once (`LinesOnce`), every call of a turn is asked about and decided
once (`CallsOnce`), an `/exit` is agreed to once (`Ledger`) and the start asks for one
status (`Stages`).

- `QueuedInOrder`: `LinesInOrder` orders the timers before the queue and what was sent
  before both. An action of the queue moves its head to the timers, and a timer that
  fires moves the head of the timers to the gateway.
- `PromptsKept`: a line App does not handle itself waits in a timer or the queue, or
  is the argument of exactly one request (`LinesOnce`).
- `ActiveStaysPending`: `Ledger` gives every promise its state, and a promise whose caller
  waits to be resumed is settled.
- `ApprovalsReachable`: the request for a decision that the gateway waits for is the last
  thing it asked (`AskedLast`) and no decision about it was sent (`CallsOnce`). The turn
  waits until a decision is read, whatever was cancelled, so a prompt on the screen is of
  the call that waits, or of a gateway that is gone; the pipes keep their order
  (`RequestsInTurn`).
- `DecisionsMeetTheirCalls`: a decision that is in the pipe while the gateway runs is for
  the call that waits (`DecisionsCurrent`), and since a call is decided once there is no
  other.

`StoresProofs`: the argument is about inodes. `Apart`: no inode has two names, and a
save never has the inode of `auth.json` open, nor a logout that of the approvals.
`Sorted`: what each name leads to. `SavesAlone`: unless two saves overlapped, the temporary
file is that of the one save under way and holds what that wrote, so the rename puts
a whole text in place (`AlwaysWholeFiles`). `AuthAlone`: operations on `auth.json` that did not
overlap start from what the one before left, so the text they write changes only what
the operation is about (`AlwaysRecordsKept`).

`TranscriptProofs` has one inductive invariant too, `TranscriptInv`. What a row shows at the end
depends on frames that are still in the pipe, so most of its parts are about those.
`TurnsInTurn`: the gateway reads the turns in their order, and nothing of a turn exists before it
is read. `FramesInOrder`: the frames of a turn come before those of the next, refusals excepted.
`AnsweredLast`: a turn is answered once, and nothing of it follows. `TextFlushed`: behind
every delta and behind what the throttle holds there is a frame that flushes, or the turn
raises. `ToolsClosed`: the same of a call and the frame that closes its row.
`CancelledTools`: a turn whose tools were cancelled has no result under way. The proofs first sort
the actions of `Next` by what they do to the two pipes (`Steps`), and the rows by which
reducer case made them (`FlushedRows` to `LoopStoppedRows`).

- `TextStaysWithItsTurn`: the throttle flushes to the turn of the last delta, so it must hold
  text of that turn only (`PendingOfLast`). When the first delta of a turn is read, `TextFlushed`
  and `FramesInOrder` leave no place for the frame that an older text waits for, so the turn
  of that text has raised.
- `NothingSpins`: when a turn has settled none of its frames is in the pipe, so a call
  that still runs has nothing left to wait for but `Raised`; bubbles that stream are of
  a turn that is not over (`OpenBubbles`).
- `FinishedRowsStay`: a row changes only while it is open. The one case that needs the
  invariant is a result for a tool that is already cancelled.
- `ActiveTurnIsComplete`: what is seen of a turn are its tokens with the place each is at:
  a row, the throttle or the pipe. Every step that touches the active turn appends a token
  to the pipe, moves the first token of what is behind to the end of what is before, or
  drops nothing, so the tokens stay in their order. `StoryInv` has the facts that make it
  so: the active turn is the latest and its bubbles are open, so that `appendDelta` finds
  the last of them (`ActiveIsLatest`); of a turn that was not read nothing is told
  (`FreshUntold`); the throttle holds nothing of a later turn than its last delta
  (`PendingBehind`); a tool on the screen or on its way is a call of its turn
  (`CallsEmitted`). `ActiveTold` is stronger than the property: when the text of the last
  round is not seen, the response that carries it names that round.
- `CompletedTurnIsShown`: at the end of the turn nothing of it is in the pipe
  (`AnsweredLast`) or in the throttle (`TextFlushed`), so its rows tell all of it; and
  `finalizeTurn` shows the text of the response if it finds no bubble.

`ComposerProofs`: the invariant `ComposerInv` adds to `DraftIsBuffer` the types and
`SearchOfQuery`: the timer and the searches that are not cancelled are of the query in
the draft, and so is what was found once nothing is awaited.

- `PromptShowsTheDraft`: the prompt copies the draft only when it is mounted or the draft
  has changed, so what the handlers of one key make of the two must agree whenever they
  leave the draft as it was (`Agrees`). The lemmas say what each handler writes: only the
  prompt writes both, App and the dialogs write the draft alone, and no key makes both
  the prompt and App write, but for Enter on a mention. There App's draft differs from the
  one before, because a completed mention ends with a space and an open one does not
  (`MentionIsText`), so the render copies it. An Enter that empties the prompt alone was on
  a blank text (`TrimIsText`).
- `MatchesAreOfTheDraft`: a change of the query cancels the timer and the searches before
  it and starts loading; an answer ends loading only when its search is not cancelled, and
  then it is of the query in the draft.
- `WrittenTextIsKept`: `Outcome` says what all the handlers of a key, in either order, make
  of the texts: they leave them, or submit the prompt, or recall, or write one character,
  or stash, or restore. Each outcome puts the text where `TextKept` looks for it. The
  theorem needs `DraftIsBuffer`, since a recall saves the prompt and Enter submits the
  prompt while the text that must be kept is the draft, and `AtRest`
  (`NothingIsHalfSubmitted`): no key finds something that another is submitting.

`VimInputProofs` has one inductive invariant, `VimInputInv`: `TypeOK`, `DraftFollows` and
`PastOK`, which says that the undo stack and what the model notes about it have the same
length and the same texts, but for changes that opened a line.

- `PromptIsSound`: a motion asks for an offset between 0 and the length of the text,
  whatever the runs of characters are, and an operator cuts between two such offsets. One
  lemma per group of keys says which buffer, mode and stack it leaves.
- `DraftFollowsPrompt` (proved only, no run checks it): `told` says that since App was last told only keys came of which it
  is told as well. A key of NORMAL, VISUAL or a pending operator, and a character in INSERT,
  either leaves the text or tells App the new one; Enter and Backspace in INSERT do not, and
  end `told`, as does App when it changes the draft.
- `UndoBringsBack`: a change pushes the text it found on both, and both drop their oldest
  element at the same limit, so `u` pops the text that the property names.

`BridgeProofs` and `ShellRunnerProofs`:

- `DebuggersReleased`: `DebuggerReleased` is inductive once the
  handlers are well formed; each handler step either keeps the tab it holds, lets go
  of the tab it detaches, or holds the tab it attaches.
- `ResultsComplete`: `OutputInv` says that no piece is lost
  between pipe, buffer and reader unless the reader raised (`Conserved`), that the
  end of the pipe is final (`EndIsFinal`), that a reader that is done has read all of
  it (`ReaderDone`), and that the call passes the wait only after the command was
  reaped (`CallInStep`).

These invariants were also checked by TLC on the instances of section 3 (`StoryInv` with
`Nat` cut to 0..20, since it asks for a token number).

Only model-checked: all liveness (`WorkEnds`, `ShutdownTakesEffect`, `QueueDrains`,
`CallsSettle`, `ShutdownEnds`, `Reconnects`, `CallEnds`), which is out of the prover's reach. Every
invariant and action property of the passing runs is proved, for every value of the
constants. What the operators of `VimReducer` and `InputBuffer` compute for every text
would take induction over data: the theorems use only what bounds them.

## 5. Plan

Done: `Conversation`, `AgentTurn`, `Gateway`, `ChatContract`, `Frontend`, `Transcript`,
`Composer`, `VimReducer`, `VimInput`, `Bridge`, `Stores`, `ShellRunner`, and the proofs of
section 4. Left, in this order:

1. `Compaction`: the cardinality operators of `Conversation` against the loops
   of `_split_turns` over bounded inputs.
2. `OAuthCallback`: the loopback server of the login with its threads, then the login as
   one more writer of `auth.json` in `Stores`.
3. Parsers and accumulators as operators: the edits of `file_patch`, the fragments of
   tool calls in a provider's stream, configuration precedence.

## 6. Not modelled

- The bundled TUI (`_tui_dist/bundle.js`, 55994 of the repository's 64563 lines of
  implementation): esbuild generates it from `ui-tui/src` and its dependencies
  (React, Ink, Yoga, zod). Its own part is modelled in the sources; the rest is not
  this project's code. A map of the sources can therefore never cover more than about
  an eighth of that count.
- Rendering: `components/` beyond the state of the prompt and the dialogs, `markdown/`.
- `overlayStack.ts`, which `App` does not use; toasts; paste detection, which goes by
  the clock; the history file.
- Read-only listings, the launcher and `doctor`, the spawning of the browser bridge
  process, memory and skill files, tests: sequential code without a protocol.
- The HTTP client of the browser bridge (`cdp_bridge.py`): one request and one answer, no
  state of its own but the selected tab.

What the models show beside the properties, and no property states:

- While a file search is under way, the matches of the query before are on the screen,
  and Tab or Enter picks from them (`App.tsx:767`); `MatchesCurrent` speaks of matches that
  are shown as loaded.
- The extension answers on the global `ws`, whichever connection that is by then
  (`background.js:302`).
- A command of the extension whose attach fails detaches the tab in its catch block, also
  when another command attached it (`background.js:289`).
- A logout writes `auth.json` in place (`auth/store.py:71`), and all processes that save
  `approvals.json` share one temporary name (`runtime/approvals.py:62`).
- A command started by `shell` inherits the gateway's stdin, from which `serve` reads
  its requests (`tools/shell.py:138`).
- A task that a shutdown cancels leaves its command running (`tools/shell.py:181`).

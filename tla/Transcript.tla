------------------------------ MODULE Transcript ------------------------------
(***************************************************************************)
(* What the user reads of a chat turn: the frames of the gateway, the      *)
(* listeners of App (App.tsx), the throttle in front of content_delta      *)
(* (useStreamThrottle.ts), the reducer (transcriptStore.ts), and the       *)
(* begin_turn and end_turn that submitCore dispatches around a chat.send.  *)
(*                                                                         *)
(* A turn emits tokens: pieces of text and tool calls.  Token n of turn t  *)
(* is <<t, n>>; emitted[t] is what the gateway has sent so far, and the    *)
(* rows of the transcript are to tell the same story.                      *)
(*                                                                         *)
(* The rows of no turn (prompts, notices, errors) are left out: appendDelta*)
(* steps over them.  So are time stamps, previews and folding.             *)
(***************************************************************************)
EXTENDS Naturals, Sequences, FiniteSets, SequencesExt

CONSTANTS
  MaxTurns,     \* bound: chat turns of the session
  MaxRounds,    \* AgentLoopConfig.max_turns
  MaxTokens,    \* bound: tokens of each turn
  MaxCommands,  \* bound: commands in flight next to a turn
  MaxFrames     \* bound: frames in the pipe, the gateway waits when it is full

ASSUME TranscriptAssumption ==
  /\ {MaxTurns, MaxRounds, MaxFrames} \subseteq Nat \ {0}
  /\ MaxTokens \in [1..MaxTurns -> Nat \ {0}]
  /\ MaxCommands \in Nat

Turns == 1..MaxTurns

(* Token 0 is a message about the end of the turn; a call has the id of    *)
(* its token, or 0 from a provider that names it as its tool.              *)

(* The rows of the transcript: text bubbles and tools.  An open bubble is  *)
(* "streaming", an open tool "running".                                    *)
Bubble(t, text, status) == [kind |-> "assistant", turn |-> t, text |-> text, status |-> status, id |-> 0]
ToolRow(t, n, id) == [kind |-> "tool", turn |-> t, text |-> <<<<t, n>>>>, status |-> "running", id |-> id]
Open(row) == row.status \in {"streaming", "running"}

VARIABLES
  items,          \* TranscriptState.items
  activeTurn,     \* TranscriptState.activeTurn (0: null)
  pending,        \* pending.current of the throttle
  handle,         \* handle.current: the timer of the throttle is armed
  lastDelta,      \* lastDeltaRequestId.current (0: null)
  active,         \* activeRequestRef.current (0: null)
  queued,         \* prompts in the queue
  timers,         \* timers of scheduleNextQueuedPrompt
  commands,       \* commands in flight
  begun,          \* the turns begun
  continuations,  \* the turns that were answered and whose caller waits
  chunk,          \* continuations wait for the last line of a chunk of stdout
  toServer,       \* stdin of the gateway: turns
  toClient,       \* stdout of the gateway: frames
  slot,           \* the turn that holds the busy slot (0: none)
  phase,          \* what that turn does
  round,          \* the round of its agent loop
  calls,          \* the tool calls of the round that have no result
  emitted,        \* history: the tokens each turn has emitted
  outcome         \* history: how each turn was answered

storeVars == <<items, activeTurn>>
throttleVars == <<pending, handle, lastDelta>>
submitVars == <<active, queued, timers, commands, begun>>
serverVars == <<slot, phase, round, calls, emitted>>
vars == <<storeVars, throttleVars, submitVars, continuations, chunk, toServer, toClient,
          serverVars, outcome>>

Delta(t, n) == [kind |-> "content_delta", turn |-> t, n |-> n, id |-> 0]
Call(t, n, id) == [kind |-> "tool_call", turn |-> t, n |-> n, id |-> id]
Result(t, id) == [kind |-> "tool_result", turn |-> t, n |-> 0, id |-> id]
Plain(kind, t) == [kind |-> kind, turn |-> t, n |-> 0, id |-> 0]

(* The response of turn t after r rounds.                                  *)
Response(kind, t, r) == [kind |-> kind, turn |-> t, n |-> r, id |-> 0]

(* The response: the turn completed, the loop stopped, something raised, or*)
(* the slot was busy.                                                      *)
Answers == {"completed", "stopped", "raised", "refused"}

Init ==
  /\ items = <<>> /\ activeTurn = 0
  /\ pending = <<>> /\ handle = FALSE /\ lastDelta = 0
  /\ active = 0 /\ queued = 0 /\ timers = 0 /\ commands = 0 /\ begun = 0
  /\ continuations = {} /\ chunk = FALSE
  /\ toServer = <<>> /\ toClient = <<>>
  /\ slot = 0 /\ phase = "idle" /\ round = 0 /\ calls = <<>>
  /\ emitted = [t \in Turns |-> <<>>]
  /\ outcome = [t \in Turns |-> Plain("none", t)]

-----------------------------------------------------------------------------
(* transcriptReducer, on the rows is and the active turn a.                *)

(* The latest row of turn t, 0 if there is none.                           *)
Latest(is, t) ==
  LET rows == {k \in DOMAIN is : is[k].turn = t}
  IN IF rows = {} THEN 0 ELSE CHOOSE k \in rows : \A j \in rows : j <= k

(* Mutant: only the last row of the transcript is looked at.               *)
AppendDeltaToLast(is, a, t, text) ==
  LET k == Len(is)
  IN IF k > 0 /\ is[k].kind = "assistant"
     THEN IF is[k].status = "streaming"
          THEN [is EXCEPT ![k].text = @ \o text]
          ELSE is
     ELSE IF a = t THEN Append(is, Bubble(t, text, "streaming")) ELSE is

(* appendDelta: on to the latest row of the turn if that is an open bubble,*)
(* nowhere if it is a closed one, else into a bubble of its own if the     *)
(* turn is the active one.                                                 *)
AppendDelta(is, a, t, text) ==
  LET k == Latest(is, t)
  IN IF k > 0 /\ is[k].kind = "assistant"
     THEN IF is[k].status = "streaming"
          THEN [is EXCEPT ![k].text = @ \o text]
          ELSE is
     ELSE IF a = t THEN Append(is, Bubble(t, text, "streaming")) ELSE is

(* Mutant: the result is matched by its id alone.                          *)
CloseToolCallAnyTurn(is, t, id) ==
  [k \in DOMAIN is |->
     IF is[k].kind = "tool" /\ is[k].id = id
     THEN [is[k] EXCEPT !.status = "ok"]
     ELSE is[k]]

(* closeToolCall: every row of the turn with this id.  A result that is an *)
(* error closes them as well.                                              *)
CloseToolCall(is, t, id) ==
  [k \in DOMAIN is |->
     IF is[k].kind = "tool" /\ is[k].turn = t /\ is[k].id = id
     THEN [is[k] EXCEPT !.status = "ok"]
     ELSE is[k]]

(* loop_stopped: what still runs is cancelled, whatever its turn.          *)
LoopStopped(is) ==
  [k \in DOMAIN is |->
     IF is[k].kind = "tool" /\ is[k].status = "running"
     THEN [is[k] EXCEPT !.status = "error"]
     ELSE is[k]]

(* Mutant: only the latest bubble is closed.                               *)
FinalizeLatest(is, t, final) ==
  LET k == Latest(is, t)
  IN IF k > 0 /\ is[k].kind = "assistant"
     THEN [is EXCEPT ![k].status = "done"]
     ELSE IF final # <<>> THEN Append(is, Bubble(t, final, "done")) ELSE is

(* finalizeTurn: the bubbles of the turn are closed; the text of the       *)
(* response is shown if there is none.                                     *)
FinalizeTurn(is, t, final) ==
  IF \E k \in DOMAIN is : is[k].kind = "assistant" /\ is[k].turn = t
  THEN [k \in DOMAIN is |->
          IF is[k].kind = "assistant" /\ is[k].turn = t
          THEN [is[k] EXCEPT !.status = "done"]
          ELSE is[k]]
  ELSE IF final # <<>> THEN Append(is, Bubble(t, final, "done")) ELSE is

-----------------------------------------------------------------------------
(* The throttle.                                                           *)

(* Mutant: what is pending is dropped.                                     *)
FlushedNothing == items

(* onFlush: what is pending goes to the turn of the last delta.            *)
Flushed ==
  IF pending = <<>> \/ lastDelta = 0 THEN items
  ELSE AppendDelta(items, activeTurn, lastDelta, pending)

(* flushNow.                                                               *)
Flush == pending' = <<>> /\ handle' = FALSE /\ UNCHANGED lastDelta

(* A macrotask begins when the continuations of the last one have run.     *)
Macrotask == continuations = {} /\ chunk' = FALSE

(* The timer of the throttle.                                              *)
ThrottleFires ==
  /\ Macrotask
  /\ handle
  /\ items' = Flushed
  /\ Flush
  /\ UNCHANGED <<activeTurn, submitVars, continuations, toServer, toClient, serverVars, outcome>>

-----------------------------------------------------------------------------
(* App's listeners and the client; f is the frame that was read.           *)

DeltaArrives(f) ==
  /\ f.kind = "content_delta"
  /\ lastDelta' = f.turn
  /\ pending' = Append(pending, <<f.turn, f.n>>)
  /\ handle' = TRUE
  /\ UNCHANGED <<items, continuations, outcome>>

(* tool_call and tool_result: flushed text first.                          *)
ToolEventArrives(f) ==
  /\ f.kind \in {"tool_call", "tool_result"}
  /\ IF f.kind = "tool_call"
     THEN items' = Append(Flushed, ToolRow(f.turn, f.n, f.id))
     ELSE items' = CloseToolCall(Flushed, f.turn, f.id)
  /\ Flush
  /\ UNCHANGED <<continuations, outcome>>

(* message_done, and the turn_finished behind it.                          *)
RoundEndArrives(f) ==
  /\ f.kind = "message_done"
  /\ items' = Flushed
  /\ Flush
  /\ UNCHANGED <<continuations, outcome>>

LoopStoppedArrives(f) ==
  /\ f.kind = "loop_stopped"
  /\ items' = LoopStopped(Flushed)
  /\ Flush
  /\ UNCHANGED <<continuations, outcome>>

(* The response of the chat.send settles its promise.                      *)
ResponseArrives(f) ==
  /\ f.kind \in Answers
  /\ outcome' = [outcome EXCEPT ![f.turn] = f]
  /\ continuations' = continuations \cup {f.turn}
  /\ UNCHANGED <<items, throttleVars>>

(* One line of a chunk of stdout; chunk tells more from no more lines only *)
(* while continuations wait.                                               *)
LineArrives ==
  /\ toClient # <<>>
  /\ continuations = {} \/ chunk
  /\ LET f == Head(toClient)
     IN \/ DeltaArrives(f) \/ ToolEventArrives(f) \/ RoundEndArrives(f)
        \/ LoopStoppedArrives(f) \/ ResponseArrives(f)
  /\ chunk' = (continuations' # {})
  /\ toClient' = Tail(toClient)
  /\ UNCHANGED <<activeTurn, submitVars, toServer, serverVars>>

-----------------------------------------------------------------------------
(* submitCore.                                                             *)

(* chatSend, and begin_turn.                                               *)
BeginTurn ==
  /\ begun' = begun + 1
  /\ toServer' = Append(toServer, begun + 1)
  /\ active' = begun + 1
  /\ activeTurn' = begun + 1

(* The user submits a prompt: it is sent, or queued behind a turn.         *)
Submit ==
  /\ Macrotask
  /\ begun + queued + timers < MaxTurns
  /\ IF active = 0
     THEN BeginTurn /\ UNCHANGED queued
     ELSE queued' = queued + 1 /\ UNCHANGED <<active, activeTurn, begun, toServer>>
  /\ UNCHANGED <<items, throttleVars, timers, commands, continuations, toClient, serverVars>>
  /\ UNCHANGED outcome

(* The timer of a queued prompt sends it without a look at the active turn.*)
QueuedPromptSent ==
  /\ Macrotask
  /\ timers > 0 /\ timers' = timers - 1
  /\ BeginTurn
  /\ UNCHANGED <<items, throttleVars, queued, commands, continuations, toClient, serverVars>>
  /\ UNCHANGED outcome

(* A slash or ! command is submitted while no turn is active.              *)
CommandSent ==
  /\ Macrotask
  /\ active = 0 /\ commands < MaxCommands
  /\ commands' = commands + 1
  /\ UNCHANGED <<storeVars, throttleVars, active, queued, timers, begun, continuations>>
  /\ UNCHANGED <<toServer, toClient, serverVars, outcome>>

(* scheduleNextQueuedPrompt.                                               *)
ScheduleNext ==
  IF queued > 0 THEN queued' = queued - 1 /\ timers' = timers + 1 ELSE UNCHANGED <<queued, timers>>

(* Its finally.                                                            *)
CommandSettled ==
  /\ commands > 0 /\ commands' = commands - 1
  /\ chunk' = FALSE
  /\ ScheduleNext
  /\ UNCHANGED <<storeVars, throttleVars, active, begun, continuations, toServer, toClient>>
  /\ UNCHANGED <<serverVars, outcome>>

TextOf(t, r) ==
  {k \in DOMAIN emitted[t] : emitted[t][k].kind = "text" /\ emitted[t][k].round = r}

(* The i-th element of a set of positions.                                 *)
Nth(P, i) == CHOOSE k \in P : Cardinality({j \in P : j <= k}) = i

(* The content of the response: what the last round said, or a message;    *)
(* what raised may have none, and a refusal is not a result.               *)
FinalTexts(t) ==
  CASE outcome[t].kind = "completed" ->
         LET said == TextOf(t, outcome[t].n)
         IN {[i \in 1..Cardinality(said) |-> <<t, Nth(said, i)>>]}
    [] outcome[t].kind = "stopped" -> {<<<<t, 0>>>>}
    [] outcome[t].kind = "raised" -> {<<<<t, 0>>>>, <<>>}
    [] outcome[t].kind = "refused" -> {<<>>}

(* Mutant: the ends of the turns take the latest one for theirs.           *)
TurnSettledLatest(t) ==
  /\ t \in continuations
  /\ continuations' = continuations \ {t}
  /\ chunk' = FALSE
  /\ \E final \in FinalTexts(t) : items' = FinalizeTurn(items, active, final)
  /\ activeTurn' = 0 /\ active' = 0
  /\ ScheduleNext
  /\ UNCHANGED <<throttleVars, commands, begun, toServer, toClient, serverVars, outcome>>

(* Behind the await of the chat.send: end_turn and the finally.  Whatever  *)
(* turn is active is so no longer.                                         *)
TurnSettled(t) ==
  /\ t \in continuations
  /\ continuations' = continuations \ {t}
  /\ chunk' = FALSE
  /\ \E final \in FinalTexts(t) : items' = FinalizeTurn(items, t, final)
  /\ activeTurn' = 0 /\ active' = 0
  /\ ScheduleNext
  /\ UNCHANGED <<throttleVars, commands, begun, toServer, toClient, serverVars, outcome>>

-----------------------------------------------------------------------------
(* The gateway, by what modules Gateway and AgentTurn allow of it.         *)

ClientUnchanged ==
  UNCHANGED <<storeVars, throttleVars, submitVars, continuations, chunk, outcome>>

Writes(f) == Len(toClient) < MaxFrames /\ toClient' = Append(toClient, f)

(* The next chat.send: the slot is taken, or the turn is refused.          *)
ReadsChatSend ==
  /\ toServer # <<>>
  /\ toServer' = Tail(toServer)
  /\ LET t == Head(toServer)
     IN IF slot = 0
        THEN /\ slot' = t /\ phase' = "stream" /\ round' = 1
             /\ calls' = <<>>
             /\ UNCHANGED <<toClient, emitted>>
        ELSE Writes(Response("refused", t, 0)) /\ UNCHANGED serverVars
  /\ ClientUnchanged

Streams == phase = "stream" /\ UNCHANGED <<slot, phase, round, toServer>> /\ ClientUnchanged

NextToken == Len(emitted[slot]) + 1

Emits(kind) ==
  /\ NextToken <= MaxTokens[slot]
  /\ emitted' = [emitted EXCEPT ![slot] = Append(@, [kind |-> kind, round |-> round])]

(* content_delta.                                                          *)
StreamsText ==
  /\ Streams
  /\ Emits("text")
  /\ Writes(Delta(slot, NextToken))
  /\ UNCHANGED calls

(* tool_call, with an id of its own or the name of the tool.               *)
StreamsCall ==
  /\ Streams
  /\ \E id \in {0, NextToken} :
       /\ Emits("call")
       /\ Writes(Call(slot, NextToken, id))
       /\ calls' = Append(calls, id)

(* message_done.  The text of a round may come in it alone; it is in the   *)
(* response of the turn if the round is the last one.                      *)
StreamEnds ==
  /\ phase = "stream"
  /\ Writes(Plain("message_done", slot))
  /\ \/ UNCHANGED emitted
     \/ TextOf(slot, round) = {} /\ calls = <<>> /\ Emits("text")
  /\ phase' = IF calls = <<>> THEN "completed" ELSE "tools"
  /\ UNCHANGED <<slot, round, calls, toServer>> /\ ClientUnchanged

(* tool_result; behind the last one the next round begins, if there is one.*)
ToolEnds ==
  /\ phase = "tools" /\ calls # <<>>
  /\ Writes(Result(slot, Head(calls)))
  /\ calls' = Tail(calls)
  /\ IF Tail(calls) # <<>> THEN UNCHANGED <<phase, round>>
     ELSE IF round < MaxRounds THEN phase' = "stream" /\ round' = round + 1
     ELSE phase' = "stops" /\ UNCHANGED round
  /\ UNCHANGED <<slot, emitted, toServer>> /\ ClientUnchanged

(* loop_stopped, behind the turn_finished of a stop signal: the signal was *)
(* seen while the turn streamed or ran tools, or the rounds are used up.   *)
LoopStops ==
  /\ phase \in {"stream", "tools", "stops"}
  /\ Writes(Plain("loop_stopped", slot))
  /\ phase' = "stopped"
  /\ UNCHANGED <<slot, round, calls, emitted, toServer>> /\ ClientUnchanged

(* The response.  A provider or a tool raises: nothing comes before it.    *)
SendsResponse ==
  /\ \/ phase \in {"completed", "stopped"} /\ Writes(Response(phase, slot, round))
     \/ phase \in {"stream", "tools"} /\ Writes(Response("raised", slot, round))
  /\ phase' = "answered"
  /\ UNCHANGED <<slot, round, calls, emitted, toServer>> /\ ClientUnchanged

SlotReleased ==
  /\ phase = "answered"
  /\ slot' = 0 /\ phase' = "idle" /\ round' = 0 /\ calls' = <<>>
  /\ UNCHANGED <<emitted, toServer, toClient>> /\ ClientUnchanged

Server ==
  \/ ReadsChatSend \/ StreamsText \/ StreamsCall \/ StreamEnds \/ ToolEnds
  \/ LoopStops \/ SendsResponse \/ SlotReleased

Next ==
  \/ LineArrives \/ ThrottleFires \/ Submit \/ QueuedPromptSent \/ CommandSent
  \/ CommandSettled \/ (\E t \in Turns : TurnSettled(t)) \/ Server

Spec == Init /\ [][Next]_vars

-----------------------------------------------------------------------------
(* Properties.                                                             *)

(* Token n of a turn is seen in its rows, in the throttle or in the pipe.  *)
Seen(n, part, row, at) == [n |-> n, part |-> part, row |-> row, at |-> at]

Before(r, s) ==
  \/ r.part < s.part
  \/ r.part = s.part /\ (r.row < s.row \/ (r.row = s.row /\ r.at < s.at))

InText(text, t) == {j \in DOMAIN text : text[j][1] = t /\ text[j][2] > 0}

InRows(is, t) ==
  UNION {{Seen(is[k].text[j][2], 1, k, j) : j \in InText(is[k].text, t)} :
         k \in {k \in DOMAIN is : is[k].turn = t}}
InThrottle(text, t) == {Seen(text[j][2], 2, 0, j) : j \in InText(text, t)}
InPipe(frames, t) ==
  {Seen(frames[i].n, 3, 0, i) :
     i \in {i \in DOMAIN frames : frames[i].turn = t /\ frames[i].kind \in {"content_delta", "tool_call"}}}

(* The first n tokens are seen, each once, in their order.                 *)
InOrder(S, n) ==
  /\ {s.n : s \in S} = 1..n
  /\ \A r, s \in S : Before(r, s) => r.n < s.n

(* Whether the text of the last round comes in the response alone.         *)
Late(t) ==
  /\ emitted[t] # <<>>
  /\ Last(emitted[t]).kind = "text"
  /\ phase \in {"completed", "answered"} \/ slot # t

(* Nothing a turn emits is lost, doubled or put in another order between   *)
(* the gateway and the screen as long as it is the active turn: text that  *)
(* the throttle holds back stays before the tool that was called after it. *)
ActiveTurnComplete ==
  LET t == activeTurn
      seen == InRows(items, t) \cup InThrottle(pending, t) \cup InPipe(toClient, t)
  IN t # 0 => InOrder(seen, Len(emitted[t])) \/ (Late(t) /\ InOrder(seen, Len(emitted[t]) - 1))

(* A turn that completes while it is the active one leaves all it said on  *)
(* the screen, and no text behind in the throttle; the text of its         *)
(* response may be missing only if it has said something before.           *)
CompletedTurnShown ==
  [][\A t \in continuations :
       TurnSettled(t) /\ activeTurn = t /\ outcome[t].kind = "completed" =>
         /\ InThrottle(pending, t) = {}
         /\ \/ InOrder(InRows(items', t), Len(emitted[t]))
            \/ /\ InOrder(InRows(items', t), Len(emitted[t]) - 1)
               /\ \E k \in DOMAIN items : items[k].turn = t /\ items[k].kind = "assistant"]_vars

(* A row that was finished stays as it is, whatever arrives late: the      *)
(* status of a tool and the text of a bubble change while they are open,   *)
(* the text at its end, and the row never goes to another turn.            *)
FinishedRowsKept ==
  [][\A k \in DOMAIN items :
       /\ k \in DOMAIN items'
       /\ items'[k] # items[k] =>
            /\ Open(items[k])
            /\ items'[k].turn = items[k].turn /\ IsPrefix(items[k].text, items'[k].text)]_vars

(* A bubble shows the text of its own turn.  Of another turn it can only   *)
(* be the tail that the throttle held when that turn failed.               *)
TextOfItsTurn ==
  \A k \in DOMAIN items : \A j \in DOMAIN items[k].text :
    LET t == items[k].text[j][1]
    IN t = items[k].turn \/ outcome[t].kind = "raised"

Settled(t) == outcome[t].kind # "none" /\ t \notin continuations

(* Nothing on the screen streams or spins for a turn that is over, unless  *)
(* it is a tool whose turn failed before there was a result.               *)
NothingSpinsForEver ==
  \A k \in DOMAIN items :
    Open(items[k]) /\ Settled(items[k].turn) =>
      items[k].kind = "tool" /\ outcome[items[k].turn].kind = "raised"

-----------------------------------------------------------------------------
(* What the comments say, and TLC refutes.                                 *)

(* useStreamThrottle.ts:11: "a flush() that the parent calls when a turn   *)
(* ends, ensuring no delta gets stuck in the buffer".                      *)
NoDeltaStuck == \A t \in Turns : Settled(t) => InThrottle(pending, t) = {}

(* transcriptStore.ts:380: "Trust the server's final content if our        *)
(* streamed buffer is empty (some providers only emit message_done without *)
(* content_delta)".                                                        *)
FinalTextTrusted ==
  \A t \in Turns :
    Settled(t) /\ outcome[t].kind = "completed" /\ emitted[t] # <<>> /\ t = begun =>
      \E s \in InRows(items, t) : s.n = Len(emitted[t])

=============================================================================

------------------------------ MODULE Composer ------------------------------
(***************************************************************************)
(* What App does to the text the user writes: the draft of App (App.tsx),  *)
(* the buffer of the prompt (textInput.tsx), the history that the arrows   *)
(* recall (useInputHistory.ts), the stash, the mention overlay with its    *)
(* file search, the dialogs that take the keyboard, the approval prompt,   *)
(* and the queued prompts that are sent when a turn ends.                  *)
(*                                                                         *)
(* A key goes to every handler that is mounted: to the prompt, to App, to  *)
(* the dialogs and to the approval prompt.  Each of them reads the state   *)
(* that was rendered last and the changes add up.                          *)
(***************************************************************************)
EXTENDS InputBuffer, Integers, FiniteSets, SequencesExt

CONSTANTS
  Typed,     \* the characters that are typed
  Path,      \* the path a file search finds
  MaxText,   \* bound: length of a text
  MaxKeys,   \* bound: keys pressed
  MaxTurns   \* bound: turns of the session

NoText == <<"none">>
NoIndex == -1

ASSUME ComposerAssumption ==
  /\ NoText \notin Text
  /\ Typed \cup {"?", "y"} \subseteq Chars /\ Path \in Text \ {<<>>}
  /\ {MaxText, MaxKeys, MaxTurns} \subseteq Nat

VARIABLES
  ui,        \* the state that a key may change
  entries,   \* entries of useInputHistory
  running,   \* requests in flight: chat turns, commands
  turn,      \* activeRequestRef is not null
  queue,     \* prompts in the queue
  timers,    \* prompts whose timer is set
  search,    \* the file search of the mention overlay
  keys,      \* keys pressed
  turns      \* chat turns begun

vars == <<ui, entries, running, turn, queue, timers, search, keys, turns>>

(* The dialogs: the history search, quick open, the lists that draw and    *)
(* read their own keys, and the boards whose keys App reads.               *)
Dialogs == {"history", "quick", "list", "board"}

Init ==
  /\ ui = [draft |-> <<>>, buffer |-> <<>>, open |-> {}, navigator |-> FALSE, help |-> FALSE,
           approval |-> FALSE, stash |-> NoText, index |-> NoIndex, saved |-> <<>>,
           submitted |-> NoText]
  /\ entries = <<>> /\ running = [chat |-> 0, command |-> 0]
  /\ turn = FALSE /\ queue = <<>> /\ timers = <<>>
  /\ search = [found |-> NoText, loading |-> FALSE, timer |-> NoText, asked |-> {}]
  /\ keys = 0 /\ turns = 0

Mounted(r) == "history" \notin r.open /\ ~r.help
Focus == Mounted(ui) /\ ui.open = {} /\ ~ui.navigator /\ ~ui.approval

SlashOverlay == InputMode(ui.draft) = "slash" /\ Matches(ui.draft) /\ "history" \notin ui.open
MentionOverlay(r) == InputMode(r.draft) = "mention" /\ "history" \notin r.open
Overlay == SlashOverlay \/ MentionOverlay(ui)

-----------------------------------------------------------------------------
(* What follows a render: the effects.                                     *)

(* Mutant: a prompt that stays mounted does not take the draft over.       *)
SyncedOnMount(r) == IF Mounted(r) /\ Mounted(ui) THEN r ELSE [r EXCEPT !.buffer = r.draft]

(* The prompt takes the draft over when it is mounted, and when the draft  *)
(* has changed.                                                            *)
Synced(r) ==
  IF Mounted(r) /\ Mounted(ui) /\ r.draft = ui.draft THEN r ELSE [r EXCEPT !.buffer = r.draft]

QueryOf(r) == IF MentionOverlay(r) THEN MentionQuery(r.draft) ELSE NoText

(* Mutant: the searches before are not cancelled.                          *)
SearchedAgain(r) ==
  LET query == QueryOf(r)
  IN IF query = QueryOf(ui) THEN search
     ELSE [found |-> IF query = NoText THEN NoText ELSE search.found,
           loading |-> query # NoText, timer |-> query, asked |-> search.asked]

(* The query has changed: the searches before are cancelled; what they     *)
(* found stays on the screen until the new one has found something.        *)
Searched(r) ==
  LET query == QueryOf(r)
  IN IF query = QueryOf(ui) THEN search
     ELSE [found |-> IF query = NoText THEN NoText ELSE search.found,
           loading |-> query # NoText, timer |-> query,
           asked |-> {[request EXCEPT !.live = FALSE] : request \in search.asked}]

Render(r) == ui' = Synced(r) /\ search' = Searched(r)

-----------------------------------------------------------------------------
(* submitCore.                                                             *)

Entry(text) == [mode |-> IF text[1] = Bang THEN "bash" ELSE "chat", text |-> text]

(* history.commit: not what was committed last.                            *)
Committed(text) ==
  IF entries # <<>> /\ entries[Len(entries)] = Entry(text) THEN entries
  ELSE Append(entries, Entry(text))

Sent(text) ==
  IF text[1] \in {Slash, Bang}
  THEN running' = [running EXCEPT !.command = @ + 1] /\ UNCHANGED <<turn, turns>>
  ELSE /\ turns < MaxTurns /\ turns' = turns + 1
       /\ turn' = TRUE /\ running' = [running EXCEPT !.chat = @ + 1]

(* The prompt that Enter submits: sent, or queued while a turn runs.       *)
Submission(r) ==
  IF r.submitted = NoText THEN UNCHANGED <<entries, running, turn, queue, turns>>
  ELSE /\ entries' = Committed(r.submitted)
       /\ IF turn THEN queue' = Append(queue, r.submitted) /\ UNCHANGED <<running, turn, turns>>
          ELSE Sent(r.submitted) /\ UNCHANGED queue

-----------------------------------------------------------------------------
(* The handlers of a key: r is what the handlers before it made of ui.     *)

Keys == {"enter", "tab", "escape", "up", "shift-up", "down", "?", "y", "ctrl-g", "ctrl-p",
         "ctrl-r", "ctrl-s", "ctrl-t", "ctrl-y"}

(* useInputHistory.prev and .next recall the entries of the mode: Nth is   *)
(* the i-th element of a set of positions.                                 *)
Nth(P, i) == CHOOSE k \in P : Cardinality({j \in P : j <= k}) = i

Filtered ==
  LET mode == IF InputMode(ui.draft) = "bash" THEN "bash" ELSE "chat"
      own == {k \in DOMAIN entries : entries[k].mode = mode}
  IN [i \in 1..Cardinality(own) |-> entries[Nth(own, i)]]

Recalled(r, i) ==
  IF i \in DOMAIN Filtered
  THEN [r EXCEPT !.index = i, !.draft = Filtered[i].text, !.buffer = Filtered[i].text]
  ELSE [r EXCEPT !.index = i]

(* Mutant: the draft is not saved.                                         *)
PreviousForgetful(r) ==
  LET n == Len(Filtered)
  IN IF n = 0 THEN r
     ELSE IF ui.index = NoIndex THEN Recalled(r, n)
     ELSE Recalled(r, AtLeast(1, ui.index - 1))

(* Up: the draft is saved when the recall begins.                          *)
Previous(r) ==
  LET n == Len(Filtered)
  IN IF n = 0 THEN r
     ELSE IF ui.index = NoIndex THEN Recalled([r EXCEPT !.saved = ui.buffer], n)
     ELSE Recalled(r, AtLeast(1, ui.index - 1))

(* Down: behind the last entry the draft comes back.                       *)
Following(r) ==
  LET n == Len(Filtered)
  IN IF n = 0 \/ ui.index = NoIndex THEN r
     ELSE IF ui.index >= n
          THEN [r EXCEPT !.index = NoIndex, !.draft = ui.saved, !.buffer = ui.saved, !.saved = <<>>]
     ELSE Recalled(r, ui.index + 1)

(* Enter in the prompt: a blank text leaves the draft alone.               *)
Entered(r) ==
  LET text == Trim(ui.buffer)
  IN IF text = <<>> THEN [r EXCEPT !.buffer = <<>>]
     ELSE [r EXCEPT !.buffer = <<>>, !.draft = <<>>, !.submitted = text,
                    !.index = NoIndex, !.saved = <<>>]

(* The prompt.  It does not ask whether Shift is held.                     *)
PromptKey(key, r) ==
  CASE ~Focus -> r
    [] Focus /\ key = "enter" -> Entered(r)
    [] Focus /\ key \in {"up", "shift-up"} /\ ~Overlay -> Previous(r)
    [] Focus /\ key = "down" /\ ~Overlay -> Following(r)
    [] Focus /\ key \in {"?", "y"} ->
         LET text == Append(ui.buffer, key) IN [r EXCEPT !.buffer = text, !.draft = text]
    [] OTHER -> r

Opened(key) ==
  CASE key = "ctrl-p" -> "quick" [] key = "ctrl-s" -> "board" [] key = "ctrl-t" -> "list"

(* Ctrl-G, Ctrl-Y.                                                         *)
Stash(r) ==
  IF turn /\ Trim(ui.draft) # <<>> THEN [r EXCEPT !.stash = ui.draft, !.draft = <<>>] ELSE r
Restore(r) ==
  IF ui.stash # NoText /\ ui.draft = <<>> THEN [r EXCEPT !.draft = ui.stash, !.stash = NoText] ELSE r

(* The overlays of the draft.                                              *)
CompletionKey(key, r) ==
  IF SlashOverlay /\ key = "tab"
  THEN [r EXCEPT !.draft = <<Slash>> \o (CHOOSE name \in Commands : TRUE) \o <<" ">>]
  ELSE IF MentionOverlay(ui) /\ key \in {"tab", "enter"} /\ search.found # NoText
  THEN [r EXCEPT !.draft = ApplyMention(ui.draft, Path)]
  ELSE IF MentionOverlay(ui) /\ key = "escape" THEN [r EXCEPT !.draft = DropMention(ui.draft)]
  ELSE r

(* App's own keys, in the order in which it asks for them.                 *)
AppKey(key, r) ==
  IF key = "ctrl-r" THEN [r EXCEPT !.open = @ \cup {"history"}]
  ELSE IF "board" \in ui.open
  THEN (IF key = "escape" THEN [r EXCEPT !.open = @ \ {"board"}] ELSE r)
  ELSE IF key \in {"ctrl-p", "ctrl-s", "ctrl-t"} /\ ui.open = {}
  THEN [r EXCEPT !.open = {Opened(key)}]
  ELSE IF key = "ctrl-g" THEN Stash(r)
  ELSE IF key = "ctrl-y" THEN Restore(r)
  ELSE IF ui.open # {} THEN r
  ELSE IF key = "?" /\ ui.draft = <<>> /\ ~ui.help THEN [r EXCEPT !.help = TRUE]
  ELSE IF key = "shift-up" /\ ~ui.navigator /\ ~Overlay /\ entries # <<>>
  THEN [r EXCEPT !.navigator = TRUE]
  ELSE IF ui.navigator THEN [r EXCEPT !.navigator = key # "escape"]
  ELSE CompletionKey(key, r)

(* The dialogs: one that is left without a choice changes nothing.         *)
HistoryKey(key, r) ==
  LET closed == [r EXCEPT !.open = @ \ {"history"}]
  IN IF "history" \notin ui.open \/ key \notin {"enter", "escape"} THEN {r}
     ELSE {closed} \cup
          {[closed EXCEPT !.draft = Filtered[i].text] : i \in IF key = "enter" THEN DOMAIN Filtered ELSE {}}

Mentioned(draft) ==
  draft \o (IF draft # <<>> /\ draft[Len(draft)] # " " THEN <<" ">> ELSE <<>>)
        \o <<At>> \o Path \o <<" ">>

QuickKey(key, r) ==
  LET closed == [r EXCEPT !.open = @ \ {"quick"}]
  IN IF "quick" \notin ui.open THEN {r}
     ELSE IF key = "escape" THEN {closed}
     ELSE IF key \in {"enter", "tab"} THEN {r, [closed EXCEPT !.draft = Mentioned(@)]}
     ELSE {r}

ListKey(key, r) ==
  LET closed == [r EXCEPT !.open = @ \ {"list"}]
  IN IF "list" \notin ui.open THEN {r}
     ELSE IF key = "escape" THEN {closed}
     ELSE IF key = "enter" THEN {r, closed, [closed EXCEPT !.navigator = TRUE]}
     ELSE {r}

DialogKey(key, r) ==
  (UNION {HistoryKey(key, s) : s \in QuickKey(key, r)})
    \cup (UNION {QuickKey(key, s) : s \in HistoryKey(key, r)})

(* The help closes at any key; the approval prompt takes its answers, and  *)
(* does not ask whether Ctrl is held.                                      *)
OverlayKey(key, r) ==
  [r EXCEPT !.help = IF ui.help THEN FALSE ELSE @,
            !.approval = @ /\ key \notin {"y", "ctrl-y", "enter", "escape"}]

Pressed == keys < MaxKeys /\ keys' = keys + 1

(* The handler that subscribed last is called last: App after the prompt   *)
(* when App was rendered, the prompt after App when only the prompt was;   *)
(* a prompt that the help has replaced may miss the key.                   *)
Handled(key) ==
  LET first == AppKey(key, ui)
      both == {AppKey(key, PromptKey(key, ui)), PromptKey(key, first)}
  IN both \cup IF Mounted(ui) /\ ~Mounted(first) THEN {first} ELSE {}

Press(key) ==
  /\ Pressed
  /\ \E r \in Handled(key) :
       \E d \in DialogKey(key, OverlayKey(key, r)) : \E s \in ListKey(key, d) :
         /\ Len(s.draft) <= MaxText
         /\ Render([s EXCEPT !.submitted = NoText])
         /\ Submission(s)
  /\ UNCHANGED timers

(* An edit, at whatever place the cursor is.                               *)
Edited(b) ==
  {Backspace(b), DeleteForward(b), KillWordBack(b), KillToLineStart(b), KillToLineEnd(b)}
    \cup {Insert(b, <<ch>>) : ch \in Typed}

Edit ==
  /\ Focus /\ Pressed
  /\ \E c \in 0..Len(ui.buffer) : \E b \in Edited(Buffer(ui.buffer, c)) :
       /\ b.value # ui.buffer /\ Len(b.value) <= MaxText
       /\ Render([ui EXCEPT !.buffer = b.value, !.draft = b.value])
  /\ UNCHANGED <<entries, running, turn, queue, timers, turns>>

-----------------------------------------------------------------------------
(* What happens on its own.                                                *)

(* The 80 ms are over: the search is asked for.                            *)
SearchAsked ==
  /\ search.timer # NoText
  /\ search' = [search EXCEPT !.timer = NoText,
                              !.asked = @ \cup {[query |-> search.timer, live |-> TRUE]}]
  /\ UNCHANGED <<ui, entries, running, turn, queue, timers, keys, turns>>

(* Something was found, or nothing; the answer to a search that was        *)
(* cancelled is dropped.                                                   *)
SearchAnswered(request) ==
  /\ request \in search.asked
  /\ \E found \in {request.query, NoText} :
       search' = IF request.live
                 THEN [search EXCEPT !.found = found, !.loading = FALSE, !.asked = @ \ {request}]
                 ELSE [search EXCEPT !.asked = @ \ {request}]
  /\ UNCHANGED <<ui, entries, running, turn, queue, timers, keys, turns>>

(* scheduleNextQueuedPrompt.                                               *)
ScheduleNext ==
  IF queue = <<>> THEN UNCHANGED <<queue, timers>>
  ELSE queue' = Tail(queue) /\ timers' = Append(timers, Head(queue))

Settled(kind) ==
  /\ running[kind] > 0
  /\ running' = [running EXCEPT ![kind] = @ - 1]
  /\ turn' = (turn /\ kind # "chat")
  /\ ScheduleNext
  /\ UNCHANGED <<ui, entries, search, keys, turns>>

(* The timer of a queued prompt: submitCore with what was queued.          *)
QueuedPromptSent ==
  /\ timers # <<>> /\ timers' = Tail(timers)
  /\ Render([ui EXCEPT !.draft = <<>>])
  /\ Sent(Head(timers))
  /\ UNCHANGED <<entries, queue, keys>>

ApprovalAsked ==
  /\ running.chat > 0 /\ ~ui.approval
  /\ ui' = [ui EXCEPT !.approval = TRUE]
  /\ UNCHANGED <<entries, running, turn, queue, timers, search, keys, turns>>

(* A session was resumed, or a list has nothing more to ask.               *)
BoardClosed ==
  /\ "board" \in ui.open
  /\ Render([ui EXCEPT !.open = @ \ {"board"}])
  /\ UNCHANGED <<entries, running, turn, queue, timers, keys, turns>>

Next ==
  \/ \E key \in Keys : Press(key)
  \/ Edit
  \/ SearchAsked \/ \E request \in search.asked : SearchAnswered(request)
  \/ \E kind \in {"chat", "command"} : Settled(kind)
  \/ QueuedPromptSent \/ ApprovalAsked \/ BoardClosed

Spec == Init /\ [][Next]_vars

-----------------------------------------------------------------------------
(* Properties.                                                             *)

Blank(text) == text = NoText \/ Range(text) \subseteq SpaceChars

(* Whatever the arrows, completions, dialogs, the stash, queued prompts and*)
(* remounts did to either: the text on the screen is the draft that App    *)
(* derives mode, overlays and Ctrl-G from.  Only an Enter on a blank text  *)
(* clears the prompt alone.                                                *)
DraftIsBuffer ==
  Mounted(ui) => ui.buffer = ui.draft \/ (ui.buffer = <<>> /\ Blank(ui.draft))

(* Whatever order the searches are answered in: matches that are shown as  *)
(* loaded, and that Tab and Enter pick from, are of the query in the draft.*)
MatchesCurrent ==
  MentionOverlay(ui) /\ ~search.loading => search.found \in {NoText, MentionQuery(ui.draft)}

Written ==
  {text \in {ui.draft, ui.stash, IF ui.index = NoIndex THEN NoText ELSE ui.saved} : ~Blank(text)}
Kept(text) ==
  \/ text \in {ui.draft, ui.stash, ui.saved}
  \/ \E other \in {ui.draft, ui.stash, ui.saved} : other # NoText /\ Trim(other) = Trim(text)
  \/ \E entry \in Range(entries) : entry.text = Trim(text)

(* A key that changes the text in the prompt and nothing else, and one     *)
(* that chooses something in a dialog or an overlay of the draft.          *)
Rewritten ==
  /\ keys' # keys /\ UNCHANGED <<entries, queue>>
  /\ ui' = [ui EXCEPT !.draft = ui'.draft, !.buffer = ui'.buffer]
Chosen ==
  /\ keys' # keys /\ (ui.open # {} \/ Overlay)
  /\ ui' = [ui EXCEPT !.draft = ui'.draft, !.buffer = ui'.buffer, !.open = ui'.open,
                      !.help = ui'.help, !.approval = ui'.approval, !.navigator = ui'.navigator]

(* What the user has written is in the prompt, behind a recall, in the     *)
(* stash or in the history, until he rewrites it or chooses something in   *)
(* its place - or until one of four steps that nothing guards: an arrow    *)
(* leaves a recalled entry that was edited, a queued prompt that is sent   *)
(* clears what is being written, a second Ctrl-G takes the stash, and Enter*)
(* on a recalled entry drops the draft behind it.                          *)
TextKept ==
  [][\A text \in Written : Kept(text)' \/
       \/ text = ui.draft /\ (Rewritten \/ Chosen \/ QueuedPromptSent)
       \/ text = ui.draft /\ ui.index # NoIndex /\ UNCHANGED <<ui.stash, entries>> /\ keys' # keys
       \/ text = ui.stash /\ ui'.stash = ui.draft
       \/ text = ui.saved /\ ui.index # NoIndex /\ ui'.index = NoIndex
    ]_<<ui.draft, ui.stash, ui.index, ui.saved>>
=============================================================================

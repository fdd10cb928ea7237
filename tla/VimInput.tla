------------------------------ MODULE VimInput ------------------------------
(***************************************************************************)
(* The vim-mode prompt in App: useVimInput.ts keeps a state of VimReducer  *)
(* and tells App of its text; App keeps the draft, opens the overlays that *)
(* the draft asks for, takes the keyboard while they are open, and changes *)
(* the draft on its own.  The prompt reads the draft when it is mounted and*)
(* never again.                                                            *)
(***************************************************************************)
EXTENDS VimReducer

CONSTANTS
  Typed,    \* the characters that are typed
  Path,     \* the path that a file search finds
  MaxText,  \* bound: length of a text
  MaxKeys   \* bound: keys pressed and changes of the draft

ASSUME VimInputAssumption ==
  /\ Typed \subseteq Chars /\ Path \in Text
  /\ {MaxText, MaxKeys} \subseteq Nat

VARIABLES
  vim,     \* the state of useVimInput
  draft,   \* draft of App
  dialog,  \* a dialog of App or a pending approval has the keyboard
  keys,    \* keys pressed and changes of the draft
  told,    \* history: the draft is what the prompt told last
  past     \* history: the texts before the changes that u can undo

vars == <<vim, draft, dialog, keys, told, past>>

SlashOverlay == InputMode(draft) = "slash" /\ Matches(draft)
MentionOverlay == InputMode(draft) = "mention"

(* The focus prop.                                                         *)
Focus == ~dialog /\ ~SlashOverlay /\ ~MentionOverlay

Init ==
  /\ vim = NewVimState(Buffer(<<>>, 0))
  /\ draft = <<>> /\ dialog = FALSE /\ keys = 0
  /\ told = TRUE /\ past = <<>>

Pressed == keys < MaxKeys /\ keys' = keys + 1

-----------------------------------------------------------------------------
(* The keys of useVimInput.                                                *)

(* History: what u is to bring back.  opened: a line was opened as well.   *)
Remember(old, new, key) ==
  IF new.history = old.history THEN past
  ELSE LET p == Append(past, [text |-> old.buffer.value, opened |-> key \in {"o", "O"}])
       IN IF Len(p) > HistoryLimit THEN Tail(p) ELSE p

(* A character: App is told when the text has changed.                     *)
Stroke(key) ==
  /\ Focus /\ Pressed
  /\ vim' = Key(vim, key)
  /\ Len(vim'.buffer.value) <= MaxText
  /\ IF vim'.buffer.value # vim.buffer.value
     THEN draft' = vim'.buffer.value /\ told' = TRUE
     ELSE UNCHANGED <<draft, told>>
  /\ past' = IF vim.mode = "normal" /\ key = "u"
             THEN SubSeq(past, 1, AtLeast(1, Len(past)) - 1)
             ELSE Remember(vim, vim', key)
  /\ UNCHANGED dialog

EscapePressed ==
  /\ Focus /\ Pressed
  /\ vim' = Escape(vim)
  /\ UNCHANGED <<draft, dialog, told, past>>

(* Enter in NORMAL submits; a blank text is not sent but cleared as well.  *)
Submitted ==
  /\ Focus /\ Pressed
  /\ vim.mode = "normal"
  /\ vim' = NewVimState(Buffer(<<>>, 0))
  /\ draft' = <<>> /\ told' = TRUE /\ past' = <<>>
  /\ UNCHANGED dialog

(* Enter in INSERT is a newline, in OPERATOR it drops the operator.        *)
ReturnPressed ==
  /\ Focus /\ Pressed
  /\ vim.mode # "normal"
  /\ vim' = Key(vim, Newline)
  /\ Len(vim'.buffer.value) <= MaxText
  /\ told' = (told /\ vim.mode # "insert")
  /\ UNCHANGED <<draft, dialog, past>>

BackspacePressed ==
  /\ Focus /\ Pressed
  /\ vim.mode = "insert"
  /\ vim' = [vim EXCEPT !.buffer = Backspace(vim.buffer)]
  /\ told' = (told /\ vim.buffer.cursor = 0)
  /\ UNCHANGED <<draft, dialog, past>>

-----------------------------------------------------------------------------
(* What App does.                                                          *)

Redraft(text) ==
  /\ Pressed
  /\ Len(text) <= MaxText
  /\ draft' = text /\ told' = (told /\ text = draft)
  /\ UNCHANGED <<vim, dialog, past>>

(* Tab in the slash overlay; the arguments hint adds a space.              *)
CommandCompleted ==
  /\ ~dialog /\ SlashOverlay
  /\ \E name \in Commands, hint \in {<<>>, <<" ">>} : Redraft(<<Slash>> \o name \o hint)

(* Tab or Enter, and Escape, in the mention overlay.                       *)
MentionCompleted == ~dialog /\ MentionOverlay /\ Redraft(ApplyMention(draft, Path))
MentionDropped == ~dialog /\ MentionOverlay /\ Redraft(DropMention(draft))

(* Ctrl-G stashes the draft, and a queued prompt that is sent clears it.   *)
DraftCleared == Redraft(<<>>)

(* Quick open adds a mention.                                              *)
PathInserted ==
  /\ dialog
  /\ LET space == IF draft # <<>> /\ draft[Len(draft)] # " " THEN <<" ">> ELSE <<>>
     IN Redraft(draft \o space \o <<At>> \o Path \o <<" ">>)

DialogToggled ==
  /\ Pressed
  /\ dialog' = ~dialog
  /\ UNCHANGED <<vim, draft, told, past>>

(* The help and the history search take the place of the prompt: it comes  *)
(* back as a new one with the draft, or with the entry that was picked.    *)
Remounted ==
  /\ Pressed
  /\ \E text \in {draft} \cup {<<ch>> : ch \in Typed} :
       /\ draft' = text
       /\ vim' = NewVimState(Buffer(text, Len(text)))
  /\ told' = TRUE /\ past' = <<>>
  /\ UNCHANGED dialog

Next ==
  \/ \E key \in Typed \cup EntryKeys \cup Motions \cup {"v", "u", "x", "d", "c", "y"} :
       (vim.mode = "insert" => key \in Typed) /\ Stroke(key)
  \/ EscapePressed \/ Submitted \/ ReturnPressed \/ BackspacePressed
  \/ CommandCompleted \/ MentionCompleted \/ MentionDropped \/ DraftCleared
  \/ PathInserted \/ DialogToggled \/ Remounted

Spec == Init /\ [][Next]_vars

-----------------------------------------------------------------------------
(* Properties.                                                             *)

(* Every key in every mode leaves the cursor and the anchor in the text and*)
(* at most HistoryLimit texts to undo, each with its own cursor in it; a   *)
(* selection and a pending operator end with their modes.                  *)
TypeOK ==
  /\ vim \in VimStates /\ draft \in Text /\ keys \in Nat
  /\ {dialog, told} \subseteq BOOLEAN
  /\ InBounds(vim.buffer)
  /\ \A k \in DOMAIN vim.history : InBounds(vim.history[k])
  /\ Len(vim.history) <= HistoryLimit
  /\ vim.mode = "operator" <=> vim.op # "none"
  /\ vim.mode = "visual" <=> vim.anchor # None
  /\ vim.anchor <= Len(vim.buffer.value)

(* u brings back the text that the latest change that can be undone found, *)
(* whatever motions, selections and dropped operators came in between;     *)
(* where the change opened a line, the line stays.                         *)
UndoRewinds ==
  [][vim.mode = "normal" /\ Stroke("u") /\ past # <<>> =>
       \/ vim'.buffer.value = past[Len(past)].text
       \/ past[Len(past)].opened]_vars

(* While nothing but characters is typed, the text that App reads commands,*)
(* mentions and modes out of is the text of the prompt.                    *)
DraftFollows == told => draft = vim.buffer.value

(* SHORTCUTS.md:80: "INSERT, any printable: insert at cursor".             *)
PrintableInserted ==
  vim.mode = "insert" /\ ~dialog => Focus

(* vimReducer.ts:12: "u undoes the last edit".                             *)
UndoRestores ==
  [][vim.mode = "normal" /\ Stroke("u") /\ past # <<>> =>
       vim'.buffer.value = past[Len(past)].text]_vars

(* useVimInput.ts:24: "Notify parent on value change".                     *)
ParentNotified == draft # <<>> => told
=============================================================================

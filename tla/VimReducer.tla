----------------------------- MODULE VimReducer -----------------------------
(***************************************************************************)
(* reduceVim (vimReducer.ts): what a key does to the state of the vim-mode *)
(* prompt.  A state is a record of the buffer, the mode, the pending       *)
(* operator, the anchor of the selection, the register and the undo stack. *)
(***************************************************************************)
EXTENDS InputBuffer, Integers

CONSTANT HistoryLimit  \* HISTORY_LIMIT

ASSUME HistoryAssumption == HistoryLimit \in Nat \ {0}

None == -1

NewVimState(b) ==
  [buffer |-> b, mode |-> "normal", op |-> "none", anchor |-> None, register |-> <<>>,
   history |-> <<>>]

VimStates ==
  [buffer : Buffers, mode : {"insert", "normal", "visual", "operator"},
   op : {"none", "d", "c", "y"}, anchor : Nat \cup {None}, register : Text,
   history : Seq(Buffers)]

(* Mutant: the limit is looked at before the push.                         *)
PushUndoOneMore(vim) ==
  LET h == IF Len(vim.history) > HistoryLimit THEN Tail(vim.history) ELSE vim.history
  IN [vim EXCEPT !.history = Append(h, vim.buffer)]

PushUndo(vim) ==
  LET h == Append(vim.history, vim.buffer)
  IN [vim EXCEPT !.history = IF Len(h) > HistoryLimit THEN Tail(h) ELSE h]

(* u.                                                                      *)
Undo(vim) ==
  LET n == Len(vim.history)
  IN IF n = 0 THEN vim
     ELSE [vim EXCEPT !.buffer = vim.history[n], !.history = SubSeq(vim.history, 1, n - 1)]

-----------------------------------------------------------------------------
(* Motions and operators.                                                  *)

Motions == {"h", "l", "j", "k", "w", "b", "0", "$", "g", "G"}

(* w goes on behind the spaces.                                            *)
NextWord(v, c) == RunEnd(v, WordRight(v, c), SpaceChars)

(* applyMotion; ^ is 0.                                                    *)
Moved(b, key) ==
  CASE key = "h" -> MoveTo(b, AtLeast(1, b.cursor) - 1)
    [] key = "l" -> MoveTo(b, b.cursor + 1)
    [] key = "j" -> Down(b)
    [] key = "k" -> Up(b)
    [] key = "w" -> MoveTo(b, NextWord(b.value, b.cursor))
    [] key = "b" -> MoveTo(b, WordLeft(b.value, b.cursor))
    [] key = "0" -> MoveTo(b, LineStart(b.value, b.cursor))
    [] key = "$" -> MoveTo(b, LineEnd(b.value, b.cursor))
    [] key = "g" -> MoveTo(b, 0)
    [] key = "G" -> MoveTo(b, Len(b.value))

ToNormal(vim) == [vim EXCEPT !.mode = "normal", !.op = "none", !.anchor = None]

(* finishOperatorRange, for the operator op.                               *)
Operate(vim, op, i, j) ==
  LET text == Slice(vim.buffer.value, i, j)
  IN IF op = "y" THEN [ToNormal(vim) EXCEPT !.register = text]
     ELSE [ToNormal(PushUndo(vim)) EXCEPT
             !.mode = IF op = "c" THEN "insert" ELSE "normal",
             !.register = text,
             !.buffer = Cut(vim.buffer, i, j)]

(* A motion that does not move still ends the operator: nothing is cut.    *)
OperateTo(vim, c) ==
  LET b == vim.buffer
  IN Operate(vim, vim.op, AtMost(b.cursor, c), AtLeast(b.cursor, c))

(* dd, cc, yy: the line and the newline behind it.                         *)
OperateOnLine(vim) ==
  LET b == vim.buffer
  IN Operate(vim, vim.op, LineStart(b.value, b.cursor),
             AtMost(Len(b.value), LineEnd(b.value, b.cursor) + 1))

(* The selection includes the character under the cursor.                  *)
OperateOnSelection(vim, op) ==
  Operate(vim, op, AtMost(vim.anchor, vim.buffer.cursor), AtLeast(vim.anchor, vim.buffer.cursor) + 1)

-----------------------------------------------------------------------------
(* The keys of each mode.                                                  *)

EntryKeys == {"i", "I", "a", "A", "o", "O"}

(* What the keys that enter INSERT do to the buffer.                       *)
Opened(b, key) ==
  CASE key = "i" -> b
    [] key = "I" -> MoveTo(b, LineStart(b.value, b.cursor))
    [] key = "a" -> MoveTo(b, b.cursor + 1)
    [] key = "A" -> MoveTo(b, LineEnd(b.value, b.cursor))
    [] key = "o" -> Insert(MoveTo(b, LineEnd(b.value, b.cursor)), <<Newline>>)
    [] key = "O" -> Up(Insert(MoveTo(b, LineStart(b.value, b.cursor)), <<Newline>>))

(* Mutant: x records what it leaves.                                       *)
NormalKeyLateUndo(vim, key) ==
  CASE key \in EntryKeys ->
         PushUndo([vim EXCEPT !.mode = "insert", !.buffer = Opened(vim.buffer, key)])
    [] key = "v" -> [vim EXCEPT !.mode = "visual", !.anchor = vim.buffer.cursor]
    [] key = "u" -> Undo(vim)
    [] key = "x" -> PushUndo([vim EXCEPT !.buffer = DeleteForward(vim.buffer)])
    [] key \in {"d", "c", "y"} -> [vim EXCEPT !.mode = "operator", !.op = key]
    [] key \in Motions -> [vim EXCEPT !.buffer = Moved(vim.buffer, key)]
    [] OTHER -> vim

(* The keys that enter INSERT record what they leave, x what it finds.     *)
NormalKey(vim, key) ==
  CASE key \in EntryKeys ->
         PushUndo([vim EXCEPT !.mode = "insert", !.buffer = Opened(vim.buffer, key)])
    [] key = "v" -> [vim EXCEPT !.mode = "visual", !.anchor = vim.buffer.cursor]
    [] key = "u" -> Undo(vim)
    [] key = "x" -> [PushUndo(vim) EXCEPT !.buffer = DeleteForward(vim.buffer)]
    [] key \in {"d", "c", "y"} -> [vim EXCEPT !.mode = "operator", !.op = key]
    [] key \in Motions -> [vim EXCEPT !.buffer = Moved(vim.buffer, key)]
    [] OTHER -> vim

VisualKey(vim, key) ==
  CASE key = "v" -> ToNormal(vim)
    [] key \in {"d", "c", "y"} -> OperateOnSelection(vim, key)
    [] key \in Motions -> [vim EXCEPT !.buffer = Moved(vim.buffer, key)]
    [] OTHER -> vim

OperatorKey(vim, key) ==
  CASE key = vim.op -> OperateOnLine(vim)
    [] key \in Motions -> OperateTo(vim, Moved(vim.buffer, key).cursor)
    [] OTHER -> [vim EXCEPT !.mode = "normal", !.op = "none"]

(* A key that is not Escape.  In INSERT it is text.                        *)
Key(vim, key) ==
  CASE vim.mode = "insert" -> [vim EXCEPT !.buffer = Insert(vim.buffer, <<key>>)]
    [] vim.mode = "normal" -> NormalKey(vim, key)
    [] vim.mode = "visual" -> VisualKey(vim, key)
    [] vim.mode = "operator" -> OperatorKey(vim, key)

Escape(vim) == IF vim.mode = "normal" THEN vim ELSE ToNormal(vim)
=============================================================================

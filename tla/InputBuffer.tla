---------------------------- MODULE InputBuffer ----------------------------
(***************************************************************************)
(* The text buffer of the prompt (inputBuffer.ts) and what App reads out of*)
(* a text: the active mention and the input mode (modeDetector.ts), and    *)
(* whether a slash command matches it (commandFilter.ts).                  *)
(*                                                                         *)
(* A text is a sequence of characters; a cursor is the number of characters*)
(* before it, as a JavaScript offset is.                                   *)
(***************************************************************************)
EXTENDS Naturals, Sequences

CONSTANTS
  WordChars,   \* /[A-Za-z0-9_]/
  SpaceChars,  \* /\s/
  OtherChars,
  Commands     \* the names and aliases of the slash commands

Newline == "\n"
Slash == "/"
Bang == "!"
At == "@"

Chars == WordChars \cup SpaceChars \cup OtherChars
LineChars == Chars \ {Newline}
TokenChars == Chars \ (SpaceChars \cup {At})
Text == Seq(Chars)

ASSUME CharsAssumption ==
  /\ {Newline, " "} \subseteq SpaceChars /\ {Slash, Bang, At} \subseteq OtherChars
  /\ SpaceChars \cap (WordChars \cup OtherChars) = {} /\ WordChars \cap OtherChars = {}
  /\ Commands \subseteq Text

AtMost(i, j) == IF i < j THEN i ELSE j
AtLeast(i, j) == IF i < j THEN j ELSE i

(* v.slice(i, j).                                                          *)
Slice(v, i, j) == SubSeq(v, i + 1, AtMost(j, Len(v)))

Buffer(v, c) == [value |-> v, cursor |-> c]
Buffers == [value : Text, cursor : Nat]
InBounds(b) == b.cursor <= Len(b.value)

-----------------------------------------------------------------------------
(* Where runs of characters begin and end.                                 *)

(* The least offset from which on all characters before c are of S.        *)
RunStart(v, c, S) ==
  CHOOSE i \in 0..c : (\A k \in (i + 1)..c : v[k] \in S) /\ (i = 0 \/ v[i] \notin S)

(* The greatest offset up to which all characters behind c are of S.       *)
RunEnd(v, c, S) ==
  CHOOSE i \in c..Len(v) : (\A k \in (c + 1)..i : v[k] \in S) /\ (i = Len(v) \/ v[i + 1] \notin S)

LineStart(v, c) == RunStart(v, c, LineChars)
LineEnd(v, c) == RunEnd(v, c, LineChars)

(* previousWordBoundary: at least one character is skipped.                *)
WordLeft(v, c) ==
  LET i == RunStart(v, RunStart(v, c, SpaceChars), WordChars)
  IN IF i = c /\ c > 0 THEN c - 1 ELSE i

(* nextWordBoundary.                                                       *)
WordRight(v, c) ==
  LET i == RunEnd(v, RunEnd(v, c, SpaceChars), WordChars)
  IN IF i = c /\ c < Len(v) THEN c + 1 ELSE i

-----------------------------------------------------------------------------
(* reduceInput.                                                            *)

MoveTo(b, c) == Buffer(b.value, AtMost(c, Len(b.value)))

(* moveVertical: the column is kept as far as the other line goes.         *)
Up(b) ==
  LET start == LineStart(b.value, b.cursor)
  IN IF start = 0 THEN b
     ELSE MoveTo(b, AtMost(LineStart(b.value, start - 1) + (b.cursor - start), start - 1))

Down(b) ==
  LET start == LineStart(b.value, b.cursor)
      end == LineEnd(b.value, b.cursor)
  IN IF end = Len(b.value) THEN b
     ELSE MoveTo(b, AtMost(end + 1 + (b.cursor - start), LineEnd(b.value, end + 1)))

Insert(b, text) ==
  Buffer(Slice(b.value, 0, b.cursor) \o text \o Slice(b.value, b.cursor, Len(b.value)),
         b.cursor + Len(text))

(* What is between the offsets i and j goes, the cursor is where it was.   *)
Cut(b, i, j) == Buffer(Slice(b.value, 0, i) \o Slice(b.value, j, Len(b.value)), i)

Backspace(b) == IF b.cursor = 0 THEN b ELSE Cut(b, b.cursor - 1, b.cursor)
DeleteForward(b) == IF b.cursor >= Len(b.value) THEN b ELSE Cut(b, b.cursor, b.cursor + 1)
KillWordBack(b) == Cut(b, WordLeft(b.value, b.cursor), b.cursor)
KillToLineStart(b) == Cut(b, LineStart(b.value, b.cursor), b.cursor)
KillToLineEnd(b) == Cut(b, b.cursor, LineEnd(b.value, b.cursor))

-----------------------------------------------------------------------------
(* The input mode.  App always asks with the cursor at the end.            *)

StartsWith(v, ch) == v # <<>> /\ v[1] = ch

(* The @ of the active mention: the offset before it; Len(v) if there is   *)
(* none, a space behind the last @ ends it.                                *)
MentionStart(v) ==
  LET i == RunStart(v, Len(v), TokenChars)
  IN IF i > 0 /\ v[i] = At THEN i - 1 ELSE Len(v)

HasMention(v) == MentionStart(v) < Len(v)

InputMode(v) ==
  IF StartsWith(v, Slash) THEN "slash"
  ELSE IF StartsWith(v, Bang) THEN "bash"
  ELSE IF HasMention(v) THEN "mention" ELSE "chat"

MentionQuery(v) == Slice(v, MentionStart(v) + 1, Len(v))

(* applyMention, and the Escape of App that drops the token.               *)
ApplyMention(v, path) == Slice(v, 0, MentionStart(v)) \o <<At>> \o path \o <<" ">>
DropMention(v) == Slice(v, 0, MentionStart(v))

(* text.trim().                                                            *)
Trim(v) ==
  LET i == RunEnd(v, 0, SpaceChars)
      j == RunStart(v, Len(v), SpaceChars)
  IN IF i >= j THEN <<>> ELSE Slice(v, i, j)

(* filterCommands finds something: a name or an alias contains the term.   *)
Matches(v) ==
  /\ StartsWith(v, Slash)
  /\ LET term == Trim(Tail(v))
     IN \E name \in Commands : \E i, j \in 0..Len(name) : Slice(name, i, j) = term
=============================================================================

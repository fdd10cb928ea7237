---------------------------- MODULE VimInputProofs ----------------------------
(***************************************************************************)
(* Theorems about the vim-mode prompt, for every alphabet, every limit of  *)
(* the history and every text: no key leaves the cursor, the anchor or a   *)
(* text to undo outside of its bounds, App's draft is the text of the      *)
(* prompt while only characters are typed, and u brings back the text that *)
(* the latest change found.                                                *)
(*                                                                         *)
(* The argument is about buffers: whatever motion and operator a key is,   *)
(* it asks for offsets between 0 and the length of the text.               *)
(***************************************************************************)
EXTENDS VimInput, FiniteSetTheorems, SequenceTheorems, TLAPS

-----------------------------------------------------------------------------
(* Offsets: where runs of characters begin and end.                        *)

LEMMA LargestOffset ==
  ASSUME NEW n \in Nat, NEW P \in SUBSET (0..n), P # {}
  PROVE  \E k \in P : \A j \in P : j <= k
<1>. DEFINE B == {i \in 1..n : \E j \in P : i <= j}
            m == Cardinality(B)
<1>1. IsFiniteSet(1..n) /\ B \in SUBSET (1..n)
  BY FS_Interval
<1>2. IsFiniteSet(B) /\ m \in Nat
  BY <1>1, FS_Subset, FS_CardinalityType
<1>3. \A i \in B : \A j \in 1..i : j \in B
  OBVIOUS
<1>4. ASSUME NEW i \in B PROVE i <= m
  <2>1. 1..i \in SUBSET B /\ i \in Nat
    BY <1>3, <1>4
  <2>2. Cardinality(1..i) = i
    BY <2>1, FS_Interval
  <2>. QED
    BY <1>2, <2>1, <2>2, FS_Subset
<1>5. B \in SUBSET (1..m)
  BY <1>2, <1>4
<1>6. IsFiniteSet(1..m) /\ Cardinality(1..m) = m
  BY <1>2, FS_Interval
<1>7. B = 1..m
  BY <1>5, <1>6, FS_Subset
<1>. HIDE DEF m
<1>8. CASE m = 0
  <2>1. B = {}
    BY <1>7, <1>8
  <2>2. \A j \in P : j = 0
    <3>1. SUFFICES ASSUME NEW j \in P, j # 0 PROVE FALSE
      OBVIOUS
    <3>2. j \in B
      BY <3>1
    <3>. QED
      BY <2>1, <3>2
  <2>3. PICK j \in P : TRUE
    OBVIOUS
  <2>. QED
    BY <2>2, <2>3
<1>9. CASE m # 0
  <2>1. m \in B
    BY <1>2, <1>7, <1>9
  <2>2. PICK k \in P : m <= k
    BY <2>1
  <2>3. \A j \in P : j <= m
    <3>1. SUFFICES ASSUME NEW j \in P PROVE j <= m
      OBVIOUS
    <3>2. CASE j = 0
      BY <3>2, <1>2
    <3>3. CASE j # 0
      <4>1. j \in B
        BY <3>3
      <4>. QED
        BY <4>1, <1>4
    <3>. QED
      BY <3>2, <3>3
  <2>. QED
    BY <2>2, <2>3, <1>2
<1>. QED
  BY <1>8, <1>9

LEMMA LeastOffset ==
  ASSUME NEW n \in Nat, NEW P \in SUBSET (0..n), P # {}
  PROVE  \E k \in P : \A j \in P : k <= j
<1>. DEFINE R == {i \in 0..n : n - i \in P}
<1>1. R \in SUBSET (0..n) /\ \A j \in P : n - j \in R
  OBVIOUS
<1>2. R # {}
  BY <1>1
<1>. HIDE DEF R
<1>3. PICK i \in R : \A j \in R : j <= i
  BY <1>1, <1>2, LargestOffset
<1>4. n - i \in P /\ i \in 0..n
  BY <1>3 DEF R
<1>5. \A j \in P : n - j <= i
  BY <1>1, <1>3
<1>. QED
  BY <1>4, <1>5

LEMMA RunStartIs ==
  ASSUME NEW v, NEW c \in Nat, NEW S
  PROVE  LET i == RunStart(v, c, S)
         IN  i \in 0..c /\ (\A k \in (i + 1)..c : v[k] \in S) /\ (i = 0 \/ v[i] \notin S)
<1>. DEFINE P == {i \in 0..c : \A k \in (i + 1)..c : v[k] \in S}
<1>1. P \in SUBSET (0..c) /\ c \in P
  OBVIOUS
<1>2. PICK i \in P : \A j \in P : i <= j
  BY <1>1, LeastOffset
<1>3. i = 0 \/ v[i] \notin S
  <2>1. SUFFICES ASSUME i # 0, v[i] \in S PROVE FALSE
    OBVIOUS
  <2>2. i - 1 \in 0..c /\ \A k \in ((i - 1) + 1)..c : k = i \/ k \in (i + 1)..c
    BY <2>1
  <2>3. i - 1 \in P
    BY <2>1, <2>2
  <2>. QED
    BY <2>3, <1>2
<1>4. \E j \in 0..c : (\A k \in (j + 1)..c : v[k] \in S) /\ (j = 0 \/ v[j] \notin S)
  BY <1>2, <1>3
<1>. QED
  BY <1>4 DEF RunStart

LEMMA RunEndIs ==
  ASSUME NEW v, Len(v) \in Nat, NEW c \in 0..Len(v), NEW S
  PROVE  LET i == RunEnd(v, c, S)
         IN  /\ i \in c..Len(v) /\ (\A k \in (c + 1)..i : v[k] \in S)
             /\ i = Len(v) \/ v[i + 1] \notin S
<1>. DEFINE n == Len(v)
<1>. DEFINE P == {i \in c..n : \A k \in (c + 1)..i : v[k] \in S}
<1>1. P \in SUBSET (0..n) /\ c \in P /\ n \in Nat
  OBVIOUS
<1>2. PICK i \in P : \A j \in P : j <= i
  BY <1>1, LargestOffset
<1>3. i = n \/ v[i + 1] \notin S
  <2>1. SUFFICES ASSUME i # n, v[i + 1] \in S PROVE FALSE
    OBVIOUS
  <2>2. i + 1 \in c..n /\ \A k \in (c + 1)..(i + 1) : k = i + 1 \/ k \in (c + 1)..i
    BY <2>1, <1>1
  <2>3. i + 1 \in P
    BY <2>1, <2>2
  <2>. QED
    BY <2>3, <1>2, <1>1
<1>4. \E j \in c..n : (\A k \in (c + 1)..j : v[k] \in S) /\ (j = n \/ v[j + 1] \notin S)
  BY <1>2, <1>3
<1>. QED
  BY <1>4 DEF RunEnd

-----------------------------------------------------------------------------
(* Texts.                                                                  *)

LEMMA SliceIsText ==
  ASSUME NEW v \in Text, NEW i \in Nat, NEW j \in Nat
  PROVE  /\ Slice(v, i, j) \in Text
         /\ Len(Slice(v, i, j)) = IF i < AtMost(j, Len(v)) THEN AtMost(j, Len(v)) - i ELSE 0
<1>. DEFINE m == AtMost(j, Len(v))
<1>1. Len(v) \in Nat /\ m \in Nat /\ m <= Len(v)
  BY DEF Text, AtMost
<1>2. \A k \in (i + 1)..m : v[k] \in Chars
  BY <1>1 DEF Text
<1>. HIDE DEF m
<1>3. /\ SubSeq(v, i + 1, m) \in Seq(Chars)
      /\ Len(SubSeq(v, i + 1, m)) = IF i + 1 <= m THEN m - (i + 1) + 1 ELSE 0
  BY <1>1, <1>2, SubSeqProperties
<1>4. Slice(v, i, j) = SubSeq(v, i + 1, m)
  BY DEF Slice, m
<1>. QED
  BY <1>1, <1>3, <1>4 DEF Text, m

LEMMA OneCharacter ==
  ASSUME NEW ch \in Chars
  PROVE  <<ch>> \in Text
BY DEF Text

-----------------------------------------------------------------------------
(* Buffers.                                                                *)

Valid(b) == b \in Buffers /\ InBounds(b)

LEMMA ValidIs ==
  /\ \A v \in Text : \A c \in 0..Len(v) : Valid(Buffer(v, c))
  /\ \A b : Valid(b) => /\ b.value \in Text /\ Len(b.value) \in Nat
                        /\ b.cursor \in 0..Len(b.value) /\ b.cursor \in Nat
  BY DEF Valid, Buffer, Buffers, InBounds, Text

LEMMA EmptyBuffer == Valid(Buffer(<<>>, 0)) /\ <<>> \in Text
  BY DEF Valid, Buffer, Buffers, InBounds, Text

LEMMA MoveToIs ==
  ASSUME NEW b, Valid(b), NEW c \in Nat
  PROVE  Valid(MoveTo(b, c)) /\ MoveTo(b, c).value = b.value
<1>1. b.value \in Text /\ Len(b.value) \in Nat
  BY ValidIs
<1>2. AtMost(c, Len(b.value)) \in 0..Len(b.value)
  BY <1>1 DEF AtMost
<1>3. Valid(Buffer(b.value, AtMost(c, Len(b.value))))
  BY <1>1, <1>2, ValidIs
<1>. QED
  BY <1>3 DEF MoveTo, Buffer

LEMMA LinesAre ==
  ASSUME NEW v \in Text, NEW c \in 0..Len(v)
  PROVE  LineStart(v, c) \in 0..c /\ LineEnd(v, c) \in c..Len(v)
<1>1. Len(v) \in Nat /\ c \in Nat
  BY DEF Text
<1>. QED
  BY <1>1, RunStartIs, RunEndIs DEF LineStart, LineEnd

LEMMA WordsAre ==
  ASSUME NEW v \in Text, NEW c \in 0..Len(v)
  PROVE  WordLeft(v, c) \in 0..Len(v) /\ NextWord(v, c) \in 0..Len(v)
<1>. DEFINE n == Len(v)
            s == RunStart(v, c, SpaceChars)
            e == RunEnd(v, c, SpaceChars)
<1>1. n \in Nat /\ c \in Nat /\ c <= n
  BY DEF Text
<1>2. s \in 0..c /\ e \in c..n
  BY <1>1, RunStartIs, RunEndIs
<1>. HIDE DEF s, e
<1>. DEFINE i == RunStart(v, s, WordChars)
            j == RunEnd(v, e, WordChars)
<1>3. i \in 0..s /\ j \in e..n
  <2>1. s \in Nat /\ e \in 0..n
    BY <1>1, <1>2
  <2>. QED
    BY <1>1, <2>1, RunStartIs, RunEndIs
<1>4. WordLeft(v, c) = IF i = c /\ c > 0 THEN c - 1 ELSE i
  BY DEF WordLeft, s
<1>5. WordRight(v, c) = IF j = c /\ c < n THEN c + 1 ELSE j
  BY DEF WordRight, e
<1>. HIDE DEF i, j
<1>6. WordLeft(v, c) \in 0..n /\ WordRight(v, c) \in 0..n
  BY <1>1, <1>2, <1>3, <1>4, <1>5
<1>7. RunEnd(v, WordRight(v, c), SpaceChars) \in WordRight(v, c)..n
  BY <1>1, <1>6, RunEndIs
<1>. QED
  BY <1>1, <1>6, <1>7 DEF NextWord

LEMMA VerticalIs ==
  ASSUME NEW b, Valid(b)
  PROVE  /\ Valid(Up(b)) /\ Up(b).value = b.value
         /\ Valid(Down(b)) /\ Down(b).value = b.value
<1>. DEFINE v == b.value
            c == b.cursor
            n == Len(v)
            start == LineStart(v, c)
            end == LineEnd(v, c)
<1>1. v \in Text /\ n \in Nat /\ c \in 0..n
  BY ValidIs
<1>2. start \in 0..c /\ end \in c..n
  BY <1>1, LinesAre
<1>. HIDE DEF v, c, n, start, end
<1>3. Valid(Up(b)) /\ Up(b).value = b.value
  <2>1. Up(b) = IF start = 0 THEN b
                ELSE MoveTo(b, AtMost(LineStart(v, start - 1) + (c - start), start - 1))
    BY DEF Up, v, c, start
  <2>2. CASE start = 0
    BY <2>1, <2>2
  <2>3. CASE start # 0
    <3>1. start - 1 \in 0..Len(v) /\ start - 1 \in Nat /\ c - start \in Nat
      BY <1>1, <1>2, <2>3 DEF n
    <3>2. LineStart(v, start - 1) \in 0..(start - 1)
      BY <1>1, <3>1, LinesAre
    <3>3. AtMost(LineStart(v, start - 1) + (c - start), start - 1) \in Nat
      BY <3>1, <3>2 DEF AtMost
    <3>. QED
      BY <2>1, <2>3, <3>3, MoveToIs
  <2>. QED
    BY <2>2, <2>3
<1>4. Valid(Down(b)) /\ Down(b).value = b.value
  <2>1. Down(b) = IF end = n THEN b
                  ELSE MoveTo(b, AtMost(end + 1 + (c - start), LineEnd(v, end + 1)))
    BY DEF Down, v, c, n, start, end
  <2>2. CASE end = n
    BY <2>1, <2>2
  <2>3. CASE end # n
    <3>1. end + 1 \in 0..Len(v) /\ end + 1 \in Nat /\ c - start \in Nat
      BY <1>1, <1>2, <2>3 DEF n
    <3>2. LineEnd(v, end + 1) \in (end + 1)..Len(v)
      BY <1>1, <3>1, LinesAre
    <3>3. AtMost(end + 1 + (c - start), LineEnd(v, end + 1)) \in Nat
      BY <1>1, <3>1, <3>2 DEF AtMost, n
    <3>. QED
      BY <2>1, <2>3, <3>3, MoveToIs
  <2>. QED
    BY <2>2, <2>3
<1>. QED
  BY <1>3, <1>4

LEMMA InsertIs ==
  ASSUME NEW b, Valid(b), NEW text \in Text
  PROVE  Valid(Insert(b, text))
<1>. DEFINE v == b.value
            c == b.cursor
            n == Len(v)
            l == Slice(v, 0, c)
            r == Slice(v, c, n)
<1>1. v \in Text /\ n \in Nat /\ c \in 0..n /\ c \in Nat
  BY ValidIs
<1>2. /\ l \in Text /\ r \in Text
      /\ Len(l) = IF 0 < AtMost(c, n) THEN AtMost(c, n) - 0 ELSE 0
  BY <1>1, SliceIsText
<1>. HIDE DEF l, r, v, c, n
<1>3. Len(l) = c
  BY <1>1, <1>2 DEF AtMost
<1>4. l \o text \in Text /\ Len(l \o text) = c + Len(text)
  BY <1>2, <1>3, ConcatProperties DEF Text
<1>. DEFINE lt == l \o text
<1>. HIDE DEF lt
<1>5. lt \o r \in Text /\ Len(lt \o r) = Len(lt) + Len(r)
  BY <1>2, <1>4, ConcatProperties DEF Text, lt
<1>6. Len(text) \in Nat /\ Len(r) \in Nat
  BY <1>2 DEF Text
<1>7. c + Len(text) \in 0..Len(lt \o r)
  BY <1>1, <1>4, <1>5, <1>6 DEF lt
<1>8. Valid(Buffer(lt \o r, c + Len(text)))
  BY <1>5, <1>7, ValidIs
<1>. QED
  BY <1>8 DEF Insert, l, r, lt, v, c, n

LEMMA CutIs ==
  ASSUME NEW b, Valid(b), NEW i \in 0..Len(b.value), NEW j \in Nat
  PROVE  Valid(Cut(b, i, j))
<1>. DEFINE v == b.value
            n == Len(v)
            l == Slice(v, 0, i)
            r == Slice(v, j, n)
<1>1. v \in Text /\ n \in Nat /\ i \in 0..n /\ i \in Nat
  BY ValidIs
<1>2. /\ l \in Text /\ r \in Text
      /\ Len(l) = IF 0 < AtMost(i, n) THEN AtMost(i, n) - 0 ELSE 0
  BY <1>1, SliceIsText
<1>. HIDE DEF l, r, v, n
<1>3. Len(l) = i /\ Len(r) \in Nat
  BY <1>1, <1>2 DEF AtMost, Text
<1>4. l \o r \in Text /\ Len(l \o r) = i + Len(r)
  BY <1>2, <1>3, ConcatProperties DEF Text
<1>5. i \in 0..Len(l \o r)
  BY <1>1, <1>3, <1>4
<1>6. Valid(Buffer(l \o r, i))
  BY <1>4, <1>5, ValidIs
<1>. QED
  BY <1>6 DEF Cut, l, r, v, n

LEMMA DeletesAre ==
  ASSUME NEW b, Valid(b)
  PROVE  Valid(Backspace(b)) /\ Valid(DeleteForward(b))
<1>1. Len(b.value) \in Nat /\ b.cursor \in 0..Len(b.value)
  BY ValidIs
<1>2. CASE b.cursor = 0
  BY <1>1, <1>2, CutIs DEF Backspace, DeleteForward
<1>3. CASE b.cursor # 0
  <2>1. b.cursor - 1 \in 0..Len(b.value) /\ b.cursor \in Nat
    BY <1>1, <1>3
  <2>. QED
    BY <1>1, <1>3, <2>1, CutIs DEF Backspace, DeleteForward
<1>. QED
  BY <1>2, <1>3

(* A motion stays in the text.                                             *)
LEMMA MovedIs ==
  ASSUME NEW b, Valid(b), NEW key \in Motions
  PROVE  Valid(Moved(b, key)) /\ Moved(b, key).value = b.value
<1>. DEFINE v == b.value
            c == b.cursor
<1>1. v \in Text /\ Len(v) \in Nat /\ c \in 0..Len(v) /\ c \in Nat
  BY ValidIs
<1>2. AtLeast(1, c) - 1 \in Nat /\ c + 1 \in Nat /\ 0 \in Nat
  BY <1>1 DEF AtLeast
<1>3. LineStart(v, c) \in Nat /\ LineEnd(v, c) \in Nat
  BY <1>1, LinesAre
<1>4. WordLeft(v, c) \in Nat /\ NextWord(v, c) \in Nat
  <2>1. WordLeft(v, c) \in 0..Len(v) /\ NextWord(v, c) \in 0..Len(v)
    BY <1>1, WordsAre
  <2>. QED
    BY <1>1, <2>1
<1>. DEFINE Offsets == {AtLeast(1, c) - 1, c + 1, 0, LineStart(v, c), LineEnd(v, c),
                        WordLeft(v, c), NextWord(v, c), Len(v)}
<1>5. \A i \in Offsets : i \in Nat
  BY <1>1, <1>2, <1>3, <1>4
<1>6. Moved(b, key) \in {Up(b), Down(b)} \/ \E i \in Offsets : Moved(b, key) = MoveTo(b, i)
  BY DEF Motions, Moved
<1>. HIDE DEF Offsets
<1>. QED
  BY <1>5, <1>6, MoveToIs, VerticalIs

LEMMA OpenedIs ==
  ASSUME NEW b, Valid(b), NEW key \in EntryKeys
  PROVE  /\ Valid(Opened(b, key))
         /\ Opened(b, key).value = b.value \/ key \in {"o", "O"}
<1>. DEFINE v == b.value
            c == b.cursor
            ls == MoveTo(b, LineStart(v, c))
            le == MoveTo(b, LineEnd(v, c))
<1>1. v \in Text /\ Len(v) \in Nat /\ c \in 0..Len(v) /\ c \in Nat /\ c + 1 \in Nat
  BY ValidIs
<1>2. LineStart(v, c) \in Nat /\ LineEnd(v, c) \in Nat
  <2>. HIDE DEF v, c
  <2>1. LineStart(v, c) \in 0..c /\ LineEnd(v, c) \in c..Len(v)
    BY <1>1, LinesAre
  <2>. QED
    BY <1>1, <2>1
<1>3. /\ Valid(ls) /\ ls.value = v /\ Valid(le) /\ le.value = v
      /\ Valid(MoveTo(b, c + 1)) /\ MoveTo(b, c + 1).value = v
  <2>1. \A k \in Nat : Valid(MoveTo(b, k)) /\ MoveTo(b, k).value = v
    BY MoveToIs
  <2>. HIDE DEF v, c
  <2>. QED
    BY <1>1, <1>2, <2>1
<1>4. <<Newline>> \in Text
  BY OneCharacter, CharsAssumption DEF Chars
<1>5. Valid(Insert(ls, <<Newline>>)) /\ Valid(Insert(le, <<Newline>>))
  BY <1>3, <1>4, InsertIs
<1>6. Valid(Up(Insert(ls, <<Newline>>)))
  BY <1>5, VerticalIs
<1>7. \/ Opened(b, key) \in {b, ls, le, MoveTo(b, c + 1)}
      \/ key \in {"o", "O"} /\ Opened(b, key) \in {Insert(le, <<Newline>>), Up(Insert(ls, <<Newline>>))}
  BY DEF EntryKeys, Opened
<1>. HIDE DEF ls, le
<1>. QED
  BY <1>3, <1>5, <1>6, <1>7

-----------------------------------------------------------------------------
(* The states of the reducer.                                              *)

(* TypeOK, of a state.                                                     *)
StateOK(st) ==
  /\ st \in VimStates
  /\ InBounds(st.buffer)
  /\ \A k \in DOMAIN st.history : InBounds(st.history[k])
  /\ Len(st.history) <= HistoryLimit
  /\ st.mode = "operator" <=> st.op # "none"
  /\ st.mode = "visual" <=> st.anchor # None
  /\ st.anchor <= Len(st.buffer.value)

LEMMA StateIs ==
  ASSUME NEW st, StateOK(st)
  PROVE  /\ Valid(st.buffer) /\ st.register \in Text
         /\ st.history \in Seq(Buffers) /\ Len(st.history) \in Nat
         /\ DOMAIN st.history = 1..Len(st.history)
         /\ \A k \in DOMAIN st.history : Valid(st.history[k])
         /\ st.mode \in {"insert", "normal", "visual", "operator"}
         /\ st.anchor \in Nat \cup {None}
  BY DEF StateOK, VimStates, Valid

(* A state from its parts.                                                 *)
Modal(mode, op, anchor, value) ==
  /\ mode \in {"insert", "normal", "visual", "operator"} /\ op \in {"none", "d", "c", "y"}
  /\ anchor \in Nat \cup {None}
  /\ mode = "operator" <=> op # "none"
  /\ mode = "visual" <=> anchor # None
  /\ anchor <= Len(value)

Undoable(h) ==
  h \in Seq(Buffers) /\ Len(h) <= HistoryLimit /\ \A k \in DOMAIN h : InBounds(h[k])

VimState(b, mode, op, anchor, register, h) ==
  [buffer |-> b, mode |-> mode, op |-> op, anchor |-> anchor, register |-> register, history |-> h]

LEMMA FieldsAre ==
  ASSUME NEW b, NEW mode, NEW op, NEW anchor, NEW register, NEW h
  PROVE  LET st == VimState(b, mode, op, anchor, register, h)
         IN  /\ st.buffer = b /\ st.mode = mode /\ st.op = op /\ st.anchor = anchor
             /\ st.register = register /\ st.history = h
  BY DEF VimState

LEMMA StateMade ==
  ASSUME NEW b, Valid(b), NEW mode, NEW op, NEW anchor, Modal(mode, op, anchor, b.value),
         NEW register \in Text, NEW h, Undoable(h)
  PROVE  StateOK(VimState(b, mode, op, anchor, register, h))
<1>1. b \in Buffers /\ InBounds(b)
  BY DEF Valid
<1>2. VimState(b, mode, op, anchor, register, h) \in VimStates
  BY <1>1 DEF VimStates, VimState, Modal, Undoable
<1>. QED
  BY <1>1, <1>2 DEF StateOK, VimState, Modal, Undoable

(* [st EXCEPT ...], field by field.                                        *)
LEMMA FieldSet ==
  ASSUME NEW b, NEW mode, NEW op, NEW anchor, NEW register, NEW h
  PROVE  LET st == VimState(b, mode, op, anchor, register, h)
         IN  /\ \A c : [st EXCEPT !.buffer = c] = VimState(c, mode, op, anchor, register, h)
             /\ \A m : [st EXCEPT !.mode = m] = VimState(b, m, op, anchor, register, h)
             /\ \A o : [st EXCEPT !.op = o] = VimState(b, mode, o, anchor, register, h)
             /\ \A a : [st EXCEPT !.anchor = a] = VimState(b, mode, op, a, register, h)
             /\ \A r : [st EXCEPT !.register = r] = VimState(b, mode, op, anchor, r, h)
  BY DEF VimState

LEMMA BufferSet ==
  ASSUME NEW st \in VimStates, NEW c
  PROVE  [st EXCEPT !.buffer = c]
           = VimState(c, st.mode, st.op, st.anchor, st.register, st.history)
  BY DEF VimState, VimStates

LEMMA EntrySet ==
  ASSUME NEW st \in VimStates,
         NEW m, NEW c
  PROVE  [st EXCEPT !.mode = m, !.buffer = c]
           = VimState(c, m, st.op, st.anchor, st.register, st.history)
<1>1. [st EXCEPT !.mode = m]
       = VimState(st.buffer, m, st.op, st.anchor, st.register, st.history)
  BY DEF VimState, VimStates
<1>2. [VimState(st.buffer, m, st.op, st.anchor, st.register, st.history) EXCEPT !.buffer = c]
       = VimState(c, m, st.op, st.anchor, st.register, st.history)
  BY FieldSet
<1>. QED
  BY <1>1, <1>2

LEMMA AnchorSet ==
  ASSUME NEW st \in VimStates,
         NEW m, NEW a
  PROVE  [st EXCEPT !.mode = m, !.anchor = a]
           = VimState(st.buffer, m, st.op, a, st.register, st.history)
<1>1. [st EXCEPT !.mode = m]
       = VimState(st.buffer, m, st.op, st.anchor, st.register, st.history)
  BY DEF VimState, VimStates
<1>2. [VimState(st.buffer, m, st.op, st.anchor, st.register, st.history) EXCEPT !.anchor = a]
       = VimState(st.buffer, m, st.op, a, st.register, st.history)
  BY FieldSet
<1>. QED
  BY <1>1, <1>2

LEMMA OperatorSet ==
  ASSUME NEW st \in VimStates,
         NEW m, NEW o
  PROVE  [st EXCEPT !.mode = m, !.op = o]
           = VimState(st.buffer, m, o, st.anchor, st.register, st.history)
<1>1. [st EXCEPT !.mode = m]
       = VimState(st.buffer, m, st.op, st.anchor, st.register, st.history)
  BY DEF VimState, VimStates
<1>2. [VimState(st.buffer, m, st.op, st.anchor, st.register, st.history) EXCEPT !.op = o]
       = VimState(st.buffer, m, o, st.anchor, st.register, st.history)
  BY FieldSet
<1>. QED
  BY <1>1, <1>2

LEMMA ToNormalSet ==
  ASSUME NEW b, NEW mode, NEW op, NEW anchor, NEW register, NEW h
  PROVE  ToNormal(VimState(b, mode, op, anchor, register, h))
           = VimState(b, "normal", "none", None, register, h)
<1>1. [VimState(b, mode, op, anchor, register, h) EXCEPT !.mode = "normal"]
        = VimState(b, "normal", op, anchor, register, h)
  BY FieldSet
<1>2. [VimState(b, "normal", op, anchor, register, h) EXCEPT !.op = "none"]
        = VimState(b, "normal", "none", anchor, register, h)
  BY FieldSet
<1>3. [VimState(b, "normal", "none", anchor, register, h) EXCEPT !.anchor = None]
        = VimState(b, "normal", "none", None, register, h)
  BY FieldSet
<1>. QED
  BY <1>1, <1>2, <1>3 DEF ToNormal

LEMMA StateParts ==
  ASSUME NEW st, StateOK(st)
  PROVE  /\ st \in VimStates
         /\ st = VimState(st.buffer, st.mode, st.op, st.anchor, st.register, st.history)
         /\ Valid(st.buffer) /\ st.register \in Text /\ Undoable(st.history)
         /\ Modal(st.mode, st.op, st.anchor, st.buffer.value)
<1>1. st \in VimStates
  BY DEF StateOK
<1>2. st = VimState(st.buffer, st.mode, st.op, st.anchor, st.register, st.history)
  BY <1>1 DEF VimStates, VimState
<1>. QED
  BY <1>1, <1>2 DEF StateOK, VimStates, Valid, Undoable, Modal

(* The buffer after a key that is not an edit.                             *)
LEMMA NoAnchor ==
  ASSUME NEW v \in Text, NEW mode \in {"insert", "normal"}
  PROVE  Modal(mode, "none", None, v)
<1>1. Len(v) \in Nat /\ None = -1
  BY DEF Text, None
<1>. QED
  BY <1>1 DEF Modal

LEMMA NewIs ==
  ASSUME NEW b, Valid(b)
  PROVE  StateOK(NewVimState(b))
<1>1. NewVimState(b) = VimState(b, "normal", "none", None, <<>>, <<>>)
  BY DEF NewVimState, VimState
<1>2. Undoable(<<>>) /\ <<>> \in Text
  BY HistoryAssumption DEF Undoable, Text
<1>3. Modal("normal", "none", None, b.value)
  BY ValidIs, NoAnchor
<1>. QED
  BY <1>1, <1>2, <1>3, StateMade

(* pushUndo: the oldest text goes when there are too many.                 *)
Pushed(h, b) == IF Len(Append(h, b)) > HistoryLimit THEN Tail(Append(h, b)) ELSE Append(h, b)

LEMMA PushedIs ==
  ASSUME NEW h, Undoable(h), NEW b, Valid(b)
  PROVE  Undoable(Pushed(h, b))
<1>. DEFINE a == Append(h, b)
<1>1. h \in Seq(Buffers) /\ b \in Buffers /\ HistoryLimit \in Nat \ {0} /\ Len(h) <= HistoryLimit
  BY HistoryAssumption DEF Undoable, Valid
<1>2. /\ a \in Seq(Buffers) /\ Len(a) = Len(h) + 1 /\ Len(h) \in Nat
      /\ DOMAIN a = 1..(Len(h) + 1)
      /\ \A i \in 1..Len(h) : a[i] = h[i]
      /\ a[Len(h) + 1] = b
  BY <1>1, AppendProperties, LenProperties
<1>3. \A i \in DOMAIN a : InBounds(a[i])
  <2>1. \A i \in 1..Len(h) : InBounds(h[i])
    BY DEF Undoable
  <2>2. \A i \in DOMAIN a : i \in 1..Len(h) \/ i = Len(h) + 1
    BY <1>2
  <2>. QED
    BY <1>2, <2>1, <2>2 DEF Valid
<1>. HIDE DEF a
<1>4. CASE Len(a) > HistoryLimit
  <2>1. a # <<>>
    BY <1>2
  <2>2. /\ Tail(a) \in Seq(Buffers) /\ Len(Tail(a)) = Len(a) - 1
        /\ \A i \in 1..Len(Tail(a)) : Tail(a)[i] = a[i + 1]
        /\ DOMAIN Tail(a) = 1..Len(Tail(a))
    BY <1>2, <2>1, HeadTailProperties, LenProperties
  <2>3. \A i \in DOMAIN Tail(a) : i + 1 \in DOMAIN a
    BY <1>2, <2>2
  <2>4. Undoable(Tail(a))
    BY <1>1, <1>2, <1>3, <2>2, <2>3 DEF Undoable
  <2>. QED
    BY <1>4, <2>4 DEF Pushed, a
<1>5. CASE ~(Len(a) > HistoryLimit)
  <2>1. Undoable(a)
    BY <1>1, <1>2, <1>3, <1>5 DEF Undoable
  <2>. QED
    BY <1>5, <2>1 DEF Pushed, a
<1>. QED
  BY <1>4, <1>5

LEMMA PushUndoIs ==
  ASSUME NEW b, NEW mode, NEW op, NEW anchor, NEW register, NEW h
  PROVE  PushUndo(VimState(b, mode, op, anchor, register, h))
           = VimState(b, mode, op, anchor, register, Pushed(h, b))
<1>. DEFINE st == VimState(b, mode, op, anchor, register, h)
<1>1. st.history = h /\ st.buffer = b
  BY FieldsAre
<1>2. \A new : [st EXCEPT !.history = new] = VimState(b, mode, op, anchor, register, new)
  BY DEF VimState
<1>. HIDE DEF st
<1>3. PushUndo(st) = [st EXCEPT !.history = Pushed(h, b)]
  BY <1>1, Zenon DEF PushUndo, Pushed
<1>4. PushUndo(st) = VimState(b, mode, op, anchor, register, Pushed(h, b))
  BY <1>2, <1>3, Zenon
<1>. QED
  BY <1>4 DEF st

LEMMA PoppedIs ==
  ASSUME NEW h, Undoable(h), Len(h) # 0
  PROVE  /\ Undoable(SubSeq(h, 1, Len(h) - 1)) /\ Valid(h[Len(h)])
         /\ Len(SubSeq(h, 1, Len(h) - 1)) = Len(h) - 1
         /\ \A k \in 1..(Len(h) - 1) : SubSeq(h, 1, Len(h) - 1)[k] = h[k]
<1>. DEFINE n == Len(h) - 1
            p == SubSeq(h, 1, n)
<1>1. h \in Seq(Buffers) /\ Len(h) \in Nat /\ DOMAIN h = 1..Len(h) /\ Len(h) <= HistoryLimit
  BY DEF Undoable
<1>2. n \in Nat /\ \A k \in 1..n : k \in DOMAIN h /\ h[k] \in Buffers
  BY <1>1
<1>3. HistoryLimit \in Nat
  BY HistoryAssumption
<1>. HIDE DEF n
<1>4. /\ p \in Seq(Buffers) /\ Len(p) = (IF 1 <= n THEN n - 1 + 1 ELSE 0)
      /\ \A k \in 1..n : p[k] = h[1 + k - 1]
  BY <1>2, SubSeqProperties
<1>. HIDE DEF p
<1>5. Len(p) = n /\ \A k \in 1..n : p[k] = h[k]
  BY <1>2, <1>4
<1>6. DOMAIN p = 1..n
  BY <1>4, <1>5, LenProperties
<1>7. Undoable(p)
  <2>1. \A k \in DOMAIN p : k \in DOMAIN h /\ p[k] = h[k]
    BY <1>2, <1>5, <1>6
  <2>2. \A k \in DOMAIN p : InBounds(p[k])
    BY <2>1 DEF Undoable
  <2>3. Len(p) <= HistoryLimit
    BY <1>1, <1>3, <1>5 DEF n
  <2>. QED
    BY <1>4, <2>2, <2>3 DEF Undoable
<1>8. Len(h) \in DOMAIN h /\ h[Len(h)] \in Buffers
  BY <1>1
<1>. QED
  BY <1>5, <1>7, <1>8 DEF Undoable, Valid, p, n

-----------------------------------------------------------------------------
(* The keys.                                                               *)

(* What the key has done to the undo stack.                                *)
UndoKept(st, new, key) ==
  \/ new.history = st.history
  \/ \E b : /\ new.history = Pushed(st.history, b) /\ Valid(b)
            /\ b.value = st.buffer.value \/ key \in {"o", "O"}

LEMMA ToNormalIs ==
  ASSUME NEW st, StateOK(st)
  PROVE  /\ StateOK(ToNormal(st))
         /\ ToNormal(st).buffer = st.buffer /\ ToNormal(st).history = st.history
<1>1. /\ st \in VimStates /\ st = VimState(st.buffer, st.mode, st.op, st.anchor, st.register, st.history)
      /\ Valid(st.buffer) /\ st.register \in Text /\ Undoable(st.history)
  BY StateParts
<1>2. ToNormal(st) = VimState(st.buffer, "normal", "none", None, st.register, st.history)
  BY <1>1, ToNormalSet
<1>3. Modal("normal", "none", None, st.buffer.value)
  BY <1>1, ValidIs, NoAnchor
<1>4. StateOK(ToNormal(st))
  BY <1>1, <1>2, <1>3, StateMade
<1>. QED
  BY <1>2, <1>4 DEF VimState

LEMMA UndoIs ==
  ASSUME NEW st, StateOK(st), st.mode = "normal"
  PROVE  StateOK(Undo(st))
<1>. DEFINE h == st.history
<1>1. /\ st \in VimStates /\ st = VimState(st.buffer, st.mode, st.op, st.anchor, st.register, st.history)
      /\ Valid(st.buffer) /\ st.register \in Text /\ Undoable(h)
      /\ Modal(st.mode, st.op, st.anchor, st.buffer.value)
  BY StateParts
<1>2. CASE Len(h) = 0
  BY <1>2 DEF Undo
<1>3. CASE Len(h) # 0
  <2>1. Undo(st) = VimState(h[Len(h)], st.mode, st.op, st.anchor, st.register,
                            SubSeq(h, 1, Len(h) - 1))
    BY <1>1, <1>3 DEF Undo, VimState
  <2>2. Undoable(SubSeq(h, 1, Len(h) - 1)) /\ Valid(h[Len(h)])
    BY <1>1, <1>3, PoppedIs
  <2>3. st.op = "none" /\ st.anchor = None
    BY <1>1 DEF Modal
  <2>4. Modal(st.mode, st.op, st.anchor, h[Len(h)].value)
    BY <2>2, <2>3, ValidIs, NoAnchor
  <2>. QED
    BY <1>1, <2>1, <2>2, <2>4, StateMade
<1>. QED
  BY <1>2, <1>3

LEMMA OperateIs ==
  ASSUME NEW st, StateOK(st), NEW op, NEW i \in 0..Len(st.buffer.value), NEW j \in Nat, NEW key
  PROVE  StateOK(Operate(st, op, i, j)) /\ UndoKept(st, Operate(st, op, i, j), key)
<1>. DEFINE b == st.buffer
            text == Slice(b.value, i, j)
            mode == IF op = "c" THEN "insert" ELSE "normal"
            cut == VimState(Cut(b, i, j), mode, "none", None, text, Pushed(st.history, b))
            yank == VimState(b, "normal", "none", None, text, st.history)
<1>1. /\ st \in VimStates /\ st = VimState(b, st.mode, st.op, st.anchor, st.register, st.history)
      /\ Valid(b) /\ st.register \in Text /\ Undoable(st.history)
      /\ b.value \in Text
  BY StateParts, ValidIs
<1>2. text \in Text
  <2>1. Len(b.value) \in Nat /\ i \in Nat
    BY <1>1, ValidIs
  <2>. QED
    BY <1>1, <2>1, SliceIsText
<1>3. Valid(Cut(b, i, j)) /\ Undoable(Pushed(st.history, b))
  BY <1>1, CutIs, PushedIs
<1>4. mode \in {"insert", "normal"}
  OBVIOUS
<1>5. Cut(b, i, j).value \in Text
  BY <1>3, ValidIs
<1>6. StateOK(cut)
  <2>1. Modal(mode, "none", None, Cut(b, i, j).value)
    BY <1>4, <1>5, NoAnchor
  <2>. QED
    BY <1>2, <1>3, <2>1, StateMade
<1>7. StateOK(yank)
  <2>1. Modal("normal", "none", None, b.value)
    BY <1>1, NoAnchor
  <2>. QED
    BY <1>1, <1>2, <2>1, StateMade
<1>8. PushUndo(st) = VimState(b, st.mode, st.op, st.anchor, st.register, Pushed(st.history, b))
  BY <1>1, PushUndoIs
<1>9. op = "y" => Operate(st, op, i, j) = yank
  <2>1. op = "y" => Operate(st, op, i, j) = [ToNormal(st) EXCEPT !.register = text]
    BY DEF Operate
  <2>2. ToNormal(st) = VimState(b, "normal", "none", None, st.register, st.history)
    BY <1>1, ToNormalSet
  <2>. HIDE DEF text, b
  <2>3. [VimState(b, "normal", "none", None, st.register, st.history) EXCEPT !.register = text]
          = VimState(b, "normal", "none", None, text, st.history)
    BY FieldSet
  <2>. QED
    BY <2>1, <2>2, <2>3
<1>10. op # "y" => Operate(st, op, i, j) = cut
  <2>1. op # "y" => Operate(st, op, i, j) = [ToNormal(PushUndo(st)) EXCEPT
                      !.mode = mode, !.register = text, !.buffer = Cut(b, i, j)]
    BY DEF Operate
  <2>2. ToNormal(PushUndo(st))
          = VimState(b, "normal", "none", None, st.register, Pushed(st.history, b))
    BY <1>8, ToNormalSet
  <2>. HIDE DEF mode, text, b
  <2>3. [VimState(b, "normal", "none", None, st.register, Pushed(st.history, b)) EXCEPT !.mode = mode]
          = VimState(b, mode, "none", None, st.register, Pushed(st.history, b))
    BY FieldSet
  <2>4. [VimState(b, mode, "none", None, st.register, Pushed(st.history, b)) EXCEPT !.register = text]
          = VimState(b, mode, "none", None, text, Pushed(st.history, b))
    BY FieldSet
  <2>5. [VimState(b, mode, "none", None, text, Pushed(st.history, b)) EXCEPT !.buffer = Cut(b, i, j)]
          = VimState(Cut(b, i, j), mode, "none", None, text, Pushed(st.history, b))
    BY FieldSet
  <2>. QED
    BY <2>1, <2>2, <2>3, <2>4, <2>5
<1>11. UndoKept(st, yank, key) /\ UndoKept(st, cut, key)
  BY <1>1 DEF UndoKept, VimState
<1>. QED
  BY <1>6, <1>7, <1>9, <1>10, <1>11

(* Only the buffer is another.                                             *)
LEMMA BufferMoves ==
  ASSUME NEW st, StateOK(st), NEW b, Valid(b), b.value = st.buffer.value
  PROVE  StateOK([st EXCEPT !.buffer = b])
<1>1. /\ st \in VimStates /\ st = VimState(st.buffer, st.mode, st.op, st.anchor, st.register, st.history)
      /\ st.register \in Text /\ Undoable(st.history)
      /\ Modal(st.mode, st.op, st.anchor, st.buffer.value)
  BY StateParts
<1>2. [st EXCEPT !.buffer = b] = VimState(b, st.mode, st.op, st.anchor, st.register, st.history)
  BY <1>1, BufferSet
<1>3. Modal(st.mode, st.op, st.anchor, b.value)
  BY <1>1 DEF Modal
<1>. QED
  BY <1>1, <1>2, <1>3, StateMade

LEMMA NormalKeyIs ==
  ASSUME NEW st, StateOK(st), st.mode = "normal", NEW key
  PROVE  StateOK(NormalKey(st, key)) /\ (key # "u" => UndoKept(st, NormalKey(st, key), key))
<1>. DEFINE b == st.buffer
            h == st.history
            new == NormalKey(st, key)
<1>1. /\ st \in VimStates /\ st = VimState(b, st.mode, st.op, st.anchor, st.register, h)
      /\ Valid(b) /\ st.register \in Text /\ Undoable(h)
      /\ st.op = "none" /\ st.anchor = None
      /\ b.value \in Text /\ Len(b.value) \in Nat /\ b.cursor \in 0..Len(b.value)
  BY StateParts, ValidIs DEF Modal
<1>2. CASE key \in EntryKeys
  <2>. DEFINE o == Opened(b, key)
  <2>1. Valid(o) /\ (o.value = b.value \/ key \in {"o", "O"}) /\ o.value \in Text
    BY <1>1, <1>2, OpenedIs, ValidIs
  <2>. HIDE DEF o
  <2>2. new = VimState(o, "insert", "none", None, st.register, Pushed(h, o))
    <3>1. new = PushUndo([st EXCEPT !.mode = "insert", !.buffer = o])
      BY <1>2 DEF NormalKey, EntryKeys, Motions, o
    <3>2. [st EXCEPT !.mode = "insert", !.buffer = o]
            = VimState(o, "insert", "none", None, st.register, h)
      <4>1. [st EXCEPT !.mode = "insert", !.buffer = o]
              = VimState(o, "insert", st.op, st.anchor, st.register, h)
        BY <1>1, EntrySet, Zenon
      <4>. QED
        BY <1>1, <4>1
    <3>. QED
      BY <3>1, <3>2, PushUndoIs
  <2>3. Undoable(Pushed(h, o)) /\ Modal("insert", "none", None, o.value)
    BY <1>1, <2>1, PushedIs, NoAnchor
  <2>4. StateOK(new)
    BY <1>1, <2>1, <2>2, <2>3, StateMade
  <2>5. UndoKept(st, new, key)
    BY <2>1, <2>2 DEF UndoKept, VimState
  <2>. QED
    BY <2>4, <2>5
<1>3. CASE key = "v"
  <2>1. new = VimState(b, "visual", "none", b.cursor, st.register, h)
    <3>1. new = [st EXCEPT !.mode = "visual", !.anchor = b.cursor]
      BY <1>3 DEF NormalKey, EntryKeys, Motions
    <3>. QED
      <4>1. [st EXCEPT !.mode = "visual", !.anchor = b.cursor]
              = VimState(b, "visual", st.op, b.cursor, st.register, h)
        BY <1>1, AnchorSet, Zenon
      <4>. QED
        BY <1>1, <3>1, <4>1
  <2>2. Modal("visual", "none", b.cursor, b.value)
    BY <1>1 DEF Modal, None
  <2>3. StateOK(new)
    BY <1>1, <2>1, <2>2, StateMade
  <2>. QED
    BY <2>1, <2>3 DEF UndoKept, VimState
<1>4. CASE key = "u"
  BY <1>4, UndoIs DEF NormalKey, EntryKeys, Motions
<1>5. CASE key = "x"
  <2>. DEFINE f == DeleteForward(b)
  <2>1. Valid(f) /\ f.value \in Text /\ Undoable(Pushed(h, b))
    BY <1>1, DeletesAre, ValidIs, PushedIs
  <2>. HIDE DEF f
  <2>2. new = VimState(f, "normal", "none", None, st.register, Pushed(h, b))
    <3>1. new = [PushUndo(st) EXCEPT !.buffer = f]
      BY <1>5 DEF NormalKey, EntryKeys, Motions, f
    <3>2. PushUndo(st) = VimState(b, "normal", "none", None, st.register, Pushed(h, b))
      BY <1>1, PushUndoIs
    <3>. QED
      BY <3>1, <3>2, FieldSet
  <2>3. Modal("normal", "none", None, f.value)
    BY <2>1, NoAnchor
  <2>4. StateOK(new)
    BY <1>1, <2>1, <2>2, <2>3, StateMade
  <2>. QED
    BY <1>1, <2>2, <2>4 DEF UndoKept, VimState
<1>6. CASE key \in {"d", "c", "y"}
  <2>1. new = VimState(b, "operator", key, None, st.register, h)
    <3>1. new = [st EXCEPT !.mode = "operator", !.op = key]
      BY <1>6 DEF NormalKey, EntryKeys, Motions
    <3>. QED
      BY <1>1, <3>1, OperatorSet
  <2>2. Modal("operator", key, None, b.value)
    BY <1>1, <1>6 DEF Modal, None
  <2>3. StateOK(new)
    BY <1>1, <2>1, <2>2, StateMade
  <2>. QED
    BY <2>1, <2>3 DEF UndoKept, VimState
<1>7. CASE key \in Motions
  <2>1. Valid(Moved(b, key)) /\ Moved(b, key).value = b.value
    BY <1>1, <1>7, MovedIs
  <2>2. new = [st EXCEPT !.buffer = Moved(b, key)]
    BY <1>7 DEF NormalKey, EntryKeys, Motions
  <2>3. StateOK(new)
    BY <2>1, <2>2, BufferMoves
  <2>4. new.history = st.history
    BY <1>1, <2>2 DEF VimState
  <2>. QED
    BY <2>3, <2>4 DEF UndoKept
<1>8. CASE /\ key \notin EntryKeys \cup Motions \cup {"v", "u", "x", "d", "c", "y"}
  <2>1. new = st
    BY <1>8 DEF NormalKey
  <2>. QED
    BY <2>1 DEF UndoKept
<1>. QED
  BY <1>2, <1>3, <1>4, <1>5, <1>6, <1>7, <1>8

LEMMA VisualKeyIs ==
  ASSUME NEW st, StateOK(st), st.mode = "visual", NEW key
  PROVE  StateOK(VisualKey(st, key)) /\ UndoKept(st, VisualKey(st, key), key)
<1>. DEFINE b == st.buffer
            n == Len(b.value)
<1>1. /\ Valid(b) /\ n \in Nat /\ b.cursor \in 0..n
      /\ st.anchor \in Nat /\ st.anchor <= n
      /\ st.history = st.history
  BY StateParts, ValidIs DEF Modal
<1>2. CASE key = "v"
  BY <1>2, ToNormalIs DEF VisualKey, UndoKept, Motions
<1>3. CASE key \in {"d", "c", "y"}
  <2>. DEFINE i == AtMost(st.anchor, b.cursor)
              j == AtLeast(st.anchor, b.cursor) + 1
  <2>1. i \in 0..n /\ j \in Nat
    BY <1>1 DEF AtMost, AtLeast
  <2>2. VisualKey(st, key) = Operate(st, key, i, j)
    BY <1>3 DEF VisualKey, OperateOnSelection, Motions
  <2>. HIDE DEF i, j
  <2>. QED
    BY <2>1, <2>2, OperateIs
<1>4. CASE key \in Motions
  <2>1. VisualKey(st, key) = [st EXCEPT !.buffer = Moved(b, key)]
    BY <1>4 DEF VisualKey, Motions
  <2>2. Valid(Moved(b, key)) /\ Moved(b, key).value = b.value
    BY <1>1, <1>4, MovedIs
  <2>3. StateOK(VisualKey(st, key))
    BY <2>1, <2>2, BufferMoves
  <2>4. VisualKey(st, key).history = st.history
    BY <2>1, StateParts, BufferSet, FieldsAre
  <2>. QED
    BY <2>3, <2>4 DEF UndoKept
<1>5. CASE key \notin Motions \cup {"v", "d", "c", "y"}
  BY <1>5 DEF VisualKey, UndoKept
<1>. QED
  BY <1>2, <1>3, <1>4, <1>5

LEMMA OperatorKeyIs ==
  ASSUME NEW st, StateOK(st), st.mode = "operator", NEW key
  PROVE  StateOK(OperatorKey(st, key)) /\ UndoKept(st, OperatorKey(st, key), key)
<1>. DEFINE b == st.buffer
            v == b.value
            n == Len(v)
<1>1. /\ Valid(b) /\ v \in Text /\ n \in Nat /\ b.cursor \in 0..n
      /\ st.anchor = None /\ st.op \in {"d", "c", "y"}
      /\ st \in VimStates /\ st = VimState(b, st.mode, st.op, st.anchor, st.register, st.history)
      /\ st.register \in Text /\ Undoable(st.history)
  BY StateParts, ValidIs DEF Modal
<1>2. CASE key = st.op
  <2>. DEFINE i == LineStart(v, b.cursor)
              j == AtMost(n, LineEnd(v, b.cursor) + 1)
  <2>1. i \in 0..n /\ j \in Nat
    BY <1>1, LinesAre DEF AtMost
  <2>2. OperatorKey(st, key) = Operate(st, st.op, i, j)
    BY <1>1, <1>2 DEF OperatorKey, OperateOnLine, Motions
  <2>. HIDE DEF i, j
  <2>. QED
    BY <2>1, <2>2, OperateIs
<1>3. CASE key # st.op /\ key \in Motions
  <2>. DEFINE c == Moved(b, key).cursor
              i == AtMost(b.cursor, c)
              j == AtLeast(b.cursor, c)
  <2>1. c \in Nat
    BY <1>1, <1>3, MovedIs, ValidIs
  <2>2. OperatorKey(st, key) = Operate(st, st.op, i, j)
    BY <1>3 DEF OperatorKey, OperateTo
  <2>. HIDE DEF c
  <2>3. i \in 0..n /\ j \in Nat
    BY <1>1, <2>1 DEF AtMost, AtLeast
  <2>. HIDE DEF i, j
  <2>. QED
    BY <2>2, <2>3, OperateIs
<1>4. CASE key # st.op /\ key \notin Motions
  <2>1. OperatorKey(st, key) = VimState(b, "normal", "none", None, st.register, st.history)
    <3>1. OperatorKey(st, key) = [st EXCEPT !.mode = "normal", !.op = "none"]
      BY <1>4 DEF OperatorKey
    <3>. QED
      BY <1>1, <3>1, OperatorSet
  <2>2. StateOK(OperatorKey(st, key))
    BY <1>1, <2>1, NoAnchor, StateMade
  <2>. QED
    BY <2>1, <2>2, FieldsAre DEF UndoKept
<1>. QED
  BY <1>2, <1>3, <1>4

(* A text in INSERT.                                                       *)
LEMMA EditedIs ==
  ASSUME NEW st, StateOK(st), st.mode = "insert", NEW b, Valid(b)
  PROVE  /\ StateOK([st EXCEPT !.buffer = b])
         /\ [st EXCEPT !.buffer = b].history = st.history
         /\ [st EXCEPT !.buffer = b].buffer = b
<1>1. /\ st \in VimStates /\ st = VimState(st.buffer, st.mode, st.op, st.anchor, st.register, st.history)
      /\ st.register \in Text /\ Undoable(st.history) /\ b.value \in Text
      /\ st.op = "none" /\ st.anchor = None
  BY StateParts, ValidIs DEF Modal
<1>2. [st EXCEPT !.buffer = b] = VimState(b, "insert", "none", None, st.register, st.history)
  BY <1>1, BufferSet
<1>3. Modal("insert", "none", None, b.value)
  BY <1>1, NoAnchor
<1>. QED
  BY <1>1, <1>2, <1>3, StateMade, FieldsAre

(* Every key, in every mode.                                               *)
LEMMA KeyIs ==
  ASSUME NEW st, StateOK(st), NEW key, st.mode = "insert" => key \in Chars
  PROVE  /\ StateOK(Key(st, key))
         /\ ~(st.mode = "normal" /\ key = "u") => UndoKept(st, Key(st, key), key)
         /\ st.mode = "normal" /\ key = "u" => Key(st, key) = Undo(st)
         /\ st.mode = "insert" => Key(st, key).history = st.history
<1>1. st.mode \in {"insert", "normal", "visual", "operator"} /\ Valid(st.buffer)
  BY StateIs
<1>2. CASE st.mode = "insert"
  <2>1. Key(st, key) = [st EXCEPT !.buffer = Insert(st.buffer, <<key>>)]
    BY <1>2 DEF Key
  <2>2. Valid(Insert(st.buffer, <<key>>))
    BY <1>1, <1>2, OneCharacter, InsertIs
  <2>3. StateOK(Key(st, key)) /\ Key(st, key).history = st.history
    BY <1>2, <2>1, <2>2, EditedIs
  <2>. QED
    BY <1>2, <2>3 DEF UndoKept
<1>3. CASE st.mode = "normal"
  <2>1. Key(st, key) = NormalKey(st, key)
    BY <1>3 DEF Key
  <2>2. key = "u" => NormalKey(st, key) = Undo(st)
    BY DEF NormalKey, EntryKeys, Motions
  <2>. QED
    BY <1>3, <2>1, <2>2, NormalKeyIs
<1>4. CASE st.mode = "visual"
  <2>1. Key(st, key) = VisualKey(st, key)
    BY <1>4 DEF Key
  <2>. QED
    BY <1>4, <2>1, VisualKeyIs
<1>5. CASE st.mode = "operator"
  <2>1. Key(st, key) = OperatorKey(st, key)
    BY <1>5 DEF Key
  <2>. QED
    BY <1>5, <2>1, OperatorKeyIs
<1>. QED
  BY <1>1, <1>2, <1>3, <1>4, <1>5

(* Enter outside of INSERT and NORMAL, Escape and Backspace.               *)
LEMMA ReturnIs ==
  ASSUME NEW st, StateOK(st), st.mode \in {"visual", "operator"}
  PROVE  Key(st, Newline).buffer = st.buffer /\ Key(st, Newline).history = st.history
<1>1. /\ st \in VimStates /\ st = VimState(st.buffer, st.mode, st.op, st.anchor, st.register, st.history)
      /\ st.op \in {"none", "d", "c", "y"}
  BY StateParts DEF Modal
<1>2. Newline \notin Motions \cup {"v", "d", "c", "y"}
  BY DEF Newline, Motions
<1>3. CASE st.mode = "visual"
  BY <1>2, <1>3 DEF Key, VisualKey
<1>4. CASE st.mode = "operator"
  <2>1. Newline # st.op
    BY <1>1 DEF Newline
  <2>2. Key(st, Newline) = [st EXCEPT !.mode = "normal", !.op = "none"]
    BY <1>2, <1>4, <2>1 DEF Key, OperatorKey
  <2>. QED
    <3>1. [st EXCEPT !.mode = "normal", !.op = "none"]
            = VimState(st.buffer, "normal", "none", st.anchor, st.register, st.history)
      BY <1>1, OperatorSet, Zenon
    <3>. QED
      BY <2>2, <3>1, FieldsAre
<1>. QED
  BY <1>3, <1>4

LEMMA EscapeIs ==
  ASSUME NEW st, StateOK(st)
  PROVE  StateOK(Escape(st)) /\ Escape(st).buffer = st.buffer /\ Escape(st).history = st.history
  BY ToNormalIs DEF Escape

-----------------------------------------------------------------------------
(* The prompt and App.                                                     *)

(* Every entry of the history is the text that its change found, unless the*)
(* change opened a line.                                                   *)
PastOK(p, h) ==
  /\ p \in Seq([text : Text, opened : BOOLEAN])
  /\ Len(p) = Len(h)
  /\ \A k \in DOMAIN p : p[k].opened \/ p[k].text = h[k].value

VimInputInv ==
  /\ TypeOK
  /\ DraftFollows
  /\ PastOK(past, vim.history)

LEMMA TypeIs ==
  TypeOK <=> StateOK(vim) /\ draft \in Text /\ keys \in Nat /\ {dialog, told} \subseteq BOOLEAN
  BY DEF TypeOK, StateOK

LEMMA EmptyPast == PastOK(<<>>, <<>>)
  BY DEF PastOK

(* What is pushed in the prompt is noted in the past.                      *)
LEMMA PastPushed ==
  ASSUME NEW p, NEW h, Undoable(h), PastOK(p, h), NEW b, Valid(b), NEW text \in Text,
         NEW opened \in BOOLEAN, opened \/ text = b.value
  PROVE  LET q == Append(p, [text |-> text, opened |-> opened])
         IN  PastOK(IF Len(q) > HistoryLimit THEN Tail(q) ELSE q, Pushed(h, b))
<1>. DEFINE E == [text : Text, opened : BOOLEAN]
            e == [text |-> text, opened |-> opened]
            q == Append(p, e)
            a == Append(h, b)
            n == Len(h)
<1>1. /\ p \in Seq(E) /\ Len(p) = n /\ e \in E /\ h \in Seq(Buffers) /\ b \in Buffers
      /\ e.text = text /\ e.opened = opened /\ n \in Nat
  BY DEF PastOK, Undoable, Valid
<1>2. DOMAIN p = 1..n /\ \A k \in 1..n : p[k].opened \/ p[k].text = h[k].value
  BY <1>1, LenProperties DEF PastOK
<1>. HIDE DEF E, e, n
<1>3. /\ q \in Seq(E) /\ Len(q) = n + 1 /\ q[n + 1] = e
      /\ a \in Seq(Buffers) /\ Len(a) = n + 1 /\ a[n + 1] = b
      /\ \A k \in 1..n : q[k] = p[k] /\ a[k] = h[k]
  BY <1>1, AppendProperties DEF n
<1>. HIDE DEF q, a
<1>4. DOMAIN q = 1..(n + 1) /\ DOMAIN a = 1..(n + 1)
  BY <1>3, LenProperties
<1>5. \A k \in 1..(n + 1) : q[k].opened \/ q[k].text = a[k].value
  <2>1. \A k \in 1..(n + 1) : k \in 1..n \/ k = n + 1
    BY <1>1
  <2>. QED
    BY <1>1, <1>2, <1>3, <2>1
<1>6. CASE n + 1 > HistoryLimit
  <2>1. q # <<>> /\ a # <<>>
    BY <1>1, <1>3
  <2>2. /\ Tail(q) \in Seq(E) /\ Len(Tail(q)) = n
        /\ \A k \in 1..n : Tail(q)[k] = q[k + 1] /\ Tail(a)[k] = a[k + 1]
        /\ Len(Tail(a)) = n
    BY <1>1, <1>3, <2>1, HeadTailProperties
  <2>3. DOMAIN Tail(q) = 1..n /\ \A k \in 1..n : k + 1 \in 1..(n + 1)
    BY <1>1, <2>2, LenProperties
  <2>4. PastOK(Tail(q), Tail(a))
    BY <1>5, <2>2, <2>3 DEF PastOK, E
  <2>. QED
    BY <1>3, <1>6, <2>4 DEF Pushed, a, q, e
<1>7. CASE ~(n + 1 > HistoryLimit)
  <2>1. PastOK(q, a)
    BY <1>3, <1>4, <1>5 DEF PastOK, E
  <2>. QED
    BY <1>3, <1>7, <2>1 DEF Pushed, a, q, e
<1>. QED
  BY <1>6, <1>7

LEMMA RememberIs ==
  ASSUME NEW st, StateOK(st), NEW new, NEW key, UndoKept(st, new, key), StateOK(new),
         PastOK(past, st.history)
  PROVE  PastOK(Remember(st, new, key), new.history)
<1>1. CASE new.history = st.history
  BY <1>1 DEF Remember
<1>2. CASE new.history # st.history
  <2>1. PICK b : /\ new.history = Pushed(st.history, b) /\ Valid(b)
                 /\ b.value = st.buffer.value \/ key \in {"o", "O"}
    BY <1>2 DEF UndoKept
  <2>. DEFINE text == st.buffer.value
              opened == key \in {"o", "O"}
              q == Append(past, [text |-> text, opened |-> opened])
  <2>2. /\ text \in Text /\ opened \in BOOLEAN /\ (opened \/ text = b.value)
        /\ Undoable(st.history)
    BY <2>1, StateParts, ValidIs
  <2>3. Remember(st, new, key) = IF Len(q) > HistoryLimit THEN Tail(q) ELSE q
    BY <1>2 DEF Remember
  <2>. HIDE DEF text, opened
  <2>4. PastOK(IF Len(q) > HistoryLimit THEN Tail(q) ELSE q, Pushed(st.history, b))
    BY <2>1, <2>2, PastPushed
  <2>. QED
    BY <2>1, <2>3, <2>4
<1>. QED
  BY <1>1, <1>2

(* u in NORMAL.                                                            *)
LEMMA RewindIs ==
  ASSUME NEW st, StateOK(st), st.mode = "normal", PastOK(past, st.history)
  PROVE  /\ PastOK(SubSeq(past, 1, AtLeast(1, Len(past)) - 1), Undo(st).history)
         /\ past # <<>> => \/ Undo(st).buffer.value = past[Len(past)].text
                          \/ past[Len(past)].opened
<1>. DEFINE E == [text : Text, opened : BOOLEAN]
            h == st.history
            n == Len(h)
            p == SubSeq(past, 1, n - 1)
<1>1. /\ Undoable(h) /\ n \in Nat /\ past \in Seq(E) /\ Len(past) = n
      /\ DOMAIN past = 1..n /\ st \in VimStates
      /\ \A k \in 1..n : past[k].opened \/ past[k].text = h[k].value
  BY StateParts, LenProperties DEF Undoable, PastOK
<1>2. CASE n = 0
  <2>1. past = <<>> /\ AtLeast(1, Len(past)) - 1 = 0
    BY <1>1, <1>2 DEF AtLeast
  <2>2. SubSeq(past, 1, 0) = <<>>
    BY <2>1
  <2>3. Undo(st) = st
    BY <1>2 DEF Undo
  <2>. QED
    BY <2>1, <2>2, <2>3
<1>3. CASE n # 0
  <2>. DEFINE g == SubSeq(h, 1, n - 1)
  <2>1. AtLeast(1, Len(past)) - 1 = n - 1 /\ n - 1 \in Nat /\ n \in 1..n
    BY <1>1, <1>3 DEF AtLeast
  <2>2. Len(g) = n - 1 /\ \A k \in 1..(n - 1) : g[k] = h[k]
    BY <1>1, <1>3, PoppedIs
  <2>3. Undo(st).buffer = h[n] /\ Undo(st).history = g
    BY <1>1, <1>3 DEF Undo, VimStates
  <2>4. \A k \in 1..(n - 1) : k \in 1..n /\ past[k] \in E
    <3>1. \A k \in 1..n : past[k] \in E
      BY <1>1, ElementOfSeq
    <3>2. \A k \in 1..(n - 1) : k \in 1..n
      BY <1>1
    <3>. QED
      BY <3>1, <3>2
  <2>. HIDE DEF g, n, E
  <2>5. /\ p \in Seq(E) /\ Len(p) = n - 1
        /\ \A k \in 1..(n - 1) : p[k] = past[k]
    <3>. DEFINE m == n - 1
    <3>1. m \in Nat /\ \A k \in 1..m : past[k] \in E
      BY <2>1, <2>4
    <3>. HIDE DEF m
    <3>2. /\ SubSeq(past, 1, m) \in Seq(E)
          /\ Len(SubSeq(past, 1, m)) = (IF 1 <= m THEN m - 1 + 1 ELSE 0)
          /\ \A k \in 1..m : SubSeq(past, 1, m)[k] = past[1 + k - 1]
      BY <3>1, SubSeqProperties
    <3>3. Len(SubSeq(past, 1, m)) = m /\ \A k \in 1..m : SubSeq(past, 1, m)[k] = past[k]
      BY <3>1, <3>2
    <3>. QED
      BY <3>2, <3>3 DEF m
  <2>. HIDE DEF p
  <2>6. DOMAIN p = 1..(n - 1)
    BY <2>1, <2>5, LenProperties
  <2>7. PastOK(p, g)
    BY <1>1, <2>2, <2>4, <2>5, <2>6 DEF PastOK, E
  <2>8. PastOK(SubSeq(past, 1, AtLeast(1, Len(past)) - 1), Undo(st).history)
    BY <2>1, <2>3, <2>7 DEF p
  <2>9. Undo(st).buffer.value = past[Len(past)].text \/ past[Len(past)].opened
    BY <1>1, <2>1, <2>3
  <2>. QED
    BY <2>8, <2>9
<1>. QED
  BY <1>2, <1>3

-----------------------------------------------------------------------------
(* The steps.                                                              *)

LEMMA StrokeKeeps ==
  ASSUME VimInputInv, NEW key, vim.mode = "insert" => key \in Typed, Stroke(key)
  PROVE  VimInputInv'
<1>1. /\ StateOK(vim) /\ draft \in Text /\ keys \in Nat /\ {dialog, told} \subseteq BOOLEAN
      /\ (told => draft = vim.buffer.value) /\ PastOK(past, vim.history)
  BY TypeIs DEF VimInputInv, DraftFollows
<1>2. /\ vim' = Key(vim, key) /\ keys' = keys + 1 /\ UNCHANGED dialog
      /\ IF vim'.buffer.value # vim.buffer.value
         THEN draft' = vim'.buffer.value /\ told' = TRUE
         ELSE UNCHANGED <<draft, told>>
      /\ past' = IF vim.mode = "normal" /\ key = "u"
                 THEN SubSeq(past, 1, AtLeast(1, Len(past)) - 1)
                 ELSE Remember(vim, vim', key)
  BY DEF Stroke, Pressed
<1>3. key \in Typed => key \in Chars
  BY VimInputAssumption
<1>4. /\ StateOK(vim')
      /\ ~(vim.mode = "normal" /\ key = "u") => UndoKept(vim, vim', key)
      /\ vim.mode = "normal" /\ key = "u" => vim' = Undo(vim)
  BY <1>1, <1>2, <1>3, KeyIs
<1>5. vim'.buffer.value \in Text
  BY <1>4, StateParts, ValidIs
<1>6. draft' \in Text /\ keys' \in Nat /\ told' \in BOOLEAN /\ dialog' \in BOOLEAN
  <2>1. draft' \in Text
    BY <1>1, <1>2, <1>5
  <2>2. told' \in BOOLEAN /\ dialog' \in BOOLEAN
    BY <1>1, <1>2
  <2>3. keys' \in Nat
    BY <1>1, <1>2
  <2>. QED
    BY <2>1, <2>2, <2>3
<1>7. told' => draft' = vim'.buffer.value
  BY <1>1, <1>2
<1>8. PastOK(past', vim'.history)
  <2>1. CASE vim.mode = "normal" /\ key = "u"
    BY <1>1, <1>2, <1>4, <2>1, RewindIs
  <2>2. CASE ~(vim.mode = "normal" /\ key = "u")
    BY <1>1, <1>2, <1>4, <2>2, RememberIs
  <2>. QED
    BY <2>1, <2>2
<1>9. TypeOK'
  BY <1>4, <1>6, TypeIs DEF TypeOK, StateOK
<1>. QED
  BY <1>7, <1>8, <1>9 DEF VimInputInv, DraftFollows

LEMMA DraftsAreText ==
  ASSUME draft \in Text
  PROVE  /\ <<>> \in Text
         /\ \A name \in Commands, hint \in {<<>>, <<" ">>} : <<Slash>> \o name \o hint \in Text
         /\ ApplyMention(draft, Path) \in Text /\ DropMention(draft) \in Text
         /\ \A space \in {<<>>, <<" ">>} : draft \o space \o <<At>> \o Path \o <<" ">> \in Text
<1>1. \A v, w \in Text : v \o w \in Text
  BY ConcatProperties DEF Text
<1>2. /\ <<>> \in Text /\ <<Slash>> \in Text /\ <<At>> \in Text /\ <<" ">> \in Text
      /\ Path \in Text /\ Commands \subseteq Text
  <2>1. Slash \in Chars /\ At \in Chars /\ " " \in Chars
    BY CharsAssumption DEF Chars
  <2>2. <<>> \in Text
    BY EmptySeq DEF Text
  <2>. QED
    BY <2>1, <2>2, OneCharacter, CharsAssumption, VimInputAssumption
<1>3. MentionStart(draft) \in Nat
  <2>1. Len(draft) \in Nat
    BY DEF Text
  <2>2. RunStart(draft, Len(draft), TokenChars) \in 0..Len(draft)
    BY <2>1, RunStartIs
  <2>. QED
    BY <2>1, <2>2 DEF MentionStart
<1>4. Slice(draft, 0, MentionStart(draft)) \in Text
  BY <1>3, SliceIsText
<1>. QED
  BY <1>1, <1>2, <1>4 DEF ApplyMention, DropMention

(* App's own changes of the draft.                                         *)
LEMMA RedraftKeeps ==
  ASSUME VimInputInv, NEW text \in Text, Redraft(text)
  PROVE  VimInputInv'
<1>1. StateOK(vim) /\ draft \in Text /\ keys \in Nat /\ {dialog, told} \subseteq BOOLEAN
  BY TypeIs DEF VimInputInv
<1>2. TypeOK'
  BY <1>1, TypeIs DEF Redraft, Pressed, TypeOK, StateOK
<1>3. DraftFollows'
  BY DEF Redraft, VimInputInv, DraftFollows
<1>. QED
  BY <1>2, <1>3 DEF VimInputInv, Redraft

(* A step that leaves the history and the past alone, or empties both.     *)
LEMMA OtherKeeps ==
  ASSUME VimInputInv, StateOK(vim)', draft' \in Text, {dialog', told'} \subseteq BOOLEAN,
         keys' = keys + 1, told' => draft' = vim'.buffer.value,
         \/ vim'.history = vim.history /\ past' = past
         \/ vim'.history = <<>> /\ past' = <<>>
  PROVE  VimInputInv'
<1>1. keys' \in Nat
  BY TypeIs DEF VimInputInv
<1>2. PastOK(past', vim'.history)
  BY EmptyPast DEF VimInputInv
<1>3. TypeOK'
  BY <1>1 DEF TypeOK, StateOK
<1>. QED
  BY <1>2, <1>3 DEF VimInputInv, DraftFollows

LEMMA KeysKeep ==
  ASSUME VimInputInv, EscapePressed \/ Submitted \/ ReturnPressed \/ BackspacePressed
  PROVE  VimInputInv'
<1>1. /\ StateOK(vim) /\ draft \in Text /\ {dialog, told} \subseteq BOOLEAN
      /\ told => draft = vim.buffer.value
  BY TypeIs DEF VimInputInv, DraftFollows
<1>2. Valid(vim.buffer) /\ Len(vim.buffer.value) \in Nat
      /\ vim.mode \in {"insert", "normal", "visual", "operator"}
  BY <1>1, StateIs, ValidIs
<1>3. CASE EscapePressed
  <2>1. StateOK(vim') /\ vim'.buffer = vim.buffer /\ vim'.history = vim.history
    BY <1>1, <1>3, EscapeIs DEF EscapePressed
  <2>2. StateOK(vim)'
    BY <2>1 DEF StateOK
  <2>. QED
    BY <1>1, <1>3, <2>1, <2>2, OtherKeeps DEF EscapePressed, Pressed
<1>4. CASE Submitted
  <2>1. Valid(Buffer(<<>>, 0)) /\ <<>> \in Text
    BY EmptyBuffer
  <2>2. StateOK(vim') /\ vim'.buffer.value = <<>> /\ vim'.history = <<>>
    BY <1>4, <2>1, NewIs DEF Submitted, NewVimState, Buffer
  <2>. QED
    BY <1>1, <1>4, <2>1, <2>2, OtherKeeps DEF Submitted, Pressed, StateOK
<1>5. CASE ReturnPressed
  <2>1. Newline \in Chars
    BY CharsAssumption DEF Chars
  <2>2. StateOK(vim') /\ (vim.mode = "insert" => vim'.history = vim.history)
    BY <1>1, <1>5, <2>1, KeyIs DEF ReturnPressed
  <2>3. vim.mode # "insert" => vim'.buffer = vim.buffer /\ vim'.history = vim.history
    BY <1>1, <1>2, <1>5, ReturnIs DEF ReturnPressed
  <2>4. /\ told' = (told /\ vim.mode # "insert") /\ keys' = keys + 1
        /\ UNCHANGED <<draft, dialog, past>>
    BY <1>5 DEF ReturnPressed, Pressed
  <2>5. vim'.history = vim.history /\ (told' => draft' = vim'.buffer.value) /\ told' \in BOOLEAN
    BY <1>1, <2>2, <2>3, <2>4
  <2>. QED
    BY <1>1, <2>2, <2>4, <2>5, OtherKeeps DEF StateOK
<1>6. CASE BackspacePressed
  <2>1. Valid(Backspace(vim.buffer)) /\ vim' = [vim EXCEPT !.buffer = Backspace(vim.buffer)]
    BY <1>2, <1>6, DeletesAre DEF BackspacePressed
  <2>2. StateOK(vim') /\ vim'.history = vim.history /\ vim'.buffer = Backspace(vim.buffer)
    BY <1>1, <1>6, <2>1, EditedIs DEF BackspacePressed
  <2>3. /\ told' = (told /\ vim.buffer.cursor = 0) /\ keys' = keys + 1
        /\ UNCHANGED <<draft, dialog, past>>
    BY <1>6 DEF BackspacePressed, Pressed
  <2>4. (told' => draft' = vim'.buffer.value) /\ told' \in BOOLEAN
    BY <1>1, <2>2, <2>3 DEF Backspace
  <2>. QED
    BY <1>1, <2>2, <2>3, <2>4, OtherKeeps DEF StateOK
<1>. QED
  BY <1>3, <1>4, <1>5, <1>6

LEMMA AppKeeps ==
  ASSUME VimInputInv, 
         \/ CommandCompleted \/ MentionCompleted \/ MentionDropped \/ DraftCleared
         \/ PathInserted \/ DialogToggled \/ Remounted
  PROVE  VimInputInv'
<1>1. /\ StateOK(vim) /\ draft \in Text /\ {dialog, told} \subseteq BOOLEAN
      /\ told => draft = vim.buffer.value
  BY TypeIs DEF VimInputInv, DraftFollows
<1>2. CASE CommandCompleted \/ MentionCompleted \/ MentionDropped \/ DraftCleared \/ PathInserted
  <2>1. \E text \in Text : Redraft(text)
    BY <1>1, <1>2, DraftsAreText
       DEF CommandCompleted, MentionCompleted, MentionDropped, DraftCleared, PathInserted
  <2>. QED
    BY <2>1, RedraftKeeps
<1>3. CASE DialogToggled
  <2>1. StateOK(vim)'
    BY <1>1, <1>3 DEF DialogToggled, StateOK
  <2>. QED
    BY <1>1, <1>3, <2>1, OtherKeeps DEF DialogToggled, Pressed
<1>4. CASE Remounted
  <2>1. PICK text \in {draft} \cup {<<ch>> : ch \in Typed} :
          draft' = text /\ vim' = NewVimState(Buffer(text, Len(text)))
    BY <1>4 DEF Remounted
  <2>2. text \in Text
    BY <1>1, OneCharacter, VimInputAssumption
  <2>3. Len(text) \in 0..Len(text)
    BY <2>2 DEF Text
  <2>4. Valid(Buffer(text, Len(text)))
    BY <2>2, <2>3, ValidIs
  <2>5. StateOK(vim') /\ vim'.buffer.value = text /\ vim'.history = <<>>
    BY <2>1, <2>4, NewIs DEF NewVimState, Buffer
  <2>. QED
    BY <1>1, <1>4, <2>1, <2>2, <2>5, OtherKeeps DEF Remounted, Pressed, StateOK
<1>. QED
  BY <1>2, <1>3, <1>4

LEMMA VimNext ==
  ASSUME VimInputInv, [Next]_vars
  PROVE  VimInputInv'
<1>1. CASE UNCHANGED vars
  BY <1>1 DEF vars, VimInputInv, TypeOK, DraftFollows, PastOK, MentionOverlay
<1>2. CASE Next
  BY <1>2, StrokeKeeps, KeysKeep, AppKeeps DEF Next
<1>. QED
  BY <1>1, <1>2

LEMMA VimInit ==
  ASSUME Init
  PROVE  VimInputInv
<1>1. Valid(Buffer(<<>>, 0)) /\ <<>> \in Text
  BY EmptyBuffer
<1>2. StateOK(vim) /\ vim.buffer.value = <<>> /\ vim.history = <<>>
  BY <1>1, NewIs DEF Init, NewVimState, Buffer
<1>3. TypeOK
  BY <1>1, <1>2, TypeIs DEF Init
<1>. QED
  BY <1>2, <1>3, EmptyPast DEF Init, VimInputInv, DraftFollows

(* Every key in every mode, and everything that App does to the draft,     *)
(* keep what the prompt, the undo stack and the draft owe each other.      *)
THEOREM VimInputInvHolds == Spec => []VimInputInv
<1>1. Init => VimInputInv
  BY VimInit
<1>2. VimInputInv /\ [Next]_vars => VimInputInv'
  BY VimNext
<1>. QED
  BY <1>1, <1>2, PTL DEF Spec

(* reduceVim never puts the cursor, the anchor or the cursor of a text to  *)
(* undo outside of its text, keeps at most HistoryLimit of them, and leaves*)
(* no selection and no operator behind.                                    *)
THEOREM PromptIsSound == Spec => []TypeOK
<1>1. VimInputInv => TypeOK
  BY DEF VimInputInv
<1>. QED
  BY <1>1, VimInputInvHolds, PTL

(* useVimInput tells App of every change of the text that a character      *)
(* makes, so that the draft is the text until Enter or Backspace edits it. *)
THEOREM DraftFollowsPrompt == Spec => []DraftFollows
<1>1. VimInputInv => DraftFollows
  BY DEF VimInputInv
<1>. QED
  BY <1>1, VimInputInvHolds, PTL

(* u brings back the text that the latest change that can be undone found, *)
(* unless the change opened a line, whatever came in between and however   *)
(* many changes the stack has forgotten.                                   *)
THEOREM UndoBringsBack == Spec => UndoRewinds
<1>. DEFINE A == vim.mode = "normal" /\ Stroke("u") /\ past # <<>> =>
                   \/ vim'.buffer.value = past[Len(past)].text
                   \/ past[Len(past)].opened
<1>1. ASSUME VimInputInv, [Next]_vars PROVE A
  <2>1. SUFFICES ASSUME vim.mode = "normal", Stroke("u"), past # <<>>
                 PROVE  \/ vim'.buffer.value = past[Len(past)].text
                        \/ past[Len(past)].opened
    OBVIOUS
  <2>2. StateOK(vim) /\ PastOK(past, vim.history)
    BY <1>1, TypeIs DEF VimInputInv
  <2>3. vim' = Undo(vim)
    BY <2>1, <2>2, KeyIs DEF Stroke
  <2>. QED
    BY <2>1, <2>2, <2>3, RewindIs
<1>. QED
  BY <1>1, VimInputInvHolds, PTL DEF Spec, UndoRewinds

=============================================================================

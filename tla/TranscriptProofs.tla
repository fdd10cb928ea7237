--------------------------- MODULE TranscriptProofs ---------------------------
(***************************************************************************)
(* Theorems about the transcript, for every number of turns, rounds,       *)
(* tokens, commands and frames in the pipe: whose text a bubble shows,     *)
(* what happens to a row that is finished, that nothing spins for a turn   *)
(* that is over, and that the active turn is told as it was emitted, with  *)
(* nothing lost, doubled or put in another order.                          *)
(*                                                                         *)
(* The argument is about what the pipe still holds: the frames of a turn   *)
(* come before those of the next, a delta has a frame behind it that       *)
(* flushes the throttle, a call has one that closes its row, unless the    *)
(* turn raised, and nothing follows the response.  The story of the active *)
(* turn is then carried from the pipe over the throttle to the rows: each  *)
(* step moves the first of what is behind to the end of what is before.    *)
(***************************************************************************)
EXTENDS Transcript, FiniteSetTheorems, SequenceTheorems, TLAPS

Tokens == Turns \X Nat
Rounds == {"stream", "tools", "stops"}    \* the phases in which the loop runs
Frames ==
  [kind : {"content_delta", "tool_call", "tool_result", "message_done", "loop_stopped"} \cup Answers,
   turn : Turns, n : Nat, id : Nat]

Sequence(s) == s \in Seq({s[k] : k \in DOMAIN s})

RowOK(row) ==
  /\ row \in [kind : {"assistant", "tool"}, turn : Turns, text : {row.text},
              status : {"streaming", "done", "running", "ok", "error"}, id : Nat]
  /\ row.kind = "assistant" <=> row.status \in {"streaming", "done"}
  /\ Open(row) => row.text \in Seq(Tokens)

RowsOK(is) == Sequence(is) /\ \A k \in DOMAIN is : RowOK(is[k])

TypesOK ==
  /\ RowsOK(items)
  /\ activeTurn \in {0} \cup Turns /\ lastDelta \in {0} \cup Turns
  /\ pending \in Seq(Tokens)
  /\ {begun, queued, timers} \subseteq Nat /\ begun + queued + timers <= MaxTurns
  /\ continuations \subseteq Turns
  /\ toServer \in Seq(Turns) /\ toClient \in Seq(Frames)
  /\ slot \in {0} \cup Turns /\ (slot = 0 <=> phase = "idle")
  /\ phase \in Rounds \cup {"idle", "completed", "stopped", "answered"}
  /\ round \in Nat /\ calls \in Seq(Nat)
  /\ emitted \in [Turns -> Seq([kind : {"text", "call"}, round : Nat])]
  /\ outcome \in [Turns -> [kind : Answers \cup {"none"}, turn : Turns, n : Nat, id : Nat]]

(* The turns that the gateway has not read.                                *)
Fresh(t) == t > begun \/ \E j \in DOMAIN toServer : toServer[j] = t

Tools == {k \in DOMAIN items : items[k].kind = "tool"}

(* The gateway reads the turns in their order, and knows nothing of one    *)
(* before.                                                                 *)
TurnsInTurn ==
  /\ \A i, j \in DOMAIN toServer : i < j => toServer[i] < toServer[j]
  /\ \A j \in DOMAIN toServer : toServer[j] <= begun
  /\ \A t \in Turns : Fresh(t) =>
       /\ slot < t /\ lastDelta < t
       /\ \A i \in DOMAIN toClient : toClient[i].turn < t
       /\ \A k \in Tools : items[k].turn < t
       /\ outcome[t].kind = "none"

(* What a turn writes comes before what the next one does.  A refusal may  *)
(* come at any time.                                                       *)
Ofloop == {i \in DOMAIN toClient : toClient[i].kind # "refused"}

FramesInOrder ==
  /\ \A i, j \in Ofloop : i < j => toClient[i].turn <= toClient[j].turn
  /\ \A i \in Ofloop :
       /\ lastDelta <= toClient[i].turn
       /\ \A k \in Tools : items[k].turn <= toClient[i].turn
       /\ slot # 0 => toClient[i].turn <= slot
  /\ slot # 0 => lastDelta <= slot /\ \A k \in Tools : items[k].turn <= slot

(* A turn is answered once, and last.  What is stopped gives no results.   *)
AnsweredLast ==
  /\ \A i \in DOMAIN toClient :
       /\ outcome[toClient[i].turn].kind = "none"
       /\ toClient[i].kind \in Answers =>
            /\ \A j \in DOMAIN toClient : i < j => toClient[j].turn # toClient[i].turn
            /\ slot = toClient[i].turn => phase = "answered"
       /\ toClient[i].kind = "loop_stopped" =>
            /\ \A j \in DOMAIN toClient :
                 i < j /\ toClient[j].turn = toClient[i].turn => toClient[j].kind \in Answers
            /\ slot = toClient[i].turn => phase \in {"stopped", "answered"}
  /\ slot # 0 /\ phase # "answered" => outcome[slot].kind = "none"
  /\ \A t \in continuations : outcome[t].kind \in Answers

Raised(t) == outcome[t].kind = "raised"

(* Behind position i of the pipe there is a frame of turn t of these kinds.*)
Behind(t, i, kinds) ==
  \E j \in DOMAIN toClient : i < j /\ toClient[j].turn = t /\ toClient[j].kind \in kinds

(* The text of turn t at position i will be flushed, or the turn raises.   *)
FlushAhead(t, i) ==
  \/ slot = t /\ phase \in Rounds
  \/ Behind(t, i, {"message_done", "loop_stopped", "raised"})
  \/ Raised(t)

TextFlushed ==
  /\ \A j \in DOMAIN pending : FlushAhead(pending[j][1], 0)
  /\ \A i \in DOMAIN toClient :
       toClient[i].kind = "content_delta" => FlushAhead(toClient[i].turn, i)

(* The throttle flushes to the turn of the last delta.                     *)
PendingOfLast == \A j \in DOMAIN pending : pending[j][1] = lastDelta \/ Raised(pending[j][1])

(* Text of another turn is of one that raised.                             *)
TextsOwn(is) ==
  \A k \in DOMAIN is : \A j \in DOMAIN is[k].text :
    LET t == is[k].text[j][1]
    IN t = is[k].turn \/ (t \in Turns /\ Raised(t))

(* The call at position i will be closed, or the turn raises.              *)
ResultAhead(t, id, i) ==
  \/ slot = t /\ phase \in {"stream", "tools"} /\ \E c \in DOMAIN calls : calls[c] = id
  \/ \E j \in DOMAIN toClient : i < j /\ toClient[j] = Result(t, id)
  \/ Behind(t, i, {"loop_stopped", "raised"})
  \/ Raised(t)

ToolsClosed ==
  /\ \A k \in DOMAIN items : items[k].status = "running" =>
       ResultAhead(items[k].turn, items[k].id, 0)
  /\ \A i \in DOMAIN toClient : toClient[i].kind = "tool_call" =>
       ResultAhead(toClient[i].turn, toClient[i].id, i)

(* A tool is cancelled with its turn, which gives it no result.            *)
Quiet(t) ==
  /\ \A i \in DOMAIN toClient : toClient[i].turn = t => toClient[i].kind # "tool_result"
  /\ slot = t => phase \in {"stopped", "answered"}

CancelledTools == \A k \in DOMAIN items : items[k].status = "error" => Quiet(items[k].turn)

(* The active turn is not over, nor is that of an open bubble.             *)
OpenBubbles ==
  /\ activeTurn # 0 => ~Settled(activeTurn) /\ activeTurn <= begun
  /\ \A k \in DOMAIN items : items[k].status = "streaming" => ~Settled(items[k].turn)

TranscriptInv ==
  /\ TypesOK
  /\ TurnsInTurn /\ FramesInOrder /\ AnsweredLast
  /\ TextFlushed /\ PendingOfLast /\ TextsOwn(items)
  /\ ToolsClosed /\ CancelledTools /\ OpenBubbles

-----------------------------------------------------------------------------
(* Sequences.                                                              *)

LEMMA AppendIs ==
  ASSUME NEW S, NEW s \in Seq(S), NEW x \in S
  PROVE  /\ Append(s, x) \in Seq(S)
         /\ Len(s) \in Nat /\ DOMAIN s = 1..Len(s)
         /\ DOMAIN Append(s, x) = 1..(Len(s) + 1)
         /\ \A i \in DOMAIN s : Append(s, x)[i] = s[i]
         /\ Append(s, x)[Len(s) + 1] = x
OBVIOUS

LEMMA TailIs ==
  ASSUME NEW S, NEW s \in Seq(S), s # <<>>
  PROVE  /\ Tail(s) \in Seq(S) /\ Head(s) \in S
         /\ Len(s) \in Nat /\ DOMAIN s = 1..Len(s)
         /\ 1 \in DOMAIN s /\ Head(s) = s[1]
         /\ DOMAIN Tail(s) = 1..(Len(s) - 1)
         /\ \A i \in DOMAIN Tail(s) : i + 1 \in DOMAIN s /\ Tail(s)[i] = s[i + 1]
OBVIOUS

LEMMA FunctionIsSequence ==
  ASSUME NEW n \in Nat, NEW s, DOMAIN s = 1..n, s = [k \in DOMAIN s |-> s[k]]
  PROVE  Sequence(s) /\ Len(s) = n
<1>. DEFINE S == {s[k] : k \in DOMAIN s}
<1>1. s \in [1..n -> S]
  OBVIOUS
<1>2. s \in Seq(S)
  BY <1>1, SeqDef
<1>3. DOMAIN s = 1..Len(s) /\ Len(s) \in Nat
  BY <1>2, LenProperties
<1>. QED
  BY <1>2, <1>3 DEF Sequence

LEMMA SequenceIs ==
  ASSUME NEW s, Sequence(s)
  PROVE  /\ Len(s) \in Nat /\ DOMAIN s = 1..Len(s)
         /\ s = [k \in DOMAIN s |-> s[k]]
<1>. DEFINE S == {s[k] : k \in DOMAIN s}
<1>1. s \in Seq(S)
  BY DEF Sequence
<1>2. Len(s) \in Nat /\ DOMAIN s = 1..Len(s) /\ s \in [1..Len(s) -> S]
  BY <1>1, LenProperties
<1>. QED
  BY <1>2

LEMMA SequenceAppended ==
  ASSUME NEW s, Sequence(s), NEW x
  PROVE  /\ Sequence(Append(s, x))
         /\ Len(s) \in Nat /\ DOMAIN s = 1..Len(s)
         /\ DOMAIN Append(s, x) = 1..(Len(s) + 1)
         /\ \A i \in DOMAIN s : Append(s, x)[i] = s[i]
         /\ Append(s, x)[Len(s) + 1] = x
<1>. DEFINE S == {s[k] : k \in DOMAIN s} \cup {x}
            a == Append(s, x)
<1>1. s \in Seq({s[k] : k \in DOMAIN s}) /\ {s[k] : k \in DOMAIN s} \subseteq S /\ x \in S
  BY DEF Sequence
<1>2. s \in Seq(S)
  BY <1>1, SeqMonotonic
<1>3. /\ a \in Seq(S)
      /\ Len(s) \in Nat /\ DOMAIN s = 1..Len(s)
      /\ DOMAIN a = 1..(Len(s) + 1)
      /\ \A i \in DOMAIN s : a[i] = s[i]
      /\ a[Len(s) + 1] = x
  BY <1>1, <1>2, AppendIs
<1>4. a \in [1..Len(a) -> S] /\ DOMAIN a = 1..Len(a)
  BY <1>3, LenProperties
<1>5. Len(s) + 1 \in Nat
  BY <1>3
<1>. HIDE DEF a, S
<1>6. a = [k \in DOMAIN a |-> a[k]]
  BY <1>4
<1>7. Sequence(a)
  BY <1>3, <1>5, <1>6, FunctionIsSequence
<1>. QED
  BY <1>3, <1>7 DEF a

-----------------------------------------------------------------------------
(* The rows, and what the reducer makes of them.                           *)

LEMMA LargestPosition ==
  ASSUME NEW n \in Nat, NEW P \in SUBSET (1..n), P # {}
  PROVE  \E k \in P : \A j \in P : j <= k
<1>. DEFINE B == {i \in 1..n : \E j \in P : i <= j}
            m == Cardinality(B)
<1>1. IsFiniteSet(1..n) /\ B \in SUBSET (1..n)
  BY FS_Interval
<1>2. IsFiniteSet(B) /\ m \in Nat
  BY <1>1, FS_Subset, FS_CardinalityType
<1>3. \A i \in B : \A j \in 1..i : j \in B
  OBVIOUS
<1>4. ASSUME NEW i \in B PROVE i <= m
  <2>1. 1..i \in SUBSET B /\ i \in Nat
    BY <1>3, <1>4
  <2>2. Cardinality(1..i) = i
    BY <2>1, FS_Interval
  <2>. QED
    BY <1>2, <2>1, <2>2, FS_Subset
<1>5. B \in SUBSET (1..m)
  BY <1>2, <1>4
<1>6. IsFiniteSet(1..m) /\ Cardinality(1..m) = m
  BY <1>2, FS_Interval
<1>7. B = 1..m
  BY <1>5, <1>6, FS_Subset
<1>8. \A j \in P : j \in B
  OBVIOUS
<1>. HIDE DEF m
<1>9. 1 <= m
  <2>1. PICK j \in P : TRUE
    OBVIOUS
  <2>2. j \in B /\ j \in Nat /\ 1 <= j
    BY <1>8
  <2>3. j <= m
    BY <1>4, <2>2
  <2>. QED
    BY <1>2, <2>2, <2>3
<1>10. m \in B
  BY <1>2, <1>7, <1>9
<1>11. PICK k \in P : m <= k
  BY <1>10
<1>12. \A j \in P : j \in Nat /\ k \in Nat /\ j <= m
  BY <1>4, <1>8
<1>13. \A j \in P : j <= k
  BY <1>2, <1>11, <1>12
<1>. QED
  BY <1>13

LEMMA LatestIs ==
  ASSUME NEW is, RowsOK(is), NEW t
  PROVE  LET k == Latest(is, t)
         IN  k = 0 \/ (k \in DOMAIN is /\ k > 0 /\ is[k].turn = t)
<1>. DEFINE rows == {k \in DOMAIN is : is[k].turn = t}
<1>1. Len(is) \in Nat /\ DOMAIN is = 1..Len(is)
  BY SequenceIs DEF RowsOK
<1>2. CASE rows = {}
  BY <1>2 DEF Latest
<1>3. CASE rows # {}
  <2>1. rows \in SUBSET (1..Len(is))
    BY <1>1
  <2>2. \E k \in rows : \A j \in rows : j <= k
    BY <1>1, <1>3, <2>1, LargestPosition
  <2>. DEFINE k == CHOOSE k \in rows : \A j \in rows : j <= k
  <2>3. k \in rows
    BY <2>2
  <2>4. Latest(is, t) = k
    BY <1>3 DEF Latest
  <2>. QED
    BY <1>1, <2>3, <2>4
<1>. QED
  BY <1>2, <1>3

LEMMA NewRows ==
  ASSUME NEW t \in Turns
  PROVE  /\ \A text \in Seq(Tokens) : RowOK(Bubble(t, text, "streaming"))
         /\ \A text : RowOK(Bubble(t, text, "done"))
         /\ \A n, id \in Nat : RowOK(ToolRow(t, n, id))
  BY DEF Bubble, ToolRow, RowOK, Open, Tokens

(* Text goes to one open bubble of its turn, or to a new one if the turn is*)
(* the active one.                                                         *)
Extended(row, text) == [row EXCEPT !.text = row.text \o text]

LEMMA AppendDeltaIs ==
  ASSUME NEW is, RowsOK(is), NEW a, NEW t \in Turns, NEW text \in Seq(Tokens)
  PROVE  LET js == AppendDelta(is, a, t, text)
         IN  /\ RowsOK(js)
             /\ \A k \in DOMAIN is :
                  /\ k \in DOMAIN js
                  /\ \/ js[k] = is[k]
                     \/ /\ is[k].status = "streaming" /\ is[k].turn = t
                        /\ js[k] = Extended(is[k], text)
             /\ \A k \in DOMAIN js :
                  k \in DOMAIN is \/ (a = t /\ js[k] = Bubble(t, text, "streaming"))
<1>. DEFINE k0 == Latest(is, t)
            js == AppendDelta(is, a, t, text)
            b == Bubble(t, text, "streaming")
<1>1. /\ Len(is) \in Nat /\ DOMAIN is = 1..Len(is) /\ is = [k \in DOMAIN is |-> is[k]]
      /\ \A k \in DOMAIN is : RowOK(is[k])
  BY SequenceIs DEF RowsOK
<1>2. k0 = 0 \/ (k0 \in DOMAIN is /\ k0 > 0 /\ is[k0].turn = t)
  BY LatestIs
<1>3. CASE k0 > 0 /\ is[k0].kind = "assistant" /\ is[k0].status = "streaming"
  <2>1. js = [is EXCEPT ![k0] = Extended(is[k0], text)]
    BY <1>3, <1>1, <1>2 DEF AppendDelta, Extended
  <2>2. k0 \in DOMAIN is /\ is[k0].turn = t
    BY <1>2, <1>3
  <2>3. RowOK(Extended(is[k0], text))
    <3>1. is[k0].text \in Seq(Tokens) /\ is[k0].text \o text \in Seq(Tokens)
      BY <1>1, <1>3, <2>2, ConcatProperties DEF RowOK, Open
    <3>2. RowOK(is[k0])
      BY <1>1, <2>2
    <3>. QED
      BY <1>3, <3>1, <3>2 DEF RowOK, Extended, Open
  <2>4. /\ DOMAIN js = 1..Len(is) /\ js = [k \in DOMAIN js |-> js[k]]
        /\ \A k \in DOMAIN is : js[k] = IF k = k0 THEN Extended(is[k0], text) ELSE is[k]
    BY <1>1, <2>1, <2>2
  <2>5. Sequence(js)
    BY <1>1, <2>4, FunctionIsSequence
  <2>6. RowsOK(js)
    BY <1>1, <2>3, <2>4, <2>5 DEF RowsOK
  <2>. QED
    BY <1>1, <1>3, <2>2, <2>4, <2>6
<1>4. CASE js = is
  BY <1>4
<1>5. CASE js = Append(is, b) /\ a = t
  <2>1. /\ Sequence(js) /\ DOMAIN js = 1..(Len(is) + 1)
        /\ \A i \in DOMAIN is : js[i] = is[i]
        /\ js[Len(is) + 1] = b
    BY <1>5, SequenceAppended DEF RowsOK
  <2>2. RowOK(b)
    BY NewRows
  <2>3. \A k \in DOMAIN js : k \in DOMAIN is \/ k = Len(is) + 1
    BY <1>1, <2>1
  <2>4. RowsOK(js)
    BY <1>1, <2>1, <2>2, <2>3 DEF RowsOK
  <2>5. \A k \in DOMAIN is : k \in DOMAIN js
    BY <1>1, <2>1
  <2>. QED
    BY <1>5, <2>1, <2>3, <2>4, <2>5
<1>. QED
  BY <1>1, <1>3, <1>4, <1>5 DEF AppendDelta

LEMMA CloseToolCallIs ==
  ASSUME NEW is, RowsOK(is), NEW t, NEW id
  PROVE  LET js == CloseToolCall(is, t, id)
         IN  /\ RowsOK(js) /\ DOMAIN js = DOMAIN is
             /\ \A k \in DOMAIN is :
                  IF is[k].kind = "tool" /\ is[k].turn = t /\ is[k].id = id
                  THEN js[k] = [is[k] EXCEPT !.status = "ok"]
                  ELSE js[k] = is[k]
<1>. DEFINE js == CloseToolCall(is, t, id)
<1>1. /\ Len(is) \in Nat /\ DOMAIN is = 1..Len(is)
      /\ \A k \in DOMAIN is : RowOK(is[k])
  BY SequenceIs DEF RowsOK
<1>2. /\ DOMAIN js = DOMAIN is /\ js = [k \in DOMAIN js |-> js[k]]
      /\ \A k \in DOMAIN is :
           IF is[k].kind = "tool" /\ is[k].turn = t /\ is[k].id = id
           THEN js[k] = [is[k] EXCEPT !.status = "ok"]
           ELSE js[k] = is[k]
  BY DEF CloseToolCall
<1>3. Sequence(js)
  BY <1>1, <1>2, FunctionIsSequence
<1>4. \A k \in DOMAIN js : RowOK(js[k])
  BY <1>1, <1>2 DEF RowOK, Open
<1>. QED
  BY <1>2, <1>3, <1>4 DEF RowsOK

LEMMA LoopStoppedIs ==
  ASSUME NEW is, RowsOK(is)
  PROVE  LET js == LoopStopped(is)
         IN  /\ RowsOK(js) /\ DOMAIN js = DOMAIN is
             /\ \A k \in DOMAIN is :
                  IF is[k].kind = "tool" /\ is[k].status = "running"
                  THEN js[k] = [is[k] EXCEPT !.status = "error"]
                  ELSE js[k] = is[k]
<1>. DEFINE js == LoopStopped(is)
<1>1. /\ Len(is) \in Nat /\ DOMAIN is = 1..Len(is)
      /\ \A k \in DOMAIN is : RowOK(is[k])
  BY SequenceIs DEF RowsOK
<1>2. /\ DOMAIN js = DOMAIN is /\ js = [k \in DOMAIN js |-> js[k]]
      /\ \A k \in DOMAIN is :
           IF is[k].kind = "tool" /\ is[k].status = "running"
           THEN js[k] = [is[k] EXCEPT !.status = "error"]
           ELSE js[k] = is[k]
  BY DEF LoopStopped
<1>3. Sequence(js)
  BY <1>1, <1>2, FunctionIsSequence
<1>4. \A k \in DOMAIN js : RowOK(js[k])
  <2>. HIDE DEF js
  <2>. TAKE k \in DOMAIN js
  <2>1. RowOK(is[k]) /\ k \in DOMAIN is
    BY <1>1, <1>2
  <2>2. CASE is[k].kind = "tool" /\ is[k].status = "running"
    <3>1. js[k] = [is[k] EXCEPT !.status = "error"]
      BY <1>2, <2>1, <2>2
    <3>2. RowOK([is[k] EXCEPT !.status = "error"])
      BY <2>1, <2>2 DEF RowOK, Open
    <3>. QED
      BY <3>1, <3>2
  <2>3. CASE ~(is[k].kind = "tool" /\ is[k].status = "running")
    BY <1>2, <2>1, <2>3
  <2>. QED
    BY <2>2, <2>3
<1>. QED
  BY <1>2, <1>3, <1>4 DEF RowsOK

LEMMA FinalizeTurnIs ==
  ASSUME NEW is, RowsOK(is), NEW t \in Turns, NEW final
  PROVE  LET js == FinalizeTurn(is, t, final)
         IN  /\ RowsOK(js)
             /\ \A k \in DOMAIN is :
                  /\ k \in DOMAIN js
                  /\ IF is[k].kind = "assistant" /\ is[k].turn = t
                     THEN js[k] = [is[k] EXCEPT !.status = "done"]
                     ELSE js[k] = is[k]
             /\ \A k \in DOMAIN js : k \in DOMAIN is \/ js[k] = Bubble(t, final, "done")
<1>. DEFINE js == FinalizeTurn(is, t, final)
            b == Bubble(t, final, "done")
            own == \E k \in DOMAIN is : is[k].kind = "assistant" /\ is[k].turn = t
<1>1. /\ Len(is) \in Nat /\ DOMAIN is = 1..Len(is)
      /\ \A k \in DOMAIN is : RowOK(is[k])
  BY SequenceIs DEF RowsOK
<1>2. CASE own
  <2>1. js = [k \in DOMAIN is |-> IF is[k].kind = "assistant" /\ is[k].turn = t
                                  THEN [is[k] EXCEPT !.status = "done"]
                                  ELSE is[k]]
    BY <1>2 DEF FinalizeTurn
  <2>2. /\ DOMAIN js = DOMAIN is /\ js = [k \in DOMAIN js |-> js[k]]
        /\ \A k \in DOMAIN is :
             IF is[k].kind = "assistant" /\ is[k].turn = t
             THEN js[k] = [is[k] EXCEPT !.status = "done"]
             ELSE js[k] = is[k]
    BY <2>1
  <2>3. Sequence(js)
    BY <1>1, <2>2, FunctionIsSequence
  <2>4. \A k \in DOMAIN js : RowOK(js[k])
    BY <1>1, <2>2 DEF RowOK, Open
  <2>. QED
    BY <2>2, <2>3, <2>4 DEF RowsOK
<1>3. CASE ~own /\ final # <<>>
  <2>1. js = Append(is, b)
    BY <1>3 DEF FinalizeTurn
  <2>2. /\ Sequence(js) /\ DOMAIN js = 1..(Len(is) + 1)
        /\ \A i \in DOMAIN is : js[i] = is[i]
        /\ js[Len(is) + 1] = b
    BY <2>1, SequenceAppended DEF RowsOK
  <2>3. RowOK(b)
    BY NewRows
  <2>4. \A k \in DOMAIN js : k \in DOMAIN is \/ k = Len(is) + 1
    BY <1>1, <2>2
  <2>5. RowsOK(js)
    BY <1>1, <2>2, <2>3, <2>4 DEF RowsOK
  <2>6. \A k \in DOMAIN is : k \in DOMAIN js
    BY <1>1, <2>2
  <2>. QED
    BY <1>3, <2>2, <2>4, <2>5, <2>6
<1>4. CASE ~own /\ final = <<>>
  BY <1>4 DEF FinalizeTurn
<1>. QED
  BY <1>2, <1>3, <1>4

(* What is pending goes to rows of the turn of the last delta.             *)
LEMMA FlushedIs ==
  ASSUME TypesOK
  PROVE  /\ RowsOK(Flushed)
         /\ \A k \in DOMAIN items :
              /\ k \in DOMAIN Flushed
              /\ \/ Flushed[k] = items[k]
                 \/ /\ items[k].status = "streaming" /\ items[k].turn = lastDelta
                    /\ Flushed[k] = Extended(items[k], pending)
         /\ \A k \in DOMAIN Flushed :
              \/ k \in DOMAIN items
              \/ /\ lastDelta # 0 /\ activeTurn = lastDelta
                 /\ Flushed[k] = Bubble(lastDelta, pending, "streaming")
<1>1. RowsOK(items) /\ pending \in Seq(Tokens) /\ lastDelta \in {0} \cup Turns
  BY DEF TypesOK
<1>2. CASE pending = <<>> \/ lastDelta = 0
  BY <1>1, <1>2 DEF Flushed
<1>3. CASE ~(pending = <<>> \/ lastDelta = 0)
  <2>1. Flushed = AppendDelta(items, activeTurn, lastDelta, pending)
    BY <1>3 DEF Flushed
  <2>2. lastDelta \in Turns /\ lastDelta # 0
    BY <1>1, <1>3
  <2>. DEFINE js == AppendDelta(items, activeTurn, lastDelta, pending)
  <2>3. /\ RowsOK(js)
        /\ \A k \in DOMAIN items :
             /\ k \in DOMAIN js
             /\ \/ js[k] = items[k]
                \/ /\ items[k].status = "streaming" /\ items[k].turn = lastDelta
                   /\ js[k] = Extended(items[k], pending)
        /\ \A k \in DOMAIN js :
             \/ k \in DOMAIN items
             \/ activeTurn = lastDelta /\ js[k] = Bubble(lastDelta, pending, "streaming")
    BY <1>1, <2>2, AppendDeltaIs
  <2>. HIDE DEF js
  <2>. QED
    BY <2>1, <2>2, <2>3 DEF js
<1>. QED
  BY <1>2, <1>3

-----------------------------------------------------------------------------
(* The steps, sorted by what they do to the pipes.                         *)

clientVars == <<items, activeTurn, pending, lastDelta, begun, continuations, outcome>>
loopVars == <<slot, phase, calls>>

(* The gateway reads a prompt and takes the slot, or refuses.              *)
Takes ==
  /\ slot = 0 /\ toServer # <<>>
  /\ toServer' = Tail(toServer)
  /\ slot' = Head(toServer) /\ phase' = "stream" /\ calls' = <<>>
  /\ UNCHANGED <<clientVars, toClient>>

Refuses ==
  /\ slot # 0 /\ toServer # <<>>
  /\ toServer' = Tail(toServer)
  /\ toClient' = Append(toClient, Response("refused", Head(toServer), 0))
  /\ UNCHANGED <<clientVars, loopVars>>

(* The turn in the slot writes g.                                          *)
LoopWrites(g) ==
  /\ slot # 0 /\ slot' = slot
  /\ g \in Frames /\ g.turn = slot /\ g.kind # "refused"
  /\ toClient' = Append(toClient, g)
  /\ UNCHANGED <<clientVars, toServer>>
  /\ \/ g.kind = "content_delta" /\ phase = "stream" /\ UNCHANGED <<phase, calls>>
     \/ /\ g.kind = "tool_call" /\ phase = "stream" /\ UNCHANGED phase
        /\ calls' = Append(calls, g.id)
     \/ /\ g.kind = "message_done" /\ phase = "stream" /\ UNCHANGED calls
        /\ phase' = IF calls = <<>> THEN "completed" ELSE "tools"
     \/ /\ phase = "tools" /\ calls # <<>>
        /\ g = Result(slot, Head(calls)) /\ calls' = Tail(calls)
        /\ \/ phase' = "tools"
           \/ Tail(calls) = <<>> /\ phase' \in {"stream", "stops"}
     \/ /\ g.kind = "loop_stopped" /\ phase \in Rounds
        /\ phase' = "stopped" /\ UNCHANGED calls
     \/ /\ g.kind \in {"completed", "stopped"} /\ phase = g.kind
        /\ phase' = "answered" /\ UNCHANGED calls
     \/ /\ g.kind = "raised" /\ phase \in {"stream", "tools"}
        /\ phase' = "answered" /\ UNCHANGED calls

Releases ==
  /\ phase = "answered"
  /\ slot' = 0 /\ phase' = "idle" /\ calls' = <<>>
  /\ UNCHANGED <<clientVars, toServer, toClient>>

(* The TUI begins a turn.                                                  *)
Begins ==
  /\ begun + queued + timers <= MaxTurns /\ begun' = begun + 1 /\ begun' \in Turns
  /\ toServer' = Append(toServer, begun') /\ activeTurn' = begun'
  /\ UNCHANGED <<items, pending, lastDelta, continuations, outcome, toClient, loopVars>>

Nothing == UNCHANGED <<clientVars, toServer, toClient, loopVars>>

LEMMA FrameTypes ==
  ASSUME NEW t \in Turns, NEW n \in Nat, NEW id \in Nat
  PROVE  /\ Delta(t, n) \in Frames /\ Call(t, n, id) \in Frames /\ Result(t, id) \in Frames
         /\ Plain("message_done", t) \in Frames /\ Plain("loop_stopped", t) \in Frames
         /\ \A kind \in Answers : Response(kind, t, n) \in Frames
  BY DEF Delta, Call, Result, Plain, Response, Frames, Answers

LEMMA ServerSteps ==
  ASSUME TypesOK, Server
  PROVE  Takes \/ Refuses \/ (\E g \in Frames : LoopWrites(g)) \/ Releases
<1>1. /\ slot \in {0} \cup Turns /\ (slot = 0 <=> phase = "idle")
      /\ round \in Nat /\ calls \in Seq(Nat)
      /\ emitted \in [Turns -> Seq([kind : {"text", "call"}, round : Nat])]
  BY DEF TypesOK
<1>2. ClientUnchanged => UNCHANGED clientVars
  BY DEF ClientUnchanged, clientVars, storeVars, throttleVars, submitVars
<1>3. slot # 0 => slot \in Turns /\ NextToken \in Nat
  BY <1>1, LenProperties DEF NextToken
<1>4. CASE ReadsChatSend
  <2>1. CASE slot = 0
    BY <1>2, <1>4, <2>1 DEF ReadsChatSend, Takes
  <2>2. CASE slot # 0
    BY <1>2, <1>4, <2>2 DEF ReadsChatSend, Refuses, Writes, serverVars, loopVars
  <2>. QED
    BY <2>1, <2>2
<1>5. CASE StreamsText
  <2>. DEFINE g == Delta(slot, NextToken)
  <2>1. phase = "stream" /\ slot # 0 /\ slot \in Turns /\ NextToken \in Nat
    BY <1>1, <1>3, <1>5 DEF StreamsText, Streams
  <2>2. g \in Frames /\ g.turn = slot /\ g.kind = "content_delta"
    BY <2>1, FrameTypes DEF Delta
  <2>3. /\ toClient' = Append(toClient, g) /\ UNCHANGED <<slot, phase, calls, toServer>>
        /\ UNCHANGED clientVars
    BY <1>2, <1>5 DEF StreamsText, Streams, Writes
  <2>. HIDE DEF g
  <2>4. LoopWrites(g)
    BY <2>1, <2>2, <2>3 DEF LoopWrites
  <2>. QED
    BY <2>2, <2>4
<1>6. CASE StreamsCall
  <2>1. phase = "stream" /\ slot # 0 /\ slot \in Turns /\ NextToken \in Nat
    BY <1>1, <1>3, <1>6 DEF StreamsCall, Streams
  <2>2. PICK id \in {0, NextToken} :
          Writes(Call(slot, NextToken, id)) /\ calls' = Append(calls, id)
    BY <1>6 DEF StreamsCall
  <2>. DEFINE g == Call(slot, NextToken, id)
  <2>3. g \in Frames /\ g.turn = slot /\ g.kind = "tool_call" /\ g.id = id
    BY <2>1, <2>2, FrameTypes DEF Call
  <2>4. /\ toClient' = Append(toClient, g) /\ UNCHANGED <<slot, phase, toServer>>
        /\ UNCHANGED clientVars
    BY <1>2, <1>6, <2>2 DEF StreamsCall, Streams, Writes
  <2>. HIDE DEF g
  <2>5. LoopWrites(g)
    BY <2>1, <2>2, <2>3, <2>4 DEF LoopWrites
  <2>. QED
    BY <2>3, <2>5
<1>7. CASE StreamEnds
  <2>. DEFINE g == Plain("message_done", slot)
  <2>1. phase = "stream" /\ slot # 0 /\ slot \in Turns
    BY <1>1, <1>7 DEF StreamEnds
  <2>2. g \in Frames /\ g.turn = slot /\ g.kind = "message_done"
    BY <2>1, FrameTypes DEF Plain
  <2>3. /\ toClient' = Append(toClient, g) /\ UNCHANGED <<slot, calls, toServer>>
        /\ phase' = IF calls = <<>> THEN "completed" ELSE "tools"
        /\ UNCHANGED clientVars
    BY <1>2, <1>7 DEF StreamEnds, Writes
  <2>. HIDE DEF g
  <2>4. LoopWrites(g)
    BY <2>1, <2>2, <2>3 DEF LoopWrites
  <2>. QED
    BY <2>2, <2>4
<1>8. CASE ToolEnds
  <2>. DEFINE g == Result(slot, Head(calls))
  <2>1. phase = "tools" /\ slot # 0 /\ slot \in Turns /\ calls # <<>> /\ Head(calls) \in Nat
    BY <1>1, <1>8, TailIs DEF ToolEnds
  <2>2. g \in Frames /\ g.turn = slot /\ g.kind = "tool_result"
    BY <2>1, FrameTypes DEF Result
  <2>3. /\ toClient' = Append(toClient, g) /\ UNCHANGED <<slot, toServer>>
        /\ calls' = Tail(calls)
        /\ \/ phase' = "tools"
           \/ Tail(calls) = <<>> /\ phase' \in {"stream", "stops"}
        /\ UNCHANGED clientVars
    BY <1>2, <1>8, <2>1 DEF ToolEnds, Writes
  <2>4. LoopWrites(g)
    BY <2>1, <2>2, <2>3 DEF LoopWrites
  <2>. QED
    BY <2>2, <2>4
<1>9. CASE LoopStops
  <2>. DEFINE g == Plain("loop_stopped", slot)
  <2>1. phase \in Rounds /\ slot # 0 /\ slot \in Turns
    BY <1>1, <1>9 DEF LoopStops, Rounds
  <2>2. g \in Frames /\ g.turn = slot /\ g.kind = "loop_stopped"
    BY <2>1, FrameTypes DEF Plain
  <2>3. /\ toClient' = Append(toClient, g) /\ UNCHANGED <<slot, calls, toServer>>
        /\ phase' = "stopped" /\ UNCHANGED clientVars
    BY <1>2, <1>9 DEF LoopStops, Writes
  <2>. HIDE DEF g
  <2>4. LoopWrites(g)
    BY <2>1, <2>2, <2>3 DEF LoopWrites
  <2>. QED
    BY <2>2, <2>4
<1>10. CASE SendsResponse
  <2>1. PICK kind \in {"completed", "stopped", "raised"} :
          /\ \/ phase = kind /\ kind # "raised"
             \/ kind = "raised" /\ phase \in {"stream", "tools"}
          /\ Writes(Response(kind, slot, round))
    BY <1>10 DEF SendsResponse
  <2>. DEFINE g == Response(kind, slot, round)
  <2>2. slot # 0 /\ slot \in Turns
    BY <1>1, <2>1
  <2>3. g \in Frames /\ g.turn = slot /\ g.kind = kind
    BY <1>1, <2>2, FrameTypes DEF Response, Answers
  <2>4. /\ toClient' = Append(toClient, g) /\ UNCHANGED <<slot, calls, toServer>>
        /\ phase' = "answered" /\ UNCHANGED clientVars
    BY <1>2, <1>10, <2>1 DEF SendsResponse, Writes
  <2>. HIDE DEF g
  <2>5. LoopWrites(g)
    BY <2>1, <2>2, <2>3, <2>4 DEF LoopWrites
  <2>. QED
    BY <2>3, <2>5
<1>11. CASE SlotReleased
  BY <1>2, <1>11 DEF SlotReleased, Releases
<1>. QED
  BY <1>4, <1>5, <1>6, <1>7, <1>8, <1>9, <1>10, <1>11 DEF Server

(* A step is one of the gateway or leaves it alone.                        *)
LEMMA ClientSteps ==
  ASSUME TypesOK, [Next]_vars
  PROVE  \/ Server
         \/ /\ UNCHANGED serverVars
            /\ Begins \/ LineArrives \/ ThrottleFires \/ (\E t \in Turns : TurnSettled(t)) \/ Nothing
<1>1. {begun, queued, timers} \subseteq Nat /\ begun + queued + timers <= MaxTurns /\ MaxTurns \in Nat
  BY TranscriptAssumption DEF TypesOK
<1>2. CASE Submit
  <2>1. CASE active = 0
    <3>1. begun + 1 \in Turns
      BY <1>1, <1>2 DEF Submit, Turns
    <3>. QED
      BY <1>1, <1>2, <2>1, <3>1 DEF Submit, BeginTurn, Begins, throttleVars, serverVars, loopVars
  <2>2. CASE active # 0
    BY <1>2, <2>2 DEF Submit, Nothing, clientVars, throttleVars, serverVars, loopVars
  <2>. QED
    BY <2>1, <2>2
<1>3. CASE QueuedPromptSent
  <2>1. begun + 1 \in Turns
    BY <1>1, <1>3 DEF QueuedPromptSent, Turns
  <2>. QED
    BY <1>1, <1>3, <2>1 DEF QueuedPromptSent, BeginTurn, Begins, throttleVars, serverVars, loopVars
<1>4. CASE CommandSent
  BY <1>4 DEF CommandSent, Nothing, clientVars, storeVars, throttleVars, serverVars, loopVars
<1>5. CASE CommandSettled
  BY <1>5 DEF CommandSettled, Nothing, clientVars, storeVars, throttleVars, serverVars, loopVars
<1>6. CASE UNCHANGED vars
  BY <1>6 DEF vars, Nothing, clientVars, storeVars, throttleVars, submitVars, serverVars, loopVars
<1>7. CASE LineArrives \/ ThrottleFires \/ \E t \in Turns : TurnSettled(t)
  BY <1>7 DEF LineArrives, ThrottleFires, TurnSettled
<1>. QED
  BY <1>2, <1>3, <1>4, <1>5, <1>6, <1>7 DEF Next

LEMMA Steps ==
  ASSUME TypesOK, [Next]_vars
  PROVE  \/ Takes \/ Refuses \/ (\E g \in Frames : LoopWrites(g)) \/ Releases
         \/ Begins \/ LineArrives \/ ThrottleFires \/ (\E t \in Turns : TurnSettled(t))
         \/ Nothing
BY ClientSteps, ServerSteps

-----------------------------------------------------------------------------
(* What the steps do to the rows.                                          *)

(* The ends of the turns give text of their own turn.                      *)
LEMMA FinalTextsAre ==
  ASSUME TypesOK, NEW t \in Turns, outcome[t].kind \in Answers, NEW final \in FinalTexts(t)
  PROVE  \A j \in DOMAIN final : final[j][1] = t
<1>1. CASE outcome[t].kind = "completed"
  BY <1>1 DEF FinalTexts
<1>2. CASE outcome[t].kind \in {"stopped", "raised", "refused"}
  BY <1>2 DEF FinalTexts
<1>. QED
  BY <1>1, <1>2 DEF Answers

(* A row of js is one of is with this status, or not much of one.          *)
SameTool(row, new) ==
  /\ row.kind = "tool" /\ new.kind = "tool"
  /\ new.turn = row.turn /\ new.id = row.id /\ new.text = row.text

ToolsStay(js) ==
  \A k \in DOMAIN js : js[k].kind = "tool" =>
    k \in DOMAIN items /\ SameTool(items[k], js[k]) /\ js[k].status = items[k].status

BubblesStay(js) ==
  \A k \in DOMAIN js : js[k].status = "streaming" =>
    \/ k \in DOMAIN items /\ items[k].status = "streaming" /\ js[k].turn = items[k].turn
    \/ activeTurn # 0 /\ js[k].turn = activeTurn

LEMMA FlushedRows ==
  ASSUME TypesOK
  PROVE  /\ RowsOK(Flushed) /\ DOMAIN items \subseteq DOMAIN Flushed
         /\ ToolsStay(Flushed) /\ BubblesStay(Flushed)
<1>1. /\ RowsOK(Flushed)
      /\ \A k \in DOMAIN items :
           /\ k \in DOMAIN Flushed
           /\ \/ Flushed[k] = items[k]
              \/ /\ items[k].status = "streaming" /\ items[k].turn = lastDelta
                 /\ Flushed[k] = Extended(items[k], pending)
      /\ \A k \in DOMAIN Flushed :
           \/ k \in DOMAIN items
           \/ /\ lastDelta # 0 /\ activeTurn = lastDelta
              /\ Flushed[k] = Bubble(lastDelta, pending, "streaming")
  BY FlushedIs
<1>2. \A k \in DOMAIN items : RowOK(items[k])
  BY DEF TypesOK, RowsOK
<1>3. ASSUME NEW k \in DOMAIN Flushed
      PROVE  \/ k \in DOMAIN items /\ Flushed[k] = items[k]
             \/ /\ k \in DOMAIN items /\ items[k].kind = "assistant"
                /\ items[k].status = "streaming" /\ Flushed[k].kind = "assistant"
                /\ Flushed[k].turn = items[k].turn
             \/ /\ activeTurn # 0 /\ Flushed[k].turn = activeTurn
                /\ Flushed[k].kind = "assistant"
  <2>1. CASE k \in DOMAIN items /\ Flushed[k] = items[k]
    BY <2>1
  <2>2. CASE k \in DOMAIN items /\ items[k].status = "streaming"
             /\ Flushed[k] = Extended(items[k], pending)
    <3>1. RowOK(items[k])
      BY <1>2, <2>2
    <3>. QED
      BY <2>2, <3>1 DEF RowOK, Extended
  <2>3. CASE lastDelta # 0 /\ activeTurn = lastDelta
             /\ Flushed[k] = Bubble(lastDelta, pending, "streaming")
    BY <2>3 DEF Bubble
  <2>. QED
    BY <1>1, <2>1, <2>2, <2>3
<1>4. ToolsStay(Flushed)
  BY <1>3 DEF ToolsStay, SameTool
<1>5. BubblesStay(Flushed)
  BY <1>3 DEF BubblesStay
<1>. QED
  BY <1>1, <1>4, <1>5

(* What a line of the gateway does to the rows.                            *)
CallRows(js, f) ==
  \A k \in DOMAIN js : js[k].kind = "tool" =>
    \/ k \in DOMAIN items /\ SameTool(items[k], js[k]) /\ js[k].status = items[k].status
    \/ f.kind = "tool_call" /\ js[k] = ToolRow(f.turn, f.n, f.id)

ResultRows(js, f) ==
  \A k \in DOMAIN js : js[k].kind = "tool" =>
    /\ k \in DOMAIN items /\ SameTool(items[k], js[k])
    /\ IF items[k].turn = f.turn /\ items[k].id = f.id
       THEN js[k].status = "ok" ELSE js[k].status = items[k].status

StoppedRows(js) ==
  \A k \in DOMAIN js : js[k].kind = "tool" =>
    /\ k \in DOMAIN items /\ SameTool(items[k], js[k])
    /\ js[k].status = IF items[k].status = "running" THEN "error" ELSE items[k].status

Reads(f) ==
  /\ toClient # <<>> /\ f = Head(toClient) /\ f \in Frames /\ toClient' = Tail(toClient)
  /\ UNCHANGED <<activeTurn, begun, toServer, loopVars>>

(* The lines, sorted by what they do.                                      *)
DeltaRead(f) ==
  /\ f.kind = "content_delta"
  /\ lastDelta' = f.turn /\ pending' = Append(pending, <<f.turn, f.n>>)
  /\ UNCHANGED <<items, continuations, outcome>>

FlushRead(f) ==
  /\ pending' = <<>>
  /\ UNCHANGED <<lastDelta, continuations, outcome>>
  /\ RowsOK(items') /\ BubblesStay(items')
  /\ \/ f.kind = "tool_call" /\ CallRows(items', f)
     \/ f.kind = "tool_result" /\ ResultRows(items', f)
     \/ f.kind = "message_done" /\ ToolsStay(items')
     \/ f.kind = "loop_stopped" /\ StoppedRows(items')

ResponseRead(f) ==
  /\ f.kind \in Answers
  /\ outcome' = [outcome EXCEPT ![f.turn] = f]
  /\ continuations' = continuations \cup {f.turn}
  /\ UNCHANGED <<items, pending, lastDelta>>

LEMMA ToolCallRows ==
  ASSUME TypesOK, NEW f \in Frames, f.kind = "tool_call"
  PROVE  LET js == Append(Flushed, ToolRow(f.turn, f.n, f.id))
         IN  RowsOK(js) /\ BubblesStay(js) /\ CallRows(js, f)
<1>. DEFINE row == ToolRow(f.turn, f.n, f.id)
            js == Append(Flushed, row)
<1>1. RowsOK(Flushed) /\ ToolsStay(Flushed) /\ BubblesStay(Flushed)
  BY FlushedRows
<1>2. /\ Sequence(js) /\ Len(Flushed) \in Nat /\ DOMAIN Flushed = 1..Len(Flushed)
      /\ DOMAIN js = 1..(Len(Flushed) + 1)
      /\ \A k \in DOMAIN Flushed : js[k] = Flushed[k]
      /\ js[Len(Flushed) + 1] = row
  BY <1>1, SequenceAppended DEF RowsOK
<1>3. RowOK(row) /\ row.kind = "tool" /\ row.status = "running"
  BY NewRows DEF ToolRow, Frames
<1>4. \A k \in DOMAIN js : (k \in DOMAIN Flushed /\ js[k] = Flushed[k]) \/ js[k] = row
  BY <1>2
<1>. HIDE DEF js, row
<1>5. RowsOK(js)
  BY <1>1, <1>2, <1>3, <1>4 DEF RowsOK
<1>6. BubblesStay(js)
  BY <1>1, <1>3, <1>4 DEF BubblesStay
<1>7. CallRows(js, f)
  BY <1>1, <1>4 DEF CallRows, ToolsStay, row
<1>. QED
  BY <1>5, <1>6, <1>7 DEF js, row

LEMMA ToolResultRows ==
  ASSUME TypesOK, NEW f \in Frames
  PROVE  LET js == CloseToolCall(Flushed, f.turn, f.id)
         IN  RowsOK(js) /\ BubblesStay(js) /\ ResultRows(js, f)
<1>. DEFINE js == CloseToolCall(Flushed, f.turn, f.id)
<1>1. RowsOK(Flushed) /\ ToolsStay(Flushed) /\ BubblesStay(Flushed)
  BY FlushedRows
<1>2. /\ RowsOK(js) /\ DOMAIN js = DOMAIN Flushed
      /\ \A k \in DOMAIN Flushed :
           IF Flushed[k].kind = "tool" /\ Flushed[k].turn = f.turn /\ Flushed[k].id = f.id
           THEN js[k] = [Flushed[k] EXCEPT !.status = "ok"]
           ELSE js[k] = Flushed[k]
  BY <1>1, CloseToolCallIs
<1>. HIDE DEF js
<1>3. ASSUME NEW k \in DOMAIN js
      PROVE  \/ /\ Flushed[k].kind = "tool" /\ Flushed[k].turn = f.turn /\ Flushed[k].id = f.id
                /\ SameTool(Flushed[k], js[k]) /\ js[k].status = "ok"
             \/ ~(Flushed[k].kind = "tool" /\ Flushed[k].turn = f.turn /\ Flushed[k].id = f.id)
                /\ js[k] = Flushed[k]
  <2>1. RowOK(Flushed[k])
    BY <1>1, <1>2, <1>3 DEF RowsOK
  <2>. QED
    BY <1>2, <1>3, <2>1 DEF RowOK, SameTool
<1>4. BubblesStay(js)
  BY <1>1, <1>2, <1>3 DEF BubblesStay
<1>5. ResultRows(js, f)
  BY <1>1, <1>2, <1>3 DEF ResultRows, ToolsStay, SameTool
<1>. QED
  BY <1>2, <1>4, <1>5 DEF js

LEMMA LoopStoppedRows ==
  ASSUME TypesOK
  PROVE  LET js == LoopStopped(Flushed)
         IN  RowsOK(js) /\ BubblesStay(js) /\ StoppedRows(js)
<1>. DEFINE js == LoopStopped(Flushed)
<1>1. RowsOK(Flushed) /\ ToolsStay(Flushed) /\ BubblesStay(Flushed)
  BY FlushedRows
<1>2. /\ RowsOK(js) /\ DOMAIN js = DOMAIN Flushed
      /\ \A k \in DOMAIN Flushed :
           IF Flushed[k].kind = "tool" /\ Flushed[k].status = "running"
           THEN js[k] = [Flushed[k] EXCEPT !.status = "error"]
           ELSE js[k] = Flushed[k]
  BY <1>1, LoopStoppedIs
<1>. HIDE DEF js
<1>3. ASSUME NEW k \in DOMAIN js
      PROVE  \/ /\ Flushed[k].kind = "tool" /\ Flushed[k].status = "running"
                /\ SameTool(Flushed[k], js[k]) /\ js[k].status = "error"
             \/ ~(Flushed[k].kind = "tool" /\ Flushed[k].status = "running")
                /\ js[k] = Flushed[k]
  <2>1. RowOK(Flushed[k])
    BY <1>1, <1>2, <1>3 DEF RowsOK
  <2>. QED
    BY <1>2, <1>3, <2>1 DEF RowOK, SameTool
<1>4. BubblesStay(js)
  BY <1>1, <1>2, <1>3 DEF BubblesStay
<1>5. StoppedRows(js)
  BY <1>1, <1>2, <1>3 DEF StoppedRows, ToolsStay, SameTool
<1>. QED
  BY <1>2, <1>4, <1>5 DEF js

LEMMA LinesRead ==
  ASSUME TypesOK, LineArrives
  PROVE  \E f \in Frames : Reads(f) /\ (DeltaRead(f) \/ FlushRead(f) \/ ResponseRead(f))
<1>. DEFINE f == Head(toClient)
<1>1. toClient \in Seq(Frames) /\ toClient # <<>>
  BY DEF TypesOK, LineArrives
<1>2. f \in Frames
  BY <1>1, TailIs
<1>3. Reads(f)
  BY <1>1, <1>2 DEF LineArrives, Reads, submitVars, serverVars, loopVars
<1>4. DeltaArrives(f) \/ ToolEventArrives(f) \/ RoundEndArrives(f) \/ LoopStoppedArrives(f)
        \/ ResponseArrives(f)
  BY DEF LineArrives
<1>. HIDE DEF f
<1>5. CASE DeltaArrives(f)
  BY <1>2, <1>3, <1>5 DEF DeltaArrives, DeltaRead
<1>6. CASE ToolEventArrives(f)
  <2>1. /\ pending' = <<>> /\ UNCHANGED <<lastDelta, continuations, outcome>>
        /\ \/ f.kind = "tool_call" /\ items' = Append(Flushed, ToolRow(f.turn, f.n, f.id))
           \/ f.kind = "tool_result" /\ items' = CloseToolCall(Flushed, f.turn, f.id)
    BY <1>6 DEF ToolEventArrives, Flush
  <2>2. FlushRead(f)
    BY <1>2, <2>1, ToolCallRows, ToolResultRows DEF FlushRead
  <2>. QED
    BY <1>2, <1>3, <2>2
<1>7. CASE RoundEndArrives(f)
  <2>1. FlushRead(f)
    BY <1>7, FlushedRows DEF RoundEndArrives, Flush, FlushRead
  <2>. QED
    BY <1>2, <1>3, <2>1
<1>8. CASE LoopStoppedArrives(f)
  <2>1. FlushRead(f)
    BY <1>8, LoopStoppedRows DEF LoopStoppedArrives, Flush, FlushRead
  <2>. QED
    BY <1>2, <1>3, <2>1
<1>9. CASE ResponseArrives(f)
  BY <1>2, <1>3, <1>9 DEF ResponseArrives, ResponseRead, throttleVars
<1>. QED
  BY <1>4, <1>5, <1>6, <1>7, <1>8, <1>9

(* The timer, and the end of a turn.                                       *)
Fires ==
  /\ pending' = <<>> /\ RowsOK(items') /\ ToolsStay(items') /\ BubblesStay(items')
  /\ UNCHANGED <<lastDelta, activeTurn, begun, continuations, outcome, toServer, toClient, loopVars>>

Settles(t) ==
  /\ t \in continuations /\ continuations' = continuations \ {t}
  /\ activeTurn' = 0
  /\ RowsOK(items') /\ ToolsStay(items')
  /\ \A k \in DOMAIN items' : items'[k].status = "streaming" =>
       k \in DOMAIN items /\ items[k].status = "streaming" /\ items'[k].turn = items[k].turn
         /\ items[k].turn # t
  /\ UNCHANGED <<pending, lastDelta, begun, outcome, toServer, toClient, loopVars>>

LEMMA ThrottleFired ==
  ASSUME TypesOK, ThrottleFires
  PROVE  Fires
BY FlushedRows DEF ThrottleFires, Flush, Fires, submitVars, serverVars, loopVars

LEMMA TurnsSettled ==
  ASSUME TypesOK, NEW t \in Turns, TurnSettled(t)
  PROVE  Settles(t)
<1>1. PICK final \in FinalTexts(t) : items' = FinalizeTurn(items, t, final)
  BY DEF TurnSettled
<1>2. RowsOK(items)
  BY DEF TypesOK
<1>3. /\ RowsOK(items')
      /\ \A k \in DOMAIN items :
           /\ k \in DOMAIN items'
           /\ IF items[k].kind = "assistant" /\ items[k].turn = t
              THEN items'[k] = [items[k] EXCEPT !.status = "done"]
              ELSE items'[k] = items[k]
      /\ \A k \in DOMAIN items' : k \in DOMAIN items \/ items'[k] = Bubble(t, final, "done")
  BY <1>1, <1>2, FinalizeTurnIs
<1>4. ASSUME NEW k \in DOMAIN items'
      PROVE  \/ /\ k \in DOMAIN items /\ items'[k] = items[k]
                /\ ~(items[k].kind = "assistant" /\ items[k].turn = t)
             \/ items'[k].kind = "assistant" /\ items'[k].status = "done"
  <2>1. CASE k \in DOMAIN items
    <3>1. RowOK(items[k])
      BY <1>2, <2>1 DEF RowsOK
    <3>. QED
      BY <1>3, <2>1, <3>1 DEF RowOK
  <2>2. CASE k \notin DOMAIN items
    BY <1>3, <1>4, <2>2 DEF Bubble
  <2>. QED
    BY <2>1, <2>2
<1>5. ToolsStay(items')
  BY <1>4 DEF ToolsStay, SameTool
<1>6. \A k \in DOMAIN items' : items'[k].status = "streaming" =>
        k \in DOMAIN items /\ items[k].status = "streaming" /\ items'[k].turn = items[k].turn
          /\ items[k].turn # t
  <2>. TAKE k \in DOMAIN items'
  <2>1. k \in DOMAIN items => RowOK(items[k])
    BY <1>2 DEF RowsOK
  <2>. QED
    BY <1>4, <2>1 DEF RowOK
<1>. QED
  BY <1>3, <1>5, <1>6 DEF TurnSettled, Settles, throttleVars, serverVars, loopVars

-----------------------------------------------------------------------------
(* Types.                                                                  *)

(* What only the gateway counts, and the prompts that wait.                *)
CountsOK ==
  /\ {begun, queued, timers} \subseteq Nat /\ begun + queued + timers <= MaxTurns
  /\ round \in Nat
  /\ emitted \in [Turns -> Seq([kind : {"text", "call"}, round : Nat])]

LEMMA EmitsTypes ==
  ASSUME TypesOK, slot \in Turns, NEW kind \in {"text", "call"}, Emits(kind)
  PROVE  emitted' \in [Turns -> Seq([kind : {"text", "call"}, round : Nat])]
<1>. DEFINE T == [kind : {"text", "call"}, round : Nat]
            tok == [kind |-> kind, round |-> round]
<1>1. emitted \in [Turns -> Seq(T)] /\ emitted[slot] \in Seq(T) /\ round \in Nat
  BY DEF TypesOK
<1>2. NextToken \in Nat
  BY <1>1, LenProperties DEF NextToken
<1>3. tok \in T
  BY <1>1, <1>2
<1>4. Append(emitted[slot], tok) \in Seq(T)
  BY <1>1, <1>3, AppendIs
<1>5. emitted' = [emitted EXCEPT ![slot] = Append(emitted[slot], tok)]
  BY DEF Emits
<1>. HIDE DEF T, tok
<1>6. emitted' \in [Turns -> Seq(T)]
  BY <1>1, <1>4, <1>5
<1>. QED
  BY <1>6 DEF T

LEMMA CountsKept ==
  ASSUME TypesOK, [Next]_vars
  PROVE  CountsOK'
<1>1. CountsOK /\ (slot \in {0} \cup Turns) /\ (slot = 0 <=> phase = "idle")
  BY DEF TypesOK, CountsOK
<1>2. MaxTurns \in Nat
  BY TranscriptAssumption
<1>3. CASE Submit
  BY <1>1, <1>2, <1>3 DEF Submit, BeginTurn, CountsOK, serverVars
<1>4. CASE QueuedPromptSent
  BY <1>1, <1>2, <1>4 DEF QueuedPromptSent, BeginTurn, CountsOK, serverVars
<1>5. CASE CommandSent
  BY <1>1, <1>5 DEF CommandSent, CountsOK, serverVars
<1>6. CASE CommandSettled
  BY <1>1, <1>2, <1>6 DEF CommandSettled, ScheduleNext, CountsOK, serverVars
<1>7. ASSUME NEW t \in Turns, TurnSettled(t) PROVE CountsOK'
  BY <1>1, <1>2, <1>7 DEF TurnSettled, ScheduleNext, CountsOK, serverVars
<1>8. CASE LineArrives
  BY <1>1, <1>8 DEF LineArrives, CountsOK, submitVars, serverVars
<1>9. CASE ThrottleFires
  BY <1>1, <1>9 DEF ThrottleFires, CountsOK, submitVars, serverVars
<1>10. CASE UNCHANGED vars
  BY <1>1, <1>10 DEF vars, CountsOK, submitVars, serverVars
<1>11. CASE Server
  <2>1. UNCHANGED <<begun, queued, timers>>
    BY <1>11 DEF Server, ReadsChatSend, StreamsText, StreamsCall, StreamEnds, ToolEnds, LoopStops,
                 SendsResponse, SlotReleased, Streams, ClientUnchanged, submitVars
  <2>2. CASE UNCHANGED emitted
    <3>1. round' \in Nat
      BY <1>1, <1>11, <2>2
         DEF CountsOK, Server, ReadsChatSend, StreamsText, StreamsCall, StreamEnds, ToolEnds,
             LoopStops, SendsResponse, SlotReleased, Streams, serverVars
    <3>. QED
      BY <1>1, <2>1, <2>2, <3>1 DEF CountsOK
  <2>3. CASE phase = "stream" /\ (\E kind \in {"text", "call"} : Emits(kind)) /\ UNCHANGED round
    <3>1. slot \in Turns
      BY <1>1, <2>3
    <3>. QED
      BY <1>1, <2>1, <2>3, <3>1, EmitsTypes DEF CountsOK
  <2>4. \/ UNCHANGED emitted
        \/ phase = "stream" /\ (\E kind \in {"text", "call"} : Emits(kind)) /\ UNCHANGED round
    BY <1>11
       DEF Server, ReadsChatSend, StreamsText, StreamsCall, StreamEnds, ToolEnds, LoopStops,
           SendsResponse, SlotReleased, Streams, serverVars
  <2>. QED
    BY <2>2, <2>3, <2>4
<1>. QED
  BY <1>3, <1>4, <1>5, <1>6, <1>7, <1>8, <1>9, <1>10, <1>11 DEF Next

LEMMA TypesKept ==
  ASSUME TypesOK, [Next]_vars
  PROVE  TypesOK'
<1>1. CountsOK'
  BY CountsKept
<1>2. /\ RowsOK(items)
      /\ activeTurn \in {0} \cup Turns /\ lastDelta \in {0} \cup Turns
      /\ pending \in Seq(Tokens)
      /\ continuations \subseteq Turns
      /\ toServer \in Seq(Turns) /\ toClient \in Seq(Frames)
      /\ slot \in {0} \cup Turns /\ (slot = 0 <=> phase = "idle")
      /\ phase \in Rounds \cup {"idle", "completed", "stopped", "answered"}
      /\ calls \in Seq(Nat)
      /\ outcome \in [Turns -> [kind : Answers \cup {"none"}, turn : Turns, n : Nat, id : Nat]]
  BY DEF TypesOK
<1>. DEFINE ClientOK == /\ RowsOK(items)
                        /\ activeTurn \in {0} \cup Turns /\ lastDelta \in {0} \cup Turns
                        /\ pending \in Seq(Tokens)
                        /\ continuations \subseteq Turns
                        /\ outcome \in [Turns -> [kind : Answers \cup {"none"}, turn : Turns,
                                                  n : Nat, id : Nat]]
            PipesOK == toServer \in Seq(Turns) /\ toClient \in Seq(Frames)
            LoopOK == /\ slot \in {0} \cup Turns /\ (slot = 0 <=> phase = "idle")
                      /\ phase \in Rounds \cup {"idle", "completed", "stopped", "answered"}
                      /\ calls \in Seq(Nat)
<1>3. UNCHANGED clientVars => ClientOK'
  BY <1>2 DEF clientVars
<1>4. UNCHANGED loopVars => LoopOK'
  BY <1>2 DEF loopVars
<1>5. 0 \notin Turns
  BY DEF Turns
<1>6. toServer # <<>> => Head(toServer) \in Turns /\ Tail(toServer) \in Seq(Turns)
  BY <1>2, TailIs
<1>7. ASSUME Takes PROVE ClientOK' /\ PipesOK' /\ LoopOK'
  BY <1>2, <1>3, <1>5, <1>6, <1>7 DEF Takes, Rounds
<1>8. ASSUME Refuses PROVE ClientOK' /\ PipesOK' /\ LoopOK'
  <2>1. Response("refused", Head(toServer), 0) \in Frames
    BY <1>6, <1>8, FrameTypes DEF Refuses, Answers
  <2>2. toClient' \in Seq(Frames)
    BY <1>2, <1>8, <2>1, AppendIs DEF Refuses
  <2>. QED
    BY <1>2, <1>3, <1>4, <1>6, <1>8, <2>2 DEF Refuses
<1>9. ASSUME NEW g \in Frames, LoopWrites(g) PROVE ClientOK' /\ PipesOK' /\ LoopOK'
  <2>1. toClient' \in Seq(Frames)
    BY <1>2, <1>9, AppendIs DEF LoopWrites
  <2>2. g.id \in Nat
    BY DEF Frames
  <2>3. calls' \in Seq(Nat)
    <3>1. \/ UNCHANGED calls
          \/ calls' = Append(calls, g.id)
          \/ calls # <<>> /\ calls' = Tail(calls)
      BY <1>9 DEF LoopWrites
    <3>2. Append(calls, g.id) \in Seq(Nat)
      BY <1>2, <2>2, AppendIs
    <3>3. calls # <<>> => Tail(calls) \in Seq(Nat)
      BY <1>2, TailIs
    <3>. QED
      BY <1>2, <3>1, <3>2, <3>3
  <2>4. slot' = slot /\ slot # 0 /\ phase' \in Rounds \cup {"completed", "stopped", "answered"}
    BY <1>2, <1>9 DEF LoopWrites, Rounds
  <2>. QED
    BY <1>2, <1>3, <1>9, <2>1, <2>3, <2>4 DEF LoopWrites, Rounds
<1>10. ASSUME Releases PROVE ClientOK' /\ PipesOK' /\ LoopOK'
  BY <1>2, <1>3, <1>10 DEF Releases
<1>11. ASSUME Begins PROVE ClientOK' /\ PipesOK' /\ LoopOK'
  <2>1. toServer' \in Seq(Turns) /\ begun' \in Turns
    BY <1>2, <1>11, AppendIs DEF Begins
  <2>. QED
    BY <1>2, <1>4, <1>11, <2>1 DEF Begins
<1>12. ASSUME LineArrives PROVE ClientOK' /\ PipesOK' /\ LoopOK'
  <2>1. PICK f \in Frames : Reads(f) /\ (DeltaRead(f) \/ FlushRead(f) \/ ResponseRead(f))
    BY <1>12, LinesRead
  <2>2. f.turn \in Turns /\ f.n \in Nat /\ <<f.turn, f.n>> \in Tokens
    BY DEF Frames, Tokens
  <2>3. PipesOK' /\ LoopOK' /\ activeTurn' \in {0} \cup Turns
    BY <1>2, <1>4, <2>1, TailIs DEF Reads
  <2>4. CASE DeltaRead(f)
    <3>1. pending' \in Seq(Tokens)
      BY <1>2, <2>2, <2>4, AppendIs DEF DeltaRead
    <3>. QED
      BY <1>2, <2>2, <2>3, <2>4, <3>1 DEF DeltaRead
  <2>5. CASE FlushRead(f)
    BY <1>2, <2>3, <2>5, EmptySeq DEF FlushRead
  <2>6. CASE ResponseRead(f)
    <3>1. f \in [kind : Answers \cup {"none"}, turn : Turns, n : Nat, id : Nat]
      BY <2>6 DEF ResponseRead, Frames
    <3>. QED
      BY <1>2, <2>2, <2>3, <2>6, <3>1 DEF ResponseRead
  <2>. QED
    BY <2>1, <2>4, <2>5, <2>6
<1>13. ASSUME ThrottleFires PROVE ClientOK' /\ PipesOK' /\ LoopOK'
  BY <1>2, <1>4, <1>13, ThrottleFired, EmptySeq DEF Fires
<1>14. ASSUME NEW t \in Turns, TurnSettled(t) PROVE ClientOK' /\ PipesOK' /\ LoopOK'
  BY <1>2, <1>4, <1>14, TurnsSettled DEF Settles
<1>15. ASSUME Nothing PROVE ClientOK' /\ PipesOK' /\ LoopOK'
  BY <1>2, <1>3, <1>4, <1>15 DEF Nothing
<1>16. ClientOK' /\ PipesOK' /\ LoopOK'
  BY Steps, <1>7, <1>8, <1>9, <1>10, <1>11, <1>12, <1>13, <1>14, <1>15
<1>. QED
  BY <1>1, <1>16 DEF TypesOK, CountsOK

-----------------------------------------------------------------------------
(* The pipe after a frame is read from it or written to it.                *)

LEMMA PipeRead ==
  ASSUME TypesOK, NEW f, Reads(f)
  PROVE  /\ f \in Frames /\ 1 \in DOMAIN toClient /\ toClient[1] = f
         /\ \A i \in DOMAIN toClient : i \in Nat /\ i >= 1
         /\ \A i \in DOMAIN toClient' :
              /\ i \in Nat /\ i >= 1
              /\ i + 1 \in DOMAIN toClient /\ toClient'[i] = toClient[i + 1]
         /\ \A i \in DOMAIN toClient :
              i = 1 \/ (i - 1 \in DOMAIN toClient' /\ toClient'[i - 1] = toClient[i])
<1>1. toClient \in Seq(Frames) /\ toClient # <<>> /\ toClient' = Tail(toClient)
      /\ f = Head(toClient) /\ f \in Frames
  BY DEF TypesOK, Reads
<1>2. /\ Len(toClient) \in Nat /\ DOMAIN toClient = 1..Len(toClient)
      /\ 1 \in DOMAIN toClient /\ f = toClient[1]
      /\ DOMAIN toClient' = 1..(Len(toClient) - 1)
      /\ \A i \in DOMAIN toClient' : i + 1 \in DOMAIN toClient /\ toClient'[i] = toClient[i + 1]
  BY <1>1, TailIs
<1>3. \A i \in DOMAIN toClient : i = 1 \/ i - 1 \in DOMAIN toClient'
  BY <1>2
<1>4. \A i \in DOMAIN toClient : i = 1 \/ toClient'[i - 1] = toClient[i]
  BY <1>2, <1>3
<1>. QED
  BY <1>1, <1>2, <1>3, <1>4

LEMMA PipeWritten ==
  ASSUME TypesOK, NEW g \in Frames, toClient' = Append(toClient, g)
  PROVE  \E last \in DOMAIN toClient' :
           /\ toClient'[last] = g
           /\ \A i \in DOMAIN toClient :
                /\ i \in Nat /\ i >= 1 /\ i < last
                /\ i \in DOMAIN toClient' /\ toClient'[i] = toClient[i]
           /\ \A i \in DOMAIN toClient' :
                i \in Nat /\ i >= 1 /\ (i = last \/ i \in DOMAIN toClient)
<1>1. toClient \in Seq(Frames)
  BY DEF TypesOK
<1>2. /\ Len(toClient) \in Nat /\ DOMAIN toClient = 1..Len(toClient)
      /\ DOMAIN toClient' = 1..(Len(toClient) + 1)
      /\ \A i \in DOMAIN toClient : toClient'[i] = toClient[i]
      /\ toClient'[Len(toClient) + 1] = g
  BY <1>1, AppendIs
<1>3. Len(toClient) + 1 \in DOMAIN toClient'
  BY <1>2
<1>4. \A i \in DOMAIN toClient : /\ i \in Nat /\ i >= 1 /\ i < Len(toClient) + 1
                                 /\ i \in DOMAIN toClient'
  BY <1>2
<1>5. \A i \in DOMAIN toClient' : /\ i \in Nat /\ i >= 1
                                  /\ i = Len(toClient) + 1 \/ i \in DOMAIN toClient
  BY <1>2
<1>. QED
  BY <1>2, <1>3, <1>4, <1>5

LEMMA ServerRead ==
  ASSUME TypesOK, toServer # <<>>, toServer' = Tail(toServer)
  PROVE  /\ 1 \in DOMAIN toServer /\ Head(toServer) = toServer[1] /\ Head(toServer) \in Turns
         /\ \A j \in DOMAIN toServer' :
              /\ j \in Nat /\ j >= 1
              /\ j + 1 \in DOMAIN toServer /\ toServer'[j] = toServer[j + 1]
<1>1. toServer \in Seq(Turns)
  BY DEF TypesOK
<1>. QED
  BY <1>1, TailIs

LEMMA ServerWritten ==
  ASSUME TypesOK, NEW t \in Turns, toServer' = Append(toServer, t)
  PROVE  /\ \A j \in DOMAIN toServer : j \in Nat /\ toServer[j] \in Turns
         /\ \A j \in DOMAIN toServer : j \in DOMAIN toServer' /\ toServer'[j] = toServer[j]
         /\ \A i, j \in DOMAIN toServer' : i < j => i \in DOMAIN toServer
         /\ \A j \in DOMAIN toServer' :
              (j \in DOMAIN toServer /\ toServer'[j] = toServer[j]) \/ toServer'[j] = t
         /\ \A i, j \in DOMAIN toServer' : i < j /\ j \notin DOMAIN toServer => toServer'[j] = t
<1>1. toServer \in Seq(Turns)
  BY DEF TypesOK
<1>2. /\ Len(toServer) \in Nat /\ DOMAIN toServer = 1..Len(toServer)
      /\ DOMAIN toServer' = 1..(Len(toServer) + 1)
      /\ \A i \in DOMAIN toServer : toServer'[i] = toServer[i]
      /\ toServer'[Len(toServer) + 1] = t
  BY <1>1, AppendIs
<1>. QED
  BY <1>1, <1>2

(* The numbers of turns are numbers.                                       *)
LEMMA TurnNumbers ==
  ASSUME TypesOK
  PROVE  /\ Turns \subseteq Nat /\ 0 \notin Turns /\ \A t \in Turns : t > 0
         /\ slot \in Nat /\ lastDelta \in Nat /\ begun \in Nat
         /\ slot # 0 => slot \in Turns
         /\ \A i \in DOMAIN toClient : toClient[i] \in Frames /\ toClient[i].turn \in Turns
         /\ \A k \in DOMAIN items : items[k].turn \in Turns
         /\ \A j \in DOMAIN toServer : toServer[j] \in Turns
         /\ \A j \in DOMAIN pending : pending[j][1] \in Turns
<1>1. Turns \subseteq Nat /\ 0 \notin Turns /\ \A t \in Turns : t > 0
  BY TranscriptAssumption DEF Turns
<1>2. slot \in Nat /\ lastDelta \in Nat /\ begun \in Nat /\ (slot # 0 => slot \in Turns)
  BY <1>1 DEF TypesOK
<1>3. \A i \in DOMAIN toClient : toClient[i] \in Frames /\ toClient[i].turn \in Turns
  <2>1. \A i \in DOMAIN toClient : toClient[i] \in Frames
    BY LenProperties, ElementOfSeq DEF TypesOK
  <2>. QED
    BY <2>1 DEF Frames
<1>4. \A k \in DOMAIN items : items[k].turn \in Turns
  BY DEF TypesOK, RowsOK, RowOK
<1>5. \A j \in DOMAIN toServer : toServer[j] \in Turns
  BY LenProperties, ElementOfSeq DEF TypesOK
<1>6. \A j \in DOMAIN pending : pending[j][1] \in Turns
  <2>1. \A j \in DOMAIN pending : pending[j] \in Tokens
    BY LenProperties, ElementOfSeq DEF TypesOK
  <2>. QED
    BY <2>1 DEF Tokens
<1>. QED
  BY <1>1, <1>2, <1>3, <1>4, <1>5, <1>6

(* The tools keep their turns; a new one is of the frame that was read.    *)
LEMMA ToolTurns ==
  ASSUME TypesOK, NEW f,
         \/ ToolsStay(items') \/ CallRows(items', f) \/ ResultRows(items', f) \/ StoppedRows(items')
  PROVE  \A k \in Tools' : \/ k \in Tools /\ items'[k].turn = items[k].turn
                           \/ f.kind = "tool_call" /\ items'[k].turn = f.turn
BY DEF Tools, ToolsStay, CallRows, ResultRows, StoppedRows, SameTool, ToolRow

-----------------------------------------------------------------------------
(* The order of the turns.                                                 *)

LEMMA TurnsInTurnKept ==
  ASSUME TypesOK, TurnsInTurn, [Next]_vars
  PROVE  TurnsInTurn'
<1>1. /\ Turns \subseteq Nat /\ 0 \notin Turns /\ \A t \in Turns : t > 0
      /\ slot \in Nat /\ lastDelta \in Nat /\ begun \in Nat
      /\ \A i \in DOMAIN toClient : toClient[i].turn \in Turns
      /\ \A k \in DOMAIN items : items[k].turn \in Turns
      /\ \A j \in DOMAIN toServer : toServer[j] \in Turns
  BY TurnNumbers
<1>2. /\ \A i, j \in DOMAIN toServer : i < j => toServer[i] < toServer[j]
      /\ \A j \in DOMAIN toServer : toServer[j] <= begun
  BY DEF TurnsInTurn
<1>. DEFINE Known(t) == /\ slot < t /\ lastDelta < t
                        /\ \A i \in DOMAIN toClient : toClient[i].turn < t
                        /\ \A k \in Tools : items[k].turn < t
                        /\ outcome[t].kind = "none"
<1>3. \A t \in Turns : Fresh(t) => Known(t)
  BY DEF TurnsInTurn
<1>4. ASSUME UNCHANGED toServer, begun' = begun, NEW t \in Turns, Fresh(t)' PROVE Fresh(t)
  BY <1>4 DEF Fresh
<1>5. UNCHANGED items => Tools' = Tools
  BY DEF Tools
<1>6. ASSUME toServer # <<>>, toServer' = Tail(toServer), begun' = begun
      PROVE  /\ Head(toServer) \in Turns /\ Fresh(Head(toServer))
             /\ \A i, j \in DOMAIN toServer' : i < j => toServer'[i] < toServer'[j]
             /\ \A j \in DOMAIN toServer' : toServer'[j] <= begun'
             /\ \A t \in Turns : Fresh(t)' => Fresh(t) /\ Head(toServer) < t
  <2>1. /\ 1 \in DOMAIN toServer /\ Head(toServer) = toServer[1] /\ Head(toServer) \in Turns
        /\ \A j \in DOMAIN toServer' :
              /\ j \in Nat /\ j >= 1
              /\ j + 1 \in DOMAIN toServer /\ toServer'[j] = toServer[j + 1]
    BY <1>6, ServerRead
  <2>2. \A i, j \in DOMAIN toServer' : i < j => toServer'[i] < toServer'[j]
    BY <1>2, <2>1
  <2>3. \A j \in DOMAIN toServer' : toServer'[j] <= begun' /\ toServer[1] < toServer'[j]
    BY <1>2, <1>6, <2>1
  <2>4. ASSUME NEW t \in Turns, Fresh(t)' PROVE Fresh(t) /\ Head(toServer) < t
    <3>1. CASE t > begun
      <4>1. toServer[1] \in Nat /\ toServer[1] <= begun
        BY <1>1, <1>2, <2>1
      <4>. QED
        BY <1>1, <2>1, <3>1, <4>1 DEF Fresh
    <3>2. CASE \E j \in DOMAIN toServer' : toServer'[j] = t
      BY <2>1, <2>3, <3>2 DEF Fresh
    <3>. QED
      BY <1>6, <2>4, <3>1, <3>2 DEF Fresh
  <2>. QED
    BY <2>1, <2>2, <2>3, <2>4 DEF Fresh
<1>7. CASE Takes
  <2>. SUFFICES ASSUME NEW t \in Turns, Fresh(t)' PROVE Known(t)'
    BY <1>6, <1>7 DEF TurnsInTurn, Takes, clientVars
  <2>1. Known(t) /\ Head(toServer) < t
    BY <1>3, <1>6, <1>7 DEF Takes, clientVars
  <2>. QED
    BY <1>5, <1>7, <2>1 DEF Takes, clientVars
<1>8. CASE Refuses
  <2>. SUFFICES ASSUME NEW t \in Turns, Fresh(t)' PROVE Known(t)'
    BY <1>6, <1>8 DEF TurnsInTurn, Refuses, clientVars
  <2>1. Known(t) /\ Head(toServer) < t /\ Head(toServer) \in Turns
    BY <1>3, <1>6, <1>8 DEF Refuses, clientVars
  <2>. DEFINE g == Response("refused", Head(toServer), 0)
  <2>2. g \in Frames /\ g.turn = Head(toServer)
    BY <2>1, FrameTypes DEF Response, Answers
  <2>3. \A i \in DOMAIN toClient' : toClient'[i].turn < t
    BY <1>8, <2>1, <2>2, PipeWritten DEF Refuses
  <2>. QED
    BY <1>5, <1>8, <2>1, <2>3 DEF Refuses, clientVars, loopVars
<1>9. ASSUME NEW g \in Frames, LoopWrites(g) PROVE TurnsInTurn'
  <2>. SUFFICES ASSUME NEW t \in Turns, Fresh(t)' PROVE Known(t)'
    BY <1>2, <1>9 DEF TurnsInTurn, LoopWrites, clientVars
  <2>1. Known(t) /\ g.turn = slot
    BY <1>3, <1>4, <1>9 DEF LoopWrites, clientVars
  <2>2. \A i \in DOMAIN toClient' : toClient'[i].turn < t
    BY <1>9, <2>1, PipeWritten DEF LoopWrites
  <2>. QED
    BY <1>5, <1>9, <2>1, <2>2 DEF LoopWrites, clientVars
<1>10. CASE Releases
  <2>. SUFFICES ASSUME NEW t \in Turns, Fresh(t)' PROVE Known(t)'
    BY <1>2, <1>10 DEF TurnsInTurn, Releases, clientVars
  <2>. QED
    BY <1>1, <1>3, <1>4, <1>5, <1>10 DEF Releases, clientVars
<1>11. CASE Begins
  <2>1. /\ begun' = begun + 1 /\ begun' \in Turns /\ toServer' = Append(toServer, begun')
        /\ UNCHANGED <<items, lastDelta, outcome, toClient, slot>>
    BY <1>11 DEF Begins, loopVars
  <2>2. /\ \A i, j \in DOMAIN toServer' : i < j => i \in DOMAIN toServer
        /\ \A j \in DOMAIN toServer' :
              (j \in DOMAIN toServer /\ toServer'[j] = toServer[j]) \/ toServer'[j] = begun'
        /\ \A i, j \in DOMAIN toServer' : i < j /\ j \notin DOMAIN toServer => toServer'[j] = begun'
        /\ \A i \in DOMAIN toServer : i \in DOMAIN toServer' /\ toServer'[i] = toServer[i]
    BY <2>1, ServerWritten
  <2>. DEFINE n == begun'
  <2>a. n \in Nat /\ begun < n /\ begun <= n
    BY <1>1, <2>1
  <2>b. \A j \in DOMAIN toServer : toServer[j] \in Nat /\ toServer[j] < n /\ toServer[j] <= n
    <3>. TAKE j \in DOMAIN toServer
    <3>1. toServer[j] \in Nat /\ toServer[j] <= begun
      BY <1>1, <1>2
    <3>. QED
      BY <1>1, <2>a, <3>1
  <2>. HIDE DEF n
  <2>3. \A i, j \in DOMAIN toServer' : i < j => toServer'[i] < toServer'[j]
    <3>. SUFFICES ASSUME NEW i \in DOMAIN toServer', NEW j \in DOMAIN toServer', i < j
                  PROVE  toServer'[i] < toServer'[j]
      OBVIOUS
    <3>1. i \in DOMAIN toServer /\ toServer'[i] = toServer[i]
      BY <2>2
    <3>2. CASE j \in DOMAIN toServer
      BY <1>2, <2>2, <3>1, <3>2
    <3>3. CASE j \notin DOMAIN toServer
      <4>1. toServer'[j] = n
        BY <2>2, <3>3 DEF n
      <4>. QED
        BY <2>b, <3>1, <4>1
    <3>. QED
      BY <3>2, <3>3
  <2>4. \A j \in DOMAIN toServer' : toServer'[j] <= begun'
    BY <2>2, <2>a, <2>b DEF n
  <2>5. ASSUME NEW t \in Turns, Fresh(t)' PROVE Fresh(t)
    BY <1>1, <2>1, <2>2, <2>5 DEF Fresh
  <2>6. ASSUME NEW t \in Turns, Fresh(t)' PROVE Known(t)'
    BY <1>3, <1>5, <2>1, <2>5, <2>6
  <2>. QED
    BY <2>3, <2>4, <2>6 DEF TurnsInTurn
<1>12. CASE LineArrives
  <2>1. PICK f \in Frames : Reads(f) /\ (DeltaRead(f) \/ FlushRead(f) \/ ResponseRead(f))
    BY <1>12, LinesRead
  <2>2. /\ 1 \in DOMAIN toClient /\ toClient[1] = f
        /\ \A i \in DOMAIN toClient' : i + 1 \in DOMAIN toClient /\ toClient'[i] = toClient[i + 1]
    BY <2>1, PipeRead
  <2>. SUFFICES ASSUME NEW t \in Turns, Fresh(t)' PROVE Known(t)'
    BY <1>2, <2>1 DEF TurnsInTurn, Reads
  <2>3. Known(t) /\ f.turn < t /\ f.turn \in Nat
    BY <1>1, <1>3, <1>4, <2>1, <2>2 DEF Reads
  <2>4. slot' < t /\ \A i \in DOMAIN toClient' : toClient'[i].turn < t
    BY <2>1, <2>2, <2>3 DEF Reads, loopVars
  <2>5. lastDelta' < t
    BY <2>1, <2>3 DEF DeltaRead, FlushRead, ResponseRead
  <2>6. \A k \in Tools' : items'[k].turn < t
    <3>1. CASE UNCHANGED items
      BY <1>5, <2>3, <3>1
    <3>2. CASE FlushRead(f)
      <4>1. \A k \in Tools' : \/ k \in Tools /\ items'[k].turn = items[k].turn
                              \/ items'[k].turn = f.turn
        BY <3>2, ToolTurns DEF FlushRead
      <4>. QED
        BY <2>3, <4>1
    <3>. QED
      BY <2>1, <3>1, <3>2 DEF DeltaRead, ResponseRead
  <2>7. outcome'[t].kind = "none"
    <3>1. \/ UNCHANGED outcome \/ outcome' = [outcome EXCEPT ![f.turn] = f]
      BY <2>1 DEF DeltaRead, FlushRead, ResponseRead
    <3>2. f.turn # t /\ outcome = [u \in Turns |-> outcome[u]]
      BY <1>1, <2>3 DEF TypesOK
    <3>. QED
      BY <2>3, <3>1, <3>2
  <2>. QED
    BY <2>4, <2>5, <2>6, <2>7
<1>13. ASSUME ToolsStay(items'), UNCHANGED <<lastDelta, begun, outcome, toServer, toClient, slot>>
       PROVE  TurnsInTurn'
  <2>. SUFFICES ASSUME NEW t \in Turns, Fresh(t)' PROVE Known(t)'
    BY <1>2, <1>13 DEF TurnsInTurn
  <2>1. Known(t)
    BY <1>3, <1>4, <1>13
  <2>2. \A k \in Tools' : k \in Tools /\ items'[k].turn = items[k].turn
    BY <1>13 DEF ToolsStay, SameTool, Tools
  <2>. QED
    BY <1>13, <2>1, <2>2
<1>14. CASE ThrottleFires
  BY <1>13, <1>14, ThrottleFired DEF Fires, loopVars
<1>15. ASSUME NEW t \in Turns, TurnSettled(t) PROVE TurnsInTurn'
  BY <1>13, <1>15, TurnsSettled DEF Settles, loopVars
<1>16. CASE Nothing
  <2>1. UNCHANGED <<items, lastDelta, begun, outcome, toServer, toClient, slot>>
    BY <1>16 DEF Nothing, clientVars, loopVars
  <2>2. ToolsStay(items')
    BY <2>1 DEF ToolsStay, SameTool
  <2>. QED
    BY <1>13, <2>1, <2>2
<1>. QED
  BY Steps, <1>7, <1>8, <1>9, <1>10, <1>11, <1>12, <1>14, <1>15, <1>16

(* Steps of App's own leave the pipes and the tools alone.                 *)
Aside ==
  ToolsStay(items') /\ UNCHANGED <<lastDelta, outcome, toClient, loopVars>>

LEMMA AsideSteps ==
  ASSUME TypesOK,
         Begins \/ ThrottleFires \/ (\E t \in Turns : TurnSettled(t)) \/ Nothing
  PROVE  Aside
<1>1. UNCHANGED items => ToolsStay(items')
  BY DEF ToolsStay, SameTool
<1>. QED
  BY <1>1, ThrottleFired, TurnsSettled DEF Aside, Begins, Fires, Settles, Nothing, clientVars

LEMMA AsideTools ==
  ASSUME Aside
  PROVE  \A k \in Tools' : /\ k \in Tools /\ items'[k].turn = items[k].turn
                           /\ items'[k].id = items[k].id /\ items'[k].status = items[k].status
BY DEF Aside, ToolsStay, SameTool, Tools

LEMMA FramesInOrderKept ==
  ASSUME TypesOK, TurnsInTurn, FramesInOrder, [Next]_vars
  PROVE  FramesInOrder'
<1>1. /\ Turns \subseteq Nat
      /\ slot \in Nat /\ lastDelta \in Nat
      /\ \A i \in DOMAIN toClient : toClient[i].turn \in Nat
      /\ \A k \in Tools : items[k].turn \in Nat
  BY TurnNumbers DEF Tools
<1>2. /\ \A i, j \in Ofloop : i < j => toClient[i].turn <= toClient[j].turn
      /\ \A i \in Ofloop :
           /\ lastDelta <= toClient[i].turn
           /\ \A k \in Tools : items[k].turn <= toClient[i].turn
           /\ slot # 0 => toClient[i].turn <= slot
      /\ slot # 0 => lastDelta <= slot /\ \A k \in Tools : items[k].turn <= slot
  BY DEF FramesInOrder
<1>3. UNCHANGED items => Tools' = Tools
  BY DEF Tools
<1>4. UNCHANGED toClient => Ofloop' = Ofloop
  BY DEF Ofloop
<1>5. CASE Takes
  <2>. DEFINE h == Head(toServer)
  <2>1. h \in Turns /\ h \in Nat /\ Fresh(h)
    BY <1>1, <1>5, ServerRead DEF Takes, Fresh
  <2>2. /\ lastDelta < h /\ \A i \in DOMAIN toClient : toClient[i].turn < h
        /\ \A k \in Tools : items[k].turn < h
    BY <2>1 DEF TurnsInTurn
  <2>3. /\ slot' = h /\ Ofloop' = Ofloop /\ Tools' = Tools
        /\ UNCHANGED <<toClient, items, lastDelta>>
    BY <1>3, <1>4, <1>5 DEF Takes, clientVars
  <2>4. \A i \in Ofloop : i \in DOMAIN toClient
    BY DEF Ofloop
  <2>5. /\ \A i \in Ofloop : toClient[i].turn <= h
        /\ lastDelta <= h /\ \A k \in Tools : items[k].turn <= h
    BY <1>1, <2>1, <2>2, <2>4
  <2>. HIDE DEF h
  <2>. QED
    BY <1>2, <2>3, <2>5 DEF FramesInOrder
<1>6. CASE Refuses
  <2>. DEFINE g == Response("refused", Head(toServer), 0)
  <2>1. g \in Frames /\ g.kind = "refused" /\ toClient' = Append(toClient, g)
    BY <1>6, ServerRead, FrameTypes DEF Refuses, Response, Answers
  <2>. HIDE DEF g
  <2>2. \A i \in Ofloop' : i \in Ofloop /\ toClient'[i] = toClient[i]
    BY <2>1, PipeWritten DEF Ofloop
  <2>3. Tools' = Tools /\ UNCHANGED <<items, lastDelta, slot>>
    BY <1>3, <1>6 DEF Refuses, clientVars, loopVars
  <2>. QED
    BY <1>2, <2>2, <2>3 DEF FramesInOrder
<1>7. ASSUME NEW g \in Frames, LoopWrites(g) PROVE FramesInOrder'
  <2>1. /\ g.turn = slot /\ g.kind # "refused" /\ slot # 0 /\ toClient' = Append(toClient, g)
        /\ UNCHANGED <<items, lastDelta, slot>>
    BY <1>7 DEF LoopWrites, clientVars
  <2>2. PICK last \in DOMAIN toClient' :
           /\ toClient'[last] = g
           /\ \A i \in DOMAIN toClient :
                /\ i \in Nat /\ i >= 1 /\ i < last
                /\ i \in DOMAIN toClient' /\ toClient'[i] = toClient[i]
           /\ \A i \in DOMAIN toClient' :
                i \in Nat /\ i >= 1 /\ (i = last \/ i \in DOMAIN toClient)
    BY <2>1, PipeWritten
  <2>3. \A i \in Ofloop' : \/ i \in Ofloop /\ toClient'[i] = toClient[i] /\ i < last
                           \/ i = last /\ toClient'[i].turn = slot
    BY <2>1, <2>2 DEF Ofloop
  <2>4. last \in Nat /\ \A i \in Ofloop' : i \in Nat
    BY <2>2 DEF Ofloop
  <2>5. \A i, j \in Ofloop' : i < j => toClient'[i].turn <= toClient'[j].turn
    <3>. SUFFICES ASSUME NEW i \in Ofloop', NEW j \in Ofloop', i < j
                  PROVE  toClient'[i].turn <= toClient'[j].turn
      OBVIOUS
    <3>1. i # last
      BY <2>3, <2>4
    <3>2. i \in Ofloop /\ toClient'[i] = toClient[i]
      BY <2>3, <3>1
    <3>. QED
      BY <1>2, <2>1, <2>3, <3>2
  <2>6. \A i \in Ofloop' :
           /\ lastDelta <= toClient'[i].turn
           /\ \A k \in Tools : items[k].turn <= toClient'[i].turn
           /\ toClient'[i].turn <= slot
    <3>. TAKE i \in Ofloop'
    <3>1. CASE i \in Ofloop /\ toClient'[i] = toClient[i]
      BY <1>2, <2>1, <3>1
    <3>2. CASE toClient'[i].turn = slot
      BY <1>1, <1>2, <2>1, <3>2
    <3>. QED
      BY <2>3, <3>1, <3>2
  <2>. QED
    BY <1>2, <1>3, <2>1, <2>5, <2>6 DEF FramesInOrder
<1>8. CASE Releases
  BY <1>2, <1>3, <1>4, <1>8 DEF Releases, clientVars, FramesInOrder
<1>9. CASE LineArrives
  <2>1. PICK f \in Frames : Reads(f) /\ (DeltaRead(f) \/ FlushRead(f) \/ ResponseRead(f))
    BY <1>9, LinesRead
  <2>2. /\ 1 \in DOMAIN toClient /\ toClient[1] = f
        /\ \A i \in DOMAIN toClient' :
              /\ i \in Nat /\ i >= 1
              /\ i + 1 \in DOMAIN toClient /\ toClient'[i] = toClient[i + 1]
    BY <2>1, PipeRead
  <2>3. \A i \in Ofloop' : i \in Nat /\ i >= 1 /\ i + 1 \in Ofloop /\ toClient'[i] = toClient[i + 1]
    BY <2>2 DEF Ofloop
  <2>4. slot' = slot
    BY <2>1 DEF Reads, loopVars
  <2>5. \A i, j \in Ofloop' : i < j => toClient'[i].turn <= toClient'[j].turn
    BY <1>2, <2>3
  <2>6. f.kind # "refused" => /\ \A i \in Ofloop' : f.turn <= toClient'[i].turn
                              /\ slot # 0 => f.turn <= slot
    <3>. SUFFICES ASSUME f.kind # "refused"
                  PROVE  /\ \A i \in Ofloop' : f.turn <= toClient'[i].turn
                         /\ slot # 0 => f.turn <= slot
      OBVIOUS
    <3>1. 1 \in Ofloop
      BY <2>2 DEF Ofloop
    <3>2. \A i \in Ofloop' : 1 < i + 1
      BY <2>3
    <3>. QED
      BY <1>2, <2>2, <2>3, <3>1, <3>2
  <2>7. \A i \in Ofloop' : /\ lastDelta <= toClient'[i].turn
                           /\ \A k \in Tools : items[k].turn <= toClient'[i].turn
                           /\ slot # 0 => toClient'[i].turn <= slot
    BY <1>2, <2>3
  <2>8. CASE DeltaRead(f)
    <3>1. lastDelta' = f.turn /\ f.kind # "refused" /\ Tools' = Tools /\ UNCHANGED items
      BY <1>3, <2>8 DEF DeltaRead
    <3>. QED
      BY <1>2, <2>4, <2>5, <2>6, <2>7, <3>1 DEF FramesInOrder
  <2>9. CASE FlushRead(f)
    <3>1. /\ \A k \in Tools' : \/ k \in Tools /\ items'[k].turn = items[k].turn
                               \/ f.kind = "tool_call" /\ items'[k].turn = f.turn
          /\ lastDelta' = lastDelta
      BY <2>9, ToolTurns DEF FlushRead
    <3>2. f.kind # "refused"
      BY <2>9 DEF FlushRead
    <3>3. /\ \A k \in Tools' : \A i \in Ofloop' : items'[k].turn <= toClient'[i].turn
          /\ \A k \in Tools' : slot # 0 => items'[k].turn <= slot
      BY <1>2, <2>6, <2>7, <3>1, <3>2
    <3>. QED
      BY <1>2, <2>4, <2>5, <2>7, <3>1, <3>3 DEF FramesInOrder
  <2>10. CASE ResponseRead(f)
    <3>1. Tools' = Tools /\ UNCHANGED <<items, lastDelta>>
      BY <1>3, <2>10 DEF ResponseRead
    <3>. QED
      BY <1>2, <2>4, <2>5, <2>7, <3>1 DEF FramesInOrder
  <2>. QED
    BY <2>1, <2>8, <2>9, <2>10
<1>10. CASE Aside
  <2>1. \A k \in Tools' : k \in Tools /\ items'[k].turn = items[k].turn
    BY <1>10, AsideTools
  <2>. QED
    BY <1>2, <1>4, <1>10, <2>1 DEF Aside, loopVars, FramesInOrder
<1>. QED
  BY Steps, AsideSteps, <1>5, <1>6, <1>7, <1>8, <1>9, <1>10

(* A frame of a turn that is over cannot come.                             *)
LEMMA AnsweredLastKept ==
  ASSUME TypesOK, TurnsInTurn, FramesInOrder, AnsweredLast, [Next]_vars
  PROVE  AnsweredLast'
<1>1. /\ Turns \subseteq Nat /\ 0 \notin Turns
      /\ slot \in Nat /\ (slot # 0 => slot \in Turns)
      /\ \A i \in DOMAIN toClient : toClient[i] \in Frames /\ toClient[i].turn \in Turns
  BY TurnNumbers
<1>2. /\ \A i \in DOMAIN toClient :
           /\ outcome[toClient[i].turn].kind = "none"
           /\ toClient[i].kind \in Answers =>
                /\ \A j \in DOMAIN toClient : i < j => toClient[j].turn # toClient[i].turn
                /\ slot = toClient[i].turn => phase = "answered"
           /\ toClient[i].kind = "loop_stopped" =>
                /\ \A j \in DOMAIN toClient :
                     i < j /\ toClient[j].turn = toClient[i].turn => toClient[j].kind \in Answers
                /\ slot = toClient[i].turn => phase \in {"stopped", "answered"}
      /\ slot # 0 /\ phase # "answered" => outcome[slot].kind = "none"
      /\ \A t \in continuations : outcome[t].kind \in Answers
  BY DEF AnsweredLast
<1>3. CASE Takes
  <2>. DEFINE h == Head(toServer)
  <2>1. h \in Turns /\ Fresh(h)
    BY <1>3, ServerRead DEF Takes, Fresh
  <2>2. h \in Nat /\ outcome[h].kind = "none" /\ \A i \in DOMAIN toClient : toClient[i].turn < h
    BY <1>1, <2>1 DEF TurnsInTurn
  <2>3. \A i \in DOMAIN toClient : toClient[i].turn # h
    BY <1>1, <2>2
  <2>4. slot' = h /\ UNCHANGED <<toClient, outcome, continuations>>
    BY <1>3 DEF Takes, clientVars
  <2>. HIDE DEF h
  <2>. QED
    BY <1>2, <2>2, <2>3, <2>4 DEF AnsweredLast
<1>4. CASE Refuses
  <2>. DEFINE h == Head(toServer)
              g == Response("refused", h, 0)
  <2>1. h \in Turns /\ Fresh(h)
    BY <1>4, ServerRead DEF Refuses, Fresh
  <2>2. /\ h \in Nat /\ outcome[h].kind = "none"
        /\ slot < h /\ \A i \in DOMAIN toClient : toClient[i].turn < h
    BY <1>1, <2>1 DEF TurnsInTurn
  <2>3. slot # h /\ \A i \in DOMAIN toClient : toClient[i].turn # h
    BY <1>1, <2>2
  <2>4. /\ g \in Frames /\ g.kind = "refused" /\ g.turn = h /\ toClient' = Append(toClient, g)
        /\ UNCHANGED <<outcome, continuations, slot, phase>>
    BY <1>4, <2>1, FrameTypes DEF Refuses, Response, Answers, clientVars, loopVars
  <2>. HIDE DEF h, g
  <2>5. PICK last \in DOMAIN toClient' :
           /\ toClient'[last] = g
           /\ \A i \in DOMAIN toClient :
                /\ i \in Nat /\ i >= 1 /\ i < last
                /\ i \in DOMAIN toClient' /\ toClient'[i] = toClient[i]
           /\ \A i \in DOMAIN toClient' :
                i \in Nat /\ i >= 1 /\ (i = last \/ i \in DOMAIN toClient)
    BY <2>4, PipeWritten
  <2>6. \A i, j \in DOMAIN toClient' : i < j => i \in DOMAIN toClient /\ toClient'[i] = toClient[i]
    BY <2>5
  <2>7. ASSUME NEW i \in DOMAIN toClient'
        PROVE  /\ outcome[toClient'[i].turn].kind = "none"
               /\ toClient'[i].kind \in Answers =>
                    /\ \A j \in DOMAIN toClient' : i < j => toClient'[j].turn # toClient'[i].turn
                    /\ slot = toClient'[i].turn => phase = "answered"
               /\ toClient'[i].kind = "loop_stopped" =>
                    /\ \A j \in DOMAIN toClient' : i < j /\ toClient'[j].turn = toClient'[i].turn =>
                         toClient'[j].kind \in Answers
                    /\ slot = toClient'[i].turn => phase \in {"stopped", "answered"}
    <3>1. CASE i = last
      BY <2>2, <2>3, <2>4, <2>5, <2>6, <3>1
    <3>2. CASE i \in DOMAIN toClient
      BY <1>2, <2>3, <2>4, <2>5, <3>2
    <3>. QED
      BY <2>5, <3>1, <3>2
  <2>. QED
    BY <1>2, <2>4, <2>7 DEF AnsweredLast
<1>5. ASSUME NEW g \in Frames, LoopWrites(g) PROVE AnsweredLast'
  <2>1. /\ g.turn = slot /\ slot # 0 /\ toClient' = Append(toClient, g)
        /\ UNCHANGED <<outcome, continuations, slot>>
        /\ phase \notin {"answered"}
        /\ phase = "stopped" => g.kind \in Answers /\ phase' = "answered"
        /\ g.kind \in Answers => phase' = "answered"
        /\ g.kind = "loop_stopped" => phase' = "stopped"
    BY <1>5 DEF LoopWrites, clientVars, Rounds, Answers, Result
  <2>2. PICK last \in DOMAIN toClient' :
           /\ toClient'[last] = g
           /\ \A i \in DOMAIN toClient :
                /\ i \in Nat /\ i >= 1 /\ i < last
                /\ i \in DOMAIN toClient' /\ toClient'[i] = toClient[i]
           /\ \A i \in DOMAIN toClient' :
                i \in Nat /\ i >= 1 /\ (i = last \/ i \in DOMAIN toClient)
    BY <2>1, PipeWritten
  <2>3. \A i, j \in DOMAIN toClient' : i < j => i \in DOMAIN toClient /\ toClient'[i] = toClient[i]
    BY <2>2
  <2>4. ASSUME NEW i \in DOMAIN toClient'
        PROVE  /\ outcome[toClient'[i].turn].kind = "none"
               /\ toClient'[i].kind \in Answers =>
                    /\ \A j \in DOMAIN toClient' : i < j => toClient'[j].turn # toClient'[i].turn
                    /\ slot = toClient'[i].turn => phase' = "answered"
               /\ toClient'[i].kind = "loop_stopped" =>
                    /\ \A j \in DOMAIN toClient' : i < j /\ toClient'[j].turn = toClient'[i].turn =>
                         toClient'[j].kind \in Answers
                    /\ slot = toClient'[i].turn => phase' \in {"stopped", "answered"}
    <3>1. CASE i = last
      BY <1>2, <2>1, <2>2, <2>3, <3>1
    <3>2. CASE i \in DOMAIN toClient
      BY <1>2, <2>1, <2>2, <3>2
    <3>. QED
      BY <2>2, <3>1, <3>2
  <2>. QED
    BY <1>2, <2>1, <2>4 DEF AnsweredLast
<1>6. CASE Releases
  <2>1. slot' = 0 /\ UNCHANGED <<toClient, outcome, continuations>>
    BY <1>6 DEF Releases, clientVars
  <2>. QED
    BY <1>1, <1>2, <2>1 DEF AnsweredLast
<1>7. CASE LineArrives
  <2>1. PICK f \in Frames : Reads(f) /\ (DeltaRead(f) \/ FlushRead(f) \/ ResponseRead(f))
    BY <1>7, LinesRead
  <2>2. /\ 1 \in DOMAIN toClient /\ toClient[1] = f
        /\ \A i \in DOMAIN toClient' :
              /\ i \in Nat /\ i >= 1
              /\ i + 1 \in DOMAIN toClient /\ toClient'[i] = toClient[i + 1]
        /\ slot' = slot /\ phase' = phase
    BY <2>1, PipeRead DEF Reads, loopVars
  <2>3. ASSUME UNCHANGED <<outcome, continuations>> PROVE AnsweredLast'
    BY <1>2, <2>2, <2>3 DEF AnsweredLast
  <2>4. CASE ResponseRead(f)
    <3>1. /\ outcome' = [outcome EXCEPT ![f.turn] = f] /\ f.kind \in Answers
          /\ continuations' = continuations \cup {f.turn}
      BY <2>4 DEF ResponseRead
    <3>2. f.turn \in Turns /\ outcome = [t \in Turns |-> outcome[t]]
      BY <1>1, <2>2 DEF TypesOK
    <3>3. outcome'[f.turn] = f /\ \A t \in Turns : t # f.turn => outcome'[t] = outcome[t]
      BY <3>1, <3>2
    <3>4. \A i \in DOMAIN toClient' : toClient'[i].turn # f.turn /\ toClient'[i].turn \in Turns
      BY <1>1, <1>2, <2>2, <3>1
    <3>5. slot = f.turn => phase = "answered"
      BY <1>2, <2>2, <3>1
    <3>6. continuations \subseteq Turns
      BY DEF TypesOK
    <3>7. \A t \in continuations' : outcome'[t].kind \in Answers
      BY <1>2, <3>1, <3>2, <3>3, <3>6
    <3>8. slot # 0 /\ phase # "answered" => outcome'[slot].kind = "none"
      BY <1>1, <1>2, <3>3, <3>5
    <3>9. ASSUME NEW i \in DOMAIN toClient'
          PROVE  /\ outcome'[toClient'[i].turn].kind = "none"
                 /\ toClient'[i].kind \in Answers =>
                      /\ \A j \in DOMAIN toClient' : i < j => toClient'[j].turn # toClient'[i].turn
                      /\ slot = toClient'[i].turn => phase = "answered"
                 /\ toClient'[i].kind = "loop_stopped" =>
                      /\ \A j \in DOMAIN toClient' : i < j /\ toClient'[j].turn = toClient'[i].turn =>
                           toClient'[j].kind \in Answers
                      /\ slot = toClient'[i].turn => phase \in {"stopped", "answered"}
      BY <1>2, <2>2, <3>3, <3>4
    <3>. QED
      BY <2>2, <3>7, <3>8, <3>9 DEF AnsweredLast
  <2>. QED
    BY <2>1, <2>3, <2>4 DEF DeltaRead, FlushRead
<1>8. ASSUME Aside, continuations' \subseteq continuations PROVE AnsweredLast'
  BY <1>2, <1>8 DEF AnsweredLast, Aside, loopVars
<1>9. Begins \/ ThrottleFires \/ (\E t \in Turns : TurnSettled(t)) \/ Nothing =>
        continuations' \subseteq continuations
  BY ThrottleFired, TurnsSettled DEF Begins, Fires, Settles, Nothing, clientVars
<1>. QED
  BY Steps, AsideSteps, <1>3, <1>4, <1>5, <1>6, <1>7, <1>8, <1>9

-----------------------------------------------------------------------------
(* What is still to come for a delta or a call.                            *)

(* An answer is final.                                                     *)
LEMMA OutcomeStays ==
  ASSUME TypesOK, AnsweredLast, [Next]_vars
  PROVE  \A t \in Turns :
           /\ outcome[t].kind # "none" => outcome'[t] = outcome[t]
           /\ Raised(t) => Raised(t)'
<1>1. /\ outcome = [t \in Turns |-> outcome[t]]
      /\ \A i \in DOMAIN toClient : outcome[toClient[i].turn].kind = "none"
  BY DEF TypesOK, AnsweredLast
<1>2. UNCHANGED outcome
        \/ \E f \in Frames : Reads(f) /\ outcome' = [outcome EXCEPT ![f.turn] = f]
  BY Steps, AsideSteps, LinesRead
     DEF Aside, Takes, Refuses, LoopWrites, Releases, clientVars, DeltaRead, FlushRead, ResponseRead
<1>3. CASE UNCHANGED outcome
  BY <1>3 DEF Raised
<1>4. ASSUME NEW f \in Frames, Reads(f), outcome' = [outcome EXCEPT ![f.turn] = f]
      PROVE  \A t \in Turns : outcome[t].kind # "none" => outcome'[t] = outcome[t]
  <2>1. outcome[f.turn].kind = "none"
    BY <1>1, <1>4, PipeRead
  <2>. QED
    BY <1>1, <1>4, <2>1
<1>5. \A t \in Turns : outcome[t].kind # "none" => outcome'[t] = outcome[t]
  BY <1>2, <1>3, <1>4
<1>6. \A t \in Turns : Raised(t) => Raised(t)'
  BY <1>5 DEF Raised
<1>. QED
  BY <1>5, <1>6

LEMMA BehindRead ==
  ASSUME TypesOK, NEW f, Reads(f), NEW t, NEW kinds
  PROVE  /\ \A i \in Nat : Behind(t, i + 1, kinds) => Behind(t, i, kinds)'
         /\ Behind(t, 0, kinds) /\ ~(f.turn = t /\ f.kind \in kinds) => Behind(t, 0, kinds)'
<1>1. /\ toClient[1] = f
      /\ \A i \in DOMAIN toClient : i \in Nat /\ i >= 1
      /\ \A i \in DOMAIN toClient :
           i = 1 \/ (i - 1 \in DOMAIN toClient' /\ toClient'[i - 1] = toClient[i])
  BY PipeRead
<1>2. ASSUME NEW i \in Nat, NEW j \in DOMAIN toClient, j # 1, i + 1 < j \/ i = 0,
             toClient[j].turn = t, toClient[j].kind \in kinds
      PROVE  Behind(t, i, kinds)'
  <2>1. i < j - 1 /\ j - 1 \in DOMAIN toClient' /\ toClient'[j - 1] = toClient[j]
    BY <1>1, <1>2
  <2>. QED
    BY <1>2, <2>1 DEF Behind
<1>3. ASSUME NEW i \in Nat, Behind(t, i + 1, kinds) PROVE Behind(t, i, kinds)'
  <2>1. PICK j \in DOMAIN toClient :
          i + 1 < j /\ toClient[j].turn = t /\ toClient[j].kind \in kinds
    BY <1>3 DEF Behind
  <2>. QED
    BY <1>1, <1>2, <2>1
<1>4. ASSUME Behind(t, 0, kinds), ~(f.turn = t /\ f.kind \in kinds) PROVE Behind(t, 0, kinds)'
  <2>1. PICK j \in DOMAIN toClient : toClient[j].turn = t /\ toClient[j].kind \in kinds
    BY <1>4 DEF Behind
  <2>. QED
    BY <1>1, <1>2, <1>4, <2>1
<1>. QED
  BY <1>3, <1>4

LEMMA BehindWritten ==
  ASSUME TypesOK, NEW g \in Frames, toClient' = Append(toClient, g), NEW t, NEW kinds,
         NEW i \in {0} \cup DOMAIN toClient
  PROVE  /\ Behind(t, i, kinds) => Behind(t, i, kinds)'
         /\ g.turn = t /\ g.kind \in kinds => Behind(t, i, kinds)'
<1>1. PICK last \in DOMAIN toClient' :
           /\ toClient'[last] = g
           /\ \A j \in DOMAIN toClient :
                /\ j \in Nat /\ j >= 1 /\ j < last
                /\ j \in DOMAIN toClient' /\ toClient'[j] = toClient[j]
           /\ \A j \in DOMAIN toClient' :
                j \in Nat /\ j >= 1 /\ (j = last \/ j \in DOMAIN toClient)
  BY PipeWritten
<1>2. i < last
  BY <1>1
<1>. QED
  BY <1>1, <1>2 DEF Behind

(* The text at position i of the pipe, and at i - 1 once a line was read.  *)
LEMMA FlushStaysAhead ==
  ASSUME TypesOK, AnsweredLast, [Next]_vars, NEW t \in Turns
  PROVE  /\ ~LineArrives => \A i \in {0} \cup DOMAIN toClient : FlushAhead(t, i) => FlushAhead(t, i)'
         /\ \A f : Reads(f) => \A i \in Nat : FlushAhead(t, i + 1) => FlushAhead(t, i)'
         /\ \A f : Reads(f) /\ (DeltaRead(f) \/ ResponseRead(f)) =>
              (FlushAhead(t, 0) => FlushAhead(t, 0)')
<1>. DEFINE kinds == {"message_done", "loop_stopped", "raised"}
<1>1. Raised(t) => Raised(t)'
  BY OutcomeStays
<1>2. t # 0
  BY DEF Turns
<1>3. ASSUME NEW i \in {0} \cup DOMAIN toClient, FlushAhead(t, i), ~LineArrives PROVE FlushAhead(t, i)'
  <2>1. CASE Takes
    <3>1. Behind(t, i, kinds) => Behind(t, i, kinds)'
      BY <2>1 DEF Takes, Behind
    <3>. QED
      BY <1>1, <1>2, <1>3, <2>1, <3>1 DEF FlushAhead, Takes
  <2>2. CASE Refuses
    <3>1. Response("refused", Head(toServer), 0) \in Frames
      BY <2>2, ServerRead, FrameTypes DEF Refuses, Answers
    <3>2. Behind(t, i, kinds) => Behind(t, i, kinds)'
      BY <2>2, <3>1, BehindWritten DEF Refuses
    <3>. QED
      BY <1>1, <1>3, <2>2, <3>2 DEF FlushAhead, Refuses, loopVars
  <2>3. ASSUME NEW g \in Frames, LoopWrites(g) PROVE FlushAhead(t, i)'
    <3>1. /\ Behind(t, i, kinds) => Behind(t, i, kinds)'
          /\ g.turn = t /\ g.kind \in kinds => Behind(t, i, kinds)'
      BY <2>3, BehindWritten DEF LoopWrites
    <3>2. slot = t /\ phase \in Rounds =>
            (slot' = t /\ phase' \in Rounds) \/ (g.turn = t /\ g.kind \in kinds)
      BY <2>3 DEF LoopWrites, Rounds
    <3>. QED
      BY <1>1, <1>3, <3>1, <3>2 DEF FlushAhead
  <2>4. CASE Releases
    <3>1. Behind(t, i, kinds) => Behind(t, i, kinds)'
      BY <2>4 DEF Releases, Behind
    <3>. QED
      BY <1>1, <1>3, <2>4, <3>1 DEF FlushAhead, Releases, Rounds
  <2>5. CASE Aside
    <3>1. Behind(t, i, kinds) => Behind(t, i, kinds)'
      BY <2>5 DEF Aside, Behind
    <3>. QED
      BY <1>1, <1>3, <2>5, <3>1 DEF FlushAhead, Aside, loopVars
  <2>. QED
    BY <1>3, <2>1, <2>2, <2>3, <2>4, <2>5, Steps, AsideSteps
<1>4. ASSUME NEW f, Reads(f), NEW i \in Nat, FlushAhead(t, i + 1) PROVE FlushAhead(t, i)'
  <2>1. Behind(t, i + 1, kinds) => Behind(t, i, kinds)'
    BY <1>4, BehindRead
  <2>. QED
    BY <1>1, <1>4, <2>1 DEF FlushAhead, Reads, loopVars
<1>5. ASSUME NEW f, Reads(f), DeltaRead(f) \/ ResponseRead(f), FlushAhead(t, 0)
      PROVE  FlushAhead(t, 0)'
  <2>1. Behind(t, 0, kinds) /\ ~(f.turn = t /\ f.kind \in kinds) => Behind(t, 0, kinds)'
    BY <1>5, BehindRead
  <2>2. f.turn = t /\ f.kind \in kinds => Raised(t)'
    <3>1. f.kind \in kinds => ResponseRead(f) /\ f.kind = "raised"
      BY <1>5 DEF DeltaRead, ResponseRead, Answers
    <3>2. outcome = [u \in Turns |-> outcome[u]]
      BY DEF TypesOK
    <3>. QED
      BY <3>1, <3>2 DEF ResponseRead, Raised
  <2>. QED
    BY <1>1, <1>5, <2>1, <2>2 DEF FlushAhead, Reads, loopVars
<1>. QED
  BY <1>3, <1>4, <1>5

LEMMA TextFlushedKept ==
  ASSUME TypesOK, AnsweredLast, TextFlushed, [Next]_vars
  PROVE  TextFlushed'
<1>1. /\ \A i \in DOMAIN toClient : toClient[i].turn \in Turns
      /\ \A j \in DOMAIN pending : pending[j][1] \in Turns
  BY TurnNumbers
<1>2. /\ \A j \in DOMAIN pending : FlushAhead(pending[j][1], 0)
      /\ \A i \in DOMAIN toClient :
           toClient[i].kind = "content_delta" => FlushAhead(toClient[i].turn, i)
  BY DEF TextFlushed
<1>3. ASSUME ~LineArrives PROVE TextFlushed'
  <2>1. \A t \in Turns, i \in {0} \cup DOMAIN toClient : FlushAhead(t, i) => FlushAhead(t, i)'
    BY <1>3, FlushStaysAhead
  <2>2. UNCHANGED pending \/ pending' = <<>>
    BY <1>3, Steps, ThrottleFired, TurnsSettled
       DEF Takes, Refuses, LoopWrites, Releases, Begins, Fires, Settles, Nothing, clientVars
  <2>3. \A j \in DOMAIN pending' : FlushAhead(pending[j][1], 0)'
    <3>1. CASE UNCHANGED pending
      BY <1>1, <1>2, <2>1, <3>1
    <3>2. CASE pending' = <<>>
      BY <3>2
    <3>. QED
      BY <2>2, <3>1, <3>2
  <2>4. ASSUME NEW i \in DOMAIN toClient', toClient'[i].kind = "content_delta"
        PROVE  FlushAhead(toClient[i].turn, i)'
    <3>1. CASE i \in DOMAIN toClient /\ toClient'[i] = toClient[i]
      BY <1>1, <1>2, <2>1, <2>4, <3>1
    <3>2. ASSUME NEW g \in Frames, LoopWrites(g), toClient'[i] = g
          PROVE  FlushAhead(toClient[i].turn, i)'
      <4>1. g.turn = slot /\ slot' = slot /\ phase' \in Rounds
        BY <2>4, <3>2 DEF LoopWrites, Rounds, Result
      <4>. QED
        BY <3>2, <4>1 DEF FlushAhead
    <3>3. \/ i \in DOMAIN toClient /\ toClient'[i] = toClient[i]
          \/ \E g \in Frames : LoopWrites(g) /\ toClient'[i] = g
      <4>1. ASSUME NEW g \in Frames, toClient' = Append(toClient, g)
            PROVE  toClient'[i] = g \/ (i \in DOMAIN toClient /\ toClient'[i] = toClient[i])
        BY <4>1, PipeWritten
      <4>2. CASE Refuses
        <5>. DEFINE g == Response("refused", Head(toServer), 0)
        <5>1. g \in Frames /\ g.kind # "content_delta"
          BY <4>2, ServerRead, FrameTypes DEF Refuses, Response, Answers
        <5>2. toClient' = Append(toClient, g)
          BY <4>2 DEF Refuses
        <5>. HIDE DEF g
        <5>. QED
          BY <2>4, <4>1, <5>1, <5>2
      <4>3. CASE \E g \in Frames : LoopWrites(g)
        BY <4>1, <4>3 DEF LoopWrites
      <4>4. Takes \/ Releases \/ Aside => toClient' = toClient
        BY DEF Takes, Releases, Aside
      <4>. QED
        BY <1>3, <2>4, <4>2, <4>3, <4>4, Steps, AsideSteps
    <3>. QED
      BY <3>1, <3>2, <3>3
  <2>. QED
    BY <2>3, <2>4 DEF TextFlushed
<1>4. CASE LineArrives
  <2>1. PICK f \in Frames : Reads(f) /\ (DeltaRead(f) \/ FlushRead(f) \/ ResponseRead(f))
    BY <1>4, LinesRead
  <2>2. /\ 1 \in DOMAIN toClient /\ toClient[1] = f
        /\ \A i \in DOMAIN toClient' :
              i \in Nat /\ i + 1 \in DOMAIN toClient /\ toClient'[i] = toClient[i + 1]
    BY <2>1, PipeRead
  <2>3. \A t \in Turns, i \in Nat : FlushAhead(t, i + 1) => FlushAhead(t, i)'
    BY <2>1, FlushStaysAhead
  <2>4. \A i \in DOMAIN toClient' :
          toClient'[i].kind = "content_delta" => FlushAhead(toClient[i].turn, i)'
    BY <1>1, <1>2, <2>2, <2>3
  <2>5. CASE DeltaRead(f)
    <3>1. \A t \in Turns : FlushAhead(t, 0) => FlushAhead(t, 0)'
      BY <2>1, <2>5, FlushStaysAhead
    <3>2. f.turn \in Turns /\ FlushAhead(f.turn, 0)'
      <4>1. f.turn \in Turns /\ FlushAhead(f.turn, 1)
        BY <1>1, <1>2, <2>2, <2>5 DEF DeltaRead
      <4>2. FlushAhead(f.turn, 0 + 1) => FlushAhead(f.turn, 0)'
        BY <2>3, <4>1
      <4>. QED
        BY <4>1, <4>2
    <3>3. \A j \in DOMAIN pending' :
            (j \in DOMAIN pending /\ pending'[j] = pending[j]) \/ pending'[j][1] = f.turn
      <4>1. pending \in Seq(Tokens) /\ <<f.turn, f.n>> \in Tokens
            /\ pending' = Append(pending, <<f.turn, f.n>>) /\ <<f.turn, f.n>>[1] = f.turn
        BY <2>5 DEF TypesOK, DeltaRead, Tokens, Frames
      <4>. QED
        BY <4>1, AppendIs
    <3>4. \A j \in DOMAIN pending' : FlushAhead(pending[j][1], 0)'
      BY <1>1, <1>2, <3>1, <3>2, <3>3
    <3>. QED
      BY <2>4, <3>4 DEF TextFlushed
  <2>6. CASE FlushRead(f)
    BY <2>4, <2>6 DEF FlushRead, TextFlushed
  <2>7. CASE ResponseRead(f)
    <3>1. \A t \in Turns : FlushAhead(t, 0) => FlushAhead(t, 0)'
      BY <2>1, <2>7, FlushStaysAhead
    <3>. QED
      BY <1>1, <1>2, <2>4, <2>7, <3>1 DEF ResponseRead, TextFlushed
  <2>. QED
    BY <2>1, <2>5, <2>6, <2>7
<1>. QED
  BY <1>3, <1>4

(* A delta of the next turn finds in the throttle only what failed.        *)
LEMMA PendingOfLastKept ==
  ASSUME TypesOK, FramesInOrder, AnsweredLast, TextFlushed, PendingOfLast, [Next]_vars
  PROVE  PendingOfLast'
<1>1. /\ Turns \subseteq Nat /\ slot \in Nat /\ lastDelta \in Nat
      /\ \A i \in DOMAIN toClient : toClient[i].turn \in Nat
      /\ \A j \in DOMAIN pending : pending[j][1] \in Turns
  BY TurnNumbers
<1>2. \A t \in Turns : Raised(t) => Raised(t)'
  BY OutcomeStays
<1>3. \A j \in DOMAIN pending : pending[j][1] = lastDelta \/ Raised(pending[j][1])
  BY DEF PendingOfLast
<1>4. CASE UNCHANGED <<pending, lastDelta>>
  BY <1>1, <1>2, <1>3, <1>4 DEF PendingOfLast
<1>5. CASE pending' = <<>>
  BY <1>5 DEF PendingOfLast
<1>6. ASSUME NEW f \in Frames, Reads(f), DeltaRead(f) PROVE PendingOfLast'
  <2>1. /\ 1 \in DOMAIN toClient /\ toClient[1] = f /\ 1 \in Ofloop
        /\ \A i \in DOMAIN toClient : i \in Nat /\ i >= 1
    BY <1>6, PipeRead DEF Ofloop, DeltaRead
  <2>2. lastDelta <= f.turn /\ (slot # 0 => f.turn <= slot)
        /\ \A i \in Ofloop : 1 < i => f.turn <= toClient[i].turn
    BY <2>1 DEF FramesInOrder
  <2>3. ASSUME NEW j \in DOMAIN pending PROVE pending[j][1] = f.turn \/ Raised(pending[j][1])
    <3>. DEFINE t == pending[j][1]
    <3>1. FlushAhead(t, 0) /\ t \in Turns /\ t # 0
      BY <1>1 DEF TextFlushed, Turns
    <3>2. CASE t # lastDelta
      BY <1>3, <3>2
    <3>3. CASE t = lastDelta /\ slot = t
      BY <1>1, <2>1, <2>2, <3>1, <3>3
    <3>4. CASE t = lastDelta /\ Behind(t, 0, {"message_done", "loop_stopped", "raised"})
      <4>1. PICK i \in DOMAIN toClient : /\ toClient[i].turn = t
                                         /\ toClient[i].kind \in {"message_done", "loop_stopped", "raised"}
        BY <3>4 DEF Behind
      <4>2. i # 1 /\ i \in Ofloop
        BY <1>6, <2>1, <4>1 DEF Ofloop, DeltaRead
      <4>3. f.turn <= t
        BY <2>1, <2>2, <4>1, <4>2
      <4>. QED
        BY <1>1, <2>1, <2>2, <3>4, <4>3
    <3>. QED
      BY <3>1, <3>2, <3>3, <3>4 DEF FlushAhead
  <2>4. \A j \in DOMAIN pending' :
          (j \in DOMAIN pending /\ pending'[j] = pending[j]) \/ pending'[j][1] = f.turn
    <3>1. pending \in Seq(Tokens) /\ <<f.turn, f.n>> \in Tokens
          /\ pending' = Append(pending, <<f.turn, f.n>>) /\ <<f.turn, f.n>>[1] = f.turn
      BY <1>6 DEF TypesOK, DeltaRead, Tokens, Frames
    <3>. QED
      BY <3>1, AppendIs
  <2>5. lastDelta' = f.turn
    BY <1>6 DEF DeltaRead
  <2>. QED
    BY <1>1, <1>2, <2>3, <2>4, <2>5 DEF PendingOfLast
<1>7. \/ UNCHANGED <<pending, lastDelta>> \/ pending' = <<>>
      \/ \E f \in Frames : Reads(f) /\ DeltaRead(f)
  BY Steps, LinesRead, ThrottleFired, TurnsSettled
     DEF Takes, Refuses, LoopWrites, Releases, Begins, Fires, Settles, Nothing, clientVars,
         FlushRead, ResponseRead
<1>. QED
  BY <1>4, <1>5, <1>6, <1>7

(* The call at position i of the pipe, and at i - 1 once a line was read.  *)
LEMMA ResultStaysAhead ==
  ASSUME TypesOK, AnsweredLast, [Next]_vars, NEW t \in Turns, NEW id \in Nat
  PROVE  /\ ~LineArrives => \A i \in {0} \cup DOMAIN toClient :
              ResultAhead(t, id, i) => ResultAhead(t, id, i)'
         /\ \A f : Reads(f) => \A i \in Nat : ResultAhead(t, id, i + 1) => ResultAhead(t, id, i)'
         /\ \A f : Reads(f) /\ f # Result(t, id)
                     /\ (f.kind \in {"loop_stopped", "raised"} /\ f.turn = t => ResponseRead(f)) =>
              (ResultAhead(t, id, 0) => ResultAhead(t, id, 0)')
<1>. DEFINE kinds == {"loop_stopped", "raised"}
            Closed(i) == \E j \in DOMAIN toClient : i < j /\ toClient[j] = Result(t, id)
            Called == slot = t /\ phase \in {"stream", "tools"} /\ \E c \in DOMAIN calls : calls[c] = id
<1>1. Raised(t) => Raised(t)'
  BY OutcomeStays
<1>2. t # 0
  BY DEF Turns
<1>3. calls \in Seq(Nat)
  BY DEF TypesOK
<1>4. ASSUME NEW i \in {0} \cup DOMAIN toClient, ResultAhead(t, id, i), ~LineArrives
      PROVE  ResultAhead(t, id, i)'
  <2>1. ASSUME NEW g \in Frames, toClient' = Append(toClient, g)
        PROVE  /\ Closed(i) \/ g = Result(t, id) => Closed(i)'
               /\ Behind(t, i, kinds) => Behind(t, i, kinds)'
               /\ g.turn = t /\ g.kind \in kinds => Behind(t, i, kinds)'
    <3>1. PICK last \in DOMAIN toClient' :
           /\ toClient'[last] = g
           /\ \A j \in DOMAIN toClient :
                /\ j \in Nat /\ j >= 1 /\ j < last
                /\ j \in DOMAIN toClient' /\ toClient'[j] = toClient[j]
           /\ \A j \in DOMAIN toClient' :
                j \in Nat /\ j >= 1 /\ (j = last \/ j \in DOMAIN toClient)
      BY <2>1, PipeWritten
    <3>2. i < last
      BY <3>1
    <3>3. Closed(i) \/ g = Result(t, id) => Closed(i)'
      BY <3>1, <3>2 DEF Result
    <3>. QED
      BY <2>1, <3>3, BehindWritten
  <2>2. CASE toClient' = toClient /\ (Called => Called')
    <3>1. /\ Behind(t, i, kinds) => Behind(t, i, kinds)'
          /\ Closed(i) => Closed(i)'
      BY <2>2 DEF Behind, Result
    <3>. QED
      BY <1>1, <1>4, <2>2, <3>1 DEF ResultAhead
  <2>3. CASE Refuses
    <3>. DEFINE g == Response("refused", Head(toServer), 0)
    <3>1. g \in Frames /\ toClient' = Append(toClient, g)
      BY <2>3, ServerRead, FrameTypes DEF Refuses, Answers
    <3>2. Called => Called'
      BY <2>3 DEF Refuses, loopVars
    <3>. HIDE DEF g
    <3>3. /\ Closed(i) => Closed(i)'
          /\ Behind(t, i, kinds) => Behind(t, i, kinds)'
      BY <2>1, <3>1
    <3>. QED
      BY <1>1, <1>4, <3>2, <3>3 DEF ResultAhead
  <2>4. ASSUME NEW g \in Frames, LoopWrites(g) PROVE ResultAhead(t, id, i)'
    <3>1. /\ Closed(i) \/ g = Result(t, id) => Closed(i)'
          /\ Behind(t, i, kinds) => Behind(t, i, kinds)'
          /\ g.turn = t /\ g.kind \in kinds => Behind(t, i, kinds)'
      BY <2>1, <2>4 DEF LoopWrites
    <3>2. ASSUME Called
          PROVE  Called' \/ g = Result(t, id) \/ (g.turn = t /\ g.kind \in kinds)
      <4>1. PICK c \in DOMAIN calls : calls[c] = id
        BY <3>2
      <4>2. slot = t /\ slot' = t /\ g.turn = t /\ calls # <<>> /\ phase \in {"stream", "tools"}
        <5>1. calls # <<>>
          BY <4>1
        <5>. QED
          BY <2>4, <3>2, <5>1 DEF LoopWrites
      <4>3. CASE UNCHANGED calls /\ phase' \in {"stream", "tools"}
        BY <4>1, <4>2, <4>3
      <4>4. CASE calls' = Append(calls, g.id) /\ phase' = "stream"
        <5>1. g.id \in Nat
          BY DEF Frames
        <5>2. c \in DOMAIN calls' /\ calls'[c] = id
          BY <1>3, <4>1, <4>4, <5>1, AppendIs
        <5>. QED
          BY <4>2, <4>4, <5>2
      <4>5. CASE /\ g = Result(slot, Head(calls)) /\ calls' = Tail(calls)
                 /\ \/ phase' = "tools"
                    \/ Tail(calls) = <<>> /\ phase' \in {"stream", "stops"}
        <5>1. CASE c = 1
          BY <1>3, <4>1, <4>2, <4>5, <5>1, TailIs
        <5>2. CASE c # 1
          <6>1. c - 1 \in DOMAIN Tail(calls) /\ Tail(calls)[c - 1] = id
            <7>1. /\ Len(calls) \in Nat /\ DOMAIN calls = 1..Len(calls)
                  /\ DOMAIN Tail(calls) = 1..(Len(calls) - 1)
                  /\ \A k \in DOMAIN Tail(calls) : Tail(calls)[k] = calls[k + 1]
              BY <1>3, <4>2, TailIs
            <7>2. c - 1 \in DOMAIN Tail(calls) /\ (c - 1) + 1 = c
              BY <4>1, <5>2, <7>1
            <7>. QED
              BY <4>1, <7>1, <7>2
          <6>2. Tail(calls) # <<>>
            BY <6>1
          <6>. QED
            BY <4>2, <4>5, <6>1, <6>2
        <5>. QED
          BY <5>1, <5>2
      <4>6. CASE g.kind \in kinds
        BY <4>2, <4>6
      <4>. QED
        BY <2>4, <4>2, <4>3, <4>4, <4>5, <4>6 DEF LoopWrites, Rounds
    <3>. QED
      BY <1>1, <1>4, <3>1, <3>2 DEF ResultAhead
  <2>5. Takes => toClient' = toClient /\ (Called => Called')
    BY <1>2 DEF Takes
  <2>6. Releases => toClient' = toClient /\ (Called => Called')
    BY DEF Releases
  <2>7. Aside => toClient' = toClient /\ (Called => Called')
    BY DEF Aside, loopVars
  <2>. QED
    BY <1>4, <2>2, <2>3, <2>4, <2>5, <2>6, <2>7, Steps, AsideSteps
<1>5. ASSUME NEW f, Reads(f)
      PROVE  /\ Called => Called'
             /\ \A i \in Nat : Closed(i + 1) => Closed(i)'
             /\ Closed(0) /\ f # Result(t, id) => Closed(0)'
             /\ \A i \in Nat : Behind(t, i + 1, kinds) => Behind(t, i, kinds)'
             /\ Behind(t, 0, kinds) /\ ~(f.turn = t /\ f.kind \in kinds) => Behind(t, 0, kinds)'
  <2>1. /\ toClient[1] = f
        /\ \A i \in DOMAIN toClient : i \in Nat /\ i >= 1
        /\ \A i \in DOMAIN toClient :
             i = 1 \/ (i - 1 \in DOMAIN toClient' /\ toClient'[i - 1] = toClient[i])
    BY <1>5, PipeRead
  <2>2. ASSUME NEW i \in Nat, NEW j \in DOMAIN toClient, j # 1, i + 1 < j \/ i = 0,
               toClient[j] = Result(t, id)
        PROVE  Closed(i)'
    <3>1. i < j - 1 /\ j - 1 \in DOMAIN toClient' /\ toClient'[j - 1] = toClient[j]
      BY <2>1, <2>2
    <3>. QED
      BY <2>2, <3>1 DEF Result
  <2>3. \A i \in Nat : Closed(i + 1) => Closed(i)'
    BY <2>1, <2>2
  <2>4. Closed(0) /\ f # Result(t, id) => Closed(0)'
    BY <2>1, <2>2
  <2>5. Called => Called'
    BY <1>5 DEF Reads, loopVars
  <2>. QED
    BY <1>5, <2>3, <2>4, <2>5, BehindRead
<1>6. ASSUME NEW f, Reads(f), NEW i \in Nat, ResultAhead(t, id, i + 1)
      PROVE  ResultAhead(t, id, i)'
  BY <1>1, <1>5, <1>6 DEF ResultAhead
<1>7. ASSUME NEW f, Reads(f), f # Result(t, id), ResultAhead(t, id, 0),
             f.kind \in kinds /\ f.turn = t => ResponseRead(f)
      PROVE  ResultAhead(t, id, 0)'
  <2>1. f.turn = t /\ f.kind \in kinds => Raised(t)'
    <3>1. f.turn = t /\ f.kind \in kinds => ResponseRead(f) /\ f.kind = "raised"
      BY <1>7 DEF ResponseRead, Answers
    <3>2. outcome = [u \in Turns |-> outcome[u]]
      BY DEF TypesOK
    <3>. QED
      BY <3>1, <3>2 DEF ResponseRead, Raised
  <2>. QED
    BY <1>1, <1>5, <1>7, <2>1 DEF ResultAhead
<1>. QED
  BY <1>4, <1>6, <1>7

LEMMA RowKinds ==
  ASSUME NEW is, RowsOK(is)
  PROVE  \A k \in DOMAIN is :
           /\ is[k].turn \in Turns /\ is[k].id \in Nat
           /\ is[k].status \in {"running", "error", "ok"} => is[k].kind = "tool"
           /\ is[k].status = "streaming" => is[k].kind = "assistant"
BY DEF RowsOK, RowOK

LEMMA ToolsClosedKept ==
  ASSUME TypesOK, AnsweredLast, ToolsClosed, [Next]_vars
  PROVE  ToolsClosed'
<1>1. /\ \A i \in DOMAIN toClient : /\ toClient[i].turn \in Turns /\ toClient[i].id \in Nat
      /\ \A k \in DOMAIN items : items[k].turn \in Turns /\ items[k].id \in Nat
  BY TurnNumbers, RowKinds DEF Frames, TypesOK
<1>2. /\ \A k \in DOMAIN items : items[k].status = "running" =>
           ResultAhead(items[k].turn, items[k].id, 0)
      /\ \A i \in DOMAIN toClient : toClient[i].kind = "tool_call" =>
           ResultAhead(toClient[i].turn, toClient[i].id, i)
  BY DEF ToolsClosed
<1>3. RowsOK(items')
  BY TypesKept DEF TypesOK
<1>4. ASSUME ~LineArrives PROVE ToolsClosed'
  <2>1. \A t \in Turns, id \in Nat, i \in {0} \cup DOMAIN toClient :
          ResultAhead(t, id, i) => ResultAhead(t, id, i)'
    BY <1>4, ResultStaysAhead
  <2>2. UNCHANGED items => ToolsStay(items')
    BY DEF ToolsStay, SameTool
  <2>3. ToolsStay(items')
    BY <1>4, <2>2, Steps, AsideSteps
       DEF Aside, Takes, Refuses, LoopWrites, Releases, clientVars
  <2>4. ASSUME NEW k \in DOMAIN items', items'[k].status = "running"
        PROVE  ResultAhead(items[k].turn, items[k].id, 0)'
    <3>1. /\ k \in DOMAIN items /\ items'[k].turn = items[k].turn /\ items'[k].id = items[k].id
          /\ items[k].status = "running"
      BY <1>3, <2>3, <2>4, RowKinds DEF ToolsStay, SameTool
    <3>. QED
      BY <1>1, <1>2, <2>1, <3>1
  <2>5. ASSUME NEW i \in DOMAIN toClient', toClient'[i].kind = "tool_call"
        PROVE  ResultAhead(toClient[i].turn, toClient[i].id, i)'
    <3>1. CASE i \in DOMAIN toClient /\ toClient'[i] = toClient[i]
      BY <1>1, <1>2, <2>1, <2>5, <3>1
    <3>2. ASSUME NEW g \in Frames, LoopWrites(g), toClient'[i] = g
          PROVE  ResultAhead(toClient[i].turn, toClient[i].id, i)'
      <4>1. g.turn = slot /\ slot' = slot /\ phase' = "stream" /\ calls' = Append(calls, g.id)
        BY <2>5, <3>2 DEF LoopWrites, Result, Answers
      <4>2. calls \in Seq(Nat) /\ g.id \in Nat
        BY DEF TypesOK, Frames
      <4>3. Len(calls) + 1 \in DOMAIN calls' /\ calls'[Len(calls) + 1] = g.id
        BY <4>1, <4>2, AppendIs
      <4>. QED
        BY <3>2, <4>1, <4>3 DEF ResultAhead
    <3>3. \/ i \in DOMAIN toClient /\ toClient'[i] = toClient[i]
          \/ \E g \in Frames : LoopWrites(g) /\ toClient'[i] = g
      <4>1. ASSUME NEW g \in Frames, toClient' = Append(toClient, g)
            PROVE  toClient'[i] = g \/ (i \in DOMAIN toClient /\ toClient'[i] = toClient[i])
        BY <4>1, PipeWritten
      <4>2. CASE Refuses
        <5>. DEFINE g == Response("refused", Head(toServer), 0)
        <5>1. g \in Frames /\ g.kind # "tool_call"
          BY <4>2, ServerRead, FrameTypes DEF Refuses, Response, Answers
        <5>2. toClient' = Append(toClient, g)
          BY <4>2 DEF Refuses
        <5>. HIDE DEF g
        <5>. QED
          BY <2>5, <4>1, <5>1, <5>2
      <4>3. CASE \E g \in Frames : LoopWrites(g)
        BY <4>1, <4>3 DEF LoopWrites
      <4>4. Takes \/ Releases \/ Aside => toClient' = toClient
        BY DEF Takes, Releases, Aside
      <4>. QED
        BY <1>4, <2>5, <4>2, <4>3, <4>4, Steps, AsideSteps
    <3>. QED
      BY <3>1, <3>2, <3>3
  <2>. QED
    BY <2>4, <2>5 DEF ToolsClosed
<1>5. CASE LineArrives
  <2>1. PICK f \in Frames : Reads(f) /\ (DeltaRead(f) \/ FlushRead(f) \/ ResponseRead(f))
    BY <1>5, LinesRead
  <2>2. /\ 1 \in DOMAIN toClient /\ toClient[1] = f
        /\ \A i \in DOMAIN toClient' :
              i \in Nat /\ i + 1 \in DOMAIN toClient /\ toClient'[i] = toClient[i + 1]
    BY <2>1, PipeRead
  <2>3. \A t \in Turns, id \in Nat, i \in Nat :
          ResultAhead(t, id, i + 1) => ResultAhead(t, id, i)'
    BY <2>1, ResultStaysAhead
  <2>4. \A i \in DOMAIN toClient' : toClient'[i].kind = "tool_call" =>
          ResultAhead(toClient[i].turn, toClient[i].id, i)'
    BY <1>1, <1>2, <2>2, <2>3
  <2>5. \A t \in Turns, id \in Nat :
          f # Result(t, id) /\ (f.kind \in {"loop_stopped", "raised"} /\ f.turn = t => ResponseRead(f)) =>
            (ResultAhead(t, id, 0) => ResultAhead(t, id, 0)')
    BY <2>1, ResultStaysAhead
  <2>6. ASSUME NEW k \in DOMAIN items', items'[k].status = "running"
        PROVE  ResultAhead(items[k].turn, items[k].id, 0)'
    <3>1. items'[k].kind = "tool"
      BY <1>3, <2>6, RowKinds
    <3>2. CASE f.kind = "tool_call" /\ items'[k] = ToolRow(f.turn, f.n, f.id)
      <4>1. items'[k].turn = f.turn /\ items'[k].id = f.id
        BY <3>2 DEF ToolRow
      <4>2. ResultAhead(f.turn, f.id, 1) /\ f.turn \in Turns /\ f.id \in Nat
        BY <1>1, <1>2, <2>2, <3>2
      <4>3. ResultAhead(f.turn, f.id, 0 + 1) => ResultAhead(f.turn, f.id, 0)'
        BY <2>3, <4>2
      <4>. QED
        BY <4>1, <4>2, <4>3
    <3>3. CASE /\ k \in DOMAIN items /\ items'[k].turn = items[k].turn /\ items'[k].id = items[k].id
               /\ items[k].status = "running"
               /\ f # Result(items[k].turn, items[k].id)
               /\ f.kind # "loop_stopped" /\ (f.kind = "raised" => ResponseRead(f))
      BY <1>1, <1>2, <2>5, <3>3
    <3>4. CASE DeltaRead(f) \/ ResponseRead(f)
      <4>1. UNCHANGED items /\ f.kind \notin {"tool_result", "loop_stopped"}
            /\ (f.kind = "raised" => ResponseRead(f))
        BY <3>4 DEF DeltaRead, ResponseRead, Answers
      <4>. QED
        BY <2>6, <3>3, <4>1 DEF Result
    <3>5. CASE FlushRead(f)
      <4>1. CASE f.kind = "tool_call" /\ CallRows(items', f)
        BY <2>6, <3>1, <3>2, <3>3, <4>1 DEF CallRows, SameTool, Result
      <4>2. CASE f.kind = "tool_result" /\ ResultRows(items', f)
        BY <2>6, <3>1, <3>3, <4>2 DEF ResultRows, SameTool, Result
      <4>3. CASE f.kind = "message_done" /\ ToolsStay(items')
        BY <2>6, <3>1, <3>3, <4>3 DEF ToolsStay, SameTool, Result
      <4>4. CASE f.kind = "loop_stopped" /\ StoppedRows(items')
        BY <2>6, <3>1, <4>4 DEF StoppedRows
      <4>. QED
        BY <3>5, <4>1, <4>2, <4>3, <4>4 DEF FlushRead
    <3>. QED
      BY <2>1, <3>4, <3>5
  <2>. QED
    BY <2>4, <2>6 DEF ToolsClosed
<1>. QED
  BY <1>4, <1>5

(* A result of a tool that was cancelled does not come.                    *)
LEMMA QuietStays ==
  ASSUME TypesOK, [Next]_vars, NEW t \in Turns, ~Fresh(t), Quiet(t)
  PROVE  Quiet(t)'
<1>1. t # 0
  BY DEF Turns
<1>2. /\ \A i \in DOMAIN toClient : toClient[i].turn = t => toClient[i].kind # "tool_result"
      /\ slot = t => phase \in {"stopped", "answered"}
  BY DEF Quiet
<1>3. CASE Takes
  <2>1. Head(toServer) # t
    BY <1>3, ServerRead DEF Takes, Fresh
  <2>. QED
    BY <1>2, <1>3, <2>1 DEF Takes, Quiet
<1>4. CASE Refuses
  <2>. DEFINE g == Response("refused", Head(toServer), 0)
  <2>1. g \in Frames /\ g.kind # "tool_result" /\ toClient' = Append(toClient, g)
    BY <1>4, ServerRead, FrameTypes DEF Refuses, Response, Answers
  <2>. HIDE DEF g
  <2>2. \A i \in DOMAIN toClient' :
          toClient'[i] = g \/ (i \in DOMAIN toClient /\ toClient'[i] = toClient[i])
    BY <2>1, PipeWritten
  <2>3. slot' = slot /\ phase' = phase
    BY <1>4 DEF Refuses, loopVars
  <2>. QED
    BY <1>2, <2>1, <2>2, <2>3 DEF Quiet
<1>5. ASSUME NEW g \in Frames, LoopWrites(g) PROVE Quiet(t)'
  <2>1. \A i \in DOMAIN toClient' :
          toClient'[i] = g \/ (i \in DOMAIN toClient /\ toClient'[i] = toClient[i])
    BY <1>5, PipeWritten DEF LoopWrites
  <2>2. g.turn = slot /\ slot' = slot
    BY <1>5 DEF LoopWrites
  <2>3. phase \in {"stopped", "answered"} =>
          g.kind # "tool_result" /\ phase' \in {"stopped", "answered"}
    BY <1>5 DEF LoopWrites, Rounds
  <2>. QED
    BY <1>2, <2>1, <2>2, <2>3 DEF Quiet
<1>6. CASE Releases
  BY <1>1, <1>2, <1>6 DEF Releases, Quiet
<1>7. CASE LineArrives
  <2>1. PICK f \in Frames : Reads(f)
    BY <1>7, LinesRead
  <2>2. \A i \in DOMAIN toClient' : i + 1 \in DOMAIN toClient /\ toClient'[i] = toClient[i + 1]
    BY <2>1, PipeRead
  <2>3. slot' = slot /\ phase' = phase
    BY <2>1 DEF Reads, loopVars
  <2>. QED
    BY <1>2, <2>2, <2>3 DEF Quiet
<1>8. CASE Aside
  BY <1>2, <1>8 DEF Aside, loopVars, Quiet
<1>. QED
  BY Steps, AsideSteps, <1>3, <1>4, <1>5, <1>6, <1>7, <1>8

(* Once loop_stopped of a turn is read, the turns so far are quiet.        *)
LEMMA QuietOnceStopped ==
  ASSUME TypesOK, FramesInOrder, AnsweredLast, NEW f, Reads(f), f.kind = "loop_stopped",
         NEW k \in Tools
  PROVE  \A t : t = items[k].turn => Quiet(t)'
<1>. DEFINE t == items[k].turn
<1>1. /\ Turns \subseteq Nat /\ slot \in Nat
      /\ \A i \in DOMAIN toClient : toClient[i].turn \in Turns
      /\ t \in Turns /\ t # 0
  BY TurnNumbers DEF Tools
<1>2. /\ 1 \in DOMAIN toClient /\ toClient[1] = f
      /\ \A i \in DOMAIN toClient' :
            i \in Nat /\ i >= 1 /\ i + 1 \in DOMAIN toClient /\ toClient'[i] = toClient[i + 1]
  BY PipeRead
<1>3. 1 \in Ofloop
  BY <1>2 DEF Ofloop
<1>4. t <= f.turn /\ (slot # 0 => f.turn <= slot)
  BY <1>2, <1>3 DEF FramesInOrder
<1>5. ASSUME NEW i \in DOMAIN toClient', toClient'[i].kind = "tool_result"
      PROVE  toClient'[i].turn # t
  <2>1. i + 1 \in Ofloop /\ 1 < i + 1 /\ i + 1 \in DOMAIN toClient
    BY <1>2, <1>5 DEF Ofloop
  <2>2. f.turn <= toClient[i + 1].turn
    BY <1>2, <1>3, <2>1 DEF FramesInOrder
  <2>3. toClient[i + 1].turn # f.turn
    BY <1>2, <1>5, <2>1 DEF AnsweredLast, Answers
  <2>4. f.turn \in Nat /\ toClient[i + 1].turn \in Nat /\ t \in Nat
    BY <1>1, <1>2, <2>1
  <2>5. t < toClient[i + 1].turn
    BY <1>4, <2>2, <2>3, <2>4
  <2>. QED
    BY <1>2, <2>4, <2>5
<1>6. slot = t => phase \in {"stopped", "answered"}
  <2>1. slot = f.turn => phase \in {"stopped", "answered"}
    BY <1>2 DEF AnsweredLast
  <2>2. slot = t => slot = f.turn
    <3>1. f.turn \in Nat /\ t \in Nat
      BY <1>1, <1>2
    <3>. QED
      BY <1>1, <1>4, <3>1
  <2>. QED
    BY <2>1, <2>2
<1>7. slot' = slot /\ phase' = phase
  BY DEF Reads, loopVars
<1>8. \A u : u = t => (/\ \A i \in DOMAIN toClient' : toClient'[i].turn = u => toClient'[i].kind # "tool_result"
                       /\ slot' = u => phase' \in {"stopped", "answered"})
  BY <1>5, <1>6, <1>7
<1>. QED
  BY <1>8 DEF Quiet

LEMMA CancelledToolsKept ==
  ASSUME TypesOK, TurnsInTurn, FramesInOrder, AnsweredLast, CancelledTools, [Next]_vars
  PROVE  CancelledTools'
<1>1. RowsOK(items) /\ RowsOK(items')
  BY TypesKept DEF TypesOK
<1>2. \A k \in Tools : items[k].turn \in Turns /\ ~Fresh(items[k].turn)
  <2>. SUFFICES ASSUME NEW k \in Tools PROVE items[k].turn \in Turns /\ ~Fresh(items[k].turn)
    OBVIOUS
  <2>1. items[k].turn \in Turns /\ items[k].turn \in Nat
    BY TurnNumbers DEF Tools
  <2>. QED
    BY <2>1 DEF TurnsInTurn
<1>3. \A k \in Tools : items[k].status = "error" => Quiet(items[k].turn)
  BY DEF Tools, CancelledTools
<1>4. \A t \in Turns : ~Fresh(t) /\ Quiet(t) => Quiet(t)'
  BY QuietStays
<1>5. ASSUME NEW k \in DOMAIN items', items'[k].status = "error"
      PROVE  \/ /\ k \in Tools /\ items'[k].turn = items[k].turn /\ items[k].status = "error"
             \/ /\ k \in Tools /\ items'[k].turn = items[k].turn
                /\ \E f : Reads(f) /\ f.kind = "loop_stopped"
  <2>1. items'[k].kind = "tool"
    BY <1>1, <1>5, RowKinds
  <2>2. UNCHANGED items \/ ToolsStay(items') => k \in Tools /\ items'[k].turn = items[k].turn
          /\ items[k].status = "error"
    BY <1>5, <2>1 DEF ToolsStay, SameTool, Tools
  <2>3. CASE Aside
    BY <2>2, <2>3 DEF Aside
  <2>4. CASE Takes \/ Refuses \/ (\E g \in Frames : LoopWrites(g)) \/ Releases
    BY <2>2, <2>4 DEF Takes, Refuses, LoopWrites, Releases, clientVars
  <2>5. CASE LineArrives
    <3>1. PICK f \in Frames : Reads(f) /\ (DeltaRead(f) \/ FlushRead(f) \/ ResponseRead(f))
      BY <2>5, LinesRead
    <3>2. CASE DeltaRead(f) \/ ResponseRead(f)
      BY <2>2, <3>2 DEF DeltaRead, ResponseRead
    <3>3. CASE FlushRead(f)
      <4>1. CASE f.kind = "tool_call" /\ CallRows(items', f)
        BY <1>5, <2>1, <4>1 DEF CallRows, SameTool, Tools, ToolRow
      <4>2. CASE f.kind = "tool_result" /\ ResultRows(items', f)
        BY <1>5, <2>1, <4>2 DEF ResultRows, SameTool, Tools
      <4>3. CASE f.kind = "message_done" /\ ToolsStay(items')
        BY <2>2, <4>3
      <4>4. CASE f.kind = "loop_stopped" /\ StoppedRows(items')
        BY <1>5, <2>1, <3>1, <4>4 DEF StoppedRows, SameTool, Tools
      <4>. QED
        BY <3>3, <4>1, <4>2, <4>3, <4>4 DEF FlushRead
    <3>. QED
      BY <3>1, <3>2, <3>3
  <2>. QED
    BY <2>3, <2>4, <2>5, Steps, AsideSteps
<1>6. ASSUME NEW k \in DOMAIN items', items'[k].status = "error",
             NEW t, t = items'[k].turn
      PROVE  Quiet(t)'
  <2>1. CASE k \in Tools /\ t = items[k].turn /\ items[k].status = "error"
    BY <1>2, <1>3, <1>4, <2>1
  <2>2. CASE /\ k \in Tools /\ t = items[k].turn
             /\ \E f : Reads(f) /\ f.kind = "loop_stopped"
    BY <2>2, QuietOnceStopped
  <2>. QED
    BY <1>5, <1>6, <2>1, <2>2
<1>. QED
  BY <1>6 DEF CancelledTools

-----------------------------------------------------------------------------
(* The turns that are over.                                                *)

(* A turn is over when its end has run, and not before.                    *)
LEMMA SettledSteps ==
  ASSUME TypesOK, AnsweredLast, [Next]_vars, NEW t \in Turns
  PROVE  /\ ~Settled(t) => ~Settled(t)' \/ TurnSettled(t)
         /\ Settled(t) => outcome'[t] = outcome[t]
<1>1. /\ outcome = [u \in Turns |-> outcome[u]] /\ continuations \subseteq Turns
      /\ \A u \in continuations : outcome[u].kind \in Answers
  BY DEF TypesOK, AnsweredLast
<1>2. ASSUME ~Settled(t), UNCHANGED <<outcome, continuations>> PROVE ~Settled(t)'
  BY <1>2 DEF Settled
<1>3. ASSUME ~Settled(t), NEW f \in Frames, ResponseRead(f) PROVE ~Settled(t)'
  <2>1. CASE f.turn = t
    BY <1>3, <2>1 DEF ResponseRead, Settled
  <2>2. CASE f.turn # t
    BY <1>1, <1>3, <2>2 DEF ResponseRead, Settled
  <2>. QED
    BY <2>1, <2>2
<1>4. ASSUME ~Settled(t), NEW u \in Turns, TurnSettled(u), u # t PROVE ~Settled(t)'
  BY <1>4, TurnsSettled DEF Settles, Settled
<1>5. \/ UNCHANGED <<outcome, continuations>> \/ (\E f \in Frames : ResponseRead(f))
      \/ \E u \in Turns : TurnSettled(u)
  BY Steps, LinesRead, ThrottleFired
     DEF Takes, Refuses, LoopWrites, Releases, Begins, Fires, Nothing, clientVars, DeltaRead, FlushRead
<1>6. ~Settled(t) => ~Settled(t)' \/ TurnSettled(t)
  BY <1>2, <1>3, <1>4, <1>5
<1>7. Settled(t) => outcome'[t] = outcome[t]
  BY OutcomeStays DEF Settled
<1>. QED
  BY <1>6, <1>7

(* The turn that begins has no answer yet, and the end of any turn leaves  *)
(* none active.                                                            *)
LEMMA OpenBubblesKept ==
  ASSUME TypesOK, TurnsInTurn, AnsweredLast, OpenBubbles, [Next]_vars
  PROVE  OpenBubbles'
<1>1. /\ activeTurn \in {0} \cup Turns /\ begun \in Nat /\ Turns \subseteq Nat
      /\ \A k \in DOMAIN items : items[k].turn \in Turns
  BY TurnNumbers DEF TypesOK
<1>2. /\ activeTurn # 0 => ~Settled(activeTurn) /\ activeTurn <= begun
      /\ \A k \in DOMAIN items : items[k].status = "streaming" => ~Settled(items[k].turn)
  BY DEF OpenBubbles
<1>3. \A t \in Turns : ~Settled(t) => ~Settled(t)' \/ TurnSettled(t)
  BY SettledSteps
<1>4. CASE Begins
  <2>1. begun' \in Turns /\ begun' > begun
    BY <1>1, <1>4 DEF Begins
  <2>2. outcome[begun'].kind = "none"
    BY <2>1 DEF TurnsInTurn, Fresh
  <2>3. UNCHANGED <<items, outcome, continuations>> /\ activeTurn' = begun'
    BY <1>4 DEF Begins
  <2>4. \A t : ~Settled(t) => ~Settled(t)'
    BY <2>3 DEF Settled
  <2>5. \A t : outcome[t].kind = "none" => ~Settled(t)'
    BY <2>3 DEF Settled
  <2>6. \A t : t = activeTurn' => ~Settled(t)' /\ t <= begun'
    BY <1>1, <2>1, <2>2, <2>3, <2>5
  <2>. QED
    BY <1>2, <2>3, <2>4, <2>6 DEF OpenBubbles
<1>5. ASSUME NEW t \in Turns, TurnSettled(t) PROVE OpenBubbles'
  <2>1. Settles(t)
    BY <1>5, TurnsSettled
  <2>2. \A u \in Turns : ~Settled(u) /\ u # t => ~Settled(u)'
    BY <2>1 DEF Settles, Settled
  <2>3. activeTurn' = 0
    BY <2>1 DEF Settles
  <2>4. \A k \in DOMAIN items' : items'[k].status = "streaming" =>
          \E u \in Turns : u = items'[k].turn /\ ~Settled(u) /\ u # t
    BY <1>1, <1>2, <2>1 DEF Settles
  <2>. QED
    BY <2>2, <2>3, <2>4 DEF OpenBubbles
<1>6. ASSUME ~\E t \in Turns : TurnSettled(t), UNCHANGED <<activeTurn, begun>>,
             UNCHANGED items \/ BubblesStay(items')
      PROVE  OpenBubbles'
  <2>1. \A t \in Turns : ~Settled(t) => ~Settled(t)'
    BY <1>3, <1>6
  <2>2. \A k \in DOMAIN items' : items'[k].status = "streaming" =>
          \E u \in Turns : u = items'[k].turn /\ ~Settled(u)
    BY <1>1, <1>2, <1>6 DEF BubblesStay
  <2>3. activeTurn' # 0 => \E u \in Turns : u = activeTurn' /\ ~Settled(u) /\ u <= begun'
    BY <1>1, <1>2, <1>6
  <2>. QED
    BY <2>1, <2>2, <2>3 DEF OpenBubbles
<1>7. \/ Begins \/ (\E t \in Turns : TurnSettled(t))
      \/ UNCHANGED <<activeTurn, begun>> /\ (UNCHANGED items \/ BubblesStay(items'))
  BY Steps, LinesRead, ThrottleFired
     DEF Takes, Refuses, LoopWrites, Releases, Fires, Nothing, clientVars, Reads, DeltaRead,
         FlushRead, ResponseRead
<1>. QED
  BY <1>4, <1>5, <1>6, <1>7

-----------------------------------------------------------------------------
(* Whose text a row shows.                                                 *)

LEMMA JoinedIs ==
  ASSUME NEW S, NEW r \in Seq(S), NEW s \in Seq(S)
  PROVE  /\ r \o s \in Seq(S)
         /\ \A j \in DOMAIN (r \o s) : \/ j \in DOMAIN r /\ (r \o s)[j] = r[j]
                                       \/ \E i \in DOMAIN s : (r \o s)[j] = s[i]
<1>1. /\ r \o s \in Seq(S) /\ Len(r \o s) = Len(r) + Len(s)
      /\ \A j \in 1..(Len(r) + Len(s)) :
           (r \o s)[j] = IF j <= Len(r) THEN r[j] ELSE s[j - Len(r)]
  BY ConcatProperties
<1>2. /\ Len(r) \in Nat /\ DOMAIN r = 1..Len(r)
      /\ Len(s) \in Nat /\ DOMAIN s = 1..Len(s)
      /\ DOMAIN (r \o s) = 1..(Len(r) + Len(s))
  BY <1>1, LenProperties
<1>3. ASSUME NEW j \in DOMAIN (r \o s), j > Len(r)
      PROVE  \E i \in DOMAIN s : (r \o s)[j] = s[i]
  <2>1. j - Len(r) \in DOMAIN s /\ ~(j <= Len(r))
    BY <1>2, <1>3
  <2>. QED
    BY <1>1, <1>2, <1>3, <2>1
<1>4. ASSUME NEW j \in DOMAIN (r \o s), j <= Len(r)
      PROVE  j \in DOMAIN r /\ (r \o s)[j] = r[j]
  BY <1>1, <1>2, <1>4
<1>5. \A j \in DOMAIN (r \o s) : j <= Len(r) \/ j > Len(r)
  BY <1>2
<1>. QED
  BY <1>1, <1>3, <1>4, <1>5

OwnText(row) ==
  \A j \in DOMAIN row.text :
    row.text[j][1] = row.turn \/ (row.text[j][1] \in Turns /\ Raised(row.text[j][1]))

LEMMA TextsOwnRows ==
  ASSUME NEW is
  PROVE  TextsOwn(is) <=> \A k \in DOMAIN is : OwnText(is[k])
BY DEF TextsOwn, OwnText

LEMMA FlushedTexts ==
  ASSUME TypesOK, PendingOfLast, TextsOwn(items)
  PROVE  TextsOwn(Flushed)
<1>1. /\ \A k \in DOMAIN items :
           /\ k \in DOMAIN Flushed
           /\ \/ Flushed[k] = items[k]
              \/ /\ items[k].status = "streaming" /\ items[k].turn = lastDelta
                 /\ Flushed[k] = Extended(items[k], pending)
      /\ \A k \in DOMAIN Flushed :
           \/ k \in DOMAIN items
           \/ Flushed[k] = Bubble(lastDelta, pending, "streaming")
  BY FlushedIs
<1>2. pending \in Seq(Tokens) /\ \A k \in DOMAIN items : RowOK(items[k])
  BY DEF TypesOK, RowsOK
<1>3. \A j \in DOMAIN pending :
        pending[j][1] = lastDelta \/ (pending[j][1] \in Turns /\ Raised(pending[j][1]))
  BY TurnNumbers DEF PendingOfLast
<1>4. \A k \in DOMAIN items : OwnText(items[k])
  BY TextsOwnRows
<1>5. OwnText(Bubble(lastDelta, pending, "streaming"))
  BY <1>3 DEF OwnText, Bubble
<1>6. ASSUME NEW k \in DOMAIN items, items[k].status = "streaming", items[k].turn = lastDelta
      PROVE  OwnText(Extended(items[k], pending))
  <2>. DEFINE row == items[k]
              new == Extended(row, pending)
  <2>1. RowOK(row) /\ row.text \in Seq(Tokens) /\ OwnText(row)
    BY <1>2, <1>4, <1>6 DEF RowOK, Open
  <2>2. new.turn = row.turn /\ new.text = row.text \o pending
    BY <2>1 DEF Extended, RowOK
  <2>3. row.turn = lastDelta
    BY <1>6
  <2>. HIDE DEF row, new
  <2>4. \A j \in DOMAIN new.text : \/ j \in DOMAIN row.text /\ new.text[j] = row.text[j]
                                   \/ \E i \in DOMAIN pending : new.text[j] = pending[i]
    BY <1>2, <2>1, <2>2, JoinedIs
  <2>5. OwnText(new)
    BY <1>3, <2>1, <2>2, <2>3, <2>4 DEF OwnText
  <2>. QED
    BY <2>5 DEF new, row
<1>7. \A k \in DOMAIN Flushed : OwnText(Flushed[k])
  BY <1>1, <1>4, <1>5, <1>6
<1>. QED
  BY <1>7, TextsOwnRows

LEMMA FinalizedTexts ==
  ASSUME TypesOK, AnsweredLast, TextsOwn(items), NEW t \in Turns, TurnSettled(t)
  PROVE  TextsOwn(items')
<1>1. PICK final \in FinalTexts(t) : items' = FinalizeTurn(items, t, final)
  BY DEF TurnSettled
<1>2. RowsOK(items) /\ \A k \in DOMAIN items : RowOK(items[k])
  BY DEF TypesOK, RowsOK
<1>3. /\ \A k \in DOMAIN items :
           IF items[k].kind = "assistant" /\ items[k].turn = t
           THEN items'[k] = [items[k] EXCEPT !.status = "done"]
           ELSE items'[k] = items[k]
      /\ \A k \in DOMAIN items' : k \in DOMAIN items \/ items'[k] = Bubble(t, final, "done")
  BY <1>1, <1>2, FinalizeTurnIs
<1>4. \A k \in DOMAIN items : OwnText(items[k])
  BY TextsOwnRows
<1>5. ASSUME NEW k \in DOMAIN items PROVE OwnText(items'[k])
  <2>1. items'[k].text = items[k].text /\ items'[k].turn = items[k].turn
    BY <1>2, <1>3 DEF RowOK
  <2>. QED
    BY <1>4, <2>1 DEF OwnText
<1>6. \A j \in DOMAIN final : final[j][1] = t
  <2>1. outcome[t].kind \in Answers
    BY DEF TurnSettled, AnsweredLast
  <2>. QED
    BY <1>1, <2>1, FinalTextsAre
<1>7. OwnText(Bubble(t, final, "done"))
  BY <1>6 DEF OwnText, Bubble
<1>8. \A k \in DOMAIN items' : OwnText(items'[k])
  BY <1>3, <1>5, <1>7
<1>. QED
  BY <1>8, TextsOwnRows

LEMMA LineTexts ==
  ASSUME TypesOK, PendingOfLast, TextsOwn(items), LineArrives
  PROVE  TextsOwn(items')
<1>1. PICK f \in Frames :
        \/ UNCHANGED items \/ items' = Flushed \/ items' = LoopStopped(Flushed)
        \/ items' = Append(Flushed, ToolRow(f.turn, f.n, f.id))
        \/ items' = CloseToolCall(Flushed, f.turn, f.id)
  <2>1. Head(toClient) \in Frames
    BY TailIs DEF LineArrives, TypesOK
  <2>. QED
    BY <2>1 DEF LineArrives, DeltaArrives, ToolEventArrives, RoundEndArrives, LoopStoppedArrives,
                ResponseArrives
<1>2. RowsOK(Flushed) /\ \A k \in DOMAIN Flushed : RowOK(Flushed[k]) /\ OwnText(Flushed[k])
  BY FlushedRows, FlushedTexts, TextsOwnRows DEF RowsOK
<1>3. ASSUME NEW k \in DOMAIN Flushed, NEW row,
             \/ row = Flushed[k] \/ row = [Flushed[k] EXCEPT !.status = "ok"]
             \/ row = [Flushed[k] EXCEPT !.status = "error"]
      PROVE  OwnText(row)
  <2>1. row.text = Flushed[k].text /\ row.turn = Flushed[k].turn
    BY <1>2, <1>3 DEF RowOK
  <2>. QED
    BY <1>2, <1>3, <2>1 DEF OwnText
<1>4. CASE UNCHANGED items
  BY <1>4
<1>5. CASE items' = Flushed
  BY <1>5, FlushedTexts
<1>6. CASE items' = LoopStopped(Flushed)
  <2>1. /\ DOMAIN items' = DOMAIN Flushed
        /\ \A k \in DOMAIN Flushed :
             items'[k] = [Flushed[k] EXCEPT !.status = "error"] \/ items'[k] = Flushed[k]
    BY <1>2, <1>6, LoopStoppedIs
  <2>2. \A k \in DOMAIN items' : OwnText(items'[k])
    BY <1>2, <1>3, <2>1
  <2>. QED
    BY <2>2, TextsOwnRows
<1>7. CASE items' = Append(Flushed, ToolRow(f.turn, f.n, f.id))
  <2>. DEFINE row == ToolRow(f.turn, f.n, f.id)
  <2>1. OwnText(row)
    BY DEF OwnText, ToolRow
  <2>. HIDE DEF row
  <2>2. \A k \in DOMAIN items' : (k \in DOMAIN Flushed /\ items'[k] = Flushed[k]) \/ items'[k] = row
    <3>1. /\ Len(Flushed) \in Nat /\ DOMAIN Flushed = 1..Len(Flushed)
          /\ DOMAIN items' = 1..(Len(Flushed) + 1)
          /\ \A i \in DOMAIN Flushed : items'[i] = Flushed[i]
          /\ items'[Len(Flushed) + 1] = row
      BY <1>2, <1>7, SequenceAppended DEF RowsOK, row
    <3>. QED
      BY <3>1
  <2>3. \A k \in DOMAIN items' : OwnText(items'[k])
    BY <1>2, <2>1, <2>2
  <2>. QED
    BY <2>3, TextsOwnRows
<1>8. CASE items' = CloseToolCall(Flushed, f.turn, f.id)
  <2>1. /\ DOMAIN items' = DOMAIN Flushed
        /\ \A k \in DOMAIN Flushed :
             items'[k] = [Flushed[k] EXCEPT !.status = "ok"] \/ items'[k] = Flushed[k]
    BY <1>2, <1>8, CloseToolCallIs
  <2>2. \A k \in DOMAIN items' : OwnText(items'[k])
    BY <1>2, <1>3, <2>1
  <2>. QED
    BY <2>2, TextsOwnRows
<1>. QED
  BY <1>1, <1>4, <1>5, <1>6, <1>7, <1>8

LEMMA TextsOwnKept ==
  ASSUME TypesOK, AnsweredLast, PendingOfLast, TextsOwn(items), [Next]_vars
  PROVE  TextsOwn(items)'
<1>1. TextsOwn(items')
  <2>1. ThrottleFires => items' = Flushed
    BY DEF ThrottleFires
  <2>2. \/ UNCHANGED items \/ ThrottleFires \/ LineArrives \/ \E t \in Turns : TurnSettled(t)
    BY Steps DEF Takes, Refuses, LoopWrites, Releases, Begins, Nothing, clientVars
  <2>. QED
    BY <2>1, <2>2, FlushedTexts, LineTexts, FinalizedTexts
<1>2. \A t \in Turns : Raised(t) => Raised(t)'
  BY OutcomeStays
<1>3. \A k \in DOMAIN items' : \A j \in DOMAIN items'[k].text :
        \/ items'[k].text[j][1] = items'[k].turn
        \/ items'[k].text[j][1] \in Turns /\ Raised(items'[k].text[j][1])
  BY <1>1 DEF TextsOwn
<1>4. \A k \in DOMAIN items' : \A j \in DOMAIN items'[k].text :
        \A t : t = items'[k].text[j][1] => t = items'[k].turn \/ (t \in Turns /\ Raised(t)')
  BY <1>2, <1>3
<1>. QED
  BY <1>4 DEF TextsOwn

-----------------------------------------------------------------------------
(* The invariant.                                                          *)

LEMMA InitInv ==
  ASSUME Init
  PROVE  TranscriptInv
<1>1. 0 \in Nat /\ MaxTurns \in Nat /\ Turns \subseteq Nat /\ \A t \in Turns : t > 0
  BY TranscriptAssumption DEF Turns
<1>2. items = <<>> /\ DOMAIN items = {} /\ pending = <<>> /\ toServer = <<>> /\ toClient = <<>>
  BY DEF Init
<1>3. RowsOK(items)
  BY <1>2, EmptySeq DEF RowsOK, Sequence
<1>4. \A t \in Turns : outcome[t].kind = "none"
  BY DEF Init, Plain
<1>5. outcome \in [Turns -> [kind : Answers \cup {"none"}, turn : Turns, n : Nat, id : Nat]]
  BY <1>1 DEF Init, Plain
<1>6. emitted \in [Turns -> Seq([kind : {"text", "call"}, round : Nat])]
  BY EmptySeq DEF Init
<1>7. TypesOK
  BY <1>1, <1>2, <1>3, <1>5, <1>6, EmptySeq DEF Init, TypesOK, Rounds
<1>8. DOMAIN pending = {} /\ DOMAIN toServer = {} /\ DOMAIN toClient = {}
  BY <1>2
<1>9. Tools = {} /\ Ofloop = {}
  BY <1>2, <1>8 DEF Tools, Ofloop
<1>10. TurnsInTurn
  BY <1>1, <1>4, <1>8, <1>9 DEF Init, TurnsInTurn
<1>11. FramesInOrder /\ AnsweredLast
  BY <1>8, <1>9 DEF Init, FramesInOrder, AnsweredLast
<1>12. TextFlushed /\ PendingOfLast /\ TextsOwn(items)
  BY <1>2, <1>8 DEF TextFlushed, PendingOfLast, TextsOwn
<1>13. ToolsClosed /\ CancelledTools /\ OpenBubbles
  BY <1>2, <1>8 DEF Init, ToolsClosed, CancelledTools, OpenBubbles
<1>. QED
  BY <1>7, <1>10, <1>11, <1>12, <1>13 DEF TranscriptInv

LEMMA NextInv ==
  ASSUME TranscriptInv, [Next]_vars
  PROVE  TranscriptInv'
<1>1. /\ TypesOK /\ TurnsInTurn /\ FramesInOrder /\ AnsweredLast
      /\ TextFlushed /\ PendingOfLast /\ TextsOwn(items)
      /\ ToolsClosed /\ CancelledTools /\ OpenBubbles
  BY DEF TranscriptInv
<1>2. TypesOK' /\ TurnsInTurn' /\ FramesInOrder' /\ AnsweredLast'
  BY <1>1, TypesKept, TurnsInTurnKept, FramesInOrderKept, AnsweredLastKept
<1>3. TextFlushed' /\ PendingOfLast' /\ TextsOwn(items)'
  BY <1>1, TextFlushedKept, PendingOfLastKept, TextsOwnKept
<1>4. ToolsClosed' /\ CancelledTools' /\ OpenBubbles'
  BY <1>1, ToolsClosedKept, CancelledToolsKept, OpenBubblesKept
<1>. QED
  BY <1>2, <1>3, <1>4 DEF TranscriptInv

(* The rows, the throttle, the pipes and the gateway agree, in any order   *)
(* of lines, timers, continuations and prompts: the frames of the turns    *)
(* come in the order of the turns, the response of a turn last, and behind *)
(* every delta and every call there is what ends it.                       *)
THEOREM TranscriptInvHolds == Spec => []TranscriptInv
<1>1. Init => TranscriptInv
  BY InitInv
<1>2. TranscriptInv /\ [Next]_vars => TranscriptInv'
  BY NextInv
<1>. QED
  BY <1>1, <1>2, PTL DEF Spec

(* However late the timer of the throttle fires, appendDelta and           *)
(* finalizeTurn (transcriptStore.ts) put the text of a turn into a row of  *)
(* that turn, unless the turn failed before it was flushed.                *)
THEOREM TextStaysWithItsTurn == Spec => []TextOfItsTurn
<1>1. TranscriptInv => TextOfItsTurn
  BY DEF TranscriptInv, TextsOwn, TextOfItsTurn, Raised
<1>. QED
  BY <1>1, TranscriptInvHolds, PTL

(* end_turn and loop_stopped leave no bubble that streams and no tool that *)
(* spins for a turn whose chat.send has settled; only a turn that raised   *)
(* leaves the tools that it was running.                                   *)
THEOREM NothingSpins == Spec => []NothingSpinsForEver
<1>1. ASSUME TranscriptInv PROVE NothingSpinsForEver
  <2>1. TypesOK /\ AnsweredLast /\ ToolsClosed /\ OpenBubbles /\ RowsOK(items)
    BY <1>1 DEF TranscriptInv, TypesOK
  <2>2. ASSUME NEW k \in DOMAIN items, Open(items[k]), Settled(items[k].turn)
        PROVE  items[k].kind = "tool" /\ Raised(items[k].turn)
    <3>. DEFINE t == items[k].turn
                id == items[k].id
    <3>1. items[k].status = "running"
      BY <2>1, <2>2 DEF OpenBubbles, Open
    <3>2. items[k].kind = "tool"
      BY <2>1, <3>1, RowKinds
    <3>3. t \in Turns /\ t # 0
      BY <2>1, TurnNumbers
    <3>4. outcome[t].kind # "none"
      BY <2>2 DEF Settled
    <3>5. \A j \in DOMAIN toClient : toClient[j].turn # t
      BY <2>1, <3>4 DEF AnsweredLast
    <3>6. slot = t => phase = "answered"
      BY <2>1, <3>3, <3>4 DEF AnsweredLast
    <3>7. ResultAhead(t, id, 0)
      BY <2>1, <3>1 DEF ToolsClosed
    <3>8. \A j \in DOMAIN toClient : toClient[j] # Result(t, id)
      BY <3>5 DEF Result
    <3>. QED
      BY <3>2, <3>5, <3>6, <3>7, <3>8 DEF ResultAhead, Behind
  <2>. QED
    BY <2>2 DEF NothingSpinsForEver, Raised
<1>. QED
  BY <1>1, TranscriptInvHolds, PTL

-----------------------------------------------------------------------------
(* The rows that are finished.                                             *)

Kept(row, new) ==
  new # row => Open(row) /\ new.turn = row.turn /\ IsPrefix(row.text, new.text)

LEMMA JoinedPrefix ==
  ASSUME NEW S, NEW r \in Seq(S), NEW s \in Seq(S)
  PROVE  IsPrefix(r, r \o s) /\ IsPrefix(r, r)
<1>1. /\ Len(r) \in Nat /\ DOMAIN r = 1..Len(r)
      /\ Len(s) \in Nat /\ r \o s \in Seq(S) /\ Len(r \o s) = Len(r) + Len(s)
      /\ \A j \in 1..Len(r) : (r \o s)[j] = r[j]
  BY JoinedIs, ConcatProperties, LenProperties
<1>. DEFINE part(q) == SubSeq(q, 1, Len(r))
<1>2. part(r) = [i \in 1..Len(r) |-> r[i]] /\ part(r \o s) = [i \in 1..Len(r) |-> (r \o s)[i]]
  BY <1>1, SubSeqProperties
<1>3. part(r) = part(r \o s)
  BY <1>1, <1>2
<1>. QED
  BY <1>1, <1>3 DEF IsPrefix

LEMMA FlushedKeeps ==
  ASSUME TypesOK
  PROVE  \A k \in DOMAIN items : /\ k \in DOMAIN Flushed /\ Kept(items[k], Flushed[k])
                                 /\ items[k].kind = "tool" => Flushed[k] = items[k]
                                 /\ Flushed[k].kind = "tool" => Flushed[k] = items[k]
<1>1. \A k \in DOMAIN items :
           /\ k \in DOMAIN Flushed
           /\ \/ Flushed[k] = items[k]
              \/ items[k].status = "streaming" /\ Flushed[k] = Extended(items[k], pending)
  BY FlushedIs
<1>2. pending \in Seq(Tokens) /\ \A k \in DOMAIN items : RowOK(items[k])
  BY DEF TypesOK, RowsOK
<1>3. ASSUME NEW k \in DOMAIN items, items[k].status = "streaming"
      PROVE  /\ Kept(items[k], Extended(items[k], pending))
             /\ items[k].kind = "assistant" /\ Extended(items[k], pending).kind = "assistant"
  <2>1. Open(items[k]) /\ RowOK(items[k]) /\ items[k].text \in Seq(Tokens)
    BY <1>2, <1>3 DEF RowOK, Open
  <2>2. IsPrefix(items[k].text, items[k].text \o pending)
    BY <1>2, <2>1, JoinedPrefix
  <2>. QED
    BY <1>3, <2>1, <2>2 DEF Kept, Extended, RowOK
<1>4. \A k \in DOMAIN items : Kept(items[k], items[k])
  BY DEF Kept
<1>. QED
  BY <1>1, <1>3, <1>4

LEMMA StatusKeeps ==
  ASSUME NEW row, RowOK(row), NEW s, Open(row) \/ row.status = s
  PROVE  Kept(row, [row EXCEPT !.status = s])
<1>1. CASE Open(row)
  <2>1. row.text \in Seq(Tokens)
    BY <1>1 DEF RowOK
  <2>2. IsPrefix(row.text, row.text)
    BY <2>1, JoinedPrefix
  <2>. QED
    BY <1>1, <2>2 DEF Kept, RowOK
<1>2. CASE row.status = s
  BY <1>2 DEF Kept, RowOK
<1>. QED
  BY <1>1, <1>2

LEMMA LineKeeps ==
  ASSUME TypesOK, CancelledTools, LineArrives, NEW k \in DOMAIN items
  PROVE  k \in DOMAIN items' /\ Kept(items[k], items'[k])
<1>. DEFINE f == Head(toClient)
            row == Flushed[k]
<1>1. f \in Frames /\ 1 \in DOMAIN toClient /\ toClient[1] = f
  BY TailIs DEF LineArrives, TypesOK
<1>2. \/ UNCHANGED items \/ items' = Flushed \/ items' = LoopStopped(Flushed)
      \/ items' = Append(Flushed, ToolRow(f.turn, f.n, f.id))
      \/ f.kind = "tool_result" /\ items' = CloseToolCall(Flushed, f.turn, f.id)
  BY DEF LineArrives, DeltaArrives, ToolEventArrives, RoundEndArrives, LoopStoppedArrives,
         ResponseArrives
<1>3. /\ k \in DOMAIN Flushed /\ Kept(items[k], row)
      /\ row.kind = "tool" => row = items[k]
      /\ RowsOK(Flushed) /\ RowOK(row)
  BY FlushedKeeps, FlushedRows DEF RowsOK
<1>4. row.kind = "tool" => row.status \in {"running", "ok", "error"}
  BY <1>3 DEF RowOK
<1>. HIDE DEF f, row
<1>5. CASE UNCHANGED items
  BY <1>5 DEF Kept
<1>6. CASE items' = Flushed
  BY <1>3, <1>6 DEF row
<1>7. CASE items' = LoopStopped(Flushed)
  <2>1. /\ DOMAIN items' = DOMAIN Flushed
        /\ IF row.kind = "tool" /\ row.status = "running"
           THEN items'[k] = [row EXCEPT !.status = "error"] ELSE items'[k] = row
    BY <1>3, <1>7, LoopStoppedIs DEF row
  <2>2. row.status = "running" => Kept(row, [row EXCEPT !.status = "error"])
    BY <1>3, StatusKeeps DEF Open
  <2>. QED
    BY <1>3, <2>1, <2>2
<1>8. CASE items' = Append(Flushed, ToolRow(f.turn, f.n, f.id))
  <2>1. k \in DOMAIN items' /\ items'[k] = row
    <3>1. /\ Len(Flushed) \in Nat /\ DOMAIN Flushed = 1..Len(Flushed)
          /\ DOMAIN items' = 1..(Len(Flushed) + 1)
          /\ \A i \in DOMAIN Flushed : items'[i] = Flushed[i]
      BY <1>3, <1>8, SequenceAppended DEF RowsOK
    <3>. QED
      BY <1>3, <3>1 DEF row
  <2>. QED
    BY <1>3, <2>1
<1>9. CASE f.kind = "tool_result" /\ items' = CloseToolCall(Flushed, f.turn, f.id)
  <2>1. /\ DOMAIN items' = DOMAIN Flushed
        /\ IF row.kind = "tool" /\ row.turn = f.turn /\ row.id = f.id
           THEN items'[k] = [row EXCEPT !.status = "ok"] ELSE items'[k] = row
    BY <1>3, <1>9, CloseToolCallIs DEF row
  <2>2. row.kind = "tool" /\ row.turn = f.turn => row.status # "error"
    BY <1>1, <1>3, <1>9 DEF CancelledTools, Quiet
  <2>3. row.kind = "tool" /\ row.turn = f.turn => Kept(row, [row EXCEPT !.status = "ok"])
    BY <1>3, <1>4, <2>2, StatusKeeps DEF Open
  <2>. QED
    BY <1>3, <2>1, <2>3
<1>. QED
  BY <1>2, <1>5, <1>6, <1>7, <1>8, <1>9

LEMMA EndKeeps ==
  ASSUME TypesOK, NEW t \in Turns, TurnSettled(t), NEW k \in DOMAIN items
  PROVE  k \in DOMAIN items' /\ Kept(items[k], items'[k])
<1>1. PICK final \in FinalTexts(t) : items' = FinalizeTurn(items, t, final)
  BY DEF TurnSettled
<1>2. RowsOK(items) /\ RowOK(items[k])
  BY DEF TypesOK, RowsOK
<1>3. /\ k \in DOMAIN items'
      /\ IF items[k].kind = "assistant" /\ items[k].turn = t
         THEN items'[k] = [items[k] EXCEPT !.status = "done"]
         ELSE items'[k] = items[k]
  BY <1>1, <1>2, FinalizeTurnIs
<1>4. items[k].kind = "assistant" => Open(items[k]) \/ items[k].status = "done"
  BY <1>2 DEF RowOK, Open
<1>5. items[k].kind = "assistant" => Kept(items[k], [items[k] EXCEPT !.status = "done"])
  BY <1>2, <1>4, StatusKeeps
<1>6. Kept(items[k], items[k])
  BY DEF Kept
<1>. QED
  BY <1>3, <1>5, <1>6

(* No line of the gateway, however late, no timer and no end of a turn     *)
(* rewrites a row that is finished: a result never reaches a tool that     *)
(* loop_stopped has cancelled, and closeToolCall none of another turn.     *)
THEOREM FinishedRowsStay == Spec => FinishedRowsKept
<1>. DEFINE A == \A k \in DOMAIN items : k \in DOMAIN items' /\ Kept(items[k], items'[k])
<1>1. ASSUME TranscriptInv, [Next]_vars PROVE A
  <2>1. TypesOK /\ CancelledTools
    BY <1>1 DEF TranscriptInv
  <2>2. CASE UNCHANGED items
    BY <2>2 DEF Kept
  <2>3. CASE ThrottleFires
    BY <2>1, <2>3, FlushedKeeps DEF ThrottleFires
  <2>4. CASE LineArrives
    BY <2>1, <2>4, LineKeeps
  <2>5. CASE \E t \in Turns : TurnSettled(t)
    BY <2>1, <2>5, EndKeeps
  <2>. QED
    BY <1>1, <2>1, <2>2, <2>3, <2>4, <2>5, Steps
       DEF Takes, Refuses, LoopWrites, Releases, Begins, Nothing, clientVars
<1>2. A => \A k \in DOMAIN items :
             /\ k \in DOMAIN items'
             /\ items'[k] # items[k] =>
                  /\ Open(items[k])
                  /\ items'[k].turn = items[k].turn /\ IsPrefix(items[k].text, items'[k].text)
  BY DEF Kept
<1>. QED
  BY <1>1, <1>2, TranscriptInvHolds, PTL DEF Spec, FinishedRowsKept
-----------------------------------------------------------------------------
(* The story of the active turn: the second part of the invariant.         *)

(* The active turn is the latest one, and its bubbles are open.            *)
ActiveIsLatest ==
  /\ activeTurn \in {0, begun}
  /\ \A k \in DOMAIN items :
       items[k].kind = "assistant" /\ items[k].turn = activeTurn => items[k].status = "streaming"

(* Nothing is known of a turn that the gateway has not read.               *)
FreshUntold ==
  /\ \A t \in Turns : Fresh(t) => emitted[t] = <<>>
  /\ \A k \in DOMAIN items : ~Fresh(items[k].turn)

(* The throttle holds nothing of a turn after that of the last delta.      *)
PendingBehind == \A j \in DOMAIN pending : pending[j][1] <= lastDelta

(* Token n of turn t is a call.                                            *)
IsCall(t, n) == n \in DOMAIN emitted[t] /\ emitted[t][n].kind = "call"

(* A tool, on the screen or on its way, is a call that its turn emitted.   *)
CallsEmitted ==
  /\ \A k \in Tools : \E n \in Nat :
       items[k].text = <<<<items[k].turn, n>>>> /\ IsCall(items[k].turn, n)
  /\ \A i \in DOMAIN toClient :
       toClient[i].kind = "tool_call" => IsCall(toClient[i].turn, toClient[i].n)

(* The response of the turn names the round of its last token.             *)
LastRound(t) ==
  LET f == Response("completed", t, Last(emitted[t]).round)
  IN \/ slot = t /\ phase = "completed" /\ round = f.n
     \/ \E i \in DOMAIN toClient : toClient[i] = f
     \/ outcome[t] = f

(* What is seen of turn t.                                                 *)
SeenOf(t) == InRows(items, t) \cup InThrottle(pending, t) \cup InPipe(toClient, t)

(* All of turn t is seen, or all but the text of its last round.           *)
Told(t) ==
  \/ InOrder(SeenOf(t), Len(emitted[t]))
  \/ Late(t) /\ InOrder(SeenOf(t), Len(emitted[t]) - 1) /\ LastRound(t)

ActiveTold == activeTurn # 0 => Told(activeTurn)

StoryInv ==
  ActiveIsLatest /\ FreshUntold /\ PendingBehind /\ CallsEmitted /\ ActiveTold
-----------------------------------------------------------------------------
(* What is seen of a turn.                                                 *)

Token(f, t) == f.turn = t /\ f.kind \in {"content_delta", "tool_call"}

LEMMA RowsHave ==
  ASSUME NEW is, NEW t, NEW s
  PROVE  s \in InRows(is, t) <=>
           \E k \in DOMAIN is : is[k].turn = t /\ \E j \in InText(is[k].text, t) :
             s = Seen(is[k].text[j][2], 1, k, j)
<1>. DEFINE rows == {k \in DOMAIN is : is[k].turn = t}
            row(k) == {Seen(is[k].text[j][2], 1, k, j) : j \in InText(is[k].text, t)}
<1>1. InRows(is, t) = UNION {row(k) : k \in rows}
  BY Zenon DEF InRows
<1>2. \A k : s \in row(k) <=> \E j \in InText(is[k].text, t) : s = Seen(is[k].text[j][2], 1, k, j)
  OBVIOUS
<1>. HIDE DEF row
<1>3. s \in UNION {row(k) : k \in rows} <=> \E k \in rows : s \in row(k)
  OBVIOUS
<1>4. \A k : k \in rows <=> k \in DOMAIN is /\ is[k].turn = t
  OBVIOUS
<1>. HIDE DEF rows
<1>. QED
  BY <1>1, <1>2, <1>3, <1>4

LEMMA ThrottleHas ==
  ASSUME NEW text, NEW t, NEW s
  PROVE  s \in InThrottle(text, t) <=> \E j \in InText(text, t) : s = Seen(text[j][2], 2, 0, j)
BY Zenon DEF InThrottle

LEMMA PipeHas ==
  ASSUME NEW frames, NEW t, NEW s
  PROVE  s \in InPipe(frames, t) <=>
           \E i \in DOMAIN frames : Token(frames[i], t) /\ s = Seen(frames[i].n, 3, 0, i)
<1>. DEFINE at == {i \in DOMAIN frames : Token(frames[i], t)}
<1>1. at = {i \in DOMAIN frames : frames[i].turn = t /\ frames[i].kind \in {"content_delta", "tool_call"}}
  BY Zenon DEF Token
<1>2. InPipe(frames, t) = {Seen(frames[i].n, 3, 0, i) : i \in at}
  BY Zenon, <1>1 DEF InPipe
<1>3. \A i : i \in at <=> i \in DOMAIN frames /\ Token(frames[i], t)
  OBVIOUS
<1>. HIDE DEF at
<1>. QED
  BY <1>2, <1>3

LEMMA SeenIs ==
  ASSUME NEW n, NEW part, NEW row, NEW at
  PROVE  LET s == Seen(n, part, row, at)
         IN  s.n = n /\ s.part = part /\ s.row = row /\ s.at = at
  BY DEF Seen

LEMMA PartsAre ==
  ASSUME NEW t
  PROVE  /\ \A is : \A s \in InRows(is, t) : s.part = 1
         /\ \A text : \A s \in InThrottle(text, t) : s.part = 2 /\ s.row = 0
         /\ \A frames : \A s \in InPipe(frames, t) : s.part = 3 /\ s.row = 0
<1>1. ASSUME NEW is, NEW s \in InRows(is, t) PROVE s.part = 1
  <2>1. PICK k \in DOMAIN is : \E j \in InText(is[k].text, t) : s = Seen(is[k].text[j][2], 1, k, j)
    BY RowsHave
  <2>. QED
    BY <2>1, SeenIs
<1>2. ASSUME NEW text, NEW s \in InThrottle(text, t) PROVE s.part = 2 /\ s.row = 0
  <2>1. PICK j \in InText(text, t) : s = Seen(text[j][2], 2, 0, j)
    BY ThrottleHas
  <2>. QED
    BY <2>1, SeenIs
<1>3. ASSUME NEW frames, NEW s \in InPipe(frames, t) PROVE s.part = 3 /\ s.row = 0
  <2>1. PICK i \in DOMAIN frames : s = Seen(frames[i].n, 3, 0, i)
    BY PipeHas
  <2>. QED
    BY <2>1, SeenIs
<1>. QED
  BY <1>1, <1>2, <1>3

(* What moves without a change of the order stays in order.                *)
LEMMA OrderKept ==
  ASSUME NEW S, NEW T, NEW n, InOrder(S, n), NEW g,
         \A s \in T : g[s] \in S /\ g[s].n = s.n,
         \A q \in S : \E s \in T : s.n = q.n,
         \A r, s \in T : Before(r, s) => Before(g[r], g[s])
  PROVE  InOrder(T, n)
<1>1. {s.n : s \in S} = 1..n /\ \A r, s \in S : Before(r, s) => r.n < s.n
  BY DEF InOrder
<1>2. {s.n : s \in T} = {s.n : s \in S}
  <2>1. \A x : x \in {s.n : s \in T} => x \in {s.n : s \in S}
    OBVIOUS
  <2>2. \A x : x \in {s.n : s \in S} => x \in {s.n : s \in T}
    OBVIOUS
  <2>. QED
    BY <2>1, <2>2
<1>3. ASSUME NEW r \in T, NEW s \in T, Before(r, s) PROVE r.n < s.n
  <2>1. g[r] \in S /\ g[s] \in S /\ g[r].n = r.n /\ g[s].n = s.n
    OBVIOUS
  <2>2. Before(g[r], g[s])
    BY <1>3
  <2>3. g[r].n < g[s].n
    BY <1>1, <2>1, <2>2
  <2>. QED
    BY <2>1, <2>3
<1>. QED
  BY <1>1, <1>2, <1>3 DEF InOrder

(* One more at the end.                                                    *)
LEMMA OrderExtended ==
  ASSUME NEW S, NEW n \in Nat, InOrder(S, n), NEW x, x.n = n + 1,
         \A s \in S : ~Before(x, s), ~Before(x, x)
  PROVE  InOrder(S \cup {x}, n + 1)
<1>1. {s.n : s \in S} = 1..n /\ \A r, s \in S : Before(r, s) => r.n < s.n
  BY DEF InOrder
<1>2. \A s \in S : s.n \in 1..n
  BY <1>1
<1>3. {s.n : s \in S \cup {x}} = {s.n : s \in S} \cup {x.n}
  OBVIOUS
<1>4. (1..n) \cup {n + 1} = 1..(n + 1)
  OBVIOUS
<1>5. {s.n : s \in S \cup {x}} = 1..(n + 1)
  BY <1>1, <1>3, <1>4
<1>6. ASSUME NEW r \in S \cup {x}, NEW s \in S \cup {x}, Before(r, s) PROVE r.n < s.n
  <2>1. r \in S
    BY <1>6
  <2>2. r.n \in 1..n
    BY <1>2, <2>1
  <2>3. CASE s \in S
    BY <1>1, <1>6, <2>1, <2>3
  <2>4. CASE s = x
    BY <2>2, <2>4
  <2>. QED
    BY <1>6, <2>3, <2>4
<1>. QED
  BY <1>5, <1>6 DEF InOrder

LEMMA NothingSeen == InOrder({}, 0)
  BY DEF InOrder

-----------------------------------------------------------------------------
(* The pipe.                                                               *)

LEMMA SightingWritten ==
  ASSUME NEW frames \in Seq(Frames), NEW f \in Frames, NEW t
  PROVE  InPipe(Append(frames, f), t)
           = InPipe(frames, t) \cup (IF Token(f, t) THEN {Seen(f.n, 3, 0, Len(frames) + 1)} ELSE {})
<1>. DEFINE a == Append(frames, f)
            n == Len(frames)
            new == IF Token(f, t) THEN {Seen(f.n, 3, 0, n + 1)} ELSE {}
<1>1. /\ n \in Nat /\ DOMAIN frames = 1..n /\ DOMAIN a = 1..(n + 1)
      /\ \A i \in DOMAIN frames : a[i] = frames[i]
      /\ a[n + 1] = f
  BY AppendIs
<1>. HIDE DEF a, n
<1>2. ASSUME NEW s PROVE s \in InPipe(a, t) <=> s \in InPipe(frames, t) \cup new
  <2>1. s \in InPipe(a, t) <=>
          \E i \in DOMAIN a : Token(a[i], t) /\ s = Seen(a[i].n, 3, 0, i)
    BY Zenon, PipeHas
  <2>2. s \in InPipe(frames, t) <=>
          \E i \in DOMAIN frames : Token(frames[i], t) /\ s = Seen(frames[i].n, 3, 0, i)
    BY Zenon, PipeHas
  <2>3. s \in new <=> Token(f, t) /\ s = Seen(f.n, 3, 0, n + 1)
    OBVIOUS
  <2>. HIDE DEF new
  <2>4. \A i \in DOMAIN a : i \in DOMAIN frames \/ i = n + 1
    BY <1>1
  <2>5. n + 1 \in DOMAIN a /\ \A i \in DOMAIN frames : i \in DOMAIN a
    BY <1>1
  <2>. QED
    BY <1>1, <2>1, <2>2, <2>3, <2>4, <2>5
<1>. QED
  BY <1>2 DEF a, n

(* What is read from the pipe goes behind what was there before.           *)
LEMMA SightingRead ==
  ASSUME NEW frames \in Seq(Frames), frames # <<>>, NEW t, NEW n,
         NEW A, \A s \in A : s.part \in {1, 2},
         InOrder(A \cup InPipe(frames, t), n),
         NEW X, X = {} \/ (\E x : X = {x}),
         \A x \in X : /\ x.part \in {1, 2} /\ x.n = Head(frames).n
                      /\ ~Before(x, x) /\ \A s \in A : ~Before(x, s),
         X # {} <=> Token(Head(frames), t)
  PROVE  InOrder((A \cup X) \cup InPipe(Tail(frames), t), n)
<1>. DEFINE rest == Tail(frames)
            first == Seen(Head(frames).n, 3, 0, 1)
            S == A \cup InPipe(frames, t)
            T == (A \cup X) \cup InPipe(rest, t)
            g == [s \in T |-> IF s.part = 3 THEN Seen(s.n, 3, 0, s.at + 1)
                              ELSE IF s \in A THEN s ELSE first]
<1>1. /\ Len(frames) \in Nat /\ DOMAIN frames = 1..Len(frames)
      /\ 1 \in DOMAIN frames /\ Head(frames) = frames[1]
      /\ DOMAIN rest = 1..(Len(frames) - 1)
      /\ \A i \in DOMAIN rest : i + 1 \in DOMAIN frames /\ rest[i] = frames[i + 1]
  BY TailIs
<1>. HIDE DEF rest
<1>2. \A s \in InPipe(rest, t) :
        /\ s.part = 3 /\ s.row = 0 /\ s.at \in Nat /\ s.at > 0 /\ s = Seen(s.n, 3, 0, s.at)
        /\ Seen(s.n, 3, 0, s.at + 1) \in InPipe(frames, t)
  <2>. TAKE s \in InPipe(rest, t)
  <2>1. PICK i \in DOMAIN rest : Token(rest[i], t) /\ s = Seen(rest[i].n, 3, 0, i)
    BY PipeHas
  <2>2. s.part = 3 /\ s.row = 0 /\ s.at = i /\ s.n = rest[i].n
    BY <2>1, SeenIs
  <2>3. i \in Nat /\ i > 0 /\ i + 1 \in DOMAIN frames /\ frames[i + 1] = rest[i]
    BY <1>1
  <2>4. Seen(frames[i + 1].n, 3, 0, i + 1) \in InPipe(frames, t)
    BY <2>1, <2>3, PipeHas
  <2>. QED
    BY <2>1, <2>2, <2>3, <2>4
<1>3. \A q \in InPipe(frames, t) :
        \/ Token(Head(frames), t) /\ q = first
        \/ \E s \in InPipe(rest, t) : s.n = q.n
  <2>. TAKE q \in InPipe(frames, t)
  <2>1. PICK i \in DOMAIN frames : Token(frames[i], t) /\ q = Seen(frames[i].n, 3, 0, i)
    BY PipeHas
  <2>2. CASE i = 1
    BY <1>1, <2>1, <2>2
  <2>3. CASE i # 1
    <3>1. i - 1 \in DOMAIN rest /\ rest[i - 1] = frames[i]
      BY <1>1, <2>3
    <3>2. Seen(rest[i - 1].n, 3, 0, i - 1) \in InPipe(rest, t)
      BY <2>1, <3>1, PipeHas
    <3>. QED
      BY <2>1, <3>1, <3>2, SeenIs
  <2>. QED
    BY <2>2, <2>3
<1>4. Token(Head(frames), t) => first \in InPipe(frames, t)
  BY <1>1, PipeHas
<1>5. \A s \in T : g[s] \in S /\ g[s].n = s.n
  <2>. TAKE s \in T
  <2>1. CASE s \in InPipe(rest, t)
    BY <1>2, <2>1, SeenIs
  <2>2. CASE s \in A
    BY <2>2
  <2>3. CASE s \in X /\ s \notin A
    BY <1>4, <2>3, SeenIs
  <2>. QED
    BY <2>1, <2>2, <2>3
<1>6. \A q \in S : \E s \in T : s.n = q.n
  <2>1. \A q \in A : q \in T
    OBVIOUS
  <2>2. Token(Head(frames), t) => \E x \in T : x.n = first.n
    BY SeenIs
  <2>. QED
    BY <1>3, <2>1, <2>2
<1>7. ASSUME NEW r \in T, NEW s \in T, Before(r, s) PROVE Before(g[r], g[s])
  <2>. HIDE DEF first
  <2>0. first.part = 3 /\ first.row = 0 /\ first.at = 1
    BY SeenIs DEF first
  <2>1. /\ r \in A => g[r] = r /\ r.part \in {1, 2}
        /\ r \in X /\ r \notin A => g[r] = first /\ r.part \in {1, 2}
        /\ r \in InPipe(rest, t) => g[r] = Seen(r.n, 3, 0, r.at + 1) /\ r.part = 3 /\ r.row = 0 /\ r.at \in Nat /\ r.at > 0
    BY <1>2
  <2>2. /\ s \in A => g[s] = s /\ s.part \in {1, 2}
        /\ s \in X /\ s \notin A => g[s] = first /\ s.part \in {1, 2}
        /\ s \in InPipe(rest, t) => g[s] = Seen(s.n, 3, 0, s.at + 1) /\ s.part = 3 /\ s.row = 0 /\ s.at \in Nat /\ s.at > 0
    BY <1>2
  <2>. HIDE DEF g
  <2>3. CASE r \in InPipe(rest, t)
    <3>1. s \in InPipe(rest, t) /\ r.at < s.at
      BY <1>7, <2>1, <2>2, <2>3 DEF Before
    <3>. QED
      BY <2>1, <2>2, <2>3, <3>1, SeenIs DEF Before
  <2>4. CASE r \in A
    <3>1. CASE s \in A
      BY <1>7, <2>1, <2>2, <2>4, <3>1
    <3>2. CASE s \notin A
      <4>1. g[s].part = 3
        BY <2>0, <2>2, <3>2, SeenIs
      <4>. QED
        BY <2>1, <2>4, <4>1 DEF Before
    <3>. QED
      BY <3>1, <3>2
  <2>5. CASE r \in X /\ r \notin A
    <3>1. s \notin A /\ s \notin X
      BY <1>7, <2>5
    <3>2. s \in InPipe(rest, t)
      BY <3>1
    <3>. QED
      BY <2>0, <2>1, <2>2, <2>5, <3>2, SeenIs DEF Before
  <2>. QED
    BY <2>3, <2>4, <2>5
<1>. HIDE DEF g, S, T
<1>8. InOrder(S, n)
  BY DEF S
<1>9. InOrder(T, n)
  BY <1>5, <1>6, <1>7, <1>8, OrderKept
<1>. QED
  BY <1>9 DEF T, rest

LEMMA NoSightingRead ==
  ASSUME NEW frames \in Seq(Frames), frames # <<>>, NEW t, NEW n,
         NEW A, \A s \in A : s.part \in {1, 2},
         InOrder(A \cup InPipe(frames, t), n), ~Token(Head(frames), t)
  PROVE  InOrder(A \cup InPipe(Tail(frames), t), n)
<1>. DEFINE X == {}
<1>1. /\ X = {} \/ (\E x : X = {x})
      /\ \A x \in X : /\ x.part \in {1, 2} /\ x.n = Head(frames).n
                      /\ ~Before(x, x) /\ \A s \in A : ~Before(x, s)
      /\ X # {} <=> Token(Head(frames), t)
  OBVIOUS
<1>2. A \cup X = A
  OBVIOUS
<1>. HIDE DEF X
<1>3. InOrder((A \cup X) \cup InPipe(Tail(frames), t), n)
  BY <1>1, SightingRead
<1>. QED
  BY <1>2, <1>3

-----------------------------------------------------------------------------
(* The rows.                                                               *)

(* What the statuses are does not matter.                                  *)
LEMMA RowsUnmoved ==
  ASSUME NEW is, NEW js, NEW t, DOMAIN js = DOMAIN is,
         \A k \in DOMAIN is : (is[k].turn = t \/ js[k].turn = t) =>
           js[k].turn = is[k].turn /\ js[k].text = is[k].text
  PROVE  InRows(js, t) = InRows(is, t)
<1>1. ASSUME NEW s PROVE s \in InRows(js, t) <=> s \in InRows(is, t)
  <2>1. ASSUME NEW k \in DOMAIN is
        PROVE  /\ is[k].turn = t <=> js[k].turn = t
               /\ is[k].turn = t => js[k].text = is[k].text
    OBVIOUS
  <2>2. ASSUME NEW k \in DOMAIN is
        PROVE  (js[k].turn = t /\ \E j \in InText(js[k].text, t) : s = Seen(js[k].text[j][2], 1, k, j))
                 <=> (is[k].turn = t /\ \E j \in InText(is[k].text, t) : s = Seen(is[k].text[j][2], 1, k, j))
    BY <2>1
  <2>. QED
    BY <2>2, RowsHave
<1>. QED
  BY <1>1

(* The text of row k, behind what it had before.                           *)
Poured(text, t, k, off) == {Seen(text[j][2], 1, k, off + j) : j \in InText(text, t)}

LEMMA PouredHas ==
  ASSUME NEW text, NEW t, NEW k, NEW off, NEW s
  PROVE  s \in Poured(text, t, k, off) <=>
           \E j \in InText(text, t) : s = Seen(text[j][2], 1, k, off + j)
BY Zenon DEF Poured

LEMMA InTextIs ==
  ASSUME NEW text \in Seq(Tokens), NEW t
  PROVE  /\ DOMAIN text = 1..Len(text) /\ Len(text) \in Nat
         /\ \A j \in InText(text, t) : j \in DOMAIN text /\ j \in Nat /\ j > 0 /\ j <= Len(text)
         /\ \A j : j \in InText(text, t) <=> j \in DOMAIN text /\ text[j][1] = t /\ text[j][2] > 0
BY LenProperties DEF InText

LEMMA RowAppended ==
  ASSUME NEW is, RowsOK(is), NEW row, NEW t, row.turn = t, row.text \in Seq(Tokens)
  PROVE  InRows(Append(is, row), t) = InRows(is, t) \cup Poured(row.text, t, Len(is) + 1, 0)
<1>. DEFINE js == Append(is, row)
            n == Len(is) + 1
<1>1. /\ DOMAIN is = 1..Len(is) /\ Len(is) \in Nat
      /\ DOMAIN js = 1..n /\ \A k \in DOMAIN is : js[k] = is[k]
      /\ js[n] = row
  BY SequenceAppended DEF RowsOK
<1>2. \A k : k \in DOMAIN js <=> k \in DOMAIN is \/ k = n
  BY <1>1
<1>3. \A j \in InText(row.text, t) : 0 + j = j
  BY InTextIs
<1>. HIDE DEF js, n
<1>4. ASSUME NEW s
      PROVE  s \in InRows(js, t) <=> s \in InRows(is, t) \cup Poured(row.text, t, n, 0)
  <2>1. s \in InRows(js, t) <=>
          \E k \in DOMAIN js : js[k].turn = t /\ \E j \in InText(js[k].text, t) :
            s = Seen(js[k].text[j][2], 1, k, j)
    BY RowsHave
  <2>2. s \in InRows(is, t) <=>
          \E k \in DOMAIN is : is[k].turn = t /\ \E j \in InText(is[k].text, t) :
            s = Seen(is[k].text[j][2], 1, k, j)
    BY RowsHave
  <2>3. s \in Poured(row.text, t, n, 0) <=>
          \E j \in InText(row.text, t) : s = Seen(row.text[j][2], 1, n, j)
    BY <1>3, PouredHas
  <2>. QED
    BY <1>1, <1>2, <2>1, <2>2, <2>3
<1>. QED
  BY <1>4 DEF js, n

LEMMA OtherRowAppended ==
  ASSUME NEW is, RowsOK(is), NEW row, NEW t, row.turn # t
  PROVE  InRows(Append(is, row), t) = InRows(is, t)
<1>. DEFINE js == Append(is, row)
            n == Len(is) + 1
<1>1. /\ DOMAIN is = 1..Len(is) /\ Len(is) \in Nat
      /\ DOMAIN js = 1..n /\ \A k \in DOMAIN is : js[k] = is[k]
      /\ js[n] = row
  BY SequenceAppended DEF RowsOK
<1>2. \A k : k \in DOMAIN js <=> k \in DOMAIN is \/ k = n
  BY <1>1
<1>. HIDE DEF js, n
<1>3. ASSUME NEW s PROVE s \in InRows(js, t) <=> s \in InRows(is, t)
  <2>1. s \in InRows(js, t) <=>
          \E k \in DOMAIN js : js[k].turn = t /\ \E j \in InText(js[k].text, t) :
            s = Seen(js[k].text[j][2], 1, k, j)
    BY RowsHave
  <2>2. s \in InRows(is, t) <=>
          \E k \in DOMAIN is : is[k].turn = t /\ \E j \in InText(is[k].text, t) :
            s = Seen(is[k].text[j][2], 1, k, j)
    BY RowsHave
  <2>. QED
    BY <1>1, <1>2, <2>1, <2>2
<1>. QED
  BY <1>3 DEF js

(* Text goes to the end of a row.                                          *)
RowExtends(is, js, K, t, text) ==
  /\ K \in DOMAIN is /\ is[K].turn = t /\ is[K].text \in Seq(Tokens)
  /\ text \in Seq(Tokens)
  /\ DOMAIN js = DOMAIN is /\ \A k \in DOMAIN is : k # K => js[k] = is[k]
  /\ js[K].turn = t /\ js[K].text = is[K].text \o text

LEMMA RowExtended ==
  ASSUME NEW is, NEW js, NEW K, NEW t, NEW text, RowExtends(is, js, K, t, text)
  PROVE  InRows(js, t) = InRows(is, t) \cup Poured(text, t, K, Len(is[K].text))
<1>. USE DEF RowExtends
<1>. DEFINE old == is[K].text
            new == old \o text
            off == Len(old)
<1>1. /\ new \in Seq(Tokens) /\ off \in Nat /\ Len(text) \in Nat
      /\ DOMAIN old = 1..off /\ DOMAIN text = 1..Len(text) /\ DOMAIN new = 1..(off + Len(text))
      /\ \A j \in DOMAIN new : new[j] = IF j <= off THEN old[j] ELSE text[j - off]
  <2>1. /\ new \in Seq(Tokens) /\ Len(new) = Len(old) + Len(text)
        /\ \A j \in 1..(Len(old) + Len(text)) :
             new[j] = IF j <= Len(old) THEN old[j] ELSE text[j - Len(old)]
    BY ConcatProperties
  <2>. QED
    BY <2>1, LenProperties
<1>9. \A j :
            /\ j \in InText(new, t) <=> j \in DOMAIN new /\ new[j][1] = t /\ new[j][2] > 0
            /\ j \in InText(old, t) <=> j \in DOMAIN old /\ old[j][1] = t /\ old[j][2] > 0
            /\ j \in InText(text, t) <=> j \in DOMAIN text /\ text[j][1] = t /\ text[j][2] > 0
  BY DEF InText
<1>2. \A j : j \in InText(new, t) <=> j \in InText(old, t) \/ \E i \in InText(text, t) : j = off + i
  <2>. TAKE j
  <2>1. CASE j \in DOMAIN new /\ j <= off
    <3>1. j \in DOMAIN old /\ new[j] = old[j]
      BY <1>1, <2>1
    <3>2. \A i \in InText(text, t) : j # off + i
      BY <1>1, <2>1, InTextIs
    <3>. QED
      BY <1>9, <2>1, <3>1, <3>2
  <2>2. CASE j \in DOMAIN new /\ ~(j <= off)
    <3>1. j - off \in DOMAIN text /\ new[j] = text[j - off] /\ j = off + (j - off) /\ j \notin DOMAIN old
      BY <1>1, <2>2
    <3>2. \A i \in InText(text, t) : j = off + i => i = j - off
      BY <1>1, <2>2, InTextIs
    <3>3. j \notin InText(old, t)
      BY <1>9, <3>1
    <3>4. j \in InText(new, t) <=> j - off \in InText(text, t)
      <4>1. j \in InText(new, t) <=> new[j][1] = t /\ new[j][2] > 0
        BY <1>9, <2>2
      <4>2. j - off \in InText(text, t) <=> text[j - off][1] = t /\ text[j - off][2] > 0
        BY <1>9, <3>1
      <4>. QED
        BY <3>1, <4>1, <4>2
    <3>. QED
      BY <3>1, <3>2, <3>3, <3>4
  <2>3. CASE j \notin DOMAIN new
    <3>1. j \notin DOMAIN old /\ \A i \in DOMAIN text : j # off + i
      BY <1>1, <2>3
    <3>. QED
      BY <1>1, <2>3, <3>1, InTextIs
  <2>. QED
    BY <2>1, <2>2, <2>3
<1>3. \A j \in InText(old, t) : new[j] = old[j]
  BY <1>1, InTextIs
<1>4. \A i \in InText(text, t) : new[off + i] = text[i]
  <2>. TAKE i \in InText(text, t)
  <2>1. i \in 1..Len(text) /\ off + i \in DOMAIN new /\ ~(off + i <= off) /\ (off + i) - off = i
    BY <1>1, InTextIs
  <2>. QED
    BY <1>1, <2>1
<1>5. js[K].text = new
  OBVIOUS
<1>. HIDE DEF new, off, old
<1>6. ASSUME NEW s
      PROVE  s \in InRows(js, t) <=> s \in InRows(is, t) \cup Poured(text, t, K, off)
  <2>1. s \in InRows(js, t) <=>
          \E k \in DOMAIN js : js[k].turn = t /\ \E j \in InText(js[k].text, t) :
            s = Seen(js[k].text[j][2], 1, k, j)
    BY ONLY RowsHave
  <2>2. s \in InRows(is, t) <=>
          \E k \in DOMAIN is : is[k].turn = t /\ \E j \in InText(is[k].text, t) :
            s = Seen(is[k].text[j][2], 1, k, j)
    BY RowsHave
  <2>3. s \in Poured(text, t, K, off) <=>
          \E i \in InText(text, t) : s = Seen(text[i][2], 1, K, off + i)
    BY PouredHas
  <2>4. (\E j \in InText(new, t) : s = Seen(new[j][2], 1, K, j)) <=>
          \/ \E j \in InText(old, t) : s = Seen(old[j][2], 1, K, j)
          \/ \E i \in InText(text, t) : s = Seen(text[i][2], 1, K, off + i)
    <3>1. ASSUME NEW j \in InText(new, t), s = Seen(new[j][2], 1, K, j)
          PROVE  \/ \E i \in InText(old, t) : s = Seen(old[i][2], 1, K, i)
                 \/ \E i \in InText(text, t) : s = Seen(text[i][2], 1, K, off + i)
      <4>1. CASE j \in InText(old, t)
        BY <1>3, <3>1, <4>1
      <4>2. ASSUME NEW i \in InText(text, t), j = off + i
            PROVE  s = Seen(text[i][2], 1, K, off + i)
        BY <1>4, <3>1, <4>2
      <4>. QED
        BY <1>2, <4>1, <4>2
    <3>2. ASSUME NEW j \in InText(old, t), s = Seen(old[j][2], 1, K, j)
          PROVE  \E i \in InText(new, t) : s = Seen(new[i][2], 1, K, i)
      BY <1>2, <1>3, <3>2
    <3>3. ASSUME NEW i \in InText(text, t), s = Seen(text[i][2], 1, K, off + i)
          PROVE  \E j \in InText(new, t) : s = Seen(new[j][2], 1, K, j)
      BY <1>2, <1>4, <3>3
    <3>. QED
      BY <3>1, <3>2, <3>3
  <2>5. is[K].text = old /\ js[K].text = new
    BY <1>5 DEF old
  <2>6. s \in InRows(js, t) <=>
          \/ \E j \in InText(new, t) : s = Seen(new[j][2], 1, K, j)
          \/ \E k \in DOMAIN is : k # K /\ is[k].turn = t /\ \E j \in InText(is[k].text, t) :
               s = Seen(is[k].text[j][2], 1, k, j)
    BY <2>1, <2>5
  <2>7. s \in InRows(is, t) <=>
          \/ \E j \in InText(old, t) : s = Seen(old[j][2], 1, K, j)
          \/ \E k \in DOMAIN is : k # K /\ is[k].turn = t /\ \E j \in InText(is[k].text, t) :
               s = Seen(is[k].text[j][2], 1, k, j)
    BY <2>2, <2>5
  <2>. HIDE DEF new, old, off
  <2>. QED
    BY <2>3, <2>4, <2>6, <2>7
<1>. QED
  BY <1>6 DEF off, old

(* What the throttle held goes behind what the rows had.                   *)
LEMMA OrderPoured ==
  ASSUME NEW R, NEW P, NEW text \in Seq(Tokens), NEW t, NEW n, NEW K \in Nat, NEW off \in Nat,
         InOrder((R \cup InThrottle(text, t)) \cup P, n),
         \A s \in R : s.part = 1 /\ (s.row < K \/ (s.row = K /\ s.at <= off /\ s.at \in Nat)),
         \A s \in R : s.row \in Nat,
         \A s \in P : s.part = 3
  PROVE  InOrder((R \cup Poured(text, t, K, off)) \cup P, n)
<1>. DEFINE H == InThrottle(text, t)
            H2 == Poured(text, t, K, off)
            S == (R \cup H) \cup P
            T == (R \cup H2) \cup P
            g == [s \in T |-> IF s \in R \cup P THEN s ELSE Seen(s.n, 2, 0, s.at - off)]
<1>1. ASSUME NEW s \in H2
      PROVE  /\ s.part = 1 /\ s.row = K /\ s.at - off \in Nat /\ s.at \in Nat /\ s.at > off
             /\ Seen(s.n, 2, 0, s.at - off) \in H
  <2>1. PICK j \in InText(text, t) : s = Seen(text[j][2], 1, K, off + j)
    BY PouredHas
  <2>2. s.part = 1 /\ s.row = K /\ s.at = off + j /\ s.n = text[j][2]
    BY <2>1, SeenIs
  <2>3. j \in Nat /\ j > 0
    BY InTextIs
  <2>4. s.at - off = j /\ s.at \in Nat /\ s.at > off
    BY <2>2, <2>3
  <2>5. Seen(text[j][2], 2, 0, j) \in H
    BY ThrottleHas
  <2>. QED
    BY <2>2, <2>3, <2>4, <2>5
<1>2. ASSUME NEW q \in H PROVE \E s \in H2 : s.n = q.n
  <2>1. PICK j \in InText(text, t) : q = Seen(text[j][2], 2, 0, j)
    BY ThrottleHas
  <2>2. Seen(text[j][2], 1, K, off + j) \in H2
    BY PouredHas
  <2>. QED
    BY <2>1, <2>2, SeenIs
<1>. HIDE DEF H, H2
<1>3. \A s \in T : g[s] \in S /\ g[s].n = s.n
  BY <1>1, SeenIs
<1>4. \A q \in S : \E s \in T : s.n = q.n
  BY <1>2
<1>5. ASSUME NEW r \in T, NEW s \in T, Before(r, s) PROVE Before(g[r], g[s])
  <2>1. /\ r \in R \cup P => g[r] = r
        /\ r \notin R \cup P => g[r] = Seen(r.n, 2, 0, r.at - off) /\ r \in H2
        /\ s \in R \cup P => g[s] = s
        /\ s \notin R \cup P => g[s] = Seen(s.n, 2, 0, s.at - off) /\ s \in H2
    OBVIOUS
  <2>. HIDE DEF g
  <2>2. CASE r \in R \cup P /\ s \in R \cup P
    BY <1>5, <2>1, <2>2
  <2>3. CASE r \notin R \cup P /\ s \in R \cup P
    <3>1. g[r].part = 2 /\ g[s] = s /\ r.part = 1 /\ r.row = K /\ r.at > off /\ r.at \in Nat
      BY <1>1, <2>1, <2>3, SeenIs
    <3>2. s \notin R
      BY <1>5, <3>1 DEF Before
    <3>. QED
      BY <2>3, <3>1, <3>2 DEF Before
  <2>4. CASE r \in R \cup P /\ s \notin R \cup P
    <3>1. g[s].part = 2 /\ g[r] = r /\ s.part = 1
      BY <1>1, <2>1, <2>4, SeenIs
    <3>2. r \notin P
      BY <1>5, <3>1 DEF Before
    <3>. QED
      BY <2>4, <3>1, <3>2 DEF Before
  <2>5. CASE r \notin R \cup P /\ s \notin R \cup P
    <3>1. /\ r.part = 1 /\ r.row = K /\ r.at \in Nat
          /\ s.part = 1 /\ s.row = K /\ s.at \in Nat
          /\ g[r] = Seen(r.n, 2, 0, r.at - off) /\ g[s] = Seen(s.n, 2, 0, s.at - off)
      BY <1>1, <2>1, <2>5
    <3>2. r.at < s.at
      BY <1>5, <3>1 DEF Before
    <3>3. r.at - off < s.at - off
      BY <3>1, <3>2
    <3>4. /\ g[r].part = 2 /\ g[r].row = 0 /\ g[r].at = r.at - off
          /\ g[s].part = 2 /\ g[s].row = 0 /\ g[s].at = s.at - off
      BY <3>1, SeenIs
    <3>. QED
      BY <3>3, <3>4 DEF Before
  <2>. QED
    BY <2>2, <2>3, <2>4, <2>5
<1>6. InOrder(S, n)
  BY DEF H
<1>. HIDE DEF g, S, T
<1>7. InOrder(T, n)
  BY <1>3, <1>4, <1>5, <1>6, OrderKept
<1>. QED
  BY <1>7 DEF T, H2

(* The latest row of a turn is behind all its rows.                        *)
LEMMA LatestIsLast ==
  ASSUME NEW is, RowsOK(is), NEW t
  PROVE  \A k \in DOMAIN is : is[k].turn = t => k <= Latest(is, t) /\ Latest(is, t) \in DOMAIN is
<1>. DEFINE rows == {k \in DOMAIN is : is[k].turn = t}
<1>1. Len(is) \in Nat /\ DOMAIN is = 1..Len(is)
  BY SequenceIs DEF RowsOK
<1>2. CASE rows = {}
  BY <1>2
<1>3. CASE rows # {}
  <2>1. rows \in SUBSET (1..Len(is))
    BY <1>1
  <2>2. \E k \in rows : \A j \in rows : j <= k
    BY <1>1, <1>3, <2>1, LargestPosition
  <2>. DEFINE k == CHOOSE k \in rows : \A j \in rows : j <= k
  <2>3. k \in rows /\ \A j \in rows : j <= k
    BY <2>2
  <2>4. Latest(is, t) = k
    BY <1>3 DEF Latest
  <2>. QED
    BY <2>3, <2>4
<1>. QED
  BY <1>2, <1>3

LEMMA RowSightings ==
  ASSUME NEW is, RowsOK(is), NEW t, NEW s \in InRows(is, t)
  PROVE  /\ s.part = 1 /\ s.row \in DOMAIN is /\ s.row \in Nat /\ is[s.row].turn = t
         /\ s.at \in InText(is[s.row].text, t)
<1>1. PICK k \in DOMAIN is : is[k].turn = t /\ \E j \in InText(is[k].text, t) :
        s = Seen(is[k].text[j][2], 1, k, j)
  BY RowsHave
<1>2. PICK j \in InText(is[k].text, t) : s = Seen(is[k].text[j][2], 1, k, j)
  BY <1>1
<1>3. s.part = 1 /\ s.row = k /\ s.at = j
  BY <1>2, SeenIs
<1>4. k \in Nat
  BY SequenceIs DEF RowsOK
<1>. QED
  BY <1>1, <1>3, <1>4

(* The bubbles of the active turn stream.                                  *)
Streaming(is) ==
  \A k \in DOMAIN is : is[k].kind = "assistant" /\ is[k].turn = activeTurn => is[k].status = "streaming"

(* Nothing of the throttle is of the active turn if its last delta is not. *)
LEMMA LastDeltaOfTurn ==
  ASSUME TypesOK, TurnsInTurn, ActiveIsLatest, PendingBehind, activeTurn # 0, lastDelta # activeTurn
  PROVE  InThrottle(pending, activeTurn) = {} /\ lastDelta < activeTurn
<1>1. activeTurn = begun /\ activeTurn \in Turns /\ Turns \subseteq Nat /\ lastDelta \in {0} \cup Turns
      /\ lastDelta \in Nat /\ begun \in Nat /\ \A t \in Turns : t > 0
  BY TurnNumbers DEF ActiveIsLatest, TypesOK
<1>2. lastDelta <= begun
  <2>1. CASE lastDelta = 0
    BY <1>1, <2>1
  <2>2. CASE lastDelta \in Turns /\ lastDelta > begun
    <3>1. lastDelta < lastDelta
      BY <2>2 DEF TurnsInTurn, Fresh
    <3>. QED
      BY <1>1, <3>1
  <2>. QED
    BY <1>1, <2>1, <2>2
<1>3. lastDelta < activeTurn
  BY <1>1, <1>2
<1>4. \A j \in DOMAIN pending : pending[j][1] \in Nat /\ pending[j][1] < activeTurn
  <2>. TAKE j \in DOMAIN pending
  <2>. DEFINE u == pending[j][1]
  <2>1. u \in Turns
    BY TurnNumbers
  <2>2. u <= lastDelta
    BY DEF PendingBehind
  <2>. HIDE DEF u
  <2>3. u \in Nat /\ u < activeTurn
    BY <1>1, <1>3, <2>1, <2>2
  <2>. QED
    BY <2>3 DEF u
<1>5. \A s : s \notin InThrottle(pending, activeTurn)
  BY <1>1, <1>4, ThrottleHas DEF InText
<1>. QED
  BY <1>3, <1>5

LEMMA NothingHeld == \A t : InThrottle(<<>>, t) = {}
<1>1. ASSUME NEW t, NEW s PROVE s \notin InThrottle(<<>>, t)
  <2>1. InText(<<>>, t) = {}
    BY DEF InText
  <2>. QED
    BY <2>1, ThrottleHas
<1>. QED
  BY <1>1

(* The flush moves the text of the active turn, and nothing else.          *)
LEMMA FlushedInOrder ==
  ASSUME TypesOK, TurnsInTurn, ActiveIsLatest, PendingBehind, activeTurn # 0,
         NEW P, \A s \in P : s.part = 3, NEW n,
         InOrder((InRows(items, activeTurn) \cup InThrottle(pending, activeTurn)) \cup P, n)
  PROVE  InOrder(InRows(Flushed, activeTurn) \cup P, n)
<1>. DEFINE t == activeTurn
            R == InRows(items, t)
<1>1. /\ RowsOK(items) /\ \A k \in DOMAIN items : RowOK(items[k])
      /\ pending \in Seq(Tokens) /\ t \in Turns /\ t # 0 /\ lastDelta \in {0} \cup Turns
  BY DEF TypesOK, RowsOK
<1>2. /\ RowsOK(Flushed)
      /\ \A k \in DOMAIN items :
           /\ k \in DOMAIN Flushed
           /\ \/ Flushed[k] = items[k]
              \/ /\ items[k].status = "streaming" /\ items[k].turn = lastDelta
                 /\ Flushed[k] = Extended(items[k], pending)
      /\ \A k \in DOMAIN Flushed :
           \/ k \in DOMAIN items
           \/ /\ lastDelta # 0 /\ activeTurn = lastDelta
              /\ Flushed[k] = Bubble(lastDelta, pending, "streaming")
  BY FlushedIs
<1>3. CASE lastDelta # t
  <2>1. InThrottle(pending, t) = {}
    BY <1>3, LastDeltaOfTurn
  <2>2. DOMAIN Flushed = DOMAIN items
    BY <1>2, <1>3
  <2>3. ASSUME NEW k \in DOMAIN items, items[k].turn = t \/ Flushed[k].turn = t
        PROVE  Flushed[k] = items[k]
    <3>1. items[k].turn = lastDelta => Extended(items[k], pending).turn = lastDelta
      BY <1>1 DEF Extended, RowOK
    <3>. QED
      BY <1>2, <1>3, <2>3, <3>1
  <2>4. InRows(Flushed, t) = InRows(items, t)
    BY <2>2, <2>3, RowsUnmoved
  <2>. QED
    BY <2>1, <2>4
<1>4. CASE pending = <<>>
  <2>1. Flushed = items
    BY <1>4 DEF Flushed
  <2>2. InThrottle(pending, t) = {}
    BY <1>4, NothingHeld
  <2>. QED
    BY <2>1, <2>2
<1>5. CASE lastDelta = t /\ pending # <<>>
  <2>. DEFINE K == Latest(items, t)
              b == Bubble(t, pending, "streaming")
  <2>1. Flushed = AppendDelta(items, t, t, pending)
    BY <1>1, <1>5 DEF Flushed
  <2>2. K = 0 \/ (K \in DOMAIN items /\ K > 0 /\ items[K].turn = t)
    BY <1>1, LatestIs
  <2>3. Len(items) \in Nat /\ DOMAIN items = 1..Len(items) /\ items = [k \in DOMAIN items |-> items[k]]
    BY <1>1, SequenceIs DEF RowsOK
  <2>4. \A k \in DOMAIN items : items[k].turn = t => k <= K /\ K \in DOMAIN items
    BY <1>1, LatestIsLast
  <2>5. \A s \in R : /\ s.part = 1 /\ s.row \in DOMAIN items /\ s.row \in Nat /\ items[s.row].turn = t
                     /\ s.at \in InText(items[s.row].text, t)
    BY <1>1, RowSightings
  <2>6. InOrder((R \cup InThrottle(pending, t)) \cup P, n)
    OBVIOUS
  <2>. HIDE DEF K, R
  <2>7. CASE K > 0 /\ items[K].kind = "assistant"
    <3>1. K \in DOMAIN items /\ K \in Nat /\ items[K].turn = t /\ items[K].status = "streaming"
      BY <1>1, <2>2, <2>3, <2>7 DEF ActiveIsLatest
    <3>. DEFINE old == items[K].text
                new == Extended(items[K], pending)
    <3>2. RowOK(items[K]) /\ old \in Seq(Tokens)
      BY <1>1, <3>1 DEF RowOK, Open
    <3>3. new.turn = t /\ new.text = old \o pending
      BY <3>1, <3>2 DEF Extended, RowOK
    <3>4. Flushed = [items EXCEPT ![K] = new]
      BY <2>1, <2>7, <3>1 DEF AppendDelta, Extended, K
    <3>5. DOMAIN Flushed = DOMAIN items /\ Flushed[K] = new
          /\ \A k \in DOMAIN items : k # K => Flushed[k] = items[k]
      BY <2>3, <3>1, <3>4
    <3>. HIDE DEF new, old
    <3>6. InRows(Flushed, t) = R \cup Poured(pending, t, K, Len(old))
      <4>1. Flushed[K].turn = t /\ Flushed[K].text = items[K].text \o pending
        BY <3>3, <3>5 DEF old
      <4>2. items[K].text \in Seq(Tokens)
        BY <3>2 DEF old
      <4>3. InRows(Flushed, t) = InRows(items, t) \cup Poured(pending, t, K, Len(items[K].text))
        <5>1. RowExtends(items, Flushed, K, t, pending)
          BY <1>1, <3>1, <3>5, <4>1, <4>2 DEF RowExtends
        <5>. QED
          BY ONLY <5>1, RowExtended
      <4>. QED
        BY <4>3 DEF old, R
    <3>7. Len(old) \in Nat /\ \A j \in InText(old, t) : j \in Nat /\ j <= Len(old)
      BY <3>2, InTextIs
    <3>8. \A s \in R : s.part = 1 /\ (s.row < K \/ (s.row = K /\ s.at <= Len(old) /\ s.at \in Nat))
      <4>. TAKE s \in R
      <4>1. s.row <= K /\ s.row \in Nat /\ s.part = 1
        BY <2>4, <2>5
      <4>2. s.row = K => s.at <= Len(old) /\ s.at \in Nat
        BY <2>5, <3>7 DEF old
      <4>. QED
        BY <3>1, <4>1, <4>2
    <3>9. InOrder((R \cup Poured(pending, t, K, Len(old))) \cup P, n)
      BY <1>1, <2>5, <2>6, <3>1, <3>7, <3>8, OrderPoured
    <3>. QED
      BY <3>6, <3>9
  <2>8. CASE ~(K > 0 /\ items[K].kind = "assistant")
    <3>. DEFINE m == Len(items) + 1
    <3>1. Flushed = Append(items, b)
      BY <2>1, <2>8 DEF AppendDelta, K
    <3>2. b.turn = t /\ b.text = pending
      BY DEF Bubble
    <3>. HIDE DEF b
    <3>3. InRows(Flushed, t) = R \cup Poured(pending, t, m, 0)
      BY <1>1, <3>1, <3>2, RowAppended DEF R
    <3>4. m \in Nat /\ 0 \in Nat /\ \A k \in DOMAIN items : k < m
      BY <2>3
    <3>5. \A s \in R : s.part = 1 /\ s.row < m /\ s.row \in Nat
      BY <2>5, <3>4
    <3>. HIDE DEF m
    <3>6. InOrder((R \cup Poured(pending, t, m, 0)) \cup P, n)
      BY <1>1, <2>6, <3>4, <3>5, OrderPoured
    <3>. QED
      BY <3>3, <3>6
  <2>. QED
    BY <2>7, <2>8
<1>. QED
  BY <1>3, <1>4, <1>5

LEMMA FlushedStreaming ==
  ASSUME TypesOK, Streaming(items)
  PROVE  Streaming(Flushed)
<1>1. /\ \A k \in DOMAIN items :
           \/ Flushed[k] = items[k]
           \/ items[k].status = "streaming" /\ Flushed[k] = Extended(items[k], pending)
      /\ \A k \in DOMAIN Flushed :
           k \in DOMAIN items \/ Flushed[k] = Bubble(lastDelta, pending, "streaming")
  BY FlushedIs
<1>2. \A k \in DOMAIN items : RowOK(items[k])
  BY DEF TypesOK, RowsOK
<1>3. ASSUME NEW k \in DOMAIN Flushed, Flushed[k].kind = "assistant", Flushed[k].turn = activeTurn
      PROVE  Flushed[k].status = "streaming"
  <2>1. CASE k \in DOMAIN items /\ Flushed[k] = items[k]
    BY <1>3, <2>1 DEF Streaming
  <2>2. CASE k \in DOMAIN items /\ items[k].status = "streaming" /\ Flushed[k] = Extended(items[k], pending)
    <3>1. RowOK(items[k])
      BY <1>2, <2>2
    <3>. QED
      BY <2>2, <3>1 DEF Extended, RowOK
  <2>3. CASE Flushed[k] = Bubble(lastDelta, pending, "streaming")
    BY <2>3 DEF Bubble
  <2>. QED
    BY <1>1, <2>1, <2>2, <2>3
<1>. QED
  BY <1>3 DEF Streaming

-----------------------------------------------------------------------------
(* A line of the gateway.                                                  *)

(* The rows and the throttle behind a line f.                              *)
FlushLine(f) ==
  /\ pending' = <<>> /\ UNCHANGED <<lastDelta, outcome>>
  /\ f.kind \notin Answers \cup {"content_delta"}
  /\ \/ f.kind = "tool_call" /\ items' = Append(Flushed, ToolRow(f.turn, f.n, f.id))
     \/ /\ f.kind # "tool_call"
        /\ \/ items' = Flushed \/ items' = LoopStopped(Flushed)
           \/ items' = CloseToolCall(Flushed, f.turn, f.id)

LEMMA LinesAre ==
  ASSUME TypesOK, LineArrives
  PROVE  \E f \in Frames : /\ Reads(f) /\ UNCHANGED <<emitted, round>>
                           /\ DeltaRead(f) \/ FlushLine(f) \/ ResponseRead(f)
<1>. DEFINE f == Head(toClient)
<1>1. toClient \in Seq(Frames) /\ toClient # <<>>
  BY DEF TypesOK, LineArrives
<1>2. f \in Frames
  BY <1>1, TailIs
<1>3. Reads(f) /\ UNCHANGED <<emitted, round>>
  BY <1>1, <1>2 DEF LineArrives, Reads, submitVars, serverVars, loopVars
<1>4. DeltaArrives(f) \/ ToolEventArrives(f) \/ RoundEndArrives(f) \/ LoopStoppedArrives(f)
        \/ ResponseArrives(f)
  BY DEF LineArrives
<1>. HIDE DEF f
<1>5. CASE DeltaArrives(f)
  BY <1>2, <1>3, <1>5 DEF DeltaArrives, DeltaRead
<1>6. CASE ToolEventArrives(f)
  <2>1. FlushLine(f)
    BY <1>6 DEF ToolEventArrives, Flush, FlushLine, Answers
  <2>. QED
    BY <1>2, <1>3, <2>1
<1>7. CASE RoundEndArrives(f)
  <2>1. FlushLine(f)
    BY <1>7 DEF RoundEndArrives, Flush, FlushLine, Answers
  <2>. QED
    BY <1>2, <1>3, <2>1
<1>8. CASE LoopStoppedArrives(f)
  <2>1. FlushLine(f)
    BY <1>8 DEF LoopStoppedArrives, Flush, FlushLine, Answers
  <2>. QED
    BY <1>2, <1>3, <2>1
<1>9. CASE ResponseArrives(f)
  BY <1>2, <1>3, <1>9 DEF ResponseArrives, ResponseRead, throttleVars
<1>. QED
  BY <1>4, <1>5, <1>6, <1>7, <1>8, <1>9

LEMMA HeldBack ==
  ASSUME NEW text \in Seq(Tokens), NEW u \in Turns, NEW m \in Nat, NEW t
  PROVE  InThrottle(Append(text, <<u, m>>), t)
           = InThrottle(text, t) \cup (IF u = t /\ m > 0 THEN {Seen(m, 2, 0, Len(text) + 1)} ELSE {})
<1>. DEFINE a == Append(text, <<u, m>>)
            n == Len(text) + 1
            new == IF u = t /\ m > 0 THEN {Seen(m, 2, 0, n)} ELSE {}
<1>1. <<u, m>> \in Tokens
  BY DEF Tokens
<1>2. /\ DOMAIN text = 1..Len(text) /\ Len(text) \in Nat
      /\ DOMAIN a = 1..n /\ \A i \in DOMAIN text : a[i] = text[i]
      /\ a[n] = <<u, m>>
  BY <1>1, AppendIs
<1>3. /\ \A i : i \in DOMAIN a <=> i \in DOMAIN text \/ i = n
      /\ n \notin DOMAIN text
  BY <1>2
<1>4. a[n][1] = u /\ a[n][2] = m
  BY <1>2
<1>. HIDE DEF a, n
<1>5. ASSUME NEW s PROVE s \in InThrottle(a, t) <=> s \in InThrottle(text, t) \cup new
  <2>1. s \in InThrottle(a, t) <=> \E j \in InText(a, t) : s = Seen(a[j][2], 2, 0, j)
    BY ThrottleHas
  <2>2. s \in InThrottle(text, t) <=> \E j \in InText(text, t) : s = Seen(text[j][2], 2, 0, j)
    BY ThrottleHas
  <2>3. \A j : /\ j \in InText(a, t) <=> j \in DOMAIN a /\ a[j][1] = t /\ a[j][2] > 0
               /\ j \in InText(text, t) <=> j \in DOMAIN text /\ text[j][1] = t /\ text[j][2] > 0
    BY DEF InText
  <2>4. n \in InText(a, t) <=> u = t /\ m > 0
    BY <1>3, <1>4, <2>3
  <2>5. \A j : j # n => (j \in InText(a, t) <=> j \in InText(text, t))
    BY <1>2, <1>3, <2>3
  <2>6. \A j \in InText(text, t) : j # n /\ a[j] = text[j]
    BY <1>2, <1>3, <2>3
  <2>7. s \in new <=> n \in InText(a, t) /\ s = Seen(a[n][2], 2, 0, n)
    BY <1>4, <2>4
  <2>. HIDE DEF new
  <2>. QED
    BY <2>1, <2>2, <2>5, <2>6, <2>7
<1>. QED
  BY <1>5 DEF a, n

(* Reading a line keeps the order of what is seen of the active turn.      *)
LEMMA LineInOrder ==
  ASSUME TypesOK, TurnsInTurn, ActiveIsLatest, PendingBehind, LineArrives, activeTurn # 0,
         NEW n \in Nat, NEW t, t = activeTurn,
         InOrder((InRows(items, t) \cup InThrottle(pending, t)) \cup InPipe(toClient, t), n)
  PROVE  InOrder((InRows(items', t) \cup InThrottle(pending', t)) \cup InPipe(toClient', t), n)
<1>1. PICK f \in Frames : Reads(f) /\ (DeltaRead(f) \/ FlushLine(f) \/ ResponseRead(f))
  BY LinesAre
<1>2. /\ toClient \in Seq(Frames) /\ toClient # <<>> /\ toClient' = Tail(toClient) /\ f = Head(toClient)
      /\ RowsOK(items) /\ pending \in Seq(Tokens) /\ f.turn \in Turns /\ f.n \in Nat /\ f.id \in Nat
  BY <1>1 DEF Reads, TypesOK, Frames
<1>3. Token(f, t) => f.n > 0
  <2>. SUFFICES ASSUME Token(f, t) PROVE f.n > 0
    OBVIOUS
  <2>1. 1 \in DOMAIN toClient /\ toClient[1] = f
    BY <1>2, TailIs
  <2>2. Seen(f.n, 3, 0, 1) \in InPipe(toClient, t)
    BY <2>1, PipeHas
  <2>3. Seen(f.n, 3, 0, 1).n \in 1..n
    BY <2>2 DEF InOrder
  <2>. QED
    BY <2>3, SeenIs
<1>. DEFINE R == InRows(items, t)
            H == InThrottle(pending, t)
            P == InPipe(toClient, t)
<1>4. /\ \A s \in R : s.part = 1
      /\ \A s \in H : s.part = 2 /\ s.row = 0
      /\ \A s \in P : s.part = 3
  BY PartsAre
<1>5. CASE DeltaRead(f)
  <2>. DEFINE at == Len(pending) + 1
              x == Seen(f.n, 2, 0, at)
              X == IF f.turn = t /\ f.n > 0 THEN {x} ELSE {}
  <2>1. f.kind = "content_delta" /\ items' = items /\ pending' = Append(pending, <<f.turn, f.n>>)
    BY <1>5 DEF DeltaRead
  <2>2. InThrottle(pending', t) = H \cup X
    BY <1>2, <2>1, HeldBack
  <2>3. Token(f, t) <=> f.turn = t /\ f.n > 0
    BY <1>3, <2>1 DEF Token
  <2>4. x.part = 2 /\ x.row = 0 /\ x.at = at /\ x.n = f.n
    BY SeenIs
  <2>5. \A s \in H : s.at \in Nat /\ s.at < at
    <3>. TAKE s \in H
    <3>1. PICK j \in InText(pending, t) : s = Seen(pending[j][2], 2, 0, j)
      BY ThrottleHas
    <3>2. s.at = j /\ j \in Nat /\ j <= Len(pending) /\ Len(pending) \in Nat
      BY <1>2, <3>1, SeenIs, InTextIs
    <3>. QED
      BY <3>2
  <2>6. at \in Nat
    BY <1>2, LenProperties
  <2>. HIDE DEF x, at, R, H
  <2>7. \A s \in R \cup H : ~Before(x, s)
    BY <1>4, <2>4, <2>5, <2>6 DEF Before
  <2>8. ~Before(x, x)
    BY <2>4, <2>6 DEF Before
  <2>9. InOrder(((R \cup H) \cup X) \cup InPipe(Tail(toClient), t), n)
    <3>1. \A s \in R \cup H : s.part \in {1, 2}
      BY <1>4
    <3>2. InOrder((R \cup H) \cup InPipe(toClient, t), n)
      BY DEF R, H
    <3>3. X = {} \/ \E y : X = {y}
      OBVIOUS
    <3>4. \A y \in X : y = x
      OBVIOUS
    <3>5. \A y \in X : /\ y.part \in {1, 2} /\ y.n = Head(toClient).n
                       /\ ~Before(y, y) /\ \A s \in R \cup H : ~Before(y, s)
      BY <1>2, <2>4, <2>7, <2>8, <3>4
    <3>6. X # {} <=> Token(Head(toClient), t)
      BY <1>2, <2>3
    <3>. HIDE DEF X
    <3>. QED
      BY <1>2, <3>1, <3>2, <3>3, <3>5, <3>6, SightingRead
  <2>10. ((R \cup H) \cup X) = (R \cup (H \cup X))
    OBVIOUS
  <2>11. InRows(items', t) = R /\ InThrottle(pending', t) = H \cup X /\ toClient' = Tail(toClient)
    BY <1>2, <2>1, <2>2 DEF R
  <2>. HIDE DEF X
  <2>. QED
    BY <2>9, <2>10, <2>11
<1>6. CASE FlushLine(f)
  <2>. DEFINE R2 == InRows(Flushed, t)
              m == Len(Flushed) + 1
  <2>1. InOrder(R2 \cup P, n)
    <3>. HIDE DEF P
    <3>1. InOrder((InRows(items, activeTurn) \cup InThrottle(pending, activeTurn)) \cup P, n)
      BY DEF P
    <3>2. InOrder(InRows(Flushed, activeTurn) \cup P, n)
      BY <1>4, <3>1, FlushedInOrder
    <3>. QED
      BY <3>2
  <2>2. InThrottle(pending', t) = {}
    BY <1>6, NothingHeld DEF FlushLine
  <2>3. \A s \in R2 : /\ s.part = 1 /\ s.row \in DOMAIN Flushed
    BY FlushedRows, RowSightings
  <2>4. RowsOK(Flushed) /\ Len(Flushed) \in Nat /\ DOMAIN Flushed = 1..Len(Flushed)
    BY FlushedRows, SequenceIs DEF RowsOK
  <2>5. CASE f.kind = "tool_call"
    <3>. DEFINE row == ToolRow(f.turn, f.n, f.id)
                x == Seen(f.n, 1, m, 1)
                X == IF f.turn = t /\ f.n > 0 THEN {x} ELSE {}
    <3>1. items' = Append(Flushed, row)
      BY <1>6, <2>5 DEF FlushLine
    <3>2. row.turn = f.turn /\ row.text = <<<<f.turn, f.n>>>> /\ row.text \in Seq(Tokens)
      BY <1>2 DEF ToolRow, Tokens
    <3>3. InText(row.text, t) = IF f.turn = t /\ f.n > 0 THEN {1} ELSE {}
      BY <3>2 DEF InText
    <3>4. row.text[1][2] = f.n
      BY <3>2
    <3>5. InRows(items', t) = R2 \cup X
      <4>1. CASE f.turn = t
        <5>. HIDE DEF row
        <5>1. InRows(items', t) = R2 \cup Poured(row.text, t, m, 0)
          BY <2>4, <3>1, <3>2, <4>1, RowAppended
        <5>2. ASSUME NEW s PROVE s \in Poured(row.text, t, m, 0) <=> s \in X
          <6>1. s \in Poured(row.text, t, m, 0) <=>
                  \E j \in InText(row.text, t) : s = Seen(row.text[j][2], 1, m, 0 + j)
            BY PouredHas
          <6>2. s \in Poured(row.text, t, m, 0) <=> f.n > 0 /\ s = Seen(row.text[1][2], 1, m, 0 + 1)
            BY <3>3, <4>1, <6>1
          <6>. QED
            BY <3>4, <4>1, <6>2
        <5>. QED
          BY <5>1, <5>2
      <4>2. CASE f.turn # t
        <5>. HIDE DEF row
        <5>1. InRows(items', t) = R2
          BY <2>4, <3>1, <3>2, <4>2, OtherRowAppended
        <5>. QED
          BY <4>2, <5>1
      <4>. QED
        BY <4>1, <4>2
    <3>6. Token(f, t) <=> f.turn = t /\ f.n > 0
      BY <1>3, <2>5 DEF Token
    <3>7. x.part = 1 /\ x.row = m /\ x.at = 1 /\ x.n = f.n
      BY SeenIs
    <3>8. m \in Nat /\ \A s \in R2 : s.part = 1 /\ s.row \in Nat /\ s.row < m
      BY <2>3, <2>4
    <3>. HIDE DEF x, m, R2
    <3>9. ~Before(x, x) /\ \A s \in R2 : ~Before(x, s)
      BY <3>7, <3>8 DEF Before
    <3>10. InOrder((R2 \cup X) \cup InPipe(Tail(toClient), t), n)
      <4>1. \A s \in R2 : s.part \in {1, 2}
        BY <2>3
      <4>2. \A y \in X : y = x
        OBVIOUS
      <4>3. \A y \in X : /\ y.part \in {1, 2} /\ y.n = Head(toClient).n
                         /\ ~Before(y, y) /\ \A s \in R2 : ~Before(y, s)
        BY <1>2, <3>7, <3>9, <4>2
      <4>4. X # {} <=> Token(Head(toClient), t)
        BY <1>2, <3>6
      <4>5. X = {} \/ \E y : X = {y}
        OBVIOUS
      <4>. HIDE DEF X
      <4>. QED
        BY <1>2, <2>1, <4>1, <4>3, <4>4, <4>5, SightingRead
    <3>11. InRows(items', t) \cup InThrottle(pending', t) = R2 \cup X
      BY <2>2, <3>5
    <3>. HIDE DEF X
    <3>. QED
      BY <1>2, <3>10, <3>11
  <2>6. CASE f.kind # "tool_call"
    <3>1. InRows(items', t) = R2
      <4>1. CASE items' = Flushed
        BY <4>1
      <4>2. \A k \in DOMAIN Flushed : RowOK(Flushed[k])
        BY <2>4 DEF RowsOK
      <4>4. CASE items' = LoopStopped(Flushed)
        <5>1. /\ DOMAIN items' = DOMAIN Flushed
              /\ \A k \in DOMAIN Flushed :
                   items'[k] = [Flushed[k] EXCEPT !.status = "error"] \/ items'[k] = Flushed[k]
          BY <2>4, <4>4, LoopStoppedIs
        <5>2. \A k \in DOMAIN Flushed : items'[k].turn = Flushed[k].turn /\ items'[k].text = Flushed[k].text
          <6>. TAKE k \in DOMAIN Flushed
          <6>1. RowOK(Flushed[k])
            BY <4>2
          <6>. QED
            BY <5>1, <6>1 DEF RowOK
        <5>. QED
          BY <5>1, <5>2, RowsUnmoved
      <4>5. CASE items' = CloseToolCall(Flushed, f.turn, f.id)
        <5>1. /\ DOMAIN items' = DOMAIN Flushed
              /\ \A k \in DOMAIN Flushed :
                   items'[k] = [Flushed[k] EXCEPT !.status = "ok"] \/ items'[k] = Flushed[k]
          BY <2>4, <4>5, CloseToolCallIs
        <5>2. \A k \in DOMAIN Flushed : items'[k].turn = Flushed[k].turn /\ items'[k].text = Flushed[k].text
          <6>. TAKE k \in DOMAIN Flushed
          <6>1. RowOK(Flushed[k])
            BY <4>2
          <6>. QED
            BY <5>1, <6>1 DEF RowOK
        <5>. QED
          BY <5>1, <5>2, RowsUnmoved
      <4>. QED
        BY <1>6, <2>6, <4>1, <4>4, <4>5 DEF FlushLine
    <3>2. ~Token(Head(toClient), t)
      BY <1>2, <1>6, <2>6 DEF FlushLine, Token
    <3>. HIDE DEF R2
    <3>3. InOrder(R2 \cup InPipe(Tail(toClient), t), n)
      BY <1>2, <2>1, <2>3, <3>2, NoSightingRead
    <3>4. InRows(items', t) \cup InThrottle(pending', t) = R2
      BY <2>2, <3>1
    <3>. QED
      BY <1>2, <3>3, <3>4
  <2>. QED
    BY <2>5, <2>6
<1>7. CASE ResponseRead(f)
  <2>1. ~Token(Head(toClient), t) /\ UNCHANGED <<items, pending>>
    BY <1>2, <1>7 DEF ResponseRead, Token, Answers
  <2>2. InOrder((R \cup H) \cup InPipe(toClient, t), n)
    OBVIOUS
  <2>3. \A s \in R \cup H : s.part \in {1, 2}
    BY <1>4
  <2>. HIDE DEF R, H
  <2>4. InOrder((R \cup H) \cup InPipe(Tail(toClient), t), n)
    BY <1>2, <2>1, <2>2, <2>3, NoSightingRead
  <2>5. InRows(items', t) \cup InThrottle(pending', t) = R \cup H
    BY <2>1 DEF R, H
  <2>. QED
    BY <1>2, <2>4, <2>5
<1>. QED
  BY <1>1, <1>5, <1>6, <1>7

-----------------------------------------------------------------------------
(* The tokens.                                                             *)

EmittedTokens == [kind : {"text", "call"}, round : Nat]

(* The turn in the slot emits a token.                                     *)
LEMMA EmitsIs ==
  ASSUME TypesOK, slot \in Turns, NEW kind \in {"text", "call"}, Emits(kind)
  PROVE  LET old == emitted[slot]
             new == emitted'[slot]
         IN  /\ NextToken = Len(old) + 1 /\ Len(old) \in Nat /\ Len(new) = Len(old) + 1
             /\ new # <<>> /\ Last(new).kind = kind /\ Last(new).round = round
             /\ NextToken \in DOMAIN new /\ new[NextToken].kind = kind
             /\ \A n \in DOMAIN old : n \in DOMAIN new /\ new[n] = old[n]
             /\ \A t \in Turns : t # slot => emitted'[t] = emitted[t]
<1>. DEFINE old == emitted[slot]
            tok == [kind |-> kind, round |-> round]
            new == Append(old, tok)
<1>1. emitted \in [Turns -> Seq(EmittedTokens)] /\ old \in Seq(EmittedTokens) /\ round \in Nat
  BY DEF TypesOK, EmittedTokens
<1>2. tok \in EmittedTokens /\ tok.kind = kind /\ tok.round = round
  BY <1>1 DEF EmittedTokens
<1>3. emitted' = [emitted EXCEPT ![slot] = new]
  BY DEF Emits
<1>4. /\ Len(old) \in Nat /\ DOMAIN old = 1..Len(old)
      /\ DOMAIN new = 1..(Len(old) + 1)
      /\ \A i \in DOMAIN old : new[i] = old[i]
      /\ new[Len(old) + 1] = tok
      /\ new \in Seq(EmittedTokens)
  BY <1>1, <1>2, AppendIs
<1>5. Len(new) = Len(old) + 1 /\ DOMAIN new = 1..Len(new)
  BY <1>4, LenProperties
<1>6. NextToken = Len(old) + 1
  BY DEF NextToken
<1>7. emitted'[slot] = new /\ \A t \in Turns : t # slot => emitted'[t] = emitted[t]
  BY <1>1, <1>3
<1>. HIDE DEF new, old, tok
<1>8. Last(new) = tok
  BY <1>4, <1>5 DEF Last
<1>9. new # <<>>
  BY <1>4
<1>10. NextToken \in DOMAIN new /\ \A n \in DOMAIN old : n \in DOMAIN new
  BY <1>4, <1>6
<1>. QED
  BY <1>2, <1>4, <1>5, <1>6, <1>7, <1>8, <1>9, <1>10 DEF old

(* What the gateway does to the tokens.                                    *)
TokenSent ==
  /\ slot \in Turns /\ phase = "stream" /\ slot' = slot /\ phase' = phase
  /\ \E kind \in {"text", "call"} : \E g \in Frames :
       /\ Emits(kind)
       /\ toClient' = Append(toClient, g) /\ Token(g, slot) /\ g.n = NextToken
       /\ g.kind = "tool_call" => kind = "call"

TextInResponse ==
  /\ slot \in Turns /\ phase = "stream" /\ slot' = slot /\ phase' = "completed"
  /\ Emits("text") /\ UNCHANGED round
  /\ toClient' = Append(toClient, Plain("message_done", slot))

NoToken ==
  /\ UNCHANGED emitted
  /\ UNCHANGED toClient \/ \E g \in Frames : /\ toClient' = Append(toClient, g)
                                             /\ g.kind \notin {"content_delta", "tool_call"}

LEMMA TokenSteps ==
  ASSUME TypesOK, Server
  PROVE  TokenSent \/ TextInResponse \/ NoToken
<1>1. /\ slot \in {0} \cup Turns /\ (slot = 0 <=> phase = "idle")
      /\ round \in Nat /\ calls \in Seq(Nat) /\ toServer \in Seq(Turns)
      /\ emitted \in [Turns -> Seq(EmittedTokens)]
  BY DEF TypesOK, EmittedTokens
<1>2. slot # 0 => slot \in Turns /\ NextToken \in Nat
  BY <1>1, LenProperties DEF NextToken
<1>3. CASE ReadsChatSend
  <2>1. Head(toServer) \in Turns
    BY <1>1, <1>3, TailIs DEF ReadsChatSend
  <2>2. LET g == Response("refused", Head(toServer), 0)
        IN g \in Frames /\ g.kind \notin {"content_delta", "tool_call"}
    BY <2>1, FrameTypes DEF Response, Answers
  <2>. QED
    BY <1>3, <2>2 DEF ReadsChatSend, Writes, serverVars, NoToken
<1>4. CASE StreamsText
  <2>. DEFINE g == Delta(slot, NextToken)
  <2>1. phase = "stream" /\ slot # 0 /\ slot \in Turns /\ NextToken \in Nat
    BY <1>1, <1>2, <1>4 DEF StreamsText, Streams
  <2>2. g \in Frames /\ Token(g, slot) /\ g.n = NextToken /\ g.kind # "tool_call"
    BY <2>1, FrameTypes DEF Delta, Token
  <2>. HIDE DEF g
  <2>3. toClient' = Append(toClient, g) /\ Emits("text") /\ slot' = slot /\ phase' = phase
    BY <1>4 DEF StreamsText, Streams, Writes, g
  <2>. QED
    BY <2>1, <2>2, <2>3 DEF TokenSent
<1>5. CASE StreamsCall
  <2>1. phase = "stream" /\ slot # 0 /\ slot \in Turns /\ NextToken \in Nat
    BY <1>1, <1>2, <1>5 DEF StreamsCall, Streams
  <2>2. PICK id \in {0, NextToken} : Emits("call") /\ Writes(Call(slot, NextToken, id))
    BY <1>5 DEF StreamsCall
  <2>. DEFINE g == Call(slot, NextToken, id)
  <2>3. g \in Frames /\ Token(g, slot) /\ g.n = NextToken
    BY <2>1, <2>2, FrameTypes DEF Call, Token
  <2>. HIDE DEF g
  <2>4. toClient' = Append(toClient, g) /\ slot' = slot /\ phase' = phase
    BY <1>5, <2>2 DEF StreamsCall, Streams, Writes, g
  <2>. QED
    BY <2>1, <2>2, <2>3, <2>4 DEF TokenSent
<1>6. CASE StreamEnds
  <2>1. phase = "stream" /\ slot # 0 /\ slot \in Turns
    BY <1>1, <1>6 DEF StreamEnds
  <2>2. LET g == Plain("message_done", slot)
        IN g \in Frames /\ g.kind \notin {"content_delta", "tool_call"}
    BY <2>1, FrameTypes DEF Plain
  <2>3. toClient' = Append(toClient, Plain("message_done", slot)) /\ UNCHANGED <<slot, round>>
    BY <1>6 DEF StreamEnds, Writes
  <2>4. CASE UNCHANGED emitted
    BY <2>2, <2>3, <2>4 DEF NoToken
  <2>5. CASE calls = <<>> /\ Emits("text")
    <3>1. phase' = "completed"
      BY <1>6, <2>5 DEF StreamEnds
    <3>. QED
      BY <2>1, <2>3, <2>5, <3>1 DEF TextInResponse
  <2>. QED
    BY <1>6, <2>4, <2>5 DEF StreamEnds
<1>7. CASE ToolEnds
  <2>1. slot \in Turns /\ Head(calls) \in Nat
    BY <1>1, <1>7, TailIs DEF ToolEnds
  <2>2. LET g == Result(slot, Head(calls))
        IN g \in Frames /\ g.kind \notin {"content_delta", "tool_call"}
    BY <2>1, FrameTypes DEF Result
  <2>. QED
    BY <1>7, <2>2 DEF ToolEnds, Writes, NoToken
<1>8. CASE LoopStops
  <2>1. slot \in Turns
    BY <1>1, <1>8 DEF LoopStops
  <2>2. LET g == Plain("loop_stopped", slot)
        IN g \in Frames /\ g.kind \notin {"content_delta", "tool_call"}
    BY <2>1, FrameTypes DEF Plain
  <2>. QED
    BY <1>8, <2>2 DEF LoopStops, Writes, NoToken
<1>9. CASE SendsResponse
  <2>1. PICK kind \in {"completed", "stopped", "raised"} : Writes(Response(kind, slot, round))
    BY <1>9 DEF SendsResponse
  <2>2. slot \in Turns
    BY <1>1, <1>9 DEF SendsResponse
  <2>. DEFINE g == Response(kind, slot, round)
  <2>3. g \in Frames /\ g.kind \notin {"content_delta", "tool_call"}
    BY <1>1, <2>2, FrameTypes DEF Response, Answers
  <2>. QED
    BY <1>9, <2>1, <2>3 DEF SendsResponse, Writes, NoToken
<1>10. CASE SlotReleased
  BY <1>10 DEF SlotReleased, NoToken
<1>. QED
  BY <1>3, <1>4, <1>5, <1>6, <1>7, <1>8, <1>9, <1>10 DEF Server

LEMMA StorySteps ==
  ASSUME TypesOK, [Next]_vars
  PROVE  \/ Server /\ UNCHANGED clientVars
         \/ /\ UNCHANGED serverVars
            /\ Begins \/ LineArrives \/ ThrottleFires \/ (\E t \in Turns : TurnSettled(t)) \/ Nothing
<1>1. ASSUME Server PROVE ClientUnchanged
  BY <1>1 DEF Server, ReadsChatSend, StreamsText, StreamsCall, Streams, StreamEnds, ToolEnds,
              LoopStops, SendsResponse, SlotReleased
<1>2. ClientUnchanged => UNCHANGED clientVars
  BY DEF ClientUnchanged, clientVars, storeVars, throttleVars, submitVars
<1>. QED
  BY <1>1, <1>2, ClientSteps

-----------------------------------------------------------------------------
(* The parts of the story that only look back.                             *)

LEMMA FreshStays ==
  ASSUME TypesOK, TurnsInTurn, [Next]_vars, NEW t \in Turns, Fresh(t)'
  PROVE  Fresh(t)
<1>1. begun \in Nat /\ Turns \subseteq Nat /\ \A j \in DOMAIN toServer : toServer[j] \in Nat
  BY TurnNumbers
<1>2. CASE UNCHANGED <<begun, toServer>>
  BY <1>2 DEF Fresh
<1>3. CASE begun' = begun /\ toServer # <<>> /\ toServer' = Tail(toServer)
  BY <1>3, ServerRead DEF Fresh
<1>4. CASE Begins
  <2>1. begun' = begun + 1 /\ begun' \in Turns /\ toServer' = Append(toServer, begun')
    BY <1>4 DEF Begins
  <2>2. \A j \in DOMAIN toServer' : (j \in DOMAIN toServer /\ toServer'[j] = toServer[j]) \/ toServer'[j] = begun'
    BY <2>1, ServerWritten
  <2>3. t > begun' \/ t = begun' \/ \E j \in DOMAIN toServer : toServer[j] = t
    BY <2>2 DEF Fresh
  <2>. QED
    BY <1>1, <2>1, <2>3 DEF Fresh
<1>5. UNCHANGED <<begun, toServer>> \/ (begun' = begun /\ toServer # <<>> /\ toServer' = Tail(toServer)) \/ Begins
  BY Steps, LinesRead, ThrottleFired, TurnsSettled
     DEF Takes, Refuses, LoopWrites, Releases, Fires, Settles, Nothing, clientVars, Reads
<1>. QED
  BY <1>2, <1>3, <1>4, <1>5

(* A turn that the gateway has read is not fresh.                          *)
LEMMA KnownTurns ==
  ASSUME TypesOK, TurnsInTurn, NEW t \in Turns,
         \/ slot = t \/ lastDelta = t \/ (\E i \in DOMAIN toClient : toClient[i].turn = t)
         \/ outcome[t].kind # "none"
  PROVE  ~Fresh(t)
<1>1. t \in Nat
  BY TurnNumbers
<1>2. ~(t < t)
  BY <1>1
<1>. QED
  BY <1>2 DEF TurnsInTurn

(* The new rows are of turns that the gateway has read.                    *)
LEMMA RowTurns ==
  ASSUME TypesOK, TurnsInTurn, AnsweredLast, CancelledTools, FreshUntold, [Next]_vars
  PROVE  \A k \in DOMAIN items' : \E u \in Turns : items'[k].turn = u /\ ~Fresh(u)
<1>1. \A k \in DOMAIN items : items[k].turn \in Turns /\ ~Fresh(items[k].turn)
  BY TurnNumbers DEF FreshUntold
<1>2. \A k \in DOMAIN Flushed : \E u \in Turns : Flushed[k].turn = u /\ ~Fresh(u)
  <2>. TAKE k \in DOMAIN Flushed
  <2>1. CASE k \in DOMAIN items
    BY <1>1, <2>1, FlushedKeeps DEF Kept
  <2>2. CASE lastDelta # 0 /\ Flushed[k] = Bubble(lastDelta, pending, "streaming")
    <3>1. lastDelta \in Turns /\ Flushed[k].turn = lastDelta
      BY <2>2 DEF TypesOK, Bubble
    <3>. QED
      BY <3>1, KnownTurns
  <2>. QED
    BY <2>1, <2>2, FlushedIs
<1>3. CASE UNCHANGED items
  BY <1>1, <1>3
<1>4. CASE ThrottleFires
  BY <1>2, <1>4 DEF ThrottleFires
<1>5. CASE LineArrives
  <2>1. PICK f \in Frames : Reads(f) /\ (DeltaRead(f) \/ FlushLine(f) \/ ResponseRead(f))
    BY <1>5, LinesAre
  <2>2. RowsOK(Flushed)
    BY FlushedRows
  <2>3. f.turn \in Turns /\ ~Fresh(f.turn)
    <3>1. f.turn \in Turns
      BY DEF Frames
    <3>2. 1 \in DOMAIN toClient /\ toClient[1].turn = f.turn
      BY <2>1, PipeRead
    <3>. QED
      BY <3>1, <3>2, KnownTurns
  <2>4. CASE items' = Append(Flushed, ToolRow(f.turn, f.n, f.id))
    <3>. DEFINE row == ToolRow(f.turn, f.n, f.id)
    <3>1. /\ Len(Flushed) \in Nat /\ DOMAIN Flushed = 1..Len(Flushed)
          /\ DOMAIN items' = 1..(Len(Flushed) + 1)
          /\ \A i \in DOMAIN Flushed : items'[i] = Flushed[i]
          /\ items'[Len(Flushed) + 1] = row
      BY <2>2, <2>4, SequenceAppended DEF RowsOK
    <3>2. row.turn = f.turn
      BY DEF ToolRow
    <3>. HIDE DEF row
    <3>3. \A k \in DOMAIN items' : k \in DOMAIN Flushed \/ k = Len(Flushed) + 1
      BY <3>1
    <3>. QED
      BY <1>2, <2>3, <3>1, <3>2, <3>3
  <2>5. CASE items' = LoopStopped(Flushed) \/ items' = CloseToolCall(Flushed, f.turn, f.id)
    <3>1. /\ DOMAIN items' = DOMAIN Flushed
          /\ \A k \in DOMAIN Flushed : \/ items'[k] = [Flushed[k] EXCEPT !.status = "error"]
                                       \/ items'[k] = [Flushed[k] EXCEPT !.status = "ok"]
                                       \/ items'[k] = Flushed[k]
      BY <2>2, <2>5, LoopStoppedIs, CloseToolCallIs
    <3>2. ASSUME NEW k \in DOMAIN Flushed PROVE items'[k].turn = Flushed[k].turn
      <4>1. RowOK(Flushed[k])
        BY <2>2 DEF RowsOK
      <4>. QED
        BY <3>1, <4>1 DEF RowOK
    <3>. QED
      BY <1>2, <3>1, <3>2
  <2>6. CASE items' = Flushed
    BY <1>2, <2>6
  <2>7. DeltaRead(f) \/ ResponseRead(f) => UNCHANGED items
    BY DEF DeltaRead, ResponseRead
  <2>. QED
    BY <1>3, <2>1, <2>4, <2>5, <2>6, <2>7 DEF FlushLine
<1>6. ASSUME NEW t \in Turns, TurnSettled(t)
      PROVE  \A k \in DOMAIN items' : \E u \in Turns : items'[k].turn = u /\ ~Fresh(u)
  <2>1. PICK final : items' = FinalizeTurn(items, t, final)
    BY <1>6 DEF TurnSettled
  <2>2. \A k \in DOMAIN items' : k \in DOMAIN items \/ items'[k] = Bubble(t, final, "done")
    BY <2>1, FinalizeTurnIs DEF TypesOK
  <2>3. ~Fresh(t)
    <3>1. outcome[t].kind # "none"
      BY <1>6 DEF TurnSettled, AnsweredLast, Answers
    <3>. QED
      BY <3>1, KnownTurns
  <2>4. Bubble(t, final, "done").turn = t
    BY DEF Bubble
  <2>5. \A k \in DOMAIN items : Kept(items[k], items'[k])
    BY <1>6, EndKeeps
  <2>. QED
    BY <1>1, <2>2, <2>3, <2>4, <2>5 DEF Kept
<1>7. UNCHANGED items \/ ThrottleFires \/ LineArrives \/ \E t \in Turns : TurnSettled(t)
  BY Steps DEF Takes, Refuses, LoopWrites, Releases, Begins, Nothing, clientVars
<1>. QED
  BY <1>3, <1>4, <1>5, <1>6, <1>7

LEMMA OthersEmitted ==
  ASSUME TypesOK, [Next]_vars
  PROVE  \/ UNCHANGED emitted
         \/ /\ slot \in Turns /\ phase = "stream"
            /\ \E kind \in {"text", "call"} : Emits(kind)
BY StorySteps, TokenSteps DEF TokenSent, TextInResponse, NoToken, serverVars

LEMMA FreshUntoldKept ==
  ASSUME TypesOK, TurnsInTurn, AnsweredLast, CancelledTools, FreshUntold, [Next]_vars
  PROVE  FreshUntold'
<1>1. ASSUME NEW t \in Turns, Fresh(t)' PROVE emitted'[t] = <<>>
  <2>1. Fresh(t) /\ emitted[t] = <<>> /\ slot # t
    BY <1>1, FreshStays, KnownTurns DEF FreshUntold
  <2>2. CASE slot \in Turns /\ \E kind \in {"text", "call"} : Emits(kind)
    BY <2>1, <2>2, EmitsIs
  <2>. QED
    BY <2>1, <2>2, OthersEmitted
<1>2. \A u \in Turns : ~Fresh(u) => ~Fresh(u)'
  BY FreshStays
<1>3. \A k \in DOMAIN items' : \A t : t = items'[k].turn => ~Fresh(t)'
  BY <1>2, RowTurns
<1>. QED
  BY <1>1, <1>3 DEF FreshUntold

LEMMA PendingBehindKept ==
  ASSUME TypesOK, FramesInOrder, PendingBehind, [Next]_vars
  PROVE  PendingBehind'
<1>1. lastDelta \in Nat /\ Turns \subseteq Nat /\ pending \in Seq(Tokens)
  BY TurnNumbers DEF TypesOK
<1>2. CASE UNCHANGED <<pending, lastDelta>>
  BY <1>2 DEF PendingBehind
<1>3. CASE pending' = <<>>
  BY <1>3 DEF PendingBehind
<1>4. ASSUME NEW f \in Frames, Reads(f), DeltaRead(f) PROVE PendingBehind'
  <2>1. lastDelta' = f.turn /\ pending' = Append(pending, <<f.turn, f.n>>) /\ f.kind # "refused"
    BY <1>4 DEF DeltaRead
  <2>2. f.turn \in Turns /\ f.n \in Nat /\ <<f.turn, f.n>> \in Tokens
    BY DEF Frames, Tokens
  <2>3. 1 \in DOMAIN toClient /\ toClient[1] = f
    BY <1>4, PipeRead
  <2>4. lastDelta <= f.turn
    BY <2>1, <2>3 DEF FramesInOrder, Ofloop
  <2>5. \A j \in DOMAIN pending' : \/ j \in DOMAIN pending /\ pending'[j] = pending[j]
                                   \/ pending'[j] = <<f.turn, f.n>>
    <3>1. /\ DOMAIN pending = 1..Len(pending) /\ Len(pending) \in Nat
          /\ DOMAIN pending' = 1..(Len(pending) + 1)
          /\ \A i \in DOMAIN pending : pending'[i] = pending[i]
          /\ pending'[Len(pending) + 1] = <<f.turn, f.n>>
      BY <1>1, <2>1, <2>2, AppendIs
    <3>2. \A j \in DOMAIN pending' : j \in DOMAIN pending \/ j = Len(pending) + 1
      BY <3>1
    <3>. QED
      BY <3>1, <3>2
  <2>6. ASSUME NEW j \in DOMAIN pending' PROVE pending'[j][1] <= f.turn
    <3>1. CASE j \in DOMAIN pending /\ pending'[j] = pending[j]
      <4>. DEFINE u == pending[j][1]
      <4>1. u \in Turns /\ u <= lastDelta
        BY <3>1, TurnNumbers DEF PendingBehind
      <4>. HIDE DEF u
      <4>2. u \in Nat /\ f.turn \in Nat /\ lastDelta \in Nat
        BY <1>1, <2>2, <4>1
      <4>3. u <= f.turn
        BY <2>4, <4>1, <4>2
      <4>. QED
        BY <3>1, <4>3 DEF u
    <3>2. CASE pending'[j] = <<f.turn, f.n>>
      <4>1. <<f.turn, f.n>>[1] = f.turn
        OBVIOUS
      <4>2. f.turn \in Nat
        BY <1>1, <2>2
      <4>3. f.turn <= f.turn
        BY <4>2
      <4>. QED
        BY Zenon, <3>2, <4>1, <4>3
    <3>. QED
      BY <2>5, <3>1, <3>2
  <2>. QED
    BY <2>1, <2>6 DEF PendingBehind
<1>5. UNCHANGED <<pending, lastDelta>> \/ pending' = <<>> \/ \E f \in Frames : Reads(f) /\ DeltaRead(f)
  BY Steps, LinesRead, ThrottleFired, TurnsSettled
     DEF Takes, Refuses, LoopWrites, Releases, Begins, Fires, Settles, Nothing, clientVars,
         FlushRead, ResponseRead
<1>. QED
  BY <1>2, <1>3, <1>4, <1>5

LEMMA ActiveIsLatestKept ==
  ASSUME TypesOK, FreshUntold, ActiveIsLatest, [Next]_vars
  PROVE  ActiveIsLatest'
<1>1. activeTurn \in {0, begun} /\ Streaming(items)
  BY DEF ActiveIsLatest, Streaming
<1>2. ASSUME UNCHANGED <<activeTurn, begun>>, Streaming(items') PROVE ActiveIsLatest'
  BY <1>1, <1>2 DEF ActiveIsLatest, Streaming
<1>3. Streaming(Flushed)
  BY <1>1, FlushedStreaming
<1>4. CASE UNCHANGED <<activeTurn, begun, items>>
  BY <1>1, <1>2, <1>4
<1>5. CASE ThrottleFires
  BY <1>2, <1>3, <1>5 DEF ThrottleFires, submitVars
<1>6. CASE LineArrives
  <2>1. PICK f \in Frames : Reads(f) /\ (DeltaRead(f) \/ FlushLine(f) \/ ResponseRead(f))
    BY <1>6, LinesAre
  <2>2. UNCHANGED <<activeTurn, begun>>
    BY <2>1 DEF Reads
  <2>3. RowsOK(Flushed)
    BY FlushedRows
  <2>4. CASE items' = Append(Flushed, ToolRow(f.turn, f.n, f.id))
    <3>. DEFINE row == ToolRow(f.turn, f.n, f.id)
    <3>1. /\ Len(Flushed) \in Nat /\ DOMAIN Flushed = 1..Len(Flushed)
          /\ DOMAIN items' = 1..(Len(Flushed) + 1)
          /\ \A i \in DOMAIN Flushed : items'[i] = Flushed[i]
          /\ items'[Len(Flushed) + 1] = row
      BY <2>3, <2>4, SequenceAppended DEF RowsOK
    <3>2. row.kind = "tool"
      BY DEF ToolRow
    <3>. HIDE DEF row
    <3>3. \A k \in DOMAIN items' : k \in DOMAIN Flushed \/ k = Len(Flushed) + 1
      BY <3>1
    <3>4. Streaming(items')
      BY <1>3, <3>1, <3>2, <3>3 DEF Streaming
    <3>. QED
      BY <1>2, <2>2, <3>4
  <2>5. CASE items' = LoopStopped(Flushed) \/ items' = CloseToolCall(Flushed, f.turn, f.id)
    <3>1. /\ DOMAIN items' = DOMAIN Flushed
          /\ \A k \in DOMAIN Flushed :
               \/ items'[k] = Flushed[k]
               \/ /\ Flushed[k].kind = "tool"
                  /\ \/ items'[k] = [Flushed[k] EXCEPT !.status = "error"]
                     \/ items'[k] = [Flushed[k] EXCEPT !.status = "ok"]
      BY <2>3, <2>5, LoopStoppedIs, CloseToolCallIs
    <3>2. ASSUME NEW k \in DOMAIN Flushed PROVE items'[k] = Flushed[k] \/ items'[k].kind = "tool"
      <4>1. RowOK(Flushed[k])
        BY <2>3 DEF RowsOK
      <4>. QED
        BY <3>1, <4>1 DEF RowOK
    <3>3. Streaming(items')
      BY <1>3, <3>1, <3>2 DEF Streaming
    <3>. QED
      BY <1>2, <2>2, <3>3
  <2>6. CASE items' = Flushed
    BY <1>2, <1>3, <2>2, <2>6
  <2>7. CASE UNCHANGED items
    BY <1>4, <2>2, <2>7
  <2>. QED
    BY <2>1, <2>4, <2>5, <2>6, <2>7 DEF FlushLine, DeltaRead, ResponseRead
<1>7. ASSUME NEW t \in Turns, TurnSettled(t) PROVE ActiveIsLatest'
  <2>1. activeTurn' = 0
    BY <1>7 DEF TurnSettled
  <2>2. 0 \notin Turns /\ TypesOK'
    BY TypesKept, TurnNumbers
  <2>3. \A k \in DOMAIN items' : items'[k].turn \in Turns
    BY <2>2 DEF TypesOK, RowsOK, RowOK
  <2>. QED
    BY <2>1, <2>2, <2>3 DEF ActiveIsLatest
<1>8. CASE Begins
  <2>1. activeTurn' = begun' /\ begun' = begun + 1 /\ begun' \in Turns /\ items' = items /\ begun \in Nat
    BY <1>8, TurnNumbers DEF Begins
  <2>2. Fresh(begun')
    BY <2>1 DEF Fresh
  <2>3. \A k \in DOMAIN items : items[k].turn # begun'
    BY <2>2 DEF FreshUntold
  <2>. QED
    BY <2>1, <2>3 DEF ActiveIsLatest
<1>9. \/ UNCHANGED <<activeTurn, begun, items>> \/ ThrottleFires \/ LineArrives
      \/ (\E t \in Turns : TurnSettled(t)) \/ Begins
  BY Steps DEF Takes, Refuses, LoopWrites, Releases, Nothing, clientVars
<1>. QED
  BY <1>4, <1>5, <1>6, <1>7, <1>8, <1>9

LEMMA CallsStay ==
  ASSUME TypesOK, [Next]_vars, NEW t \in Turns, NEW n, IsCall(t, n)
  PROVE  IsCall(t, n)'
<1>1. CASE UNCHANGED emitted
  BY <1>1 DEF IsCall
<1>2. ASSUME slot \in Turns, NEW kind \in {"text", "call"}, Emits(kind) PROVE IsCall(t, n)'
  BY <1>2, EmitsIs DEF IsCall
<1>. QED
  BY <1>1, <1>2, OthersEmitted

LEMMA CallsEmittedKept ==
  ASSUME TypesOK, CallsEmitted, [Next]_vars
  PROVE  CallsEmitted'
<1>1. /\ \A k \in Tools : \E n \in Nat :
           items[k].text = <<<<items[k].turn, n>>>> /\ IsCall(items[k].turn, n)
      /\ \A i \in DOMAIN toClient :
           toClient[i].kind = "tool_call" => IsCall(toClient[i].turn, toClient[i].n)
  BY DEF CallsEmitted
<1>2. \A i \in DOMAIN toClient' :
        \/ \E j \in DOMAIN toClient : toClient'[i] = toClient[j]
        \/ \E kind \in {"text", "call"} : \E g \in Frames :
             /\ slot \in Turns /\ Emits(kind) /\ toClient'[i] = g /\ Token(g, slot) /\ g.n = NextToken
             /\ g.kind = "tool_call" => kind = "call"
        \/ toClient'[i].kind # "tool_call"
  <2>1. CASE UNCHANGED toClient
    BY <2>1
  <2>2. CASE LineArrives
    <3>1. PICK f \in Frames : Reads(f)
      BY <2>2, LinesRead
    <3>2. \A i \in DOMAIN toClient' : i + 1 \in DOMAIN toClient /\ toClient'[i] = toClient[i + 1]
      BY <3>1, PipeRead
    <3>. QED
      BY <3>2
  <2>3. ASSUME NEW g \in Frames, toClient' = Append(toClient, g)
        PROVE  \A i \in DOMAIN toClient' :
                 toClient'[i] = g \/ (i \in DOMAIN toClient /\ toClient'[i] = toClient[i])
    BY <2>3, PipeWritten
  <2>4. CASE TokenSent
    BY <2>3, <2>4 DEF TokenSent
  <2>5. CASE TextInResponse
    <3>1. LET g == Plain("message_done", slot) IN g \in Frames /\ g.kind # "tool_call"
      BY <2>5, FrameTypes DEF TextInResponse, Plain
    <3>. QED
      BY <2>3, <2>5, <3>1 DEF TextInResponse
  <2>6. CASE NoToken
    BY <2>1, <2>3, <2>6 DEF NoToken
  <2>7. UNCHANGED toClient \/ LineArrives \/ Server
    BY StorySteps, ThrottleFired, TurnsSettled DEF Begins, Fires, Settles, Nothing
  <2>. QED
    BY <2>1, <2>2, <2>4, <2>5, <2>6, <2>7, TokenSteps
<1>3. \A i \in DOMAIN toClient : toClient[i].turn \in Turns
  BY TurnNumbers
<1>4. ASSUME NEW i \in DOMAIN toClient', toClient'[i].kind = "tool_call", NEW u, u = toClient'[i].turn,
             NEW n, n = toClient'[i].n
      PROVE  IsCall(u, n)'
  <2>1. CASE \E j \in DOMAIN toClient : toClient'[i] = toClient[j]
    BY <1>1, <1>3, <1>4, <2>1, CallsStay
  <2>2. ASSUME NEW kind \in {"text", "call"}, NEW g \in Frames,
               slot \in Turns, Emits(kind), toClient'[i] = g, Token(g, slot), g.n = NextToken,
               g.kind = "tool_call" => kind = "call"
        PROVE  IsCall(u, n)'
    <3>1. u = slot /\ n = NextToken /\ kind = "call"
      BY <1>4, <2>2 DEF Token
    <3>2. NextToken \in DOMAIN emitted'[slot] /\ emitted'[slot][NextToken].kind = kind
      BY <2>2, EmitsIs
    <3>. QED
      BY <3>1, <3>2 DEF IsCall
  <2>. QED
    BY <1>2, <1>4, <2>1, <2>2
<1>5. \A k \in Tools' :
        \/ k \in Tools /\ items'[k].turn = items[k].turn /\ items'[k].text = items[k].text
        \/ \E f \in Frames : Reads(f) /\ f.kind = "tool_call" /\ items'[k] = ToolRow(f.turn, f.n, f.id)
  <2>1. ToolsStay(items') => \A k \in Tools' :
          k \in Tools /\ items'[k].turn = items[k].turn /\ items'[k].text = items[k].text
    BY DEF ToolsStay, SameTool, Tools
  <2>2. CASE UNCHANGED items
    BY <2>2 DEF Tools
  <2>3. CASE LineArrives
    <3>1. PICK f \in Frames : Reads(f) /\ (DeltaRead(f) \/ FlushRead(f) \/ ResponseRead(f))
      BY <2>3, LinesRead
    <3>2. CASE FlushRead(f)
      BY <2>1, <3>1, <3>2 DEF FlushRead, CallRows, ResultRows, StoppedRows, SameTool, Tools
    <3>. QED
      BY <2>2, <3>1, <3>2 DEF DeltaRead, ResponseRead
  <2>. QED
    BY <2>1, <2>2, <2>3, Steps, ThrottleFired, TurnsSettled
       DEF Takes, Refuses, LoopWrites, Releases, Begins, Fires, Settles, Nothing, clientVars
<1>6. \A k \in Tools : items[k].turn \in Turns
  BY TurnNumbers DEF Tools
<1>7. ASSUME NEW k \in Tools', NEW u, u = items'[k].turn
      PROVE  \E n \in Nat : items'[k].text = <<<<u, n>>>> /\ IsCall(u, n)'
  <2>1. CASE k \in Tools /\ items'[k].turn = items[k].turn /\ items'[k].text = items[k].text
    BY <1>1, <1>6, <1>7, <2>1, CallsStay
  <2>2. ASSUME NEW f \in Frames, Reads(f), f.kind = "tool_call", items'[k] = ToolRow(f.turn, f.n, f.id)
        PROVE  \E n \in Nat : items'[k].text = <<<<u, n>>>> /\ IsCall(u, n)'
    <3>1. u = f.turn /\ items'[k].text = <<<<u, f.n>>>> /\ f.n \in Nat /\ u \in Turns
      BY <1>7, <2>2 DEF ToolRow, Frames
    <3>2. 1 \in DOMAIN toClient /\ toClient[1] = f
      BY <2>2, PipeRead
    <3>3. IsCall(u, f.n)
      BY <1>1, <2>2, <3>1, <3>2
    <3>. QED
      BY <3>1, <3>3, CallsStay
  <2>. QED
    BY <1>5, <2>1, <2>2
<1>. QED
  BY <1>4, <1>7 DEF CallsEmitted

-----------------------------------------------------------------------------
(* What is told of the active turn.                                        *)

LEMMA LateStays ==
  ASSUME TypesOK, FreshUntold, Server, NEW t \in Turns, Late(t), emitted'[t] = emitted[t]
  PROVE  Late(t)'
<1>1. /\ emitted[t] # <<>> /\ Last(emitted[t]).kind = "text"
      /\ phase \in {"completed", "answered"} \/ slot # t
  BY DEF Late
<1>2. slot = 0 <=> phase = "idle"
  BY DEF TypesOK
<1>3. CASE ReadsChatSend
  <2>1. 1 \in DOMAIN toServer /\ Head(toServer) = toServer[1]
    BY <1>3, ServerRead DEF ReadsChatSend
  <2>2. Fresh(t) => emitted[t] = <<>>
    BY DEF FreshUntold
  <2>3. Head(toServer) # t
    BY <1>1, <2>1, <2>2 DEF Fresh
  <2>4. slot = 0 => slot' # t
    BY <1>3, <2>3 DEF ReadsChatSend
  <2>5. slot # 0 => slot' = slot /\ phase' = phase
    BY <1>3 DEF ReadsChatSend, serverVars
  <2>. QED
    BY <1>1, <1>2, <2>4, <2>5 DEF Late
<1>4. CASE SlotReleased
  <2>1. slot' # t
    BY <1>4, TurnNumbers DEF SlotReleased
  <2>. QED
    BY <1>1, <2>1 DEF Late
<1>5. CASE slot' = slot /\ (phase \in {"completed", "answered"} => phase' \in {"completed", "answered"})
  BY <1>1, <1>5 DEF Late
<1>. QED
  BY <1>3, <1>4, <1>5
     DEF Server, StreamsText, StreamsCall, Streams, StreamEnds, ToolEnds, LoopStops, SendsResponse

LEMMA LastRoundStays ==
  ASSUME TypesOK, Server, UNCHANGED clientVars, NEW t \in Turns, LastRound(t),
         emitted'[t] = emitted[t]
  PROVE  LastRound(t)'
<1>. DEFINE r == Last(emitted[t]).round
            f == Response("completed", t, r)
<1>1. f.n = r
  BY DEF Response
<1>2. \/ slot = t /\ phase = "completed" /\ round = r
      \/ (\E i \in DOMAIN toClient : toClient[i] = f)
      \/ outcome[t] = f
  BY <1>1 DEF LastRound
<1>3. f = Response("completed", t, Last(emitted'[t]).round)
  OBVIOUS
<1>. HIDE DEF r
<1>4. CASE outcome[t] = f
  <2>1. outcome'[t] = f
    BY <1>4 DEF clientVars
  <2>. QED
    BY <1>3, <2>1 DEF LastRound
<1>5. ASSUME NEW g \in Frames, toClient' = Append(toClient, g), NEW i \in DOMAIN toClient
      PROVE  i \in DOMAIN toClient' /\ toClient'[i] = toClient[i]
  BY <1>5, PipeWritten
<1>6. CASE \E i \in DOMAIN toClient : toClient[i] = f
  <2>1. UNCHANGED toClient \/ \E g \in Frames : toClient' = Append(toClient, g)
    <3>1. LET g == Plain("message_done", slot) IN slot \in Turns => g \in Frames
      BY FrameTypes
    <3>. QED
      BY <3>1, TokenSteps DEF TokenSent, TextInResponse, NoToken
  <2>2. \E i \in DOMAIN toClient' : toClient'[i] = f
    BY <1>5, <1>6, <2>1
  <2>. QED
    BY <1>3, <2>2 DEF LastRound
<1>7. CASE slot = t /\ phase = "completed" /\ round = r
  <2>1. slot # 0
    BY <1>7, TurnNumbers
  <2>2. ReadsChatSend \/ SendsResponse
    BY <1>7 DEF Server, StreamsText, StreamsCall, Streams, StreamEnds, ToolEnds, LoopStops, SlotReleased
  <2>3. CASE ReadsChatSend
    <3>1. UNCHANGED <<slot, phase, round>>
      BY <2>1, <2>3 DEF ReadsChatSend, serverVars
    <3>2. slot' = t /\ phase' = "completed" /\ round' = f.n
      BY <1>1, <1>7, <3>1
    <3>. QED
      BY <1>3, <3>2 DEF LastRound
  <2>4. CASE SendsResponse
    <3>1. toClient' = Append(toClient, f)
      BY <1>7, <2>4 DEF SendsResponse, Writes
    <3>2. f \in Frames
      <4>1. r \in Nat
        BY <1>7 DEF TypesOK
      <4>. QED
        BY <4>1, FrameTypes DEF Answers
    <3>. HIDE DEF f
    <3>3. \E i \in DOMAIN toClient' : toClient'[i] = f
      BY <3>1, <3>2, PipeWritten
    <3>. QED
      BY <1>3, <3>3 DEF LastRound
  <2>. QED
    BY <2>2, <2>3, <2>4
<1>. QED
  BY <1>2, <1>4, <1>6, <1>7

LEMMA ServerTells ==
  ASSUME TypesOK, FreshUntold, Server, UNCHANGED clientVars, NEW t \in Turns, Told(t)
  PROVE  Told(t)'
<1>. DEFINE A == InRows(items, t) \cup InThrottle(pending, t)
<1>1. toClient \in Seq(Frames) /\ emitted[t] \in Seq(EmittedTokens)
  BY DEF TypesOK, EmittedTokens
<1>2. A' = A
  BY DEF clientVars
<1>3. SeenOf(t) = A \cup InPipe(toClient, t) /\ SeenOf(t)' = A \cup InPipe(toClient', t)
  BY <1>2 DEF SeenOf
<1>. HIDE DEF A
<1>4. ASSUME InPipe(toClient', t) = InPipe(toClient, t), emitted'[t] = emitted[t] PROVE Told(t)'
  <2>1. SeenOf(t)' = SeenOf(t)
    BY <1>3, <1>4
  <2>2. Late(t) /\ LastRound(t) => Late(t)' /\ LastRound(t)'
    BY <1>4, LateStays, LastRoundStays
  <2>. QED
    BY <1>4, <2>1, <2>2 DEF Told
<1>5. ASSUME NEW g \in Frames, toClient' = Append(toClient, g), ~Token(g, t)
      PROVE  InPipe(toClient', t) = InPipe(toClient, t)
  BY <1>1, <1>5, SightingWritten
<1>6. CASE NoToken
  <2>1. emitted'[t] = emitted[t]
    BY <1>6 DEF NoToken
  <2>2. InPipe(toClient', t) = InPipe(toClient, t)
    BY <1>5, <1>6 DEF NoToken, Token
  <2>. QED
    BY <1>4, <2>1, <2>2
<1>7. CASE TokenSent
  <2>1. PICK kind \in {"text", "call"}, g \in Frames :
          Emits(kind) /\ toClient' = Append(toClient, g) /\ Token(g, slot) /\ g.n = NextToken
    BY <1>7 DEF TokenSent
  <2>2. slot \in Turns /\ phase = "stream"
    BY <1>7 DEF TokenSent
  <2>3. CASE slot # t
    <3>1. emitted'[t] = emitted[t]
      BY <2>1, <2>2, <2>3, EmitsIs
    <3>2. ~Token(g, t)
      BY <2>1, <2>3 DEF Token
    <3>. QED
      BY <1>4, <1>5, <2>1, <3>1, <3>2
  <2>4. CASE slot = t
    <3>. DEFINE n == Len(emitted[t])
                at == Len(toClient) + 1
                x == Seen(g.n, 3, 0, at)
                S == SeenOf(t)
    <3>1. InOrder(S, n)
      BY <2>2, <2>4 DEF Told, Late
    <3>2. n \in Nat /\ g.n = n + 1 /\ Len(emitted'[t]) = n + 1
      BY <2>1, <2>2, <2>4, EmitsIs
    <3>3. x.part = 3 /\ x.row = 0 /\ x.at = at /\ x.n = g.n
      BY SeenIs
    <3>4. at \in Nat
      BY <1>1, LenProperties
    <3>5. InPipe(toClient', t) = InPipe(toClient, t) \cup {x}
      BY <1>1, <2>1, <2>4, SightingWritten
    <3>. HIDE DEF x
    <3>6. \A s \in InPipe(toClient, t) : s.part = 3 /\ s.row = 0 /\ s.at \in Nat /\ s.at < at
      <4>. TAKE s \in InPipe(toClient, t)
      <4>1. PICK i \in DOMAIN toClient : s = Seen(toClient[i].n, 3, 0, i)
        BY PipeHas
      <4>2. s.part = 3 /\ s.row = 0 /\ s.at = i
        BY <4>1, SeenIs
      <4>3. DOMAIN toClient = 1..Len(toClient) /\ Len(toClient) \in Nat
        BY <1>1, LenProperties
      <4>. QED
        BY <4>2, <4>3
    <3>7. \A s \in A : s.part \in {1, 2}
      BY PartsAre DEF A
    <3>. HIDE DEF at
    <3>8. \A s \in S : ~Before(x, s)
      BY <1>3, <3>3, <3>4, <3>6, <3>7 DEF Before
    <3>9. ~Before(x, x)
      BY <3>3, <3>4 DEF Before
    <3>. HIDE DEF n, S
    <3>10. InOrder(S \cup {x}, n + 1)
      BY <3>1, <3>2, <3>3, <3>8, <3>9, OrderExtended
    <3>11. SeenOf(t)' = S \cup {x}
      BY <1>3, <3>5 DEF S
    <3>. QED
      BY <3>2, <3>10, <3>11 DEF Told
  <2>. QED
    BY <2>3, <2>4
<1>8. CASE TextInResponse
  <2>. DEFINE g == Plain("message_done", slot)
  <2>1. /\ slot \in Turns /\ phase = "stream" /\ slot' = slot /\ phase' = "completed"
        /\ Emits("text") /\ round' = round /\ toClient' = Append(toClient, g)
    BY <1>8 DEF TextInResponse
  <2>2. g \in Frames /\ ~Token(g, t)
    BY <2>1, FrameTypes DEF Plain, Token
  <2>. HIDE DEF g
  <2>3. InPipe(toClient', t) = InPipe(toClient, t)
    BY <1>5, <2>1, <2>2
  <2>4. CASE slot # t
    <3>1. emitted'[t] = emitted[t]
      BY <2>1, <2>4, EmitsIs
    <3>. QED
      BY <1>4, <2>3, <3>1
  <2>5. CASE slot = t
    <3>1. InOrder(SeenOf(t), Len(emitted[t]))
      BY <2>1, <2>5 DEF Told, Late
    <3>2. /\ Len(emitted[t]) \in Nat /\ Len(emitted'[t]) = Len(emitted[t]) + 1
          /\ emitted'[t] # <<>> /\ Last(emitted'[t]).kind = "text" /\ Last(emitted'[t]).round = round
      BY <2>1, <2>5, EmitsIs
    <3>3. Len(emitted'[t]) - 1 = Len(emitted[t])
      BY <3>2
    <3>4. SeenOf(t)' = SeenOf(t)
      BY <1>3, <2>3
    <3>5. Late(t)'
      BY <2>1, <3>2 DEF Late
    <3>6. LastRound(t)'
      BY <2>1, <2>5, <3>2 DEF LastRound, Response
    <3>. QED
      BY <3>1, <3>3, <3>4, <3>5, <3>6 DEF Told
  <2>. QED
    BY <2>4, <2>5
<1>. QED
  BY <1>6, <1>7, <1>8, TokenSteps

LEMMA LineTells ==
  ASSUME TypesOK, TurnsInTurn, AnsweredLast, ActiveIsLatest, PendingBehind, LineArrives,
         NEW t \in Turns, t = activeTurn, Told(t)
  PROVE  Told(t)'
<1>1. PICK f \in Frames : /\ Reads(f) /\ UNCHANGED <<emitted, round>>
                          /\ DeltaRead(f) \/ FlushLine(f) \/ ResponseRead(f)
  BY LinesAre
<1>2. t # 0 /\ emitted[t] \in Seq(EmittedTokens)
  BY TurnNumbers DEF TypesOK, EmittedTokens
<1>3. ASSUME NEW n \in Nat, InOrder(SeenOf(t), n) PROVE InOrder(SeenOf(t)', n)
  <2>1. InOrder((InRows(items, t) \cup InThrottle(pending, t)) \cup InPipe(toClient, t), n)
    BY <1>3 DEF SeenOf
  <2>2. InOrder((InRows(items', t) \cup InThrottle(pending', t)) \cup InPipe(toClient', t), n)
    BY <1>2, <2>1, LineInOrder
  <2>. QED
    BY <2>2 DEF SeenOf
<1>4. Len(emitted[t]) \in Nat /\ Len(emitted'[t]) = Len(emitted[t])
  BY <1>1, <1>2, LenProperties
<1>5. CASE InOrder(SeenOf(t), Len(emitted[t]))
  BY <1>3, <1>4, <1>5 DEF Told
<1>6. CASE Late(t) /\ InOrder(SeenOf(t), Len(emitted[t]) - 1) /\ LastRound(t)
  <2>1. Late(t)'
    BY <1>1, <1>6 DEF Late, Reads, loopVars
  <2>2. Len(emitted[t]) - 1 \in Nat
    BY <1>2, <1>6, EmptySeq, LenProperties DEF Late
  <2>3. InOrder(SeenOf(t)', Len(emitted'[t]) - 1)
    BY <1>3, <1>4, <1>6, <2>2
  <2>. DEFINE g == Response("completed", t, Last(emitted[t]).round)
  <2>4. \/ slot = t /\ phase = "completed" /\ round = g.n
        \/ (\E i \in DOMAIN toClient : toClient[i] = g)
        \/ outcome[t] = g
    BY <1>6 DEF LastRound
  <2>5. g.kind = "completed" /\ g.turn = t
    BY DEF Response
  <2>6. g = Response("completed", t, Last(emitted'[t]).round) /\ UNCHANGED <<slot, phase, round>>
    BY <1>1 DEF Reads, loopVars
  <2>. HIDE DEF g
  <2>10. LastRound(t)'
    <3>7. CASE slot = t /\ phase = "completed" /\ round = g.n
      BY <2>6, <3>7 DEF LastRound
    <3>8. CASE \E i \in DOMAIN toClient : toClient[i] = g
      <4>1. PICK i \in DOMAIN toClient : toClient[i] = g
        BY <3>8
      <4>2. CASE i = 1
        <5>1. f = g
          BY <1>1, <4>1, <4>2, PipeRead
        <5>2. outcome' = [outcome EXCEPT ![t] = g]
          BY <1>1, <2>5, <5>1 DEF DeltaRead, FlushLine, ResponseRead, Answers
        <5>3. outcome'[t] = g
          BY <5>2 DEF TypesOK
        <5>. QED
          BY <2>6, <5>3 DEF LastRound
      <4>3. CASE i # 1
        <5>1. i - 1 \in DOMAIN toClient' /\ toClient'[i - 1] = g
          BY <1>1, <4>1, <4>3, PipeRead
        <5>. QED
          BY <2>6, <5>1 DEF LastRound
      <4>. QED
        BY <4>2, <4>3
    <3>9. CASE outcome[t] = g
      <4>1. CASE UNCHANGED outcome
        BY <2>6, <3>9, <4>1 DEF LastRound
      <4>2. CASE ResponseRead(f) /\ f.turn = t
        <5>1. 1 \in DOMAIN toClient /\ toClient[1] = f
          BY <1>1, PipeRead
        <5>2. outcome[toClient[1].turn].kind = "none"
          BY <5>1 DEF AnsweredLast
        <5>. QED
          BY <2>5, <3>9, <4>2, <5>1, <5>2
      <4>3. CASE ResponseRead(f) /\ f.turn # t
        <5>1. outcome'[t] = g
          BY <3>9, <4>3 DEF ResponseRead, TypesOK
        <5>. QED
          BY <2>6, <5>1 DEF LastRound
      <4>. QED
        BY <1>1, <4>1, <4>2, <4>3 DEF DeltaRead, FlushLine
    <3>. QED
      BY <2>4, <3>7, <3>8, <3>9
  <2>. QED
    BY <2>1, <2>3, <2>10 DEF Told
<1>. QED
  BY <1>5, <1>6 DEF Told

(* Nothing is seen of a turn that begins.                                  *)
LEMMA BeginTells ==
  ASSUME TypesOK, TurnsInTurn, FreshUntold, PendingBehind, Begins, UNCHANGED serverVars,
         NEW t \in Turns, t = begun'
  PROVE  Told(t)'
<1>1. /\ begun \in Nat /\ t = begun + 1 /\ t \in Nat /\ lastDelta \in Nat
      /\ \A i \in DOMAIN toClient : toClient[i].turn \in Nat
      /\ \A k \in DOMAIN items : items[k].turn \in Turns
  BY TurnNumbers DEF Begins
<1>2. Fresh(t)
  BY <1>1 DEF Fresh
<1>3. lastDelta < t /\ \A i \in DOMAIN toClient : toClient[i].turn < t
  BY <1>2 DEF TurnsInTurn
<1>4. emitted[t] = <<>> /\ \A k \in DOMAIN items : items[k].turn # t
  BY <1>2 DEF FreshUntold
<1>5. InRows(items, t) = {}
  <2>1. \A s : s \notin InRows(items, t)
    BY <1>4, RowsHave
  <2>. QED
    BY <2>1
<1>6. \A j \in DOMAIN pending : pending[j][1] # t
  <2>. TAKE j \in DOMAIN pending
  <2>. DEFINE u == pending[j][1]
  <2>1. u \in Nat
    BY TurnNumbers
  <2>2. u <= lastDelta
    BY DEF PendingBehind
  <2>. HIDE DEF u
  <2>3. u # t
    BY <1>1, <1>3, <2>1, <2>2
  <2>. QED
    BY <2>3 DEF u
<1>7. InThrottle(pending, t) = {}
  <2>1. \A s : s \notin InThrottle(pending, t)
    BY <1>6, ThrottleHas DEF InText
  <2>. QED
    BY <2>1
<1>8. InPipe(toClient, t) = {}
  <2>1. \A i \in DOMAIN toClient : ~Token(toClient[i], t)
    BY <1>1, <1>3 DEF Token
  <2>2. \A s : s \notin InPipe(toClient, t)
    BY <2>1, PipeHas
  <2>. QED
    BY <2>2
<1>9. SeenOf(t)' = {}
  BY <1>5, <1>7, <1>8 DEF SeenOf, Begins
<1>10. emitted'[t] = <<>> /\ Len(<<>>) = 0
  BY <1>4 DEF serverVars
<1>. QED
  BY <1>9, <1>10, NothingSeen DEF Told

LEMMA ThrottleTells ==
  ASSUME TypesOK, TurnsInTurn, ActiveIsLatest, PendingBehind, ThrottleFires,
         NEW t \in Turns, t = activeTurn, Told(t)
  PROVE  Told(t)'
<1>1. /\ items' = Flushed /\ pending' = <<>>
      /\ UNCHANGED <<toClient, serverVars, outcome>>
  BY DEF ThrottleFires, Flush
<1>2. t # 0
  BY TurnNumbers
<1>3. \A s \in InPipe(toClient, t) : s.part = 3
  BY PartsAre
<1>4. ASSUME NEW n, InOrder(SeenOf(t), n) PROVE InOrder(SeenOf(t)', n)
  <2>1. InOrder((InRows(items, activeTurn) \cup InThrottle(pending, activeTurn)) \cup InPipe(toClient, t), n)
    BY <1>4 DEF SeenOf
  <2>2. InOrder(InRows(Flushed, activeTurn) \cup InPipe(toClient, t), n)
    BY <1>2, <1>3, <2>1, FlushedInOrder
  <2>3. SeenOf(t)' = InRows(Flushed, activeTurn) \cup InPipe(toClient, t)
    BY <1>1, NothingHeld DEF SeenOf
  <2>. QED
    BY <2>2, <2>3
<1>5. UNCHANGED <<emitted, slot, phase, round>>
  BY <1>1 DEF serverVars
<1>6. (Late(t) => Late(t)') /\ (LastRound(t) => LastRound(t)')
  BY <1>1, <1>5 DEF Late, LastRound
<1>. QED
  BY <1>4, <1>5, <1>6 DEF Told

LEMMA ActiveToldKept ==
  ASSUME TypesOK, TurnsInTurn, AnsweredLast, StoryInv, [Next]_vars
  PROVE  ActiveTold'
<1>1. ActiveIsLatest /\ FreshUntold /\ PendingBehind /\ ActiveTold
  BY DEF StoryInv
<1>2. SUFFICES ASSUME NEW t \in Turns, t = activeTurn' PROVE Told(t)'
  <2>1. activeTurn' \in {0} \cup Turns
    BY TypesKept DEF TypesOK
  <2>. QED
    BY <1>2, <2>1 DEF ActiveTold
<1>3. t # 0
  BY TurnNumbers
<1>4. activeTurn = t => Told(t)
  BY <1>1, <1>3 DEF ActiveTold
<1>5. CASE Server /\ UNCHANGED clientVars
  <2>1. activeTurn = t
    BY <1>2, <1>5 DEF clientVars
  <2>. QED
    BY <1>1, <1>4, <1>5, <2>1, ServerTells
<1>6. CASE Begins /\ UNCHANGED serverVars
  <2>1. t = begun'
    BY <1>2, <1>6 DEF Begins
  <2>. QED
    BY <1>1, <1>6, <2>1, BeginTells
<1>7. CASE LineArrives
  <2>1. activeTurn = t
    BY <1>2, <1>7 DEF LineArrives
  <2>. QED
    BY <1>1, <1>4, <1>7, <2>1, LineTells
<1>8. CASE ThrottleFires
  <2>1. activeTurn = t
    BY <1>2, <1>8 DEF ThrottleFires
  <2>. QED
    BY <1>1, <1>4, <1>8, <2>1, ThrottleTells
<1>9. CASE \E u \in Turns : TurnSettled(u)
  BY <1>2, <1>3, <1>9 DEF TurnSettled
<1>10. CASE Nothing /\ UNCHANGED serverVars
  <2>1. activeTurn = t /\ UNCHANGED <<items, pending, toClient, outcome, emitted, slot, phase, round>>
    BY <1>2, <1>10 DEF Nothing, clientVars, serverVars
  <2>2. SeenOf(t)' = SeenOf(t)
    BY <2>1 DEF SeenOf
  <2>3. (Late(t) => Late(t)') /\ (LastRound(t) => LastRound(t)')
    BY <2>1 DEF Late, LastRound
  <2>. QED
    BY <1>4, <2>1, <2>2, <2>3 DEF Told
<1>. QED
  BY <1>5, <1>6, <1>7, <1>8, <1>9, <1>10, StorySteps

LEMMA StoryInit ==
  ASSUME Init
  PROVE  StoryInv
<1>1. DOMAIN items = {} /\ DOMAIN pending = {} /\ DOMAIN toClient = {} /\ activeTurn = 0
  BY DEF Init
<1>2. \A t \in Turns : emitted[t] = <<>>
  BY DEF Init
<1>3. Tools = {}
  BY <1>1 DEF Tools
<1>. QED
  BY <1>1, <1>2, <1>3
     DEF StoryInv, ActiveIsLatest, FreshUntold, PendingBehind, CallsEmitted, ActiveTold

LEMMA StoryKept ==
  ASSUME TranscriptInv, StoryInv, [Next]_vars
  PROVE  StoryInv'
<1>1. TypesOK /\ TurnsInTurn /\ FramesInOrder /\ AnsweredLast /\ CancelledTools
  BY DEF TranscriptInv
<1>2. ActiveIsLatest /\ FreshUntold /\ PendingBehind /\ CallsEmitted
  BY DEF StoryInv
<1>3. ActiveIsLatest' /\ FreshUntold'
  BY <1>1, <1>2, ActiveIsLatestKept, FreshUntoldKept
<1>4. PendingBehind' /\ CallsEmitted'
  BY <1>1, <1>2, PendingBehindKept, CallsEmittedKept
<1>5. ActiveTold'
  BY <1>1, ActiveToldKept
<1>. QED
  BY <1>3, <1>4, <1>5 DEF StoryInv

(* The bubbles of the active turn are open, the throttle holds nothing of  *)
(* a later turn than its last delta, a tool row shows a call of its turn,  *)
(* and what the active turn has emitted is seen in its order; the text of  *)
(* a last round may still be in the response (or outcome) of that round.   *)
THEOREM StoryInvHolds == Spec => []StoryInv
<1>1. Init => StoryInv
  BY StoryInit
<1>2. TranscriptInv /\ StoryInv /\ [Next]_vars => StoryInv'
  BY StoryKept
<1>. QED
  BY <1>1, <1>2, TranscriptInvHolds, PTL DEF Spec

(* flushNow comes before a tool row (App.tsx), and appendDelta             *)
(* (transcriptStore.ts) finds the open bubble of the turn or opens the     *)
(* next: whatever the timer of the throttle does, the rows, the throttle   *)
(* and the pipe hold the tokens of the active turn, each once, in order.   *)
THEOREM ActiveTurnIsComplete == Spec => []ActiveTurnComplete
<1>1. StoryInv => ActiveTurnComplete
  BY DEF StoryInv, ActiveTold, Told, SeenOf, ActiveTurnComplete
<1>. QED
  BY <1>1, StoryInvHolds, PTL

-----------------------------------------------------------------------------
(* The end of a turn.                                                      *)

LEMMA OneText ==
  ASSUME NEW m \in Nat
  PROVE  Cardinality({m}) = 1 /\ Nth({m}, 1) = m
<1>1. Cardinality({m}) = 1
  BY FS_Singleton
<1>2. {j \in {m} : j <= m} = {m}
  OBVIOUS
<1>3. \E k \in {m} : Cardinality({j \in {m} : j <= k}) = 1
  BY <1>1, <1>2
<1>4. Nth({m}, 1) \in {m}
  BY <1>3 DEF Nth
<1>. QED
  BY <1>1, <1>4

(* Rows without a bubble show calls alone.                                 *)
LEMMA ToolsShowCalls ==
  ASSUME TypesOK, CallsEmitted, NEW t \in Turns,
         ~ \E k \in DOMAIN items : items[k].kind = "assistant" /\ items[k].turn = t,
         NEW s \in InRows(items, t)
  PROVE  IsCall(t, s.n)
<1>1. PICK k \in DOMAIN items : items[k].turn = t /\ \E j \in InText(items[k].text, t) :
        s = Seen(items[k].text[j][2], 1, k, j)
  BY RowsHave
<1>2. PICK j \in InText(items[k].text, t) : s = Seen(items[k].text[j][2], 1, k, j)
  BY <1>1
<1>3. k \in Tools
  <2>1. RowOK(items[k])
    BY DEF TypesOK, RowsOK
  <2>. QED
    BY <1>1, <2>1 DEF Tools, RowOK
<1>4. PICK n \in Nat : items[k].text = <<<<t, n>>>> /\ IsCall(t, n)
  BY <1>1, <1>3 DEF CallsEmitted
<1>5. j = 1
  BY <1>4 DEF InText
<1>6. s.n = n
  BY <1>2, <1>4, <1>5, SeenIs
<1>. QED
  BY <1>4, <1>6

LEMMA CompletedShown ==
  ASSUME TranscriptInv, StoryInv, NEW t \in continuations, TurnSettled(t),
         activeTurn = t, outcome[t].kind = "completed"
  PROVE  /\ InThrottle(pending, t) = {}
         /\ \/ InOrder(InRows(items', t), Len(emitted[t]))
            \/ /\ InOrder(InRows(items', t), Len(emitted[t]) - 1)
               /\ \E k \in DOMAIN items : items[k].turn = t /\ items[k].kind = "assistant"
<1>. DEFINE e == emitted[t]
            m == Len(e)
            own == \E k \in DOMAIN items : items[k].kind = "assistant" /\ items[k].turn = t
<1>1. TypesOK /\ AnsweredLast /\ TextFlushed /\ CallsEmitted /\ ActiveTold
  BY DEF TranscriptInv, StoryInv
<1>2. t \in Turns /\ t # 0
  BY <1>1, TurnNumbers DEF TypesOK
<1>3. \A i \in DOMAIN toClient : toClient[i].turn # t
  BY <1>1 DEF AnsweredLast
<1>4. slot = t => phase = "answered"
  BY <1>1, <1>2 DEF AnsweredLast
<1>5. InThrottle(pending, t) = {}
  <2>1. ~FlushAhead(t, 0)
    BY <1>3, <1>4 DEF FlushAhead, Rounds, Behind, Raised
  <2>2. \A j \in DOMAIN pending : pending[j][1] # t
    BY <1>1, <2>1 DEF TextFlushed
  <2>3. \A s : s \notin InThrottle(pending, t)
    BY <2>2, ThrottleHas DEF InText
  <2>. QED
    BY <2>3
<1>6. InPipe(toClient, t) = {}
  <2>1. \A s : s \notin InPipe(toClient, t)
    BY <1>3, PipeHas DEF Token
  <2>. QED
    BY <2>1
<1>7. SeenOf(t) = InRows(items, t)
  BY <1>5, <1>6 DEF SeenOf
<1>8. \/ InOrder(InRows(items, t), m)
      \/ Late(t) /\ InOrder(InRows(items, t), m - 1) /\ LastRound(t)
  BY <1>1, <1>2, <1>7 DEF ActiveTold, Told
<1>9. PICK final \in FinalTexts(t) : items' = FinalizeTurn(items, t, final)
  BY DEF TurnSettled
<1>10. /\ e \in Seq(EmittedTokens) /\ m \in Nat /\ DOMAIN e = 1..m
  BY <1>1, <1>2, LenProperties DEF TypesOK, EmittedTokens
<1>11. RowsOK(items) /\ \A k \in DOMAIN items : RowOK(items[k])
  BY <1>1 DEF TypesOK, RowsOK
<1>12. CASE own
  <2>1. items' = [k \in DOMAIN items |-> IF items[k].kind = "assistant" /\ items[k].turn = t
                                         THEN [items[k] EXCEPT !.status = "done"]
                                         ELSE items[k]]
    BY <1>9, <1>12 DEF FinalizeTurn
  <2>2. DOMAIN items' = DOMAIN items
    BY <2>1
  <2>3. \A k \in DOMAIN items : items'[k].turn = items[k].turn /\ items'[k].text = items[k].text
    <3>. TAKE k \in DOMAIN items
    <3>1. RowOK(items[k])
      BY <1>11
    <3>. QED
      BY <2>1, <3>1 DEF RowOK
  <2>4. InRows(items', t) = InRows(items, t)
    BY <2>2, <2>3, RowsUnmoved
  <2>. QED
    BY <1>5, <1>8, <1>12, <2>4
<1>13. CASE ~own
  <2>1. \A s \in InRows(items, t) : IsCall(t, s.n)
    BY <1>1, <1>2, <1>13, ToolsShowCalls
  <2>. DEFINE r == outcome[t].n
              said == TextOf(t, r)
  <2>2. final = [i \in 1..Cardinality(said) |-> <<t, Nth(said, i)>>]
    BY <1>9 DEF FinalTexts
  <2>3. \A n, i : InOrder(InRows(items, t), n) /\ i \in 1..n => IsCall(t, i)
    <3>. SUFFICES ASSUME NEW n, NEW i, InOrder(InRows(items, t), n), i \in 1..n
                  PROVE  IsCall(t, i)
      OBVIOUS
    <3>1. i \in {s.n : s \in InRows(items, t)}
      BY DEF InOrder
    <3>. QED
      BY <2>1, <3>1
  <2>4. CASE InOrder(InRows(items, t), m)
    <3>1. \A i \in DOMAIN e : e[i].kind = "call"
      BY <1>10, <2>3, <2>4 DEF IsCall
    <3>2. said = {}
      BY <3>1 DEF TextOf
    <3>3. Cardinality(said) = 0
      BY <3>2, FS_EmptySet
    <3>4. final = <<>>
      BY <2>2, <3>3
    <3>5. items' = items
      BY <1>9, <1>13, <3>4 DEF FinalizeTurn
    <3>. QED
      BY <1>5, <2>4, <3>5
  <2>5. CASE Late(t) /\ InOrder(InRows(items, t), m - 1) /\ LastRound(t)
    <3>1. m > 0 /\ m \in DOMAIN e /\ Last(e) = e[m] /\ e[m].kind = "text"
      BY <1>10, <2>5, EmptySeq DEF Late, Last
    <3>2. r = e[m].round
      <4>. DEFINE f == Response("completed", t, Last(e).round)
      <4>1. f.turn = t /\ f.n = Last(e).round
        BY DEF Response
      <4>2. outcome[t] = f
        BY <1>3, <1>4, <2>5, <4>1 DEF LastRound
      <4>. QED
        BY <3>1, <4>1, <4>2
    <3>3. \A i \in DOMAIN e : i # m => e[i].kind = "call"
      <4>. TAKE i \in DOMAIN e
      <4>1. i # m => i \in 1..(m - 1)
        BY <1>10
      <4>. QED
        BY <2>3, <2>5, <4>1 DEF IsCall
    <3>4. said = {m}
      BY <3>1, <3>2, <3>3 DEF TextOf
    <3>5. final = [i \in 1..1 |-> <<t, Nth({m}, i)>>]
      BY <1>10, <2>2, <3>4, OneText
    <3>6. final = [i \in 1..1 |-> <<t, m>>]
      <4>1. \A i \in 1..1 : i = 1
        OBVIOUS
      <4>2. Nth({m}, 1) = m
        BY <1>10, OneText
      <4>. HIDE DEF m
      <4>3. \A i \in 1..1 : <<t, Nth({m}, i)>> = <<t, m>>
        BY <4>1, <4>2
      <4>. QED
        BY <3>5, <4>3
    <3>. DEFINE b == Bubble(t, final, "done")
                K == Len(items) + 1
                x == Seen(m, 1, K, 1)
    <3>7. final \in Seq(Tokens) /\ DOMAIN final = {1} /\ final[1] = <<t, m>>
      <4>1. <<t, m>> \in Tokens
        BY <1>2, <1>10 DEF Tokens
      <4>2. final = <<<<t, m>>>>
        BY <3>6
      <4>. QED
        BY <4>1, <4>2
    <3>8. final # <<>>
      <4>1. <<>> \in Seq(Tokens) /\ Len(<<>>) = 0
        OBVIOUS
      <4>2. DOMAIN <<>> = 1..0
        BY <4>1, LenProperties
      <4>3. DOMAIN final # 1..0
        BY <3>7
      <4>. QED
        BY <4>2, <4>3
    <3>9. items' = Append(items, b)
      BY <1>9, <1>13, <3>8 DEF FinalizeTurn
    <3>10. b.turn = t /\ b.text = final
      BY DEF Bubble
    <3>. HIDE DEF b, m, e
    <3>11. InRows(items', t) = InRows(items, t) \cup Poured(final, t, K, 0)
      BY <1>11, <3>7, <3>9, <3>10, RowAppended
    <3>12. Poured(final, t, K, 0) = {x}
      <4>1. InText(final, t) = {1}
        BY <1>10, <3>1, <3>7 DEF InText
      <4>2. \A s : s \in Poured(final, t, K, 0) <=> \E j \in InText(final, t) : s = Seen(final[j][2], 1, K, 0 + j)
        BY PouredHas
      <4>3. \A s : s \in Poured(final, t, K, 0) <=> s = Seen(final[1][2], 1, K, 0 + 1)
        BY <4>1, <4>2
      <4>4. final[1][2] = m /\ 0 + 1 = 1
        BY <3>7
      <4>. QED
        BY <4>3, <4>4
    <3>13. x.part = 1 /\ x.row = K /\ x.at = 1 /\ x.n = m
      BY SeenIs
    <3>14. K \in Nat /\ \A k \in DOMAIN items : k < K
      BY <1>11, SequenceIs DEF RowsOK
    <3>15. \A s \in InRows(items, t) : s.part = 1 /\ s.row \in Nat /\ s.row < K
      BY <1>11, <3>14, RowSightings
    <3>16. m - 1 \in Nat /\ (m - 1) + 1 = m
      BY <1>10, <3>1
    <3>. HIDE DEF x, K
    <3>17. ~Before(x, x) /\ \A s \in InRows(items, t) : ~Before(x, s)
      BY <3>13, <3>14, <3>15 DEF Before
    <3>18. InOrder(InRows(items, t) \cup {x}, (m - 1) + 1)
      BY <2>5, <3>13, <3>16, <3>17, OrderExtended
    <3>19. InOrder(InRows(items', t), m)
      BY <3>11, <3>12, <3>16, <3>18
    <3>. QED
      BY <1>5, <3>19 DEF m, e
  <2>. QED
    BY <1>8, <2>4, <2>5
<1>. QED
  BY <1>12, <1>13

(* When end_turn reaches a turn that completed and is still the active one,*)
(* nothing of it is left in the throttle, and its rows show all it emitted;*)
(* finalizeTurn leaves out the text of the response only if there is a     *)
(* bubble of the turn.                                                     *)
THEOREM CompletedTurnIsShown == Spec => CompletedTurnShown
<1>. DEFINE A == \A t \in continuations :
       TurnSettled(t) /\ activeTurn = t /\ outcome[t].kind = "completed" =>
         /\ InThrottle(pending, t) = {}
         /\ \/ InOrder(InRows(items', t), Len(emitted[t]))
            \/ /\ InOrder(InRows(items', t), Len(emitted[t]) - 1)
               /\ \E k \in DOMAIN items : items[k].turn = t /\ items[k].kind = "assistant"
<1>1. TranscriptInv /\ StoryInv => A
  BY CompletedShown
<1>. QED
  BY <1>1, TranscriptInvHolds, StoryInvHolds, PTL DEF CompletedTurnShown
=============================================================================

------------------------- MODULE ShellRunnerProofs -------------------------
(* ResultComplete, for pipes, limits and outputs of any size.              *)
EXTENDS ShellRunner, TLAPS

(* What the proof needs of the types: sizes, and the stream while it is    *)
(* read.                                                                   *)
Typed ==
  /\ taken \in Nat /\ written \in Nat
  /\ truncated \in BOOLEAN
  /\ pipe \in Seq(Piece)
  /\ reader # "raised" => buffer \in Seq(Piece)

(* Nothing is lost between the command and the reader.                     *)
Conserved == reader # "raised" => taken + Len(buffer) + Len(pipe) = written

(* The end of the pipe is seen when it is empty and has no writer left.    *)
EndIsFinal == eof => pipe = <<>> /\ ~Held

ReaderDone == reader = "done" => buffer = <<>> /\ eof

TruncationNoted == truncated <=> taken > MaxOutput

CallInStep ==
  /\ pc \in {"draining", "returned"} => child = "reaped"
  /\ pc = "returned" => reader = "done"

OutputInv ==
  /\ Typed /\ Conserved /\ EndIsFinal /\ ReaderDone /\ TruncationNoted /\ CallInStep

(* Before anything is written the output is consistent.                     *)
LEMMA InitOutput == Init => OutputInv
<1> SUFFICES ASSUME Init PROVE OutputInv
  OBVIOUS
<1>1. pipe \in Seq(Piece) /\ buffer \in Seq(Piece) /\ Len(pipe) = 0 /\ Len(buffer) = 0
  <2> DEFINE empty == <<>>
  <2>1. empty \in Seq(Piece) /\ Len(empty) = 0
    OBVIOUS
  <2>2. pipe = empty /\ buffer = empty
    BY DEF Init
  <2> HIDE DEF empty
  <2> QED
    BY <2>1, <2>2
<1>2. taken = 0 /\ written = 0 /\ truncated = FALSE
  BY DEF Init
<1>3. Typed
  BY <1>1, <1>2 DEF Typed
<1>4. Conserved
  BY <1>1, <1>2 DEF Conserved
<1>5. EndIsFinal /\ ReaderDone /\ CallInStep
  BY DEF Init, EndIsFinal, ReaderDone, CallInStep
<1>6. TruncationNoted
  BY <1>2, RunnerAssumption DEF TruncationNoted
<1> QED
  BY <1>3, <1>4, <1>5, <1>6 DEF OutputInv

(* The first n pieces leave a buffer that has them.                        *)
LEMMA Rest ==
  ASSUME NEW s \in Seq(Piece), NEW n \in Nat, n <= Len(s)
  PROVE  /\ SubSeq(s, n + 1, Len(s)) \in Seq(Piece)
         /\ Len(SubSeq(s, n + 1, Len(s))) = Len(s) - n
  OBVIOUS

(* A line that is kept.                                                    *)
LEMMA KeepOutput ==
  ASSUME OutputInv, reader = "reading", buffer # <<>>, Keep(1), UNCHANGED <<call, processes, chosen>>
  PROVE  OutputInv'
<1>1. buffer \in Seq(Piece) /\ Len(buffer) \in Nat /\ Len(buffer) >= 1
      /\ pipe \in Seq(Piece) /\ Len(pipe) \in Nat /\ taken \in Nat /\ written \in Nat
      /\ taken + Len(buffer) + Len(pipe) = written
  BY DEF OutputInv, Typed, Conserved
<1>2. /\ buffer' = SubSeq(buffer, 1 + 1, Len(buffer)) /\ pipe' = pipe /\ eof' = eof
      /\ taken' = taken + 1 /\ reader' = "reading" /\ written' = written
      /\ pc' = pc /\ child' = child /\ keeper' = keeper
      /\ truncated' = (truncated \/ taken + 1 > MaxOutput)
  BY DEF Keep, Consume, call, processes
<1>3. buffer' \in Seq(Piece) /\ Len(buffer') = Len(buffer) - 1
  BY <1>1, <1>2, Rest
<1>4. Typed'
  BY <1>1, <1>2, <1>3 DEF Typed
<1>5. Conserved'
  <2> DEFINE b == Len(buffer)   b2 == Len(buffer')   p == Len(pipe)
  <2>1. b \in Nat /\ p \in Nat /\ b2 = b - 1 /\ taken + b + p = written
    BY <1>1, <1>3
  <2>2. Len(pipe') = p
    BY <1>2
  <2> HIDE DEF b, b2, p
  <2>3. taken' + b2 + p = written'
    BY <2>1, <1>1, <1>2
  <2> QED
    BY <2>2, <2>3 DEF Conserved, b2
<1>6. TruncationNoted'
  <2>1. truncated <=> taken > MaxOutput
    BY DEF OutputInv, TruncationNoted
  <2>2. taken \in Nat /\ MaxOutput \in Nat
    BY <1>1, RunnerAssumption
  <2>3. taken' = taken + 1 /\ truncated' = (truncated \/ taken + 1 > MaxOutput)
    BY <1>2
  <2>4. (truncated \/ taken + 1 > MaxOutput) <=> taken + 1 > MaxOutput
    BY <2>1, <2>2
  <2> QED
    BY <2>3, <2>4, Zenon DEF TruncationNoted
<1>7. EndIsFinal'
  <2> DEFINE empty == <<>>
  <2>1. eof => pipe = empty /\ child # "running" /\ keeper # "alive"
    BY DEF OutputInv, EndIsFinal, Held
  <2>2. eof' => pipe' = empty /\ child' # "running" /\ keeper' # "alive"
    <3> HIDE DEF empty
    <3> QED
      BY <1>2, <2>1
  <2> QED
    BY <2>2 DEF EndIsFinal, Held
<1>8. ReaderDone' /\ CallInStep'
  BY <1>2 DEF OutputInv, ReaderDone, CallInStep
<1> QED
  BY <1>4, <1>5, <1>6, <1>7, <1>8 DEF OutputInv

(* A line that is too long: from here on only the end of the pipe and the  *)
(* size of what was kept matter.                                           *)
LEMMA RaiseOutput ==
  ASSUME OutputInv, reader = "reading", NEW n, Raise(n), UNCHANGED <<call, processes, chosen>>
  PROVE  OutputInv'
<1>1. /\ reader' = "raised" /\ pipe' = pipe /\ eof' = eof
      /\ taken' = taken /\ truncated' = truncated /\ written' = written
      /\ pc' = pc /\ child' = child /\ keeper' = keeper
  BY DEF Raise, Consume, call, processes
<1>2. Typed' /\ Conserved' /\ ReaderDone' /\ TruncationNoted'
  BY <1>1 DEF OutputInv, Typed, Conserved, ReaderDone, TruncationNoted
<1>3. EndIsFinal'
  BY <1>1 DEF OutputInv, EndIsFinal, Held
<1>4. CallInStep'
  BY <1>1 DEF OutputInv, CallInStep
<1> QED
  BY <1>2, <1>3, <1>4 DEF OutputInv

(* read_output takes a line, raises, or comes to the end.                  *)
LEMMA ReadOutput ==
  ASSUME OutputInv, ReadLine
  PROVE  OutputInv'
<1>1. reader = "reading" /\ UNCHANGED <<call, processes, chosen>>
  BY DEF ReadLine
<1>2. buffer \in Seq(Piece)
  BY <1>1 DEF OutputInv, Typed
<1>3. LineEnds # {} => buffer # <<>>
  BY <1>2 DEF LineEnds
<1>4. CASE LineEnds # {} /\ FirstEnd = 1 /\ Keep(1)
  BY <1>1, <1>3, <1>4, KeepOutput
<1>5. CASE LineEnds = {} /\ Len(buffer) = 1 /\ eof /\ Keep(1)
  <2>1. buffer # <<>>
    BY <1>2, <1>5
  <2> QED
    BY <1>1, <1>5, <2>1, KeepOutput
<1>6. CASE Raise(FirstEnd) \/ Raise(Len(buffer))
  BY <1>1, <1>6, RaiseOutput
<1>7. CASE buffer = <<>> /\ eof /\ reader' = "done" /\ UNCHANGED <<taken, truncated, stream>>
  <2>1. UNCHANGED <<taken, truncated, pipe, buffer, eof, written, pc, child, keeper>>
    BY <1>1, <1>7 DEF stream, call, processes
  <2>2. Typed' /\ Conserved' /\ TruncationNoted'
    BY <1>1, <2>1 DEF OutputInv, Typed, Conserved, TruncationNoted
  <2>3. EndIsFinal' /\ ReaderDone'
    BY <1>7, <2>1 DEF OutputInv, EndIsFinal, ReaderDone, Held
  <2>4. CallInStep'
    BY <1>1, <1>7, <2>1 DEF OutputInv, CallInStep
  <2> QED
    BY <2>2, <2>3, <2>4 DEF OutputInv
<1> QED
  BY <1>1, <1>4, <1>5, <1>6, <1>7 DEF ReadLine

(* A process writes.                                                       *)
LEMMA WriteOutput ==
  ASSUME OutputInv, Writes
  PROVE  OutputInv'
<1>1. PICK x \in Piece : pipe' = Append(pipe, x)
  BY DEF Writes
<1>2. /\ Held /\ written' = written + 1
      /\ UNCHANGED <<pc, reader, taken, truncated, buffer, eof, child, keeper>>
  BY DEF Writes, call, output
<1>3. pipe \in Seq(Piece) /\ Len(pipe) \in Nat /\ taken \in Nat /\ written \in Nat
  BY DEF OutputInv, Typed
<1>4. pipe' \in Seq(Piece) /\ Len(pipe') = Len(pipe) + 1
  BY <1>1, <1>3
<1>5. Typed' /\ TruncationNoted'
  BY <1>2, <1>3, <1>4 DEF OutputInv, Typed, TruncationNoted
<1>6. Conserved'
  <2>1. CASE reader = "raised"
    BY <1>2, <2>1 DEF Conserved
  <2>2. CASE reader # "raised"
    <3>1. Len(buffer) \in Nat /\ taken + Len(buffer) + Len(pipe) = written
      BY <2>2 DEF OutputInv, Typed, Conserved
    <3>2. taken + Len(buffer) + (Len(pipe) + 1) = written + 1
      BY <1>3, <3>1
    <3> QED
      BY <1>2, <1>4, <3>2 DEF Conserved
  <2> QED
    BY <2>1, <2>2
<1>7. EndIsFinal' /\ ReaderDone' /\ CallInStep'
  <2>1. ~eof
    BY <1>2 DEF OutputInv, EndIsFinal
  <2> QED
    BY <1>2, <2>1 DEF OutputInv, EndIsFinal, ReaderDone, CallInStep
<1> QED
  BY <1>5, <1>6, <1>7 DEF OutputInv

(* The transport moves the first pieces of the pipe into the buffer.       *)
LEMMA FeedOutput ==
  ASSUME OutputInv, Fed
  PROVE  OutputInv'
<1>1. PICK n \in 1..Len(pipe) : /\ buffer' = buffer \o SubSeq(pipe, 1, n)
                                /\ pipe' = SubSeq(pipe, n + 1, Len(pipe))
  BY DEF Fed
<1>2. UNCHANGED <<pc, reader, taken, truncated, eof, child, keeper, written>>
  BY DEF Fed, call, output, processes
<1>3. pipe \in Seq(Piece) /\ Len(pipe) \in Nat /\ n \in Nat /\ n >= 1 /\ n <= Len(pipe)
  BY DEF OutputInv, Typed
<1>4. SubSeq(pipe, 1, n) \in Seq(Piece) /\ Len(SubSeq(pipe, 1, n)) = n
  BY <1>3
<1>5. pipe' \in Seq(Piece) /\ Len(pipe') = Len(pipe) - n
  BY <1>1, <1>3, Rest
<1>6. ~eof
  BY <1>3 DEF OutputInv, EndIsFinal
<1>7. EndIsFinal' /\ ReaderDone' /\ CallInStep' /\ TruncationNoted'
  BY <1>2, <1>6 DEF OutputInv, EndIsFinal, ReaderDone, CallInStep, TruncationNoted
<1>8. CASE reader = "raised"
  <2>1. Typed' /\ Conserved'
    BY <1>2, <1>5, <1>8 DEF OutputInv, Typed, Conserved
  <2> QED
    BY <1>7, <2>1 DEF OutputInv
<1>9. CASE reader # "raised"
  <2>1. /\ buffer \in Seq(Piece) /\ Len(buffer) \in Nat /\ taken \in Nat
        /\ taken + Len(buffer) + Len(pipe) = written
    BY <1>9 DEF OutputInv, Typed, Conserved
  <2>2. buffer' \in Seq(Piece) /\ Len(buffer') = Len(buffer) + n
    BY <1>1, <1>4, <2>1
  <2>3. Typed'
    BY <1>2, <1>5, <2>2 DEF OutputInv, Typed
  <2>4. taken + (Len(buffer) + n) + (Len(pipe) - n) = written
    BY <1>3, <2>1
  <2>5. Conserved'
    BY <1>2, <1>5, <2>2, <2>4 DEF Conserved
  <2> QED
    BY <1>7, <2>3, <2>5 DEF OutputInv
<1> QED
  BY <1>8, <1>9

(* The end of the pipe, and what becomes of the processes.                 *)
LEMMA EndOutput ==
  ASSUME OutputInv,
         PipeCloses \/ LeavesProcess \/ KeeperEnds \/ Exits \/ Reaped
  PROVE  OutputInv'
<1>1. UNCHANGED <<pc, reader, taken, truncated, pipe, buffer, written>>
  <2>1. CASE PipeCloses
    BY <2>1, Zenon DEF PipeCloses, call, output, processes
  <2>2. CASE LeavesProcess \/ KeeperEnds \/ Exits \/ Reaped
    BY <2>2, Zenon DEF LeavesProcess, KeeperEnds, Exits, Reaped, call, output, stream
  <2> QED
    BY <2>1, <2>2
<1>2. Typed' /\ Conserved' /\ TruncationNoted'
  BY <1>1 DEF OutputInv, Typed, Conserved, TruncationNoted
<1>3. EndIsFinal'
  BY <1>1 DEF OutputInv, EndIsFinal, Held, PipeCloses, LeavesProcess, KeeperEnds, Exits, Reaped,
              stream, processes
<1>4. ReaderDone'
  BY <1>1 DEF OutputInv, ReaderDone, PipeCloses, LeavesProcess, KeeperEnds, Exits, Reaped, stream
<1>5. CallInStep'
  BY <1>1 DEF OutputInv, CallInStep, PipeCloses, LeavesProcess, KeeperEnds, Exits, Reaped, processes
<1> QED
  BY <1>2, <1>3, <1>4, <1>5 DEF OutputInv

(* The call itself touches neither the output nor the processes.           *)
LEMMA CallOutput ==
  ASSUME OutputInv, Expires \/ StopAsked \/ CallGoesOn \/ Cancelled
  PROVE  OutputInv'
<1>1. UNCHANGED <<reader, taken, truncated, pipe, buffer, eof, child, keeper, written>>
  BY DEF Expires, StopAsked, CallGoesOn, Poll, GracePasses, Waited, Drained, Cancelled,
         output, stream, processes
<1>2. Typed' /\ Conserved' /\ TruncationNoted'
  BY <1>1 DEF OutputInv, Typed, Conserved, TruncationNoted
<1>3. EndIsFinal' /\ ReaderDone'
  BY <1>1 DEF OutputInv, EndIsFinal, ReaderDone, Held
<1>4. CallInStep'
  BY <1>1 DEF OutputInv, CallInStep, Expires, StopAsked, CallGoesOn, Poll, Terminate, GracePasses,
              Waited, Drained, Cancelled, WaitDone, Over
<1> QED
  BY <1>2, <1>3, <1>4 DEF OutputInv

(* Every step keeps the invariant of the output.                           *)
LEMMA NextOutput == OutputInv /\ [Next]_vars => OutputInv'
<1> SUFFICES ASSUME OutputInv, [Next]_vars PROVE OutputInv'
  OBVIOUS
<1>1. CASE UNCHANGED vars
  BY <1>1 DEF vars, call, output, stream, processes, OutputInv, Typed, Conserved, EndIsFinal,
              ReaderDone, TruncationNoted, CallInStep, Held
<1> QED
  BY <1>1, WriteOutput, FeedOutput, ReadOutput, EndOutput, CallOutput DEF Next

(* A call that returns has all the output of a command that is gone,       *)
(* whatever the command wrote, left behind or ignored, and whenever the    *)
(* timeout, the stop signal or the end of the command came.                *)
THEOREM ResultsComplete == Spec => []ResultComplete
<1>1. OutputInv => ResultComplete
  <2> SUFFICES ASSUME OutputInv, pc = "returned" PROVE child = "reaped" /\ taken = written
                 /\ (truncated <=> written > MaxOutput)
    BY DEF ResultComplete
  <2>1. child = "reaped" /\ reader = "done" /\ buffer = <<>> /\ pipe = <<>>
    BY DEF OutputInv, CallInStep, ReaderDone, EndIsFinal
  <2>2. taken + Len(buffer) + Len(pipe) = written /\ taken \in Nat
    BY <2>1 DEF OutputInv, Conserved, Typed
  <2>3. Len(buffer) = 0 /\ Len(pipe) = 0
    BY <2>1
  <2>4. taken = written
    BY <2>2, <2>3
  <2> QED
    BY <2>1, <2>4 DEF OutputInv, TruncationNoted
<1> QED
  BY InitOutput, NextOutput, <1>1, PTL DEF Spec
=============================================================================

---------------------------- MODULE ShellRunner ----------------------------
(***************************************************************************)
(* _run_process of tools/shell.py, which the tools shell and code_run      *)
(* share: the call that polls, terminates and waits, its reader task, and  *)
(* around them the pipe and its StreamReader, the command, and a process   *)
(* the command may leave behind with the pipe open.                        *)
(* Output is counted in pieces of the longest line the StreamReader takes. *)
(***************************************************************************)
EXTENDS Naturals, Sequences, FiniteSets

CONSTANTS
  PipeSize,   \* pieces the pipe holds
  MaxOutput,  \* max_output_chars, in pieces
  MaxPieces   \* bound: pieces that are written

ASSUME RunnerAssumption == PipeSize \in Nat \ {0} /\ MaxOutput \in Nat /\ MaxPieces \in Nat

VARIABLES
  pc,         \* where the call is
  verdict,    \* timed_out, stopped, or neither
  expired,    \* the timeout has elapsed
  stop,       \* what stop_signal() says
  reader,     \* the task read_output
  taken,      \* pieces it has taken
  truncated,  \* ... and whether it dropped some
  pipe, buffer, paused, eof,   \* the pipe and the StreamReader on it
  child,      \* the command: running, a zombie, or reaped by the loop
  signal,     \* the last signal it got
  keeper,     \* a process of the command that holds the pipe as well
  written,    \* history: pieces written
  polite,     \* the command ends when it gets SIGTERM
  waitsForPipe  \* Process.wait() of this Python returns only after the pipe is closed

call == <<pc, verdict, expired, stop>>
output == <<reader, taken, truncated>>
stream == <<pipe, buffer, paused, eof>>
processes == <<child, signal, keeper, written>>
chosen == <<polite, waitsForPipe>>
vars == <<call, output, stream, processes, chosen>>

Piece == {"part", "end"}   \* "end" is the last piece of a line

Init ==
  /\ pc = "polling" /\ verdict = "none" /\ expired = FALSE /\ stop = FALSE
  /\ reader = "reading" /\ taken = 0 /\ truncated = FALSE
  /\ pipe = <<>> /\ buffer = <<>> /\ paused = FALSE /\ eof = FALSE
  /\ child = "running" /\ signal = "none" /\ keeper = "none" /\ written = 0
  /\ polite \in BOOLEAN /\ waitsForPipe \in BOOLEAN

-----------------------------------------------------------------------------
(* The command and what it leaves behind.                                  *)

Held == child = "running" \/ keeper = "alive"

Writes ==
  /\ Held /\ Len(pipe) < PipeSize /\ written < MaxPieces
  /\ \E p \in Piece : pipe' = Append(pipe, p)
  /\ written' = written + 1
  /\ UNCHANGED <<call, output, buffer, paused, eof, child, signal, keeper, chosen>>

LeavesProcess ==
  /\ child = "running" /\ keeper = "none" /\ keeper' = "alive"
  /\ UNCHANGED <<call, output, stream, child, signal, written, chosen>>

KeeperEnds ==
  /\ keeper = "alive" /\ keeper' = "gone"
  /\ UNCHANGED <<call, output, stream, child, signal, written, chosen>>

Exits ==
  /\ child = "running" /\ child' = "zombie"
  /\ UNCHANGED <<call, output, stream, signal, keeper, written, chosen>>

Obeys == (signal = "kill" \/ (signal = "term" /\ polite)) /\ Exits

-----------------------------------------------------------------------------
(* The event loop: the watcher of the child and the transport of the pipe. *)

Reaped ==
  /\ child = "zombie" /\ child' = "reaped"
  /\ UNCHANGED <<call, output, stream, signal, keeper, written, chosen>>

(* feed_data: the transport is paused once the buffer has twice its limit. *)
Fed ==
  /\ ~paused
  /\ \E n \in 1..Len(pipe) :
       /\ buffer' = buffer \o SubSeq(pipe, 1, n)
       /\ pipe' = SubSeq(pipe, n + 1, Len(pipe))
  /\ paused' = (Len(buffer') > 2)
  /\ UNCHANGED <<call, output, eof, processes, chosen>>

(* A paused transport does not learn that the pipe was closed.             *)
PipeCloses ==
  /\ ~paused /\ ~eof /\ pipe = <<>> /\ ~Held
  /\ eof' = TRUE
  /\ UNCHANGED <<call, output, pipe, buffer, paused, processes, chosen>>

-----------------------------------------------------------------------------
(* read_output.                                                            *)

LineEnds == {i \in DOMAIN buffer : buffer[i] = "end"}
FirstEnd == CHOOSE i \in LineEnds : \A j \in LineEnds : i <= j

(* The first n pieces leave the buffer, which may resume the transport.    *)
Consume(n) ==
  /\ buffer' = SubSeq(buffer, n + 1, Len(buffer))
  /\ paused' = (paused /\ Len(buffer') > 1)
  /\ UNCHANGED <<pipe, eof>>

(* A line: what is beyond max_output_chars is dropped.                     *)
Keep(n) ==
  /\ Consume(n)
  /\ taken' = taken + n
  /\ truncated' = (truncated \/ taken + n > MaxOutput)
  /\ UNCHANGED reader

(* readline raises ValueError at a line beyond the limit, and with it the  *)
(* task.                                                                   *)
Raise(n) == Consume(n) /\ reader' = "raised" /\ UNCHANGED <<taken, truncated>>

ReadLine ==
  /\ reader = "reading"
  /\ \/ LineEnds # {} /\ FirstEnd = 1 /\ Keep(1)
     \/ LineEnds # {} /\ FirstEnd > 1 /\ Raise(FirstEnd)
     \/ LineEnds = {} /\ Len(buffer) > 1 /\ Raise(Len(buffer))
     \/ LineEnds = {} /\ Len(buffer) = 1 /\ eof /\ Keep(1)
     \/ buffer = <<>> /\ eof /\ reader' = "done" /\ UNCHANGED <<taken, truncated, stream>>
  /\ UNCHANGED <<call, processes, chosen>>

-----------------------------------------------------------------------------
(* The call.                                                               *)

(* wait_task is done.                                                      *)
WaitDone == child = "reaped" /\ (waitsForPipe => eof)

Over == pc \in {"returned", "raised", "cancelled"}

Expires ==
  /\ ~expired /\ expired' = TRUE
  /\ UNCHANGED <<pc, verdict, stop, output, stream, processes, chosen>>

StopAsked ==
  /\ ~stop /\ stop' = TRUE
  /\ UNCHANGED <<pc, verdict, expired, output, stream, processes, chosen>>

(* The head of _terminate: SIGTERM, unless the loop has reaped the child.  *)
Terminate(why) ==
  /\ pc' = "terminating" /\ verdict' = why
  /\ signal' = IF child = "reaped" THEN signal ELSE "term"

Poll ==
  /\ pc = "polling"
  /\ \/ WaitDone /\ pc' = "draining" /\ UNCHANGED <<verdict, signal>>
     \/ ~WaitDone /\ stop /\ Terminate("stopped")
     \/ ~WaitDone /\ ~stop /\ expired /\ Terminate("timed_out")
  /\ UNCHANGED <<expired, stop, output, stream, child, keeper, written, chosen>>

(* Mutant: a command that ignores SIGTERM is left to itself.               *)
GracePassesGently ==
  /\ pc = "terminating" /\ pc' = "waiting"
  /\ UNCHANGED <<verdict, expired, stop, output, stream, processes, chosen>>

(* The second for which wait_for shields wait_task.                        *)
GracePasses ==
  /\ pc = "terminating" /\ pc' = "waiting"
  /\ signal' = IF ~WaitDone /\ child # "reaped" THEN "kill" ELSE signal
  /\ UNCHANGED <<verdict, expired, stop, output, stream, child, keeper, written, chosen>>

Waited ==
  /\ pc = "waiting" /\ WaitDone /\ pc' = "draining"
  /\ UNCHANGED <<verdict, expired, stop, output, stream, processes, chosen>>

(* Mutant: the output is taken as it is when the command has ended.        *)
DrainedAtOnce ==
  /\ pc = "draining" /\ pc' = "returned"
  /\ UNCHANGED <<verdict, expired, stop, output, stream, processes, chosen>>

(* await reader_task: its ValueError becomes the result of the tool.       *)
Drained ==
  /\ pc = "draining"
  /\ \/ reader = "done" /\ pc' = "returned"
     \/ reader = "raised" /\ pc' = "raised"
  /\ UNCHANGED <<verdict, expired, stop, output, stream, processes, chosen>>

(* The gateway cancels the task, at a shutdown: nobody ends the command.   *)
Cancelled ==
  /\ ~Over /\ pc' = "cancelled"
  /\ UNCHANGED <<verdict, expired, stop, output, stream, processes, chosen>>

CallGoesOn == Poll \/ GracePasses \/ Waited \/ Drained

Next ==
  \/ Writes \/ LeavesProcess \/ KeeperEnds \/ Exits
  \/ Reaped \/ Fed \/ PipeCloses \/ ReadLine
  \/ Expires \/ StopAsked \/ CallGoesOn \/ Cancelled

(* Time passes, the loop runs what is ready, and signals are delivered.    *)
(* Nothing is assumed of the command, nor of what it leaves behind.        *)
Fairness ==
  /\ WF_vars(Expires) /\ WF_vars(CallGoesOn) /\ WF_vars(ReadLine)
  /\ WF_vars(Reaped) /\ WF_vars(Fed) /\ WF_vars(PipeCloses) /\ WF_vars(Obeys)

Spec == Init /\ [][Next]_vars /\ Fairness

-----------------------------------------------------------------------------
(* Properties.                                                             *)

(* A call that returns has a command that was reaped, and all that was     *)
(* ever written, or as much of it as the limit allows and a note of it,    *)
(* whoever ended the command.                                              *)
ResultComplete ==
  pc = "returned" =>
    /\ child = "reaped"
    /\ taken = written
    /\ truncated <=> written > MaxOutput

(* The call ends, also when the command ignores SIGTERM, fills the pipe or *)
(* ends at any moment, except that                                         *)
(*  - a process it left behind may keep the pipe open for ever;            *)
(*  - a line that is too long may end the reader, after which a buffer     *)
(*    that fills up pauses the transport and nobody resumes it.            *)
Unread == waitsForPipe /\ reader = "raised" /\ paused
CallEnds == <>Over \/ <>[](keeper = "alive" \/ Unread)

-----------------------------------------------------------------------------
(* docs/ARCHITECTURE.md:117: the tool supports a timeout ("[Timeout]       *)
(* process killed after ..."): once it has elapsed the call ends.          *)
TimeoutEnds == expired ~> Over
=============================================================================
